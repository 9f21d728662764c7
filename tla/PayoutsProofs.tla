---------------------------- MODULE PayoutsProofs ----------------------------
(***************************************************************************)
(* Theorems about Payouts, for every set of partners, rewards, payouts and *)
(* overlapping executions of the job.                                      *)
(***************************************************************************)
EXTENDS Payouts, FiniteSetTheorems, TLAPS

USE ConstantsAssumption DEF tables

\* A reward is stamped once: approve leaves "pending" and nothing returns to it.
PendingUnstamped ==
    \A r \in Reward : rewardStatus[r] = "pending" => approvedAt[r] = NoDate

\* What an execution of the job holds in memory stays valid while it waits: the
\* rewards it fetched have matured, and it knows a key for the payouts it makes.
BatchHeld ==
    \A j \in Runner : \A r \in run[j].batch : HoldElapsed(r)

KeysRead ==
    \A j \in Runner :
        /\ j \in Worker => \A r \in run[j].batch : run[j].keys[Owner[r]] # NoKey
        /\ run[j].step \in {"read_key", "insert"} =>
              \E r \in run[j].batch : run[j].partner = Owner[r]
        /\ run[j].step = "insert" => run[j].keys[run[j].partner] # NoKey

IInv ==
    /\ TypeOK
    /\ PendingUnstamped
    /\ BatchHeld
    /\ KeysRead
    /\ HeldLongEnough

-----------------------------------------------------------------------------
(* Facts about the helpers of the job.                                     *)

LEMMA AdvanceType ==
    ASSUME TypeOK, NEW j \in Runner, NEW p \in Partner, Advance(j, p)
    PROVE  run' \in [Runner -> RunState]
<1>1. IdleRun \in RunState
  BY DEF IdleRun, NoKeys, RunState
<1> DEFINE rest == {r \in run[j].batch : Owner[r] # p}
           next == [step |-> "loop", batch |-> rest, partner |-> NoPartner,
                    keys |-> [run[j].keys EXCEPT ![p] = NoKey]]
<1>2. run[j] \in RunState
  BY DEF TypeOK
<1>3. next \in RunState
  BY <1>2 DEF RunState
<1>4. run' = [run EXCEPT ![j] = IF rest = {} THEN IdleRun ELSE next]
  BY DEF Advance
<1> HIDE DEF next, rest
<1>5. QED
  BY <1>1, <1>3, <1>4 DEF TypeOK

LEMMA StartLoopType ==
    ASSUME TypeOK, NEW j \in Runner, NEW batch \in SUBSET Reward,
           NEW keys \in [Partner -> Key \cup {NoKey}], StartLoop(j, batch, keys)
    PROVE  TypeOK'
<1>1. [step |-> "loop", batch |-> batch, partner |-> NoPartner, keys |-> keys] \in RunState
  BY DEF RunState
<1>2. QED
  BY <1>1 DEF StartLoop, TypeOK

LEMMA NewPayoutType ==
    ASSUME TypeOK, NEW j \in Runner
    PROVE  run[j].partner \in Partner => NewPayout(j) \in PayoutRow
<1>1. run[j] \in RunState
  BY DEF TypeOK
<1>2. QED
  BY <1>1 DEF NewPayout, PayoutRow, PayoutStatus, RunState

LEMMA InitTypeOK == Init => TypeOK
  BY DEF Init, TypeOK, RewardStatus, NoRow, PayoutRow, PayoutStatus, IdleRun, NoKeys, RunState

LEMMA NextTypeOK == TypeOK /\ KeysRead /\ [Next]_vars => TypeOK'
<1> SUFFICES ASSUME TypeOK, KeysRead, [Next]_vars PROVE TypeOK'
  OBVIOUS
<1>1. ASSUME NEW r \in Reward, Approve(r) PROVE TypeOK'
  BY <1>1 DEF Approve, TypeOK, RewardStatus
<1>2. ASSUME NEW r \in Reward, Reject(r) PROVE TypeOK'
  BY <1>2 DEF Reject, TypeOK, RewardStatus
<1>3. ASSUME NEW p \in Partner, UpdatePixKey(p) PROVE TypeOK'
  BY <1>3 DEF UpdatePixKey, TypeOK
<1>4. ASSUME NEW p \in Partner, EraseData(p) PROVE TypeOK'
  BY <1>4 DEF EraseData, TypeOK
<1>5. ASSUME NEW j \in Runner, RunCreatePayoutsJob(j) PROVE TypeOK'
  BY <1>5, StartLoopType DEF RunCreatePayoutsJob, TypeOK
<1>6. ASSUME NEW j \in Runner, CreatePayoutsJob(j) PROVE TypeOK'
  BY <1>6, StartLoopType DEF CreatePayoutsJob, NoKeys
<1>7. ASSUME NEW j \in Runner, NEW p \in Partner, SkipPartner(j, p) PROVE TypeOK'
  BY <1>7, AdvanceType DEF SkipPartner, TypeOK
<1>8. ASSUME NEW j \in Runner, NEW p \in Partner, CheckPendingPayout(j, p) PROVE TypeOK'
  <2> DEFINE next == [run[j] EXCEPT !.step = IF j \in Worker THEN "insert" ELSE "read_key",
                                    !.partner = p]
  <2>1. run[j] \in RunState
    BY DEF TypeOK
  <2>2. next \in RunState
    BY <2>1 DEF RunState
  <2>3. run' = [run EXCEPT ![j] = next]
    BY <1>8 DEF CheckPendingPayout
  <2> HIDE DEF next
  <2>4. QED
    BY <1>8, <2>2, <2>3 DEF CheckPendingPayout, TypeOK
<1>9. ASSUME NEW j \in Runner, NEW p \in Partner, StatementFails(j, p) PROVE TypeOK'
  BY <1>9, AdvanceType DEF StatementFails, TypeOK
<1>10. ASSUME NEW j \in Runner, ReadPixKey(j) PROVE TypeOK'
  <2>1. run[j] \in RunState /\ run[j].partner \in Partner
    BY <1>10 DEF ReadPixKey, KeysRead, TypeOK, RunState
  <2>2. CASE pixKey[run[j].partner] = NoKey
    BY <1>10, <2>1, <2>2, AdvanceType DEF ReadPixKey, TypeOK
  <2>3. CASE pixKey[run[j].partner] # NoKey
    <3> DEFINE p == run[j].partner
               next == [run[j] EXCEPT !.step = "insert", !.keys[p] = pixKey[p]]
    <3>1. pixKey[p] \in Key \cup {NoKey}
      BY <2>1 DEF TypeOK
    <3>2. next \in RunState
      BY <2>1, <3>1 DEF RunState
    <3>3. run' = [run EXCEPT ![j] = next]
      BY <1>10, <2>3 DEF ReadPixKey
    <3> HIDE DEF next
    <3>4. QED
      BY <1>10, <3>2, <3>3 DEF ReadPixKey, TypeOK
  <2>4. QED
    BY <2>2, <2>3
<1>11. ASSUME NEW j \in Runner, InsertPayout(j) PROVE TypeOK'
  <2>1. run[j].partner \in Partner
    BY <1>11 DEF InsertPayout, KeysRead, TypeOK, RunState
  <2>2. run' \in [Runner -> RunState]
    BY <1>11, <2>1, AdvanceType DEF InsertPayout
  <2>3. payout' \in [Payout -> PayoutRow]
    BY <1>11, <2>1, NewPayoutType DEF InsertPayout, TypeOK
  <2>4. QED
    BY <1>11, <2>2, <2>3 DEF InsertPayout, TypeOK
<1>12. ASSUME NEW j \in Runner, Crash(j) PROVE TypeOK'
  BY <1>12 DEF Crash, TypeOK, IdleRun, NoKeys, RunState
<1>13. ASSUME NEW q \in Payout, Confirm(q) \/ Paid(q) \/ Cancel(q) PROVE TypeOK'
  BY <1>13 DEF Confirm, Paid, Cancel, SetPayout, SetRewards, TypeOK, PayoutRow, PayoutStatus, RewardStatus
<1>14. CASE NextDay
  BY <1>14 DEF NextDay, TypeOK
<1>15. CASE UNCHANGED vars
  BY <1>15 DEF vars, TypeOK
<1>16. QED
  BY <1>1, <1>2, <1>3, <1>4, <1>5, <1>6, <1>7, <1>8, <1>9, <1>10, <1>11, <1>12,
     <1>13, <1>14, <1>15 DEF Next, Review, PartnerData, Job, Loop, Pay

-----------------------------------------------------------------------------
(* The inductive invariant: each conjunct on its own.                      *)

LEMMA NextPendingUnstamped == IInv /\ [Next]_vars => PendingUnstamped'
<1> SUFFICES ASSUME IInv, [Next]_vars PROVE PendingUnstamped'
  OBVIOUS
<1> USE DEF IInv, PendingUnstamped, TypeOK
<1>1. ASSUME NEW r \in Reward, Approve(r) \/ Reject(r) PROVE PendingUnstamped'
  BY <1>1 DEF Approve, Reject
<1>2. ASSUME NEW q \in Payout, Confirm(q) \/ Paid(q) \/ Cancel(q) PROVE PendingUnstamped'
  BY <1>2 DEF Confirm, Paid, Cancel, SetPayout, SetRewards
<1>3. CASE UNCHANGED <<rewardStatus, approvedAt>>
  BY <1>3
<1>4. QED
  BY <1>1, <1>2, <1>3 DEF Next, Review, PartnerData, Job, Loop, Pay, NextDay, vars,
     UpdatePixKey, EraseData, RunCreatePayoutsJob, CreatePayoutsJob, StartLoop, SkipPartner,
     CheckPendingPayout, StatementFails, ReadPixKey, InsertPayout, Crash

\* Once a reward's hold has elapsed it stays elapsed: only a pending reward is
\* stamped, and a pending reward has no stamp.
LEMMA HoldElapsedStable ==
    ASSUME IInv, [Next]_vars, NEW r \in Reward, HoldElapsed(r)
    PROVE  HoldElapsed(r)'
<1> USE DEF IInv, PendingUnstamped, TypeOK, HoldElapsed
<1>1. ASSUME NEW s \in Reward, Approve(s) PROVE HoldElapsed(r)'
  BY <1>1 DEF Approve
<1>2. CASE NextDay
  BY <1>2 DEF NextDay
<1>3. CASE UNCHANGED <<approvedAt, today>>
  BY <1>3
<1>4. QED
  BY <1>1, <1>2, <1>3 DEF Next, Review, PartnerData, Job, Loop, Pay, vars, Reject,
     UpdatePixKey, EraseData, RunCreatePayoutsJob, CreatePayoutsJob, StartLoop, SkipPartner,
     CheckPendingPayout, StatementFails, ReadPixKey, InsertPayout, Crash, Confirm, Paid, Cancel

\* Which steps touch the memory of the job.
RunChange(i) ==
    \/ RunCreatePayoutsJob(i) \/ CreatePayoutsJob(i) \/ ReadPixKey(i) \/ Crash(i)
    \/ \E p : Advance(i, p) \/ CheckPendingPayout(i, p)

LEMMA RunStep == [Next]_vars => UNCHANGED run \/ \E i \in Runner : RunChange(i)
<1> SUFFICES ASSUME [Next]_vars, ~UNCHANGED run PROVE \E i \in Runner : RunChange(i)
  OBVIOUS
<1>1. Job
  BY DEF Next, Review, PartnerData, Pay, vars, Approve, Reject, UpdatePixKey, EraseData,
     NextDay, Confirm, Paid, Cancel
<1>2. QED
  BY <1>1 DEF Job, Loop, RunChange, SkipPartner, StatementFails, InsertPayout

\* A batch only shrinks, except when the query of an idle execution fills it with eligible
\* rewards; the others, and the tables, are as they were then.
Starts(j) ==
    /\ run[j].step = "idle" /\ run'[j].step = "loop"
    /\ run'[j].batch \subseteq {r \in Reward : Eligible(r)}
    /\ \A i \in Runner \ {j} : run'[i] = run[i]
    /\ UNCHANGED <<rewardStatus, approvedAt, payout, today>>

LEMMA StartIs ==
    ASSUME TypeOK, NEW i \in Runner, RunCreatePayoutsJob(i) \/ CreatePayoutsJob(i)
    PROVE  Starts(i)
<1>1. PICK B, K : B \subseteq {r \in Reward : Eligible(r)} /\ StartLoop(i, B, K)
  BY DEF RunCreatePayoutsJob, CreatePayoutsJob
<1>2. run'[i].batch = B /\ run'[i].step = "loop" /\ \A j \in Runner \ {i} : run'[j] = run[j]
  BY <1>1 DEF StartLoop, TypeOK
<1>3. QED
  BY <1>1, <1>2 DEF Starts, StartLoop

LEMMA AdvanceIs ==
    ASSUME TypeOK, NEW i \in Runner, NEW p, Advance(i, p)
    PROVE  /\ run'[i].batch = {r \in run[i].batch : Owner[r] # p}
           /\ \A j \in Runner \ {i} : run'[j] = run[j]
  BY DEF Advance, IdleRun, TypeOK

LEMMA BatchStep ==
    ASSUME TypeOK, [Next]_vars, NEW j \in Runner
    PROVE  run'[j].batch \subseteq run[j].batch \/ Starts(j)
<1> DEFINE Goal == run'[j].batch \subseteq run[j].batch \/ Starts(j)
<1> USE DEF TypeOK
<1>1. ASSUME NEW i \in Runner, RunCreatePayoutsJob(i) \/ CreatePayoutsJob(i) PROVE Goal
  <2>1. Starts(i)
    BY <1>1, StartIs
  <2>2. QED
    BY <2>1 DEF Starts
<1>2. ASSUME NEW i \in Runner, NEW p, Advance(i, p) PROVE Goal
  BY <1>2, AdvanceIs
<1>3. ASSUME NEW i \in Runner, NEW p, CheckPendingPayout(i, p) PROVE Goal
  BY <1>3 DEF CheckPendingPayout
<1>4. ASSUME NEW i \in Runner, ReadPixKey(i) PROVE Goal
  <2>1. CASE Advance(i, run[i].partner)
    BY <2>1, <1>2
  <2>2. CASE ~Advance(i, run[i].partner)
    <3>1. run[i] \in RunState
      OBVIOUS
    <3>2. [run[i] EXCEPT !.step = "insert",
                         !.keys[run[i].partner] = pixKey[run[i].partner]].batch = run[i].batch
      BY <3>1 DEF RunState
    <3>3. run'[i].batch = run[i].batch /\ (i # j => run'[j] = run[j])
      BY <1>4, <2>2, <3>2 DEF ReadPixKey
    <3>4. QED
      BY <3>3
  <2>3. QED
    BY <2>1, <2>2
<1>5. ASSUME NEW i \in Runner, Crash(i) PROVE Goal
  BY <1>5 DEF Crash, IdleRun
<1>6. CASE UNCHANGED run
  BY <1>6
<1> HIDE DEF Goal, TypeOK
<1>7. ASSUME NEW i \in Runner, RunChange(i) PROVE Goal
  BY <1>1, <1>2, <1>3, <1>4, <1>5, <1>7 DEF RunChange
<1>8. QED
  BY <1>6, <1>7, RunStep DEF Goal

LEMMA NextBatchHeld == IInv /\ [Next]_vars => BatchHeld'
<1> SUFFICES ASSUME IInv, [Next]_vars, NEW j \in Runner, NEW r \in run'[j].batch
             PROVE  HoldElapsed(r)'
  BY DEF BatchHeld
<1>1. CASE r \in run[j].batch
  <2>1. r \in Reward
    BY <1>1 DEF IInv, TypeOK, RunState
  <2>2. QED
    BY <1>1, <2>1, HoldElapsedStable DEF IInv, BatchHeld
<1>2. CASE Starts(j)
  BY <1>2, HoldElapsedStable DEF Starts, Eligible
<1>3. QED
  BY <1>1, <1>2, BatchStep DEF IInv

\* Which steps touch the payouts table.
LEMMA PayoutStep ==
    [Next]_vars => \/ UNCHANGED payout
                   \/ \E j \in Runner : InsertPayout(j)
                   \/ \E q \in Payout : Confirm(q) \/ Paid(q) \/ Cancel(q)
<1> SUFFICES ASSUME [Next]_vars, ~UNCHANGED payout, ~Pay
             PROVE  \E j \in Runner : InsertPayout(j)
  BY DEF Pay
<1>1. Job
  BY DEF Next, Review, PartnerData, vars, Approve, Reject, UpdatePixKey, EraseData, NextDay
<1>2. QED
  BY <1>1 DEF Job, Loop, RunCreatePayoutsJob, CreatePayoutsJob, StartLoop, SkipPartner,
     CheckPendingPayout, StatementFails, ReadPixKey, Crash

LEMMA NextHeldLongEnough == IInv /\ [Next]_vars => HeldLongEnough'
<1> SUFFICES ASSUME IInv, [Next]_vars, NEW q \in Payout, NEW r \in Reward, Claims(q, r)'
             PROVE  HoldElapsed(r)'
  BY DEF HeldLongEnough
<1>1. CASE Claims(q, r)
  BY <1>1, HoldElapsedStable DEF IInv, HeldLongEnough
<1>2. CASE ~Claims(q, r)
  <2>1. ASSUME NEW j \in Runner, InsertPayout(j) PROVE r \in run[j].batch
    <3>1. PICK p \in Payout : payout' = [payout EXCEPT ![p] = NewPayout(j)]
      BY <2>1 DEF InsertPayout
    <3>2. r \in NewPayout(j).reward_ids
      BY <3>1, <1>2 DEF Claims, IInv, TypeOK
    <3>3. QED
      BY <3>2 DEF NewPayout
  <2>2. ASSUME NEW p \in Payout, Confirm(p) \/ Paid(p) \/ Cancel(p) PROVE FALSE
    BY <2>2, <1>2 DEF Confirm, Paid, Cancel, SetPayout, Claims, IInv, TypeOK, PayoutRow
  <2>3. payout' # payout
    BY <1>2 DEF Claims
  <2>4. PICK j \in Runner : InsertPayout(j)
    BY <2>2, <2>3, PayoutStep
  <2>5. r \in run[j].batch
    BY <2>1, <2>4
  <2>6. QED
    BY <2>5, HoldElapsedStable DEF IInv, BatchHeld
<1>3. QED
  BY <1>1, <1>2

\* The steps of one execution leave the memory of the others alone, and nothing
\* but the read of the key, which checks it, adds a key while a batch is worked on.
LEMMA NextKeysRead == IInv /\ [Next]_vars => KeysRead'
<1> DEFINE Ok(s, j) ==
        /\ j \in Worker => \A r \in s.batch : s.keys[Owner[r]] # NoKey
        /\ s.step \in {"read_key", "insert"} => \E r \in s.batch : s.partner = Owner[r]
        /\ s.step = "insert" => s.keys[s.partner] # NoKey
<1>1. (KeysRead <=> \A j \in Runner : Ok(run[j], j))
      /\ (KeysRead' <=> \A j \in Runner : Ok(run'[j], j))
  BY DEF KeysRead
<1> SUFFICES ASSUME IInv, [Next]_vars, NEW j \in Runner PROVE Ok(run'[j], j)
  BY <1>1
<1>2. Ok(run[j], j) /\ run[j] \in RunState
  BY <1>1 DEF IInv, TypeOK
<1>3. ASSUME NEW i \in Runner, RunChange(i), i # j PROVE run'[j] = run[j]
  BY <1>3 DEF RunChange, RunCreatePayoutsJob, CreatePayoutsJob, StartLoop, ReadPixKey, Crash,
     Advance, CheckPendingPayout, IInv, TypeOK
<1>4. ASSUME NEW p, Advance(j, p) PROVE Ok(run'[j], j)
  <2> DEFINE rest == {r \in run[j].batch : Owner[r] # p}
             next == [step |-> "loop", batch |-> rest, partner |-> NoPartner,
                      keys |-> [run[j].keys EXCEPT ![p] = NoKey]]
  <2>1. run'[j] = IF rest = {} THEN IdleRun ELSE next
    BY <1>4 DEF Advance, IInv, TypeOK
  <2>2. Ok(IdleRun, j)
    BY DEF IdleRun
  <2>3. Ok(next, j)
    <3>1. rest \subseteq run[j].batch /\ run[j].batch \subseteq Reward
      BY <1>2 DEF RunState
    <3>2. ASSUME NEW r \in rest, j \in Worker
          PROVE  next.keys[Owner[r]] # NoKey
      BY <1>2, <3>1, <3>2 DEF RunState
    <3>3. QED
      BY <3>2
  <2> HIDE DEF rest, next, Ok
  <2>4. QED
    BY <2>1, <2>2, <2>3
<1>5. CASE RunCreatePayoutsJob(j)
  <2>1. PICK B \in SUBSET Reward, K \in [Partner -> Key \cup {NoKey}] :
            StartLoop(j, B, K) /\ \A r \in B : K[Owner[r]] # NoKey
    BY <1>5 DEF RunCreatePayoutsJob, IInv, TypeOK
  <2>2. run'[j] = [step |-> "loop", batch |-> B, partner |-> NoPartner, keys |-> K]
    BY <2>1 DEF StartLoop, IInv, TypeOK
  <2>3. QED
    BY <2>1, <2>2
<1>6. CASE CreatePayoutsJob(j)
  <2>1. j \notin Worker /\ run'[j].step = "loop"
    BY <1>6 DEF CreatePayoutsJob, StartLoop, IInv, TypeOK
  <2>2. QED
    BY <2>1
<1>7. ASSUME NEW p, CheckPendingPayout(j, p) PROVE Ok(run'[j], j)
  <2> DEFINE next == [run[j] EXCEPT !.step = IF j \in Worker THEN "insert" ELSE "read_key",
                                    !.partner = p]
  <2>1. run'[j] = next /\ run[j].step = "loop" /\ \E r \in run[j].batch : p = Owner[r]
    BY <1>7 DEF CheckPendingPayout, Remaining, IInv, TypeOK
  <2>2. Ok(next, j)
    BY <1>2, <2>1 DEF RunState
  <2> HIDE DEF next, Ok
  <2>3. QED
    BY <2>1, <2>2
<1>8. CASE ReadPixKey(j)
  <2> DEFINE p == run[j].partner
             next == [run[j] EXCEPT !.step = "insert", !.keys[p] = pixKey[p]]
  <2>1. CASE Advance(j, p)
    BY <2>1, <1>4
  <2>2. CASE ~Advance(j, p)
    <3>1. run'[j] = next /\ run[j].step = "read_key" /\ pixKey[p] # NoKey
      BY <1>8, <2>2 DEF ReadPixKey, IInv, TypeOK
    <3>2. p \in Partner
      BY <1>2, <3>1 DEF IInv, TypeOK, RunState
    <3>3. Ok(next, j)
      BY <1>2, <3>1, <3>2 DEF RunState, IInv, TypeOK
    <3> HIDE DEF next, Ok
    <3>4. QED
      BY <3>1, <3>3
  <2>3. QED
    BY <2>1, <2>2
<1>9. CASE Crash(j)
  BY <1>9 DEF Crash, IdleRun, IInv, TypeOK
<1> HIDE DEF Ok
<1>10. CASE RunChange(j)
  BY <1>4, <1>5, <1>6, <1>7, <1>8, <1>9, <1>10 DEF RunChange
<1>11. QED
  BY <1>2, <1>3, <1>10, RunStep

LEMMA InitIInv == Init => IInv
  BY InitTypeOK DEF Init, IInv, PendingUnstamped, BatchHeld, KeysRead, HeldLongEnough, Claims,
     NoRow, IdleRun

LEMMA NextIInv == IInv /\ [Next]_vars => IInv'
<1> SUFFICES ASSUME IInv, [Next]_vars PROVE IInv'
  OBVIOUS
<1>1. TypeOK'
  BY NextTypeOK DEF IInv
<1>2. PendingUnstamped' /\ BatchHeld' /\ KeysRead' /\ HeldLongEnough'
  BY NextPendingUnstamped, NextBatchHeld, NextKeysRead, NextHeldLongEnough
<1>3. QED
  BY <1>1, <1>2 DEF IInv

\* The inductive invariant holds in every reachable state.
THEOREM Invariance == Spec => []IInv
  BY InitIInv, NextIInv, PTL DEF Spec

\* Every reachable state is well typed.
THEOREM TypeCorrect == Spec => []TypeOK
<1>1. IInv => TypeOK
  BY DEF IInv
<1>2. QED
  BY <1>1, Invariance, PTL

\* Whatever the jobs, the tenant and the partners do, and in whatever order, no
\* payout ever lists a reward that was not approved or whose hold had not elapsed.
THEOREM HoldRespected == Spec => []HeldLongEnough
<1>1. IInv => HeldLongEnough
  BY DEF IInv
<1>2. QED
  BY <1>1, Invariance, PTL

-----------------------------------------------------------------------------
(* The handlers and jobs implement the ledger.                             *)

LEMMA MaturedGrows == IInv /\ [Next]_vars => matured \subseteq matured'
  BY HoldElapsedStable DEF matured

LEMMA InitLedger == Init => Ledger!Init
  BY DEF Init, Ledger!Init, matured, claimOf, HoldElapsed, NoRow

LEMMA InsertOpens ==
    ASSUME IInv, NEW j \in Runner, InsertPayout(j)
    PROVE  \E q \in Payout : Ledger!Open(q)
<1> DEFINE row == NewPayout(j)
           c == [partner |-> row.partner, pix_key |-> row.pix_key, reward_ids |-> row.reward_ids]
<1>1. PICK q \in Payout : payout[q].status = "none" /\ payout' = [payout EXCEPT ![q] = row]
  BY DEF InsertPayout
<1>2. run[j] \in RunState /\ run[j].partner \in Partner
  BY DEF InsertPayout, IInv, KeysRead, TypeOK, RunState
<1>3. c.partner \in Partner /\ c.pix_key \in Key /\ c.reward_ids \in SUBSET Reward
  BY <1>2 DEF NewPayout, InsertPayout, IInv, KeysRead, RunState
<1>4. c \in Ledger!Claim
  BY <1>3 DEF Ledger!Claim
<1>5. c.reward_ids # {} /\ \A r \in c.reward_ids : Owner[r] = c.partner
  BY DEF NewPayout, InsertPayout, IInv, KeysRead
<1>6. c.reward_ids \subseteq matured
  BY <1>2 DEF NewPayout, matured, IInv, BatchHeld, RunState
<1>7. claimOf' = [claimOf EXCEPT ![q] = c]
  BY <1>1 DEF claimOf, NewPayout, IInv, TypeOK
<1>8. [p \in Payout |-> payout[p].status]' = [[p \in Payout |-> payout[p].status] EXCEPT ![q] = "pending"]
  BY <1>1 DEF NewPayout, IInv, TypeOK
<1>9. matured' = matured
  BY DEF matured, HoldElapsed, InsertPayout
<1> HIDE DEF c, row
<1>10. QED
  BY <1>1, <1>4, <1>5, <1>6, <1>7, <1>8, <1>9 DEF Ledger!Open

LEMMA PayMoves ==
    ASSUME IInv, NEW q \in Payout, Confirm(q) \/ Paid(q) \/ Cancel(q)
    PROVE  Ledger!Next
<1> DEFINE status == [p \in Payout |-> payout[p].status]
<1>1. PICK to : /\ payout' = [payout EXCEPT ![q].status = to]
                /\ \/ status[q] = "pending" /\ to = "processing"
                   \/ status[q] = "processing" /\ to = "paid"
                   \/ status[q] \in {"pending", "processing"} /\ to = "cancelled"
  BY DEF Confirm, Paid, Cancel, SetPayout
<1>2. status' = [status EXCEPT ![q] = to]
  <2>1. ASSUME NEW p \in Payout PROVE payout'[p].status = IF p = q THEN to ELSE payout[p].status
    BY <1>1 DEF IInv, TypeOK, PayoutRow
  <2>2. QED
    BY <2>1
<1>3. claimOf' = claimOf
  BY <1>1 DEF claimOf, IInv, TypeOK, PayoutRow
<1>4. matured' = matured
  BY DEF matured, HoldElapsed, Confirm, Paid, Cancel
<1>5. \/ Ledger!Move(q, {"pending"}, "processing")
      \/ Ledger!Move(q, {"processing"}, "paid")
      \/ Ledger!Move(q, {"pending", "processing"}, "cancelled")
  BY <1>1, <1>2, <1>3, <1>4 DEF Ledger!Move
<1>6. QED
  BY <1>5 DEF Ledger!Next

LEMMA NextLedger == IInv /\ [Next]_vars => [Ledger!Next]_(Ledger!vars)
<1> SUFFICES ASSUME IInv, [Next]_vars PROVE [Ledger!Next]_(Ledger!vars)
  OBVIOUS
<1>1. CASE UNCHANGED payout
  <2>1. Ledger!Mature
    BY <1>1, MaturedGrows DEF Ledger!Mature, matured, claimOf
  <2>2. QED
    BY <2>1 DEF Ledger!Next
<1>2. ASSUME NEW j \in Runner, InsertPayout(j) PROVE Ledger!Next
  BY <1>2, InsertOpens DEF Ledger!Next
<1>3. ASSUME NEW q \in Payout, Confirm(q) \/ Paid(q) \/ Cancel(q) PROVE Ledger!Next
  BY <1>3, PayMoves
<1>4. QED
  BY <1>1, <1>2, <1>3, PayoutStep

\* The detailed handlers and jobs only ever do what the ledger allows.
THEOREM LedgerImplemented == Spec => LedgerSpec
  BY InitLedger, NextLedger, Invariance, PTL DEF Spec, LedgerSpec, Ledger!Spec

-----------------------------------------------------------------------------
(* Rewards and payouts agree on what was paid.                             *)

\* What a step that is neither Paid nor Cancel does to a payout that exists.
LEMMA ClaimsKept ==
    ASSUME TypeOK, [Next]_vars, NEW q \in Payout, payout[q].status # "none"
    PROVE  /\ payout'[q].reward_ids = payout[q].reward_ids
           /\ payout'[q].status # "none"
           /\ payout[q].status \in {"paid", "cancelled"} => payout'[q].status = payout[q].status
<1>1. ASSUME NEW j \in Runner, InsertPayout(j) PROVE payout'[q] = payout[q]
  BY <1>1 DEF InsertPayout, TypeOK
<1>2. ASSUME NEW p \in Payout, Confirm(p) \/ Paid(p) \/ Cancel(p)
      PROVE  /\ payout'[q].reward_ids = payout[q].reward_ids
             /\ payout'[q].status # "none"
             /\ payout[q].status \in {"paid", "cancelled"} => payout'[q].status = payout[q].status
  BY <1>2 DEF Confirm, Paid, Cancel, SetPayout, TypeOK, PayoutRow
<1>3. QED
  BY <1>1, <1>2, PayoutStep

\* A payout is marked as paid by Paid only, with all its rewards.
LEMMA PaidStep ==
    ASSUME TypeOK, [Next]_vars, NEW q \in Payout, payout'[q].status = "paid",
           payout[q].status # "paid"
    PROVE  Paid(q)
<1>1. ASSUME NEW j \in Runner, InsertPayout(j) PROVE FALSE
  BY <1>1 DEF InsertPayout, NewPayout, TypeOK
<1>2. ASSUME NEW p \in Payout, Confirm(p) \/ Cancel(p) PROVE FALSE
  BY <1>2 DEF Confirm, Cancel, SetPayout, TypeOK, PayoutRow
<1>3. ASSUME NEW p \in Payout, Paid(p) PROVE p = q
  BY <1>3 DEF Paid, SetPayout, TypeOK, PayoutRow
<1>4. QED
  BY <1>1, <1>2, <1>3, PayoutStep

\* How the status of a reward becomes, or stops being, "paid".
LEMMA RewardPaidStep ==
    ASSUME TypeOK, [Next]_vars, NEW r \in Reward
    PROVE  /\ rewardStatus'[r] = "paid" /\ rewardStatus[r] # "paid" =>
                 \E q \in Payout : r \in payout[q].reward_ids /\ Paid(q)
           /\ rewardStatus[r] = "paid" /\ rewardStatus'[r] # "paid" =>
                 \E q \in Payout : r \in payout[q].reward_ids /\ Cancel(q)
<1> DEFINE Goal ==
        /\ rewardStatus'[r] = "paid" /\ rewardStatus[r] # "paid" =>
              \E q \in Payout : r \in payout[q].reward_ids /\ Paid(q)
        /\ rewardStatus[r] = "paid" /\ rewardStatus'[r] # "paid" =>
              \E q \in Payout : r \in payout[q].reward_ids /\ Cancel(q)
<1>1. ASSUME NEW s \in Reward, Approve(s) \/ Reject(s) PROVE Goal
  BY <1>1 DEF Approve, Reject, TypeOK
<1>2. ASSUME NEW q \in Payout, Paid(q) PROVE Goal
  BY <1>2 DEF Paid, SetRewards, TypeOK
<1>3. ASSUME NEW q \in Payout, Cancel(q) PROVE Goal
  BY <1>3 DEF Cancel, SetRewards, TypeOK
<1>4. ASSUME UNCHANGED rewardStatus PROVE Goal
  BY <1>4
<1> HIDE DEF Goal
<1>5. ASSUME Job \/ NextDay \/ PartnerData \/ UNCHANGED vars PROVE UNCHANGED rewardStatus
  BY <1>5 DEF Job, Loop, PartnerData, NextDay, vars, UpdatePixKey, EraseData,
     RunCreatePayoutsJob, CreatePayoutsJob, StartLoop, SkipPartner, CheckPendingPayout,
     StatementFails, ReadPixKey, InsertPayout, Crash
<1>6. ASSUME NEW q \in Payout, Confirm(q) PROVE UNCHANGED rewardStatus
  BY <1>6 DEF Confirm
<1>7. Goal
  BY <1>1, <1>2, <1>3, <1>4, <1>5, <1>6 DEF Next, Review, Pay
<1>8. QED
  BY <1>7 DEF Goal

LEMMA NextPaidRewardBacked == TypeOK /\ PaidRewardBacked /\ [Next]_vars => PaidRewardBacked'
<1> SUFFICES ASSUME TypeOK, PaidRewardBacked, [Next]_vars,
                    NEW r \in Reward, rewardStatus'[r] = "paid"
             PROVE  \E q \in Payout : Claims(q, r)' /\ payout'[q].status = "paid"
  BY DEF PaidRewardBacked
<1>1. CASE rewardStatus[r] = "paid"
  <2>1. PICK q \in Payout : Claims(q, r) /\ payout[q].status = "paid"
    BY <1>1 DEF PaidRewardBacked
  <2>2. QED
    BY <2>1, ClaimsKept DEF Claims
<1>2. CASE rewardStatus[r] # "paid"
  <2>1. PICK q \in Payout : r \in payout[q].reward_ids /\ Paid(q)
    BY <1>2, RewardPaidStep
  <2>2. payout'[q].status = "paid" /\ payout[q].status # "none"
    BY <2>1 DEF Paid, SetPayout, TypeOK, PayoutRow
  <2>3. QED
    BY <2>1, <2>2, ClaimsKept DEF Claims
<1>3. QED
  BY <1>1, <1>2

LEMMA NextSettledUnlessOverlap ==
    TypeOK /\ SettledUnlessOverlap /\ [Next]_vars => SettledUnlessOverlap'
<1> SUFFICES ASSUME TypeOK, SettledUnlessOverlap, [Next]_vars, NEW q \in Payout,
                    NEW r \in Reward, Claims(q, r)', payout'[q].status = "paid",
                    rewardStatus'[r] # "paid"
             PROVE  \E other \in Payout \ {q} : Claims(other, r)' /\ payout'[other].status = "cancelled"
  BY DEF SettledUnlessOverlap
<1>1. payout[q].status = "paid"
  <2>1. SUFFICES ASSUME Paid(q) PROVE FALSE
    BY PaidStep
  <2>2. r \in payout[q].reward_ids
    BY <2>1, ClaimsKept DEF Claims, Paid
  <2>3. QED
    BY <2>1, <2>2 DEF Paid, SetRewards
<1>2. Claims(q, r)
  BY <1>1, ClaimsKept DEF Claims
<1>3. CASE rewardStatus[r] = "paid"
  <2>1. PICK other \in Payout : r \in payout[other].reward_ids /\ Cancel(other)
    BY <1>3, RewardPaidStep
  <2>2. other # q /\ payout[other].status # "none" /\ payout'[other].status = "cancelled"
    BY <2>1, <1>1 DEF Cancel, SetPayout, TypeOK, PayoutRow
  <2>3. QED
    BY <2>1, <2>2, ClaimsKept DEF Claims
<1>4. CASE rewardStatus[r] # "paid"
  <2>1. PICK other \in Payout \ {q} : Claims(other, r) /\ payout[other].status = "cancelled"
    BY <1>1, <1>2, <1>4 DEF SettledUnlessOverlap
  <2>2. QED
    BY <2>1, ClaimsKept DEF Claims
<1>5. QED
  BY <1>3, <1>4

\* A reward is shown as paid only if a paid payout lists it.
THEOREM PaidIsBacked == Spec => []PaidRewardBacked
<1>1. Init => PaidRewardBacked
  BY DEF Init, PaidRewardBacked
<1>2. QED
  BY <1>1, NextPaidRewardBacked, TypeCorrect, PTL DEF Spec

\* The rewards of a paid payout are shown as paid, but for those that the
\* cancellation of an overlapping payout put back.
THEOREM PaidIsSettled == Spec => []SettledUnlessOverlap
<1>1. Init => SettledUnlessOverlap
  BY DEF Init, SettledUnlessOverlap, Claims, NoRow
<1>2. QED
  BY <1>1, NextSettledUnlessOverlap, TypeCorrect, PTL DEF Spec

-----------------------------------------------------------------------------
(* When executions of the job do not overlap, the check does its work.     *)

SingleRunner == \A i, j \in Runner : i = j
CommittedAlone ==
    \A j \in Runner : run[j].step \in {"read_key", "insert"} => ~HasPending(run[j].partner)

\* A step other than an INSERT leaves no more pending payouts than there were.
LEMMA PendingOnlyInserted ==
    ASSUME TypeOK, [Next]_vars, NEW q \in Payout, payout'[q].status = "pending",
           \A j \in Runner : ~InsertPayout(j)
    PROVE  payout[q].status = "pending" /\ payout'[q].partner = payout[q].partner
<1>1. CASE UNCHANGED payout
  BY <1>1
<1>2. ASSUME NEW p \in Payout, Confirm(p) \/ Paid(p) \/ Cancel(p)
      PROVE  payout[q].status = "pending" /\ payout'[q].partner = payout[q].partner
  BY <1>2 DEF Confirm, Paid, Cancel, SetPayout, TypeOK, PayoutRow
<1>3. QED
  BY <1>1, <1>2, PayoutStep

\* An execution commits to a partner by its check only.
LEMMA CommitStep ==
    ASSUME TypeOK, [Next]_vars, NEW j \in Runner, run'[j].step \in {"read_key", "insert"}
    PROVE  \/ run[j].step \in {"read_key", "insert"} /\ run'[j].partner = run[j].partner
           \/ UNCHANGED payout /\ ~HasPending(run'[j].partner)
<1> DEFINE Goal == \/ run[j].step \in {"read_key", "insert"} /\ run'[j].partner = run[j].partner
                   \/ UNCHANGED payout /\ ~HasPending(run'[j].partner)
<1> USE DEF TypeOK
<1>1. ASSUME NEW i \in Runner, RunCreatePayoutsJob(i) \/ CreatePayoutsJob(i) PROVE Goal
  <2>1. PICK B, K : StartLoop(i, B, K)
    BY <1>1 DEF RunCreatePayoutsJob, CreatePayoutsJob
  <2>2. QED
    BY <2>1 DEF StartLoop
<1>2. ASSUME NEW i \in Runner, NEW p, Advance(i, p) PROVE Goal
  BY <1>2 DEF Advance, IdleRun
<1>3. ASSUME NEW i \in Runner, NEW p, CheckPendingPayout(i, p) PROVE Goal
  <2>1. i # j => run'[j] = run[j]
    BY <1>3 DEF CheckPendingPayout
  <2>2. run'[i].partner = p /\ UNCHANGED payout /\ ~HasPending(p)
    BY <1>3 DEF CheckPendingPayout, RunState, tables
  <2>3. QED
    BY <2>1, <2>2
<1>4. ASSUME NEW i \in Runner, ReadPixKey(i) PROVE Goal
  <2>1. CASE Advance(i, run[i].partner)
    BY <2>1, <1>2
  <2>2. CASE ~Advance(i, run[i].partner)
    <3>1. run[i] \in RunState
      OBVIOUS
    <3>2. [run[i] EXCEPT !.step = "insert",
                         !.keys[run[i].partner] = pixKey[run[i].partner]].partner = run[i].partner
      BY <3>1 DEF RunState
    <3>3. run[i].step = "read_key" /\ run'[i].partner = run[i].partner /\ (i # j => run'[j] = run[j])
      BY <1>4, <2>2, <3>2 DEF ReadPixKey
    <3>4. QED
      BY <3>3
  <2>3. QED
    BY <2>1, <2>2
<1>5. ASSUME NEW i \in Runner, Crash(i) PROVE Goal
  BY <1>5 DEF Crash, IdleRun
<1>6. CASE UNCHANGED run
  BY <1>6
<1> HIDE DEF Goal, TypeOK
<1>7. ASSUME NEW i \in Runner, RunChange(i) PROVE Goal
  BY <1>1, <1>2, <1>3, <1>4, <1>5, <1>7 DEF RunChange
<1>8. QED
  BY <1>6, <1>7, RunStep DEF Goal

\* What the INSERT leaves in memory and in the table.
LEMMA InsertStep ==
    ASSUME TypeOK, NEW j \in Runner, InsertPayout(j)
    PROVE  /\ run[j].step = "insert" /\ run'[j].step \in {"idle", "loop"}
           /\ \E q \in Payout : /\ payout'[q].partner = run[j].partner
                               /\ \A other \in Payout \ {q} : payout'[other] = payout[other]
<1>1. run'[j].step \in {"idle", "loop"}
  BY DEF InsertPayout, Advance, IdleRun, TypeOK
<1>2. PICK q \in Payout : payout' = [payout EXCEPT ![q] = NewPayout(j)]
  BY DEF InsertPayout
<1>3. payout'[q].partner = run[j].partner
  BY <1>2 DEF NewPayout, TypeOK
<1>4. QED
  BY <1>1, <1>2, <1>3 DEF InsertPayout, TypeOK

LEMMA NextSerial ==
    ASSUME SingleRunner
    PROVE  TypeOK /\ CommittedAlone /\ OnePendingPerPartner /\ [Next]_vars
              => CommittedAlone' /\ OnePendingPerPartner'
<1> SUFFICES ASSUME TypeOK, CommittedAlone, OnePendingPerPartner, [Next]_vars
             PROVE  CommittedAlone' /\ OnePendingPerPartner'
  OBVIOUS
<1>1. ASSUME NEW i \in Runner, InsertPayout(i) PROVE CommittedAlone' /\ OnePendingPerPartner'
  <2>1. CommittedAlone'
    BY <1>1, InsertStep DEF CommittedAlone, SingleRunner
  <2>2. PICK q \in Payout : /\ payout'[q].partner = run[i].partner
                           /\ \A other \in Payout \ {q} : payout'[other] = payout[other]
    BY <1>1, InsertStep
  <2>3. ~HasPending(run[i].partner)
    BY <1>1, InsertStep DEF CommittedAlone
  <2>4. OnePendingPerPartner'
    BY <2>2, <2>3 DEF OnePendingPerPartner, PendingOf, HasPending
  <2>5. QED
    BY <2>1, <2>4
<1>2. ASSUME \A j \in Runner : ~InsertPayout(j) PROVE CommittedAlone' /\ OnePendingPerPartner'
  <2>1. \A q \in Payout : payout'[q].status = "pending" =>
            payout[q].status = "pending" /\ payout'[q].partner = payout[q].partner
    BY <1>2, PendingOnlyInserted
  <2>3. CommittedAlone'
    <3> SUFFICES ASSUME NEW j \in Runner, run'[j].step \in {"read_key", "insert"},
                        NEW q \in Payout, payout'[q].partner = run'[j].partner,
                        payout'[q].status = "pending"
                 PROVE  FALSE
      BY DEF CommittedAlone, HasPending
    <3>1. payout[q].status = "pending" /\ payout[q].partner = run'[j].partner
      BY <2>1
    <3>2. HasPending(run'[j].partner)
      BY <3>1 DEF HasPending
    <3>3. run[j].step \in {"read_key", "insert"} /\ run'[j].partner = run[j].partner
      BY <3>2, CommitStep
    <3>4. QED
      BY <3>1, <3>3 DEF CommittedAlone, HasPending
  <2>4. OnePendingPerPartner'
    BY <2>1 DEF OnePendingPerPartner, PendingOf
  <2>5. QED
    BY <2>3, <2>4
<1>3. QED
  BY <1>1, <1>2

\* With one execution of the job at a time, whatever it is interrupted by, a
\* partner never has two pending payouts.
THEOREM SerialOnePending ==
    ASSUME SingleRunner
    PROVE  Spec => []OnePendingPerPartner
<1>1. Init => CommittedAlone /\ OnePendingPerPartner
  BY DEF Init, CommittedAlone, OnePendingPerPartner, PendingOf, IdleRun, NoRow
<1>2. TypeOK /\ CommittedAlone /\ OnePendingPerPartner /\ [Next]_vars
         => CommittedAlone' /\ OnePendingPerPartner'
  BY NextSerial
<1>3. QED
  BY <1>1, <1>2, TypeCorrect, PTL DEF Spec

-----------------------------------------------------------------------------
(* When they do, the pending payouts of a partner are still bounded.       *)

Counted(p) == Cardinality(PendingOf(p)) + Cardinality(Committed(p)) <= Cardinality(Runner)
FinitelyPending == \A p \in Partner : IsFiniteSet(PendingOf(p))

\* Fewer pending payouts, and fewer executions that are committed, stay counted.
LEMMA FewerCounted ==
    ASSUME IsFiniteSet(Runner), NEW p, IsFiniteSet(PendingOf(p)), Counted(p),
           PendingOf(p)' \subseteq PendingOf(p), Committed(p)' \subseteq Committed(p)
    PROVE  IsFiniteSet(PendingOf(p)') /\ Counted(p)'
<1>1. Committed(p) \subseteq Runner /\ IsFiniteSet(Committed(p))
  BY FS_Subset DEF Committed
<1>2. /\ IsFiniteSet(PendingOf(p)') /\ Cardinality(PendingOf(p)') <= Cardinality(PendingOf(p))
      /\ IsFiniteSet(Committed(p)') /\ Cardinality(Committed(p)') <= Cardinality(Committed(p))
  BY <1>1, FS_Subset
<1>3. /\ Cardinality(PendingOf(p)) \in Nat /\ Cardinality(PendingOf(p)') \in Nat
      /\ Cardinality(Committed(p)) \in Nat /\ Cardinality(Committed(p)') \in Nat
      /\ Cardinality(Runner) \in Nat
  BY <1>1, <1>2, FS_CardinalityType
<1>4. QED
  BY <1>2, <1>3 DEF Counted

\* An INSERT turns the execution that was committed into a pending payout.
LEMMA InsertCounted ==
    ASSUME IsFiniteSet(Runner), TypeOK, [Next]_vars, NEW i \in Runner, InsertPayout(i),
           NEW p \in Partner, IsFiniteSet(PendingOf(p)), Counted(p)
    PROVE  IsFiniteSet(PendingOf(p)') /\ Counted(p)'
<1>1. PICK q \in Payout : payout[q].status = "none" /\ payout' = [payout EXCEPT ![q] = NewPayout(i)]
  BY DEF InsertPayout
<1>2. /\ payout'[q].status = "pending" /\ payout'[q].partner = run[i].partner
      /\ \A other \in Payout \ {q} : payout'[other] = payout[other]
  BY <1>1 DEF NewPayout, TypeOK
<1>3. run[i].step = "insert" /\ run'[i].step \in {"idle", "loop"}
  BY InsertStep
<1>4. payout' # payout
  BY <1>1, <1>2
<1>5. Committed(p)' \subseteq Committed(p) \ {i}
  <2> SUFFICES ASSUME NEW j \in Runner, run'[j].step \in {"read_key", "insert"}, run'[j].partner = p
               PROVE  run[j].step \in {"read_key", "insert"} /\ run[j].partner = p /\ j # i
    BY DEF Committed
  <2>1. QED
    BY <1>3, <1>4, CommitStep
<1>6. Committed(p) \subseteq Runner /\ IsFiniteSet(Committed(p))
  BY FS_Subset DEF Committed
<1>7. CASE run[i].partner # p
  <2>1. PendingOf(p)' \subseteq PendingOf(p)
    BY <1>2, <1>7 DEF PendingOf
  <2>2. QED
    BY <1>5, <2>1, FewerCounted
<1>8. CASE run[i].partner = p
  <2>1. PendingOf(p)' = PendingOf(p) \cup {q} /\ q \notin PendingOf(p)
    BY <1>1, <1>2, <1>8 DEF PendingOf
  <2>2. IsFiniteSet(PendingOf(p)') /\ Cardinality(PendingOf(p)') = Cardinality(PendingOf(p)) + 1
    BY <2>1, FS_AddElement
  <2>3. i \in Committed(p)
    BY <1>3, <1>8 DEF Committed
  <2>4. /\ IsFiniteSet(Committed(p) \ {i})
        /\ Cardinality(Committed(p) \ {i}) = Cardinality(Committed(p)) - 1
    BY <1>6, <2>3, FS_RemoveElement
  <2>5. IsFiniteSet(Committed(p)') /\ Cardinality(Committed(p)') <= Cardinality(Committed(p)) - 1
    BY <1>5, <2>4, FS_Subset
  <2>6. /\ Cardinality(PendingOf(p)) \in Nat /\ Cardinality(Committed(p)) \in Nat
        /\ Cardinality(Committed(p)') \in Nat /\ Cardinality(Runner) \in Nat
    BY <1>6, <2>5, FS_CardinalityType
  <2>7. QED
    BY <2>2, <2>5, <2>6 DEF Counted
<1>9. QED
  BY <1>7, <1>8

\* Otherwise no payout becomes pending, and an execution commits only if none is.
LEMMA QuietCounted ==
    ASSUME IsFiniteSet(Runner), TypeOK, [Next]_vars, \A i \in Runner : ~InsertPayout(i),
           NEW p \in Partner, IsFiniteSet(PendingOf(p)), Counted(p)
    PROVE  IsFiniteSet(PendingOf(p)') /\ Counted(p)'
<1>1. PendingOf(p)' \subseteq PendingOf(p)
  BY PendingOnlyInserted DEF PendingOf
<1>2. CASE Committed(p)' \subseteq Committed(p)
  BY <1>1, <1>2, FewerCounted
<1>3. CASE ~(Committed(p)' \subseteq Committed(p))
  <2>1. PICK j \in Runner : run'[j].step \in {"read_key", "insert"} /\ run'[j].partner = p
                            /\ j \notin Committed(p)
    BY <1>3 DEF Committed
  <2>2. ~HasPending(p)
    BY <2>1, CommitStep DEF Committed
  <2>3. PendingOf(p) = {}
    BY <2>2 DEF HasPending, PendingOf
  <2>4. PendingOf(p)' = {} /\ Committed(p)' \subseteq Runner
    BY <1>1, <2>3 DEF Committed
  <2>5. Cardinality(Committed(p)') <= Cardinality(Runner) /\ Cardinality(Committed(p)') \in Nat
    BY <2>4, FS_Subset, FS_CardinalityType
  <2>6. QED
    BY <2>4, <2>5, FS_EmptySet, FS_CardinalityType DEF Counted
<1>4. QED
  BY <1>2, <1>3

\* However many executions of the job overlap, pending payouts of a partner and executions
\* about to insert one are together no more than the executions there are.
THEOREM PendingBounded ==
    ASSUME IsFiniteSet(Runner)
    PROVE  Spec => []PendingBoundedByRunners
<1> DEFINE CInv == FinitelyPending /\ PendingBoundedByRunners
<1>1. Init => CInv
  <2> SUFFICES ASSUME Init, NEW p \in Partner PROVE IsFiniteSet(PendingOf(p)) /\ Counted(p)
    BY DEF FinitelyPending, PendingBoundedByRunners, Counted
  <2>1. PendingOf(p) = {} /\ Committed(p) = {}
    BY DEF Init, PendingOf, Committed, NoRow, IdleRun
  <2>2. Cardinality(Runner) \in Nat
    BY FS_CardinalityType
  <2>3. QED
    BY <2>1, <2>2, FS_EmptySet DEF Counted
<1>2. TypeOK /\ CInv /\ [Next]_vars => CInv'
  <2> SUFFICES ASSUME TypeOK, CInv, [Next]_vars, NEW p \in Partner
               PROVE  IsFiniteSet(PendingOf(p)') /\ Counted(p)'
    BY DEF FinitelyPending, PendingBoundedByRunners, Counted
  <2>1. IsFiniteSet(PendingOf(p)) /\ Counted(p)
    BY DEF FinitelyPending, PendingBoundedByRunners, Counted
  <2>2. QED
    BY <2>1, InsertCounted, QuietCounted
<1>3. QED
  BY <1>1, <1>2, TypeCorrect, PTL DEF Spec
=============================================================================
