------------------------------- MODULE Payouts -------------------------------
(***************************************************************************)
(* Rewards, payouts and the jobs that turn the first into the second.      *)
(*                                                                         *)
(* Four tables are modelled: rewards (status, approved_at), partners       *)
(* (pix_key), payouts, and the clock now() the queries compare against.    *)
(* The database executes one SQL statement, or one transaction, at a time: *)
(* a handler that is one statement or one transaction is one action, and   *)
(* the two variants of the payout creation job, which run their statements *)
(* outside any transaction, take one action per statement and interleave   *)
(* with everything else.  Money amounts are left out: a payout's amount is *)
(* the sum over the rewards it lists.                                      *)
(*                                                                         *)
(* A definition whose name ends in Fault is a plausible mistake in the     *)
(* definition that follows it.  No specification uses one: substituted for *)
(* that definition, each makes a property below fail.                      *)
(***************************************************************************)
EXTENDS Integers, FiniteSets

CONSTANTS Partner,    \* partners, of all tenants
          Reward,     \* rewards, of all partners
          Payout,     \* identifiers the database may give to payouts
          Key,        \* Pix keys
          Runner,     \* executions of the payout creation job that may overlap
          Worker,     \* those that run the worker's variant, not the handler's
          Owner,      \* Owner[r]: rewards.partner_id
          Scope,      \* Scope[j]: the partners j's query ranges over
          HoldDays,   \* HoldDays[p]: programs.settings.hold_days of p's program
          MaxDay,     \* bound on the clock
          NoKey, NoDate, NoPartner   \* SQL NULL, for each column type

ASSUME ConstantsAssumption ==
    /\ Worker \subseteq Runner
    /\ Owner \in [Reward -> Partner]
    /\ Scope \in [Runner -> SUBSET Partner]
    /\ HoldDays \in [Partner -> Nat]
    /\ MaxDay \in Nat
    /\ NoKey \notin Key
    /\ NoDate \notin Nat
    /\ NoPartner \notin Partner

VARIABLES rewardStatus,  \* rewards.status
          approvedAt,    \* rewards.approved_at, in days
          pixKey,        \* partners.pix_key
          payout,        \* the payouts table; status "none" is a row not inserted
          run,           \* the local state of each execution of the job
          today          \* now(), in days

tables == <<rewardStatus, approvedAt, pixKey, payout>>
vars == <<rewardStatus, approvedAt, pixKey, payout, run, today>>

RewardStatus == {"pending", "approved", "rejected", "paid"}
PayoutStatus == {"none", "pending", "processing", "paid", "cancelled"}

PayoutRow == [status: PayoutStatus, partner: Partner \cup {NoPartner},
              reward_ids: SUBSET Reward, pix_key: Key \cup {NoKey}]
NoRow == [status |-> "none", partner |-> NoPartner, reward_ids |-> {}, pix_key |-> NoKey]

\* What an execution of the job holds in memory: the rewards it fetched and has
\* not dealt with yet, the partner the loop is at, and the keys it has read.
RunState == [step: {"idle", "loop", "read_key", "insert"}, batch: SUBSET Reward,
             partner: Partner \cup {NoPartner}, keys: [Partner -> Key \cup {NoKey}]]
NoKeys == [p \in Partner |-> NoKey]
IdleRun == [step |-> "idle", batch |-> {}, partner |-> NoPartner, keys |-> NoKeys]

TypeOK ==
    /\ rewardStatus \in [Reward -> RewardStatus]
    /\ approvedAt \in [Reward -> Nat \cup {NoDate}]
    /\ pixKey \in [Partner -> Key \cup {NoKey}]
    /\ payout \in [Payout -> PayoutRow]
    /\ run \in [Runner -> RunState]
    /\ today \in Nat

Init ==
    /\ rewardStatus = [r \in Reward |-> "pending"]
    /\ approvedAt = [r \in Reward |-> NoDate]
    /\ pixKey \in [Partner -> Key \cup {NoKey}]
    /\ payout = [q \in Payout |-> NoRow]
    /\ run = [j \in Runner |-> IdleRun]
    /\ today = 0

-----------------------------------------------------------------------------
(* The tenant reviews rewards; partners set their key; erasure clears it.  *)

Approve(r) ==
    /\ rewardStatus[r] = "pending"
    /\ rewardStatus' = [rewardStatus EXCEPT ![r] = "approved"]
    /\ approvedAt' = [approvedAt EXCEPT ![r] = today]
    /\ UNCHANGED <<pixKey, payout, run, today>>

RejectFault(r) ==
    /\ rewardStatus' = [rewardStatus EXCEPT ![r] = "rejected"]
    /\ UNCHANGED <<approvedAt, pixKey, payout, run, today>>

Reject(r) ==
    /\ rewardStatus[r] \in {"pending", "approved"}
    /\ rewardStatus' = [rewardStatus EXCEPT ![r] = "rejected"]
    /\ UNCHANGED <<approvedAt, pixKey, payout, run, today>>

UpdatePixKey(p) ==
    /\ \E k \in Key : pixKey' = [pixKey EXCEPT ![p] = k]
    /\ UNCHANGED <<rewardStatus, approvedAt, payout, run, today>>

\* The statement of the erasure worker that touches this component.
EraseData(p) ==
    /\ pixKey' = [pixKey EXCEPT ![p] = NoKey]
    /\ UNCHANGED <<rewardStatus, approvedAt, payout, run, today>>

NextDay ==
    /\ today < MaxDay
    /\ today' = today + 1
    /\ UNCHANGED <<tables, run>>

-----------------------------------------------------------------------------
(* The payout creation job.                                                *)

HoldElapsed(r) ==
    /\ approvedAt[r] # NoDate
    /\ approvedAt[r] + HoldDays[Owner[r]] <= today

EligibleFault(r) == rewardStatus[r] = "approved"
Eligible(r) == rewardStatus[r] = "approved" /\ HoldElapsed(r)

HasPendingFault(p) == \E q \in Payout : payout[q].partner = p /\ payout[q].status = "processing"
HasPending(p) == \E q \in Payout : payout[q].partner = p /\ payout[q].status = "pending"

\* The partners the loop still has to visit; Go ranges over its map in any order.
Remaining(j) == {Owner[r] : r \in run[j].batch}

\* The loop is done with partner p, whatever came of it.
Advance(j, p) ==
    LET rest == {r \in run[j].batch : Owner[r] # p}
    IN  run' = [run EXCEPT ![j] =
                  IF rest = {} THEN IdleRun
                  ELSE [step |-> "loop", batch |-> rest, partner |-> NoPartner,
                        keys |-> [@.keys EXCEPT ![p] = NoKey]]]

StartLoop(j, batch, keys) ==
    /\ batch # {}
    /\ run[j].step = "idle"
    /\ run' = [run EXCEPT ![j] = [step |-> "loop", batch |-> batch,
                                  partner |-> NoPartner, keys |-> keys]]
    /\ UNCHANGED <<tables, today>>

\* The worker's query reads the key into a Go string: a NULL key of any partner
\* among the rows is a scan error and the whole execution ends there.
RunCreatePayoutsJob(j) ==
    LET batch == {r \in Reward : Owner[r] \in Scope[j] /\ Eligible(r)}
        owners == {Owner[r] : r \in batch}
    IN  /\ j \in Worker
        /\ \A p \in owners : pixKey[p] # NoKey
        /\ StartLoop(j, batch, [p \in Partner |-> IF p \in owners THEN pixKey[p] ELSE NoKey])

\* The handler's query leaves out the partners without a key.
CreatePayoutsJob(j) ==
    /\ j \in Runner \ Worker
    /\ StartLoop(j, {r \in Reward : /\ Owner[r] \in Scope[j]
                                    /\ Eligible(r)
                                    /\ pixKey[Owner[r]] # NoKey}, NoKeys)

SkipPartner(j, p) ==
    /\ run[j].step = "loop"
    /\ p \in Remaining(j)
    /\ HasPending(p)
    /\ Advance(j, p)
    /\ UNCHANGED <<tables, today>>

\* The check forgets the status: a cancelled payout excludes the partner for good.
CheckPendingPayoutFault(j, p) ==
    /\ run[j].step = "loop"
    /\ p \in Remaining(j)
    /\ \A q \in Payout : payout[q].partner # p
    /\ run' = [run EXCEPT ![j] = [@ EXCEPT !.step = IF j \in Worker THEN "insert" ELSE "read_key",
                                          !.partner = p]]
    /\ UNCHANGED <<tables, today>>

CheckPendingPayout(j, p) ==
    /\ run[j].step = "loop"
    /\ p \in Remaining(j)
    /\ ~HasPending(p)
    /\ run' = [run EXCEPT ![j] = [@ EXCEPT !.step = IF j \in Worker THEN "insert" ELSE "read_key",
                                          !.partner = p]]
    /\ UNCHANGED <<tables, today>>

\* Only the handler reads the key again; a key erased meanwhile skips the partner.
ReadPixKey(j) ==
    LET p == run[j].partner
    IN  /\ run[j].step = "read_key"
        /\ IF pixKey[p] = NoKey
           THEN Advance(j, p)
           ELSE run' = [run EXCEPT ![j] = [@ EXCEPT !.step = "insert", !.keys[p] = pixKey[p]]]
        /\ UNCHANGED <<tables, today>>

NewPayout(j) ==
    LET p == run[j].partner
    IN  [status |-> "pending", partner |-> p,
         reward_ids |-> {r \in run[j].batch : Owner[r] = p}, pix_key |-> run[j].keys[p]]

\* The reward rows are left as they are.
InsertPayout(j) ==
    /\ run[j].step = "insert"
    /\ \E q \in Payout :
          /\ payout[q].status = "none"
          /\ payout' = [payout EXCEPT ![q] = NewPayout(j)]
    /\ Advance(j, run[j].partner)
    /\ UNCHANGED <<rewardStatus, approvedAt, pixKey, today>>

\* A statement about one partner returns an error: the loop goes on with the next.
StatementFails(j, p) ==
    /\ \/ run[j].step = "loop" /\ p \in Remaining(j)
       \/ run[j].step \in {"read_key", "insert"} /\ p = run[j].partner
    /\ Advance(j, p)
    /\ UNCHANGED <<tables, today>>

\* The process stops, or the HTTP request that runs the job is cancelled.
Crash(j) ==
    /\ run[j].step # "idle"
    /\ run' = [run EXCEPT ![j] = IdleRun]
    /\ UNCHANGED <<tables, today>>

-----------------------------------------------------------------------------
(* The tenant pays: one UPDATE, or one transaction, each.                  *)

SetPayout(q, to) == payout' = [payout EXCEPT ![q].status = to]

\* The rewards copy the status of the payout.
SetRewardsFault(q, to) ==
    rewardStatus' = [r \in Reward |-> IF r \in payout[q].reward_ids THEN payout'[q].status
                                      ELSE rewardStatus[r]]

\* Both transactions write every reward of the payout, whatever its status.
SetRewards(q, to) ==
    rewardStatus' = [r \in Reward |-> IF r \in payout[q].reward_ids THEN to ELSE rewardStatus[r]]

\* The rewards are marked at once, before the payment is confirmed.
ConfirmFault(q) ==
    /\ payout[q].status = "pending"
    /\ SetPayout(q, "processing")
    /\ SetRewards(q, "paid")
    /\ UNCHANGED <<approvedAt, pixKey, run, today>>

Confirm(q) ==
    /\ payout[q].status = "pending"
    /\ SetPayout(q, "processing")
    /\ UNCHANGED <<rewardStatus, approvedAt, pixKey, run, today>>

Paid(q) ==
    /\ payout[q].status = "processing"
    /\ SetPayout(q, "paid")
    /\ SetRewards(q, "paid")
    /\ UNCHANGED <<approvedAt, pixKey, run, today>>

CancelFault(q) ==
    /\ payout[q].status \notin {"none", "cancelled"}
    /\ SetPayout(q, "cancelled")
    /\ SetRewards(q, "approved")
    /\ UNCHANGED <<approvedAt, pixKey, run, today>>

Cancel(q) ==
    /\ payout[q].status \in {"pending", "processing"}
    /\ SetPayout(q, "cancelled")
    /\ SetRewards(q, "approved")
    /\ UNCHANGED <<approvedAt, pixKey, run, today>>

-----------------------------------------------------------------------------
Review == \E r \in Reward : Approve(r) \/ Reject(r)
PartnerData == \E p \in Partner : UpdatePixKey(p) \/ EraseData(p)

Loop(j) ==
    \/ \E p \in Partner : SkipPartner(j, p) \/ CheckPendingPayout(j, p) \/ StatementFails(j, p)
    \/ ReadPixKey(j)
    \/ InsertPayout(j)
    \/ Crash(j)

Job == \E j \in Runner : RunCreatePayoutsJob(j) \/ CreatePayoutsJob(j) \/ Loop(j)
Pay == \E q \in Payout : Confirm(q) \/ Paid(q) \/ Cancel(q)

Next == Review \/ PartnerData \/ Job \/ Pay \/ NextDay

Spec == Init /\ [][Next]_vars

-----------------------------------------------------------------------------
(* Properties.                                                             *)

Claims(q, r) == payout[q].status # "none" /\ r \in payout[q].reward_ids

\* However the executions of the job interleave with reviews, cancellations and
\* erasures, a payout only ever lists rewards that were approved and whose hold
\* has elapsed: approved_at survives a later Reject or Cancel.
HeldLongEnough == \A q \in Payout, r \in Reward : Claims(q, r) => HoldElapsed(r)

\* A reward shown as paid was paid: some payout that lists it is paid.
PaidRewardBacked ==
    \A r \in Reward : rewardStatus[r] = "paid" =>
        \E q \in Payout : Claims(q, r) /\ payout[q].status = "paid"

\* A reward of a paid payout is shown as paid, unless the cancellation of another
\* payout that lists it too has put it back to approved.
SettledUnlessOverlap ==
    \A q \in Payout, r \in Reward :
        Claims(q, r) /\ payout[q].status = "paid" =>
            \/ rewardStatus[r] = "paid"
            \/ \E other \in Payout \ {q} : Claims(other, r) /\ payout[other].status = "cancelled"

\* The executions that saw no pending payout of p and are about to insert one.
Committed(p) == {j \in Runner : run[j].step \in {"read_key", "insert"} /\ run[j].partner = p}
PendingOf(p) == {q \in Payout : payout[q].partner = p /\ payout[q].status = "pending"}

\* The EXISTS check does not exclude a second pending payout, but it keeps their
\* number below that of the executions that overlap.
PendingBoundedByRunners ==
    \A p \in Partner : Cardinality(PendingOf(p)) + Cardinality(Committed(p)) <= Cardinality(Runner)

\* At most one pending payout per partner, the limit the job's check is there for.
OnePendingPerPartner == \A p \in Partner : \A q1, q2 \in PendingOf(p) : q1 = q2

\* A reward is paid by at most one payout.
RewardPaidOnce ==
    \A q1, q2 \in Payout, r \in Reward :
        /\ Claims(q1, r) /\ payout[q1].status = "paid"
        /\ Claims(q2, r) /\ payout[q2].status = "paid"
        => q1 = q2

\* The statuses, and the contents of a payout once made, obey the ledger.
matured == {r \in Reward : HoldElapsed(r)}
claimOf == [q \in Payout |-> IF payout[q].status = "none" THEN NoRow
                             ELSE [partner |-> payout[q].partner,
                                   pix_key |-> payout[q].pix_key,
                                   reward_ids |-> payout[q].reward_ids]]
Ledger == INSTANCE PayoutLedger WITH
              status <- [q \in Payout |-> payout[q].status],
              claim <- claimOf,
              NoClaim <- NoRow
LedgerSpec == Ledger!Spec

(***************************************************************************)
(* Liveness.  The worker is scheduled every day, so it starts again after  *)
(* a crash, and a statement that keeps being tried does not always fail;   *)
(* nothing is assumed of the tenant, of the partners or of the HTTP job.   *)
(***************************************************************************)
WorkerFairness(j) ==
    /\ WF_vars(RunCreatePayoutsJob(j))
    /\ WF_vars(\E p \in Partner : SkipPartner(j, p) \/ CheckPendingPayout(j, p))
    /\ \A p \in Partner : SF_vars(CheckPendingPayout(j, p))
    /\ SF_vars(InsertPayout(j))

FairSpec == Spec /\ \A j \in Worker : WorkerFairness(j)

\* Reward r no longer waits for the job: a payout that is not cancelled lists it,
\* or it is no longer approved, or its partner has a payout to be confirmed first;
\* or the bound on the number of payouts is reached.
Served(r) ==
    \/ \E q \in Payout : Claims(q, r) /\ payout[q].status # "cancelled"
    \/ rewardStatus[r] # "approved"
    \/ HasPending(Owner[r])
    \/ \A q \in Payout : payout[q].status # "none"

\* As long as no partner with an eligible reward is without a key, every eligible
\* reward is served.
EligibleServedIfEarnersKeyed ==
    [](\A r \in Reward : Eligible(r) => pixKey[Owner[r]] # NoKey)
        => \A r \in Reward : Eligible(r) ~> Served(r)

\* A partner without a key is only skipped: whatever the others do, a partner who
\* keeps a key is served.
EligibleServedIfOwnerKeyed ==
    (\A p \in Partner : [](pixKey[p] = NoKey) \/ [](pixKey[p] # NoKey))
        => \A r \in Reward : pixKey[Owner[r]] # NoKey => (Eligible(r) ~> Served(r))
=============================================================================
