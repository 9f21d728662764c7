-------------------------- MODULE PayoutsOnceProofs --------------------------
(***************************************************************************)
(* What it takes for a reward to be paid once.  The code alone does not    *)
(* see to it (RewardPaidOnce of Payouts is violated); three precautions of *)
(* those who start the job and confirm payouts do, for every set of        *)
(* rewards, payouts and executions, whatever crashes, fails or is          *)
(* cancelled.                                                              *)
(***************************************************************************)
EXTENDS PayoutsProofs

\* No two executions have the same reward in hand: one is only started on rewards no
\* other has fetched.
RunsApart ==
    \A j \in Runner : run[j].step = "idle" =>
        \A i \in Runner \ {j} : run'[j].batch \cap run[i].batch = {}

\* The job is not started on rewards of a payout that is being processed.
RunsAfterPaying ==
    \A j \in Runner : run[j].step = "idle" =>
        \A q \in Payout : payout[q].status = "processing" => run'[j].batch \cap payout[q].reward_ids = {}

\* No payout is confirmed while an execution still has one of its rewards in hand.
ConfirmsApart ==
    \A q \in Payout : payout[q].status = "pending" /\ payout'[q].status = "processing" =>
        \A j \in Runner : run[j].batch \cap payout[q].reward_ids = {}

Careful == RunsApart /\ RunsAfterPaying /\ ConfirmsApart
CarefulSpec == Spec /\ [][Careful]_vars

\* The payouts that are not cancelled claim different rewards.
InForce(q) == payout[q].status \in {"pending", "processing", "paid"}
ClaimedOnce ==
    \A q1, q2 \in Payout, r \in Reward :
        InForce(q1) /\ InForce(q2) /\ r \in payout[q1].reward_ids /\ r \in payout[q2].reward_ids
            => q1 = q2

\* What a paid payout lists is shown as paid, and stays so.
PaidStaysPaid ==
    \A q \in Payout : payout[q].status = "paid" => \A r \in payout[q].reward_ids : rewardStatus[r] = "paid"

-----------------------------------------------------------------------------
(* The invariant.                                                          *)

\* A payout lists rewards of its own partner only.
OwnRewards ==
    \A q \in Payout : payout[q].status # "none" =>
        \A r \in payout[q].reward_ids : Owner[r] = payout[q].partner

HandsApart == \A i, j \in Runner : i # j => run[i].batch \cap run[j].batch = {}

\* What is in hand is in no payout that is being processed or paid,
InHandUnpaid ==
    \A j \in Runner, q \in Payout :
        payout[q].status \in {"processing", "paid"} => run[j].batch \cap payout[q].reward_ids = {}

\* and what is about to be inserted is in none that is pending either.
AboutToInsert(j) == {r \in run[j].batch : Owner[r] = run[j].partner}
CommittedFree ==
    \A j \in Runner, q \in Payout :
        run[j].step \in {"read_key", "insert"} /\ payout[q].status = "pending"
            => AboutToInsert(j) \cap payout[q].reward_ids = {}

OnceInv ==
    /\ OwnRewards
    /\ ClaimedOnce
    /\ PaidStaysPaid
    /\ HandsApart
    /\ InHandUnpaid
    /\ CommittedFree

-----------------------------------------------------------------------------
(* What a step does to a payout.                                           *)

\* A payout that appears is one execution's, with what it was about to insert.
LEMMA NewClaim ==
    ASSUME TypeOK, [Next]_vars, NEW q \in Payout, payout[q].status = "none", payout'[q].status # "none"
    PROVE  /\ payout'[q].status = "pending"
           /\ \E j \in Runner :
                 /\ InsertPayout(j) /\ run[j].step = "insert"
                 /\ payout'[q].partner = run[j].partner
                 /\ payout'[q].reward_ids = AboutToInsert(j)
                 /\ \A other \in Payout \ {q} : payout'[other] = payout[other]
                 /\ run'[j].batch \cap AboutToInsert(j) = {} /\ run'[j].batch \subseteq run[j].batch
                 /\ \A i \in Runner \ {j} : run'[i] = run[i]
<1>1. ASSUME NEW p \in Payout, Confirm(p) \/ Paid(p) \/ Cancel(p) PROVE FALSE
  BY <1>1 DEF Confirm, Paid, Cancel, SetPayout, TypeOK, PayoutRow
<1>2. PICK j \in Runner : InsertPayout(j)
  BY <1>1, PayoutStep
<1>3. PICK p \in Payout : payout' = [payout EXCEPT ![p] = NewPayout(j)]
  BY <1>2 DEF InsertPayout
<1>4. p = q
  BY <1>3 DEF TypeOK
<1>5. payout'[q] = NewPayout(j) /\ \A other \in Payout \ {q} : payout'[other] = payout[other]
  BY <1>3, <1>4 DEF TypeOK
<1>6. /\ run'[j].batch = {r \in run[j].batch : Owner[r] # run[j].partner}
      /\ \A i \in Runner \ {j} : run'[i] = run[i]
  BY <1>2, AdvanceIs DEF InsertPayout
<1>7. /\ payout'[q].status = "pending" /\ payout'[q].partner = run[j].partner
      /\ payout'[q].reward_ids = AboutToInsert(j)
  BY <1>5 DEF NewPayout, AboutToInsert
<1>8. run[j].step = "insert"
  BY <1>2 DEF InsertPayout
<1>9. run'[j].batch \cap AboutToInsert(j) = {} /\ run'[j].batch \subseteq run[j].batch
  BY <1>6 DEF AboutToInsert
<1>10. QED
  BY <1>2, <1>5, <1>6, <1>7, <1>8, <1>9

\* One that is there keeps what it claims, and its status goes one way.
LEMMA OldClaim ==
    ASSUME TypeOK, [Next]_vars, NEW q \in Payout, payout[q].status # "none"
    PROVE  /\ payout'[q].status # "none"
           /\ payout'[q].partner = payout[q].partner /\ payout'[q].reward_ids = payout[q].reward_ids
           /\ payout'[q].status \in {"pending", "processing", "paid"} =>
                 payout[q].status \in {"pending", "processing", "paid"}
           /\ payout'[q].status = "pending" => payout[q].status = "pending"
           /\ payout'[q].status = "paid" => payout[q].status \in {"processing", "paid"}
<1> DEFINE Goal ==
           /\ payout'[q].status # "none"
           /\ payout'[q].partner = payout[q].partner /\ payout'[q].reward_ids = payout[q].reward_ids
           /\ payout'[q].status \in {"pending", "processing", "paid"} =>
                 payout[q].status \in {"pending", "processing", "paid"}
           /\ payout'[q].status = "pending" => payout[q].status = "pending"
           /\ payout'[q].status = "paid" => payout[q].status \in {"processing", "paid"}
<1>1. CASE payout'[q] = payout[q]
  BY <1>1
<1>2. ASSUME NEW j \in Runner, InsertPayout(j) PROVE Goal
  <2>1. payout'[q] = payout[q]
    BY <1>2 DEF InsertPayout, TypeOK
  <2>2. QED
    BY <1>1, <2>1
<1>3. ASSUME NEW p \in Payout, Confirm(p) \/ Paid(p) \/ Cancel(p) PROVE Goal
  <2>1. PICK to : /\ payout' = [payout EXCEPT ![p].status = to]
                  /\ \/ payout[p].status = "pending" /\ to = "processing"
                     \/ payout[p].status = "processing" /\ to = "paid"
                     \/ payout[p].status \in {"pending", "processing"} /\ to = "cancelled"
    BY <1>3 DEF Confirm, Paid, Cancel, SetPayout
  <2>2. CASE p # q
    BY <1>1, <2>1, <2>2 DEF TypeOK
  <2>3. CASE p = q
    <3>1. /\ payout'[q].status = to /\ payout'[q].partner = payout[q].partner
          /\ payout'[q].reward_ids = payout[q].reward_ids
      BY <2>1, <2>3 DEF TypeOK, PayoutRow
    <3>2. QED
      BY <2>1, <2>3, <3>1
  <2>4. QED
    BY <2>2, <2>3
<1>4. UNCHANGED payout => Goal
  BY <1>1
<1> HIDE DEF Goal
<1>5. Goal
  BY <1>2, <1>3, <1>4, PayoutStep
<1>6. QED
  BY <1>5 DEF Goal

-----------------------------------------------------------------------------
(* The invariant, conjunct by conjunct.                                    *)

LEMMA NextOwnRewards == TypeOK /\ OwnRewards /\ [Next]_vars => OwnRewards'
<1> SUFFICES ASSUME TypeOK, OwnRewards, [Next]_vars, NEW q \in Payout, payout'[q].status # "none",
                    NEW r \in payout'[q].reward_ids
             PROVE  Owner[r] = payout'[q].partner
  BY DEF OwnRewards
<1>1. CASE payout[q].status # "none"
  BY <1>1, OldClaim DEF OwnRewards
<1>2. CASE payout[q].status = "none"
  BY <1>2, NewClaim DEF AboutToInsert
<1>3. QED
  BY <1>1, <1>2

\* A payout that appears claims nothing that one in force claims.
LEMMA NextClaimedOnce == TypeOK /\ OnceInv /\ [Next]_vars => ClaimedOnce'
<1>1. ASSUME TypeOK, OnceInv, [Next]_vars, NEW q1 \in Payout, NEW q2 \in Payout, NEW r \in Reward,
             InForce(q1)', InForce(q2)', r \in payout'[q1].reward_ids, r \in payout'[q2].reward_ids,
             payout[q1].status = "none", q1 # q2
      PROVE  FALSE
  <2>1. PICK j \in Runner : /\ run[j].step = "insert" /\ payout'[q1].reward_ids = AboutToInsert(j)
                            /\ \A other \in Payout \ {q1} : payout'[other] = payout[other]
    BY <1>1, NewClaim DEF InForce
  <2>2. r \in AboutToInsert(j) /\ r \in run[j].batch
    BY <1>1, <2>1 DEF AboutToInsert
  <2>3. payout'[q2] = payout[q2]
    BY <1>1, <2>1
  <2>4. payout[q2].status \notin {"processing", "paid"}
    BY <1>1, <2>2, <2>3 DEF OnceInv, InHandUnpaid
  <2>5. payout[q2].status # "pending"
    BY <1>1, <2>1, <2>2, <2>3 DEF OnceInv, CommittedFree
  <2>6. QED
    BY <1>1, <2>3, <2>4, <2>5 DEF InForce
<1>2. ASSUME TypeOK, OnceInv, [Next]_vars, NEW q1 \in Payout, NEW q2 \in Payout, NEW r \in Reward,
             InForce(q1)', InForce(q2)', r \in payout'[q1].reward_ids, r \in payout'[q2].reward_ids,
             payout[q1].status # "none", payout[q2].status # "none"
      PROVE  q1 = q2
  BY <1>2, OldClaim DEF InForce, OnceInv, ClaimedOnce
<1>3. QED
  BY <1>1, <1>2 DEF ClaimedOnce

\* Only the cancellation of a payout takes "paid" away, and no other payout lists its rewards.
LEMMA NextPaidStaysPaid == TypeOK /\ OnceInv /\ [Next]_vars => PaidStaysPaid'
<1> SUFFICES ASSUME TypeOK, OnceInv, [Next]_vars, NEW q \in Payout, payout'[q].status = "paid",
                    NEW r \in payout'[q].reward_ids
             PROVE  rewardStatus'[r] = "paid"
  BY DEF PaidStaysPaid
<1>1. payout[q].status # "none" /\ r \in payout[q].reward_ids /\ r \in Reward
  BY NewClaim, OldClaim DEF TypeOK, PayoutRow
<1>2. CASE payout[q].status # "paid"
  BY <1>1, <1>2, PaidStep DEF Paid, SetRewards
<1>3. CASE payout[q].status = "paid"
  <2>1. rewardStatus[r] = "paid"
    BY <1>1, <1>3 DEF OnceInv, PaidStaysPaid
  <2>2. ASSUME NEW other \in Payout, r \in payout[other].reward_ids, Cancel(other) PROVE FALSE
    <3>1. payout[other].status \in {"pending", "processing"}
      BY <2>2 DEF Cancel
    <3>2. QED
      BY <1>1, <1>3, <2>2, <3>1 DEF OnceInv, ClaimedOnce, InForce
  <2>3. QED
    BY <1>1, <2>1, <2>2, RewardPaidStep
<1>4. QED
  BY <1>2, <1>3

LEMMA NextHandsApart == TypeOK /\ HandsApart /\ [Next]_vars /\ RunsApart => HandsApart'
<1> SUFFICES ASSUME TypeOK, HandsApart, [Next]_vars, RunsApart, NEW i \in Runner, NEW j \in Runner, i # j
             PROVE  run'[i].batch \cap run'[j].batch = {}
  BY DEF HandsApart
<1>1. CASE Starts(i)
  BY <1>1 DEF Starts, RunsApart
<1>2. CASE Starts(j)
  BY <1>2 DEF Starts, RunsApart
<1>3. CASE run'[i].batch \subseteq run[i].batch /\ run'[j].batch \subseteq run[j].batch
  BY <1>3 DEF HandsApart
<1>4. QED
  BY <1>1, <1>2, <1>3, BatchStep

LEMMA NextInHandUnpaid == TypeOK /\ OnceInv /\ [Next]_vars /\ Careful => InHandUnpaid'
<1> SUFFICES ASSUME TypeOK, OnceInv, [Next]_vars, Careful, NEW j \in Runner, NEW q \in Payout,
                    payout'[q].status \in {"processing", "paid"},
                    NEW r \in run'[j].batch, r \in payout'[q].reward_ids
             PROVE  FALSE
  BY DEF InHandUnpaid
<1>1. payout[q].status # "none"
  BY NewClaim
<1>2. r \in payout[q].reward_ids
  BY <1>1, OldClaim
<1>3. CASE Starts(j)
  <2>1. payout[q].status # "processing"
    BY <1>2, <1>3 DEF Starts, Careful, RunsAfterPaying
  <2>2. rewardStatus[r] = "approved" /\ payout'[q] = payout[q]
    BY <1>3 DEF Starts, Eligible
  <2>3. QED
    BY <1>2, <2>1, <2>2 DEF OnceInv, PaidStaysPaid
<1>4. CASE r \in run[j].batch
  <2>1. payout[q].status \notin {"processing", "paid"}
    BY <1>2, <1>4 DEF OnceInv, InHandUnpaid
  <2>2. payout[q].status = "pending" /\ payout'[q].status = "processing"
    BY <1>1, <2>1, OldClaim
  <2>3. QED
    BY <1>2, <1>4, <2>2 DEF Careful, ConfirmsApart
<1>5. QED
  BY <1>3, <1>4, BatchStep

LEMMA NextCommittedFree == TypeOK /\ OnceInv /\ [Next]_vars => CommittedFree'
<1> SUFFICES ASSUME TypeOK, OnceInv, [Next]_vars, NEW j \in Runner, NEW q \in Payout,
                    run'[j].step \in {"read_key", "insert"}, payout'[q].status = "pending",
                    NEW r \in run'[j].batch, Owner[r] = run'[j].partner, r \in payout'[q].reward_ids
             PROVE  FALSE
  BY DEF CommittedFree, AboutToInsert
<1>1. CASE UNCHANGED payout /\ ~HasPending(run'[j].partner)
  <2>1. payout[q].partner = run'[j].partner
    BY <1>1 DEF OnceInv, OwnRewards
  <2>2. QED
    BY <1>1, <2>1 DEF HasPending
<1>2. CASE run[j].step \in {"read_key", "insert"} /\ run'[j].partner = run[j].partner
  <2>1. r \in run[j].batch /\ r \in AboutToInsert(j)
    BY <1>2, BatchStep DEF Starts, AboutToInsert
  <2>2. CASE payout[q].status = "none"
    <3>1. PICK i \in Runner : InsertPayout(i) /\ r \in AboutToInsert(i)
      BY <2>2, NewClaim
    <3>2. i # j
      BY <3>1, InsertStep
    <3>3. QED
      BY <2>1, <3>1, <3>2 DEF OnceInv, HandsApart, AboutToInsert
  <2>3. CASE payout[q].status # "none"
    BY <1>2, <2>1, <2>3, OldClaim DEF OnceInv, CommittedFree
  <2>4. QED
    BY <2>2, <2>3
<1>3. QED
  BY <1>1, <1>2, CommitStep

LEMMA InitOnceInv == Init => OnceInv
  BY DEF Init, OnceInv, OwnRewards, ClaimedOnce, InForce, PaidStaysPaid, HandsApart, InHandUnpaid,
     CommittedFree, AboutToInsert, NoRow, IdleRun

LEMMA NextOnceInv == TypeOK /\ OnceInv /\ [Next]_vars /\ [Careful]_vars => OnceInv'
<1> SUFFICES ASSUME TypeOK, OnceInv, [Next]_vars, [Careful]_vars PROVE OnceInv'
  OBVIOUS
<1>1. CASE Careful
  <2>1. OwnRewards' /\ HandsApart'
    BY <1>1, NextOwnRewards, NextHandsApart DEF OnceInv, Careful
  <2>2. ClaimedOnce' /\ PaidStaysPaid'
    BY NextClaimedOnce, NextPaidStaysPaid
  <2>3. InHandUnpaid' /\ CommittedFree'
    BY <1>1, NextInHandUnpaid, NextCommittedFree
  <2>4. QED
    BY <2>1, <2>2, <2>3 DEF OnceInv
<1>2. CASE UNCHANGED vars
  BY <1>2 DEF vars, OnceInv, OwnRewards, ClaimedOnce, InForce, PaidStaysPaid, HandsApart,
     InHandUnpaid, CommittedFree, AboutToInsert
<1>3. QED
  BY <1>1, <1>2

LEMMA OnceInvariance == CarefulSpec => []OnceInv
  BY InitOnceInv, NextOnceInv, TypeCorrect, PTL DEF CarefulSpec, Spec

-----------------------------------------------------------------------------
(* Theorems.                                                               *)

\* With the three precautions no reward is ever claimed by two payouts that are not
\* cancelled, although InsertPayout leaves the rewards "approved".
THEOREM CarefulClaimsOnce == CarefulSpec => []ClaimedOnce
<1>1. OnceInv => ClaimedOnce
  BY DEF OnceInv
<1>2. QED
  BY <1>1, OnceInvariance, PTL

\* Nor is one paid twice, which the code alone allows.
THEOREM CarefulPaysOnce == CarefulSpec => []RewardPaidOnce
<1>1. OnceInv => RewardPaidOnce
  BY DEF OnceInv, ClaimedOnce, InForce, RewardPaidOnce, Claims
<1>2. QED
  BY <1>1, OnceInvariance, PTL

\* And a reward that was paid never goes back to "approved": the excuse of
\* SettledUnlessOverlap, the cancellation of a payout that lists it too, does not occur.
THEOREM CarefulStaysPaid == CarefulSpec => []PaidStaysPaid
<1>1. OnceInv => PaidStaysPaid
  BY DEF OnceInv
<1>2. QED
  BY <1>1, OnceInvariance, PTL

\* With or without them, a payout never lists a reward of another partner: Advance and
\* NewPayout divide the batch between the partners.
THEOREM RewardsStayWithOwner == Spec => []OwnRewards
<1>1. Init => OwnRewards
  BY DEF Init, OwnRewards, NoRow
<1>2. QED
  BY <1>1, NextOwnRewards, TypeCorrect, PTL DEF Spec
=============================================================================
