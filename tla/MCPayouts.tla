----------------------------- MODULE MCPayouts -----------------------------
(***************************************************************************)
(* Instances of Payouts: rewards r1, r2 of partner p1, r3 of p2, and one   *)
(* runner of each variant of the job, every runner covering all partners.  *)
(***************************************************************************)
EXTENDS Payouts, TLC

CONSTANTS p1, p2, r1, r2, r3

AllOwners == r1 :> p1 @@ r2 :> p1 @@ r3 :> p2
MCOwner == [r \in Reward |-> AllOwners[r]]
MCScope == [j \in Runner |-> Partner]
MCHoldDays == [p \in Partner |-> 1]

Symmetry == Permutations(Payout)
=============================================================================
