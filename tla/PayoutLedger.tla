---------------------------- MODULE PayoutLedger ----------------------------
(***************************************************************************)
(* What the payout subsystem promises, without handlers, jobs or clocks:   *)
(* a payout claims a set of matured rewards for one partner and one Pix    *)
(* key, the claim never changes once it is made, and the payout then moves *)
(* pending -> processing -> paid, or is cancelled before it is paid.       *)
(*                                                                         *)
(* Nothing is promised of two claims on the same reward: the code does not *)
(* exclude them (see RewardPaidOnce in Payouts).                           *)
(***************************************************************************)
CONSTANTS Payout, Partner, Reward, Key,
          Owner,    \* the partner that earned each reward
          NoClaim   \* the claim of a payout that does not exist yet

VARIABLES matured,  \* the rewards that were approved and whose hold has elapsed
          status,   \* the status of each payout
          claim     \* what each payout pays: to whom, to which key, which rewards

vars == <<matured, status, claim>>

Claim == [partner: Partner, pix_key: Key, reward_ids: SUBSET Reward]

Init ==
    /\ matured \in SUBSET Reward
    /\ status = [q \in Payout |-> "none"]
    /\ claim = [q \in Payout |-> NoClaim]

\* Rewards only ever become matured.
Mature ==
    /\ matured' \in SUBSET Reward
    /\ matured \subseteq matured'
    /\ UNCHANGED <<status, claim>>

Open(q) ==
    /\ status[q] = "none"
    /\ \E c \in Claim :
          /\ c.reward_ids # {}
          /\ c.reward_ids \subseteq matured
          /\ \A r \in c.reward_ids : Owner[r] = c.partner
          /\ claim' = [claim EXCEPT ![q] = c]
    /\ status' = [status EXCEPT ![q] = "pending"]
    /\ UNCHANGED matured

Move(q, from, to) ==
    /\ status[q] \in from
    /\ status' = [status EXCEPT ![q] = to]
    /\ UNCHANGED <<matured, claim>>

Next ==
    \/ Mature
    \/ \E q \in Payout :
          \/ Open(q)
          \/ Move(q, {"pending"}, "processing")
          \/ Move(q, {"processing"}, "paid")
          \/ Move(q, {"pending", "processing"}, "cancelled")

Spec == Init /\ [][Next]_vars
=============================================================================
