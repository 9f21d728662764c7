---------------------------- MODULE SignInLedger ----------------------------
(***************************************************************************)
(* What signing in and out promises, without requests, statements or       *)
(* cookies: a sign-in opens a family of refresh tokens; tokens join it     *)
(* while it is open; a token belongs to one family for good and, once      *)
(* withdrawn, is never accepted again; and a family that is closed has no  *)
(* token that is accepted, and stays closed.                               *)
(*                                                                         *)
(* Nothing is promised of the session a family began with: the code lets a *)
(* family outlive it (see RevokedSessionIsDead in Sessions).               *)
(***************************************************************************)
CONSTANTS Session,   \* the sign-ins, each with the family it opens
          Token,     \* refresh tokens
          NoFamily   \* the family of a token that does not exist yet

VARIABLES family,  \* whether each family is unborn, open or closed
          status,  \* whether each token is none, live or revoked
          home     \* the family each token belongs to

vars == <<family, status, home>>

Init ==
    /\ family = [f \in Session |-> "unborn"]
    /\ status = [t \in Token |-> "none"]
    /\ home = [t \in Token |-> NoFamily]

Joins(t, f) ==
    /\ status[t] = "none"
    /\ status' = [status EXCEPT ![t] = "live"]
    /\ home' = [home EXCEPT ![t] = f]

\* A sign-in opens a family, with its first token or before it.
Open(f) ==
    /\ family[f] = "unborn"
    /\ family' = [family EXCEPT ![f] = "open"]
    /\ (\E t \in Token : Joins(t, f)) \/ UNCHANGED <<status, home>>

Issue(t, f) ==
    /\ family[f] = "open"
    /\ Joins(t, f)
    /\ UNCHANGED family

\* Tokens are withdrawn, and families closed that are left without one.
Withdraw(tokens, families) ==
    /\ \A t \in tokens : status[t] = "live"
    /\ \A f \in families : family[f] = "open"
    /\ \A f \in families, t \in Token : home[t] = f => status'[t] # "live"
    /\ status' = [t \in Token |-> IF t \in tokens THEN "revoked" ELSE status[t]]
    /\ family' = [f \in Session |-> IF f \in families THEN "closed" ELSE family[f]]
    /\ UNCHANGED home

Next ==
    \/ \E f \in Session : Open(f) \/ \E t \in Token : Issue(t, f)
    \/ \E tokens \in SUBSET Token, families \in SUBSET Session : Withdraw(tokens, families)

Spec == Init /\ [][Next]_vars
=============================================================================
