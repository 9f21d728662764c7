---------------------------- MODULE ComissoesPage ----------------------------
(***************************************************************************)
(* The screen /comissoes: rewards are approved and rejected, above them    *)
(* the cards of GET /api/rewards/summary.  A reload is two GETs, which the *)
(* server answers at two instants.                                         *)
(***************************************************************************)
EXTENDS Screens

-----------------------------------------------------------------------------
(* What the server does with each request.                                 *)

\* A reward that was rejected may be approved.
ServeApproveFault(c) ==
    LET r == call[c].row IN
    /\ call[c].fn = "approve"
    /\ \/ /\ db[r] \in {"pending", "rejected"}
          /\ db' = [db EXCEPT ![r] = "approved"]
          /\ Answered(c, TRUE)
       \/ /\ db[r] \notin {"pending", "rejected"}
          /\ Answered(c, FALSE)
          /\ UNCHANGED db
    /\ UNCHANGED <<keyed, moves>>

ServeApprove(c) ==
    LET r == call[c].row IN
    /\ call[c].fn = "approve"
    /\ \/ /\ db[r] = "pending"
          /\ db' = [db EXCEPT ![r] = "approved"]
          /\ Answered(c, TRUE)
       \/ /\ db[r] # "pending"
          /\ Answered(c, FALSE)
          /\ UNCHANGED db
    /\ UNCHANGED <<keyed, moves>>

\* The server also takes back an approval, which the page never offers.
ServeReject(c) ==
    LET r == call[c].row IN
    /\ call[c].fn = "reject"
    /\ \/ /\ db[r] \in {"pending", "approved"}
          /\ db' = [db EXCEPT ![r] = "rejected"]
          /\ Answered(c, TRUE)
       \/ /\ db[r] \notin {"pending", "approved"}
          /\ Answered(c, FALSE)
          /\ UNCHANGED db
    /\ UNCHANGED <<keyed, moves>>

ComissoesServe(c) ==
    /\ Acting(c)
    /\ call[c].answer = "none"
    /\ \/ ServeApprove(c)
       \/ ServeReject(c)
    /\ UNCHANGED <<screen, page>>

\* The attribution worker, another operator, and the payouts a reward is in: paying one
\* pays its rewards and cancelling one approves them, whatever their status was.
RewardMove == {<<"absent", "pending">>, <<"pending", "approved">>, <<"pending", "rejected">>,
               <<"approved", "rejected">>, <<"approved", "paid">>, <<"rejected", "paid">>,
               <<"rejected", "approved">>, <<"paid", "approved">>}

ComissoesElsewhere(r) ==
    /\ screen = "comissoes"
    /\ \E move \in RewardMove :
          /\ db[r] = move[1]
          /\ Elsewhere(r, move[2])
    /\ UNCHANGED keyed

-----------------------------------------------------------------------------
(* The page.                                                               *)

ComissoesOffered(status) == IF status = "pending" THEN {"approve", "reject"} ELSE {}

ComissoesMenus ==
    IF screen = "comissoes" /\ mounted /\ ~loading
    THEN {r \in Row : rows[r] # "absent" /\ busy # r}
    ELSE {}

\* Below the table: no reward yet, also after a failed load.
ComissoesEmpty == screen = "comissoes" /\ ~loading /\ \A r \in Row : rows[r] = "absent"

HandleReward(c, r, fn, to) ==
    /\ r \in ComissoesMenus
    /\ fn \in ComissoesOffered(rows[r])
    /\ call[c].at = "idle"
    /\ busy' = r
    /\ Send(c, fn, r, to)
    /\ UNCHANGED <<screen, server, mounted, rows, cards, more, loading, error, sheet, blemish>>

HandleApprove(c, r) == HandleReward(c, r, "approve", "approved")

\* An empty reason gives up the rejection: no step.
HandleReject(c, r) == HandleReward(c, r, "reject", "rejected")

ComissoesResume(c) == screen = "comissoes" /\ Resume(c)

ComissoesNext ==
    \/ \E c \in Call :
          \/ ComissoesServe(c)
          \/ ComissoesResume(c)
          \/ \E r \in Row :
                \/ HandleApprove(c, r)
                \/ HandleReject(c, r)
    \/ \E r \in Row : ComissoesElsewhere(r)
=============================================================================
