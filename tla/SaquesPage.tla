----------------------------- MODULE SaquesPage -----------------------------
(***************************************************************************)
(* The screen /saques: payouts are created, confirmed, marked as paid and  *)
(* cancelled by hand.  The page is apps/dashboard/app/(app)/saques, the    *)
(* server side the payout handlers, reduced to the payouts table: module   *)
(* Payouts has the rewards behind it.                                      *)
(***************************************************************************)
EXTENDS Screens

-----------------------------------------------------------------------------
(* What the server does with each request.                                 *)

\* The job inserts a pending payout for any number of partners, none included.
ServeCreate(c) ==
    /\ call[c].fn = "create"
    /\ \E new \in SUBSET {r \in Row : db[r] = "absent"} :
          db' = [r \in Row |-> IF r \in new THEN "pending" ELSE db[r]]
    /\ Answered(c, TRUE)
    /\ UNCHANGED <<keyed, moves>>

\* A stored answer is replayed before anything else is looked at, and the page sends
\* no key of its own: the server's is the payout.  Storing the answer may fail.
ServeConfirm(c) ==
    LET r == call[c].row IN
    /\ call[c].fn = "confirm"
    /\ \/ /\ r \in keyed
          /\ Answered(c, TRUE)
          /\ UNCHANGED <<db, keyed>>
       \/ /\ r \notin keyed
          /\ db[r] = "pending"
          /\ db' = [db EXCEPT ![r] = "processing"]
          /\ Answered(c, TRUE)
          /\ keyed' \in {keyed, keyed \cup {r}}
       \/ /\ r \notin keyed
          /\ db[r] \in {"processing", "paid"}
          /\ Answered(c, TRUE)
          /\ keyed' \in {keyed, keyed \cup {r}}
          /\ UNCHANGED db
       \/ /\ r \notin keyed
          /\ db[r] \notin {"pending", "processing", "paid"}
          /\ Answered(c, FALSE)
          /\ UNCHANGED <<db, keyed>>
    /\ UNCHANGED moves

ServePaid(c) ==
    LET r == call[c].row IN
    /\ call[c].fn = "paid"
    /\ \/ /\ db[r] = "processing"
          /\ db' = [db EXCEPT ![r] = "paid"]
          /\ Answered(c, TRUE)
       \/ /\ db[r] # "processing"
          /\ Answered(c, db[r] = "paid")
          /\ UNCHANGED db
    /\ UNCHANGED <<keyed, moves>>

ServeCancel(c) ==
    LET r == call[c].row IN
    /\ call[c].fn = "cancel"
    /\ \/ /\ db[r] \in {"pending", "processing"}
          /\ db' = [db EXCEPT ![r] = "cancelled"]
          /\ Answered(c, TRUE)
       \/ /\ db[r] \notin {"pending", "processing"}
          /\ Answered(c, FALSE)
          /\ UNCHANGED db
    /\ UNCHANGED <<keyed, moves>>

SaquesServe(c) ==
    /\ Acting(c)
    /\ call[c].answer = "none"
    /\ \/ ServeCreate(c)
       \/ ServeConfirm(c)
       \/ ServePaid(c)
       \/ ServeCancel(c)
    /\ UNCHANGED <<screen, page>>

\* Another tab, another operator, or the daily job; and a stored answer that expires.
PayoutMove == {<<"absent", "pending">>, <<"pending", "processing">>, <<"processing", "paid">>,
               <<"pending", "cancelled">>, <<"processing", "cancelled">>}

SaquesElsewhere(r) ==
    /\ screen = "saques"
    /\ \E move \in PayoutMove :
          /\ db[r] = move[1]
          /\ Elsewhere(r, move[2])
          /\ keyed' \in {keyed} \cup (IF move[2] = "processing" THEN {keyed \cup {r}} ELSE {})

KeyExpires(r) ==
    /\ r \in keyed
    /\ keyed' = keyed \ {r}
    /\ UNCHANGED <<screen, db, moves, page, call, blemish>>

-----------------------------------------------------------------------------
(* The page.                                                               *)

\* What the menu of a row offers, by the status on the screen.
SaquesOffered(status) ==
    CASE status = "pending"    -> {"confirm", "cancel"}
      [] status = "processing" -> {"paid", "cancel"}
      [] OTHER                 -> {}

\* The rows whose menu can be opened: none while the table is hidden.
SaquesMenus ==
    IF screen = "saques" /\ mounted /\ ~loading
    THEN {r \in Row : rows[r] # "absent" /\ busy # r}
    ELSE {}

\* Below the table: no payout yet, also after a failed load.
SaquesEmpty == screen = "saques" /\ ~loading /\ \A r \in Row : rows[r] = "absent"

\* "Gerar saques", whether or not the table is there.
CreateOffered == screen = "saques" /\ mounted /\ busy # "__create__"

HandleCreateJob(c) ==
    /\ CreateOffered
    /\ call[c].at = "idle"
    /\ busy' = "__create__"
    /\ Send(c, "create", NoRow, "pending")
    /\ UNCHANGED <<screen, server, mounted, rows, cards, more, loading, error, sheet, blemish>>

\* The page shows the new status before the server has answered.
HandleRowFault(c, r, fn, to) ==
    /\ r \in SaquesMenus
    /\ fn \in SaquesOffered(rows[r])
    /\ call[c].at = "idle"
    /\ busy' = r
    /\ rows' = [rows EXCEPT ![r] = to]
    /\ Send(c, fn, r, to)
    /\ UNCHANGED <<screen, server, mounted, cards, more, loading, error, sheet, blemish>>

HandleRow(c, r, fn, to) ==
    /\ r \in SaquesMenus
    /\ fn \in SaquesOffered(rows[r])
    /\ call[c].at = "idle"
    /\ busy' = r
    /\ Send(c, fn, r, to)
    /\ UNCHANGED <<screen, server, mounted, rows, cards, more, loading, error, sheet, blemish>>

\* A status payouts do not have is asked for.
HandleConfirmFault(c, r) == HandleRow(c, r, "confirm", "confirmed")

HandleConfirm(c, r) == HandleRow(c, r, "confirm", "processing")

\* Dismissing the prompt for the receipt marks the payout as paid all the same.
HandleMarkPaid(c, r) == HandleRow(c, r, "paid", "paid")

\* Dismissing the prompt for the reason gives up the cancellation: no step.
HandleCancel(c, r) == HandleRow(c, r, "cancel", "cancelled")

\* An accepted request is not followed by a reload.
SaquesResumeFault(c) ==
    /\ screen = "saques"
    /\ Acting(c)
    /\ call[c].answer # "none"
    /\ busy' = IF call[c].live THEN NoRow ELSE busy
    /\ call' = [call EXCEPT ![c] = IdleCall]
    /\ UNCHANGED <<screen, server, mounted, rows, cards, more, loading, error, sheet, blemish>>

\* The end of the four handlers.
SaquesResume(c) == screen = "saques" /\ Resume(c)

SaquesNext ==
    \/ \E c \in Call :
          \/ SaquesServe(c)
          \/ HandleCreateJob(c)
          \/ SaquesResume(c)
          \/ \E r \in Row :
                \/ HandleConfirm(c, r)
                \/ HandleMarkPaid(c, r)
                \/ HandleCancel(c, r)
    \/ \E r \in Row :
          \/ SaquesElsewhere(r)
          \/ KeyExpires(r)
=============================================================================
