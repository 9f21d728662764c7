------------------------------ MODULE Dashboard ------------------------------
(***************************************************************************)
(* The list screens of the dashboard and of the partner's app, each with   *)
(* the handlers of the server it talks to, the network between them, and   *)
(* whoever else works on the same rows.                                    *)
(***************************************************************************)
EXTENDS SaquesPage, ComissoesPage, IndicacoesPage, ReadPages

Next ==
    \/ \E c \in Call :
          \/ Mount(c)
          \/ LoseAct(c)
          \/ ReadArrives(c)
          \/ ReadFails(c)
          \/ \E part \in Part : AnswerRead(c, part) \/ LoseRead(c, part)
    \/ Unmount
    \/ SaquesNext
    \/ ComissoesNext
    \/ IndicacoesNext
    \/ ReadPagesNext

Spec == Init /\ [][Next]_vars

-----------------------------------------------------------------------------
(* What holds of a screen.                                                 *)

\* How far a payout has come.
Rank(status) == CASE status = "absent"               -> 0
                  [] status = "pending"              -> 1
                  [] status = "processing"           -> 2
                  [] status \in {"paid", "cancelled"} -> 3

\* The table of /saques never shows a payout further than it is on the server, whatever
\* requests fail or come late: a row changes only when a reload has read it.
NeverAhead == screen = "saques" => \A r \in Row : Rank(rows[r]) <= Rank(db[r])

\* And it goes back to an earlier status of a payout only when two reloads of one visit
\* were under way at once: the answers are applied in the order they arrive.
BackOnlyOnOverlap ==
    [][screen = "saques" /\ mounted /\ mounted' =>
          \/ \A r \in Row : Rank(rows'[r]) >= Rank(rows[r])
          \/ "overlap" \in blemish]_vars

\* A page at rest shows what the server holds, lists and cards, provided that nobody
\* else has changed a row, no request was lost and no two reloads were under way at
\* once: the reload that follows each accepted request is enough.
AtRest == mounted /\ \A c \in Call : call[c].at = "idle"
QuietShowsTruth ==
    AtRest /\ blemish = {} =>
        /\ rows = db
        /\ "cards" \in Parts => cards = db
        /\ "more" \in Parts => more = db

\* A spinner, a disabled button or a disabled row has a request under way that will
\* clear it, in every interleaving of handlers and reloads and on every error path; and
\* a sheet never has two saves under way.
NoStuckControls ==
    mounted =>
        /\ loading => \E c \in Call : Reading(c)
        /\ busy = "__create__" => \E c \in Call : Acting(c) /\ call[c].live /\ call[c].fn = "create"
        /\ busy \in Row => \E c \in Call : Acting(c) /\ call[c].live /\ call[c].row = busy
        /\ sheet.saving => \E c \in Call : Acting(c) /\ call[c].mine
        /\ \A c, d \in Call : call[c].mine /\ call[d].mine => c = d

\* A click on a row that has moved on is refused, never applied to a status the operator
\* did not see, except that a cancellation also reaches a payout confirmed in between and
\* a rejection a reward approved in between.  (Leads have no such protection.)
AppliedAsShown ==
    [][\A c \in Call :
          call[c].answer = "none" /\ call'[c].answer = "ok" /\ db' # db
              /\ call[c].fn \in {"confirm", "paid", "cancel", "approve", "reject"} =>
          \/ db[call[c].row] = call[c].shown
          \/ call[c].fn = "cancel" /\ db[call[c].row] = "processing"
          \/ call[c].fn = "reject" /\ db[call[c].row] = "approved"]_vars

\* A page that is only read lists no row the server does not hold.  Any page says that
\* there is nothing yet only when that is so, unless it has changed since, by others or by
\* the payouts the page itself asked for, or the overview was answered from a query that
\* failed.  Four pages say it beneath the message of a failed load too.
SaysNothing == SaquesEmpty \/ ComissoesEmpty \/ IndicacoesEmpty \/ ReadPageEmpty
NothingMeansNothing ==
    mounted =>
        /\ \A r \in OnScreen : db[r] # "absent"
        /\ SaysNothing /\ "elsewhere" \notin blemish =>
              \/ db = Empty
              \/ screen = "saques" /\ (blemish # {} \/ \E c \in Call : Acting(c))
              \/ screen = "overview" /\ "swallowed" \in blemish
              \/ screen \in {"comissoes", "auditoria", "referidos"} /\ error
=============================================================================
