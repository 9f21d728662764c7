--------------------------- MODULE IndicacoesPage ---------------------------
(***************************************************************************)
(* The screen /indicacoes: the status of a lead is changed from the menu   *)
(* of its row, or from a sheet that opens over the table.  The sheet is a  *)
(* child of the table, which returns early while it loads and once a load  *)
(* has failed: each time, the sheet is unmounted and what was edited in it *)
(* is dropped.  While the sheet is open it is modal: no row can be used.   *)
(***************************************************************************)
EXTENDS Screens

-----------------------------------------------------------------------------
(* What the server does with each request.                                 *)

\* Any status may follow any other.
ServeStatus(c) ==
    LET r == call[c].row IN
    /\ Acting(c)
    /\ call[c].fn \in {"status", "save"}
    /\ call[c].answer = "none"
    /\ db' = [db EXCEPT ![r] = call[c].to]
    /\ Answered(c, TRUE)
    /\ UNCHANGED <<screen, keyed, moves, page>>

\* New leads, and other operators.
IndicacoesElsewhere(r) ==
    /\ screen = "indicacoes"
    /\ \E s \in (IF db[r] = "absent" THEN {"new"} ELSE LeadStatus \ {db[r]}) :
          Elsewhere(r, s)
    /\ UNCHANGED keyed

-----------------------------------------------------------------------------
(* The table.                                                              *)

TableShown == screen = "indicacoes" /\ mounted /\ ~loading /\ ~error
IndicacoesEmpty == TableShown /\ \A r \in Row : rows[r] = "absent"
SheetShown == TableShown /\ sheet.row # NoRow

\* The status a row already shows is offered too, and does nothing: no step.
HandleStatusChange(c, r, next) ==
    /\ TableShown
    /\ sheet.row = NoRow
    /\ rows[r] \notin {"absent", next}
    /\ busy # r
    /\ call[c].at = "idle"
    /\ busy' = r
    /\ Send(c, "status", r, next)
    /\ UNCHANGED <<screen, server, mounted, rows, cards, more, loading, error, sheet, blemish>>

StatusChangeResume(c) ==
    /\ screen = "indicacoes"
    /\ call[c].fn = "status"
    /\ Resume(c)

\* A click on a row selects the lead as the table shows it.
OpenSheet(r) ==
    /\ TableShown
    /\ sheet.row = NoRow
    /\ rows[r] # "absent"
    /\ sheet' = [row |-> r, shown |-> rows[r], draft |-> rows[r], saving |-> FALSE]
    /\ UNCHANGED <<screen, server, mounted, rows, cards, more, loading, error, busy, call, blemish>>

-----------------------------------------------------------------------------
(* The sheet.                                                              *)

EditSheet(status) ==
    /\ SheetShown
    /\ sheet.draft # status
    /\ sheet' = [sheet EXCEPT !.draft = status]
    /\ UNCHANGED <<screen, server, mounted, rows, cards, more, loading, error, busy, call, blemish>>

\* The sheet can be closed while it saves.
CloseSheet ==
    /\ SheetShown
    /\ sheet' = NoSheet
    /\ call' = [c \in Call |-> Orphan(call[c])]
    /\ UNCHANGED <<screen, server, mounted, rows, cards, more, loading, error, busy, blemish>>

\* Saving the status the lead was opened with closes the sheet: CloseSheet.
HandleSave(c) ==
    /\ SheetShown
    /\ ~sheet.saving
    /\ sheet.draft # sheet.shown
    /\ call[c].at = "idle"
    /\ sheet' = [sheet EXCEPT !.saving = TRUE]
    /\ Send(c, "save", sheet.row, sheet.draft)
    /\ UNCHANGED <<screen, server, mounted, rows, cards, more, loading, error, busy, blemish>>

\* Accepted: onUpdated reloads the table and closes the sheet that is open by now,
\* this one or another.  Otherwise the sheet that saved, if it is still there, may be
\* used again.
SaveResume(c) ==
    /\ screen = "indicacoes"
    /\ Acting(c)
    /\ call[c].fn = "save"
    /\ call[c].answer # "none"
    /\ \/ /\ call[c].live
          /\ call[c].answer = "ok"
          /\ loading' = TRUE
          /\ sheet' = NoSheet
          /\ call' = [d \in Call |-> IF d = c THEN ReadCall ELSE Orphan(call[d])]
          /\ blemish' = IF \E d \in Call \ {c} : Reading(d) THEN blemish \cup {"overlap"} ELSE blemish
       \/ /\ ~(call[c].live /\ call[c].answer = "ok")
          /\ sheet' = IF call[c].mine THEN [sheet EXCEPT !.saving = FALSE] ELSE sheet
          /\ call' = [call EXCEPT ![c] = IdleCall]
          /\ UNCHANGED <<loading, blemish>>
    /\ UNCHANGED <<screen, server, mounted, rows, cards, more, error, busy>>

IndicacoesNext ==
    \/ \E c \in Call :
          \/ ServeStatus(c)
          \/ StatusChangeResume(c)
          \/ HandleSave(c)
          \/ SaveResume(c)
          \/ \E r \in Row, next \in LeadStatus : HandleStatusChange(c, r, next)
    \/ \E r \in Row :
          \/ IndicacoesElsewhere(r)
          \/ OpenSheet(r)
    \/ \E status \in LeadStatus : EditSheet(status)
    \/ CloseSheet
=============================================================================
