------------------------------ MODULE ReadPages ------------------------------
(***************************************************************************)
(* The screens that are loaded once, when they are opened, and from which  *)
(* nothing is changed: the dashboard's overview, its list of programs and  *)
(* its audit screen; the partner's home, statement and list of leads.      *)
(*                                                                         *)
(* Each draws its lists, or a sentence saying that there is nothing yet,   *)
(* from what its GETs answered.  The tab of /auditoria, the row expanded   *)
(* there and the filter of the partner's leads are left out: any list the  *)
(* page holds can be brought to the front.                                 *)
(***************************************************************************)
EXTENDS SaquesPage

-----------------------------------------------------------------------------
(* The server.                                                             *)

\* The overview is answered from several queries, each at its own instant, and none of
\* their errors is looked at: what failed is answered empty.
SwallowQuery(c, part) ==
    /\ screen = "overview"
    /\ call' = [call EXCEPT ![c].got[part] = Empty]

\* Nor is the error of scanning a program, which ends the list behind that program.
SwallowScan(c, part) ==
    /\ screen = "programas"
    /\ \E r \in {q \in Row : db[q] # "absent"} :
          call' = [call EXCEPT ![c].got[part] = [Empty EXCEPT ![r] = db[r]]]

AnswerShort(c, part) ==
    /\ Reading(c)
    /\ part \in Parts
    /\ call[c].got[part] = NotYet
    /\ SwallowQuery(c, part) \/ SwallowScan(c, part)
    /\ blemish' = blemish \cup {"swallowed"}
    /\ UNCHANGED <<screen, server, page>>

\* Nothing is ever removed: entries are logged, programs change to any other status,
\* leads too, and payouts go their way.
ReadMove(r) ==
    CASE screen = "extrato"   -> {move[2] : move \in {m \in PayoutMove : m[1] = db[r]}}
      [] screen = "auditoria" -> {"logged"} \ {db[r]}
      [] OTHER                -> IF db[r] # "absent" THEN Status(screen) \ {db[r]}
                                 ELSE IF screen = "programas" THEN {"draft"} ELSE {"new"}

ReadElsewhere(r) ==
    /\ screen \in ReadPage
    /\ \E status \in ReadMove(r) : Elsewhere(r, status)
    /\ UNCHANGED keyed

-----------------------------------------------------------------------------
(* What each screen draws: the rows it lists.                              *)

Listed(list) == {r \in Row : list[r] # "absent"}

\* /auditoria: once loaded, after a failure too, one table behind the other.
EventsTable == Listed(rows)
FraudTable == Listed(more)
AuditoriaTables == IF loading THEN {} ELSE {EventsTable, FraudTable}

\* /programas: the list, whatever else is shown.
ProgramasList == Listed(rows)

\* The overview is drawn only from an answer: the recent leads and the best partners.
OverviewLists == IF loading \/ error THEN {} ELSE {Listed(rows), Listed(more)}

\* /parceiro/extrato and /parceiro, too.
ExtratoList == IF loading \/ error THEN {} ELSE Listed(rows)
ParceiroList == IF loading \/ error THEN {} ELSE Listed(rows)

\* /parceiro/indicacoes: the list, whatever else is shown.
ReferidosList == Listed(rows)

OnScreen == CASE screen = "auditoria" -> UNION AuditoriaTables
              [] screen = "programas" -> ProgramasList
              [] screen = "overview"  -> UNION OverviewLists
              [] screen = "extrato"   -> ExtratoList
              [] screen = "parceiro"  -> ParceiroList
              [] screen = "referidos" -> ReferidosList
              [] OTHER                -> {}

-----------------------------------------------------------------------------
(* Where it says that there is nothing yet.                                *)

\* The page forgets that a failed load has read nothing.
ProgramasEmptyFault == ~loading /\ ProgramasList = {}

ProgramasEmpty == ~loading /\ ~error /\ ProgramasList = {}
ReferidosEmpty == ~loading /\ ReferidosList = {}

ReadPageEmpty ==
    CASE screen = "auditoria"              -> {} \in AuditoriaTables
      [] screen = "programas"              -> ProgramasEmpty
      [] screen = "overview"               -> {} \in OverviewLists
      [] screen \in {"extrato", "parceiro"} -> ~loading /\ ~error /\ Listed(rows) = {}
      [] screen = "referidos"              -> ReferidosEmpty
      [] OTHER                             -> FALSE

ReadPagesNext ==
    \/ \E c \in Call, part \in Part : AnswerShort(c, part)
    \/ \E r \in Row : ReadElsewhere(r)
=============================================================================
