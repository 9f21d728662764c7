------------------------------- MODULE Screens -------------------------------
(***************************************************************************)
(* What the list screens of the dashboard and of the partner's app share:  *)
(* one browser tab that shows one of them, the rows the server holds, the  *)
(* copy of them the page holds in React state, and the requests of the     *)
(* page that are in flight.                                                *)
(*                                                                         *)
(* A handler of a page is an async function: it runs up to its await in    *)
(* one step and goes on when the answer comes.  Between the two, anything  *)
(* may happen: other clicks, other answers, the page unmounted.  A call is *)
(* one such function under way: first the request that changes a row       *)
(* ("act"), then the GET of the reload that follows it ("read"), which     *)
(* nobody awaits.  The server works on a request in one step, at any time  *)
(* between its sending and its answer; a request or its answer may be      *)
(* lost, and fetch then rejects.  A request that was given up by the       *)
(* browser and reaches the server later is left out.                       *)
(*                                                                         *)
(* The rows of two screens are not related, so a tab stays on one screen:  *)
(* visiting another is leaving this one.  Texts, search, filters by status *)
(* and the contents of the rows are left out; the lists of one page are    *)
(* told apart only by when they were read.                                 *)
(*                                                                         *)
(* A definition whose name ends in Fault is a plausible mistake in the     *)
(* definition that follows it; no specification uses one.                  *)
(***************************************************************************)
EXTENDS Integers, FiniteSets

CONSTANTS Row,         \* identifiers of payouts, rewards, leads, programs or audit entries
          Call,        \* bound: handlers of the page that may be under way
          LeadStatus,  \* the statuses of a lead the run tells apart
          MaxMoves,    \* bound: moves of rows by others while the tab is open
          NoRow, NotYet, Lost

ASSUME ScreensAssumption ==
    /\ NoRow \notin Row
    /\ "__create__" \notin Row \cup {NoRow}
    /\ "new" \in LeadStatus
    /\ LeadStatus \subseteq {"new", "in_progress", "qualified", "closed", "lost"}
    /\ MaxMoves \in Nat

VARIABLES screen,   \* the screen this tab shows
          db,       \* the status of each row on the server
          keyed,    \* payouts with a stored answer to "confirm" (idempotency_keys)
          mounted,  \* the page component is mounted
          rows,     \* its list: payouts, rewards, leads, programs or audit entries
          cards,    \* the data behind its summary cards
          more,     \* the second list of /auditoria and of the overview
          loading, error,
          busy,     \* busy, or updatingId: the row, or the button, that waits
          sheet,    \* the lead whose sheet is open, and what is edited there
          call,     \* the handlers under way
          moves,    \* how often others have moved a row
          blemish   \* history: why the page may lawfully show old rows

server == <<db, keyed, moves>>
page == <<mounted, rows, cards, more, loading, error, busy, sheet>>
vars == <<screen, server, page, call, blemish>>

\* The screens that are read once and change nothing: module ReadPages.
ReadPage == {"auditoria", "programas", "overview", "extrato", "parceiro", "referidos"}
Screen == {"saques", "comissoes", "indicacoes"} \cup ReadPage

PayoutStatus == {"pending", "processing", "paid", "cancelled"}
RewardStatus == {"pending", "approved", "rejected", "paid"}
ProgramStatus == {"draft", "active", "paused", "archived"}
Status(s) == CASE s \in {"saques", "extrato"}  -> PayoutStatus
               [] s = "comissoes"              -> RewardStatus
               [] s = "programas"              -> ProgramStatus
               [] s = "auditoria"              -> {"logged"}
               [] OTHER                        -> LeadStatus
AnyStatus == (UNION {Status(s) : s \in Screen}) \cup {"absent"}

\* What a GET answers; an empty list is one where every row is absent.
Snapshot == [Row -> AnyStatus]
Empty == [r \in Row |-> "absent"]
ASSUME AnswerAssumption == NotYet \notin Snapshot /\ Lost \notin Snapshot

\* The GETs of one load, by what their answers are put into.
Part == {"rows", "cards", "more"}
SaquesGets == {"rows"}
ComissoesGets == {"rows", "cards"}
IndicacoesGets == {"rows"}
AuditoriaGets == {"rows", "cards", "more"}
ProgramasGets == {"rows"}
OverviewGets == {"rows", "cards", "more"}
ExtratoGets == {"rows", "cards"}
ParceiroGets == {"rows", "cards"}
ReferidosGets == {"rows"}

Parts == CASE screen = "saques"     -> SaquesGets
           [] screen = "comissoes"  -> ComissoesGets
           [] screen = "indicacoes" -> IndicacoesGets
           [] screen = "auditoria"  -> AuditoriaGets
           [] screen = "programas"  -> ProgramasGets
           [] screen = "overview"   -> OverviewGets
           [] screen = "extrato"    -> ExtratoGets
           [] screen = "parceiro"   -> ParceiroGets
           [] screen = "referidos"  -> ReferidosGets

Handler == {"create", "confirm", "paid", "cancel", "approve", "reject", "status", "save"}
Answer == {"none", "ok", "refused", "lost"}

\* live: the page that made the call is still mounted; mine: so is the sheet;
\* shown: the status the row had on the screen when it was clicked.
CallState == [at: {"idle", "act", "read"}, fn: Handler \cup {"none"}, row: Row \cup {NoRow},
              to: AnyStatus, shown: AnyStatus, live: BOOLEAN, mine: BOOLEAN,
              answer: Answer, got: [Part -> Snapshot \cup {NotYet, Lost}]]
IdleCall == [at |-> "idle", fn |-> "none", row |-> NoRow, to |-> "absent", shown |-> "absent",
             live |-> FALSE, mine |-> FALSE, answer |-> "none", got |-> [p \in Part |-> NotYet]]
ReadCall == [IdleCall EXCEPT !.at = "read", !.live = TRUE]

SheetState == [row: Row \cup {NoRow}, shown: AnyStatus, draft: AnyStatus, saving: BOOLEAN]
NoSheet == [row |-> NoRow, shown |-> "absent", draft |-> "absent", saving |-> FALSE]

TypeOK ==
    /\ screen \in Screen
    /\ db \in Snapshot
    /\ keyed \subseteq Row
    /\ moves \in 0..MaxMoves
    /\ mounted \in BOOLEAN
    /\ rows \in Snapshot
    /\ cards \in Snapshot
    /\ more \in Snapshot
    /\ loading \in BOOLEAN
    /\ error \in BOOLEAN
    /\ busy \in Row \cup {NoRow, "__create__"}
    /\ sheet \in SheetState
    /\ call \in [Call -> CallState]
    /\ blemish \subseteq {"elsewhere", "overlap", "lost", "swallowed"}

Acting(c) == call[c].at = "act"
Reading(c) == call[c].at = "read"

-----------------------------------------------------------------------------
(* The page as it is mounted, and what the rest of its state does not      *)
(* survive: React drops the state of an unmounted component, and the       *)
(* answers its handlers still wait for change nothing.                     *)

\* An instance of the sheet is on the screen only while the table is; it starts over
\* from the row that is selected.
Fresh(sh) == [sh EXCEPT !.draft = sh.shown, !.saving = FALSE]
Orphan(st) == [st EXCEPT !.mine = FALSE]
Dead(st) == [st EXCEPT !.mine = FALSE, !.live = FALSE]

Init ==
    /\ screen \in Screen
    /\ db \in [Row -> Status(screen) \cup {"absent"}]
    /\ keyed \in SUBSET {r \in Row : screen = "saques" /\ db[r] \in {"processing", "paid", "cancelled"}}
    /\ moves = 0
    /\ mounted = FALSE
    /\ rows = Empty /\ cards = Empty /\ more = Empty
    /\ loading = TRUE /\ error = FALSE /\ busy = NoRow
    /\ sheet = NoSheet
    /\ call = [c \in Call |-> IdleCall]
    /\ blemish = {}

\* useEffect(() => { reload() }, []) of the page: one GET, or two.
Mount(c) ==
    /\ ~mounted
    /\ call[c].at = "idle"
    /\ mounted' = TRUE
    /\ call' = [call EXCEPT ![c] = ReadCall]
    /\ blemish' = {}
    /\ UNCHANGED <<screen, server, rows, cards, more, loading, error, busy, sheet>>

\* The list is kept above the page, and so are the answers under way.
UnmountFault ==
    /\ mounted
    /\ mounted' = FALSE
    /\ rows' = Empty /\ cards' = Empty /\ more' = Empty
    /\ loading' = TRUE /\ error' = FALSE /\ busy' = NoRow
    /\ sheet' = NoSheet
    /\ call' = [c \in Call |-> IF Acting(c) THEN Dead(call[c]) ELSE call[c]]
    /\ UNCHANGED <<screen, server, blemish>>

\* The user goes to another page of the dashboard.
Unmount ==
    /\ mounted
    /\ mounted' = FALSE
    /\ rows' = Empty /\ cards' = Empty /\ more' = Empty
    /\ loading' = TRUE /\ error' = FALSE /\ busy' = NoRow
    /\ sheet' = NoSheet
    /\ call' = [c \in Call |-> IF Acting(c) THEN Dead(call[c]) ELSE IdleCall]
    /\ blemish' = {}
    /\ UNCHANGED <<screen, server>>

-----------------------------------------------------------------------------
(* The GETs of a reload.                                                   *)

\* The wallet query is one PostgreSQL rejects (FILTER after COALESCE): always an error.
WalletRefused(part) == screen = "extrato" /\ part = "cards"

\* The server answers one GET of call c with the rows as they are.
AnswerRead(c, part) ==
    /\ Reading(c)
    /\ part \in Parts
    /\ ~WalletRefused(part)
    /\ call[c].got[part] = NotYet
    /\ call' = [call EXCEPT ![c].got[part] = db]
    /\ UNCHANGED <<screen, server, page, blemish>>

\* A GET, or its answer, is lost; or the server refuses it.
LoseRead(c, part) ==
    /\ Reading(c)
    /\ part \in Parts
    /\ call[c].got[part] # Lost
    /\ call' = [call EXCEPT ![c].got[part] = Lost]
    /\ UNCHANGED <<screen, server, page, blemish>>

\* .then(...).finally(...): the list is replaced, whichever reload it answers.
ReadArrives(c) ==
    /\ Reading(c)
    /\ \A p \in Parts : call[c].got[p] \notin {NotYet, Lost}
    /\ rows' = call[c].got["rows"]
    /\ cards' = IF "cards" \in Parts THEN call[c].got["cards"] ELSE cards
    /\ more' = IF "more" \in Parts THEN call[c].got["more"] ELSE more
    /\ loading' = FALSE
    /\ call' = [call EXCEPT ![c] = IdleCall]
    /\ UNCHANGED <<screen, server, mounted, error, busy, sheet, blemish>>

\* The spinner is removed in then(), not in finally().
ReadFailsFault(c) ==
    /\ Reading(c)
    /\ \E p \in Parts : call[c].got[p] = Lost
    /\ error' = TRUE
    /\ sheet' = Fresh(sheet)
    /\ call' = [d \in Call |-> IF d = c THEN IdleCall ELSE Orphan(call[d])]
    /\ blemish' = blemish \cup {"lost"}
    /\ UNCHANGED <<screen, server, mounted, rows, cards, more, loading, busy>>

\* .catch(...).finally(...): Promise.all gives up at its first rejection.  Nothing ever
\* clears the error; on /indicacoes it takes the place of the table and of the sheet.
ReadFails(c) ==
    /\ Reading(c)
    /\ \E p \in Parts : call[c].got[p] = Lost
    /\ error' = TRUE
    /\ loading' = FALSE
    /\ sheet' = Fresh(sheet)
    /\ call' = [d \in Call |-> IF d = c THEN IdleCall ELSE Orphan(call[d])]
    /\ blemish' = blemish \cup {"lost"}
    /\ UNCHANGED <<screen, server, mounted, rows, cards, more, busy>>

-----------------------------------------------------------------------------
(* The requests that change a row (request of lib/api.ts).                 *)

\* Another tab, another operator or a worker moves row r.
Elsewhere(r, status) ==
    /\ moves < MaxMoves
    /\ moves' = moves + 1
    /\ db' = [db EXCEPT ![r] = status]
    /\ blemish' = blemish \cup {"elsewhere"}
    /\ UNCHANGED <<screen, page, call>>

\* The handler sends its request and waits.
Send(c, fn, r, to) ==
    call' = [call EXCEPT ![c] = [IdleCall EXCEPT !.at = "act", !.fn = fn, !.row = r, !.to = to,
                                    !.shown = IF r = NoRow THEN "absent" ELSE rows[r],
                                    !.live = TRUE, !.mine = (fn = "save")]]

\* The server has worked on the request of c: ok tells whether it accepted it.  What
\* the request said is not needed any more.
Answered(c, ok) ==
    /\ call' = [call EXCEPT ![c].answer = IF ok THEN "ok" ELSE "refused",
                             ![c].to = "absent", ![c].shown = "absent"]
    /\ blemish' = IF call[c].live THEN blemish ELSE blemish \cup {"elsewhere"}

\* fetch rejects: the request was lost, or its answer.
LoseAct(c) ==
    /\ Acting(c)
    /\ call[c].answer # "lost"
    /\ call' = [call EXCEPT ![c].answer = "lost",
                             ![c].to = "absent", ![c].shown = "absent"]
    /\ blemish' = IF call[c].live THEN blemish \cup {"lost"} ELSE blemish
    /\ UNCHANGED <<screen, server, page>>

\* reload() of a handler whose request was accepted: its call becomes the GET.  The
\* table is hidden while it is under way, and the sheet with it.
ReloadAfter(c) ==
    /\ loading' = TRUE
    /\ sheet' = Fresh(sheet)
    /\ call' = [d \in Call |-> IF d = c THEN ReadCall ELSE Orphan(call[d])]
    /\ blemish' = IF \E d \in Call \ {c} : Reading(d) THEN blemish \cup {"overlap"} ELSE blemish

\* What the handlers of /saques and /comissoes do with their answer: a toast, a reload
\* if the request was accepted, and busy is cleared, whichever row holds it by now.
Resume(c) ==
    /\ Acting(c)
    /\ call[c].answer # "none"
    /\ \/ /\ call[c].live
          /\ call[c].answer = "ok"
          /\ busy' = NoRow
          /\ ReloadAfter(c)
          /\ UNCHANGED <<mounted, rows, cards, more, error>>
       \/ /\ call[c].live
          /\ call[c].answer # "ok"
          /\ busy' = NoRow
          /\ call' = [call EXCEPT ![c] = IdleCall]
          /\ UNCHANGED <<mounted, rows, cards, more, loading, error, sheet, blemish>>
       \/ /\ ~call[c].live
          /\ call' = [call EXCEPT ![c] = IdleCall]
          /\ UNCHANGED <<page, blemish>>
    /\ UNCHANGED <<screen, server>>
=============================================================================
