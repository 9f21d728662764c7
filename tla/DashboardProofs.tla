--------------------------- MODULE DashboardProofs ---------------------------
(***************************************************************************)
(* Theorems about Dashboard, for every number of rows and of handlers      *)
(* under way.                                                              *)
(***************************************************************************)
EXTENDS Dashboard, TLAPS

USE ScreensAssumption, AnswerAssumption

-----------------------------------------------------------------------------
(* Statuses.  On each screen the lists and requests use those of its rows. *)

Fit == Status(screen) \cup {"absent"}
List == [Row -> Fit]

LEMMA StatusOf ==
    /\ Status("saques") = PayoutStatus /\ Status("extrato") = PayoutStatus
    /\ Status("comissoes") = RewardStatus
    /\ Status("programas") = ProgramStatus
    /\ Status("auditoria") = {"logged"}
    /\ Status("indicacoes") = LeadStatus /\ Status("overview") = LeadStatus
    /\ Status("parceiro") = LeadStatus /\ Status("referidos") = LeadStatus
  BY DEF Status

LEMMA NoneAbsent ==
    ASSUME screen \in Screen
    PROVE  "absent" \notin Status(screen)
  BY StatusOf DEF Screen, ReadPage, PayoutStatus, RewardStatus, ProgramStatus

LEMMA AbsentIsAny == "absent" \in AnyStatus
  BY DEF AnyStatus

LEMMA FitIsAny ==
    ASSUME screen \in Screen
    PROVE  Fit \subseteq AnyStatus /\ List \subseteq Snapshot /\ Empty \in List
<1>1. ASSUME NEW x \in Status(screen) PROVE x \in UNION {Status(s) : s \in Screen}
  BY Zenon
<1>2. Status(screen) \subseteq UNION {Status(s) : s \in Screen}
  BY <1>1
<1>3. Fit \subseteq AnyStatus
  <2>1. ASSUME NEW x \in Status(screen) PROVE x \in AnyStatus
    BY <1>1, <2>1, Zenon DEF AnyStatus
  <2>2. QED
    BY <2>1, AbsentIsAny DEF Fit
<1>4. QED
  BY <1>3 DEF List, Snapshot, Empty, Fit

LEMMA NoAnswerIsList == screen \in Screen => NotYet \notin List /\ Lost \notin List
  BY FitIsAny

LEMMA RankType ==
    /\ \A s \in PayoutStatus \cup {"absent"} : Rank(s) \in 0..3
    /\ Rank("absent") = 0 /\ Rank("pending") = 1 /\ Rank("processing") = 2
    /\ Rank("paid") = 3 /\ Rank("cancelled") = 3
  BY DEF Rank, PayoutStatus

LEMMA PartsIs == screen \in Screen => "rows" \in Parts /\ Parts \subseteq Part
  BY DEF Screen, ReadPage, Parts, Part, SaquesGets, ComissoesGets, IndicacoesGets, AuditoriaGets,
         ProgramasGets, OverviewGets, ExtratoGets, ParceiroGets, ReferidosGets

-----------------------------------------------------------------------------
(* A handler under way, and what is on the page.                           *)

RowFn == {"confirm", "paid", "cancel", "approve", "reject", "status", "save"}

Filed(st) ==
    /\ \A p \in Part : st.got[p] \in List \cup {NotYet, Lost}
    /\ st.at = "idle" => ~st.live
    /\ st.at # "act" => st.fn = "none" /\ ~st.mine /\ st.answer = "none" /\ st.row = NoRow
    /\ st.at = "act" => st.fn # "none"
    /\ st.mine => st.live /\ st.fn = "save"
    /\ st.fn \in RowFn => st.row \in Row
    /\ st.fn \in {"create", "confirm", "paid", "cancel"} => screen = "saques"
    /\ st.fn \in {"approve", "reject"} => screen = "comissoes"
    /\ st.fn \in {"status", "save"} => screen = "indicacoes"

\* What was asked is what the menu of the row offered for the status it showed.
AsOffered(st) ==
    st.answer = "none" =>
       /\ st.fn \in {"status", "save"} => st.to \in LeadStatus
       /\ st.fn \in {"confirm", "approve", "reject"} => st.shown = "pending"
       /\ st.fn = "paid" => st.shown = "processing"
       /\ st.fn = "cancel" => st.shown \in {"pending", "processing"}

GoodCall == {st \in CallState : Filed(st) /\ AsOffered(st)}

SheetFiled ==
    /\ sheet.row = NoRow => ~sheet.saving
    /\ sheet.row # NoRow => screen = "indicacoes" /\ {sheet.shown, sheet.draft} \subseteq LeadStatus

\* Before the page is mounted, and after.
Closed ==
    ~mounted =>
       /\ rows = Empty /\ cards = Empty /\ more = Empty
       /\ loading /\ ~error /\ busy = NoRow /\ sheet = NoSheet
       /\ \A c \in Call : ~call[c].live /\ ~Reading(c)

Typed ==
    /\ TypeOK
    /\ {db, rows, cards, more} \subseteq List
    /\ call \in [Call -> GoodCall]
    /\ SheetFiled
    /\ Closed

LEMMA IdleIs ==
    /\ IdleCall.at = "idle" /\ IdleCall.fn = "none" /\ IdleCall.row = NoRow /\ ~IdleCall.live
    /\ ~IdleCall.mine /\ IdleCall.answer = "none" /\ \A p \in Part : IdleCall.got[p] = NotYet
    /\ IdleCall.shown = "absent" /\ IdleCall.to = "absent"
  BY DEF IdleCall

LEMMA ReadIs ==
    /\ ReadCall.at = "read" /\ ReadCall.fn = "none" /\ ReadCall.row = NoRow /\ ReadCall.live
    /\ ~ReadCall.mine /\ ReadCall.answer = "none" /\ \A p \in Part : ReadCall.got[p] = NotYet
    /\ ReadCall.shown = "absent" /\ ReadCall.to = "absent"
  BY DEF ReadCall, IdleCall

LEMMA IdleGood ==
    ASSUME screen \in Screen
    PROVE  IdleCall \in GoodCall /\ ReadCall \in GoodCall
<1>1. "absent" \in AnyStatus
  BY AbsentIsAny
<1>2. IdleCall \in CallState
  BY <1>1 DEF IdleCall, CallState, Answer
<1>3. ReadCall \in CallState
  BY <1>2 DEF ReadCall, CallState
<1>4. QED
  BY <1>2, <1>3, IdleIs, ReadIs DEF GoodCall, Filed, AsOffered, RowFn

\* A handler that is left alone but for the sheet it belongs to.
Alike(new, old) ==
    /\ new.at = old.at /\ new.fn = old.fn /\ new.row = old.row /\ new.to = old.to
    /\ new.shown = old.shown /\ new.live = old.live /\ new.answer = old.answer /\ new.got = old.got
    /\ new.mine => old.mine

LEMMA OrphanIs ==
    ASSUME NEW st \in GoodCall
    PROVE  Orphan(st) \in GoodCall /\ Alike(Orphan(st), st) /\ ~Orphan(st).mine
<1>1. st \in CallState /\ Filed(st) /\ AsOffered(st)
  BY DEF GoodCall
<1>2. Orphan(st) \in CallState /\ Alike(Orphan(st), st) /\ ~Orphan(st).mine
  BY <1>1 DEF Orphan, CallState, Alike
<1>3. Filed(Orphan(st)) /\ AsOffered(Orphan(st))
  BY <1>1, <1>2 DEF Filed, AsOffered, Alike
<1>4. QED
  BY <1>2, <1>3 DEF GoodCall

\* A request under way whose page is left: it keeps all but its page and its sheet.
LEMMA DeadIs ==
    ASSUME NEW st \in CallState
    PROVE  /\ Dead(st) \in CallState /\ ~Dead(st).live /\ ~Dead(st).mine
           /\ Dead(st).at = st.at /\ Dead(st).fn = st.fn /\ Dead(st).answer = st.answer
           /\ Dead(st).row = st.row /\ Dead(st).to = st.to /\ Dead(st).shown = st.shown
           /\ Dead(st).got = st.got
  BY DEF Dead, CallState

\* Handler c becomes new; the others are left alone, or lose their sheet.
Others(c) ==
    \/ \A d \in Call \ {c} : call'[d] = call[d]
    \/ ~sheet'.saving /\ \A d \in Call \ {c} : Alike(call'[d], call[d]) /\ ~call'[d].mine
Put(c, new) ==
    new \in GoodCall /\ call' \in [Call -> GoodCall] /\ call'[c] = new /\ Others(c)

LEMMA PutOne ==
    ASSUME call \in [Call -> GoodCall], NEW c \in Call, NEW new \in GoodCall,
           call' = [call EXCEPT ![c] = new]
    PROVE  Put(c, new)
  BY DEF Put, Others

LEMMA PutOrphans ==
    ASSUME call \in [Call -> GoodCall], NEW c \in Call, NEW new \in GoodCall, ~sheet'.saving,
           call' = [d \in Call |-> IF d = c THEN new ELSE Orphan(call[d])]
    PROVE  Put(c, new)
<1>1. \A d \in Call : Orphan(call[d]) \in GoodCall /\ Alike(Orphan(call[d]), call[d]) /\ ~Orphan(call[d]).mine
  BY OrphanIs
<1>2. call' \in [Call -> GoodCall]
  BY <1>1
<1>3. QED
  BY <1>1, <1>2 DEF Put, Others

LEMMA OthersAlike ==
    ASSUME NEW c \in Call, NEW d \in Call \ {c}, Others(c)
    PROVE  Alike(call'[d], call[d])
  BY DEF Others, Alike

LEMMA FreshIs ==
    ASSUME sheet \in SheetState
    PROVE  /\ Fresh(sheet) \in SheetState /\ Fresh(sheet).row = sheet.row /\ ~Fresh(sheet).saving
           /\ Fresh(sheet).shown = sheet.shown /\ Fresh(sheet).draft = sheet.shown
  BY DEF Fresh, SheetState

LEMMA NoSheetIs ==
    NoSheet \in SheetState /\ NoSheet.row = NoRow /\ ~NoSheet.saving
<1>1. "absent" \in AnyStatus
  BY AbsentIsAny
<1>2. QED
  BY <1>1 DEF NoSheet, SheetState

-----------------------------------------------------------------------------
(* The kinds of steps.                                                     *)

MountStep(c) ==
    /\ Put(c, ReadCall) /\ call[c].at = "idle" /\ ~mounted /\ mounted' = TRUE /\ blemish' = {}
    /\ UNCHANGED <<screen, server, rows, cards, more, loading, error, busy, sheet>>

\* One GET of handler c is answered, in full or short, or lost.
PutAnswer(c, part, answer) ==
    \E new \in GoodCall :
       /\ Put(c, new)
       /\ new.at = "read" /\ new.live = call[c].live
       /\ new.got[part] = answer
       /\ \A p \in Part \ {part} : new.got[p] = call[c].got[p]

GotStep(c, part, answer) ==
    /\ Reading(c) /\ part \in Parts /\ PutAnswer(c, part, answer)
    /\ \/ answer = Lost /\ blemish' = blemish
       \/ /\ call[c].got[part] = NotYet
          /\ answer = db /\ blemish' = blemish
       \/ /\ call[c].got[part] = NotYet
          /\ answer \in List /\ \A r \in Row : answer[r] \in {"absent", db[r]}
          /\ screen = "overview" \/ \E r \in Row : answer[r] # "absent"
          /\ screen \in {"overview", "programas"}
          /\ blemish' = blemish \cup {"swallowed"}
    /\ UNCHANGED <<screen, server, page>>

ArriveStep(c) ==
    /\ Put(c, IdleCall) /\ ReadArrives(c)

FailStep(c) ==
    /\ Put(c, IdleCall) /\ ReadFails(c)

\* Rows come and move; none is removed, and no payout goes back.
Advances ==
    \A r \in Row : /\ db[r] # "absent" => db'[r] # "absent"
                   /\ screen = "saques" => Rank(db[r]) <= Rank(db'[r])

Cancellable == {"pending", "processing"}

ServeStep(c, new) ==
    /\ Put(c, new) /\ Acting(c) /\ call[c].answer = "none"
    /\ new.at = "act" /\ new.fn = call[c].fn /\ new.row = call[c].row /\ new.live = call[c].live
    /\ new.mine = call[c].mine /\ new.got = call[c].got
    /\ db' \in List /\ keyed' \subseteq Row /\ moves' = moves
    /\ Advances
    /\ \A r \in Row : db'[r] # db[r] => screen = "saques" \/ r = call[c].row
    /\ \/ new.answer = "ok"
       \/ new.answer = "refused" /\ db' = db
    /\ call[c].fn \in {"confirm", "paid", "cancel", "approve", "reject"} /\ db' # db =>
          \/ db[call[c].row] = call[c].shown
          \/ call[c].fn = "cancel" /\ db[call[c].row] \in Cancellable /\ call[c].shown \in Cancellable
          \/ call[c].fn = "reject" /\ db[call[c].row] = "approved"
    /\ blemish' = IF call[c].live THEN blemish ELSE blemish \cup {"elsewhere"}
    /\ UNCHANGED <<screen, page>>

MoveStep ==
    /\ db' \in List /\ keyed' \subseteq Row /\ moves' \in 0..MaxMoves
    /\ Advances
    /\ blemish' = blemish \cup {"elsewhere"}
    /\ UNCHANGED <<screen, page, call>>

LostStep(c, new) ==
    /\ Put(c, new) /\ Acting(c) /\ new.answer = "lost"
    /\ new.at = "act" /\ new.fn = call[c].fn /\ new.row = call[c].row /\ new.live = call[c].live
    /\ new.mine = call[c].mine /\ new.got = call[c].got
    /\ blemish' = IF call[c].live THEN blemish \cup {"lost"} ELSE blemish
    /\ UNCHANGED <<screen, server, page>>

\* A handler sends its request: a button or the menu of a row, or the sheet.
ClickStep(c, new) ==
    /\ Put(c, new) /\ call[c].at = "idle" /\ mounted
    /\ new.at = "act" /\ new.live /\ new.answer = "none"
    /\ \A p \in Part : new.got[p] = NotYet
    /\ new.row \in Row => new.shown = rows[new.row]
    /\ \/ /\ new.fn = "create" /\ busy' = "__create__" /\ sheet' = sheet /\ ~new.mine
          /\ new.row = NoRow
       \/ /\ new.fn \in RowFn \ {"save"} /\ busy' = new.row /\ sheet' = sheet /\ ~new.mine
          /\ rows[new.row] # "absent"
       \/ /\ new.fn = "save" /\ busy' = busy /\ new.mine /\ ~sheet.saving
          /\ new.row = sheet.row /\ sheet.row # NoRow
          /\ sheet' = [sheet EXCEPT !.saving = TRUE]
    /\ UNCHANGED <<screen, server, mounted, rows, cards, more, loading, error, blemish>>

\* A handler goes on with its answer: it is over, or it reloads.
EndStep(c) ==
    /\ Put(c, IdleCall) /\ Acting(c) /\ ~(call[c].live /\ call[c].answer = "ok")
    /\ \/ /\ call[c].live /\ busy' = NoRow /\ sheet' = sheet /\ call[c].fn # "save"
       \/ /\ ~call[c].live /\ busy' = busy /\ sheet' = sheet
       \/ /\ call[c].fn = "save" /\ busy' = busy
          /\ sheet' = IF call[c].mine THEN [sheet EXCEPT !.saving = FALSE] ELSE sheet
    /\ UNCHANGED <<screen, server, mounted, rows, cards, more, loading, error, blemish>>

ReloadStep(c) ==
    /\ Put(c, ReadCall) /\ Acting(c) /\ call[c].live /\ call[c].answer = "ok"
    /\ loading' = TRUE /\ sheet' \in {Fresh(sheet), NoSheet}
    /\ \A d \in Call \ {c} : ~call'[d].mine
    /\ busy' = NoRow \/ (call[c].fn = "save" /\ busy' = busy)
    /\ blemish' = IF \E d \in Call \ {c} : Reading(d) THEN blemish \cup {"overlap"} ELSE blemish
    /\ UNCHANGED <<screen, server, mounted, rows, cards, more, error>>

\* The sheet is opened, edited or closed.
SheetStep ==
    /\ mounted
    /\ \/ /\ call' = call /\ sheet'.saving = sheet.saving
          /\ sheet'.draft \in LeadStatus /\ sheet'.shown \in LeadStatus /\ sheet' \in SheetState
          /\ sheet'.row = sheet.row \/ (sheet'.row \in Row /\ rows[sheet'.row] # "absent")
          /\ sheet'.row # NoRow
       \/ /\ sheet' = NoSheet
          /\ call' = [c \in Call |-> Orphan(call[c])]
    /\ screen = "indicacoes"
    /\ UNCHANGED <<screen, server, mounted, rows, cards, more, loading, error, busy, blemish>>

HandlerStep(c) ==
    \/ MountStep(c) \/ ArriveStep(c) \/ FailStep(c) \/ EndStep(c) \/ ReloadStep(c)
    \/ \E part \in Part, answer \in List \cup {Lost} : GotStep(c, part, answer)
    \/ \E new \in GoodCall : ServeStep(c, new) \/ LostStep(c, new) \/ ClickStep(c, new)

-----------------------------------------------------------------------------
(* Every step is of one of these kinds.                                    *)

LEMMA TypedIs ==
    ASSUME Typed
    PROVE  /\ screen \in Screen /\ call \in [Call -> GoodCall] /\ sheet \in SheetState
           /\ db \in List /\ rows \in List /\ cards \in List /\ more \in List
           /\ keyed \subseteq Row /\ moves \in 0..MaxMoves
           /\ mounted \in BOOLEAN /\ loading \in BOOLEAN /\ error \in BOOLEAN
           /\ \A c \in Call : call[c] \in CallState /\ Filed(call[c]) /\ AsOffered(call[c])
  BY DEF Typed, TypeOK, GoodCall

LEMMA MountIs ==
    ASSUME Typed, NEW c \in Call, Mount(c)
    PROVE  MountStep(c)
  BY TypedIs, IdleGood, PutOne DEF Mount, MountStep

LEMMA GotIs ==
    ASSUME Typed, NEW c \in Call, NEW part \in Part, Reading(c), NEW answer \in List \cup {Lost},
           call' = [call EXCEPT ![c].got[part] = answer]
    PROVE  PutAnswer(c, part, answer)
<1>1. call[c] \in CallState /\ Filed(call[c]) /\ AsOffered(call[c]) /\ call \in [Call -> GoodCall]
  BY TypedIs
<1>2. call[c].got \in [Part -> Snapshot \cup {NotYet, Lost}]
  BY <1>1 DEF CallState
<1> DEFINE got == [call[c].got EXCEPT ![part] = answer]
<1>3. /\ got \in [Part -> Snapshot \cup {NotYet, Lost}] /\ got[part] = answer
      /\ \A p \in Part \ {part} : got[p] = call[c].got[p]
  BY <1>2, TypedIs, FitIsAny
<1>4. call' = [call EXCEPT ![c] = [call[c] EXCEPT !.got = got]]
  BY <1>1
<1> HIDE DEF got
<1> DEFINE new == [call[c] EXCEPT !.got = got]
<1>5. /\ new \in CallState /\ new.got = got /\ new.at = call[c].at /\ new.live = call[c].live
      /\ new.fn = call[c].fn /\ new.mine = call[c].mine /\ new.answer = call[c].answer
      /\ new.row = call[c].row /\ new.to = call[c].to /\ new.shown = call[c].shown
  BY <1>1, <1>3 DEF CallState
<1> HIDE DEF new
<1>6. new \in GoodCall
  BY <1>1, <1>3, <1>5 DEF GoodCall, Filed, AsOffered
<1>7. Put(c, new)
  BY <1>1, <1>4, <1>6, PutOne DEF new
<1>8. QED
  BY <1>3, <1>5, <1>6, <1>7 DEF Reading, PutAnswer

LEMMA AnswersIs ==
    ASSUME Typed, NEW c \in Call, NEW part \in Part,
           AnswerRead(c, part) \/ LoseRead(c, part) \/ AnswerShort(c, part)
    PROVE  \E answer \in List \cup {Lost} : GotStep(c, part, answer)
<1>1. CASE AnswerRead(c, part)
  <2>1. Reading(c) /\ call' = [call EXCEPT ![c].got[part] = db] /\ db \in List
    BY <1>1, TypedIs DEF AnswerRead
  <2>2. GotStep(c, part, db)
    BY <1>1, <2>1, GotIs DEF AnswerRead, GotStep
  <2>3. QED
    BY <2>1, <2>2
<1>2. CASE LoseRead(c, part)
  <2>1. Reading(c) /\ call' = [call EXCEPT ![c].got[part] = Lost]
    BY <1>2 DEF LoseRead
  <2>2. GotStep(c, part, Lost)
    BY <1>2, <2>1, GotIs DEF LoseRead, GotStep
  <2>3. QED
    BY <2>2
<1>3. CASE AnswerShort(c, part)
  <2>1. /\ Reading(c) /\ part \in Parts /\ call[c].got[part] = NotYet
        /\ blemish' = blemish \cup {"swallowed"} /\ UNCHANGED <<screen, server, page>>
    BY <1>3 DEF AnswerShort
  <2>2. CASE SwallowQuery(c, part)
    <3>1. Empty \in List /\ \A r \in Row : Empty[r] = "absent"
      BY TypedIs, FitIsAny DEF Empty
    <3>2. GotStep(c, part, Empty)
      BY <2>1, <2>2, <3>1, GotIs DEF SwallowQuery, GotStep
    <3>3. QED
      BY <3>1, <3>2
  <2>3. CASE SwallowScan(c, part)
    <3>1. PICK r \in Row : db[r] # "absent" /\ call' = [call EXCEPT ![c].got[part] = [Empty EXCEPT ![r] = db[r]]]
      BY <2>3 DEF SwallowScan
    <3> DEFINE answer == [Empty EXCEPT ![r] = db[r]]
    <3>2. answer \in List /\ answer[r] = db[r] /\ \A q \in Row : answer[q] \in {"absent", db[q]}
      BY TypedIs, FitIsAny DEF Empty, List
    <3> HIDE DEF answer
    <3>3. call' = [call EXCEPT ![c].got[part] = answer]
      BY <3>1 DEF answer
    <3>4. GotStep(c, part, answer)
      BY <2>1, <2>3, <3>1, <3>2, <3>3, GotIs DEF SwallowScan, GotStep
    <3>5. QED
      BY <3>2, <3>4
  <2>4. QED
    BY <1>3, <2>2, <2>3 DEF AnswerShort
<1>4. QED
  BY <1>1, <1>2, <1>3

LEMMA ReadsIs ==
    ASSUME Typed, NEW c \in Call
    PROVE  (ReadArrives(c) => ArriveStep(c)) /\ (ReadFails(c) => FailStep(c))
<1>1. ReadArrives(c) => ArriveStep(c)
  BY TypedIs, IdleGood, PutOne DEF ReadArrives, ArriveStep
<1>2. ReadFails(c) => FailStep(c)
  BY TypedIs, IdleGood, FreshIs, PutOrphans DEF ReadFails, FailStep
<1>3. QED
  BY <1>1, <1>2

\* The request of c has been worked on, or is lost.
Settled(c, answer, new) ==
    /\ Put(c, new)
    /\ new.at = "act" /\ new.fn = call[c].fn /\ new.row = call[c].row /\ new.live = call[c].live
    /\ new.mine = call[c].mine /\ new.got = call[c].got /\ new.answer = answer

LEMMA SettledIs ==
    ASSUME Typed, NEW c \in Call, Acting(c), NEW answer \in {"ok", "refused", "lost"},
           call' = [call EXCEPT ![c].answer = answer, ![c].to = "absent", ![c].shown = "absent"]
    PROVE  \E new \in GoodCall : Settled(c, answer, new)
<1>1. call[c] \in CallState /\ Filed(call[c]) /\ call \in [Call -> GoodCall]
  BY TypedIs
<1> DEFINE new == [call[c] EXCEPT !.answer = answer, !.to = "absent", !.shown = "absent"]
<1>2. /\ new \in CallState /\ new.got = call[c].got /\ new.at = call[c].at /\ new.live = call[c].live
      /\ new.fn = call[c].fn /\ new.mine = call[c].mine /\ new.answer = answer /\ new.row = call[c].row
  BY <1>1, AbsentIsAny DEF CallState, Answer
<1>3. call' = [call EXCEPT ![c] = new]
  BY <1>1
<1> HIDE DEF new
<1>4. new \in GoodCall
  BY <1>1, <1>2 DEF GoodCall, Filed, AsOffered, Acting
<1>5. Put(c, new)
  BY <1>1, <1>3, <1>4, PutOne
<1>6. QED
  BY <1>2, <1>4, <1>5 DEF Settled, Acting

LEMMA LoseActIs ==
    ASSUME Typed, NEW c \in Call, LoseAct(c)
    PROVE  \E new \in GoodCall : LostStep(c, new)
<1>1. PICK new \in GoodCall : Settled(c, "lost", new)
  BY SettledIs DEF LoseAct
<1>2. QED
  BY <1>1 DEF LoseAct, LostStep, Settled

\* What the server may do to the rows with a request of one of the menus.
Served(c, ok) ==
    /\ db' \in List /\ keyed' \subseteq Row /\ moves' = moves
    /\ Advances
    /\ \A r \in Row : db'[r] # db[r] => screen = "saques" \/ r = call[c].row
    /\ ok \/ db' = db
    /\ call[c].fn \in {"confirm", "paid", "cancel", "approve", "reject"} /\ db' # db =>
          \/ db[call[c].row] = call[c].shown
          \/ call[c].fn = "cancel" /\ db[call[c].row] \in Cancellable /\ call[c].shown \in Cancellable
          \/ call[c].fn = "reject" /\ db[call[c].row] = "approved"

LEMMA ServedIs ==
    ASSUME Typed, NEW c \in Call, NEW ok \in BOOLEAN, Acting(c), call[c].answer = "none",
           Answered(c, ok), Served(c, ok), UNCHANGED <<screen, page>>
    PROVE  \E new \in GoodCall : ServeStep(c, new)
<1> DEFINE answer == IF ok THEN "ok" ELSE "refused"
<1>1. /\ call' = [call EXCEPT ![c].answer = answer, ![c].to = "absent", ![c].shown = "absent"]
      /\ blemish' = IF call[c].live THEN blemish ELSE blemish \cup {"elsewhere"}
  BY DEF Answered
<1>2. answer \in {"ok", "refused", "lost"} /\ (answer = "ok" \/ (answer = "refused" /\ ~ok))
  OBVIOUS
<1> HIDE DEF answer
<1>3. PICK new \in GoodCall : Settled(c, answer, new)
  BY <1>1, <1>2, SettledIs
<1>4. QED
  BY <1>1, <1>2, <1>3 DEF ServeStep, Settled, Served

LEMMA OneRow ==
    ASSUME Typed, NEW r \in Row, NEW status \in Fit, db' = [db EXCEPT ![r] = status],
           db[r] # "absent" => status # "absent",
           screen = "saques" => Rank(db[r]) <= Rank(status)
    PROVE  db' \in List /\ Advances /\ \A q \in Row : db'[q] # db[q] => q = r
<1>1. db \in List
  BY TypedIs
<1>2. db' \in List /\ db'[r] = status /\ \A q \in Row \ {r} : db'[q] = db[q]
  BY <1>1 DEF List
<1>3. screen = "saques" => \A q \in Row : Rank(db[q]) <= Rank(db[q])
  BY <1>1, RankType, StatusOf DEF List, Fit
<1>4. QED
  BY <1>2, <1>3 DEF Advances

LEMMA SameRows ==
    ASSUME Typed, db' = db
    PROVE  db' \in List /\ Advances
<1>1. db \in List
  BY TypedIs
<1>2. screen = "saques" => \A r \in Row : Rank(db[r]) \in 0..3
  BY <1>1, RankType, StatusOf DEF List, Fit
<1>3. QED
  BY <1>1, <1>2 DEF Advances

LEMMA SaquesServeIs ==
    ASSUME Typed, NEW c \in Call, SaquesServe(c)
    PROVE  \E new \in GoodCall : ServeStep(c, new)
<1> DEFINE r == call[c].row
<1>1. /\ call[c].fn \in {"create", "confirm", "paid", "cancel"}
      /\ screen = "saques" /\ Acting(c) /\ call[c].answer = "none" /\ UNCHANGED <<screen, page>>
  BY TypedIs DEF SaquesServe, ServeCreate, ServeConfirm, ServePaid, ServeCancel, Filed
<1>2. Fit = PayoutStatus \cup {"absent"} /\ db \in List /\ keyed \subseteq Row
  BY <1>1, StatusOf, TypedIs DEF Fit
<1>3. call[c].fn # "create" => r \in Row
  BY <1>1, TypedIs DEF Filed, RowFn
<1>4. CASE ServeCreate(c)
  <2>1. PICK new \in SUBSET {q \in Row : db[q] = "absent"} :
           db' = [q \in Row |-> IF q \in new THEN "pending" ELSE db[q]]
    BY <1>4 DEF ServeCreate
  <2>2. db' \in List
    BY <1>2, <2>1 DEF List, PayoutStatus
  <2>3. Advances
    BY <1>2, <2>1, RankType DEF Advances, List
  <2>4. Served(c, TRUE) /\ Answered(c, TRUE)
    BY <1>1, <1>2, <1>4, <2>2, <2>3 DEF Served, ServeCreate
  <2>5. QED
    BY <1>1, <2>4, ServedIs
<1>5. ASSUME call[c].fn \in {"confirm", "paid", "cancel"}, NEW ok \in BOOLEAN, Answered(c, ok),
             db' = db, keyed' \subseteq Row, moves' = moves
      PROVE  \E new \in GoodCall : ServeStep(c, new)
  <2>1. Served(c, ok)
    BY <1>5, SameRows DEF Served
  <2>2. QED
    BY <1>1, <1>5, <2>1, ServedIs
<1>6. ASSUME call[c].fn \in {"confirm", "paid", "cancel"}, NEW status \in {"processing", "paid", "cancelled"},
             db' = [db EXCEPT ![r] = status], Rank(db[r]) <= Rank(status), Answered(c, TRUE),
             keyed' \subseteq Row, moves' = moves,
             \/ db[r] = call[c].shown
             \/ call[c].fn = "cancel" /\ db[r] \in Cancellable /\ call[c].shown \in Cancellable
      PROVE  \E new \in GoodCall : ServeStep(c, new)
  <2>1. db' \in List /\ Advances /\ \A q \in Row : db'[q] # db[q] => q = r
    BY <1>2, <1>3, <1>6, OneRow DEF PayoutStatus
  <2>2. Served(c, TRUE)
    BY <1>6, <2>1 DEF Served
  <2>3. QED
    BY <1>1, <1>6, <2>2, ServedIs
<1>7. AsOffered(call[c])
  BY TypedIs
<1>8. CASE ServeConfirm(c)
  <2>1. CASE db' = db
    BY <1>2, <1>3, <1>5, <1>8, <2>1 DEF ServeConfirm
  <2>2. CASE db[r] = "pending" /\ db' = [db EXCEPT ![r] = "processing"] /\ Answered(c, TRUE)
    <3>1. keyed' \subseteq Row /\ moves' = moves
      BY <1>2, <1>3, <1>8, <2>2 DEF ServeConfirm
    <3>2. Rank(db[r]) <= Rank("processing")
      BY <2>2, RankType
    <3>3. /\ call[c].fn \in {"confirm", "paid", "cancel"}
          /\ \/ db[r] = call[c].shown
             \/ call[c].fn = "cancel" /\ db[r] \in Cancellable /\ call[c].shown \in Cancellable
      BY <1>1, <1>7, <1>8, <2>2 DEF ServeConfirm, AsOffered, Cancellable
    <3>4. QED
      BY <1>6, <2>2, <3>1, <3>2, <3>3
  <2>3. QED
    BY <1>8, <2>1, <2>2, Zenon DEF ServeConfirm
<1>9. CASE ServePaid(c)
  <2>1. CASE db' = db
    BY <1>2, <1>5, <1>9, <2>1 DEF ServePaid
  <2>2. CASE db[r] = "processing" /\ db' = [db EXCEPT ![r] = "paid"] /\ Answered(c, TRUE)
    <3>1. keyed' \subseteq Row /\ moves' = moves
      BY <1>2, <1>3, <1>9, <2>2 DEF ServePaid
    <3>2. Rank(db[r]) <= Rank("paid")
      BY <2>2, RankType
    <3>3. /\ call[c].fn \in {"confirm", "paid", "cancel"}
          /\ \/ db[r] = call[c].shown
             \/ call[c].fn = "cancel" /\ db[r] \in Cancellable /\ call[c].shown \in Cancellable
      BY <1>1, <1>7, <1>9, <2>2 DEF ServePaid, AsOffered, Cancellable
    <3>4. QED
      BY <1>6, <2>2, <3>1, <3>2, <3>3
  <2>3. QED
    BY <1>9, <2>1, <2>2, Zenon DEF ServePaid
<1>10. CASE ServeCancel(c)
  <2>1. CASE db' = db
    BY <1>2, <1>5, <1>10, <2>1 DEF ServeCancel
  <2>2. CASE db[r] \in {"pending", "processing"} /\ db' = [db EXCEPT ![r] = "cancelled"] /\ Answered(c, TRUE)
    <3>1. keyed' \subseteq Row /\ moves' = moves
      BY <1>2, <1>3, <1>10, <2>2 DEF ServeCancel
    <3>2. Rank(db[r]) <= Rank("cancelled")
      BY <2>2, RankType
    <3>3. /\ call[c].fn \in {"confirm", "paid", "cancel"}
          /\ \/ db[r] = call[c].shown
             \/ call[c].fn = "cancel" /\ db[r] \in Cancellable /\ call[c].shown \in Cancellable
      BY <1>1, <1>7, <1>10, <2>2 DEF ServeCancel, AsOffered, Cancellable
    <3>4. QED
      BY <1>6, <2>2, <3>1, <3>2, <3>3
  <2>3. QED
    BY <1>10, <2>1, <2>2, Zenon DEF ServeCancel
<1>11. QED
  BY <1>4, <1>8, <1>9, <1>10 DEF SaquesServe

LEMMA ComissoesServeIs ==
    ASSUME Typed, NEW c \in Call, ComissoesServe(c)
    PROVE  \E new \in GoodCall : ServeStep(c, new)
<1> DEFINE r == call[c].row
<1>1. /\ call[c].fn \in {"approve", "reject"}
      /\ screen = "comissoes" /\ Acting(c) /\ call[c].answer = "none" /\ UNCHANGED <<screen, page>>
  BY TypedIs DEF ComissoesServe, ServeApprove, ServeReject, Filed
<1>2. Fit = RewardStatus \cup {"absent"} /\ keyed' = keyed /\ moves' = moves /\ keyed \subseteq Row
  BY <1>1, StatusOf, TypedIs DEF Fit, ComissoesServe, ServeApprove, ServeReject
<1>3. r \in Row /\ call[c].shown = "pending"
  BY <1>1, TypedIs DEF Filed, RowFn, AsOffered
<1>4. ASSUME db' = db, NEW ok \in BOOLEAN, Answered(c, ok)
      PROVE  \E new \in GoodCall : ServeStep(c, new)
  <2>1. Served(c, ok)
    BY <1>2, <1>4, SameRows DEF Served
  <2>2. QED
    BY <1>1, <1>4, <2>1, ServedIs
<1>5. ASSUME NEW status \in {"approved", "rejected"}, db' = [db EXCEPT ![r] = status], Answered(c, TRUE),
             db[r] = "pending" \/ (call[c].fn = "reject" /\ db[r] = "approved")
      PROVE  \E new \in GoodCall : ServeStep(c, new)
  <2>1. db' \in List /\ Advances /\ \A q \in Row : db'[q] # db[q] => q = r
    BY <1>1, <1>2, <1>3, <1>5, OneRow DEF RewardStatus
  <2>2. Served(c, TRUE)
    BY <1>1, <1>2, <1>3, <1>5, <2>1 DEF Served
  <2>3. QED
    BY <1>1, <1>5, <2>2, ServedIs
<1>6. CASE ServeApprove(c)
  BY <1>4, <1>5, <1>6, Zenon DEF ServeApprove
<1>7. CASE ServeReject(c)
  <2>1. CASE db' = db /\ Answered(c, FALSE)
    BY <1>4, <2>1
  <2>2. CASE db[r] \in {"pending", "approved"} /\ db' = [db EXCEPT ![r] = "rejected"] /\ Answered(c, TRUE)
    BY <1>5, <1>7, <2>2 DEF ServeReject
  <2>3. QED
    BY <1>7, <2>1, <2>2, Zenon DEF ServeReject
<1>8. QED
  BY <1>6, <1>7 DEF ComissoesServe

LEMMA IndicacoesServeIs ==
    ASSUME Typed, NEW c \in Call, ServeStatus(c)
    PROVE  \E new \in GoodCall : ServeStep(c, new)
<1> DEFINE r == call[c].row
<1>1. /\ call[c].fn \in {"status", "save"} /\ Answered(c, TRUE)
      /\ screen = "indicacoes" /\ Acting(c) /\ call[c].answer = "none" /\ UNCHANGED <<screen, page>>
      /\ db' = [db EXCEPT ![r] = call[c].to] /\ keyed' = keyed /\ moves' = moves
  BY TypedIs DEF ServeStatus, Filed
<1>2. r \in Row /\ call[c].to \in LeadStatus
  BY <1>1, TypedIs DEF Filed, RowFn, AsOffered
<1>3. db' \in List /\ Advances /\ \A q \in Row : db'[q] # db[q] => q = r
  BY <1>1, <1>2, OneRow, StatusOf DEF Fit
<1>4. Served(c, TRUE)
  BY <1>1, <1>3, TypedIs DEF Served
<1>5. QED
  BY <1>1, <1>4, ServedIs

\* Rows that others move, or bring.
LEMMA MovedIs ==
    ASSUME Typed, NEW r \in Row, NEW status \in Fit \ {"absent"}, Elsewhere(r, status),
           keyed' \subseteq Row, screen = "saques" => Rank(db[r]) <= Rank(status)
    PROVE  MoveStep
<1>1. db' = [db EXCEPT ![r] = status]
  BY DEF Elsewhere
<1>2. db' \in List /\ Advances
  BY <1>1, OneRow
<1>3. moves' \in 0..MaxMoves
  BY TypedIs DEF Elsewhere
<1>4. QED
  BY <1>2, <1>3 DEF MoveStep, Elsewhere

LEMMA ElsewhereIs ==
    ASSUME Typed, NEW r \in Row,
           SaquesElsewhere(r) \/ ComissoesElsewhere(r) \/ IndicacoesElsewhere(r) \/ ReadElsewhere(r)
    PROVE  MoveStep
<1>1. keyed \subseteq Row /\ screen \in Screen /\ db[r] \in Fit
  BY TypedIs DEF List
<1>2. CASE SaquesElsewhere(r)
  <2>1. PICK move \in PayoutMove : /\ db[r] = move[1] /\ Elsewhere(r, move[2])
                                   /\ keyed' \in {keyed} \cup (IF move[2] = "processing" THEN {keyed \cup {r}} ELSE {})
    BY <1>2, Zenon DEF SaquesElsewhere
  <2>2. screen = "saques" /\ Fit = PayoutStatus \cup {"absent"}
    BY <1>2, StatusOf DEF SaquesElsewhere, Fit
  <2>3. move[2] \in Fit \ {"absent"} /\ Rank(db[r]) <= Rank(move[2])
    BY <2>1, <2>2, RankType DEF PayoutMove, PayoutStatus
  <2>4. keyed' \subseteq Row
    BY <1>1, <2>1
  <2>5. QED
    BY <2>1, <2>3, <2>4, MovedIs
<1>3. CASE ComissoesElsewhere(r)
  <2>1. PICK move \in RewardMove : db[r] = move[1] /\ Elsewhere(r, move[2])
    BY <1>3 DEF ComissoesElsewhere
  <2>2. screen = "comissoes" /\ Fit = RewardStatus \cup {"absent"} /\ keyed' = keyed
    BY <1>3, StatusOf DEF ComissoesElsewhere, Fit
  <2>3. move[2] \in Fit \ {"absent"}
    BY <2>2 DEF RewardMove, RewardStatus
  <2>4. QED
    BY <1>1, <2>1, <2>2, <2>3, MovedIs
<1>4. CASE IndicacoesElsewhere(r)
  <2>1. screen = "indicacoes" /\ Fit = LeadStatus \cup {"absent"} /\ keyed' = keyed
    BY <1>4, StatusOf DEF IndicacoesElsewhere, Fit
  <2>2. PICK status \in LeadStatus : Elsewhere(r, status)
    BY <1>4 DEF IndicacoesElsewhere
  <2>3. QED
    BY <1>1, <2>1, <2>2, MovedIs
<1>5. CASE ReadElsewhere(r)
  <2>1. screen \in ReadPage /\ screen # "saques" /\ keyed' = keyed
    BY <1>5 DEF ReadElsewhere, ReadPage
  <2>2. PICK status \in ReadMove(r) : Elsewhere(r, status)
    BY <1>5 DEF ReadElsewhere
  <2>3. status \in Fit \ {"absent"}
    <3>1. CASE screen = "extrato"
      <4>1. status \in {move[2] : move \in {m \in PayoutMove : m[1] = db[r]}}
        BY <2>2, <3>1 DEF ReadMove
      <4>2. PICK move \in PayoutMove : status = move[2]
        BY <4>1
      <4>3. status \in PayoutStatus
        BY <4>2 DEF PayoutMove, PayoutStatus
      <4>4. QED
        BY <3>1, <4>3, StatusOf DEF Fit, PayoutStatus
    <3>2. CASE screen = "auditoria"
      BY <2>2, <3>2, StatusOf DEF ReadMove, Fit
    <3>3. CASE screen \notin {"extrato", "auditoria"} /\ db[r] # "absent"
      BY <1>1, <2>2, <3>3, NoneAbsent DEF ReadMove, Fit
    <3>4. CASE screen = "programas" /\ db[r] = "absent"
      BY <2>2, <3>4, StatusOf DEF ReadMove, Fit, ProgramStatus
    <3>5. CASE screen \in {"overview", "parceiro", "referidos"} /\ db[r] = "absent"
      BY <2>2, <3>5, StatusOf DEF ReadMove, Fit
    <3>6. QED
      BY <2>1, <3>1, <3>2, <3>3, <3>4, <3>5 DEF ReadPage
  <2>4. QED
    BY <1>1, <2>1, <2>2, <2>3, MovedIs
<1>6. QED
  BY <1>2, <1>3, <1>4, <1>5

\* The call of a handler that has sent its request.
LEMMA SentIs ==
    ASSUME Typed, NEW c \in Call, NEW fn \in Handler, NEW r \in Row \cup {NoRow}, NEW to \in Fit,
           Send(c, fn, r, to)
    PROVE  \E new \in CallState :
              /\ call' = [call EXCEPT ![c] = new]
              /\ new.at = "act" /\ new.fn = fn /\ new.row = r /\ new.to = to /\ new.live
              /\ (new.mine <=> fn = "save") /\ new.answer = "none"
              /\ new.shown = (IF r = NoRow THEN "absent" ELSE rows[r])
              /\ \A p \in Part : new.got[p] = NotYet
<1> DEFINE shown == IF r = NoRow THEN "absent" ELSE rows[r]
<1> DEFINE new == [IdleCall EXCEPT !.at = "act", !.fn = fn, !.row = r, !.to = to,
                                   !.shown = shown, !.live = TRUE, !.mine = (fn = "save")]
<1>1. shown \in AnyStatus /\ to \in AnyStatus
  BY TypedIs, FitIsAny, AbsentIsAny DEF List
<1>2. call' = [call EXCEPT ![c] = new]
  BY DEF Send
<1> HIDE DEF shown
<1>3. IdleCall \in CallState
  BY TypedIs, IdleGood DEF GoodCall
<1>4. /\ new \in CallState
      /\ new.at = "act" /\ new.fn = fn /\ new.row = r /\ new.to = to /\ new.live = TRUE
      /\ new.mine = (fn = "save") /\ new.answer = "none" /\ new.shown = shown /\ new.got = IdleCall.got
  BY <1>1, <1>3, IdleIs DEF CallState
<1> HIDE DEF new
<1>5. \A p \in Part : new.got[p] = NotYet
  BY <1>4, IdleIs
<1>6. QED
  BY <1>2, <1>4, <1>5 DEF shown

LEMMA SentGood ==
    ASSUME Typed, NEW c \in Call, NEW new \in CallState, call' = [call EXCEPT ![c] = new],
           new.at = "act", new.live, new.answer = "none", new.fn # "none",
           new.mine => new.fn = "save", \A p \in Part : new.got[p] = NotYet,
           new.fn \in RowFn => new.row \in Row,
           new.fn \in {"create", "confirm", "paid", "cancel"} => screen = "saques",
           new.fn \in {"approve", "reject"} => screen = "comissoes",
           new.fn \in {"status", "save"} => screen = "indicacoes" /\ new.to \in LeadStatus,
           new.fn \in {"confirm", "approve", "reject"} => new.shown = "pending",
           new.fn = "paid" => new.shown = "processing",
           new.fn = "cancel" => new.shown \in {"pending", "processing"}
    PROVE  new \in GoodCall /\ Put(c, new)
<1>1. Filed(new) /\ AsOffered(new)
  BY DEF Filed, AsOffered
<1>2. new \in GoodCall
  BY <1>1 DEF GoodCall
<1>3. QED
  BY <1>2, TypedIs, PutOne

LEMMA CreateIs ==
    ASSUME Typed, NEW c \in Call, HandleCreateJob(c)
    PROVE  \E new \in GoodCall : ClickStep(c, new)
<1>1. /\ screen = "saques" /\ mounted /\ call[c].at = "idle" /\ busy' = "__create__"
      /\ Send(c, "create", NoRow, "pending")
      /\ UNCHANGED <<screen, server, mounted, rows, cards, more, loading, error, sheet, blemish>>
  BY DEF HandleCreateJob, CreateOffered
<1>2. "pending" \in Fit /\ "create" \in Handler
  BY <1>1, StatusOf DEF Fit, PayoutStatus, Handler
<1>3. PICK new \in CallState :
              /\ call' = [call EXCEPT ![c] = new]
              /\ new.at = "act" /\ new.fn = "create" /\ new.row = NoRow /\ new.live
              /\ ~new.mine /\ new.answer = "none"
              /\ \A p \in Part : new.got[p] = NotYet
  BY <1>1, <1>2, SentIs
<1>4. new \in GoodCall /\ Put(c, new)
  BY <1>1, <1>3, SentGood DEF RowFn
<1>5. QED
  BY <1>1, <1>3, <1>4 DEF ClickStep

LEMMA RowClickIs ==
    ASSUME Typed, NEW c \in Call, NEW r \in Row, NEW fn \in RowFn \ {"save"}, NEW to \in Fit,
           Send(c, fn, r, to), busy' = r, call[c].at = "idle", mounted, rows[r] # "absent",
           UNCHANGED <<screen, server, mounted, rows, cards, more, loading, error, sheet, blemish>>,
           fn \in {"confirm", "paid", "cancel"} => screen = "saques",
           fn \in {"approve", "reject"} => screen = "comissoes",
           fn = "status" => screen = "indicacoes" /\ to \in LeadStatus,
           fn \in {"confirm", "approve", "reject"} => rows[r] = "pending",
           fn = "paid" => rows[r] = "processing",
           fn = "cancel" => rows[r] \in {"pending", "processing"}
    PROVE  \E new \in GoodCall : ClickStep(c, new)
<1>1. fn \in Handler /\ fn # "save" /\ fn # "none" /\ fn # "create" /\ r # NoRow
  BY DEF RowFn, Handler
<1>2. PICK new \in CallState :
              /\ call' = [call EXCEPT ![c] = new]
              /\ new.at = "act" /\ new.fn = fn /\ new.row = r /\ new.to = to /\ new.live
              /\ ~new.mine /\ new.answer = "none" /\ new.shown = rows[r]
              /\ \A p \in Part : new.got[p] = NotYet
  BY <1>1, SentIs
<1>3. new \in GoodCall /\ Put(c, new)
  BY <1>1, <1>2, SentGood
<1>4. QED
  BY <1>1, <1>2, <1>3 DEF ClickStep

LEMMA MenuIs ==
    ASSUME Typed, NEW c \in Call, NEW r \in Row,
           \/ HandleConfirm(c, r) \/ HandleMarkPaid(c, r) \/ HandleCancel(c, r)
           \/ HandleApprove(c, r) \/ HandleReject(c, r)
    PROVE  \E new \in GoodCall : ClickStep(c, new)
<1>1. CASE HandleConfirm(c, r)
  <2>1. /\ screen = "saques" /\ mounted /\ rows[r] = "pending" /\ call[c].at = "idle" /\ busy' = r
        /\ Send(c, "confirm", r, "processing")
        /\ UNCHANGED <<screen, server, mounted, rows, cards, more, loading, error, sheet, blemish>>
    BY <1>1 DEF HandleConfirm, HandleRow, SaquesMenus, SaquesOffered
  <2>2. "processing" \in Fit
    BY <2>1, StatusOf DEF Fit, PayoutStatus
  <2>3. QED
    BY <2>1, <2>2, RowClickIs DEF RowFn
<1>2. CASE HandleMarkPaid(c, r)
  <2>1. /\ screen = "saques" /\ mounted /\ rows[r] = "processing" /\ call[c].at = "idle" /\ busy' = r
        /\ Send(c, "paid", r, "paid")
        /\ UNCHANGED <<screen, server, mounted, rows, cards, more, loading, error, sheet, blemish>>
    BY <1>2 DEF HandleMarkPaid, HandleRow, SaquesMenus, SaquesOffered
  <2>2. "paid" \in Fit
    BY <2>1, StatusOf DEF Fit, PayoutStatus
  <2>3. QED
    BY <2>1, <2>2, RowClickIs DEF RowFn
<1>3. CASE HandleCancel(c, r)
  <2>1. /\ screen = "saques" /\ mounted /\ rows[r] \in {"pending", "processing"} /\ call[c].at = "idle"
        /\ busy' = r
        /\ Send(c, "cancel", r, "cancelled")
        /\ UNCHANGED <<screen, server, mounted, rows, cards, more, loading, error, sheet, blemish>>
    BY <1>3 DEF HandleCancel, HandleRow, SaquesMenus, SaquesOffered
  <2>2. "cancelled" \in Fit
    BY <2>1, StatusOf DEF Fit, PayoutStatus
  <2>3. QED
    BY <2>1, <2>2, RowClickIs DEF RowFn
<1>4. CASE HandleApprove(c, r)
  <2>1. /\ screen = "comissoes" /\ mounted /\ rows[r] = "pending" /\ call[c].at = "idle" /\ busy' = r
        /\ Send(c, "approve", r, "approved")
        /\ UNCHANGED <<screen, server, mounted, rows, cards, more, loading, error, sheet, blemish>>
    BY <1>4 DEF HandleApprove, HandleReward, ComissoesMenus, ComissoesOffered
  <2>2. "approved" \in Fit
    BY <2>1, StatusOf DEF Fit, RewardStatus
  <2>3. QED
    BY <2>1, <2>2, RowClickIs DEF RowFn
<1>5. CASE HandleReject(c, r)
  <2>1. /\ screen = "comissoes" /\ mounted /\ rows[r] = "pending" /\ call[c].at = "idle" /\ busy' = r
        /\ Send(c, "reject", r, "rejected")
        /\ UNCHANGED <<screen, server, mounted, rows, cards, more, loading, error, sheet, blemish>>
    BY <1>5 DEF HandleReject, HandleReward, ComissoesMenus, ComissoesOffered
  <2>2. "rejected" \in Fit
    BY <2>1, StatusOf DEF Fit, RewardStatus
  <2>3. QED
    BY <2>1, <2>2, RowClickIs DEF RowFn
<1>6. QED
  BY <1>1, <1>2, <1>3, <1>4, <1>5

LEMMA StatusClickIs ==
    ASSUME Typed, NEW c \in Call, NEW r \in Row, NEW next \in LeadStatus, HandleStatusChange(c, r, next)
    PROVE  \E new \in GoodCall : ClickStep(c, new)
<1>1. /\ screen = "indicacoes" /\ mounted /\ rows[r] # "absent" /\ call[c].at = "idle" /\ busy' = r
      /\ Send(c, "status", r, next)
      /\ UNCHANGED <<screen, server, mounted, rows, cards, more, loading, error, sheet, blemish>>
  BY DEF HandleStatusChange, TableShown
<1>2. next \in Fit
  BY <1>1, StatusOf DEF Fit
<1>3. QED
  BY <1>1, <1>2, RowClickIs DEF RowFn

LEMMA SaveIs ==
    ASSUME Typed, NEW c \in Call, HandleSave(c)
    PROVE  \E new \in GoodCall : ClickStep(c, new)
<1>1. /\ screen = "indicacoes" /\ mounted /\ sheet.row # NoRow /\ ~sheet.saving /\ call[c].at = "idle"
      /\ sheet' = [sheet EXCEPT !.saving = TRUE] /\ busy' = busy
      /\ Send(c, "save", sheet.row, sheet.draft)
      /\ UNCHANGED <<screen, server, mounted, rows, cards, more, loading, error, blemish>>
  BY DEF HandleSave, SheetShown, TableShown
<1>2. sheet.row \in Row /\ sheet.draft \in LeadStatus
  BY <1>1, TypedIs DEF Typed, SheetFiled, SheetState
<1>3. sheet.draft \in Fit /\ "save" \in Handler
  BY <1>1, <1>2, StatusOf DEF Fit, Handler
<1>4. PICK new \in CallState :
              /\ call' = [call EXCEPT ![c] = new]
              /\ new.at = "act" /\ new.fn = "save" /\ new.row = sheet.row /\ new.to = sheet.draft
              /\ new.shown = rows[sheet.row]
              /\ new.live /\ new.mine /\ new.answer = "none"
              /\ \A p \in Part : new.got[p] = NotYet
  BY <1>1, <1>2, <1>3, SentIs
<1>5. new \in GoodCall /\ Put(c, new)
  BY <1>1, <1>2, <1>4, SentGood
<1>6. QED
  BY <1>1, <1>4, <1>5 DEF ClickStep

LEMMA ResumeIs ==
    ASSUME Typed, NEW c \in Call, Resume(c), call[c].fn # "save"
    PROVE  EndStep(c) \/ ReloadStep(c)
<1>1. IdleCall \in GoodCall /\ ReadCall \in GoodCall /\ call \in [Call -> GoodCall] /\ sheet \in SheetState
  BY TypedIs, IdleGood
<1>2. CASE call[c].live /\ call[c].answer = "ok"
  <2>1. /\ busy' = NoRow /\ ReloadAfter(c) /\ UNCHANGED <<mounted, rows, cards, more, error>>
        /\ UNCHANGED <<screen, server>> /\ Acting(c)
    BY <1>2 DEF Resume
  <2>2. ~sheet'.saving /\ sheet' = Fresh(sheet)
    BY <1>1, <2>1, FreshIs DEF ReloadAfter
  <2>3. Put(c, ReadCall)
    BY <1>1, <2>1, <2>2, PutOrphans DEF ReloadAfter
  <2>4. \A d \in Call \ {c} : ~call'[d].mine
    BY <1>1, <2>1, OrphanIs DEF ReloadAfter
  <2>5. QED
    BY <1>2, <2>1, <2>2, <2>3, <2>4 DEF ReloadStep, ReloadAfter
<1>3. CASE call[c].live /\ call[c].answer # "ok"
  BY <1>1, <1>3, PutOne DEF Resume, EndStep
<1>4. CASE ~call[c].live
  BY <1>1, <1>4, PutOne DEF Resume, EndStep, page
<1>5. QED
  BY <1>2, <1>3, <1>4

LEMMA SaveResumeIs ==
    ASSUME Typed, NEW c \in Call, SaveResume(c)
    PROVE  EndStep(c) \/ ReloadStep(c)
<1>1. IdleCall \in GoodCall /\ ReadCall \in GoodCall /\ call \in [Call -> GoodCall] /\ sheet \in SheetState
  BY TypedIs, IdleGood
<1>2. CASE call[c].live /\ call[c].answer = "ok"
  <2>1. /\ loading' = TRUE /\ sheet' = NoSheet /\ call[c].fn = "save" /\ Acting(c)
        /\ call' = [d \in Call |-> IF d = c THEN ReadCall ELSE Orphan(call[d])]
        /\ blemish' = IF \E d \in Call \ {c} : Reading(d) THEN blemish \cup {"overlap"} ELSE blemish
        /\ UNCHANGED <<screen, server, mounted, rows, cards, more, error, busy>>
    BY <1>2 DEF SaveResume
  <2>2. ~sheet'.saving
    BY <2>1, NoSheetIs
  <2>3. Put(c, ReadCall)
    BY <1>1, <2>1, <2>2, PutOrphans
  <2>4. \A d \in Call \ {c} : ~call'[d].mine
    BY <1>1, <2>1, OrphanIs
  <2>5. QED
    BY <1>2, <2>1, <2>3, <2>4 DEF ReloadStep
<1>3. CASE ~(call[c].live /\ call[c].answer = "ok")
  BY <1>1, <1>3, PutOne DEF SaveResume, EndStep
<1>4. QED
  BY <1>2, <1>3

LEMMA ResumesIs ==
    ASSUME Typed, NEW c \in Call,
           SaquesResume(c) \/ ComissoesResume(c) \/ StatusChangeResume(c) \/ SaveResume(c)
    PROVE  EndStep(c) \/ ReloadStep(c)
<1>1. CASE SaquesResume(c) \/ ComissoesResume(c)
  <2>1. Resume(c) /\ call[c].fn # "save"
    BY <1>1, TypedIs DEF SaquesResume, ComissoesResume, Filed
  <2>2. QED
    BY <2>1, ResumeIs
<1>2. CASE StatusChangeResume(c)
  BY <1>2, ResumeIs DEF StatusChangeResume
<1>3. QED
  BY <1>1, <1>2, SaveResumeIs

LEMMA SheetsIs ==
    ASSUME Typed, (\E r \in Row : OpenSheet(r)) \/ (\E s \in LeadStatus : EditSheet(s)) \/ CloseSheet
    PROVE  SheetStep
<1>1. sheet \in SheetState /\ rows \in List /\ SheetFiled /\ screen \in Screen
  BY TypedIs DEF Typed
<1>2. ASSUME NEW r \in Row, OpenSheet(r) PROVE SheetStep
  <2>1. /\ screen = "indicacoes" /\ mounted /\ sheet.row = NoRow /\ rows[r] # "absent"
        /\ sheet' = [row |-> r, shown |-> rows[r], draft |-> rows[r], saving |-> FALSE]
        /\ UNCHANGED <<screen, server, mounted, rows, cards, more, loading, error, busy, call, blemish>>
    BY <1>2 DEF OpenSheet, TableShown
  <2>2. rows[r] \in LeadStatus /\ rows[r] \in AnyStatus
    BY <1>1, <2>1, StatusOf, FitIsAny DEF List, Fit
  <2>3. sheet.saving = FALSE
    BY <1>1, <2>1 DEF SheetFiled, SheetState
  <2>4. sheet' \in SheetState /\ sheet'.row = r /\ sheet'.saving = FALSE
        /\ sheet'.draft = rows[r] /\ sheet'.shown = rows[r]
    BY <2>1, <2>2 DEF SheetState
  <2>5. r # NoRow
    OBVIOUS
  <2>6. QED
    BY <2>1, <2>2, <2>3, <2>4, <2>5 DEF SheetStep
<1>3. ASSUME NEW s \in LeadStatus, EditSheet(s) PROVE SheetStep
  <2>1. /\ screen = "indicacoes" /\ mounted /\ sheet.row # NoRow
        /\ sheet' = [sheet EXCEPT !.draft = s]
        /\ UNCHANGED <<screen, server, mounted, rows, cards, more, loading, error, busy, call, blemish>>
    BY <1>3 DEF EditSheet, SheetShown, TableShown
  <2>2. s \in AnyStatus /\ sheet.shown \in LeadStatus
    BY <1>1, <2>1, StatusOf, FitIsAny DEF Fit, SheetFiled
  <2>3. /\ sheet' \in SheetState /\ sheet'.row = sheet.row /\ sheet'.saving = sheet.saving
        /\ sheet'.draft = s /\ sheet'.shown = sheet.shown
    BY <1>1, <2>1, <2>2 DEF SheetState
  <2>4. QED
    BY <2>1, <2>2, <2>3 DEF SheetStep
<1>4. ASSUME CloseSheet PROVE SheetStep
  BY <1>4 DEF CloseSheet, SheetShown, TableShown, SheetStep
<1>5. QED
  BY <1>2, <1>3, <1>4

LEMMA StepKinds ==
    ASSUME Typed, [Next]_vars
    PROVE  \/ \E c \in Call : HandlerStep(c)
           \/ Unmount \/ MoveStep \/ SheetStep
           \/ \E r \in Row : KeyExpires(r)
           \/ UNCHANGED vars
<1>1. CASE \E c \in Call : Mount(c)
  BY <1>1, MountIs DEF HandlerStep
<1>2. CASE \E c \in Call : LoseAct(c)
  BY <1>2, LoseActIs DEF HandlerStep
<1>3. CASE \E c \in Call : ReadArrives(c) \/ ReadFails(c)
  BY <1>3, ReadsIs DEF HandlerStep
<1>4. CASE \E c \in Call, part \in Part : AnswerRead(c, part) \/ LoseRead(c, part) \/ AnswerShort(c, part)
  <2>1. PICK c \in Call, part \in Part : AnswerRead(c, part) \/ LoseRead(c, part) \/ AnswerShort(c, part)
    BY <1>4
  <2>2. \E answer \in List \cup {Lost} : GotStep(c, part, answer)
    BY <2>1, AnswersIs
  <2>3. QED
    BY <2>2 DEF HandlerStep
<1>5. CASE \E c \in Call : SaquesServe(c) \/ ComissoesServe(c) \/ ServeStatus(c)
  BY <1>5, SaquesServeIs, ComissoesServeIs, IndicacoesServeIs DEF HandlerStep
<1>6. CASE \E c \in Call : HandleCreateJob(c) \/ HandleSave(c)
  BY <1>6, CreateIs, SaveIs DEF HandlerStep
<1>7. CASE \E c \in Call, r \in Row : \/ HandleConfirm(c, r) \/ HandleMarkPaid(c, r) \/ HandleCancel(c, r)
                                      \/ HandleApprove(c, r) \/ HandleReject(c, r)
  BY <1>7, MenuIs DEF HandlerStep
<1>8. CASE \E c \in Call, r \in Row, next \in LeadStatus : HandleStatusChange(c, r, next)
  BY <1>8, StatusClickIs DEF HandlerStep
<1>9. CASE \E c \in Call : SaquesResume(c) \/ ComissoesResume(c) \/ StatusChangeResume(c) \/ SaveResume(c)
  BY <1>9, ResumesIs DEF HandlerStep
<1>10. CASE (\E r \in Row : OpenSheet(r)) \/ (\E s \in LeadStatus : EditSheet(s)) \/ CloseSheet
  BY <1>10, SheetsIs
<1>11. CASE \E r \in Row : SaquesElsewhere(r) \/ ComissoesElsewhere(r) \/ IndicacoesElsewhere(r) \/ ReadElsewhere(r)
  BY <1>11, ElsewhereIs
<1>12. CASE \E r \in Row : KeyExpires(r)
  BY <1>12
<1>13. CASE Unmount
  BY <1>13
<1>14. CASE UNCHANGED vars
  BY <1>14
<1>15. QED
  BY <1>1, <1>2, <1>3, <1>4, <1>5, <1>6, <1>7, <1>8, <1>9, <1>10, <1>11, <1>12, <1>13, <1>14, Zenon
     DEF Next, SaquesNext, ComissoesNext, IndicacoesNext, ReadPagesNext

-----------------------------------------------------------------------------
(* Types.                                                                  *)

LEMMA SameScreen ==
    ASSUME screen' = screen
    PROVE  Fit' = Fit /\ List' = List /\ GoodCall' = GoodCall /\ Parts' = Parts
<1>1. Fit' = Fit /\ List' = List
  BY DEF Fit, List
<1>2. \A st : Filed(st)' = Filed(st) /\ AsOffered(st)' = AsOffered(st)
  BY <1>1 DEF Filed, AsOffered
<1>3. QED
  BY <1>1, <1>2 DEF GoodCall, Parts

LEMMA KindsKeepScreen ==
    ASSUME Typed, [Next]_vars
    PROVE  screen' = screen
<1>1. ASSUME NEW c \in Call, HandlerStep(c) PROVE screen' = screen
  BY <1>1 DEF HandlerStep, MountStep, ArriveStep, ReadArrives, FailStep, ReadFails, EndStep, ReloadStep,
              GotStep, ServeStep, LostStep, ClickStep
<1>2. QED
  BY <1>1, StepKinds DEF Unmount, MoveStep, SheetStep, KeyExpires, vars

LEMMA InitTyped == Init => Typed
<1> SUFFICES ASSUME Init PROVE Typed
  OBVIOUS
<1>1. screen \in Screen
  BY DEF Init
<1>2. IdleCall \in GoodCall /\ Empty \in List /\ List \subseteq Snapshot
  BY <1>1, IdleGood, FitIsAny
<1>3. db \in List /\ rows \in List /\ cards \in List /\ more \in List
  BY <1>2 DEF Init, List, Fit
<1>4. call \in [Call -> GoodCall] /\ \A c \in Call : call[c] = IdleCall
  BY <1>2 DEF Init
<1>5. sheet \in SheetState /\ sheet.row = NoRow /\ ~sheet.saving
  BY NoSheetIs DEF Init
<1>6. TypeOK
  <2>1. call \in [Call -> CallState]
    BY <1>4 DEF GoodCall
  <2>2. moves \in 0..MaxMoves /\ keyed \subseteq Row
    BY DEF Init
  <2>3. QED
    BY <1>1, <1>2, <1>3, <1>5, <2>1, <2>2 DEF Init, TypeOK
<1>7. SheetFiled
  BY <1>5 DEF SheetFiled
<1>8. Closed
  BY <1>4, IdleIs DEF Closed, Init, Reading
<1>9. QED
  BY <1>3, <1>4, <1>6, <1>7, <1>8 DEF Typed

\* What each kind of step does to the state of the page.
LEMMA StepTyped ==
    ASSUME Typed, screen' = screen, call' \in [Call -> GoodCall],
           {db', rows', cards', more'} \subseteq List, keyed' \subseteq Row, moves' \in 0..MaxMoves,
           {mounted', loading', error'} \subseteq BOOLEAN, busy' \in Row \cup {NoRow, "__create__"},
           sheet' \in SheetState, SheetFiled', Closed',
           blemish' \subseteq {"elsewhere", "overlap", "lost", "swallowed"}
    PROVE  Typed'
<1>1. List' = List /\ GoodCall' = GoodCall /\ List \subseteq Snapshot
  BY SameScreen, TypedIs, FitIsAny
<1>2. call' \in [Call -> CallState]
  BY DEF GoodCall
<1>3. TypeOK'
  BY <1>1, <1>2, TypedIs DEF TypeOK
<1>4. QED
  BY <1>1, <1>3 DEF Typed

LEMMA ClosedIs ==
    ASSUME Typed, NEW c \in Call, Reading(c) \/ call[c].live
    PROVE  mounted
  BY DEF Typed, Closed

LEMMA HandlerTyped ==
    ASSUME Typed, NEW c \in Call, HandlerStep(c)
    PROVE  Typed'
<1>1. /\ screen \in Screen /\ call \in [Call -> GoodCall] /\ sheet \in SheetState
      /\ {db, rows, cards, more} \subseteq List /\ keyed \subseteq Row /\ moves \in 0..MaxMoves
      /\ {mounted, loading, error} \subseteq BOOLEAN
      /\ busy \in Row \cup {NoRow, "__create__"}
      /\ blemish \subseteq {"elsewhere", "overlap", "lost", "swallowed"}
      /\ SheetFiled /\ Closed
  BY TypedIs DEF Typed, TypeOK
<1>2. screen' = screen => (Fit' = Fit /\ (sheet' = sheet => SheetFiled'))
  BY <1>1, SameScreen DEF SheetFiled
<1>3. CASE MountStep(c)
  <2>1. Closed'
    BY <1>3 DEF MountStep, Closed
  <2>2. QED
    BY <1>1, <1>2, <1>3, <2>1, StepTyped DEF MountStep, Put, server
<1>4. CASE ArriveStep(c)
  <2>1. mounted /\ mounted' = mounted
    BY <1>4, ClosedIs DEF ArriveStep, ReadArrives
  <2>2. \A p \in Parts : p \in Part /\ call[c].got[p] \in List
    BY <1>1, <1>4, TypedIs, PartsIs DEF ArriveStep, ReadArrives, Filed
  <2>3. {rows', cards', more'} \subseteq List
    BY <1>1, <1>4, <2>2, PartsIs DEF ArriveStep, ReadArrives
  <2>4. Closed'
    BY <2>1 DEF Closed
  <2>5. QED
    BY <1>1, <1>2, <1>4, <2>3, <2>4, StepTyped DEF ArriveStep, ReadArrives, Put, server
<1>5. CASE FailStep(c)
  <2>1. mounted /\ mounted' = mounted
    BY <1>5, ClosedIs DEF FailStep, ReadFails
  <2>2. Closed'
    BY <2>1 DEF Closed
  <2>3. sheet' \in SheetState /\ SheetFiled'
    BY <1>1, <1>5, FreshIs DEF FailStep, ReadFails, SheetFiled
  <2>4. QED
    BY <1>1, <1>5, <2>2, <2>3, StepTyped DEF FailStep, ReadFails, Put, server
<1>6. CASE EndStep(c)
  <2>1. call' \in [Call -> GoodCall] /\ call'[c] = IdleCall /\ \A d \in Call \ {c} : Alike(call'[d], call[d])
    BY <1>6, OthersAlike DEF EndStep, Put
  <2>2. Filed(call[c])
    BY TypedIs
  <2>3. Closed'
    BY <1>1, <1>6, <2>1, <2>2, IdleIs DEF EndStep, Closed, Reading, Alike, Filed
  <2>4. sheet' \in SheetState /\ SheetFiled'
    <3>1. sheet' = sheet \/ sheet' = [sheet EXCEPT !.saving = FALSE]
      BY <1>6 DEF EndStep
    <3>2. QED
      BY <1>1, <1>2, <1>6, <3>1 DEF EndStep, SheetState, SheetFiled
  <2>5. busy' \in Row \cup {NoRow, "__create__"}
    BY <1>1, <1>6 DEF EndStep
  <2>6. QED
    BY <1>1, <1>6, <2>1, <2>3, <2>4, <2>5, StepTyped DEF EndStep, server
<1>7. CASE ReloadStep(c)
  <2>1. mounted /\ mounted' = mounted
    BY <1>7, ClosedIs DEF ReloadStep
  <2>2. Closed'
    BY <2>1 DEF Closed
  <2>3. sheet' \in SheetState /\ SheetFiled'
    BY <1>1, <1>7, FreshIs, NoSheetIs DEF ReloadStep, SheetFiled
  <2>4. QED
    BY <1>1, <1>7, <2>2, <2>3, StepTyped DEF ReloadStep, Put, server
<1>8. ASSUME NEW part \in Part, NEW answer \in List \cup {Lost}, GotStep(c, part, answer) PROVE Typed'
  <2>1. mounted /\ mounted' = mounted
    BY <1>8, ClosedIs DEF GotStep, page
  <2>2. Closed'
    BY <2>1 DEF Closed
  <2>3. call' \in [Call -> GoodCall]
    BY <1>8 DEF GotStep, PutAnswer, Put
  <2>4. QED
    BY <1>1, <1>2, <1>8, <2>2, <2>3, StepTyped DEF GotStep, server, page
<1>9. ASSUME NEW new \in GoodCall, ServeStep(c, new) PROVE Typed'
  <2>1. call' \in [Call -> GoodCall] /\ call'[c] = new /\ \A d \in Call \ {c} : Alike(call'[d], call[d])
    BY <1>9, OthersAlike DEF ServeStep, Put
  <2>2. Closed'
    BY <1>1, <1>9, <2>1 DEF ServeStep, Closed, Reading, Alike, page
  <2>3. QED
    BY <1>1, <1>2, <1>9, <2>1, <2>2, StepTyped DEF ServeStep, page
<1>10. ASSUME NEW new \in GoodCall, LostStep(c, new) PROVE Typed'
  <2>1. call' \in [Call -> GoodCall] /\ call'[c] = new /\ \A d \in Call \ {c} : Alike(call'[d], call[d])
    BY <1>10, OthersAlike DEF LostStep, Put
  <2>2. Closed'
    BY <1>1, <1>10, <2>1 DEF LostStep, Closed, Reading, Alike, page
  <2>3. QED
    BY <1>1, <1>2, <1>10, <2>1, <2>2, StepTyped DEF LostStep, page, server
<1>11. ASSUME NEW new \in GoodCall, ClickStep(c, new) PROVE Typed'
  <2>1. Closed'
    BY <1>11 DEF ClickStep, Closed
  <2>2. busy' \in Row \cup {NoRow, "__create__"}
    BY <1>1, <1>11 DEF ClickStep, GoodCall, Filed
  <2>3. sheet' \in SheetState /\ SheetFiled'
    <3>1. CASE sheet' = sheet
      BY <1>1, <1>2, <1>11, <3>1 DEF ClickStep
    <3>2. CASE sheet.row # NoRow /\ sheet' = [sheet EXCEPT !.saving = TRUE]
      BY <1>1, <1>11, <3>2 DEF ClickStep, SheetState, SheetFiled
    <3>3. QED
      BY <1>11, <3>1, <3>2 DEF ClickStep
  <2>4. QED
    BY <1>1, <1>11, <2>1, <2>2, <2>3, StepTyped DEF ClickStep, Put, server
<1>12. QED
  BY <1>3, <1>4, <1>5, <1>6, <1>7, <1>8, <1>9, <1>10, <1>11, Zenon DEF HandlerStep

LEMMA NextTyped ==
    ASSUME Typed, [Next]_vars
    PROVE  Typed'
<1>1. /\ screen \in Screen /\ call \in [Call -> GoodCall] /\ sheet \in SheetState
      /\ {db, rows, cards, more} \subseteq List /\ keyed \subseteq Row /\ moves \in 0..MaxMoves
      /\ {mounted, loading, error} \subseteq BOOLEAN
      /\ busy \in Row \cup {NoRow, "__create__"}
      /\ blemish \subseteq {"elsewhere", "overlap", "lost", "swallowed"}
      /\ SheetFiled /\ Closed
  BY TypedIs DEF Typed, TypeOK
<1>2. screen' = screen
  BY KindsKeepScreen
<1>3. sheet' = sheet => SheetFiled'
  BY <1>1, <1>2 DEF SheetFiled
<1>4. CASE Unmount
  <2>1. call' = [c \in Call |-> IF Acting(c) THEN Dead(call[c]) ELSE IdleCall]
    BY <1>4 DEF Unmount
  <2>2. ASSUME NEW c \in Call, Acting(c) PROVE Dead(call[c]) \in GoodCall /\ ~Dead(call[c]).live /\ Dead(call[c]).at = "act"
    <3>1. call[c] \in CallState /\ Filed(call[c]) /\ AsOffered(call[c])
      BY TypedIs
    <3>2. Dead(call[c]) \in GoodCall
      BY <2>2, <3>1, DeadIs DEF GoodCall, Filed, AsOffered, Acting
    <3>3. QED
      BY <2>2, <3>1, <3>2, DeadIs DEF Acting
  <2>3. call' \in [Call -> GoodCall] /\ \A c \in Call : ~call'[c].live /\ call'[c].at # "read"
    BY <1>1, <2>1, <2>2, IdleGood, IdleIs
  <2>4. Closed'
    BY <1>4, <2>3 DEF Unmount, Closed, Reading
  <2>5. sheet' \in SheetState /\ SheetFiled'
    BY <1>4, NoSheetIs DEF Unmount, SheetFiled
  <2>6. QED
    BY <1>1, <1>4, <2>3, <2>4, <2>5, StepTyped, FitIsAny DEF Unmount, server
<1>5. CASE MoveStep
  <2>1. Closed'
    BY <1>1, <1>5 DEF MoveStep, Closed, Reading, page
  <2>2. QED
    BY <1>1, <1>3, <1>5, <2>1, StepTyped DEF MoveStep, page
<1>6. CASE SheetStep
  <2>1. Closed'
    BY <1>6 DEF SheetStep, Closed
  <2>2. call' \in [Call -> GoodCall]
    BY <1>1, <1>6, OrphanIs DEF SheetStep
  <2>3. sheet' \in SheetState /\ SheetFiled'
    <3>1. CASE sheet' = NoSheet
      BY <3>1, NoSheetIs DEF SheetFiled
    <3>2. CASE /\ sheet'.draft \in LeadStatus /\ sheet'.shown \in LeadStatus /\ sheet' \in SheetState
               /\ sheet'.row # NoRow
      BY <1>2, <1>6, <3>2 DEF SheetFiled, SheetStep
    <3>3. QED
      BY <1>6, <3>1, <3>2 DEF SheetStep
  <2>4. QED
    BY <1>1, <1>6, <2>1, <2>2, <2>3, StepTyped DEF SheetStep, server
<1>7. CASE \E r \in Row : KeyExpires(r)
  <2>1. Closed'
    BY <1>1, <1>7 DEF KeyExpires, Closed, Reading, page
  <2>2. QED
    BY <1>1, <1>3, <1>7, <2>1, StepTyped DEF KeyExpires, page
<1>8. CASE UNCHANGED vars
  <2>1. Closed'
    BY <1>1, <1>8 DEF Closed, Reading, vars, page
  <2>2. QED
    BY <1>1, <1>3, <1>8, <2>1, StepTyped DEF vars, page, server
<1>9. QED
  BY <1>4, <1>5, <1>6, <1>7, <1>8, HandlerTyped, StepKinds

LEMMA TypedLater ==
    ASSUME Typed', screen' = screen
    PROVE  /\ screen' \in Screen /\ call' \in [Call -> GoodCall] /\ sheet' \in SheetState
           /\ db' \in List /\ rows' \in List /\ cards' \in List /\ more' \in List
           /\ mounted' \in BOOLEAN /\ loading' \in BOOLEAN /\ error' \in BOOLEAN
           /\ \A c \in Call : call'[c] \in CallState /\ Filed(call'[c]) /\ AsOffered(call'[c])
<1>1. List' = List /\ GoodCall' = GoodCall
  BY SameScreen
<1>2. QED
  BY <1>1 DEF Typed, TypeOK, GoodCall

-----------------------------------------------------------------------------
(* What a page has is old, never new.                                      *)

\* list was read from a server that has since come to hold held.
Behind(s, list, held) ==
    \A r \in Row : /\ list[r] # "absent" => held[r] # "absent"
                   /\ s = "saques" => Rank(list[r]) <= Rank(held[r])

Dates(held) ==
    /\ Behind(screen, rows, held) /\ Behind(screen, cards, held) /\ Behind(screen, more, held)
    /\ \A c \in Call, p \in Part : call[c].got[p] \in List => Behind(screen, call[c].got[p], held)
    /\ \A c \in Call : call[c].row \in Row => held[call[c].row] # "absent"
    /\ \A c \in Call :
          call[c].fn \in {"confirm", "paid", "cancel"} /\ call[c].answer = "none" =>
             Rank(call[c].shown) <= Rank(held[call[c].row])
    /\ sheet.row \in Row => held[sheet.row] # "absent"

Dated == Dates(db)

LEMMA RankOfList ==
    ASSUME screen = "saques", NEW list \in List, NEW r \in Row
    PROVE  Rank(list[r]) \in 0..3
  BY StatusOf, RankType DEF List, Fit

LEMMA BehindIs ==
    ASSUME Typed, NEW list \in List
    PROVE  Behind(screen, Empty, list) /\ Behind(screen, list, list)
  BY RankOfList, RankType DEF Behind, Empty

LEMMA BehindStays ==
    ASSUME Typed, Advances, db' \in List, NEW list \in List, Behind(screen, list, db)
    PROVE  Behind(screen, list, db')
<1>1. screen = "saques" => \A r \in Row : {Rank(list[r]), Rank(db[r]), Rank(db'[r])} \subseteq 0..3
  BY RankOfList, TypedIs
<1>2. QED
  BY <1>1 DEF Behind, Advances

LEMMA DatesStay ==
    ASSUME Typed, Dated, Advances, db' \in List
    PROVE  Dates(db')
<1>1. Behind(screen, rows, db') /\ Behind(screen, cards, db') /\ Behind(screen, more, db')
  BY BehindStays, TypedIs DEF Dated, Dates
<1>2. ASSUME NEW c \in Call, NEW p \in Part, call[c].got[p] \in List
      PROVE  Behind(screen, call[c].got[p], db')
  BY <1>2, BehindStays DEF Dated, Dates
<1>3. ASSUME NEW c \in Call, call[c].fn \in {"confirm", "paid", "cancel"}, call[c].answer = "none"
      PROVE  Rank(call[c].shown) <= Rank(db'[call[c].row])
  <2>1. screen = "saques" /\ call[c].row \in Row /\ call[c].shown \in {"pending", "processing"}
    BY <1>3, TypedIs DEF Filed, RowFn, AsOffered
  <2>2. Rank(call[c].shown) \in 0..3
    BY <2>1, RankType
  <2>3. Rank(db[call[c].row]) \in 0..3 /\ Rank(db'[call[c].row]) \in 0..3
    BY <2>1, RankOfList, TypedIs
  <2>4. Rank(call[c].shown) <= Rank(db[call[c].row])
    BY <1>3 DEF Dated, Dates
  <2>5. Rank(db[call[c].row]) <= Rank(db'[call[c].row])
    BY <2>1 DEF Advances
  <2>6. QED
    BY <2>2, <2>3, <2>4, <2>5
<1>4. /\ \A c \in Call : call[c].row \in Row => db'[call[c].row] # "absent"
      /\ sheet.row \in Row => db'[sheet.row] # "absent"
  BY DEF Dated, Dates, Advances
<1>5. QED
  BY <1>1, <1>2, <1>3, <1>4 DEF Dates

\* Nothing new comes with a call that is over, begins to read, or goes on as it was.
LEMMA DatesOfCalls ==
    ASSUME Typed, Typed', screen' = screen, NEW c \in Call, Others(c), Dates(db'),
           \/ call'[c].at # "act" /\ \A p \in Part : call'[c].got[p] = NotYet
           \/ /\ call'[c].row = call[c].row /\ call'[c].answer # "none"
              /\ \A p \in Part : call'[c].got[p] = call[c].got[p] \/ call'[c].got[p] \notin List
           \/ /\ call'[c].at # "act"
              /\ \A p \in Part : call'[c].got[p] \in List => Behind(screen, call'[c].got[p], db'),
           Behind(screen, rows', db'), Behind(screen, cards', db'), Behind(screen, more', db'),
           sheet'.row \in Row => db'[sheet'.row] # "absent"
    PROVE  Dated'
<1>1. List' = List
  BY SameScreen
<1>2. \A d \in Call \ {c} : Alike(call'[d], call[d])
  BY OthersAlike
<1>3. Filed(call'[c])
  BY TypedLater
<1>4. NotYet \notin List
  BY TypedIs, NoAnswerIsList
<1>5. ASSUME NEW p \in Part, call'[c].got[p] \in List PROVE Behind(screen, call'[c].got[p], db')
  BY <1>4, <1>5 DEF Dates
<1>6. call'[c].row \in Row => db'[call'[c].row] # "absent"
  BY <1>3 DEF Dates, Filed
<1>7. call'[c].fn \in {"confirm", "paid", "cancel"} => call'[c].answer # "none"
  BY <1>3 DEF Filed
<1>8. ASSUME NEW d \in Call, NEW p \in Part, call'[d].got[p] \in List
      PROVE  Behind(screen, call'[d].got[p], db')
  BY <1>2, <1>5, <1>8 DEF Dates, Alike
<1>9. ASSUME NEW d \in Call PROVE call'[d].row \in Row => db'[call'[d].row] # "absent"
  BY <1>2, <1>6 DEF Dates, Alike
<1>10. ASSUME NEW d \in Call, call'[d].fn \in {"confirm", "paid", "cancel"}, call'[d].answer = "none"
       PROVE  Rank(call'[d].shown) <= Rank(db'[call'[d].row])
  BY <1>2, <1>7, <1>10 DEF Dates, Alike
<1>11. QED
  BY <1>1, <1>8, <1>9, <1>10 DEF Dated, Dates
LEMMA InitDated == Init => Dated
<1> SUFFICES ASSUME Init PROVE Dated
  OBVIOUS
<1>1. Typed /\ NotYet \notin List
  BY InitTyped, TypedIs, NoAnswerIsList
<1>2. Behind(screen, Empty, db)
  BY <1>1, TypedIs, BehindIs
<1>3. \A c \in Call : call[c] = IdleCall
  BY DEF Init
<1>4. QED
  BY <1>1, <1>2, <1>3, IdleIs, NoSheetIs DEF Init, Dated, Dates

LEMMA HandlerDated ==
    ASSUME Typed, Typed', Dated, NEW c \in Call, HandlerStep(c), screen' = screen
    PROVE  Dated'
<1>1. Advances /\ db' \in List
  <2>1. CASE db' = db
    BY <2>1, SameRows
  <2>2. CASE \E new \in GoodCall : ServeStep(c, new)
    BY <2>2 DEF ServeStep
  <2>3. QED
    BY <2>1, <2>2 DEF HandlerStep, MountStep, ArriveStep, ReadArrives, FailStep, ReadFails, EndStep, ReloadStep,
                      GotStep, LostStep, ClickStep, server
<1>2. Dates(db')
  BY <1>1, DatesStay
<1>3. Behind(screen, rows, db') /\ Behind(screen, cards, db') /\ Behind(screen, more, db')
  BY <1>2 DEF Dates
<1>4. sheet.row \in Row => db'[sheet.row] # "absent"
  BY <1>2 DEF Dates
<1>5. sheet \in SheetState
  BY TypedIs
<1>6. CASE MountStep(c) \/ EndStep(c) \/ ReloadStep(c) \/ FailStep(c)
  <2>1. /\ Others(c) /\ call'[c].at # "act" /\ \A p \in Part : call'[c].got[p] = NotYet
        /\ rows' = rows /\ cards' = cards /\ more' = more
    BY <1>6, IdleIs, ReadIs DEF MountStep, EndStep, ReloadStep, FailStep, ReadFails, Put
  <2>2. sheet'.row \in {sheet.row, NoRow}
    <3>1. CASE EndStep(c)
      BY <1>5, <3>1 DEF EndStep, SheetState
    <3>2. CASE MountStep(c) \/ ReloadStep(c) \/ FailStep(c)
      BY <1>5, <3>2, FreshIs, NoSheetIs DEF MountStep, ReloadStep, FailStep, ReadFails
    <3>3. QED
      BY <1>6, <3>1, <3>2
  <2>3. QED
    BY <1>2, <1>3, <1>4, <2>1, <2>2, DatesOfCalls
<1>7. CASE ArriveStep(c)
  <2>1. /\ Others(c) /\ call'[c].at # "act" /\ \A p \in Part : call'[c].got[p] = NotYet
        /\ sheet' = sheet
    BY <1>7, IdleIs DEF ArriveStep, ReadArrives, Put
  <2>2. \A p \in Parts : Behind(screen, call[c].got[p], db')
    BY <1>2, <1>7, PartsIs, TypedIs DEF Dates, ArriveStep, ReadArrives, Filed
  <2>3. Behind(screen, rows', db') /\ Behind(screen, cards', db') /\ Behind(screen, more', db')
    BY <1>3, <1>7, <2>2, TypedIs, PartsIs DEF ArriveStep, ReadArrives
  <2>4. QED
    BY <1>2, <1>4, <2>1, <2>3, DatesOfCalls
<1>8. ASSUME NEW part \in Part, NEW answer \in List \cup {Lost}, GotStep(c, part, answer) PROVE Dated'
  <2>1. PICK new \in GoodCall :
           /\ Put(c, new) /\ new.at = "read" /\ new.got[part] = answer
           /\ \A p \in Part \ {part} : new.got[p] = call[c].got[p]
    BY <1>8 DEF GotStep, PutAnswer
  <2>2. answer \in List => Behind(screen, answer, db')
    <3>1. db' = db /\ Behind(screen, db, db) /\ Lost \notin List
      BY <1>8, TypedIs, BehindIs, NoAnswerIsList DEF GotStep, server
    <3>2. QED
      BY <1>8, <3>1 DEF GotStep, Behind
  <2>3. \A p \in Part : call'[c].got[p] \in List => Behind(screen, call'[c].got[p], db')
    BY <1>2, <2>1, <2>2 DEF Put, Dates
  <2>4. QED
    BY <1>2, <1>3, <1>4, <1>8, <2>1, <2>3, DatesOfCalls DEF Put, GotStep, page
<1>9. ASSUME NEW new \in GoodCall, ServeStep(c, new) \/ LostStep(c, new) PROVE Dated'
  <2>1. /\ Others(c) /\ call'[c].row = call[c].row /\ call'[c].answer # "none"
        /\ \A p \in Part : call'[c].got[p] = call[c].got[p]
        /\ rows' = rows /\ cards' = cards /\ more' = more /\ sheet' = sheet
    BY <1>9 DEF ServeStep, LostStep, Put, page
  <2>2. QED
    BY <1>2, <1>3, <1>4, <2>1, DatesOfCalls
<1>10. ASSUME NEW new \in GoodCall, ClickStep(c, new) PROVE Dated'
  <2>1. /\ call'[c] = new /\ \A d \in Call \ {c} : Alike(call'[d], call[d])
        /\ db' = db /\ rows' = rows /\ cards' = cards /\ more' = more
    BY <1>10, OthersAlike DEF ClickStep, Put, server
  <2>2. Filed(new) /\ new.at = "act" /\ (new.row \in Row => new.shown = rows[new.row])
    BY <1>10 DEF ClickStep, GoodCall
  <2>3. new.row \in Row => db[new.row] # "absent"
    BY <1>2, <1>3, <1>10, <2>1, <2>2 DEF ClickStep, Behind, Dates
  <2>4. new.fn \in {"confirm", "paid", "cancel"} => Rank(new.shown) <= Rank(db[new.row])
    BY <1>3, <2>1, <2>2 DEF Filed, RowFn, Behind
  <2>5. sheet'.row = sheet.row
    BY <1>5, <1>10 DEF ClickStep, SheetState
  <2>6. ASSUME NEW p \in Part, new.got[p] \in List PROVE Behind(screen, new.got[p], db)
    BY <2>6, <1>10, TypedIs, NoAnswerIsList DEF ClickStep
  <2>7. QED
    BY <1>2, <2>1, <2>3, <2>4, <2>5, <2>6, SameScreen DEF Dated, Dates, Alike
<1>11. QED
  BY <1>6, <1>7, <1>8, <1>9, <1>10, Zenon DEF HandlerStep

LEMMA NextDated ==
    ASSUME Typed, Typed', Dated, [Next]_vars
    PROVE  Dated'
<1>1. screen' = screen
  BY KindsKeepScreen
<1>2. List' = List /\ NotYet \notin List
  BY <1>1, SameScreen, TypedIs, NoAnswerIsList
<1>3. CASE Unmount
  <2>1. Behind(screen, Empty, db)
    BY TypedIs, BehindIs
  <2>2. \A c \in Call : call'[c] = IF Acting(c) THEN Dead(call[c]) ELSE IdleCall
    BY <1>3 DEF Unmount
  <2>3. ASSUME NEW c \in Call
        PROVE  \/ call'[c] = IdleCall
               \/ call'[c].got = call[c].got /\ call'[c].row = call[c].row /\ call'[c].fn = call[c].fn
                  /\ call'[c].answer = call[c].answer /\ call'[c].shown = call[c].shown
    <3>1. CASE Acting(c)
      BY <2>2, <3>1, TypedIs, DeadIs
    <3>2. CASE ~Acting(c)
      BY <2>2, <3>2
    <3>3. QED
      BY <3>1, <3>2
  <2>4. QED
    BY <1>1, <1>2, <1>3, <2>1, <2>3, IdleIs, NoSheetIs DEF Unmount, Dated, Dates, server
<1>4. CASE MoveStep
  BY <1>1, <1>2, <1>4, DatesStay DEF MoveStep, Dated, Dates, page
<1>5. CASE SheetStep
  <2>1. \A c \in Call : Alike(call'[c], call[c])
    BY <1>5, TypedIs, OrphanIs DEF SheetStep, Alike
  <2>2. sheet'.row \in Row => db[sheet'.row] # "absent"
    BY <1>5, NoSheetIs DEF SheetStep, Dated, Dates, Behind
  <2>3. QED
    BY <1>1, <1>2, <1>5, <2>1, <2>2 DEF SheetStep, Dated, Dates, Alike, server
<1>6. CASE \E r \in Row : KeyExpires(r)
  BY <1>1, <1>2, <1>6 DEF KeyExpires, Dated, Dates, page
<1>7. CASE UNCHANGED vars
  BY <1>1, <1>2, <1>7 DEF vars, server, page, Dated, Dates
<1>8. QED
  BY <1>1, <1>3, <1>4, <1>5, <1>6, <1>7, HandlerDated, StepKinds

-----------------------------------------------------------------------------
(* Who will clear a spinner, a button or a sheet.                          *)

Spinning == loading => \E c \in Call : Reading(c)

Waiting ==
    /\ busy = "__create__" => \E c \in Call : Acting(c) /\ call[c].live /\ call[c].fn = "create"
    /\ busy \in Row =>
          \E c \in Call : Acting(c) /\ call[c].live /\ call[c].row = busy /\ call[c].fn # "save"

Saving ==
    /\ sheet.saving <=> \E c \in Call : call[c].mine
    /\ \A c, d \in Call : call[c].mine /\ call[d].mine => c = d

Controls == mounted => Spinning /\ Waiting /\ Saving

\* A request or a reload that goes on.
Going(new, old) ==
    /\ new.at = old.at /\ new.fn = old.fn /\ new.row = old.row /\ new.live = old.live

LEMMA SpinningStays ==
    ASSUME Spinning, loading' = loading, NEW c \in Call,
           \A d \in Call \ {c} : Going(call'[d], call[d]),
           Going(call'[c], call[c]) \/ ~Reading(c)
    PROVE  Spinning'
  BY DEF Spinning, Going, Reading

LEMMA WaitingStays ==
    ASSUME Waiting, NEW c \in Call,
           \A d \in Call \ {c} : Going(call'[d], call[d]),
           busy' # NoRow =>
              /\ busy' = busy
              /\ Going(call'[c], call[c]) \/ ~call[c].live \/ ~Acting(c) \/ call[c].fn = "save"
    PROVE  Waiting'
<1>1. ASSUME busy' = "__create__" PROVE \E d \in Call : Acting(d)' /\ call'[d].live /\ call'[d].fn = "create"
  <2>1. busy' = busy
    BY <1>1
  <2>2. PICK d \in Call : Acting(d) /\ call[d].live /\ call[d].fn = "create"
    BY <1>1, <2>1 DEF Waiting
  <2>3. QED
    BY <1>1, <2>1, <2>2 DEF Going, Acting
<1>2. ASSUME busy' \in Row
      PROVE  \E d \in Call : Acting(d)' /\ call'[d].live /\ call'[d].row = busy' /\ call'[d].fn # "save"
  <2>1. busy' = busy
    BY <1>2
  <2>2. PICK d \in Call : Acting(d) /\ call[d].live /\ call[d].row = busy /\ call[d].fn # "save"
    BY <1>2, <2>1 DEF Waiting
  <2>3. QED
    BY <1>2, <2>1, <2>2 DEF Going, Acting
<1>3. QED
  BY <1>1, <1>2 DEF Waiting

\* The sheet stays as it is and so does its save, or neither saves any more.
LEMMA SavingStays ==
    ASSUME Saving, NEW c \in Call, Others(c), sheet' = sheet, ~call[c].mine, ~call'[c].mine
    PROVE  Saving'
  BY DEF Saving, Others, Alike

LEMMA SavingEnds ==
    ASSUME ~sheet'.saving, \A c \in Call : ~call'[c].mine
    PROVE  Saving'
  BY DEF Saving

LEMMA HandlerControls ==
    ASSUME Typed, Typed', Controls, NEW c \in Call, HandlerStep(c), screen' = screen
    PROVE  Controls'
<1>1. /\ sheet \in SheetState /\ Filed(call[c]) /\ busy \in Row \cup {NoRow, "__create__"}
      /\ \A d \in Call : Filed(call'[d])
  BY TypedIs, TypedLater DEF Typed, TypeOK
<1>2. SUFFICES ASSUME mounted' PROVE Spinning' /\ Waiting' /\ Saving'
  BY DEF Controls
<1>3. CASE MountStep(c)
  <2>1. loading /\ busy = NoRow /\ ~sheet.saving /\ \A d \in Call : ~call[d].live
    BY <1>3, NoSheetIs DEF MountStep, Typed, Closed
  <2>2. /\ call'[c] = ReadCall /\ \A d \in Call \ {c} : Alike(call'[d], call[d])
        /\ loading' = loading /\ busy' = busy /\ sheet' = sheet
    BY <1>3, OthersAlike DEF MountStep, Put
  <2>3. Spinning'
    BY <2>2, ReadIs DEF Spinning, Reading
  <2>4. Waiting'
    BY <2>1, <2>2 DEF Waiting
  <2>5. \A d \in Call : ~call'[d].mine
    BY <1>1, <2>1, <2>2, ReadIs DEF Alike, Filed
  <2>6. QED
    BY <2>1, <2>2, <2>3, <2>4, <2>5, SavingEnds
<1>4. ASSUME ~MountStep(c) PROVE mounted /\ Spinning /\ Waiting /\ Saving
  BY <1>2, <1>4 DEF HandlerStep, ArriveStep, ReadArrives, FailStep, ReadFails, EndStep, ReloadStep,
                    GotStep, ServeStep, LostStep, ClickStep, page, Controls
<1>5. CASE ArriveStep(c) \/ FailStep(c)
  <2>1. /\ Others(c) /\ call'[c] = IdleCall /\ \A d \in Call \ {c} : Going(call'[d], call[d])
        /\ ~loading' /\ busy' = busy /\ call[c].at = "read"
    BY <1>5, OthersAlike DEF ArriveStep, ReadArrives, FailStep, ReadFails, Put, Alike, Going, Reading
  <2>2. Spinning /\ Waiting /\ Saving
    BY <1>4, <1>5 DEF ArriveStep, ReadArrives, FailStep, ReadFails, MountStep, Reading
  <2>3. Spinning' /\ Waiting'
    BY <2>1, <2>2, WaitingStays DEF Spinning, Acting
  <2>4. Saving'
    <3>1. CASE ArriveStep(c)
      BY <1>1, <2>1, <2>2, <3>1, IdleIs, SavingStays DEF ArriveStep, ReadArrives, Filed
    <3>2. CASE FailStep(c)
      <4>1. ~sheet'.saving
        BY <1>1, <3>2, FreshIs DEF FailStep, ReadFails
      <4>2. \A d \in Call : ~call'[d].mine
        BY <2>1, <3>2, IdleIs, TypedIs, OrphanIs DEF FailStep, ReadFails
      <4>3. QED
        BY <4>1, <4>2, SavingEnds
    <3>3. QED
      BY <1>5, <3>1, <3>2
  <2>5. QED
    BY <2>3, <2>4
<1>6. CASE EndStep(c)
  <2>1. /\ Others(c) /\ call'[c] = IdleCall /\ \A d \in Call \ {c} : Going(call'[d], call[d])
        /\ loading' = loading /\ call[c].at = "act"
    BY <1>6, OthersAlike DEF EndStep, Put, Alike, Going, Acting
  <2>2. Spinning /\ Waiting /\ Saving
    BY <1>4, <1>6 DEF EndStep, MountStep, Acting
  <2>3. Spinning'
    BY <2>1, <2>2, SpinningStays DEF Reading
  <2>4. Waiting'
    BY <1>6, <2>1, <2>2, WaitingStays DEF EndStep
  <2>5. CASE ~call[c].mine
    <3>1. sheet' = sheet
      BY <1>6, <2>5 DEF EndStep
    <3>2. QED
      BY <2>1, <2>2, <2>3, <2>4, <2>5, <3>1, IdleIs, SavingStays
  <2>6. CASE call[c].mine
    <3>1. sheet' = [sheet EXCEPT !.saving = FALSE]
      BY <1>1, <1>6, <2>6 DEF EndStep, Filed
    <3>2. ~sheet'.saving
      BY <1>1, <3>1 DEF SheetState
    <3>3. \A d \in Call : ~call'[d].mine
      BY <2>1, <2>2, <2>6, IdleIs DEF Saving, Others, Alike
    <3>4. QED
      BY <2>3, <2>4, <3>2, <3>3, SavingEnds
  <2>7. QED
    BY <2>5, <2>6
<1>7. CASE ReloadStep(c)
  <2>1. /\ call'[c] = ReadCall /\ \A d \in Call \ {c} : Going(call'[d], call[d])
        /\ call[c].at = "act"
    BY <1>7, OthersAlike DEF ReloadStep, Put, Alike, Going, Acting
  <2>2. Waiting
    BY <1>4, <1>7 DEF ReloadStep, MountStep, Acting
  <2>3. Spinning'
    BY <2>1, ReadIs DEF Spinning, Reading
  <2>4. Waiting'
    BY <1>7, <2>1, <2>2, WaitingStays DEF ReloadStep
  <2>5. ~sheet'.saving
    BY <1>1, <1>7, FreshIs, NoSheetIs DEF ReloadStep
  <2>6. \A d \in Call : ~call'[d].mine
    BY <1>7, <2>1, ReadIs DEF ReloadStep
  <2>7. QED
    BY <2>3, <2>4, <2>5, <2>6, SavingEnds
<1>8. ASSUME NEW part \in Part, NEW answer \in List \cup {Lost}, GotStep(c, part, answer)
      PROVE  Spinning' /\ Waiting' /\ Saving'
  <2>1. PICK new \in GoodCall : Put(c, new) /\ new.at = "read" /\ new.live = call[c].live
    BY <1>8 DEF GotStep, PutAnswer
  <2>2. /\ Others(c) /\ call'[c] = new /\ sheet' = sheet /\ loading' = loading /\ busy' = busy
        /\ call[c].at = "read"
    BY <1>8, <2>1 DEF GotStep, Put, page, Reading
  <2>3. ~call[c].mine /\ ~call'[c].mine /\ Going(call'[c], call[c])
    BY <1>1, <2>1, <2>2 DEF Filed, Going
  <2>4. Spinning /\ Waiting /\ Saving
    BY <1>4, <2>2 DEF MountStep
  <2>5. \A d \in Call \ {c} : Going(call'[d], call[d])
    BY <2>2, OthersAlike DEF Alike, Going
  <2>6. Spinning' /\ Waiting'
    BY <2>2, <2>3, <2>4, <2>5, SpinningStays, WaitingStays
  <2>7. QED
    BY <2>2, <2>3, <2>4, <2>6, SavingStays
<1>9. ASSUME NEW new \in GoodCall, ServeStep(c, new) \/ LostStep(c, new)
      PROVE  Spinning' /\ Waiting' /\ Saving'
  <2>1. /\ Others(c) /\ call'[c] = new /\ Going(call'[c], call[c]) /\ new.mine = call[c].mine
        /\ sheet' = sheet /\ loading' = loading /\ busy' = busy /\ call[c].at = "act"
    BY <1>9 DEF ServeStep, LostStep, Put, Going, Acting, page
  <2>2. Spinning /\ Waiting /\ Saving
    BY <1>4, <2>1 DEF MountStep
  <2>3. \A d \in Call \ {c} : Going(call'[d], call[d])
    BY <2>1, OthersAlike DEF Alike, Going
  <2>4. Spinning' /\ Waiting'
    BY <2>1, <2>2, <2>3, SpinningStays, WaitingStays
  <2>5. Saving'
    BY <2>1, <2>2 DEF Saving, Others, Alike
  <2>6. QED
    BY <2>4, <2>5
<1>10. ASSUME NEW new \in GoodCall, ClickStep(c, new) PROVE Spinning' /\ Waiting' /\ Saving'
  <2>1. /\ Others(c) /\ call'[c] = new /\ \A d \in Call \ {c} : Going(call'[d], call[d])
        /\ loading' = loading /\ call[c].at = "idle" /\ new.at = "act" /\ new.live
    BY <1>10, OthersAlike DEF ClickStep, Put, Alike, Going
  <2>2. Spinning /\ Waiting /\ Saving
    BY <1>4, <1>10 DEF ClickStep, MountStep
  <2>3. Spinning'
    BY <2>1, <2>2, SpinningStays DEF Reading
  <2>4. CASE new.fn = "create" /\ busy' = "__create__" /\ sheet' = sheet /\ ~new.mine
    <3>1. Waiting'
      BY <2>1, <2>4 DEF Waiting, Acting
    <3>2. QED
      BY <1>1, <2>1, <2>2, <2>3, <2>4, <3>1, SavingStays DEF Filed
  <2>5. CASE new.fn \in RowFn \ {"save"} /\ busy' = new.row /\ sheet' = sheet /\ ~new.mine
    <3>1. new.row \in Row
      BY <1>1, <2>1, <2>5 DEF Filed
    <3>2. Waiting'
      BY <2>1, <2>5, <3>1 DEF Waiting, Acting, RowFn
    <3>3. QED
      BY <1>1, <2>1, <2>2, <2>3, <2>5, <3>2, SavingStays DEF Filed
  <2>6. CASE new.fn = "save" /\ busy' = busy /\ new.mine /\ ~sheet.saving /\ sheet' = [sheet EXCEPT !.saving = TRUE]
    <3>1. sheet'.saving
      BY <1>1, <2>6 DEF SheetState
    <3>2. \A d \in Call : ~call[d].mine
      BY <2>2, <2>6 DEF Saving
    <3>3. Waiting'
      BY <2>1, <2>2, <2>6, WaitingStays DEF Acting
    <3>4. Saving'
      BY <2>1, <2>6, <3>1, <3>2 DEF Saving, Others
    <3>5. QED
      BY <2>3, <3>3, <3>4
  <2>7. QED
    BY <1>10, <2>4, <2>5, <2>6 DEF ClickStep
<1>11. QED
  BY <1>3, <1>5, <1>6, <1>7, <1>8, <1>9, <1>10, Zenon DEF HandlerStep

LEMMA NextControls ==
    ASSUME Typed, Typed', Controls, [Next]_vars
    PROVE  Controls'
<1>1. screen' = screen
  BY KindsKeepScreen
<1>2. CASE Unmount
  BY <1>2 DEF Unmount, Controls
<1>3. CASE MoveStep \/ (\E r \in Row : KeyExpires(r)) \/ UNCHANGED vars
  <2>1. UNCHANGED <<mounted, loading, busy, sheet, call>>
    BY <1>3 DEF MoveStep, KeyExpires, vars, page
  <2>2. QED
    BY <2>1 DEF Controls, Spinning, Waiting, Saving, Reading, Acting
<1>4. CASE SheetStep
  <2>1. mounted /\ Spinning /\ Waiting /\ Saving /\ loading' = loading /\ busy' = busy
    BY <1>4 DEF SheetStep, Controls
  <2>2. \A c \in Call : Going(call'[c], call[c])
    BY <1>4, TypedIs, OrphanIs DEF SheetStep, Alike, Going
  <2>3. Spinning'
    BY <2>1, <2>2 DEF Spinning, Going, Reading
  <2>4. Waiting'
    <3>1. CASE \E c \in Call : TRUE
      <4>1. PICK c \in Call : TRUE
        BY <3>1
      <4>2. QED
        BY <2>1, <2>2, <4>1, WaitingStays
    <3>2. CASE Call = {}
      BY <2>1, <3>2 DEF Waiting
    <3>3. QED
      BY <3>1, <3>2
  <2>5. CASE call' = call /\ sheet'.saving = sheet.saving
    BY <2>1, <2>3, <2>4, <2>5 DEF Controls, Saving
  <2>6. CASE sheet' = NoSheet /\ call' = [c \in Call |-> Orphan(call[c])]
    <3>1. \A c \in Call : ~call'[c].mine
      BY <2>6, TypedIs, OrphanIs
    <3>2. QED
      BY <2>3, <2>4, <2>6, <3>1, NoSheetIs, SavingEnds DEF Controls
  <2>7. QED
    BY <1>4, <2>5, <2>6 DEF SheetStep
<1>5. QED
  BY <1>1, <1>2, <1>3, <1>4, HandlerControls, StepKinds

-----------------------------------------------------------------------------
(* Answers in the order of their requests.                                 *)

Ordered ==
    /\ \A c, d \in Call : Reading(c) /\ Reading(d) => c = d
    /\ \A c \in Call : Reading(c) /\ call[c].got["rows"] \in List => Behind(screen, rows, call[c].got["rows"])
Order == screen = "saques" /\ mounted /\ "overlap" \notin blemish => Ordered

LEMMA HandlerOrder ==
    ASSUME Typed, Typed', Dated, Order, NEW c \in Call, HandlerStep(c), screen' = screen
    PROVE  Order'
<1>1. SUFFICES ASSUME screen = "saques", mounted', "overlap" \notin blemish'
               PROVE  Ordered'
  BY DEF Order
<1>2. List' = List /\ NotYet \notin List /\ Lost \notin List
  BY SameScreen, TypedIs, NoAnswerIsList
<1>3. ASSUME ~Reading(c)', \A e \in Call \ {c} : Alike(call'[e], call[e]), rows' = rows, Ordered
      PROVE  Ordered'
  BY <1>2, <1>3 DEF Ordered, Alike, Reading
<1>4. ASSUME \A d \in Call \ {c} : ~Reading(d), \A d \in Call \ {c} : Alike(call'[d], call[d]),
             Reading(c)' /\ call'[c].got["rows"] \in List => Behind(screen, rows', call'[c].got["rows"])
      PROVE  Ordered'
  BY <1>2, <1>4 DEF Ordered, Alike, Reading
<1>5. ASSUME ~MountStep(c) PROVE mounted /\ Ordered
  BY <1>1, <1>5 DEF HandlerStep, ArriveStep, ReadArrives, FailStep, ReadFails, EndStep, ReloadStep,
                    GotStep, ServeStep, LostStep, ClickStep, page, Order
<1>6. CASE MountStep(c)
  <2>1. \A d \in Call : ~Reading(d)
    BY <1>6 DEF MountStep, Typed, Closed
  <2>2. call'[c] = ReadCall /\ \A d \in Call \ {c} : Alike(call'[d], call[d])
    BY <1>6, OthersAlike DEF MountStep, Put
  <2>3. QED
    BY <1>2, <1>4, <2>1, <2>2, ReadIs DEF Part
<1>7. CASE ArriveStep(c) \/ FailStep(c)
  <2>1. /\ Reading(c) /\ call'[c] = IdleCall /\ \A d \in Call \ {c} : Alike(call'[d], call[d])
    BY <1>7, OthersAlike DEF ArriveStep, ReadArrives, FailStep, ReadFails, Put
  <2>2. Ordered
    BY <1>5, <2>1 DEF MountStep, Reading
  <2>3. QED
    BY <1>4, <2>1, <2>2, IdleIs DEF Ordered, Reading
<1>8. CASE EndStep(c)
  <2>1. /\ call'[c] = IdleCall /\ \A d \in Call \ {c} : Alike(call'[d], call[d])
        /\ rows' = rows /\ Acting(c)
    BY <1>8, OthersAlike DEF EndStep, Put
  <2>2. Ordered
    BY <1>5, <2>1 DEF MountStep, Acting
  <2>3. QED
    BY <1>3, <2>1, <2>2, IdleIs DEF Reading
<1>9. CASE ReloadStep(c)
  <2>1. /\ call'[c] = ReadCall /\ \A d \in Call \ {c} : Alike(call'[d], call[d])
        /\ \A d \in Call \ {c} : ~Reading(d)
    BY <1>1, <1>9, OthersAlike DEF ReloadStep, Put
  <2>2. QED
    BY <1>2, <1>4, <2>1, ReadIs DEF Part
<1>10. ASSUME NEW part \in Part, NEW answer \in List \cup {Lost}, GotStep(c, part, answer) PROVE Ordered'
  <2>1. PICK new \in GoodCall :
           /\ Put(c, new) /\ new.at = "read" /\ new.got[part] = answer
           /\ \A p \in Part \ {part} : new.got[p] = call[c].got[p]
    BY <1>10 DEF GotStep, PutAnswer
  <2>2. /\ Reading(c) /\ call'[c] = new /\ \A d \in Call \ {c} : Alike(call'[d], call[d])
        /\ rows' = rows /\ (answer = Lost \/ answer = db)
    BY <1>1, <1>10, <2>1, OthersAlike DEF GotStep, Put, page
  <2>3. Ordered
    BY <1>5, <2>2 DEF MountStep, Reading
  <2>4. Behind(screen, rows, db)
    BY DEF Dated, Dates
  <2>5. new.got["rows"] \in List => Behind(screen, rows, new.got["rows"])
    BY <1>2, <2>1, <2>2, <2>3, <2>4 DEF Ordered, Part
  <2>6. QED
    BY <1>4, <2>2, <2>3, <2>5 DEF Ordered
<1>11. ASSUME NEW new \in GoodCall, ServeStep(c, new) \/ LostStep(c, new) \/ ClickStep(c, new) PROVE Ordered'
  <2>1. /\ ~Reading(c)' /\ \A d \in Call \ {c} : Alike(call'[d], call[d])
        /\ rows' = rows /\ (call[c].at = "act" \/ mounted)
    BY <1>11, OthersAlike DEF ServeStep, LostStep, ClickStep, Put, page, Acting, Reading
  <2>2. Ordered
    BY <1>5, <2>1 DEF MountStep
  <2>3. QED
    BY <1>3, <2>1, <2>2
<1>12. QED
  BY <1>6, <1>7, <1>8, <1>9, <1>10, <1>11, Zenon DEF HandlerStep

LEMMA NextOrder ==
    ASSUME Typed, Typed', Dated, Order, [Next]_vars
    PROVE  Order'
<1>1. screen' = screen
  BY KindsKeepScreen
<1>2. CASE Unmount
  BY <1>2 DEF Unmount, Order
<1>3. CASE MoveStep \/ SheetStep \/ (\E r \in Row : KeyExpires(r)) \/ UNCHANGED vars
  <2>1. /\ mounted' = mounted /\ rows' = rows /\ blemish \subseteq blemish'
        /\ \A c \in Call : call'[c].at = call[c].at /\ call'[c].got = call[c].got
    <3>1. CASE SheetStep
      BY <3>1, TypedIs, OrphanIs DEF SheetStep, Alike
    <3>2. CASE MoveStep \/ (\E r \in Row : KeyExpires(r)) \/ UNCHANGED vars
      BY <3>2 DEF MoveStep, KeyExpires, vars, page
    <3>3. QED
      BY <1>3, <3>1, <3>2
  <2>2. QED
    BY <1>1, <2>1, SameScreen DEF Order, Ordered, Reading
<1>4. QED
  BY <1>1, <1>2, <1>3, HandlerOrder, StepKinds

-----------------------------------------------------------------------------
(* A page nobody has disturbed: it will reload, it reloads, or it is true. *)

Accepted(c) == Acting(c) /\ call[c].live /\ call[c].answer = "ok"
Reloads(c) ==
    /\ loading /\ Reading(c) /\ \A d \in Call : Reading(d) => d = c
    /\ \A p \in Parts : call[c].got[p] \in {NotYet, Lost, db}
Truth ==
    /\ \A c \in Call : ~Reading(c)
    /\ rows = db
    /\ "cards" \in Parts => cards = db
    /\ "more" \in Parts => more = db

Settling == (\E c \in Call : Accepted(c) \/ Reloads(c)) \/ Truth
Quiet == mounted /\ blemish = {} => Settling

\* The rows and the lists are the same, and each call reads what it has read.
LEMMA SettlingStays ==
    ASSUME Settling, screen' = screen, UNCHANGED <<db, rows, cards, more, loading>>, NEW c \in Call,
           \A d \in Call \ {c} : Alike(call'[d], call[d]),
           ~Reading(c)', ~Reading(c), ~Accepted(c) \/ Accepted(c)'
    PROVE  Settling'
<1>1. Parts' = Parts
  BY SameScreen
<1>2. CASE Truth
  BY <1>1, <1>2 DEF Settling, Truth, Alike, Reading
<1>3. CASE \E d \in Call : Accepted(d)
  BY <1>3 DEF Settling, Accepted, Alike, Acting
<1>4. CASE \E d \in Call : Reloads(d)
  <2>1. PICK d \in Call : Reloads(d)
    BY <1>4
  <2>2. d # c
    BY <2>1 DEF Reloads
  <2>3. Reloads(d)'
    BY <1>1, <2>1, <2>2 DEF Reloads, Alike, Reading
  <2>4. QED
    BY <2>3 DEF Settling
<1>5. QED
  BY <1>2, <1>3, <1>4 DEF Settling

LEMMA HandlerQuiet ==
    ASSUME Typed, Typed', Quiet, NEW c \in Call, HandlerStep(c), screen' = screen
    PROVE  Quiet'
<1>1. SUFFICES ASSUME mounted', blemish' = {} PROVE Settling'
  BY DEF Quiet
<1>2. Parts' = Parts /\ Parts \subseteq Part /\ "rows" \in Parts
  BY SameScreen, TypedIs, PartsIs
<1>3. ASSUME ~MountStep(c), blemish \subseteq blemish' PROVE mounted /\ Settling
  BY <1>1, <1>3 DEF HandlerStep, ArriveStep, ReadArrives, FailStep, ReadFails, EndStep, ReloadStep,
                    GotStep, ServeStep, LostStep, ClickStep, page, Quiet
<1>4. CASE MountStep(c)
  <2>1. loading /\ \A d \in Call : ~Reading(d)
    BY <1>4 DEF MountStep, Typed, Closed
  <2>2. /\ call'[c] = ReadCall /\ loading' = loading
        /\ \A d \in Call \ {c} : Alike(call'[d], call[d])
    BY <1>4, OthersAlike DEF MountStep, Put
  <2>3. Reloads(c)'
    BY <1>2, <2>1, <2>2, ReadIs DEF Reloads, Alike, Reading
  <2>4. QED
    BY <2>3 DEF Settling
<1>5. CASE ArriveStep(c)
  <2>1. /\ Reading(c) /\ call'[c] = IdleCall /\ \A d \in Call \ {c} : Alike(call'[d], call[d])
        /\ \A p \in Parts : call[c].got[p] \notin {NotYet, Lost}
        /\ blemish' = blemish /\ db' = db
    BY <1>5, OthersAlike DEF ArriveStep, ReadArrives, Put, server
  <2>2. Settling
    BY <1>3, <2>1 DEF MountStep, Reading
  <2>3. CASE \E d \in Call : Accepted(d)
    <3>1. PICK d \in Call : Accepted(d)
      BY <2>3
    <3>2. Accepted(d)'
      BY <2>1, <3>1 DEF Accepted, Alike, Acting, Reading
    <3>3. QED
      BY <3>2 DEF Settling
  <2>4. CASE Reloads(c)
    <3>1. \A p \in Parts : call[c].got[p] = db
      BY <2>1, <2>4 DEF Reloads
    <3>2. Truth'
      BY <1>2, <1>5, <2>1, <2>4, <3>1, IdleIs DEF Reloads, Truth, Reading, Alike, ArriveStep, ReadArrives
    <3>3. QED
      BY <3>2 DEF Settling
  <2>5. ~Truth /\ \A d \in Call \ {c} : ~Reloads(d)
    BY <2>1 DEF Truth, Reloads
  <2>6. QED
    BY <2>2, <2>3, <2>4, <2>5 DEF Settling
<1>6. CASE FailStep(c)
  BY <1>1, <1>6 DEF FailStep, ReadFails
<1>7. CASE EndStep(c)
  <2>1. /\ call'[c] = IdleCall /\ \A d \in Call \ {c} : Alike(call'[d], call[d])
        /\ UNCHANGED <<db, rows, cards, more, loading, blemish>> /\ Acting(c) /\ ~Accepted(c)
    BY <1>7, OthersAlike DEF EndStep, Put, server, Accepted
  <2>2. Settling
    BY <1>3, <2>1 DEF MountStep, Acting
  <2>3. QED
    BY <2>1, <2>2, IdleIs, SettlingStays DEF Reading, Acting
<1>8. CASE ReloadStep(c)
  <2>1. /\ call'[c] = ReadCall /\ \A d \in Call \ {c} : Alike(call'[d], call[d]) /\ ~Reading(d)
        /\ loading'
    BY <1>1, <1>8, OthersAlike DEF ReloadStep, Put
  <2>2. Reloads(c)'
    BY <1>2, <2>1, ReadIs DEF Reloads, Alike, Reading
  <2>3. QED
    BY <2>2 DEF Settling
<1>9. ASSUME NEW part \in Part, NEW answer \in List \cup {Lost}, GotStep(c, part, answer) PROVE Settling'
  <2>1. PICK new \in GoodCall :
           /\ Put(c, new) /\ new.at = "read" /\ new.got[part] = answer
           /\ \A p \in Part \ {part} : new.got[p] = call[c].got[p]
    BY <1>9 DEF GotStep, PutAnswer
  <2>2. /\ Reading(c) /\ call'[c] = new /\ \A d \in Call \ {c} : Alike(call'[d], call[d])
        /\ loading' = loading /\ db' = db /\ (answer = Lost \/ answer = db) /\ blemish' = blemish
    BY <1>1, <1>9, <2>1, OthersAlike DEF GotStep, Put, page, server
  <2>3. Settling
    BY <1>3, <2>2 DEF MountStep, Reading
  <2>4. CASE \E d \in Call : Accepted(d)
    <3>1. PICK d \in Call : Accepted(d)
      BY <2>4
    <3>2. Accepted(d)'
      BY <2>2, <3>1 DEF Accepted, Alike, Acting, Reading
    <3>3. QED
      BY <3>2 DEF Settling
  <2>5. CASE Reloads(c)
    <3>1. \A p \in Part : p \in Parts => new.got[p] \in {NotYet, Lost, db}
      BY <2>1, <2>2, <2>5 DEF Reloads
    <3>2. Reloads(c)'
      BY <1>2, <2>1, <2>2, <2>5, <3>1 DEF Reloads, Alike, Reading
    <3>3. QED
      BY <3>2 DEF Settling
  <2>6. ~Truth /\ \A d \in Call \ {c} : ~Reloads(d)
    BY <2>2 DEF Truth, Reloads
  <2>7. QED
    BY <2>3, <2>4, <2>5, <2>6 DEF Settling
<1>10. ASSUME NEW new \in GoodCall, ServeStep(c, new) PROVE Settling'
  <2>1. /\ call'[c] = new /\ \A d \in Call \ {c} : Alike(call'[d], call[d])
        /\ UNCHANGED <<rows, cards, more, loading, blemish>> /\ Acting(c) /\ ~Accepted(c)
        /\ new.at = "act" /\ call[c].live /\ new.live = call[c].live
    BY <1>1, <1>10, OthersAlike DEF ServeStep, Put, page, Accepted
  <2>2. Settling
    BY <1>3, <2>1 DEF MountStep, Acting
  <2>3. CASE new.answer = "ok"
    BY <2>1, <2>3 DEF Settling, Accepted, Acting
  <2>4. CASE db' = db
    BY <2>1, <2>2, <2>4, SettlingStays DEF Reading, Acting
  <2>5. QED
    BY <1>10, <2>3, <2>4 DEF ServeStep
<1>11. ASSUME NEW new \in GoodCall, LostStep(c, new) PROVE Settling'
  <2>1. /\ call'[c] = new /\ \A d \in Call \ {c} : Alike(call'[d], call[d])
        /\ UNCHANGED <<db, rows, cards, more, loading, blemish>> /\ Acting(c) /\ ~call[c].live
        /\ new.at = "act"
    BY <1>1, <1>11, OthersAlike DEF LostStep, Put, page, server
  <2>2. Settling
    BY <1>3, <2>1 DEF MountStep, Acting
  <2>3. QED
    BY <2>1, <2>2, SettlingStays DEF Reading, Acting, Accepted
<1>12. ASSUME NEW new \in GoodCall, ClickStep(c, new) PROVE Settling'
  <2>1. /\ call'[c] = new /\ \A d \in Call \ {c} : Alike(call'[d], call[d])
        /\ UNCHANGED <<db, rows, cards, more, loading, blemish>> /\ call[c].at = "idle"
        /\ new.at = "act" /\ mounted
    BY <1>12, OthersAlike DEF ClickStep, Put, server
  <2>2. Settling
    BY <1>1, <2>1 DEF Quiet
  <2>3. QED
    BY <2>1, <2>2, SettlingStays DEF Reading, Acting, Accepted
<1>13. QED
  BY <1>4, <1>5, <1>6, <1>7, <1>8, <1>9, <1>10, <1>11, <1>12, Zenon DEF HandlerStep

LEMMA NextQuiet ==
    ASSUME Typed, Typed', Quiet, [Next]_vars
    PROVE  Quiet'
<1>1. screen' = screen /\ Parts' = Parts
  BY KindsKeepScreen, SameScreen
<1>2. CASE Unmount \/ MoveStep
  BY <1>2 DEF Unmount, MoveStep, Quiet
<1>3. CASE SheetStep \/ (\E r \in Row : KeyExpires(r)) \/ UNCHANGED vars
  <2>1. /\ UNCHANGED <<mounted, db, rows, cards, more, loading, blemish>>
        /\ \A c \in Call : /\ call'[c].at = call[c].at /\ call'[c].got = call[c].got
                           /\ call'[c].live = call[c].live /\ call'[c].answer = call[c].answer
    <3>1. CASE SheetStep
      BY <3>1, TypedIs, OrphanIs DEF SheetStep, Alike, server
    <3>2. CASE (\E r \in Row : KeyExpires(r)) \/ UNCHANGED vars
      BY <3>2 DEF KeyExpires, vars, page, server
    <3>3. QED
      BY <1>3, <3>1, <3>2
  <2>2. QED
    BY <1>1, <2>1 DEF Quiet, Settling, Accepted, Reloads, Truth, Reading, Acting
<1>4. QED
  BY <1>1, <1>2, <1>3, HandlerQuiet, StepKinds

-----------------------------------------------------------------------------
(* A list is empty only when nothing is there.                             *)

\* What the page has was answered truly, and only the page has changed rows since.
Honest ==
    /\ screen # "saques" /\ "elsewhere" \notin blemish
    /\ screen = "overview" => "swallowed" \notin blemish

Told ==
    /\ \A c \in Call : Reading(c) => \A p \in Parts : call[c].got[p] = Empty => db = Empty
    /\ ~loading /\ ~error =>
          /\ rows = Empty => db = Empty
          /\ "more" \in Parts => (more = Empty => db = Empty)
Nothing == mounted /\ Honest => Told

LEMMA ToldStays ==
    ASSUME Told, screen' = screen, UNCHANGED <<db, rows, more, error>>, ~loading' => ~loading, NEW c \in Call,
           \A d \in Call \ {c} : Alike(call'[d], call[d]),
           Reading(c)' => \A p \in Parts : call'[c].got[p] = Empty => db = Empty
    PROVE  Told'
<1>1. Parts' = Parts /\ Empty' = Empty
  BY SameScreen DEF Empty
<1>2. QED
  BY <1>1 DEF Told, Alike, Reading

\* Outside /saques, a request only changes the status of a row that is there.
LEMMA EmptyStays ==
    ASSUME Typed, Typed', Dated, NEW c \in Call, NEW new \in GoodCall, ServeStep(c, new), screen # "saques",
           db = Empty
    PROVE  db' = db
<1>1. db \in List /\ db' \in List
  BY TypedIs DEF ServeStep
<1>2. call[c].row \notin Row
  BY DEF Dated, Dates, Empty
<1>3. \A r \in Row : db'[r] = db[r]
  BY <1>2 DEF ServeStep
<1>4. QED
  BY <1>1, <1>3 DEF List

LEMMA HandlerNothing ==
    ASSUME Typed, Typed', Dated, Nothing, NEW c \in Call, HandlerStep(c), screen' = screen
    PROVE  Nothing'
<1>1. SUFFICES ASSUME mounted', Honest' PROVE Told'
  BY DEF Nothing
<1>2. Parts' = Parts /\ Parts \subseteq Part /\ "rows" \in Parts /\ Empty' = Empty
  BY SameScreen, TypedIs, PartsIs DEF Empty
<1>3. NotYet # Empty /\ Lost # Empty
  BY TypedIs, FitIsAny, NoAnswerIsList
<1>4. ASSUME ~MountStep(c), blemish \subseteq blemish' PROVE mounted /\ Told
  BY <1>1, <1>4 DEF HandlerStep, ArriveStep, ReadArrives, FailStep, ReadFails, EndStep, ReloadStep,
                    GotStep, ServeStep, LostStep, ClickStep, page, Nothing, Honest
<1>5. CASE MountStep(c)
  <2>1. loading /\ \A d \in Call : ~Reading(d)
    BY <1>5 DEF MountStep, Typed, Closed
  <2>2. /\ call'[c] = ReadCall /\ loading' = loading
        /\ \A d \in Call \ {c} : Alike(call'[d], call[d])
    BY <1>5, OthersAlike DEF MountStep, Put
  <2>3. QED
    BY <1>2, <1>3, <2>1, <2>2, ReadIs DEF Told, Alike, Reading
<1>6. CASE ArriveStep(c)
  <2>1. /\ Reading(c) /\ call'[c] = IdleCall /\ \A d \in Call \ {c} : Alike(call'[d], call[d])
        /\ blemish' = blemish /\ db' = db
    BY <1>6, OthersAlike DEF ArriveStep, ReadArrives, Put, server
  <2>2. Told
    BY <1>4, <2>1 DEF MountStep, Reading
  <2>3. /\ rows' = call[c].got["rows"] /\ ("more" \in Parts => more' = call[c].got["more"])
    BY <1>6 DEF ArriveStep, ReadArrives
  <2>4. QED
    BY <1>2, <2>1, <2>2, <2>3, IdleIs DEF Told, Alike, Reading
<1>7. CASE FailStep(c)
  <2>1. /\ Reading(c) /\ call'[c] = IdleCall /\ \A d \in Call \ {c} : Alike(call'[d], call[d])
        /\ blemish \subseteq blemish' /\ db' = db /\ error'
    BY <1>7, OthersAlike DEF FailStep, ReadFails, Put, server
  <2>2. Told
    BY <1>4, <2>1 DEF MountStep, Reading
  <2>3. QED
    BY <1>2, <2>1, <2>2, IdleIs DEF Told, Alike, Reading
<1>8. CASE EndStep(c)
  <2>1. /\ call'[c] = IdleCall /\ \A d \in Call \ {c} : Alike(call'[d], call[d])
        /\ UNCHANGED <<db, rows, more, loading, error, blemish>> /\ Acting(c)
    BY <1>8, OthersAlike DEF EndStep, Put, server
  <2>2. Told
    BY <1>4, <2>1 DEF MountStep, Acting
  <2>3. QED
    BY <2>1, <2>2, IdleIs, ToldStays DEF Reading
<1>9. CASE ReloadStep(c)
  <2>1. /\ call'[c] = ReadCall /\ \A d \in Call \ {c} : Alike(call'[d], call[d])
        /\ loading' /\ UNCHANGED <<db, rows, more, error>> /\ Acting(c) /\ blemish \subseteq blemish'
    BY <1>9, OthersAlike DEF ReloadStep, Put, server
  <2>2. Told
    BY <1>4, <2>1 DEF MountStep, Acting
  <2>3. QED
    BY <1>2, <1>3, <2>1, <2>2, ReadIs, ToldStays
<1>10. ASSUME NEW part \in Part, NEW answer \in List \cup {Lost}, GotStep(c, part, answer) PROVE Told'
  <2>1. PICK new \in GoodCall :
           /\ Put(c, new) /\ new.at = "read" /\ new.got[part] = answer
           /\ \A p \in Part \ {part} : new.got[p] = call[c].got[p]
    BY <1>10 DEF GotStep, PutAnswer
  <2>2. /\ Reading(c) /\ call'[c] = new /\ \A d \in Call \ {c} : Alike(call'[d], call[d])
        /\ UNCHANGED <<db, rows, more, error, loading>> /\ blemish \subseteq blemish'
    BY <1>10, <2>1, OthersAlike DEF GotStep, Put, page, server
  <2>3. Told
    BY <1>4, <2>2 DEF MountStep, Reading
  <2>4. answer = Empty => db = Empty
    <3>1. CASE answer = Lost \/ answer = db
      BY <1>3, <3>1
    <3>2. CASE /\ screen = "overview" \/ \E r \in Row : answer[r] # "absent"
               /\ blemish' = blemish \cup {"swallowed"}
      BY <1>1, <3>2, screen' = screen DEF Honest, Empty
    <3>3. QED
      BY <1>10, <3>1, <3>2 DEF GotStep
  <2>5. \A p \in Part : p \in Parts /\ new.got[p] = Empty => db = Empty
    BY <2>1, <2>2, <2>3, <2>4 DEF Told
  <2>6. QED
    BY <1>2, <2>2, <2>3, <2>5, ToldStays
<1>11. ASSUME NEW new \in GoodCall, ServeStep(c, new) PROVE Told'
  <2>1. /\ call'[c] = new /\ \A d \in Call \ {c} : Alike(call'[d], call[d])
        /\ UNCHANGED <<rows, more, loading, error>> /\ Acting(c) /\ blemish \subseteq blemish'
        /\ new.at = "act"
    BY <1>11, OthersAlike DEF ServeStep, Put, page
  <2>2. Told
    BY <1>4, <2>1 DEF MountStep, Acting
  <2>3. db = Empty => db' = Empty
    BY <1>1, <1>11, EmptyStays, screen' = screen DEF Honest
  <2>4. QED
    BY <1>2, <2>1, <2>2, <2>3 DEF Told, Alike, Reading, Acting
<1>12. ASSUME NEW new \in GoodCall, LostStep(c, new) \/ ClickStep(c, new) PROVE Told'
  <2>1. /\ call'[c] = new /\ \A d \in Call \ {c} : Alike(call'[d], call[d])
        /\ UNCHANGED <<db, rows, more, loading, error>> /\ blemish \subseteq blemish'
        /\ new.at = "act" /\ (call[c].at = "act" \/ mounted)
    BY <1>12, OthersAlike DEF LostStep, ClickStep, Put, page, server, Acting
  <2>2. Told
    BY <1>4, <2>1 DEF MountStep
  <2>3. QED
    BY <2>1, <2>2, ToldStays DEF Reading
<1>13. QED
  BY <1>5, <1>6, <1>7, <1>8, <1>9, <1>10, <1>11, <1>12, Zenon DEF HandlerStep

LEMMA NextNothing ==
    ASSUME Typed, Typed', Dated, Nothing, [Next]_vars
    PROVE  Nothing'
<1>1. screen' = screen /\ Parts' = Parts /\ Empty' = Empty
  BY KindsKeepScreen, SameScreen DEF Empty
<1>2. CASE Unmount \/ MoveStep
  BY <1>2 DEF Unmount, MoveStep, Nothing, Honest
<1>3. CASE SheetStep \/ (\E r \in Row : KeyExpires(r)) \/ UNCHANGED vars
  <2>1. /\ UNCHANGED <<mounted, db, rows, more, loading, error, blemish>>
        /\ \A c \in Call : call'[c].at = call[c].at /\ call'[c].got = call[c].got
    <3>1. CASE SheetStep
      BY <3>1, TypedIs, OrphanIs DEF SheetStep, Alike, server
    <3>2. CASE (\E r \in Row : KeyExpires(r)) \/ UNCHANGED vars
      BY <3>2 DEF KeyExpires, vars, page, server
    <3>3. QED
      BY <1>3, <3>1, <3>2
  <2>2. QED
    BY <1>1, <2>1 DEF Nothing, Honest, Told, Reading
<1>4. QED
  BY <1>1, <1>2, <1>3, HandlerNothing, StepKinds

-----------------------------------------------------------------------------
(* The inductive invariant, and what follows from it.                      *)

Invariant == Typed /\ Dated /\ Controls /\ Order /\ Quiet /\ Nothing

LEMMA InitInvariant == Init => Invariant
<1>1. Init => ~mounted
  BY DEF Init
<1>2. QED
  BY <1>1, InitTyped, InitDated DEF Invariant, Controls, Order, Quiet, Nothing

LEMMA NextInvariant == Invariant /\ [Next]_vars => Invariant'
<1> SUFFICES ASSUME Invariant, [Next]_vars PROVE Invariant'
  OBVIOUS
<1>1. Typed'
  BY NextTyped DEF Invariant
<1>2. Dated' /\ Controls' /\ Order' /\ Quiet' /\ Nothing'
  BY <1>1, NextDated, NextControls, NextOrder, NextQuiet, NextNothing DEF Invariant
<1>3. QED
  BY <1>1, <1>2 DEF Invariant

LEMMA Inductive == Spec => []Invariant
BY InitInvariant, NextInvariant, PTL DEF Spec

\* Every variable of a tab keeps the range Dashboard declares for it.
THEOREM TypeCorrect == Spec => []TypeOK
<1>1. Invariant => TypeOK
  BY DEF Invariant, Typed
<1>2. QED
  BY <1>1, Inductive, PTL

\* The table of /saques (SaquesPage) shows no payout further than the server has it.
THEOREM TableIsNeverAhead == Spec => []NeverAhead
<1>1. Invariant => NeverAhead
  BY DEF Invariant, Dated, Dates, Behind, NeverAhead
<1>2. QED
  BY <1>1, Inductive, PTL

\* That table goes back to an earlier status of a payout only after two reloads of one
\* visit were under way at once (the answers of ReadArrives are not told apart).
THEOREM BackIsOverlap == Spec => BackOnlyOnOverlap
<1> DEFINE Step == screen = "saques" /\ mounted /\ mounted' =>
                      \/ \A r \in Row : Rank(rows'[r]) >= Rank(rows[r])
                      \/ "overlap" \in blemish
<1>1. ASSUME Invariant, [Next]_vars PROVE Step
  <2>1. SUFFICES ASSUME screen = "saques", mounted, mounted', "overlap" \notin blemish
                 PROVE  \A r \in Row : Rank(rows'[r]) >= Rank(rows[r])
    OBVIOUS
  <2>2. Typed /\ Typed' /\ Ordered /\ screen' = screen
    BY <1>1, <2>1, NextInvariant, KindsKeepScreen DEF Invariant, Order
  <2>3. \A r \in Row : Rank(rows[r]) \in 0..3 /\ Rank(rows'[r]) \in 0..3
    BY <2>1, <2>2, RankOfList, TypedIs, TypedLater
  <2>4. CASE \E c \in Call : ArriveStep(c)
    <3>1. PICK c \in Call : ArriveStep(c)
      BY <2>4
    <3>2. rows' = call[c].got["rows"] /\ call[c].got["rows"] \in List /\ Reading(c)
      BY <2>2, <3>1, TypedIs, PartsIs DEF ArriveStep, ReadArrives, Filed
    <3>3. QED
      BY <2>1, <2>2, <2>3, <3>2 DEF Ordered, Behind
  <2>5. CASE rows' = rows
    BY <2>3, <2>5
  <2>6. ASSUME NEW c \in Call, HandlerStep(c) PROVE ArriveStep(c) \/ rows' = rows
    BY <2>6 DEF HandlerStep, MountStep, FailStep, ReadFails, EndStep, ReloadStep,
                GotStep, ServeStep, LostStep, ClickStep, page
  <2>7. ~Unmount
    BY <2>1 DEF Unmount
  <2>8. QED
    BY <1>1, <2>2, <2>4, <2>5, <2>6, <2>7, StepKinds DEF MoveStep, SheetStep, KeyExpires, vars, page
<1>2. QED
  BY <1>1, Inductive, PTL DEF Spec, BackOnlyOnOverlap

\* A page at rest that nobody disturbed shows the rows of the server, lists and cards.
THEOREM RestIsTrue == Spec => []QuietShowsTruth
<1>1. Invariant => QuietShowsTruth
  <2> SUFFICES ASSUME Invariant, AtRest, blemish = {}
               PROVE  rows = db /\ ("cards" \in Parts => cards = db) /\ ("more" \in Parts => more = db)
    BY DEF QuietShowsTruth
  <2>1. Settling
    BY DEF Invariant, Quiet, AtRest
  <2>2. \A c \in Call : ~Accepted(c) /\ ~Reloads(c)
    BY DEF AtRest, Accepted, Reloads, Acting, Reading
  <2>3. QED
    BY <2>1, <2>2 DEF Settling, Truth
<1>2. QED
  BY <1>1, Inductive, PTL

\* A spinner, a disabled button, a disabled row and a sheet that saves each have a
\* request under way whose handler will clear them, and a sheet has one save.
THEOREM ControlsAreCleared == Spec => []NoStuckControls
<1>1. Invariant => NoStuckControls
  <2> SUFFICES ASSUME Invariant, mounted
               PROVE  /\ loading => \E c \in Call : Reading(c)
                      /\ busy = "__create__" => \E c \in Call : Acting(c) /\ call[c].live /\ call[c].fn = "create"
                      /\ busy \in Row => \E c \in Call : Acting(c) /\ call[c].live /\ call[c].row = busy
                      /\ sheet.saving => \E c \in Call : Acting(c) /\ call[c].mine
                      /\ \A c, d \in Call : call[c].mine /\ call[d].mine => c = d
    BY DEF NoStuckControls
  <2>1. Spinning /\ Waiting /\ Saving
    BY DEF Invariant, Controls
  <2>2. \A c \in Call : call[c].mine => Acting(c)
    BY TypedIs DEF Invariant, Filed, Acting, CallState
  <2>3. QED
    BY <2>1, <2>2 DEF Spinning, Waiting, Saving
<1>2. QED
  BY <1>1, Inductive, PTL

\* A request of a menu changes a row only from the status the operator saw there, but for
\* a cancellation of a payout confirmed since, and a rejection of a reward approved since.
THEOREM ClicksApplyAsShown == Spec => AppliedAsShown
<1> DEFINE Step == \A c \in Call :
          call[c].answer = "none" /\ call'[c].answer = "ok" /\ db' # db
              /\ call[c].fn \in {"confirm", "paid", "cancel", "approve", "reject"} =>
          \/ db[call[c].row] = call[c].shown
          \/ call[c].fn = "cancel" /\ db[call[c].row] = "processing"
          \/ call[c].fn = "reject" /\ db[call[c].row] = "approved"
<1>1. ASSUME Invariant, [Next]_vars PROVE Step
  <2>1. SUFFICES ASSUME NEW c \in Call, call[c].answer = "none", call'[c].answer = "ok", db' # db,
                        call[c].fn \in {"confirm", "paid", "cancel", "approve", "reject"}
                 PROVE  \/ db[call[c].row] = call[c].shown
                        \/ call[c].fn = "cancel" /\ db[call[c].row] = "processing"
                        \/ call[c].fn = "reject" /\ db[call[c].row] = "approved"
    BY DEF Step
  <2>2. Typed
    BY <1>1 DEF Invariant
  <2>3. PICK d \in Call : HandlerStep(d)
    BY <1>1, <2>1, <2>2, StepKinds DEF Unmount, MoveStep, SheetStep, KeyExpires, vars, server
  <2>4. PICK new \in GoodCall : ServeStep(d, new)
    BY <2>1, <2>3 DEF HandlerStep, MountStep, ArriveStep, ReadArrives, FailStep, ReadFails, EndStep, ReloadStep,
                      GotStep, LostStep, ClickStep, server
  <2>5. d = c
    BY <2>1, <2>4, OthersAlike DEF ServeStep, Put, Alike
  <2>6. CASE call[c].fn = "cancel" /\ db[call[c].row] = "pending" /\ call[c].shown \in Cancellable
    <3>1. Rank(call[c].shown) <= Rank(db[call[c].row])
      BY <1>1, <2>1, <2>6 DEF Invariant, Dated, Dates
    <3>2. call[c].shown = "pending"
      BY <2>6, <3>1, RankType DEF Cancellable
    <3>3. QED
      BY <2>6, <3>2
  <2>7. QED
    BY <2>1, <2>4, <2>5, <2>6 DEF ServeStep, Cancellable
<1>2. QED
  BY <1>1, Inductive, PTL DEF Spec, AppliedAsShown

\* A page that says there is nothing yet is right, or it has an excuse.
LEMMA SaysNothingIs ==
    ASSUME Invariant, mounted, SaysNothing, "elsewhere" \notin blemish
    PROVE  \/ db = Empty
           \/ screen = "saques" /\ (blemish # {} \/ \E c \in Call : Acting(c))
           \/ screen = "overview" /\ "swallowed" \in blemish
           \/ screen \in {"comissoes", "auditoria", "referidos"} /\ error
<1>1. rows \in List /\ more \in List /\ screen \in Screen
  BY TypedIs DEF Invariant
<1>2. /\ (\A r \in Row : rows[r] = "absent") => rows = Empty
      /\ Listed(rows) = {} => rows = Empty
      /\ Listed(more) = {} => more = Empty
  BY <1>1 DEF List, Listed, Empty
<1>3. CASE screen = "saques"
  <2>1. ~loading /\ rows = Empty
    BY <1>2, <1>3 DEF SaysNothing, SaquesEmpty, ComissoesEmpty, IndicacoesEmpty, TableShown, ReadPageEmpty
  <2>2. CASE blemish = {}
    <3>1. (\E c \in Call : Accepted(c)) \/ Truth
      BY <2>1, <2>2 DEF Invariant, Quiet, Settling, Reloads
    <3>2. QED
      BY <1>3, <2>1, <3>1 DEF Accepted, Truth
  <2>3. QED
    BY <1>3, <2>2
<1>4. CASE screen # "saques" /\ ~(screen = "overview" /\ "swallowed" \in blemish)
  <2>1. Told
    BY <1>4 DEF Invariant, Nothing, Honest
  <2>2. CASE error
    BY <1>1, <1>4, <2>2, Zenon DEF SaysNothing, SaquesEmpty, IndicacoesEmpty, ComissoesEmpty, TableShown,
         ReadPageEmpty, ProgramasEmpty, OverviewLists, Screen, ReadPage
  <2>3. CASE ~error
    <3>1. ~loading /\ (rows = Empty \/ (screen \in {"auditoria", "overview"} /\ more = Empty))
      BY <1>2, <1>4, <2>3 DEF SaysNothing, SaquesEmpty, IndicacoesEmpty, ComissoesEmpty, TableShown,
           ReadPageEmpty, ProgramasEmpty, ProgramasList, OverviewLists, AuditoriaTables, EventsTable, FraudTable,
           ReferidosEmpty, ReferidosList
    <3>2. screen \in {"auditoria", "overview"} => "more" \in Parts
      BY DEF Parts, AuditoriaGets, OverviewGets
    <3>3. QED
      BY <2>1, <2>3, <3>1, <3>2 DEF Told
  <2>4. QED
    BY <2>2, <2>3
<1>5. QED
  BY <1>3, <1>4

\* The pages that are only read (ReadPages) list no row the server does not hold, and
\* where a page says that there is nothing yet, there is nothing.
THEOREM EmptyIsEmpty == Spec => []NothingMeansNothing
<1>1. Invariant => NothingMeansNothing
  <2> SUFFICES ASSUME Invariant, mounted
               PROVE  /\ \A r \in OnScreen : db[r] # "absent"
                      /\ SaysNothing /\ "elsewhere" \notin blemish =>
                            \/ db = Empty
                            \/ screen = "saques" /\ (blemish # {} \/ \E c \in Call : Acting(c))
                            \/ screen = "overview" /\ "swallowed" \in blemish
                            \/ screen \in {"comissoes", "auditoria", "referidos"} /\ error
    BY DEF NothingMeansNothing
  <2>1. \A r \in Row : (rows[r] # "absent" \/ more[r] # "absent") => db[r] # "absent"
    BY DEF Invariant, Dated, Dates, Behind
  <2>2. OnScreen \subseteq Listed(rows) \cup Listed(more)
    BY DEF OnScreen, AuditoriaTables, EventsTable, FraudTable, ProgramasList, OverviewLists, ExtratoList,
         ParceiroList, ReferidosList
  <2>3. QED
    BY <2>1, <2>2, SaysNothingIs DEF Listed
<1>2. QED
  BY <1>1, Inductive, PTL

=============================================================================
