--------------------------- MODULE WebFormsProofs ---------------------------
(***************************************************************************)
(* Theorems about WebForms, for every number of visits, submissions and    *)
(* percentages, and for every set of people, names and keys.               *)
(***************************************************************************)
EXTENDS WebForms, TLAPS

USE FormsAssumption

-----------------------------------------------------------------------------
(* Types.                                                                  *)

LEMMA UnusedType == UnusedCall \in CallState
  BY DEF UnusedCall, CallState

\* A submission that is sent is one that was not used, with what the form says.
LEMMA SendType ==
    ASSUME TypeOK, NEW chosen \in Split \cup {NoSplit}, NEW saw \in 0..MaxPct, Send(chosen, saw)
    PROVE  call' \in [Call -> CallState] /\ overlap' \in BOOLEAN
<1> DEFINE sent == [at |-> "sent", visit |-> visit, subject |-> subject, split |-> chosen,
                    saw |-> saw, live |-> TRUE, answer |-> "none"]
<1>1. sent \in CallState
  BY DEF TypeOK, CallState
<1>2. PICK c \in Call : call' = [call EXCEPT ![c] = sent]
  BY DEF Send
<1> HIDE DEF sent
<1>3. QED
  BY <1>1, <1>2 DEF TypeOK, Send

LEMMA AnswerType ==
    ASSUME TypeOK, NEW c \in Call, NEW answer \in {"ok", "refused", "lost"}, Answer(c, answer)
    PROVE  call' \in [Call -> CallState]
<1> DEFINE next == [call[c] EXCEPT !.at = "answered", !.answer = answer]
<1>1. call[c] \in CallState
  BY DEF TypeOK
<1>2. next \in CallState
  BY <1>1 DEF CallState
<1>3. call' = [call EXCEPT ![c] = next]
  BY DEF Answer
<1> HIDE DEF next
<1>4. QED
  BY <1>2, <1>3 DEF TypeOK

LEMMA SettleType ==
    ASSUME TypeOK, NEW c \in Call, Settle(c)
    PROVE  call' \in [Call -> CallState]
<1> DEFINE next == [UnusedCall EXCEPT !.at = "done", !.visit = call[c].visit,
                       !.subject = call[c].subject, !.split = call[c].split, !.saw = call[c].saw]
<1>1. call[c] \in CallState
  BY DEF TypeOK
<1>2. next \in CallState
  BY <1>1 DEF CallState, UnusedCall
<1>3. call' = [call EXCEPT ![c] = next]
  BY DEF Settle
<1> HIDE DEF next
<1>4. QED
  BY <1>2, <1>3 DEF TypeOK

LEMMA SplitType ==
    /\ NoChoice \in [card: Preset \cup {"custom"}, chosen: Split]
    /\ \A preset \in Preset : Build(preset) \in Split
<1>1. MaxPct \div 2 \in 0..MaxPct
  OBVIOUS
<1>2. NoChoice \in [card: Preset \cup {"custom"}, chosen: Split]
  BY DEF NoChoice, Preset, Split
<1>3. \A preset \in Preset : Build(preset) \in Split
  BY <1>1 DEF Build, Preset, Split
<1>4. QED
  BY <1>2, <1>3

LEMMA InitTypeOK == Init => TypeOK
<1> SUFFICES ASSUME Init PROVE TypeOK
  OBVIOUS
<1>1. call \in [Call -> CallState]
  BY UnusedType DEF Init
<1>2. split \in [card: Preset \cup {"custom"}, chosen: Split]
  BY SplitType DEF Init
<1>3. table \in TableState
  BY DEF Init, Away, TableState
<1>4. form \in Form /\ flexible \in BOOLEAN
  BY DEF Init
<1>5. visit \in 0..MaxVisits /\ key \in 0..MaxSubmits /\ lastSaid \in 0..MaxSubmits /\ leave \in Nat
  BY DEF Init
<1>6. open \in BOOLEAN /\ submitting \in BOOLEAN /\ overlap \in BOOLEAN /\ leftBusy \in BOOLEAN
  BY DEF Init
<1>7. made = {} /\ said = {} /\ lostIn = {} /\ context = "loading" /\ subject = Blank
  BY DEF Init
<1>8. QED
  BY <1>1, <1>2, <1>3, <1>4, <1>5, <1>6, <1>7 DEF TypeOK

LEMMA DroppedType ==
    ASSUME Dropped
    PROVE  /\ open' \in BOOLEAN /\ submitting' \in BOOLEAN
           /\ context' \in {"loading", "ready", "failed"}
           /\ subject' \in Subject \cup {Blank}
           /\ split' \in [card: Preset \cup {"custom"}, chosen: Split]
  BY SplitType DEF Dropped

\* What a step does to the parts of the state whose types are records.
LEMMA CallType == TypeOK /\ [Next]_vars => call' \in [Call -> CallState]
<1> SUFFICES ASSUME TypeOK, [Next]_vars PROVE call' \in [Call -> CallState]
  OBVIOUS
<1>1. ASSUME NEW c \in Call, NEW answer \in {"ok", "refused", "lost"}, Answer(c, answer)
      PROVE  call' \in [Call -> CallState]
  BY <1>1, AnswerType
<1>2. ASSUME NEW c \in Call, Settle(c) PROVE call' \in [Call -> CallState]
  BY <1>2, SettleType
<1>3. ASSUME Send(NoSplit, 0) PROVE call' \in [Call -> CallState]
  BY <1>3, SendType
<1>4. CASE SubmitLead
  <2>1. split.chosen \in Split /\ Promised \in 0..MaxPct
    BY SplitType DEF Promised, Split, TypeOK
  <2>2. QED
    BY <1>4, <2>1, SendType DEF SubmitLead
<1>5. CASE LeavePage
  <2>1. ASSUME NEW c \in Call PROVE [call[c] EXCEPT !.live = FALSE] \in CallState
    <3>1. call[c] \in CallState
      BY DEF TypeOK
    <3>2. QED
      BY <3>1 DEF CallState
  <2>2. QED
    BY <1>5, <2>1 DEF LeavePage
<1>6. CASE UNCHANGED call
  BY <1>6 DEF TypeOK
<1>7. QED
  BY <1>1, <1>2, <1>3, <1>4, <1>5, <1>6
     DEF Next, LeadNext, PartnerNext, PixNext, LeadResume, ProgramResume, vars, Open, Close, Redirect,
         ContextFails, Edit, Refuse, LoseCall, MeArrives, ChoosePreset, Customize, Publish,
         SubmitPartner, HandleUpdatePixKey, ServeLead, ServeProgram, ServePartner, UpdatePixKey,
         RedirectAfter, PixResume, PartnerResume, EnterPage, AnswerTable, TableArrives,
         ProgramsArrive, ConfigArrives

\* While the page is closed or waits for me, the choice is one of the cards: the inputs are not there.
CardChosen == context = "loading" \/ ~open => split.card \in Preset

LEMMA SplitStepType ==
    TypeOK /\ CardChosen /\ [Next]_vars
        => split' \in [card: Preset \cup {"custom"}, chosen: Split]
<1> SUFFICES ASSUME TypeOK, CardChosen, [Next]_vars
             PROVE  split' \in [card: Preset \cup {"custom"}, chosen: Split]
  OBVIOUS
<1> USE DEF fields
<1>1. split \in [card: Preset \cup {"custom"}, chosen: Split]
  BY DEF TypeOK
<1>2. CASE MeArrives
  <2>1. Build(split.card) \in Split
    BY <1>2, SplitType DEF MeArrives, CardChosen
  <2>2. [split EXCEPT !.chosen = Build(split.card)] \in [card: Preset \cup {"custom"}, chosen: Split]
    BY <1>1, <2>1
  <2>3. QED
    BY <1>1, <1>2, <2>2 DEF MeArrives
<1>3. ASSUME NEW preset \in Preset, ChoosePreset(preset)
      PROVE  split' \in [card: Preset \cup {"custom"}, chosen: Split]
  BY <1>3, SplitType DEF ChoosePreset
<1>4. ASSUME NEW chosen \in Split, Customize(chosen)
      PROVE  split' \in [card: Preset \cup {"custom"}, chosen: Split]
  BY <1>4 DEF Customize
<1>5. CASE Dropped
  BY <1>5, DroppedType
<1>6. CASE UNCHANGED split
  BY <1>1, <1>6
<1>7. QED
  BY <1>2, <1>3, <1>4, <1>5, <1>6
     DEF Next, LeadNext, PartnerNext, PixNext, LeadResume, ProgramResume, vars, Open, Close, Redirect,
         ContextFails, Edit, Refuse, LoseCall, SubmitLead, Send, Publish,
         SubmitPartner, HandleUpdatePixKey, ServeLead, ServeProgram, ServePartner, UpdatePixKey,
         RedirectAfter, PixResume, PartnerResume, EnterPage, LeavePage, AnswerTable, TableArrives,
         ProgramsArrive, ConfigArrives

LEMMA NextCardChosen == TypeOK /\ CardChosen /\ [Next]_vars => CardChosen'
<1> SUFFICES ASSUME TypeOK, CardChosen, [Next]_vars PROVE CardChosen'
  OBVIOUS
<1> USE DEF fields
<1>1. CASE Dropped
  BY <1>1 DEF Dropped, NoChoice, Preset, CardChosen
<1>2. CASE UNCHANGED <<split, open, context>>
  BY <1>2 DEF CardChosen
<1>3. CASE Open
  BY <1>3 DEF Open, CardChosen
<1>4. CASE ContextFails \/ MeArrives \/ ProgramsArrive \/ ConfigArrives
  BY <1>4 DEF ContextFails, MeArrives, ProgramsArrive, ConfigArrives, CardChosen
<1>5. CASE (\E preset \in Preset : ChoosePreset(preset)) \/ (\E chosen \in Split : Customize(chosen))
  BY <1>5 DEF ChoosePreset, Customize, SplitShown, CardChosen
<1>6. QED
  BY <1>1, <1>2, <1>3, <1>4, <1>5
     DEF Next, LeadNext, PartnerNext, PixNext, LeadResume, ProgramResume, vars, Close, Redirect,
         Edit, Refuse, LoseCall, SubmitLead, Send, Publish,
         SubmitPartner, HandleUpdatePixKey, ServeLead, ServeProgram, ServePartner, UpdatePixKey,
         RedirectAfter, PixResume, PartnerResume, EnterPage, LeavePage, AnswerTable, TableArrives

-----------------------------------------------------------------------------
(* The kinds of steps, and what each does to the submissions.              *)

Sending == SubmitLead \/ Publish \/ SubmitPartner \/ HandleUpdatePixKey
Serving(c) == ServeLead(c) \/ ServeProgram(c) \/ ServePartner(c) \/ UpdatePixKey(c)
Resuming(c) == (form \in {"lead", "program"} /\ RedirectAfter(c)) \/ PartnerResume(c) \/ PixResume(c)
Leaving == Close \/ LeavePage \/ Redirect

\* What a step leaves alone that concerns no submission.
Elsewhere == UNCHANGED <<form, flexible, open, visit, submitting, call, leave, made, key,
                         said, lastSaid, history>>

LEMMA StepKinds ==
    ASSUME [Next]_vars
    PROVE  \/ Open \/ Leaving \/ Sending
           \/ \E c \in Call : Serving(c) \/ Refuse(c) \/ LoseCall(c) \/ Resuming(c)
           \/ Elsewhere
  BY DEF Next, LeadNext, PartnerNext, PixNext, LeadResume, ProgramResume, vars, fields, Leaving,
     Sending, Serving, Resuming, Elsewhere, ContextFails, Edit, MeArrives, ChoosePreset, Customize,
     EnterPage, AnswerTable, TableArrives, ProgramsArrive, ConfigArrives

\* A submission c is sent while the form is open and not submitting.
Sent(c) ==
    /\ open /\ ~submitting /\ submitting'
    /\ call[c].at = "unused"
    /\ \A d \in Call \ {c} : call'[d] = call[d]
    /\ call'[c].at = "sent" /\ call'[c].answer = "none" /\ call'[c].live /\ call'[c].visit = visit
    /\ overlap' = (overlap \/ \E d \in Call : UnderWay(d))
    /\ UNCHANGED <<form, flexible, open, visit, leave, table, made, key, said, lastSaid, lostIn, leftBusy>>

LEMMA SendingSends == ASSUME TypeOK, Sending PROVE \E c \in Call : Sent(c)
<1>1. PICK chosen, saw : Send(chosen, saw)
  BY DEF Sending, SubmitLead, Publish, SubmitPartner, HandleUpdatePixKey
<1>2. open /\ ~submitting /\ submitting'
  BY DEF Sending, SubmitLead, Publish, SubmitPartner, HandleUpdatePixKey
<1> DEFINE sent == [at |-> "sent", visit |-> visit, subject |-> subject, split |-> chosen,
                    saw |-> saw, live |-> TRUE, answer |-> "none"]
<1>3. PICK c \in Call : call[c].at = "unused" /\ call' = [call EXCEPT ![c] = sent]
  BY <1>1 DEF Send
<1>4. call'[c] = sent /\ \A d \in Call \ {c} : call'[d] = call[d]
  BY <1>3 DEF TypeOK
<1>5. sent.at = "sent" /\ sent.answer = "none" /\ sent.live /\ sent.visit = visit
  OBVIOUS
<1> HIDE DEF sent
<1>6. QED
  BY <1>1, <1>2, <1>3, <1>4, <1>5 DEF Sent, Send

\* What the server answers changes nothing else of a submission.
Same(c) ==
    /\ call'[c].visit = call[c].visit /\ call'[c].subject = call[c].subject
    /\ call'[c].split = call[c].split /\ call'[c].saw = call[c].saw
    /\ \A d \in Call \ {c} : call'[d] = call[d]

LEMMA AnswerIs ==
    ASSUME TypeOK, NEW c \in Call, NEW answer, Answer(c, answer)
    PROVE  call'[c].at = "answered" /\ call'[c].answer = answer /\ call'[c].live = call[c].live /\ Same(c)
<1> DEFINE next == [call[c] EXCEPT !.at = "answered", !.answer = answer]
<1>1. call'[c] = next /\ \A d \in Call \ {c} : call'[d] = call[d]
  BY DEF Answer, TypeOK
<1>2. call[c] \in CallState
  BY DEF TypeOK
<1>3. /\ next.at = "answered" /\ next.answer = answer /\ next.live = call[c].live
      /\ next.visit = call[c].visit /\ next.subject = call[c].subject
      /\ next.split = call[c].split /\ next.saw = call[c].saw
  BY <1>2 DEF CallState
<1> HIDE DEF next
<1>4. QED
  BY <1>1, <1>3 DEF Same

LEMMA SettleIs ==
    ASSUME TypeOK, NEW c \in Call, Settle(c)
    PROVE  /\ call[c].at = "answered"
           /\ call'[c].at = "done" /\ call'[c].answer = "none" /\ Same(c)
<1> DEFINE next == [UnusedCall EXCEPT !.at = "done", !.visit = call[c].visit,
                       !.subject = call[c].subject, !.split = call[c].split, !.saw = call[c].saw]
<1>1. call'[c] = next /\ \A d \in Call \ {c} : call'[d] = call[d]
  BY DEF Settle, TypeOK
<1>2. /\ next.at = "done" /\ next.answer = "none"
      /\ next.visit = call[c].visit /\ next.subject = call[c].subject
      /\ next.split = call[c].split /\ next.saw = call[c].saw
  BY DEF UnusedCall
<1> HIDE DEF next
<1>3. QED
  BY <1>1, <1>2 DEF Same, Settle

LEMMA ServingIs ==
    ASSUME TypeOK, NEW c \in Call, Serving(c)
    PROVE  /\ call[c].at = "sent" /\ call'[c].at = "answered" /\ call'[c].answer = "ok"
           /\ call'[c].live = call[c].live /\ Same(c)
           /\ made' = made \cup {c}
           /\ key' = IF form = "pix" THEN c ELSE key
           /\ UNCHANGED <<form, flexible, open, visit, submitting, leave, table, said, lastSaid, history>>
<1>1. Answer(c, "ok") /\ call[c].at = "sent"
  BY DEF Serving, ServeLead, ServeProgram, ServePartner, UpdatePixKey
<1>2. /\ made' = made \cup {c}
      /\ key' = IF form = "pix" THEN c ELSE key
      /\ UNCHANGED <<form, flexible, open, visit, submitting, leave, table, said, lastSaid, history>>
  BY DEF Serving, ServeLead, ServeProgram, ServePartner, UpdatePixKey, history
<1>3. QED
  BY <1>1, <1>2, AnswerIs

LEMMA ResumingSettles == ASSUME NEW c \in Call, Resuming(c)
                         PROVE  Settle(c) /\ UNCHANGED <<form, flexible, visit, made, key, history>>
  BY DEF Resuming, RedirectAfter, PartnerResume, PixResume, history

LEMMA LeavingIs ==
    ASSUME TypeOK, Leaving
    PROVE  /\ ~open'
           /\ \A c \in Call : call'[c] = call[c] \/ call'[c] = [call[c] EXCEPT !.live = FALSE]
           /\ UNCHANGED <<form, flexible, visit, made, key, said, lastSaid, lostIn, overlap>>
  BY DEF Leaving, Close, LeavePage, Redirect, Dropped, history, TypeOK

-----------------------------------------------------------------------------
(* The type invariant.                                                     *)

\* The scalar parts.
ScalarsOK ==
    /\ form \in Form /\ flexible \in BOOLEAN /\ open \in BOOLEAN
    /\ visit \in 0..MaxVisits
    /\ context \in {"loading", "ready", "failed"}
    /\ subject \in Subject \cup {Blank}
    /\ submitting \in BOOLEAN
    /\ leave \in Nat
LedgerOK ==
    /\ made \subseteq Call /\ key \in 0..MaxSubmits
    /\ said \subseteq Call /\ lastSaid \in 0..MaxSubmits
    /\ lostIn \subseteq 0..MaxVisits /\ overlap \in BOOLEAN /\ leftBusy \in BOOLEAN

LEMMA TypeParts ==
    TypeOK <=> /\ ScalarsOK /\ LedgerOK
               /\ split \in [card: Preset \cup {"custom"}, chosen: Split]
               /\ call \in [Call -> CallState] /\ table \in TableState
  BY DEF TypeOK, ScalarsOK, LedgerOK

LEMMA NextScalars == ASSUME ScalarsOK, [Next]_vars PROVE ScalarsOK'
<1> USE DEF fields
<1>1. CASE Open
  BY <1>1 DEF Open, ScalarsOK
<1>2. CASE Leaving
  <2>1. open' \in BOOLEAN /\ submitting' \in BOOLEAN
        /\ context' \in {"loading", "ready", "failed"} /\ subject' \in Subject \cup {Blank}
    BY <1>2, DroppedType DEF Leaving, Close, LeavePage, Redirect
  <2>2. leave' \in Nat /\ UNCHANGED <<form, flexible, visit>>
    BY <1>2 DEF Leaving, Close, LeavePage, Redirect, ScalarsOK
  <2>3. QED
    BY <2>1, <2>2 DEF ScalarsOK
<1>3. CASE Sending
  BY <1>3 DEF Sending, SubmitLead, Publish, SubmitPartner, HandleUpdatePixKey, Send, ScalarsOK
<1>4. ASSUME NEW c \in Call, Serving(c) \/ Refuse(c) \/ LoseCall(c) PROVE ScalarsOK'
  BY <1>4 DEF Serving, ServeLead, ServeProgram, ServePartner, UpdatePixKey, Refuse, LoseCall, ScalarsOK
<1>5. ASSUME NEW c \in Call, RedirectAfter(c) PROVE ScalarsOK'
  <2>1. leave' \in {leave, leave + 1} /\ submitting' \in {FALSE, submitting}
    BY <1>5 DEF RedirectAfter
  <2>2. UNCHANGED <<form, flexible, open, visit, context, fields>>
    BY <1>5 DEF RedirectAfter
  <2>3. leave' \in Nat
    BY <2>1 DEF ScalarsOK
  <2>4. submitting' \in BOOLEAN
    BY <2>1, Zenon DEF ScalarsOK
  <2>5. QED
    BY <2>2, <2>3, <2>4 DEF ScalarsOK
<1>6. ASSUME NEW c \in Call, PixResume(c) PROVE ScalarsOK'
  BY <1>6 DEF PixResume, ScalarsOK
<1>7. ASSUME NEW c \in Call, PartnerResume(c) PROVE ScalarsOK'
  <2>1. CASE Dropped
    BY <1>7, <2>1, DroppedType DEF PartnerResume, ScalarsOK
  <2>2. CASE ~Dropped
    BY <1>7, <2>2 DEF PartnerResume, ScalarsOK
  <2>3. QED
    BY <2>1, <2>2
<1>8. ASSUME NEW s \in Subject, Edit(s) PROVE ScalarsOK'
  BY <1>8 DEF Edit, ScalarsOK
<1>9. CASE ContextFails \/ MeArrives \/ ProgramsArrive \/ ConfigArrives
  BY <1>9 DEF ContextFails, MeArrives, ProgramsArrive, ConfigArrives, ScalarsOK
<1>10. CASE \/ \E preset \in Preset : ChoosePreset(preset)
            \/ \E chosen \in Split : Customize(chosen)
            \/ EnterPage \/ AnswerTable \/ TableArrives \/ UNCHANGED vars
  BY <1>10 DEF ChoosePreset, Customize, EnterPage, AnswerTable, TableArrives, vars, ScalarsOK
<1>11. QED
  BY <1>1, <1>2, <1>3, <1>4, <1>5, <1>6, <1>7, <1>8, <1>9, <1>10
     DEF Next, LeadNext, PartnerNext, PixNext, LeadResume, ProgramResume, Leaving, Sending, Serving

LEMMA NextLedger == ASSUME ScalarsOK, LedgerOK, call \in [Call -> CallState], [Next]_vars PROVE LedgerOK'
<1> USE DEF history
<1>1. CASE Open \/ Elsewhere
  BY <1>1 DEF Open, Elsewhere, LedgerOK
<1>2. CASE Leaving
  BY <1>2 DEF Leaving, Close, LeavePage, Redirect, ScalarsOK, LedgerOK
<1>3. CASE Sending
  <2>1. PICK chosen, saw : Send(chosen, saw)
    BY <1>3 DEF Sending, SubmitLead, Publish, SubmitPartner, HandleUpdatePixKey
  <2>2. QED
    BY <2>1 DEF Send, LedgerOK
<1>4. ASSUME NEW c \in Call, Serving(c) \/ Refuse(c) PROVE LedgerOK'
  <2>1. /\ made' \in {made, made \cup {c}} /\ key' \in {key, c}
        /\ UNCHANGED <<said, lastSaid, history>>
    BY <1>4 DEF Serving, ServeLead, ServeProgram, ServePartner, UpdatePixKey, Refuse
  <2>2. c \in 0..MaxSubmits
    BY DEF Call
  <2>3. QED
    BY <2>1, <2>2 DEF LedgerOK
<1>5. ASSUME NEW c \in Call, LoseCall(c) PROVE LedgerOK'
  <2>1. call[c].visit \in 0..MaxVisits
    BY DEF CallState
  <2>2. QED
    BY <1>5, <2>1 DEF LoseCall, LedgerOK
<1>6. ASSUME NEW c \in Call, Resuming(c) PROVE LedgerOK'
  <2>1. /\ said' \in {said, said \cup {c}} /\ lastSaid' \in {lastSaid, c}
        /\ UNCHANGED <<made, key, history>>
    BY <1>6 DEF Resuming, RedirectAfter, PartnerResume, PixResume
  <2>2. c \in 0..MaxSubmits
    BY DEF Call
  <2>3. QED
    BY <2>1, <2>2 DEF LedgerOK
<1>7. QED
  BY <1>1, <1>2, <1>3, <1>4, <1>5, <1>6, StepKinds

LEMMA NextTable == ASSUME table \in TableState, LedgerOK, [Next]_vars PROVE table' \in TableState
<1>1. Away \in TableState /\ Loading \in TableState
  BY DEF Away, Loading, TableState
<1>2. CASE UNCHANGED table
  BY <1>2
<1>3. CASE EnterPage \/ LeavePage
  BY <1>1, <1>3 DEF EnterPage, LeavePage
<1>4. CASE AnswerTable
  BY <1>4 DEF AnswerTable, TableState, LedgerOK
<1>5. CASE TableArrives
  BY <1>1, <1>5 DEF TableArrives, TableState
<1>6. ASSUME NEW c \in Call, PartnerResume(c) PROVE table' \in TableState
  BY <1>1, <1>2, <1>6 DEF PartnerResume
<1>7. QED
  BY <1>2, <1>3, <1>4, <1>5, <1>6
     DEF Next, LeadNext, PartnerNext, PixNext, LeadResume, ProgramResume, vars, Open, Close, Redirect,
         ContextFails, Edit, Refuse, LoseCall, MeArrives, ChoosePreset, Customize, SubmitLead, Send,
         Publish, SubmitPartner, HandleUpdatePixKey, ServeLead, ServeProgram, ServePartner,
         UpdatePixKey, RedirectAfter, PixResume, ProgramsArrive, ConfigArrives

\* The state has its type; the choice of a closed or waiting form is one of the cards.
TypedForms == TypeOK /\ CardChosen

LEMMA NextTypedForms == ASSUME TypedForms, [Next]_vars PROVE TypedForms'
<1>1. TypeOK /\ CardChosen
  BY DEF TypedForms
<1>2. ScalarsOK' /\ LedgerOK' /\ table' \in TableState
  BY <1>1, TypeParts, NextScalars, NextLedger, NextTable
<1>3. call' \in [Call -> CallState] /\ split' \in [card: Preset \cup {"custom"}, chosen: Split]
  BY <1>1, CallType, SplitStepType
<1>4. TypeOK'
  BY <1>2, <1>3 DEF TypeOK, ScalarsOK, LedgerOK
<1>5. CardChosen'
  BY <1>1, NextCardChosen
<1>6. QED
  BY <1>4, <1>5 DEF TypedForms

-----------------------------------------------------------------------------
(* What holds of every submission.                                         *)

CallFact(c) ==
    /\ call[c].at \in {"unused", "sent"} => c \notin made /\ call[c].answer = "none"
    /\ call[c].at = "answered" => call[c].answer # "none"
    /\ call[c].at = "done" => call[c].answer = "none"
    /\ call[c].answer = "ok" => c \in made
    /\ call[c].answer = "refused" => c \notin made
    /\ call[c].answer = "lost" => call[c].visit \in lostIn
    /\ call[c].at # "unused" => call[c].visit <= visit

CallFacts == \A c \in Call : CallFact(c)

LEMMA RefuseIs ==
    ASSUME TypeOK, NEW c \in Call, Refuse(c)
    PROVE  /\ call[c].at = "sent" /\ call'[c].at = "answered" /\ call'[c].answer = "refused"
           /\ call'[c].live = call[c].live /\ Same(c)
           /\ UNCHANGED <<form, flexible, open, visit, submitting, leave, table, made, key,
                          said, lastSaid, history>>
<1>1. Answer(c, "refused") /\ call[c].at = "sent"
  BY DEF Refuse
<1>2. UNCHANGED <<form, flexible, open, visit, submitting, leave, table, made, key,
                  said, lastSaid, history>>
  BY DEF Refuse, history
<1>3. QED
  BY <1>1, <1>2, AnswerIs

LEMMA LoseCallIs ==
    ASSUME TypeOK, NEW c \in Call, LoseCall(c)
    PROVE  /\ UnderWay(c) /\ call'[c].at = "answered" /\ call'[c].answer = "lost"
           /\ call'[c].live = call[c].live /\ Same(c)
           /\ lostIn' = lostIn \cup {call[c].visit}
           /\ UNCHANGED <<form, flexible, open, visit, submitting, leave, table, made, key,
                          said, lastSaid, overlap, leftBusy>>
<1>1. Answer(c, "lost") /\ UnderWay(c)
  BY DEF LoseCall
<1>2. /\ lostIn' = lostIn \cup {call[c].visit}
      /\ UNCHANGED <<form, flexible, open, visit, submitting, leave, table, made, key,
                     said, lastSaid, overlap, leftBusy>>
  BY DEF LoseCall
<1>3. QED
  BY <1>1, <1>2, AnswerIs

\* Leaving takes no submission back; at most its page is not there any more.
LEMMA LeavingKeeps ==
    ASSUME TypeOK, Leaving, NEW c \in Call
    PROVE  /\ call'[c].at = call[c].at /\ call'[c].answer = call[c].answer
           /\ call'[c].visit = call[c].visit /\ call'[c].split = call[c].split
           /\ call'[c].subject = call[c].subject /\ call'[c].saw = call[c].saw
<1>1. call[c] \in CallState
  BY DEF TypeOK
<1>2. CASE call'[c] = call[c]
  BY <1>2
<1>3. CASE call'[c] = [call[c] EXCEPT !.live = FALSE]
  BY <1>1, <1>3 DEF CallState
<1>4. QED
  BY <1>2, <1>3, LeavingIs

LEMMA NextCallFacts == ASSUME TypeOK, CallFacts, [Next]_vars PROVE CallFacts'
<1> SUFFICES ASSUME NEW d \in Call PROVE CallFact(d)'
  BY DEF CallFacts
<1>0. CallFact(d) /\ call[d] \in CallState /\ visit \in 0..MaxVisits
  BY DEF CallFacts, TypeOK
<1>1. CASE Open
  BY <1>0, <1>1 DEF Open, history, CallFact, CallState
<1>2. CASE Leaving
  BY <1>0, <1>2, LeavingIs, LeavingKeeps DEF CallFact
<1>3. CASE Sending
  <2>1. PICK c \in Call : Sent(c)
    BY <1>3, SendingSends
  <2>2. CallFact(c) /\ call'[c].visit = visit /\ UNCHANGED <<visit, made, lostIn>>
    BY <2>1 DEF CallFacts, Sent
  <2>3. CASE d = c
    BY <2>1, <2>2, <2>3, <1>0 DEF Sent, CallFact
  <2>4. CASE d # c
    BY <2>1, <2>2, <2>4, <1>0 DEF Sent, CallFact
  <2>5. QED
    BY <2>3, <2>4
<1>4. ASSUME NEW c \in Call, Serving(c) PROVE CallFact(d)'
  <2>1. /\ call[c].at = "sent" /\ call'[c].at = "answered" /\ call'[c].answer = "ok" /\ Same(c)
        /\ made' = made \cup {c} /\ UNCHANGED <<visit, lostIn>>
    BY <1>4, ServingIs DEF history
  <2>2. QED
    BY <2>1, <1>0 DEF CallFact, Same
<1>5. ASSUME NEW c \in Call, Refuse(c) PROVE CallFact(d)'
  <2>1. /\ call[c].at = "sent" /\ call'[c].at = "answered" /\ call'[c].answer = "refused" /\ Same(c)
        /\ UNCHANGED <<made, visit, lostIn>>
    BY <1>5, RefuseIs DEF history
  <2>2. QED
    BY <2>1, <1>0 DEF CallFact, Same
<1>6. ASSUME NEW c \in Call, LoseCall(c) PROVE CallFact(d)'
  <2>1. /\ UnderWay(c) /\ call'[c].at = "answered" /\ call'[c].answer = "lost" /\ Same(c)
        /\ lostIn' = lostIn \cup {call[c].visit} /\ UNCHANGED <<made, visit>>
    BY <1>6, LoseCallIs
  <2>2. QED
    BY <2>1, <1>0 DEF CallFact, Same, UnderWay
<1>7. ASSUME NEW c \in Call, Resuming(c) PROVE CallFact(d)'
  <2>1. /\ call[c].at = "answered" /\ call'[c].at = "done" /\ call'[c].answer = "none" /\ Same(c)
        /\ UNCHANGED <<made, visit, lostIn>>
    BY <1>7, ResumingSettles, SettleIs DEF history
  <2>2. QED
    BY <2>1, <1>0 DEF CallFact, Same
<1>8. CASE Elsewhere
  BY <1>0, <1>8 DEF Elsewhere, history, CallFact
<1>9. QED
  BY <1>1, <1>2, <1>3, <1>4, <1>5, <1>6, <1>7, <1>8, StepKinds

-----------------------------------------------------------------------------
(* One opening of a form makes one thing.                                  *)

\* A submission that may have made something, or made it.
Pending(c) == UnderWay(c) \/ c \in made

\* Of two in one visit an answer was lost; and a form with one in its visit is submitting.
OnePerVisit ==
    /\ \A c, d \in Call : Pending(c) /\ Pending(d) /\ c # d /\ call[c].visit = call[d].visit
                             => call[c].visit \in lostIn
    /\ \A c \in Call : Pending(c) /\ call[c].visit = visit /\ open => submitting \/ visit \in lostIn
OneAtATime == form # "pix" => OnePerVisit

\* A step that keeps what is pending keeps the first part, and the second if the form does.
LEMMA OnePerVisitKept ==
    ASSUME OnePerVisit, lostIn \subseteq lostIn', visit' = visit,
           \A c \in Call : (Pending(c)' => Pending(c)) /\ call'[c].visit = call[c].visit,
           open' => open,
           open' /\ ~submitting' => ~submitting
    PROVE  OnePerVisit'
  BY DEF OnePerVisit

LEMMA FormKept == ASSUME [Next]_vars PROVE UNCHANGED <<form, flexible>>
  BY DEF Next, LeadNext, PartnerNext, PixNext, LeadResume, ProgramResume, vars, Open, Close, Redirect,
         ContextFails, Edit, Refuse, LoseCall, MeArrives, ChoosePreset, Customize, SubmitLead, Send,
         Publish, SubmitPartner, HandleUpdatePixKey, ServeLead, ServeProgram, ServePartner,
         UpdatePixKey, RedirectAfter, PixResume, PartnerResume, EnterPage, LeavePage, AnswerTable,
         TableArrives, ProgramsArrive, ConfigArrives

LEMMA NextOneAtATime ==
    ASSUME TypeOK, CallFacts, OneAtATime, [Next]_vars PROVE OneAtATime'
<1> SUFFICES ASSUME form # "pix" PROVE OnePerVisit'
  BY FormKept DEF OneAtATime
<1>00. OnePerVisit
  BY DEF OneAtATime
<1>1. CASE Open
  <2>1. \A c \in Call : Pending(c) => call[c].visit <= visit
    BY DEF CallFacts, CallFact, Pending, UnderWay
  <2>2. visit \in Nat /\ \A c \in Call : call[c].visit \in Nat
    BY DEF TypeOK, CallState
  <2>3. visit' = visit + 1 /\ UNCHANGED <<call, made, lostIn>>
    BY <1>1 DEF Open, history
  <2>4. QED
    BY <1>00, <2>1, <2>2, <2>3 DEF OnePerVisit, Pending, UnderWay
<1>2. CASE Leaving
  <2>1. ~open' /\ UNCHANGED <<visit, made, lostIn>>
    BY <1>2, LeavingIs
  <2>2. \A c \in Call : call'[c].at = call[c].at /\ call'[c].visit = call[c].visit
    BY <1>2, LeavingKeeps
  <2>3. QED
    BY <1>00, <2>1, <2>2 DEF OnePerVisit, Pending, UnderWay
<1>3. CASE Sending
  <2>1. PICK c \in Call : Sent(c)
    BY <1>3, SendingSends
  <2>2. /\ open /\ ~submitting /\ submitting' /\ UNCHANGED <<visit, made, lostIn>>
        /\ call'[c].visit = visit /\ \A d \in Call \ {c} : call'[d] = call[d]
    BY <2>1 DEF Sent
  <2>3. \A d \in Call \ {c} : Pending(d) /\ call[d].visit = visit => visit \in lostIn
    BY <1>00, <2>2 DEF OnePerVisit
  <2>4. \A d \in Call \ {c} : (Pending(d)' <=> Pending(d)) /\ call'[d].visit = call[d].visit
    BY <2>2 DEF Pending, UnderWay
  <2>5. QED
    BY <1>00, <2>2, <2>3, <2>4 DEF OnePerVisit
<1>4. ASSUME NEW c \in Call, Serving(c) PROVE OnePerVisit'
  <2>1. /\ call[c].at = "sent" /\ Same(c) /\ made' = made \cup {c}
        /\ UNCHANGED <<open, visit, submitting, lostIn>>
    BY <1>4, ServingIs DEF history
  <2>2. \A d \in Call : (Pending(d)' => Pending(d)) /\ call'[d].visit = call[d].visit
    BY <2>1 DEF Pending, UnderWay, Same
  <2>3. QED
    BY <1>00, <2>1, <2>2, OnePerVisitKept
<1>5. ASSUME NEW c \in Call, Refuse(c) PROVE OnePerVisit'
  <2>1. /\ call[c].at = "sent" /\ Same(c) /\ UNCHANGED <<open, visit, submitting, made, lostIn>>
    BY <1>5, RefuseIs DEF history
  <2>2. \A d \in Call : (Pending(d)' => Pending(d)) /\ call'[d].visit = call[d].visit
    BY <2>1 DEF Pending, UnderWay, Same
  <2>3. QED
    BY <1>00, <2>1, <2>2, OnePerVisitKept
<1>6. ASSUME NEW c \in Call, LoseCall(c) PROVE OnePerVisit'
  <2>1. /\ UnderWay(c) /\ Same(c) /\ lostIn \subseteq lostIn'
        /\ UNCHANGED <<open, visit, submitting, made>>
    BY <1>6, LoseCallIs
  <2>2. \A d \in Call : (Pending(d)' => Pending(d)) /\ call'[d].visit = call[d].visit
    BY <2>1 DEF Pending, UnderWay, Same
  <2>3. QED
    BY <1>00, <2>1, <2>2, OnePerVisitKept
<1>7. ASSUME NEW c \in Call, Resuming(c) PROVE OnePerVisit'
  <2>1. /\ call[c].at = "answered" /\ call'[c].at = "done" /\ Same(c)
        /\ UNCHANGED <<visit, made, lostIn>>
    BY <1>7, ResumingSettles, SettleIs DEF history
  <2>2. /\ \A d \in Call : (Pending(d)' => Pending(d)) /\ call'[d].visit = call[d].visit
        /\ Pending(c) /\ (Pending(c)' => c \in made)
    BY <2>1 DEF Pending, UnderWay, Same
  <2>3. open' => open
    BY <1>7 DEF Resuming, RedirectAfter, PartnerResume, PixResume, Dropped
  <2>4. CASE open' /\ ~submitting' => ~submitting
    BY <1>00, <2>1, <2>2, <2>3, <2>4, OnePerVisitKept
  <2>5. CASE open' /\ ~submitting' /\ submitting
    <3>1. Mine(c) /\ call[c].answer # "ok"
      BY <1>7, <2>5 DEF Resuming, RedirectAfter, PartnerResume, PixResume, Dropped
    <3>2. call[c].visit = visit /\ open
      BY <3>1 DEF Mine
    <3>3. c \in made => call[c].answer = "lost"
      BY <2>1, <3>1 DEF CallFacts, CallFact, TypeOK, CallState
    <3>4. c \in made => visit \in lostIn
      BY <3>2, <3>3 DEF CallFacts, CallFact
    <3>5. \A d \in Call : d # c /\ Pending(d) /\ call[d].visit = visit => visit \in lostIn
      BY <1>00, <2>2, <3>2 DEF OnePerVisit
    <3>6. QED
      BY <1>00, <2>1, <2>2, <3>4, <3>5 DEF OnePerVisit
  <2>6. QED
    BY <2>4, <2>5
<1>8. CASE Elsewhere
  BY <1>00, <1>8 DEF Elsewhere, history, OnePerVisit, Pending, UnderWay
<1>9. QED
  BY <1>1, <1>2, <1>3, <1>4, <1>5, <1>6, <1>7, <1>8, StepKinds

-----------------------------------------------------------------------------
(* The key on the server.                                                  *)

\* At most one save is under way; the key is its, once it has been answered.
LastIsKey ==
    /\ \A c, d \in Call : UnderWay(c) /\ UnderWay(d) => c = d
    /\ \A c \in Call : call[c].answer = "ok" => key = c
    /\ (\A c \in Call : call[c].answer # "ok") => key = lastSaid
KeyIsLast == form = "pix" /\ lostIn = {} /\ ~overlap => LastIsKey

LEMMA LostOnlyGrows == ASSUME TypeOK, [Next]_vars PROVE lostIn \subseteq lostIn' /\ (overlap => overlap')
<1>1. CASE Sending
  BY <1>1, SendingSends DEF Sent
<1>2. CASE Leaving
  BY <1>2, LeavingIs
<1>3. ASSUME NEW c \in Call, Serving(c) \/ Refuse(c) \/ LoseCall(c) \/ Resuming(c)
      PROVE  lostIn \subseteq lostIn' /\ (overlap => overlap')
  BY <1>3, ServingIs, RefuseIs, LoseCallIs, ResumingSettles DEF history
<1>4. CASE Open \/ Elsewhere
  BY <1>4 DEF Open, Elsewhere, history
<1>5. QED
  BY <1>1, <1>2, <1>3, <1>4, StepKinds

LEMMA NextKeyIsLast ==
    ASSUME TypeOK, CallFacts, KeyIsLast, [Next]_vars PROVE KeyIsLast'
<1> SUFFICES ASSUME form = "pix", lostIn' = {}, ~overlap' PROVE LastIsKey'
  BY FormKept DEF KeyIsLast
<1>0. lostIn = {} /\ ~overlap
  BY LostOnlyGrows
<1>00. LastIsKey
  BY <1>0 DEF KeyIsLast
<1>1. CASE Open \/ Elsewhere
  BY <1>00, <1>1 DEF Open, Elsewhere, LastIsKey, UnderWay
<1>2. CASE Leaving
  BY <1>00, <1>2, LeavingIs, LeavingKeeps DEF LastIsKey, UnderWay
<1>3. CASE Sending
  <2>1. PICK c \in Call : Sent(c)
    BY <1>3, SendingSends
  <2>2. /\ \A d \in Call : ~UnderWay(d)
        /\ call'[c].at = "sent" /\ call'[c].answer = "none" /\ call[c].at = "unused"
        /\ \A d \in Call \ {c} : call'[d] = call[d]
        /\ UNCHANGED <<key, lastSaid>>
    BY <2>1 DEF Sent
  <2>3. call[c].answer = "none"
    BY <2>2 DEF CallFacts, CallFact
  <2>4. QED
    BY <1>00, <2>2, <2>3 DEF LastIsKey, UnderWay
<1>4. ASSUME NEW c \in Call, Serving(c) PROVE LastIsKey'
  <2>1. /\ call[c].at = "sent" /\ call'[c].at = "answered" /\ call'[c].answer = "ok" /\ Same(c)
        /\ key' = c
    BY <1>4, ServingIs
  <2>2. \A d \in Call : call[d].answer = "ok" => UnderWay(d)
    BY DEF CallFacts, CallFact, TypeOK, CallState, UnderWay
  <2>3. \A d \in Call \ {c} : ~UnderWay(d) /\ call'[d] = call[d]
    BY <1>00, <2>1 DEF LastIsKey, UnderWay, Same
  <2>4. \A d \in Call \ {c} : call'[d].answer # "ok" /\ call'[d].at \notin {"sent", "answered"}
    BY <2>2, <2>3 DEF UnderWay
  <2>5. QED
    BY <2>1, <2>4 DEF LastIsKey, UnderWay
<1>5. ASSUME NEW c \in Call, Refuse(c) PROVE LastIsKey'
  <2>1. /\ call[c].at = "sent" /\ call'[c].at = "answered" /\ call'[c].answer = "refused" /\ Same(c)
        /\ UNCHANGED <<key, lastSaid>>
    BY <1>5, RefuseIs
  <2>2. call[c].answer = "none"
    BY <2>1 DEF CallFacts, CallFact
  <2>3. QED
    BY <1>00, <2>1, <2>2 DEF LastIsKey, UnderWay, Same
<1>6. ASSUME NEW c \in Call, LoseCall(c) PROVE LastIsKey'
  BY <1>6, LoseCallIs
<1>7. ASSUME NEW c \in Call, Resuming(c) PROVE LastIsKey'
  <2>1. /\ call[c].at = "answered" /\ call'[c].at = "done" /\ call'[c].answer = "none" /\ Same(c)
        /\ key' = key
    BY <1>7, ResumingSettles, SettleIs
  <2>2. call[c].answer \in {"ok", "refused"}
    BY <1>0, <2>1 DEF CallFacts, CallFact, TypeOK, CallState
  <2>3. \A d \in Call \ {c} : ~UnderWay(d) /\ call'[d] = call[d] /\ call[d].answer # "ok"
    <3>1. \A d \in Call : call[d].answer = "ok" => UnderWay(d)
      BY DEF CallFacts, CallFact, TypeOK, CallState, UnderWay
    <3>2. QED
      BY <1>00, <2>1, <3>1 DEF LastIsKey, UnderWay, Same
  <2>4. lastSaid' = IF call[c].answer = "ok" THEN c ELSE lastSaid
    BY <1>7 DEF Resuming, PartnerResume, PixResume
  <2>5. key = IF call[c].answer = "ok" THEN c ELSE lastSaid
    BY <1>00, <2>2, <2>3 DEF LastIsKey
  <2>6. QED
    BY <2>1, <2>3, <2>4, <2>5 DEF LastIsKey, UnderWay
<1>8. QED
  BY <1>1, <1>2, <1>3, <1>4, <1>5, <1>6, <1>7, StepKinds

-----------------------------------------------------------------------------
(* The table of partners.                                                  *)

\* A list that is shown, or on its way, has what was announced; otherwise it will be asked for.
ListedOrReloading ==
    /\ said \subseteq made
    /\ table.at = "shown" \/ table.answered => said \subseteq table.rows

LEMMA NextListedOrReloading ==
    ASSUME TypeOK, CallFacts, ListedOrReloading, [Next]_vars PROVE ListedOrReloading'
<1>0. table \in TableState
  BY DEF TypeOK
<1>1. CASE Open \/ UNCHANGED vars
  BY <1>1 DEF Open, vars, ListedOrReloading
<1>2. CASE Leaving
  BY <1>2 DEF Leaving, Close, LeavePage, Redirect, Away, ListedOrReloading
<1>3. CASE Sending
  BY <1>3, SendingSends DEF Sent, ListedOrReloading
<1>4. ASSUME NEW c \in Call, Serving(c) \/ Refuse(c) \/ LoseCall(c) PROVE ListedOrReloading'
  BY <1>4, ServingIs, RefuseIs, LoseCallIs DEF ListedOrReloading
<1>5. ASSUME NEW c \in Call, Resuming(c) PROVE ListedOrReloading'
  <2>1. CASE UNCHANGED <<said, table>>
    BY <1>5, <2>1, ResumingSettles DEF ListedOrReloading
  <2>2. CASE call[c].answer = "ok" /\ table' = Loading /\ said' = said \cup {c}
    <3>1. c \in made /\ made' = made
      BY <1>5, <2>2, ResumingSettles DEF CallFacts, CallFact
    <3>2. QED
      BY <2>2, <3>1 DEF Loading, ListedOrReloading
  <2>3. QED
    BY <1>5, <2>1, <2>2 DEF Resuming, RedirectAfter, PartnerResume, PixResume
<1>6. CASE EnterPage
  BY <1>6 DEF EnterPage, Loading, ListedOrReloading
<1>7. CASE AnswerTable
  BY <1>0, <1>7 DEF AnswerTable, TableState, ListedOrReloading
<1>8. CASE TableArrives
  BY <1>0, <1>8 DEF TableArrives, TableState, Loading, ListedOrReloading
<1>9. CASE UNCHANGED <<said, made, table>>
  BY <1>9 DEF ListedOrReloading
<1>10. QED
  BY <1>1, <1>2, <1>3, <1>4, <1>5, <1>6, <1>7, <1>8, <1>9
     DEF Next, LeadNext, PartnerNext, PixNext, LeadResume, ProgramResume, Leaving, Sending, Serving,
         Resuming, ContextFails, Edit, MeArrives, ChoosePreset, Customize, ProgramsArrive, ConfigArrives

-----------------------------------------------------------------------------
(* The share a partner was promised.                                       *)

\* What a card shows is what the choice is, and what a submission carries is what it showed.
CardIsChoice == SplitShown /\ split.card # "custom" => split.chosen = Build(split.card)
SentAsShown(c) == call[c].at # "unused" => Evaluate(call[c].split) = call[c].saw
PromiseKept == form = "lead" /\ flexible => CardIsChoice /\ \A c \in Call : SentAsShown(c)

LEMMA NextCardIsChoice ==
    ASSUME TypeOK, CardIsChoice, form = "lead", [Next]_vars PROVE CardIsChoice'
<1>1. CASE Dropped
  BY <1>1 DEF Dropped, CardIsChoice, SplitShown
<1>2. CASE UNCHANGED <<form, flexible, open, context, split>>
  BY <1>2 DEF CardIsChoice, SplitShown, Build
<1>3. CASE Open \/ ContextFails
  BY <1>3 DEF Open, ContextFails, CardIsChoice, SplitShown
<1>4. CASE MeArrives
  BY <1>4 DEF MeArrives, TypeOK, CardIsChoice, SplitShown, Build
<1>5. ASSUME NEW preset \in Preset, ChoosePreset(preset) PROVE CardIsChoice'
  BY <1>5 DEF ChoosePreset, CardIsChoice, Build
<1>6. ASSUME NEW chosen \in Split, Customize(chosen) PROVE CardIsChoice'
  BY <1>6 DEF Customize, CardIsChoice
<1>7. QED
  BY <1>1, <1>2, <1>3, <1>4, <1>5, <1>6
     DEF Next, LeadNext, PartnerNext, PixNext, LeadResume, ProgramResume, vars, fields, Close, Redirect,
         Edit, Refuse, LoseCall, SubmitLead, Send, Publish, SubmitPartner, HandleUpdatePixKey,
         ServeLead, ServeProgram, ServePartner, UpdatePixKey, RedirectAfter, PixResume, PartnerResume,
         EnterPage, LeavePage, AnswerTable, TableArrives, ProgramsArrive, ConfigArrives

\* A submission of the lead form is worth what the form shows.
LEMMA LeadIsShown ==
    ASSUME TypeOK, CardIsChoice, form = "lead", flexible, SubmitLead
    PROVE  \E c \in Call : /\ call'[c].at # "unused" => Evaluate(call'[c].split) = call'[c].saw
                           /\ \A d \in Call \ {c} : call'[d] = call[d]
<1> DEFINE chosen == IF SplitShown THEN split.chosen ELSE NoSplit
           saw == IF SplitShown THEN Promised ELSE MaxPct
           sent == [at |-> "sent", visit |-> visit, subject |-> subject, split |-> chosen,
                    saw |-> saw, live |-> TRUE, answer |-> "none"]
<1>1. Evaluate(chosen) = saw
  <2>1. CASE ~SplitShown
    BY <2>1 DEF Evaluate
  <2>2. CASE SplitShown
    <3>1. split.chosen \in Split /\ split.chosen # NoSplit
      BY DEF TypeOK, Split
    <3>2. ~(split.chosen.commission + split.chosen.discount > MaxPct)
      BY <2>2 DEF SubmitLead, SplitInvalid
    <3>3. Evaluate(split.chosen) = split.chosen.commission
      BY <3>1, <3>2 DEF Evaluate
    <3>4. Promised = split.chosen.commission
      BY <2>2 DEF Promised, CardIsChoice
    <3>5. QED
      BY <2>2, <3>3, <3>4
  <2>3. QED
    BY <2>1, <2>2
<1>2. sent.split = chosen /\ sent.saw = saw
  OBVIOUS
<1>3. PICK c \in Call : call' = [call EXCEPT ![c] = sent]
  BY DEF SubmitLead, Send
<1>4. call'[c] = sent /\ \A d \in Call \ {c} : call'[d] = call[d]
  BY <1>3 DEF TypeOK
<1> HIDE DEF sent, chosen, saw
<1>5. QED
  BY <1>1, <1>2, <1>4

LEMMA NextPromiseKept == ASSUME TypeOK, PromiseKept, [Next]_vars PROVE PromiseKept'
<1> SUFFICES ASSUME form = "lead", flexible PROVE CardIsChoice' /\ \A c \in Call : SentAsShown(c)'
  BY FormKept DEF PromiseKept
<1>0. CardIsChoice /\ \A c \in Call : SentAsShown(c)
  BY DEF PromiseKept
<1>1. CardIsChoice'
  BY <1>0, NextCardIsChoice
<1>2. ASSUME NEW d \in Call PROVE SentAsShown(d)'
  <2>1. CASE Open \/ Elsewhere
    BY <1>0, <2>1 DEF Open, Elsewhere, SentAsShown, Evaluate
  <2>2. CASE Leaving
    BY <1>0, <2>2, LeavingKeeps DEF SentAsShown, Evaluate
  <2>3. CASE Sending
    BY <1>0, <2>3, LeadIsShown
       DEF Sending, Publish, SubmitPartner, HandleUpdatePixKey, SentAsShown, Evaluate
  <2>4. ASSUME NEW c \in Call, Serving(c) \/ Refuse(c) \/ LoseCall(c) \/ Resuming(c)
        PROVE  SentAsShown(d)'
    <3>1. call[c].at # "unused" /\ Same(c)
      BY <2>4, ServingIs, RefuseIs, LoseCallIs, ResumingSettles, SettleIs DEF UnderWay
    <3>2. QED
      BY <1>0, <3>1 DEF SentAsShown, Same, Evaluate
  <2>5. QED
    BY <2>1, <2>2, <2>3, <2>4, StepKinds
<1>3. QED
  BY <1>1, <1>2

-----------------------------------------------------------------------------
(* A form that nobody left while it was submitting.                        *)

\* What is under way belongs to the form that is open and submitting; a redirect has
\* been started by it alone, after it was done.
Waiting == \A c \in Call : UnderWay(c) => open /\ submitting /\ call[c].live /\ call[c].visit = visit
AloneUnderWay == \A c, d \in Call : UnderWay(c) /\ UnderWay(d) => c = d
LeavesOnce == leave > 0 => open /\ submitting /\ leave = 1 /\ \A c \in Call : ~UnderWay(c)
Attended == ~leftBusy => Waiting /\ AloneUnderWay /\ LeavesOnce

LEMMA LeftBusyStays == ASSUME [Next]_vars, leftBusy PROVE leftBusy'
  BY DEF Next, LeadNext, PartnerNext, PixNext, LeadResume, ProgramResume, vars, history, Open, Close,
         Redirect, ContextFails, Edit, Refuse, LoseCall, MeArrives, ChoosePreset, Customize, SubmitLead,
         Send, Publish, SubmitPartner, HandleUpdatePixKey, ServeLead, ServeProgram, ServePartner,
         UpdatePixKey, RedirectAfter, PixResume, PartnerResume, EnterPage, LeavePage, AnswerTable,
         TableArrives, ProgramsArrive, ConfigArrives

LEMMA NextAttended == ASSUME TypeOK, CallFacts, Attended, [Next]_vars PROVE Attended'
<1> SUFFICES ASSUME ~leftBusy' PROVE Waiting' /\ AloneUnderWay' /\ LeavesOnce'
  BY DEF Attended
<1>0. ~leftBusy
  BY LeftBusyStays
<1>00. Waiting /\ AloneUnderWay /\ LeavesOnce
  BY <1>0 DEF Attended
<1>000. leave \in Nat
  BY DEF TypeOK
<1>1. CASE Open
  BY <1>00, <1>000, <1>1 DEF Open, Waiting, AloneUnderWay, LeavesOnce, UnderWay
<1>2. CASE Leaving
  <2>1. ~open \/ ~submitting \/ Redirect
    BY <1>2 DEF Leaving, Close, LeavePage, TypeOK
  <2>2. \A c \in Call : ~UnderWay(c)
    BY <1>00, <2>1 DEF Waiting, LeavesOnce, Redirect
  <2>3. leave' = 0
    BY <1>00, <1>000, <1>2, <2>1 DEF Leaving, Close, LeavePage, Redirect, LeavesOnce
  <2>4. \A c \in Call : ~UnderWay(c)'
    BY <1>2, <2>2, LeavingKeeps DEF UnderWay
  <2>5. QED
    BY <2>3, <2>4 DEF Waiting, AloneUnderWay, LeavesOnce
<1>3. CASE Sending
  <2>1. PICK c \in Call : Sent(c)
    BY <1>3, SendingSends
  <2>2. /\ open /\ ~submitting /\ submitting' /\ UNCHANGED <<open, visit, leave>>
        /\ call'[c].live /\ call'[c].visit = visit /\ \A d \in Call \ {c} : call'[d] = call[d]
    BY <2>1 DEF Sent
  <2>3. (\A d \in Call : ~UnderWay(d)) /\ ~(leave > 0)
    BY <1>00, <2>2 DEF Waiting, LeavesOnce
  <2>4. \A d \in Call \ {c} : ~UnderWay(d)'
    BY <2>2, <2>3 DEF UnderWay
  <2>5. QED
    BY <2>2, <2>3, <2>4 DEF Waiting, AloneUnderWay, LeavesOnce
<1>4. ASSUME NEW c \in Call, Serving(c) \/ Refuse(c) \/ LoseCall(c)
      PROVE  Waiting' /\ AloneUnderWay' /\ LeavesOnce'
  <2>1. /\ UnderWay(c) /\ UnderWay(c)' /\ call'[c].live = call[c].live /\ Same(c)
        /\ UNCHANGED <<open, visit, submitting, leave>>
    BY <1>4, ServingIs, RefuseIs, LoseCallIs DEF UnderWay
  <2>2. \A d \in Call : (UnderWay(d)' <=> UnderWay(d)) /\ call'[d].live = call[d].live
                        /\ call'[d].visit = call[d].visit
    BY <2>1 DEF UnderWay, Same
  <2>3. QED
    BY <1>00, <2>1, <2>2 DEF Waiting, AloneUnderWay, LeavesOnce
<1>5. ASSUME NEW c \in Call, Resuming(c) PROVE Waiting' /\ AloneUnderWay' /\ LeavesOnce'
  <2>1. call[c].at = "answered" /\ call'[c].at = "done" /\ Same(c)
    BY <1>5, ResumingSettles, SettleIs
  <2>2. UnderWay(c) /\ open /\ submitting /\ call[c].live
    BY <1>00, <2>1 DEF Waiting, UnderWay
  <2>3. \A d \in Call : ~UnderWay(d)'
    BY <1>00, <2>1, <2>2 DEF AloneUnderWay, UnderWay, Same
  <2>4. leave = 0
    BY <1>00, <1>000, <2>2 DEF LeavesOnce
  <2>5. \/ leave' = 0
        \/ leave' = 1 /\ UNCHANGED <<open, submitting>>
    <3>1. CASE RedirectAfter(c)
      <4>1. open' = open
        BY <3>1 DEF RedirectAfter
      <4>2. leave' = leave \/ (leave' = leave + 1 /\ submitting' = submitting)
        BY <3>1, Zenon DEF RedirectAfter
      <4>3. QED
        BY <2>4, <4>1, <4>2
    <3>2. CASE PartnerResume(c) \/ PixResume(c)
      BY <2>4, <3>2 DEF PartnerResume, PixResume
    <3>3. QED
      BY <1>5, <3>1, <3>2 DEF Resuming
  <2>6. LeavesOnce'
    <3>1. CASE leave' = 0
      BY <3>1 DEF LeavesOnce
    <3>2. CASE leave' = 1 /\ UNCHANGED <<open, submitting>>
      <4>1. open' /\ submitting'
        BY <2>2, <3>2, Zenon
      <4>2. QED
        BY <2>3, <3>2, <4>1 DEF LeavesOnce
    <3>3. QED
      BY <2>5, <3>1, <3>2
  <2>7. QED
    BY <2>3, <2>6 DEF Waiting, AloneUnderWay
<1>6. CASE Elsewhere
  BY <1>00, <1>6 DEF Elsewhere, Waiting, AloneUnderWay, LeavesOnce, UnderWay
<1>7. QED
  BY <1>1, <1>2, <1>3, <1>4, <1>5, <1>6, StepKinds

-----------------------------------------------------------------------------
(* The inductive invariant.                                                *)

FormsInvariant ==
    /\ TypeOK /\ CardChosen /\ CallFacts /\ OneAtATime /\ KeyIsLast
    /\ ListedOrReloading /\ PromiseKept /\ Attended

LEMMA InitFormsInvariant == Init => FormsInvariant
<1> SUFFICES ASSUME Init PROVE FormsInvariant
  OBVIOUS
<1>1. \A c \in Call : call[c].at = "unused" /\ call[c].answer = "none" /\ c \notin made
  BY DEF Init, UnusedCall
<1>2. CallFacts
  BY <1>1 DEF CallFacts, CallFact
<1>3. OneAtATime /\ AloneUnderWay /\ Waiting
  BY <1>1 DEF OneAtATime, OnePerVisit, Pending, UnderWay, AloneUnderWay, Waiting
<1>4. KeyIsLast
  BY <1>1 DEF KeyIsLast, LastIsKey, UnderWay, Init
<1>5. ListedOrReloading
  BY DEF ListedOrReloading, Init, Away
<1>6. PromiseKept
  BY <1>1 DEF PromiseKept, CardIsChoice, SplitShown, SentAsShown, Init
<1>7. Attended
  BY <1>3 DEF Attended, LeavesOnce, Init
<1>8. CardChosen
  BY DEF CardChosen, Init, NoChoice, Preset
<1>9. QED
  BY <1>2, <1>3, <1>4, <1>5, <1>6, <1>7, <1>8, InitTypeOK DEF FormsInvariant

LEMMA FormsInvariantHolds == Spec => []FormsInvariant
<1>1. FormsInvariant /\ [Next]_vars => FormsInvariant'
  <2>1. SUFFICES ASSUME FormsInvariant, [Next]_vars PROVE FormsInvariant'
    OBVIOUS
  <2>2. /\ TypeOK /\ CardChosen /\ CallFacts /\ OneAtATime /\ KeyIsLast
        /\ ListedOrReloading /\ PromiseKept /\ Attended
    BY <2>1 DEF FormsInvariant
  <2>3. TypeOK' /\ CardChosen'
    BY <2>1, <2>2, NextTypedForms DEF TypedForms
  <2>4. CallFacts' /\ OneAtATime' /\ KeyIsLast'
    BY <2>1, <2>2, NextCallFacts, NextOneAtATime, NextKeyIsLast
  <2>5. ListedOrReloading' /\ PromiseKept' /\ Attended'
    BY <2>1, <2>2, NextListedOrReloading, NextPromiseKept, NextAttended
  <2>6. QED
    BY <2>3, <2>4, <2>5 DEF FormsInvariant
<1>2. QED
  BY <1>1, InitFormsInvariant, PTL DEF Spec

-----------------------------------------------------------------------------
(* The theorems.                                                           *)

\* Every variable keeps its type: no timer is counted below none, no visit or submission
\* beyond the bounds.
THEOREM TypeCorrect == Spec => []TypeOK
  BY FormsInvariantHolds, PTL DEF FormsInvariant

\* One opening of a form makes one lead, partner or program of what was typed, however
\* many visits and submissions there are, unless an answer was lost.
THEOREM NoTwin == Spec => []NoSilentTwin
<1>1. FormsInvariant => NoSilentTwin
  BY DEF FormsInvariant, TypeOK, OneAtATime, OnePerVisit, Pending, NoSilentTwin
<1>2. QED
  BY <1>1, FormsInvariantHolds, PTL

\* A referral is worth to its partner what the form showed, for every benefit that can
\* be halved.
THEOREM PromisedShare == Spec => []ShareAsPromised
<1>1. FormsInvariant => ShareAsPromised
  <2>1. SUFFICES ASSUME FormsInvariant, form = "lead", flexible, NEW c \in made
                 PROVE  Evaluate(call[c].split) = call[c].saw
    BY DEF ShareAsPromised
  <2>2. c \in Call /\ call[c].at # "unused"
    BY <2>1 DEF FormsInvariant, TypeOK, CallFacts, CallFact
  <2>3. QED
    BY <2>1, <2>2 DEF FormsInvariant, PromiseKept, SentAsShown
<1>2. QED
  BY <1>1, FormsInvariantHolds, PTL

\* A table that is shown has every partner whose creation was announced on its page.
THEOREM Listed == Spec => []CreatedIsListed
<1>1. FormsInvariant => CreatedIsListed
  BY DEF FormsInvariant, ListedOrReloading, CreatedIsListed
<1>2. QED
  BY <1>1, FormsInvariantHolds, PTL

\* With nothing under way the key on the server is the one announced last, if no answer
\* was lost and no two saves met.
THEOREM KeyAsAnnounced == Spec => []AnnouncedKeyStands
<1>1. FormsInvariant => AnnouncedKeyStands
  <2>1. SUFFICES ASSUME FormsInvariant, form = "pix", lostIn = {}, ~overlap,
                        \A c \in Call : ~UnderWay(c)
                 PROVE  key = lastSaid
    BY DEF AnnouncedKeyStands
  <2>2. \A c \in Call : call[c].answer # "ok"
    BY <2>1 DEF FormsInvariant, TypeOK, CallFacts, CallFact, CallState, UnderWay
  <2>3. QED
    BY <2>1, <2>2 DEF FormsInvariant, KeyIsLast, LastIsKey
<1>2. QED
  BY <1>1, FormsInvariantHolds, PTL

\* No step of the program closes a form that is not submitting, unless one was left
\* while it was: the redirect of a submission finds the form it belongs to.
THEOREM OnlyAfterLeaving == Spec => TakenAwayOnlyAfterLeaving
<1> DEFINE Kept == open /\ ~open' /\ (leave' # leave \/ lastSaid' # lastSaid) => submitting \/ leftBusy
<1>1. FormsInvariant /\ [Next]_vars => Kept
  <2>1. SUFFICES ASSUME FormsInvariant, [Next]_vars, open, ~open', ~leftBusy,
                        leave' # leave \/ lastSaid' # lastSaid
                 PROVE  submitting
    OBVIOUS
  <2>2. TypeOK /\ Waiting /\ LeavesOnce
    BY <2>1 DEF FormsInvariant, Attended
  <2>3. CASE Open \/ Elsewhere
    BY <2>1, <2>3 DEF Open, Elsewhere
  <2>4. CASE Leaving
    BY <2>1, <2>2, <2>4 DEF Leaving, Close, LeavePage, Redirect, LeavesOnce
  <2>5. CASE Sending
    BY <2>1, <2>2, <2>5, SendingSends DEF Sent
  <2>6. ASSUME NEW c \in Call, Serving(c) \/ Refuse(c) \/ LoseCall(c) PROVE submitting
    BY <2>1, <2>2, <2>6, ServingIs, RefuseIs, LoseCallIs
  <2>7. ASSUME NEW c \in Call, Resuming(c) PROVE submitting
    <3>1. UnderWay(c)
      BY <2>2, <2>7, ResumingSettles, SettleIs DEF UnderWay
    <3>2. QED
      BY <2>2, <3>1 DEF Waiting
  <2>8. QED
    BY <2>1, <2>3, <2>4, <2>5, <2>6, <2>7, StepKinds
<1>2. QED
  BY <1>1, FormsInvariantHolds, PTL DEF Spec, TakenAwayOnlyAfterLeaving

-----------------------------------------------------------------------------
(* A form that is submitting has something to wait for.                    *)

\* Its own submission, whose answer will enable the button or start the redirect, or a
\* redirect whose timer is running.
WayOut == leave > 0 \/ \E c \in Call : UnderWay(c) /\ Mine(c)
NeverStranded == submitting => open /\ WayOut

\* The answer to a submission of this visit enables the button, starts the timer or
\* closes the form; the answer to another leaves the form alone or closes it.
LEMMA ResumingFrees ==
    ASSUME TypeOK, NEW c \in Call, Resuming(c), submitting'
    PROVE  open' = open /\ submitting /\ (leave' = leave + 1 \/ (leave' = leave /\ ~Mine(c)))
<1>1. CASE RedirectAfter(c)
  <2>1. open' = open
    BY <1>1 DEF RedirectAfter
  <2>2. CASE leave' = leave + 1 /\ UNCHANGED submitting
    BY <2>1, <2>2
  <2>3. CASE leave' = leave /\ submitting' = IF Mine(c) THEN FALSE ELSE submitting
    BY <2>1, <2>3
  <2>4. QED
    BY <1>1, <2>2, <2>3, Zenon DEF RedirectAfter
<1>2. CASE PartnerResume(c)
  <2>1. CASE Dropped
    BY <2>1 DEF Dropped
  <2>2. CASE ~call[c].live /\ UNCHANGED <<open, submitting, leave>>
    BY <2>2 DEF Mine
  <2>3. CASE UNCHANGED <<open, leave>> /\ submitting' = IF Mine(c) THEN FALSE ELSE submitting
    BY <2>3
  <2>4. QED
    BY <1>2, <2>1, <2>2, <2>3 DEF PartnerResume, fields
<1>3. CASE PixResume(c)
  BY <1>3 DEF PixResume
<1>4. QED
  BY <1>1, <1>2, <1>3 DEF Resuming

LEMMA NextNeverStranded == ASSUME TypeOK, NeverStranded, [Next]_vars PROVE NeverStranded'
<1> SUFFICES ASSUME submitting' PROVE open' /\ WayOut'
  BY DEF NeverStranded
<1>0. leave \in Nat
  BY DEF TypeOK
<1>1. CASE Open
  BY <1>1 DEF Open, NeverStranded
<1>2. CASE Leaving
  <2>1. Dropped
    BY <1>2 DEF Leaving, Close, LeavePage, Redirect
  <2>2. QED
    BY <2>1 DEF Dropped
<1>3. CASE Sending
  <2>1. PICK c \in Call : Sent(c)
    BY <1>3, SendingSends
  <2>2. open' /\ UnderWay(c)' /\ Mine(c)'
    BY <2>1 DEF Sent, UnderWay, Mine
  <2>3. QED
    BY <2>2 DEF WayOut
<1>4. ASSUME NEW c \in Call, Serving(c) \/ Refuse(c) \/ LoseCall(c) PROVE open' /\ WayOut'
  <2>1. /\ UnderWay(c) /\ UnderWay(c)' /\ call'[c].live = call[c].live /\ Same(c)
        /\ UNCHANGED <<open, visit, submitting, leave>>
    BY <1>4, ServingIs, RefuseIs, LoseCallIs DEF UnderWay
  <2>2. \A d \in Call : UnderWay(d) /\ Mine(d) => UnderWay(d)' /\ Mine(d)'
    BY <2>1 DEF UnderWay, Mine, Same
  <2>3. open /\ WayOut
    BY <2>1 DEF NeverStranded
  <2>4. QED
    BY <2>1, <2>2, <2>3 DEF WayOut
<1>5. ASSUME NEW c \in Call, Resuming(c) PROVE open' /\ WayOut'
  <2>1. Same(c) /\ UNCHANGED visit
    BY <1>5, ResumingSettles, SettleIs
  <2>2. open' = open /\ submitting /\ (leave' = leave + 1 \/ (leave' = leave /\ ~Mine(c)))
    BY <1>5, ResumingFrees
  <2>3. \A d \in Call \ {c} : UnderWay(d) /\ Mine(d) => UnderWay(d)' /\ Mine(d)'
    BY <2>1, <2>2 DEF UnderWay, Mine, Same
  <2>4. open /\ WayOut
    BY <2>2 DEF NeverStranded
  <2>5. QED
    BY <1>0, <2>2, <2>3, <2>4 DEF WayOut
<1>6. CASE Elsewhere
  BY <1>6 DEF Elsewhere, NeverStranded, WayOut, UnderWay, Mine
<1>7. QED
  BY <1>1, <1>2, <1>3, <1>4, <1>5, <1>6, StepKinds

\* The part of SubmissionEnds that needs no fairness: a disabled button belongs to a
\* request under way whose answer the form will hear, or to a redirect that is coming;
\* no refusal, lost answer, late answer of another visit or reload strands it.
THEOREM SubmittingHasAWayOut == Spec => []NeverStranded
<1>1. Init => NeverStranded
  BY DEF Init, NeverStranded
<1>2. FormsInvariant /\ NeverStranded /\ [Next]_vars => NeverStranded'
  BY NextNeverStranded DEF FormsInvariant
<1>3. QED
  BY <1>1, <1>2, FormsInvariantHolds, PTL DEF Spec
=============================================================================
