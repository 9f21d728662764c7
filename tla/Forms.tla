-------------------------------- MODULE Forms --------------------------------
(***************************************************************************)
(* What the forms of the two applications share: a browser tab that opens  *)
(* one of them again and again, the request each submission sends, and     *)
(* what the server keeps of it.                                            *)
(*                                                                         *)
(* A submission is an async function: it disables the button, sends its    *)
(* request, and goes on when fetch settles, even if the form has been left *)
(* in the meantime.  What it then does to a form that is not mounted is    *)
(* nothing, but its timer still redirects the tab.  Fields other than the  *)
(* one that names the thing to be made are left out, and so are texts and  *)
(* toasts; React applies an effect in the step of the render it follows.   *)
(*                                                                         *)
(* A definition whose name ends in Fault is a plausible mistake in the     *)
(* definition that follows it; no specification uses one.                  *)
(***************************************************************************)
EXTENDS Integers, FiniteSets

CONSTANTS Phone,       \* of the people a partner may refer
          Program,     \* names a program may be given
          Invitee,     \* partners that may be invited
          Contactless, \* those with neither an e-mail nor a phone
          PixKey,      \* keys that validatePixKey accepts
          MaxSubmits,  \* bound: submissions of one run
          MaxVisits,   \* bound: times the form is opened
          MaxPct,      \* the benefit a flexible program lets its partners split
          Blank, NoSplit

ASSUME FormsAssumption ==
    /\ Contactless \subseteq Invitee
    /\ Blank \notin Phone \cup Program \cup Invitee \cup PixKey
    /\ MaxSubmits \in Nat \ {0}
    /\ MaxVisits \in Nat \ {0}
    /\ MaxPct \in Nat \ {0}
    /\ MaxPct % 2 = 0
    /\ NoSplit \notin [commission: 0..MaxPct, discount: 0..MaxPct]

VARIABLES form,        \* the form this tab works with
          flexible,    \* the program of the partner is a flexible_split
          open,        \* the form is mounted
          visit,       \* how often it has been opened
          context,     \* what it loads when mounted: me, or the programs
          subject,     \* what its fields say
          split,       \* the choice of /indicacoes/nova
          submitting,  \* isLoading, submitting or pixSaving
          call,        \* the submissions
          leave,       \* redirects whose timer is running
          table,       \* the list behind the sheet of /parceiros
          made,        \* the submissions the server has made a row of
          key,         \* partners.pix_key: the submission that set it, or 0
          said,        \* the submissions whose success was shown on their page
          lastSaid,    \* the last submission whose success was told, or 0
          lostIn,      \* history: visits with an answer that was lost
          overlap,     \* history: two submissions have been under way at once
          leftBusy     \* history: a form was left while it was submitting

fields == <<subject, split>>
history == <<lostIn, overlap, leftBusy>>
vars == <<form, flexible, open, visit, context, fields, submitting, call, leave, table,
          made, key, said, lastSaid, history>>

Call == 1..MaxSubmits
Form == {"lead", "program", "partner", "pix"}
Typed(f) == CASE f = "lead" -> Phone [] f = "program" -> Program
              [] f = "partner" -> Invitee [] f = "pix" -> PixKey
Subject == Phone \cup Program \cup Invitee \cup PixKey
Preset == {"all_commission", "half", "all_discount"}
Split == [commission: 0..MaxPct, discount: 0..MaxPct]
CallState == [at: {"unused", "sent", "answered", "done"}, visit: 0..MaxVisits,
              subject: Subject \cup {Blank}, split: Split \cup {NoSplit}, saw: 0..MaxPct,
              live: BOOLEAN, answer: {"none", "ok", "refused", "lost"}]
UnusedCall == [at |-> "unused", visit |-> 0, subject |-> Blank, split |-> NoSplit, saw |-> 0,
               live |-> FALSE, answer |-> "none"]
TableState == [at: {"away", "loading", "shown", "failed"}, answered: BOOLEAN, rows: SUBSET Call]

TypeOK ==
    /\ form \in Form
    /\ flexible \in BOOLEAN
    /\ open \in BOOLEAN
    /\ visit \in 0..MaxVisits
    /\ context \in {"loading", "ready", "failed"}
    /\ subject \in Subject \cup {Blank}
    /\ split \in [card: Preset \cup {"custom"}, chosen: Split]
    /\ submitting \in BOOLEAN
    /\ call \in [Call -> CallState]
    /\ leave \in Nat
    /\ table \in TableState
    /\ made \subseteq Call
    /\ key \in 0..MaxSubmits
    /\ said \subseteq Call
    /\ lastSaid \in 0..MaxSubmits
    /\ lostIn \subseteq 0..MaxVisits
    /\ overlap \in BOOLEAN
    /\ leftBusy \in BOOLEAN

\* The submission whose answer may still change the form that is open.
Mine(c) == open /\ call[c].live /\ call[c].visit = visit
UnderWay(c) == call[c].at \in {"sent", "answered"}

-----------------------------------------------------------------------------
(* Opening and leaving.                                                    *)

NoChoice == [card |-> "all_commission", chosen |-> [commission |-> 0, discount |-> 0]]
Away == [at |-> "away", answered |-> FALSE, rows |-> {}]

Init ==
    /\ form \in Form
    /\ flexible \in {FALSE, form = "lead"}
    /\ open = FALSE /\ visit = 0
    /\ context = "loading"
    /\ subject = Blank /\ split = NoChoice
    /\ submitting = FALSE
    /\ call = [c \in Call |-> UnusedCall]
    /\ leave = 0
    /\ table = Away
    /\ made = {} /\ key = 0 /\ said = {} /\ lastSaid = 0
    /\ lostIn = {} /\ overlap = FALSE /\ leftBusy = FALSE

\* React drops the state of what is unmounted: each visit starts from blank fields, and
\* loads its context again.
Dropped ==
    /\ open' = FALSE
    /\ context' = "loading"
    /\ subject' = Blank /\ split' = NoChoice
    /\ submitting' = FALSE

Open ==
    /\ ~open
    /\ visit < MaxVisits
    /\ form = "partner" => table.at # "away"
    /\ open' = TRUE
    /\ visit' = visit + 1
    /\ context' = IF form = "program" THEN "ready" ELSE "loading"
    /\ UNCHANGED <<form, flexible, fields, submitting, call, leave, table,
                   made, key, said, lastSaid, history>>

\* Leaving takes back a redirect, whether or not its timer is running.
CloseFault ==
    /\ open
    /\ Dropped
    /\ leave' = leave - 1
    /\ leftBusy' = (leftBusy \/ submitting)
    /\ UNCHANGED <<form, flexible, visit, call, table, made, key, said, lastSaid, lostIn, overlap>>

\* The user goes elsewhere, or cancels; nothing is asked for, even while it submits.
Close ==
    /\ open
    /\ Dropped
    /\ leftBusy' = (leftBusy \/ submitting)
    /\ UNCHANGED <<form, flexible, visit, call, leave, table,
                   made, key, said, lastSaid, lostIn, overlap>>

\* The settings page has no field before me has arrived.
Edit(s) ==
    /\ open
    /\ form = "pix" => context = "ready"
    /\ s \in Typed(form) \ {subject}
    /\ subject' = s
    /\ UNCHANGED <<form, flexible, open, visit, context, split, submitting, call, leave, table,
                   made, key, said, lastSaid, history>>

\* A context that does not load is replaced by nothing: null, or an empty list.
ContextFails ==
    /\ open
    /\ context = "loading"
    /\ context' = "failed"
    /\ UNCHANGED <<form, flexible, open, visit, fields, submitting, call, leave, table,
                   made, key, said, lastSaid, history>>

-----------------------------------------------------------------------------
(* One submission.                                                         *)

\* The request is sent and the function waits.  chosen is the split it carries, saw the
\* commission the form shows.
Send(chosen, saw) ==
    \E c \in Call :
       /\ call[c].at = "unused"
       /\ \A d \in Call : d < c => call[d].at # "unused"
       /\ call' = [call EXCEPT ![c] = [at |-> "sent", visit |-> visit, subject |-> subject,
                                       split |-> chosen, saw |-> saw, live |-> TRUE,
                                       answer |-> "none"]]
       /\ overlap' = (overlap \/ \E d \in Call : UnderWay(d))
       /\ UNCHANGED <<form, flexible, open, visit, context, fields, leave, table,
                      made, key, said, lastSaid, lostIn, leftBusy>>

\* The server answers c; refusing it has no effect on its tables.
Answer(c, answer) == call' = [call EXCEPT ![c].at = "answered", ![c].answer = answer]

Refuse(c) ==
    /\ call[c].at = "sent"
    /\ Answer(c, "refused")
    /\ UNCHANGED <<form, flexible, open, visit, context, fields, submitting, leave, table,
                   made, key, said, lastSaid, history>>

\* fetch rejects: the request did not reach the server, or its answer is lost.
LoseCall(c) ==
    /\ UnderWay(c)
    /\ call[c].answer # "lost"
    /\ Answer(c, "lost")
    /\ lostIn' = lostIn \cup {call[c].visit}
    /\ UNCHANGED <<form, flexible, open, visit, context, fields, submitting, leave, table,
                   made, key, said, lastSaid, overlap, leftBusy>>

\* The function goes on after its await.
Settle(c) ==
    /\ call[c].at = "answered"
    /\ call' = [call EXCEPT ![c] = [UnusedCall EXCEPT !.at = "done", !.visit = call[c].visit,
                                       !.subject = call[c].subject, !.split = call[c].split,
                                       !.saw = call[c].saw]]

\* The end of handleSubmit and of publish: on success the button stays disabled until
\* the timer, which nothing cancels, has left the page.
RedirectAfterFault(c) ==
    /\ Settle(c)
    /\ submitting' = IF Mine(c) THEN FALSE ELSE submitting
    /\ leave' = IF call[c].answer = "ok" THEN leave + 1 ELSE leave
    /\ lastSaid' = IF call[c].answer = "ok" THEN c ELSE lastSaid
    /\ UNCHANGED <<form, flexible, open, visit, context, fields, table, made, key, said, history>>

RedirectAfter(c) ==
    /\ Settle(c)
    /\ \/ /\ call[c].answer = "ok"
          /\ leave' = leave + 1
          /\ lastSaid' = c
          /\ UNCHANGED submitting
       \/ /\ call[c].answer # "ok"
          /\ submitting' = IF Mine(c) THEN FALSE ELSE submitting
          /\ UNCHANGED <<leave, lastSaid>>
    /\ UNCHANGED <<form, flexible, open, visit, context, fields, table, made, key, said, history>>

\* router.push: whatever the tab shows is left.
Redirect ==
    /\ leave > 0
    /\ leave' = leave - 1
    /\ Dropped
    /\ UNCHANGED <<form, flexible, visit, call, table, made, key, said, lastSaid, history>>
=============================================================================
