----------------------------- MODULE PartnerForm -----------------------------
(***************************************************************************)
(* /parceiros: the table of partners and the sheet that adds one.  The     *)
(* table is given a new key after each creation: React mounts another,     *)
(* which loads the list again, and the answer the old one waits for is     *)
(* dropped with it.                                                        *)
(***************************************************************************)
EXTENDS Forms

Loading == [at |-> "loading", answered |-> FALSE, rows |-> {}]

\* The page is opened, and left with everything on it.
EnterPage ==
    /\ form = "partner"
    /\ table.at = "away"
    /\ table' = Loading
    /\ UNCHANGED <<form, flexible, open, visit, context, fields, submitting, call, leave,
                   made, key, said, lastSaid, history>>

LeavePage ==
    /\ form = "partner"
    /\ table.at # "away"
    /\ table' = Away
    /\ Dropped
    /\ call' = [c \in Call |-> [call[c] EXCEPT !.live = FALSE]]
    /\ leftBusy' = (leftBusy \/ (open /\ submitting))
    /\ UNCHANGED <<form, flexible, visit, leave, made, key, said, lastSaid, lostIn, overlap>>

AnswerTable ==
    /\ table.at = "loading"
    /\ ~table.answered
    /\ table' = [table EXCEPT !.answered = TRUE, !.rows = made]
    /\ UNCHANGED <<form, flexible, open, visit, context, fields, submitting, call, leave,
                   made, key, said, lastSaid, history>>

TableArrives ==
    /\ table.at = "loading"
    /\ \/ /\ table.answered
          /\ table' = [table EXCEPT !.at = "shown", !.answered = FALSE]
       \/ table' = [Loading EXCEPT !.at = "failed"]
    /\ UNCHANGED <<form, flexible, open, visit, context, fields, submitting, call, leave,
                   made, key, said, lastSaid, history>>

\* The first program of the list is selected; a tenant without one cannot submit.
ProgramsArrive ==
    /\ form = "partner"
    /\ open
    /\ context = "loading"
    /\ context' = "ready"
    /\ UNCHANGED <<form, flexible, open, visit, fields, submitting, call, leave, table,
                   made, key, said, lastSaid, history>>

SubmitPartner ==
    /\ form = "partner"
    /\ open /\ ~submitting
    /\ context = "ready"
    /\ subject # Blank
    /\ submitting' = TRUE
    /\ Send(NoSplit, 0)

\* The unique indexes on the hashes of e-mail and phone do not apply to NULL.
Known(s) == s \notin Contactless /\ \E d \in made : call[d].subject = s

\* AdminCreate.
ServePartner(c) ==
    /\ form = "partner"
    /\ call[c].at = "sent"
    /\ ~Known(call[c].subject)
    /\ Answer(c, "ok")
    /\ made' = made \cup {c}
    /\ UNCHANGED <<form, flexible, open, visit, context, fields, submitting, leave, table,
                   key, said, lastSaid, history>>

\* The sheet closes; the table is not told.
PartnerResumeFault(c) ==
    /\ form = "partner"
    /\ Settle(c)
    /\ \/ /\ call[c].answer = "ok" /\ call[c].live
          /\ Dropped
          /\ lastSaid' = c /\ said' = said \cup {c}
       \/ /\ call[c].answer = "ok" /\ ~call[c].live
          /\ lastSaid' = c
          /\ UNCHANGED <<open, context, fields, submitting, said>>
       \/ /\ call[c].answer # "ok"
          /\ submitting' = IF Mine(c) THEN FALSE ELSE submitting
          /\ UNCHANGED <<open, context, fields, said, lastSaid>>
    /\ UNCHANGED <<form, flexible, visit, leave, table, made, key, history>>

\* onCreated and onClose: the table is mounted anew, and the sheet that is open by now,
\* this one or another, is closed.
PartnerResume(c) ==
    /\ form = "partner"
    /\ Settle(c)
    /\ \/ /\ call[c].answer = "ok" /\ call[c].live
          /\ table' = Loading
          /\ Dropped
          /\ lastSaid' = c /\ said' = said \cup {c}
       \/ /\ call[c].answer = "ok" /\ ~call[c].live
          /\ lastSaid' = c
          /\ UNCHANGED <<open, context, fields, submitting, table, said>>
       \/ /\ call[c].answer # "ok"
          /\ submitting' = IF Mine(c) THEN FALSE ELSE submitting
          /\ UNCHANGED <<open, context, fields, table, said, lastSaid>>
    /\ UNCHANGED <<form, flexible, visit, leave, made, key, history>>

PartnerNext ==
    \/ EnterPage \/ LeavePage \/ AnswerTable \/ TableArrives
    \/ ProgramsArrive
    \/ SubmitPartner
    \/ \E c \in Call : ServePartner(c) \/ PartnerResume(c)
=============================================================================
