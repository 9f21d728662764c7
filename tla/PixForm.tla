------------------------------- MODULE PixForm -------------------------------
(***************************************************************************)
(* /parceiro/configuracoes: the key the partner is paid to.  A key that    *)
(* validatePixKey refuses is not sent: no step.  The server may still      *)
(* refuse one, its pattern for e-mails is the narrower.                    *)
(***************************************************************************)
EXTENDS Forms

\* Until me has arrived, and if it does not, the page has no form.
ConfigArrives ==
    /\ form = "pix"
    /\ open
    /\ context = "loading"
    /\ context' = "ready"
    /\ subject' = Blank
    /\ UNCHANGED <<form, flexible, open, visit, split, submitting, call, leave, table,
                   made, key, said, lastSaid, history>>

\* The button is not disabled while a key is being saved.
HandleUpdatePixKeyFault ==
    /\ form = "pix"
    /\ open
    /\ context = "ready"
    /\ subject # Blank
    /\ submitting' = TRUE
    /\ \E c \in Call :
          /\ call[c].at = "unused"
          /\ \A d \in Call : d < c => call[d].at # "unused"
          /\ call' = [call EXCEPT ![c] = [UnusedCall EXCEPT !.at = "sent", !.visit = visit,
                                             !.subject = subject, !.live = TRUE]]
    /\ UNCHANGED <<form, flexible, open, visit, context, fields, leave, table,
                   made, key, said, lastSaid, history>>

HandleUpdatePixKey ==
    /\ form = "pix"
    /\ open /\ ~submitting
    /\ context = "ready"
    /\ subject # Blank
    /\ submitting' = TRUE
    /\ Send(NoSplit, 0)

\* UpdatePixKey: the last request the server works on wins.
UpdatePixKey(c) ==
    /\ form = "pix"
    /\ call[c].at = "sent"
    /\ Answer(c, "ok")
    /\ made' = made \cup {c}
    /\ key' = c
    /\ UNCHANGED <<form, flexible, open, visit, context, fields, submitting, leave, table,
                   said, lastSaid, history>>

\* pixSaving is cleared on success only.
PixResumeFault(c) ==
    /\ form = "pix"
    /\ Settle(c)
    /\ lastSaid' = IF call[c].answer = "ok" THEN c ELSE lastSaid
    /\ subject' = IF call[c].answer = "ok" /\ Mine(c) THEN Blank ELSE subject
    /\ submitting' = IF call[c].answer = "ok" /\ Mine(c) THEN FALSE ELSE submitting
    /\ UNCHANGED <<form, flexible, open, visit, context, split, leave, table, made, key, said, history>>

\* On success the field is blanked, whatever has been typed there since; finally, the
\* button is enabled again.
PixResume(c) ==
    /\ form = "pix"
    /\ Settle(c)
    /\ lastSaid' = IF call[c].answer = "ok" THEN c ELSE lastSaid
    /\ subject' = IF call[c].answer = "ok" /\ Mine(c) THEN Blank ELSE subject
    /\ submitting' = IF Mine(c) THEN FALSE ELSE submitting
    /\ UNCHANGED <<form, flexible, open, visit, context, split, leave, table, made, key, said, history>>

PixNext ==
    \/ ConfigArrives
    \/ HandleUpdatePixKey
    \/ \E c \in Call : UpdatePixKey(c) \/ PixResume(c)
=============================================================================
