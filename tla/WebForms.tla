------------------------------ MODULE WebForms ------------------------------
(***************************************************************************)
(* The forms that make something, each with the handler of the server it   *)
(* talks to.  The form of /programas/novo is here as a submission; what it *)
(* sends is module ProgramWizard.                                          *)
(***************************************************************************)
EXTENDS LeadForm, PartnerForm, PixForm

\* publish: the name is checked first, the rules by the server alone.
Publish ==
    /\ form = "program"
    /\ open /\ ~submitting
    /\ subject # Blank
    /\ submitting' = TRUE
    /\ Send(NoSplit, 0)

\* Create: nothing makes a program unique.
ServeProgram(c) ==
    /\ form = "program"
    /\ call[c].at = "sent"
    /\ Answer(c, "ok")
    /\ made' = made \cup {c}
    /\ UNCHANGED <<form, flexible, open, visit, context, fields, submitting, leave, table,
                   key, said, lastSaid, history>>

ProgramResume(c) == form = "program" /\ RedirectAfter(c)

Next ==
    \/ Open \/ Close \/ ContextFails \/ Redirect
    \/ \E s \in Subject : Edit(s)
    \/ \E c \in Call : Refuse(c) \/ LoseCall(c)
    \/ LeadNext
    \/ Publish
    \/ \E c \in Call : ServeProgram(c) \/ ProgramResume(c)
    \/ PartnerNext
    \/ PixNext

\* fetch settles, with an answer or without one; the event loop runs what is ready.
Settles(c) == Refuse(c) \/ LoseCall(c) \/ ServeLead(c) \/ ServeProgram(c) \/ ServePartner(c) \/ UpdatePixKey(c)
Resumes(c) == LeadResume(c) \/ ProgramResume(c) \/ PartnerResume(c) \/ PixResume(c)
Fairness ==
    /\ \A c \in Call : WF_vars(Settles(c) /\ call[c].at = "sent") /\ WF_vars(Resumes(c))
    /\ WF_vars(Redirect)

Spec == Init /\ [][Next]_vars /\ Fairness

-----------------------------------------------------------------------------
(* Properties.                                                             *)

\* One opening of a form makes one lead, one partner or one program of what was typed,
\* however often the button is pressed and however late the answers are; unless an
\* answer was lost, when the user is told of a failure and may try again.
NoSilentTwin ==
    form # "pix" =>
        \A c, d \in made :
            c # d /\ call[c].visit = call[d].visit /\ call[c].subject = call[d].subject
                => call[c].visit \in lostIn

\* What a partner is paid of a sale is what the form promised when it was submitted: the
\* card, the typed value, or the whole benefit if the choice was not on the screen.  In
\* particular no referral carries a split its sale would be refused for.
ShareAsPromised ==
    form = "lead" /\ flexible => \A c \in made : Evaluate(call[c].split) = call[c].saw

\* The table of partners, once loaded, has every partner whose creation was announced
\* on the page, although the list is loaded anew while others are being created.
CreatedIsListed == table.at = "shown" => said \subseteq table.rows

\* With nothing under way, the key on the server is the last one announced as saved,
\* provided that no answer was lost and that no save was left under way by an earlier
\* visit of the page.
AnnouncedKeyStands ==
    form = "pix" /\ lostIn = {} /\ ~overlap /\ (\A c \in Call : ~UnderWay(c)) => key = lastSaid

\* The program never takes a form away from a user who may be typing in it, except
\* because of a form that was left while it was submitting.
TakenAwayOnlyAfterLeaving ==
    [][open /\ ~open' /\ (leave' # leave \/ lastSaid' # lastSaid) => submitting \/ leftBusy]_vars

\* A form that is submitting is left, closed or enabled again, on every path.
SubmissionEnds == open /\ submitting ~> ~open \/ ~submitting
=============================================================================
