------------------------------ MODULE LeadForm ------------------------------
(***************************************************************************)
(* /parceiro/indicacoes/nova: a partner refers somebody and, in a program  *)
(* with a flexible split, chooses how the benefit is divided between the   *)
(* commission and a discount.  Percentages are counted in a unit of which  *)
(* MaxPct is an even multiple, so that half of it is exact.                *)
(***************************************************************************)
EXTENDS Forms

\* presets of the page: what each card shows, and what it stands for.
Build(preset) ==
    CASE preset = "all_commission" -> [commission |-> MaxPct, discount |-> 0]
      [] preset = "half"           -> [commission |-> MaxPct \div 2, discount |-> MaxPct \div 2]
      [] preset = "all_discount"   -> [commission |-> 0, discount |-> MaxPct]

\* isFlexible: the choice is on the screen once me has arrived.
SplitShown == form = "lead" /\ open /\ context = "ready" /\ flexible

\* me arrives; the effect fills in the preset that is selected.
MeArrives ==
    /\ form = "lead"
    /\ open
    /\ context = "loading"
    /\ context' = "ready"
    /\ split' = IF flexible THEN [split EXCEPT !.chosen = Build(split.card)] ELSE split
    /\ UNCHANGED <<form, flexible, open, visit, subject, submitting, call, leave, table,
                   made, key, said, lastSaid, history>>

\* The effect does not depend on the preset.
ChoosePresetFault(preset) ==
    /\ SplitShown
    /\ split' = [split EXCEPT !.card = preset]
    /\ UNCHANGED <<form, flexible, open, visit, context, subject, submitting, call, leave, table,
                   made, key, said, lastSaid, history>>

ChoosePreset(preset) ==
    /\ SplitShown
    /\ split' = [card |-> preset, chosen |-> Build(preset)]
    /\ UNCHANGED <<form, flexible, open, visit, context, subject, submitting, call, leave, table,
                   made, key, said, lastSaid, history>>

\* Personalizar keeps the values of the card, and the two inputs change them one at a
\* time; a value outside 0..MaxPct cannot be submitted.
Customize(chosen) ==
    /\ SplitShown
    /\ chosen.commission = split.chosen.commission \/ chosen.discount = split.chosen.discount
    /\ split.card = "custom" \/ chosen = split.chosen
    /\ split' = [card |-> "custom", chosen |-> chosen]
    /\ UNCHANGED <<form, flexible, open, visit, context, subject, submitting, call, leave, table,
                   made, key, said, lastSaid, history>>

SplitInvalid == SplitShown /\ split.chosen.commission + split.chosen.discount > MaxPct

\* The share of a sale the form promises its partner: a card's, or the typed one.
Promised == IF split.card = "custom" THEN split.chosen.commission ELSE Build(split.card).commission

\* A choice above the benefit can be submitted.
SubmitLeadFault ==
    /\ form = "lead"
    /\ open /\ ~submitting
    /\ subject # Blank
    /\ submitting' = TRUE
    /\ Send(IF SplitShown THEN split.chosen ELSE NoSplit, IF SplitShown THEN Promised ELSE MaxPct)

\* handleSubmit: without me there is no split_choice, and the program's default applies.
SubmitLead ==
    /\ form = "lead"
    /\ open /\ ~submitting
    /\ subject # Blank
    /\ ~SplitInvalid
    /\ submitting' = TRUE
    /\ Send(IF SplitShown THEN split.chosen ELSE NoSplit, IF SplitShown THEN Promised ELSE MaxPct)

\* CreateLead: one referral per request, whether or not the phone is known.
ServeLead(c) ==
    /\ form = "lead"
    /\ call[c].at = "sent"
    /\ Answer(c, "ok")
    /\ made' = made \cup {c}
    /\ UNCHANGED <<form, flexible, open, visit, context, fields, submitting, leave, table,
                   key, said, lastSaid, history>>

LeadResume(c) == form = "lead" /\ RedirectAfter(c)

\* FlexibleSplitEvaluator, on the sale of a referral: the partner's share, or a refusal.
Refused == -1
Evaluate(chosen) ==
    IF chosen = NoSplit THEN MaxPct
    ELSE IF chosen.commission + chosen.discount > MaxPct THEN Refused
    ELSE chosen.commission

LeadNext ==
    \/ MeArrives
    \/ \E preset \in Preset : ChoosePreset(preset)
    \/ \E chosen \in Split : Customize(chosen)
    \/ SubmitLead
    \/ \E c \in Call : ServeLead(c) \/ LeadResume(c)
=============================================================================
