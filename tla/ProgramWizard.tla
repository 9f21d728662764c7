---------------------------- MODULE ProgramWizard ----------------------------
(***************************************************************************)
(* /programas/novo: the draft of a program, the lines of its TierBuilder,  *)
(* the preview under them, the rules that are sent, and what the server's  *)
(* rules package accepts and later pays.  The draft knows lines by ranges  *)
(* of a metric; the server knows one reward, so the page flattens them.    *)
(*                                                                         *)
(* The request is built from the draft of the render the button belongs    *)
(* to, so the click and the server's answer are one step here; how answers *)
(* are lost, late or repeated is module WebForms.  Percentages are in      *)
(* whole points and amounts in whole reais: nothing is rounded.  What is   *)
(* passed on unchanged is left out (description, window, payout); so is    *)
(* the metric, which only the preview uses.                                *)
(*                                                                         *)
(* A definition whose name ends in Fault is a plausible mistake in the     *)
(* definition that follows it; no specification uses one.                  *)
(***************************************************************************)
EXTENDS Integers, Sequences

CONSTANTS Number,    \* numbers a user may type as a value
          Bound,     \* numbers a user may type as a bound of a range
          Sale,      \* amounts of sales, in reais
          MaxTiers,  \* bound: lines of a draft
          MaxFrom,   \* bound: the starts "Adicionar Regra" counts up to
          NoName,    \* the name of a product that has not been typed
          Brinde,    \* another one
          Open,      \* null: a range without an end
          NoProgram

ASSUME WizardAssumption ==
    /\ Number \subseteq Int
    /\ Bound \subseteq Int
    /\ Sale \subseteq Nat
    /\ MaxTiers \in Nat
    /\ MaxFrom \in Nat
    /\ NoName \notin Int /\ Brinde \notin Int /\ Open \notin Int

VARIABLES preset,   \* the kind of program that is selected
          tiers,    \* the lines of the TierBuilder, kept while they are hidden
          flexMax,  \* flexMaxPct
          trigger,  \* quandoPagar
          program   \* the program the server has made, with the draft it was made of

vars == <<preset, tiers, flexMax, trigger, program>>

Presets == {"commission", "recurring", "goal", "flexible_split"}
RewardTypes == {"commission_pct", "commission_fixed", "product", "points"}
Triggers == {"sale.confirmed", "payment.confirmed", "manual"}
Product == {NoName, Brinde}
Tier == [from: Int, to: Int \cup {Open}, reward_type: RewardTypes, reward_value: Int \cup Product]
Rules == [type: {"commission_pct", "commission_fixed", "recurring_commission", "goal_based", "flexible_split"},
          value: Int, trigger: Triggers]
Published == [preset: Presets, shown: Seq(Tier), flexMax: Int, rules: Rules]

\* A line holds the name of a product if it promises a product, and a number otherwise:
\* what is sent is never a value that was typed for another type of reward.
ValueFitsType ==
    \A i \in 1..Len(tiers) :
       tiers[i].reward_value \in (IF tiers[i].reward_type = "product" THEN Product ELSE Int)

TypeOK ==
    /\ preset \in Presets
    /\ tiers \in Seq(Tier)
    /\ ValueFitsType
    /\ flexMax \in Int
    /\ trigger \in Triggers
    /\ program \in Published \cup {NoProgram}

-----------------------------------------------------------------------------
(* The draft.                                                              *)

DefaultTiersFor(p) ==
    CASE p = "commission" ->
           <<[from |-> 0, to |-> Open, reward_type |-> "commission_pct", reward_value |-> 10]>>
      [] p = "recurring" ->
           <<[from |-> 0, to |-> Open, reward_type |-> "commission_pct", reward_value |-> 15]>>
      [] p = "goal" ->
           <<[from |-> 0, to |-> 4, reward_type |-> "commission_fixed", reward_value |-> 0],
             [from |-> 5, to |-> Open, reward_type |-> "product", reward_value |-> Brinde]>>
      [] OTHER -> <<>>

\* The page is left once the program is published: what is edited later is lost.
Editing == program = NoProgram
Tiered == preset # "flexible_split"

Init ==
    /\ preset = "commission"
    /\ tiers = DefaultTiersFor("commission")
    /\ flexMax = 20
    /\ trigger = "sale.confirmed"
    /\ program = NoProgram

\* The lines of a flexible program are hidden, not dropped; every other choice replaces
\* them by its own.
HandlePresetChange(next) ==
    /\ Editing
    /\ preset # next
    /\ preset' = next
    /\ tiers' = IF next = "flexible_split" THEN tiers ELSE DefaultTiersFor(next)
    /\ UNCHANGED <<flexMax, trigger, program>>

SetFlexMax(n) ==
    /\ Editing
    /\ ~Tiered
    /\ flexMax' = n
    /\ UNCHANGED <<preset, tiers, trigger, program>>

SetTrigger(t) ==
    /\ Editing
    /\ trigger' = t
    /\ UNCHANGED <<preset, tiers, flexMax, program>>

-----------------------------------------------------------------------------
(* TierBuilder.                                                            *)

SetTiers(next) ==
    /\ Editing
    /\ Tiered
    /\ tiers' = next
    /\ UNCHANGED <<preset, flexMax, trigger, program>>

UpdateFrom(i, n) == SetTiers([tiers EXCEPT ![i].from = n])
UpdateTo(i, n) == SetTiers([tiers EXCEPT ![i].to = n])

\* The value typed for the old type stays.
UpdateTypeFault(i, type) ==
    /\ tiers[i].reward_type # type
    /\ SetTiers([tiers EXCEPT ![i].reward_type = type])

UpdateType(i, type) ==
    /\ tiers[i].reward_type # type
    /\ SetTiers([tiers EXCEPT ![i].reward_type = type,
                              ![i].reward_value = IF type = "product" THEN NoName ELSE 0])

UpdateValue(i, value) ==
    /\ value \in (IF tiers[i].reward_type = "product" THEN Product ELSE Number)
    /\ SetTiers([tiers EXCEPT ![i].reward_value = value])

NewTier(from) == [from |-> from, to |-> from + 5, reward_type |-> "commission_pct", reward_value |-> 5]

\* The new line starts where the last one ends, or at 0.
AddTier ==
    /\ Len(tiers) < MaxTiers
    /\ LET from == IF tiers = <<>> \/ tiers[Len(tiers)].to = Open THEN 0 ELSE tiers[Len(tiers)].to IN
       /\ from <= MaxFrom
       /\ SetTiers(Append(tiers, NewTier(from)))

RemoveTier(i) ==
    SetTiers([j \in 1..(Len(tiers) - 1) |-> IF j < i THEN tiers[j] ELSE tiers[j + 1]])

-----------------------------------------------------------------------------
(* What is sent.                                                           *)

\* typeof value === "number" ? value : 0.
AsNumber(value) == IF value \in Int THEN value ELSE 0

FirstProduct == CHOOSE i \in 1..Len(tiers) :
                    /\ tiers[i].reward_type = "product"
                    /\ \A j \in 1..(i - 1) : tiers[j].reward_type # "product"

\* The first line is taken for the goal.
GoalTierFault == tiers[1]

GoalTier == IF \E i \in 1..Len(tiers) : tiers[i].reward_type = "product"
            THEN tiers[FirstProduct] ELSE tiers[Len(tiers)]

BuildReward ==
    CASE preset = "flexible_split" -> [type |-> "flexible_split", value |-> flexMax]
      [] preset = "recurring" ->
           [type |-> "recurring_commission", value |-> AsNumber(tiers[1].reward_value)]
      [] preset = "goal" -> [type |-> "goal_based", value |-> GoalTier.from]
      [] preset = "commission" /\ tiers[1].reward_type = "commission_fixed" ->
           [type |-> "commission_fixed", value |-> AsNumber(tiers[1].reward_value)]
      [] OTHER -> [type |-> "commission_pct", value |-> AsNumber(tiers[1].reward_value)]

\* The last line wins, not the first.
BuildBackendRulesFault ==
    [type |-> BuildReward.type,
     value |-> IF preset \in {"commission", "recurring"}
               THEN AsNumber(tiers[Len(tiers)].reward_value) ELSE BuildReward.value,
     trigger |-> trigger]

BuildBackendRules == [type |-> BuildReward.type, value |-> BuildReward.value, trigger |-> trigger]

-----------------------------------------------------------------------------
(* What the server accepts, and pays.                                      *)

\* Every percentage has its limit.
ValidateFault(rules) ==
    /\ rules.trigger \in {"sale.confirmed", "payment.confirmed"}
    /\ rules.value > 0
    /\ rules.type \notin {"commission_fixed", "goal_based"} => rules.value <= 100

\* ParseRuleSchema: Validate of the schema and of its reward.
Validate(rules) ==
    /\ rules.trigger \in {"sale.confirmed", "payment.confirmed"}
    /\ rules.value > 0
    /\ rules.type \in {"commission_pct", "flexible_split"} => rules.value <= 100

\* The evaluators: hundredths of a real for a sale, when the partner of a flexible split
\* has made no choice.
Evaluate(rules, sale) ==
    CASE rules.type \in {"commission_pct", "recurring_commission", "flexible_split"} -> sale * rules.value
      [] rules.type = "commission_fixed" -> 100 * rules.value
      [] OTHER -> 0

-----------------------------------------------------------------------------
(* Publishing.                                                             *)

\* The draft is sent if it has a line; a name and a destination are asked for too.
Complete == Tiered => tiers # <<>>
Accepted == Complete /\ Validate(BuildBackendRules)

\* A draft that is refused stays as it is, with a toast: no step.
Publish ==
    /\ Editing
    /\ Accepted
    /\ program' = [preset |-> preset, shown |-> tiers, flexMax |-> flexMax, rules |-> BuildBackendRules]
    /\ UNCHANGED <<preset, tiers, flexMax, trigger>>

Next ==
    \/ \E next \in Presets : HandlePresetChange(next)
    \/ \E n \in Number : SetFlexMax(n)
    \/ \E t \in Triggers : SetTrigger(t)
    \/ \E i \in 1..Len(tiers) :
          \/ \E n \in Bound : UpdateFrom(i, n)
          \/ \E n \in Bound \cup {Open} : UpdateTo(i, n)
          \/ \E type \in RewardTypes : UpdateType(i, type)
          \/ \E value \in Number \cup Product : UpdateValue(i, value)
          \/ RemoveTier(i)
    \/ AddTier
    \/ Publish

Spec == Init /\ [][Next]_vars

-----------------------------------------------------------------------------
(* Properties.                                                             *)

\* What the preview says of a line that pays money, in hundredths of a real for a sale.
Promise(line, sale) ==
    IF line.reward_type = "commission_pct" THEN sale * line.reward_value ELSE 100 * line.reward_value

\* A program pays for each sale what the first line of its preview says; a flexible one
\* what its limit says.  The exceptions are what the page cannot express to the server:
\* points are published as a percentage, and a recurring fixed amount too.  (Lines after
\* the first are shown and never paid.)
PaysFirstLine ==
    program # NoProgram =>
        /\ program.preset \in {"commission", "recurring"} =>
              LET line == program.shown[1] IN
              /\ line.reward_type # "product"
              /\ \/ \A sale \in Sale : Evaluate(program.rules, sale) = Promise(line, sale)
                 \/ line.reward_type = "points"
                 \/ program.preset = "recurring" /\ line.reward_type = "commission_fixed"
        /\ program.preset = "flexible_split" =>
              \A sale \in Sale : Evaluate(program.rules, sale) = sale * program.flexMax

\* A goal has a line of the preview that starts at its target, and if a line of the
\* preview promises a product, that line does; no program has a goal of nothing.
GoalIsPromised ==
    program # NoProgram /\ program.preset = "goal" =>
        /\ program.rules.value > 0
        /\ \E i \in 1..Len(program.shown) :
              /\ program.shown[i].from = program.rules.value
              /\ \/ program.shown[i].reward_type = "product"
                 \/ \A j \in 1..Len(program.shown) : program.shown[j].reward_type # "product"

\* The drafts that can be published, in terms of what is on the screen.
LineValue == AsNumber(tiers[1].reward_value)
Publishable ==
    /\ Complete
    /\ trigger # "manual"
    /\ CASE preset = "flexible_split" -> flexMax \in 1..100
         [] preset = "goal" -> GoalTier.from > 0
         [] preset = "recurring" -> tiers[1].reward_type # "product" /\ LineValue > 0
         [] OTHER -> /\ tiers[1].reward_type # "product" /\ LineValue > 0
                     /\ tiers[1].reward_type # "commission_fixed" => LineValue <= 100

\* Those and no others are accepted: not with approval by hand, which the page offers
\* and the server does not know; not above 100 %, unless the commission recurs.
AcceptedIffPublishable == Accepted = Publishable
=============================================================================
