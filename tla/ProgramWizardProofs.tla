------------------------- MODULE ProgramWizardProofs -------------------------
(***************************************************************************)
(* Theorems about ProgramWizard, for every set of numbers a user may type, *)
(* every number of lines, and every sale.                                  *)
(***************************************************************************)
EXTENDS ProgramWizard, SequenceTheorems, WellFoundedInduction, TLAPS

USE WizardAssumption

IInv ==
    /\ TypeOK
    /\ PaysFirstLine
    /\ GoalIsPromised

\* A line that is fit to be in a draft.
Fit(line) ==
    /\ line \in Tier
    /\ line.reward_value \in (IF line.reward_type = "product" THEN Product ELSE Int)

Draft(lines) == lines \in Seq(Tier) /\ \A i \in 1..Len(lines) : Fit(lines[i])

LEMMA DraftIsFit == TypeOK => Draft(tiers)
  BY ElementOfSeq DEF TypeOK, ValueFitsType, Draft, Fit

LEMMA FitIsDraft == Draft(tiers') => (tiers \in Seq(Tier))' /\ ValueFitsType'
  BY DEF ValueFitsType, Draft, Fit

-----------------------------------------------------------------------------
(* The lines of the TierBuilder.                                           *)

LEMMA DefaultTiersFit == ASSUME NEW p \in Presets PROVE Draft(DefaultTiersFor(p))
<1> DEFINE flat(n) == [from |-> 0, to |-> Open, reward_type |-> "commission_pct", reward_value |-> n]
           low == [from |-> 0, to |-> 4, reward_type |-> "commission_fixed", reward_value |-> 0]
           top == [from |-> 5, to |-> Open, reward_type |-> "product", reward_value |-> Brinde]
<1>1. Fit(flat(10)) /\ Fit(flat(15)) /\ Fit(low) /\ Fit(top)
  BY DEF Fit, Tier, RewardTypes, Product
<1> HIDE DEF flat, low, top
<1>2. Draft(<<flat(10)>>) /\ Draft(<<flat(15)>>) /\ Draft(<<low, top>>) /\ Draft(<<>>)
  BY <1>1 DEF Draft, Fit
<1>3. DefaultTiersFor(p) \in {<<flat(10)>>, <<flat(15)>>, <<low, top>>, <<>>}
  BY DEF DefaultTiersFor, Presets, flat, low, top
<1>4. QED
  BY <1>2, <1>3

\* A line is replaced by another that is fit.
LEMMA LineReplaced ==
    ASSUME NEW lines, Draft(lines), NEW i \in 1..Len(lines), NEW line, Fit(line)
    PROVE  Draft([lines EXCEPT ![i] = line])
<1>1. line \in Tier /\ lines \in Seq(Tier)
  BY DEF Fit, Draft
<1>2. QED
  BY <1>1, ExceptSeq DEF Draft

LEMMA LineAppended ==
    ASSUME NEW lines, Draft(lines), NEW line, Fit(line)
    PROVE  Draft(Append(lines, line))
<1>1. line \in Tier /\ lines \in Seq(Tier) /\ Len(lines) \in Nat
  BY DEF Fit, Draft
<1>2. QED
  BY <1>1, AppendProperties DEF Draft

LEMMA LineRemoved ==
    ASSUME NEW lines, Draft(lines), NEW i \in 1..Len(lines)
    PROVE  Draft([j \in 1..(Len(lines) - 1) |-> IF j < i THEN lines[j] ELSE lines[j + 1]])
<1> DEFINE rest == [j \in 1..(Len(lines) - 1) |-> IF j < i THEN lines[j] ELSE lines[j + 1]]
<1>1. lines \in Seq(Tier) /\ Len(lines) \in Nat /\ \A j \in 1..Len(lines) : Fit(lines[j])
  BY DEF Draft
<1>2. Len(lines) - 1 \in Nat
  BY <1>1
<1>3. \A j \in 1..(Len(lines) - 1) : Fit(rest[j])
  BY <1>1
<1> HIDE DEF rest
<1>4. rest \in [1..(Len(lines) - 1) -> Tier]
  <2>1. \A j \in 1..(Len(lines) - 1) : rest[j] \in Tier
    BY <1>3 DEF Fit
  <2>2. rest = [j \in 1..(Len(lines) - 1) |-> rest[j]]
    BY DEF rest
  <2>3. QED
    BY <2>1, <2>2
<1>5. rest \in Seq(Tier)
  <2>1. \E n \in Nat : rest \in [1..n -> Tier]
    BY <1>2, <1>4
  <2>2. QED
    BY <2>1, SeqDef, Zenon
<1>6. Len(rest) = Len(lines) - 1
  <2>1. Len(rest) \in Nat /\ DOMAIN rest = 1..Len(rest)
    BY <1>5, LenProperties
  <2>2. DOMAIN rest = 1..(Len(lines) - 1)
    BY <1>4
  <2>3. QED
    BY <1>2, <2>1, <2>2
<1>7. \A j \in 1..Len(rest) : Fit(rest[j])
  BY <1>3, <1>6
<1>8. Draft(rest)
  BY <1>5, <1>7 DEF Draft
<1>9. QED
  BY <1>8 DEF rest

-----------------------------------------------------------------------------
(* What is sent.                                                           *)

\* "find" has an answer when a line promises a product.
LEMMA FirstProductExists ==
    ASSUME Draft(tiers), NEW n \in 1..Len(tiers), tiers[n].reward_type = "product"
    PROVE  /\ FirstProduct \in 1..Len(tiers)
           /\ tiers[FirstProduct].reward_type = "product"
<1> DEFINE T == {i \in 1..Len(tiers) : tiers[i].reward_type = "product"}
           R == OpToRel(<, Nat)
<1>1. T \subseteq Nat /\ T # {} /\ Len(tiers) \in Nat
  BY DEF Draft
<1>2. IsWellFoundedOn(R, Nat)
  BY NatLessThanWellFounded
<1>3. \A x, y \in Nat : <<x, y>> \in R <=> x < y
  BY DEF OpToRel
<1> HIDE DEF R, T
<1>4. PICK i \in T : \A j \in T : ~(<<j, i>> \in R)
  BY <1>1, <1>2, WFMin
<1>5. i \in 1..Len(tiers) /\ tiers[i].reward_type = "product"
  BY DEF T
<1>6. ASSUME NEW j \in 1..(i - 1) PROVE tiers[j].reward_type # "product"
  <2>1. j \in Nat /\ i \in Nat /\ j < i /\ j \in 1..Len(tiers)
    BY <1>1, <1>5
  <2>2. j \notin T
    BY <1>3, <1>4, <2>1
  <2>3. QED
    BY <2>1, <2>2 DEF T
<1>7. QED
  BY <1>5, <1>6 DEF FirstProduct

\* The line that is taken for the goal is one of the draft, a product if there is one.
LEMMA GoalTierOfDraft ==
    ASSUME Draft(tiers), tiers # <<>>
    PROVE  \E i \in 1..Len(tiers) :
              /\ GoalTier = tiers[i]
              /\ \/ tiers[i].reward_type = "product"
                 \/ \A j \in 1..Len(tiers) : tiers[j].reward_type # "product"
<1>1. Len(tiers) \in 1..Len(tiers)
  BY EmptySeq DEF Draft
<1>2. QED
  BY <1>1, FirstProductExists DEF GoalTier

\* A draft that is accepted has rules of their type.
LEMMA RulesType ==
    ASSUME TypeOK, Complete
    PROVE  BuildBackendRules \in Rules
<1>1. Draft(tiers)
  BY DraftIsFit
<1>2. Tiered => 1 \in 1..Len(tiers) /\ tiers[1] \in Tier
  BY <1>1, EmptySeq, ElementOfSeq DEF Complete, Draft
<1>3. CASE preset = "goal"
  <2>1. GoalTier \in Tier
    BY <1>1, <1>3, GoalTierOfDraft, ElementOfSeq DEF Draft, Complete, Tiered
  <2>2. QED
    BY <1>3, <2>1 DEF TypeOK, Rules, BuildBackendRules, BuildReward, Tier
<1>4. CASE preset # "goal"
  BY <1>2, <1>4 DEF TypeOK, Rules, BuildBackendRules, BuildReward, Tiered, Tier, AsNumber
<1>5. QED
  BY <1>3, <1>4

-----------------------------------------------------------------------------
(* The invariant.                                                          *)

LEMMA InitIInv == Init => IInv
<1> SUFFICES ASSUME Init PROVE IInv
  OBVIOUS
<1>1. Draft(tiers)
  BY DefaultTiersFit DEF Init, Presets
<1>2. QED
  BY <1>1 DEF Init, IInv, TypeOK, ValueFitsType, PaysFirstLine, GoalIsPromised, Draft, Fit,
     Presets, Triggers

\* A line that is given another type, and a value for it.
Retyped(line, type, value) == [line EXCEPT !.reward_type = type, !.reward_value = value]

LEMMA RetypedFits ==
    ASSUME NEW line \in Tier, NEW type \in RewardTypes, NEW value,
           value \in (IF type = "product" THEN Product ELSE Int)
    PROVE  Fit(Retyped(line, type, value))
<1> DEFINE mid == [line EXCEPT !.reward_type = type]
           next == [mid EXCEPT !.reward_value = value]
<1>1. mid \in Tier /\ mid.reward_type = type
  BY DEF Tier
<1>2. Retyped(line, type, value) = next
  BY DEF Retyped
<1> HIDE DEF mid
<1>3. next \in Tier
  BY <1>1 DEF Tier
<1>4. next.reward_type = type
  BY <1>1 DEF Tier
<1>5. next.reward_value = value
  BY <1>1 DEF Tier
<1> HIDE DEF next
<1>6. QED
  BY <1>2, <1>3, <1>4, <1>5 DEF Fit

\* The edits of the lines leave a draft that is fit.
LEMMA EditsFit ==
    ASSUME TypeOK, [Next]_vars
    PROVE  Draft(tiers')
<1>1. Draft(tiers)
  BY DraftIsFit
<1>2. ASSUME NEW next \in Presets, HandlePresetChange(next) PROVE Draft(tiers')
  BY <1>1, <1>2, DefaultTiersFit DEF HandlePresetChange
<1>3. ASSUME NEW i \in 1..Len(tiers), NEW n \in Bound, UpdateFrom(i, n) PROVE Draft(tiers')
  <2> DEFINE line == [tiers[i] EXCEPT !.from = n]
  <2>1. Fit(line)
    BY <1>1 DEF Draft, Fit, Tier
  <2>2. tiers' = [tiers EXCEPT ![i] = line]
    BY <1>3 DEF UpdateFrom, SetTiers
  <2> HIDE DEF line
  <2>3. QED
    BY <1>1, <2>1, <2>2, LineReplaced
<1>4. ASSUME NEW i \in 1..Len(tiers), NEW n \in Bound \cup {Open}, UpdateTo(i, n) PROVE Draft(tiers')
  <2> DEFINE line == [tiers[i] EXCEPT !.to = n]
  <2>1. Fit(line)
    BY <1>1 DEF Draft, Fit, Tier
  <2>2. tiers' = [tiers EXCEPT ![i] = line]
    BY <1>4 DEF UpdateTo, SetTiers
  <2> HIDE DEF line
  <2>3. QED
    BY <1>1, <2>1, <2>2, LineReplaced
<1>5. ASSUME NEW i \in 1..Len(tiers), NEW type \in RewardTypes, UpdateType(i, type) PROVE Draft(tiers')
  <2> DEFINE value == IF type = "product" THEN NoName ELSE 0
  <2>1. tiers[i] \in Tier
    BY <1>1 DEF Draft, Fit
  <2>2. value \in (IF type = "product" THEN Product ELSE Int)
    BY DEF Product
  <2>3. tiers' = [tiers EXCEPT ![i] = Retyped(tiers[i], type, value)]
    BY <1>5 DEF UpdateType, SetTiers, Retyped
  <2> HIDE DEF value
  <2>4. Fit(Retyped(tiers[i], type, value))
    BY <2>1, <2>2, RetypedFits
  <2>5. QED
    BY <1>1, <2>3, <2>4, LineReplaced
<1>6. ASSUME NEW i \in 1..Len(tiers), NEW value \in Number \cup Product, UpdateValue(i, value)
      PROVE  Draft(tiers')
  <2> DEFINE line == [tiers[i] EXCEPT !.reward_value = value]
  <2>1. Fit(line)
    BY <1>1, <1>6 DEF Draft, Fit, Tier, UpdateValue
  <2>2. tiers' = [tiers EXCEPT ![i] = line]
    BY <1>6 DEF UpdateValue, SetTiers
  <2> HIDE DEF line
  <2>3. QED
    BY <1>1, <2>1, <2>2, LineReplaced
<1>7. ASSUME NEW i \in 1..Len(tiers), RemoveTier(i) PROVE Draft(tiers')
  BY <1>1, <1>7, LineRemoved DEF RemoveTier, SetTiers
<1>8. CASE AddTier
  <2> DEFINE from == IF tiers = <<>> \/ tiers[Len(tiers)].to = Open THEN 0 ELSE tiers[Len(tiers)].to
  <2>1. from \in Int
    <3>1. CASE tiers = <<>>
      BY <3>1
    <3>2. CASE tiers # <<>>
      <4>1. tiers[Len(tiers)] \in Tier
        BY <1>1, <3>2, EmptySeq, ElementOfSeq DEF Draft
      <4>2. QED
        BY <4>1 DEF Tier
    <3>3. QED
      BY <3>1, <3>2
  <2>2. tiers' = Append(tiers, NewTier(from))
    BY <1>8 DEF AddTier, SetTiers
  <2> HIDE DEF from
  <2>3. Fit(NewTier(from))
    BY <2>1 DEF Fit, NewTier, Tier, RewardTypes
  <2>4. QED
    BY <1>1, <2>2, <2>3, LineAppended
<1>9. CASE UNCHANGED tiers
  BY <1>1, <1>9
<1>10. QED
  BY <1>2, <1>3, <1>4, <1>5, <1>6, <1>7, <1>8, <1>9
     DEF Next, SetFlexMax, SetTrigger, Publish, vars

LEMMA NextTypeOK == TypeOK /\ [Next]_vars => TypeOK'
<1> SUFFICES ASSUME TypeOK, [Next]_vars PROVE TypeOK'
  OBVIOUS
<1>1. (tiers \in Seq(Tier))' /\ ValueFitsType'
  BY EditsFit, FitIsDraft
<1>2. preset' \in Presets /\ flexMax' \in Int /\ trigger' \in Triggers
  BY DEF Next, TypeOK, vars, HandlePresetChange, SetFlexMax, SetTrigger, UpdateFrom, UpdateTo,
     UpdateType, UpdateValue, RemoveTier, AddTier, SetTiers, Publish
<1>3. program' \in Published \cup {NoProgram}
  <2>1. CASE Publish
    <3>1. BuildBackendRules \in Rules
      BY <2>1, RulesType DEF Publish, Accepted
    <3>2. QED
      BY <2>1, <3>1 DEF Publish, Published, TypeOK
  <2>2. CASE ~Publish
    BY <2>2 DEF Next, TypeOK, vars, HandlePresetChange, SetFlexMax, SetTrigger, UpdateFrom, UpdateTo,
       UpdateType, UpdateValue, RemoveTier, AddTier, SetTiers
  <2>3. QED
    BY <2>1, <2>2
<1>4. QED
  BY <1>1, <1>2, <1>3 DEF TypeOK

\* A program that is there stays as it was made.
LEMMA ProgramStep == [Next]_vars => Publish \/ UNCHANGED program
  BY DEF Next, vars, HandlePresetChange, SetFlexMax, SetTrigger, UpdateFrom, UpdateTo,
     UpdateType, UpdateValue, RemoveTier, AddTier, SetTiers

LEMMA PublishPays == ASSUME TypeOK, Publish PROVE PaysFirstLine'
<1> DEFINE made == [preset |-> preset, shown |-> tiers, flexMax |-> flexMax, rules |-> BuildBackendRules]
           line == tiers[1]
<1>1. program' = made
  BY DEF Publish
<1>2. Complete /\ Validate(BuildBackendRules)
  BY DEF Publish, Accepted
<1>3. CASE preset \in {"commission", "recurring"}
  <2>1. line \in Tier /\ Fit(line)
    BY <1>2, <1>3, DraftIsFit, EmptySeq DEF Complete, Tiered, Draft, Fit
  <2>2. BuildBackendRules.value = AsNumber(line.reward_value)
    BY <1>3 DEF BuildBackendRules, BuildReward
  <2>3. BuildBackendRules.value > 0
    BY <1>2 DEF Validate
  <2>4. line.reward_type # "product" /\ line.reward_value \in Int
    BY <2>1, <2>2, <2>3 DEF Fit, Product, AsNumber
  <2>5. BuildBackendRules.value = line.reward_value
    BY <2>2, <2>4 DEF AsNumber
  <2>6. BuildBackendRules.type =
          IF preset = "recurring" THEN "recurring_commission"
          ELSE IF line.reward_type = "commission_fixed" THEN "commission_fixed" ELSE "commission_pct"
    BY <1>3 DEF BuildBackendRules, BuildReward
  <2>7. line.reward_type \in {"commission_pct", "commission_fixed", "points"}
    BY <2>1, <2>4 DEF Tier, RewardTypes
  <2> HIDE DEF line
  <2>8. \/ \A sale \in Sale : Evaluate(BuildBackendRules, sale) = Promise(line, sale)
        \/ line.reward_type = "points"
        \/ preset = "recurring" /\ line.reward_type = "commission_fixed"
    BY <1>3, <2>5, <2>6, <2>7 DEF Evaluate, Promise
  <2>9. QED
    BY <1>1, <1>3, <2>4, <2>8 DEF PaysFirstLine, line
<1>4. CASE preset = "flexible_split"
  <2>1. BuildBackendRules.type = "flexible_split" /\ BuildBackendRules.value = flexMax
    BY <1>4 DEF BuildBackendRules, BuildReward
  <2>2. \A sale \in Sale : Evaluate(BuildBackendRules, sale) = sale * flexMax
    BY <2>1 DEF Evaluate
  <2>3. QED
    BY <1>1, <1>4, <2>2 DEF PaysFirstLine
<1>5. CASE preset = "goal"
  BY <1>1, <1>5 DEF PaysFirstLine
<1>6. QED
  BY <1>3, <1>4, <1>5 DEF TypeOK, Presets

LEMMA PublishPromises == ASSUME TypeOK, Publish PROVE GoalIsPromised'
<1> SUFFICES ASSUME preset = "goal" PROVE GoalIsPromised'
  BY DEF Publish, GoalIsPromised
<1>1. BuildBackendRules.value = GoalTier.from /\ BuildBackendRules.value > 0
  BY DEF BuildBackendRules, BuildReward, Publish, Accepted, Validate
<1>2. PICK i \in 1..Len(tiers) :
         /\ GoalTier = tiers[i]
         /\ \/ tiers[i].reward_type = "product"
            \/ \A j \in 1..Len(tiers) : tiers[j].reward_type # "product"
  BY DraftIsFit, GoalTierOfDraft DEF Publish, Accepted, Complete, Tiered
<1>3. program'.shown = tiers /\ program'.rules = BuildBackendRules
  BY DEF Publish
<1>4. QED
  BY <1>1, <1>2, <1>3 DEF GoalIsPromised

LEMMA NextIInv == IInv /\ [Next]_vars => IInv'
<1> SUFFICES ASSUME IInv, [Next]_vars PROVE IInv'
  OBVIOUS
<1>1. TypeOK'
  BY NextTypeOK DEF IInv
<1>2. CASE Publish
  BY <1>1, <1>2, PublishPays, PublishPromises DEF IInv
<1>3. CASE UNCHANGED program
  BY <1>1, <1>3 DEF IInv, PaysFirstLine, GoalIsPromised
<1>4. QED
  BY <1>2, <1>3, ProgramStep

LEMMA Invariance == Spec => []IInv
<1>1. Init => IInv
  BY InitIInv
<1>2. IInv /\ [Next]_vars => IInv'
  BY NextIInv
<1>3. QED
  BY <1>1, <1>2, PTL DEF Spec

-----------------------------------------------------------------------------
(* What the drafts that are accepted have in common.                       *)

LEMMA AcceptedPublishable == TypeOK => AcceptedIffPublishable
<1> SUFFICES ASSUME TypeOK, Complete
             PROVE  Validate(BuildBackendRules) <=> Publishable
  BY DEF AcceptedIffPublishable, Accepted, Publishable
<1> DEFINE value == BuildBackendRules.value
           type == BuildBackendRules.type
<1>1. /\ BuildBackendRules.trigger = trigger /\ trigger \in Triggers
      /\ value \in Int
  BY RulesType DEF BuildBackendRules, TypeOK, Rules
<1>2. CASE preset = "flexible_split"
  <2>1. type = "flexible_split" /\ value = flexMax
    BY <1>2 DEF BuildBackendRules, BuildReward
  <2>2. QED
    BY <1>1, <1>2, <2>1 DEF Validate, Publishable, Triggers
<1>3. CASE preset = "goal"
  <2>1. type = "goal_based" /\ value = GoalTier.from
    BY <1>3 DEF BuildBackendRules, BuildReward
  <2>2. QED
    BY <1>1, <1>3, <2>1 DEF Validate, Publishable, Triggers
<1>4. CASE preset \in {"commission", "recurring"}
  <2>1. tiers[1] \in Tier /\ Fit(tiers[1])
    BY <1>4, DraftIsFit, EmptySeq DEF Complete, Tiered, Draft, Fit
  <2>2. /\ value = LineValue
        /\ type = IF preset = "recurring" THEN "recurring_commission"
                  ELSE IF tiers[1].reward_type = "commission_fixed" THEN "commission_fixed"
                  ELSE "commission_pct"
    BY <1>4 DEF BuildBackendRules, BuildReward, LineValue
  <2>3. tiers[1].reward_type = "product" => LineValue = 0
    BY <2>1 DEF Fit, Product, LineValue, AsNumber
  <2>4. CASE preset = "recurring"
    BY <1>1, <2>2, <2>3, <2>4 DEF Validate, Publishable, Triggers
  <2>5. CASE preset = "commission"
    BY <1>1, <2>2, <2>3, <2>5 DEF Validate, Publishable, Triggers
  <2>6. QED
    BY <1>4, <2>4, <2>5
<1>5. QED
  BY <1>2, <1>3, <1>4 DEF TypeOK, Presets

-----------------------------------------------------------------------------
(* Theorems.                                                               *)

\* The draft and the program stay of their types, whatever is edited: the lines are a
\* sequence although they are replaced, appended and removed.
THEOREM TypeCorrect == Spec => []TypeOK
<1>1. IInv => TypeOK
  BY DEF IInv
<1>2. QED
  BY <1>1, Invariance, PTL

\* A line always holds a value of the kind its type asks for (UpdateType resets it).
THEOREM ValuesFit == Spec => []ValueFitsType
<1>1. IInv => ValueFitsType
  BY DEF IInv, TypeOK
<1>2. QED
  BY <1>1, Invariance, PTL

\* What is published pays what its first line says, for every sale, but for points and
\* for a fixed amount that recurs.
THEOREM FirstLineIsPaid == Spec => []PaysFirstLine
<1>1. IInv => PaysFirstLine
  BY DEF IInv
<1>2. QED
  BY <1>1, Invariance, PTL

\* The goal that is published is the start of a line that is shown, one with a product if
\* there is one.
THEOREM GoalHonest == Spec => []GoalIsPromised
<1>1. IInv => GoalIsPromised
  BY DEF IInv
<1>2. QED
  BY <1>1, Invariance, PTL

\* The drafts the server accepts are those that are publishable by what is on the screen.
THEOREM AcceptanceCharacterised == Spec => []AcceptedIffPublishable
<1>1. IInv => AcceptedIffPublishable
  BY AcceptedPublishable DEF IInv
<1>2. QED
  BY <1>1, Invariance, PTL

-----------------------------------------------------------------------------
(* What a program may cost.                                                *)

\* A published program has rules that the server accepted.
RulesAccepted == program # NoProgram => Validate(program.rules)

\* No sale costs more than it brings in, in hundredths of a real, under a program that
\* is neither of a fixed amount nor recurring; every program but a goal costs something.
WithinSale ==
    program # NoProgram =>
        \A sale \in Sale :
           /\ program.rules.type \notin {"commission_fixed", "recurring_commission"} =>
                 Evaluate(program.rules, sale) \in 0..(100 * sale)
           /\ program.rules.type # "goal_based" /\ sale > 0 => Evaluate(program.rules, sale) > 0

LEMMA PublishAccepts == ASSUME TypeOK, Publish PROVE RulesAccepted'
<1>1. program'.rules = BuildBackendRules /\ Validate(BuildBackendRules)
  BY DEF Publish, Accepted
<1>2. QED
  BY <1>1 DEF RulesAccepted

\* A percentage of a sale, of at most 100.
LEMMA PercentBounded ==
    ASSUME NEW sale \in Nat, NEW value \in Int, value > 0
    PROVE  /\ value <= 100 => sale * value \in 0..(100 * sale)
           /\ sale > 0 => sale * value > 0
<1>1. sale * value \in Int /\ sale * value >= 0
  BY SMT
<1>2. value <= 100 => sale * value <= 100 * sale
  BY SMT
<1>3. sale > 0 => sale * value > 0
  BY SMT
<1>4. QED
  BY <1>1, <1>2, <1>3

\* What Validate lets through (percentages up to 100, fixed and recurring amounts of any
\* size) bounds what the evaluators pay for a sale.
THEOREM CostsAreBounded == Spec => []WithinSale
<1>1. Init => RulesAccepted
  BY DEF Init, RulesAccepted
<1>2. IInv /\ RulesAccepted /\ [Next]_vars => RulesAccepted'
  BY ProgramStep, PublishAccepts DEF IInv, RulesAccepted
<1>3. IInv /\ RulesAccepted => WithinSale
  <2> SUFFICES ASSUME IInv, RulesAccepted, program # NoProgram, NEW sale \in Sale
               PROVE  /\ program.rules.type \notin {"commission_fixed", "recurring_commission"} =>
                            Evaluate(program.rules, sale) \in 0..(100 * sale)
                      /\ program.rules.type # "goal_based" /\ sale > 0 => Evaluate(program.rules, sale) > 0
    BY DEF WithinSale
  <2> DEFINE value == program.rules.value
             type == program.rules.type
  <2>1. /\ type \in {"commission_pct", "commission_fixed", "recurring_commission", "goal_based", "flexible_split"}
        /\ value \in Int /\ value > 0
        /\ type \in {"commission_pct", "flexible_split"} => value <= 100
    BY DEF IInv, TypeOK, Published, Rules, RulesAccepted, Validate
  <2>2. Evaluate(program.rules, sale) =
           IF type \in {"commission_pct", "recurring_commission", "flexible_split"} THEN sale * value
           ELSE IF type = "commission_fixed" THEN 100 * value ELSE 0
    BY DEF Evaluate
  <2>3. sale \in Nat
    OBVIOUS
  <2> HIDE DEF value, type
  <2>4. /\ value <= 100 => sale * value \in 0..(100 * sale)
        /\ sale > 0 => sale * value > 0
    BY <2>1, <2>3, PercentBounded
  <2>5. type \notin {"commission_fixed", "recurring_commission"} =>
           Evaluate(program.rules, sale) \in 0..(100 * sale)
    BY <2>1, <2>2, <2>3, <2>4
  <2>6. type # "goal_based" /\ sale > 0 => Evaluate(program.rules, sale) > 0
    BY <2>1, <2>2, <2>3, <2>4
  <2>7. QED
    BY <2>5, <2>6 DEF type
<1>4. QED
  BY <1>1, <1>2, <1>3, Invariance, PTL DEF Spec
=============================================================================
