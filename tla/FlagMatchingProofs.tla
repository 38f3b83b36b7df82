------------------------- MODULE FlagMatchingProofs -------------------------
(* Facts about the operators of FlagMatching, for values of every size, and what stays of *)
(* the results as the application passes more and owners raise rollouts, for any flags.    *)
EXTENDS FlagMatching, FiniteSetTheorems, WellFoundedInduction, TLAPS

Versions == {<<a, b, c>> : a \in Nat, b \in Nat, c \in Nat}

\* Far from the largest component, the successor is one more.
LEMMA Successor ==
  ASSUME Width \in Nat, NEW n \in Nat, n + 1 < Width
  PROVE  Succ(n) = n + 1
<1>1. \A w, m \in Nat : m < w => m % w = m
  BY Z3
<1> QED BY <1>1 DEF Succ

\* semver_caret, whose upper bound compute_caret_bounds builds by cases, is what semver says:
\* at least the target, and the same up to the first component that is not 0.
THEOREM CaretRange ==
  ASSUME Width \in Nat, NEW v \in Versions, NEW t \in Versions,
         \A i \in 1..3 : t[i] + 1 < Width
  PROVE  Within(v, CaretBounds(t)) <=>
           /\ ~Before(v, t)
           /\ v[1] = t[1]
           /\ t[1] = 0 => v[2] = t[2]
           /\ t[1] = 0 /\ t[2] = 0 => v[3] = t[3]
<1>1. PICK a \in Nat, b \in Nat, c \in Nat : t = <<a, b, c>>
  BY DEF Versions
<1>2. PICK x \in Nat, y \in Nat, z \in Nat : v = <<x, y, z>>
  BY DEF Versions
<1>3. Succ(a) = a + 1 /\ Succ(b) = b + 1 /\ Succ(c) = c + 1
  <2>1. a + 1 < Width /\ b + 1 < Width /\ c + 1 < Width
    BY <1>1
  <2> QED BY <2>1, Successor
<1>4. CASE a > 0
  BY <1>1, <1>2, <1>3, <1>4 DEF Within, CaretBounds, Before
<1>5. CASE a = 0 /\ b > 0
  BY <1>1, <1>2, <1>3, <1>5 DEF Within, CaretBounds, Before
<1>6. CASE a = 0 /\ b = 0
  BY <1>1, <1>2, <1>3, <1>6 DEF Within, CaretBounds, Before
<1> QED BY <1>4, <1>5, <1>6

\* semver_tilde: at least the target, and of the same major and minor version.
THEOREM TildeRange ==
  ASSUME Width \in Nat, NEW v \in Versions, NEW t \in Versions, t[2] + 1 < Width
  PROVE  Within(v, TildeBounds(t)) <=>
           ~Before(v, t) /\ v[1] = t[1] /\ v[2] = t[2]
<1>1. PICK a \in Nat, b \in Nat, c \in Nat : t = <<a, b, c>>
  BY DEF Versions
<1>2. PICK x \in Nat, y \in Nat, z \in Nat : v = <<x, y, z>>
  BY DEF Versions
<1>3. Succ(b) = b + 1
  BY <1>1, Successor
<1> QED BY <1>1, <1>2, <1>3 DEF Within, TildeBounds, Before
-----------------------------------------------------------------------------
\* More properties are passed, and none of them changes.
Extends(more, less) ==
  \A k \in DOMAIN less : k \in DOMAIN more /\ more[k] = less[k]

\* What a property test decides, it decides alike when more properties are passed; the tests
\* for absence excepted.
LEMMA PropertyKeeps ==
  ASSUME NEW p, NEW less, NEW more, Extends(more, less),
         p.operator \notin Absence, MatchProperty(p, less) # Unknown
  PROVE  MatchProperty(p, more) = MatchProperty(p, less)
BY DEF Extends, MatchProperty

LEMMA PropertyTyped ==
  ASSUME NEW p, NEW properties
  PROVE  MatchProperty(p, properties) \in {Yes, No, Unknown}
BY DEF MatchProperty, MatchValue, Answer

\* What the loop over properties concludes, it concludes alike when only answers that were
\* unknown change.
LEMMA AllOfKeeps ==
  ASSUME NEW before, NEW after, DOMAIN after = DOMAIN before,
         \A i \in DOMAIN before : before[i] \in {Yes, No, Unknown} /\ after[i] \in {Yes, No, Unknown},
         \A i \in DOMAIN before : before[i] # Unknown => after[i] = before[i],
         AllOf(before) # Unknown
  PROVE  AllOf(after) = AllOf(before)
BY DEF AllOf, Yes, No, Unknown

LEMMA MatchAllKeeps ==
  ASSUME NEW tests, NEW less, NEW more, Extends(more, less),
         \A i \in DOMAIN tests : Tests(tests[i]),
         MatchAll(tests, less) # Unknown
  PROVE  MatchAll(tests, more) = MatchAll(tests, less)
<1> DEFINE before == [i \in DOMAIN tests |-> MatchProperty(tests[i], less)]
           after == [i \in DOMAIN tests |-> MatchProperty(tests[i], more)]
<1>1. \A i \in DOMAIN before : before[i] # Unknown => after[i] = before[i]
  BY PropertyKeeps DEF Tests
<1>2. \A i \in DOMAIN before : /\ before[i] \in {Yes, No, Unknown}
                               /\ after[i] \in {Yes, No, Unknown}
  BY PropertyTyped
<1>3. DOMAIN after = DOMAIN before
  OBVIOUS
<1>4. MatchAll(tests, less) = AllOf(before) /\ MatchAll(tests, more) = AllOf(after)
  BY DEF MatchAll
<1> HIDE DEF before, after
<1> QED BY <1>1, <1>2, <1>3, <1>4, AllOfKeeps

LEMMA DependencyTyped ==
  ASSUME NEW ctx, NEW p
  PROVE  MatchDependency(ctx, p) \in {Yes, No, Unknown}
BY DEF MatchDependency, Answer

LEMMA CohortTyped ==
  ASSUME NEW p, NEW properties
  PROVE  MatchCohort(p, properties) \in {Yes, No, Unknown}
<1>1. CohortMatch(p.value, properties) \in {Yes, No, Unknown}
  BY DEF CohortMatch, MatchAll, AllOf
<1> QED BY <1>1 DEF MatchCohort, Negation, Yes, No, Unknown

\* A cohort whose tests are not for absence: membership, once decided, stays.
LEMMA CohortKeeps ==
  ASSUME NEW p, NEW less, NEW more, Extends(more, less),
         p.value \in DOMAIN Cohorts =>
           \A i \in DOMAIN Cohorts[p.value] : Tests(Parsed(Cohorts[p.value])[i]),
         MatchCohort(p, less) # Unknown
  PROVE  MatchCohort(p, more) = MatchCohort(p, less)
<1>1. p.value \in DOMAIN Cohorts /\ CohortMatch(p.value, less) # Unknown
  BY DEF MatchCohort, Negation, Yes, No, Unknown
<1>2. DOMAIN Parsed(Cohorts[p.value]) = DOMAIN Cohorts[p.value]
  BY DEF Parsed
<1>3. CohortMatch(p.value, more) = CohortMatch(p.value, less)
  BY <1>1, <1>2, MatchAllKeeps DEF CohortMatch
<1> QED BY <1>1, <1>3 DEF MatchCohort
-----------------------------------------------------------------------------
(* The loop over the conditions. *)

LEMMA NatMinimum ==
  ASSUME NEW T, T \subseteq Nat, T # {}
  PROVE  \E x \in T : \A y \in T : x <= y
<1> DEFINE R == {e \in Nat \X Nat : e[1] < e[2]}
<1>1. IsWellFoundedOn(R, Nat)
  BY NatLessThanWellFounded DEF OpToRel
<1>2. IsWellFoundedOn(R, T)
  <2> HIDE DEF R
  <2> QED BY <1>1, IsWellFoundedOnSubset
<1>3. PICK x \in T : \A y \in T : ~(<<y, x>> \in R)
  <2> HIDE DEF R
  <2> QED BY <1>2, WFMin
<1>4. \A y \in T : <<y, x>> \in R <=> y < x
  OBVIOUS
<1>5. \A y \in T : ~(y < x)
  <2> HIDE DEF R
  <2> QED BY <1>3, <1>4
<1>6. \A y \in T : x <= y
  BY <1>5
<1> QED BY <1>6

\* What holds of 0 and of the next number whenever it holds of one holds up to n: there is
\* no least number of which it does not.
LEMMA UpTo ==
  ASSUME NEW n \in Nat, NEW S, 0 \in S, \A m \in 0..(n - 1) : m \in S => m + 1 \in S
  PROVE  0..n \subseteq S
<1> DEFINE bad == (0..n) \ S
<1>1. CASE bad = {}
  BY <1>1
<1>2. CASE bad # {}
  <2>1. bad \subseteq Nat
    OBVIOUS
  <2>2. PICK m \in bad : \A k \in bad : m <= k
    <3> HIDE DEF bad
    <3> QED BY <1>2, <2>1, NatMinimum
  <2>3. m \in 1..n /\ m \notin S
    BY <2>2
  <2>4. m - 1 \in 0..(n - 1) /\ m - 1 \notin bad
    BY <2>2, <2>3
  <2>5. m - 1 \in S
    BY <2>4
  <2>6. (m - 1) + 1 \in S
    BY <2>4, <2>5
  <2> QED BY <2>3, <2>6
<1> QED BY <1>1, <1>2

LEMMA Scales ==
  /\ Scale \in Nat /\ Top \in Nat /\ Error \in Nat /\ Scale <= Top
  /\ \A x \in 0..Scale : x \in Nat /\ x \in 0..Top
<1>1. Scale \in Nat /\ Top \in Nat /\ Error \in Nat /\ Scale <= Top
  BY RoundAssumption
<1> QED BY <1>1

LEMMA Rounded ==
  ASSUME NEW x \in 0..Top
  PROVE  /\ Round[x] \in Nat /\ x <= Round[x] + Error /\ Round[x] <= x + Error
         /\ Round[x] <= Top => Round[Round[x]] = Round[x]
BY RoundAssumption

\* Rounding keeps the order.
LEMMA RoundMonotone ==
  ASSUME NEW y \in 0..Top, NEW x \in 0..y
  PROVE  Round[x] <= Round[y]
<1> DEFINE good == {m \in 0..Top : \A k \in 0..m : Round[k] <= Round[m]}
<1>1. /\ Top \in Nat /\ \A k \in 0..Top : Round[k] \in Nat
      /\ \A k \in 1..Top : Round[k - 1] <= Round[k]
  BY RoundAssumption
<1>2. 0 \in good
  BY <1>1
<1>3. ASSUME NEW m \in 0..(Top - 1), m \in good
      PROVE  m + 1 \in good
  <2>1. /\ m \in Nat /\ m + 1 \in 1..Top /\ (m + 1) - 1 = m
        /\ Round[m] \in Nat /\ Round[m + 1] \in Nat
    BY <1>1
  <2>2. Round[m] <= Round[m + 1]
    BY <1>1, <2>1
  <2>3. ASSUME NEW k \in 0..(m + 1)
        PROVE  Round[k] <= Round[m + 1]
    <3>1. CASE k = m + 1
      BY <2>1, <3>1
    <3>2. CASE k \in 0..m
      <4>1. Round[k] <= Round[m] /\ Round[k] \in Nat
        BY <1>1, <1>3, <3>2
      <4> QED BY <2>1, <2>2, <4>1
    <3> QED BY <2>1, <3>1, <3>2
  <2> QED BY <2>1, <2>3
<1>4. 0..Top \subseteq good
  <2> HIDE DEF good
  <2> QED BY <1>1, <1>2, <1>3, UpTo
<1> QED BY <1>4

\* Overrides first, then by number, is a strict total order of the conditions.
LEMMA EarlierOrders ==
  ASSUME NEW conditions, NEW i \in Nat, NEW j \in Nat, NEW k \in Nat
  PROVE  /\ ~Earlier(conditions, i, i)
         /\ i # j => Earlier(conditions, i, j) \/ Earlier(conditions, j, i)
         /\ ~(Earlier(conditions, i, j) /\ Earlier(conditions, j, i))
         /\ Earlier(conditions, i, j) /\ Earlier(conditions, j, k) => Earlier(conditions, i, k)
BY DEF Earlier

LEMMA EarliestExists ==
  ASSUME NEW conditions, NEW S, S \subseteq Nat, S # {}
  PROVE  \E i \in S : \A j \in S \ {i} : Earlier(conditions, i, j)
<1> DEFINE T == {i \in S : conditions[i].variant # None}
<1>1. CASE T # {}
  <2>1. PICK x \in T : \A y \in T : x <= y
    BY <1>1, NatMinimum
  <2> QED BY <2>1 DEF Earlier
<1>2. CASE T = {}
  <2>1. PICK x \in S : \A y \in S : x <= y
    BY NatMinimum
  <2> QED BY <1>2, <2>1 DEF Earlier
<1> QED BY <1>1, <1>2

LEMMA FirstEnds ==
  ASSUME NEW flag, NEW outcome, DOMAIN outcome \subseteq Nat, Ending(flag, outcome) # {}
  PROVE  /\ First(flag, outcome) \in Ending(flag, outcome)
         /\ \A j \in Ending(flag, outcome) \ {First(flag, outcome)} :
              Earlier(flag.conditions, First(flag, outcome), j)
<1>1. Ending(flag, outcome) \subseteq Nat
  BY DEF Ending
<1>2. \E i \in Ending(flag, outcome) : \A j \in Ending(flag, outcome) \ {i} :
        Earlier(flag.conditions, i, j)
  BY <1>1, EarliestExists
<1> QED BY <1>2 DEF First

\* What the loop concludes; which value an enabled flag has is another question.
Verdict(flag, outcome) ==
  IF Ending(flag, outcome) = {}
  THEN IF \E i \in DOMAIN outcome : outcome[i] = Unknown THEN Inconclusive ELSE Disabled
  ELSE IF outcome[First(flag, outcome)] = "match" THEN Enabled ELSE Disabled

\* Knowing the outcome of more conditions does not enable a flag that was found disabled,
\* nor, without early exit, disable one that was found enabled.
LEMMA VerdictKeeps ==
  ASSUME NEW flag, NEW before, NEW after,
         DOMAIN before \subseteq Nat, DOMAIN after = DOMAIN before,
         \A i \in DOMAIN before : before[i] # Unknown => after[i] = before[i]
  PROVE  /\ Verdict(flag, before) = Disabled => Verdict(flag, after) = Disabled
         /\ ~flag.early_exit /\ Verdict(flag, before) = Enabled
              => Verdict(flag, after) = Enabled
<1>1. ASSUME Ending(flag, before) = {}, ~\E i \in DOMAIN before : before[i] = Unknown
      PROVE  Verdict(flag, after) = Disabled
  <2>1. \A i \in DOMAIN before : after[i] = before[i]
    BY <1>1
  <2>2. Ending(flag, after) = {}
    BY <1>1, <2>1 DEF Ending, Ends, Unknown
  <2> QED BY <1>1, <2>1, <2>2 DEF Verdict
<1>2. ASSUME Ending(flag, before) # {}, before[First(flag, before)] # "match"
      PROVE  Verdict(flag, after) = Disabled
  <2> DEFINE f == First(flag, before)
  <2>1. f \in Ending(flag, before) /\ \A j \in Ending(flag, before) \ {f} :
                                        Earlier(flag.conditions, f, j)
    BY <1>2, FirstEnds
  <2>2. /\ f \in DOMAIN before /\ before[f] = "out_of_rollout" /\ flag.early_exit
        /\ \A j \in DOMAIN before : before[j] = Unknown => Earlier(flag.conditions, f, j)
    BY <1>2, <2>1 DEF Ending, Ends
  <2> HIDE DEF f
  <2>3. after[f] = before[f]
    BY <2>2 DEF Unknown
  <2>4. f \in Ending(flag, after)
    BY <2>2, <2>3 DEF Ending, Ends
  <2>5. ASSUME NEW j \in Ending(flag, after) \ {f}
        PROVE  Earlier(flag.conditions, f, j)
    <3>1. j \in DOMAIN before /\ j \in Nat /\ f \in Nat
      BY <2>2 DEF Ending
    <3>2. CASE before[j] = Unknown
      BY <2>2, <3>1, <3>2
    <3>3. CASE before[j] # Unknown /\ j \in Ending(flag, before)
      BY <2>1, <3>3
    <3>4. CASE before[j] # Unknown /\ j \notin Ending(flag, before)
      <4>1. after[j] = before[j]
        BY <3>1, <3>4
      <4>2. PICK k \in DOMAIN before : before[k] = Unknown /\ ~Earlier(flag.conditions, j, k)
        BY <3>1, <3>4, <4>1 DEF Ending, Ends
      <4>3. k \in Nat /\ k # j /\ Earlier(flag.conditions, f, k)
        BY <2>2, <3>4, <4>2
      <4> QED BY <3>1, <4>2, <4>3, EarlierOrders
    <3> QED BY <3>2, <3>3, <3>4
  <2>6. First(flag, after) = f
    <3>1. First(flag, after) \in Ending(flag, after)
      BY <2>4, FirstEnds
    <3>2. First(flag, after) # f => Earlier(flag.conditions, First(flag, after), f)
      BY <2>4, FirstEnds
    <3>3. First(flag, after) \in Nat /\ f \in Nat
      BY <2>2, <3>1 DEF Ending
    <3> QED BY <2>5, <3>1, <3>2, <3>3, EarlierOrders
  <2> QED BY <2>2, <2>3, <2>4, <2>6 DEF Verdict
<1>3. ASSUME ~flag.early_exit, Verdict(flag, before) = Enabled
      PROVE  Verdict(flag, after) = Enabled
  <2>1. Ending(flag, before) # {} /\ before[First(flag, before)] = "match"
    BY <1>3 DEF Verdict, Enabled, Disabled, Inconclusive
  <2>2. First(flag, before) \in DOMAIN before
    BY <2>1, FirstEnds DEF Ending
  <2>3. First(flag, before) \in Ending(flag, after)
    BY <2>1, <2>2 DEF Ending, Ends, Unknown
  <2>4. First(flag, after) \in Ending(flag, after)
    BY <2>3, FirstEnds
  <2> QED BY <1>3, <2>3, <2>4 DEF Verdict, Ending, Ends
<1> QED BY <1>1, <1>2, <1>3 DEF Verdict, Enabled, Disabled, Inconclusive
-----------------------------------------------------------------------------
(* Matching with more properties passed. *)

\* A context in which more of the groups' properties are passed.
More(more, less) ==
  /\ more.hash = less.hash /\ more.flags = less.flags
  /\ \A t \in DOMAIN less.group_properties :
       /\ t \in DOMAIN more.group_properties
       /\ Extends(more.group_properties[t], less.group_properties[t])

LEMMA PropertiesAreOfFlag ==
  ASSUME NEW flag, NEW i \in DOMAIN flag.conditions,
         NEW j \in DOMAIN flag.conditions[i].properties
  PROVE  flag.conditions[i].properties[j] \in PropertiesOf(flag)
BY DEF PropertiesOf

LEMMA TargetKeeps ==
  ASSUME NEW flag, NEW condition, NEW less, NEW more, More(more, less),
         NEW person, NEW extended, Extends(extended, person),
         ConditionTarget(less, flag, condition, person).is # "inconclusive"
  PROVE  LET was == ConditionTarget(less, flag, condition, person)
             is == ConditionTarget(more, flag, condition, extended)
         IN  /\ is.is = was.is /\ was.is \in {"use", "skip"}
             /\ was.is = "use" => is.id = was.id /\ Extends(is.properties, was.properties)
BY DEF ConditionTarget, More

\* The outcome of a condition, once known, stays, if the answer of its properties does.
LEMMA OutcomeKeeps ==
  ASSUME NEW less, NEW more, More(more, less), NEW flag, NEW condition,
         NEW was, NEW is, is.is = was.is, was.is \in {"use", "skip"},
         was.is = "use" => is.id = was.id,
         NEW before, NEW after, was.is = "use" /\ before # Unknown => after = before,
         Outcome(less, flag, condition, was, before) # Unknown
  PROVE  Outcome(more, flag, condition, is, after) = Outcome(less, flag, condition, was, before)
<1>1. CASE was.is = "skip"
  BY <1>1 DEF Outcome
<1>2. CASE was.is = "use"
  <2>1. before # Unknown
    BY <1>2 DEF Outcome, ConditionMatch, Yes, Unknown
  <2> QED BY <1>2, <2>1 DEF Outcome, ConditionMatch, HashKey, More
<1> QED BY <1>1, <1>2

\* What an enabled flag evaluates to is not "false", nor inconclusive.
LEMMA ValueIsOn ==
  ASSUME NEW ctx, NEW flag, NEW condition, NEW id, WellFormed(flag)
  PROVE  IsOn(ValueOf(ctx, flag, condition, id))
<1> DEFINE variants == flag.variants
           h == HashKey(ctx, flag.key, "variant", id)
           B == Buckets(variants, h)
<1>1. CASE condition.variant \in {variants[i].key : i \in DOMAIN variants}
  BY <1>1 DEF ValueOf, WellFormed, IsOn
<1>2. CASE MatchingVariant(variants, h) = None
  BY <1>2, <1>1 DEF ValueOf, IsOn, Enabled, Disabled, Inconclusive
<1>3. CASE MatchingVariant(variants, h) # None
  <2>1. B # {} /\ B \subseteq DOMAIN variants /\ B \subseteq Nat
    BY <1>3 DEF MatchingVariant, Buckets, WellFormed
  <2>2. \E i \in B : \A j \in B : i <= j
    <3> HIDE DEF B
    <3> QED BY <2>1, NatMinimum
  <2>3. (CHOOSE i \in B : \A j \in B : i <= j) \in B
    <3> HIDE DEF B
    <3> QED BY <2>2
  <2>4. \E i \in DOMAIN variants : MatchingVariant(variants, h) = variants[i].key
    <3> HIDE DEF h
    <3> QED BY <2>1, <2>3 DEF MatchingVariant
  <2>5. MatchingVariant(variants, h) \notin {Enabled, Disabled, Inconclusive}
    BY <2>4 DEF WellFormed
  <2> QED BY <1>1, <2>5 DEF ValueOf, IsOn, Enabled, Disabled, Inconclusive
<1> QED BY <1>1, <1>2, <1>3

\* Whether a flag is on is what the loop concludes.
LEMMA ValueVerdict ==
  ASSUME NEW ctx, NEW flag, NEW person, NEW outcome, WellFormed(flag)
  PROVE  LET value == Value(ctx, flag, person, outcome)
         IN  /\ value = Disabled <=> ~flag.active \/ Verdict(flag, outcome) = Disabled
             /\ IsOn(value) <=> flag.active /\ Verdict(flag, outcome) = Enabled
<1> DEFINE condition == flag.conditions[First(flag, outcome)]
           on == ValueOf(ctx, flag, condition,
                         ConditionTarget(ctx, flag, condition, person).id)
<1>1. IsOn(on)
  BY ValueIsOn
<1>2. Value(ctx, flag, person, outcome) =
        IF ~flag.active THEN Disabled
        ELSE IF Ending(flag, outcome) = {}
        THEN IF \E i \in DOMAIN outcome : outcome[i] = Unknown THEN Inconclusive ELSE Disabled
        ELSE IF outcome[First(flag, outcome)] = "match" THEN on ELSE Disabled
  BY DEF Value
<1> HIDE DEF on
<1> QED BY <1>1, <1>2 DEF Verdict, IsOn, Enabled, Disabled, Inconclusive

LEMMA PlainKeeps ==
  ASSUME NEW less, NEW more, More(more, less),
         NEW person, NEW extended, Extends(extended, person),
         NEW flag, \A q \in PropertiesOf(flag) : Tests(q),
         NEW i \in DOMAIN flag.conditions,
         Plain(less, flag, person)[i] # Unknown
  PROVE  Plain(more, flag, extended)[i] = Plain(less, flag, person)[i]
<1> DEFINE c == flag.conditions[i]
           was == ConditionTarget(less, flag, c, person)
           is == ConditionTarget(more, flag, c, extended)
           before == MatchAll(c.properties, was.properties)
           after == MatchAll(c.properties, is.properties)
<1>1. /\ Plain(less, flag, person)[i] = Outcome(less, flag, c, was, before)
      /\ Plain(more, flag, extended)[i] = Outcome(more, flag, c, is, after)
  BY DEF Plain
<1>2. was.is # "inconclusive"
  BY <1>1 DEF Outcome
<1>3. /\ is.is = was.is /\ was.is \in {"use", "skip"}
      /\ was.is = "use" => is.id = was.id /\ Extends(is.properties, was.properties)
  BY <1>2, TargetKeeps
<1>4. \A j \in DOMAIN c.properties : Tests(c.properties[j])
  BY PropertiesAreOfFlag
<1>5. was.is = "use" /\ before # Unknown => after = before
  <2> HIDE DEF c, was, is
  <2> QED BY <1>3, <1>4, MatchAllKeeps
<1> HIDE DEF c, was, is, before, after
<1> QED BY <1>1, <1>3, <1>5, OutcomeKeeps

\* A dependency on an enabled flag, once decided, stays.
LEMMA DependencyKeeps ==
  ASSUME NEW less, NEW more, More(more, less), NEW p,
         p.operator = "exact", p.value = Enabled,
         p.key \in DOMAIN less.flags =>
           /\ WellFormed(less.flags[p.key])
           /\ ~less.flags[p.key].early_exit
           /\ \A q \in PropertiesOf(less.flags[p.key]) : Tests(q),
         MatchDependency(less, p) # Unknown
  PROVE  MatchDependency(more, p) = MatchDependency(less, p)
<1> DEFINE base == less.flags[p.key]
           was == MatchFeatureFlag(less, base, NoProperties)
           is == MatchFeatureFlag(more, base, NoProperties)
<1>1. p.key \in DOMAIN less.flags /\ was # Inconclusive
  BY DEF MatchDependency
<1>2. WellFormed(base)
  BY <1>1
<1>3. \A i \in DOMAIN Plain(less, base, NoProperties) :
        Plain(less, base, NoProperties)[i] # Unknown =>
          Plain(more, base, NoProperties)[i] = Plain(less, base, NoProperties)[i]
  <2>1. Extends(NoProperties, NoProperties)
    BY DEF Extends
  <2>2. \A q \in PropertiesOf(base) : Tests(q)
    BY <1>1
  <2>3. DOMAIN Plain(less, base, NoProperties) = DOMAIN base.conditions
    BY DEF Plain
  <2> HIDE DEF base
  <2> QED BY <2>1, <2>2, <2>3, PlainKeeps
<1>4. /\ Verdict(base, Plain(less, base, NoProperties)) = Disabled =>
           Verdict(base, Plain(more, base, NoProperties)) = Disabled
      /\ Verdict(base, Plain(less, base, NoProperties)) = Enabled =>
           Verdict(base, Plain(more, base, NoProperties)) = Enabled
  <2>1. /\ DOMAIN Plain(less, base, NoProperties) \subseteq Nat
        /\ DOMAIN Plain(more, base, NoProperties) = DOMAIN Plain(less, base, NoProperties)
    BY <1>2 DEF Plain, WellFormed
  <2>2. ~base.early_exit
    BY <1>1
  <2> HIDE DEF base
  <2> QED BY <1>3, <2>1, <2>2, VerdictKeeps
<1>5. (was = Disabled => is = Disabled) /\ (IsOn(was) => IsOn(is))
  BY <1>2, <1>4, ValueVerdict DEF MatchFeatureFlag
<1>6. MatchDependency(less, p) = Answer(Meets(was, p.value))
  BY <1>1 DEF MatchDependency
<1>7. is # Inconclusive
  BY <1>1, <1>5 DEF IsOn, Disabled, Inconclusive
<1>8. MatchDependency(more, p) = Answer(Meets(is, p.value))
  BY <1>1, <1>7 DEF MatchDependency, More
<1>9. Meets(is, Enabled) <=> Meets(was, Enabled)
  <2> HIDE DEF is, was
  <2> QED BY <1>1, <1>5, <1>7 DEF Meets, IsOn, Enabled, Disabled, Inconclusive
<1> HIDE DEF is, was
<1> QED BY <1>6, <1>8, <1>9 DEF Answer

LEMMA InContextTyped ==
  ASSUME NEW ctx, NEW p, NEW properties
  PROVE  MatchInContext(ctx, p, properties) \in {Yes, No, Unknown}
BY PropertyTyped, CohortTyped, DependencyTyped DEF MatchInContext

LEMMA InContextKeeps ==
  ASSUME NEW less, NEW more, More(more, less), less.flags = flags,
         \A k \in DOMAIN flags : WellFormed(flags[k]),
         NEW key \in DOMAIN flags, Steady(key), NEW p \in PropertiesOf(flags[key]),
         NEW properties, NEW extended, Extends(extended, properties),
         MatchInContext(less, p, properties) # Unknown
  PROVE  MatchInContext(more, p, extended) = MatchInContext(less, p, properties)
<1>1. CASE p.type = "cohort"
  <2>1. p.value \in DOMAIN Cohorts =>
          \A i \in DOMAIN Cohorts[p.value] : Tests(Parsed(Cohorts[p.value])[i])
    BY <1>1 DEF Steady
  <2> QED BY <1>1, <2>1, CohortKeeps DEF MatchInContext
<1>2. CASE p.type = "flag"
  <2>1. /\ p.operator = "exact" /\ p.value = Enabled
        /\ p.key \in DOMAIN flags =>
             /\ ~flags[p.key].early_exit
             /\ \A q \in PropertiesOf(flags[p.key]) : Tests(q)
    BY <1>2 DEF Steady
  <2>2. MatchInContext(more, p, extended) = MatchDependency(more, p)
        /\ MatchInContext(less, p, properties) = MatchDependency(less, p)
    BY <1>2 DEF MatchInContext
  <2> QED BY <2>1, <2>2, DependencyKeeps
<1>3. CASE p.type \notin {"cohort", "flag"}
  <2>1. Tests(p)
    BY <1>3 DEF Steady
  <2> QED BY <1>3, <2>1, PropertyKeeps DEF MatchInContext, Tests
<1> QED BY <1>1, <1>2, <1>3

\* The outcome of a condition, once known, stays, whatever its properties look at.
LEMMA ConditionKeeps ==
  ASSUME NEW less, NEW more, More(more, less), less.flags = flags,
         \A k \in DOMAIN flags : WellFormed(flags[k]),
         NEW key \in DOMAIN flags, Steady(key),
         NEW person, NEW extended, Extends(extended, person),
         NEW i \in DOMAIN flags[key].conditions,
         InContext(less, flags[key], person)[i] # Unknown
  PROVE  InContext(more, flags[key], extended)[i] = InContext(less, flags[key], person)[i]
<1> DEFINE c == flags[key].conditions[i]
           was == ConditionTarget(less, flags[key], c, person)
           is == ConditionTarget(more, flags[key], c, extended)
           n == DOMAIN c.properties
           answers == [j \in n |-> MatchInContext(less, c.properties[j], was.properties)]
           answersNow == [j \in n |-> MatchInContext(more, c.properties[j], is.properties)]
           before == AllOf(answers)
           after == AllOf(answersNow)
<1>1. /\ InContext(less, flags[key], person)[i] = Outcome(less, flags[key], c, was, before)
      /\ InContext(more, flags[key], extended)[i] = Outcome(more, flags[key], c, is, after)
  BY DEF InContext
<1>2. was.is # "inconclusive"
  <2> HIDE DEF c, was, before
  <2> QED BY <1>1 DEF Outcome
<1>3. /\ is.is = was.is /\ was.is \in {"use", "skip"}
      /\ was.is = "use" => is.id = was.id /\ Extends(is.properties, was.properties)
  BY <1>2, TargetKeeps
<1>4. was.is = "use" /\ before # Unknown => after = before
  <2> SUFFICES ASSUME was.is = "use", before # Unknown
               PROVE  after = before
    OBVIOUS
  <2>1. \A j \in n : c.properties[j] \in PropertiesOf(flags[key])
    BY PropertiesAreOfFlag
  <2>2. \A j \in DOMAIN answers : answers[j] # Unknown => answersNow[j] = answers[j]
    <3> HIDE DEF was, is, c, n
    <3> QED BY <1>3, <2>1, InContextKeeps
  <2>3. \A j \in DOMAIN answers : /\ answers[j] \in {Yes, No, Unknown}
                                  /\ answersNow[j] \in {Yes, No, Unknown}
    <3> HIDE DEF was, is, c, n
    <3> QED BY InContextTyped
  <2>4. DOMAIN answersNow = DOMAIN answers
    OBVIOUS
  <2> HIDE DEF answers, answersNow
  <2> QED BY <2>2, <2>3, <2>4, AllOfKeeps
<1> HIDE DEF c, was, is, before, after
<1> QED BY <1>1, <1>3, <1>4, OutcomeKeeps
-----------------------------------------------------------------------------
(* A larger rollout. *)

\* g is f, but for larger rollouts.
Raised(g, f) ==
  /\ g.key = f.key /\ g.active = f.active /\ g.variants = f.variants
  /\ g.aggregation = f.aggregation /\ g.early_exit = f.early_exit
  /\ DOMAIN g.conditions = DOMAIN f.conditions
  /\ \A i \in DOMAIN f.conditions :
       /\ g.conditions[i].properties = f.conditions[i].properties
       /\ g.conditions[i].variant = f.conditions[i].variant
       /\ g.conditions[i].aggregation = f.conditions[i].aggregation
       /\ \/ g.conditions[i].rollout = f.conditions[i].rollout
          \/ /\ f.conditions[i].rollout # None
             /\ f.conditions[i].rollout < g.conditions[i].rollout

LEMMA RaisedReflexive == ASSUME NEW f PROVE Raised(f, f)
BY DEF Raised

LEMMA RaisedProperties ==
  ASSUME NEW f, NEW g, Raised(g, f)
  PROVE  PropertiesOf(g) = PropertiesOf(f)
<1> DEFINE all(h) == {h.conditions[i] : i \in DOMAIN h.conditions}
           some(c) == {c.properties[i] : i \in DOMAIN c.properties}
<1>1. {some(c) : c \in all(g)} = {some(c) : c \in all(f)}
  BY DEF Raised
<1>2. \A h : PropertiesOf(h) = UNION {some(c) : c \in all(h)}
  BY DEF PropertiesOf
<1> HIDE DEF some, all
<1> QED BY <1>1, <1>2

\* Raising one rollout of a flag.
LEMMA RaiseRaises ==
  ASSUME NEW f, WellFormed(f), NEW i \in DOMAIN f.conditions, NEW rollout \in 0..Scale,
         f.conditions[i].rollout # None, f.conditions[i].rollout < rollout,
         NEW g, g = [f EXCEPT !.conditions[i].rollout = rollout]
  PROVE  WellFormed(g) /\ Raised(g, f)
<1> DEFINE c == f.conditions[i]
           d == [c EXCEPT !.rollout = rollout]
<1>1. /\ DOMAIN g = DOMAIN f
      /\ \A x \in DOMAIN f \ {"conditions"} : g[x] = f[x]
      /\ g.conditions = [f.conditions EXCEPT ![i] = d]
  BY DEF WellFormed
<1>2. /\ DOMAIN d = DOMAIN c /\ d.rollout = rollout
      /\ d.properties = c.properties /\ d.variant = c.variant /\ d.aggregation = c.aggregation
  BY DEF WellFormed
<1>3. /\ g.key = f.key /\ g.active = f.active /\ g.variants = f.variants
      /\ g.aggregation = f.aggregation /\ g.early_exit = f.early_exit
  BY <1>1 DEF WellFormed
<1> HIDE DEF d
<1>4. /\ DOMAIN g.conditions = DOMAIN f.conditions /\ g.conditions[i] = d
      /\ \A j \in DOMAIN f.conditions \ {i} : g.conditions[j] = f.conditions[j]
  BY <1>1
<1>5. Raised(g, f)
  BY <1>2, <1>3, <1>4 DEF Raised
<1>6. WellFormed(g)
  <2>1. ASSUME NEW j \in DOMAIN g.conditions
        PROVE  /\ {"properties", "rollout", "variant", "aggregation"}
                    \subseteq DOMAIN g.conditions[j]
               /\ g.conditions[j].rollout \in 0..Scale \union {None}
    BY <1>2, <1>4 DEF WellFormed
  <2> QED BY <1>1, <1>3, <1>4, <2>1 DEF WellFormed
<1> QED BY <1>5, <1>6
-----------------------------------------------------------------------------
(* The invariant: the results are those of the last evaluation. *)

Consistent ==
  /\ \A key \in DOMAIN flags : WellFormed(flags[key])
  /\ results = EvaluateAllFlags(flags, given, known)

LEMMA InitConsistent == Init => Consistent
BY DefinitionsAssumption DEF Init, Consistent

LEMMA EvaluateConsistent ==
  ASSUME NEW definitions, NEW owners, NEW pairs, Evaluate(definitions, owners, pairs),
         \A key \in DOMAIN definitions : WellFormed(definitions[key])
  PROVE  Consistent'
<1>1. EvaluateAllFlags(definitions, owners, pairs)
        = EvaluateAllFlags(definitions, owners, pairs)'
  BY DEF Evaluate, EvaluateAllFlags, Context, Passed
<1> QED BY <1>1 DEF Evaluate, Consistent, EvaluateAllFlags, Context, Passed

LEMMA NextConsistent ==
  ASSUME Consistent, [Next]_vars
  PROVE  Consistent'
<1>1. ASSUME NEW owner \in DOMAIN truth, NEW key \in DOMAIN truth[owner],
             PassProperty(owner, key)
      PROVE  Consistent'
  BY <1>1, EvaluateConsistent DEF PassProperty, Consistent
<1>2. ASSUME NEW type \in DOMAIN Groups, PassGroupProperties(type)
      PROVE  Consistent'
  BY <1>2, EvaluateConsistent DEF PassGroupProperties, Consistent
<1>3. ASSUME NEW key \in DOMAIN flags, NEW i \in DOMAIN flags[key].conditions,
             NEW rollout \in Rollouts, RaiseRollout(key, i, rollout)
      PROVE  Consistent'
  <2> DEFINE raised == [flags EXCEPT ![key].conditions[i].rollout = rollout]
  <2>1. WellFormed(flags[key])
    BY DEF Consistent
  <2>2. ASSUME NEW k \in DOMAIN raised
        PROVE  WellFormed(raised[k])
    <3>1. CASE k = key
      <4>1. raised[k] = [flags[key] EXCEPT !.conditions[i].rollout = rollout]
        BY <3>1
      <4>2. /\ rollout \in 0..Scale /\ flags[key].conditions[i].rollout # None
            /\ flags[key].conditions[i].rollout < rollout
        BY <1>3, HashesAssumption DEF RaiseRollout
      <4> HIDE DEF raised
      <4> QED BY <2>1, <4>1, <4>2, RaiseRaises
    <3>2. CASE k # key
      BY <2>2, <3>2 DEF Consistent
    <3> QED BY <3>1, <3>2
  <2>3. Evaluate(raised, given, known)
    BY <1>3 DEF RaiseRollout
  <2> HIDE DEF raised
  <2> QED BY <2>2, <2>3, EvaluateConsistent
<1>4. CASE UNCHANGED vars
  BY <1>4 DEF vars, Consistent, EvaluateAllFlags, Context, Passed
<1> QED BY <1>1, <1>2, <1>3, <1>4 DEF Next

\* Between two evaluations of the same flags, more is passed.
LEMMA MoreIsPassed ==
  ASSUME [Next]_vars, flags' = flags
  PROVE  /\ More(Context(flags, given, known)', Context(flags, given, known))
         /\ Extends(Passed("person", known)', Passed("person", known))
<1>1. /\ given \subseteq given' /\ known \subseteq known'
      /\ hash' = hash /\ truth' = truth
  BY DEF Next, vars, Evaluate, PassProperty, PassGroupProperties, RaiseRollout
<1>2. ASSUME NEW owner
      PROVE  Extends(Passed(owner, known)', Passed(owner, known))
  BY <1>1 DEF Extends, Passed
<1> QED BY <1>1, <1>2 DEF More, Context

\* A Steady flag found disabled stays disabled, whatever else is passed.
THEOREM DisabledFlagsStay == Spec => DisabledStays
<1>1. ASSUME Consistent, [Next]_vars, flags' = flags, NEW key \in DOMAIN flags,
             Steady(key), results[key] = Disabled
      PROVE  results'[key] = Disabled
  <2> DEFINE less == Context(flags, given, known)
             person == Passed("person", known)
             before == InContext(less, flags[key], person)
             after == InContext(less', flags[key], person')
  <2>1. More(less', less) /\ Extends(person', person) /\ less.flags = flags
    BY <1>1, MoreIsPassed DEF Context
  <2>2. /\ results[key] = MatchWithContext(less, flags[key], person)
        /\ results'[key] = MatchWithContext(less', flags[key], person')
    BY <1>1, NextConsistent DEF Consistent, EvaluateAllFlags
  <2>3. WellFormed(flags[key])
    BY <1>1 DEF Consistent
  <2>4. \A i \in DOMAIN before : before[i] # Unknown => after[i] = before[i]
    <3>1. DOMAIN before = DOMAIN flags[key].conditions
      BY DEF InContext
    <3> HIDE DEF less, person
    <3> QED BY <1>1, <2>1, <3>1, ConditionKeeps DEF Consistent
  <2>5. DOMAIN before \subseteq Nat /\ DOMAIN after = DOMAIN before
    BY <2>3 DEF InContext, WellFormed
  <2>6. Verdict(flags[key], before) = Disabled => Verdict(flags[key], after) = Disabled
    <3> HIDE DEF before, after
    <3> QED BY <2>4, <2>5, VerdictKeeps
  <2> HIDE DEF less, person
  <2> QED BY <1>1, <2>2, <2>3, <2>6, ValueVerdict DEF MatchWithContext
<1>2. Consistent /\ [Next]_vars =>
        [\A key \in DOMAIN flags :
           Steady(key) /\ flags' = flags /\ results[key] = Disabled
             => results'[key] = Disabled]_vars
  BY <1>1
<1>3. Consistent /\ [Next]_vars => Consistent'
  BY NextConsistent
<1> QED BY InitConsistent, <1>2, <1>3, PTL DEF Spec, DisabledStays
-----------------------------------------------------------------------------
(* What every step does to the flags. *)

LEMMA NextRaises ==
  ASSUME Consistent, [Next]_vars
  PROVE  /\ DOMAIN flags' = DOMAIN flags
         /\ \A key \in DOMAIN flags : Raised(flags'[key], flags[key])
         /\ given \subseteq given' /\ known \subseteq known'
         /\ hash' = hash /\ truth' = truth
<1>1. ASSUME NEW owner \in DOMAIN truth, NEW key \in DOMAIN truth[owner],
             PassProperty(owner, key)
      PROVE  /\ flags' = flags /\ given' = given /\ known \subseteq known'
             /\ hash' = hash /\ truth' = truth
  BY <1>1 DEF PassProperty, Evaluate
<1>2. ASSUME NEW type \in DOMAIN Groups, PassGroupProperties(type)
      PROVE  /\ flags' = flags /\ given \subseteq given' /\ known' = known
             /\ hash' = hash /\ truth' = truth
  BY <1>2 DEF PassGroupProperties, Evaluate
<1>3. ASSUME NEW key \in DOMAIN flags, NEW i \in DOMAIN flags[key].conditions,
             NEW rollout \in Rollouts, RaiseRollout(key, i, rollout)
      PROVE  /\ DOMAIN flags' = DOMAIN flags /\ given' = given /\ known' = known
             /\ hash' = hash /\ truth' = truth
             /\ \A k \in DOMAIN flags : Raised(flags'[k], flags[k])
  <2>1. /\ flags' = [flags EXCEPT ![key].conditions[i].rollout = rollout]
        /\ given' = given /\ known' = known /\ hash' = hash /\ truth' = truth
        /\ rollout \in 0..Scale /\ flags[key].conditions[i].rollout # None
        /\ flags[key].conditions[i].rollout < rollout
    BY <1>3, HashesAssumption DEF RaiseRollout, Evaluate
  <2>2. WellFormed(flags[key])
    BY DEF Consistent
  <2>3. flags'[key] = [flags[key] EXCEPT !.conditions[i].rollout = rollout]
    BY <2>1
  <2>4. Raised(flags'[key], flags[key])
    BY <2>1, <2>2, <2>3, RaiseRaises
  <2>5. \A k \in DOMAIN flags \ {key} : flags'[k] = flags[k]
    BY <2>1
  <2> QED BY <2>1, <2>4, <2>5, RaisedReflexive
<1>4. CASE UNCHANGED vars
  BY <1>4, RaisedReflexive DEF vars
<1> QED BY <1>1, <1>2, <1>3, <1>4, RaisedReflexive DEF Next
-----------------------------------------------------------------------------
(* A dependency is decided by match_feature_flag, which takes the conditions of the other *)
(* flag on a cohort or on a third flag for conditions on a property of that name.         *)

\* No property of a group is named like a flag or cohort some flag looks at. The names are the
\* users' to choose, and without this a dependency may be decided by the wrong value.
NamesApart ==
  \A d \in Definitions, t \in Truths : \A key \in DOMAIN d : \A q \in PropertiesOf(d[key]) :
    q.type \in {"cohort", "flag"} =>
      \A type \in DOMAIN Groups : q.key \notin DOMAIN t[type]

Apart ==
  \A key \in DOMAIN flags : \A q \in PropertiesOf(flags[key]) :
    q.type \in {"cohort", "flag"} =>
      \A type \in DOMAIN Groups : q.key \notin DOMAIN truth[type]

LEMMA NextApart ==
  ASSUME Consistent, Apart, [Next]_vars
  PROVE  Apart'
BY NextRaises, RaisedProperties DEF Apart

\* What match_feature_flag says of a condition without the person's properties,
\* match_feature_flag_with_context says with them.
LEMMA PlainForetells ==
  ASSUME NEW ctx, NEW flag, NEW person,
         \A q \in PropertiesOf(flag) : Tests(q),
         \A q \in PropertiesOf(flag) : q.type \in {"cohort", "flag"} =>
           \A type \in DOMAIN Groups \cap DOMAIN ctx.group_properties :
             q.key \notin DOMAIN ctx.group_properties[type],
         NEW i \in DOMAIN flag.conditions,
         Plain(ctx, flag, NoProperties)[i] # Unknown
  PROVE  InContext(ctx, flag, person)[i] = Plain(ctx, flag, NoProperties)[i]
<1> DEFINE c == flag.conditions[i]
           was == ConditionTarget(ctx, flag, c, NoProperties)
           is == ConditionTarget(ctx, flag, c, person)
           n == DOMAIN c.properties
           answers == [j \in n |-> MatchProperty(c.properties[j], was.properties)]
           answersNow == [j \in n |-> MatchInContext(ctx, c.properties[j], is.properties)]
           before == MatchAll(c.properties, was.properties)
           after == AllOf(answersNow)
<1>1. /\ Plain(ctx, flag, NoProperties)[i] = Outcome(ctx, flag, c, was, before)
      /\ InContext(ctx, flag, person)[i] = Outcome(ctx, flag, c, is, after)
  BY DEF InContext, Plain
<1>2. was.is # "inconclusive"
  <2> HIDE DEF c, was, before
  <2> QED BY <1>1 DEF Outcome
<1>3. More(ctx, ctx) /\ Extends(person, NoProperties)
  BY DEF More, Extends, NoProperties
<1>4. /\ is.is = was.is /\ was.is \in {"use", "skip"}
      /\ was.is = "use" => is.id = was.id /\ Extends(is.properties, was.properties)
  BY <1>2, <1>3, TargetKeeps
<1>5. was.is = "use" =>
        \/ was.properties = NoProperties
        \/ \E type \in DOMAIN Groups \cap DOMAIN ctx.group_properties :
             was.properties = ctx.group_properties[type]
  BY DEF ConditionTarget
<1>6. \A j \in n : c.properties[j] \in PropertiesOf(flag)
  BY PropertiesAreOfFlag
<1>7. was.is = "use" /\ before # Unknown => after = before
  <2> SUFFICES ASSUME was.is = "use", before # Unknown
               PROVE  after = before
    OBVIOUS
  <2>1. before = AllOf(answers)
    BY DEF MatchAll
  <2>2. ASSUME NEW j \in n, answers[j] # Unknown
        PROVE  answersNow[j] = answers[j]
    <3> DEFINE q == c.properties[j]
    <3>1. Tests(q) /\ q \in PropertiesOf(flag)
      BY <1>6
    <3>2. answers[j] = MatchProperty(q, was.properties)
          /\ answersNow[j] = MatchInContext(ctx, q, is.properties)
      OBVIOUS
    <3>3. q.key \in DOMAIN was.properties
      <4> HIDE DEF q, was, answers
      <4> QED BY <2>2, <3>1, <3>2 DEF MatchProperty, Tests
    <3>4. q.type \notin {"cohort", "flag"}
      <4>1. DOMAIN NoProperties = {}
        BY DEF NoProperties
      <4> HIDE DEF q, was
      <4> QED BY <1>5, <3>1, <3>3, <4>1
    <3> HIDE DEF q, was, is, answers, answersNow
    <3>5. answersNow[j] = MatchProperty(q, is.properties)
      BY <3>2, <3>4 DEF MatchInContext
    <3> QED BY <1>4, <2>2, <3>1, <3>2, <3>5, PropertyKeeps DEF Tests
  <2>3. \A j \in DOMAIN answers : /\ answers[j] \in {Yes, No, Unknown}
                                  /\ answersNow[j] \in {Yes, No, Unknown}
    <3> HIDE DEF was, is, c, n
    <3> QED BY InContextTyped, PropertyTyped
  <2>4. DOMAIN answersNow = DOMAIN answers /\ DOMAIN answers = n
    OBVIOUS
  <2> HIDE DEF answers, answersNow, before, n
  <2> QED BY <2>1, <2>2, <2>3, <2>4, AllOfKeeps
<1> HIDE DEF c, was, is, before, after
<1> QED BY <1>1, <1>3, <1>4, <1>7, OutcomeKeeps

\* A dependency on an enabled flag is decided as the flag itself is.
LEMMA DependencyForetells ==
  ASSUME Consistent, Apart, NEW key \in DOMAIN flags, NEW p \in PropertiesOf(flags[key]),
         p.type = "flag", p.key \in DOMAIN flags, Steady(key)
  PROVE  LET answer == MatchDependency(Context(flags, given, known), p)
         IN  /\ answer = Yes => IsOn(results[p.key])
             /\ answer = No => results[p.key] = Disabled
<1> DEFINE ctx == Context(flags, given, known)
           person == Passed("person", known)
           base == flags[p.key]
           before == Plain(ctx, base, NoProperties)
           after == InContext(ctx, base, person)
           was == MatchFeatureFlag(ctx, base, NoProperties)
           is == MatchWithContext(ctx, base, person)
<1>1. /\ p.operator = "exact" /\ p.value = Enabled
      /\ ~base.early_exit /\ \A q \in PropertiesOf(base) : Tests(q)
  BY DEF Steady
<1>2. ctx.flags = flags /\ results[p.key] = is /\ WellFormed(base)
  BY DEF Consistent, EvaluateAllFlags, Context
<1>3. \A q \in PropertiesOf(base) : q.type \in {"cohort", "flag"} =>
        \A type \in DOMAIN Groups \cap DOMAIN ctx.group_properties :
          q.key \notin DOMAIN ctx.group_properties[type]
  BY DEF Apart, Context, Passed
<1>4. DOMAIN before \subseteq Nat /\ DOMAIN after = DOMAIN before
      /\ DOMAIN before = DOMAIN base.conditions
  BY <1>2 DEF Plain, InContext, WellFormed
<1>5. \A i \in DOMAIN before : before[i] # Unknown => after[i] = before[i]
  <2> HIDE DEF ctx, person, base
  <2> QED BY <1>1, <1>3, <1>4, PlainForetells
<1>6. /\ Verdict(base, before) = Disabled => Verdict(base, after) = Disabled
      /\ Verdict(base, before) = Enabled => Verdict(base, after) = Enabled
  <2> HIDE DEF ctx, person, base, before, after
  <2> QED BY <1>1, <1>4, <1>5, VerdictKeeps
<1>7. (was = Disabled => is = Disabled) /\ (IsOn(was) => IsOn(is))
  BY <1>2, <1>6, ValueVerdict DEF MatchFeatureFlag, MatchWithContext
<1>8. MatchDependency(ctx, p) =
        IF was = Inconclusive THEN Unknown ELSE Answer(Meets(was, p.value))
  BY <1>1, <1>2 DEF MatchDependency
<1> HIDE DEF ctx, person, base, before, after, was, is
<1>9. (MatchDependency(ctx, p) = Yes => IsOn(is)) /\ (MatchDependency(ctx, p) = No => is = Disabled)
  BY <1>1, <1>7, <1>8 DEF Answer, Meets, IsOn, Yes, No, Unknown, Enabled, Disabled, Inconclusive
<1> QED BY <1>2, <1>9 DEF ctx

\* Unless the users' names collide, a dependency of a Steady flag, decided without the person's
\* properties, never contradicts what the flag evaluates to with all of them.
THEOREM DependenciesAgree == NamesApart /\ Spec => []DependencyAgrees
<1>1. NamesApart /\ Init => Apart
  BY DEF Init, NamesApart, Apart
<1>2. Consistent /\ Apart /\ [Next]_vars => Apart'
  BY NextApart
<1>3. Consistent /\ Apart => DependencyAgrees
  BY DependencyForetells DEF DependencyAgrees
<1>4. Consistent /\ [Next]_vars => Consistent'
  BY NextConsistent
<1> QED BY InitConsistent, <1>1, <1>2, <1>3, <1>4, PTL DEF Spec
-----------------------------------------------------------------------------
(* A flag that is on stays on: what matched goes on matching. *)

\* A context with more of the groups' properties, and larger rollouts.
Grown(more, less) ==
  /\ more.hash = less.hash
  /\ DOMAIN more.flags = DOMAIN less.flags
  /\ \A key \in DOMAIN less.flags : Raised(more.flags[key], less.flags[key])
  /\ \A t \in DOMAIN less.group_properties :
       /\ t \in DOMAIN more.group_properties
       /\ Extends(more.group_properties[t], less.group_properties[t])

\* The flag, and its hash for every id, are what the comparison with a rollout expects.
Comparable(ctx, flag) ==
  WellFormed(flag) /\ \A id \in Ids : ctx.hash[<<flag.key, "", id>>] \in 0..Scale

LEMMA TargetGrows ==
  ASSUME NEW less, NEW more, Grown(more, less), NEW f, NEW g, Raised(g, f),
         NEW person, NEW extended, Extends(extended, person), NEW i \in DOMAIN f.conditions,
         ConditionTarget(less, f, f.conditions[i], person).is # "inconclusive"
  PROVE  LET was == ConditionTarget(less, f, f.conditions[i], person)
             is == ConditionTarget(more, g, g.conditions[i], extended)
         IN  /\ is.is = was.is /\ was.is \in {"use", "skip"}
             /\ was.is = "use" => /\ is.id = was.id /\ was.id \in Ids
                                  /\ Extends(is.properties, was.properties)
<1>1. /\ g.aggregation = f.aggregation
      /\ g.conditions[i].aggregation = f.conditions[i].aggregation
  BY DEF Raised
<1> QED BY <1>1 DEF ConditionTarget, Grown, Ids

\* A condition that matches goes on matching if its properties do.
LEMMA OutcomeGrows ==
  ASSUME NEW less, NEW more, Grown(more, less), NEW f, NEW g, Raised(g, f),
         Comparable(less, f), WellFormed(g), NEW i \in DOMAIN f.conditions,
         NEW was, NEW is, is.is = was.is, was.is = "use" => is.id = was.id /\ was.id \in Ids,
         was.is \in {"use", "skip"},
         NEW before \in {Yes, No, Unknown},
         NEW after, was.is = "use" /\ before = Yes => after = Yes,
         Outcome(less, f, f.conditions[i], was, before) = "match"
  PROVE  Outcome(more, g, g.conditions[i], is, after) = "match"
<1> DEFINE c == f.conditions[i]
           d == g.conditions[i]
           h == HashKey(less, f.key, "", was.id)
<1>1. was.is = "use"
  BY DEF Outcome, No
<1>2. /\ before = Yes
      /\ ~(c.rollout # None /\ h > Fraction(c.rollout))
  BY <1>1 DEF Outcome, ConditionMatch, Yes, No, Unknown
<1>3. h \in Nat
  <2>1. less.hash[<<f.key, "", was.id>>] \in 0..Top
    BY <1>1, Scales DEF Comparable
  <2> QED BY <2>1, Rounded DEF HashKey
<1>4. /\ c.rollout \in 0..Scale \union {None} /\ d.rollout \in 0..Scale \union {None}
      /\ \/ d.rollout = c.rollout
         \/ c.rollout # None /\ c.rollout < d.rollout
  BY DEF Comparable, WellFormed, Raised
<1>5. ~(d.rollout # None /\ h > Fraction(d.rollout))
  <2> HIDE DEF c, d, h
  <2> SUFFICES ASSUME d.rollout # None, d.rollout # c.rollout
               PROVE  ~(h > Fraction(d.rollout))
    BY <1>2
  <2>1. /\ c.rollout \in 0..Scale /\ d.rollout \in 0..Scale /\ c.rollout < d.rollout
        /\ ~(h > Round[c.rollout])
    BY <1>2, <1>4 DEF Fraction
  <2>2. c.rollout \in 0..d.rollout /\ d.rollout \in 0..Top /\ c.rollout \in 0..Top
    BY <2>1, Scales
  <2>3. Round[c.rollout] <= Round[d.rollout]
    BY <2>2, RoundMonotone
  <2>4. Round[c.rollout] \in Nat /\ Round[d.rollout] \in Nat
    BY <2>2, Rounded
  <2> QED BY <1>3, <2>1, <2>3, <2>4 DEF Fraction
<1>6. HashKey(more, g.key, "", is.id) = h
  BY <1>1 DEF HashKey, Grown, Raised
<1>7. after = Yes /\ is.is = "use"
  BY <1>1, <1>2
<1> HIDE DEF c, d, h
<1> QED BY <1>5, <1>6, <1>7 DEF Outcome, ConditionMatch, d

LEMMA AllOfYes ==
  ASSUME NEW answers, \A i \in DOMAIN answers : answers[i] \in {Yes, No, Unknown}
  PROVE  AllOf(answers) = Yes <=> \A i \in DOMAIN answers : answers[i] = Yes
BY DEF AllOf, Yes, No, Unknown

\* Without early exit a flag is on when some condition matches.
LEMMA VerdictMatches ==
  ASSUME NEW flag, NEW outcome, DOMAIN outcome \subseteq Nat, ~flag.early_exit
  PROVE  Verdict(flag, outcome) = Enabled <=> \E i \in DOMAIN outcome : outcome[i] = "match"
<1>1. Ending(flag, outcome) = {i \in DOMAIN outcome : outcome[i] = "match"}
  BY DEF Ending, Ends
<1>2. Ending(flag, outcome) # {} => First(flag, outcome) \in Ending(flag, outcome)
  BY FirstEnds
<1> QED BY <1>1, <1>2 DEF Verdict, Enabled, Disabled, Inconclusive

LEMMA PlainGrows ==
  ASSUME NEW less, NEW more, Grown(more, less), NEW f, NEW g, Raised(g, f),
         Comparable(less, f), WellFormed(g), \A q \in PropertiesOf(f) : Tests(q),
         NEW person, NEW extended, Extends(extended, person), NEW i \in DOMAIN f.conditions,
         Plain(less, f, person)[i] = "match"
  PROVE  Plain(more, g, extended)[i] = "match"
<1> DEFINE c == f.conditions[i]
           d == g.conditions[i]
           was == ConditionTarget(less, f, c, person)
           is == ConditionTarget(more, g, d, extended)
           before == MatchAll(c.properties, was.properties)
           after == MatchAll(d.properties, is.properties)
<1>1. /\ Plain(less, f, person)[i] = Outcome(less, f, c, was, before)
      /\ Plain(more, g, extended)[i] = Outcome(more, g, d, is, after)
  BY DEF Plain, Raised
<1>2. was.is # "inconclusive"
  <2> HIDE DEF c, was, before
  <2> QED BY <1>1 DEF Outcome, Unknown
<1>3. /\ is.is = was.is /\ was.is \in {"use", "skip"}
      /\ was.is = "use" => /\ is.id = was.id /\ was.id \in Ids
                           /\ Extends(is.properties, was.properties)
  BY <1>2, TargetGrows
<1>4. d.properties = c.properties /\ \A j \in DOMAIN c.properties : Tests(c.properties[j])
  BY PropertiesAreOfFlag DEF Raised
<1>5. was.is = "use" /\ before = Yes => after = Yes
  <2>1. Yes # Unknown
    BY DEF Yes, Unknown
  <2> HIDE DEF c, d, was, is
  <2> QED BY <1>3, <1>4, <2>1, MatchAllKeeps
<1>6. before \in {Yes, No, Unknown}
  BY DEF MatchAll, AllOf
<1> HIDE DEF was, is, before, after
<1>7. Outcome(less, f, f.conditions[i], was, before) = "match"
  BY <1>1
<1>8. Outcome(more, g, g.conditions[i], is, after) = "match"
  BY <1>3, <1>5, <1>6, <1>7, OutcomeGrows
<1> QED BY <1>1, <1>8

\* A flag found on by match_feature_flag stays on.
LEMMA DependencyGrows ==
  ASSUME NEW less, NEW more, Grown(more, less), NEW p, p.operator = "exact", p.value = Enabled,
         p.key \in DOMAIN less.flags =>
           /\ Comparable(less, less.flags[p.key]) /\ WellFormed(more.flags[p.key])
           /\ ~less.flags[p.key].early_exit
           /\ \A q \in PropertiesOf(less.flags[p.key]) : Tests(q),
         MatchDependency(less, p) = Yes
  PROVE  MatchDependency(more, p) = Yes
<1> DEFINE f == less.flags[p.key]
           g == more.flags[p.key]
           was == MatchFeatureFlag(less, f, NoProperties)
           is == MatchFeatureFlag(more, g, NoProperties)
           before == Plain(less, f, NoProperties)
           after == Plain(more, g, NoProperties)
<1>1. p.key \in DOMAIN less.flags /\ was # Inconclusive /\ Meets(was, Enabled)
  BY DEF MatchDependency, Answer, Yes, No, Unknown
<1>2. /\ p.key \in DOMAIN more.flags /\ Raised(g, f)
      /\ Comparable(less, f) /\ WellFormed(g) /\ WellFormed(f) /\ ~f.early_exit
      /\ \A q \in PropertiesOf(f) : Tests(q)
  BY <1>1 DEF Grown, Comparable
<1>3. IsOn(was)
  <2> HIDE DEF was
  <2> QED BY <1>1 DEF Meets, IsOn, Enabled, Disabled, Inconclusive
<1>4. /\ DOMAIN before \subseteq Nat /\ DOMAIN after \subseteq Nat
      /\ DOMAIN after = DOMAIN before /\ DOMAIN before = DOMAIN f.conditions
  BY <1>2 DEF Plain, WellFormed, Raised
<1>5. \A i \in DOMAIN before : before[i] = "match" => after[i] = "match"
  <2>1. Extends(NoProperties, NoProperties)
    BY DEF Extends
  <2> HIDE DEF f, g
  <2> QED BY <1>2, <1>4, <2>1, PlainGrows
<1>6. f.active /\ Verdict(f, before) = Enabled
  BY <1>2, <1>3, ValueVerdict DEF MatchFeatureFlag
<1>7. g.active /\ ~g.early_exit
  BY <1>2, <1>6 DEF Raised
<1>8. Verdict(g, after) = Enabled
  <2> HIDE DEF f, g, before, after
  <2> QED BY <1>2, <1>4, <1>5, <1>6, <1>7, VerdictMatches
<1>9. IsOn(is)
  BY <1>2, <1>7, <1>8, ValueVerdict DEF MatchFeatureFlag
<1>10. is # Inconclusive /\ Meets(is, Enabled)
  <2> HIDE DEF is
  <2> QED BY <1>9 DEF Meets, IsOn, Enabled, Disabled, Inconclusive
<1>11. MatchDependency(more, p) = Answer(Meets(is, p.value))
  BY <1>2, <1>10 DEF MatchDependency
<1> HIDE DEF is
<1> QED BY <1>10, <1>11 DEF Answer

\* The contexts of two evaluations of the flags.
Evaluated(less) ==
  /\ less.flags = flags
  /\ \A key \in DOMAIN flags : Comparable(less, flags[key])

LEMMA InContextGrows ==
  ASSUME NEW less, NEW more, Grown(more, less), Evaluated(less),
         \A key \in DOMAIN flags : WellFormed(more.flags[key]),
         NEW key \in DOMAIN flags, Steady(key), NEW p \in PropertiesOf(flags[key]),
         NEW properties, NEW extended, Extends(extended, properties),
         MatchInContext(less, p, properties) = Yes
  PROVE  MatchInContext(more, p, extended) = Yes
<1>0. Yes # Unknown
  BY DEF Yes, Unknown
<1>1. CASE p.type = "cohort"
  <2>1. p.value \in DOMAIN Cohorts =>
          \A i \in DOMAIN Cohorts[p.value] : Tests(Parsed(Cohorts[p.value])[i])
    BY <1>1 DEF Steady
  <2> QED BY <1>0, <1>1, <2>1, CohortKeeps DEF MatchInContext
<1>2. CASE p.type = "flag"
  <2>1. /\ p.operator = "exact" /\ p.value = Enabled
        /\ p.key \in DOMAIN flags =>
             /\ ~flags[p.key].early_exit
             /\ \A q \in PropertiesOf(flags[p.key]) : Tests(q)
    BY <1>2 DEF Steady
  <2>2. MatchInContext(more, p, extended) = MatchDependency(more, p)
        /\ MatchInContext(less, p, properties) = MatchDependency(less, p)
    BY <1>2 DEF MatchInContext
  <2> QED BY <2>1, <2>2, DependencyGrows DEF Evaluated
<1>3. CASE p.type \notin {"cohort", "flag"}
  <2>1. Tests(p)
    BY <1>3 DEF Steady
  <2> QED BY <1>0, <1>3, <2>1, PropertyKeeps DEF MatchInContext, Tests
<1> QED BY <1>1, <1>2, <1>3

LEMMA ConditionGrows ==
  ASSUME NEW less, NEW more, Grown(more, less), Evaluated(less),
         \A key \in DOMAIN flags : WellFormed(more.flags[key]),
         NEW key \in DOMAIN flags, Steady(key),
         NEW person, NEW extended, Extends(extended, person),
         NEW i \in DOMAIN flags[key].conditions,
         InContext(less, flags[key], person)[i] = "match"
  PROVE  InContext(more, more.flags[key], extended)[i] = "match"
<1> DEFINE f == flags[key]
           g == more.flags[key]
           c == f.conditions[i]
           d == g.conditions[i]
           was == ConditionTarget(less, f, c, person)
           is == ConditionTarget(more, g, d, extended)
           n == DOMAIN c.properties
           answers == [j \in n |-> MatchInContext(less, c.properties[j], was.properties)]
           answersNow == [j \in n |-> MatchInContext(more, c.properties[j], is.properties)]
           before == AllOf(answers)
           after == AllOf(answersNow)
<1>1. Raised(g, f) /\ Comparable(less, f) /\ WellFormed(g)
  BY DEF Grown, Evaluated
<1>2. d.properties = c.properties /\ i \in DOMAIN g.conditions
  BY <1>1 DEF Raised
<1>3. /\ InContext(less, f, person)[i] = Outcome(less, f, c, was, before)
      /\ InContext(more, g, extended)[i] = Outcome(more, g, d, is, after)
  BY <1>2 DEF InContext
<1>4. was.is # "inconclusive"
  <2> HIDE DEF c, was, before
  <2> QED BY <1>3 DEF Outcome, Unknown
<1>5. /\ is.is = was.is /\ was.is \in {"use", "skip"}
      /\ was.is = "use" => /\ is.id = was.id /\ was.id \in Ids
                           /\ Extends(is.properties, was.properties)
  BY <1>1, <1>4, TargetGrows
<1>6. was.is = "use" /\ before = Yes => after = Yes
  <2> SUFFICES ASSUME was.is = "use", before = Yes
               PROVE  after = Yes
    OBVIOUS
  <2>1. \A j \in n : c.properties[j] \in PropertiesOf(f)
    BY PropertiesAreOfFlag
  <2>2. \A j \in DOMAIN answers : answers[j] = Yes => answersNow[j] = Yes
    <3> HIDE DEF was, is, c, n
    <3> QED BY <1>5, <2>1, InContextGrows
  <2>3. \A j \in DOMAIN answers : /\ answers[j] \in {Yes, No, Unknown}
                                  /\ answersNow[j] \in {Yes, No, Unknown}
    <3> HIDE DEF was, is, c, n
    <3> QED BY InContextTyped
  <2>4. DOMAIN answersNow = DOMAIN answers
    OBVIOUS
  <2> HIDE DEF answers, answersNow
  <2> QED BY <2>2, <2>3, <2>4, AllOfYes
<1>7. before \in {Yes, No, Unknown}
  BY DEF AllOf
<1> HIDE DEF was, is, before, after
<1>8. Outcome(less, f, f.conditions[i], was, before) = "match"
  BY <1>3
<1> HIDE DEF f, g, c, d
<1>9. Outcome(more, g, g.conditions[i], is, after) = "match"
  BY <1>1, <1>5, <1>6, <1>7, <1>8, OutcomeGrows DEF f
<1> QED BY <1>3, <1>9 DEF d, g

\* The hashes of the flags are of the scale of their rollouts.
Hashed ==
  \A key \in DOMAIN flags, id \in Ids, salt \in {"", "variant"} :
    hash[<<flags[key].key, salt, id>>] \in 0..Scale

LEMMA NextHashed ==
  ASSUME Consistent, Hashed, [Next]_vars
  PROVE  Hashed'
<1>1. \A key \in DOMAIN flags : flags'[key].key = flags[key].key
  BY NextRaises DEF Raised
<1> QED BY <1>1, NextRaises DEF Hashed

LEMMA OnStays ==
  ASSUME Consistent, Hashed, [Next]_vars, NEW key \in DOMAIN flags, Steady(key),
         ~flags[key].early_exit, IsOn(results[key])
  PROVE  IsOn(results'[key])
<1> DEFINE less == Context(flags, given, known)
           person == Passed("person", known)
           f == flags[key]
           g == flags'[key]
           before == InContext(less, f, person)
           after == InContext(less', g, person')
<1>1. Consistent'
  BY NextConsistent
<1>2. /\ results[key] = MatchWithContext(less, f, person) /\ WellFormed(f)
      /\ key \in DOMAIN flags' /\ WellFormed(g) /\ Raised(g, f)
      /\ results'[key] = MatchWithContext(less', g, person')
  BY <1>1, NextRaises DEF Consistent, EvaluateAllFlags
<1>3. ASSUME NEW owner
      PROVE  Extends(Passed(owner, known)', Passed(owner, known))
  BY NextRaises DEF Extends, Passed
<1>4. /\ Grown(less', less) /\ Extends(person', person) /\ less'.flags = flags'
      /\ \A k \in DOMAIN flags : WellFormed(flags'[k])
  BY <1>1, <1>3, NextRaises DEF Grown, Context, Consistent
<1>5. Evaluated(less)
  BY DEF Evaluated, Context, Comparable, Consistent, Hashed
<1>6. /\ DOMAIN before \subseteq Nat /\ DOMAIN after \subseteq Nat
      /\ DOMAIN after = DOMAIN before /\ DOMAIN before = DOMAIN f.conditions
  BY <1>2 DEF InContext, WellFormed, Raised
<1>7. \A i \in DOMAIN before : before[i] = "match" => after[i] = "match"
  <2> HIDE DEF less, person
  <2> QED BY <1>4, <1>5, <1>6, ConditionGrows
<1>8. f.active /\ Verdict(f, before) = Enabled
  <2> HIDE DEF less, person
  <2> QED BY <1>2, ValueVerdict DEF MatchWithContext
<1>9. g.active /\ ~g.early_exit
  BY <1>2, <1>8 DEF Raised
<1>10. Verdict(g, after) = Enabled
  <2> HIDE DEF f, g, before, after
  <2> QED BY <1>6, <1>7, <1>8, <1>9, VerdictMatches DEF f
<1> HIDE DEF less, person
<1> QED BY <1>2, <1>9, <1>10, ValueVerdict DEF MatchWithContext

\* A Steady flag found enabled, and that does not exit early, stays enabled, whatever else is
\* passed and whichever rollouts are raised, its own or that of a flag it depends on.
THEOREM EnabledFlagsStay == Spec => EnabledStays
<1>1. Init => Hashed
  <2>1. \A x \in 0..(Scale - 1) : x \in 0..Scale
    BY Scales
  <2>2. ASSUME Init, NEW key \in DOMAIN flags, NEW id \in Ids, NEW salt \in {"", "variant"}
        PROVE  hash[<<flags[key].key, salt, id>>] \in 0..(Scale - 1)
    BY <2>2, HashesAssumption DEF Init
  <2> QED BY <2>1, <2>2 DEF Hashed
<1>2. Consistent /\ Hashed /\ [Next]_vars =>
        [\A key \in DOMAIN flags :
           Steady(key) /\ ~flags[key].early_exit /\ IsOn(results[key])
             => IsOn(results'[key])]_vars
  BY OnStays
<1>3. Consistent /\ Hashed /\ [Next]_vars => Consistent' /\ Hashed'
  BY NextConsistent, NextHashed
<1> QED BY InitConsistent, <1>1, <1>2, <1>3, PTL DEF Spec, EnabledStays
-----------------------------------------------------------------------------
(* The shares of the variants. *)

\* s holds the sums of the first percentages, up to the n-th, ...
Sums(s, variants, n) ==
  s = [i \in 0..n |-> IF i = 0 THEN 0 ELSE s[i - 1] + variants[i].rollout]

\* ... and here rounded, as the code sums them.
Edges(s, variants, n) ==
  s = [i \in 0..n |-> IF i = 0 THEN 0 ELSE Round[s[i - 1] + Fraction(variants[i].rollout)]]

LEMMA SumsDef ==
  ASSUME NEW variants
  PROVE  /\ Exact(variants) = CHOOSE s : Sums(s, variants, Len(variants))
         /\ Shares(variants) = CHOOSE s : Edges(s, variants, Len(variants))
BY DEF Exact, Shares, Sums, Edges

LEMMA SumsExist ==
  ASSUME NEW variants, NEW n \in Nat
  PROVE  \E s : Sums(s, variants, n)
<1> DEFINE good == {m \in 0..n : \E s : Sums(s, variants, m)}
<1>1. 0 \in good
  <2>1. Sums([i \in 0..0 |-> 0], variants, 0)
    BY DEF Sums
  <2> QED BY <2>1
<1>2. ASSUME NEW m \in 0..(n - 1), m \in good
      PROVE  m + 1 \in good
  <2>1. PICK s : Sums(s, variants, m)
    BY <1>2
  <2> DEFINE next(x, i) == x + variants[i].rollout
             t == [i \in 0..(m + 1) |-> IF i <= m THEN s[i] ELSE next(s[m], m + 1)]
  <2>2. \A i \in 0..m : s[i] = IF i = 0 THEN 0 ELSE next(s[i - 1], i)
    BY <2>1 DEF Sums
  <2> HIDE DEF next
  <2>3. \A i \in 0..(m + 1) : t[i] = IF i = 0 THEN 0 ELSE next(t[i - 1], i)
    <3>1. ASSUME NEW i \in 0..m
          PROVE  t[i] = IF i = 0 THEN 0 ELSE next(t[i - 1], i)
      <4>1. t[i] = s[i] /\ (i # 0 => t[i - 1] = s[i - 1])
        OBVIOUS
      <4> HIDE DEF t
      <4> QED BY <2>2, <4>1
    <3>2. t[m + 1] = next(t[m], m + 1)
      OBVIOUS
    <3> HIDE DEF t
    <3> QED BY <3>1, <3>2
  <2>4. Sums(t, variants, m + 1)
    <3>1. t = [i \in 0..(m + 1) |-> t[i]]
      OBVIOUS
    <3> HIDE DEF t
    <3>2. t = [i \in 0..(m + 1) |-> IF i = 0 THEN 0 ELSE next(t[i - 1], i)]
      BY <2>3, <3>1
    <3> QED BY <3>2 DEF Sums, next
  <2> QED BY <2>4
<1> HIDE DEF good
<1>3. 0..n \subseteq good
  BY <1>1, <1>2, UpTo
<1> QED BY <1>3 DEF good

LEMMA EdgesExist ==
  ASSUME NEW variants, NEW n \in Nat
  PROVE  \E s : Edges(s, variants, n)
<1> DEFINE good == {m \in 0..n : \E s : Edges(s, variants, m)}
<1>1. 0 \in good
  <2>1. Edges([i \in 0..0 |-> 0], variants, 0)
    BY DEF Edges
  <2> QED BY <2>1
<1>2. ASSUME NEW m \in 0..(n - 1), m \in good
      PROVE  m + 1 \in good
  <2>1. PICK s : Edges(s, variants, m)
    BY <1>2
  <2> DEFINE next(x, i) == Round[x + Fraction(variants[i].rollout)]
             t == [i \in 0..(m + 1) |-> IF i <= m THEN s[i] ELSE next(s[m], m + 1)]
  <2>2. \A i \in 0..m : s[i] = IF i = 0 THEN 0 ELSE next(s[i - 1], i)
    BY <2>1 DEF Edges
  <2> HIDE DEF next
  <2>3. \A i \in 0..(m + 1) : t[i] = IF i = 0 THEN 0 ELSE next(t[i - 1], i)
    <3>1. ASSUME NEW i \in 0..m
          PROVE  t[i] = IF i = 0 THEN 0 ELSE next(t[i - 1], i)
      <4>1. t[i] = s[i] /\ (i # 0 => t[i - 1] = s[i - 1])
        OBVIOUS
      <4> HIDE DEF t
      <4> QED BY <2>2, <4>1
    <3>2. t[m + 1] = next(t[m], m + 1)
      OBVIOUS
    <3> HIDE DEF t
    <3> QED BY <3>1, <3>2
  <2>4. Edges(t, variants, m + 1)
    <3>1. t = [i \in 0..(m + 1) |-> t[i]]
      OBVIOUS
    <3> HIDE DEF t
    <3>2. t = [i \in 0..(m + 1) |-> IF i = 0 THEN 0 ELSE next(t[i - 1], i)]
      BY <2>3, <3>1
    <3> QED BY <3>2 DEF Edges, next
  <2> QED BY <2>4
<1> HIDE DEF good
<1>3. 0..n \subseteq good
  BY <1>1, <1>2, UpTo
<1> QED BY <1>3 DEF good

\* What WellFormed says of the variants of a flag.
Divided(variants) ==
  /\ Len(variants) \in Nat /\ DOMAIN variants = 1..Len(variants)
  /\ \A i \in DOMAIN variants :
       /\ variants[i].key \notin {Enabled, Disabled, Inconclusive, None}
       /\ variants[i].rollout \in 0..Scale
  /\ Exact(variants)[Len(variants)] + 2 * Len(variants) * Error <= Top

\* What grows from each number to the next grows.
LEMMA StepsGrow ==
  ASSUME NEW n \in Nat, NEW s, \A i \in 0..n : s[i] \in Nat,
         \A i \in 1..n : s[i - 1] <= s[i]
  PROVE  \A j \in 0..n : \A i \in 0..j : s[i] <= s[j]
<1> DEFINE good == {m \in 0..n : \A i \in 0..m : s[i] <= s[m]}
<1>1. 0 \in good
  OBVIOUS
<1>2. ASSUME NEW m \in 0..(n - 1), m \in good
      PROVE  m + 1 \in good
  <2>1. /\ m \in 0..n /\ m + 1 \in 1..n /\ (m + 1) - 1 = m
        /\ s[m] \in Nat /\ s[m + 1] \in Nat
    OBVIOUS
  <2>2. s[m] <= s[m + 1]
    BY <2>1
  <2>3. ASSUME NEW i \in 0..(m + 1)
        PROVE  s[i] <= s[m + 1]
    <3>1. CASE i = m + 1
      BY <2>1, <3>1
    <3>2. CASE i \in 0..m
      <4>1. s[i] <= s[m] /\ s[i] \in Nat
        BY <1>2, <2>1, <3>2
      <4> QED BY <2>1, <2>2, <4>1
    <3> QED BY <2>1, <3>1, <3>2
  <2> QED BY <2>1, <2>3
<1>3. 0..n \subseteq good
  <2> HIDE DEF good
  <2> QED BY <1>1, <1>2, UpTo
<1> QED BY <1>3

LEMMA ExactSums ==
  ASSUME NEW variants, Divided(variants)
  PROVE  /\ Exact(variants)[0] = 0
         /\ \A i \in 0..Len(variants) : Exact(variants)[i] \in Nat
         /\ \A i \in 1..Len(variants) :
              Exact(variants)[i] = Exact(variants)[i - 1] + variants[i].rollout
         /\ \A j \in 0..Len(variants) : \A i \in 0..j : Exact(variants)[i] <= Exact(variants)[j]
<1> DEFINE n == Len(variants)
           s == Exact(variants)
           good == {m \in 0..n : s[m] \in Nat}
<1>1. n \in Nat /\ \A i \in 1..n : variants[i].rollout \in Nat
  BY Scales DEF Divided
<1>2. Sums(s, variants, n)
  <2>1. \E t : Sums(t, variants, n)
    BY <1>1, SumsExist
  <2> QED BY <2>1, SumsDef
<1>3. \A i \in 0..n : s[i] = IF i = 0 THEN 0 ELSE s[i - 1] + variants[i].rollout
  <2> HIDE DEF s, n
  <2> QED BY <1>2 DEF Sums
<1> HIDE DEF s, n
<1>4. s[0] = 0 /\ \A i \in 1..n : s[i] = s[i - 1] + variants[i].rollout
  BY <1>1, <1>3
<1>5. 0 \in good
  BY <1>1, <1>4
<1>6. ASSUME NEW m \in 0..(n - 1), m \in good
      PROVE  m + 1 \in good
  <2>1. m + 1 \in 1..n /\ (m + 1) - 1 = m
    BY <1>1
  <2>2. s[m + 1] = s[m] + variants[m + 1].rollout /\ variants[m + 1].rollout \in Nat
    BY <1>1, <1>4, <2>1
  <2> QED BY <1>6, <2>1, <2>2
<1>7. \A i \in 0..n : s[i] \in Nat
  <2>1. 0..n \subseteq good
    <3> HIDE DEF good
    <3> QED BY <1>1, <1>5, <1>6, UpTo
  <2> QED BY <2>1
<1>8. \A i \in 1..n : s[i - 1] <= s[i]
  <2> TAKE i \in 1..n
  <2>1. s[i - 1] \in Nat /\ variants[i].rollout \in Nat /\ s[i] = s[i - 1] + variants[i].rollout
    BY <1>1, <1>4, <1>7
  <2> QED BY <2>1
<1>9. \A j \in 0..n : \A i \in 0..j : s[i] <= s[j]
  BY <1>1, <1>7, <1>8, StepsGrow
<1> QED BY <1>4, <1>7, <1>9 DEF s, n

\* The drift of each edge is at most two roundings more than that of the one before.
LEMMA Multiples ==
  ASSUME NEW n \in Nat, NEW m \in 0..n
  PROVE  /\ 2 * m * Error \in Nat /\ 2 * n * Error \in Nat
         /\ 2 * m * Error <= 2 * n * Error
         /\ 2 * (m + 1) * Error = 2 * m * Error + 2 * Error
<1>1. Error \in Nat
  BY RoundAssumption
<1>2. PICK k \in Nat : n = m + k
  <2>1. n - m \in Nat /\ n = m + (n - m)
    OBVIOUS
  <2> QED BY <2>1
<1>3. \A a, b \in Nat : a * b \in Nat
  OBVIOUS
<1>4. m * Error \in Nat /\ n * Error \in Nat /\ k * Error \in Nat
  BY <1>1, <1>3
<1>5. n * Error = m * Error + k * Error
  BY <1>1, <1>2
<1>6. /\ 2 * m * Error = 2 * (m * Error) /\ 2 * n * Error = 2 * (n * Error)
      /\ 2 * (m + 1) * Error = 2 * (m * Error) + 2 * Error
  BY <1>1
<1> HIDE <1>2
<1> QED BY <1>1, <1>4, <1>5, <1>6

\* The edges the code computes: each is off by at most two roundings for every variant up to
\* it, none is below the one before it, and zero percent moves it nowhere.
LEMMA EdgesDrift ==
  ASSUME NEW variants, Divided(variants)
  PROVE  /\ Shares(variants)[0] = 0
         /\ \A i \in 0..Len(variants) :
              /\ Shares(variants)[i] \in Nat
              /\ Shares(variants)[i] <= Exact(variants)[i] + 2 * i * Error
              /\ Exact(variants)[i] <= Shares(variants)[i] + 2 * i * Error
         /\ \A i \in 1..Len(variants) :
              /\ Shares(variants)[i - 1] <= Shares(variants)[i]
              /\ variants[i].rollout = 0 => Shares(variants)[i] = Shares(variants)[i - 1]
<1> DEFINE n == Len(variants)
           e == Exact(variants)
           s == Shares(variants)
           d(i) == 2 * i * Error
           close(m) == /\ s[m] \in Nat /\ s[m] <= e[m] + d(m) /\ e[m] <= s[m] + d(m)
                       /\ s[m] <= Top /\ Round[s[m]] = s[m]
           good == {m \in 0..n : close(m)}
<1>1. /\ n \in Nat /\ \A i \in 1..n : variants[i].rollout \in 0..Scale
      /\ e[n] + d(n) <= Top
  BY DEF Divided
<1>2. /\ e[0] = 0 /\ \A i \in 0..n : e[i] \in Nat
      /\ \A i \in 1..n : e[i] = e[i - 1] + variants[i].rollout
      /\ \A i \in 0..n : e[i] <= e[n]
  <2>1. n \in 0..n
    BY <1>1
  <2> QED BY <2>1, ExactSums
<1>3. /\ s[0] = 0
      /\ \A i \in 1..n : s[i] = Round[s[i - 1] + Fraction(variants[i].rollout)]
  <2>1. Edges(s, variants, n)
    <3>1. \E t : Edges(t, variants, n)
      BY <1>1, EdgesExist
    <3> QED BY <3>1, SumsDef
  <2> HIDE DEF s, n
  <2>2. \A i \in 0..n : s[i] = IF i = 0 THEN 0 ELSE Round[s[i - 1] + Fraction(variants[i].rollout)]
    BY <2>1 DEF Edges
  <2> QED BY <1>1, <2>2
<1>4. \A m \in 0..n : /\ d(m) \in Nat /\ d(m) <= d(n) /\ d(m + 1) = d(m) + 2 * Error
  BY <1>1, Multiples
<1>5. d(0) = 0
  BY RoundAssumption
<1>6. Scale \in Nat /\ Top \in Nat /\ Error \in Nat /\ Scale <= Top /\ Round[0] = 0
  BY RoundAssumption
<1> HIDE DEF n, e, s, d
<1>8. 0 \in good
  <2>1. close(0)
    BY <1>2, <1>3, <1>5, <1>6
  <2> QED BY <1>1, <2>1
<1>9. ASSUME NEW m \in 0..(n - 1), m \in good
      PROVE  /\ m + 1 \in good /\ s[m] <= s[m + 1]
             /\ variants[m + 1].rollout = 0 => s[m + 1] = s[m]
  <2> DEFINE r == variants[m + 1].rollout
             x == s[m] + Round[r]
  <2>1. /\ m \in 0..n /\ m + 1 \in 0..n /\ m + 1 \in 1..n /\ (m + 1) - 1 = m
    BY <1>1
  <2>2. close(m) /\ r \in 0..Scale
    BY <1>1, <1>9, <2>1
  <2>3. e[m + 1] = e[m] + r /\ e[m] \in Nat /\ e[m + 1] \in Nat /\ e[m + 1] <= e[n] /\ e[n] \in Nat
    <3>1. n \in 0..n
      BY <1>1
    <3> QED BY <1>2, <2>1, <3>1
  <2>4. s[m + 1] = Round[x]
    BY <1>3, <2>1 DEF Fraction
  <2>5. Round[r] \in Nat /\ r <= Round[r] + Error /\ Round[r] <= r + Error /\ r \in Nat
    <3>1. r \in 0..Top /\ r \in Nat
      BY <2>2, Scales
    <3> QED BY <3>1, Rounded
  <2>6. /\ d(m) \in Nat /\ d(m + 1) \in Nat /\ d(m + 1) = d(m) + 2 * Error /\ d(m + 1) <= d(n)
        /\ d(n) \in Nat
    <3>1. n \in 0..n
      BY <1>1
    <3> QED BY <1>4, <2>1, <3>1
  <2> HIDE DEF d, r
  <2>7. x \in Nat /\ x + Error <= e[m + 1] + d(m + 1) /\ e[m + 1] <= x + d(m) + Error
    BY <1>6, <2>2, <2>3, <2>5, <2>6
  <2>8. e[m + 1] + d(m + 1) <= Top
    BY <1>1, <1>6, <2>3, <2>6
  <2>9. x \in 0..Top
    BY <1>6, <2>3, <2>6, <2>7, <2>8
  <2>10. /\ Round[x] \in Nat /\ x <= Round[x] + Error /\ Round[x] <= x + Error
         /\ Round[x] <= Top => Round[Round[x]] = Round[x]
    BY <2>9, Rounded
  <2>11. s[m] \in 0..x
    BY <2>2, <2>5
  <2>12. s[m] <= Round[x]
    <3>1. Round[s[m]] <= Round[x]
      <4> HIDE DEF x
      <4> QED BY <2>9, <2>11, RoundMonotone
    <3> QED BY <2>2, <3>1
  <2>13. r = 0 => Round[x] = s[m]
    BY <1>6, <2>2
  <2> HIDE DEF x
  <2>14. Round[x] <= e[m + 1] + d(m + 1) /\ e[m + 1] <= Round[x] + d(m + 1) /\ Round[x] <= Top
    BY <1>6, <2>3, <2>6, <2>7, <2>8, <2>10
  <2>15. close(m + 1)
    BY <2>4, <2>10, <2>14
  <2> QED BY <2>1, <2>4, <2>12, <2>13, <2>15 DEF r
<1>10. 0..n \subseteq good
  <2> HIDE DEF good
  <2> QED BY <1>1, <1>8, <1>9, UpTo
<1>11. \A i \in 1..n : s[i - 1] <= s[i] /\ (variants[i].rollout = 0 => s[i] = s[i - 1])
  <2> TAKE i \in 1..n
  <2>1. i - 1 \in 0..(n - 1) /\ i - 1 \in good /\ (i - 1) + 1 = i
    BY <1>1, <1>10
  <2> HIDE DEF good
  <2> QED BY <1>9, <2>1
<1>12. \A i \in 0..n : s[i] \in Nat /\ s[i] <= e[i] + d(i) /\ e[i] <= s[i] + d(i)
  BY <1>10
<1> QED BY <1>3, <1>11, <1>12 DEF n, e, s, d

\* A hash is in the interval of one variant, or beyond the last edge.
LEMMA OneBucket ==
  ASSUME NEW variants, Divided(variants), NEW h \in Nat
  PROVE  /\ \A i \in DOMAIN variants :
              Shares(variants)[i - 1] <= h /\ h < Shares(variants)[i]
                => MatchingVariant(variants, h) = variants[i].key
         /\ \/ \E i \in DOMAIN variants :
                 /\ Shares(variants)[i - 1] <= h /\ h < Shares(variants)[i]
                 /\ MatchingVariant(variants, h) = variants[i].key
            \/ h >= Shares(variants)[Len(variants)] /\ MatchingVariant(variants, h) = None
<1> DEFINE n == Len(variants)
           s == Shares(variants)
           B == Buckets(variants, h)
<1>1. /\ n \in Nat /\ DOMAIN variants = 1..n /\ s[0] = 0 /\ \A i \in 0..n : s[i] \in Nat
      /\ \A i \in 1..n : s[i - 1] <= s[i]
  BY EdgesDrift DEF Divided
<1>0. \A j \in 0..n : \A i \in 0..j : s[i] <= s[j]
  <2> HIDE DEF n, s
  <2> QED BY <1>1, StepsGrow
<1>2. B = {i \in DOMAIN variants : s[i - 1] <= h /\ h < s[i]}
  BY DEF Buckets
<1>3. MatchingVariant(variants, h) =
        IF B = {} THEN None ELSE variants[CHOOSE i \in B : \A j \in B : i <= j].key
  BY DEF MatchingVariant
<1> HIDE DEF n, s, B
<1>4. ASSUME NEW i \in DOMAIN variants, s[i - 1] <= h, h < s[i]
      PROVE  MatchingVariant(variants, h) = variants[i].key
  <2>1. i \in B
    BY <1>2, <1>4
  <2>2. ASSUME NEW j \in B
        PROVE  j = i
    <3>1. /\ i \in 1..n /\ j \in 1..n /\ s[j - 1] <= h /\ h < s[j]
          /\ s[i - 1] \in Nat /\ s[i] \in Nat /\ s[j - 1] \in Nat /\ s[j] \in Nat
      BY <1>1, <1>2
    <3>2. j < i => s[j] <= s[i - 1]
      BY <1>0, <1>1, <3>1
    <3>3. i < j => s[i] <= s[j - 1]
      BY <1>0, <1>1, <3>1
    <3> QED BY <1>4, <3>1, <3>2, <3>3
  <2>3. B = {i}
    BY <2>1, <2>2
  <2>4. i <= i
    BY <1>1
  <2>5. (CHOOSE k \in B : \A j \in B : k <= j) = i
    BY <2>3, <2>4
  <2> QED BY <1>3, <2>1, <2>5
<1>5. CASE h >= s[n]
  <2>1. \A i \in 1..n : ~(h < s[i])
    <3>1. \A i \in 1..n : s[i] \in Nat /\ s[n] \in Nat /\ s[i] <= s[n]
      BY <1>0, <1>1
    <3> QED BY <1>5, <3>1
  <2>2. B = {}
    BY <1>1, <1>2, <2>1
  <2>3. MatchingVariant(variants, h) = None
    BY <1>3, <2>2
  <2> QED BY <1>4, <1>5, <2>3 DEF n, s
<1>6. CASE h < s[n]
  <2> DEFINE above == {i \in 0..n : h < s[i]}
  <2>1. n \in above /\ above \subseteq Nat
    BY <1>1, <1>6
  <2>2. PICK i \in above : \A j \in above : i <= j
    <3> HIDE DEF above
    <3> QED BY <2>1, NatMinimum
  <2>3. i \in 1..n
    BY <1>1, <2>2
  <2>4. i - 1 \in 0..n /\ i - 1 \notin above
    BY <1>1, <2>2, <2>3
  <2>5. s[i - 1] <= h /\ h < s[i]
    <3>1. s[i - 1] \in Nat /\ ~(h < s[i - 1])
      BY <1>1, <2>4
    <3> QED BY <2>2, <3>1
  <2>6. i \in DOMAIN variants
    BY <1>1, <2>3
  <2> QED BY <1>4, <2>5, <2>6 DEF n, s
<1>7. s[n] \in Nat
  BY <1>1
<1> QED BY <1>5, <1>6, <1>7

\* The value a user gets by the variants alone.
LEMMA SplitsHold ==
  ASSUME NEW variants, Divided(variants), NEW h \in 0..Scale,
         NEW value, value = IF MatchingVariant(variants, Round[h]) # None
                            THEN MatchingVariant(variants, Round[h]) ELSE Enabled
  PROVE  Splits(variants, h, value)
<1> DEFINE n == Len(variants)
           e == Exact(variants)
           s == Shares(variants)
           r == Round[h]
           drift == Drift(variants)
           d(i) == 2 * i * Error
<1>1. /\ n \in Nat /\ DOMAIN variants = 1..n /\ Error \in Nat /\ h \in Nat
      /\ \A i \in 1..n : variants[i].key \notin {Enabled, None}
  BY Scales DEF Divided
<1>2. r \in Nat /\ h <= r + Error /\ r <= h + Error
  BY Scales, Rounded
<1>3. \A i \in 0..n : e[i] \in Nat
  BY ExactSums
<1>4. /\ \A i \in 0..n : s[i] \in Nat /\ s[i] <= e[i] + d(i) /\ e[i] <= s[i] + d(i)
      /\ \A i \in 1..n : variants[i].rollout = 0 => s[i] = s[i - 1]
  BY EdgesDrift
<1>5. \A i \in 0..n : d(i) \in Nat /\ d(i) <= d(n) /\ d(n) \in Nat
  BY <1>1, Multiples
<1>6. drift = d(n) + Error
  BY <1>1 DEF Drift
<1>7. /\ \A i \in 1..n : s[i - 1] <= r /\ r < s[i] => MatchingVariant(variants, r) = variants[i].key
      /\ \/ \E i \in 1..n : /\ s[i - 1] <= r /\ r < s[i]
                            /\ MatchingVariant(variants, r) = variants[i].key
         \/ r >= s[n] /\ MatchingVariant(variants, r) = None
  <2> HIDE DEF r
  <2> QED BY <1>1, <1>2, OneBucket
<1>8. value = IF MatchingVariant(variants, r) # None THEN MatchingVariant(variants, r) ELSE Enabled
  OBVIOUS
<1>9. Splits(variants, h, value) <=>
        /\ \A i \in 1..n : e[i - 1] + drift <= h /\ h + drift < e[i] => value = variants[i].key
        /\ value # Enabled =>
             \E i \in 1..n : /\ value = variants[i].key /\ variants[i].rollout # 0
                            /\ e[i - 1] <= h + drift /\ h < e[i] + drift
        /\ value = Enabled => e[n] <= h + drift
  BY <1>1 DEF Splits
<1> HIDE DEF n, e, s, r, drift, d
<1>10. \A i \in 0..n : /\ s[i] \in Nat /\ e[i] \in Nat
                        /\ s[i] <= e[i] + d(n) /\ e[i] <= s[i] + d(n)
  <2> TAKE i \in 0..n
  <2>1. /\ s[i] \in Nat /\ e[i] \in Nat /\ d(i) \in Nat /\ d(n) \in Nat
        /\ s[i] <= e[i] + d(i) /\ e[i] <= s[i] + d(i) /\ d(i) <= d(n)
    BY <1>3, <1>4, <1>5
  <2> QED BY <2>1
<1>11. d(n) \in Nat
  <2>1. n \in 0..n
    BY <1>1
  <2> QED BY <1>5, <2>1
<1>12. ASSUME NEW i \in 1..n, e[i - 1] + drift <= h, h + drift < e[i]
       PROVE  value = variants[i].key
  <2>1. /\ i \in 0..n /\ i - 1 \in 0..n
    BY <1>1
  <2>2. /\ s[i] \in Nat /\ e[i] \in Nat /\ s[i - 1] \in Nat /\ e[i - 1] \in Nat
        /\ s[i - 1] <= e[i - 1] + d(n) /\ e[i] <= s[i] + d(n)
    BY <1>10, <2>1
  <2>3. s[i - 1] <= r /\ r < s[i]
    <3>1. /\ h \in Nat /\ r \in Nat /\ Error \in Nat /\ d(n) \in Nat /\ drift = d(n) + Error
          /\ h <= r + Error /\ r <= h + Error /\ e[i - 1] + drift <= h /\ h + drift < e[i]
      BY <1>1, <1>2, <1>6, <1>11, <1>12
    <3> QED BY <2>2, <3>1
  <2>4. MatchingVariant(variants, r) = variants[i].key /\ variants[i].key # None
    BY <1>1, <1>7, <2>3
  <2> QED BY <1>8, <2>4
<1>13. ASSUME NEW i \in 1..n, s[i - 1] <= r, r < s[i], MatchingVariant(variants, r) = variants[i].key
       PROVE  /\ value = variants[i].key /\ value # Enabled /\ variants[i].rollout # 0
              /\ e[i - 1] <= h + drift /\ h < e[i] + drift
  <2>1. /\ i \in 0..n /\ i - 1 \in 0..n
    BY <1>1
  <2>2. /\ s[i] \in Nat /\ e[i] \in Nat /\ s[i - 1] \in Nat /\ e[i - 1] \in Nat
        /\ e[i - 1] <= s[i - 1] + d(n) /\ s[i] <= e[i] + d(n)
    BY <1>10, <2>1
  <2>3. e[i - 1] <= h + drift /\ h < e[i] + drift
    <3>1. /\ h \in Nat /\ r \in Nat /\ Error \in Nat /\ d(n) \in Nat /\ drift = d(n) + Error
          /\ h <= r + Error /\ r <= h + Error /\ s[i - 1] <= r /\ r < s[i]
      BY <1>1, <1>2, <1>6, <1>11, <1>13
    <3> QED BY <2>2, <3>1
  <2>4. variants[i].rollout # 0
    <3>1. s[i] # s[i - 1]
      BY <1>2, <1>13, <2>2
    <3> QED BY <1>4, <3>1
  <2>5. value = variants[i].key /\ value # Enabled
    BY <1>1, <1>8, <1>13
  <2> QED BY <2>3, <2>4, <2>5
<1>14. ASSUME r >= s[n], MatchingVariant(variants, r) = None
       PROVE  value = Enabled /\ e[n] <= h + drift
  <2>1. n \in 0..n
    BY <1>1
  <2>2. s[n] \in Nat /\ e[n] \in Nat /\ e[n] <= s[n] + d(n)
    BY <1>10, <2>1
  <2>3. e[n] <= h + drift
    BY <1>1, <1>2, <1>6, <1>11, <1>14, <2>2
  <2> QED BY <1>8, <1>14, <2>3
<1>15. CASE \E i \in 1..n : /\ s[i - 1] <= r /\ r < s[i]
                            /\ MatchingVariant(variants, r) = variants[i].key
  BY <1>9, <1>12, <1>13, <1>15
<1>16. CASE r >= s[n] /\ MatchingVariant(variants, r) = None
  BY <1>9, <1>12, <1>14, <1>16
<1> QED BY <1>7, <1>15, <1>16

\* An enabled flag got its value from a condition that matched, and hashed an id for it.
LEMMA ValueOfMatch ==
  ASSUME NEW ctx, NEW flag, NEW person, WellFormed(flag),
         IsOn(MatchWithContext(ctx, flag, person))
  PROVE  \E i \in DOMAIN flag.conditions, id \in Ids :
           MatchWithContext(ctx, flag, person) = ValueOf(ctx, flag, flag.conditions[i], id)
<1> DEFINE outcome == InContext(ctx, flag, person)
           first == First(flag, outcome)
           condition == flag.conditions[first]
           target == ConditionTarget(ctx, flag, condition, person)
           answers == [j \in DOMAIN condition.properties |->
                         MatchInContext(ctx, condition.properties[j], target.properties)]
<1>1. /\ DOMAIN outcome = DOMAIN flag.conditions /\ DOMAIN outcome \subseteq Nat
  BY DEF InContext, WellFormed
<1>2. /\ Ending(flag, outcome) # {} /\ outcome[first] = "match"
      /\ MatchWithContext(ctx, flag, person) = ValueOf(ctx, flag, condition, target.id)
  <2>1. MatchWithContext(ctx, flag, person) = Value(ctx, flag, person, outcome)
    BY DEF MatchWithContext
  <2> HIDE DEF outcome
  <2> QED BY <2>1 DEF Value, IsOn
<1>3. first \in DOMAIN flag.conditions
  <2> HIDE DEF outcome
  <2> QED BY <1>1, <1>2, FirstEnds DEF Ending
<1>4. outcome[first] = Outcome(ctx, flag, condition, target, AllOf(answers))
  <2> HIDE DEF first
  <2> QED BY <1>3 DEF InContext
<1>5. target.is = "use"
  <2>1. target.is \in {"use", "skip", "inconclusive"}
    BY DEF ConditionTarget
  <2> HIDE DEF target, answers, condition
  <2> QED BY <1>2, <1>4, <2>1 DEF Outcome, No, Unknown
<1>6. target.id \in Ids
  <2> HIDE DEF condition
  <2> QED BY <1>5 DEF ConditionTarget, Ids
<1> HIDE DEF outcome, first, target
<1> QED BY <1>2, <1>3, <1>6

\* Whatever the number of variants and their percentages, and however doubles are rounded, a
\* user farther from an edge than the roundings gets the variant the percentages say.
THEOREM SharesDrift == Spec => []VariantShares
<1>1. ASSUME Consistent, Hashed, NEW key \in DOMAIN flags, IsOn(results[key]),
             \A i \in DOMAIN flags[key].conditions :
               flags[key].conditions[i].variant
                 \notin {flags[key].variants[j].key : j \in DOMAIN flags[key].variants}
      PROVE  \E id \in Ids : Splits(flags[key].variants,
                                   hash[<<flags[key].key, "variant", id>>], results[key])
  <2> DEFINE ctx == Context(flags, given, known)
             person == Passed("person", known)
             flag == flags[key]
             h(id) == hash[<<flag.key, "variant", id>>]
  <2>1. WellFormed(flag) /\ results[key] = MatchWithContext(ctx, flag, person)
    BY <1>1 DEF Consistent, EvaluateAllFlags
  <2>2. PICK i \in DOMAIN flag.conditions, id \in Ids :
          results[key] = ValueOf(ctx, flag, flag.conditions[i], id)
    <3> HIDE DEF ctx, person, flag
    <3> QED BY <1>1, <2>1, ValueOfMatch
  <2>3. h(id) \in 0..Scale
    BY <1>1 DEF Hashed
  <2>4. HashKey(ctx, flag.key, "variant", id) = Round[h(id)]
    BY DEF HashKey, Context
  <2>5. results[key] = IF MatchingVariant(flag.variants, Round[h(id)]) # None
                       THEN MatchingVariant(flag.variants, Round[h(id)]) ELSE Enabled
    <3> HIDE DEF ctx
    <3> QED BY <1>1, <2>2, <2>4 DEF ValueOf
  <2>6. Divided(flag.variants)
    BY <2>1 DEF WellFormed, Divided
  <2> HIDE DEF ctx, person, flag, h
  <2>7. Splits(flag.variants, h(id), results[key])
    BY <2>3, <2>5, <2>6, SplitsHold
  <2> QED BY <2>7 DEF flag, h
<1>2. Consistent /\ Hashed => VariantShares
  BY <1>1 DEF VariantShares
<1>3. Init => Hashed
  <2>1. \A x \in 0..(Scale - 1) : x \in 0..Scale
    BY Scales
  <2>2. ASSUME Init, NEW key \in DOMAIN flags, NEW id \in Ids, NEW salt \in {"", "variant"}
        PROVE  hash[<<flags[key].key, salt, id>>] \in 0..(Scale - 1)
    BY <2>2, HashesAssumption DEF Init
  <2> QED BY <2>1, <2>2 DEF Hashed
<1>4. Consistent /\ Hashed /\ [Next]_vars => Consistent' /\ Hashed'
  BY NextConsistent, NextHashed
<1> QED BY InitConsistent, <1>2, <1>3, <1>4, PTL DEF Spec
=============================================================================
