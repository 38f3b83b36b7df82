---------------------------- MODULE FlagMatching ----------------------------
(***************************************************************************)
(* Local evaluation of flags: what match_feature_flag_with_context says of *)
(* the cached definitions, given the properties the application passes.    *)
(* The application may pass more of them the next time, and the owner of a *)
(* flag may raise a rollout.                                               *)
(*                                                                         *)
(* Hashes, percentages and their sums are numbers of units of 1/Scale,     *)
(* fine enough for what is computed to be whole; what the code keeps of it *)
(* is rounded to a double.  A value is a sequence: of three numbers if it  *)
(* parses as a version, otherwise of one name, by which strings are the    *)
(* same up to case.  Date operators, whose answer changes with the time,   *)
(* are left out.                                                           *)
(***************************************************************************)
EXTENDS Integers, Sequences, FiniteSets

CONSTANTS
  Scale,       \* 1, that is 100 percent, in units; LONG_SCALE as a double is a power of two
  Top,         \* in units, more than is ever summed
  Round,       \* the double nearest to a number of units, 0..Top
  Error,       \* how far off it may be
  Width,       \* 2^64: the components of a version wrap here
  Definitions, \* maps of flag definitions by key, as the server sends them
  Cohorts,     \* cohort definitions by id
  GroupTypes,  \* group_type_mapping: index to group type
  Groups,      \* groups of the application: group type to group key
  DistinctId,
  Truths,      \* properties by owner, "person" or a group type: all there are to pass
  Hashes,      \* hash functions: <<flag key, salt, id>> to 0..(Scale - 1), before rounding
  Rollouts,    \* percentages an owner may raise a rollout to
  None         \* an absent rollout, variant or aggregation index

VARIABLES
  flags,  \* the cached definitions
  hash,   \* hash_key
  truth,  \* the properties there are
  given,  \* the owners whose properties are passed
  known,  \* the pairs <<owner, key>> passed
  results \* what evaluate_all_flags returned for them

vars == <<flags, hash, truth, given, known, results>>

Yes == "yes"
No == "no"
Unknown == "unknown"  \* an InconclusiveMatchError

Enabled == "true"
Disabled == "false"
Inconclusive == "inconclusive"

\* The sums of the percentages before each variant and with it, were they not rounded.
Exact(variants) ==
  LET sum[i \in 0..Len(variants)] == IF i = 0 THEN 0 ELSE sum[i - 1] + variants[i].rollout
  IN  sum

\* Conditions and variants are numbered, a rollout is a percentage if there is one, no variant
\* is named like one of the above, and what is summed, rounded twice a variant, is within Top.
WellFormed(flag) ==
  /\ {"key", "active", "conditions", "variants", "aggregation", "early_exit"} \subseteq DOMAIN flag
  /\ DOMAIN flag.conditions \subseteq Nat /\ DOMAIN flag.variants \subseteq Nat
  /\ \A i \in DOMAIN flag.conditions :
       /\ {"properties", "rollout", "variant", "aggregation"} \subseteq DOMAIN flag.conditions[i]
       /\ flag.conditions[i].rollout \in 0..Scale \union {None}
  /\ Len(flag.variants) \in Nat /\ DOMAIN flag.variants = 1..Len(flag.variants)
  /\ \A i \in DOMAIN flag.variants :
       /\ flag.variants[i].key \notin {Enabled, Disabled, Inconclusive, None}
       /\ flag.variants[i].rollout \in 0..Scale
  /\ Exact(flag.variants)[Len(flag.variants)] + 2 * Len(flag.variants) * Error <= Top

\* The ids that are hashed.
Ids == {DistinctId} \union {Groups[type] : type \in DOMAIN Groups}

\* Rounding is monotone, exact on what it returns, and off by at most Error.
ASSUME RoundAssumption ==
  /\ Scale \in Nat /\ Top \in Nat /\ Error \in Nat /\ Scale <= Top
  /\ Round \in [0..Top -> Nat] /\ Round[0] = 0
  /\ \A x \in 1..Top : Round[x - 1] <= Round[x]
  /\ \A x \in 0..Top : /\ x <= Round[x] + Error /\ Round[x] <= x + Error
                       /\ Round[x] <= Top => Round[Round[x]] = Round[x]

ASSUME DefinitionsAssumption ==
  \A d \in Definitions : \A key \in DOMAIN d : WellFormed(d[key])

ASSUME HashesAssumption ==
  /\ Rollouts \subseteq 0..Scale
  /\ \A d \in Definitions, h \in Hashes :
       \A key \in DOMAIN d, id \in Ids, salt \in {"", "variant"} :
         h[<<d[key].key, salt, id>>] \in 0..(Scale - 1)
-----------------------------------------------------------------------------
(* Versions. *)

Before(v, w) ==
  \/ v[1] < w[1]
  \/ v[1] = w[1] /\ v[2] < w[2]
  \/ v[1] = w[1] /\ v[2] = w[2] /\ v[3] < w[3]

Within(v, bounds) == ~Before(v, bounds[1]) /\ Before(v, bounds[2])

\* The successor of a component. A build with overflow checks panics where this one wraps.
Succ(n) == (n + 1) % Width

TildeBounds(v) == <<v, <<v[1], Succ(v[2]), 0>>>>

CaretBounds(v) ==
  <<v, IF v[1] > 0 THEN <<Succ(v[1]), 0, 0>>
       ELSE IF v[2] > 0 THEN <<0, Succ(v[2]), 0>>
       ELSE <<0, 0, Succ(v[3])>>>>

\* A pattern "X.*" is <<X>>, "X.Y.*" is <<X, Y>>.
WildcardBounds(p) ==
  IF Len(p) = 1 THEN <<<<p[1], 0, 0>>, <<Succ(p[1]), 0, 0>>>>
  ELSE <<<<p[1], p[2], 0>>, <<p[1], Succ(p[2]), 0>>>>

IsVersion(v) == Len(v) = 3

Compares(operator, v, t) ==
  CASE operator = "semver_eq"    -> v = t
    [] operator = "semver_neq"   -> v # t
    [] operator = "semver_gt"    -> Before(t, v)
    [] operator = "semver_gte"   -> ~Before(v, t)
    [] operator = "semver_lt"    -> Before(v, t)
    [] operator = "semver_lte"   -> ~Before(t, v)
    [] operator = "semver_tilde" -> Within(v, TildeBounds(t))
    [] operator = "semver_caret" -> Within(v, CaretBounds(t))
-----------------------------------------------------------------------------
(* Properties. *)

Comparisons == {"semver_eq", "semver_neq", "semver_gt", "semver_gte", "semver_lt",
                "semver_lte", "semver_tilde", "semver_caret"}
Absence == {"is_set", "is_not_set"}

Answer(b) == IF b THEN Yes ELSE No

\* These look at the value alone: the p.value of such a property is the set of values that
\* are equal to it, contain it, match it, or compare to it.
Positive == {"exact", "icontains", "regex", "gt", "gte", "lt", "lte"}
Negative == {"is_not", "not_icontains", "not_regex"}

\* A property whose value was passed.
MatchValue(p, value) ==
  CASE p.operator \in Positive   -> Answer(value \in p.value)
    [] p.operator \in Negative   -> Answer(value \notin p.value)
    [] p.operator = "is_set"     -> Yes
    [] p.operator = "is_not_set" -> No
    [] p.operator \in Comparisons ->
         IF IsVersion(value) /\ IsVersion(p.value)
         THEN Answer(Compares(p.operator, value, p.value)) ELSE Unknown
    [] p.operator = "semver_wildcard" ->
         IF IsVersion(value) /\ Len(p.value) \in 1..2
         THEN Answer(Within(value, WildcardBounds(p.value))) ELSE Unknown
    [] OTHER -> Unknown

MatchProperty(p, properties) ==
  IF p.key \in DOMAIN properties THEN MatchValue(p, properties[p.key])
  ELSE IF p.operator \in Absence THEN Answer(p.operator = "is_not_set")
  ELSE Unknown

\* The loop over properties ends at the first whose answer is not Yes.
AllOf(answers) ==
  LET no == {i \in DOMAIN answers : answers[i] = No}
      unknown == {i \in DOMAIN answers : answers[i] = Unknown}
  IN  IF no \union unknown = {} THEN Yes
      ELSE IF \E i \in no : \A j \in unknown : i < j THEN No ELSE Unknown

MatchAll(tests, properties) ==
  AllOf([i \in DOMAIN tests |-> MatchProperty(tests[i], properties)])

\* Cohort::parse_properties: of a nested group, its first property.
Parsed(cohort) == [i \in DOMAIN cohort |-> cohort[i][1]]

CohortMatch(id, properties) == MatchAll(Parsed(Cohorts[id]), properties)

Negation(answer) == CASE answer = Yes -> No [] answer = No -> Yes [] OTHER -> Unknown

CohortGuesses(p, properties) ==  \* mutant: not known to be in is out
  IF p.value \notin DOMAIN Cohorts THEN Unknown
  ELSE LET in == Answer(CohortMatch(p.value, properties) = Yes)
       IN  CASE p.operator = "in" -> in [] p.operator = "not_in" -> Negation(in)
             [] OTHER -> Unknown
MatchCohort(p, properties) ==
  IF p.value \notin DOMAIN Cohorts THEN Unknown
  ELSE LET in == CohortMatch(p.value, properties)
       IN  CASE p.operator = "in" -> in [] p.operator = "not_in" -> Negation(in)
             [] OTHER -> Unknown
-----------------------------------------------------------------------------
(* Conditions and flags. `ctx` is the EvaluationContext. *)

\* Of the 60 bits of the hash a double keeps 53; the division by LONG_SCALE is exact.
HashKey(ctx, key, salt, id) == Round[ctx.hash[<<key, salt, id>>]]

\* rollout_percentage / 100.0
Fraction(rollout) == Round[rollout]

\* variants[i] has the interval from value_min, the sum before it, to value_max.
Shares(variants) ==
  LET sum[i \in 0..Len(variants)] ==
        IF i = 0 THEN 0 ELSE Round[sum[i - 1] + Fraction(variants[i].rollout)]
  IN  sum

BothEnds(variants, h) ==  \* mutant: hash_value <= value_max
  LET sum == Shares(variants)
  IN  {i \in DOMAIN variants : sum[i - 1] <= h /\ h <= sum[i]}
Buckets(variants, h) ==
  LET sum == Shares(variants)
  IN  {i \in DOMAIN variants : sum[i - 1] <= h /\ h < sum[i]}

\* The key of the first variant whose interval has the hash, or None.
MatchingVariant(variants, h) ==
  IF Buckets(variants, h) = {} THEN None
  ELSE variants[CHOOSE i \in Buckets(variants, h) : \A j \in Buckets(variants, h) : i <= j].key

\* resolve_condition_target: the id to hash and the properties to look at, or why there are none.
ConditionTarget(ctx, flag, condition, person) ==
  LET index == IF condition.aggregation # None THEN condition.aggregation ELSE flag.aggregation
  IN  IF index = None THEN [is |-> "use", id |-> DistinctId, properties |-> person]
      ELSE IF index \notin DOMAIN GroupTypes THEN [is |-> "skip"]
      ELSE IF GroupTypes[index] \notin DOMAIN Groups THEN [is |-> "skip"]
      ELSE IF GroupTypes[index] \notin DOMAIN ctx.group_properties THEN [is |-> "inconclusive"]
      ELSE [is |-> "use", id |-> Groups[GroupTypes[index]],
            properties |-> ctx.group_properties[GroupTypes[index]]]

\* is_condition_match, given what its properties answer.
ConditionMatch(ctx, flag, condition, id, properties) ==
  IF properties # Yes THEN properties
  ELSE IF condition.rollout # None /\ HashKey(ctx, flag.key, "", id) > Fraction(condition.rollout)
  THEN "out_of_rollout"
  ELSE "match"

Outcome(ctx, flag, condition, target, properties) ==
  CASE target.is = "skip" -> No
    [] target.is = "inconclusive" -> Unknown
    [] OTHER -> ConditionMatch(ctx, flag, condition, target.id, properties)

\* The value of a flag by a condition that matched, given the id it hashes.
ValueOf(ctx, flag, condition, id) ==
  LET variant == MatchingVariant(flag.variants, HashKey(ctx, flag.key, "variant", id))
  IN  IF condition.variant \in {flag.variants[i].key : i \in DOMAIN flag.variants}
      THEN condition.variant
      ELSE IF variant # None THEN variant ELSE Enabled

\* The loop is over the conditions sorted, which puts those with a variant first.
Earlier(conditions, i, j) ==
  IF (conditions[i].variant # None) = (conditions[j].variant # None) THEN i < j
  ELSE conditions[i].variant # None

\* The loop, should it reach i, ends there.
EndsAnyway(flag, outcome, i) ==  \* mutant: early_exit although an earlier one is unknown
  outcome[i] = "match" \/ (outcome[i] = "out_of_rollout" /\ flag.early_exit)
Ends(flag, outcome, i) ==
  \/ outcome[i] = "match"
  \/ /\ outcome[i] = "out_of_rollout" /\ flag.early_exit
     /\ \A j \in DOMAIN outcome : outcome[j] = Unknown => Earlier(flag.conditions, i, j)

Ending(flag, outcome) == {i \in DOMAIN outcome : Ends(flag, outcome, i)}
First(flag, outcome) ==
  CHOOSE i \in Ending(flag, outcome) :
    \A j \in Ending(flag, outcome) \ {i} : Earlier(flag.conditions, i, j)

\* The value of a flag, given the outcome of each condition.
Value(ctx, flag, person, outcome) ==
  LET condition == flag.conditions[First(flag, outcome)]
  IN  IF ~flag.active THEN Disabled
      ELSE IF Ending(flag, outcome) = {}
      THEN IF \E i \in DOMAIN outcome : outcome[i] = Unknown THEN Inconclusive ELSE Disabled
      ELSE IF outcome[First(flag, outcome)] = "match"
      THEN ValueOf(ctx, flag, condition, ConditionTarget(ctx, flag, condition, person).id)
      ELSE Disabled

\* match_feature_flag, which knows no cohorts and no other flags.
Plain(ctx, flag, person) ==
  [i \in DOMAIN flag.conditions |->
     LET condition == flag.conditions[i]
         target == ConditionTarget(ctx, flag, condition, person)
     IN  Outcome(ctx, flag, condition, target,
                 MatchAll(condition.properties, target.properties))]

MatchFeatureFlag(ctx, flag, person) == Value(ctx, flag, person, Plain(ctx, flag, person))

NoProperties == [k \in {} |-> <<>>]

\* Does the value of a flag meet what a dependency expects: one of the booleans Enabled and
\* Disabled, one of them as text, the empty text, or a variant?
MeetsExactly(value, expected) == value = expected  \* mutant: a variant is not `true`
Meets(value, expected) ==
  \/ value = expected
  \/ value # Disabled /\ expected = Enabled
  \/ value = Enabled /\ expected \in {"", "text true"}
  \/ value = Disabled /\ expected \in {"", "text false"}

MatchDependency(ctx, p) ==
  IF p.key \notin DOMAIN ctx.flags THEN Unknown
  ELSE LET value == MatchFeatureFlag(ctx, ctx.flags[p.key], NoProperties)
       IN  IF value = Inconclusive THEN Unknown
           ELSE CASE p.operator = "exact"  -> Answer(Meets(value, p.value))
                  [] p.operator = "is_not" -> Answer(~Meets(value, p.value))
                  [] OTHER -> Unknown

MatchInContext(ctx, p, properties) ==
  IF p.type = "cohort" THEN MatchCohort(p, properties)
  ELSE IF p.type = "flag" THEN MatchDependency(ctx, p)
  ELSE MatchProperty(p, properties)

\* match_feature_flag_with_context.
InContext(ctx, flag, person) ==
  [i \in DOMAIN flag.conditions |->
     LET condition == flag.conditions[i]
         target == ConditionTarget(ctx, flag, condition, person)
     IN  Outcome(ctx, flag, condition, target,
                 AllOf([j \in DOMAIN condition.properties |->
                          MatchInContext(ctx, condition.properties[j], target.properties)]))]

MatchWithContext(ctx, flag, person) == Value(ctx, flag, person, InContext(ctx, flag, person))
-----------------------------------------------------------------------------
\* The properties of an owner that an application passing the pairs of `pairs` passes.
Passed(owner, pairs) ==
  [k \in {x \in DOMAIN truth[owner] : <<owner, x>> \in pairs} |-> truth[owner][k]]

Context(definitions, owners, pairs) ==
  [hash |-> hash, flags |-> definitions,
   group_properties |-> [t \in owners \ {"person"} |-> Passed(t, pairs)]]

\* FeatureFlagEvaluator::evaluate_all_flags.
EvaluateAllFlags(definitions, owners, pairs) ==
  LET ctx == Context(definitions, owners, pairs)
      person == Passed("person", pairs)
  IN  [key \in DOMAIN definitions |-> MatchWithContext(ctx, definitions[key], person)]

Init ==
  /\ flags \in Definitions /\ hash \in Hashes /\ truth \in Truths
  /\ given = {"person"} /\ known = {}
  /\ results = EvaluateAllFlags(flags, given, known)

\* The flags are evaluated again, ...
Evaluate(definitions, owners, pairs) ==
  /\ flags' = definitions /\ given' = owners /\ known' = pairs
  /\ results' = EvaluateAllFlags(definitions, owners, pairs)
  /\ UNCHANGED <<hash, truth>>

\* ... when the application passes one more property, ...
PassProperty(owner, key) ==
  /\ owner \in given /\ key \in DOMAIN truth[owner] /\ <<owner, key>> \notin known
  /\ Evaluate(flags, given, known \union {<<owner, key>>})

\* ... or the properties of one more group, the first time none of them, ...
PassGroupProperties(type) ==
  /\ type \in DOMAIN Groups \ given
  /\ Evaluate(flags, given \union {type}, known)

\* ... or a poll has brought a larger rollout.
RaiseRollout(key, i, rollout) ==
  /\ flags[key].conditions[i].rollout # None /\ flags[key].conditions[i].rollout < rollout
  /\ Evaluate([flags EXCEPT ![key].conditions[i].rollout = rollout], given, known)

Next ==
  \/ \E owner \in DOMAIN truth : \E key \in DOMAIN truth[owner] : PassProperty(owner, key)
  \/ \E type \in DOMAIN Groups : PassGroupProperties(type)
  \/ \E key \in DOMAIN flags : \E i \in DOMAIN flags[key].conditions, rollout \in Rollouts :
       RaiseRollout(key, i, rollout)

Spec == Init /\ [][Next]_vars
-----------------------------------------------------------------------------
PropertiesOf(flag) ==
  UNION {{c.properties[i] : i \in DOMAIN c.properties} :
           c \in {flag.conditions[i] : i \in DOMAIN flag.conditions}}

Tests(p) == p.operator \notin Absence

\* The flag does not ask whether a property is set, itself, by its cohorts, or by the flags it
\* depends on, which it wants enabled and which do not exit early. The answer to is_set is
\* what was passed, and so is not expected to outlive it.
Steady(key) ==
  \A p \in PropertiesOf(flags[key]) :
    CASE p.type = "cohort" -> p.value \in DOMAIN Cohorts =>
           \A i \in DOMAIN Cohorts[p.value] : Tests(Parsed(Cohorts[p.value])[i])
      [] p.type = "flag" -> /\ p.operator = "exact" /\ p.value = Enabled
                            /\ p.key \in DOMAIN flags =>
                                 /\ ~flags[p.key].early_exit
                                 /\ \A q \in PropertiesOf(flags[p.key]) : Tests(q)
      [] OTHER -> Tests(p)

IsOn(value) == value \notin {Disabled, Inconclusive}

\* A Steady flag that local evaluation finds enabled, and that does not exit early, is enabled:
\* passing more properties, or a larger rollout, does not take it from the user. With early_exit
\* or is_not_set this is not so, see README.
EnabledStays ==
  [][\A key \in DOMAIN flags :
       Steady(key) /\ ~flags[key].early_exit /\ IsOn(results[key]) => IsOn(results'[key])]_vars

\* A Steady flag that local evaluation finds disabled, also by early_exit, is disabled: no
\* property left out could have enabled it, or the result would have been inconclusive. With
\* is_set, which takes a property that was not passed for one that is not set, this is not so.
DisabledStays ==
  [][\A key \in DOMAIN flags :
       Steady(key) /\ flags' = flags /\ results[key] = Disabled => results'[key] = Disabled]_vars

\* A dependency of a Steady flag, decided without the person's properties, agrees with what the
\* other flag evaluates to with all of them, whatever cohorts and flags that one looks at.
DependencyAgrees ==
  \A key \in DOMAIN flags : \A p \in PropertiesOf(flags[key]) :
    p.type = "flag" /\ p.key \in DOMAIN flags /\ Steady(key) =>
      LET answer == MatchDependency(Context(flags, given, known), p)
      IN  /\ answer = Yes => IsOn(results[p.key])
          /\ answer = No => results[p.key] = Disabled

\* How far rounding, twice a variant and once for the hash, may move a user past an edge.
Drift(variants) == (2 * Len(variants) + 1) * Error

\* What a user with this hash, before it is rounded, may get.
Splits(variants, h, value) ==
  LET sum == Exact(variants)
      drift == Drift(variants)
  IN  /\ \A i \in DOMAIN variants :
           sum[i - 1] + drift <= h /\ h + drift < sum[i] => value = variants[i].key
      /\ value # Enabled =>
           \E i \in DOMAIN variants :
             /\ value = variants[i].key /\ variants[i].rollout # 0
             /\ sum[i - 1] <= h + drift /\ h < sum[i] + drift
      /\ value = Enabled => sum[Len(variants)] <= h + drift

\* The users of an enabled flag are divided by the percentages of its variants. The edges are
\* running sums of doubles, and may be off by what is rounded away; a user farther than that
\* from every edge gets the variant the percentages say, no user one of zero percent, and no
\* user goes without a variant unless the percentages leave something over, or nearly do.
VariantShares ==
  \A key \in DOMAIN flags :
    LET flag == flags[key]
        keys == {flag.variants[i].key : i \in DOMAIN flag.variants}
    IN  IsOn(results[key]) /\ (\A i \in DOMAIN flag.conditions : flag.conditions[i].variant \notin keys)
          => \E id \in Ids :
               Splits(flag.variants, hash[<<flag.key, "variant", id>>], results[key])

\* The doc of hash_key: "a consistent hash in the range [0, 1)". The last few hashes are
\* rounded to 1, and such a user gets no variant of a flag that gives one to everybody: README,
\* section 6.
HashBelowOne ==
  \A key \in DOMAIN flags, id \in Ids :
    HashKey(Context(flags, given, known), flags[key].key, "variant", id) < Scale
=============================================================================
