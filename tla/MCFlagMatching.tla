--------------------------- MODULE MCFlagMatching ---------------------------
(* Constants of FlagMatching for TLC. *)
EXTENDS FlagMatching, TLC

Property(type, key, operator, value) ==
  [type |-> type, key |-> key, operator |-> operator, value |-> value]
Condition(properties, rollout, variant, aggregation) ==
  [properties |-> properties, rollout |-> rollout, variant |-> variant,
   aggregation |-> aggregation]

Pro == <<"pro">>
IsPro == Property("person", "plan", "exact", {Pro})
NotPro == Property("person", "plan", "not_icontains", {Pro})
Recent == Property("person", "app", "semver_caret", <<0, 2, 1>>)
In == Property("cohort", "id", "in", "early")
NotIn == Property("cohort", "id", "not_in", "early")
HasBase == Property("flag", "base", "exact", Enabled)
NoPlan == Property("person", "plan", "is_not_set", {})
BigTeam == Property("person", "size", "exact", {<<"big">>})

\* The cohort wants a plan, and, in a nested group, a version.
MCCohorts == "early" :> <<<<IsPro>>, <<Recent, NotPro>>>>
MCGroupTypes == 0 :> "team"
MCGroups == "team" :> "ours"

\* Quarters and halves are exact.
Quarter == Scale \div 4
Half == Scale \div 2

TwoVariants ==
  <<[key |-> "control", rollout |-> Quarter], [key |-> "test", rollout |-> Half]>>

Menu == {
  Condition(<<>>, Quarter, None, None),
  Condition(<<IsPro>>, Quarter, None, None),
  Condition(<<NotIn>>, None, None, None),
  Condition(<<In, HasBase>>, None, None, None),
  Condition(<<HasBase, NotPro>>, Quarter, None, None),
  Condition(<<Recent>>, None, "test", None),
  Condition(<<BigTeam>>, None, None, 0),
  Condition(<<NoPlan>>, None, None, None) }

Flag(key, conditions, variants, early_exit) ==
  [key |-> key, active |-> TRUE, conditions |-> conditions, variants |-> variants,
   aggregation |-> None, early_exit |-> early_exit]

\* Another flag to depend on: in part, for a group or by the plan, by a cohort, for a group
\* type nobody knows, or inactive.
Bases == {
  Flag("base", <<Condition(<<>>, Quarter, None, None)>>, TwoVariants, FALSE),
  Flag("base", <<Condition(<<>>, Quarter, None, 0), Condition(<<IsPro>>, None, None, None)>>,
       <<>>, FALSE),
  Flag("base", <<Condition(<<In>>, None, None, None)>>, <<>>, FALSE),
  Flag("base", <<Condition(<<>>, None, None, 1)>>, <<>>, FALSE),
  [Flag("base", <<Condition(<<>>, None, None, None)>>, <<>>, FALSE) EXCEPT !.active = FALSE] }

-----------------------------------------------------------------------------
\* Numbers of nine significant bits, the nearest, and of two the even one, in units of
\* 1/20480: from a half on, every fortieth is one of them, from a quarter on every twentieth.
Step(x) == CASE x < 2560 -> 5 [] x < 5120 -> 10 [] x < 10240 -> 20 [] x < 20480 -> 40 [] OTHER -> 80

Doubles ==
  [x \in 0..Top |->
     LET step == Step(x)
         below == x \div step
         over == x % step
     IN  step * (IF 2 * over > step \/ (2 * over = step /\ below % 2 = 1) THEN below + 1 ELSE below)]

Names == <<"a", "b", "c", "d", "e", "f", "g", "h", "i", "j">>
Split(rollouts) == [i \in DOMAIN rollouts |-> [key |-> Names[i], rollout |-> rollouts[i]]]

\* Ten of ten percent; an unused one first, then thirds; one unused in between; percentages
\* that leave some over; and one variant.
MCSplits ==
  { Split([i \in 1..10 |-> 2048]), Split(<<0, 6827, 6827, 6826>>), Split(<<10240, 0, 10240>>),
    Split(<<6819, 1, 3003>>), Split(<<20480>>) }

\* Two flags for each edge of a split, for hashes before it and from it on, which each hash
\* function moves: from 80 units before the edge to 60 after, by 20.
Edges == {<<s, i>> \in MCSplits \X (0..10) : i <= Len(s)}
SplitKey(s, i, n) == ToString(<<[j \in DOMAIN s |-> s[j].rollout], i, n>>)
Near(edge, n, move) ==
  LET h == Exact(edge[1])[edge[2]] - 80 + 80 * n + 20 * move
  IN  IF h < 0 THEN 0 ELSE IF h >= Scale THEN Scale - 1 ELSE h

SplitHashes(move) ==
  [key \in {SplitKey(e[1], e[2], n) : e \in Edges, n \in 0..1} |->
     LET x == CHOOSE x \in Edges \X (0..1) : SplitKey(x[1][1], x[1][2], x[2]) = key
     IN  Near(x[1], x[2], move)]

SplitFlags ==
  [key \in DOMAIN SplitHashes(0) |->
     LET e == CHOOSE e \in Edges : \E n \in 0..1 : SplitKey(e[1], e[2], n) = key
     IN  Flag(key, <<Condition(<<IsPro>>, None, None, None)>>, e[1], FALSE)]
-----------------------------------------------------------------------------
MCDefinitions ==
  {("main" :> Flag("main", <<c, d>>, TwoVariants, e)) @@ ("base" :> b) :
     c \in Menu, d \in Menu, e \in BOOLEAN, b \in Bases}
  \union {SplitFlags}

MCTruths ==
  {("person" :> ("plan" :> t[1] @@ "app" :> t[2])) @@ ("team" :> ("size" :> <<"big">>)) :
     t \in {<<Pro, <<0, 2, 5>>>>, <<<<"free">>, <<0, 3, 0>>>>}}

\* The rollouts of main and base include the user or not; their variant is the second.
MCHashes ==
  {LET f == SplitHashes(move)
   IN  [x \in ({"main", "base"} \union DOMAIN f) \X {"", "variant"} \X {"me", "ours"} |->
          CASE x[2] = "variant" /\ x[1] \in DOMAIN f -> f[x[1]]
            [] x[2] = "variant" /\ x[1] \notin DOMAIN f -> Half
            [] x[1] = "main" -> Half * (move % 2)
            [] x[1] = "base" -> Half * (move \div 2)
            [] OTHER -> 0] : move \in 0..3}
=============================================================================
