--------------------------- MODULE MCEvaluations ---------------------------
(* Constants of Evaluations for TLC. *)
EXTENDS Evaluations, TLC

CONSTANTS u1, u2, u3, s1, s2, s3

True == <<"true">>
A == <<"beta">>
B == <<"gate">>
TwoKeys == {A, B}
TwoAnswers == {<<>>, A :> True}
OneFilter == {TwoKeys}
OneGroup == {<<>>}

Ask(ids, filters, only) == [id : ids, groups : OneGroup, keys : filters, only : only]

\* One call has every combination of arguments; the other two, of which one may be for the
\* same user, stay local.
OneFullCall ==
  (s1 :> Ask({u1}, Filters \union {NoFilter}, BOOLEAN))
  @@ (s2 :> Ask({u1, u2}, {NoFilter}, {TRUE})) @@ (s3 :> Ask({u3}, {NoFilter}, {TRUE}))

LocalCalls == [s \in Snapshots |-> Ask(Ids, {NoFilter}, {TRUE})]

\* A flag `beta` with a variant `test_true`, and a boolean flag `beta_test`.
AmbiguousKeys == {A, <<"beta", "_", "test">>}
AmbiguousAnswers == {(A :> <<"test", "_", "true">>) @@ (<<"beta", "_", "test">> :> True)}

Symmetry == Permutations(Readers)
=============================================================================
