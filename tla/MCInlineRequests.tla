------------------------- MODULE MCInlineRequests -------------------------
(* Constants of InlineRequests for TLC. *)
EXTENDS InlineRequests, TLC

CONSTANTS c1, e1, e2, e3, ua, ub

\* Three events, two of which were given one uuid.
SharedUuid == (e1 :> ua) @@ (e2 :> ub) @@ (e3 :> ub)

\* One call of any kind, a capture with all three events.
OfAnyKind ==
  c1 :> ({[kind |-> "capture", events |-> Events]}
         \union [kind : {"flags", "flag", "enabled", "payload"}, events : {{}}])

\* Success, a refusal that says when to come back or not, a retryable failure of both kinds
\* of call, and one that neither retries.
FewStatuses == {200, 429, 502, 400}
FewHeaders == {[form |-> "other", value |-> 0], [form |-> "seconds", value |-> 50],
              [form |-> "date", value |-> 7]}
=============================================================================
