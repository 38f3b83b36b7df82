----------------------------- MODULE MCTransport -----------------------------
(***************************************************************************)
(* Small instances of Transport for TLC.                                   *)
(***************************************************************************)
EXTENDS Transport

CONSTANT a

\* A historical batch has two events or three, and before_send discards the event of call a.
MCSize == [c \in Calls |-> IF c \in HistoricalCalls THEN 2 ELSE 1]
MCThree == [c \in Calls |-> IF c \in HistoricalCalls THEN 3 ELSE 1]
\* Generated uuids are distinct; a caller may give two events of its batch the same.
MCUuid == [e \in Events |-> e]
MCShared == [e \in Events |-> IF e[2] = 1 THEN <<e[1], 2>> ELSE e]
MCFiltered == {<<a, 1>>} \intersect Events
=============================================================================
