----------------------------- MODULE EventLedger -----------------------------
(***************************************************************************)
(* What the client promises of the events handed to it, whatever happens   *)
(* behind `capture`: an event is refused at once or admitted to a bounded  *)
(* queue; an admitted event is settled once, before the client stops, or   *)
(* destroyed when it stops; `count` is what pending_events() returns.      *)
(***************************************************************************)
EXTENDS Integers, FiniteSets

CONSTANTS Events, Capacity

\* What the theorems about the ledger ask of the constants.
LedgerAssumption == IsFiniteSet(Events) /\ Capacity \in Nat

VARIABLES fate, count, stopped

vars == <<fate, count, stopped>>

Outcome == {"delivered", "undelivered"}
Fate == {"new", "pending", "refused", "lost"} \union Outcome

Pending == {e \in Events : fate[e] = "pending"}
\* The slots taken: those of the pending events, and of the lost ones for ever.
Taken == {e \in Events : fate[e] \in {"pending", "lost"}}
Changed == {e \in Events : fate'[e] # fate[e]}
\* The events that change leave `from` for one of the fates in `to`.
Become(from, to) ==
  /\ fate' \in [Events -> Fate]
  /\ \A e \in Changed : fate[e] = from /\ fate'[e] \in to

Init == fate = [e \in Events |-> "new"] /\ count = 0 /\ stopped \in BOOLEAN

Refuse == Become("new", {"refused"}) /\ UNCHANGED <<count, stopped>>

Admit ==
  /\ count < Capacity
  /\ Become("new", {"pending"}) /\ Cardinality(Changed) = 1
  /\ count' = count + 1 /\ UNCHANGED stopped

Settle ==
  /\ ~stopped
  /\ Become("pending", Outcome)
  /\ count' = count - Cardinality(Changed) /\ UNCHANGED stopped

\* An event admitted too late: nobody is left to take it.
Withdraw ==
  /\ stopped
  /\ Become("pending", {"refused"})
  /\ count' = count - Cardinality(Changed) /\ UNCHANGED stopped

Stop ==
  /\ ~stopped /\ stopped' = TRUE
  /\ Become("pending", {"lost"})
  /\ UNCHANGED count

Next == Refuse \/ Admit \/ Settle \/ Withdraw \/ Stop

Spec == Init /\ [][Next]_vars
-----------------------------------------------------------------------------
TypeOK == fate \in [Events -> Fate] /\ count \in Nat /\ stopped \in BOOLEAN

\* The count is exact, and bounded.
CountExact == count = Cardinality(Taken) /\ count <= Capacity
=============================================================================
