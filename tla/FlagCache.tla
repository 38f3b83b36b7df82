------------------------------ MODULE FlagCache ------------------------------
(***************************************************************************)
(* The shared cache of flag definitions: update() replaces three maps      *)
(* under three write locks taken in turn, and a gate beside them; clear()  *)
(* takes one lock at a time; an evaluation reads the maps one by one, with *)
(* no lock held in between.                                                *)
(*                                                                         *)
(* A map is known by the update that wrote it: updates are numbered in the *)
(* order they take the lock on `flags`, and 0 is the empty map.            *)
(***************************************************************************)
EXTENDS Integers, Sequences, FiniteSets

CONSTANTS
  Updaters,    \* threads in update(): the poller's, and callers of load_flags
  Clearers,    \* threads in clear()
  Evaluators,  \* threads in evaluate_flags, evaluate_flag, evaluate_flag_simple
  MaxUpdates,  \* bound on the number of updates
  Nobody       \* no thread

ASSUME CacheAssumption == MaxUpdates \in Nat /\ Nobody \notin Updaters

\* The maps behind a lock, in the order update() and clear() take them.
Order == <<"flags", "group_type_mapping", "cohorts">>
Maps == {"flags", "group_type_mapping", "cohorts"}
Gate == "minimal_flag_called_events"
Cells == Maps \union {Gate}

\* What one evaluation reads, in order: evaluate_flags reads the context, the list of
\* flags, the gate, and each evaluated flag again for its has_experiment.
Reads == [evaluate_flags |-> <<"cohorts", "flags", "group_type_mapping", "flags", Gate, "flags">>,
          evaluate_flag |-> <<"flags", "cohorts", "flags", "group_type_mapping">>,
          evaluate_flag_simple |-> <<"flags", "group_type_mapping">>]

VARIABLES
  cell,      \* cell[c]: the update that wrote c, or 0
  lock,      \* lock[m]: the updater holding map m for writing
  applied,   \* the updates begun so far
  updating,  \* updating[u]: the steps of update() that u has taken, of seven
  clearing,  \* clearing[x]: the maps that x has cleared
  kind,      \* kind[e]: which evaluation e is in
  got        \* got[e]: what e has read so far

vars == <<cell, lock, applied, updating, clearing, kind, got>>

Init ==
  /\ cell = [c \in Cells |-> 0]
  /\ lock = [m \in Maps |-> Nobody]
  /\ applied = 0
  /\ updating = [u \in Updaters |-> 0]
  /\ clearing = [x \in Clearers |-> 0]
  /\ kind \in [Evaluators -> DOMAIN Reads]
  /\ got = [e \in Evaluators |-> <<>>]
-----------------------------------------------------------------------------
\* update: the k-th write lock is taken and its map replaced.
BeginUpdate(u) ==
  /\ updating[u] = 0 /\ lock["flags"] = Nobody /\ applied < MaxUpdates
  /\ applied' = applied + 1
  /\ lock' = [lock EXCEPT !["flags"] = u]
  /\ cell' = [cell EXCEPT !["flags"] = applied + 1]
  /\ updating' = [updating EXCEPT ![u] = 1]
  /\ UNCHANGED <<clearing, kind, got>>

ReplaceUnlocked(u, m) ==  \* mutant: each guard is a temporary, dropped after its write
  /\ updating[u] \in {1, 2} /\ m = Order[updating[u] + 1] /\ lock[m] = Nobody
  /\ lock' = [lock EXCEPT ![m] = u, ![Order[updating[u]]] = Nobody]
  /\ cell' = [cell EXCEPT ![m] = applied]
  /\ updating' = [updating EXCEPT ![u] = @ + 1]
  /\ UNCHANGED <<applied, clearing, kind, got>>
Replace(u, m) ==
  /\ updating[u] \in {1, 2} /\ m = Order[updating[u] + 1] /\ lock[m] = Nobody
  /\ lock' = [lock EXCEPT ![m] = u]
  /\ cell' = [cell EXCEPT ![m] = applied]
  /\ updating' = [updating EXCEPT ![u] = @ + 1]
  /\ UNCHANGED <<applied, clearing, kind, got>>

StoreGate(u) ==
  /\ updating[u] = 3
  /\ cell' = [cell EXCEPT ![Gate] = applied]
  /\ updating' = [updating EXCEPT ![u] = 4]
  /\ UNCHANGED <<lock, applied, clearing, kind, got>>

UnlockLeaked(u, m) ==  \* mutant: the guard of `flags` outlives the call
  /\ updating[u] \in {4, 5, 6} /\ m = Order[7 - updating[u]]
  /\ lock' = IF m = "flags" THEN lock ELSE [lock EXCEPT ![m] = Nobody]
  /\ updating' = [updating EXCEPT ![u] = @ + 1]
  /\ UNCHANGED <<cell, applied, clearing, kind, got>>
\* The guards are dropped in the reverse of the order they were taken.
Unlock(u, m) ==
  /\ updating[u] \in {4, 5, 6} /\ m = Order[7 - updating[u]]
  /\ lock' = [lock EXCEPT ![m] = Nobody]
  /\ updating' = [updating EXCEPT ![u] = (@ + 1) % 7]
  /\ UNCHANGED <<cell, applied, clearing, kind, got>>

\* clear: one map at a time, and the gate stays.
Clear(x, m) ==
  /\ clearing[x] < 3 /\ m = Order[clearing[x] + 1] /\ lock[m] = Nobody
  /\ cell' = [cell EXCEPT ![m] = 0]
  /\ clearing' = [clearing EXCEPT ![x] = @ + 1]
  /\ UNCHANGED <<lock, applied, updating, kind, got>>

\* Evaluations: a read waits for the writer of its map; the gate is an atomic.
Reading(e) == Len(got[e]) < Len(Reads[kind[e]])
NextRead(e) == Reads[kind[e]][Len(got[e]) + 1]
Readable(c) == c \in Maps => lock[c] = Nobody

Read(e) ==
  /\ Reading(e) /\ Readable(NextRead(e))
  /\ got' = [got EXCEPT ![e] = Append(@, cell[NextRead(e)])]
  /\ UNCHANGED <<cell, lock, applied, updating, clearing, kind>>

Finished ==
  /\ applied = MaxUpdates /\ \A u \in Updaters : updating[u] = 0
  /\ \A x \in Clearers : clearing[x] = 3
  /\ \A e \in Evaluators : ~Reading(e)
  /\ UNCHANGED vars

Next ==
  \/ \E u \in Updaters : BeginUpdate(u) \/ StoreGate(u)
  \/ \E u \in Updaters, m \in Maps : Replace(u, m) \/ Unlock(u, m)
  \/ \E x \in Clearers, m \in Maps : Clear(x, m)
  \/ \E e \in Evaluators : Read(e)
  \/ Finished

Spec == Init /\ [][Next]_vars
-----------------------------------------------------------------------------
TypeOK ==
  /\ cell \in [Cells -> Nat]
  /\ lock \in [Maps -> Updaters \union {Nobody}]
  /\ applied \in Nat
  /\ updating \in [Updaters -> 0..6]
  /\ clearing \in [Clearers -> 0..3]
  /\ kind \in [Evaluators -> DOMAIN Reads]
  /\ got \in [Evaluators -> Seq(Nat)]

\* The update a reader can see: the last one to have stored its gate.
Published == IF \E u \in Updaters : updating[u] \in 1..3 THEN applied - 1 ELSE applied

\* FlagCache::update is atomic to readers, though it writes four cells one after another
\* and readers lock one at a time: what can be read at any moment is one and the same
\* update, or a map that clear() emptied.
UpdateAtomic == \A c \in Cells : Readable(c) => cell[c] \in {0, Published}

\* An evaluation never goes back: nothing it reads is of an earlier update than what it
\* has read before.  What it reads next may be of a later one: cohorts are cloned first, so
\* newer flags can meet older cohorts, and this is not a promise of one snapshot.
ReadsAdvance ==
  \A e \in Evaluators : \A i, j \in DOMAIN got[e] :
    i < j /\ got[e][j] # 0 => got[e][i] <= got[e][j]

\* The claim of FlagCache.minimal_flag_called_events, "so the minimization decision reflects
\* the definitions snapshot that produced the value": the maps evaluate_flags matched with
\* and the gate it pins to the records are of one update. The code does not keep it: README,
\* section 6.
OneSnapshot ==
  \A e \in Evaluators : kind[e] = "evaluate_flags" /\ Len(got[e]) >= 5 =>
    \A i \in 1..4 : got[e][i] # 0 => got[e][i] = got[e][5]
=============================================================================
