--------------------------- MODULE FlagCacheProofs ---------------------------
(***************************************************************************)
(* Proofs about FlagCache, for any number of updating, clearing and        *)
(* evaluating threads: update() is atomic to readers, and an evaluation    *)
(* never goes back in time.                                                *)
(***************************************************************************)
EXTENDS FlagCache, TLAPS

\* The maps an updater holds after k steps of update().
HeldAfter(k) ==
  {m \in Maps : \/ m = "flags" /\ k \in 1..6
                \/ m = "group_type_mapping" /\ k \in 2..5
                \/ m = "cohorts" /\ k \in 3..4}

\* Who holds which map is what the updaters have done.
LocksHeld == \A m \in Maps, u \in Updaters : (lock[m] = u) <=> (m \in HeldAfter(updating[u]))

\* A map held for writing has been written.
HeldWritten == \A m \in Maps : lock[m] # Nobody => cell[m] = applied

\* Nothing newer than what is published has been read.
ReadsPublished == \A e \in Evaluators : \A i \in DOMAIN got[e] : got[e][i] <= Published

IInv ==
  /\ TypeOK /\ LocksHeld /\ HeldWritten /\ UpdateAtomic
  /\ 0 <= Published /\ ReadsPublished /\ ReadsAdvance

LEMMA OrderValues ==
  /\ Order[1] = "flags" /\ Order[2] = "group_type_mapping" /\ Order[3] = "cohorts"
  /\ \A k \in 1..3 : Order[k] \in Maps
BY DEF Order, Maps

LEMMA ReadsInCells ==
  \A k \in DOMAIN Reads : \A i \in 1..Len(Reads[k]) : Reads[k][i] \in Cells
<1>1. {"flags", "group_type_mapping", "cohorts", Gate} = Cells
  BY DEF Cells, Maps
<1> QED BY <1>1 DEF Reads

\* Whoever is in update() holds `flags`, so at most one updater is.
LEMMA OneUpdater ==
  ASSUME TypeOK, LocksHeld, NEW u \in Updaters, updating[u] # 0
  PROVE  lock["flags"] = u /\ \A v \in Updaters : v # u => updating[v] = 0
<1>1. "flags" \in Maps
  BY DEF Maps
<1>2. \A v \in Updaters : updating[v] # 0 => "flags" \in HeldAfter(updating[v])
  BY <1>1 DEF TypeOK, HeldAfter
<1> QED
  BY <1>1, <1>2 DEF LocksHeld

\* Type correctness is kept by every step.
LEMMA TypeStep == ASSUME CacheAssumption, TypeOK, [Next]_vars PROVE TypeOK'
<1> USE DEF TypeOK
<1>1. ASSUME NEW u \in Updaters, BeginUpdate(u) PROVE TypeOK'
  BY <1>1 DEF BeginUpdate, Cells, Maps
<1>2. ASSUME NEW u \in Updaters, StoreGate(u) PROVE TypeOK'
  BY <1>2 DEF StoreGate, Cells
<1>3. ASSUME NEW u \in Updaters, NEW m \in Maps, Replace(u, m) PROVE TypeOK'
  BY <1>3 DEF Replace, Cells
<1>4. ASSUME NEW u \in Updaters, NEW m \in Maps, Unlock(u, m) PROVE TypeOK'
  <2>1. (updating[u] + 1) % 7 \in 0..6
    BY <1>4 DEF Unlock
  <2> QED
    BY <1>4, <2>1 DEF Unlock
<1>5. ASSUME NEW x \in Clearers, NEW m \in Maps, Clear(x, m) PROVE TypeOK'
  <2>0. clearing[x] \in 0..3 /\ clearing[x] < 3
    BY <1>5 DEF Clear
  <2>1. clearing' \in [Clearers -> 0..3]
    <3>1. clearing[x] + 1 \in 0..3
      BY <2>0
    <3>2. clearing' = [clearing EXCEPT ![x] = clearing[x] + 1] /\ clearing \in [Clearers -> 0..3]
      BY <1>5 DEF Clear
    <3> QED
      BY <3>1, <3>2
  <2>2. cell' \in [Cells -> Nat]
    BY <1>5 DEF Clear, Cells
  <2> QED
    BY <1>5, <2>1, <2>2 DEF Clear
<1>6. ASSUME NEW e \in Evaluators, Read(e) PROVE TypeOK'
  <2>1. NextRead(e) \in Cells
    BY <1>6, ReadsInCells DEF Read, Reading, NextRead
  <2> QED
    BY <1>6, <2>1 DEF Read
<1>7. CASE Finished
  BY <1>7 DEF Finished, vars
<1>8. CASE UNCHANGED vars
  BY <1>8 DEF vars
<1> QED
  BY <1>1, <1>2, <1>3, <1>4, <1>5, <1>6, <1>7, <1>8 DEF Next

\* What a step does to the cache; an evaluation's own step reads only.
LEMMA CacheStep ==
  ASSUME CacheAssumption, IInv, [Next]_vars
  PROVE  /\ LocksHeld' /\ HeldWritten' /\ UpdateAtomic'
         /\ Published <= Published'
<1> USE OrderValues, CacheAssumption DEF CacheAssumption
<1>0. TypeOK /\ LocksHeld /\ HeldWritten /\ UpdateAtomic
  BY DEF IInv
<1>t. TypeOK'
  BY <1>0, TypeStep
<1>1. ASSUME NEW u \in Updaters, BeginUpdate(u)
      PROVE  LocksHeld' /\ HeldWritten' /\ UpdateAtomic' /\ Published <= Published'
  <2>1. \A v \in Updaters : updating[v] = 0
    BY <1>0, <1>1, OneUpdater DEF BeginUpdate, TypeOK
  <2>2. \A m \in Maps : lock[m] = Nobody
    BY <1>0, <2>1 DEF TypeOK, LocksHeld, HeldAfter
  <2>3. Published = applied /\ Published' = applied
    BY <1>0, <1>1, <2>1 DEF Published, BeginUpdate, TypeOK
  <2>4. LocksHeld'
    BY <1>0, <1>1, <2>1, <2>2 DEF LocksHeld, HeldAfter, BeginUpdate, TypeOK, Maps
  <2>5. HeldWritten'
    <3>1. \A m \in Maps : lock'[m] # Nobody => m = "flags"
      BY <1>0, <1>1, <2>2 DEF BeginUpdate, TypeOK
    <3>2. cell'["flags"] = applied'
      BY <1>0, <1>1 DEF BeginUpdate, TypeOK, Cells, Maps
    <3> QED
      BY <3>1, <3>2 DEF HeldWritten
  <2>6. UpdateAtomic'
    BY <1>0, <1>1, <2>2, <2>3 DEF UpdateAtomic, Readable, BeginUpdate, TypeOK, Maps, Cells, Gate
  <2> QED
    BY <1>0, <2>3, <2>4, <2>5, <2>6 DEF TypeOK
<1>2. ASSUME NEW u \in Updaters, StoreGate(u)
      PROVE  LocksHeld' /\ HeldWritten' /\ UpdateAtomic' /\ Published <= Published'
  <2>1. \A v \in Updaters : v # u => updating[v] = 0
    BY <1>0, <1>2, OneUpdater DEF StoreGate
  <2>h. \A m \in Maps : m \in HeldAfter(3)
    BY DEF HeldAfter, Maps
  <2>2. \A m \in Maps : lock[m] = u
    BY <1>0, <1>2, <2>h DEF LocksHeld, StoreGate
  <2>3. Published <= Published' /\ Published' = applied
    BY <1>0, <1>2, <2>1 DEF Published, StoreGate, TypeOK
  <2>4. LocksHeld'
    BY <1>0, <1>2, <2>1 DEF LocksHeld, HeldAfter, StoreGate, TypeOK
  <2>5. HeldWritten'
    BY <1>0, <1>2 DEF HeldWritten, StoreGate, TypeOK, Maps, Cells, Gate
  <2>6. UpdateAtomic'
    BY <1>0, <1>2, <2>2, <2>3 DEF UpdateAtomic, Readable, StoreGate, TypeOK, Maps, Cells, Gate
  <2> QED
    BY <2>3, <2>4, <2>5, <2>6
<1>3. ASSUME NEW u \in Updaters, NEW m \in Maps, Replace(u, m)
      PROVE  LocksHeld' /\ HeldWritten' /\ UpdateAtomic' /\ Published <= Published'
  <2>1. \A v \in Updaters : v # u => updating[v] = 0
    BY <1>0, <1>3, OneUpdater DEF Replace
  <2>2. Published = applied - 1 /\ Published' = Published
    BY <1>0, <1>3, <2>1 DEF Published, Replace, TypeOK
  <2>3. LocksHeld'
    BY <1>0, <1>3, <2>1 DEF LocksHeld, HeldAfter, Replace, TypeOK, Maps
  <2>4. HeldWritten'
    BY <1>0, <1>3 DEF HeldWritten, Replace, TypeOK, Cells
  <2>5. UpdateAtomic'
    BY <1>0, <1>3, <2>2 DEF UpdateAtomic, Readable, Replace, TypeOK, Maps, Cells, Gate
  <2> QED
    BY <1>0, <2>2, <2>3, <2>4, <2>5 DEF TypeOK
<1>4. ASSUME NEW u \in Updaters, NEW m \in Maps, Unlock(u, m)
      PROVE  LocksHeld' /\ HeldWritten' /\ UpdateAtomic' /\ Published <= Published'
  <2>1. \A v \in Updaters : v # u => updating[v] = 0
    BY <1>0, <1>4, OneUpdater DEF Unlock
  <2>2. Published = applied /\ Published' = Published
    BY <1>0, <1>4, <2>1 DEF Published, Unlock, TypeOK
  <2>3. lock[m] = u
    BY <1>0, <1>4 DEF LocksHeld, HeldAfter, Unlock, Maps
  <2>4. LocksHeld'
    BY <1>0, <1>4, <2>1 DEF LocksHeld, HeldAfter, Unlock, TypeOK, Maps
  <2>5. HeldWritten'
    BY <1>0, <1>4 DEF HeldWritten, Unlock, TypeOK
  <2>6. UpdateAtomic'
    BY <1>0, <1>4, <2>2, <2>3 DEF UpdateAtomic, HeldWritten, Readable, Unlock, TypeOK, Cells
  <2> QED
    BY <1>0, <2>2, <2>4, <2>5, <2>6 DEF TypeOK
<1>5. ASSUME NEW x \in Clearers, NEW m \in Maps, Clear(x, m)
      PROVE  LocksHeld' /\ HeldWritten' /\ UpdateAtomic' /\ Published <= Published'
  <2>1. Published' = Published /\ Published \in Int
    BY <1>0, <1>5 DEF Published, Clear, TypeOK
  <2> QED
    BY <1>0, <1>5, <2>1
    DEF LocksHeld, HeldWritten, UpdateAtomic, Readable, Clear, TypeOK, Cells
<1>6. ASSUME UNCHANGED <<cell, lock, applied, updating>>
      PROVE  LocksHeld' /\ HeldWritten' /\ UpdateAtomic' /\ Published <= Published'
  <2>1. Published' = Published /\ Published \in Int
    BY <1>0, <1>6 DEF Published, TypeOK
  <2> QED
    BY <1>0, <1>6, <2>1 DEF LocksHeld, HeldWritten, UpdateAtomic, Readable
<1> QED
  BY <1>1, <1>2, <1>3, <1>4, <1>5, <1>6 DEF Next, Read, Finished, vars

\* What the evaluations have read, after any step.
LEMMA ReadsStep ==
  ASSUME CacheAssumption, IInv, [Next]_vars
  PROVE  0 <= Published' /\ ReadsPublished' /\ ReadsAdvance'
<1>0. TypeOK /\ TypeOK' /\ UpdateAtomic /\ ReadsPublished /\ ReadsAdvance /\ Published <= Published' /\ 0 <= Published
  BY TypeStep, CacheStep DEF IInv
<1>i. Published \in Int /\ Published' \in Int
  BY <1>0 DEF Published, TypeOK
<1>1. ASSUME NEW e \in Evaluators, Read(e)
      PROVE  ReadsPublished' /\ ReadsAdvance'
  <2> DEFINE v == cell[NextRead(e)]
  <2>1. NextRead(e) \in Cells
    BY <1>0, <1>1, ReadsInCells DEF Read, Reading, NextRead, TypeOK
  <2>2. v \in Nat /\ v \in {0, Published}
    BY <1>0, <1>1, <2>1 DEF Read, UpdateAtomic, TypeOK
  <2>3. got[e] \in Seq(Nat) /\ got'[e] = Append(got[e], v)
    BY <1>0, <1>1 DEF Read, TypeOK
  <2>4. \A d \in Evaluators : d # e => got'[d] = got[d]
    BY <1>0, <1>1 DEF Read, TypeOK
  <2>5. DOMAIN got'[e] = 1..Len(got[e]) + 1 /\ DOMAIN got[e] = 1..Len(got[e])
    BY <2>2, <2>3
  <2>6. \A i \in 1..Len(got[e]) : got'[e][i] = got[e][i] /\ got[e][i] \in Nat
    BY <2>2, <2>3
  <2>7. got'[e][Len(got[e]) + 1] = v
    BY <2>2, <2>3
  <2>8. Published' = Published
    BY <1>1 DEF Read, Published
  <2>9. \A i \in 1..Len(got[e]) : got[e][i] <= Published
    BY <1>0, <2>5 DEF ReadsPublished
  <2>n. Len(got[e]) \in Nat
    BY <2>3
  <2>11. ReadsPublished'
    <3> SUFFICES ASSUME NEW d \in Evaluators, NEW i \in DOMAIN got'[d]
                 PROVE  got'[d][i] <= Published'
      BY DEF ReadsPublished
    <3>1. CASE d # e
      BY <1>0, <2>4, <2>8, <3>1 DEF ReadsPublished
    <3>2. CASE d = e
      <4>1. CASE i = Len(got[e]) + 1
        <5>1. got'[d][i] = v /\ (v = 0 \/ v = Published)
          BY <2>2, <2>7, <3>2, <4>1
        <5> QED BY <1>0, <1>i, <2>8, <5>1
      <4>2. CASE i \in 1..Len(got[e])
        <5>1. got'[d][i] = got[e][i] /\ got[e][i] <= Published
          BY <2>6, <2>9, <3>2, <4>2
        <5> QED BY <2>8, <5>1
      <4> QED BY <2>5, <2>n, <3>2, <4>1, <4>2
    <3> QED
      BY <3>1, <3>2
  <2>12. ReadsAdvance'
    <3> SUFFICES ASSUME NEW d \in Evaluators, NEW i \in DOMAIN got'[d], NEW j \in DOMAIN got'[d],
                        i < j, got'[d][j] # 0
                 PROVE  got'[d][i] <= got'[d][j]
      BY DEF ReadsAdvance
    <3>1. CASE d # e
      BY <1>0, <2>4, <3>1 DEF ReadsAdvance
    <3>2. CASE d = e /\ j = Len(got[e]) + 1
      <4>1. i \in 1..Len(got[e])
        BY <2>5, <2>n, <3>2
      <4>2. got'[e][i] = got[e][i] /\ got[e][i] <= Published
        BY <2>6, <2>9, <4>1
      <4>3. got'[e][j] = v /\ v = Published
        BY <2>2, <2>7, <3>2
      <4> QED
        BY <3>2, <4>2, <4>3
    <3>3. CASE d = e /\ j # Len(got[e]) + 1
      <4>1. i \in 1..Len(got[e]) /\ j \in 1..Len(got[e])
        BY <2>5, <2>n, <3>3
      <4> QED
        BY <1>0, <2>5, <2>6, <3>3, <4>1 DEF ReadsAdvance
    <3> QED
      BY <3>1, <3>2, <3>3
  <2> QED
    BY <2>11, <2>12
<1>2. ASSUME UNCHANGED got PROVE ReadsPublished' /\ ReadsAdvance'
  <2>1. ReadsAdvance'
    BY <1>0, <1>2 DEF ReadsAdvance
  <2>2. ReadsPublished'
    <3> SUFFICES ASSUME NEW e \in Evaluators, NEW i \in DOMAIN got[e]
                 PROVE  got[e][i] <= Published'
      BY <1>2 DEF ReadsPublished
    <3>1. got[e][i] \in Nat /\ got[e][i] <= Published
      BY <1>0 DEF ReadsPublished, TypeOK
    <3> QED
      BY <1>0, <1>i, <3>1
  <2> QED
    BY <2>1, <2>2
<1> QED
  BY <1>0, <1>1, <1>2, <1>i
  DEF Next, BeginUpdate, Replace, StoreGate, Unlock, Clear, Finished, vars

LEMMA InitIInv == ASSUME CacheAssumption, Init PROVE IInv
<1>1. TypeOK
  BY DEF Init, TypeOK
<1>2. LocksHeld /\ HeldWritten
  BY DEF Init, LocksHeld, HeldWritten, HeldAfter, CacheAssumption
<1>3. UpdateAtomic /\ 0 <= Published
  BY DEF Init, UpdateAtomic, Published
<1>4. ReadsPublished /\ ReadsAdvance
  BY DEF Init, ReadsPublished, ReadsAdvance
<1> QED
  BY <1>1, <1>2, <1>3, <1>4 DEF IInv

LEMMA CacheInvariant == Spec => []IInv
<1>1. Init => IInv
  BY InitIInv, CacheAssumption
<1>2. IInv /\ [Next]_vars => IInv'
  BY TypeStep, CacheStep, ReadsStep, CacheAssumption DEF IInv
<1> QED
  BY <1>1, <1>2, PTL DEF Spec

\* For any number of updating, clearing and evaluating threads, every cell, lock and
\* position in update(), clear() and the reading functions keeps its type.
THEOREM CacheTyped == Spec => []TypeOK
<1>1. IInv => TypeOK
  BY DEF IInv
<1> QED
  BY <1>1, CacheInvariant, PTL

\* Whatever threads race in update() and clear(), a reader sees every cell either as the
\* last complete update left it or cleared, although update() writes them one by one.
THEOREM UpdatesAreAtomic == Spec => []UpdateAtomic
<1>1. IInv => UpdateAtomic
  BY DEF IInv
<1> QED
  BY <1>1, CacheInvariant, PTL

\* No evaluation reads a map, or the gate, of an earlier update than what it has read before;
\* a later one it may read, so its reads need not be of one snapshot.
THEOREM EvaluationsAdvance == Spec => []ReadsAdvance
<1>1. IInv => ReadsAdvance
  BY DEF IInv
<1> QED
  BY <1>1, CacheInvariant, PTL
=============================================================================
