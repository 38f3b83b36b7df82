-------------------------- MODULE EvaluationsProofs --------------------------
(***************************************************************************)
(* What evaluate_flags makes of what it heard, and whom it told; what a    *)
(* narrowed snapshot regards as accessed; and the deduplication cache: it  *)
(* stays within its limit, sends a combination at most once per reset, and *)
(* a read that is skipped as already reported relies on an event for the   *)
(* very same combination, provided the names of flags and values do not    *)
(* collide once concatenated.                                              *)
(***************************************************************************)
EXTENDS Evaluations, FiniteSetTheorems, TLAPS

\* What one source says is typed, whatever part of it was asked for.
LEMMA RecordsTyped ==
  ASSUME NEW answer \in Answers, NEW keys, NEW source \in {"local", "remote"}
  PROVE  /\ Records(answer, source) \in RecordsType
         /\ Records(Requested(answer, keys), source) \in RecordsType
<1>1. DOMAIN answer \subseteq Keys /\ \A k \in DOMAIN answer : answer[k] \in Values
  BY EvaluationsAssumption DEF Values
<1>2. Records(answer, source)
        \in [DOMAIN answer -> [value : Values, source : {"local", "remote"}]]
  BY <1>1 DEF Records
<1> DEFINE D == {x \in DOMAIN answer : keys = NoFilter \/ x \in keys}
           asked == Requested(answer, keys)
<1>3. DOMAIN asked = D /\ \A k \in D : asked[k] \in Values
  BY <1>1 DEF Requested
<1>4. Records(asked, source) \in [D -> [value : Values, source : {"local", "remote"}]]
  <2> HIDE DEF asked, D
  <2> QED BY <1>3 DEF Records
<1>5. D \subseteq Keys
  BY <1>1
<1> HIDE DEF D
<1> QED BY <1>1, <1>2, <1>4, <1>5 DEF RecordsType

LEMMA NoRecordsTyped == NoRecords \in RecordsType
<1>1. NoRecords \in [{} -> [value : Values, source : {"local", "remote"}]]
  BY DEF NoRecords
<1> QED BY <1>1 DEF RecordsType

LEMMA MergeTyped ==
  ASSUME NEW a \in RecordsType, NEW b \in RecordsType
  PROVE  Merge(a, b) \in RecordsType
<1> DEFINE R == [value : Values, source : {"local", "remote"}]
<1>1. PICK A \in SUBSET Keys : a \in [A -> R]
  BY DEF RecordsType
<1>2. PICK B \in SUBSET Keys : b \in [B -> R]
  BY DEF RecordsType
<1> HIDE DEF R
<1>3. Merge(a, b) \in [A \union B -> R]
  BY <1>1, <1>2 DEF Merge
<1> QED BY <1>3 DEF RecordsType, R

\* only and only_accessed keep some of the records.
LEMMA SomeRecordsTyped ==
  ASSUME NEW a \in RecordsType, NEW keys
  PROVE  [k \in keys \intersect DOMAIN a |-> a[k]] \in RecordsType
<1> DEFINE R == [value : Values, source : {"local", "remote"}]
<1>1. PICK A \in SUBSET Keys : a \in [A -> R]
  BY DEF RecordsType
<1> HIDE DEF R
<1>2. [k \in keys \intersect DOMAIN a |-> a[k]] \in [keys \intersect A -> R]
  BY <1>1
<1> QED BY <1>1, <1>2 DEF RecordsType, R

\* A read of a snapshot that somebody evaluated is about one of the combinations.
LEMMA ComboTyped ==
  ASSUME TypeOK, NEW s \in Snapshots, NEW key \in Keys, snapshot[s].id # NoId
  PROVE  Combo(s, key) \in Combos
<1>1. snapshot[s] \in SnapshotType
  BY DEF TypeOK
<1>2. snapshot[s].id \in Ids /\ snapshot[s].groups \in Groups /\ snapshot[s].records \in RecordsType
  BY <1>1 DEF SnapshotType
<1>3. Response(s, key) \in Values
  BY <1>2 DEF Response, RecordsType, Values
<1> QED BY <1>2, <1>3 DEF Combo, Combos

LEMMA NoCallTyped == NoCall \in CallType
  BY NoRecordsTyped, EvaluationsAssumption DEF NoCall, CallType, NoAnswer

LEMMA InitTyped == Init => TypeOK
<1> SUFFICES ASSUME Init PROVE TypeOK
  OBVIOUS
<1>1. call \in [Snapshots -> CallType]
  BY NoCallTyped DEF Init
<1>2. snapshot \in [Snapshots -> SnapshotType]
  <2>1. \A s \in Snapshots : Unmade(s) \in SnapshotType
    BY NoRecordsTyped, EvaluationsAssumption DEF Unmade, SnapshotType
  <2> QED BY <2>1 DEF Init
<1> QED BY <1>1, <1>2, EvaluationsAssumption DEF Init, TypeOK, Stages, Idle

\* What a call does to the variables it owns is typed, however it returns.
LEMMA ReturnTyped ==
  ASSUME TypeOK, NEW s \in Snapshots, NEW id \in Ids \union {NoId}, NEW groups \in Groups,
         NEW records \in RecordsType, NEW errors \in BOOLEAN,
         Return(s, id, groups, records, errors)
  PROVE  /\ stage' \in [Snapshots -> Stages]
         /\ call' \in [Snapshots -> CallType]
         /\ snapshot' \in [Snapshots -> SnapshotType]
<1>1. [id |-> id, groups |-> groups, records |-> records, errors |-> errors,
       of |-> "call", from |-> s] \in SnapshotType
  BY DEF SnapshotType
<1> QED BY <1>1, NoCallTyped DEF Return, TypeOK, Stages

LEMMA EvaluatingTyped ==
  ASSUME TypeOK, NEW s \in Snapshots, Evaluating(s)
  PROVE  TypeOK'
<1> USE DEF readVars, cacheVars
<1>0. call[s] \in CallType
  BY DEF TypeOK
<1>1. CASE EvaluateNobody(s)
  <2>1. /\ stage' \in [Snapshots -> Stages] /\ call' \in [Snapshots -> CallType]
        /\ snapshot' \in [Snapshots -> SnapshotType]
    BY <1>1, ReturnTyped, NoRecordsTyped, EvaluationsAssumption DEF EvaluateNobody
  <2> QED BY <1>1, <2>1 DEF EvaluateNobody, TypeOK
<1>2. CASE EvaluateLocally(s)
  <2>1. PICK a \in Arguments[s], answer \in Answers :
          call' = [call EXCEPT ![s] =
            [id |-> a.id, groups |-> a.groups, keys |-> a.keys, only |-> a.only, attempt |-> 1,
             local |-> Records(Requested(answer, a.keys), "local"), remote |-> NoAnswer]]
    BY <1>2 DEF EvaluateLocally
  <2> DEFINE local == Records(Requested(answer, a.keys), "local")
  <2>2. local \in RecordsType
    BY RecordsTyped
  <2>5. a \in [id : Ids, groups : Groups, keys : Filters \union {NoFilter}, only : BOOLEAN]
    BY EvaluationsAssumption
  <2> HIDE DEF local
  <2>3. [id |-> a.id, groups |-> a.groups, keys |-> a.keys, only |-> a.only, attempt |-> 1,
         local |-> local, remote |-> NoAnswer] \in CallType
    BY <2>2, <2>5, NoRecordsTyped, EvaluationsAssumption DEF CallType, NoAnswer
  <2>4. call' \in [Snapshots -> CallType]
    BY <2>1, <2>3 DEF TypeOK, local
  <2> QED BY <1>2, <2>4 DEF EvaluateLocally, TypeOK, Stages
<1>3. CASE SkipRemote(s)
  <2>1. /\ stage' \in [Snapshots -> Stages] /\ call' \in [Snapshots -> CallType]
        /\ snapshot' \in [Snapshots -> SnapshotType]
    BY <1>0, <1>3, ReturnTyped DEF SkipRemote, CallType
  <2> QED BY <1>3, <2>1 DEF SkipRemote, TypeOK
<1>4. CASE AskRemote(s)
  BY <1>4 DEF AskRemote, TypeOK, Stages
<1>5. CASE Retry(s)
  <2>1. call[s].attempt \in 0..(MaxRetries + 1) /\ call[s].attempt <= MaxRetries
    BY <1>0, <1>5 DEF Retry, MayRetry, CallType
  <2>2. call[s].attempt + 1 \in 0..(MaxRetries + 1)
    BY <2>1, EvaluationsAssumption
  <2>3. \A n \in 0..(MaxRetries + 1) : [call[s] EXCEPT !.attempt = n] \in CallType
    BY <1>0 DEF CallType
  <2>4. call' = [call EXCEPT ![s] = [call[s] EXCEPT !.attempt = call[s].attempt + 1]]
    BY <1>5 DEF Retry
  <2>5. call' \in [Snapshots -> CallType]
    BY <2>2, <2>3, <2>4 DEF TypeOK
  <2> QED BY <1>5, <2>5 DEF Retry, TypeOK
<1>6. CASE RemoteAnswers(s)
  <2>1. PICK answer \in Answers, errors \in BOOLEAN :
          Heard(s, Answered(Records(answer, "remote"), errors))
    BY <1>6 DEF RemoteAnswers
  <2>2. Records(answer, "remote") \in RecordsType
    BY RecordsTyped
  <2>3. [call[s] EXCEPT !.remote = Answered(Records(answer, "remote"), errors)] \in CallType
    BY <1>0, <2>2 DEF CallType, Answered
  <2>4. call' \in [Snapshots -> CallType] /\ stage' \in [Snapshots -> Stages]
    BY <2>1, <2>3 DEF Heard, TypeOK, Stages
  <2> QED BY <1>6, <2>4 DEF RemoteAnswers, TypeOK
<1>7. CASE RemoteFails(s)
  <2>1. [call[s] EXCEPT !.remote = Failed] \in CallType
    <3>1. Failed \in [is : {"none", "failed", "answered"}, records : RecordsType, errors : BOOLEAN]
      BY NoRecordsTyped DEF Failed
    <3> QED BY <1>0, <3>1 DEF CallType
  <2>2. call' \in [Snapshots -> CallType] /\ stage' \in [Snapshots -> Stages]
    BY <1>7, <2>1 DEF RemoteFails, Heard, TypeOK, Stages
  <2>3. reports' \in [Snapshots -> Nat]
    BY <1>7 DEF RemoteFails, TypeOK
  <2> QED BY <1>7, <2>2, <2>3 DEF RemoteFails, TypeOK
<1>8. CASE Finish(s)
  <2>1. CASE call[s].remote = Failed /\ DOMAIN call[s].local = {}
    BY <1>8, <2>1, NoCallTyped DEF Finish, TypeOK, Stages
  <2>2. CASE call[s].remote = Failed /\ DOMAIN call[s].local # {}
    <3>1. Return(s, call[s].id, call[s].groups, call[s].local, TRUE)
      BY <1>8, <2>2 DEF Finish
    <3>2. /\ stage' \in [Snapshots -> Stages] /\ call' \in [Snapshots -> CallType]
          /\ snapshot' \in [Snapshots -> SnapshotType]
      BY <1>0, <3>1, ReturnTyped DEF CallType
    <3> QED BY <1>8, <3>2 DEF Finish, TypeOK
  <2>3. CASE call[s].remote # Failed
    <3> DEFINE merged == Merge(call[s].local, call[s].remote.records)
    <3>1. merged \in RecordsType
      BY <1>0, MergeTyped DEF CallType
    <3>2. Return(s, call[s].id, call[s].groups, merged, call[s].remote.errors)
      BY <1>8, <2>3 DEF Finish
    <3> HIDE DEF merged
    <3>3. /\ stage' \in [Snapshots -> Stages] /\ call' \in [Snapshots -> CallType]
          /\ snapshot' \in [Snapshots -> SnapshotType]
      BY <1>0, <3>1, <3>2, ReturnTyped DEF CallType
    <3> QED BY <1>8, <3>3 DEF Finish, TypeOK
  <2> QED BY <2>1, <2>2, <2>3
<1> QED BY <1>1, <1>2, <1>3, <1>4, <1>5, <1>6, <1>7, <1>8 DEF Evaluating

LEMMA CloningTyped ==
  ASSUME TypeOK, NEW t \in Snapshots, Cloning(t)
  PROVE  TypeOK'
<1> USE DEF readVars, cacheVars
<1>1. CASE \E s \in Snapshots : OnlyAccessed(s, t) \/ Only(s, t)
  <2>1. PICK s \in Snapshots, keys \in SUBSET Keys, how \in {"only", "only_accessed"} : Choose(s, t, keys, how)
    <3>1. PICK s \in Snapshots : OnlyAccessed(s, t) \/ Only(s, t)
      BY <1>1
    <3>2. CASE OnlyAccessed(s, t)
      <4>1. Choose(s, t, accessed[s], "only_accessed") /\ accessed[s] \in SUBSET Keys
        BY <3>2 DEF OnlyAccessed, TypeOK
      <4> QED BY <4>1
    <3>3. CASE Only(s, t)
      <4>1. PICK keys \in SUBSET Keys : Choose(s, t, keys, "only")
        BY <3>3 DEF Only
      <4> QED BY <4>1
    <3> QED BY <3>1, <3>2, <3>3
  <2> DEFINE kept == [k \in keys \intersect DOMAIN snapshot[s].records |-> snapshot[s].records[k]]
  <2>2. snapshot[s] \in SnapshotType
    BY DEF TypeOK
  <2>3. kept \in RecordsType
    BY <2>2, SomeRecordsTyped DEF SnapshotType
  <2>4. snapshot' = [snapshot EXCEPT ![t] =
                      [snapshot[s] EXCEPT !.of = how, !.from = s, !.records = kept]]
    BY <2>1 DEF Choose
  <2> HIDE DEF kept
  <2>5. [snapshot[s] EXCEPT !.of = how, !.from = s, !.records = kept] \in SnapshotType
    BY <2>2, <2>3 DEF SnapshotType
  <2>6. snapshot' \in [Snapshots -> SnapshotType]
    BY <2>4, <2>5 DEF TypeOK
  <2> QED BY <2>1, <2>6 DEF Choose, TypeOK, Stages
<1>2. CASE CloneWith(t)
  <2>1. snapshot[t].from \in Snapshots
    BY DEF TypeOK, SnapshotType
  <2> QED BY <1>2, <2>1 DEF CloneWith, TypeOK, Stages
<1> QED BY <1>1, <1>2 DEF Cloning

\* A reader at work has a combination of its own.
LEMMA ReaderTyped ==
  ASSUME TypeOK, NEW r \in Readers, reader[r] # Idle
  PROVE  /\ reader[r] \in [at : {"check", "enqueue"}, combo : Combos]
         /\ reader[r].combo \in Combos /\ reader[r].combo[1] \in Ids
  BY DEF TypeOK, Combos

LEMMA AtWork ==
  ASSUME NEW r \in Readers, reader[r].at \in {"check", "enqueue"}
  PROVE  reader[r] # Idle
  BY DEF Idle

LEMMA InsertTyped ==
  ASSUME NEW ids \in [Ids -> SUBSET {DedupKey(c) : c \in Combos}], NEW c \in Combos
  PROVE  Insert(ids, c) \in [Ids -> SUBSET {DedupKey(d) : d \in Combos}]
  BY DEF Insert

LEMMA ReadingTyped ==
  ASSUME TypeOK, NEW r \in Readers, Reading(r)
  PROVE  TypeOK'
<1> USE DEF callVars, cacheVars
<1>1. CASE \E s \in Snapshots, key \in Keys : BeginRead(r, s, key)
  <2>1. PICK s \in Snapshots, key \in Keys : BeginRead(r, s, key)
    BY <1>1
  <2>2. CASE snapshot[s].id = NoId
    BY <2>1, <2>2, EvaluationsAssumption DEF BeginRead, TypeOK
  <2>3. CASE snapshot[s].id # NoId
    <3>1. [at |-> "check", combo |-> Combo(s, key)]
            \in [at : {"check", "enqueue"}, combo : Combos]
      BY <2>3, ComboTyped
    <3>2. reader' = [reader EXCEPT ![r] = [at |-> "check", combo |-> Combo(s, key)]]
      BY <2>1, <2>3 DEF BeginRead
    <3>3. reader' \in [Readers -> {Idle} \union [at : {"check", "enqueue"}, combo : Combos]]
      BY <3>1, <3>2 DEF TypeOK
    <3> QED BY <2>1, <3>3, EvaluationsAssumption DEF BeginRead, TypeOK
  <2> QED BY <2>2, <2>3
<1>2. CASE AlreadyReported(r)
  BY <1>2 DEF AlreadyReported, TypeOK
<1>3. CASE Remember(r)
  <2>1. reader[r] \in [at : {"check", "enqueue"}, combo : Combos]
    BY <1>3, AtWork, ReaderTyped DEF Remember
  <2>2. [i \in Ids |-> {}] \in [Ids -> SUBSET {DedupKey(c) : c \in Combos}]
    OBVIOUS
  <2>3. cache' \in [Ids -> SUBSET {DedupKey(c) : c \in Combos}] /\ evictions' \in Nat
    BY <1>3, <2>1, <2>2, InsertTyped DEF Remember, TypeOK
  <2>4. reader' \in [Readers -> {Idle} \union [at : {"check", "enqueue"}, combo : Combos]]
    BY <1>3, <2>1 DEF Remember, TypeOK
  <2> QED BY <1>3, <2>3, <2>4 DEF Remember, TypeOK
<1>4. CASE Enqueue(r)
  <2>1. reader[r].combo \in Combos
    BY <1>4, AtWork, ReaderTyped DEF Enqueue
  <2>2. shipped' \in [Combos -> Nat]
    BY <1>4, <2>1 DEF Enqueue, TypeOK
  <2>3. reader' \in [Readers -> {Idle} \union [at : {"check", "enqueue"}, combo : Combos]]
    BY <1>4 DEF Enqueue, TypeOK
  <2> QED BY <1>4, <2>2, <2>3 DEF Enqueue, TypeOK
<1> QED BY <1>1, <1>2, <1>3, <1>4 DEF Reading

LEMMA StepTyped == TypeOK /\ [Next]_vars => TypeOK'
<1> SUFFICES ASSUME TypeOK, [Next]_vars PROVE TypeOK'
  OBVIOUS
<1>1. CASE UNCHANGED vars
  BY <1>1 DEF TypeOK, vars, callVars, readVars, cacheVars
<1>2. CASE Quiet
  BY <1>1, <1>2 DEF Quiet
<1> QED BY <1>1, <1>2, EvaluatingTyped, CloningTyped, ReadingTyped DEF Next

\* Every variable keeps its type: in particular a call makes at most MaxRetries + 1
\* requests, and every event that reading emits is about a known user, flag and value.
THEOREM EvaluationsTyped == Spec => []TypeOK
  BY InitTyped, StepTyped, PTL DEF Spec
-----------------------------------------------------------------------------
\* Inserting adds at most the reader's own id to the cached ones.
LEMMA InsertAddsOne ==
  ASSUME NEW ids \in [Ids -> SUBSET {DedupKey(c) : c \in Combos}], NEW c \in Combos
  PROVE  /\ Cached(Insert(ids, c)) \subseteq Cached(ids) \union {c[1]}
         /\ Cardinality(Cached(Insert(ids, c))) <= Cardinality(Cached(ids)) + 1
         /\ Cardinality(Cached(ids)) \in Nat
<1>1. Cached(Insert(ids, c)) \subseteq Cached(ids) \union {c[1]}
  BY DEF Cached, Insert
<1>2. IsFiniteSet(Cached(ids))
  BY EvaluationsAssumption, FS_Subset DEF Cached
<1>3. /\ IsFiniteSet(Cached(ids) \union {c[1]}) /\ Cardinality(Cached(ids)) \in Nat
      /\ Cardinality(Cached(ids) \union {c[1]}) \in Nat
      /\ Cardinality(Cached(ids) \union {c[1]}) <= Cardinality(Cached(ids)) + 1
  BY <1>2, FS_AddElement, FS_CardinalityType
<1>4. Cardinality(Cached(Insert(ids, c))) <= Cardinality(Cached(ids) \union {c[1]})
  BY <1>1, <1>3, FS_Subset
<1>5. Cardinality(Cached(Insert(ids, c))) \in Nat
  BY <1>1, <1>3, FS_Subset, FS_CardinalityType
<1> QED BY <1>1, <1>3, <1>4, <1>5

LEMMA StepBounded == TypeOK /\ CacheBounded /\ [Next]_vars => CacheBounded'
<1> SUFFICES ASSUME TypeOK, CacheBounded, [Next]_vars PROVE CacheBounded'
  OBVIOUS
<1>1. CASE \E r \in Readers : Remember(r)
  <2>1. PICK r \in Readers : Remember(r)
    BY <1>1
  <2> DEFINE c == reader[r].combo
             emptied == [i \in Ids |-> {}]
  <2>2. c \in Combos
    BY <2>1, AtWork, ReaderTyped DEF Remember
  <2> HIDE DEF c
  <2>3. CASE Room
    <3>1. cache' = Insert(cache, c)
      BY <2>1, <2>3 DEF Remember, c
    <3>2. /\ Cardinality(Cached(Insert(cache, c))) <= Cardinality(Cached(cache)) + 1
          /\ Cardinality(Cached(cache)) \in Nat
      BY <2>2, InsertAddsOne DEF TypeOK
    <3>3. Cardinality(Cached(cache)) < MaxIds /\ Cardinality(Cached(Insert(cache, c))) <= MaxIds
      <4>1. Cached(Insert(cache, c)) \subseteq Ids
        BY DEF Cached
      <4>2. Cardinality(Cached(Insert(cache, c))) \in Nat
        BY <4>1, EvaluationsAssumption, FS_Subset, FS_CardinalityType
      <4> QED BY <2>3, <3>2, <4>2, EvaluationsAssumption DEF Room
    <3> QED BY <3>1, <3>3 DEF CacheBounded
  <2>4. CASE ~Room
    <3>1. cache' = Insert(emptied, c)
      BY <2>1, <2>4 DEF Remember, c
    <3>2. emptied \in [Ids -> SUBSET {DedupKey(d) : d \in Combos}] /\ Cached(emptied) = {}
      BY DEF Cached
    <3> HIDE DEF emptied
    <3>3. Cardinality(Cached(Insert(emptied, c))) <= 0 + 1
      BY <2>2, <3>2, InsertAddsOne, FS_EmptySet
    <3>4. Cardinality(Cached(Insert(emptied, c))) \in Nat
      <4>1. Cached(Insert(emptied, c)) \subseteq Ids
        BY DEF Cached
      <4> QED BY <4>1, EvaluationsAssumption, FS_Subset, FS_CardinalityType
    <3> QED BY <3>1, <3>3, <3>4, EvaluationsAssumption DEF CacheBounded
  <2> QED BY <2>3, <2>4
<1>2. CASE ~\E r \in Readers : Remember(r)
  <2>1. cache' = cache
    BY <1>2 DEF Next, Evaluating, EvaluateNobody, EvaluateLocally, SkipRemote, AskRemote, Retry,
      RemoteAnswers, RemoteFails, Finish, Cloning, OnlyAccessed, Only, Choose, CloneWith,
      Reading, BeginRead, AlreadyReported, Enqueue, Quiet, vars, cacheVars
  <2> QED BY <2>1 DEF CacheBounded, Cached
<1> QED BY <1>1, <1>2

\* However many users are read, the deduplication cache never holds more than MaxIds of
\* them: already_reported makes room before it inserts.
THEOREM CacheStaysBounded == Spec => []CacheBounded
<1>1. Init => CacheBounded
  <2> SUFFICES ASSUME Init PROVE CacheBounded
    OBVIOUS
  <2>1. Cached(cache) = {}
    BY DEF Init, Cached
  <2> QED BY <2>1, FS_EmptySet, EvaluationsAssumption DEF CacheBounded
<1> QED BY <1>1, StepBounded, EvaluationsTyped, PTL DEF Spec
-----------------------------------------------------------------------------
\* No two combinations of a user print as the same deduplication key.
Unambiguous ==
  \A c, d \in Combos : c[1] = d[1] /\ DedupKey(c) = DedupKey(d) => c = d

\* An event for c was handed over, or is about to be by the reader that claimed it.
Sent(c) ==
  \/ shipped[c] > 0
  \/ \E q \in Readers : reader[q].at = "enqueue" /\ reader[q].combo = c

\* Each key in the cache stands for a combination that was sent.
CacheBacked ==
  \A i \in Ids : \A d \in cache[i] :
    \E c \in Combos : c[1] = i /\ DedupKey(c) = d /\ Sent(c)

\* Once sent, always sent.
LEMMA SentStays ==
  ASSUME TypeOK, [Next]_vars, NEW c \in Combos, Sent(c)
  PROVE  Sent(c)'
<1>1. CASE \E r \in Readers : Reading(r)
  <2>1. PICK r \in Readers : Reading(r)
    BY <1>1
  <2>2. CASE \E s \in Snapshots, key \in Keys : BeginRead(r, s, key)
    BY <2>2 DEF BeginRead, Sent, cacheVars, TypeOK, Idle
  <2>3. CASE AlreadyReported(r)
    BY <2>3 DEF AlreadyReported, Sent, cacheVars, TypeOK
  <2>4. CASE Remember(r)
    BY <2>4 DEF Remember, Sent, TypeOK
  <2>5. CASE Enqueue(r)
    <3>1. reader[r].combo \in Combos
      BY <2>5, AtWork, ReaderTyped DEF Enqueue
    <3>2. CASE reader[r].combo = c
      BY <2>5, <3>1, <3>2 DEF Enqueue, Sent, TypeOK
    <3>3. CASE reader[r].combo # c
      <4>1. shipped'[c] = shipped[c]
        BY <2>5, <3>1, <3>3 DEF Enqueue, TypeOK
      <4>2. \A q \in Readers : reader[q].combo = c => reader'[q] = reader[q]
        BY <2>5, <3>3 DEF Enqueue, TypeOK
      <4> QED BY <4>1, <4>2 DEF Sent
    <3> QED BY <3>2, <3>3
  <2> QED BY <2>1, <2>2, <2>3, <2>4, <2>5 DEF Reading
<1>2. CASE ~\E r \in Readers : Reading(r)
  <2>1. reader' = reader /\ shipped' = shipped
    BY <1>2 DEF Next, Evaluating, EvaluateNobody, EvaluateLocally, SkipRemote, AskRemote, Retry,
      RemoteAnswers, RemoteFails, Finish, Cloning, OnlyAccessed, Only, Choose, CloneWith,
      Quiet, vars, readVars, cacheVars
  <2> QED BY <2>1 DEF Sent
<1> QED BY <1>1, <1>2

LEMMA StepBacked == TypeOK /\ CacheBacked /\ [Next]_vars => CacheBacked'
<1> SUFFICES ASSUME TypeOK, CacheBacked, [Next]_vars,
                    NEW i \in Ids, NEW d \in cache'[i]
             PROVE  \E c \in Combos : c[1] = i /\ DedupKey(c) = d /\ Sent(c)'
  BY DEF CacheBacked
<1>1. CASE d \in cache[i]
  <2>1. PICK c \in Combos : c[1] = i /\ DedupKey(c) = d /\ Sent(c)
    BY <1>1 DEF CacheBacked
  <2> QED BY <2>1, SentStays
<1>2. CASE d \notin cache[i]
  <2>1. PICK r \in Readers : Remember(r)
    BY <1>2 DEF Next, Evaluating, EvaluateNobody, EvaluateLocally, SkipRemote, AskRemote, Retry,
      RemoteAnswers, RemoteFails, Finish, Cloning, OnlyAccessed, Only, Choose, CloneWith,
      Reading, BeginRead, AlreadyReported, Enqueue, Quiet, vars, cacheVars
  <2>2. reader[r] \in [at : {"check", "enqueue"}, combo : Combos]
    BY <2>1, AtWork, ReaderTyped DEF Remember
  <2>0. PICK c \in Combos : c = reader[r].combo
    BY <2>2
  <2>3. c \in Combos /\ c[1] = i /\ DedupKey(c) = d
    BY <1>2, <2>0, <2>1, <2>2 DEF Remember, Insert, TypeOK
  <2>4. Sent(c)'
    BY <2>0, <2>1, <2>2 DEF Remember, Sent, TypeOK
  <2> QED BY <2>3, <2>4
<1> QED BY <1>1, <1>2

LEMMA SkipStep ==
  ASSUME Unambiguous, TypeOK, CacheBacked, [Next]_vars
  PROVE  \A r \in Readers :
           reader[r].at = "check" /\ reader'[r] = Idle =>
             \/ shipped[reader[r].combo] > 0
             \/ \E q \in Readers \ {r} :
                  reader[q].at = "enqueue" /\ reader[q].combo = reader[r].combo
<1> SUFFICES ASSUME NEW r \in Readers, reader[r].at = "check", reader'[r] = Idle
             PROVE  \/ shipped[reader[r].combo] > 0
                    \/ \E q \in Readers \ {r} :
                         reader[q].at = "enqueue" /\ reader[q].combo = reader[r].combo
  OBVIOUS
<1>1. reader[r] # Idle /\ reader[r].combo \in Combos /\ reader[r].combo[1] \in Ids
  BY AtWork, ReaderTyped
<1>2. Reported(reader[r].combo)
  <2>1. PICK q \in Readers : Reading(q)
    BY <1>1 DEF Next, Evaluating, EvaluateNobody, EvaluateLocally, SkipRemote, AskRemote, Retry,
      RemoteAnswers, RemoteFails, Finish, Cloning, OnlyAccessed, Only, Choose, CloneWith,
      Quiet, vars, readVars
  <2>2. CASE \E s \in Snapshots, key \in Keys : BeginRead(q, s, key)
    BY <1>1, <2>2 DEF BeginRead, TypeOK
  <2>3. CASE AlreadyReported(q)
    BY <1>1, <2>3 DEF AlreadyReported, TypeOK
  <2>4. CASE Remember(q)
    <3>1. reader[q] \in [at : {"check", "enqueue"}, combo : Combos]
      BY <2>4, AtWork, ReaderTyped DEF Remember
    <3>2. reader'[q].at = "enqueue"
      BY <2>4, <3>1 DEF Remember, TypeOK
    <3>3. reader'[q] # Idle
      BY <3>2 DEF Idle
    <3> QED BY <1>1, <2>4, <3>3 DEF Remember, TypeOK
  <2>5. CASE Enqueue(q)
    BY <1>1, <2>5 DEF Enqueue, TypeOK
  <2> QED BY <2>1, <2>2, <2>3, <2>4, <2>5 DEF Reading
<1>3. PICK c \in Combos : c[1] = reader[r].combo[1] /\ DedupKey(c) = DedupKey(reader[r].combo) /\ Sent(c)
  BY <1>1, <1>2 DEF Reported, CacheBacked
<1>4. c = reader[r].combo
  BY <1>1, <1>3 DEF Unambiguous
<1> QED BY <1>3, <1>4 DEF Sent

\* If names and values do not collide once concatenated, a read skipped as already reported
\* relies on an event for the same user, flag, value and groups, whatever readers do at the
\* same time and however often the cache is reset.
THEOREM SkipsAreSafe == Unambiguous => (Spec => SkippedIsSent)
<1>1. Init => CacheBacked
  BY DEF Init, CacheBacked
<1>2. Spec => [](TypeOK /\ CacheBacked)
  BY <1>1, StepBacked, EvaluationsTyped, PTL DEF Spec
<1> SUFFICES ASSUME Unambiguous PROVE Spec => SkippedIsSent
  OBVIOUS
<1>3. TypeOK /\ CacheBacked /\ [Next]_vars =>
        [\A r \in Readers :
           reader[r].at = "check" /\ reader'[r] = Idle =>
             \/ shipped[reader[r].combo] > 0
             \/ \E q \in Readers \ {r} :
                  reader[q].at = "enqueue" /\ reader[q].combo = reader[r].combo]_vars
  BY SkipStep
<1> QED BY <1>2, <1>3, PTL DEF Spec, SkippedIsSent
-----------------------------------------------------------------------------
\* Reading leaves the calls and what they made alone.
LEMMA ReadingKeeps ==
  ASSUME NEW r \in Readers, Reading(r)
  PROVE  UNCHANGED <<stage, call, reports, snapshot>>
  BY DEF Reading, BeginRead, AlreadyReported, Remember, Enqueue, callVars

\* What a call that is not over has heard and told: a failure is told when it is heard.
Heeded ==
  \A s \in Snapshots :
    /\ stage[s] \in {"unused", "local", "request"} => reports[s] = 0
    /\ stage[s] = "local" => call[s].remote = NoAnswer
    /\ stage[s] = "answered" =>
         /\ call[s].remote # NoAnswer
         /\ reports[s] = IF call[s].remote = Failed THEN 1 ELSE 0

\* The three things a call can know of /flags are told apart.
LEMMA AnswersDiffer ==
  /\ NoAnswer # Failed
  /\ \A records, errors : Answered(records, errors) \notin {NoAnswer, Failed}
<1>1. NoAnswer.is = "none" /\ Failed.is = "failed"
      /\ \A records, errors : Answered(records, errors).is = "answered"
  BY DEF NoAnswer, Failed, Answered
<1> QED BY <1>1

\* Every step hears before it tells.
LEMMA HeededStep ==
  ASSUME TypeOK, Heeded, [Next]_vars
  PROVE  Heeded'
<1>1. CASE UNCHANGED <<stage, call, reports>>
  BY <1>1 DEF Heeded
<1>2. ASSUME NEW s \in Snapshots, stage'[s] \in {"ready", "failed", "cloning"},
             \A t \in Snapshots \ {s} : /\ stage'[t] = stage[t] /\ call'[t] = call[t]
                                        /\ reports'[t] = reports[t]
      PROVE  Heeded'
  BY <1>2 DEF Heeded
<1>3. ASSUME NEW s \in Snapshots, EvaluateNobody(s) \/ SkipRemote(s) \/ Finish(s) PROVE Heeded'
  <2>1. stage'[s] \in {"ready", "failed"}
    BY <1>3 DEF EvaluateNobody, SkipRemote, Finish, Return, TypeOK
  <2>2. \A t \in Snapshots \ {s} : /\ stage'[t] = stage[t] /\ call'[t] = call[t]
                                   /\ reports'[t] = reports[t]
    BY <1>3 DEF EvaluateNobody, SkipRemote, Finish, Return, TypeOK
  <2> QED BY <1>2, <2>1, <2>2
<1>4. ASSUME NEW s \in Snapshots, EvaluateLocally(s) PROVE Heeded'
  <2>1. stage[s] = "unused" /\ stage' = [stage EXCEPT ![s] = "local"] /\ UNCHANGED reports
    BY <1>4 DEF EvaluateLocally
  <2>2. call'[s].remote = NoAnswer /\ \A t \in Snapshots \ {s} : call'[t] = call[t]
    BY <1>4 DEF EvaluateLocally, TypeOK
  <2> QED BY <2>1, <2>2 DEF Heeded, TypeOK
<1>5. ASSUME NEW s \in Snapshots, AskRemote(s) PROVE Heeded'
  BY <1>5 DEF AskRemote, Heeded, TypeOK
<1>6. ASSUME NEW s \in Snapshots, Retry(s) PROVE Heeded'
  <2>1. stage[s] = "request" /\ UNCHANGED <<stage, reports>>
    BY <1>6 DEF Retry
  <2>2. \A t \in Snapshots \ {s} : call'[t] = call[t]
    BY <1>6 DEF Retry, TypeOK
  <2> QED BY <2>1, <2>2 DEF Heeded
<1>7. ASSUME NEW s \in Snapshots, NEW remote, Heard(s, remote), stage[s] = "request"
      PROVE  /\ stage'[s] = "answered" /\ call'[s].remote = remote
             /\ \A t \in Snapshots \ {s} : stage'[t] = stage[t] /\ call'[t] = call[t]
  <2>1. call[s] \in CallType
    BY DEF TypeOK
  <2>2. [call[s] EXCEPT !.remote = remote].remote = remote
    BY <2>1 DEF CallType
  <2> QED BY <1>7, <2>2 DEF Heard, TypeOK
<1>8. ASSUME NEW s \in Snapshots, RemoteAnswers(s) PROVE Heeded'
  <2>1. stage[s] = "request" /\ UNCHANGED reports
    BY <1>8 DEF RemoteAnswers
  <2>2. PICK answer \in Answers, errors \in BOOLEAN :
          Heard(s, Answered(Records(answer, "remote"), errors))
    BY <1>8 DEF RemoteAnswers
  <2>3. call'[s].remote \notin {NoAnswer, Failed}
    BY <1>7, <2>1, <2>2, AnswersDiffer
  <2> QED BY <1>7, <2>1, <2>2, <2>3 DEF Heeded
<1>9. ASSUME NEW s \in Snapshots, RemoteFails(s) PROVE Heeded'
  <2>1. stage[s] = "request" /\ Heard(s, Failed) /\ reports' = [reports EXCEPT ![s] = @ + 1]
    BY <1>9 DEF RemoteFails
  <2>2. reports'[s] = 1 /\ \A t \in Snapshots \ {s} : reports'[t] = reports[t]
    BY <2>1 DEF Heeded, TypeOK
  <2> QED BY <1>7, <2>1, <2>2, AnswersDiffer DEF Heeded
<1>10. ASSUME NEW t \in Snapshots, Cloning(t) PROVE Heeded'
  <2>1. stage'[t] \in {"cloning", "ready"} /\ UNCHANGED <<call, reports>>
        /\ \A s \in Snapshots \ {t} : stage'[s] = stage[s]
    BY <1>10 DEF Cloning, OnlyAccessed, Only, Choose, CloneWith, TypeOK
  <2> QED BY <1>2, <2>1
<1> QED BY <1>1, <1>3, <1>4, <1>5, <1>6, <1>8, <1>9, <1>10, ReadingKeeps
        DEF Next, Evaluating, Quiet, vars, callVars

\* So it is in every reachable state.
LEMMA CallsHeeded == Spec => [](TypeOK /\ Heeded)
<1>1. Init => Heeded
  BY DEF Init, Heeded
<1> QED BY <1>1, HeededStep, EvaluationsTyped, PTL DEF Spec

\* A call ends only by its own last steps.
LEMMA EndsBy ==
  ASSUME TypeOK, [Next]_vars, NEW s \in Snapshots, Ends(s)
  PROVE  SkipRemote(s) \/ Finish(s)
<1>1. ASSUME NEW t \in Snapshots, Evaluating(t) PROVE SkipRemote(s) \/ Finish(s)
  <2>1. t = s
    BY <1>1 DEF Evaluating, EvaluateNobody, EvaluateLocally, SkipRemote, AskRemote, Retry,
       RemoteAnswers, RemoteFails, Finish, Heard, Return, Ends, TypeOK
  <2>2. ~EvaluateNobody(s) /\ ~EvaluateLocally(s) /\ ~Retry(s) /\ ~RemoteAnswers(s) /\ ~RemoteFails(s)
    BY DEF EvaluateNobody, EvaluateLocally, Retry, RemoteAnswers, RemoteFails, Ends
  <2>3. ~AskRemote(s)
    BY DEF AskRemote, Ends, TypeOK
  <2> QED BY <1>1, <2>1, <2>2, <2>3 DEF Evaluating
<1>2. ASSUME NEW t \in Snapshots, Cloning(t) PROVE FALSE
  <2>1. stage[t] \in {"unused", "cloning"} /\ \A u \in Snapshots \ {t} : stage'[u] = stage[u]
    BY <1>2 DEF Cloning, OnlyAccessed, Only, Choose, CloneWith, TypeOK
  <2> QED BY <2>1 DEF Ends
<1>3. stage' # stage
  BY DEF Ends
<1> QED BY <1>1, <1>2, <1>3, ReadingKeeps DEF Next, Quiet, vars, callVars

\* No flag is lost in a call: each flag asked for that was decided locally is in the result
\* with that value, each that only /flags knew has the remote one, and one is missing only
\* if no request was wanted, or one was made and did not bring it.
THEOREM LocalResultsSurvive == Spec => NothingLost
<1>1. TypeOK /\ Heeded /\ [Next]_vars =>
        [\A s \in Snapshots : Ends(s) =>
           LET c == call[s]
               asked == IF c.keys = NoFilter THEN Keys ELSE c.keys
               records == IF stage'[s] = "failed" THEN NoRecords ELSE snapshot'[s].records
           IN  \A k \in asked :
                 IF k \in DOMAIN c.local THEN k \in DOMAIN records /\ records[k] = c.local[k]
                 ELSE IF k \in DOMAIN c.remote.records
                 THEN k \in DOMAIN records /\ records[k] = c.remote.records[k]
                 ELSE k \notin DOMAIN records /\ (c.only \/ c.remote # NoAnswer)]_vars
  <2> SUFFICES ASSUME TypeOK, Heeded, [Next]_vars, NEW s \in Snapshots, Ends(s),
                      NEW k \in IF call[s].keys = NoFilter THEN Keys ELSE call[s].keys
               PROVE  LET c == call[s]
                          records == IF stage'[s] = "failed" THEN NoRecords ELSE snapshot'[s].records
                      IN  IF k \in DOMAIN c.local THEN k \in DOMAIN records /\ records[k] = c.local[k]
                          ELSE IF k \in DOMAIN c.remote.records
                          THEN k \in DOMAIN records /\ records[k] = c.remote.records[k]
                          ELSE k \notin DOMAIN records /\ (c.only \/ c.remote # NoAnswer)
    OBVIOUS
  <2> DEFINE c == call[s]
             records == IF stage'[s] = "failed" THEN NoRecords ELSE snapshot'[s].records
  <2>0. DOMAIN NoAnswer.records = {} /\ DOMAIN Failed.records = {} /\ DOMAIN NoRecords = {}
        /\ Failed # NoAnswer
    BY AnswersDiffer DEF NoAnswer, Failed, NoRecords
  <2>1. ASSUME NEW id, NEW groups, NEW rs, NEW errors, Return(s, id, groups, rs, errors)
        PROVE  records = rs
    BY <2>1 DEF Return, TypeOK
  <2>2. CASE SkipRemote(s)
    <3>1. records = c.local /\ c.remote = NoAnswer /\ (c.only \/ LocalCovers(c.keys, c.local))
      BY <2>1, <2>2 DEF SkipRemote, Heeded
    <3>2. LocalCovers(c.keys, c.local) => k \in DOMAIN c.local
      BY DEF LocalCovers
    <3> QED BY <2>0, <3>1, <3>2
  <2>3. CASE Finish(s)
    <3>0. c.remote # NoAnswer
      BY <2>3 DEF Finish, Heeded
    <3>1. CASE c.remote = Failed /\ DOMAIN c.local = {}
      <4>1. stage'[s] = "failed"
        BY <2>3, <3>1 DEF Finish, TypeOK
      <4> QED BY <2>0, <3>1, <4>1
    <3>2. CASE c.remote = Failed /\ DOMAIN c.local # {}
      <4>1. records = c.local
        BY <2>1, <2>3, <3>2 DEF Finish
      <4> QED BY <2>0, <3>2, <4>1
    <3>3. CASE c.remote # Failed
      <4>1. records = Merge(c.local, c.remote.records)
        BY <2>1, <2>3, <3>3 DEF Finish
      <4>2. /\ DOMAIN records = DOMAIN c.local \union DOMAIN c.remote.records
            /\ \A x \in DOMAIN records :
                 records[x] = IF x \in DOMAIN c.local THEN c.local[x] ELSE c.remote.records[x]
        BY <4>1 DEF Merge
      <4> HIDE DEF records
      <4>3. IF k \in DOMAIN c.local THEN k \in DOMAIN records /\ records[k] = c.local[k]
            ELSE IF k \in DOMAIN c.remote.records
            THEN k \in DOMAIN records /\ records[k] = c.remote.records[k]
            ELSE k \notin DOMAIN records /\ (c.only \/ c.remote # NoAnswer)
        BY <3>0, <4>2
      <4> QED BY <4>3 DEF records
    <3> QED BY <3>1, <3>2, <3>3
  <2> QED BY <2>2, <2>3, EndsBy
<1> QED BY <1>1, CallsHeeded, PTL DEF Spec, NothingLost

\* A failed request is reported to on_error once, whatever the number of attempts, and shows
\* in the result; a call without a failed request reports nothing and returns a snapshot.
THEOREM FailuresAreTold == Spec => FailureShown
<1>1. TypeOK /\ Heeded /\ [Next]_vars =>
        [\A s \in Snapshots : Ends(s) =>
           IF call[s].remote = Failed
           THEN reports'[s] = 1 /\ (stage'[s] = "failed" \/ snapshot'[s].errors)
           ELSE reports'[s] = 0 /\ stage'[s] = "ready"]_vars
  <2> SUFFICES ASSUME TypeOK, Heeded, [Next]_vars, NEW s \in Snapshots, Ends(s)
               PROVE  IF call[s].remote = Failed
                      THEN reports'[s] = 1 /\ (stage'[s] = "failed" \/ snapshot'[s].errors)
                      ELSE reports'[s] = 0 /\ stage'[s] = "ready"
    OBVIOUS
  <2>1. ASSUME NEW id, NEW groups, NEW rs, NEW errors, Return(s, id, groups, rs, errors)
        PROVE  stage'[s] = "ready" /\ snapshot'[s].errors = errors
    BY <2>1 DEF Return, TypeOK
  <2>2. CASE SkipRemote(s)
    <3>1. call[s].remote = NoAnswer /\ reports'[s] = 0 /\ stage'[s] = "ready"
      BY <2>1, <2>2 DEF SkipRemote, Heeded
    <3> QED BY <3>1, AnswersDiffer
  <2>3. CASE Finish(s)
    <3>1. reports'[s] = IF call[s].remote = Failed THEN 1 ELSE 0
      BY <2>3 DEF Finish, Heeded
    <3>2. CASE call[s].remote = Failed /\ DOMAIN call[s].local = {}
      BY <2>3, <3>1, <3>2 DEF Finish, TypeOK
    <3>3. CASE call[s].remote = Failed /\ DOMAIN call[s].local # {}
      <4>1. snapshot'[s].errors = TRUE
        BY <2>1, <2>3, <3>3 DEF Finish
      <4> QED BY <3>1, <3>3, <4>1
    <3>4. CASE call[s].remote # Failed
      <4>1. stage'[s] = "ready"
        BY <2>1, <2>3, <3>4 DEF Finish
      <4> QED BY <3>1, <3>4, <4>1
    <3> QED BY <3>2, <3>3, <3>4
  <2> QED BY <2>2, <2>3, EndsBy
<1> QED BY <1>1, CallsHeeded, PTL DEF Spec, FailureShown

\* A snapshot that is ready stays as it is, and what was read from it stays read.
LEMMA ReadyStays ==
  ASSUME TypeOK, [Next]_vars, NEW s \in Snapshots, stage[s] = "ready"
  PROVE  /\ stage'[s] = "ready" /\ snapshot'[s] = snapshot[s]
         /\ accessed[s] \subseteq accessed'[s]
<1>1. ASSUME NEW t \in Snapshots, Evaluating(t)
      PROVE  /\ stage'[s] = "ready" /\ snapshot'[s] = snapshot[s] /\ UNCHANGED accessed
  <2>1. t # s
    BY <1>1 DEF Evaluating, EvaluateNobody, EvaluateLocally, SkipRemote, AskRemote, Retry,
       RemoteAnswers, RemoteFails, Finish
  <2> QED BY <1>1, <2>1 DEF Evaluating, EvaluateNobody, EvaluateLocally, SkipRemote, AskRemote,
       Retry, RemoteAnswers, RemoteFails, Finish, Heard, Return, readVars, TypeOK
<1>2. ASSUME NEW t \in Snapshots, Cloning(t)
      PROVE  /\ stage'[s] = "ready" /\ snapshot'[s] = snapshot[s] /\ accessed'[s] = accessed[s]
  <2>1. t # s
    BY <1>2 DEF Cloning, OnlyAccessed, Only, Choose, CloneWith
  <2> QED BY <1>2, <2>1 DEF Cloning, OnlyAccessed, Only, Choose, CloneWith, readVars, TypeOK
<1>3. ASSUME NEW r \in Readers, Reading(r) PROVE accessed[s] \subseteq accessed'[s]
  BY <1>3 DEF Reading, BeginRead, AlreadyReported, Remember, Enqueue, TypeOK
<1> QED BY <1>1, <1>2, <1>3, ReadingKeeps DEF Next, Quiet, vars, callVars, readVars

\* What only_accessed chose was accessed in the snapshot it chose from, and then here.
ChosenAccessed ==
  \A t \in Snapshots :
    /\ stage[t] = "cloning" =>
         /\ stage[snapshot[t].from] = "ready"
         /\ snapshot[t].of = "only_accessed" =>
              DOMAIN snapshot[t].records \subseteq accessed[snapshot[t].from]
    /\ stage[t] = "ready" /\ snapshot[t].of = "only_accessed" =>
         DOMAIN snapshot[t].records \subseteq accessed[t]

\* Every step keeps to that, whatever other threads read between the two looks.
LEMMA ChosenStep ==
  ASSUME TypeOK, ChosenAccessed, [Next]_vars
  PROVE  ChosenAccessed'
<1>0. \A t \in Snapshots : snapshot[t].from \in Snapshots
  BY DEF TypeOK, SnapshotType
<1>1. ASSUME NEW t \in Snapshots, stage'[t] = stage[t], snapshot'[t] = snapshot[t]
      PROVE  /\ stage'[t] = "cloning" =>
                  /\ stage'[snapshot'[t].from] = "ready"
                  /\ snapshot'[t].of = "only_accessed" =>
                       DOMAIN snapshot'[t].records \subseteq accessed'[snapshot'[t].from]
             /\ stage'[t] = "ready" /\ snapshot'[t].of = "only_accessed" =>
                  DOMAIN snapshot'[t].records \subseteq accessed'[t]
  BY <1>0, <1>1, ReadyStays DEF ChosenAccessed
<1>2. ASSUME NEW s \in Snapshots, Evaluating(s) PROVE ChosenAccessed'
  <2>1. \A t \in Snapshots \ {s} : stage'[t] = stage[t] /\ snapshot'[t] = snapshot[t]
    BY <1>2 DEF Evaluating, EvaluateNobody, EvaluateLocally, SkipRemote, AskRemote, Retry,
       RemoteAnswers, RemoteFails, Finish, Heard, Return, TypeOK
  <2>2. \/ stage'[s] \notin {"cloning", "ready"}
        \/ stage'[s] = "ready" /\ snapshot'[s].of = "call"
    <3>1. ASSUME NEW id, NEW groups, NEW rs, NEW errors, Return(s, id, groups, rs, errors)
          PROVE  stage'[s] = "ready" /\ snapshot'[s].of = "call"
      BY <3>1 DEF Return, TypeOK
    <3>2. EvaluateNobody(s) \/ SkipRemote(s) => stage'[s] = "ready" /\ snapshot'[s].of = "call"
      BY <3>1 DEF EvaluateNobody, SkipRemote
    <3>3. Finish(s) => \/ stage'[s] = "failed"
                       \/ stage'[s] = "ready" /\ snapshot'[s].of = "call"
      <4>1. CASE Finish(s) /\ call[s].remote = Failed /\ DOMAIN call[s].local = {}
        BY <4>1 DEF Finish, TypeOK
      <4>2. CASE Finish(s) /\ ~(call[s].remote = Failed /\ DOMAIN call[s].local = {})
        <5>1. \E rs, errors : Return(s, call[s].id, call[s].groups, rs, errors)
          BY <4>2 DEF Finish
        <5> QED BY <3>1, <5>1
      <4> QED BY <4>1, <4>2
    <3>4. EvaluateLocally(s) \/ AskRemote(s) \/ Retry(s) \/ RemoteAnswers(s) \/ RemoteFails(s) =>
            stage'[s] \notin {"cloning", "ready"}
      BY DEF EvaluateLocally, AskRemote, Retry, RemoteAnswers, RemoteFails, Heard, TypeOK
    <3> QED BY <1>2, <3>2, <3>3, <3>4 DEF Evaluating
  <2> QED BY <1>1, <2>1, <2>2 DEF ChosenAccessed
<1>3. ASSUME NEW t \in Snapshots, NEW s \in Snapshots, OnlyAccessed(s, t) \/ Only(s, t)
      PROVE  ChosenAccessed'
  <2>1. PICK keys, how : Choose(s, t, keys, how) /\ (how = "only_accessed" => keys = accessed[s])
    BY <1>3 DEF OnlyAccessed, Only
  <2>2. stage[s] = "ready" /\ stage[t] = "unused" /\ UNCHANGED accessed
        /\ \A u \in Snapshots \ {t} : stage'[u] = stage[u] /\ snapshot'[u] = snapshot[u]
    BY <2>1 DEF Choose, readVars, TypeOK
  <2> DEFINE records == [k \in keys \intersect DOMAIN snapshot[s].records |-> snapshot[s].records[k]]
  <2>3. stage'[t] = "cloning"
        /\ snapshot'[t] = [snapshot[s] EXCEPT !.of = how, !.from = s, !.records = records]
    BY <2>1 DEF Choose, TypeOK
  <2>4. DOMAIN records = keys \intersect DOMAIN snapshot[s].records
    OBVIOUS
  <2> HIDE DEF records
  <2>5. snapshot'[t].of = how /\ snapshot'[t].from = s /\ snapshot'[t].records = records
    BY <2>3 DEF TypeOK, SnapshotType
  <2>6. stage'[s] = "ready"
    BY <2>2
  <2> QED BY <1>1, <2>1, <2>2, <2>3, <2>4, <2>5, <2>6 DEF ChosenAccessed
<1>4. ASSUME NEW t \in Snapshots, CloneWith(t) PROVE ChosenAccessed'
  <2>1. /\ stage[t] = "cloning" /\ stage'[t] = "ready" /\ UNCHANGED snapshot
        /\ accessed'[t] = accessed[snapshot[t].from]
        /\ \A u \in Snapshots \ {t} : stage'[u] = stage[u]
    BY <1>4 DEF CloneWith, TypeOK
  <2> QED BY <1>1, <2>1 DEF ChosenAccessed
<1>5. CASE UNCHANGED <<stage, snapshot>>
  BY <1>1, <1>5 DEF ChosenAccessed
<1> QED BY <1>2, <1>3, <1>4, <1>5, ReadingKeeps DEF Next, Cloning, Quiet, vars, callVars

\* What only_accessed returns, it regards as accessed, although other threads read the
\* snapshot it was made from between its two looks at the accessed keys.
THEOREM AccessesAreKept == Spec => []AccessedStays
<1>1. Init => ChosenAccessed
  BY DEF Init, ChosenAccessed
<1>2. ChosenAccessed => AccessedStays
  BY DEF ChosenAccessed, AccessedStays
<1> QED BY <1>1, <1>2, ChosenStep, EvaluationsTyped, PTL DEF Spec

-----------------------------------------------------------------------------
\* The readers about to send the event for c.
Claims(c) == {r \in Readers : reader[r].at = "enqueue" /\ reader[r].combo = c}

\* The events sent for c, or about to be.
Spent(c) == shipped[c] + Cardinality(Claims(c))

\* What a combination has spent: one for each reset, and one more once it is in the cache.
Budgeted ==
  \A c \in Combos :
    /\ IsFiniteSet(Claims(c))
    /\ Spent(c) <= evictions + 1
    /\ DedupKey(c) \notin cache[c[1]] => Spent(c) <= evictions

\* These are numbers.
LEMMA SpentType ==
  ASSUME TypeOK, Budgeted, NEW c \in Combos
  PROVE  shipped[c] \in Nat /\ Cardinality(Claims(c)) \in Nat /\ Spent(c) \in Nat /\ evictions \in Nat
<1>1. shipped[c] \in Nat /\ evictions \in Nat
  BY DEF TypeOK
<1>2. Cardinality(Claims(c)) \in Nat
  BY FS_CardinalityType DEF Budgeted
<1> QED BY <1>1, <1>2 DEF Spent

\* A claim spends what inserting the key, or the reset, allows.
LEMMA RememberBudgeted ==
  ASSUME TypeOK, Budgeted, NEW r \in Readers, Remember(r)
  PROVE  Budgeted'
<1> SUFFICES ASSUME NEW c \in Combos
             PROVE  /\ IsFiniteSet(Claims(c))'
                    /\ Spent(c)' <= evictions' + 1
                    /\ DedupKey(c) \notin cache'[c[1]] => Spent(c)' <= evictions'
  BY DEF Budgeted
<1>1. /\ reader[r] \in [at : {"check", "enqueue"}, combo : Combos] /\ reader[r].at = "check"
      /\ ~Reported(reader[r].combo) /\ shipped' = shipped
  BY AtWork, ReaderTyped DEF Remember
<1>2. PICK d \in Combos : d = reader[r].combo
  BY <1>1
<1>3. /\ reader'[r].at = "enqueue" /\ reader'[r].combo = d
      /\ \A q \in Readers \ {r} : reader'[q] = reader[q]
  BY <1>1, <1>2 DEF Remember, TypeOK
<1>4. Claims(c)' = IF c = d THEN Claims(c) \union {r} ELSE Claims(c)
  BY <1>1, <1>3 DEF Claims
<1>5. r \notin Claims(c)
  BY <1>1 DEF Claims
<1>6. IsFiniteSet(Claims(c))
  BY DEF Budgeted
<1>7. IsFiniteSet(Claims(c))' /\ Cardinality(Claims(c))' = Cardinality(Claims(c)) + (IF c = d THEN 1 ELSE 0)
  <2>1. CASE c = d
    BY <1>4, <1>5, <1>6, <2>1, FS_AddElement
  <2>2. CASE c # d
    <3>1. Cardinality(Claims(c)) \in Nat
      BY <1>6, FS_CardinalityType
    <3> QED BY <1>4, <1>6, <2>2, <3>1
  <2> QED BY <2>1, <2>2
<1>8. Spent(c)' = Spent(c) + (IF c = d THEN 1 ELSE 0)
  BY <1>1, <1>7, SpentType DEF Spent
<1>9. Spent(c) \in Nat /\ evictions \in Nat /\ Spent(c) <= evictions + 1
      /\ (DedupKey(c) \notin cache[c[1]] => Spent(c) <= evictions)
  BY SpentType DEF Budgeted
<1>10. DedupKey(d) \notin cache[d[1]] /\ d[1] \in Ids /\ c[1] \in Ids
  BY <1>1, <1>2 DEF Reported, Combos
<1>11. CASE Room
  <2>1. UNCHANGED evictions /\ cache' = [cache EXCEPT ![d[1]] = @ \union {DedupKey(d)}]
    BY <1>2, <1>11 DEF Remember, Insert
  <2>2. DedupKey(c) \notin cache'[c[1]] => DedupKey(c) \notin cache[c[1]] /\ c # d
    BY <1>10, <2>1 DEF TypeOK
  <2> QED BY <1>7, <1>8, <1>9, <1>10, <2>1, <2>2
<1>12. CASE ~Room
  <2>1. evictions' = evictions + 1
        /\ cache' = [[i \in Ids |-> {}] EXCEPT ![d[1]] = @ \union {DedupKey(d)}]
    BY <1>2, <1>12 DEF Remember, Insert
  <2>2. DedupKey(d) \in cache'[d[1]]
    BY <1>10, <2>1
  <2> QED BY <1>7, <1>8, <1>9, <1>10, <2>1, <2>2
<1> QED BY <1>11, <1>12

\* Sending turns a claim into an event.
LEMMA EnqueueBudgeted ==
  ASSUME TypeOK, Budgeted, NEW r \in Readers, Enqueue(r)
  PROVE  Budgeted'
<1> SUFFICES ASSUME NEW c \in Combos
             PROVE  IsFiniteSet(Claims(c))' /\ Spent(c)' = Spent(c)
  BY DEF Budgeted, Enqueue
<1>1. /\ reader[r].at = "enqueue" /\ UNCHANGED <<cache, evictions>>
      /\ shipped' = [shipped EXCEPT ![reader[r].combo] = @ + 1]
  BY DEF Enqueue
<1>2. PICK d \in Combos : d = reader[r].combo
  BY <1>1, AtWork, ReaderTyped
<1>3. /\ reader'[r].at # "enqueue" /\ \A q \in Readers \ {r} : reader'[q] = reader[q]
  BY DEF Enqueue, TypeOK, Idle
<1>4. Claims(c)' = IF c = d THEN Claims(c) \ {r} ELSE Claims(c)
  BY <1>2, <1>3 DEF Claims
<1>5. IsFiniteSet(Claims(c)) /\ shipped[c] \in Nat /\ Cardinality(Claims(c)) \in Nat
  BY SpentType DEF Budgeted
<1>6. CASE c = d
  <2>1. r \in Claims(c)
    BY <1>1, <1>2, <1>6 DEF Claims
  <2>2. IsFiniteSet(Claims(c) \ {r}) /\ Cardinality(Claims(c) \ {r}) = Cardinality(Claims(c)) - 1
    BY <1>5, <2>1, FS_RemoveElement
  <2>3. shipped'[c] = shipped[c] + 1
    BY <1>1, <1>2, <1>6 DEF TypeOK
  <2> QED BY <1>4, <1>5, <1>6, <2>2, <2>3 DEF Spent
<1>7. CASE c # d
  <2>1. shipped'[c] = shipped[c]
    BY <1>1, <1>2, <1>7 DEF TypeOK
  <2> QED BY <1>4, <1>5, <1>7, <2>1 DEF Spent
<1> QED BY <1>6, <1>7

\* No other step spends anything.
LEMMA BudgetStep ==
  ASSUME TypeOK, Budgeted, [Next]_vars
  PROVE  Budgeted'
<1>1. ASSUME UNCHANGED <<cache, evictions, shipped>>, \A c \in Combos : Claims(c)' = Claims(c)
      PROVE  Budgeted'
  BY <1>1 DEF Budgeted, Spent
<1>2. ASSUME NEW r \in Readers, AlreadyReported(r) \/ \E s \in Snapshots, key \in Keys : BeginRead(r, s, key)
      PROVE  Budgeted'
  <2>1. UNCHANGED <<cache, evictions, shipped>>
    BY <1>2 DEF AlreadyReported, BeginRead, cacheVars
  <2>2. /\ reader[r].at # "enqueue" /\ reader'[r].at # "enqueue"
        /\ \A q \in Readers \ {r} : reader'[q] = reader[q]
    BY <1>2 DEF AlreadyReported, BeginRead, TypeOK, Idle
  <2>3. \A c \in Combos : Claims(c)' = Claims(c)
    BY <2>2 DEF Claims
  <2> QED BY <1>1, <2>1, <2>3
<1>3. CASE ~\E r \in Readers : Reading(r)
  <2>1. UNCHANGED <<reader, cacheVars>>
    BY <1>3 DEF Next, Evaluating, EvaluateNobody, EvaluateLocally, SkipRemote, AskRemote, Retry,
      RemoteAnswers, RemoteFails, Finish, Cloning, OnlyAccessed, Only, Choose, CloneWith,
      Quiet, vars, readVars
  <2> QED BY <1>1, <2>1 DEF Claims, cacheVars
<1> QED BY <1>2, <1>3, RememberBudgeted, EnqueueBudgeted DEF Reading

\* A combination is sent at most once for each time the cache was reset, and once more,
\* counting the threads about to send it: two readers never both claim it in between.
THEOREM CombosStayInBudget == Spec => []OncePerReset
<1>1. Init => Budgeted
  <2> SUFFICES ASSUME Init, NEW c \in Combos
               PROVE  IsFiniteSet(Claims(c)) /\ Spent(c) = 0 /\ evictions = 0
    BY DEF Budgeted
  <2>1. Claims(c) = {} /\ shipped[c] = 0 /\ evictions = 0
    BY DEF Init, Claims, Idle
  <2> QED BY <2>1, FS_EmptySet DEF Spent
<1>2. Budgeted => OncePerReset
  BY DEF Budgeted, OncePerReset, Spent, Claims
<1> QED BY <1>1, <1>2, BudgetStep, EvaluationsTyped, PTL DEF Spec
=============================================================================
