----------------------------- MODULE Evaluations -----------------------------
(***************************************************************************)
(* evaluate_flags, the snapshots it returns, and the deduplicated          *)
(* $feature_flag_called events that reading a snapshot emits.              *)
(*                                                                         *)
(* A name, a value or a group context is the sequence of words it is       *)
(* printed as, so that the deduplication key, which concatenates them, is  *)
(* the code's.  What local evaluation concludes and what /flags answers    *)
(* are chosen from `Answers`: partial functions from keys to values.       *)
(***************************************************************************)
EXTENDS Integers, Sequences, FiniteSets

CONSTANTS
  Keys,        \* names of flags
  Answers,     \* what a source may say: values for some of the keys
  Filters,     \* what callers pass as flag_keys
  NoFilter,    \* no flag_keys
  Ids, NoId,   \* distinct ids, and the empty one
  Groups,      \* group contexts in canonical form; <<>> is no groups
  Arguments,   \* Arguments[s]: what the caller that makes s may pass
  Snapshots,   \* the snapshots that may be made
  Readers,     \* threads reading them
  MaxRetries,  \* feature_flags_request_max_retries
  MaxIds,      \* MAX_FLAG_CALLED_CACHE_SIZE
  MaxReads     \* bound on the reads

ASSUME EvaluationsAssumption ==
  /\ Keys \subseteq Seq(STRING) /\ Groups \subseteq Seq(STRING)
  /\ \A a \in Answers : DOMAIN a \subseteq Keys /\ \A k \in DOMAIN a : a[k] \in Seq(STRING)
  /\ NoFilter \notin Filters /\ \A f \in Filters : f \subseteq Keys
  /\ Arguments \in [Snapshots -> SUBSET [id : Ids, groups : Groups,
                                          keys : Filters \union {NoFilter}, only : BOOLEAN]]
  /\ <<>> \in Groups /\ NoId \notin Ids /\ IsFiniteSet(Ids)
  /\ MaxRetries \in Nat /\ MaxReads \in Nat /\ MaxIds \in Nat \ {0}

Null == <<"::null::">>
Values == {Null} \union UNION {{a[k] : k \in DOMAIN a} : a \in Answers}
\* One combination of what the cache is about: user, flag, value, groups.
Combos == Ids \X Keys \X Values \X Groups

VARIABLES
  stage,     \* stage[s]: how far the call that makes s has come
  call,      \* call[s]: its arguments, local records, attempt and remote answer
  reports,   \* reports[s]: the failures it reported to on_error
  snapshot,  \* snapshot[s]: the snapshot, once ready
  accessed,  \* accessed[s]: the keys read from it
  reader,    \* reader[r]: the read in progress
  cache,     \* cache[i]: the deduplication keys seen for i; an entry is never empty
  reads,     \* the reads begun
  evictions, \* how often the cache was reset
  shipped    \* shipped[c]: the events handed to the transport for c

callVars == <<stage, call, reports, snapshot>>
readVars == <<accessed, reader, reads>>
cacheVars == <<cache, evictions, shipped>>
vars == <<callVars, readVars, cacheVars>>

NoRecords == [k \in {} |-> Null]
\* What a call knows of /flags: nothing, that it failed, or what it answered.
NoAnswer == [is |-> "none", records |-> NoRecords, errors |-> FALSE]
Failed == [is |-> "failed", records |-> NoRecords, errors |-> TRUE]
Answered(records, errors) == [is |-> "answered", records |-> records, errors |-> errors]
Unmade(s) == [id |-> NoId, groups |-> <<>>, records |-> NoRecords, errors |-> FALSE,
              of |-> "call", from |-> s]
NoCall == [id |-> NoId, groups |-> <<>>, keys |-> NoFilter, only |-> FALSE,
           local |-> NoRecords, attempt |-> 0, remote |-> NoAnswer]
Idle == [at |-> "idle"]

Init ==
  /\ stage = [s \in Snapshots |-> "unused"]
  /\ call = [s \in Snapshots |-> NoCall]
  /\ reports = [s \in Snapshots |-> 0]
  /\ snapshot = [s \in Snapshots |-> Unmade(s)]
  /\ accessed = [s \in Snapshots |-> {}]
  /\ reader = [r \in Readers |-> Idle]
  /\ cache = [i \in Ids |-> {}]
  /\ reads = 0 /\ evictions = 0
  /\ shipped = [c \in Combos |-> 0]
-----------------------------------------------------------------------------
\* The answer restricted to the keys the caller asked for.
Requested(answer, keys) ==
  [k \in {x \in DOMAIN answer : keys = NoFilter \/ x \in keys} |-> answer[k]]

Records(answer, source) == [k \in DOMAIN answer |-> [value |-> answer[k], source |-> source]]

LocalCoversAny(keys, local) ==  \* mutant: one flag evaluated locally is enough
  keys # NoFilter /\ keys \intersect DOMAIN local # {}
LocalCovers(keys, local) == keys # NoFilter /\ keys \subseteq DOMAIN local

Merge(local, remote) ==
  [k \in DOMAIN local \union DOMAIN remote |->
     IF k \in DOMAIN local THEN local[k] ELSE remote[k]]

\* The call on s is over and returns a snapshot.
Return(s, id, groups, records, errors) ==
  /\ stage' = [stage EXCEPT ![s] = "ready"]
  /\ snapshot' = [snapshot EXCEPT ![s] = [id |-> id, groups |-> groups, records |-> records,
                                           errors |-> errors, of |-> "call", from |-> s]]
  /\ call' = [call EXCEPT ![s] = NoCall]

\* evaluate_flags for nobody, or by a disabled client.
EvaluateNobody(s) ==
  /\ stage[s] = "unused"
  /\ Return(s, NoId, <<>>, NoRecords, FALSE)
  /\ UNCHANGED <<reports, readVars, cacheVars>>

\* evaluate_flags consults the definitions: `answer` has the flags they decide.
EvaluateLocally(s) ==
  /\ stage[s] = "unused"
  /\ \E a \in Arguments[s], answer \in Answers :
       call' = [call EXCEPT ![s] =
         [id |-> a.id, groups |-> a.groups, keys |-> a.keys, only |-> a.only, attempt |-> 1,
          local |-> Records(Requested(answer, a.keys), "local"), remote |-> NoAnswer]]
  /\ stage' = [stage EXCEPT ![s] = "local"]
  /\ UNCHANGED <<reports, snapshot, readVars, cacheVars>>

\* No need of /flags, or no wish for it.
SkipRemote(s) ==
  /\ stage[s] = "local"
  /\ call[s].only \/ LocalCovers(call[s].keys, call[s].local)
  /\ Return(s, call[s].id, call[s].groups, call[s].local, FALSE)
  /\ UNCHANGED <<reports, readVars, cacheVars>>

AskRemote(s) ==
  /\ stage[s] = "local"
  /\ ~call[s].only /\ ~LocalCovers(call[s].keys, call[s].local)
  /\ stage' = [stage EXCEPT ![s] = "request"]
  /\ UNCHANGED <<call, reports, snapshot, readVars, cacheVars>>

\* 502, 504, or a transport error worth a retry, and a retry is left: sleep, send again.
OneMoreRetry(attempt) == attempt <= MaxRetries + 1  \* mutant
MayRetry(attempt) == attempt <= MaxRetries

RetryTells(s) ==  \* mutant: each failed attempt is reported
  /\ stage[s] = "request" /\ MayRetry(call[s].attempt)
  /\ call' = [call EXCEPT ![s].attempt = @ + 1]
  /\ reports' = [reports EXCEPT ![s] = @ + 1]
  /\ UNCHANGED <<stage, snapshot, readVars, cacheVars>>
Retry(s) ==
  /\ stage[s] = "request" /\ MayRetry(call[s].attempt)
  /\ call' = [call EXCEPT ![s].attempt = @ + 1]
  /\ UNCHANGED <<stage, reports, snapshot, readVars, cacheVars>>

Heard(s, remote) ==
  /\ stage' = [stage EXCEPT ![s] = "answered"]
  /\ call' = [call EXCEPT ![s].remote = remote]

\* /flags answers with a body that parses; it may say that it met errors.
RemoteAnswers(s) ==
  /\ stage[s] = "request"
  /\ \E answer \in Answers, errors \in BOOLEAN :
       Heard(s, Answered(Records(answer, "remote"), errors))
  /\ UNCHANGED <<reports, snapshot, readVars, cacheVars>>

\* A failure that is not retried, at any attempt, or one that would be, at the last: a
\* transport error, an HTTP status, or a body that does not parse. It is reported here.
RemoteFails(s) ==
  /\ stage[s] = "request"
  /\ Heard(s, Failed)
  /\ reports' = [reports EXCEPT ![s] = @ + 1]
  /\ UNCHANGED <<snapshot, readVars, cacheVars>>

\* The rest of evaluate_flags after the await.
Finish(s) ==
  /\ stage[s] = "answered"
  /\ LET c == call[s]
     IN  IF c.remote = Failed
         THEN IF DOMAIN c.local = {}
              THEN /\ stage' = [stage EXCEPT ![s] = "failed"]
                   /\ call' = [call EXCEPT ![s] = NoCall]
                   /\ UNCHANGED snapshot
              ELSE Return(s, c.id, c.groups, c.local, TRUE)
         ELSE Return(s, c.id, c.groups, Merge(c.local, c.remote.records), c.remote.errors)
  /\ UNCHANGED <<reports, readVars, cacheVars>>
-----------------------------------------------------------------------------
\* only_accessed and only make `t` from `s`: the flags are chosen first, the accessed keys
\* are copied under a second lock.
Choose(s, t, keys, how) ==
  /\ stage[s] = "ready" /\ stage[t] = "unused"
  /\ snapshot' = [snapshot EXCEPT ![t] =
       [snapshot[s] EXCEPT !.of = how, !.from = s,
          !.records = [k \in keys \intersect DOMAIN snapshot[s].records |->
                        snapshot[s].records[k]]]]
  /\ stage' = [stage EXCEPT ![t] = "cloning"]
  /\ UNCHANGED <<call, reports, readVars, cacheVars>>
OnlyAccessed(s, t) == Choose(s, t, accessed[s], "only_accessed")
Only(s, t) == \E keys \in SUBSET Keys : Choose(s, t, keys, "only")

CloneForgets(t) ==  \* mutant: the clone starts with nothing accessed
  /\ stage[t] = "cloning"
  /\ stage' = [stage EXCEPT ![t] = "ready"]
  /\ UNCHANGED <<call, reports, snapshot, readVars, cacheVars>>
CloneWith(t) ==
  /\ stage[t] = "cloning"
  /\ stage' = [stage EXCEPT ![t] = "ready"]
  /\ accessed' = [accessed EXCEPT ![t] = accessed[snapshot[t].from]]
  /\ UNCHANGED <<call, reports, snapshot, reader, reads, cacheVars>>
-----------------------------------------------------------------------------
\* What a read of `key` answers, printed.
Response(s, key) ==
  IF key \in DOMAIN snapshot[s].records THEN snapshot[s].records[key].value ELSE Null

Combo(s, key) == <<snapshot[s].id, key, Response(s, key), snapshot[s].groups>>

KeyOnly(c) ==  \* mutant: the response is not part of the key
  c[2] \o (IF c[4] = <<>> THEN <<>> ELSE <<"_">> \o c[4])
DedupKey(c) == c[2] \o <<"_">> \o c[3] \o (IF c[4] = <<>> THEN <<>> ELSE <<"_">> \o c[4])

\* is_enabled or get_flag: the access is recorded; a snapshot of nobody stops there.
BeginRead(r, s, key) ==
  /\ stage[s] = "ready" /\ reader[r] = Idle /\ reads < MaxReads
  /\ reads' = reads + 1
  /\ accessed' = [accessed EXCEPT ![s] = @ \union {key}]
  /\ reader' = [reader EXCEPT ![r] =
       IF snapshot[s].id = NoId THEN Idle ELSE [at |-> "check", combo |-> Combo(s, key)]]
  /\ UNCHANGED <<callVars, cacheVars>>

Cached(ids) == {i \in Ids : ids[i] # {}}

\* already_reported: look up, make room, insert, under one lock.
Reported(c) == DedupKey(c) \in cache[c[1]]

Room == Cardinality(Cached(cache)) < MaxIds

AlreadyReported(r) ==
  /\ reader[r].at = "check"
  /\ Reported(reader[r].combo)
  /\ reader' = [reader EXCEPT ![r] = Idle]
  /\ UNCHANGED <<callVars, accessed, reads, cacheVars>>

FirstOnly(ids, c) ==  \* mutant: or_insert, which leaves a set that is there alone
  IF ids[c[1]] = {} THEN [ids EXCEPT ![c[1]] = {DedupKey(c)}] ELSE ids
Insert(ids, c) == [ids EXCEPT ![c[1]] = @ \union {DedupKey(c)}]

Remember(r) ==
  /\ reader[r].at = "check"
  /\ ~Reported(reader[r].combo)
  /\ IF Room THEN cache' = Insert(cache, reader[r].combo) /\ UNCHANGED evictions
     ELSE /\ cache' = Insert([i \in Ids |-> {}], reader[r].combo)
          /\ evictions' = evictions + 1
  /\ reader' = [reader EXCEPT ![r].at = "enqueue"]
  /\ UNCHANGED <<callVars, accessed, reads, shipped>>

\* The event goes to the background transport, which may refuse it.
Enqueue(r) ==
  /\ reader[r].at = "enqueue"
  /\ shipped' = [shipped EXCEPT ![reader[r].combo] = @ + 1]
  /\ reader' = [reader EXCEPT ![r] = Idle]
  /\ UNCHANGED <<callVars, accessed, reads, cache, evictions>>
-----------------------------------------------------------------------------
Evaluating(s) ==
  \/ EvaluateNobody(s) \/ EvaluateLocally(s) \/ SkipRemote(s) \/ AskRemote(s)
  \/ Retry(s) \/ RemoteAnswers(s) \/ RemoteFails(s) \/ Finish(s)
Cloning(t) == (\E s \in Snapshots : OnlyAccessed(s, t) \/ Only(s, t)) \/ CloneWith(t)
Reading(r) ==
  \/ \E s \in Snapshots, key \in Keys : BeginRead(r, s, key)
  \/ AlreadyReported(r) \/ Remember(r) \/ Enqueue(r)

\* Every snapshot is made or has failed, and every read is over.
Quiet ==
  /\ \A s \in Snapshots : stage[s] \in {"ready", "failed"}
  /\ \A r \in Readers : reader[r] = Idle
  /\ reads = MaxReads \/ \A s \in Snapshots : stage[s] = "failed"
  /\ UNCHANGED vars

Next ==
  \/ \E s \in Snapshots : Evaluating(s) \/ Cloning(s)
  \/ \E r \in Readers : Reading(r)
  \/ Quiet

Spec == Init /\ [][Next]_vars
-----------------------------------------------------------------------------
RecordsType == UNION {[K -> [value : Values, source : {"local", "remote"}]] : K \in SUBSET Keys}

Stages == {"unused", "local", "request", "answered", "ready", "failed", "cloning"}

CallType ==
  [id : Ids \union {NoId}, groups : Groups, keys : Filters \union {NoFilter}, only : BOOLEAN,
   attempt : 0..(MaxRetries + 1), local : RecordsType,
   remote : [is : {"none", "failed", "answered"}, records : RecordsType, errors : BOOLEAN]]

SnapshotType ==
  [id : Ids \union {NoId}, groups : Groups, records : RecordsType, errors : BOOLEAN,
   of : {"call", "only", "only_accessed"}, from : Snapshots]

TypeOK ==
  /\ stage \in [Snapshots -> Stages]
  /\ call \in [Snapshots -> CallType]
  /\ reports \in [Snapshots -> Nat]
  /\ snapshot \in [Snapshots -> SnapshotType]
  /\ accessed \in [Snapshots -> SUBSET Keys]
  /\ reader \in [Readers -> {Idle} \union [at : {"check", "enqueue"}, combo : Combos]]
  /\ cache \in [Ids -> SUBSET {DedupKey(c) : c \in Combos}]
  /\ reads \in 0..MaxReads /\ evictions \in Nat
  /\ shipped \in [Combos -> Nat]

Ends(s) == stage[s] \in {"local", "answered"} /\ stage'[s] \in {"ready", "failed"}

\* The call on s ends with `records`: of the flags the caller asked for, each that local
\* evaluation decided has that value, each that only /flags knew has the remote one, and a
\* flag is missing only if the caller wanted no request, or the request was made and did
\* not bring it. Nothing local is lost to an error: a failed call had nothing.
NothingLost ==
  [][\A s \in Snapshots : Ends(s) =>
       LET c == call[s]
           asked == IF c.keys = NoFilter THEN Keys ELSE c.keys
           records == IF stage'[s] = "failed" THEN NoRecords ELSE snapshot'[s].records
       IN  \A k \in asked :
             IF k \in DOMAIN c.local THEN k \in DOMAIN records /\ records[k] = c.local[k]
             ELSE IF k \in DOMAIN c.remote.records
             THEN k \in DOMAIN records /\ records[k] = c.remote.records[k]
             ELSE k \notin DOMAIN records /\ (c.only \/ c.remote # NoAnswer)]_vars

\* A call tells on_error of a failed request once, whatever the number of attempts, and its
\* result shows the failure: an Err, or a snapshot with errors_while_computing. A call whose
\* request did not fail, or that made none, tells nothing and returns a snapshot.
FailureShown ==
  [][\A s \in Snapshots : Ends(s) =>
       IF call[s].remote = Failed
       THEN reports'[s] = 1 /\ (stage'[s] = "failed" \/ snapshot'[s].errors)
       ELSE reports'[s] = 0 /\ stage'[s] = "ready"]_vars

\* What only_accessed returns, it regards as accessed, although other threads read between
\* its two looks at the accessed keys: applied again, it returns the same flags.
AccessedStays ==
  \A t \in Snapshots :
    stage[t] = "ready" /\ snapshot[t].of = "only_accessed" =>
      DOMAIN snapshot[t].records \subseteq accessed[t]

\* A combination is sent at most once for each time the cache was reset, and once more.
OncePerReset ==
  \A c \in Combos :
    shipped[c] + Cardinality({r \in Readers : reader[r].at = "enqueue" /\ reader[r].combo = c})
      <= evictions + 1

\* The cache holds at most MaxIds distinct ids.
CacheBounded == Cardinality(Cached(cache)) <= MaxIds

\* A read that sends no event could rely on one: the same user, flag, value and groups had
\* been sent, or another thread was about to send it.
SkippedIsSent ==
  [][\A r \in Readers :
       reader[r].at = "check" /\ reader'[r] = Idle =>
         \/ shipped[reader[r].combo] > 0
         \/ \E q \in Readers \ {r} :
              reader[q].at = "enqueue" /\ reader[q].combo = reader[r].combo]_vars
=============================================================================
