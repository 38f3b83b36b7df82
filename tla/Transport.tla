------------------------------ MODULE Transport ------------------------------
(***************************************************************************)
(* The background capture transport of the client: producers reserve slots *)
(* of a bounded in-flight counter and send messages over an unbounded      *)
(* channel; one worker thread buffers events, forms batches, attempts      *)
(* them, holds failed batches for retry and runs flushes and the shutdown. *)
(*                                                                         *)
(* An event is named <<c, i>>: the i-th event of capture call c.  Every    *)
(* call and every caller (flush, panic flush, shutdown) is a thread.  Time *)
(* is abstract: a timer runs until it elapses, at any later moment.        *)
(***************************************************************************)
EXTENDS Integers, Sequences, FiniteSets

CONSTANTS
  Calls,            \* capture calls, one thread each
  Size,             \* Size[c]: how many events call c carries
  HistoricalCalls,  \* the calls that are historical batches
  Uuid,             \* Uuid[e]: the event's uuid, which its caller may set
  Flushers,         \* flush() calls
  PanicFlushers,    \* flush_blocking_timeout() calls of the panic hook
  Closers,          \* shutdown() calls, and the client's Drop
  MaxQueueSize, FlushAt, MaxBatchSize, MaxCaptureAttempts,
  Filtered,         \* the events a before_send hook discards
  CaptureV1,        \* the capture-v1 build: a 2xx carries per-event verdicts
  NoOne             \* no caller

Events == UNION {{c} \X (1..Size[c]) : c \in Calls}
Waiters == Flushers \union PanicFlushers \union Closers

ASSUME TransportAssumption ==
  /\ IsFiniteSet(Calls)
  /\ Size \in [Calls -> Nat \ {0}]
  /\ HistoricalCalls \subseteq Calls
  /\ \A c \in Calls \ HistoricalCalls : Size[c] = 1
  /\ DOMAIN Uuid = Events
  /\ Flushers \intersect PanicFlushers = {}
  /\ Closers \intersect (Flushers \union PanicFlushers) = {}
  /\ NoOne \notin Waiters
  /\ {MaxQueueSize, FlushAt, MaxBatchSize, MaxCaptureAttempts} \subseteq Nat
  /\ Filtered \subseteq Events
  /\ CaptureV1 \in BOOLEAN

VARIABLES
  closed,           \* TransportHandle.closed
  len,              \* TransportHandle.len, the in-flight counter
  channel,          \* messages sent and not yet received
  handle,           \* TransportHandle.worker still holds the JoinHandle
  joining,          \* the caller inside join(), holding the worker mutex
  dropped,          \* every Sender is gone: the receiver sees a disconnect
  call,             \* call[c]: where capture call c is
  fitted,           \* fitted[c]: the slots call c has reserved
  wait,             \* wait[w]: where caller w is
  alive,            \* the worker's Receiver exists
  todo,             \* what the worker has left to do for the current wake
  completing,       \* the caller whose Completion the worker holds
  deadline,         \* the drain's deadline, a timer
  buffer,           \* live events, in arrival order
  buffer_since,     \* the flush-interval timer of the buffer
  historical,       \* chunks of historical events
  historical_since, \* the flush-interval timer of the historical chunks
  inflight,         \* the batch being attempted, as a sequence of at most one
  retries,          \* Pipeline.retries
  sweep,            \* batches taken out of retries, not yet looked at
  status,           \* status[e]: where event e is, or what became of it
  reported,         \* reported[e]: on_error failures that counted event e
  owed              \* owed[w]: accepted before flush w began, not attempted since

callVars == <<call, fitted>>
handleVars == <<closed, handle, joining, dropped>>
workerVars == <<alive, todo, completing, deadline>>
storeVars == <<buffer, buffer_since, historical, historical_since>>
batchVars == <<inflight, retries, sweep>>
ledgerVars == <<status, reported, owed>>
vars == <<callVars, handleVars, wait, len, channel, workerVars, storeVars, batchVars,
          ledgerVars>>
-----------------------------------------------------------------------------
Timer == {"off", "running", "elapsed"}

\* An event in one of these states occupies a slot of the bounded queue.
Held == {"reserved", "queued", "buffered", "historical", "inflight", "retrying", "sweeping"}
\* Sent to the worker and not settled.
Accepted == Held \ {"reserved"}
\* "condemned": finalized by a `drop` verdict while the rest of its batch retries;
\* "unreported": condemned, and its batch was abandoned before any report;
\* "lost": destroyed with the channel.
Settled == {"refused", "filtered", "delivered", "rejected", "omitted", "abandoned",
            "unreported", "lost"}
Status == {"new", "condemned"} \union Held \union Settled

Batch == [pending : SUBSET Events, undelivered : SUBSET Events, attempt : Nat \ {0},
          due : BOOLEAN]
CaptureMessage == [kind : {"Capture", "HistoricalBatch"}, events : Seq(Events)]
ControlMessage == [kind : {"Flush", "FlushCaptures", "Shutdown"}, waiter : Waiters]
Control == CaptureMessage \union ControlMessage

Work == {"send_buffer", "drain_historical", "flush_retries", "retry_sweep", "service_buffer",
         "service_historical", "attempt_due", "due_sweep", "signal", "drain_pending", "exit"}

AtLeastOne(n) == IF n = 0 THEN 1 ELSE n
SmallerOf(m, n) == IF m < n THEN m ELSE n
Elements(s) == {s[i] : i \in DOMAIN s}
EventsOf(c) == {c} \X (1..Size[c])
Reserved(c) == [i \in 1..fitted[c] |-> <<c, i>>]
With(s) == {e \in Events : status[e] = s}

\* The events of set S change their status to s.
Mark(st, S, s) == [e \in Events |-> IF e \in S THEN s ELSE st[e]]
Move(S, s) == Mark(status, S, s)
\* An attempt, or a terminal outcome, of the events of S is what a flush waits for.
Discharge(S) == [w \in Waiters |-> owed[w] \ S]
Count(S) == [e \in Events |-> IF e \in S THEN reported[e] + 1 ELSE reported[e]]
\* dec_len: give back n slots, never below zero.
ReleasedTwice(n) == len - 2 * n  \* mutant: released twice, without the clamp
Released(n) == IF len < n THEN 0 ELSE len - n

Init ==
  /\ closed = FALSE /\ len = 0 /\ channel = <<>> /\ joining = NoOne /\ dropped = FALSE
  /\ alive \in BOOLEAN /\ handle = alive  \* the worker thread may fail to spawn
  /\ call = [c \in Calls |-> "start"] /\ fitted = [c \in Calls |-> 0]
  /\ wait = [w \in Waiters |-> "idle"]
  /\ todo = <<>> /\ completing = NoOne /\ deadline = "off"
  /\ buffer = <<>> /\ buffer_since = "off"
  /\ historical = <<>> /\ historical_since = "off"
  /\ inflight = <<>> /\ retries = <<>> /\ sweep = <<>>
  /\ status = [e \in Events |-> "new"] /\ reported = [e \in Events |-> 0]
  /\ owed = [w \in Waiters |-> {}]
-----------------------------------------------------------------------------
(***************************************************************************)
(* Capture calls: enqueue, enqueue_panic and enqueue_historical.           *)
(***************************************************************************)
CheckClosed(c) ==
  /\ call[c] = "start" /\ ~dropped
  /\ call' = [call EXCEPT ![c] = IF closed THEN "done" ELSE "reserving"]
  /\ status' = IF closed THEN Move(EventsOf(c), "refused") ELSE status
  /\ UNCHANGED <<fitted, handleVars, wait, len, channel, workerVars, storeVars, batchVars,
                 reported, owed>>

HasRoomForOneMore == len <= MaxQueueSize  \* mutant: off by one
HasRoom == len < MaxQueueSize

ReserveSlot(c) ==
  /\ call[c] = "reserving" /\ HasRoom
  /\ len' = len + 1
  /\ fitted' = [fitted EXCEPT ![c] = @ + 1]
  /\ call' = [call EXCEPT ![c] = IF fitted[c] + 1 = Size[c] THEN "sending" ELSE @]
  /\ status' = Move({<<c, fitted[c] + 1>>}, "reserved")
  /\ UNCHANGED <<handleVars, wait, channel, workerVars, storeVars, batchVars, reported, owed>>

\* The queue is full: the events without a slot are dropped.
QueueFull(c) ==
  /\ call[c] = "reserving" /\ ~HasRoom
  /\ call' = [call EXCEPT ![c] = IF fitted[c] = 0 THEN "done" ELSE "sending"]
  /\ status' = Move(EventsOf(c) \ Elements(Reserved(c)), "refused")
  /\ UNCHANGED <<fitted, handleVars, wait, len, channel, workerVars, storeVars, batchVars,
                 reported, owed>>

\* With the worker gone the send fails and the slots are given back.
SendReserved(c) ==
  /\ call[c] = "sending"
  /\ call' = [call EXCEPT ![c] = "done"]
  /\ IF alive
     THEN /\ channel' = Append(channel,
                 [kind |-> IF c \in HistoricalCalls THEN "HistoricalBatch" ELSE "Capture",
                  events |-> Reserved(c)])
          /\ status' = Move(Elements(Reserved(c)), "queued")
          /\ UNCHANGED len
     ELSE /\ len' = Released(fitted[c])
          /\ status' = Move(Elements(Reserved(c)), "refused")
          /\ UNCHANGED channel
  /\ UNCHANGED <<fitted, handleVars, wait, workerVars, storeVars, batchVars, reported, owed>>
-----------------------------------------------------------------------------
(***************************************************************************)
(* Callers of flush, the panic hook's flush, and shutdown or Drop.         *)
(***************************************************************************)
SendControl(w, kind) == channel' = Append(channel, [kind |-> kind, waiter |-> w])
Goto(w, place) == wait' = [wait EXCEPT ![w] = place]

BeginFlush(w) ==
  /\ w \in Flushers \union PanicFlushers
  /\ wait[w] = "idle" /\ ~dropped
  /\ IF w \in Flushers /\ closed
     THEN Goto(w, "noop") /\ UNCHANGED owed
     ELSE /\ Goto(w, "sending")
          /\ owed' = [owed EXCEPT ![w] = {e \in Events : status[e] \in Accepted}]
  /\ UNCHANGED <<callVars, handleVars, len, channel, workerVars, storeVars, batchVars,
                 status, reported>>

SendFlush(w) ==
  /\ w \in Flushers \union PanicFlushers
  /\ wait[w] = "sending"
  /\ IF alive
     THEN /\ SendControl(w, IF w \in Flushers THEN "Flush" ELSE "FlushCaptures")
          /\ Goto(w, "waiting")
     ELSE Goto(w, "returned") /\ UNCHANGED channel
  /\ UNCHANGED <<callVars, handleVars, len, workerVars, storeVars, batchVars, ledgerVars>>

\* begin_close: only the caller that sets the flag sends the Shutdown.
BeginClose(w) ==
  /\ w \in Closers
  /\ wait[w] = "idle" /\ ~dropped
  /\ closed' = TRUE
  /\ Goto(w, IF closed THEN "joining" ELSE "sending")
  /\ UNCHANGED <<callVars, handle, joining, dropped, len, channel, workerVars, storeVars,
                 batchVars, ledgerVars>>

SendShutdown(w) ==
  /\ w \in Closers
  /\ wait[w] = "sending"
  /\ IF alive
     THEN SendControl(w, "Shutdown") /\ Goto(w, "waiting")
     ELSE Goto(w, "joining") /\ UNCHANGED channel
  /\ UNCHANGED <<callVars, handleVars, len, workerVars, storeVars, batchVars, ledgerVars>>

\* Where a caller can be given up: begin_close and the send have no await between them.
Cancellable == {"waiting"}

\* The panic hook's recv_timeout runs out, or the future of an async caller is dropped.
GiveUp(w) ==
  /\ wait[w] \in Cancellable
  /\ Goto(w, "gave_up")
  /\ UNCHANGED <<callVars, handleVars, len, channel, workerVars, storeVars, batchVars,
                 ledgerVars>>

\* join: the mutex guard lives as long as the `if let`, so it is held while joining.
GuardNotHeld == TRUE  \* mutant: the guard is released before handle.join()
MutexFree == joining = NoOne

TakeHandle(w) ==
  /\ wait[w] = "joining" /\ MutexFree
  /\ IF handle
     THEN joining' = w /\ UNCHANGED wait
     ELSE Goto(w, "returned") /\ UNCHANGED joining
  /\ handle' = FALSE
  /\ UNCHANGED <<callVars, closed, dropped, len, channel, workerVars, storeVars, batchVars,
                 ledgerVars>>

JoinWorker(w) ==
  /\ joining = w /\ ~alive
  /\ joining' = NoOne
  /\ Goto(w, "returned")
  /\ UNCHANGED <<callVars, closed, handle, dropped, len, channel, workerVars, storeVars,
                 batchVars, ledgerVars>>

\* The handle is dropped without a shutdown; no call can be in progress.
DropHandle ==
  /\ ~dropped /\ ~closed
  /\ \A c \in Calls : call[c] \in {"start", "done"}
  /\ \A w \in Waiters : wait[w] \in {"idle", "returned", "noop", "gave_up"}
  /\ dropped' = TRUE
  /\ UNCHANGED <<callVars, closed, handle, joining, wait, len, channel, workerVars,
                 storeVars, batchVars, ledgerVars>>
-----------------------------------------------------------------------------
(***************************************************************************)
(* The worker: receiving.  Every wake but a shutdown or a disconnect ends  *)
(* by servicing the two interval timers and the due retries.               *)
(***************************************************************************)
ServiceLive == <<"service_buffer", "attempt_due">>  \* mutant: historical interval forgotten
Service == <<"service_buffer", "service_historical", "attempt_due">>
Receiving == alive /\ todo = <<>>

\* The chunks of a historical message, of at most n events each.
Chunks(events, n) ==
  [k \in 1..((Len(events) + n - 1) \div n) |->
     {events[i] : i \in ((k - 1) * n + 1)..SmallerOf(k * n, Len(events))}]

\* Started if it was not running.
Started(timer) == IF timer = "off" THEN "running" ELSE timer

ReceiveCapture ==
  /\ Receiving /\ channel # <<>> /\ Head(channel).kind = "Capture"
  /\ channel' = Tail(channel)
  /\ buffer' = buffer \o Head(channel).events
  /\ buffer_since' = IF buffer = <<>> THEN "running" ELSE buffer_since
  /\ todo' = (IF Len(buffer') >= AtLeastOne(FlushAt) THEN <<"send_buffer">> ELSE <<>>) \o Service
  /\ status' = Move(Elements(Head(channel).events), "buffered")
  /\ UNCHANGED <<callVars, handleVars, wait, len, alive, completing, deadline, historical,
                 historical_since, batchVars, reported, owed>>

ReceiveHistorical ==
  /\ Receiving /\ channel # <<>> /\ Head(channel).kind = "HistoricalBatch"
  /\ channel' = Tail(channel)
  /\ historical' = historical \o Chunks(Head(channel).events, AtLeastOne(MaxBatchSize))
  /\ historical_since' = Started(historical_since)
  /\ todo' = (IF Cardinality(UNION Elements(historical')) >= AtLeastOne(FlushAt)
              THEN <<"drain_historical">> ELSE <<>>) \o Service
  /\ status' = Move(Elements(Head(channel).events), "historical")
  /\ UNCHANGED <<callVars, handleVars, wait, len, alive, completing, deadline, buffer,
                 buffer_since, batchVars, reported, owed>>

FlushFresh == <<"drain_historical", "send_buffer", "signal">>  \* mutant: retries forgotten
FlushWork == <<"flush_retries", "drain_historical", "send_buffer", "signal">>

FlushCapturesWork == <<"send_buffer", "flush_retries", "drain_historical", "signal">>

ShutdownStays ==  \* mutant: the arm does not return
  <<"flush_retries", "drain_historical", "send_buffer", "signal", "drain_pending">>
ShutdownWork ==
  <<"flush_retries", "drain_historical", "send_buffer", "signal", "drain_pending", "exit">>

ReceiveControl ==
  /\ Receiving /\ channel # <<>> /\ Head(channel) \in ControlMessage
  /\ channel' = Tail(channel)
  /\ todo' = CASE Head(channel).kind = "Flush" -> FlushWork \o Service
                [] Head(channel).kind = "FlushCaptures" -> FlushCapturesWork \o Service
                [] Head(channel).kind = "Shutdown" -> ShutdownWork
  /\ completing' = Head(channel).waiter
  /\ deadline' = IF Head(channel).kind = "Shutdown" THEN "running" ELSE deadline
  /\ UNCHANGED <<callVars, handleVars, wait, len, alive, storeVars, batchVars, ledgerVars>>

WakeTimeout ==
  /\ Receiving /\ channel = <<>>
  /\ \/ "elapsed" \in {buffer_since, historical_since}
     \/ \E b \in Elements(retries) : b.due
  /\ todo' = Service
  /\ UNCHANGED <<callVars, handleVars, wait, len, channel, alive, completing, deadline,
                 storeVars, batchVars, ledgerVars>>

WakeDisconnected ==
  /\ Receiving /\ channel = <<>> /\ dropped
  /\ todo' = <<"drain_historical", "send_buffer", "flush_retries", "exit">>
  /\ deadline' = "running"
  /\ UNCHANGED <<callVars, handleVars, wait, len, channel, alive, completing, storeVars,
                 batchVars, ledgerVars>>
-----------------------------------------------------------------------------
(***************************************************************************)
(* The worker: draining the stores and sweeping the retries.  A batch      *)
(* under way (inflight) blocks everything else the worker does.            *)
(***************************************************************************)
Doing(work) == alive /\ todo # <<>> /\ Head(todo) = work /\ inflight = <<>>
NextWork == todo' = Tail(todo)

NoWork ==
  \/ Head(todo) = "send_buffer" /\ buffer = <<>>
  \/ Head(todo) = "drain_historical" /\ historical = <<>>
  \/ Head(todo) \in {"retry_sweep", "due_sweep"} /\ sweep = <<>>

\* A drain loop ran dry; the arms that ran it stop the store's interval timer.
StoppedToo(work, timer) == "off"  \* mutant: draining one store stops both timers
Stopped(work, timer) == IF Head(todo) = work THEN "off" ELSE timer

DrainDone ==
  /\ alive /\ todo # <<>> /\ inflight = <<>> /\ NoWork
  /\ NextWork
  /\ buffer_since' = Stopped("send_buffer", buffer_since)
  /\ historical_since' = Stopped("drain_historical", historical_since)
  /\ UNCHANGED <<callVars, handleVars, wait, len, channel, alive, completing, deadline,
                 buffer, historical, batchVars, ledgerVars>>

\* Settle the events of S, which still hold a slot, without an attempt.
Abandon(S) ==
  /\ len' = Released(Cardinality(S))
  /\ owed' = Discharge(S)

\* send_batch: before_send settles the events it discards; the rest is attempted.
SendBatch(S) ==
  LET kept == S \ Filtered IN
  /\ len' = Released(Cardinality(S \ kept))
  /\ inflight' = IF kept = {} THEN <<>>
                 ELSE <<[pending |-> kept, undelivered |-> {}, attempt |-> 1, due |-> FALSE]>>
  /\ status' = Mark(Move(kept, "inflight"), S \ kept, "filtered")
  /\ owed' = Discharge(S \ kept)

SendBufferChunk ==
  /\ Doing("send_buffer") /\ buffer # <<>> /\ deadline # "elapsed"
  /\ LET take == SmallerOf(Len(buffer), AtLeastOne(MaxBatchSize)) IN
       /\ SendBatch(Elements(SubSeq(buffer, 1, take)))
       /\ buffer' = SubSeq(buffer, take + 1, Len(buffer))
  /\ UNCHANGED <<callVars, handleVars, wait, channel, workerVars, buffer_since, historical,
                 historical_since, retries, sweep, reported>>

DropBuffer ==
  /\ Doing("send_buffer") /\ buffer # <<>> /\ deadline = "elapsed"
  /\ Abandon(Elements(buffer))
  /\ status' = Move(Elements(buffer), "abandoned")
  /\ buffer' = <<>>
  /\ UNCHANGED <<callVars, handleVars, wait, channel, workerVars, buffer_since, historical,
                 historical_since, batchVars, reported>>

SendHistoricalChunk ==
  /\ Doing("drain_historical") /\ historical # <<>> /\ deadline # "elapsed"
  /\ SendBatch(Head(historical))
  /\ historical' = Tail(historical)
  /\ UNCHANGED <<callVars, handleVars, wait, channel, workerVars, buffer, buffer_since,
                 historical_since, retries, sweep, reported>>

DropHistorical ==
  /\ Doing("drain_historical") /\ historical # <<>> /\ deadline = "elapsed"
  /\ Abandon(UNION Elements(historical))
  /\ status' = Move(UNION Elements(historical), "abandoned")
  /\ historical' = <<>>
  /\ UNCHANGED <<callVars, handleVars, wait, channel, workerVars, buffer, buffer_since,
                 historical_since, batchVars, reported>>

\* mem::take(&mut self.retries), in flush_retries and in attempt_due.
CloneRetries(work, next) ==  \* mutant: the batches are not taken out
  /\ Doing(work)
  /\ todo' = <<next>> \o Tail(todo)
  /\ sweep' = retries
  /\ status' = Move(With("retrying"), "sweeping")
  /\ UNCHANGED <<callVars, handleVars, wait, len, channel, alive, completing, deadline,
                 storeVars, inflight, retries, reported, owed>>
TakeRetries(work, next) ==
  /\ Doing(work)
  /\ todo' = <<next>> \o Tail(todo)
  /\ sweep' = retries /\ retries' = <<>>
  /\ status' = Move(With("retrying"), "sweeping")
  /\ UNCHANGED <<callVars, handleVars, wait, len, channel, alive, completing, deadline,
                 storeVars, inflight, reported, owed>>

FlushRetries == TakeRetries("flush_retries", "retry_sweep")
AttemptDue == TakeRetries("attempt_due", "due_sweep")

\* The batch at the front of the sweep gets its next attempt.
AttemptRetry ==
  /\ sweep # <<>>
  /\ \/ Doing("retry_sweep") /\ deadline # "elapsed"
     \/ Doing("due_sweep") /\ Head(sweep).due
  /\ inflight' = <<Head(sweep)>>
  /\ sweep' = Tail(sweep)
  /\ status' = Move(Head(sweep).pending, "inflight")
  /\ UNCHANGED <<callVars, handleVars, wait, len, channel, workerVars, storeVars, retries,
                 reported, owed>>

KeepRetry ==
  /\ Doing("due_sweep") /\ sweep # <<>> /\ ~Head(sweep).due
  /\ retries' = Append(retries, Head(sweep))
  /\ sweep' = Tail(sweep)
  /\ status' = Move(Head(sweep).pending, "retrying")
  /\ UNCHANGED <<callVars, handleVars, wait, len, channel, workerVars, storeVars, inflight,
                 reported, owed>>

\* A batch given up at shutdown takes its unreported `drop` verdicts along.
Forsaken(b) == Mark(Move(b.pending, "abandoned"), b.undelivered, "unreported")

DropRetry ==
  /\ Doing("retry_sweep") /\ sweep # <<>> /\ deadline = "elapsed"
  /\ Abandon(Head(sweep).pending)
  /\ status' = Forsaken(Head(sweep))
  /\ sweep' = Tail(sweep)
  /\ UNCHANGED <<callVars, handleVars, wait, channel, workerVars, storeVars, inflight,
                 retries, reported>>

\* After the match: an elapsed interval flushes its store before anything else is received.
ServiceTimer(work, timer, drain) ==
  /\ Doing(work)
  /\ todo' = (IF timer = "elapsed" THEN <<drain>> ELSE <<>>) \o Tail(todo)
  /\ UNCHANGED <<callVars, handleVars, wait, len, channel, alive, completing, deadline,
                 storeVars, batchVars, ledgerVars>>

ServiceBuffer == ServiceTimer("service_buffer", buffer_since, "send_buffer")
ServiceHistorical == ServiceTimer("service_historical", historical_since, "drain_historical")
-----------------------------------------------------------------------------
(***************************************************************************)
(* The worker: the response to an attempt, v1_capture::after_response and  *)
(* after_transport_error (v0_after_* in the other build) with the arms of  *)
(* Pipeline::attempt.  An on_error hook is taken to be registered.         *)
(***************************************************************************)
\* A 2xx without verdicts (V0) persists the whole batch; "ok" stands for `warning` too.
Verdict == IF CaptureV1 THEN {"ok", "drop", "retry", "absent"} ELSE {"ok"}

\* undelivered_results: final_results is keyed by uuid, so events of the batch that share
\* one are counted together.
OnePerUuid(S) == {CHOOSE e \in S : Uuid[e] = u : u \in {Uuid[e] : e \in S}}

\* Step::Done and Step::Fail: one failure counts all the batch leaves undelivered.
ReportPending(b, st) ==  \* mutant: verdicts of earlier attempts are not counted
  /\ reported' = Count(b.pending)
  /\ status' = Mark(st, b.pending \union b.undelivered, "rejected")
  /\ UNCHANGED retries
Report(b, st) ==
  /\ reported' = Count(b.pending \union OnePerUuid(b.undelivered))
  /\ status' = Mark(st, b.pending \union b.undelivered, "rejected")
  /\ UNCHANGED retries

\* Step::Backoff: hold the batch for another attempt, or give it up on the way out.
BackOffForgotten(b, st) ==  \* mutant: the batch is not pushed back
  /\ status' = Mark(st, b.pending, "retrying")
  /\ UNCHANGED <<retries, reported>>
BackOff(b, st) ==
  /\ IF deadline = "off"
     THEN /\ retries' = Append(retries, [b EXCEPT !.attempt = @ + 1, !.due = FALSE])
          /\ status' = Mark(st, b.pending, "retrying")
     ELSE /\ status' = Mark(Mark(st, b.pending, "abandoned"), b.undelivered, "unreported")
          /\ UNCHANGED retries
  /\ UNCHANGED reported

\* The slots of the events in S, when the drain of a shutdown will not retry them.
GivenUpFree(S) == 0  \* mutant: no dec_len on the shutdown path
GivenUp(S) == IF deadline = "off" THEN 0 ELSE Cardinality(S)

LastAttempt(b) == b.attempt >= MaxCaptureAttempts

\* process_batch_response: what stays pending is what the server asks to retry.  A verdict
\* is for a uuid, and holds for every event of the batch that has it.
Keep(b, verdict) ==
  IF LastAttempt(b) THEN {} ELSE {e \in b.pending : verdict[Uuid[e]] = "retry"}

\* A transport error, a status outside 2xx, an unreadable 2xx body or a failed serialization.
AttemptFails ==
  \E b \in Elements(inflight), retryable \in BOOLEAN :
    /\ IF retryable /\ ~LastAttempt(b)
       THEN BackOff(b, status) /\ len' = Released(GivenUp(b.pending))
       ELSE Report(b, status) /\ len' = Released(Cardinality(b.pending))
    /\ inflight' = <<>>
    /\ owed' = Discharge(b.pending)
    /\ UNCHANGED <<callVars, handleVars, wait, channel, workerVars, storeVars, sweep>>

\* A 2xx: the events the server will not persist are the drops, and on the last attempt
\* the retries; events without a verdict are let go.
Answered(b, verdict) ==
  LET got(v) == {e \in b.pending : verdict[Uuid[e]] = v}
      kept == Keep(b, verdict)
      lost == got("drop") \union (got("retry") \ kept)
      pruned == [b EXCEPT !.pending = kept, !.undelivered = @ \union lost]
      st == Mark(Mark(Move(got("ok"), "delivered"), got("absent"), "omitted"), lost, "condemned")
  IN
  /\ IF kept = {}
     THEN Report(pruned, st) /\ len' = Released(Cardinality(b.pending))
     ELSE BackOff(pruned, st) /\ len' = Released(Cardinality(b.pending \ kept) + GivenUp(kept))
  /\ inflight' = <<>>
  /\ owed' = Discharge(b.pending)
  /\ UNCHANGED <<callVars, handleVars, wait, channel, workerVars, storeVars, sweep>>

Verdicts(b) == [{Uuid[e] : e \in b.pending} -> Verdict]
AttemptSucceeds ==
  \E b \in Elements(inflight) : \E verdict \in Verdicts(b) : Answered(b, verdict)
-----------------------------------------------------------------------------
(***************************************************************************)
(* The worker: completions and exit.                                       *)
(***************************************************************************)
\* A signalled or dropped Completion ends the wait of its caller, if it still waits.
Woken(W) ==
  [w \in Waiters |-> IF w \in W /\ wait[w] = "waiting"
                     THEN IF w \in Closers THEN "joining" ELSE "returned"
                     ELSE wait[w]]

SignalCompletion ==
  /\ Doing("signal")
  /\ NextWork
  /\ wait' = Woken({completing})
  /\ completing' = NoOne
  /\ UNCHANGED <<callVars, handleVars, len, channel, alive, deadline, storeVars, batchVars,
                 ledgerVars>>

\* drain_pending_completions: one try_recv.
DrainPending ==
  /\ Doing("drain_pending") /\ channel # <<>>
  /\ channel' = Tail(channel)
  /\ IF Head(channel) \in ControlMessage
     THEN wait' = Woken({Head(channel).waiter}) /\ UNCHANGED <<len, status, owed>>
     ELSE /\ Abandon(Elements(Head(channel).events))
          /\ status' = Move(Elements(Head(channel).events), "abandoned")
          /\ UNCHANGED wait
  /\ UNCHANGED <<callVars, handleVars, workerVars, storeVars, batchVars, reported>>

DrainedPending ==
  /\ Doing("drain_pending") /\ channel = <<>>
  /\ NextWork
  /\ UNCHANGED <<callVars, handleVars, wait, len, channel, alive, completing, deadline,
                 storeVars, batchVars, ledgerVars>>

\* run_worker returns: what raced into the channel is destroyed with the receiver.
WorkerExits ==
  LET controls == {m \in Elements(channel) : m \in ControlMessage}
      captures == Elements(channel) \ controls
      destroyed == UNION {Elements(m.events) : m \in captures}
  IN
  /\ Doing("exit")
  /\ alive' = FALSE /\ todo' = <<>> /\ channel' = <<>>
  /\ wait' = Woken({m.waiter : m \in controls})
  /\ status' = Move(destroyed, "lost")
  /\ owed' = Discharge(destroyed)
  /\ UNCHANGED <<callVars, handleVars, len, completing, deadline, storeVars, batchVars,
                 reported>>
-----------------------------------------------------------------------------
(***************************************************************************)
(* Time.  A timer that runs elapses at some later moment.                  *)
(***************************************************************************)
BufferElapses ==
  /\ alive /\ buffer_since = "running" /\ buffer_since' = "elapsed"
  /\ UNCHANGED <<callVars, handleVars, wait, len, channel, workerVars, buffer, historical,
                 historical_since, batchVars, ledgerVars>>

HistoricalElapses ==
  /\ alive /\ historical_since = "running" /\ historical_since' = "elapsed"
  /\ UNCHANGED <<callVars, handleVars, wait, len, channel, workerVars, buffer, historical,
                 buffer_since, batchVars, ledgerVars>>

RetryElapses(i) ==
  /\ alive /\ ~retries[i].due /\ retries' = [retries EXCEPT ![i].due = TRUE]
  /\ UNCHANGED <<callVars, handleVars, wait, len, channel, workerVars, storeVars, inflight,
                 sweep, ledgerVars>>

DeadlineElapses ==
  /\ alive /\ deadline = "running" /\ deadline' = "elapsed"
  /\ UNCHANGED <<callVars, handleVars, wait, len, channel, alive, todo, completing,
                 storeVars, batchVars, ledgerVars>>
-----------------------------------------------------------------------------
CallStep(c) == CheckClosed(c) \/ ReserveSlot(c) \/ QueueFull(c) \/ SendReserved(c)
WaiterStep(w) ==
  \/ BeginFlush(w) \/ SendFlush(w) \/ BeginClose(w) \/ SendShutdown(w)
  \/ TakeHandle(w) \/ JoinWorker(w)
Receive == ReceiveCapture \/ ReceiveHistorical \/ ReceiveControl \/ WakeTimeout
           \/ WakeDisconnected
Drain == DrainDone \/ SendBufferChunk \/ DropBuffer \/ SendHistoricalChunk \/ DropHistorical
         \/ FlushRetries \/ AttemptDue \/ AttemptRetry \/ KeepRetry \/ DropRetry
         \/ ServiceBuffer \/ ServiceHistorical
Respond == AttemptFails \/ AttemptSucceeds
Finish == SignalCompletion \/ DrainPending \/ DrainedPending \/ WorkerExits
WorkerStep == Receive \/ Drain \/ Respond \/ Finish
TimeStep == BufferElapses \/ HistoricalElapses \/ DeadlineElapses
            \/ \E i \in DOMAIN retries : RetryElapses(i)

\* Everyone is done: the worker waits in recv with nothing to time, or has exited.
Quiet ==
  /\ \A c \in Calls : call[c] = "done" \/ (dropped /\ call[c] = "start")
  /\ \A w \in Waiters : \/ wait[w] \in {"returned", "noop", "gave_up"}
                        \/ dropped /\ wait[w] = "idle"
  /\ ~alive \/ (todo = <<>> /\ channel = <<>> /\ buffer = <<>> /\ historical = <<>>
                /\ retries = <<>>)
  /\ UNCHANGED vars

Next ==
  \/ \E c \in Calls : CallStep(c)
  \/ \E w \in Waiters : WaiterStep(w) \/ GiveUp(w)
  \/ DropHandle
  \/ WorkerStep
  \/ TimeStep
  \/ Quiet

Spec == Init /\ [][Next]_vars
-----------------------------------------------------------------------------
(***************************************************************************)
(* Properties.                                                             *)
(***************************************************************************)
CallsTyped ==
  /\ call \in [Calls -> {"start", "reserving", "sending", "done"}]
  /\ fitted \in [Calls -> Nat]
  /\ \A c \in Calls : /\ fitted[c] <= Size[c]
                      /\ call[c] \in {"start", "reserving"} => fitted[c] < Size[c]
HandleTyped ==
  /\ closed \in BOOLEAN /\ handle \in BOOLEAN /\ dropped \in BOOLEAN
  /\ joining \in Waiters \union {NoOne}
WaitTyped ==
  wait \in [Waiters -> {"idle", "sending", "waiting", "joining", "returned", "noop", "gave_up"}]
WorkerTyped ==
  /\ alive \in BOOLEAN /\ todo \in Seq(Work) /\ completing \in Waiters \union {NoOne}
  /\ deadline \in Timer
StoresTyped ==
  /\ buffer \in Seq(Events) /\ historical \in Seq(SUBSET Events)
  /\ buffer_since \in Timer /\ historical_since \in Timer
BatchesTyped == inflight \in Seq(Batch) /\ retries \in Seq(Batch) /\ sweep \in Seq(Batch)
LedgerTyped ==
  /\ status \in [Events -> Status] /\ reported \in [Events -> Nat]
  /\ owed \in [Waiters -> SUBSET Events]

\* Every variable has its type, and a call reserves no more slots than it has events.
TypeOK ==
  /\ len \in Nat /\ channel \in Seq(Control)
  /\ CallsTyped /\ HandleTyped /\ WaitTyped /\ WorkerTyped
  /\ StoresTyped /\ BatchesTyped /\ LedgerTyped

\* The events that occupy a slot: accepted or being accepted and not settled, and those
\* the exiting worker destroyed with its channel.
SlotHolders == {e \in Events : status[e] \in Held \union {"lost"}}

\* The in-flight counter is exact: it counts each event that holds a slot once, whichever
\* of the many paths (filter, verdicts, failure, shutdown drops, failed send) settles it,
\* so the saturating decrement of dec_len never hides a double release.
SlotAccounting == len = Cardinality(SlotHolders)

PendingIn(s) == UNION {b.pending : b \in Elements(s)}

\* No event is in two places or in none: what the ledger says of an event is where the
\* worker's stores have it, so no event is attempted twice at once, or forgotten.
Placed ==
  /\ With("queued") = UNION {Elements(m.events) : m \in {n \in Elements(channel) : n \in CaptureMessage}}
  /\ With("buffered") = Elements(buffer) /\ Cardinality(Elements(buffer)) = Len(buffer)
  /\ With("historical") = UNION Elements(historical)
  /\ With("inflight") = PendingIn(inflight)
  /\ With("retrying") = PendingIn(retries)
  /\ With("sweeping") = PendingIn(sweep)
  /\ With("condemned") = UNION {b.undelivered : b \in Elements(inflight \o retries \o sweep)}

\* The queue never holds more events than it was sized for, however many producers race.
QueueBounded == len <= MaxQueueSize

\* When the worker goes back to recv, whatever it stored has a timer that will flush it,
\* and an empty store has none: no arm leaves events behind with the interval switched off.
NothingStranded ==
  Receiving /\ deadline = "off" =>
    /\ (buffer = <<>>) = (buffer_since = "off")
    /\ (historical = <<>>) = (historical_since = "off")

\* A flush that returns has had everything accepted before it attempted or settled, also
\* when the worker was shutting down or gone (fn flush: "returning once the worker has
\* attempted delivery of everything queued before this call").
FlushAttempted ==
  \A w \in Flushers \union PanicFlushers : wait[w] = "returned" => owed[w] = {}

\* Whichever shutdown or Drop returns, the winner of begin_close or a loser, the worker
\* thread has exited: a loser does not return while the winner still joins.
JoinedWorker == \A w \in Closers : wait[w] = "returned" => ~alive

\* Once the worker has received a panic hook's flush, it attempts the whole live buffer
\* before any held retry.  What it attempts earlier, while the flush is still in the
\* channel, is PanicNotStarved's subject.
PanicFirst ==
  completing \in PanicFlushers /\ buffer # <<>> =>
    sweep = <<>> /\ \A b \in Elements(inflight) : b.attempt = 1

\* The claim of Control::FlushCaptures, "so a retry backlog behind a slow endpoint can't
\* starve the just-enqueued `$exception` within the hook's short bounded wait": while the
\* hook waits, no retry is attempted ahead of a buffered event captured before its flush.
\* The code does not keep it: README, section 6.
PanicNotStarved ==
  [][AttemptRetry =>
       \A w \in PanicFlushers : wait[w] = "waiting" =>
         \A e \in owed[w] : status[e] # "buffered"]_vars

\* on_error counts only events refused delivery for good, each at most once: not again for
\* the retry that finalizes its batch, and never a delivered event.  A refused event is
\* counted itself, or one with its uuid is: it goes uncounted only beside a namesake.
ReportedOnce ==
  \A e \in Events :
    /\ reported[e] \in IF status[e] = "rejected" THEN {0, 1} ELSE {0}
    /\ status[e] = "rejected" =>
         \E f \in Events : Uuid[f] = Uuid[e] /\ status[f] = "rejected" /\ reported[f] = 1

\* The claim of CaptureFailure::event_count, "Number of events this failure dropped (lost)",
\* "including any finalized on earlier attempts": every event refused for good is counted.
\* The code does not keep it: README, section 6.
LossesCounted == \A e \in Events : status[e] = "rejected" => reported[e] = 1

\* An outcome is final: no settled event is delivered, reported or dropped a second time.
OutcomeFinal == [][\A e \in Events : status[e] \in Settled => status'[e] = status[e]]_vars

\* The claim of ClientOptionsBuilder::on_error, "invoked once per terminal failure": after a
\* shutdown that did not run out of time, no event the server refused to persist is left
\* without a report. The code does not keep it: README, section 6.
VerdictsReported ==
  ~alive /\ closed /\ deadline # "elapsed" => \A e \in Events : status[e] # "unreported"

\* The claim of drain_pending_completions: with the worker gone and every call done, the
\* slots of all events have been given back, so `pending_events()` is 0.
PendingSettles ==
  ~alive /\ (\A c \in Calls : call[c] \in {"start", "done"}) => len = 0
-----------------------------------------------------------------------------
(***************************************************************************)
(* The transport implements the client's promise.                          *)
(***************************************************************************)
\* A condemned event has its verdict, and its slot is free: it is settled.
FateOf(s) ==
  CASE s = "new" -> "new"
    [] s \in Held -> "pending"
    [] s = "refused" -> "refused"
    [] s = "lost" -> "lost"
    [] s = "delivered" -> "delivered"
    [] OTHER -> "undelivered"

Ledger == INSTANCE EventLedger WITH
  Capacity <- MaxQueueSize,
  fate <- [e \in Events |-> FateOf(status[e])],
  count <- len,
  stopped <- ~alive

\* Every step of producers, worker and callers is a step of the ledger, or changes nothing
\* of it: the queue is bounded, each event settles once, and pending_events() is exact.
ImplementsLedger == Ledger!Spec
-----------------------------------------------------------------------------
\* Threads run, requests and hooks return, and time passes; callers need not start.
Fairness ==
  /\ \A c \in Calls : WF_vars(ReserveSlot(c) \/ QueueFull(c) \/ SendReserved(c))
  /\ \A w \in Waiters : WF_vars(SendFlush(w) \/ SendShutdown(w) \/ TakeHandle(w) \/ JoinWorker(w))
  /\ WF_vars(WorkerStep)
  /\ WF_vars(BufferElapses) /\ WF_vars(HistoricalElapses)
  /\ WF_vars(\E i \in DOMAIN retries : RetryElapses(i))

FairSpec == Spec /\ Fairness

\* Every flush and every shutdown returns, whatever the network answers and whatever else
\* races with the worker's exit: no completion is left behind in a dead channel.
CallersReturn ==
  \A w \in Waiters : wait[w] \in {"sending", "waiting", "joining"} ~>
                      wait[w] \in {"returned", "gave_up"}

\* Every accepted event is settled in the end without help from a flush or a shutdown: by
\* size, by interval, or by the retries' backoff, and within the attempt budget.
EventsSettle ==
  \A e \in Events : status[e] \in Held \union {"condemned"} ~> status[e] \in Settled
=============================================================================
