----------------------------- MODULE PanicHook -----------------------------
(* global.rs and the panic hook of error_tracking.rs: threads that race to initialise the  *)
(* global client, the hook that the winner installs, and panics: on threads of the app,    *)
(* inside a before_send hook that an immediate capture runs there, and inside one that the *)
(* client's own worker runs. The before_send hooks are behind one mutex, which a thread    *)
(* holds while it is in them, and until it is unwound when it panics there. The standard   *)
(* library keeps the process's panic hook under a lock that a panicking thread reads for   *)
(* as long as the hook runs.                                                               *)
EXTENDS Integers, Sequences, SequencesExt

CONSTANTS
  Inits,       \* calls of init_global
  Profile,     \* Profile[i]: "captures", "silent" (capture_panics off) or "disabled"
  Threads,     \* threads of the app
  Worker,      \* the transport worker of the global client
  MaxPanics,   \* panics of one thread that a behaviour shows
  MaxChannel   \* messages in the channel that a behaviour shows

None == "none"

ASSUME PanicAssumption ==
  /\ Profile \in [Inits -> {"captures", "silent", "disabled"}]
  /\ Worker \notin Threads /\ None \notin Inits \union Threads \union {Worker}
  /\ MaxPanics \in Nat /\ MaxChannel \in Nat

Everyone == Threads \union {Worker}

VARIABLES
  off,       \* GLOBAL_DISABLE
  init,      \* init[i]: where a call of init_global is
  global,    \* GLOBAL_CLIENT: whose client it is
  latch,     \* PANIC_HOOK_INSTALLED
  hook,      \* the process's panic hook: what runs, in order
  taken,     \* taken[i]: the hook that i took out
  closed,    \* the global client's transport is closed
  channel,   \* messages to the worker
  lock,      \* the thread inside the before_send hooks
  stage,     \* stage[t]: what a thread is doing
  layers,    \* layers[t]: what of the panic hook it has yet to run
  panics,    \* panics[t]: how often it panicked
  ran,       \* ran[t]: how often the hook that was there before ran for it
  due,       \* due[t]: its panics after the hook was installed
  missed,    \* missed[t]: those a full or closed queue did not take
  captured   \* captured[t]: $exception events of its panics

vars == <<off, init, global, latch, hook, taken, closed, channel, lock, stage, layers, panics,
          ran, due, missed, captured>>
starting == <<off, init, global, latch, hook, taken>>
counts == <<panics, ran, due, missed, captured>>

Zero == [t \in Everyone |-> 0]

Init ==
  /\ off = FALSE /\ init = [i \in Inits |-> "idle"] /\ global = None /\ latch = FALSE
  /\ hook = <<"app">> /\ taken = [i \in Inits |-> <<>>]
  /\ closed = FALSE /\ channel = <<>> /\ lock = None
  /\ stage = [t \in Everyone |-> "running"] /\ layers = [t \in Everyone |-> <<>>]
  /\ panics = Zero /\ ran = Zero /\ due = Zero /\ missed = Zero /\ captured = Zero

InHook == {"hook", "flushing"}
HookFree == \A t \in Everyone : stage[t] \notin InHook

\* The global client can send.
CanSend == global # None /\ Profile[global] # "disabled"
Installed == \E i \in Inits : global = i /\ init[i] = "done" /\ Profile[i] = "captures"

----------------------------------------------------------------------------
\* init_global_client: whether it is disabled is looked at once, then the client is built.
BuildClient(i) ==
  /\ init[i] = "idle"
  /\ init' = [init EXCEPT ![i] = IF off THEN "refused" ELSE "built"]
  /\ UNCHANGED <<off, global, latch, hook, taken, closed, channel, lock, stage, layers, counts>>

\* GLOBAL_CLIENT.set: the first wins, the others are told AlreadyInitialized.
SetGlobal(i) ==
  /\ init[i] = "built"
  /\ IF global = None
     THEN global' = i /\ init' = [init EXCEPT ![i] = "won"]
     ELSE init' = [init EXCEPT ![i] = "lost"] /\ UNCHANGED global
  /\ UNCHANGED <<off, latch, hook, taken, closed, channel, lock, stage, layers, counts>>

\* maybe_install_global_panic_hook up to the latch.
LatchHook(i) ==
  /\ init[i] = "won"
  /\ IF Profile[global] = "captures" /\ ~latch
     THEN latch' = TRUE /\ init' = [init EXCEPT ![i] = "latched"]
     ELSE init' = [init EXCEPT ![i] = "done"] /\ UNCHANGED latch
  /\ UNCHANGED <<off, global, hook, taken, closed, channel, lock, stage, layers, counts>>

\* take_hook leaves the standard one in place, set_hook puts ours over the one taken. Each
\* waits for the hooks that are running.
TakeHook(i) ==
  /\ init[i] = "latched" /\ HookFree
  /\ taken' = [taken EXCEPT ![i] = hook] /\ hook' = <<"standard">>
  /\ init' = [init EXCEPT ![i] = "taken"]
  /\ UNCHANGED <<off, global, latch, closed, channel, lock, stage, layers, counts>>

SetHook(i) ==
  /\ init[i] = "taken" /\ HookFree
  /\ hook' = <<"sdk">> \o taken[i]
  /\ init' = [init EXCEPT ![i] = "done"]
  /\ UNCHANGED <<off, global, latch, taken, closed, channel, lock, stage, layers, counts>>

\* disable(): no use once the client is there.
Disable ==
  /\ ~off /\ off' = TRUE
  /\ UNCHANGED <<init, global, latch, hook, taken, closed, channel, lock, stage, layers, counts>>

----------------------------------------------------------------------------
\* global::capture: nothing without a client, or with a closed one.
GlobalCapture(t) ==
  /\ stage[t] = "running" /\ t \in Threads
  /\ CanSend /\ ~closed /\ Len(channel) < MaxChannel
  /\ channel' = Append(channel, [is |-> "event", of |-> None])
  /\ UNCHANGED <<starting, closed, lock, stage, layers, counts>>

\* global::shutdown, up to the wait for the worker.
GlobalShutdown(t) ==
  /\ stage[t] = "running" /\ t \in Threads
  /\ CanSend /\ ~closed
  /\ closed' = TRUE /\ channel' = Append(channel, [is |-> "shutdown", of |-> None])
  /\ UNCHANGED <<starting, lock, stage, layers, counts>>

\* An immediate capture goes through the before_send hooks on the caller's thread.
EnterBeforeSend(t) ==
  /\ stage[t] = "running" /\ t \in Threads
  /\ CanSend /\ lock = None
  /\ lock' = t /\ stage' = [stage EXCEPT ![t] = "sending"]
  /\ UNCHANGED <<starting, closed, channel, layers, counts>>

LeaveBeforeSend(t) ==
  /\ stage[t] = "sending" /\ lock = t
  /\ lock' = None /\ stage' = [stage EXCEPT ![t] = "running"]
  /\ channel' = IF t = Worker THEN Tail(channel) ELSE channel
  /\ UNCHANGED <<starting, closed, layers, counts>>

----------------------------------------------------------------------------
\* A thread panics, anywhere or in a before_send hook; the worker only in the latter. It
\* runs the hook as it is now.
Panic(t) ==
  /\ stage[t] = "sending" \/ (t \in Threads /\ stage[t] = "running")
  /\ panics[t] < MaxPanics
  /\ panics' = [panics EXCEPT ![t] = @ + 1]
  /\ due' = IF Installed THEN [due EXCEPT ![t] = @ + 1] ELSE due
  /\ stage' = [stage EXCEPT ![t] = "hook"] /\ layers' = [layers EXCEPT ![t] = hook]
  /\ UNCHANGED <<starting, closed, channel, lock, ran, missed, captured>>

AtLayer(t, layer) == stage[t] = "hook" /\ layers[t] # <<>> /\ Head(layers[t]) = layer

\* mutant: the worker captures its own panics.
OwnWorkerToo(t) == ~CanSend

\* capture_panic leaves out a disabled client and the client's own worker.
Skipped(t) == ~CanSend \/ t = Worker
SkipCapture(t) ==
  /\ AtLayer(t, "sdk") /\ Skipped(t)
  /\ layers' = [layers EXCEPT ![t] = Tail(@)]
  /\ UNCHANGED <<starting, closed, channel, lock, stage, counts>>

\* enqueue_panic, dropped when the queue is closed or full; then the flush is asked for, and
\* waited for unless the worker has gone.
CapturePanic(t) ==
  /\ AtLayer(t, "sdk") /\ ~Skipped(t)
  /\ \E full \in BOOLEAN :
       LET accepted == ~closed /\ ~full
           event == IF accepted THEN <<[is |-> "event", of |-> t]>> ELSE <<>>
       IN /\ captured' = IF accepted THEN [captured EXCEPT ![t] = @ + 1] ELSE captured
          /\ missed' = IF accepted THEN missed ELSE [missed EXCEPT ![t] = @ + 1]
          /\ IF stage[Worker] = "gone"
             THEN /\ layers' = [layers EXCEPT ![t] = Tail(@)]
                  /\ UNCHANGED <<channel, stage>>
             ELSE /\ channel' = channel \o event \o <<[is |-> "flush", of |-> t]>>
                  /\ stage' = [stage EXCEPT ![t] = "flushing"]
                  /\ UNCHANGED layers
  /\ UNCHANGED <<starting, closed, lock, panics, ran, due>>

\* mutant: the flush has no timeout.
Patient(t) ==
  /\ stage[t] = "flushing" /\ stage[Worker] = "gone"
  /\ stage' = [stage EXCEPT ![t] = "hook"] /\ layers' = [layers EXCEPT ![t] = Tail(@)]
  /\ UNCHANGED <<starting, closed, channel, lock, counts>>

\* PANIC_FLUSH_TIMEOUT.
FlushTimesOut(t) ==
  /\ stage[t] = "flushing"
  /\ stage' = [stage EXCEPT ![t] = "hook"] /\ layers' = [layers EXCEPT ![t] = Tail(@)]
  /\ UNCHANGED <<starting, closed, channel, lock, counts>>

\* The hook that was there before, ours or not.
PreviousHook(t) ==
  /\ AtLayer(t, "app") \/ AtLayer(t, "standard")
  /\ ran' = [ran EXCEPT ![t] = @ + 1] /\ layers' = [layers EXCEPT ![t] = Tail(@)]
  /\ UNCHANGED <<starting, closed, channel, lock, stage, panics, due, missed, captured>>

\* The thread is unwound: out of the before_send hooks, whose mutex is poisoned and free,
\* into catch_unwind, which drops the event; or out of what the app was doing.
Unwind(t) ==
  /\ stage[t] = "hook" /\ layers[t] = <<>>
  /\ stage' = [stage EXCEPT ![t] = "running"]
  /\ lock' = IF lock = t THEN None ELSE lock
  /\ channel' = IF t = Worker THEN Tail(channel) ELSE channel
  /\ UNCHANGED <<starting, closed, layers, counts>>

----------------------------------------------------------------------------
\* The worker: an event goes through the hooks, a flush is answered, a shutdown ends it.
WorkerSends ==
  /\ stage[Worker] = "running" /\ channel # <<>> /\ Head(channel).is = "event"
  /\ lock = None /\ lock' = Worker
  /\ stage' = [stage EXCEPT ![Worker] = "sending"]
  /\ UNCHANGED <<starting, closed, channel, layers, counts>>

\* The answer is of use to a thread that still waits. An older answer to the same thread has
\* no receiver.
WorkerAnswers ==
  /\ stage[Worker] = "running" /\ channel # <<>> /\ Head(channel).is = "flush"
  /\ channel' = Tail(channel)
  /\ LET t == Head(channel).of
         waits == /\ stage[t] = "flushing"
                  /\ \A k \in DOMAIN channel \ {1} : channel[k] # Head(channel)
     IN IF waits
        THEN /\ stage' = [stage EXCEPT ![t] = "hook"]
             /\ layers' = [layers EXCEPT ![t] = Tail(@)]
        ELSE UNCHANGED <<stage, layers>>
  /\ UNCHANGED <<starting, closed, lock, counts>>

\* Those who still wait are answered on the way out.
WorkerExits ==
  /\ stage[Worker] = "running" /\ channel # <<>> /\ Head(channel).is = "shutdown"
  /\ channel' = <<>>
  /\ stage' = [t \in Everyone |-> IF t = Worker THEN "gone"
                                  ELSE IF stage[t] = "flushing" THEN "hook" ELSE stage[t]]
  /\ layers' = [t \in Everyone |-> IF t \in Threads /\ stage[t] = "flushing"
                                   THEN Tail(layers[t]) ELSE layers[t]]
  /\ UNCHANGED <<starting, closed, lock, counts>>

----------------------------------------------------------------------------
InitGlobal(i) == BuildClient(i) \/ SetGlobal(i) \/ LatchHook(i) \/ TakeHook(i) \/ SetHook(i)
RunHook(t) == SkipCapture(t) \/ CapturePanic(t) \/ PreviousHook(t) \/ Unwind(t)

\* Nobody has anything under way; the app may end.
Quiet ==
  /\ \A t \in Everyone : stage[t] \in {"running", "gone"}
  /\ UNCHANGED vars

Next ==
  \/ \E i \in Inits : InitGlobal(i)
  \/ Disable
  \/ \E t \in Everyone :
       \/ GlobalCapture(t) \/ GlobalShutdown(t) \/ EnterBeforeSend(t) \/ LeaveBeforeSend(t)
       \/ Panic(t) \/ RunHook(t) \/ FlushTimesOut(t)
  \/ WorkerSends \/ WorkerAnswers \/ WorkerExits \/ Quiet

\* A panicking thread goes on, and a timeout elapses. Nothing is assumed of the worker.
Fairness == \A t \in Everyone : WF_vars(RunHook(t)) /\ WF_vars(FlushTimesOut(t))

Spec == Init /\ [][Next]_vars
FairSpec == Spec /\ Fairness

----------------------------------------------------------------------------
\* A panic after the hook is installed is captured exactly once, unless the queue is full or
\* closed; one of the client's own worker, or before it is installed, not at all.
\* And for every panic, before, during or after the installation, the hook that the app had,
\* or in the middle of it the standard one, has run exactly once when the thread is unwound.
CapturedOnce ==
  /\ captured[Worker] = 0
  /\ \A t \in Threads : stage[t] \notin InHook => captured[t] + missed[t] = due[t]
  /\ \A t \in Everyone : stage[t] \notin InHook => ran[t] = panics[t]

\* A panic never leaves its thread stuck, though it may hold what the worker waits for while
\* it waits for the worker, and though nothing makes the worker run.
PanicProceeds == \A t \in Everyone : stage[t] \in InHook ~> stage[t] = "running"
=============================================================================
