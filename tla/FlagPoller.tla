------------------------------ MODULE FlagPoller ------------------------------
(***************************************************************************)
(* The pollers that keep the cache of flag definitions up to date: the     *)
(* thread of FlagPoller and the tokio task of AsyncFlagPoller, which share *)
(* the loop but start, stop and drop differently. load_flags() may run     *)
(* beside the loop; start, stop and drop need the poller to themselves.    *)
(*                                                                         *)
(* Definitions are known by the version the server published; the cache is *)
(* replaced in one step, which FlagCache justifies. An ETag is the version *)
(* it was sent with.                                                       *)
(***************************************************************************)
EXTENDS Integers, FiniteSets

CONSTANTS
  Tasks,        \* polling threads or tasks that start may spawn
  Loaders,      \* callers of load_flags, beside start's own call
  Owner,        \* start's call of load_flags
  None,         \* no task
  MaxVersion,   \* bound on the versions published
  MaxFailures   \* bound on the requests that fail

Versions == 1..MaxVersion
Requesters == Tasks \union Loaders \union {Owner}

ASSUME PollerAssumption ==
  /\ MaxVersion \in Nat \ {0} /\ MaxFailures \in Nat
  /\ None \notin Tasks /\ Owner \notin Tasks \union Loaders /\ Tasks \cap Loaders = {}

VARIABLES
  flavour,   \* "blocking" for FlagPoller, "async" for AsyncFlagPoller
  served,    \* the version the server has
  cache,     \* the version in the cache, 0 when empty
  owner,     \* how far the owner's last call of start, stop or drop has come
  running,   \* is_running (async)
  stop,      \* stop_signal
  handle,    \* the task of thread_handle or task_handle; a taken handle stays here, for
             \* a second stop finds its task joined or aborted, and does nothing
  aborted,   \* tasks on which abort was called (async)
  phase,     \* phase[t]: where task t is in its life
  etag,      \* etag[t]: the last_etag of t, or 0
  asked,     \* requests under way
  reply,     \* reply[r]: the definitions r has received and not applied, or 0
  failures   \* requests that have failed

taskVars == <<phase, etag>>
ownerVars == <<owner, running, stop, handle, aborted>>
netVars == <<asked, reply, failures>>
vars == <<flavour, served, cache, taskVars, ownerVars, netVars>>

Init ==
  /\ flavour \in {"blocking", "async"} /\ served = 1 /\ cache = 0
  /\ owner = "idle" /\ running = FALSE /\ stop = FALSE /\ handle = None /\ aborted = {}
  /\ phase = [t \in Tasks |-> "unborn"] /\ etag = [t \in Tasks |-> 0]
  /\ asked = {} /\ reply = [r \in Requesters |-> 0] /\ failures = 0

Publish ==
  /\ served < MaxVersion /\ served' = served + 1
  /\ UNCHANGED <<flavour, cache, taskVars, ownerVars, netVars>>
-----------------------------------------------------------------------------
(* The owner. &mut self keeps start, stop and drop apart from load_flags. *)

Loading == {l \in Loaders : l \in asked \/ reply[l] # 0}
Idle == {"idle", "started", "cancelled", "stopped"}
Exclusive == owner \in Idle /\ Loading = {}

StartUnchecked ==  \* mutant: start does not ask is_running
  /\ Exclusive /\ \E t \in Tasks : phase[t] = "unborn"
  /\ owner' = "starting" /\ asked' = asked \union {Owner} /\ running' = (flavour = "async")
  /\ UNCHANGED <<flavour, served, cache, stop, handle, aborted, taskVars, reply, failures>>
StartBegins ==
  /\ Exclusive /\ \E t \in Tasks : phase[t] = "unborn"
  /\ ~running
  /\ owner' = "starting" /\ asked' = asked \union {Owner} /\ running' = (flavour = "async")
  /\ UNCHANGED <<flavour, served, cache, stop, handle, aborted, taskVars, reply, failures>>

StartSkips ==
  /\ Exclusive /\ running /\ owner' = "started"
  /\ UNCHANGED <<flavour, served, cache, running, stop, handle, aborted, taskVars, netVars>>

\* The initial load is over, well or badly: the loop is spawned.
StartSpawns(t) ==
  /\ owner = "starting" /\ Owner \notin asked /\ reply[Owner] = 0 /\ phase[t] = "unborn"
  /\ owner' = "started" /\ handle' = t /\ phase' = [phase EXCEPT ![t] = "waiting"]
  /\ UNCHANGED <<flavour, served, cache, running, stop, aborted, etag, netVars>>

\* The future of start is dropped at the await of its load.
StartCancelled ==
  /\ flavour = "async" /\ owner = "starting" /\ Owner \in asked
  /\ owner' = "cancelled" /\ asked' = asked \ {Owner}
  /\ UNCHANGED <<flavour, served, cache, running, stop, handle, aborted, taskVars, reply, failures>>

\* stop() in both, and drop in FlagPoller, which calls it.
StopBegins ==
  /\ Exclusive /\ stop' = TRUE
  /\ owner' \in IF flavour = "blocking" THEN {"stopping", "dropping"} ELSE {"stopping"}
  /\ UNCHANGED <<flavour, served, cache, running, handle, aborted, taskVars, netVars>>

NotJoined ==  \* mutant: the thread is told to stop and not joined
  /\ flavour = "blocking" /\ owner \in {"stopping", "dropping"}
  /\ owner' = IF owner = "stopping" THEN "stopped" ELSE "dropped"
  /\ UNCHANGED <<flavour, served, cache, running, stop, handle, aborted, taskVars, netVars>>
ThreadJoined ==
  /\ flavour = "blocking" /\ owner \in {"stopping", "dropping"}
  /\ handle # None => phase[handle] = "done"
  /\ owner' = IF owner = "stopping" THEN "stopped" ELSE "dropped"
  /\ UNCHANGED <<flavour, served, cache, running, stop, handle, aborted, taskVars, netVars>>

AbortedAnyway ==  \* mutant: stop aborts a task also when it holds no handle
  /\ flavour = "async" /\ owner = "stopping" /\ owner' = "stopped"
  /\ aborted' = aborted \union {handle} /\ running' \in {running, FALSE}
  /\ UNCHANGED <<flavour, served, cache, stop, handle, taskVars, netVars>>
\* abort() does not wait; the future of stop may be dropped before it clears is_running.
TaskAborted ==
  /\ flavour = "async" /\ owner = "stopping" /\ owner' = "stopped"
  /\ aborted' = aborted \union ({handle} \ {None}) /\ running' \in {running, FALSE}
  /\ UNCHANGED <<flavour, served, cache, stop, handle, taskVars, netVars>>

DropAborts ==
  /\ flavour = "async" /\ Exclusive /\ owner' = "dropped"
  /\ aborted' = aborted \union ({handle} \ {None})
  /\ UNCHANGED <<flavour, served, cache, running, stop, handle, taskVars, netVars>>

LoadFlags(l) ==
  /\ owner \in Idle /\ l \notin Loading /\ asked' = asked \union {l}
  /\ UNCHANGED <<flavour, served, cache, taskVars, ownerVars, reply, failures>>
-----------------------------------------------------------------------------
(* The polling loop. An aborted task ends at its next await. *)

\* What becomes of the tasks when r is through with its request.
Back(r) == [t \in Tasks |-> IF t = r THEN "waiting" ELSE phase[t]]

Poll(t) ==
  /\ phase[t] = "waiting" /\ ~stop /\ t \notin aborted
  /\ phase' = [phase EXCEPT ![t] = "polling"] /\ asked' = asked \union {t}
  /\ UNCHANGED <<flavour, served, cache, etag, ownerVars, reply, failures>>

SeeStop(t) ==
  /\ phase[t] = "waiting" /\ stop /\ t \notin aborted
  /\ phase' = [phase EXCEPT ![t] = IF flavour = "async" THEN "leaving" ELSE "done"]
  /\ UNCHANGED <<flavour, served, cache, etag, ownerVars, netVars>>

Leave(t) ==
  /\ phase[t] = "leaving" /\ running' = FALSE /\ phase' = [phase EXCEPT ![t] = "done"]
  /\ UNCHANGED <<flavour, served, cache, etag, owner, stop, handle, aborted, netVars>>

Cancelled(t) ==
  /\ t \in aborted
  /\ phase[t] \in {"waiting", "leaving"} \/ t \in asked
  /\ phase' = [phase EXCEPT ![t] = "done"] /\ asked' = asked \ {t}
  /\ UNCHANGED <<flavour, served, cache, etag, ownerVars, reply, failures>>
-----------------------------------------------------------------------------
(* Requests, of the loop and of load_flags alike. *)

NotModified(r) == r \in Tasks /\ etag[r] = served

Answer(r) ==
  /\ r \in asked \ aborted /\ asked' = asked \ {r}
  /\ \/ NotModified(r) /\ phase' = Back(r) /\ UNCHANGED reply
     \/ ~NotModified(r) /\ reply' = [reply EXCEPT ![r] = served] /\ UNCHANGED phase
  /\ UNCHANGED <<flavour, served, cache, etag, ownerVars, failures>>

\* No answer, an error status, or a body that does not parse: nothing is kept of it.
FailTagged(r) ==  \* mutant: the ETag is kept before the body is parsed
  /\ r \in asked \ aborted \/ reply[r] # 0
  /\ failures < MaxFailures /\ failures' = failures + 1
  /\ asked' = asked \ {r} /\ reply' = [reply EXCEPT ![r] = 0] /\ phase' = Back(r)
  /\ etag' = [t \in Tasks |-> IF t = r /\ reply[r] # 0 THEN reply[r] ELSE etag[t]]
  /\ UNCHANGED <<flavour, served, cache, ownerVars>>
Fail(r) ==
  /\ r \in asked \ aborted \/ reply[r] # 0
  /\ failures < MaxFailures /\ failures' = failures + 1
  /\ asked' = asked \ {r} /\ reply' = [reply EXCEPT ![r] = 0] /\ phase' = Back(r)
  /\ UNCHANGED <<flavour, served, cache, etag, ownerVars>>

\* The server may leave the ETag out.
Apply(r) ==
  /\ reply[r] # 0 /\ cache' = reply[r] /\ reply' = [reply EXCEPT ![r] = 0] /\ phase' = Back(r)
  /\ \E tag \in {0, reply[r]} : etag' = [t \in Tasks |-> IF t = r THEN tag ELSE etag[t]]
  /\ UNCHANGED <<flavour, served, ownerVars, asked, failures>>
-----------------------------------------------------------------------------
Gone == owner = "dropped" /\ asked = {} /\ (\A t \in Tasks : phase[t] \in {"unborn", "done"})
        /\ UNCHANGED vars

Task(t) == StartSpawns(t) \/ Poll(t) \/ SeeStop(t) \/ Leave(t) \/ Cancelled(t)
Request(r) == Answer(r) \/ Fail(r) \/ Apply(r)

Next ==
  \/ Publish
  \/ StartBegins \/ StartSkips \/ StartCancelled
  \/ StopBegins \/ ThreadJoined \/ TaskAborted \/ DropAborts
  \/ \E l \in Loaders : LoadFlags(l)
  \/ \E t \in Tasks : Task(t)
  \/ \E r \in Requesters : Request(r)
  \/ Gone

\* Threads and tasks are scheduled, the interval elapses, a request ends by its timeout.
\* Nobody has to publish, or to call start, stop, drop or load_flags.
Fairness ==
  /\ \A t \in Tasks : WF_vars(Task(t))
  /\ \A r \in Requesters : WF_vars(Request(r))
  /\ WF_vars(ThreadJoined \/ TaskAborted)

Spec == Init /\ [][Next]_vars /\ Fairness
-----------------------------------------------------------------------------
TypeOK ==
  /\ flavour \in {"blocking", "async"} /\ served \in Versions /\ cache \in {0} \union Versions
  /\ owner \in Idle \union {"starting", "stopping", "dropping", "dropped"}
  /\ running \in BOOLEAN /\ stop \in BOOLEAN
  /\ handle \in Tasks \union {None} /\ aborted \subseteq Tasks
  /\ phase \in [Tasks -> {"unborn", "waiting", "polling", "leaving", "done"}]
  /\ etag \in [Tasks -> {0} \union Versions]
  /\ asked \subseteq Requesters /\ reply \in [Requesters -> {0} \union Versions]
  /\ failures \in 0..MaxFailures

Live(t) == phase[t] \in {"waiting", "polling"}

\* However often AsyncFlagPoller::start is called, awaited or cancelled, is_running lets
\* one task poll.
OneTaskPolls ==
  flavour = "async" /\ ~stop => \A s, t \in Tasks : Live(s) /\ Live(t) => s = t

\* When FlagPoller::stop or drop has returned, the thread started last has exited and will
\* not write to the cache any more.
StopJoins ==
  flavour = "blocking" /\ owner \in {"stopped", "dropped"} /\ handle # None
    => phase[handle] = "done" /\ handle \notin asked /\ reply[handle] = 0

\* The claim of FlagPoller::stop, "Stop the polling thread and wait for it to exit": when it
\* or drop has returned, no thread of the poller is at a request, whose answer it would write
\* to the cache. The code does not keep it: README, section 6.
StopSilences ==
  flavour = "blocking" /\ owner \in {"stopped", "dropped"}
    => \A t \in Tasks : phase[t] # "polling"

Polled == owner = "started" /\ handle # None
CaughtUp == cache = served
LoadsApart == Loading # {} => \A t \in Tasks : phase[t] # "polling"

\* Once started and not stopped, the poller brings the cache to what the server has, and
\* keeps it there, through failed requests, answers out of order and 304 answers, as long
\* as no load_flags overlaps a poll.
CatchesUp == []LoadsApart /\ <>[](Polled /\ ~stop) => <>[]CaughtUp
=============================================================================
