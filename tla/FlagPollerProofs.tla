-------------------------- MODULE FlagPollerProofs --------------------------
(***************************************************************************)
(* Proofs about FlagPoller, for any sets of tasks and of callers of        *)
(* load_flags: what start promises of AsyncFlagPoller, and stop of         *)
(* FlagPoller.                                                             *)
(***************************************************************************)
EXTENDS FlagPoller, TLAPS

\* A task with a request under way, or an answer in hand, is polling; it has not both.
Asking(t) == t \in asked
Holding(t) == reply[t] # 0
RequestsPoll ==
  /\ \A t \in Tasks : Asking(t) => phase[t] = "polling" /\ ~Holding(t)
  /\ \A t \in Tasks : Holding(t) => phase[t] = "polling"

\* Stopping is not undone, and nothing but a stop makes a task leave.
StopRemembered ==
  /\ owner \in {"stopping", "dropping"} => stop
  /\ \A t \in Tasks : phase[t] = "leaving" => stop

\* Before the first stop, is_running is up from before the spawn to the end of the task.
RunningKept ==
  flavour = "async" /\ ~stop =>
    /\ \A t \in Tasks : Live(t) => running /\ owner # "starting"
    /\ owner = "starting" => running

IInv == TypeOK /\ RequestsPoll /\ StopRemembered /\ RunningKept /\ OneTaskPolls /\ StopJoins

LEMMA InitIInv == ASSUME PollerAssumption, Init PROVE IInv
<1>1. TypeOK
  <2>1. 1 \in Versions /\ 0 \in 0..MaxFailures
    BY DEF PollerAssumption, Versions
  <2> QED
    BY <2>1 DEF Init, TypeOK, Idle
<1>2. RequestsPoll /\ StopRemembered /\ RunningKept /\ OneTaskPolls /\ StopJoins
  BY DEF Init, RequestsPoll, StopRemembered, RunningKept, OneTaskPolls, StopJoins, Live, Asking, Holding,
     Requesters
<1> QED
  BY <1>1, <1>2 DEF IInv

LEMMA TypeStep == ASSUME PollerAssumption, TypeOK, [Next]_vars PROVE TypeOK'
<1> USE DEF TypeOK, Versions, Idle, taskVars, ownerVars, netVars
<1>1. CASE Publish
  BY <1>1 DEF Publish, PollerAssumption
<1>2. CASE StartBegins
  BY <1>2 DEF StartBegins, Requesters
<1>3. CASE StartSkips
  BY <1>3 DEF StartSkips
<1>4. ASSUME NEW t \in Tasks, StartSpawns(t) PROVE TypeOK'
  BY <1>4 DEF StartSpawns
<1>5. CASE StartCancelled
  BY <1>5 DEF StartCancelled
<1>6. CASE StopBegins
  BY <1>6 DEF StopBegins, Exclusive
<1>7. CASE ThreadJoined
  BY <1>7 DEF ThreadJoined
<1>8. CASE TaskAborted
  BY <1>8 DEF TaskAborted
<1>9. CASE DropAborts
  BY <1>9 DEF DropAborts
<1>10. ASSUME NEW l \in Loaders, LoadFlags(l) PROVE TypeOK'
  BY <1>10 DEF LoadFlags, Requesters
<1>11. ASSUME NEW t \in Tasks, Poll(t) PROVE TypeOK'
  BY <1>11 DEF Poll, Requesters
<1>12. ASSUME NEW t \in Tasks, SeeStop(t) PROVE TypeOK'
  BY <1>12 DEF SeeStop
<1>13. ASSUME NEW t \in Tasks, Leave(t) PROVE TypeOK'
  BY <1>13 DEF Leave
<1>14. ASSUME NEW t \in Tasks, Cancelled(t) PROVE TypeOK'
  BY <1>14 DEF Cancelled
<1>15. ASSUME NEW r \in Requesters, Answer(r) PROVE TypeOK'
  BY <1>15 DEF Answer, Back
<1>16. ASSUME NEW r \in Requesters, Fail(r) PROVE TypeOK'
  <2>1. failures' \in 0..MaxFailures
    BY <1>16 DEF Fail, PollerAssumption
  <2> QED
    BY <1>16, <2>1 DEF Fail, Back
<1>17. ASSUME NEW r \in Requesters, Apply(r) PROVE TypeOK'
  <2>1. reply[r] \in Versions /\ cache' = reply[r]
    BY <1>17 DEF Apply
  <2>2. etag' \in [Tasks -> {0} \union Versions]
    BY <1>17, <2>1 DEF Apply
  <2> QED
    BY <1>17, <2>1, <2>2 DEF Apply, Back
<1>18. CASE Gone \/ UNCHANGED vars
  BY <1>18 DEF Gone, vars
<1> QED
  BY <1>1, <1>2, <1>3, <1>4, <1>5, <1>6, <1>7, <1>8, <1>9, <1>10, <1>11, <1>12, <1>13,
     <1>14, <1>15, <1>16, <1>17, <1>18
  DEF Next, Task, Request

\* What the owner's and the loaders' steps do to the invariant.
LEMMA OwnerStep ==
  ASSUME PollerAssumption, IInv,
         \/ Publish \/ StartBegins \/ StartSkips \/ StartCancelled
         \/ StopBegins \/ ThreadJoined \/ TaskAborted \/ DropAborts
         \/ \E l \in Loaders : LoadFlags(l)
         \/ Gone \/ UNCHANGED vars
  PROVE  RequestsPoll' /\ StopRemembered' /\ RunningKept' /\ OneTaskPolls' /\ StopJoins'
<1> USE DEF taskVars, ownerVars, netVars, Idle, Live, Asking, Holding
<1>1. CASE Publish \/ StartSkips \/ StopBegins \/ DropAborts \/ Gone \/ UNCHANGED vars
  BY <1>1 DEF IInv, TypeOK, RequestsPoll, StopRemembered, RunningKept, OneTaskPolls, StopJoins,
     Publish, StartSkips, StopBegins, DropAborts, Gone, vars, Exclusive
<1>2. CASE StartBegins
  BY <1>2 DEF IInv, TypeOK, RequestsPoll, StopRemembered, RunningKept, OneTaskPolls, StopJoins,
     StartBegins, Exclusive, PollerAssumption
<1>3. CASE StartCancelled
  BY <1>3 DEF IInv, TypeOK, RequestsPoll, StopRemembered, RunningKept, OneTaskPolls, StopJoins,
     StartCancelled
<1>4. CASE ThreadJoined
  <2>1. /\ UNCHANGED <<flavour, served, cache, running, stop, handle, aborted, taskVars, netVars>>
        /\ owner' \in {"stopped", "dropped"} /\ stop
        /\ handle # None => phase[handle] = "done"
    BY <1>4 DEF ThreadJoined, IInv, StopRemembered
  <2>2. RequestsPoll' /\ StopRemembered' /\ RunningKept' /\ OneTaskPolls'
    BY <2>1 DEF IInv, RequestsPoll, StopRemembered, RunningKept, OneTaskPolls
  <2>3. StopJoins'
    BY <2>1 DEF IInv, TypeOK, RequestsPoll, StopJoins
  <2> QED
    BY <2>2, <2>3
<1>5. CASE TaskAborted
  BY <1>5 DEF IInv, TypeOK, RequestsPoll, StopRemembered, RunningKept, OneTaskPolls, StopJoins,
     TaskAborted
<1>6. ASSUME NEW l \in Loaders, LoadFlags(l)
      PROVE  RequestsPoll' /\ StopRemembered' /\ RunningKept' /\ OneTaskPolls' /\ StopJoins'
  <2>1. \A t \in Tasks : t \in asked' <=> t \in asked
    BY <1>6 DEF LoadFlags, PollerAssumption
  <2>2. UNCHANGED <<flavour, ownerVars, taskVars, reply>>
    BY <1>6 DEF LoadFlags
  <2>3. RequestsPoll'
    BY <2>1, <2>2 DEF IInv, RequestsPoll
  <2>4. StopRemembered' /\ RunningKept' /\ OneTaskPolls'
    BY <2>2 DEF IInv, StopRemembered, RunningKept, OneTaskPolls
  <2>5. StopJoins'
    BY <2>1, <2>2 DEF IInv, StopJoins, TypeOK
  <2> QED
    BY <2>3, <2>4, <2>5
<1> QED
  BY <1>1, <1>2, <1>3, <1>4, <1>5, <1>6

\* What a step of a task in its life does to the invariant.
LEMMA TaskStep ==
  ASSUME PollerAssumption, IInv, NEW t \in Tasks, Task(t)
  PROVE  RequestsPoll' /\ StopRemembered' /\ RunningKept' /\ OneTaskPolls' /\ StopJoins'
<1> USE DEF taskVars, ownerVars, netVars, Idle, Live, Asking, Holding
<1>1. CASE StartSpawns(t)
  BY <1>1 DEF IInv, TypeOK, RequestsPoll, StopRemembered, RunningKept, OneTaskPolls, StopJoins,
     StartSpawns
<1>2. CASE Poll(t)
  <2>1. phase[t] = "waiting" /\ phase'[t] = "polling" /\ UNCHANGED <<flavour, ownerVars, reply>>
    BY <1>2 DEF Poll, IInv, TypeOK
  <2>2. \A s \in Tasks : s # t => phase'[s] = phase[s] /\ (s \in asked' <=> s \in asked)
    BY <1>2 DEF Poll, IInv, TypeOK
  <2>3. RequestsPoll'
    BY <2>1, <2>2 DEF IInv, RequestsPoll
  <2>4. StopRemembered' /\ RunningKept' /\ OneTaskPolls'
    BY <2>1, <2>2 DEF IInv, StopRemembered, RunningKept, OneTaskPolls
  <2>5. StopJoins'
    BY <2>1, <2>2 DEF IInv, StopJoins, TypeOK
  <2> QED
    BY <2>3, <2>4, <2>5
<1>3. CASE SeeStop(t)
  <2>1. stop /\ stop' /\ phase[t] = "waiting" /\ UNCHANGED <<flavour, owner, handle, asked, reply>>
    BY <1>3 DEF SeeStop
  <2>2. \A s \in Tasks : phase'[s] = phase[s] \/ s = t
    BY <1>3 DEF SeeStop, IInv, TypeOK
  <2>3. RequestsPoll'
    <3>1. t \notin asked /\ reply[t] = 0
      BY <2>1 DEF IInv, RequestsPoll
    <3> QED
      BY <2>1, <2>2, <3>1 DEF IInv, RequestsPoll
  <2>4. StopRemembered' /\ RunningKept' /\ OneTaskPolls'
    BY <2>1 DEF StopRemembered, RunningKept, OneTaskPolls
  <2>5. StopJoins'
    BY <2>1, <2>2 DEF IInv, StopJoins, TypeOK
  <2> QED
    BY <2>3, <2>4, <2>5
<1>4. CASE Leave(t)
  BY <1>4 DEF IInv, TypeOK, RequestsPoll, StopRemembered, RunningKept, OneTaskPolls, StopJoins,
     Leave
<1>5. CASE Cancelled(t)
  BY <1>5 DEF IInv, TypeOK, RequestsPoll, StopRemembered, RunningKept, OneTaskPolls, StopJoins,
     Cancelled
<1> QED
  BY <1>1, <1>2, <1>3, <1>4, <1>5 DEF Task

\* What the end of a request does to the invariant: a task returns to its wait.
LEMMA RequestStep ==
  ASSUME PollerAssumption, IInv, NEW r \in Requesters, Request(r)
  PROVE  RequestsPoll' /\ StopRemembered' /\ RunningKept' /\ OneTaskPolls' /\ StopJoins'
<1> USE DEF taskVars, ownerVars, netVars, Idle, Live, Asking, Holding
<1>1. r \in asked \/ reply[r] # 0
  BY DEF Request, Answer, Fail, Apply
<1>2. \A t \in Tasks : phase'[t] = phase[t] \/ (t = r /\ phase[t] = "polling" /\ phase'[t] = "waiting")
  BY <1>1 DEF IInv, TypeOK, RequestsPoll, Request, Answer, Fail, Apply, Back
<1>3. RequestsPoll'
  <2>1. ASSUME NEW t \in Tasks, t # r
        PROVE  (t \in asked' <=> t \in asked) /\ reply'[t] = reply[t] /\ phase'[t] = phase[t]
    BY <2>1 DEF IInv, TypeOK, Request, Answer, Fail, Apply, Back, Requesters
  <2>2. ASSUME r \in Tasks
        PROVE  /\ r \notin asked'
               /\ reply'[r] = 0 \/ phase'[r] = phase[r]
    <3>1. CASE Answer(r)
      BY <2>2, <3>1 DEF IInv, TypeOK, RequestsPoll, Answer
    <3>2. CASE Fail(r)
      BY <2>2, <3>2 DEF IInv, TypeOK, Fail
    <3>3. CASE Apply(r)
      BY <2>2, <3>3 DEF IInv, TypeOK, RequestsPoll, Apply
    <3> QED
      BY <3>1, <3>2, <3>3 DEF Request
  <2> QED
    BY <1>1, <2>1, <2>2 DEF IInv, RequestsPoll
<1>4. UNCHANGED <<flavour, ownerVars>>
  BY DEF Request, Answer, Fail, Apply
<1>5. StopRemembered' /\ RunningKept' /\ OneTaskPolls'
  BY <1>2, <1>4 DEF IInv, StopRemembered, RunningKept, OneTaskPolls
<1>6. StopJoins'
  <2> SUFFICES ASSUME flavour' = "blocking", owner' \in {"stopped", "dropped"}, handle' # None
               PROVE  phase'[handle'] = "done" /\ handle' \notin asked' /\ reply'[handle'] = 0
    BY DEF StopJoins
  <2>1. handle \in Tasks /\ phase[handle] = "done"
    BY <1>4 DEF IInv, StopJoins, TypeOK
  <2>2. phase'[handle] = "done" /\ handle' = handle
    BY <1>2, <1>4, <2>1
  <2>3. ~(handle \in asked' \/ reply'[handle] # 0)
    BY <1>3, <2>1, <2>2 DEF RequestsPoll
  <2> QED
    BY <2>2, <2>3
<1> QED
  BY <1>3, <1>5, <1>6

LEMMA PollerInvariant == Spec => []IInv
<1>1. Init => IInv
  BY InitIInv, PollerAssumption
<1>2. IInv /\ [Next]_vars => IInv'
  <2> SUFFICES ASSUME IInv, [Next]_vars PROVE IInv'
    OBVIOUS
  <2>1. TypeOK'
    BY TypeStep, PollerAssumption DEF IInv
  <2> QED
    BY <2>1, OwnerStep, TaskStep, RequestStep, PollerAssumption DEF IInv, Next
<1> QED
  BY <1>1, <1>2, PTL DEF Spec

\* For any number of calls and tasks every flag, handle, phase and reply keeps its type.
THEOREM PollerTyped == Spec => []TypeOK
<1>1. IInv => TypeOK
  BY DEF IInv
<1> QED
  BY <1>1, PollerInvariant, PTL

\* However AsyncFlagPoller::start is called, awaited or cancelled, one task polls.
THEOREM OneTaskAtATime == Spec => []OneTaskPolls
<1>1. IInv => OneTaskPolls
  BY DEF IInv
<1> QED
  BY <1>1, PollerInvariant, PTL

\* FlagPoller::stop and drop return after the thread that start spawned last has exited.
THEOREM StopsJoin == Spec => []StopJoins
<1>1. IInv => StopJoins
  BY DEF IInv
<1> QED
  BY <1>1, PollerInvariant, PTL
=============================================================================
