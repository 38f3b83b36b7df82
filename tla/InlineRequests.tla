-------------------------- MODULE InlineRequests --------------------------
(* The requests a caller of the client waits for: capture_immediate and                    *)
(* capture_batch_immediate over either wire format, get_feature_flags, get_feature_flag,   *)
(* is_feature_enabled and get_feature_flag_payload. Each sends in a loop of its own and    *)
(* hands the outcome to its caller; none goes through the transport's queue.               *)
(*                                                                                         *)
(* The server stores events by uuid, answers or not, and may have stored what it did not   *)
(* say it stored: the answer to a stored event can be lost.                                *)
EXTENDS RetryPolicy, FiniteSets

CONSTANTS
  Calls,     \* calls of the client, each made once
  Asks,      \* Asks[c]: what call c may be: a set of [kind, events]
  Events, Uuids,
  UuidOf,    \* the uuid of an event; set_uuid lets two events share one
  Statuses,  \* HTTP statuses the server may answer
  Headers,   \* the Retry-After headers it may send
  Errors     \* the transport errors that may happen

ASSUME InlineAssumption ==
  /\ UuidOf \in [Events -> Uuids]
  /\ Asks \in [Calls -> SUBSET [kind : {"capture", "flags", "flag", "enabled", "payload"},
                                events : SUBSET Events]]
  /\ \A c \in Calls : \A ask \in Asks[c] : IsFiniteSet(ask.events)  \* a Vec
  /\ Statuses \subseteq Nat
  /\ Headers \subseteq [form : {"seconds", "date", "other"}, value : Nat]
  /\ Errors \subseteq TransportErrors

VARIABLES
  client,  \* its build and the options that matter here; they never change
  call,    \* call[c]: where a call is
  net,     \* net[c]: its request, or what came back
  store,   \* uuids the server has stored
  told     \* told[c]: reports of c to the on_error hooks

vars == <<client, call, net, store, told>>

NoVerdicts == [u \in {} |-> "ok"]
Nothing == [is |-> "none", error |-> "", value |-> "", submitted |-> 0, verdicts |-> NoVerdicts]
Ok(value) == [Nothing EXCEPT !.is = "ok", !.value = value]
Err(error) == [Nothing EXCEPT !.is = "err", !.error = error]

Quiet == [is |-> "quiet"]
Sent == [is |-> "sent"]
Answer(status, header, parses, verdicts) ==
  [is |-> "answer", status |-> status, header |-> header, parses |-> parses, verdicts |-> verdicts]
Broken(error) == [is |-> "broken", error |-> error]

Idle == [kind |-> "none", stage |-> "idle", attempt |-> 1, kept |-> {}, pending |-> {},
         verdicts |-> NoVerdicts, delay |-> 0, result |-> Nothing]

Init ==
  /\ client \in [build : {"v0", "v1"}, disabled : BOOLEAN, evaluator : BOOLEAN, only : BOOLEAN]
  /\ client.disabled => ~client.evaluator
  /\ call = [c \in Calls |-> Idle]
  /\ net = [c \in Calls |-> Quiet]
  /\ store = {}
  /\ told = [c \in Calls |-> 0]

UuidsOf(events) == {UuidOf[e] : e \in events}

----------------------------------------------------------------------------
\* The summary of a capture that succeeded.
FromResults(kept, verdicts) ==
  [Ok("summary") EXCEPT !.submitted = Cardinality(kept), !.verdicts = verdicts]
Delivered(kept) == [Ok("summary") EXCEPT !.submitted = Cardinality(kept)]

\* mutant: only a drop counts as a loss.
NotDropped(verdicts) == {u \in DOMAIN verdicts : verdicts[u] # "drop"}
Persisted(verdicts) == {u \in DOMAIN verdicts : verdicts[u] \in {"ok", "warning"}}
NotPersisted(summary) ==
  IF client.build = "v0" THEN 0
  ELSE Greater(summary.submitted - Cardinality(Persisted(summary.verdicts)), 0)

----------------------------------------------------------------------------
\* A call ends, with `reports` reports of its failure.
Ends(c, result, reports) ==
  /\ call' = [call EXCEPT ![c].stage = "done", ![c].pending = {}, ![c].verdicts = NoVerdicts,
                          ![c].result = result]
  /\ net' = [net EXCEPT ![c] = Quiet]
  /\ told' = [told EXCEPT ![c] = @ + reports]
  /\ UNCHANGED <<client, store>>

\* The first attempt leaves, with the events that passed before_send.
Leaves(c, kind, kept) ==
  /\ call' = [call EXCEPT ![c] = [Idle EXCEPT !.kind = kind, !.stage = "sending",
                                              !.kept = kept, !.pending = kept]]
  /\ net' = [net EXCEPT ![c] = Sent]
  /\ UNCHANGED <<client, store, told>>

\* The call is over before any request.
Skips(c, kind, result) ==
  /\ call' = [call EXCEPT ![c] = [Idle EXCEPT !.kind = kind, !.stage = "done", !.result = result]]
  /\ UNCHANGED <<client, net, store, told>>

CaptureBatchImmediate(c) ==
  /\ call[c].stage = "idle"
  /\ \E ask \in Asks[c] :
       /\ ask.kind = "capture"
       /\ \E kept \in SUBSET ask.events :  \* what before_send lets pass
            IF client.disabled \/ kept = {} THEN Skips(c, "capture", Delivered({}))
            ELSE Leaves(c, "capture", kept)

GetFeatureFlags(c) ==
  /\ call[c].stage = "idle"
  /\ \E ask \in Asks[c] : ask.kind = "flags"
  /\ IF client.disabled THEN Skips(c, "flags", Ok("absent")) ELSE Leaves(c, "flags", {})

FlagValues == {"true", "false", "variant", "absent"}
IsFeatureEnabled(value) == IF value \in {"true", "variant"} THEN "true" ELSE "false"
ValueFor(kind, value) == IF kind = "enabled" THEN IsFeatureEnabled(value) ELSE value

\* A value found locally ends the call; with local_evaluation_only and an evaluator, so does
\* finding none. Otherwise it is get_feature_flags, which looks at `disabled`.
GetFeatureFlag(c) ==
  /\ call[c].stage = "idle"
  /\ \E ask \in Asks[c] :
       /\ ask.kind \in {"flag", "enabled"}
       /\ \/ /\ client.evaluator
             /\ \E value \in FlagValues \ {"absent"} :
                  Skips(c, ask.kind, Ok(ValueFor(ask.kind, value)))
          \/ /\ client.evaluator /\ client.only
             /\ Skips(c, ask.kind, Ok(ValueFor(ask.kind, "absent")))
          \/ /\ client.evaluator => ~client.only
             /\ IF client.disabled THEN Skips(c, ask.kind, Ok(ValueFor(ask.kind, "absent")))
                ELSE Leaves(c, ask.kind, {})

GetFeatureFlagPayload(c) ==
  /\ call[c].stage = "idle"
  /\ \E ask \in Asks[c] : ask.kind = "payload"
  /\ IF client.disabled THEN Skips(c, "payload", Ok("absent")) ELSE Leaves(c, "payload", {})

----------------------------------------------------------------------------
Verdicts == {"ok", "warning", "drop", "retry", "unknown"}

\* What the server may have stored of a request it answers so.
MayStore(c, status, verdicts, stored) ==
  LET sent == UuidsOf(call[c].pending) IN
  /\ stored \subseteq sent
  /\ Success(status) =>
       IF client.build = "v0" THEN stored = sent
       ELSE \A u \in DOMAIN verdicts :
              /\ verdicts[u] \in {"ok", "warning"} => u \in stored
              /\ verdicts[u] \in {"drop", "retry"} => u \notin stored

\* The server answers. A V1 answer has a verdict for some of the events, or does not parse.
ServeCapture(c) ==
  /\ net[c] = Sent /\ call[c].kind = "capture"
  /\ \E status \in Statuses, header \in Headers, parses \in BOOLEAN :
     \E answered \in SUBSET UuidsOf(call[c].pending) :
     \E verdicts \in [answered -> Verdicts], stored \in SUBSET UuidsOf(call[c].pending) :
       /\ (client.build = "v0" \/ ~Success(status) \/ ~parses) => answered = {}
       /\ MayStore(c, status, verdicts, stored)
       /\ net' = [net EXCEPT ![c] = Answer(status, header, parses, verdicts)]
       /\ store' = store \union stored
  /\ UNCHANGED <<client, call, told>>

ServeFlags(c) ==
  /\ net[c] = Sent /\ call[c].kind # "capture"
  /\ \E status \in Statuses, parses \in BOOLEAN :
       net' = [net EXCEPT ![c] =
                 Answer(status, [form |-> "other", value |-> 0], parses, NoVerdicts)]
  /\ UNCHANGED <<client, call, store, told>>

\* The request or its answer is lost, or the client's timeout comes first.
Lose(c) ==
  /\ net[c] = Sent
  /\ \E error \in Errors, stored \in SUBSET UuidsOf(call[c].pending) :
       /\ net' = [net EXCEPT ![c] = Broken(error)]
       /\ store' = store \union stored
  /\ UNCHANGED <<client, call, told>>

----------------------------------------------------------------------------
\* The pause before the next attempt.
Pauses(c, delay) ==
  /\ call' = [call EXCEPT ![c].stage = "waiting", ![c].delay = delay]
  /\ net' = [net EXCEPT ![c] = Quiet]
  /\ UNCHANGED <<client, store, told>>

\* What a step of RetryPolicy means to the loops.
Follows(c, step, result, reports) ==
  CASE step.is = "backoff" -> Pauses(c, step.delay)
    [] step.is = "fail" -> Ends(c, Err(step.error), reports)
    [] OTHER -> Ends(c, result, 0)

Asked(header) == ParseRetryAfterAt(header, 0)

\* send_immediate on V0: a 2xx persists the batch, whatever its body.
ReceiveV0(c) ==
  /\ call[c].stage = "sending" /\ net[c].is = "answer"
  /\ call[c].kind = "capture" /\ client.build = "v0"
  /\ Follows(c, V0AfterResponse(call[c].attempt, net[c].status, Asked(net[c].header)),
             Delivered(call[c].kept), 0)

\* mutant: the whole batch is sent again.
AllRetried(c, final) ==
  {e \in call[c].pending : /\ ~final
                           /\ \E u \in DOMAIN net[c].verdicts : net[c].verdicts[u] = "retry"}

\* process_batch_response: the events to send again, and the verdicts known by then. A retry
\* asked for at the last attempt is a verdict; an event the answer omits is in neither.
Retried(c, final) ==
  {e \in call[c].pending : /\ ~final
                           /\ UuidOf[e] \in DOMAIN net[c].verdicts
                           /\ net[c].verdicts[UuidOf[e]] = "retry"}
Decided(c, final) ==
  LET settled == {u \in UuidsOf(call[c].pending) \cap DOMAIN net[c].verdicts :
                    final \/ net[c].verdicts[u] # "retry"}
      known == call[c].verdicts
  IN [u \in DOMAIN known \union settled |->
        IF u \in settled THEN net[c].verdicts[u] ELSE known[u]]

\* send_immediate on V1, an answer whose verdicts can be read.
ReceiveVerdicts(c) ==
  /\ call[c].stage = "sending" /\ net[c].is = "answer"
  /\ call[c].kind = "capture" /\ client.build = "v1"
  /\ Success(net[c].status) /\ net[c].parses
  /\ LET final == call[c].attempt >= MaxCaptureAttempts
         retried == Retried(c, final)
         decided == Decided(c, final)
     IN IF retried = {} THEN Ends(c, FromResults(call[c].kept, decided), 0)
        ELSE /\ call' = [call EXCEPT ![c].stage = "waiting", ![c].pending = retried,
                           ![c].verdicts = decided,
                           ![c].delay = BackoffDuration(call[c].attempt, Asked(net[c].header))]
             /\ net' = [net EXCEPT ![c] = Quiet]
             /\ UNCHANGED <<client, store, told>>

\* The other answers on V1. What earlier answers decided is lost with the Err.
ReceiveRefusal(c) ==
  /\ call[c].stage = "sending" /\ net[c].is = "answer"
  /\ call[c].kind = "capture" /\ client.build = "v1"
  /\ ~(Success(net[c].status) /\ net[c].parses)
  /\ IF Success(net[c].status) THEN Ends(c, Err("Serialization"), 0)
     ELSE IF RetryableStatus(net[c].status) /\ call[c].attempt < MaxCaptureAttempts
     THEN Pauses(c, BackoffDuration(call[c].attempt, Asked(net[c].header)))
     ELSE Ends(c, Err(FromHttpResponse(net[c].status)), 0)

CaptureBroken(c) ==
  /\ call[c].stage = "sending" /\ net[c].is = "broken" /\ call[c].kind = "capture"
  /\ Follows(c, AfterTransportError(call[c].attempt), Nothing, 0)

\* send_feature_flags_request and what get_feature_flags does with its response.
ReceiveFlags(c) ==
  /\ call[c].stage = "sending" /\ net[c].is = "answer"
  /\ call[c].kind \in {"flags", "flag", "enabled"}
  /\ LET step == FlagsAfterResponse(call[c].attempt, net[c].status) IN
     IF step.is = "backoff" THEN Pauses(c, step.delay)
     ELSE IF ~Success(net[c].status) THEN Ends(c, Err("Connection"), 1)
     ELSE IF ~net[c].parses THEN Ends(c, Err("Serialization"), 1)
     ELSE \E value \in FlagValues : Ends(c, Ok(ValueFor(call[c].kind, value)), 0)

\* mutant: a failure is reported at each attempt.
FlagsBrokenLoudly(c) ==
  /\ call[c].stage = "sending" /\ net[c].is = "broken"
  /\ call[c].kind \in {"flags", "flag", "enabled"}
  /\ LET step == FlagsAfterTransportError(call[c].attempt, net[c].error) IN
     IF step.is = "fail" THEN Ends(c, Err(step.error), 1)
     ELSE /\ call' = [call EXCEPT ![c].stage = "waiting", ![c].delay = step.delay]
          /\ net' = [net EXCEPT ![c] = Quiet]
          /\ told' = [told EXCEPT ![c] = @ + 1]
          /\ UNCHANGED <<client, store>>

FlagsBroken(c) ==
  /\ call[c].stage = "sending" /\ net[c].is = "broken"
  /\ call[c].kind \in {"flags", "flag", "enabled"}
  /\ Follows(c, FlagsAfterTransportError(call[c].attempt, net[c].error), Nothing, 1)

\* get_feature_flag_payload sends once; a status other than success is no payload.
ReceivePayload(c) ==
  /\ call[c].stage = "sending" /\ net[c].is = "answer" /\ call[c].kind = "payload"
  /\ IF ~Success(net[c].status) THEN Ends(c, Ok("absent"), 0)
     ELSE IF ~net[c].parses THEN Ends(c, Err("Serialization"), 1)
     ELSE \E value \in FlagValues : Ends(c, Ok(value), 0)

PayloadBroken(c) ==
  /\ call[c].stage = "sending" /\ net[c].is = "broken" /\ call[c].kind = "payload"
  /\ Ends(c, Err("Connection"), 1)

\* mutant: the attempts are not counted.
ElapseUncounted(c) ==
  /\ call[c].stage = "waiting"
  /\ call' = [call EXCEPT ![c].stage = "sending", ![c].delay = 0]
  /\ net' = [net EXCEPT ![c] = Sent]
  /\ UNCHANGED <<client, store, told>>

\* The pause is over and the next attempt leaves.
Elapse(c) ==
  /\ call[c].stage = "waiting"
  /\ call' = [call EXCEPT ![c].stage = "sending", ![c].attempt = @ + 1, ![c].delay = 0]
  /\ net' = [net EXCEPT ![c] = Sent]
  /\ UNCHANGED <<client, store, told>>

\* The caller of the async client drops the future at one of its awaits. A request under way
\* may still be served.
DropFuture(c) ==
  /\ call[c].stage \in {"sending", "waiting"}
  /\ \E stored \in SUBSET UuidsOf(call[c].pending) :
       store' = IF net[c] = Sent THEN store \union stored ELSE store
  /\ call' = [call EXCEPT ![c].stage = "dropped", ![c].pending = {}, ![c].verdicts = NoVerdicts,
                          ![c].delay = 0]
  /\ net' = [net EXCEPT ![c] = Quiet]
  /\ UNCHANGED <<client, told>>

----------------------------------------------------------------------------
Network(c) == ServeCapture(c) \/ ServeFlags(c) \/ Lose(c)
Receive(c) ==
  \/ ReceiveV0(c) \/ ReceiveVerdicts(c) \/ ReceiveRefusal(c) \/ CaptureBroken(c)
  \/ ReceiveFlags(c) \/ FlagsBroken(c) \/ ReceivePayload(c) \/ PayloadBroken(c)

\* Every call has been made and is over.
Finished ==
  /\ \A c \in Calls : call[c].stage \in {"done", "dropped"}
  /\ UNCHANGED vars

Next ==
  \/ \E c \in Calls :
       \/ CaptureBatchImmediate(c) \/ GetFeatureFlags(c) \/ GetFeatureFlag(c)
       \/ GetFeatureFlagPayload(c) \/ Network(c) \/ Receive(c) \/ Elapse(c) \/ DropFuture(c)
  \/ Finished

\* A request is answered or times out; an answer is handled; a timer elapses.
Fairness ==
  \A c \in Calls : WF_vars(Network(c)) /\ WF_vars(Receive(c)) /\ WF_vars(Elapse(c))

Spec == Init /\ [][Next]_vars
FairSpec == Spec /\ Fairness

----------------------------------------------------------------------------
\* The attempts a call may make; max_capture_attempts = 0 still makes one.
MostAttempts(kind) ==
  CASE kind = "capture" -> Greater(MaxCaptureAttempts, 1)
    [] kind = "payload" -> 1
    [] OTHER -> FlagRetries + 1

VerdictMaps == UNION {[S -> Verdicts] : S \in SUBSET Uuids}
Answers ==
  [is : {"answer"}, status : Statuses, parses : BOOLEAN, verdicts : VerdictMaps,
   header : [form : {"seconds", "date", "other"}, value : Nat]]

\* Every variable holds a value of its kind; a call makes no more attempts than its budget,
\* and a pause is never longer than retry_max_backoff_ms, whatever the server asked for.
TypeOK ==
  /\ client \in [build : {"v0", "v1"}, disabled : BOOLEAN, evaluator : BOOLEAN, only : BOOLEAN]
  /\ store \subseteq Uuids
  /\ told \in [Calls -> {0, 1}]
  /\ DOMAIN call = Calls /\ DOMAIN net = Calls
  /\ \A c \in Calls :
       /\ DOMAIN call[c] = DOMAIN Idle
       /\ call[c].kind \in {"none", "capture", "flags", "flag", "enabled", "payload"}
       /\ call[c].stage \in {"idle", "sending", "waiting", "done", "dropped"}
       /\ call[c].attempt \in 1..MostAttempts(call[c].kind)
       /\ call[c].stage = "waiting" => call[c].attempt < MostAttempts(call[c].kind)
       /\ call[c].kept \subseteq Events /\ call[c].pending \subseteq call[c].kept
       /\ call[c].verdicts \in VerdictMaps
       /\ call[c].delay \in 0..MaxBackoff
       /\ net[c] \in {Quiet, Sent} \union {Broken(e) : e \in Errors} \union Answers
       /\ (net[c] # Quiet) <=> (call[c].stage = "sending")

\* The summary of an immediate capture never claims more than is true: of the events it
\* submitted, at least those the server has not stored are counted as not persisted, over
\* partial answers, retries, omitted events and shared uuids.
SummaryTruthful ==
  \A c \in Calls :
    (call[c].kind = "capture" /\ call[c].result.is = "ok") =>
      NotPersisted(call[c].result) >=
        Cardinality({e \in call[c].kept : UuidOf[e] \notin store})

\* An event the server has decided about is not sent again by a later attempt of the call,
\* and what it decided stands.
DecidedNotResent ==
  [][\A c \in Calls : call'[c].stage \in {"sending", "waiting"} =>
       \A u \in DOMAIN call[c].verdicts :
         /\ u \notin UuidsOf(call'[c].pending)
         /\ u \in DOMAIN call'[c].verdicts /\ call'[c].verdicts[u] = call[c].verdicts[u]]_vars

\* A remote flags call that returns an Err has told the on_error hooks once, however many
\* attempts failed; one that succeeds tells them nothing, and an immediate capture never does.
\* A payload call that returns Ok may have failed all the same, see FailedRequestReported.
FailureReported ==
  \A c \in Calls :
    /\ call[c].kind # "capture" /\ call[c].result.is = "err" => told[c] = 1
    /\ told[c] # 0 => call[c].result.is = "err" \/ call[c].kind = "payload"
    /\ call[c].kind = "capture" => told[c] = 0

\* The claim of report_flags_error, "Each failed request reports exactly once, from the leaf
\* that finalizes the [`Error`]": a flags call that ends on a transport error, a non-success
\* status or an unparseable body tells the hooks.
FailedRequest(answer) ==
  \/ answer.is = "broken"
  \/ answer.is = "answer" /\ ~(Success(answer.status) /\ answer.parses)
FailedRequestReported ==
  [][\A c \in Calls :
       /\ call[c].kind \in {"flags", "flag", "enabled", "payload"} /\ FailedRequest(net[c])
       /\ call[c].stage = "sending" /\ call'[c].stage = "done"
       => told'[c] = told[c] + 1]_vars

\* Every call that sent a request comes back to its caller, whatever the network does.
CallReturns ==
  \A c \in Calls : call[c].stage \in {"sending", "waiting"} ~> call[c].stage \in {"done", "dropped"}
=============================================================================
