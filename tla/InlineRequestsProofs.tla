----------------------- MODULE InlineRequestsProofs -----------------------
(* Proofs about InlineRequests, for any number of calls, events, uuids shared or not,      *)
(* statuses, headers, errors, and any options: the pauses and attempts stay within their   *)
(* bounds, failures are reported once, what the server decided is left alone, and the      *)
(* summary of a capture does not claim more than the server has stored.                    *)
EXTENDS InlineRequests, FiniteSetTheorems, TLAPS

Busy == {"sending", "waiting"}
Fields == {"kind", "stage", "attempt", "kept", "pending", "verdicts", "delay", "result"}
Kinds == {"none", "capture", "flags", "flag", "enabled", "payload"}
Replies == {Quiet, Sent} \union {Broken(e) : e \in Errors} \union Answers

\* What holds of a call r, its request n and the reports t of its failure. The verdicts of a
\* call under way are about other uuids than those it will ask for again.
CallTyped(r, n) ==
  /\ DOMAIN r = Fields
  /\ r.kind \in Kinds /\ r.stage \in Busy \union {"idle", "done", "dropped"}
  /\ r.attempt \in 1..MostAttempts(r.kind)
  /\ r.stage = "waiting" => r.attempt < MostAttempts(r.kind)
  /\ r.kept \subseteq Events /\ r.pending \subseteq r.kept
  /\ r.verdicts \in VerdictMaps /\ r.delay \in 0..MaxBackoff
  /\ n \in Replies /\ ((n # Quiet) <=> (r.stage = "sending"))
CallSettled(r) ==
  /\ r.stage \in Busy => DOMAIN r.verdicts \cap UuidsOf(r.pending) = {}
  /\ r.stage \notin Busy => DOMAIN r.verdicts = {}
CallReported(r, t) ==
  /\ r.stage # "done" => r.result.is # "err"
  /\ t = IF r.kind # "capture" /\ r.result.is = "err" THEN 1 ELSE 0
CallGood(r, n, t) == CallTyped(r, n) /\ CallSettled(r) /\ CallReported(r, t)

IInv ==
  /\ client \in [build : {"v0", "v1"}, disabled : BOOLEAN, evaluator : BOOLEAN, only : BOOLEAN]
  /\ store \subseteq Uuids /\ told \in [Calls -> {0, 1}]
  /\ DOMAIN call = Calls /\ DOMAIN net = Calls
  /\ \A c \in Calls : CallGood(call[c], net[c], told[c])

\* From r to s a call that goes on keeps every verdict, and asks for none of them again.
Stands(r, s) ==
  s.stage \in Busy =>
    \A u \in DOMAIN r.verdicts :
      /\ u \notin UuidsOf(s.pending)
      /\ u \in DOMAIN s.verdicts /\ s.verdicts[u] = r.verdicts[u]

----------------------------------------------------------------------------
\* The backoff is never longer than retry_max_backoff_ms, whatever the doubling overflows to
\* and whatever the server asks for.
LEMMA BackoffBounded ==
  ASSUME NEW attempt, NEW asked \in Nat
  PROVE BackoffDuration(attempt, asked) \in 0..MaxBackoff
  <1>1. WordMax \in Nat /\ InitialBackoff \in Nat /\ MaxBackoff \in Nat
    BY PolicyAssumption
  <1> DEFINE power == Saturated(2 ^ Greater(attempt - 1, 0))
             product == Saturated(InitialBackoff * power)
             configured == Lesser(product, MaxBackoff)
             allowed == Lesser(asked, MaxBackoff)
  <1>2. product \in Nat
    <2> HIDE DEF power
    <2> QED BY <1>1 DEF Saturated
  <1>3. configured \in 0..MaxBackoff
    <2> HIDE DEF product
    <2> QED BY <1>1, <1>2 DEF Lesser
  <1>4. allowed \in 0..MaxBackoff
    BY <1>1 DEF Lesser
  <1>5. Greater(configured, allowed) \in 0..MaxBackoff
    <2> HIDE DEF configured, allowed
    <2> QED BY <1>3, <1>4 DEF Greater
  <1>6. BackoffDuration(attempt, asked) = Greater(configured, allowed)
    BY DEF BackoffDuration
  <1> QED BY <1>5, <1>6

\* What a Retry-After header asks for is a natural number.
LEMMA AskedNatural == ASSUME NEW header \in [form : {"seconds", "date", "other"}, value : Nat]
                      PROVE Asked(header) \in Nat
  <1>1. CASE header.form = "seconds"
    BY <1>1 DEF Asked, ParseRetryAfterAt
  <1>2. CASE header.form = "date"
    <2>1. ParseHttpDate(header) = header.value
      BY <1>2 DEF ParseHttpDate
    <2> QED BY <1>2, <2>1 DEF Asked, ParseRetryAfterAt
  <1>3. CASE header.form = "other"
    BY <1>3 DEF Asked, ParseRetryAfterAt, ParseHttpDate
  <1> QED BY <1>1, <1>2, <1>3

\* A call may make at least one attempt.
LEMMA AttemptsPositive == ASSUME NEW kind PROVE MostAttempts(kind) \in Nat /\ MostAttempts(kind) >= 1
  BY PolicyAssumption DEF MostAttempts, Greater

\* An answer, a lost request and the two idle states of the network are told apart.
LEMMA RepliesDiffer ==
  /\ Quiet # Sent
  /\ \A e : Broken(e) # Quiet /\ Broken(e) # Sent /\ Broken(e).is = "broken"
  /\ \A n \in Answers : n # Quiet /\ n # Sent /\ n.is = "answer"
  /\ \A n \in Replies : n.is = "answer" => n \in Answers
  /\ \A n \in Replies : n.is = "broken" => \E e \in Errors : n = Broken(e)
  <1>1. Quiet.is = "quiet" /\ Sent.is = "sent" /\ \A e : Broken(e).is = "broken"
    BY DEF Quiet, Sent, Broken
  <1>2. \A n \in Answers : n.is = "answer"
    BY DEF Answers
  <1> QED BY <1>1, <1>2 DEF Replies

\* No verdict is a map of verdicts.
LEMMA NoVerdictsTyped == NoVerdicts \in VerdictMaps /\ DOMAIN NoVerdicts = {}
  <1>1. DOMAIN NoVerdicts = {}
    BY DEF NoVerdicts
  <1>2. NoVerdicts \in [{} -> Verdicts]
    BY DEF NoVerdicts
  <1> QED BY <1>1, <1>2 DEF VerdictMaps

\* The fields of a call that has not been made.
LEMMA IdleFields ==
  /\ DOMAIN Idle = Fields
  /\ Idle.kind = "none" /\ Idle.stage = "idle" /\ Idle.attempt = 1 /\ Idle.kept = {}
  /\ Idle.pending = {} /\ Idle.verdicts = NoVerdicts /\ Idle.delay = 0 /\ Idle.result = Nothing
  BY DEF Idle, Fields

\* Only Err is an error.
LEMMA ResultsDiffer ==
  /\ Nothing.is = "none" /\ \A v : Ok(v).is = "ok" /\ \A e : Err(e).is = "err"
  /\ \A kept, verdicts : FromResults(kept, verdicts).is = "ok" /\ Delivered(kept).is = "ok"
  BY DEF Nothing, Ok, Err, FromResults, Delivered

\* No call has been made: nothing is pending, decided or reported.
LEMMA InitHolds == ASSUME Init PROVE IInv
  <1>1. CallGood(Idle, Quiet, 0)
    <2>1. CallTyped(Idle, Quiet)
      BY IdleFields, NoVerdictsTyped, AttemptsPositive, PolicyAssumption
      DEF CallTyped, Kinds, Busy, Replies
    <2>2. CallSettled(Idle) /\ CallReported(Idle, 0)
      BY IdleFields, NoVerdictsTyped, ResultsDiffer DEF CallSettled, CallReported, Busy
    <2> QED BY <2>1, <2>2 DEF CallGood
  <1> QED BY <1>1 DEF Init, IInv

\* A step of one call has to keep what holds of that call.
LEMMA OneCall ==
  ASSUME IInv, NEW c \in Calls, UNCHANGED client, store' \subseteq Uuids,
         DOMAIN call' = Calls, DOMAIN net' = Calls, told' \in [Calls -> {0, 1}],
         \A d \in Calls \ {c} : call'[d] = call[d] /\ net'[d] = net[d] /\ told'[d] = told[d],
         CallGood(call'[c], net'[c], told'[c]), Stands(call[c], call'[c])
  PROVE IInv' /\ \A d \in Calls : Stands(call[d], call'[d])
  <1>1. IInv'
    BY DEF IInv
  <1>2. ASSUME NEW d \in Calls \ {c} PROVE Stands(call[d], call'[d])
    BY <1>2 DEF IInv, CallGood, CallSettled, Stands, Busy
  <1> QED BY <1>1, <1>2

\* A call that goes on with the verdicts and the pending events it had.
LEMMA SameStands ==
  ASSUME NEW r, NEW s, CallSettled(r), s.verdicts = r.verdicts, s.pending = r.pending,
         s.stage \in Busy => r.stage \in Busy \/ DOMAIN r.verdicts = {}
  PROVE Stands(r, s)
  BY DEF CallSettled, Stands

----------------------------------------------------------------------------
\* A call that ends gives up its pending events and verdicts, and is reported if it fails
\* and is not a capture.
LEMMA EndsGood ==
  ASSUME IInv, NEW c \in Calls, NEW result, NEW reports \in {0, 1}, Ends(c, result, reports),
         call[c].stage = "sending",
         reports = IF call[c].kind # "capture" /\ result.is = "err" THEN 1 ELSE 0
  PROVE IInv' /\ \A d \in Calls : Stands(call[d], call'[d])
  <1> DEFINE r == call[c]
             s == call'[c]
  <1>1. CallGood(r, net[c], told[c])
    BY DEF IInv
  <1>2. /\ DOMAIN s = Fields /\ s.kind = r.kind /\ s.stage = "done" /\ s.attempt = r.attempt
        /\ s.kept = r.kept /\ s.pending = {} /\ s.verdicts = NoVerdicts /\ s.delay = r.delay
        /\ s.result = result
    BY <1>1 DEF Ends, IInv, CallGood, CallTyped, Fields
  <1>3. told[c] = 0 /\ told'[c] = reports /\ net'[c] = Quiet
    BY <1>1 DEF Ends, IInv, CallGood, CallReported
  <1>4. CallTyped(s, net'[c])
    BY <1>1, <1>2, <1>3, NoVerdictsTyped DEF CallGood, CallTyped, Busy, Replies
  <1>5. CallSettled(s) /\ CallReported(s, told'[c]) /\ Stands(r, s)
    BY <1>2, <1>3, NoVerdictsTyped DEF CallSettled, CallReported, Stands, Busy
  <1>6. /\ DOMAIN call' = Calls /\ DOMAIN net' = Calls /\ told' \in [Calls -> {0, 1}]
        /\ \A d \in Calls \ {c} : call'[d] = call[d] /\ net'[d] = net[d] /\ told'[d] = told[d]
        /\ UNCHANGED client /\ store' \subseteq Uuids
    BY <1>3 DEF Ends, IInv
  <1> HIDE DEF r, s
  <1> QED BY <1>4, <1>5, <1>6, OneCall DEF CallGood, r, s

\* A pause keeps the pending events and the verdicts, and leaves an attempt to make.
LEMMA PausesGood ==
  ASSUME IInv, NEW c \in Calls, NEW delay \in 0..MaxBackoff, Pauses(c, delay),
         call[c].stage = "sending", call[c].attempt < MostAttempts(call[c].kind)
  PROVE IInv' /\ \A d \in Calls : Stands(call[d], call'[d])
  <1> DEFINE r == call[c]
             s == call'[c]
  <1>1. CallGood(r, net[c], told[c])
    BY DEF IInv
  <1>2. /\ DOMAIN s = Fields /\ s.kind = r.kind /\ s.stage = "waiting" /\ s.attempt = r.attempt
        /\ s.kept = r.kept /\ s.pending = r.pending /\ s.verdicts = r.verdicts
        /\ s.delay = delay /\ s.result = r.result
    BY <1>1 DEF Pauses, IInv, CallGood, CallTyped, Fields
  <1>3. told' = told /\ net'[c] = Quiet
    BY DEF Pauses, IInv
  <1>4. CallTyped(s, net'[c])
    BY <1>1, <1>2, <1>3 DEF CallGood, CallTyped, Busy, Replies
  <1>5. CallSettled(s) /\ CallReported(s, told'[c])
    BY <1>1, <1>2, <1>3 DEF CallGood, CallSettled, CallReported, Busy
  <1>6. Stands(r, s)
    BY <1>1, <1>2, SameStands DEF CallGood, Busy
  <1>7. /\ DOMAIN call' = Calls /\ DOMAIN net' = Calls /\ told' \in [Calls -> {0, 1}]
        /\ \A d \in Calls \ {c} : call'[d] = call[d] /\ net'[d] = net[d] /\ told'[d] = told[d]
        /\ UNCHANGED client /\ store' \subseteq Uuids
    BY DEF Pauses, IInv
  <1> HIDE DEF r, s
  <1> QED BY <1>4, <1>5, <1>6, <1>7, OneCall DEF CallGood, r, s

\* The first attempt starts with every event pending and no verdict.
LEMMA LeavesGood ==
  ASSUME IInv, NEW c \in Calls, NEW kind \in Kinds, NEW kept \in SUBSET Events,
         Leaves(c, kind, kept), call[c].stage = "idle"
  PROVE IInv' /\ \A d \in Calls : Stands(call[d], call'[d])
  <1> DEFINE r == call[c]
             s == call'[c]
  <1>1. CallGood(r, net[c], told[c])
    BY DEF IInv
  <1>2. /\ DOMAIN s = Fields /\ s.kind = kind /\ s.stage = "sending" /\ s.attempt = 1
        /\ s.kept = kept /\ s.pending = kept /\ s.verdicts = NoVerdicts /\ s.delay = 0
        /\ s.result = Nothing
    BY IdleFields DEF Leaves, IInv, Fields
  <1>3. told' = told /\ net'[c] = Sent /\ told[c] = 0
    BY <1>1 DEF Leaves, IInv, CallGood, CallReported
  <1>4. CallTyped(s, net'[c])
    BY <1>2, <1>3, NoVerdictsTyped, AttemptsPositive, RepliesDiffer, PolicyAssumption
    DEF CallTyped, Busy, Replies
  <1>5. CallSettled(s) /\ CallReported(s, told'[c])
    BY <1>2, <1>3, NoVerdictsTyped, ResultsDiffer DEF CallSettled, CallReported, Busy
  <1>6. Stands(r, s)
    BY <1>1 DEF CallGood, CallSettled, Stands, Busy
  <1>7. /\ DOMAIN call' = Calls /\ DOMAIN net' = Calls /\ told' \in [Calls -> {0, 1}]
        /\ \A d \in Calls \ {c} : call'[d] = call[d] /\ net'[d] = net[d] /\ told'[d] = told[d]
        /\ UNCHANGED client /\ store' \subseteq Uuids
    BY DEF Leaves, IInv
  <1> HIDE DEF r, s
  <1> QED BY <1>4, <1>5, <1>6, <1>7, OneCall DEF CallGood, r, s

\* A call that sends nothing does not fail.
LEMMA SkipsGood ==
  ASSUME IInv, NEW c \in Calls, NEW kind \in Kinds, NEW result, result.is # "err",
         Skips(c, kind, result), call[c].stage = "idle"
  PROVE IInv' /\ \A d \in Calls : Stands(call[d], call'[d])
  <1> DEFINE r == call[c]
             s == call'[c]
  <1>1. CallGood(r, net[c], told[c])
    BY DEF IInv
  <1>2. /\ DOMAIN s = Fields /\ s.kind = kind /\ s.stage = "done" /\ s.attempt = 1
        /\ s.kept = {} /\ s.pending = {} /\ s.verdicts = NoVerdicts /\ s.delay = 0
        /\ s.result = result
    BY IdleFields DEF Skips, IInv, Fields
  <1>3. told' = told /\ net' = net /\ told[c] = 0 /\ net[c] = Quiet
    BY <1>1 DEF Skips, CallGood, CallTyped, CallReported
  <1>4. CallTyped(s, net'[c])
    BY <1>2, <1>3, NoVerdictsTyped, AttemptsPositive, PolicyAssumption
    DEF CallTyped, Busy, Replies
  <1>5. CallSettled(s) /\ CallReported(s, told'[c])
    BY <1>2, <1>3, NoVerdictsTyped DEF CallSettled, CallReported, Busy
  <1>6. Stands(r, s)
    BY <1>2 DEF Stands, Busy
  <1>7. /\ DOMAIN call' = Calls /\ DOMAIN net' = Calls /\ told' \in [Calls -> {0, 1}]
        /\ \A d \in Calls \ {c} : call'[d] = call[d] /\ net'[d] = net[d] /\ told'[d] = told[d]
        /\ UNCHANGED client /\ store' \subseteq Uuids
    BY DEF Skips, IInv
  <1> HIDE DEF r, s
  <1> QED BY <1>4, <1>5, <1>6, <1>7, OneCall DEF CallGood, r, s

----------------------------------------------------------------------------
\* The three outcomes of a policy step are told apart.
LEMMA StepsDiffer ==
  /\ Done.is = "done"
  /\ \A d : Backoff(d).is = "backoff" /\ Backoff(d).delay = d
  /\ \A e : Fail(e).is = "fail"
  BY DEF Done, Backoff, Fail

\* A policy step that backs off within its bounds, and whose failure is reported as its
\* kind of call is.
LEMMA FollowsGood ==
  ASSUME IInv, NEW c \in Calls, NEW step, NEW result, NEW reports \in {0, 1},
         Follows(c, step, result, reports), call[c].stage = "sending",
         step.is = "backoff" =>
           step.delay \in 0..MaxBackoff /\ call[c].attempt < MostAttempts(call[c].kind),
         reports = IF call[c].kind # "capture" THEN 1 ELSE 0,
         step.is \notin {"backoff", "fail"} => result.is # "err"
  PROVE IInv' /\ \A d \in Calls : Stands(call[d], call'[d])
  <1>1. CASE step.is = "backoff"
    <2>1. Pauses(c, step.delay)
      BY <1>1 DEF Follows
    <2> QED BY <1>1, <2>1, PausesGood
  <1>2. CASE step.is = "fail"
    <2>1. Ends(c, Err(step.error), reports)
      BY <1>2 DEF Follows
    <2>2. Err(step.error).is = "err"
      BY ResultsDiffer
    <2> QED BY <2>1, <2>2, EndsGood
  <1>3. CASE step.is \notin {"backoff", "fail"}
    <2>1. Ends(c, result, 0)
      BY <1>3 DEF Follows
    <2>2. result.is # "err"
      BY <1>3
    <2> QED BY <2>1, <2>2, EndsGood
  <1> QED BY <1>1, <1>2, <1>3

\* The uuids of events are uuids.
LEMMA UuidsTyped == ASSUME NEW events \in SUBSET Events PROVE UuidsOf(events) \subseteq Uuids
  BY InlineAssumption DEF UuidsOf

\* The network answers a request, or loses it.
LEMMA RepliesGood ==
  ASSUME IInv, NEW c \in Calls, net[c] = Sent, NEW reply \in Replies, reply # Quiet,
         net' = [net EXCEPT ![c] = reply], store' \subseteq Uuids, UNCHANGED <<client, call, told>>
  PROVE IInv' /\ \A d \in Calls : Stands(call[d], call'[d])
  <1>1. CallGood(call[c], net[c], told[c])
    BY DEF IInv
  <1>2. net'[c] = reply
    BY DEF IInv
  <1>3. CallGood(call'[c], net'[c], told'[c])
    <2>1. call[c].stage = "sending"
      BY <1>1, RepliesDiffer DEF CallGood, CallTyped
    <2>2. CallTyped(call[c], reply)
      BY <1>1, <2>1 DEF CallGood, CallTyped
    <2> QED BY <1>1, <1>2, <2>2 DEF CallGood
  <1>4. Stands(call[c], call'[c])
    BY <1>1, SameStands DEF CallGood
  <1> QED BY <1>3, <1>4, OneCall DEF IInv

\* Whatever the network does, only the request and the server's store change.
LEMMA NetworkGood ==
  ASSUME IInv, NEW c \in Calls, Network(c)
  PROVE IInv' /\ \A d \in Calls : Stands(call[d], call'[d])
  <1>1. CallGood(call[c], net[c], told[c])
    BY DEF IInv
  <1>2. UuidsOf(call[c].pending) \subseteq Uuids
    BY <1>1, UuidsTyped DEF CallGood, CallTyped
  <1>3. CASE ServeCapture(c)
    <2>0. PICK status \in Statuses, header \in Headers, parses \in BOOLEAN :
            \E answered \in SUBSET UuidsOf(call[c].pending) :
            \E verdicts \in [answered -> Verdicts], stored \in SUBSET UuidsOf(call[c].pending) :
              /\ net' = [net EXCEPT ![c] = Answer(status, header, parses, verdicts)]
              /\ store' = store \union stored
      BY <1>3 DEF ServeCapture
    <2>1. PICK verdicts \in UNION {[S -> Verdicts] : S \in SUBSET UuidsOf(call[c].pending)},
               stored \in SUBSET UuidsOf(call[c].pending) :
                 /\ net' = [net EXCEPT ![c] = Answer(status, header, parses, verdicts)]
                 /\ store' = store \union stored
      BY <2>0
    <2>2. verdicts \in VerdictMaps
      BY <1>2, <2>1 DEF VerdictMaps
    <2>3. Answer(status, header, parses, verdicts) \in Answers
      BY <2>1, <2>2, InlineAssumption DEF Answer, Answers
    <2> QED BY <1>2, <1>3, <2>1, <2>3, RepliesDiffer, RepliesGood DEF ServeCapture, IInv, Replies
  <1>4. CASE ServeFlags(c)
    <2>1. PICK status \in Statuses, parses \in BOOLEAN :
            net' = [net EXCEPT ![c] =
                      Answer(status, [form |-> "other", value |-> 0], parses, NoVerdicts)]
      BY <1>4 DEF ServeFlags
    <2>2. Answer(status, [form |-> "other", value |-> 0], parses, NoVerdicts) \in Answers
      BY <2>1, NoVerdictsTyped DEF Answer, Answers
    <2> QED BY <1>4, <2>1, <2>2, RepliesDiffer, RepliesGood DEF ServeFlags, IInv, Replies
  <1>5. CASE Lose(c)
    <2>1. PICK error \in Errors, stored \in SUBSET UuidsOf(call[c].pending) :
            net' = [net EXCEPT ![c] = Broken(error)] /\ store' = store \union stored
      BY <1>5 DEF Lose
    <2> QED BY <1>2, <1>5, <2>1, RepliesDiffer, RepliesGood DEF Lose, IInv, Replies
  <1> QED BY <1>3, <1>4, <1>5 DEF Network

----------------------------------------------------------------------------
\* The header of an answer under way asks for a natural number of milliseconds.
LEMMA AnswerAsks ==
  ASSUME IInv, NEW c \in Calls, net[c].is = "answer" PROVE Asked(net[c].header) \in Nat
  <1>1. net[c] \in Answers
    BY RepliesDiffer DEF IInv, CallGood, CallTyped
  <1> QED BY <1>1, AskedNatural DEF Answers

\* ReceiveV0 backs off only while an attempt is left, and reports nothing.
LEMMA ReceiveV0Good ==
  ASSUME IInv, NEW c \in Calls, ReceiveV0(c)
  PROVE IInv' /\ \A d \in Calls : Stands(call[d], call'[d])
  <1> DEFINE asked == Asked(net[c].header)
             step == V0AfterResponse(call[c].attempt, net[c].status, asked)
  <1>1. step.is = "backoff" =>
          step.delay \in 0..MaxBackoff /\ call[c].attempt < MostAttempts(call[c].kind)
    <2>1. CASE ShouldRetryV0(net[c].status, asked) /\ call[c].attempt < MaxCaptureAttempts
      <3>1. step = Backoff(BackoffDuration(call[c].attempt, asked))
        BY <2>1 DEF V0AfterResponse
      <3>2. BackoffDuration(call[c].attempt, asked) \in 0..MaxBackoff
        BY AnswerAsks, BackoffBounded DEF ReceiveV0
      <3>3. call[c].attempt < MostAttempts(call[c].kind)
        BY <2>1, PolicyAssumption DEF ReceiveV0, MostAttempts, Greater, IInv, CallGood, CallTyped
      <3> QED BY <3>1, <3>2, <3>3, StepsDiffer
    <2>2. CASE ~(ShouldRetryV0(net[c].status, asked) /\ call[c].attempt < MaxCaptureAttempts)
      BY <2>2, StepsDiffer DEF V0AfterResponse
    <2> QED BY <2>1, <2>2
  <1>2. Follows(c, step, Delivered(call[c].kept), 0) /\ call[c].kind = "capture"
        /\ call[c].stage = "sending"
    BY DEF ReceiveV0
  <1>3. Delivered(call[c].kept).is # "err"
    BY ResultsDiffer
  <1> HIDE DEF step
  <1> QED BY <1>1, <1>2, <1>3, FollowsGood

\* So does a capture whose request failed.
LEMMA CaptureBrokenGood ==
  ASSUME IInv, NEW c \in Calls, CaptureBroken(c)
  PROVE IInv' /\ \A d \in Calls : Stands(call[d], call'[d])
  <1> DEFINE step == AfterTransportError(call[c].attempt)
  <1>1. step.is = "backoff" =>
          step.delay \in 0..MaxBackoff /\ call[c].attempt < MostAttempts(call[c].kind)
    <2>1. CASE call[c].attempt < MaxCaptureAttempts
      <3>1. step = Backoff(BackoffDuration(call[c].attempt, 0))
        BY <2>1, PolicyAssumption, AttemptsPositive
        DEF AfterTransportError, IInv, CallGood, CallTyped
      <3>2. BackoffDuration(call[c].attempt, 0) \in 0..MaxBackoff
        BY BackoffBounded
      <3>3. call[c].attempt < MostAttempts(call[c].kind)
        BY <2>1, PolicyAssumption
        DEF CaptureBroken, MostAttempts, Greater, IInv, CallGood, CallTyped
      <3> QED BY <3>1, <3>2, <3>3, StepsDiffer
    <2>2. CASE ~(call[c].attempt < MaxCaptureAttempts)
      <3>1. call[c].attempt >= MaxCaptureAttempts
        BY <2>2, PolicyAssumption, AttemptsPositive DEF IInv, CallGood, CallTyped
      <3> QED BY <3>1, StepsDiffer DEF AfterTransportError
    <2> QED BY <2>1, <2>2
  <1>2. Follows(c, step, Nothing, 0) /\ call[c].kind = "capture" /\ call[c].stage = "sending"
    BY DEF CaptureBroken
  <1>3. Nothing.is # "err"
    BY ResultsDiffer
  <1> HIDE DEF step
  <1> QED BY <1>1, <1>2, <1>3, FollowsGood

\* A V1 answer without readable verdicts ends the capture or pauses it as it is.
LEMMA ReceiveRefusalGood ==
  ASSUME IInv, NEW c \in Calls, ReceiveRefusal(c)
  PROVE IInv' /\ \A d \in Calls : Stands(call[d], call'[d])
  <1> DEFINE delay == BackoffDuration(call[c].attempt, Asked(net[c].header))
  <1>1. call[c].kind = "capture" /\ call[c].stage = "sending"
    BY DEF ReceiveRefusal
  <1>2. CASE Success(net[c].status)
    BY <1>1, <1>2, EndsGood DEF ReceiveRefusal
  <1>3. CASE ~Success(net[c].status) /\ RetryableStatus(net[c].status)
             /\ call[c].attempt < MaxCaptureAttempts
    <2>1. Pauses(c, delay)
      BY <1>3 DEF ReceiveRefusal
    <2>2. delay \in 0..MaxBackoff
      BY AnswerAsks, BackoffBounded DEF ReceiveRefusal
    <2>3. call[c].attempt < MostAttempts(call[c].kind)
      BY <1>1, <1>3, PolicyAssumption DEF MostAttempts, Greater, IInv, CallGood, CallTyped
    <2> HIDE DEF delay
    <2> QED BY <1>1, <2>1, <2>2, <2>3, PausesGood
  <1>4. CASE ~Success(net[c].status) /\ ~(RetryableStatus(net[c].status)
             /\ call[c].attempt < MaxCaptureAttempts)
    BY <1>1, <1>4, EndsGood DEF ReceiveRefusal
  <1> QED BY <1>2, <1>3, <1>4

\* The answer that asks for some events again: those it decided are left out, those decided
\* before are not among them, and both keep their verdicts.
LEMMA ReceiveVerdictsGood ==
  ASSUME IInv, NEW c \in Calls, ReceiveVerdicts(c)
  PROVE IInv' /\ \A d \in Calls : Stands(call[d], call'[d])
  <1> DEFINE r == call[c]
             s == call'[c]
             final == r.attempt >= MaxCaptureAttempts
             retried == Retried(c, final)
             decided == Decided(c, final)
             delay == BackoffDuration(r.attempt, Asked(net[c].header))
             settled == {u \in UuidsOf(r.pending) \cap DOMAIN net[c].verdicts :
                           final \/ net[c].verdicts[u] # "retry"}
  <1>1. r.kind = "capture" /\ r.stage = "sending" /\ net[c].is = "answer"
    BY DEF ReceiveVerdicts
  <1>2. CASE retried = {}
    <2>1. Ends(c, FromResults(r.kept, decided), 0)
      BY <1>2 DEF ReceiveVerdicts
    <2>2. FromResults(r.kept, decided).is = "ok"
      BY ResultsDiffer
    <2> HIDE DEF decided, retried, final
    <2> QED BY <1>1, <2>1, <2>2, EndsGood
  <1>3. CASE retried # {}
    <2>1. CallGood(r, net[c], told[c])
      BY DEF IInv
    <2>2. /\ call' = [call EXCEPT ![c].stage = "waiting", ![c].pending = retried,
                                  ![c].verdicts = decided, ![c].delay = delay]
          /\ net' = [net EXCEPT ![c] = Quiet] /\ UNCHANGED <<client, store, told>>
      BY <1>3 DEF ReceiveVerdicts
    <2>3. ~final /\ r.attempt < MostAttempts(r.kind)
      <3>1. ~final
        BY <1>3 DEF Retried
      <3>2. r.attempt \in Nat
        BY <2>1, AttemptsPositive DEF CallGood, CallTyped
      <3> QED BY <1>1, <3>1, <3>2, PolicyAssumption DEF MostAttempts, Greater
    <2>4. retried \subseteq r.pending
      BY DEF Retried
    <2>5. net[c].verdicts \in VerdictMaps /\ r.verdicts \in VerdictMaps
      BY <1>1, <2>1, RepliesDiffer DEF CallGood, CallTyped, Answers
    <2>6. DOMAIN r.verdicts \cap UuidsOf(r.pending) = {}
      BY <1>1, <2>1 DEF CallGood, CallSettled, Busy
    <2>7. /\ DOMAIN decided = DOMAIN r.verdicts \union settled
          /\ \A u \in DOMAIN r.verdicts \union settled :
               decided[u] = IF u \in settled THEN net[c].verdicts[u] ELSE r.verdicts[u]
          /\ decided = [u \in DOMAIN r.verdicts \union settled |-> decided[u]]
      BY DEF Decided
    <2>8. settled \cap UuidsOf(retried) = {}
      BY <2>3 DEF Retried, UuidsOf
    <2>9. UuidsOf(retried) \subseteq UuidsOf(r.pending)
      BY <2>4 DEF UuidsOf
    <2>10. settled \subseteq UuidsOf(r.pending)
      OBVIOUS
    <2>11. decided \in VerdictMaps
      <3> DEFINE D == DOMAIN r.verdicts \union settled
      <3>1. D \subseteq Uuids
        BY <2>5 DEF VerdictMaps
      <3>2. \A u \in D : decided[u] \in Verdicts
        BY <2>5, <2>7 DEF VerdictMaps
      <3> HIDE DEF decided, D
      <3>3. decided \in [D -> Verdicts]
        BY <2>7, <3>2 DEF D
      <3> QED BY <3>1, <3>3 DEF VerdictMaps
    <2> HIDE DEF retried, decided, settled, delay
    <2>12. delay \in 0..MaxBackoff
      BY <1>1, AnswerAsks, BackoffBounded DEF delay
    <2>13. /\ DOMAIN s = Fields /\ s.kind = r.kind /\ s.stage = "waiting"
           /\ s.attempt = r.attempt /\ s.kept = r.kept /\ s.pending = retried
           /\ s.verdicts = decided /\ s.delay = delay /\ s.result = r.result
      BY <2>1, <2>2 DEF IInv, CallGood, CallTyped, Fields
    <2>14. told' = told /\ net'[c] = Quiet
      BY <2>2 DEF IInv
    <2>15. /\ DOMAIN call' = Calls /\ DOMAIN net' = Calls /\ told' \in [Calls -> {0, 1}]
           /\ \A d \in Calls \ {c} : call'[d] = call[d] /\ net'[d] = net[d] /\ told'[d] = told[d]
           /\ UNCHANGED client /\ store' \subseteq Uuids
      BY <2>2 DEF IInv
    <2> HIDE DEF r, s, final
    <2>16. CallTyped(s, net'[c])
      BY <1>1, <2>1, <2>3, <2>4, <2>11, <2>12, <2>13, <2>14 DEF CallGood, CallTyped, Busy, Replies
    <2>17. CallSettled(s)
      BY <2>6, <2>7, <2>8, <2>9, <2>13 DEF CallSettled, Busy
    <2>18. CallReported(s, told'[c])
      BY <1>1, <2>1, <2>13, <2>14 DEF CallGood, CallReported
    <2>19. Stands(r, s)
      BY <2>6, <2>7, <2>9, <2>10, <2>13 DEF Stands
    <2> QED BY <2>15, <2>16, <2>17, <2>18, <2>19, OneCall DEF CallGood, r, s
  <1> QED BY <1>2, <1>3

\* A flags answer is reported once, when the call ends in an Err.
LEMMA ReceiveFlagsGood ==
  ASSUME IInv, NEW c \in Calls, ReceiveFlags(c)
  PROVE IInv' /\ \A d \in Calls : Stands(call[d], call'[d])
  <1> DEFINE step == FlagsAfterResponse(call[c].attempt, net[c].status)
  <1>1. call[c].stage = "sending" /\ call[c].kind \in {"flags", "flag", "enabled"}
    BY DEF ReceiveFlags
  <1>2. CASE step.is = "backoff"
    <2>1. Pauses(c, step.delay)
      BY <1>2 DEF ReceiveFlags
    <2>2. /\ RetryableFlagsStatus(net[c].status) /\ call[c].attempt <= FlagRetries
          /\ step = Backoff(BackoffDuration(call[c].attempt, 0))
      BY <1>2, StepsDiffer DEF FlagsAfterResponse
    <2>3. step.delay \in 0..MaxBackoff
      BY <2>2, StepsDiffer, BackoffBounded
    <2>4. call[c].attempt < MostAttempts(call[c].kind)
      <3>1. MostAttempts(call[c].kind) = FlagRetries + 1
        BY <1>1 DEF MostAttempts
      <3> QED BY <2>2, <3>1, PolicyAssumption DEF IInv, CallGood, CallTyped
    <2> HIDE DEF step
    <2> QED BY <1>1, <2>1, <2>3, <2>4, PausesGood
  <1>3. CASE step.is # "backoff" /\ ~Success(net[c].status)
    BY <1>1, <1>3, ResultsDiffer, EndsGood DEF ReceiveFlags
  <1>4. CASE step.is # "backoff" /\ Success(net[c].status) /\ ~net[c].parses
    BY <1>1, <1>4, ResultsDiffer, EndsGood DEF ReceiveFlags
  <1>5. CASE step.is # "backoff" /\ Success(net[c].status) /\ net[c].parses
    <2>1. PICK value \in FlagValues : Ends(c, Ok(ValueFor(call[c].kind, value)), 0)
      BY <1>5 DEF ReceiveFlags
    <2>2. Ok(ValueFor(call[c].kind, value)).is = "ok"
      BY ResultsDiffer
    <2> QED BY <1>1, <2>1, <2>2, EndsGood
  <1> QED BY <1>2, <1>3, <1>4, <1>5

\* A failed flags request is reported once no attempt is left.
LEMMA FlagsBrokenGood ==
  ASSUME IInv, NEW c \in Calls, FlagsBroken(c)
  PROVE IInv' /\ \A d \in Calls : Stands(call[d], call'[d])
  <1> DEFINE step == FlagsAfterTransportError(call[c].attempt, net[c].error)
  <1>1. /\ call[c].stage = "sending" /\ call[c].kind \in {"flags", "flag", "enabled"}
        /\ Follows(c, step, Nothing, 1)
    BY DEF FlagsBroken
  <1>2. MostAttempts(call[c].kind) = FlagRetries + 1 /\ call[c].attempt \in Nat
    <2>1. MostAttempts(call[c].kind) = FlagRetries + 1
      BY <1>1 DEF MostAttempts
    <2> QED BY <2>1, PolicyAssumption DEF IInv, CallGood, CallTyped
  <1>3. step.is = "backoff" =>
          step.delay \in 0..MaxBackoff /\ call[c].attempt < MostAttempts(call[c].kind)
    <2>1. CASE ~RetryableFlagsError(net[c].error) \/ call[c].attempt > FlagRetries
      BY <2>1, StepsDiffer DEF FlagsAfterTransportError
    <2>2. CASE ~(~RetryableFlagsError(net[c].error) \/ call[c].attempt > FlagRetries)
      <3>1. step = Backoff(BackoffDuration(call[c].attempt, 0))
        BY <2>2 DEF FlagsAfterTransportError
      <3>2. call[c].attempt < MostAttempts(call[c].kind)
        BY <1>2, <2>2, PolicyAssumption
      <3>3. BackoffDuration(call[c].attempt, 0) \in 0..MaxBackoff
        BY BackoffBounded
      <3> QED BY <3>1, <3>2, <3>3, StepsDiffer
    <2> QED BY <2>1, <2>2
  <1>4. Nothing.is # "err"
    BY ResultsDiffer
  <1> HIDE DEF step
  <1> QED BY <1>1, <1>3, <1>4, FollowsGood

\* The one attempt at a payload is reported if it fails.
LEMMA PayloadGood ==
  ASSUME IInv, NEW c \in Calls, ReceivePayload(c) \/ PayloadBroken(c)
  PROVE IInv' /\ \A d \in Calls : Stands(call[d], call'[d])
  <1>1. call[c].stage = "sending" /\ call[c].kind # "capture"
    BY DEF ReceivePayload, PayloadBroken
  <1>2. CASE PayloadBroken(c)
    BY <1>1, <1>2, ResultsDiffer, EndsGood DEF PayloadBroken
  <1>3. CASE ReceivePayload(c)
    <2>1. \/ \E value : Ends(c, Ok(value), 0)
          \/ Ends(c, Err("Serialization"), 1)
      BY <1>3 DEF ReceivePayload
    <2> QED BY <1>1, <2>1, ResultsDiffer, EndsGood
  <1> QED BY <1>2, <1>3

\* All of what a call does with what came back.
LEMMA ReceiveGood ==
  ASSUME IInv, NEW c \in Calls, Receive(c)
  PROVE IInv' /\ \A d \in Calls : Stands(call[d], call'[d])
  <1>1. CASE ReceiveV0(c)
    BY <1>1, ReceiveV0Good
  <1>2. CASE ReceiveVerdicts(c)
    BY <1>2, ReceiveVerdictsGood
  <1>3. CASE ReceiveRefusal(c)
    BY <1>3, ReceiveRefusalGood
  <1>4. CASE CaptureBroken(c)
    BY <1>4, CaptureBrokenGood
  <1>5. CASE ReceiveFlags(c)
    BY <1>5, ReceiveFlagsGood
  <1>6. CASE FlagsBroken(c)
    BY <1>6, FlagsBrokenGood
  <1>7. CASE ReceivePayload(c) \/ PayloadBroken(c)
    BY <1>7, PayloadGood
  <1> QED BY <1>1, <1>2, <1>3, <1>4, <1>5, <1>6, <1>7 DEF Receive

----------------------------------------------------------------------------
\* The next attempt carries what is still pending, one attempt further.
LEMMA ElapseGood ==
  ASSUME IInv, NEW c \in Calls, Elapse(c)
  PROVE IInv' /\ \A d \in Calls : Stands(call[d], call'[d])
  <1> DEFINE r == call[c]
             s == call'[c]
  <1>1. CallGood(r, net[c], told[c]) /\ r.stage = "waiting"
    BY DEF IInv, Elapse
  <1>2. /\ DOMAIN s = Fields /\ s.kind = r.kind /\ s.stage = "sending"
        /\ s.attempt = r.attempt + 1 /\ s.kept = r.kept /\ s.pending = r.pending
        /\ s.verdicts = r.verdicts /\ s.delay = 0 /\ s.result = r.result
    BY <1>1 DEF Elapse, IInv, CallGood, CallTyped, Fields
  <1>3. told' = told /\ net'[c] = Sent
    BY DEF Elapse, IInv
  <1>4. s.attempt \in 1..MostAttempts(s.kind)
    BY <1>1, <1>2, AttemptsPositive DEF CallGood, CallTyped
  <1>5. CallTyped(s, net'[c])
    BY <1>1, <1>2, <1>3, <1>4, RepliesDiffer, PolicyAssumption
    DEF CallGood, CallTyped, Busy, Replies
  <1>6. CallSettled(s) /\ CallReported(s, told'[c])
    BY <1>1, <1>2, <1>3 DEF CallGood, CallSettled, CallReported, Busy
  <1>7. Stands(r, s)
    BY <1>1, <1>2, SameStands DEF CallGood, Busy
  <1>8. /\ DOMAIN call' = Calls /\ DOMAIN net' = Calls /\ told' \in [Calls -> {0, 1}]
        /\ \A d \in Calls \ {c} : call'[d] = call[d] /\ net'[d] = net[d] /\ told'[d] = told[d]
        /\ UNCHANGED client /\ store' \subseteq Uuids
    BY DEF Elapse, IInv
  <1> HIDE DEF r, s
  <1> QED BY <1>5, <1>6, <1>7, <1>8, OneCall DEF CallGood, r, s

\* A dropped call gives everything up, reported to nobody.
LEMMA DropGood ==
  ASSUME IInv, NEW c \in Calls, DropFuture(c)
  PROVE IInv' /\ \A d \in Calls : Stands(call[d], call'[d])
  <1> DEFINE r == call[c]
             s == call'[c]
  <1>1. CallGood(r, net[c], told[c]) /\ r.stage \in Busy
    BY DEF IInv, DropFuture, Busy
  <1>2. /\ DOMAIN s = Fields /\ s.kind = r.kind /\ s.stage = "dropped"
        /\ s.attempt = r.attempt /\ s.kept = r.kept /\ s.pending = {}
        /\ s.verdicts = NoVerdicts /\ s.delay = 0 /\ s.result = r.result
    BY <1>1 DEF DropFuture, IInv, CallGood, CallTyped, Fields
  <1>3. told' = told /\ net'[c] = Quiet
    BY DEF DropFuture, IInv
  <1>4. CallTyped(s, net'[c])
    BY <1>1, <1>2, <1>3, NoVerdictsTyped, PolicyAssumption DEF CallGood, CallTyped, Busy, Replies
  <1>5. CallSettled(s) /\ CallReported(s, told'[c])
    BY <1>1, <1>2, <1>3, NoVerdictsTyped DEF CallGood, CallSettled, CallReported, Busy
  <1>6. Stands(r, s)
    BY <1>2 DEF Stands, Busy
  <1>7. store' \subseteq Uuids
    <2>1. UuidsOf(r.pending) \subseteq Uuids
      BY <1>1, UuidsTyped DEF CallGood, CallTyped
    <2> QED BY <2>1 DEF DropFuture, IInv
  <1>8. /\ DOMAIN call' = Calls /\ DOMAIN net' = Calls /\ told' \in [Calls -> {0, 1}]
        /\ \A d \in Calls \ {c} : call'[d] = call[d] /\ net'[d] = net[d] /\ told'[d] = told[d]
        /\ UNCHANGED client
    BY DEF DropFuture, IInv
  <1> HIDE DEF r, s
  <1> QED BY <1>4, <1>5, <1>6, <1>7, <1>8, OneCall DEF CallGood, r, s

\* The first step of a call: it is over at once, or its first attempt leaves.
LEMMA StartsGood ==
  ASSUME IInv, NEW c \in Calls,
         CaptureBatchImmediate(c) \/ GetFeatureFlags(c) \/ GetFeatureFlag(c)
           \/ GetFeatureFlagPayload(c)
  PROVE IInv' /\ \A d \in Calls : Stands(call[d], call'[d])
  <1>1. CASE CaptureBatchImmediate(c)
    <2>1. PICK ask \in Asks[c] :
            \E kept \in SUBSET ask.events :
              IF client.disabled \/ kept = {} THEN Skips(c, "capture", Delivered({}))
              ELSE Leaves(c, "capture", kept)
      BY <1>1 DEF CaptureBatchImmediate
    <2>2. ask.events \subseteq Events
      BY InlineAssumption
    <2>3. call[c].stage = "idle" /\ "capture" \in Kinds /\ Delivered({}).is # "err"
      BY <1>1, ResultsDiffer DEF CaptureBatchImmediate, Kinds
    <2> QED BY <2>1, <2>2, <2>3, SkipsGood, LeavesGood
  <1>2. CASE GetFeatureFlags(c)
    <2>1. call[c].stage = "idle" /\ "flags" \in Kinds /\ Ok("absent").is # "err"
      BY <1>2, ResultsDiffer DEF GetFeatureFlags, Kinds
    <2> QED BY <1>2, <2>1, SkipsGood, LeavesGood DEF GetFeatureFlags
  <1>3. CASE GetFeatureFlag(c)
    <2>1. PICK ask \in Asks[c] :
            /\ ask.kind \in {"flag", "enabled"}
            /\ \/ \E value : Skips(c, ask.kind, Ok(value))
               \/ Leaves(c, ask.kind, {})
      BY <1>3 DEF GetFeatureFlag
    <2>2. call[c].stage = "idle" /\ ask.kind \in Kinds
      BY <1>3, <2>1 DEF GetFeatureFlag, Kinds
    <2>3. \A value : Ok(value).is # "err"
      BY ResultsDiffer
    <2> QED BY <2>1, <2>2, <2>3, SkipsGood, LeavesGood
  <1>4. CASE GetFeatureFlagPayload(c)
    <2>1. call[c].stage = "idle" /\ "payload" \in Kinds /\ Ok("absent").is # "err"
      BY <1>4, ResultsDiffer DEF GetFeatureFlagPayload, Kinds
    <2> QED BY <1>4, <2>1, SkipsGood, LeavesGood DEF GetFeatureFlagPayload
  <1> QED BY <1>1, <1>2, <1>3, <1>4

\* Every step keeps the invariant and leaves what the server decided alone.
LEMMA NextGood ==
  ASSUME IInv, [Next]_vars PROVE IInv' /\ \A d \in Calls : Stands(call[d], call'[d])
  <1>1. CASE UNCHANGED vars
    <2>1. IInv'
      BY <1>1 DEF IInv, vars
    <2>2. ASSUME NEW d \in Calls PROVE Stands(call[d], call'[d])
      BY <1>1, SameStands DEF IInv, CallGood, vars
    <2> QED BY <2>1, <2>2
  <1>2. ASSUME NEW c \in Calls, Network(c)
        PROVE IInv' /\ \A d \in Calls : Stands(call[d], call'[d])
    BY <1>2, NetworkGood
  <1>3. ASSUME NEW c \in Calls, Receive(c)
        PROVE IInv' /\ \A d \in Calls : Stands(call[d], call'[d])
    BY <1>3, ReceiveGood
  <1>4. ASSUME NEW c \in Calls, Elapse(c)
        PROVE IInv' /\ \A d \in Calls : Stands(call[d], call'[d])
    BY <1>4, ElapseGood
  <1>5. ASSUME NEW c \in Calls, DropFuture(c)
        PROVE IInv' /\ \A d \in Calls : Stands(call[d], call'[d])
    BY <1>5, DropGood
  <1>6. ASSUME NEW c \in Calls,
               CaptureBatchImmediate(c) \/ GetFeatureFlags(c) \/ GetFeatureFlag(c)
                 \/ GetFeatureFlagPayload(c)
        PROVE IInv' /\ \A d \in Calls : Stands(call[d], call'[d])
    BY <1>6, StartsGood
  <1> QED BY <1>1, <1>2, <1>3, <1>4, <1>5, <1>6 DEF Next, Finished

\* The three parts of the invariant say what the properties say.
LEMMA InvMeans == ASSUME IInv PROVE TypeOK /\ FailureReported
  <1>1. TypeOK
    <2>1. ASSUME NEW c \in Calls PROVE CallTyped(call[c], net[c])
      BY DEF IInv, CallGood
    <2> QED BY <2>1, IdleFields DEF IInv, CallTyped, TypeOK, Kinds, Busy, Replies
  <1>2. FailureReported
    BY DEF IInv, CallGood, CallReported, FailureReported
  <1> QED BY <1>1, <1>2

\* The invariant holds in every state of every behaviour.
LEMMA InvAlways == Spec => []IInv
  <1>1. Init => IInv
    BY InitHolds
  <1>2. IInv /\ [Next]_vars => IInv'
    BY NextGood
  <1> QED BY <1>1, <1>2, PTL DEF Spec

----------------------------------------------------------------------------
\* However often the server asks for a retry and whatever Retry-After it sends, a call makes
\* no more attempts than its options allow and no pause is longer than retry_max_backoff_ms.
THEOREM InlineTyped == Spec => []TypeOK
  <1>1. IInv => TypeOK
    BY InvMeans
  <1> QED BY <1>1, InvAlways, PTL

\* A flags call that returns an Err has told the on_error hooks exactly once, after any number
\* of failed attempts; a flags call that succeeds and an immediate capture tell them nothing.
\* Of a payload call that returns Ok this says nothing.
THEOREM FailuresReported == Spec => []FailureReported
  <1>1. IInv => FailureReported
    BY InvMeans
  <1> QED BY <1>1, InvAlways, PTL

\* A later attempt of an immediate V1 capture never carries an event whose fate an earlier
\* answer decided, and no later answer changes that verdict.
THEOREM DecisionsStand == Spec => DecidedNotResent
  <1>1. IInv /\ [Next]_vars =>
          [\A c \in Calls : call'[c].stage \in {"sending", "waiting"} =>
             \A u \in DOMAIN call[c].verdicts :
               /\ u \notin UuidsOf(call'[c].pending)
               /\ u \in DOMAIN call'[c].verdicts /\ call'[c].verdicts[u] = call[c].verdicts[u]]_vars
    BY NextGood DEF Stands, Busy
  <1> QED BY <1>1, InvAlways, PTL DEF Spec, DecidedNotResent
----------------------------------------------------------------------------
(* The summary of an immediate capture.                                                    *)

\* The summary of a call r tells the truth about a server that stores the uuids of s: over V0
\* all was stored, over V1 what counts as persisted is stored and was submitted.
SummaryHonest(r, build, s) ==
  (r.kind = "capture" /\ r.result.is = "ok") =>
    /\ IsFiniteSet(r.kept)
    /\ build = "v0" => UuidsOf(r.kept) \subseteq s
    /\ build = "v1" => /\ r.result.submitted = Cardinality(r.kept)
                       /\ Persisted(r.result.verdicts) \subseteq UuidsOf(r.kept) \cap s

\* What is known of a capture r under way is stored: by the verdicts of earlier answers, by
\* the answer n that has not been handled, and over V0 by the whole batch.
ProgressHonest(r, n, build, s) ==
  (r.kind = "capture" /\ r.stage \in Busy) =>
    /\ IsFiniteSet(r.kept)
    /\ DOMAIN r.verdicts \subseteq UuidsOf(r.kept)
    /\ Persisted(r.verdicts) \subseteq s
    /\ build = "v0" => r.pending = r.kept
    /\ (n.is = "answer" /\ Success(n.status)) =>
         IF build = "v0" THEN UuidsOf(r.pending) \subseteq s
         ELSE Persisted(n.verdicts) \subseteq s

CallHonest(r, n, build, s) ==
  /\ r.stage # "done" => r.result.is # "ok"
  /\ SummaryHonest(r, build, s)
  /\ ProgressHonest(r, n, build, s)

Honest == \A c \in Calls : CallHonest(call[c], net[c], client.build, store)

\* There are no more uuids than events that have them.
LEMMA FewerUuids ==
  ASSUME NEW events \in SUBSET Events, IsFiniteSet(events)
  PROVE  /\ IsFiniteSet(UuidsOf(events)) /\ Cardinality(UuidsOf(events)) \in Nat
         /\ Cardinality(UuidsOf(events)) <= Cardinality(events)
  <1> DEFINE f == [e \in events |-> UuidOf[e]]
  <1>1. f \in Surjection(events, UuidsOf(events))
    BY DEF Surjection, UuidsOf
  <1> HIDE DEF f
  <1>2. IsFiniteSet(UuidsOf(events)) /\ Cardinality(UuidsOf(events)) <= Cardinality(events)
    BY <1>1, FS_Surjection
  <1> QED BY <1>2, FS_CardinalityType

\* An honest summary does not claim more events than the server has stored: events that share
\* a uuid are stored by one verdict, which counts once.
LEMMA HonestMeans ==
  ASSUME NEW r, r.kind = "capture", r.result.is = "ok", r.kept \subseteq Events,
         client.build \in {"v0", "v1"}, SummaryHonest(r, client.build, store)
  PROVE  NotPersisted(r.result) >= Cardinality({e \in r.kept : UuidOf[e] \notin store})
  <1> DEFINE lost == {e \in r.kept : UuidOf[e] \notin store}
             stored == {e \in r.kept : UuidOf[e] \in store}
  <1>1. IsFiniteSet(r.kept)
    BY DEF SummaryHonest
  <1>2. CASE client.build = "v0"
    <2>1. lost = {}
      BY <1>2 DEF SummaryHonest, UuidsOf
    <2>2. NotPersisted(r.result) = 0
      BY <1>2 DEF NotPersisted
    <2> QED BY <2>1, <2>2, FS_EmptySet
  <1>3. CASE client.build = "v1"
    <2> DEFINE claimed == Persisted(r.result.verdicts)
    <2>1. IsFiniteSet(lost) /\ IsFiniteSet(stored)
      BY <1>1, FS_Subset
    <2>2. /\ Cardinality(lost) \in Nat /\ Cardinality(stored) \in Nat
          /\ Cardinality(r.kept) \in Nat
      BY <1>1, <2>1, FS_CardinalityType
    <2>3. Cardinality(r.kept) = Cardinality(lost) + Cardinality(stored)
      <3>1. r.kept \ stored = lost /\ r.kept \cap stored = stored
        OBVIOUS
      <3>2. Cardinality(r.kept \ stored) = Cardinality(r.kept) - Cardinality(r.kept \cap stored)
        BY <1>1, FS_Difference
      <3> HIDE DEF lost, stored
      <3>3. /\ Cardinality(r.kept \ stored) = Cardinality(lost)
            /\ Cardinality(r.kept \cap stored) = Cardinality(stored)
        BY <3>1, Zenon
      <3> QED BY <2>2, <3>2, <3>3
    <2>4. claimed \subseteq UuidsOf(stored)
      BY <1>3 DEF SummaryHonest, UuidsOf
    <2>5. Cardinality(UuidsOf(stored)) <= Cardinality(stored) /\ IsFiniteSet(UuidsOf(stored))
          /\ Cardinality(UuidsOf(stored)) \in Nat
      <3>1. stored \in SUBSET Events
        OBVIOUS
      <3> HIDE DEF stored
      <3> QED BY <2>1, <3>1, FewerUuids
    <2>6. Cardinality(claimed) <= Cardinality(UuidsOf(stored)) /\ Cardinality(claimed) \in Nat
      <3> HIDE DEF claimed, stored
      <3> QED BY <2>4, <2>5, FS_Subset, FS_CardinalityType
    <2>7. NotPersisted(r.result) = Greater(Cardinality(r.kept) - Cardinality(claimed), 0)
      BY <1>3 DEF NotPersisted, SummaryHonest
    <2> HIDE DEF lost, stored, claimed
    <2>8. Greater(Cardinality(r.kept) - Cardinality(claimed), 0) >= Cardinality(lost)
      BY <2>2, <2>3, <2>5, <2>6 DEF Greater
    <2> QED BY <2>7, <2>8 DEF lost
  <1> QED BY <1>2, <1>3

\* What the server has stored it keeps.
LEMMA HonestStays ==
  ASSUME NEW r, NEW n, NEW build, NEW s, NEW t, s \subseteq t, CallHonest(r, n, build, s)
  PROVE  CallHonest(r, n, build, t)
  <1>1. SummaryHonest(r, build, t)
    BY DEF CallHonest, SummaryHonest
  <1>2. ProgressHonest(r, n, build, t)
    BY DEF CallHonest, ProgressHonest
  <1> QED BY <1>1, <1>2 DEF CallHonest

\* A step of one call has to keep what holds of that call.
LEMMA OneHonest ==
  ASSUME Honest, NEW c \in Calls, UNCHANGED client, store \subseteq store',
         \A d \in Calls \ {c} : call'[d] = call[d] /\ net'[d] = net[d],
         CallHonest(call'[c], net'[c], client.build, store')
  PROVE  Honest'
  <1>1. ASSUME NEW d \in Calls \ {c}
        PROVE  CallHonest(call'[d], net'[d], client.build, store')
    BY <1>1, HonestStays DEF Honest
  <1> QED BY <1>1 DEF Honest
\* A call that ends with a summary that is honest, or with none.
LEMMA EndsHonest ==
  ASSUME IInv, Honest, NEW c \in Calls, NEW result, NEW reports, Ends(c, result, reports),
         SummaryHonest([call[c] EXCEPT !.result = result], client.build, store)
  PROVE  Honest'
  <1> DEFINE r == call[c]
             s == call'[c]
             t == [r EXCEPT !.result = result]
  <1>1. CallTyped(r, net[c])
    BY DEF IInv, CallGood
  <1>2. /\ s.kind = r.kind /\ s.stage = "done" /\ s.kept = r.kept /\ s.result = result
        /\ t.kind = r.kind /\ t.kept = r.kept /\ t.result = result
    BY <1>1 DEF Ends, IInv, CallTyped, Fields
  <1>3. /\ UNCHANGED client /\ store' = store
        /\ \A d \in Calls \ {c} : call'[d] = call[d] /\ net'[d] = net[d]
    BY DEF Ends, IInv
  <1> HIDE DEF r, s, t
  <1>4. SummaryHonest(s, client.build, store)
    BY <1>2 DEF SummaryHonest, t, r
  <1>5. CallHonest(s, net'[c], client.build, store')
    BY <1>2, <1>3, <1>4 DEF CallHonest, ProgressHonest, Busy
  <1> QED BY <1>3, <1>5, OneHonest DEF s

\* A pause keeps what is known, and the answer has been handled.
LEMMA PausesHonest ==
  ASSUME IInv, Honest, NEW c \in Calls, NEW delay, Pauses(c, delay), call[c].stage = "sending"
  PROVE  Honest'
  <1> DEFINE r == call[c]
             s == call'[c]
  <1>1. CallTyped(r, net[c]) /\ CallHonest(r, net[c], client.build, store)
    BY DEF IInv, CallGood, Honest
  <1>2. /\ s.kind = r.kind /\ s.stage = "waiting" /\ s.kept = r.kept /\ s.result = r.result
        /\ s.pending = r.pending /\ s.verdicts = r.verdicts /\ net'[c].is = "quiet"
    BY <1>1 DEF Pauses, IInv, CallTyped, Fields, Quiet
  <1>3. /\ UNCHANGED client /\ store' = store
        /\ \A d \in Calls \ {c} : call'[d] = call[d] /\ net'[d] = net[d]
    BY DEF Pauses, IInv
  <1> HIDE DEF s
  <1>4. CallHonest(s, net'[c], client.build, store')
    BY <1>1, <1>2, <1>3 DEF CallHonest, SummaryHonest, ProgressHonest, Busy
  <1> QED BY <1>3, <1>4, OneHonest DEF s

\* The first attempt carries the whole of a finite batch and knows nothing.
LEMMA LeavesHonest ==
  ASSUME IInv, Honest, NEW c \in Calls, NEW kind, NEW kept, Leaves(c, kind, kept),
         kind = "capture" => IsFiniteSet(kept)
  PROVE  Honest'
  <1> DEFINE s == call'[c]
  <1>1. /\ s.kind = kind /\ s.stage = "sending" /\ s.kept = kept /\ s.result = Nothing
        /\ s.pending = kept /\ s.verdicts = NoVerdicts /\ net'[c].is = "sent"
    BY DEF Leaves, IInv, Idle, Sent
  <1>2. /\ UNCHANGED client /\ store' = store
        /\ \A d \in Calls \ {c} : call'[d] = call[d] /\ net'[d] = net[d]
    BY DEF Leaves, IInv
  <1>3. Persisted(NoVerdicts) = {} /\ DOMAIN NoVerdicts = {}
    BY NoVerdictsTyped DEF Persisted
  <1>4. Nothing.is # "ok"
    BY ResultsDiffer
  <1> HIDE DEF s
  <1>5. CallHonest(s, net'[c], client.build, store')
    BY <1>1, <1>2, <1>3, <1>4 DEF CallHonest, SummaryHonest, ProgressHonest, Busy
  <1> QED BY <1>2, <1>5, OneHonest DEF s

\* A call that sends nothing submits nothing.
LEMMA SkipsHonest ==
  ASSUME IInv, Honest, NEW c \in Calls, NEW kind, NEW result, Skips(c, kind, result),
         kind = "capture" => result = Delivered({})
  PROVE  Honest'
  <1> DEFINE s == call'[c]
  <1>1. s.kind = kind /\ s.stage = "done" /\ s.kept = {} /\ s.result = result
    BY DEF Skips, IInv, Idle
  <1>2. /\ UNCHANGED client /\ store' = store
        /\ \A d \in Calls \ {c} : call'[d] = call[d] /\ net'[d] = net[d]
    BY DEF Skips, IInv
  <1>3. /\ UuidsOf({}) = {} /\ IsFiniteSet({})
        /\ Delivered({}).submitted = Cardinality({}) /\ Persisted(Delivered({}).verdicts) = {}
    BY NoVerdictsTyped, FS_EmptySet DEF UuidsOf, Delivered, Persisted, Ok, Nothing
  <1> HIDE DEF s
  <1>4. CallHonest(s, net'[c], client.build, store')
    BY <1>1, <1>2, <1>3 DEF CallHonest, SummaryHonest, ProgressHonest, Busy
  <1> QED BY <1>2, <1>4, OneHonest DEF s

\* Only the summary of a capture has to be honest.
LEMMA OtherResults ==
  ASSUME NEW r, NEW result, DOMAIN r = Fields, r.kind # "capture" \/ result.is # "ok",
         NEW build, NEW s
  PROVE  SummaryHonest([r EXCEPT !.result = result], build, s)
  BY DEF SummaryHonest, Fields

\* The first step of a call.
LEMMA StartsHonest ==
  ASSUME IInv, Honest, NEW c \in Calls,
         CaptureBatchImmediate(c) \/ GetFeatureFlags(c) \/ GetFeatureFlag(c)
           \/ GetFeatureFlagPayload(c)
  PROVE  Honest'
  <1>1. CASE CaptureBatchImmediate(c)
    <2>1. PICK ask \in Asks[c] :
            \E kept \in SUBSET ask.events :
              IF client.disabled \/ kept = {} THEN Skips(c, "capture", Delivered({}))
              ELSE Leaves(c, "capture", kept)
      BY <1>1 DEF CaptureBatchImmediate
    <2>2. \A kept \in SUBSET ask.events : IsFiniteSet(kept)
      BY InlineAssumption, FS_Subset
    <2> QED BY <2>1, <2>2, SkipsHonest, LeavesHonest
  <1>2. CASE GetFeatureFlags(c)
    BY <1>2, SkipsHonest, LeavesHonest DEF GetFeatureFlags
  <1>3. CASE GetFeatureFlag(c)
    <2>1. PICK ask \in Asks[c] :
            /\ ask.kind \in {"flag", "enabled"}
            /\ \/ \E value : Skips(c, ask.kind, Ok(value))
               \/ Leaves(c, ask.kind, {})
      BY <1>3 DEF GetFeatureFlag
    <2>2. ask.kind # "capture"
      BY <2>1
    <2> QED BY <2>1, <2>2, SkipsHonest, LeavesHonest
  <1>4. CASE GetFeatureFlagPayload(c)
    BY <1>4, SkipsHonest, LeavesHonest DEF GetFeatureFlagPayload
  <1> QED BY <1>1, <1>2, <1>3, <1>4

\* The server answers what it has stored: over V0 a success is for the whole request, over V1
\* the verdicts are for what they name.
LEMMA NetworkHonest ==
  ASSUME IInv, Honest, NEW c \in Calls, Network(c)
  PROVE  Honest'
  <1> DEFINE r == call[c]
             n == net'[c]
  <1>1. CallTyped(r, net[c]) /\ CallHonest(r, net[c], client.build, store)
    BY DEF IInv, CallGood, Honest
  <1>2. /\ UNCHANGED <<client, call>> /\ store \subseteq store'
        /\ \A d \in Calls \ {c} : net'[d] = net[d]
    BY DEF Network, ServeCapture, ServeFlags, Lose, IInv
  <1>3. CallHonest(r, net[c], client.build, store')
    BY <1>1, <1>2, HonestStays
  <1>4. (r.kind = "capture" /\ n.is = "answer" /\ Success(n.status)) =>
          IF client.build = "v0" THEN UuidsOf(r.pending) \subseteq store'
          ELSE Persisted(n.verdicts) \subseteq store'
    <2>1. CASE ServeCapture(c)
      <3>1. PICK status \in Statuses, header \in Headers, parses \in BOOLEAN :
              \E answered \in SUBSET UuidsOf(r.pending) :
              \E verdicts \in [answered -> Verdicts], stored \in SUBSET UuidsOf(r.pending) :
                /\ MayStore(c, status, verdicts, stored)
                /\ net' = [net EXCEPT ![c] = Answer(status, header, parses, verdicts)]
                /\ store' = store \union stored
        BY <2>1 DEF ServeCapture
      <3>2. PICK verdicts \in UNION {[S -> Verdicts] : S \in SUBSET UuidsOf(r.pending)},
                 stored \in SUBSET UuidsOf(r.pending) :
                /\ MayStore(c, status, verdicts, stored)
                /\ net' = [net EXCEPT ![c] = Answer(status, header, parses, verdicts)]
                /\ store' = store \union stored
        BY <3>1
      <3>3. n.status = status /\ n.verdicts = verdicts
        BY <3>2 DEF IInv, Answer
      <3> HIDE DEF n
      <3>4. Success(n.status) =>
              IF client.build = "v0" THEN UuidsOf(r.pending) \subseteq store'
              ELSE Persisted(n.verdicts) \subseteq store'
        BY <3>2, <3>3 DEF MayStore, Persisted
      <3> QED BY <3>4
    <2>2. CASE ServeFlags(c)
      BY <2>2 DEF ServeFlags
    <2>3. CASE Lose(c)
      <3>1. n.is = "broken"
        BY <2>3 DEF Lose, IInv, Broken
      <3> HIDE DEF n
      <3> QED BY <3>1
    <2> QED BY <2>1, <2>2, <2>3 DEF Network
  <1> HIDE DEF r, n
  <1>5. CallHonest(r, n, client.build, store')
    BY <1>3, <1>4 DEF CallHonest, ProgressHonest
  <1> QED BY <1>2, <1>5, OneHonest DEF r, n

\* The next attempt knows what the one before knew.
LEMMA ElapseHonest ==
  ASSUME IInv, Honest, NEW c \in Calls, Elapse(c)
  PROVE  Honest'
  <1> DEFINE r == call[c]
             s == call'[c]
  <1>1. CallTyped(r, net[c]) /\ CallHonest(r, net[c], client.build, store)
        /\ r.stage = "waiting"
    BY DEF IInv, CallGood, Honest, Elapse
  <1>2. /\ s.kind = r.kind /\ s.stage = "sending" /\ s.kept = r.kept /\ s.result = r.result
        /\ s.pending = r.pending /\ s.verdicts = r.verdicts /\ net'[c].is = "sent"
    BY <1>1 DEF Elapse, IInv, CallTyped, Fields, Sent
  <1>3. /\ UNCHANGED client /\ store' = store
        /\ \A d \in Calls \ {c} : call'[d] = call[d] /\ net'[d] = net[d]
    BY DEF Elapse, IInv
  <1> HIDE DEF s
  <1>4. CallHonest(s, net'[c], client.build, store')
    BY <1>1, <1>2, <1>3 DEF CallHonest, SummaryHonest, ProgressHonest, Busy
  <1> QED BY <1>3, <1>4, OneHonest DEF s

\* A dropped call has no summary.
LEMMA DropHonest ==
  ASSUME IInv, Honest, NEW c \in Calls, DropFuture(c)
  PROVE  Honest'
  <1> DEFINE r == call[c]
             s == call'[c]
  <1>1. CallTyped(r, net[c]) /\ CallHonest(r, net[c], client.build, store)
        /\ r.stage \in Busy
    BY DEF IInv, CallGood, Honest, DropFuture, Busy
  <1>2. s.stage = "dropped" /\ s.result = r.result
    BY <1>1 DEF DropFuture, IInv, CallTyped, Fields
  <1>3. /\ UNCHANGED client /\ store \subseteq store'
        /\ \A d \in Calls \ {c} : call'[d] = call[d] /\ net'[d] = net[d]
    BY DEF DropFuture, IInv
  <1> HIDE DEF s
  <1>4. CallHonest(s, net'[c], client.build, store')
    BY <1>1, <1>2, <1>3 DEF CallHonest, SummaryHonest, ProgressHonest, Busy
  <1> QED BY <1>3, <1>4, OneHonest DEF s

\* Over V0 a success ends the capture, and the whole batch is stored.
LEMMA ReceiveV0Honest ==
  ASSUME IInv, Honest, NEW c \in Calls, ReceiveV0(c)
  PROVE  Honest'
  <1> DEFINE r == call[c]
             asked == Asked(net[c].header)
             step == V0AfterResponse(r.attempt, net[c].status, asked)
  <1>1. CallTyped(r, net[c]) /\ CallHonest(r, net[c], client.build, store)
    BY DEF IInv, CallGood, Honest
  <1>2. /\ r.stage = "sending" /\ net[c].is = "answer" /\ r.kind = "capture"
        /\ client.build = "v0" /\ Follows(c, step, Delivered(r.kept), 0)
    BY DEF ReceiveV0
  <1>3. CASE step.is = "backoff"
    <2>1. Pauses(c, step.delay)
      BY <1>2, <1>3 DEF Follows
    <2> QED BY <1>2, <2>1, PausesHonest
  <1>4. CASE step.is = "fail"
    <2>1. Ends(c, Err(step.error), 0)
      BY <1>2, <1>4 DEF Follows
    <2>2. Err(step.error).is # "ok"
      BY ResultsDiffer
    <2> QED BY <1>1, <2>1, <2>2, OtherResults, EndsHonest DEF CallTyped
  <1>5. CASE step.is \notin {"backoff", "fail"}
    <2>1. Ends(c, Delivered(r.kept), 0)
      BY <1>2, <1>5 DEF Follows
    <2>2. Success(net[c].status)
      BY <1>5, StepsDiffer DEF V0AfterResponse
    <2>3. IsFiniteSet(r.kept) /\ UuidsOf(r.kept) \subseteq store
      BY <1>1, <1>2, <2>2 DEF CallHonest, ProgressHonest, Busy
    <2>4. SummaryHonest([r EXCEPT !.result = Delivered(r.kept)], client.build, store)
      BY <1>1, <1>2, <2>3 DEF SummaryHonest, CallTyped, Fields
    <2> QED BY <2>1, <2>4, EndsHonest
  <1> QED BY <1>3, <1>4, <1>5

\* Over V1 the verdicts gathered from every answer are of submitted events, and those that
\* count as persisted are stored.
LEMMA ReceiveVerdictsHonest ==
  ASSUME IInv, Honest, NEW c \in Calls, ReceiveVerdicts(c)
  PROVE  Honest'
  <1> DEFINE r == call[c]
             s == call'[c]
             n == net[c]
             final == r.attempt >= MaxCaptureAttempts
             retried == Retried(c, final)
             decided == Decided(c, final)
             settled == {u \in UuidsOf(r.pending) \cap DOMAIN n.verdicts :
                           final \/ n.verdicts[u] # "retry"}
  <1>1. CallTyped(r, n) /\ CallHonest(r, n, client.build, store)
    BY DEF IInv, CallGood, Honest
  <1>2. /\ r.stage = "sending" /\ n.is = "answer" /\ r.kind = "capture"
        /\ client.build = "v1" /\ Success(n.status)
    BY DEF ReceiveVerdicts
  <1>3. /\ IsFiniteSet(r.kept) /\ DOMAIN r.verdicts \subseteq UuidsOf(r.kept)
        /\ Persisted(r.verdicts) \subseteq store /\ Persisted(n.verdicts) \subseteq store
    BY <1>1, <1>2 DEF CallHonest, ProgressHonest, Busy
  <1>4. /\ DOMAIN decided = DOMAIN r.verdicts \union settled
        /\ \A u \in DOMAIN r.verdicts \union settled :
             decided[u] = IF u \in settled THEN n.verdicts[u] ELSE r.verdicts[u]
    BY DEF Decided
  <1>5. settled \subseteq UuidsOf(r.kept) /\ settled \subseteq DOMAIN n.verdicts
    BY <1>1 DEF CallTyped, UuidsOf
  <1>6. retried \subseteq r.pending
    BY DEF Retried
  <1>7. DOMAIN decided \subseteq UuidsOf(r.kept) /\ Persisted(decided) \subseteq store
    <2> HIDE DEF settled, decided, r, n
    <2> QED BY <1>3, <1>4, <1>5 DEF Persisted
  <1>8. CASE retried = {}
    <2>1. Ends(c, FromResults(r.kept, decided), 0)
      BY <1>8 DEF ReceiveVerdicts
    <2>2. /\ FromResults(r.kept, decided).submitted = Cardinality(r.kept)
          /\ FromResults(r.kept, decided).verdicts = decided
      BY DEF FromResults, Ok, Nothing
    <2> HIDE DEF decided
    <2>3. SummaryHonest([r EXCEPT !.result = FromResults(r.kept, decided)], client.build, store)
      BY <1>1, <1>2, <1>3, <1>7, <2>2 DEF SummaryHonest, CallTyped, Fields, Persisted
    <2> QED BY <2>1, <2>3, EndsHonest
  <1>9. CASE retried # {}
    <2>1. /\ call' = [call EXCEPT ![c].stage = "waiting", ![c].pending = retried,
                        ![c].verdicts = decided,
                        ![c].delay = BackoffDuration(r.attempt, Asked(n.header))]
          /\ net' = [net EXCEPT ![c] = Quiet] /\ UNCHANGED <<client, store, told>>
      BY <1>9 DEF ReceiveVerdicts
    <2> HIDE DEF decided, retried
    <2>2. /\ s.kind = r.kind /\ s.stage = "waiting" /\ s.kept = r.kept /\ s.result = r.result
          /\ s.pending = retried /\ s.verdicts = decided /\ net'[c].is = "quiet"
      BY <1>1, <2>1 DEF IInv, CallTyped, Fields, Quiet
    <2>3. \A d \in Calls \ {c} : call'[d] = call[d] /\ net'[d] = net[d]
      BY <2>1 DEF IInv
    <2> HIDE DEF s, r, n
    <2>4. CallHonest(s, net'[c], client.build, store')
      BY <1>1, <1>2, <1>3, <1>7, <2>1, <2>2
      DEF CallHonest, SummaryHonest, ProgressHonest, Busy
    <2> QED BY <2>1, <2>3, <2>4, OneHonest DEF s
  <1> QED BY <1>8, <1>9

\* Every other answer ends the call in an Err, or in the value of a flag, or pauses it.
LEMMA OthersHonest ==
  ASSUME IInv, Honest, NEW c \in Calls,
         \/ ReceiveRefusal(c) \/ CaptureBroken(c) \/ ReceiveFlags(c) \/ FlagsBroken(c)
         \/ ReceivePayload(c) \/ PayloadBroken(c)
  PROVE  Honest'
  <1>1. call[c].stage = "sending" /\ DOMAIN call[c] = Fields
    BY DEF IInv, CallGood, CallTyped, ReceiveRefusal, CaptureBroken, ReceiveFlags, FlagsBroken,
           ReceivePayload, PayloadBroken
  <1>2. \/ \E delay : Pauses(c, delay)
        \/ \E result, reports : /\ Ends(c, result, reports)
                                /\ call[c].kind # "capture" \/ result.is # "ok"
    <2>1. CASE ReceiveRefusal(c)
      BY <2>1, ResultsDiffer DEF ReceiveRefusal
    <2>2. CASE CaptureBroken(c)
      BY <2>2, ResultsDiffer DEF CaptureBroken, Follows
    <2>3. CASE ReceiveFlags(c)
      BY <2>3 DEF ReceiveFlags
    <2>4. CASE FlagsBroken(c)
      BY <2>4 DEF FlagsBroken, Follows
    <2>5. CASE ReceivePayload(c)
      BY <2>5 DEF ReceivePayload
    <2>6. CASE PayloadBroken(c)
      BY <2>6 DEF PayloadBroken
    <2> QED BY <2>1, <2>2, <2>3, <2>4, <2>5, <2>6
  <1> QED BY <1>1, <1>2, PausesHonest, EndsHonest, OtherResults

LEMMA NextHonest ==
  ASSUME IInv, Honest, [Next]_vars
  PROVE  Honest'
  <1>1. CASE UNCHANGED vars
    BY <1>1 DEF Honest, vars
  <1>2. ASSUME NEW c \in Calls, Network(c)
        PROVE  Honest'
    BY <1>2, NetworkHonest
  <1>3. ASSUME NEW c \in Calls, Receive(c)
        PROVE  Honest'
    BY <1>3, ReceiveV0Honest, ReceiveVerdictsHonest, OthersHonest DEF Receive
  <1>4. ASSUME NEW c \in Calls, Elapse(c)
        PROVE  Honest'
    BY <1>4, ElapseHonest
  <1>5. ASSUME NEW c \in Calls, DropFuture(c)
        PROVE  Honest'
    BY <1>5, DropHonest
  <1>6. ASSUME NEW c \in Calls,
               CaptureBatchImmediate(c) \/ GetFeatureFlags(c) \/ GetFeatureFlag(c)
                 \/ GetFeatureFlagPayload(c)
        PROVE  Honest'
    BY <1>6, StartsHonest
  <1> QED BY <1>1, <1>2, <1>3, <1>4, <1>5, <1>6 DEF Next, Finished

LEMMA InitHonest == ASSUME Init PROVE Honest
  <1>1. CallHonest(Idle, Quiet, client.build, {})
    BY ResultsDiffer, IdleFields DEF CallHonest, SummaryHonest, ProgressHonest, Busy
  <1> QED BY <1>1 DEF Init, Honest

\* The summary of an immediate capture never claims that more of its events are persisted
\* than the server has stored, after any partial answers, retries, omitted events, lost
\* answers and uuids that events share.
THEOREM SummariesAreTrue == Spec => []SummaryTruthful
  <1>1. Init => Honest
    BY InitHonest
  <1>2. IInv /\ Honest /\ [Next]_vars => Honest'
    BY NextHonest
  <1>3. IInv /\ Honest => SummaryTruthful
    <2> SUFFICES ASSUME IInv, Honest, NEW c \in Calls,
                        call[c].kind = "capture", call[c].result.is = "ok"
                 PROVE  NotPersisted(call[c].result) >=
                          Cardinality({e \in call[c].kept : UuidOf[e] \notin store})
      BY DEF SummaryTruthful
    <2>1. /\ call[c].kept \subseteq Events /\ client.build \in {"v0", "v1"}
          /\ SummaryHonest(call[c], client.build, store)
      BY DEF IInv, CallGood, CallTyped, Honest, CallHonest
    <2> QED BY <2>1, HonestMeans
  <1> QED BY <1>1, <1>2, <1>3, InvAlways, PTL DEF Spec

=============================================================================
