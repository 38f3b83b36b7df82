---------------------------- MODULE RetryPolicy ----------------------------
(* client/retry.rs and error.rs: what a finished attempt means for the next one, without  *)
(* I/O. Delays are milliseconds; a u64 is a natural up to WordMax and saturates there. An  *)
(* absent Retry-After is 0, which the parser never returns.                                *)
EXTENDS Integers

CONSTANTS
  MaxCaptureAttempts,  \* max_capture_attempts: the first attempt included
  FlagRetries,         \* feature_flags_request_max_retries: the first attempt not included
  InitialBackoff,      \* retry_initial_backoff_ms
  MaxBackoff,          \* retry_max_backoff_ms
  WordMax              \* u64::MAX

ASSUME PolicyAssumption ==
  /\ MaxCaptureAttempts \in Nat /\ FlagRetries \in Nat
  /\ WordMax \in Nat /\ InitialBackoff \in 0..WordMax /\ MaxBackoff \in 0..WordMax

Lesser(a, b) == IF a <= b THEN a ELSE b
Greater(a, b) == IF a <= b THEN b ELSE a
Saturated(n) == IF n \in 0..WordMax THEN n ELSE WordMax

\* A Retry-After header: [form, value], a delay or a date, or something else.
ParseHttpDate(header) == IF header.form = "date" THEN header.value ELSE 0
ParseRetryAfterAt(header, now) ==
  CASE header.form = "seconds" -> header.value
    [] header.form # "seconds" /\ ParseHttpDate(header) > now -> ParseHttpDate(header) - now
    [] OTHER -> 0

\* mutant: the server's header is taken as it is.
UnclampedBackoff(attempt, asked) == Greater(Lesser(InitialBackoff, MaxBackoff), asked)

\* Exponential from InitialBackoff up to MaxBackoff; what the server asks for can only
\* lengthen it, and not beyond MaxBackoff.
BackoffDuration(attempt, asked) ==
  LET doublings == Greater(attempt - 1, 0)
      configured == Lesser(Saturated(InitialBackoff * Saturated(2 ^ doublings)), MaxBackoff)
  IN Greater(configured, Lesser(asked, MaxBackoff))

Done == [is |-> "done"]
Backoff(delay) == [is |-> "backoff", delay |-> delay]
Fail(error) == [is |-> "fail", error |-> error]

Success(status) == status \in 200..299

\* Error::from_http_response of a status that is not a success.
FromHttpResponse(status) ==
  CASE status = 401 -> "Unauthorized"
    [] status = 402 -> "BillingLimitExceeded"
    [] status = 429 -> "RateLimit"
    [] status \in {400, 413} -> "BadRequest"
    [] status \in 500..599 -> "ServerError"
    [] OTHER -> "Connection"

RetryableStatus(status) == status \in {408, 500, 502, 503, 504}

\* V0 also retries a 429 that says when to come back.
ShouldRetryV0(status, asked) == RetryableStatus(status) \/ (status = 429 /\ asked > 0)

V0AfterResponse(attempt, status, asked) ==
  IF ShouldRetryV0(status, asked) /\ attempt < MaxCaptureAttempts
  THEN Backoff(BackoffDuration(attempt, asked))
  ELSE IF Success(status) THEN Done ELSE Fail(FromHttpResponse(status))

\* The same for V0 and V1.
AfterTransportError(attempt) ==
  IF attempt >= MaxCaptureAttempts THEN Fail("Connection")
  ELSE Backoff(BackoffDuration(attempt, 0))

RetryableFlagsStatus(status) == status \in {502, 504}

\* Done is any response that is not retried; the caller looks at the status.
FlagsAfterResponse(attempt, status) ==
  IF RetryableFlagsStatus(status) /\ attempt <= FlagRetries
  THEN Backoff(BackoffDuration(attempt, 0)) ELSE Done

\* What reqwest reports: its own timeout, an io::Error of some kind, or neither, with or
\* without "connection refused" in the text.
TransportErrors == {"timeout", "reset", "timed_out", "eof", "other_io", "refused", "other"}
RetryableFlagsError(error) == error \notin {"other_io", "refused"}

FlagsAfterTransportError(attempt, error) ==
  IF ~RetryableFlagsError(error) \/ attempt > FlagRetries THEN Fail("Connection")
  ELSE Backoff(BackoffDuration(attempt, 0))
=============================================================================
