---------------------------- MODULE CallbackRetry ----------------------------
(***************************************************************************)
(* The retry schedule of one callback delivery: how an answer of the       *)
(* endpoint is classified and when the next attempt is made (push.rs:      *)
(* RetryPolicy, classify_status, retry_after_seconds_at; callback_worker.rs*)
(* process, retry_or_dead_at).  Integers saturate at 2^Width - 1 as u64    *)
(* values do at 2^64 - 1.                                                  *)
(***************************************************************************)
EXTENDS Integers, Sequences

CONSTANTS Width,                          \* bits of an unsigned integer
          Policies,                       \* RetryPolicy values
          Samples,                        \* jitter samples
          Headers,                        \* Retry-After headers: sequences of values
          Second,                         \* milliseconds of a second
          Horizon,                        \* bound on database time
          NoDelay

MaxWord == 2^Width - 1
Saturated(n) == IF n > MaxWord THEN MaxWord ELSE n
Least(a, b) == IF a < b THEN a ELSE b
Clamp(n, low, high) == IF n < low THEN low ELSE Least(n, high)

ASSUME RetryAssumption ==
  /\ Width \in Nat /\ Second \in Nat \ {0}
  /\ \A p \in Policies : /\ p.max_attempts \in 1..32 /\ p.base_ms \in 1..MaxWord
                         /\ p.max_ms \in p.base_ms..MaxWord
                         /\ p.max_age_ms \in p.max_ms..MaxWord

VARIABLES retry_policy, attempt, now, expires_at,
          state,       \* "sending", "waiting", "delivered", "dead"
          retry_at, status, header, delay

scheduleVars == <<retry_policy, attempt, now, expires_at, state, retry_at, status, header, delay>>

(***************************************************************************)
(* RetryPolicy.                                                            *)
(***************************************************************************)
can_attempt(p, n, age) == n > 0 /\ n <= p.max_attempts /\ age < p.max_age_ms

\* checked_shl of one by at most 63, a saturating product and the minimum.
full_jitter_ms(p, n, sample) ==
  IF ~can_attempt(p, n, 0) THEN NoDelay
  ELSE LET shift == 2^Least(n - 1, Width - 1)
           ceiling == Least(Saturated(p.base_ms * shift), p.max_ms)
       IN sample % Saturated(ceiling + 1)

\* Faulty variant: what the endpoint asks for is taken as it is.
clamp_delay_ms_peer(p, requested, n, sample) ==
  IF requested # NoDelay THEN requested
  ELSE LET jitter == full_jitter_ms(p, n, sample) IN
       IF jitter = NoDelay THEN NoDelay ELSE Clamp(jitter, p.base_ms, p.max_ms)

clamp_delay_ms(p, requested, n, sample) ==
  LET selected == IF requested # NoDelay THEN requested ELSE full_jitter_ms(p, n, sample) IN
  IF selected = NoDelay THEN NoDelay ELSE Clamp(selected, p.base_ms, p.max_ms)

(***************************************************************************)
(* The answer of the endpoint.                                             *)
(***************************************************************************)
classify_status(s) ==
  IF s \in 200..299 THEN "delivered"
  ELSE IF s \in {408, 425, 429, 500, 502, 503, 504} THEN "retry"
  ELSE "permanent"

\* A value is a number of seconds or a date, given here by its distance from
\* the clock; a date that is not in the future does not count.
retry_after_seconds_at(s, values, minimum, maximum) ==
  IF \/ s \notin {429, 503} \/ Len(values) # 1 \/ minimum > maximum
     \/ values[1].kind = "malformed"
     \/ values[1].kind = "date" /\ values[1].seconds <= 0
  THEN NoDelay
  ELSE Clamp(values[1].seconds, minimum, maximum)

Statuses == {200, 299, 300, 404, 429, 500, 503}

ScheduleInit ==
  /\ retry_policy \in Policies /\ attempt = 1 /\ now = 0
  /\ expires_at = retry_policy.max_age_ms
  /\ state = "sending" /\ retry_at = 0 /\ status = 0 /\ header = <<>> /\ delay = NoDelay

Tick ==
  /\ now < Horizon /\ state \in {"sending", "waiting"}
  /\ now' = now + 1
  /\ UNCHANGED <<retry_policy, attempt, expires_at, state, retry_at, status, header, delay>>

\* The next attempt is claimed when it is due; an expired one is not sent.
NextAttempt ==
  /\ state = "waiting" /\ now >= retry_at
  /\ attempt' = attempt + 1
  /\ state' = IF now >= expires_at THEN "dead" ELSE "sending"
  /\ UNCHANGED <<retry_policy, now, expires_at, retry_at, status, header, delay>>

Settled(s) ==
  /\ state' = s /\ retry_at' = retry_at /\ delay' = NoDelay

retry_or_dead_at(requested, sample) ==
  LET d == clamp_delay_ms(retry_policy, requested, attempt + 1, sample) IN
  IF attempt + 1 > retry_policy.max_attempts \/ d = NoDelay \/ now + d >= expires_at
  THEN Settled("dead")
  ELSE state' = "waiting" /\ retry_at' = now + d /\ delay' = d

\* send_enrollment reads Retry-After in seconds without bounds of its own; the
\* worker turns it into milliseconds.
RequestedDelay(s, values) ==
  LET after == retry_after_seconds_at(s, values, 0, MaxWord \div Second) IN
  IF after = NoDelay THEN NoDelay ELSE Saturated(after * Second)

Answer(s, values, sample) ==
  /\ state = "sending"
  /\ status' = s /\ header' = values
  /\ CASE classify_status(s) = "delivered" -> Settled("delivered")
       [] classify_status(s) = "permanent" -> Settled("dead")
       [] OTHER -> retry_or_dead_at(RequestedDelay(s, values), sample)
  /\ UNCHANGED <<retry_policy, attempt, now, expires_at>>

\* A transport error that is not permanent.
Unreachable(sample) ==
  /\ state = "sending"
  /\ status' = 0 /\ header' = <<>>
  /\ retry_or_dead_at(NoDelay, sample)
  /\ UNCHANGED <<retry_policy, attempt, now, expires_at>>

ScheduleDone == state \in {"delivered", "dead"} \/ now = Horizon

ScheduleNext ==
  \/ Tick \/ NextAttempt
  \/ \E n \in Samples : Unreachable(n) \/ \E s \in Statuses, h \in Headers : Answer(s, h, n)
  \/ ScheduleDone /\ UNCHANGED scheduleVars

ScheduleSpec == ScheduleInit /\ [][ScheduleNext]_scheduleVars

(***************************************************************************)
(* Properties.                                                             *)
(***************************************************************************)
\* However large the values the endpoint sends and however many attempts were
\* made, a scheduled delay lies between base and maximum of the policy:
\* "clamp both peer-requested values and jitter" (push.rs:1107).
DelayWithinPolicy == delay # NoDelay => delay \in retry_policy.base_ms..retry_policy.max_ms

\* The jitter is drawn below min(base * 2^(a - 1), maximum) computed in
\* exact arithmetic: saturation and the limit of the shift cannot be observed
\* (push.rs:1122).
JitterIsExact ==
  \A a \in 1..retry_policy.max_attempts, n \in Samples :
    full_jitter_ms(retry_policy, a, n) = n % (Least(retry_policy.base_ms * 2^(a - 1), retry_policy.max_ms) + 1)

\* No attempt is planned at or after the expiry of the event, whatever delay
\* the endpoint asked for (callback_worker.rs:771).
RetriesBounded == state = "waiting" => retry_at < expires_at

\* The endpoint influences the schedule only through one well-formed value of
\* a 429 or 503; any other header leaves the delay to the jitter.
PeerCannotSchedule ==
  (delay # NoDelay /\ (status \notin {429, 503} \/ Len(header) # 1)) =>
     \E n \in Samples, a \in {attempt, attempt + 1} : delay = clamp_delay_ms(retry_policy, NoDelay, a, n)

\* The schedule as a whole: no attempt beyond the limit, every delay and date
\* within the policy, and no influence of the endpoint beyond it.
ScheduleWithinPolicy ==
  /\ attempt \in 1..retry_policy.max_attempts
  /\ DelayWithinPolicy /\ JitterIsExact /\ RetriesBounded /\ PeerCannotSchedule
=============================================================================
