------------------------------- MODULE Delays -------------------------------
(***************************************************************************)
(* How long the SDK waits: before a retry (sleep and parseRetryAfter in     *)
(* common/net/http-client.ts, getRetryAfterMs in fetch-client.ts) and       *)
(* before the next poll (scheduleNextPoll in                                *)
(* feature-flags/runtime-client.ts).  Times are whole milliseconds, as      *)
(* setTimeout takes them; a random factor is given in thousandths.          *)
(***************************************************************************)
EXTENDS Integers, FiniteSetsExt

CONSTANT TIMEOUT_MAX    \* the most setTimeout can wait, 2147483647 ms in Node

-----------------------------------------------------------------------------
(* Retries. *)

MAXIMUM_RETRY_AFTER_TIME == 60000
MINIMUM_SLEEP_TIME == 500
MAXIMUM_SLEEP_TIME == 8000

(* A Retry-After header: not there, seconds, a date so many milliseconds    *)
(* from now, or a text that is neither.  Date.parse also takes a negative   *)
(* or a fractional number for a date of the past: such a header is one.     *)
NoHeader == [form |-> "absent", value |-> 0]
Null == -1

(* Mutant: a date is not capped. *)
ParseRetryAfterAnyDate(header) ==
    CASE header.form = "seconds" -> Min({header.value * 1000, MAXIMUM_RETRY_AFTER_TIME})
      [] header.form = "date" -> Max({header.value, 0})
      [] OTHER -> Null

ParseRetryAfter(header) ==
    CASE header.form = "seconds" -> Min({header.value * 1000, MAXIMUM_RETRY_AFTER_TIME})
      [] header.form = "date" -> Min({Max({header.value, 0}), MAXIMUM_RETRY_AFTER_TIME})
      [] OTHER -> Null

(* Only an answer of the server has headers; a network error or the 408 of  *)
(* the SDK's own timer has none.                                            *)
GetRetryAfterMs(failure) ==
    IF failure.answered THEN ParseRetryAfter(failure.header) ELSE Null

\* MINIMUM_SLEEP_TIME * 1.5 ^ n
Backoff[n \in Nat] == IF n = 0 THEN MINIMUM_SLEEP_TIME ELSE (Backoff[n - 1] * 3) \div 2

\* Math.random() + 0.5, in thousandths
RetryJitter == 500 .. 1499

GetSleepTime(retryAttempt, jitter) ==
    (Min({Backoff[retryAttempt], MAXIMUM_SLEEP_TIME}) * jitter) \div 1000

(* Mutant: a date that has passed counts as no header. *)
SleepUnlessPositive(retryAttempt, failure) ==
    IF GetRetryAfterMs(failure) > 0 THEN GetRetryAfterMs(failure)
    ELSE GetSleepTime(retryAttempt, failure.jitter)

(* `retryAfterMs != null`: a 0 of the server is kept. *)
Sleep(retryAttempt, failure) ==
    IF GetRetryAfterMs(failure) # Null THEN GetRetryAfterMs(failure)
    ELSE GetSleepTime(retryAttempt, failure.jitter)

(* The server decides when to retry, up to a minute; where it says nothing, *)
(* or nothing legible, no retry is sent at once and none waits for more     *)
(* than 12 seconds.                                                         *)
HonoursRetryAfter(retryAttempt, failure) ==
    LET slept == Sleep(retryAttempt, failure)
        asked == IF failure.header.form = "seconds" THEN 1000 * failure.header.value
                                                    ELSE failure.header.value
    IN IF failure.answered /\ failure.header.form \in {"seconds", "date"}
       THEN slept = Min({Max({asked, 0}), MAXIMUM_RETRY_AFTER_TIME})
       ELSE slept \in 500 .. 12000

(* A failed attempt: answered, with a Retry-After or none, or given up.     *)
IsFailure(f) ==
    /\ f.answered \in BOOLEAN
    /\ f.header.form \in {"absent", "seconds", "date", "garbage"} /\ f.header.value \in Int
    /\ f.header.form = "seconds" => f.header.value >= 0
    /\ f.jitter \in RetryJitter

-----------------------------------------------------------------------------
(* Polls. *)

DEFAULT_POLLING_INTERVAL == 30000
MIN_POLLING_INTERVAL == 5000
MIN_DELAY == 1000
INITIAL_RETRY == 1000
MAX_RETRY == 60000

\* options.pollingIntervalMs or its default, raised to the least
PollingInterval(option) ==
    Max({MIN_POLLING_INTERVAL, IF option = Null THEN DEFAULT_POLLING_INTERVAL ELSE option})

\* INITIAL_RETRY * 2 ^ n
PollBackoff[n \in Nat] == IF n = 0 THEN INITIAL_RETRY ELSE PollBackoff[n - 1] * 2

\* 1 + (Math.random() * 2 - 1) * 0.1, in thousandths
PollJitter == 900 .. 1099

(* Mutant: an outage shortens a long polling interval. *)
BaseDelayOfErrors(interval, consecutiveErrors) ==
    IF consecutiveErrors = 0 THEN interval
    ELSE Min({PollBackoff[consecutiveErrors - 1], MAX_RETRY})

BaseDelay(interval, consecutiveErrors) ==
    IF consecutiveErrors = 0 THEN interval
    ELSE Max({interval, Min({PollBackoff[consecutiveErrors - 1], MAX_RETRY})})

(* setTimeout, given thousandths of a millisecond: what it cannot count,    *)
(* Infinity and NaN included, it takes for 1 ms.                            *)
SetTimeout(thousandths) ==
    IF thousandths > 1000 * TIMEOUT_MAX THEN 1 ELSE thousandths \div 1000

NextPoll(option, consecutiveErrors, jitter) ==
    SetTimeout(Max({1000 * MIN_DELAY,
                    BaseDelay(PollingInterval(option), consecutiveErrors) * jitter}))

(* However long an outage lasts, a client polls no more often than every    *)
(* 4.5 seconds and no less often than 10 % above the larger of its interval *)
(* and a minute, and errors never make it poll more often: unless the       *)
(* interval it is configured with, after the random factor, is more than    *)
(* setTimeout can count.  Then, and in no other case, it polls without a    *)
(* pause.                                                                   *)
IsSpaced(option, consecutiveErrors, jitter) ==
    LET interval == PollingInterval(option)
        next == NextPoll(option, consecutiveErrors, jitter)
    IN IF interval * jitter > 1000 * TIMEOUT_MAX
       THEN next = 1
       ELSE /\ next >= 4500
            /\ 10 * next <= 11 * Max({interval, MAX_RETRY})
            /\ next >= NextPoll(option, 0, jitter)

(* The longest backoff is a delay setTimeout can count. *)
ASSUME TimeoutAssumption == TIMEOUT_MAX \in Nat /\ 10 * TIMEOUT_MAX >= 11 * MAX_RETRY
=============================================================================
