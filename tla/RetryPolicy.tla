---------------------------- MODULE RetryPolicy ----------------------------
(***************************************************************************)
(* The delivery worker's decisions, as functions: what one attempt means   *)
(* for the batch (classify), and when a retry is due (fullJitter and       *)
(* parseRetryAfter of internal/delivery/worker.go).                        *)
(***************************************************************************)
EXTENDS Integers, FiniteSetsExt

\* Mutant: whatever is no error status counts as a success.
ClassifyByStatus(status, sendFailed, attempts, operatorRetryLimit) ==
    IF status < 400 THEN "success"
    ELSE IF status \in {401, 403, 404} /\ attempts + 1 >= operatorRetryLimit THEN "permanent"
    ELSE IF status \in {401, 403, 404, 408, 429} \/ status >= 500 THEN "retryable"
    ELSE "permanent"

\* A failed send is retryable whatever status came with it; 401, 403 and 404
\* are retryable while the batch has attempts left.
Classify(status, sendFailed, attempts, operatorRetryLimit) ==
    IF sendFailed \/ status \in {408, 429} \/ status >= 500 THEN "retryable"
    ELSE IF status \in 200..299 THEN "success"
    ELSE IF status \in {401, 403, 404}
         THEN IF attempts + 1 < operatorRetryLimit THEN "retryable" ELSE "permanent"
    ELSE IF status \in 400..499 THEN "permanent"
    ELSE "retryable"

-----------------------------------------------------------------------------
(* When a retry is due.  A duration is a signed integer of limited width;   *)
(* maxDuration is its largest value and second the length of a second.      *)

Wrapped(n, maxDuration) ==
    ((n + maxDuration + 1) % (2 * maxDuration + 2)) - maxDuration - 1

\* Mutant: the first retry is doubled already.
BackoffAhead(attempts, base, max) == Min({base * 2 ^ (attempts + 1), max})

\* The base delay doubled once per earlier attempt, up to max.
Backoff(attempts, base, max) ==
    LET delay[n \in 0..attempts] ==
            IF n = 0 THEN base
            ELSE IF delay[n - 1] >= max \div 2 THEN max
            ELSE 2 * delay[n - 1]
    IN  Min({delay[attempts], max})

\* Mutant: the longest number of seconds that fits is refused.
ParseBelowLimit(header, second, maxDuration) ==
    CASE header.kind = "seconds" /\ header.value > 0
         /\ header.value < maxDuration \div second ->
            Wrapped(header.value * second, maxDuration)
      [] header.kind = "date" /\ header.value > 0 -> header.value
      [] OTHER -> 0

\* header is a Retry-After: none or an unusable one, a number of seconds, or a
\* date given by the time from now to it (negative for a past one).
ParseRetryAfter(header, second, maxDuration) ==
    CASE header.kind = "seconds" /\ header.value \in 1..(maxDuration \div second) ->
            Wrapped(header.value * second, maxDuration)
      [] header.kind = "date" /\ header.value > 0 -> header.value
      [] OTHER -> 0

\* Mutant: Retry-After has no ceiling.
RetryDelayUncapped(backoff, jitter, asked, retryAfterCap, minimum) ==
    Max({(backoff * Min({Max({jitter, 0}), 100})) \div 100, asked, minimum})

\* The delay of the next attempt.  jitter is what Random returned, in percent;
\* minimum is minimumRetryDelay.
RetryDelay(backoff, jitter, asked, retryAfterCap, minimum) ==
    Max({(backoff * Min({Max({jitter, 0}), 100})) \div 100,
         Min({asked, retryAfterCap}),
         minimum})
=============================================================================
