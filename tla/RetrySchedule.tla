--------------------------- MODULE RetrySchedule ---------------------------
(***************************************************************************)
(* One FIFO head that keeps failing: the worker's options as New settles   *)
(* them, and one retry after another with any answer of the upstream and   *)
(* any value of Random.                                                    *)
(***************************************************************************)
EXTENDS RetryPolicy

CONSTANTS
    BaseRetries, MaxRetries,    \* what Options may ask for (0: the default)
    DefaultBase, DefaultMax,    \* defaultBaseRetry, defaultMaxRetry
    RetryAfterCap,              \* Options.RetryAfterCap
    MinimumDelay,               \* minimumRetryDelay
    Second, MaxDuration,        \* the unit and the range of a duration
    Headers,                    \* [kind, value]: the Retry-After headers
    Jitters,                    \* what Random may return, in percent
    MaxRetried                  \* bound: retries of one batch

ASSUME ScheduleAssumption ==
    /\ DefaultBase \in Nat \ {0} /\ DefaultMax \in Nat /\ DefaultBase <= DefaultMax
    /\ BaseRetries \subseteq Nat /\ MaxRetries \subseteq Nat
    /\ Second \in Nat \ {0} /\ MaxDuration \in Nat /\ RetryAfterCap \in 1..MaxDuration
    /\ MinimumDelay \in Nat \ {0} /\ MaxRetried \in Nat /\ Jitters \subseteq Int
    /\ Headers \subseteq [kind : {"none", "seconds", "date"}, value : Int]

VARIABLES
    base, max,     \* the worker's options
    attempts,      \* attempts made so far
    header,        \* the Retry-After of the last answer
    delay          \* the delay the last answer led to

retryVars == <<base, max, attempts, header, delay>>

NoHeader == [kind |-> "none", value |-> 0]

\* New: a missing option gets its default, and the base stays below the maximum.
RetryInit ==
    /\ \E b \in BaseRetries, m \in MaxRetries :
          /\ max = (IF m = 0 THEN DefaultMax ELSE m)
          /\ base = Min({IF b = 0 THEN DefaultBase ELSE b, max})
    /\ attempts = 0
    /\ header = NoHeader
    /\ delay = MinimumDelay

\* deliverHead schedules the retry of an attempt that was not answered for good.
Retry ==
    /\ attempts < MaxRetried
    /\ \E h \in Headers, jitter \in Jitters :
          /\ header' = h
          /\ delay' = RetryDelay(Backoff(attempts, base, max), jitter,
                                 ParseRetryAfter(h, Second, MaxDuration),
                                 RetryAfterCap, MinimumDelay)
    /\ attempts' = attempts + 1
    /\ UNCHANGED <<base, max>>

RetrySpec == RetryInit /\ [][Retry]_retryVars

-----------------------------------------------------------------------------
(* Properties *)

\* The time until the upstream wants to be asked again, however large.
Asked(h) ==
    CASE h.kind = "none" -> 0
      [] h.kind = "seconds" -> h.value * Second
      [] h.kind = "date" -> h.value

\* Neither a long Retry-After nor many attempts stall the FIFO head longer
\* than the larger of the two ceilings, and no answer makes the worker spin
\* (fullJitter).
StallBounded == MinimumDelay <= delay /\ delay <= Max({max, RetryAfterCap, MinimumDelay})

\* A Retry-After that a duration can hold is honoured up to its ceiling,
\* whatever Random returns.
RetryAfterHonoured ==
    Asked(header) <= MaxDuration => delay >= Min({Asked(header), RetryAfterCap})

\* 2 ^ n
PowerOfTwo(n) ==
    LET power[k \in 0..n] == IF k = 0 THEN 1 ELSE 2 * power[k - 1]
    IN  power[n]

\* The backoff doubles with each attempt until it meets its ceiling: it is
\* the doubled base, or the ceiling once twice the delay would come to it.
BackoffDoubles ==
    LET doubled == base * PowerOfTwo(attempts)
        backoff == Backoff(attempts, base, max)
    IN  /\ Min({doubled, max}) <= backoff
        /\ backoff <= Min({doubled + 1, max})
=============================================================================
