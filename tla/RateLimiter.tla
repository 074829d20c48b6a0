---------------------------- MODULE RateLimiter ----------------------------
(***************************************************************************)
(* The fixed-window request limiter, windowLimiter of internal/server.     *)
(* Each request carries the time it arrived at (serveTrace's now), but     *)
(* Allow runs only after the token has been introspected: the times that   *)
(* reach Allow are up to MaxDelay old and out of order.                    *)
(***************************************************************************)
EXTENDS Integers, FiniteSetsExt, Functions

CONSTANTS
    Sources,     \* limiter keys: token id and source address
    Limit,       \* requests per window
    Window,      \* length of a window
    Maximum,     \* windows kept at once
    MaxDelay,    \* bound: age of the arrival time when Allow runs
    MaxTime,     \* bound: the largest clock value
    NoWindow       \* no window for a source

ASSUME LimiterAssumption ==
    /\ IsFiniteSet(Sources) /\ NoWindow \notin [started: Int, count: Int]
    /\ Limit \in Nat \ {0} /\ Window \in Nat \ {0} /\ Maximum \in Nat \ {0}
    /\ MaxDelay \in Nat /\ MaxDelay < Window /\ MaxTime \in Nat \ {0}

VARIABLES
    entries,     \* the table of windows
    clock,       \* the wall clock
    admitted,    \* per source and clock value: requests let through
    reply      \* the last answer and whom it went to

limiterVars == <<entries, clock, admitted, reply>>

Entry == [started: 1..MaxTime, count: 1..Limit]

LimiterTypeOK ==
    /\ entries \in [Sources -> Entry \cup {NoWindow}]
    /\ clock \in 1..MaxTime
    /\ admitted \in [Sources -> [1..MaxTime -> Nat]]
    /\ reply \in [source: Sources \cup {NoWindow}, answer: {"none", "allowed", "limited"}]

LimiterInit ==
    /\ entries = [s \in Sources |-> NoWindow]
    /\ clock = 1
    /\ admitted = [s \in Sources |-> [t \in 1..MaxTime |-> 0]]
    /\ reply = [source |-> NoWindow, answer |-> "none"]

Size(table) == Cardinality({s \in Sources : table[s] # NoWindow})

Live(table, s, now) == table[s] # NoWindow /\ now - table[s].started < Window

\* Mutant: a full table drops all its windows.
PurgedAll(table, now) ==
    IF Size(table) < Maximum THEN table ELSE [s \in Sources |-> NoWindow]

\* A full table drops its expired windows first.
Purged(table, now) ==
    IF Size(table) < Maximum THEN table
    ELSE [s \in Sources |-> IF Live(table, s, now) THEN table[s] ELSE NoWindow]

Answer(s, answer) == reply' = [source |-> s, answer |-> answer]
Admit(s) ==
    /\ admitted' = [admitted EXCEPT ![s][clock] = @ + 1]
    /\ Answer(s, "allowed")

\* Mutant: a new window has counted nothing yet.
AllowFirstUncounted(s, now) ==
    /\ ~Live(entries, s, now)
    /\ Size(Purged(entries, now)) < Maximum
    /\ entries' = [Purged(entries, now) EXCEPT ![s] = [started |-> now, count |-> 0]]
    /\ Admit(s)
    /\ UNCHANGED clock

\* Mutant: the table is purged but not measured again.
AllowFirstUnbounded(s, now) ==
    /\ ~Live(entries, s, now)
    /\ entries' = [Purged(entries, now) EXCEPT ![s] = [started |-> now, count |-> 1]]
    /\ Admit(s)
    /\ UNCHANGED clock

\* The source has no window, or an expired one, and gets a new one.
AllowFirst(s, now) ==
    /\ ~Live(entries, s, now)
    /\ Size(Purged(entries, now)) < Maximum
    /\ entries' = [Purged(entries, now) EXCEPT ![s] = [started |-> now, count |-> 1]]
    /\ Admit(s)
    /\ UNCHANGED clock

\* There is no room for another window; the answer is that of a used-up limit.
RefuseFull(s, now) ==
    /\ ~Live(entries, s, now)
    /\ Size(Purged(entries, now)) >= Maximum
    /\ entries' = Purged(entries, now)
    /\ Answer(s, "limited")
    /\ UNCHANGED <<clock, admitted>>

\* Mutant: one request too many.
AllowNextOffByOne(s, now) ==
    /\ Live(entries, s, now)
    /\ entries[s].count <= Limit
    /\ entries' = [entries EXCEPT ![s].count = @ + 1]
    /\ Admit(s)
    /\ UNCHANGED clock

AllowNext(s, now) ==
    /\ Live(entries, s, now)
    /\ entries[s].count < Limit
    /\ entries' = [entries EXCEPT ![s].count = @ + 1]
    /\ Admit(s)
    /\ UNCHANGED clock

\* Mutant: the last request of the limit is refused.
RefuseLimitedEarly(s, now) ==
    /\ Live(entries, s, now)
    /\ entries[s].count + 1 >= Limit
    /\ Answer(s, "limited")
    /\ UNCHANGED <<entries, clock, admitted>>

RefuseLimited(s, now) ==
    /\ Live(entries, s, now)
    /\ entries[s].count >= Limit
    /\ Answer(s, "limited")
    /\ UNCHANGED <<entries, clock, admitted>>

Tick ==
    /\ clock < MaxTime
    /\ clock' = clock + 1
    /\ UNCHANGED <<entries, admitted, reply>>

Arrivals == {now \in 1..clock : clock - now <= MaxDelay}

LimiterNext ==
    \/ \E s \in Sources, now \in Arrivals :
          \/ AllowFirst(s, now) \/ RefuseFull(s, now)
          \/ AllowNext(s, now) \/ RefuseLimited(s, now)
    \/ Tick

LimiterSpec == LimiterInit /\ [][LimiterNext]_limiterVars

-----------------------------------------------------------------------------
(* Properties *)

\* The table never grows beyond its maximum, however many sources there are.
TableBounded == Size(entries) <= Maximum

\* Requests of s let through at the clock values from first to last.
AdmittedIn(s, first, last) ==
    FoldFunctionOnSet(+, 0, admitted[s], {t \in 1..MaxTime : t \in first..last})

\* However arrival times are delayed, reordered or purged from a full table,
\* at most two windows meet in Window - MaxDelay clock values: no source gets
\* more than twice the limit through in that time.
RateBounded ==
    \A s \in Sources, t \in 1..clock :
        AdmittedIn(s, t, t + Window - MaxDelay - 1) <= 2 * Limit

\* Requests of s let through within the last window and delay.
LatelyAdmitted(s) == AdmittedIn(s, clock - MaxDelay - Window + 1, clock)

Spent(s) == LatelyAdmitted(s) >= Limit

Crowded(s) == Cardinality({other \in Sources \ {s} : LatelyAdmitted(other) > 0}) >= Maximum

\* The 429 of a used-up limit and of a full table are the same (server.go:184).
\* Neither comes without cause, however old and disordered arrival times are: a
\* source is told to slow down only after it has used up its limit within the
\* last window and delay, or if as many other sources as the table has room for
\* have been let through in that time.  So expired windows never keep anybody
\* out, but other sources may.
RefusedForCause ==
    [][\A s \in Sources :
          clock' = clock /\ reply' = [source |-> s, answer |-> "limited"] =>
              Spent(s) \/ Crowded(s)]_limiterVars

\* Who used up a window keeps it until the window is over: no other source's
\* request, with whatever arrival time, purges it early and gives the source a
\* fresh count.
WindowsRunOut ==
    [][\A s \in Sources :
          entries[s] # NoWindow /\ entries'[s] # entries[s] =>
              \/ entries'[s] # NoWindow /\ entries'[s].started = entries[s].started
              \/ clock - entries[s].started >= Window]_limiterVars
=============================================================================
