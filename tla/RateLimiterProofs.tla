-------------------------- MODULE RateLimiterProofs --------------------------
(***************************************************************************)
(* The limiter's table stays bounded, no window ends early, no source gets *)
(* more than two windows' worth through in the time that two windows share *)
(* and none is refused for nothing: for every number of sources, limit,    *)
(* window and delay.                                                       *)
(***************************************************************************)
EXTENDS RateLimiter, SetLemmas

\* The inductive invariant of the limiter.
LimiterInv == LimiterTypeOK /\ TableBounded

\* Purging keeps windows as they are or drops expired ones.
LEMMA PurgedKeeps ==
    ASSUME LimiterTypeOK, NEW now \in 1..clock
    PROVE  /\ Purged(entries, now) \in [Sources -> Entry \cup {NoWindow}]
           /\ \A s \in Sources :
                 \/ Purged(entries, now)[s] = entries[s]
                 \/ Purged(entries, now)[s] = NoWindow /\ ~Live(entries, s, now)
  BY DEF LimiterTypeOK, Purged

\* A table whose windows are all in another one is not larger than that.
LEMMA SizeMonotone ==
    ASSUME NEW t, NEW u, NEW s \in Sources,
           \A x \in Sources : t[x] # NoWindow => u[x] # NoWindow \/ x = s
    PROVE  /\ Size(t) \in Nat /\ Size(u) \in Nat
           /\ Size(t) <= Size(u) + 1
           /\ u[s] # NoWindow => Size(t) <= Size(u)
  <1> DEFINE T == {x \in Sources : t[x] # NoWindow}
             U == {x \in Sources : u[x] # NoWindow}
  <1>1. IsFiniteSet(T) /\ IsFiniteSet(U)
    BY LimiterAssumption, FS_Subset
  <1>2. IsFiniteSet(U \cup {s}) /\ Cardinality(U \cup {s}) <= Cardinality(U) + 1
    BY <1>1, FS_AddElement, FS_CardinalityType
  <1>3. T \subseteq U \cup {s} /\ (u[s] # NoWindow => T \subseteq U)
    OBVIOUS
  <1>4. Cardinality(T) <= Cardinality(U \cup {s})
    BY <1>2, <1>3, FS_Subset
  <1>5. u[s] # NoWindow => Cardinality(T) <= Cardinality(U)
    BY <1>1, <1>3, FS_Subset
  <1>6. Cardinality(T) \in Nat /\ Cardinality(U) \in Nat /\ Cardinality(U \cup {s}) \in Nat
    BY <1>1, <1>2, FS_CardinalityType
  <1> HIDE DEF T, U
  <1>7. Size(t) = Cardinality(T) /\ Size(u) = Cardinality(U)
    BY DEF Size, T, U
  <1> QED BY <1>2, <1>4, <1>5, <1>6, <1>7

\* No window has started at first.
LEMMA TableStarts == LimiterInit => LimiterInv
  <1> SUFFICES ASSUME LimiterInit PROVE LimiterInv
    OBVIOUS
  <1>1. LimiterTypeOK
    BY LimiterAssumption DEF LimiterInit, LimiterTypeOK
  <1>2. {x \in Sources : entries[x] # NoWindow} = {}
    BY DEF LimiterInit
  <1>3. Size(entries) = 0
    BY <1>2, FS_EmptySet DEF Size
  <1> QED BY <1>1, <1>3, LimiterAssumption DEF LimiterInv, TableBounded

\* Counting a request keeps the types.
LEMMA AdmitTypes ==
    ASSUME LimiterTypeOK, NEW s \in Sources, Admit(s)
    PROVE  /\ admitted' \in [Sources -> [1..MaxTime -> Nat]]
           /\ reply' \in [source: Sources \cup {NoWindow},
                            answer: {"none", "allowed", "limited"}]
  <1>1. PICK f : f = admitted[s]
    OBVIOUS
  <1>2. f \in [1..MaxTime -> Nat] /\ clock \in 1..MaxTime
    BY <1>1 DEF LimiterTypeOK
  <1>3. [f EXCEPT ![clock] = f[clock] + 1] \in [1..MaxTime -> Nat]
    BY <1>2
  <1>4. admitted' = [admitted EXCEPT ![s] = [f EXCEPT ![clock] = f[clock] + 1]]
    BY <1>1 DEF Admit
  <1>5. admitted' \in [Sources -> [1..MaxTime -> Nat]]
    BY <1>3, <1>4 DEF LimiterTypeOK
  <1>6. reply' = [source |-> s, answer |-> "allowed"]
    BY DEF Admit, Answer
  <1> QED BY <1>5, <1>6

\* Every step preserves the invariant.
LEMMA TableSteps == LimiterInv /\ [LimiterNext]_limiterVars => LimiterInv'
  <1> SUFFICES ASSUME LimiterInv, [LimiterNext]_limiterVars PROVE LimiterInv'
    OBVIOUS
  <1> USE LimiterAssumption DEF LimiterInv
  <1>1. LimiterTypeOK /\ TableBounded /\ clock \in 1..MaxTime
    BY DEF LimiterTypeOK
  <1>2. ASSUME NEW s \in Sources, NEW now \in Arrivals, AllowFirst(s, now) PROVE LimiterInv'
    <2> DEFINE w == [started |-> now, count |-> 1]
               u == Purged(entries, now)
    <2>1. now \in 1..clock /\ w \in Entry
      BY <1>1 DEF Arrivals, Entry
    <2>2. u \in [Sources -> Entry \cup {NoWindow}]
      BY <1>1, <2>1, PurgedKeeps
    <2>3. Size(u) < Maximum /\ entries' = [u EXCEPT ![s] = w] /\ Admit(s) /\ clock' = clock
      BY <1>2 DEF AllowFirst
    <2> HIDE DEF u, w
    <2>4. entries' \in [Sources -> Entry \cup {NoWindow}]
      BY <2>1, <2>2, <2>3
    <2>5. \A x \in Sources : entries'[x] # NoWindow => u[x] # NoWindow \/ x = s
      BY <2>2, <2>3
    <2>6. Size(entries') \in Nat /\ Size(u) \in Nat /\ Size(entries') <= Size(u) + 1
      BY <2>5, SizeMonotone
    <2>7. TableBounded'
      BY <2>3, <2>6 DEF TableBounded
    <2>8. LimiterTypeOK'
      BY <1>1, <2>3, <2>4, AdmitTypes DEF LimiterTypeOK
    <2> QED BY <2>7, <2>8
  <1>3. ASSUME NEW s \in Sources, NEW now \in Arrivals, RefuseFull(s, now) PROVE LimiterInv'
    <2>1. now \in 1..clock
      BY <1>1 DEF Arrivals
    <2>2. /\ entries' \in [Sources -> Entry \cup {NoWindow}]
          /\ \A x \in Sources : entries'[x] # NoWindow => entries[x] # NoWindow
      BY <1>1, <1>3, <2>1, PurgedKeeps DEF RefuseFull
    <2>3. Size(entries') <= Maximum
      <3>2. CASE \E y \in Sources : entries[y] # NoWindow
        <4>1. PICK y \in Sources : entries[y] # NoWindow
          BY <3>2
        <4>2. Size(entries') \in Nat /\ Size(entries) \in Nat /\ Size(entries') <= Size(entries)
          BY <2>2, <4>1, SizeMonotone
        <4> QED BY <1>1, <4>2 DEF TableBounded
      <3>3. CASE \A y \in Sources : entries[y] = NoWindow
        <4>1. {y \in Sources : entries'[y] # NoWindow} = {}
          BY <2>2, <3>3
        <4> QED BY <4>1, FS_EmptySet DEF Size
      <3> QED BY <3>2, <3>3
    <2> QED BY <1>1, <1>3, <2>2, <2>3 DEF RefuseFull, Answer, LimiterTypeOK, TableBounded
  <1>4. ASSUME NEW s \in Sources, NEW now \in Arrivals, AllowNext(s, now) PROVE LimiterInv'
    <2>1. PICK e : e = entries[s]
      OBVIOUS
    <2>2. /\ e \in Entry /\ e # NoWindow /\ e.count < Limit
          /\ entries' = [entries EXCEPT ![s] = [e EXCEPT !.count = e.count + 1]]
      BY <1>1, <1>4, <2>1 DEF AllowNext, Live, LimiterTypeOK
    <2>3. [e EXCEPT !.count = e.count + 1] \in Entry
      BY <2>2 DEF Entry
    <2>4. entries' \in [Sources -> Entry \cup {NoWindow}]
      BY <1>1, <2>2, <2>3 DEF LimiterTypeOK
    <2>5. \A x \in Sources : entries'[x] # NoWindow => entries[x] # NoWindow
      BY <1>1, <2>1, <2>2 DEF LimiterTypeOK
    <2>6. Size(entries') \in Nat /\ Size(entries) \in Nat /\ Size(entries') <= Size(entries)
      BY <2>1, <2>2, <2>5, SizeMonotone
    <2>7. TableBounded'
      BY <1>1, <2>6 DEF TableBounded
    <2>8. Admit(s) /\ clock' = clock
      BY <1>4 DEF AllowNext
    <2> QED BY <1>1, <2>4, <2>7, <2>8, AdmitTypes DEF LimiterTypeOK
  <1>5. ASSUME NEW s \in Sources, NEW now \in Arrivals, RefuseLimited(s, now) PROVE LimiterInv'
    BY <1>1, <1>5 DEF RefuseLimited, Answer, LimiterTypeOK, TableBounded
  <1>6. CASE Tick
    BY <1>1, <1>6 DEF Tick, LimiterTypeOK, TableBounded
  <1>7. CASE UNCHANGED limiterVars
    BY <1>1, <1>7 DEF limiterVars, LimiterTypeOK, TableBounded
  <1> QED BY <1>2, <1>3, <1>4, <1>5, <1>6, <1>7 DEF LimiterNext

\* The state of the limiter has its type in every reachable state.
THEOREM LimiterTypes == LimiterSpec => []LimiterTypeOK
  <1>1. LimiterInv => LimiterTypeOK
    BY DEF LimiterInv
  <1> QED BY <1>1, TableStarts, TableSteps, PTL DEF LimiterSpec

\* However many sources send, no more windows than the maximum are kept.
THEOREM TableStaysBounded == LimiterSpec => []TableBounded
  <1>1. LimiterInv => TableBounded
    BY DEF LimiterInv
  <1> QED BY <1>1, TableStarts, TableSteps, PTL DEF LimiterSpec

\* A window ends when it is over and not before: no request, with whatever
\* arrival time, gives its source a fresh count early.
THEOREM WindowsLast == LimiterSpec => WindowsRunOut
  <1> DEFINE RunOut ==
        \A s \in Sources :
            entries[s] # NoWindow /\ entries'[s] # entries[s] =>
                \/ entries'[s] # NoWindow /\ entries'[s].started = entries[s].started
                \/ clock - entries[s].started >= Window
  <1>1. LimiterInv /\ [LimiterNext]_limiterVars => RunOut
    <2> SUFFICES ASSUME LimiterInv, [LimiterNext]_limiterVars, NEW x \in Sources,
                        entries[x] # NoWindow, entries'[x] # entries[x]
                 PROVE  \/ entries'[x] # NoWindow /\ entries'[x].started = entries[x].started
                        \/ clock - entries[x].started >= Window
      OBVIOUS
    <2>1. /\ entries \in [Sources -> Entry \cup {NoWindow}] /\ entries[x] \in Entry
          /\ clock \in Int /\ entries[x].started \in Int /\ Window \in Int /\ LimiterTypeOK
      <3>1. LimiterTypeOK /\ Window \in Int
        BY LimiterAssumption DEF LimiterInv
      <3>2. entries \in [Sources -> Entry \cup {NoWindow}] /\ clock \in Int
        BY <3>1 DEF LimiterTypeOK
      <3>3. entries[x] \in Entry
        BY <3>2
      <3>4. entries[x].started \in Int
        BY <3>3 DEF Entry
      <3> QED BY <3>1, <3>2, <3>3, <3>4
    <2>2. \A now \in Arrivals :
              now \in 1..clock /\ (~Live(entries, x, now) => clock - entries[x].started >= Window)
      BY <2>1 DEF Arrivals, Live
    <2>3. ASSUME NEW s \in Sources, NEW now \in Arrivals, AllowFirst(s, now)
          PROVE  ~Live(entries, x, now)
      <3>1. CASE x = s
        BY <2>3, <3>1 DEF AllowFirst
      <3>2. CASE x # s
        <4>1. Purged(entries, now) \in [Sources -> Entry \cup {NoWindow}]
          BY <2>1, <2>2, PurgedKeeps
        <4>2. entries'[x] = Purged(entries, now)[x]
          BY <2>3, <3>2, <4>1 DEF AllowFirst
        <4> QED BY <2>1, <2>2, <4>2, PurgedKeeps
      <3> QED BY <3>1, <3>2
    <2>4. ASSUME NEW s \in Sources, NEW now \in Arrivals, RefuseFull(s, now)
          PROVE  ~Live(entries, x, now)
      BY <2>1, <2>2, <2>4, PurgedKeeps DEF RefuseFull
    <2>5. ASSUME NEW s \in Sources, NEW now \in Arrivals, AllowNext(s, now)
          PROVE  entries'[x] # NoWindow /\ entries'[x].started = entries[x].started
      <3>1. PICK e : e = entries[s]
        OBVIOUS
      <3>2. x = s /\ e \in Entry /\ e.count < Limit
            /\ entries' = [entries EXCEPT ![s] = [e EXCEPT !.count = e.count + 1]]
        BY <2>1, <2>5, <3>1 DEF AllowNext
      <3>3. [e EXCEPT !.count = e.count + 1] \in Entry
            /\ [e EXCEPT !.count = e.count + 1].started = e.started
        BY <3>2, LimiterAssumption DEF Entry
      <3>4. NoWindow \notin Entry
        BY LimiterAssumption DEF Entry
      <3> QED BY <2>1, <3>1, <3>2, <3>3, <3>4
    <2>6. ASSUME NEW s \in Sources, NEW now \in Arrivals PROVE ~RefuseLimited(s, now)
      BY DEF RefuseLimited
    <2>7. ~Tick /\ ~UNCHANGED limiterVars
      BY DEF Tick, limiterVars
    <2> QED BY <2>2, <2>3, <2>4, <2>5, <2>6, <2>7 DEF LimiterNext
  <1>2. LimiterInv /\ [LimiterNext]_limiterVars => [RunOut]_limiterVars
    BY <1>1
  <1> QED BY <1>2, TableStarts, TableSteps, PTL DEF LimiterSpec, WindowsRunOut

-----------------------------------------------------------------------------
(* The rate of a source *)

\* The admissions of a source, by clock value, from first to last.
In(row, first, last) == Total(row, {t \in 1..MaxTime : t \in first..last})

\* So many clock values meet at most two windows.
Apart == Window - MaxDelay

\* The inductive invariant of a source with entry e and admissions row at the
\* clock value c.  The admissions of a window come no later than MaxDelay after
\* its start or are counted in it; a window that is over leaves at most a limit
\* of them to the clock values that a next one can reach.
SourceInv(e, row, c) ==
    /\ \A t \in 1..MaxTime : t > c => row[t] = 0
    /\ \A t \in 1..MaxTime : In(row, t, t + Apart - 1) <= 2 * Limit
    /\ e = NoWindow => In(row, c - Apart + 1, MaxTime) <= Limit
    /\ e # NoWindow =>
          /\ e.started <= c
          /\ In(row, e.started + MaxDelay + 1, MaxTime) <= e.count
          /\ In(row, c - Apart + 1, MaxTime) <= Limit + e.count
          /\ e.count <= In(row, e.started, c)

RateInv == \A s \in Sources : SourceInv(entries[s], admitted[s], clock)

Rows == [1..MaxTime -> Nat]

\* The row with one more request let through at the clock value c.
Counted(row, c) == [row EXCEPT ![c] = row[c] + 1]

Span(first, last) == {t \in 1..MaxTime : t \in first..last}

LEMMA SpanFinite ==
    ASSUME NEW a \in Int, NEW b \in Int
    PROVE  IsFiniteSet(Span(a, b)) /\ Span(a, b) \subseteq 1..MaxTime
  <1>1. MaxTime \in Int
    BY LimiterAssumption
  <1>2. IsFiniteSet(1..MaxTime)
    BY <1>1, FS_Interval
  <1>3. Span(a, b) \subseteq 1..MaxTime
    BY DEF Span
  <1> QED BY <1>2, <1>3, FS_Subset

LEMMA InType ==
    ASSUME NEW row \in Rows, NEW a \in Int, NEW b \in Int
    PROVE  In(row, a, b) \in Nat
  <1>1. IsFiniteSet(Span(a, b)) /\ \A x \in Span(a, b) : row[x] \in Nat
    BY SpanFinite DEF Rows
  <1>2. Total(row, Span(a, b)) \in Nat
    BY <1>1, TotalType
  <1> QED BY <1>2 DEF In, Span

\* A longer time sees no fewer requests.
LEMMA InGrows ==
    ASSUME NEW row \in Rows, NEW a \in Int, NEW b \in Int, NEW c \in Int, NEW d \in Int,
           c <= a, b <= d \/ MaxTime <= d
    PROVE  In(row, a, b) <= In(row, c, d)
  <1>1. MaxTime \in Int
    BY LimiterAssumption
  <1>2. IsFiniteSet(Span(c, d)) /\ \A x \in Span(c, d) : row[x] \in Nat
    BY SpanFinite DEF Rows
  <1>3. Span(a, b) \in SUBSET Span(c, d)
    BY <1>1 DEF Span
  <1>4. Total(row, Span(a, b)) <= Total(row, Span(c, d))
    BY <1>2, <1>3, TotalGrows
  <1> QED BY <1>4 DEF In, Span

\* Nobody has got through in the future.
LEMMA InFuture ==
    ASSUME NEW row \in Rows, NEW c \in Int, \A t \in 1..MaxTime : t > c => row[t] = 0,
           NEW a \in Int, NEW b \in Int, a > c
    PROVE  In(row, a, b) = 0
  <1>1. IsFiniteSet(Span(a, b)) /\ \A x \in Span(a, b) : row[x] = 0
    BY SpanFinite DEF Span
  <1>2. Total(row, Span(a, b)) = 0
    BY <1>1, TotalOfZeros
  <1> QED BY <1>2 DEF In, Span

\* A request counts in the times that it falls into.
LEMMA InCounts ==
    ASSUME NEW row \in Rows, NEW c \in 1..MaxTime, NEW a \in Int, NEW b \in Int
    PROVE  In(Counted(row, c), a, b)
               = IF a <= c /\ c <= b THEN In(row, a, b) + 1 ELSE In(row, a, b)
  <1>1. IsFiniteSet(Span(a, b)) /\ Span(a, b) \subseteq 1..MaxTime
    BY SpanFinite
  <1>2. c \in Span(a, b) <=> a <= c /\ c <= b
    BY LimiterAssumption DEF Span
  <1> DEFINE g == [row EXCEPT ![c] = row[c] + 1]
  <1>3. Total(g, Span(a, b))
            = IF c \in Span(a, b) THEN Total(row, Span(a, b)) + 1 ELSE Total(row, Span(a, b))
    <2>1. \A x \in 1..MaxTime : row[x] \in Nat /\ (x # c => g[x] = row[x])
      BY DEF Rows
    <2>2. g[c] = row[c] + 1
      BY DEF Rows
    <2> HIDE DEF g
    <2> QED BY <1>1, <2>1, <2>2, TotalCounts
  <1>4. /\ In(row, a, b) = Total(row, Span(a, b))
        /\ In(Counted(row, c), a, b) = Total(g, Span(a, b))
    BY DEF In, Span, Counted
  <1> QED BY <1>2, <1>3, <1>4

LEMMA CountedType ==
    ASSUME NEW row \in Rows, NEW c \in 1..MaxTime
    PROVE  /\ Counted(row, c) \in Rows
           /\ \A t \in 1..MaxTime : t # c => Counted(row, c)[t] = row[t]
  BY DEF Rows, Counted

LEMMA LimiterNumbers ==
    /\ Limit \in Nat \ {0} /\ Window \in Nat \ {0} /\ MaxDelay \in Nat /\ MaxTime \in Nat \ {0}
    /\ Apart \in Nat \ {0} /\ Apart = Window - MaxDelay /\ Maximum \in Nat \ {0}
    /\ NoWindow \notin Entry
  BY LimiterAssumption DEF Apart, Entry

\* Time passes: the times that a next window can reach become shorter.
LEMMA TickKeepsSource ==
    ASSUME NEW e \in Entry \cup {NoWindow}, NEW row \in Rows, NEW c \in 1..MaxTime, c < MaxTime,
           SourceInv(e, row, c)
    PROVE  SourceInv(e, row, c + 1)
  <1> USE LimiterNumbers
  <1>1. \A t \in 1..MaxTime : t > c + 1 => row[t] = 0
    BY DEF SourceInv
  <1>2. In(row, c + 1 - Apart + 1, MaxTime) <= In(row, c - Apart + 1, MaxTime)
    BY InGrows
  <1>3. In(row, c + 1 - Apart + 1, MaxTime) \in Nat /\ In(row, c - Apart + 1, MaxTime) \in Nat
    BY InType
  <1>4. CASE e = NoWindow
    BY <1>1, <1>2, <1>3, <1>4 DEF SourceInv
  <1>5. CASE e # NoWindow
    <2>1. e.started \in Int /\ e.count \in Int
      BY <1>5 DEF Entry
    <2>2. In(row, e.started, c) <= In(row, e.started, c + 1)
      BY <2>1, InGrows
    <2>3. In(row, e.started, c) \in Nat /\ In(row, e.started, c + 1) \in Nat
      BY <2>1, InType
    <2>4. /\ e.started <= c + 1 /\ In(row, c + 1 - Apart + 1, MaxTime) <= Limit + e.count
          /\ e.count <= In(row, e.started, c + 1)
      BY <1>2, <1>3, <1>5, <2>1, <2>2, <2>3 DEF SourceInv
    <2> QED BY <1>1, <1>5, <2>4 DEF SourceInv
  <1> QED BY <1>4, <1>5

\* A window that is over can be forgotten.
LEMMA OverKeepsSource ==
    ASSUME NEW e \in Entry, NEW row \in Rows, NEW c \in 1..MaxTime, SourceInv(e, row, c),
           NEW now \in 1..c, now - e.started >= Window
    PROVE  SourceInv(NoWindow, row, c)
  <1> USE LimiterNumbers
  <1>1. e # NoWindow /\ e.started \in Int /\ e.count \in Int /\ e.count <= Limit
    BY DEF Entry
  <1>2. e.started + MaxDelay + 1 <= c - Apart + 1
    BY <1>1
  <1>3. In(row, c - Apart + 1, MaxTime) <= In(row, e.started + MaxDelay + 1, MaxTime)
    BY <1>1, <1>2, InGrows
  <1>4. /\ In(row, c - Apart + 1, MaxTime) \in Nat
        /\ In(row, e.started + MaxDelay + 1, MaxTime) \in Nat
    BY <1>1, InType
  <1>5. In(row, e.started + MaxDelay + 1, MaxTime) <= e.count
    BY <1>1 DEF SourceInv
  <1>6. In(row, c - Apart + 1, MaxTime) <= Limit
    BY <1>1, <1>3, <1>4, <1>5
  <1> QED BY <1>6 DEF SourceInv

\* No time meets more than two limits, if the last one does not.
LEMMA CountedRate ==
    ASSUME NEW e \in Entry \cup {NoWindow}, NEW row \in Rows, NEW c \in 1..MaxTime,
           SourceInv(e, row, c), In(Counted(row, c), c - Apart + 1, MaxTime) <= 2 * Limit
    PROVE  \A t \in 1..MaxTime : In(Counted(row, c), t, t + Apart - 1) <= 2 * Limit
  <1> USE LimiterNumbers
  <1> SUFFICES ASSUME NEW t \in 1..MaxTime
               PROVE  In(Counted(row, c), t, t + Apart - 1) <= 2 * Limit
    OBVIOUS
  <1>1. Counted(row, c) \in Rows
    BY CountedType
  <1>2. CASE t <= c /\ c <= t + Apart - 1
    <2>1. In(Counted(row, c), t, t + Apart - 1) <= In(Counted(row, c), c - Apart + 1, MaxTime)
      BY <1>1, <1>2, InGrows
    <2>2. /\ In(Counted(row, c), t, t + Apart - 1) \in Nat
          /\ In(Counted(row, c), c - Apart + 1, MaxTime) \in Nat
      BY <1>1, InType
    <2> QED BY <2>1, <2>2
  <1>3. CASE ~(t <= c /\ c <= t + Apart - 1)
    <2>1. In(Counted(row, c), t, t + Apart - 1) = In(row, t, t + Apart - 1)
      BY <1>3, InCounts
    <2> QED BY <2>1 DEF SourceInv
  <1> QED BY <1>2, <1>3

\* A source without a window gets one.
LEMMA FirstKeepsSource ==
    ASSUME NEW row \in Rows, NEW c \in 1..MaxTime, SourceInv(NoWindow, row, c),
           NEW now \in 1..c, c - now <= MaxDelay,
           NEW e \in Entry, e.started = now, e.count = 1
    PROVE  SourceInv(e, Counted(row, c), c)
  <1> USE LimiterNumbers
  <1> DEFINE g == Counted(row, c)
  <1>1. g \in Rows /\ \A t \in 1..MaxTime : t > c => g[t] = 0
    <2>1. g \in Rows /\ \A t \in 1..MaxTime : t # c => g[t] = row[t]
      BY CountedType
    <2>2. \A t \in 1..MaxTime : t > c => row[t] = 0
      BY DEF SourceInv
    <2> HIDE DEF g
    <2> QED BY <2>1, <2>2
  <1>2. In(g, c - Apart + 1, MaxTime) <= Limit + 1
    <2>1. In(g, c - Apart + 1, MaxTime) = In(row, c - Apart + 1, MaxTime) + 1
      BY InCounts
    <2>2. In(row, c - Apart + 1, MaxTime) \in Nat
      BY InType
    <2> QED BY <2>1, <2>2 DEF SourceInv
  <1>3. In(g, now + MaxDelay + 1, MaxTime) = 0
    <2> HIDE DEF g
    <2> QED BY <1>1, InFuture
  <1>4. In(g, now, c) >= 1
    <2>1. In(g, now, c) = In(row, now, c) + 1
      BY InCounts
    <2>2. In(row, now, c) \in Nat
      BY InType
    <2> QED BY <2>1, <2>2
  <1>5. In(g, c - Apart + 1, MaxTime) \in Nat /\ In(g, now, c) \in Nat
    <2> HIDE DEF g
    <2> QED BY <1>1, InType
  <1>6. \A t \in 1..MaxTime : In(g, t, t + Apart - 1) <= 2 * Limit
    <2>1. In(g, c - Apart + 1, MaxTime) <= 2 * Limit
      BY <1>2, <1>5
    <2>2. NoWindow \in Entry \cup {NoWindow}
      OBVIOUS
    <2> QED BY <2>1, <2>2, CountedRate
  <1> HIDE DEF g
  <1>7. SourceInv(e, g, c)
    BY <1>1, <1>2, <1>3, <1>4, <1>5, <1>6 DEF SourceInv
  <1> QED BY <1>7 DEF g

\* A window counts one more.
LEMMA NextKeepsSource ==
    ASSUME NEW e \in Entry, NEW row \in Rows, NEW c \in 1..MaxTime, SourceInv(e, row, c),
           e.count < Limit, NEW d \in Entry, d.started = e.started, d.count = e.count + 1
    PROVE  SourceInv(d, Counted(row, c), c)
  <1> USE LimiterNumbers
  <1> DEFINE g == Counted(row, c)
             w == e.started
             n == e.count
  <1>1. g \in Rows /\ \A t \in 1..MaxTime : t > c => g[t] = 0
    <2>1. g \in Rows /\ \A t \in 1..MaxTime : t # c => g[t] = row[t]
      BY CountedType
    <2>2. \A t \in 1..MaxTime : t > c => row[t] = 0
      BY DEF SourceInv
    <2> HIDE DEF g
    <2> QED BY <2>1, <2>2
  <1>2. w \in Int /\ n \in Int /\ n < Limit /\ e # NoWindow /\ d # NoWindow
    BY DEF Entry
  <1>3. /\ w <= c /\ In(row, w + MaxDelay + 1, MaxTime) <= n
        /\ In(row, c - Apart + 1, MaxTime) <= Limit + n
        /\ n <= In(row, w, c)
    BY <1>2 DEF SourceInv
  <1> HIDE DEF w, n
  <1>4. /\ In(row, w + MaxDelay + 1, MaxTime) \in Nat
        /\ In(row, c - Apart + 1, MaxTime) \in Nat
        /\ In(row, w, c) \in Nat
    BY <1>2, InType
  <1>5. In(g, w + MaxDelay + 1, MaxTime) <= n + 1
    <2>1. \/ In(g, w + MaxDelay + 1, MaxTime) = In(row, w + MaxDelay + 1, MaxTime) + 1
          \/ In(g, w + MaxDelay + 1, MaxTime) = In(row, w + MaxDelay + 1, MaxTime)
      BY <1>2, InCounts
    <2> HIDE DEF g
    <2> QED BY <1>2, <1>3, <1>4, <2>1
  <1>6. In(g, c - Apart + 1, MaxTime) <= Limit + n + 1
    <2>1. In(g, c - Apart + 1, MaxTime) = In(row, c - Apart + 1, MaxTime) + 1
      BY InCounts
    <2> HIDE DEF g
    <2> QED BY <1>2, <1>3, <1>4, <2>1
  <1>7. n + 1 <= In(g, w, c)
    <2>1. In(g, w, c) = In(row, w, c) + 1
      BY <1>2, <1>3, InCounts
    <2> HIDE DEF g
    <2> QED BY <1>2, <1>3, <1>4, <2>1
  <1>8. \A t \in 1..MaxTime : In(g, t, t + Apart - 1) <= 2 * Limit
    <2>1. In(g, c - Apart + 1, MaxTime) \in Nat
      BY <1>1, InType
    <2>2. In(g, c - Apart + 1, MaxTime) <= 2 * Limit
      BY <1>2, <1>6, <2>1
    <2> QED BY <2>2, CountedRate
  <1> HIDE DEF g
  <1>9. d.started = w /\ d.count = n + 1
    BY DEF w, n
  <1>10. Limit + d.count = Limit + n + 1
    BY <1>2, <1>9
  <1>11. SourceInv(d, g, c)
    BY <1>1, <1>2, <1>3, <1>5, <1>6, <1>7, <1>8, <1>9, <1>10 DEF SourceInv
  <1> QED BY <1>11 DEF g

LEMMA AdmitCounts ==
    ASSUME LimiterTypeOK, NEW s \in Sources, Admit(s)
    PROVE  /\ admitted'[s] = Counted(admitted[s], clock)
           /\ \A x \in Sources : x # s => admitted'[x] = admitted[x]
  <1>1. PICK row : row = admitted[s]
    OBVIOUS
  <1>2. admitted' = [admitted EXCEPT ![s] = [row EXCEPT ![clock] = row[clock] + 1]]
    BY <1>1 DEF Admit
  <1>3. admitted \in [Sources -> [1..MaxTime -> Nat]]
    BY DEF LimiterTypeOK
  <1> QED BY <1>1, <1>2, <1>3 DEF Counted

\* Without windows and requests the invariant holds of each source.
LEMMA RateInit == LimiterInit => RateInv
  <1> SUFFICES ASSUME LimiterInit, NEW s \in Sources PROVE SourceInv(entries[s], admitted[s], clock)
    BY DEF RateInv
  <1> USE LimiterNumbers
  <1> DEFINE row == [t \in 1..MaxTime |-> 0]
  <1>1. entries[s] = NoWindow /\ admitted[s] = row /\ clock = 1
    BY DEF LimiterInit
  <1>2. row \in Rows /\ \A t \in 1..MaxTime : row[t] = 0
    BY DEF Rows
  <1> HIDE DEF row
  <1>3. ASSUME NEW a \in Int, NEW b \in Int PROVE In(row, a, b) = 0
    <2>1. IsFiniteSet(Span(a, b)) /\ \A x \in Span(a, b) : row[x] = 0
      BY <1>2, SpanFinite
    <2>2. Total(row, Span(a, b)) = 0
      BY <2>1, TotalOfZeros
    <2> QED BY <2>2 DEF In, Span
  <1>4. In(row, 1 - Apart + 1, MaxTime) <= Limit
    <2>1. In(row, 1 - Apart + 1, MaxTime) = 0
      BY <1>3
    <2> QED BY <2>1
  <1>5. \A t \in 1..MaxTime : In(row, t, t + Apart - 1) <= 2 * Limit
    <2> SUFFICES ASSUME NEW t \in 1..MaxTime PROVE In(row, t, t + Apart - 1) <= 2 * Limit
      OBVIOUS
    <2>1. In(row, t, t + Apart - 1) = 0
      BY <1>3
    <2> QED BY <2>1
  <1> QED BY <1>1, <1>2, <1>4, <1>5 DEF SourceInv

\* Purging a full table keeps the invariant, and so does a window that is over.
LEMMA PurgeKeepsSources ==
    ASSUME LimiterTypeOK, RateInv, NEW now \in Arrivals, NEW x \in Sources
    PROVE  /\ SourceInv(Purged(entries, now)[x], admitted[x], clock)
           /\ ~Live(entries, x, now) => SourceInv(NoWindow, admitted[x], clock)
  <1>1. /\ clock \in 1..MaxTime /\ now \in 1..clock /\ entries[x] \in Entry \cup {NoWindow}
        /\ admitted[x] \in Rows
    BY DEF LimiterTypeOK, Arrivals, Rows
  <1>2. SourceInv(entries[x], admitted[x], clock)
    BY DEF RateInv
  <1>3. ~Live(entries, x, now) => SourceInv(NoWindow, admitted[x], clock)
    <2> HAVE ~Live(entries, x, now)
    <2>1. CASE entries[x] = NoWindow
      BY <1>2, <2>1
    <2>2. CASE entries[x] # NoWindow
      <3>1. entries[x] \in Entry
        BY <1>1, <2>2
      <3>2. now - entries[x].started >= Window
        <4>1. entries[x].started \in Int /\ now \in Int /\ Window \in Int
          BY <1>1, <3>1, LimiterNumbers DEF Entry
        <4>2. ~(now - entries[x].started < Window)
          BY <2>2 DEF Live
        <4> QED BY <4>1, <4>2
      <3> QED BY <1>1, <1>2, <3>1, <3>2, OverKeepsSource
    <2> QED BY <2>1, <2>2
  <1>4. \/ Purged(entries, now)[x] = entries[x]
        \/ Purged(entries, now)[x] = NoWindow /\ ~Live(entries, x, now)
    BY <1>1, PurgedKeeps
  <1> QED BY <1>2, <1>3, <1>4

\* Every step keeps the invariant of every source.
LEMMA RateNext == LimiterInv /\ LimiterInv' /\ RateInv /\ [LimiterNext]_limiterVars => RateInv'
  <1> SUFFICES ASSUME LimiterInv, LimiterInv', RateInv, [LimiterNext]_limiterVars, NEW x \in Sources
               PROVE  SourceInv(entries'[x], admitted'[x], clock')
    BY DEF RateInv
  <1>1. /\ LimiterTypeOK /\ clock \in 1..MaxTime /\ entries \in [Sources -> Entry \cup {NoWindow}]
        /\ entries[x] \in Entry \cup {NoWindow} /\ admitted[x] \in Rows
        /\ entries' \in [Sources -> Entry \cup {NoWindow}]
        /\ SourceInv(entries[x], admitted[x], clock)
    BY DEF LimiterInv, LimiterTypeOK, RateInv, Rows
  <1>2. ASSUME NEW s \in Sources, NEW now \in Arrivals, AllowFirst(s, now)
        PROVE  SourceInv(entries'[x], admitted'[x], clock')
    <2> DEFINE u == Purged(entries, now)
               w == [started |-> now, count |-> 1]
    <2>1. /\ ~Live(entries, s, now) /\ entries' = [u EXCEPT ![s] = w]
          /\ Admit(s) /\ clock' = clock
      BY <1>2 DEF AllowFirst
    <2>2. now \in 1..clock /\ clock - now <= MaxDelay
      BY DEF Arrivals
    <2>3. u \in [Sources -> Entry \cup {NoWindow}]
      BY <1>1, <2>2, PurgedKeeps
    <2>4. w.started = now /\ w.count = 1
      OBVIOUS
    <2> HIDE DEF u, w
    <2>5. entries'[s] = w /\ entries'[s] \in Entry
      <3>1. entries'[s] = w
        BY <2>1, <2>3
      <3>2. w \in Entry
        BY <1>1, <2>2, LimiterNumbers DEF w, Entry
      <3> QED BY <3>1, <3>2
    <2>6. CASE x = s
      <3>1. SourceInv(NoWindow, admitted[x], clock)
        BY <1>1, <2>1, <2>6, PurgeKeepsSources
      <3>2. SourceInv(w, Counted(admitted[x], clock), clock)
        BY <1>1, <2>2, <2>4, <2>5, <3>1, FirstKeepsSource
      <3>3. admitted'[x] = Counted(admitted[x], clock)
        BY <1>1, <2>1, <2>6, AdmitCounts
      <3> QED BY <2>1, <2>5, <2>6, <3>2, <3>3
    <2>7. CASE x # s
      <3>1. entries'[x] = u[x]
        BY <2>1, <2>3, <2>7
      <3>2. admitted'[x] = admitted[x]
        BY <1>1, <2>1, <2>7, AdmitCounts
      <3>3. SourceInv(u[x], admitted[x], clock)
        BY <1>1, PurgeKeepsSources DEF u
      <3> QED BY <2>1, <3>1, <3>2, <3>3
    <2> QED BY <2>6, <2>7
  <1>3. ASSUME NEW s \in Sources, NEW now \in Arrivals, RefuseFull(s, now)
        PROVE  SourceInv(entries'[x], admitted'[x], clock')
    BY <1>1, <1>3, PurgeKeepsSources DEF RefuseFull
  <1>4. ASSUME NEW s \in Sources, NEW now \in Arrivals, AllowNext(s, now)
        PROVE  SourceInv(entries'[x], admitted'[x], clock')
    <2>1. PICK e : e = entries[s]
      OBVIOUS
    <2>2. /\ e \in Entry /\ e.count < Limit
          /\ entries' = [entries EXCEPT ![s] = [e EXCEPT !.count = e.count + 1]]
          /\ Admit(s) /\ clock' = clock
      BY <1>1, <1>4, <2>1 DEF AllowNext, Live
    <2>3. PICK d : d = [e EXCEPT !.count = e.count + 1]
      OBVIOUS
    <2>4. d \in Entry /\ d.started = e.started /\ d.count = e.count + 1
      BY <2>2, <2>3, LimiterNumbers DEF Entry
    <2>5. CASE x = s
      <3>1. entries'[x] = d
        BY <1>1, <2>2, <2>3, <2>5
      <3>2. admitted'[x] = Counted(admitted[x], clock)
        BY <1>1, <2>2, <2>5, AdmitCounts
      <3>3. SourceInv(e, admitted[x], clock)
        BY <1>1, <2>1, <2>5
      <3>4. SourceInv(d, Counted(admitted[x], clock), clock)
        BY <1>1, <2>2, <2>4, <3>3, NextKeepsSource
      <3> QED BY <2>2, <3>1, <3>2, <3>4
    <2>6. CASE x # s
      <3>1. entries'[x] = entries[x] /\ admitted'[x] = admitted[x]
        BY <1>1, <2>2, <2>6, AdmitCounts
      <3> QED BY <1>1, <2>2, <3>1
    <2> QED BY <2>5, <2>6
  <1>5. ASSUME NEW s \in Sources, NEW now \in Arrivals, RefuseLimited(s, now)
        PROVE  SourceInv(entries'[x], admitted'[x], clock')
    BY <1>1, <1>5 DEF RefuseLimited
  <1>6. CASE Tick
    <2>1. clock < MaxTime /\ clock' = clock + 1 /\ entries' = entries /\ admitted' = admitted
      BY <1>6 DEF Tick
    <2>2. SourceInv(entries[x], admitted[x], clock + 1)
      BY <1>1, <2>1, TickKeepsSource
    <2> QED BY <2>1, <2>2
  <1>7. CASE UNCHANGED limiterVars
    BY <1>1, <1>7 DEF limiterVars
  <1> QED BY <1>2, <1>3, <1>4, <1>5, <1>6, <1>7 DEF LimiterNext

\* At most two windows meet in Window - MaxDelay clock values, however arrival
\* times are delayed or reordered and windows purged: no source gets more than
\* twice the limit through in that time.
THEOREM RateIsBounded == LimiterSpec => []RateBounded
  <1>1. LimiterInv /\ RateInv => RateBounded
    <2> SUFFICES ASSUME LimiterInv, RateInv, NEW s \in Sources, NEW t \in 1..clock
                 PROVE  AdmittedIn(s, t, t + Window - MaxDelay - 1) <= 2 * Limit
      BY DEF RateBounded
    <2>1. In(admitted[s], t, t + Apart - 1) <= 2 * Limit
      <3>1. clock \in 1..MaxTime /\ SourceInv(entries[s], admitted[s], clock)
        BY DEF LimiterInv, LimiterTypeOK, RateInv
      <3>2. t \in 1..MaxTime
        BY <3>1, LimiterNumbers
      <3> QED BY <3>1, <3>2 DEF SourceInv
    <2>2. t + Apart - 1 = t + Window - MaxDelay - 1
      BY LimiterNumbers
    <2> QED BY <2>1, <2>2 DEF AdmittedIn, In, Total
  <1> QED BY <1>1, TableStarts, TableSteps, RateInit, RateNext, PTL DEF LimiterSpec

\* A window that runs for a request of now was started, and its requests let
\* through, within the last window and delay.
LEMMA LiveIsLate ==
    ASSUME LimiterInv, RateInv, NEW s \in Sources, NEW now \in Arrivals, Live(entries, s, now)
    PROVE  LatelyAdmitted(s) \in Nat /\ LatelyAdmitted(s) >= entries[s].count
  <1> DEFINE e == entries[s]
             row == admitted[s]
             since == clock - MaxDelay - Window + 1
  <1>1. e # NoWindow /\ now - e.started < Window
    BY DEF Live
  <1>2. /\ clock \in 1..MaxTime /\ e \in Entry /\ row \in Rows /\ SourceInv(e, row, clock)
        /\ now \in 1..clock /\ clock - now <= MaxDelay
    BY <1>1 DEF LimiterInv, LimiterTypeOK, RateInv, Rows, Arrivals
  <1>3. e.started \in Int /\ e.count \in Int /\ since \in Int /\ since <= e.started
    BY <1>1, <1>2, LimiterNumbers DEF Entry
  <1>4. e.count <= In(row, e.started, clock)
    BY <1>1, <1>2 DEF SourceInv
  <1> HIDE DEF e, row, since
  <1>5. In(row, e.started, clock) <= In(row, since, clock)
    BY <1>2, <1>3, InGrows
  <1>6. In(row, e.started, clock) \in Nat /\ In(row, since, clock) \in Nat
    BY <1>2, <1>3, InType
  <1>7. In(row, since, clock) >= e.count
    BY <1>3, <1>4, <1>5, <1>6
  <1>8. LatelyAdmitted(s) = In(row, since, clock)
    BY DEF LatelyAdmitted, AdmittedIn, In, Total, row, since
  <1> QED BY <1>6, <1>7, <1>8 DEF e

\* If a purged table has no room, its windows are those of other sources that
\* have lately been let through.
LEMMA FullIsCrowded ==
    ASSUME LimiterInv, RateInv, NEW s \in Sources, NEW now \in Arrivals, RefuseFull(s, now)
    PROVE  Crowded(s)
  <1> DEFINE u == Purged(entries, now)
             Kept == {x \in Sources : u[x] # NoWindow}
             Others == {x \in Sources \ {s} : LatelyAdmitted(x) > 0}
  <1>1. Size(u) >= Maximum /\ ~Live(entries, s, now)
    BY DEF RefuseFull
  <1>2. ~(Size(entries) < Maximum)
    <2>1. Size(entries) < Maximum => u = entries
      BY DEF Purged
    <2>2. Size(u) \in Nat
      BY SizeMonotone
    <2> QED BY <1>1, <2>1, <2>2, LimiterNumbers
  <1>3. \A x \in Sources : u[x] # NoWindow => Live(entries, x, now)
    BY <1>2 DEF Purged
  <1>4. ASSUME NEW x \in Sources, u[x] # NoWindow PROVE x \in Others
    <2>1. Live(entries, x, now) /\ x # s
      BY <1>1, <1>3, <1>4
    <2>2. LatelyAdmitted(x) \in Nat /\ LatelyAdmitted(x) >= entries[x].count
      BY <2>1, LiveIsLate
    <2>3. entries[x].count \in Int /\ entries[x].count >= 1
      BY <2>1, LimiterNumbers DEF Live, LimiterInv, LimiterTypeOK, Entry
    <2> QED BY <2>1, <2>2, <2>3
  <1>5. Kept \subseteq Others
    BY <1>4
  <1>6. IsFiniteSet(Others)
    BY LimiterAssumption, FS_Subset
  <1>7. Cardinality(Kept) <= Cardinality(Others) /\ Cardinality(Kept) \in Nat
        /\ Cardinality(Others) \in Nat
    BY <1>5, <1>6, FS_Subset, FS_CardinalityType
  <1>8. Cardinality(Kept) >= Maximum
    BY <1>1 DEF Size
  <1> HIDE DEF Kept, Others
  <1>9. Cardinality(Others) >= Maximum
    BY <1>7, <1>8, LimiterNumbers
  <1> QED BY <1>9 DEF Crowded, Others

\* A source is told to slow down only after it has used up its limit, or if the
\* table is full of other sources, within the last window and delay.
THEOREM RefusalsHaveACause == LimiterSpec => RefusedForCause
  <1> DEFINE Cause ==
        \A s \in Sources :
            clock' = clock /\ reply' = [source |-> s, answer |-> "limited"] =>
                Spent(s) \/ Crowded(s)
  <1>1. LimiterInv /\ RateInv /\ [LimiterNext]_limiterVars => [Cause]_limiterVars
    <2> SUFFICES ASSUME LimiterInv, RateInv, LimiterNext, NEW s \in Sources,
                        clock' = clock, reply' = [source |-> s, answer |-> "limited"]
                 PROVE  Spent(s) \/ Crowded(s)
      OBVIOUS
    <2>1. PICK x \in Sources, now \in Arrivals : RefuseLimited(x, now) \/ RefuseFull(x, now)
      <3>1. ~Tick
        BY LimiterNumbers DEF Tick, LimiterInv, LimiterTypeOK
      <3>2. \A x \in Sources, now \in Arrivals : ~AllowFirst(x, now) /\ ~AllowNext(x, now)
        BY DEF AllowFirst, AllowNext, Admit, Answer
      <3> QED BY <3>1, <3>2 DEF LimiterNext
    <2>2. x = s
      BY <2>1 DEF RefuseLimited, RefuseFull, Answer
    <2>3. CASE RefuseFull(s, now)
      BY <2>3, FullIsCrowded
    <2>4. CASE RefuseLimited(s, now)
      <3>1. Live(entries, s, now) /\ entries[s].count >= Limit
        BY <2>4 DEF RefuseLimited
      <3>2. LatelyAdmitted(s) \in Nat /\ LatelyAdmitted(s) >= entries[s].count
        BY <3>1, LiveIsLate
      <3>3. entries[s].count \in Int
        BY <3>1 DEF Live, LimiterInv, LimiterTypeOK, Entry
      <3> QED BY <3>1, <3>2, <3>3, LimiterNumbers DEF Spent
    <2> QED BY <2>1, <2>2, <2>3, <2>4
  <1> QED BY <1>1, TableStarts, TableSteps, RateInit, RateNext, PTL DEF LimiterSpec, RefusedForCause
=============================================================================
