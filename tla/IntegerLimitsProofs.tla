------------------------- MODULE IntegerLimitsProofs -------------------------
(***************************************************************************)
(* The two places where the gateway computes at the edge of its integers,  *)
(* the delay of a retry and the projection of the disk guard, are right    *)
(* for every width of the integers.                                        *)
(***************************************************************************)
EXTENDS RetrySchedule, StorageGuard, SetLemmas

\* Products with a natural number are monotone.
LEMMA TimesMonotone ==
    ASSUME NEW a \in Nat, NEW b \in Nat, NEW c \in Nat, a <= b
    PROVE  a * c <= b * c
  <1>1. (b - a) * c >= 0
    OBVIOUS
  <1>2. (b - a) * c = b * c - a * c
    OBVIOUS
  <1>3. a * c \in Nat /\ b * c \in Nat
    OBVIOUS
  <1> QED BY <1>1, <1>2, <1>3

\* Division rounds down.
LEMMA DivBounds ==
    ASSUME NEW n \in Nat, NEW p \in Nat \ {0}
    PROVE  /\ n \div p \in Nat
           /\ (n \div p) * p <= n
           /\ n < (n \div p) * p + p
  OBVIOUS

\* A number of pages, or of seconds, fits below a limit exactly if it is at
\* most the number of whole ones there.
LEMMA WholeFit ==
    ASSUME NEW k \in Nat, NEW n \in Nat, NEW p \in Nat \ {0}
    PROVE  k <= n \div p <=> k * p <= n
  <1> DEFINE m == n \div p
  <1>1. m \in Nat /\ m * p <= n /\ n < m * p + p
    BY DivBounds
  <1> HIDE DEF m
  <1>2. CASE k <= m
    <2>1. k * p <= m * p /\ k * p \in Nat /\ m * p \in Nat
      BY <1>1, <1>2, TimesMonotone
    <2> QED BY <1>1, <1>2, <2>1 DEF m
  <1>3. CASE m + 1 <= k
    <2>1. (m + 1) * p <= k * p
      BY <1>1, <1>3, TimesMonotone
    <2>2. (m + 1) * p = m * p + p /\ k * p \in Nat /\ m * p \in Nat
      BY <1>1
    <2> QED BY <1>1, <1>3, <2>1, <2>2 DEF m
  <1> QED BY <1>1, <1>2, <1>3

\* The smaller of two numbers.
LEMMA MinOfTwo ==
    ASSUME NEW a \in Int, NEW b \in Int
    PROVE  Min({a, b}) = IF a <= b THEN a ELSE b
  <1>1. \E x \in {a, b} : \A y \in {a, b} : x =< y
    OBVIOUS
  <1>2. Min({a, b}) \in {a, b} /\ \A y \in {a, b} : Min({a, b}) =< y
    BY <1>1 DEF Min
  <1> QED BY <1>2

\* The larger of two numbers.
LEMMA MaxOfTwo ==
    ASSUME NEW a \in Int, NEW b \in Int
    PROVE  Max({a, b}) = IF a <= b THEN b ELSE a
  <1>1. \E x \in {a, b} : \A y \in {a, b} : x >= y
    OBVIOUS
  <1>2. Max({a, b}) \in {a, b} /\ \A y \in {a, b} : Max({a, b}) >= y
    BY <1>1 DEF Max
  <1> QED BY <1>2

\* The largest of three numbers.
LEMMA MaxOfThree ==
    ASSUME NEW a \in Int, NEW b \in Int, NEW c \in Int
    PROVE  /\ Max({a, b, c}) \in {a, b, c}
           /\ Max({a, b, c}) >= a /\ Max({a, b, c}) >= b /\ Max({a, b, c}) >= c
  <1>1. \E x \in {a, b, c} : \A y \in {a, b, c} : x >= y
    <2>1. CASE a >= b /\ a >= c
      BY <2>1
    <2>2. CASE b >= a /\ b >= c
      BY <2>2
    <2>3. CASE c >= a /\ c >= b
      BY <2>3
    <2> QED BY <2>1, <2>2, <2>3
  <1>2. Max({a, b, c}) \in {a, b, c} /\ \A y \in {a, b, c} : Max({a, b, c}) >= y
    BY <1>1 DEF Max
  <1> QED BY <1>2

-----------------------------------------------------------------------------
(* The backoff.  Its delays are a function defined by recursion; that there *)
(* is one is proved up to each number of attempts.                          *)

\* The delay after n attempts, from the one after n - 1.
Doubled(f, n, lo, hi) ==
    IF n = 0 THEN lo ELSE IF f[n - 1] >= hi \div 2 THEN hi ELSE 2 * f[n - 1]

IsDoubling(f, k, lo, hi) == f = [n \in 0..k |-> Doubled(f, n, lo, hi)]

\* There is such a function.
LEMMA DoublingExists ==
    ASSUME NEW k \in Nat, NEW lo \in Nat, NEW hi \in Nat
    PROVE  \E f : IsDoubling(f, k, lo, hi)
  <1> DEFINE T == {j \in 0..k : ~ \E f : IsDoubling(f, j, lo, hi)}
  <1>1. SUFFICES ASSUME T # {} PROVE FALSE
    <2>1. k \in 0..k
      OBVIOUS
    <2> QED BY <1>1, <2>1
  <1>2. PICK m \in T : \A j \in T : m <= j
    <2>1. T \subseteq 0..k
      OBVIOUS
    <2> HIDE DEF T
    <2> QED BY <1>1, <2>1, LeastNumber
  <1>3. m \in 0..k /\ ~ \E f : IsDoubling(f, m, lo, hi)
    OBVIOUS
  <1>4. m # 0
    <2> DEFINE f == [n \in 0..0 |-> lo]
    <2>1. \A n \in 0..0 : Doubled(f, n, lo, hi) = lo
      BY DEF Doubled
    <2> HIDE DEF Doubled
    <2>2. IsDoubling(f, 0, lo, hi)
      BY <2>1 DEF IsDoubling
    <2> QED BY <1>3, <2>2
  <1>5. m - 1 \in 0..k /\ m - 1 \notin T
    BY <1>2, <1>3, <1>4
  <1>6. PICK f : IsDoubling(f, m - 1, lo, hi)
    BY <1>5
  <1>7. \A n \in 0..(m - 1) : f[n] = Doubled(f, n, lo, hi)
    BY <1>6 DEF IsDoubling
  <1> DEFINE g == [n \in 0..m |-> IF n = m THEN Doubled(f, m, lo, hi) ELSE f[n]]
  <1>8. \A n \in 0..m : g[n] = Doubled(g, n, lo, hi)
    <2> SUFFICES ASSUME NEW n \in 0..m PROVE g[n] = Doubled(g, n, lo, hi)
      OBVIOUS
    <2>1. g[n] = Doubled(f, n, lo, hi)
      BY <1>3, <1>7
    <2>2. n # 0 => g[n - 1] = f[n - 1]
      BY <1>3
    <2> HIDE DEF g
    <2> QED BY <2>1, <2>2 DEF Doubled
  <1>9. IsDoubling(g, m, lo, hi)
    <2>1. g = [n \in 0..m |-> g[n]]
      OBVIOUS
    <2> HIDE DEF g
    <2> QED BY <1>8, <2>1 DEF IsDoubling
  <1> QED BY <1>3, <1>9

\* The delays are natural numbers.
LEMMA DoublingType ==
    ASSUME NEW k \in Nat, NEW lo \in Nat, NEW hi \in Nat, NEW f, IsDoubling(f, k, lo, hi)
    PROVE  \A n \in 0..k : f[n] \in Nat
  <1> DEFINE T == {n \in 0..k : f[n] \notin Nat}
  <1>1. SUFFICES ASSUME T # {} PROVE FALSE
    OBVIOUS
  <1>2. PICK m \in T : \A j \in T : m <= j
    <2>1. T \subseteq 0..k
      OBVIOUS
    <2> HIDE DEF T
    <2> QED BY <1>1, <2>1, LeastNumber
  <1>3. m # 0 => f[m - 1] \in Nat
    BY <1>2
  <1>4. f[m] = Doubled(f, m, lo, hi)
    BY DEF IsDoubling
  <1>5. f[m] \in Nat
    BY <1>3, <1>4 DEF Doubled
  <1> QED BY <1>5

\* The backoff comes from such a function.
LEMMA BackoffIs ==
    ASSUME NEW k \in Nat, NEW lo \in Nat, NEW hi \in Nat
    PROVE  \E f : /\ IsDoubling(f, k, lo, hi) /\ f[k] \in Nat
                 /\ Backoff(k, lo, hi) = IF f[k] <= hi THEN f[k] ELSE hi
  <1> DEFINE f == CHOOSE f : IsDoubling(f, k, lo, hi)
  <1>1. IsDoubling(f, k, lo, hi)
    BY DoublingExists
  <1>2. Backoff(k, lo, hi) = Min({f[k], hi})
    BY DEF Backoff, IsDoubling, Doubled
  <1> HIDE DEF f
  <1>3. f[k] \in Nat
    BY <1>1, DoublingType
  <1> QED BY <1>1, <1>2, <1>3, MinOfTwo

\* The backoff never exceeds its ceiling.
LEMMA BackoffBounded ==
    ASSUME NEW k \in Nat, NEW lo \in Nat, NEW hi \in Nat
    PROVE  Backoff(k, lo, hi) \in 0..hi
  <1>1. PICK f : /\ IsDoubling(f, k, lo, hi) /\ f[k] \in Nat
                 /\ Backoff(k, lo, hi) = IF f[k] <= hi THEN f[k] ELSE hi
    BY BackoffIs
  <1> QED BY <1>1

\* Two such functions agree as far as both go.
LEMMA DoublingUnique ==
    ASSUME NEW k \in Nat, NEW lo \in Nat, NEW hi \in Nat,
           NEW f, IsDoubling(f, k, lo, hi), NEW g, IsDoubling(g, k + 1, lo, hi)
    PROVE  f[k] = g[k] /\ g[k + 1] = Doubled(g, k + 1, lo, hi)
  <1> DEFINE T == {n \in 0..k : f[n] # g[n]}
  <1>1. /\ \A n \in 0..k : f[n] = Doubled(f, n, lo, hi)
        /\ \A n \in 0..(k + 1) : g[n] = Doubled(g, n, lo, hi)
    BY DEF IsDoubling
  <1>2. ASSUME T # {} PROVE FALSE
    <2>1. PICK m \in T : \A j \in T : m <= j
      <3>1. T \subseteq 0..k
        OBVIOUS
      <3> HIDE DEF T
      <3> QED BY <1>2, <3>1, LeastNumber
    <2>2. m # 0 => f[m - 1] = g[m - 1]
      BY <2>1
    <2>3. f[m] = Doubled(f, m, lo, hi) /\ g[m] = Doubled(g, m, lo, hi)
      BY <1>1
    <2>4. f[m] = g[m]
      BY <2>2, <2>3 DEF Doubled
    <2> QED BY <2>4
  <1> QED BY <1>1, <1>2

\* The backoff starts from the base delay and doubles with each attempt, until
\* twice the delay would come to the ceiling (fullJitter).
THEOREM BackoffStep ==
    ASSUME NEW k \in Nat, NEW lo \in Nat, NEW hi \in Nat, lo <= hi
    PROVE  /\ Backoff(0, lo, hi) = lo
           /\ Backoff(k + 1, lo, hi) = IF Backoff(k, lo, hi) >= hi \div 2
                                       THEN hi ELSE 2 * Backoff(k, lo, hi)
  <1>1. PICK e : /\ IsDoubling(e, 0, lo, hi)
                 /\ Backoff(0, lo, hi) = IF e[0] <= hi THEN e[0] ELSE hi
    BY BackoffIs
  <1>2. PICK f : /\ IsDoubling(f, k, lo, hi) /\ f[k] \in Nat
                 /\ Backoff(k, lo, hi) = IF f[k] <= hi THEN f[k] ELSE hi
    BY BackoffIs
  <1>3. PICK g : /\ IsDoubling(g, k + 1, lo, hi) /\ g[k + 1] \in Nat
                 /\ Backoff(k + 1, lo, hi) = IF g[k + 1] <= hi THEN g[k + 1] ELSE hi
    <2>1. k + 1 \in Nat
      OBVIOUS
    <2> QED BY <2>1, BackoffIs
  <1>4. e[0] = lo
    BY <1>1 DEF IsDoubling, Doubled
  <1>5. g[k + 1] = IF f[k] >= hi \div 2 THEN hi ELSE 2 * f[k]
    <2>1. f[k] = g[k] /\ g[k + 1] = Doubled(g, k + 1, lo, hi)
      BY <1>2, <1>3, DoublingUnique
    <2> QED BY <2>1 DEF Doubled
  <1> QED BY <1>1, <1>2, <1>3, <1>4, <1>5

-----------------------------------------------------------------------------
(* The powers of two, which the backoff is measured by *)

Power(f, n) == IF n = 0 THEN 1 ELSE 2 * f[n - 1]

IsPowers(f, k) == f = [n \in 0..k |-> Power(f, n)]

LEMMA PowersExist ==
    ASSUME NEW k \in Nat
    PROVE  \E f : IsPowers(f, k)
  <1> DEFINE T == {j \in 0..k : ~ \E f : IsPowers(f, j)}
  <1>1. SUFFICES ASSUME T # {} PROVE FALSE
    <2>1. k \in 0..k
      OBVIOUS
    <2> QED BY <1>1, <2>1
  <1>2. PICK m \in T : \A j \in T : m <= j
    <2>1. T \subseteq 0..k
      OBVIOUS
    <2> HIDE DEF T
    <2> QED BY <1>1, <2>1, LeastNumber
  <1>3. m \in 0..k /\ ~ \E f : IsPowers(f, m)
    OBVIOUS
  <1>4. m # 0
    <2> DEFINE f == [n \in 0..0 |-> 1]
    <2>1. \A n \in 0..0 : Power(f, n) = 1
      BY DEF Power
    <2> HIDE DEF Power
    <2>2. IsPowers(f, 0)
      BY <2>1 DEF IsPowers
    <2> QED BY <1>3, <2>2
  <1>5. m - 1 \in 0..k /\ m - 1 \notin T
    BY <1>2, <1>3, <1>4
  <1>6. PICK f : IsPowers(f, m - 1)
    BY <1>5
  <1>7. \A n \in 0..(m - 1) : f[n] = Power(f, n)
    BY <1>6 DEF IsPowers
  <1> DEFINE g == [n \in 0..m |-> IF n = m THEN Power(f, m) ELSE f[n]]
  <1>8. \A n \in 0..m : g[n] = Power(g, n)
    <2> SUFFICES ASSUME NEW n \in 0..m PROVE g[n] = Power(g, n)
      OBVIOUS
    <2>1. g[n] = Power(f, n)
      BY <1>3, <1>7
    <2>2. n # 0 => g[n - 1] = f[n - 1]
      BY <1>3
    <2> HIDE DEF g
    <2> QED BY <2>1, <2>2 DEF Power
  <1>9. IsPowers(g, m)
    <2>1. g = [n \in 0..m |-> g[n]]
      OBVIOUS
    <2> HIDE DEF g
    <2> QED BY <1>8, <2>1 DEF IsPowers
  <1> QED BY <1>3, <1>9

\* Two such functions agree as far as both go.
LEMMA PowersUnique ==
    ASSUME NEW k \in Nat, NEW f, IsPowers(f, k), NEW l \in Nat, k <= l, NEW g, IsPowers(g, l)
    PROVE  \A n \in 0..k : f[n] = g[n] /\ f[n] \in Nat
  <1> DEFINE T == {n \in 0..k : ~(f[n] = g[n] /\ f[n] \in Nat)}
  <1>1. /\ \A n \in 0..k : f[n] = Power(f, n)
        /\ \A n \in 0..l : g[n] = Power(g, n)
    BY DEF IsPowers
  <1>2. SUFFICES ASSUME T # {} PROVE FALSE
    OBVIOUS
  <1>3. PICK m \in T : \A j \in T : m <= j
    <2>1. T \subseteq 0..k
      OBVIOUS
    <2> HIDE DEF T
    <2> QED BY <1>2, <2>1, LeastNumber
  <1>4. m # 0 => f[m - 1] = g[m - 1] /\ f[m - 1] \in Nat
    BY <1>3
  <1>5. f[m] = Power(f, m) /\ g[m] = Power(g, m)
    BY <1>1
  <1> QED BY <1>4, <1>5 DEF Power

LEMMA PowerIs ==
    ASSUME NEW k \in Nat
    PROVE  \E f : IsPowers(f, k) /\ PowerOfTwo(k) = f[k]
  <1> DEFINE f == CHOOSE f : IsPowers(f, k)
  <1>1. IsPowers(f, k)
    BY PowersExist
  <1>2. PowerOfTwo(k) = f[k]
    BY DEF PowerOfTwo, IsPowers, Power
  <1> QED BY <1>1, <1>2

LEMMA PowerStep ==
    ASSUME NEW k \in Nat
    PROVE  /\ PowerOfTwo(0) = 1 /\ PowerOfTwo(k) \in Nat
           /\ PowerOfTwo(k + 1) = 2 * PowerOfTwo(k)
  <1>1. PICK e : IsPowers(e, 0) /\ PowerOfTwo(0) = e[0]
    BY PowerIs
  <1>2. PICK f : IsPowers(f, k) /\ PowerOfTwo(k) = f[k]
    BY PowerIs
  <1>3. PICK g : IsPowers(g, k + 1) /\ PowerOfTwo(k + 1) = g[k + 1]
    <2>1. k + 1 \in Nat
      OBVIOUS
    <2> QED BY <2>1, PowerIs
  <1>4. e[0] = 1
    BY <1>1 DEF IsPowers, Power
  <1>5. f[k] = g[k] /\ f[k] \in Nat
    <2>1. k + 1 \in Nat /\ k <= k + 1 /\ k \in 0..k
      OBVIOUS
    <2> QED BY <1>2, <1>3, <2>1, PowersUnique
  <1>6. g[k + 1] = 2 * g[k]
    <2>1. k + 1 \in 0..(k + 1) /\ k + 1 # 0 /\ (k + 1) - 1 = k
      OBVIOUS
    <2>2. g[k + 1] = Power(g, k + 1)
      BY <1>3, <2>1 DEF IsPowers
    <2> QED BY <2>1, <2>2 DEF Power
  <1> QED BY <1>1, <1>2, <1>3, <1>4, <1>5, <1>6

\* The backoff is the doubled base as long as that stays below the ceiling, and
\* the ceiling from then on: at an odd ceiling one doubling early at most.
Doubles(k, lo, hi) ==
    LET doubled == lo * PowerOfTwo(k)
    IN  \/ Backoff(k, lo, hi) = doubled /\ doubled <= hi
        \/ Backoff(k, lo, hi) = hi /\ hi <= doubled + 1

LEMMA BackoffDoublesBase ==
    ASSUME NEW k \in Nat, NEW lo \in Nat, NEW hi \in Nat, lo <= hi
    PROVE  Doubles(k, lo, hi)
  <1> DEFINE T == {n \in 0..k : ~Doubles(n, lo, hi)}
  <1>1. SUFFICES ASSUME T # {} PROVE FALSE
    <2>1. k \in 0..k
      OBVIOUS
    <2> QED BY <1>1, <2>1
  <1>2. PICK m \in T : \A j \in T : m <= j
    <2>1. T \subseteq 0..k
      OBVIOUS
    <2> HIDE DEF T
    <2> QED BY <1>1, <2>1, LeastNumber
  <1>3. m \in 0..k /\ ~Doubles(m, lo, hi)
    OBVIOUS
  <1>4. m # 0
    <2>1. Backoff(0, lo, hi) = lo /\ PowerOfTwo(0) = 1
      BY BackoffStep, PowerStep
    <2>2. Doubles(0, lo, hi)
      BY <2>1 DEF Doubles
    <2> QED BY <1>3, <2>2
  <1>5. PICK n \in Nat : m = n + 1
    <2>1. m - 1 \in Nat /\ m = (m - 1) + 1
      BY <1>3, <1>4
    <2> QED BY <2>1
  <1>6. Doubles(n, lo, hi)
    <2>1. n \in 0..k /\ ~(m <= n)
      BY <1>3, <1>5
    <2> QED BY <1>2, <2>1
  <1> DEFINE d == lo * PowerOfTwo(n)
             b == Backoff(n, lo, hi)
  <1>7. d \in Nat /\ lo * PowerOfTwo(m) = 2 * d
    <2>1. PowerOfTwo(n) \in Nat /\ PowerOfTwo(m) = 2 * PowerOfTwo(n)
      BY <1>5, PowerStep
    <2>2. \A p \in Nat : lo * p \in Nat /\ lo * (2 * p) = 2 * (lo * p)
      OBVIOUS
    <2> QED BY <2>1, <2>2
  <1>8. Backoff(m, lo, hi) = IF b >= hi \div 2 THEN hi ELSE 2 * b
    BY <1>5, BackoffStep
  <1>9. \/ b = d /\ d <= hi
        \/ b = hi /\ hi <= d + 1
    BY <1>6 DEF Doubles
  <1> HIDE DEF d, b
  <1>10. \/ Backoff(m, lo, hi) = 2 * d /\ 2 * d <= hi
         \/ Backoff(m, lo, hi) = hi /\ hi <= 2 * d + 1
    BY <1>7, <1>8, <1>9
  <1>11. Doubles(m, lo, hi)
    BY <1>7, <1>10 DEF Doubles
  <1> QED BY <1>3, <1>11

-----------------------------------------------------------------------------
(* Retry-After *)

\* A number that a duration can hold does not wrap.
LEMMA FittingNumber ==
    ASSUME NEW m \in Nat, NEW n \in 0..m
    PROVE  Wrapped(n, m) = n
  <1>1. \A x \in Nat, p \in Nat \ {0} : x < p => x % p = x
    OBVIOUS
  <1>2. (n + m + 1) % (2 * m + 2) = n + m + 1
    BY <1>1
  <1> QED BY <1>2 DEF Wrapped

\* A header is read as what it asks for, if a duration can hold that.
LEMMA ParseMeans ==
    ASSUME ScheduleAssumption, NEW h \in Headers
    PROVE  /\ ParseRetryAfter(h, Second, MaxDuration) \in Nat
           /\ Asked(h) \in Int
           /\ Asked(h) <= MaxDuration => Asked(h) <= ParseRetryAfter(h, Second, MaxDuration)
  <1> DEFINE v == h.value
             limit == MaxDuration \div Second
  <1>1. /\ h.kind \in {"none", "seconds", "date"} /\ v \in Int
        /\ Second \in Nat \ {0} /\ MaxDuration \in Nat
    BY DEF ScheduleAssumption
  <1>2. limit \in Nat
    BY <1>1, DivBounds
  <1>3. CASE h.kind = "none"
    BY <1>3 DEF ParseRetryAfter, Asked
  <1>4. CASE h.kind = "date"
    BY <1>1, <1>4 DEF ParseRetryAfter, Asked
  <1>5. CASE h.kind = "seconds"
    <2>1. Asked(h) = v * Second /\ v * Second \in Int
      BY <1>1, <1>5 DEF Asked
    <2>2. ParseRetryAfter(h, Second, MaxDuration) =
              IF v \in 1..limit THEN Wrapped(v * Second, MaxDuration) ELSE 0
      BY <1>5 DEF ParseRetryAfter
    <2> HIDE DEF v, limit
    <2>3. CASE v <= 0
      <3>1. (0 - v) \in Nat /\ (0 - v) * Second >= 0 /\ (0 - v) * Second = 0 - v * Second
        BY <1>1, <2>3
      <3> QED BY <1>2, <2>1, <2>2, <2>3, <3>1
    <2>4. CASE v > 0
      <3>1. v \in Nat /\ v * Second \in Nat
        BY <1>1, <2>4
      <3>2. v <= limit <=> v * Second <= MaxDuration
        BY <1>1, <3>1, WholeFit DEF limit
      <3>3. v <= limit => Wrapped(v * Second, MaxDuration) = v * Second
        BY <1>1, <3>1, <3>2, FittingNumber
      <3> QED BY <1>1, <1>2, <2>1, <2>2, <2>4, <3>1, <3>2, <3>3
    <2> QED BY <1>1, <2>3, <2>4
  <1> QED BY <1>1, <1>3, <1>4, <1>5

-----------------------------------------------------------------------------
(* The delay *)

\* Jitter shortens the backoff, if it changes it.
LEMMA Jittered ==
    ASSUME NEW b \in Nat, NEW j \in Int
    PROVE  /\ (b * Min({Max({j, 0}), 100})) \div 100 \in Nat
           /\ (b * Min({Max({j, 0}), 100})) \div 100 <= b
  <1> DEFINE percent == Min({Max({j, 0}), 100})
             d == (b * percent) \div 100
  <1>1. percent \in 0..100
    <2> DEFINE m == Max({j, 0})
    <2>1. m \in Int /\ m >= 0
      BY MaxOfTwo
    <2> HIDE DEF m
    <2>2. Min({m, 100}) = IF m <= 100 THEN m ELSE 100
      BY <2>1, MinOfTwo
    <2> QED BY <2>1, <2>2 DEF m
  <1> HIDE DEF percent
  <1>2. b * percent \in Nat /\ b * percent <= b * 100
    <2>1. percent * b <= 100 * b
      BY <1>1, TimesMonotone
    <2> QED BY <1>1, <2>1
  <1>3. d \in Nat /\ d * 100 <= b * percent
    BY <1>2, DivBounds
  <1> HIDE DEF d
  <1>4. d * 100 <= b * 100
    BY <1>2, <1>3
  <1>5. d \in Nat /\ d <= b
    BY <1>3, <1>4
  <1> QED BY <1>5 DEF d, percent

\* The delay of a retry is bounded by the ceilings, and not below what was asked.
LEMMA DelayMeans ==
    ASSUME NEW b \in Nat, NEW j \in Int, NEW asked \in Nat, NEW cap \in Nat, NEW least \in Nat,
           NEW hi \in Nat, b <= hi
    PROVE  /\ RetryDelay(b, j, asked, cap, least) \in Nat
           /\ least <= RetryDelay(b, j, asked, cap, least)
           /\ RetryDelay(b, j, asked, cap, least) <= Max({hi, cap, least})
           /\ Min({asked, cap}) <= RetryDelay(b, j, asked, cap, least)
  <1> DEFINE d == (b * Min({Max({j, 0}), 100})) \div 100
             a == Min({asked, cap})
             delayed == RetryDelay(b, j, asked, cap, least)
             most == Max({hi, cap, least})
  <1>1. d \in Nat /\ d <= b
    BY Jittered
  <1>2. a \in Nat /\ a <= cap
    BY MinOfTwo
  <1>3. delayed = Max({d, a, least})
    BY DEF RetryDelay
  <1> HIDE DEF d, a, delayed
  <1>4. delayed \in {d, a, least} /\ delayed >= d /\ delayed >= a /\ delayed >= least
    BY <1>1, <1>2, <1>3, MaxOfThree
  <1>5. most \in {hi, cap, least} /\ most >= hi /\ most >= cap /\ most >= least
    BY MaxOfThree
  <1> HIDE DEF most
  <1>6. delayed \in Nat /\ least <= delayed /\ delayed <= most /\ a <= delayed
    BY <1>1, <1>2, <1>4, <1>5
  <1> QED BY <1>6 DEF delayed, most, a

-----------------------------------------------------------------------------
(* The schedule *)

\* The inductive invariant: the delay of the last answer keeps its bounds.
ScheduleInv ==
    /\ base \in Nat /\ max \in Nat /\ attempts \in Nat
    /\ StallBounded /\ RetryAfterHonoured

\* New settles options that are in range.
LEMMA ScheduleInit == ScheduleAssumption /\ RetryInit => ScheduleInv
  <1> SUFFICES ASSUME ScheduleAssumption, RetryInit PROVE ScheduleInv
    OBVIOUS
  <1>1. PICK b \in BaseRetries, m \in MaxRetries :
            /\ max = (IF m = 0 THEN DefaultMax ELSE m)
            /\ base = Min({IF b = 0 THEN DefaultBase ELSE b, max})
    BY DEF RetryInit
  <1>2. max \in Nat
    BY <1>1 DEF ScheduleAssumption
  <1>3. base \in Nat
    <2> DEFINE b0 == IF b = 0 THEN DefaultBase ELSE b
    <2>1. b0 \in Nat
      BY DEF ScheduleAssumption
    <2> HIDE DEF b0
    <2>2. Min({b0, max}) \in Nat
      BY <1>2, <2>1, MinOfTwo
    <2> QED BY <1>1, <2>2 DEF b0
  <1>4. StallBounded
    <2>1. MinimumDelay \in Nat /\ RetryAfterCap \in Nat /\ delay = MinimumDelay
      BY DEF RetryInit, ScheduleAssumption
    <2> DEFINE most == Max({max, RetryAfterCap, MinimumDelay})
    <2>2. max \in Int /\ RetryAfterCap \in Int /\ MinimumDelay \in Int
      BY <1>2, <2>1
    <2>3. most \in {max, RetryAfterCap, MinimumDelay} /\ most >= MinimumDelay
      BY <2>2, MaxOfThree, Zenon
    <2> HIDE DEF most
    <2>4. MinimumDelay <= most
      BY <2>2, <2>3
    <2> QED BY <2>1, <2>4 DEF StallBounded, most
  <1>5. RetryAfterHonoured
    <2>1. /\ MinimumDelay \in Nat /\ RetryAfterCap \in Nat /\ delay = MinimumDelay
          /\ Asked(header) = 0
      BY DEF RetryInit, ScheduleAssumption, NoHeader, Asked
    <2>2. Min({0, RetryAfterCap}) = 0
      BY <2>1, MinOfTwo
    <2> QED BY <2>1, <2>2 DEF RetryAfterHonoured
  <1>6. attempts \in Nat
    BY DEF RetryInit
  <1> QED BY <1>2, <1>3, <1>4, <1>5, <1>6 DEF ScheduleInv

\* A retry preserves the invariant, whatever the answer and the jitter.
LEMMA ScheduleNext == ScheduleAssumption /\ ScheduleInv /\ [Retry]_retryVars => ScheduleInv'
  <1> SUFFICES ASSUME ScheduleAssumption, ScheduleInv, [Retry]_retryVars PROVE ScheduleInv'
    OBVIOUS
  <1>1. CASE Retry
    <2>1. /\ base \in Nat /\ max \in Nat /\ attempts \in Nat
          /\ base' = base /\ max' = max /\ attempts' = attempts + 1
          /\ RetryAfterCap \in Nat /\ MinimumDelay \in Nat
      BY <1>1 DEF Retry, ScheduleInv, ScheduleAssumption
    <2> DEFINE b == Backoff(attempts, base, max)
    <2>2. PICK h \in Headers, jitter \in Jitters :
              /\ header' = h
              /\ delay' = RetryDelay(b, jitter, ParseRetryAfter(h, Second, MaxDuration),
                                     RetryAfterCap, MinimumDelay)
      BY <1>1, Zenon DEF Retry
    <2>3. b \in Nat /\ b <= max
      BY <2>1, BackoffBounded
    <2> DEFINE asked == ParseRetryAfter(h, Second, MaxDuration)
    <2>4. /\ asked \in Nat /\ Asked(h) \in Int
          /\ Asked(h) <= MaxDuration => Asked(h) <= asked
      BY ParseMeans
    <2>5. jitter \in Int
      BY DEF ScheduleAssumption
    <2> HIDE DEF b, asked
    <2>6. /\ delay' \in Nat /\ MinimumDelay <= delay'
          /\ delay' <= Max({max, RetryAfterCap, MinimumDelay})
          /\ Min({asked, RetryAfterCap}) <= delay'
      BY <2>1, <2>2, <2>3, <2>4, <2>5, DelayMeans DEF asked
    <2>7. Asked(h) <= MaxDuration => Min({Asked(h), RetryAfterCap}) <= delay'
      <3>1. Min({asked, RetryAfterCap}) = IF asked <= RetryAfterCap THEN asked ELSE RetryAfterCap
        BY <2>1, <2>4, MinOfTwo
      <3>2. Min({Asked(h), RetryAfterCap}) =
                IF Asked(h) <= RetryAfterCap THEN Asked(h) ELSE RetryAfterCap
        BY <2>1, <2>4, MinOfTwo
      <3> QED BY <2>1, <2>4, <2>6, <3>1, <3>2
    <2>8. StallBounded'
      BY <2>1, <2>6 DEF StallBounded
    <2>9. RetryAfterHonoured'
      <3>1. Asked(header') = Asked(h)
        BY <2>2
      <3>2. Min({Asked(h), RetryAfterCap}) \in Int
        BY <2>1, <2>4, MinOfTwo
      <3>3. Asked(h) <= MaxDuration => delay' >= Min({Asked(h), RetryAfterCap})
        BY <2>6, <2>7, <3>2
      <3> QED BY <3>1, <3>3 DEF RetryAfterHonoured, Asked
    <2> QED BY <2>1, <2>8, <2>9 DEF ScheduleInv
  <1>2. CASE UNCHANGED retryVars
    BY <1>2 DEF retryVars, ScheduleInv, StallBounded, RetryAfterHonoured, Asked
  <1> QED BY <1>1, <1>2

\* The backoff doubles with each attempt until it meets its ceiling, for every
\* base, ceiling and number of attempts (fullJitter): New keeps the base below
\* the ceiling, and stopping at half of it loses at most one.
THEOREM BackoffKeepsDoubling == RetrySpec => []BackoffDoubles
  <1> DEFINE Ordered == base \in Nat /\ max \in Nat /\ base <= max /\ attempts \in Nat
  <1>1. ScheduleAssumption /\ RetryInit => Ordered
    <2> SUFFICES ASSUME ScheduleAssumption, RetryInit PROVE Ordered
      OBVIOUS
    <2>1. PICK b \in BaseRetries, m \in MaxRetries :
              /\ max = (IF m = 0 THEN DefaultMax ELSE m)
              /\ base = Min({IF b = 0 THEN DefaultBase ELSE b, max})
      BY DEF RetryInit
    <2>2. max \in Nat /\ attempts \in Nat
      BY <2>1 DEF RetryInit, ScheduleAssumption
    <2> DEFINE asked == IF b = 0 THEN DefaultBase ELSE b
    <2>3. asked \in Nat
      BY DEF ScheduleAssumption
    <2>4. base = Min({asked, max})
      BY <2>1
    <2> HIDE DEF asked
    <2>5. Min({asked, max}) = IF asked <= max THEN asked ELSE max
      BY <2>2, <2>3, MinOfTwo
    <2> QED BY <2>2, <2>3, <2>4, <2>5
  <1>2. Ordered /\ [Retry]_retryVars => Ordered'
    BY DEF Retry, retryVars
  <1>3. Ordered => BackoffDoubles
    <2> SUFFICES ASSUME Ordered PROVE BackoffDoubles
      OBVIOUS
    <2> DEFINE doubled == base * PowerOfTwo(attempts)
               backoff == Backoff(attempts, base, max)
    <2>1. \/ backoff = doubled /\ doubled <= max
          \/ backoff = max /\ max <= doubled + 1
      BY BackoffDoublesBase DEF Doubles
    <2>2. doubled \in Nat
      <3>1. PowerOfTwo(attempts) \in Nat
        BY PowerStep
      <3>2. \A p \in Nat : base * p \in Nat
        OBVIOUS
      <3> QED BY <3>1, <3>2
    <2> HIDE DEF doubled, backoff
    <2>3. /\ Min({doubled, max}) = IF doubled <= max THEN doubled ELSE max
          /\ Min({doubled + 1, max}) = IF doubled + 1 <= max THEN doubled + 1 ELSE max
      BY <2>2, MinOfTwo
    <2>4. Min({doubled, max}) <= backoff /\ backoff <= Min({doubled + 1, max})
      BY <2>1, <2>2, <2>3
    <2> QED BY <2>4 DEF BackoffDoubles, doubled, backoff
  <1> QED BY <1>1, <1>2, <1>3, ScheduleAssumption, PTL DEF RetrySpec

\* Neither a long Retry-After nor many attempts stall the FIFO head longer
\* than the larger of the two ceilings, and no answer makes the worker spin,
\* for every width of a duration, option, answer and jitter (fullJitter).
THEOREM StallsAreBounded == RetrySpec => []StallBounded
  <1>1. ScheduleInv => StallBounded
    BY DEF ScheduleInv
  <1> QED BY <1>1, ScheduleInit, ScheduleNext, ScheduleAssumption, PTL DEF RetrySpec

\* A Retry-After that a duration can hold is honoured up to its ceiling: the
\* product of the seconds never wraps (parseRetryAfter).
THEOREM RetryAfterIsHonoured == RetrySpec => []RetryAfterHonoured
  <1>1. ScheduleInv => RetryAfterHonoured
    BY DEF ScheduleInv
  <1> QED BY <1>1, ScheduleInit, ScheduleNext, ScheduleAssumption, PTL DEF RetrySpec

-----------------------------------------------------------------------------
(* The room of a record *)

\* The pages for a number of bytes hold them.
LEMMA PagesHold ==
    ASSUME NEW n \in Nat, NEW p \in Nat \ {0}
    PROVE  /\ Pages(n, p) \in Nat
           /\ n <= Pages(n, p) * p
           /\ n >= 1 => Pages(n, p) >= 1
  <1>1. n + p - 1 \in Nat
    OBVIOUS
  <1>2. /\ Pages(n, p) \in Nat /\ n + p - 1 < Pages(n, p) * p + p
    BY <1>1, DivBounds DEF Pages
  <1>3. Pages(n, p) * p \in Nat
    BY <1>2
  <1>4. n <= Pages(n, p) * p
    BY <1>2, <1>3
  <1>5. Pages(n, p) = 0 => Pages(n, p) * p = 0
    OBVIOUS
  <1> QED BY <1>2, <1>3, <1>4, <1>5

\* The projected growth is the room that a record may need, or the largest
\* integer where that room does not fit an integer: no intermediate result
\* wraps, and no limit is drawn too early.
THEOREM GrowthIsExact ==
    ASSUME NEW p \in 1..(MaxInt \div 2), NEW a \in 0..MaxInt, NEW r \in 1..MaxInt
    PROVE  /\ Room(r, p, a) \in Nat
           /\ Growth(r, p, a) = IF Room(r, p, a) <= MaxInt THEN Room(r, p, a) ELSE MaxInt
  <1> DEFINE d == Pages(r, p)
             c == Pages(a, p)
             m == MaxInt \div p
             k == 2 * d + c
  <1>1. MaxInt \in Nat /\ p \in Nat \ {0} /\ 2 * p <= MaxInt /\ a \in Nat /\ r \in Nat /\ r >= 1
    BY GuardAssumption
  <1>2. d \in Nat /\ d >= 1 /\ r <= d * p /\ c \in Nat /\ a <= c * p
    BY <1>1, PagesHold
  <1>3. m \in Nat
    BY <1>1, DivBounds
  <1>4. Room(r, p, a) = k * p
    BY DEF Room
  <1>5. Growth(r, p, a) =
            IF \/ r > MaxInt - p + 1 \/ a > MaxInt - p + 1 \/ c > m \/ d > (m - c) \div 2
            THEN MaxInt ELSE k * p
    BY DEF Growth
  <1> HIDE DEF d, c
  <1>6. k \in Nat /\ k * p \in Nat /\ d * p \in Nat /\ c * p \in Nat
    BY <1>1, <1>2
  <1>7. k * p = 2 * (d * p) + c * p
    BY <1>1, <1>2
  <1>8. k <= m <=> k * p <= MaxInt
    BY <1>1, <1>6, WholeFit
  <1> HIDE DEF m
  <1>9. c > m \/ d > (m - c) \div 2 <=> k > m
    BY <1>2, <1>3
  <1>10. r > MaxInt - p + 1 => k * p > MaxInt
    BY <1>1, <1>2, <1>6, <1>7
  <1>11. d * p >= p
    <2>1. 1 * p <= d * p
      BY <1>1, <1>2, TimesMonotone
    <2> QED BY <1>1, <2>1
  <1>12. a > MaxInt - p + 1 => k * p > MaxInt
    BY <1>1, <1>2, <1>6, <1>7, <1>11
  <1> HIDE DEF k
  <1> QED BY <1>1, <1>3, <1>4, <1>5, <1>6, <1>8, <1>9, <1>10, <1>12

-----------------------------------------------------------------------------
(* The guard at work *)

\* The limits are those of a gateway, or none.
LimitsOK ==
    /\ limits.pageSize \in PageSizes /\ limits.allocSize \in AllocSizes
    /\ limits.maxDB \in Ceilings \cup {0} /\ limits.minFree \in Reserves \cup {0}
    /\ limits = [pageSize |-> limits.pageSize, allocSize |-> limits.allocSize,
                 maxDB |-> limits.maxDB, minFree |-> limits.minFree]

\* The inductive invariant: a check that passed saw the file as it still is,
\* because writeMu keeps the other transactions out.
GuardInv ==
    /\ LimitsOK
    /\ size \in 1..MaxInt /\ free \in 0..MaxInt
    /\ checked = [answer |-> checked.answer, record |-> checked.record,
                  size |-> checked.size, free |-> checked.free]
    /\ checked.answer \in {"pass", "committed", "refuse", "stat_failed"} =>
           checked.record \in Records
    /\ checked.answer = "pass" => checked.size = size
    /\ GuardExact

\* A check passes exactly the records that fit.
LEMMA CheckMeansFits ==
    ASSUME LimitsOK, NEW r \in Records, NEW bytes \in 1..MaxInt, NEW available \in 0..MaxInt
    PROVE  Check(Growth(r, limits.pageSize, limits.allocSize), limits, bytes, available)
               <=> Fits(r, bytes, available)
  <1> DEFINE room == Room(r, limits.pageSize, limits.allocSize)
             growth == Growth(r, limits.pageSize, limits.allocSize)
  <1>1. /\ MaxInt \in Nat /\ limits.pageSize \in 1..(MaxInt \div 2)
        /\ limits.allocSize \in 0..MaxInt /\ r \in 1..MaxInt
        /\ limits.maxDB \in 0..MaxInt /\ limits.minFree \in 0..MaxInt
    BY GuardAssumption DEF LimitsOK
  <1>2. room \in Nat /\ growth = IF room <= MaxInt THEN room ELSE MaxInt
    BY <1>1, GrowthIsExact
  <1> HIDE DEF room, growth
  <1>3. Check(growth, limits, bytes, available) <=>
            /\ limits.maxDB > 0 => bytes + room <= limits.maxDB
            /\ limits.minFree > 0 => room <= available - limits.minFree
    BY <1>1, <1>2 DEF Check
  <1> QED BY <1>3 DEF Fits, room, growth

\* A page is at most the room of a record.
LEMMA PageWithinRoom ==
    ASSUME LimitsOK, NEW r \in Records
    PROVE  /\ Room(r, limits.pageSize, limits.allocSize) \in Nat
           /\ limits.pageSize <= Room(r, limits.pageSize, limits.allocSize)
  <1> DEFINE p == limits.pageSize
             k == 2 * Pages(r, p) + Pages(limits.allocSize, p)
  <1>1. /\ MaxInt \in Nat /\ p \in 1..(MaxInt \div 2) /\ limits.allocSize \in 0..MaxInt
        /\ r \in 1..MaxInt
    BY GuardAssumption DEF LimitsOK
  <1>2. p \in Nat \ {0} /\ limits.allocSize \in Nat /\ r \in Nat /\ r >= 1
    BY <1>1
  <1> HIDE DEF p
  <1>3. k \in Nat /\ 1 <= k
    <2>1. Pages(r, p) \in Nat /\ Pages(r, p) >= 1
      BY <1>2, PagesHold
    <2>2. Pages(limits.allocSize, p) \in Nat
      BY <1>2, PagesHold
    <2> QED BY <2>1, <2>2
  <1> HIDE DEF k
  <1>4. 1 * p <= k * p /\ k * p \in Nat
    BY <1>2, <1>3, TimesMonotone
  <1> QED BY <1>2, <1>4 DEF Room, k, p

\* The guard starts without a check.
LEMMA GuardInit == GuardStart => GuardInv
  BY GuardAssumption DEF GuardStart, GuardInv, LimitsOK, GuardExact, Unchecked

\* Every step preserves the invariant.
LEMMA GuardNext == GuardInv /\ [GuardStep]_guardVars => GuardInv'
  <1> SUFFICES ASSUME GuardInv, [GuardStep]_guardVars PROVE GuardInv'
    OBVIOUS
  <1>1. /\ LimitsOK /\ MaxInt \in Nat /\ size \in 1..MaxInt /\ free \in 0..MaxInt
        /\ limits.pageSize \in 1..MaxInt /\ limits.maxDB \in 0..MaxInt
    BY GuardAssumption DEF GuardInv, LimitsOK
  <1>2. ASSUME NEW record \in Records, CheckRecord(record) PROVE GuardInv'
    <2>1. UNCHANGED <<limits, size, free>>
      BY <1>2 DEF CheckRecord
    <2>2. PICK a \in {"pass", "refuse", "stat_failed"} :
              /\ checked' = [answer |-> a, record |-> record, size |-> size, free |-> free]
              /\ a # "stat_failed" =>
                    (a = "pass" <=> Check(Growth(record, limits.pageSize, limits.allocSize),
                                          limits, size, free))
      BY <1>2 DEF CheckRecord
    <2>3. a # "stat_failed" => (a = "pass" <=> Fits(record, size, free))
      BY <1>1, <2>2, CheckMeansFits
    <2> QED BY <1>1, <2>1, <2>2, <2>3 DEF GuardInv, LimitsOK, GuardExact, Fits
  <1>3. CASE CommitRecord
    <2> DEFINE room == Room(checked.record, limits.pageSize, limits.allocSize)
    <2>1. /\ checked.answer = "pass" /\ checked.record \in Records /\ checked.size = size
          /\ Fits(checked.record, checked.size, checked.free)
      BY <1>3 DEF CommitRecord, GuardInv, GuardExact
    <2>2. room \in Nat /\ limits.pageSize <= room
      BY <1>1, <2>1, PageWithinRoom
    <2>3. PICK growth \in {0, limits.pageSize, room} :
              /\ growth <= free /\ size + growth <= MaxInt
              /\ size' = size + growth /\ free' = free - growth
      BY <1>3 DEF CommitRecord
    <2>4. /\ checked' = [answer |-> "committed", record |-> checked.record,
                         size |-> checked.size, free |-> checked.free]
          /\ limits' = limits
      BY <1>3 DEF CommitRecord, GuardInv
    <2>5. limits.maxDB > 0 => checked.size + room <= limits.maxDB
      BY <2>1 DEF Fits
    <2> HIDE DEF room
    <2>6. growth \in Nat /\ growth <= room
      BY <1>1, <2>2, <2>3
    <2>7. size' \in 1..MaxInt /\ free' \in 0..MaxInt
          /\ (limits.maxDB > 0 => size' <= limits.maxDB)
      BY <1>1, <2>1, <2>2, <2>3, <2>5, <2>6
    <2>8. GuardExact'
      BY <2>1, <2>4, <2>7 DEF GuardExact, Fits
    <2> QED BY <1>1, <2>1, <2>4, <2>7, <2>8 DEF GuardInv, LimitsOK
  <1>4. CASE CommitFails
    BY <1>1, <1>4 DEF CommitFails, Unchecked, GuardInv, LimitsOK, GuardExact
  <1>5. CASE GrowUnchecked
    BY <1>1, <1>5 DEF GrowUnchecked, Unchecked, GuardInv, LimitsOK, GuardExact
  <1>6. CASE OthersUse
    BY <1>1, <1>6, GuardAssumption DEF OthersUse, GuardInv, LimitsOK, GuardExact, Fits
  <1>7. CASE Reopen
    BY <1>1, <1>7 DEF Reopen, Unchecked, GuardInv, LimitsOK, GuardExact
  <1>8. CASE UNCHANGED guardVars
    BY <1>8 DEF guardVars, GuardInv, LimitsOK, GuardExact, Fits
  <1> QED BY <1>2, <1>3, <1>4, <1>5, <1>6, <1>7, <1>8 DEF GuardStep

\* The guard lets in exactly the records that fit its limits, and what is
\* committed keeps the file within its ceiling, for every width of the
\* integers, page size, allocation chunk and interleaving with others.
THEOREM GuardIsExact == GuardSpec => []GuardExact
  <1>1. GuardInv => GuardExact
    BY DEF GuardInv
  <1> QED BY <1>1, GuardInit, GuardNext, PTL DEF GuardSpec
=============================================================================
