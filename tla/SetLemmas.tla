------------------------------ MODULE SetLemmas ------------------------------
(***************************************************************************)
(* What the proofs need of finite sets and of the sums over them.          *)
(***************************************************************************)
EXTENDS Functions, FiniteSetTheorems, WellFoundedInduction, TLAPS

\* Of the sets in a family of finite sets one has no other below it.
LEMMA LeastSet ==
    ASSUME NEW S, IsFiniteSet(S), NEW F, F \subseteq SUBSET S, F # {}
    PROVE  \E a \in F : \A b \in F : b \subseteq a => b = a
  <1>1. F \subseteq FiniteSubsetsOf(S)
    BY FS_Subset DEF FiniteSubsetsOf
  <1>2. \E a \in F : \A b \in F : ~(<<b, a>> \in StrictSubsetOrdering(S))
    BY <1>1, FS_StrictSubsetOrderingWellFounded, WFMin
  <1> QED BY <1>1, <1>2 DEF StrictSubsetOrdering, FiniteSubsetsOf

\* Of finitely many numbers one is the highest.
LEMMA HighestNumber ==
    ASSUME NEW A, IsFiniteSet(A), A # {}, \A x \in A : x \in Int
    PROVE  \E x \in A : \A y \in A : x >= y
  <1> DEFINE From(x) == {y \in A : x <= y}
             Family == {From(x) : x \in A}
  <1>1. Family \subseteq SUBSET A
    OBVIOUS
  <1>2. Family # {}
    <2>1. PICK x \in A : TRUE
      OBVIOUS
    <2>2. From(x) \in Family
      OBVIOUS
    <2> QED BY <2>2
  <1>3. PICK a \in Family : \A b \in Family : b \subseteq a => b = a
    <2> HIDE DEF Family
    <2> QED BY <1>1, <1>2, LeastSet
  <1>4. PICK x \in A : a = From(x)
    OBVIOUS
  <1>5. ASSUME NEW y \in A, ~(x >= y) PROVE FALSE
    <2>1. x \in Int /\ y \in Int /\ \A z \in A : z \in Int
      OBVIOUS
    <2>3. \A z \in From(y) : z \in From(x)
      BY <1>5, <2>1
    <2>4. x \in From(x) /\ x \notin From(y)
      BY <1>5, <2>1
    <2>2. From(y) \in Family
      OBVIOUS
    <2> HIDE DEF From, Family
    <2> QED BY <1>3, <1>4, <2>2, <2>3, <2>4
  <1> QED BY <1>5

\* Of the numbers up to some bound with a given property, one is the least.
LEMMA LeastNumber ==
    ASSUME NEW n \in Nat, NEW T, T \subseteq 0..n, T # {}
    PROVE  \E m \in T : \A k \in T : m <= k
  <1> DEFINE Family == {0..k : k \in T}
  <1>1. IsFiniteSet(0..n)
    BY FS_Interval
  <1>2. Family \subseteq FiniteSubsetsOf(0..n)
    <2> SUFFICES ASSUME NEW k \in T PROVE 0..k \in FiniteSubsetsOf(0..n)
      OBVIOUS
    <2>1. 0..k \subseteq 0..n
      OBVIOUS
    <2> QED BY <1>1, <2>1, FS_Subset DEF FiniteSubsetsOf
  <1>3. Family # {}
    OBVIOUS
  <1>4. PICK a \in Family : \A b \in Family : ~(<<b, a>> \in StrictSubsetOrdering(0..n))
    <2> HIDE DEF Family
    <2> QED BY <1>1, <1>2, <1>3, FS_StrictSubsetOrderingWellFounded, WFMin
  <1>5. PICK m \in T : a = 0..m
    OBVIOUS
  <1>6. ASSUME NEW k \in T, ~(m <= k) PROVE FALSE
    <2>1. k \in Nat /\ m \in Nat /\ 0..k \subseteq 0..n /\ 0..m \subseteq 0..n
      OBVIOUS
    <2>2. 0..k \subseteq 0..m /\ m \in 0..m /\ m \notin 0..k
      BY <1>6, <2>1
    <2>3. 0..k \in Family
      OBVIOUS
    <2>4. 0..k # 0..m
      BY <2>2
    <2>5. 0..k \in SUBSET (0..n) /\ 0..m \in SUBSET (0..n)
      BY <2>1
    <2>6. <<0..k, 0..m>> \in StrictSubsetOrdering(0..n)
      <3>1. 0..k \in FiniteSubsetsOf(0..n) /\ 0..m \in FiniteSubsetsOf(0..n)
        BY <1>2, <1>4, <1>5, <2>3
      <3> QED BY <3>1, <2>2, <2>4 DEF StrictSubsetOrdering
    <2> HIDE DEF Family
    <2> QED BY <1>4, <1>5, <2>3, <2>6
  <1> QED BY <1>6

-----------------------------------------------------------------------------
(* Sums.  A sum over a finite set is a function on its subsets, defined by  *)
(* recursion; what it does is shown of its smallest counterexample.         *)

Total(f, S) == FoldFunctionOnSet(+, 0, f, S)

One(S) == CHOOSE x \in S : TRUE

\* The sum over a set, from the sums over its subsets.
Added(sum, f, S) == IF S = {} THEN 0 ELSE f[One(S)] + sum[S \ {One(S)}]

IsSum(sum, f, S) == sum = [T \in SUBSET S |-> Added(sum, f, T)]

LEMMA OneIsMember == ASSUME NEW S, S # {} PROVE One(S) \in S
  BY DEF One

\* Two such functions agree where both are defined.
LEMMA SumUnique ==
    ASSUME NEW S, IsFiniteSet(S), NEW T \in SUBSET S, NEW f,
           NEW a, IsSum(a, f, S), NEW b, IsSum(b, f, T)
    PROVE  \A R \in SUBSET T : a[R] = b[R]
  <1> DEFINE F == {R \in SUBSET T : a[R] # b[R]}
  <1>1. SUFFICES ASSUME F # {} PROVE FALSE
    OBVIOUS
  <1>2. PICK R \in F : \A Q \in F : Q \subseteq R => Q = R
    <2>1. F \subseteq SUBSET S
      OBVIOUS
    <2> HIDE DEF F
    <2> QED BY <1>1, <2>1, LeastSet
  <1>3. R \in SUBSET T /\ R \in SUBSET S /\ a[R] # b[R]
    OBVIOUS
  <1>4. a[R] = Added(a, f, R) /\ b[R] = Added(b, f, R)
    BY <1>3 DEF IsSum
  <1>5. R # {} => a[R \ {One(R)}] = b[R \ {One(R)}]
    <2> HAVE R # {}
    <2>1. One(R) \in R
      BY OneIsMember
    <2>2. R \ {One(R)} \in SUBSET T /\ R \ {One(R)} \subseteq R /\ R \ {One(R)} # R
      BY <1>3, <2>1
    <2>3. R \ {One(R)} \notin F
      BY <1>2, <2>2
    <2> QED BY <2>2, <2>3
  <1> QED BY <1>3, <1>4, <1>5 DEF Added

\* There is such a function.
LEMMA SumExists ==
    ASSUME NEW S, IsFiniteSet(S), NEW f
    PROVE  \E sum : IsSum(sum, f, S)
  <1> DEFINE F == {T \in SUBSET S : ~ \E sum : IsSum(sum, f, T)}
  <1>1. SUFFICES ASSUME F # {} PROVE FALSE
    <2>1. S \in SUBSET S
      OBVIOUS
    <2> QED BY <1>1, <2>1
  <1>2. PICK T \in F : \A R \in F : R \subseteq T => R = T
    <2>1. F \subseteq SUBSET S
      OBVIOUS
    <2> HIDE DEF F
    <2> QED BY <1>1, <2>1, LeastSet
  <1>3. T \in SUBSET S /\ ~ \E sum : IsSum(sum, f, T)
    OBVIOUS
  <1> DEFINE C(R) == CHOOSE sum : IsSum(sum, f, R)
             Rest(R) == R \ {One(R)}
             g == [R \in SUBSET T |->
                      IF R = T THEN IF T = {} THEN 0 ELSE f[One(T)] + C(Rest(T))[Rest(T)]
                      ELSE C(R)[R]]
  <1>4. ASSUME NEW R \in SUBSET T, R # T PROVE IsSum(C(R), f, R) /\ C(R)[R] = Added(C(R), f, R)
    <2>1. \E sum : IsSum(sum, f, R)
      BY <1>2, <1>3, <1>4
    <2>2. IsSum(C(R), f, R)
      BY <2>1
    <2> HIDE DEF C
    <2> QED BY <2>2 DEF IsSum
  <1>5. ASSUME NEW R \in SUBSET T, R # {}
        PROVE  Rest(R) \in SUBSET R /\ Rest(R) \in SUBSET T /\ Rest(R) # T /\ Rest(R) # R
    BY <1>5, OneIsMember
  <1>6. \A R \in SUBSET T : g[R] = Added(g, f, R)
    <2> SUFFICES ASSUME NEW R \in SUBSET T PROVE g[R] = Added(g, f, R)
      OBVIOUS
    <2> HIDE DEF C, Rest
    <2>1. CASE R = {}
      BY <1>4, <2>1 DEF Added
    <2>2. CASE R # {}
      <3>1. Added(g, f, R) = f[One(R)] + C(Rest(R))[Rest(R)]
        <4>1. g[Rest(R)] = C(Rest(R))[Rest(R)]
          BY <1>5, <2>2
        <4>2. Added(g, f, R) = f[One(R)] + g[Rest(R)]
          BY <2>2 DEF Added, Rest
        <4> QED BY <4>1, <4>2
      <3>2. CASE R = T
        BY <2>2, <3>1, <3>2
      <3>3. CASE R # T
        <4>1. IsSum(C(R), f, R) /\ C(R)[R] = Added(C(R), f, R) /\ g[R] = C(R)[R]
          BY <1>4, <3>3
        <4>2. IsSum(C(Rest(R)), f, Rest(R))
          BY <1>4, <1>5, <2>2
        <4>3. C(R)[Rest(R)] = C(Rest(R))[Rest(R)]
          <5>1. IsFiniteSet(R) /\ Rest(R) \in SUBSET R /\ Rest(R) \in SUBSET Rest(R)
            BY <1>3, <1>5, <2>2, FS_Subset
          <5> QED BY <4>1, <4>2, <5>1, SumUnique
        <4>4. C(R)[R] = f[One(R)] + C(R)[Rest(R)]
          BY <2>2, <4>1 DEF Added, Rest
        <4> HIDE DEF g
        <4> QED BY <3>1, <4>1, <4>3, <4>4
      <3> QED BY <3>2, <3>3
    <2> QED BY <2>1, <2>2
  <1>7. IsSum(g, f, T)
    <2>1. g = [R \in SUBSET T |-> g[R]]
      OBVIOUS
    <2> HIDE DEF g
    <2> QED BY <1>6, <2>1 DEF IsSum
  <1> QED BY <1>3, <1>7

\* The library's fold is such a sum.
LEMMA TotalIs ==
    ASSUME NEW S, IsFiniteSet(S), NEW f
    PROVE  \E sum : IsSum(sum, f, S) /\ Total(f, S) = sum[S]
  <1> DEFINE sum == CHOOSE sum : IsSum(sum, f, S)
  <1>1. IsSum(sum, f, S)
    BY SumExists
  <1>2. Total(f, S) = sum[S]
    BY DEF Total, FoldFunctionOnSet, MapThenFoldSet, IsSum, Added, One
  <1> QED BY <1>1, <1>2

LEMMA TotalOfNone == ASSUME NEW f PROVE Total(f, {}) = 0
  <1>1. PICK sum : IsSum(sum, f, {}) /\ Total(f, {}) = sum[{}]
    BY TotalIs, FS_EmptySet
  <1> QED BY <1>1 DEF IsSum, Added

LEMMA TotalStep ==
    ASSUME NEW S, IsFiniteSet(S), S # {}, NEW f
    PROVE  Total(f, S) = f[One(S)] + Total(f, S \ {One(S)})
  <1>1. PICK a : IsSum(a, f, S) /\ Total(f, S) = a[S]
    BY TotalIs
  <1> DEFINE R == S \ {One(S)}
  <1>2. R \in SUBSET S /\ R \in SUBSET R /\ IsFiniteSet(R)
    BY FS_Subset
  <1>3. PICK b : IsSum(b, f, R) /\ Total(f, R) = b[R]
    BY <1>2, TotalIs
  <1>4. a[R] = b[R]
    <2> HIDE DEF R
    <2> QED BY <1>1, <1>2, <1>3, SumUnique
  <1>5. a[S] = f[One(S)] + a[R]
    BY <1>1 DEF IsSum, Added
  <1> QED BY <1>1, <1>3, <1>4, <1>5

\* Sums of natural numbers are natural numbers, and any member can be taken out.
LEMMA TotalType ==
    ASSUME NEW S, IsFiniteSet(S), NEW f, \A x \in S : f[x] \in Nat
    PROVE  Total(f, S) \in Nat
  <1> DEFINE F == {T \in SUBSET S : Total(f, T) \notin Nat}
  <1>1. SUFFICES ASSUME F # {} PROVE FALSE
    OBVIOUS
  <1>2. PICK T \in F : \A R \in F : R \subseteq T => R = T
    <2>1. F \subseteq SUBSET S
      OBVIOUS
    <2> HIDE DEF F
    <2> QED BY <1>1, <2>1, LeastSet
  <1>3. T \in SUBSET S /\ Total(f, T) \notin Nat /\ IsFiniteSet(T)
    BY FS_Subset
  <1>4. T # {}
    BY <1>3, TotalOfNone
  <1> DEFINE x == One(T)
  <1>5. x \in T
    BY <1>4, OneIsMember
  <1>6. Total(f, T) = f[x] + Total(f, T \ {x})
    BY <1>3, <1>4, TotalStep
  <1> HIDE DEF x
  <1>7. Total(f, T \ {x}) \in Nat
    BY <1>2, <1>3, <1>5
  <1> QED BY <1>3, <1>5, <1>6, <1>7

LEMMA TotalWithout ==
    ASSUME NEW S, IsFiniteSet(S), NEW f, \A x \in S : f[x] \in Nat, NEW m \in S
    PROVE  Total(f, S) = f[m] + Total(f, S \ {m})
  <1> DEFINE Parted(T) == \A x \in T : Total(f, T) = f[x] + Total(f, T \ {x})
             F == {T \in SUBSET S : ~Parted(T)}
  <1>1. SUFFICES ASSUME F # {} PROVE FALSE
    <2>1. S \in SUBSET S
      OBVIOUS
    <2> QED BY <1>1, <2>1
  <1>2. PICK T \in F : \A R \in F : R \subseteq T => R = T
    <2>1. F \subseteq SUBSET S
      OBVIOUS
    <2> HIDE DEF F
    <2> QED BY <1>1, <2>1, LeastSet
  <1>3. T \in SUBSET S /\ IsFiniteSet(T) /\ ~Parted(T)
    <2>1. T \in SUBSET S /\ ~Parted(T)
      OBVIOUS
    <2> QED BY <2>1, FS_Subset
  <1>4. ASSUME NEW z \in T PROVE Parted(T \ {z}) /\ IsFiniteSet(T \ {z})
    <2>1. T \ {z} \in SUBSET S /\ T \ {z} \subseteq T /\ T \ {z} # T
      BY <1>3
    <2>2. T \ {z} \notin F
      BY <1>2, <2>1
    <2>3. IsFiniteSet(T \ {z})
      BY <1>3, FS_Subset
    <2> QED BY <2>1, <2>2, <2>3
  <1>5. ASSUME NEW x \in T PROVE Total(f, T) = f[x] + Total(f, T \ {x})
    <2> DEFINE y == One(T)
    <2>1. y \in T
      BY OneIsMember
    <2>2. Total(f, T) = f[y] + Total(f, T \ {y})
      BY <1>3, TotalStep
    <2> HIDE DEF y
    <2>3. CASE x = y
      BY <2>2, <2>3
    <2>4. CASE x # y
      <3> DEFINE rest == Total(f, (T \ {x}) \ {y})
      <3>1. x \in T \ {y} /\ y \in T \ {x}
        BY <2>1, <2>4
      <3>2. (T \ {y}) \ {x} = (T \ {x}) \ {y}
        OBVIOUS
      <3>3. Total(f, T \ {y}) = f[x] + rest /\ Total(f, T \ {x}) = f[y] + rest
        BY <1>4, <2>1, <3>1, <3>2
      <3>4. f[x] \in Nat /\ f[y] \in Nat
        BY <1>3, <2>1
      <3>5. rest \in Nat
        <4>1. (T \ {x}) \ {y} \in SUBSET S
          BY <1>3
        <4>2. IsFiniteSet((T \ {x}) \ {y})
          BY <4>1, FS_Subset
        <4>3. \A z \in (T \ {x}) \ {y} : f[z] \in Nat
          BY <4>1
        <4> QED BY <4>2, <4>3, TotalType
      <3> HIDE DEF rest
      <3> QED BY <2>2, <3>3, <3>4, <3>5
    <2> QED BY <2>3, <2>4
  <1> QED BY <1>3, <1>5

\* A sum depends on the numbers it adds only, and grows with its set.
LEMMA TotalSame ==
    ASSUME NEW S, IsFiniteSet(S), NEW f, NEW g, \A x \in S : f[x] = g[x]
    PROVE  Total(f, S) = Total(g, S)
  <1> DEFINE F == {T \in SUBSET S : Total(f, T) # Total(g, T)}
  <1>1. SUFFICES ASSUME F # {} PROVE FALSE
    OBVIOUS
  <1>2. PICK T \in F : \A R \in F : R \subseteq T => R = T
    <2>1. F \subseteq SUBSET S
      OBVIOUS
    <2> HIDE DEF F
    <2> QED BY <1>1, <2>1, LeastSet
  <1>3. T \in SUBSET S /\ Total(f, T) # Total(g, T) /\ IsFiniteSet(T)
    BY FS_Subset
  <1>4. T # {}
    BY <1>3, TotalOfNone
  <1> DEFINE x == One(T)
  <1>5. x \in T
    BY <1>4, OneIsMember
  <1>6. /\ Total(f, T) = f[x] + Total(f, T \ {x})
        /\ Total(g, T) = g[x] + Total(g, T \ {x})
    BY <1>3, <1>4, TotalStep
  <1> HIDE DEF x
  <1>7. Total(f, T \ {x}) = Total(g, T \ {x})
    BY <1>2, <1>3, <1>5
  <1> QED BY <1>3, <1>5, <1>6, <1>7

LEMMA TotalGrows ==
    ASSUME NEW S, IsFiniteSet(S), NEW f, \A x \in S : f[x] \in Nat, NEW T \in SUBSET S
    PROVE  Total(f, T) <= Total(f, S)
  <1> DEFINE F == {R \in SUBSET S : T \subseteq R /\ ~(Total(f, T) <= Total(f, R))}
  <1>1. SUFFICES ASSUME F # {} PROVE FALSE
    OBVIOUS
  <1>2. PICK R \in F : \A Q \in F : Q \subseteq R => Q = R
    <2>1. F \subseteq SUBSET S
      OBVIOUS
    <2> HIDE DEF F
    <2> QED BY <1>1, <2>1, LeastSet
  <1>3. R \in SUBSET S /\ T \subseteq R /\ ~(Total(f, T) <= Total(f, R)) /\ IsFiniteSet(R)
    BY FS_Subset
  <1>4. Total(f, T) \in Nat
    <2>1. IsFiniteSet(T) /\ \A x \in T : f[x] \in Nat
      BY FS_Subset
    <2> QED BY <2>1, TotalType
  <1>5. R # T
    BY <1>3, <1>4
  <1>6. PICK x \in R : x \notin T
    BY <1>3, <1>5
  <1>7. Total(f, R) = f[x] + Total(f, R \ {x})
    BY <1>3, TotalWithout
  <1>8. R \ {x} \in SUBSET S /\ T \subseteq R \ {x} /\ R \ {x} \subseteq R /\ R \ {x} # R
    BY <1>3, <1>6
  <1>9. Total(f, T) <= Total(f, R \ {x})
    BY <1>2, <1>8
  <1>10. Total(f, R \ {x}) \in Nat
    <2>1. IsFiniteSet(R \ {x}) /\ \A y \in R \ {x} : f[y] \in Nat
      BY <1>3, <1>8, FS_Subset
    <2> QED BY <2>1, TotalType
  <1>11. f[x] \in Nat
    BY <1>3
  <1> QED BY <1>3, <1>4, <1>7, <1>9, <1>10, <1>11

\* What is nowhere larger has no larger sum.
LEMMA TotalOrdered ==
    ASSUME NEW S, IsFiniteSet(S), NEW f, NEW g,
           \A x \in S : f[x] \in Nat /\ g[x] \in Nat /\ f[x] <= g[x]
    PROVE  Total(f, S) <= Total(g, S)
  <1> DEFINE F == {T \in SUBSET S : ~(Total(f, T) <= Total(g, T))}
  <1>1. SUFFICES ASSUME F # {} PROVE FALSE
    OBVIOUS
  <1>2. PICK T \in F : \A R \in F : R \subseteq T => R = T
    <2>1. F \subseteq SUBSET S
      OBVIOUS
    <2> HIDE DEF F
    <2> QED BY <1>1, <2>1, LeastSet
  <1>3. T \in SUBSET S /\ ~(Total(f, T) <= Total(g, T)) /\ IsFiniteSet(T)
    BY FS_Subset
  <1>4. T # {}
    BY <1>3, TotalOfNone
  <1> DEFINE x == One(T)
  <1>5. x \in T
    BY <1>4, OneIsMember
  <1>6. /\ Total(f, T) = f[x] + Total(f, T \ {x})
        /\ Total(g, T) = g[x] + Total(g, T \ {x})
    BY <1>3, <1>4, TotalStep
  <1> HIDE DEF x
  <1>7. Total(f, T \ {x}) <= Total(g, T \ {x})
    BY <1>2, <1>3, <1>5
  <1>8. Total(f, T \ {x}) \in Nat /\ Total(g, T \ {x}) \in Nat
    <2>1. IsFiniteSet(T \ {x}) /\ \A y \in T \ {x} : f[y] \in Nat /\ g[y] \in Nat
      BY <1>3, FS_Subset
    <2> QED BY <2>1, TotalType
  <1>9. f[x] \in Nat /\ g[x] \in Nat /\ f[x] <= g[x]
    BY <1>3, <1>5
  <1> QED BY <1>3, <1>6, <1>7, <1>8, <1>9

\* Nothing adds up to nothing.
LEMMA TotalOfZeros ==
    ASSUME NEW S, IsFiniteSet(S), NEW f, \A x \in S : f[x] = 0
    PROVE  Total(f, S) = 0
  <1> DEFINE F == {T \in SUBSET S : Total(f, T) # 0}
  <1>1. SUFFICES ASSUME F # {} PROVE FALSE
    OBVIOUS
  <1>2. PICK T \in F : \A R \in F : R \subseteq T => R = T
    <2>1. F \subseteq SUBSET S
      OBVIOUS
    <2> HIDE DEF F
    <2> QED BY <1>1, <2>1, LeastSet
  <1>3. T \in SUBSET S /\ Total(f, T) # 0 /\ IsFiniteSet(T)
    BY FS_Subset
  <1>4. T # {}
    BY <1>3, TotalOfNone
  <1> DEFINE x == One(T)
  <1>5. x \in T
    BY <1>4, OneIsMember
  <1>6. Total(f, T) = f[x] + Total(f, T \ {x})
    BY <1>3, <1>4, TotalStep
  <1> HIDE DEF x
  <1>7. Total(f, T \ {x}) = 0
    BY <1>2, <1>3, <1>5
  <1> QED BY <1>3, <1>5, <1>6, <1>7

\* One more at one place is one more in each sum over it.
LEMMA TotalCounts ==
    ASSUME NEW S, IsFiniteSet(S), NEW f, NEW g, NEW m, \A x \in S : f[x] \in Nat,
           m \in S => g[m] = f[m] + 1, \A x \in S : x # m => g[x] = f[x]
    PROVE  Total(g, S) = IF m \in S THEN Total(f, S) + 1 ELSE Total(f, S)
  <1>1. (\A x \in S : f[x] \in Nat) /\ (\A x \in S : g[x] \in Nat)
    OBVIOUS
  <1>2. CASE m \in S
    <2>1. IsFiniteSet(S \ {m}) /\ \A x \in S \ {m} : g[x] = f[x]
      BY FS_Subset
    <2>2. Total(g, S \ {m}) = Total(f, S \ {m})
      BY <2>1, TotalSame
    <2>3. Total(g, S) = g[m] + Total(g, S \ {m}) /\ Total(f, S) = f[m] + Total(f, S \ {m})
      BY <1>1, <1>2, TotalWithout
    <2>4. Total(f, S \ {m}) \in Nat
      BY <1>1, <2>1, TotalType
    <2> QED BY <1>1, <1>2, <2>2, <2>3, <2>4
  <1>3. CASE m \notin S
    <2>1. \A x \in S : g[x] = f[x]
      BY <1>3
    <2> QED BY <1>3, <2>1, TotalSame
  <1> QED BY <1>2, <1>3
=============================================================================
