------------------------- MODULE TokenGovernorProofs -------------------------
(***************************************************************************)
(* The theorems of the token budget, for any calls, configured meters,     *)
(* estimates, usages, telemetry and clock:                                 *)
(*                                                                         *)
(*   TypeCorrect            the types, the counter never negative          *)
(*   ReservationsConserved  the counter is what the calls in flight hold   *)
(*   RestoreIsExact         a restore loses nothing, counts nothing twice  *)
(*   BudgetClockSane        no meter runs ahead of the clock               *)
(*   WindowSpendExact       a window reports the sum of its charges        *)
(*   NeverOverspends        spent and reserved stay within every limit     *)
(*   RetriesAreHonest       a retry time is exact, "never" is final        *)
(*                                                                         *)
(* What a recursive definition computes (a sum over a finite set, a meter  *)
(* after a sequence of charges) is proved by induction; each induction     *)
(* rule below takes its predicate as the set of the things that have it.   *)
(***************************************************************************)
EXTENDS TokenGovernor, FiniteSetTheorems, WellFoundedInduction, TLAPS

------------------------------------------------------------------------------
(* Numbers. *)

\* The larger of a number and zero, as Budget::settle's saturating_sub uses it.
LEMMA MaxWithZero ==
  ASSUME NEW n \in Int
  PROVE  /\ Max({n, 0}) \in Nat
         /\ n >= 0 => Max({n, 0}) = n
<1> DEFINE m == IF n >= 0 THEN n ELSE 0
<1>1. m \in {n, 0} /\ \A y \in {n, 0} : m >= y
  OBVIOUS
<1>2. Max({n, 0}) \in {n, 0} /\ \A y \in {n, 0} : Max({n, 0}) >= y
  BY <1>1 DEF Max
<1> QED
  BY <1>2

LEMMA MaxTwo ==
  ASSUME NEW a \in Int, NEW b \in Int
  PROVE  Max({a, b}) = IF a >= b THEN a ELSE b
<1> DEFINE m == IF a >= b THEN a ELSE b
<1>1. m \in {a, b} /\ \A y \in {a, b} : m >= y
  OBVIOUS
<1>2. Max({a, b}) \in {a, b} /\ \A y \in {a, b} : Max({a, b}) >= y
  BY <1>1 DEF Max
<1> QED
  BY <1>2

LEMMA MinTwo ==
  ASSUME NEW a \in Int, NEW b \in Int
  PROVE  Min({a, b}) = IF a <= b THEN a ELSE b
<1> DEFINE m == IF a <= b THEN a ELSE b
<1>1. m \in {a, b} /\ \A y \in {a, b} : m <= y
  OBVIOUS
<1>2. Min({a, b}) \in {a, b} /\ \A y \in {a, b} : Min({a, b}) <= y
  BY <1>1 DEF Min
<1> QED
  BY <1>2

LEMMA DivBounds ==
  ASSUME NEW t \in Int, NEW w \in Nat \ {0}
  PROVE  /\ t \div w \in Int
         /\ (t \div w) * w <= t
         /\ t < (t \div w) * w + w
OBVIOUS

LEMMA DivMono ==
  ASSUME NEW t \in Int, NEW u \in Int, NEW w \in Nat \ {0}, t <= u
  PROVE  t \div w <= u \div w
OBVIOUS

LEMMA DivExact ==
  ASSUME NEW k \in Int, NEW w \in Nat \ {0}, NEW r \in Int, 0 <= r, r < w
  PROVE  (k * w + r) \div w = k
OBVIOUS

LEMMA TimesMono ==
  ASSUME NEW a \in Int, NEW b \in Int, NEW w \in Nat, a <= b
  PROVE  a * w <= b * w
OBVIOUS

LEMMA DivMinus ==
  ASSUME NEW b \in Int, NEW x \in Int, NEW w \in Nat \ {0}
  PROVE  (b - x * w) \div w = (b \div w) - x
<1> DEFINE k == b \div w
           r == b - k * w
<1>1. k \in Int /\ r \in Int /\ 0 <= r /\ r < w
  BY DivBounds
<1>2. b - x * w = (k - x) * w + r /\ k - x \in Int
  <2>1. b = k * w + r
    BY <1>1
  <2>2. (k - x) * w = k * w - x * w
    BY <1>1
  <2> HIDE DEF k, r
  <2>3. k * w \in Int /\ x * w \in Int
    BY <1>1
  <2> QED BY <1>1, <2>1, <2>2, <2>3
<1> HIDE DEF k, r
<1>3. ((k - x) * w + r) \div w = k - x
  BY <1>1, <1>2, DivExact
<1> QED BY <1>2, <1>3 DEF k

LEMMA DivAtLeast ==
  ASSUME NEW b \in Int, NEW k \in Int, NEW w \in Nat \ {0}
  PROVE  k <= b \div w <=> k * w <= b
<1>1. PICK d : d = b \div w
  OBVIOUS
<1>2. d \in Int /\ d * w <= b /\ b < d * w + w
  BY <1>1, DivBounds
<1>3. ASSUME k <= d PROVE k * w <= b
  <2>1. k * w <= d * w
    BY <1>2, <1>3, TimesMono
  <2>2. k * w \in Int /\ d * w \in Int
    BY <1>2
  <2> QED BY <1>2, <2>1, <2>2
<1>4. ASSUME k > d PROVE k * w > b
  <2>1. (d + 1) * w <= k * w
    BY <1>2, <1>4, TimesMono
  <2>2. (d + 1) * w = d * w + w
    BY <1>2
  <2>3. k * w \in Int /\ d * w \in Int
    BY <1>2
  <2> QED BY <1>2, <2>1, <2>2, <2>3
<1>5. k * w \in Int
  OBVIOUS
<1> QED BY <1>1, <1>2, <1>3, <1>4, <1>5

LEMMA CeilFacts ==
  ASSUME NEW x \in Nat \ {0}, NEW r \in Nat \ {0}, NEW w, w = (x + r - 1) \div r
  PROVE  w \in Nat \ {0} /\ x <= w * r /\ (w - 1) * r < x
<1>1. PICK y : y = x + r - 1
  OBVIOUS
<1>2. y \in Int /\ w = y \div r
  BY <1>1
<1>3. w \in Int /\ w * r <= y /\ y < w * r + r
  BY <1>2, DivBounds
<1>4. PICK z : z = w * r
  OBVIOUS
<1>5. z \in Int /\ (w - 1) * r = z - r
  BY <1>3, <1>4
<1>6. x <= z /\ z - r < x
  BY <1>1, <1>3, <1>4, <1>5
<1>7. w >= 1
  <2>1. 1 * r <= y
    BY <1>1
  <2> QED BY <1>2, <2>1, DivAtLeast
<1> QED BY <1>3, <1>4, <1>5, <1>6, <1>7

------------------------------------------------------------------------------
(* Induction, with the predicate given as a set, and what finite sets have. *)

LEMMA LeastIn ==
  ASSUME NEW S \in SUBSET Nat, S # {}
  PROVE  \E n \in S : \A m \in S : n <= m
<1> DEFINE Less == OpToRel(<, Nat)
<1>1. PICK n \in S : \A m \in S : ~(<<m, n>> \in Less)
  <2>1. IsWellFoundedOn(Less, Nat)
    BY NatLessThanWellFounded
  <2> HIDE DEF Less
  <2> QED BY <2>1, WFMin
<1>2. \A m, k \in Nat : m < k => <<m, k>> \in Less
  <2>1. ASSUME NEW m \in Nat, NEW k \in Nat, m < k
        PROVE  <<m, k>> \in {ss \in Nat \X Nat : ss[1] < ss[2]}
    BY <2>1
  <2> QED BY <2>1 DEF OpToRel
<1> HIDE DEF Less
<1>3. \A m \in S : n <= m
  <2>1. ASSUME NEW m \in S, m < n
        PROVE  FALSE
    <3>1. <<m, n>> \in Less
      BY <1>2, <2>1
    <3> QED BY <1>1, <3>1
  <2> QED BY <2>1
<1> QED BY <1>3

\* Induction on the naturals, with the predicate given as the set of the
\* numbers that have it.
LEMMA SetInduction ==
  ASSUME NEW K, 0 \in K, \A n \in Nat : n \in K => n + 1 \in K
  PROVE  \A n \in Nat : n \in K
<1> DEFINE S == {n \in Nat : n \notin K}
<1>1. ASSUME S # {}
      PROVE  FALSE
  <2>1. S \in SUBSET Nat
    OBVIOUS
  <2> HIDE DEF S
  <2>2. PICK n \in S : \A m \in S : n <= m
    BY <1>1, <2>1, LeastIn
  <2>3. n \in Nat /\ n \notin K /\ n # 0
    BY <2>2 DEF S
  <2>4. n - 1 \in Nat /\ n - 1 \notin S
    BY <2>2, <2>3
  <2>5. n - 1 \in K
    BY <2>4 DEF S
  <2>6. (n - 1) + 1 \in K
    BY <2>4, <2>5
  <2> QED BY <2>3, <2>6
<1> QED BY <1>1

\* Induction on the subsets of a finite set, in the same form.
LEMMA FiniteInduction ==
  ASSUME NEW S, IsFiniteSet(S), NEW K, {} \in K,
         \A T \in SUBSET S, x \in S : T \in K /\ x \notin T => T \union {x} \in K
  PROVE  \A T \in SUBSET S : T \in K
<1> DEFINE N == {n \in Nat : \A T \in SUBSET S : Cardinality(T) = n => T \in K}
<1>1. 0 \in N
  <2>1. ASSUME NEW T \in SUBSET S, Cardinality(T) = 0
        PROVE  T = {}
    BY <2>1, FS_Subset, FS_EmptySet
  <2> QED BY <2>1
<1>2. ASSUME NEW n \in Nat, n \in N
      PROVE  n + 1 \in N
  <2>1. ASSUME NEW T \in SUBSET S, Cardinality(T) = n + 1
        PROVE  T \in K
    <3>1. IsFiniteSet(T)
      BY FS_Subset
    <3>2. T # {}
      <4>1. n + 1 # 0
        OBVIOUS
      <4> QED BY <2>1, <3>1, <4>1, FS_EmptySet
    <3>3. PICK x : x \in T
      BY <3>2
    <3>4. IsFiniteSet(T \ {x}) /\ Cardinality(T \ {x}) = Cardinality(T) - 1
      BY <3>1, <3>3, FS_RemoveElement
    <3>5. Cardinality(T \ {x}) = n
      BY <2>1, <3>4
    <3>6. T \ {x} \in K
      BY <1>2, <3>5
    <3>7. (T \ {x}) \union {x} = T
      BY <3>3
    <3> QED BY <3>3, <3>6, <3>7
  <2> QED BY <2>1
<1> HIDE DEF N
<1>3. \A n \in Nat : n \in N
  BY <1>1, <1>2, SetInduction
<1>4. ASSUME NEW T \in SUBSET S
      PROVE  T \in K
  <2>1. Cardinality(T) \in Nat
    BY FS_Subset, FS_CardinalityType
  <2> QED BY <1>3, <2>1 DEF N
<1> QED BY <1>4

LEMMA RemoveOne ==
  ASSUME NEW T, IsFiniteSet(T), NEW n \in Nat, Cardinality(T) = n + 1, NEW x \in T
  PROVE  IsFiniteSet(T \ {x}) /\ Cardinality(T \ {x}) = n
<1>1. IsFiniteSet(T \ {x}) /\ Cardinality(T \ {x}) = Cardinality(T) - 1
  BY FS_RemoveElement
<1>2. (n + 1) - 1 = n
  OBVIOUS
<1> QED BY <1>1, <1>2

LEMMA SequenceInduction ==
  ASSUME NEW S, NEW K, <<>> \in K,
         \A q \in Seq(S), e \in S : q \in K => Append(q, e) \in K
  PROVE  \A q \in Seq(S) : q \in K
<1> DEFINE N == {n \in Nat : \A q \in Seq(S) : Len(q) = n => q \in K}
<1>1. 0 \in N
  <2>1. \A q \in Seq(S) : Len(q) = 0 => q = <<>>
    OBVIOUS
  <2> QED BY <2>1
<1>2. ASSUME NEW n \in Nat, n \in N
      PROVE  n + 1 \in N
  <2>1. ASSUME NEW q \in Seq(S), Len(q) = n + 1
        PROVE  q \in K
    <3> DEFINE p == SubSeq(q, 1, n)
               e == q[n + 1]
    <3>1. p \in Seq(S) /\ Len(p) = n /\ e \in S
      BY <2>1
    <3>2. q = Append(p, e)
      BY <2>1, <3>1
    <3>3. p \in K
      BY <1>2, <3>1
    <3> HIDE DEF p, e
    <3> QED BY <3>1, <3>2, <3>3
  <2> QED BY <2>1
<1> HIDE DEF N
<1>3. \A n \in Nat : n \in N
  BY <1>1, <1>2, SetInduction
<1>4. \A q \in Seq(S) : Len(q) \in Nat
  OBVIOUS
<1> QED BY <1>3, <1>4 DEF N

LEMMA MaxIn ==
  ASSUME NEW S \in SUBSET Int, IsFiniteSet(S), S # {}
  PROVE  Max(S) \in S /\ Max(S) \in Int /\ \A y \in S : Max(S) >= y
<1> DEFINE K == {T \in SUBSET S : T # {} => \E x \in T : \A y \in T : x >= y}
<1>1. {} \in K
  OBVIOUS
<1>2. ASSUME NEW T \in SUBSET S, NEW z \in S, T \in K, z \notin T
      PROVE  T \union {z} \in K
  <2>1. CASE T = {}
    BY <2>1
  <2>2. CASE T # {}
    <3>1. PICK x \in T : \A y \in T : x >= y
      BY <1>2, <2>2
    <3>2. x \in Int /\ z \in Int /\ \A y \in T : y \in Int
      OBVIOUS
    <3>3. CASE x >= z
      BY <3>1, <3>2, <3>3
    <3>4. CASE z > x
      <4>1. \A y \in T \union {z} : z >= y
        BY <3>1, <3>2, <3>4
      <4> QED BY <4>1
    <3> QED BY <3>2, <3>3, <3>4
  <2> QED BY <2>1, <2>2
<1> HIDE DEF K
<1>3. S \in K
  <2>1. \A T \in SUBSET S : T \in K
    BY <1>1, <1>2, FiniteInduction
  <2> QED BY <2>1
<1>4. \E x \in S : \A y \in S : x >= y
  BY <1>3 DEF K
<1> QED BY <1>4 DEF Max

LEMMA MinIn ==
  ASSUME NEW S \in SUBSET Int, IsFiniteSet(S), S # {}
  PROVE  Min(S) \in S /\ Min(S) \in Int /\ \A y \in S : Min(S) <= y
<1> DEFINE K == {T \in SUBSET S : T # {} => \E x \in T : \A y \in T : x <= y}
<1>1. {} \in K
  OBVIOUS
<1>2. ASSUME NEW T \in SUBSET S, NEW z \in S, T \in K, z \notin T
      PROVE  T \union {z} \in K
  <2>1. CASE T = {}
    BY <2>1
  <2>2. CASE T # {}
    <3>1. PICK x \in T : \A y \in T : x <= y
      BY <1>2, <2>2
    <3>2. x \in Int /\ z \in Int /\ \A y \in T : y \in Int
      OBVIOUS
    <3>3. CASE x <= z
      BY <3>1, <3>2, <3>3
    <3>4. CASE z < x
      <4>1. \A y \in T \union {z} : z <= y
        BY <3>1, <3>2, <3>4
      <4> QED BY <4>1
    <3> QED BY <3>2, <3>3, <3>4
  <2> QED BY <2>1, <2>2
<1> HIDE DEF K
<1>3. S \in K
  <2>1. \A T \in SUBSET S : T \in K
    BY <1>1, <1>2, FiniteInduction
  <2> QED BY <2>1
<1>4. \E x \in S : \A y \in S : x <= y
  BY <1>3 DEF K
<1> QED BY <1>4 DEF Min

\* The times at which charges count.
LEMMA ImageFinite ==
  ASSUME NEW S, IsFiniteSet(S), NEW g
  PROVE  IsFiniteSet({g[x] : x \in S})
<1> DEFINE K == {T \in SUBSET S : IsFiniteSet({g[x] : x \in T})}
<1>1. {} \in K
  <2>1. {g[x] : x \in {}} = {}
    OBVIOUS
  <2> QED BY <2>1, FS_EmptySet
<1>2. ASSUME NEW T \in SUBSET S, NEW z \in S, T \in K, z \notin T
      PROVE  T \union {z} \in K
  <2>1. {g[x] : x \in T \union {z}} = {g[x] : x \in T} \union {g[z]}
    OBVIOUS
  <2>2. IsFiniteSet({g[x] : x \in T} \union {g[z]})
    BY <1>2, FS_AddElement
  <2> QED BY <2>1, <2>2
<1> HIDE DEF K
<1>3. \A T \in SUBSET S : T \in K
  BY <1>1, <1>2, FiniteInduction
<1>4. S \in K
  BY <1>3
<1> QED BY <1>4 DEF K

------------------------------------------------------------------------------
(* Sums over finite sets, as the folds of the community modules define them. *)

Some(s) == CHOOSE x \in s : TRUE

Sums(g, f, S) ==
  g = [s \in SUBSET S |-> IF s = {} THEN 0 ELSE f[Some(s)] + g[s \ {Some(s)}]]

LEMMA TotalIs ==
  ASSUME NEW f, NEW S
  PROVE  Total(f, S) = (CHOOSE g : Sums(g, f, S))[S]
BY DEF Total, MapThenSumSet, MapThenFoldSet, Sums, Some

SumsUpto(g, f, D) ==
  g = [s \in D |-> IF s = {} THEN 0 ELSE f[Some(s)] + g[s \ {Some(s)}]]

LEMMA SumsExist ==
  ASSUME NEW f, NEW S, IsFiniteSet(S)
  PROVE  \E g : Sums(g, f, S)
<1> DEFINE Upto(n) == {s \in SUBSET S : Cardinality(s) <= n}
           N == {n \in Nat : \E g : SumsUpto(g, f, Upto(n))}
<1>1. \A s \in SUBSET S : IsFiniteSet(s) /\ Cardinality(s) \in Nat
  BY FS_Subset, FS_CardinalityType
<1>2. \A s \in SUBSET S : s # {} => /\ Some(s) \in s
                                    /\ s \ {Some(s)} \in SUBSET S
                                    /\ Cardinality(s \ {Some(s)}) = Cardinality(s) - 1
  <2>1. ASSUME NEW s \in SUBSET S, s # {}
        PROVE  Some(s) \in s
    BY <2>1 DEF Some
  <2> QED BY <1>1, <2>1, FS_RemoveElement
<1>3. 0 \in N
  <2>1. \A s \in Upto(0) : s = {}
    BY <1>1, FS_EmptySet
  <2> DEFINE g == [s \in Upto(0) |-> 0]
  <2>2. SumsUpto(g, f, Upto(0))
    BY <2>1 DEF SumsUpto
  <2> QED BY <2>2
<1>4. ASSUME NEW n \in Nat, n \in N
      PROVE  n + 1 \in N
  <2>1. PICK g : SumsUpto(g, f, Upto(n))
    BY <1>4
  <2> DEFINE h == [s \in Upto(n + 1) |->
                     IF s \in Upto(n) THEN g[s] ELSE f[Some(s)] + g[s \ {Some(s)}]]
  <2>2. ASSUME NEW s \in Upto(n + 1)
        PROVE  h[s] = IF s = {} THEN 0 ELSE f[Some(s)] + h[s \ {Some(s)}]
    <3>1. {} \in Upto(n) /\ Cardinality({}) = 0
      BY FS_EmptySet
    <3>2. CASE s = {}
      BY <2>1, <3>1, <3>2 DEF SumsUpto
    <3>3. CASE s # {}
      <4> DEFINE t == s \ {Some(s)}
      <4>1. Cardinality(t) = Cardinality(s) - 1 /\ t \in SUBSET S /\ Cardinality(s) \in Nat
        BY <1>1, <1>2, <3>3
      <4>2. t \in Upto(n) /\ t \in Upto(n + 1)
        BY <4>1
      <4>3. h[t] = g[t]
        BY <4>2
      <4>4. CASE s \in Upto(n)
        <5>1. g[s] = f[Some(s)] + g[t]
          BY <2>1, <3>3, <4>4 DEF SumsUpto
        <5>2. h[s] = g[s]
          BY <4>4
        <5> HIDE DEF h
        <5> QED BY <3>3, <4>3, <5>1, <5>2
      <4>5. CASE s \notin Upto(n)
        <5>1. h[s] = f[Some(s)] + g[t]
          BY <4>5
        <5> HIDE DEF h
        <5> QED BY <3>3, <4>3, <5>1
      <4> QED BY <4>4, <4>5
    <3> QED BY <3>2, <3>3
  <2>3. SumsUpto(h, f, Upto(n + 1))
    BY <2>2 DEF SumsUpto
  <2> HIDE DEF h
  <2> QED BY <2>3
<1>5. Cardinality(S) \in N
  <2> HIDE DEF N
  <2> QED BY <1>1, <1>3, <1>4, SetInduction
<1>6. Upto(Cardinality(S)) = SUBSET S
  <2>1. \A s \in SUBSET S : Cardinality(s) <= Cardinality(S)
    BY FS_Subset
  <2> QED BY <2>1
<1> HIDE DEF Upto
<1> QED BY <1>5, <1>6 DEF Sums, SumsUpto

LEMMA SumsAgree ==
  ASSUME NEW f, NEW e, NEW S, NEW T, IsFiniteSet(S), T \subseteq S,
         NEW g, Sums(g, f, S), NEW h, Sums(h, e, T), \A x \in T : f[x] = e[x]
  PROVE  g[T] = h[T]
<1> DEFINE N == {n \in Nat : \A s \in SUBSET T : Cardinality(s) = n => g[s] = h[s]}
<1>1. \A s \in SUBSET T : IsFiniteSet(s) /\ Cardinality(s) \in Nat
  BY FS_Subset, FS_CardinalityType
<1>2. 0 \in N
  <2>1. ASSUME NEW s \in SUBSET T, Cardinality(s) = 0
        PROVE  g[s] = h[s]
    <3>1. s = {}
      BY <1>1, <2>1, FS_EmptySet
    <3> QED BY <3>1 DEF Sums
  <2> QED BY <2>1
<1>3. ASSUME NEW n \in Nat, n \in N
      PROVE  n + 1 \in N
  <2>1. ASSUME NEW s \in SUBSET T, Cardinality(s) = n + 1
        PROVE  g[s] = h[s]
    <3>1. s # {}
      <4>1. n + 1 # 0
        OBVIOUS
      <4> QED BY <2>1, <4>1, FS_EmptySet
    <3>2. PICK x : x = Some(s)
      OBVIOUS
    <3>3. x \in s
      BY <3>1, <3>2 DEF Some
    <3>4. Cardinality(s \ {x}) = n
      BY <1>1, <2>1, <3>3, RemoveOne
    <3>5. g[s \ {x}] = h[s \ {x}]
      BY <1>3, <3>4
    <3>6. g[s] = f[x] + g[s \ {x}]
      BY <3>1, <3>2 DEF Sums
    <3>7. h[s] = e[x] + h[s \ {x}]
      BY <3>1, <3>2 DEF Sums
    <3> QED BY <3>3, <3>5, <3>6, <3>7
  <2> QED BY <2>1
<1> HIDE DEF N
<1>4. Cardinality(T) \in N
  BY <1>1, <1>2, <1>3, SetInduction
<1> QED BY <1>4 DEF N

LEMMA TotalOf ==
  ASSUME NEW f, NEW e, NEW S, NEW T, IsFiniteSet(S), T \subseteq S,
         NEW g, Sums(g, f, S), \A x \in T : f[x] = e[x]
  PROVE  g[T] = Total(e, T)
<1>1. IsFiniteSet(T)
  BY FS_Subset
<1>2. Sums(CHOOSE h : Sums(h, e, T), e, T)
  BY <1>1, SumsExist
<1> QED BY <1>2, SumsAgree, TotalIs

LEMMA TotalCongruent ==
  ASSUME NEW f, NEW e, NEW S, IsFiniteSet(S), \A x \in S : f[x] = e[x]
  PROVE  Total(f, S) = Total(e, S)
<1>1. PICK g : Sums(g, f, S)
  BY SumsExist
<1> QED BY <1>1, TotalOf

LEMMA TotalEmpty ==
  ASSUME NEW f
  PROVE  Total(f, {}) = 0
<1>1. PICK S : S = {}
  OBVIOUS
<1>2. IsFiniteSet(S)
  BY <1>1, FS_EmptySet
<1>3. PICK g : Sums(g, f, S)
  BY <1>2, SumsExist
<1>4. g[S] = 0
  BY <1>1, <1>3 DEF Sums
<1>5. g[S] = Total(f, S)
  BY <1>2, <1>3, TotalOf
<1> QED BY <1>1, <1>4, <1>5

LEMMA TotalChosen ==
  ASSUME NEW f, NEW S, IsFiniteSet(S), S # {}
  PROVE  Total(f, S) = f[Some(S)] + Total(f, S \ {Some(S)})
<1>1. PICK g : Sums(g, f, S)
  BY SumsExist
<1>2. g[S] = f[Some(S)] + g[S \ {Some(S)}]
  BY <1>1 DEF Sums
<1> QED BY <1>1, <1>2, TotalOf

LEMMA TotalInt ==
  ASSUME NEW S, IsFiniteSet(S), NEW f, \A x \in S : f[x] \in Int
  PROVE  \A T \in SUBSET S : Total(f, T) \in Int
<1> DEFINE N == {n \in Nat : \A T \in SUBSET S : Cardinality(T) = n => Total(f, T) \in Int}
<1>1. \A T \in SUBSET S : IsFiniteSet(T) /\ Cardinality(T) \in Nat
  BY FS_Subset, FS_CardinalityType
<1>2. 0 \in N
  <2>1. ASSUME NEW T \in SUBSET S, Cardinality(T) = 0
        PROVE  T = {}
    BY <1>1, <2>1, FS_EmptySet
  <2> QED BY <2>1, TotalEmpty
<1>3. ASSUME NEW n \in Nat, n \in N
      PROVE  n + 1 \in N
  <2>1. ASSUME NEW T \in SUBSET S, Cardinality(T) = n + 1
        PROVE  Total(f, T) \in Int
    <3>1. T # {}
      <4>1. n + 1 # 0
        OBVIOUS
      <4> QED BY <2>1, <4>1, FS_EmptySet
    <3>2. PICK x : x = Some(T)
      OBVIOUS
    <3>3. x \in T
      BY <3>1, <3>2 DEF Some
    <3>4. Cardinality(T \ {x}) = n
      BY <1>1, <2>1, <3>3, RemoveOne
    <3>5. Total(f, T \ {x}) \in Int
      BY <1>3, <3>4
    <3>6. Total(f, T) = f[x] + Total(f, T \ {x})
      BY <1>1, <3>1, <3>2, TotalChosen
    <3> QED BY <3>3, <3>5, <3>6
  <2> QED BY <2>1
<1> HIDE DEF N
<1>4. \A n \in Nat : n \in N
  BY <1>2, <1>3, SetInduction
<1> QED BY <1>1, <1>4 DEF N

\* The element that a sum is split at may be chosen freely.
LEMMA TotalRemove ==
  ASSUME NEW S, IsFiniteSet(S), NEW f, \A x \in S : f[x] \in Int
  PROVE  \A T \in SUBSET S : \A x \in T : Total(f, T) = f[x] + Total(f, T \ {x})
<1> DEFINE N == {n \in Nat : \A T \in SUBSET S : Cardinality(T) = n =>
                   \A x \in T : Total(f, T) = f[x] + Total(f, T \ {x})}
<1>1. \A T \in SUBSET S : IsFiniteSet(T) /\ Cardinality(T) \in Nat
  BY FS_Subset, FS_CardinalityType
<1>2. 0 \in N
  <2>1. ASSUME NEW T \in SUBSET S, Cardinality(T) = 0
        PROVE  T = {}
    BY <1>1, <2>1, FS_EmptySet
  <2> QED BY <2>1
<1>3. ASSUME NEW n \in Nat, n \in N
      PROVE  n + 1 \in N
  <2>1. ASSUME NEW T \in SUBSET S, Cardinality(T) = n + 1, NEW x \in T
        PROVE  Total(f, T) = f[x] + Total(f, T \ {x})
    <3>1. PICK y : y = Some(T)
      OBVIOUS
    <3>2. y \in T
      BY <3>1 DEF Some
    <3>3. Total(f, T) = f[y] + Total(f, T \ {y})
      BY <1>1, <3>1, TotalChosen
    <3>4. CASE x = y
      BY <3>3, <3>4
    <3>5. CASE x # y
      <4> DEFINE U == T \ {x}
                 V == T \ {y}
                 W == (T \ {x}) \ {y}
      <4>1. Cardinality(U) = n /\ Cardinality(V) = n
        BY <1>1, <2>1, <3>2, RemoveOne
      <4>2. W = V \ {x} /\ y \in U /\ x \in V /\ U \in SUBSET S /\ V \in SUBSET S /\ W \in SUBSET S
        BY <3>2, <3>5
      <4>3. Total(f, U) = f[y] + Total(f, W)
        BY <1>3, <4>1, <4>2
      <4>4. Total(f, V) = f[x] + Total(f, W)
        BY <1>3, <4>1, <4>2
      <4>5. Total(f, W) \in Int /\ f[x] \in Int /\ f[y] \in Int
        BY <3>2, <4>2, TotalInt
      <4> HIDE DEF U, V, W
      <4>6. Total(f, T) = f[y] + Total(f, V)
        BY <3>3 DEF V
      <4>7. Total(f, T) = f[x] + Total(f, U)
        BY <4>3, <4>4, <4>5, <4>6
      <4> QED BY <4>7 DEF U
    <3> QED BY <3>4, <3>5
  <2> QED BY <2>1
<1> HIDE DEF N
<1>4. \A n \in Nat : n \in N
  BY <1>2, <1>3, SetInduction
<1> QED BY <1>1, <1>4 DEF N

LEMMA TotalAdd ==
  ASSUME NEW S, IsFiniteSet(S), NEW x, x \notin S, NEW f, \A y \in S \union {x} : f[y] \in Int
  PROVE  /\ Total(f, S \union {x}) = Total(f, S) + f[x]
         /\ Total(f, S) \in Int
<1> DEFINE T == S \union {x}
<1>1. IsFiniteSet(T)
  BY FS_AddElement
<1>2. T \ {x} = S /\ x \in T /\ T \in SUBSET T /\ S \in SUBSET T
  OBVIOUS
<1> HIDE DEF T
<1>3. \A y \in T : f[y] \in Int
  BY DEF T
<1>4. Total(f, T) = f[x] + Total(f, T \ {x})
  BY <1>1, <1>2, <1>3, TotalRemove
<1>5. Total(f, S) \in Int /\ f[x] \in Int
  <2>1. \A U \in SUBSET T : Total(f, U) \in Int
    BY <1>1, <1>3, TotalInt
  <2> QED BY <1>2, <1>3, <2>1
<1>6. Total(f, T) = Total(f, S) + f[x]
  <2>1. Total(f, T) = f[x] + Total(f, S)
    BY <1>2, <1>4, Zenon
  <2> QED BY <1>5, <2>1
<1> QED BY <1>5, <1>6 DEF T

\* A part of a set of amounts sums up to no more than the whole.
LEMMA TotalSplit ==
  ASSUME NEW S, IsFiniteSet(S), NEW f, \A x \in S : f[x] \in Nat
  PROVE  /\ \A T \in SUBSET S : Total(f, T) \in Nat
         /\ \A T \in SUBSET S : Total(f, T) <= Total(f, S)
<1> DEFINE K == {T \in SUBSET S : Total(f, T) \in Nat}
           L == {T \in SUBSET S : Total(f, S) = Total(f, T) + Total(f, S \ T)}
<1>1. \A T \in SUBSET S : Total(f, T) \in Int /\ IsFiniteSet(T)
  BY TotalInt, FS_Subset
<1>2. {} \in K
  BY TotalEmpty
<1>3. ASSUME NEW T \in SUBSET S, NEW x \in S, T \in K, x \notin T
      PROVE  T \union {x} \in K
  <2>1. Total(f, T \union {x}) = Total(f, T) + f[x]
    <3>1. \A y \in T \union {x} : f[y] \in Int
      OBVIOUS
    <3> QED BY <1>1, <1>3, <3>1, TotalAdd
  <2> QED BY <1>3, <2>1
<1>4. \A T \in SUBSET S : T \in K
  <2> HIDE DEF K
  <2> QED BY <1>2, <1>3, FiniteInduction
<1>5. {} \in L
  <2>1. S \ {} = S
    OBVIOUS
  <2>2. Total(f, {}) = 0 /\ Total(f, S) \in Int
    BY <1>1, TotalEmpty
  <2> QED BY <2>1, <2>2
<1>6. ASSUME NEW T \in SUBSET S, NEW x \in S, T \in L, x \notin T
      PROVE  T \union {x} \in L
  <2>1. Total(f, T \union {x}) = Total(f, T) + f[x]
    <3>1. \A y \in T \union {x} : f[y] \in Int
      OBVIOUS
    <3> QED BY <1>1, <1>6, <3>1, TotalAdd
  <2>2. Total(f, S \ T) = f[x] + Total(f, (S \ T) \ {x})
    <3>1. S \ T \in SUBSET S /\ x \in S \ T
      BY <1>6
    <3> QED BY <3>1, TotalRemove
  <2>3. (S \ T) \ {x} = S \ (T \union {x})
    OBVIOUS
  <2>4. Total(f, S) = Total(f, T) + Total(f, S \ T)
    BY <1>6
  <2>5. /\ Total(f, S) \in Int /\ Total(f, T) \in Int /\ Total(f, S \ T) \in Int /\ f[x] \in Int
        /\ Total(f, S \ (T \union {x})) \in Int
    BY <1>1
  <2>6. Total(f, S) = Total(f, T \union {x}) + Total(f, S \ (T \union {x}))
    BY <2>1, <2>2, <2>3, <2>4, <2>5
  <2> QED BY <2>6
<1>7. \A T \in SUBSET S : T \in L
  <2> HIDE DEF L
  <2> QED BY <1>5, <1>6, FiniteInduction
<1>8. ASSUME NEW T \in SUBSET S
      PROVE  Total(f, T) <= Total(f, S)
  <2>1. Total(f, S) = Total(f, T) + Total(f, S \ T)
    BY <1>7
  <2>2. Total(f, T) \in Nat /\ Total(f, S \ T) \in Nat
    BY <1>4
  <2> QED BY <2>1, <2>2
<1> QED BY <1>4, <1>8

------------------------------------------------------------------------------
(* The meters, kind by kind: what is always true of one, what Charge makes
   of it, and what Used reads off it. *)

Kinds == {"fixed", "rolling", "session", "credit"}

LEMMA SpecFacts ==
  ASSUME NEW spec \in MeterSpecs
  PROVE  /\ spec.kind \in Kinds /\ spec.limit \in Nat \ {0} /\ spec.period \in Nat \ {0}
         /\ spec.kind = "credit" => /\ spec.refill \in Nat \ {0}
                                    /\ spec.initial \in Nat /\ spec.initial <= spec.limit
BY DEF MeterSpecs, WindowSpecs, CreditSpecs, Kinds

Later(t, m) == IF t >= m.last_seen THEN t ELSE m.last_seen

FixedOK(spec, m) ==
  /\ m \in [last_seen: Int, window: Int \union {NoWindow}, used: Nat]
  /\ m.window # NoWindow => m.window <= Floor(m.last_seen, spec.period)

Buckets == UNION {[D -> Nat] : D \in SUBSET Int}

RollingOK(spec, m) ==
  /\ m \in [last_seen: Int, buckets: Buckets]
  /\ IsFiniteSet(DOMAIN m.buckets)

SessionOK(spec, m) == m \in [last_seen: Int, open: Int \union {NoWindow}, used: Nat]

CreditOK(spec, m) ==
  /\ m \in [last_seen: Int, at: Int, scaled: Int]
  /\ m.at <= m.last_seen
  /\ m.scaled <= spec.limit * spec.period

MeterOK(spec, m) ==
  /\ m.last_seen \in Int
  /\ spec.kind = "fixed" => FixedOK(spec, m)
  /\ spec.kind = "rolling" => RollingOK(spec, m)
  /\ spec.kind = "session" => SessionOK(spec, m)
  /\ spec.kind = "credit" => CreditOK(spec, m)

LEMMA LaterIs ==
  ASSUME NEW t \in Int, NEW m, m.last_seen \in Int
  PROVE  Max({t, m.last_seen}) = Later(t, m) /\ Later(t, m) \in Int
BY MaxTwo DEF Later

LEMMA FloorFacts ==
  ASSUME NEW w \in Nat \ {0}
  PROVE  /\ \A t \in Int : Floor(t, w) \in Int /\ Floor(t, w) <= t /\ t < Floor(t, w) + w
         /\ \A t, u \in Int : t <= u => Floor(t, w) <= Floor(u, w)
         /\ \A t, u \in Int : Floor(t, w) <= u /\ u < Floor(t, w) + w => Floor(u, w) = Floor(t, w)
         /\ \A t \in Int : Floor(Floor(t, w) + w, w) = Floor(t, w) + w
<1>1. \A t \in Int : t \div w \in Int /\ (t \div w) * w <= t /\ t < (t \div w) * w + w
  BY DivBounds
<1>2. ASSUME NEW t \in Int, NEW u \in Int, t <= u
      PROVE  (t \div w) * w <= (u \div w) * w
  BY <1>1, <1>2, DivMono, TimesMono
<1>3. ASSUME NEW t \in Int, NEW u \in Int, (t \div w) * w <= u, u < (t \div w) * w + w
      PROVE  u \div w = t \div w
  <2> DEFINE k == t \div w
             r == u - k * w
  <2>1. k \in Int /\ r \in Int /\ 0 <= r /\ r < w /\ u = k * w + r
    BY <1>1, <1>3
  <2> HIDE DEF k, r
  <2>2. u \div w = k
    BY <2>1, DivExact
  <2> QED BY <2>2 DEF k
<1>4. ASSUME NEW t \in Int
      PROVE  (((t \div w) * w + w) \div w) * w = (t \div w) * w + w
  <2> DEFINE k == t \div w
  <2>1. k \in Int
    BY <1>1
  <2> HIDE DEF k
  <2>2. k * w + w = (k + 1) * w + 0 /\ k + 1 \in Int
    BY <2>1
  <2>3. (k * w + w) \div w = k + 1
    BY <2>2, DivExact
  <2>4. ((k * w + w) \div w) * w = k * w + w
    BY <2>1, <2>3
  <2> QED BY <2>4 DEF k
<1>5. \A t \in Int : Floor(t, w) \in Int
  BY <1>1 DEF Floor
<1> QED BY <1>1, <1>2, <1>3, <1>4, <1>5 DEF Floor

LEMMA NewMeterOK ==
  ASSUME NEW spec \in MeterSpecs, NEW since \in Int
  PROVE  MeterOK(spec, NewMeter(spec, since)) /\ NewMeter(spec, since).last_seen = since
<1>1. PICK m : m = NewMeter(spec, since)
  OBVIOUS
<1>2. CASE spec.kind = "fixed"
  BY <1>1, <1>2 DEF NewMeter, MeterOK, FixedOK
<1>3. CASE spec.kind = "rolling"
  <2> DEFINE f == [s \in {} |-> 0]
  <2>1. m = [last_seen |-> since, buckets |-> f]
    BY <1>1, <1>3 DEF NewMeter
  <2>2. f \in Buckets /\ DOMAIN f = {}
    <3>1. f \in [{} -> Nat] /\ DOMAIN f = {} /\ {} \in SUBSET Int
      OBVIOUS
    <3> HIDE DEF f
    <3> QED BY <3>1 DEF Buckets
  <2> HIDE DEF f
  <2>3. IsFiniteSet({})
    BY FS_EmptySet
  <2> QED BY <1>1, <1>3, <2>1, <2>2, <2>3 DEF MeterOK, RollingOK
<1>4. CASE spec.kind = "session"
  BY <1>1, <1>4 DEF NewMeter, MeterOK, SessionOK
<1>5. CASE spec.kind = "credit"
  <2>1. m = [last_seen |-> since, at |-> since, scaled |-> spec.initial * spec.period]
    BY <1>1, <1>5 DEF NewMeter
  <2>2. spec.initial * spec.period \in Int /\ spec.initial * spec.period <= spec.limit * spec.period
    BY <1>5, SpecFacts, TimesMono
  <2> QED BY <1>1, <1>5, <2>1, <2>2 DEF MeterOK, CreditOK
<1> QED BY <1>2, <1>3, <1>4, <1>5, SpecFacts DEF Kinds

LEMMA FixedCharge ==
  ASSUME NEW spec \in MeterSpecs, spec.kind = "fixed", NEW m, FixedOK(spec, m),
         NEW t \in Int, NEW x \in Nat, NEW n, n = Charge(spec, m, t, x)
  PROVE  /\ FixedOK(spec, n) /\ n.last_seen = Later(t, m)
         /\ x = 0 => n.window = m.window /\ n.used = m.used
         /\ x > 0 => /\ n.window = Floor(Later(t, m), spec.period)
                     /\ n.used = (IF m.window = n.window THEN m.used ELSE 0) + x
<1>1. PICK a : a = Later(t, m)
  OBVIOUS
<1>2. m.last_seen \in Int /\ a \in Int /\ a >= m.last_seen /\ Max({t, m.last_seen}) = a
  BY <1>1, LaterIs DEF FixedOK, Later
<1>3. PICK w : w = Floor(a, spec.period)
  OBVIOUS
<1>4. w \in Int /\ Floor(m.last_seen, spec.period) \in Int /\ Floor(m.last_seen, spec.period) <= w
  BY <1>2, <1>3, FloorFacts, SpecFacts
<1>5. CASE x = 0
  <2>1. n = [m EXCEPT !.last_seen = a]
    BY <1>2, <1>5 DEF Charge
  <2> QED BY <1>1, <1>2, <1>3, <1>4, <1>5, <2>1, NoWindowAssumption DEF FixedOK
<1>6. CASE x # 0
  <2>1. n = [last_seen |-> a, window |-> w,
             used |-> (IF m.window = w THEN m.used ELSE 0) + x]
    BY <1>2, <1>3, <1>6 DEF Charge
  <2>2. m.used \in Nat
    BY DEF FixedOK
  <2> QED BY <1>1, <1>2, <1>3, <1>4, <1>6, <2>1, <2>2 DEF FixedOK
<1> QED BY <1>5, <1>6

LEMMA SessionCharge ==
  ASSUME NEW spec \in MeterSpecs, spec.kind = "session", NEW m, SessionOK(spec, m),
         NEW t \in Int, NEW x \in Nat, NEW n, n = Charge(spec, m, t, x)
  PROVE  /\ SessionOK(spec, n) /\ n.last_seen = Later(t, m)
         /\ x = 0 => n.open = m.open /\ n.used = m.used
         /\ x > 0 /\ SessionOpen(spec, m, Later(t, m)) => n.open = m.open /\ n.used = m.used + x
         /\ x > 0 /\ ~SessionOpen(spec, m, Later(t, m)) => n.open = Later(t, m) /\ n.used = x
<1>1. PICK a : a = Later(t, m)
  OBVIOUS
<1>2. m.last_seen \in Int /\ a \in Int /\ Max({t, m.last_seen}) = a
  BY <1>1, LaterIs DEF SessionOK, Later
<1>3. CASE x = 0
  <2>1. n = [m EXCEPT !.last_seen = a]
    BY <1>2, <1>3 DEF Charge
  <2> QED BY <1>1, <1>2, <1>3, <2>1 DEF SessionOK
<1>4. CASE x # 0
  <2>1. n = IF SessionOpen(spec, m, a)
            THEN [m EXCEPT !.last_seen = a, !.used = m.used + x]
            ELSE [last_seen |-> a, open |-> a, used |-> x]
    BY <1>2, <1>4 DEF Charge
  <2>2. m.used \in Nat /\ m.used + x \in Nat
    BY DEF SessionOK
  <2>3. CASE SessionOpen(spec, m, a)
    <3>1. n = [m EXCEPT !.last_seen = a, !.used = m.used + x]
      BY <2>1, <2>3
    <3> QED BY <1>1, <1>2, <1>4, <2>2, <2>3, <3>1 DEF SessionOK
  <2>4. CASE ~SessionOpen(spec, m, a)
    <3>1. n = [last_seen |-> a, open |-> a, used |-> x]
      BY <2>1, <2>4
    <3> QED BY <1>1, <1>2, <1>4, <2>4, <3>1 DEF SessionOK
  <2> QED BY <2>3, <2>4
<1> QED BY <1>3, <1>4

LEMMA Balance ==
  ASSUME NEW spec \in MeterSpecs, spec.kind = "credit", NEW m, CreditOK(spec, m),
         NEW t \in Int, t >= m.at
  PROVE  LET cap == spec.limit * spec.period
             sum == m.scaled + (t - m.at) * spec.refill
         IN  /\ CreditBalance(spec, m, t) = IF sum <= cap THEN sum ELSE cap
             /\ CreditBalance(spec, m, t) \in Int
             /\ CreditBalance(spec, m, t) <= cap
             /\ sum \in Int /\ cap \in Int
<1> DEFINE cap == spec.limit * spec.period
           accrued == (t - m.at) * spec.refill
<1>1. m.scaled \in Int /\ m.at \in Int /\ m.scaled <= cap /\ cap \in Int
  BY SpecFacts DEF CreditOK
<1>2. spec.refill \in Nat /\ t - m.at \in Nat
  BY <1>1, SpecFacts
<1>3. accrued \in Nat
  BY <1>2
<1>4. Max({t - m.at, 0}) = t - m.at
  BY <1>2, MaxWithZero
<1>5. CreditBalance(spec, m, t) = IF m.scaled >= cap THEN m.scaled
                                  ELSE Min({m.scaled + accrued, cap})
  BY <1>4 DEF CreditBalance
<1> HIDE DEF cap, accrued
<1>6. Min({m.scaled + accrued, cap}) = IF m.scaled + accrued <= cap THEN m.scaled + accrued ELSE cap
  BY <1>1, <1>3, MinTwo
<1>7. /\ CreditBalance(spec, m, t) = IF m.scaled + accrued <= cap THEN m.scaled + accrued ELSE cap
      /\ CreditBalance(spec, m, t) \in Int /\ CreditBalance(spec, m, t) <= cap
      /\ m.scaled + accrued \in Int /\ cap \in Int
  BY <1>1, <1>3, <1>5, <1>6
<1> QED BY <1>7 DEF cap, accrued

LEMMA CreditCharge ==
  ASSUME NEW spec \in MeterSpecs, spec.kind = "credit", NEW m, CreditOK(spec, m),
         NEW t \in Int, NEW x \in Nat, NEW n, n = Charge(spec, m, t, x)
  PROVE  /\ CreditOK(spec, n) /\ n.last_seen = Later(t, m)
         /\ x = 0 => n.at = m.at /\ n.scaled = m.scaled
         /\ x > 0 => /\ n.at = Later(t, m)
                     /\ n.scaled = CreditBalance(spec, m, Later(t, m)) - x * spec.period
<1>1. PICK a : a = Later(t, m)
  OBVIOUS
<1>2. /\ m.last_seen \in Int /\ a \in Int /\ a >= m.last_seen /\ Max({t, m.last_seen}) = a
      /\ m.at \in Int /\ m.at <= m.last_seen
  BY <1>1, LaterIs DEF CreditOK, Later
<1>3. PICK b : b = CreditBalance(spec, m, a)
  OBVIOUS
<1>4. PICK cap : cap = spec.limit * spec.period
  OBVIOUS
<1>5. b \in Int /\ b <= cap /\ cap \in Int
  BY <1>2, <1>3, <1>4, Balance
<1>6. PICK d : d = x * spec.period
  OBVIOUS
<1>7. d \in Nat
  BY <1>6, SpecFacts
<1>8. CASE x = 0
  <2>1. n = [m EXCEPT !.last_seen = a]
    BY <1>2, <1>8 DEF Charge
  <2> QED BY <1>1, <1>2, <1>4, <1>8, <2>1 DEF CreditOK
<1>9. CASE x # 0
  <2>1. n = [last_seen |-> a, at |-> a, scaled |-> b - d]
    BY <1>2, <1>3, <1>6, <1>9 DEF Charge
  <2>2. b - d \in Int /\ b - d <= cap
    BY <1>5, <1>7
  <2> QED BY <1>1, <1>2, <1>3, <1>4, <1>6, <1>9, <2>1, <2>2 DEF CreditOK
<1> QED BY <1>8, <1>9

LEMMA RollingFacts ==
  ASSUME NEW p \in Nat \ {0}
  PROVE  /\ RollingBucket(p) \in Nat \ {0} /\ RollingExpiry(p) \in Nat \ {0}
         /\ RollingExpiry(p) = p + RollingBucket(p)
<1>1. p \div 60 \in Int
  OBVIOUS
<1>2. Max({1, p \div 60}) = IF 1 >= p \div 60 THEN 1 ELSE p \div 60
  BY <1>1, MaxTwo
<1>3. RollingBucket(p) \in Nat \ {0}
  BY <1>1, <1>2 DEF RollingBucket
<1> QED BY <1>3 DEF RollingExpiry

LEMMA LiveFacts ==
  ASSUME NEW spec \in MeterSpecs, NEW m, RollingOK(spec, m), NEW t \in Int
  PROVE  /\ LiveBuckets(spec, m, t) \subseteq DOMAIN m.buckets
         /\ IsFiniteSet(LiveBuckets(spec, m, t)) /\ LiveBuckets(spec, m, t) \subseteq Int
         /\ DOMAIN m.buckets \subseteq Int
         /\ \A s \in DOMAIN m.buckets : m.buckets[s] \in Nat
<1>1. m.buckets \in Buckets
  BY DEF RollingOK
<1>2. PICK D \in SUBSET Int : m.buckets \in [D -> Nat]
  BY <1>1 DEF Buckets
<1>3. LiveBuckets(spec, m, t) \subseteq DOMAIN m.buckets
  BY DEF LiveBuckets
<1> QED BY <1>2, <1>3, FS_Subset DEF RollingOK

Recharged(f, kept, key, x) ==
  [s \in kept \union {key} |-> (IF s \in kept THEN f[s] ELSE 0) + (IF s = key THEN x ELSE 0)]

LEMMA RollingCharge ==
  ASSUME NEW spec \in MeterSpecs, spec.kind = "rolling", NEW m, RollingOK(spec, m),
         NEW t \in Int, NEW x \in Nat, NEW n, n = Charge(spec, m, t, x)
  PROVE  /\ RollingOK(spec, n) /\ n.last_seen = Later(t, m)
         /\ x = 0 => n.buckets = m.buckets
         /\ x > 0 => n.buckets = Recharged(m.buckets, LiveBuckets(spec, m, Later(t, m)),
                                Floor(Later(t, m), RollingBucket(spec.period)), x)
<1>1. PICK a : a = Later(t, m)
  OBVIOUS
<1>2. m.last_seen \in Int /\ a \in Int /\ Max({t, m.last_seen}) = a
  BY <1>1, LaterIs DEF RollingOK, Later
<1>3. CASE x = 0
  <2>1. n = [m EXCEPT !.last_seen = a]
    BY <1>2, <1>3 DEF Charge
  <2>2. n \in [last_seen: Int, buckets: Buckets] /\ n.buckets = m.buckets /\ n.last_seen = a
    BY <1>2, <2>1 DEF RollingOK
  <2> QED BY <1>1, <1>3, <2>2 DEF RollingOK
<1>4. CASE x # 0
  <2>1. PICK key : key = Floor(a, RollingBucket(spec.period))
    OBVIOUS
  <2>2. key \in Int
    BY <1>2, <2>1, FloorFacts, RollingFacts, SpecFacts
  <2>3. PICK kept : kept = LiveBuckets(spec, m, a)
    OBVIOUS
  <2>4. IsFiniteSet(kept) /\ kept \subseteq Int /\ \A s \in kept : m.buckets[s] \in Nat
    BY <1>2, <2>3, LiveFacts
  <2> DEFINE f == Recharged(m.buckets, kept, key, x)
  <2>5. n = [m EXCEPT !.last_seen = a, !.buckets = f]
    BY <1>2, <1>4, <2>1, <2>3 DEF Charge, ChargeRolling, Recharged
  <2>6. f \in [kept \union {key} -> Nat]
    <3>1. \A s \in kept \union {key} : (IF s \in kept THEN m.buckets[s] ELSE 0)
                                       + (IF s = key THEN x ELSE 0) \in Nat
      BY <2>4
    <3> QED BY <3>1 DEF Recharged
  <2>7. DOMAIN f = kept \union {key} /\ kept \union {key} \in SUBSET Int
    BY <2>2, <2>4 DEF Recharged
  <2>8. IsFiniteSet(kept \union {key})
    BY <2>4, FS_AddElement
  <2> HIDE DEF f
  <2>9. f \in Buckets
    BY <2>6, <2>7 DEF Buckets
  <2>10. n \in [last_seen: Int, buckets: Buckets] /\ n.buckets = f /\ n.last_seen = a
    BY <1>2, <2>5, <2>9 DEF RollingOK
  <2>11. RollingOK(spec, n)
    BY <2>7, <2>8, <2>10 DEF RollingOK
  <2> QED BY <1>1, <1>4, <2>1, <2>3, <2>10, <2>11 DEF f
<1> QED BY <1>3, <1>4

\* What a rolling meter counts at a later time grows by a charge exactly as
\* long as the charge's bucket lives: the buckets it drops were expired.
LEMMA RollingGrows ==
  ASSUME NEW spec \in MeterSpecs, spec.kind = "rolling", NEW m, RollingOK(spec, m),
         NEW t \in Int, NEW x \in Nat, NEW n, n = Charge(spec, m, t, x),
         NEW u \in Int, u >= Later(t, m)
  PROVE  BucketSpend(n, LiveBuckets(spec, n, u)) =
           BucketSpend(m, LiveBuckets(spec, m, u))
           + (IF Floor(Later(t, m), RollingBucket(spec.period)) + RollingExpiry(spec.period) > u
              THEN x ELSE 0)
<1>1. PICK a : a = Later(t, m)
  OBVIOUS
<1>2. m.last_seen \in Int /\ a \in Int /\ a <= u
  BY <1>1, LaterIs DEF RollingOK, Later
<1>3. PICK key : key = Floor(a, RollingBucket(spec.period))
  OBVIOUS
<1>4. PICK E : E = RollingExpiry(spec.period)
  OBVIOUS
<1>5. key \in Int /\ E \in Int
  BY <1>2, <1>3, <1>4, FloorFacts, RollingFacts, SpecFacts
<1>6. PICK old : old = LiveBuckets(spec, m, u)
  OBVIOUS
<1>7. PICK new : new = LiveBuckets(spec, n, u)
  OBVIOUS
<1>8. PICK kept : kept = LiveBuckets(spec, m, a)
  OBVIOUS
<1>9. PICK f : f = m.buckets
  OBVIOUS
<1>10. PICK g : g = n.buckets
  OBVIOUS
<1>11. /\ IsFiniteSet(old) /\ old \subseteq Int /\ \A s \in old : f[s] \in Nat
       /\ DOMAIN f \subseteq Int /\ old \in SUBSET old
  BY <1>6, <1>9, LiveFacts
<1>12. (\A s \in old : f[s] \in Int) /\ x \in Int
  BY <1>11
<1>13. \A T \in SUBSET old : Total(f, T) \in Int
  BY <1>11, <1>12, TotalInt
<1>14. CASE x = 0
  <2>1. g = f
    BY <1>9, <1>10, <1>14, RollingCharge
  <2>2. new = old
    BY <1>6, <1>7, <1>9, <1>10, <2>1 DEF LiveBuckets
  <2>3. Total(g, new) = Total(f, old) + 0
    BY <1>11, <1>13, <2>1, <2>2
  <2> QED BY <1>6, <1>7, <1>9, <1>10, <1>14, <2>3 DEF BucketSpend
<1>15. CASE x > 0
  <2>1. g = Recharged(f, kept, key, x)
    BY <1>1, <1>3, <1>8, <1>9, <1>10, <1>15, RollingCharge
  <2>2. DOMAIN g = kept \union {key}
    BY <2>1 DEF Recharged
  <2>3. kept = {s \in DOMAIN f : s + E > a} /\ old = {s \in DOMAIN f : s + E > u}
    BY <1>4, <1>6, <1>8, <1>9 DEF LiveBuckets
  <2>4. new = {s \in kept \union {key} : s + E > u}
    BY <1>4, <1>7, <1>10, <2>2 DEF LiveBuckets
  <2>5. old \subseteq kept
    BY <1>2, <1>5, <1>11, <2>3
  <2>6. \A s \in old : s # key => g[s] = f[s]
    <3>1. \A s \in old : s # key => g[s] = f[s] + 0
      BY <2>1, <2>5 DEF Recharged
    <3> QED BY <1>12, <3>1
  <2>7. CASE key + E > u
    <3> DEFINE rest == old \ {key}
    <3>1. new = rest \union {key} /\ key \notin rest
      BY <1>2, <1>5, <1>11, <2>3, <2>4, <2>5, <2>7
    <3>2. IsFiniteSet(rest) /\ rest \in SUBSET old
      BY <1>11, FS_Subset
    <3>3. Total(g, rest) = Total(f, rest)
      BY <2>6, <3>2, TotalCongruent
    <3>4. PICK y : y = IF key \in old THEN f[key] ELSE 0
      OBVIOUS
    <3>5. y \in Int
      BY <1>12, <3>4
    <3>6. g[key] = y + x
      <4>1. key \in kept <=> key \in old
        BY <1>2, <1>5, <1>11, <2>3, <2>7
      <4> QED BY <2>1, <3>4, <4>1 DEF Recharged
    <3>7. Total(g, new) = Total(g, rest) + g[key]
      <4>1. \A s \in rest \union {key} : g[s] \in Int
        <5>1. g[key] \in Int
          BY <1>12, <3>5, <3>6
        <5> QED BY <1>12, <2>6, <5>1
      <4> HIDE DEF rest
      <4> QED BY <3>1, <3>2, <4>1, TotalAdd
    <3>8. Total(f, old) = Total(f, rest) + y
      <4>1. Total(f, rest) \in Int
        BY <1>13, <3>2
      <4>2. CASE key \in old
        <5>1. IsFiniteSet(old) /\ (\A s \in old : f[s] \in Int)
          BY <1>11, <1>12
        <5>2. Total(f, old) = f[key] + Total(f, rest)
          BY <4>2, <5>1, TotalRemove
        <5> QED BY <3>4, <3>5, <4>1, <4>2, <5>2
      <4>3. CASE key \notin old
        <5>1. rest = old
          BY <4>3
        <5>2. y = 0
          BY <3>4, <4>3
        <5> HIDE DEF rest
        <5> QED BY <4>1, <5>1, <5>2
      <4> QED BY <4>2, <4>3
    <3>9. Total(g, new) = Total(f, old) + x
      <4>1. Total(f, rest) \in Int
        BY <1>13, <3>2
      <4> HIDE DEF rest
      <4> QED BY <1>12, <3>3, <3>5, <3>6, <3>7, <3>8, <4>1
    <3> QED BY <1>1, <1>3, <1>4, <1>6, <1>7, <1>9, <1>10, <2>7, <3>9 DEF BucketSpend
  <2>8. CASE ~(key + E > u)
    <3>1. new = old /\ key \notin old
      BY <1>2, <1>5, <1>11, <2>3, <2>4, <2>5, <2>8
    <3>2. \A s \in old : g[s] = f[s]
      BY <2>6, <3>1
    <3>3. Total(g, old) = Total(f, old)
      BY <1>11, <3>2, TotalCongruent
    <3>4. Total(g, new) = Total(f, old) + 0
      BY <1>11, <1>13, <3>1, <3>3
    <3> QED BY <1>1, <1>3, <1>4, <1>6, <1>7, <1>9, <1>10, <2>8, <3>4 DEF BucketSpend
  <2> QED BY <2>7, <2>8
<1> QED BY <1>14, <1>15

LEMMA ChargeOK ==
  ASSUME NEW spec \in MeterSpecs, NEW m, MeterOK(spec, m), NEW t \in Int, NEW x \in Nat
  PROVE  /\ MeterOK(spec, Charge(spec, m, t, x))
         /\ Charge(spec, m, t, x).last_seen = Later(t, m)
<1>1. PICK n : n = Charge(spec, m, t, x)
  OBVIOUS
<1>2. Later(t, m) \in Int
  BY LaterIs DEF MeterOK
<1>3. CASE spec.kind = "fixed"
  <2>1. FixedOK(spec, n) /\ n.last_seen = Later(t, m)
    BY <1>1, <1>3, FixedCharge DEF MeterOK
  <2> QED BY <1>1, <1>2, <1>3, <2>1 DEF MeterOK
<1>4. CASE spec.kind = "rolling"
  <2>1. RollingOK(spec, n) /\ n.last_seen = Later(t, m)
    BY <1>1, <1>4, RollingCharge DEF MeterOK
  <2> QED BY <1>1, <1>2, <1>4, <2>1 DEF MeterOK
<1>5. CASE spec.kind = "session"
  <2>1. SessionOK(spec, n) /\ n.last_seen = Later(t, m)
    BY <1>1, <1>5, SessionCharge DEF MeterOK
  <2> QED BY <1>1, <1>2, <1>5, <2>1 DEF MeterOK
<1>6. CASE spec.kind = "credit"
  <2>1. CreditOK(spec, n) /\ n.last_seen = Later(t, m)
    BY <1>1, <1>6, CreditCharge DEF MeterOK
  <2> QED BY <1>1, <1>2, <1>6, <2>1 DEF MeterOK
<1> QED BY <1>3, <1>4, <1>5, <1>6, SpecFacts DEF Kinds

LEMMA UsedIs ==
  ASSUME NEW spec \in MeterSpecs, NEW m, MeterOK(spec, m), NEW t \in Int
  PROVE  /\ spec.kind = "fixed" => Used(spec, m, t) =
              IF m.window = Floor(Later(t, m), spec.period) THEN m.used ELSE 0
         /\ spec.kind = "rolling" => Used(spec, m, t) =
              BucketSpend(m, LiveBuckets(spec, m, Later(t, m)))
         /\ spec.kind = "session" => Used(spec, m, t) =
              IF SessionOpen(spec, m, Later(t, m)) THEN m.used ELSE 0
         /\ spec.kind = "credit" => Used(spec, m, t) =
              spec.limit - (CreditBalance(spec, m, Later(t, m)) \div spec.period)
<1>1. Max({t, m.last_seen}) = Later(t, m)
  BY LaterIs DEF MeterOK
<1> QED BY <1>1 DEF Used

LEMMA UsedType ==
  ASSUME NEW spec \in MeterSpecs, NEW m, MeterOK(spec, m), NEW t \in Int
  PROVE  Used(spec, m, t) \in Int
<1>1. PICK a : a = Later(t, m)
  OBVIOUS
<1>2. a \in Int /\ a >= m.last_seen /\ m.last_seen \in Int
  BY <1>1, LaterIs DEF MeterOK, Later
<1>3. CASE spec.kind = "fixed"
  BY <1>3, UsedIs DEF MeterOK, FixedOK
<1>4. CASE spec.kind = "rolling"
  <2>1. PICK f : f = m.buckets
    OBVIOUS
  <2>2. PICK S : S = LiveBuckets(spec, m, a)
    OBVIOUS
  <2>3. IsFiniteSet(S) /\ \A x \in S : f[x] \in Int
    BY <1>2, <1>4, <2>1, <2>2, LiveFacts DEF MeterOK
  <2>4. Total(f, S) \in Int
    BY <2>3, TotalInt
  <2> QED BY <1>1, <1>4, <2>1, <2>2, <2>4, UsedIs DEF BucketSpend
<1>5. CASE spec.kind = "session"
  BY <1>5, UsedIs DEF MeterOK, SessionOK
<1>6. CASE spec.kind = "credit"
  <2>1. PICK b : b = CreditBalance(spec, m, a)
    OBVIOUS
  <2>2. b \in Int
    BY <1>2, <1>6, <2>1, Balance DEF MeterOK, CreditOK
  <2>3. spec.limit - (b \div spec.period) \in Int
    BY <2>2, SpecFacts, DivBounds
  <2> QED BY <1>1, <1>6, <2>1, <2>3, UsedIs
<1> QED BY <1>3, <1>4, <1>5, <1>6, SpecFacts DEF Kinds

\* In a window that has not ended before the charge, a fixed meter counts the
\* charge in the window of its time and nowhere else.
LEMMA FixedGrows ==
  ASSUME NEW spec \in MeterSpecs, spec.kind = "fixed", NEW m, FixedOK(spec, m),
         NEW t \in Int, NEW x \in Nat, NEW n, n = Charge(spec, m, t, x),
         NEW w \in Int, w >= Floor(Later(t, m), spec.period)
  PROVE  (IF n.window = w THEN n.used ELSE 0) =
           (IF m.window = w THEN m.used ELSE 0)
           + (IF w = Floor(Later(t, m), spec.period) THEN x ELSE 0)
<1>1. PICK a : a = Later(t, m)
  OBVIOUS
<1>2. m.last_seen \in Int /\ a \in Int /\ a >= m.last_seen
  BY <1>1, LaterIs DEF FixedOK, Later
<1>3. PICK v : v = Floor(a, spec.period)
  OBVIOUS
<1>4. PICK z : z = Floor(m.last_seen, spec.period)
  OBVIOUS
<1>5. v \in Int /\ z \in Int /\ z <= v
  BY <1>2, <1>3, <1>4, FloorFacts, SpecFacts
<1>6. m.used \in Nat /\ (m.window = NoWindow \/ (m.window \in Int /\ m.window <= z))
  BY <1>4 DEF FixedOK
<1>7. CASE x = 0
  <2>1. n.window = m.window /\ n.used = m.used
    BY <1>7, FixedCharge
  <2> QED BY <1>6, <1>7, <2>1
<1>8. CASE x > 0
  <2>1. n.window = v /\ n.used = (IF m.window = v THEN m.used ELSE 0) + x
    BY <1>1, <1>3, <1>8, FixedCharge
  <2>2. CASE w = v
    BY <1>1, <1>3, <1>6, <2>1, <2>2
  <2>3. CASE w # v
    <3>1. w > v
      BY <1>1, <1>3, <1>5, <2>3
    <3>2. m.window # w
      BY <1>5, <1>6, <3>1, NoWindowAssumption
    <3> QED BY <1>1, <1>3, <2>1, <2>3, <3>2
  <2> QED BY <2>2, <2>3
<1> QED BY <1>7, <1>8

\* What a meter reports right after a charge is what it reported before, and
\* the charge.
LEMMA UsedCharged ==
  ASSUME NEW spec \in MeterSpecs, NEW m, MeterOK(spec, m), NEW t \in Int, NEW x \in Nat,
         t >= m.last_seen
  PROVE  Used(spec, Charge(spec, m, t, x), t) = Used(spec, m, t) + x
<1>1. PICK n : n = Charge(spec, m, t, x)
  OBVIOUS
<1>2. m.last_seen \in Int /\ Later(t, m) = t
  BY DEF MeterOK, Later
<1>3. MeterOK(spec, n) /\ n.last_seen = t
  BY <1>1, <1>2, ChargeOK
<1>4. Later(t, n) = t
  BY <1>3 DEF Later
<1>5. CASE spec.kind = "fixed"
  <2>1. PICK w : w = Floor(t, spec.period)
    OBVIOUS
  <2>2. w \in Int
    BY <2>1, FloorFacts, SpecFacts
  <2>3. (IF n.window = w THEN n.used ELSE 0) = (IF m.window = w THEN m.used ELSE 0) + x
    BY <1>1, <1>2, <1>5, <2>1, <2>2, FixedGrows DEF MeterOK
  <2> QED BY <1>1, <1>2, <1>3, <1>4, <1>5, <2>1, <2>3, UsedIs
<1>6. CASE spec.kind = "rolling"
  <2>1. PICK b : b = RollingBucket(spec.period)
    OBVIOUS
  <2>2. b \in Nat \ {0} /\ RollingExpiry(spec.period) = spec.period + b /\ spec.period \in Nat
    BY <2>1, RollingFacts, SpecFacts
  <2>3. Floor(t, b) \in Int /\ t < Floor(t, b) + b
    BY <2>2, FloorFacts
  <2>4. Floor(t, b) + RollingExpiry(spec.period) > t
    BY <2>2, <2>3
  <2>5. BucketSpend(n, LiveBuckets(spec, n, t)) = BucketSpend(m, LiveBuckets(spec, m, t)) + x
    <3>1. t >= Later(t, m)
      BY <1>2
    <3>2. RollingOK(spec, m)
      BY <1>6 DEF MeterOK
    <3> QED BY <1>1, <1>2, <1>6, <2>1, <2>4, <3>1, <3>2, RollingGrows
  <2> QED BY <1>1, <1>2, <1>3, <1>4, <1>6, <2>5, UsedIs
<1>7. CASE spec.kind = "session"
  <2>1. SessionOK(spec, m) /\ m.used \in Nat /\ m.open \in Int \union {NoWindow}
    BY <1>7 DEF MeterOK, SessionOK
  <2>2. CASE x = 0
    <3>1. n.open = m.open /\ n.used = m.used
      BY <1>1, <1>7, <2>1, <2>2, SessionCharge
    <3>2. SessionOpen(spec, n, t) <=> SessionOpen(spec, m, t)
      BY <3>1 DEF SessionOpen
    <3> QED BY <1>1, <1>2, <1>3, <1>4, <1>7, <2>1, <2>2, <3>1, <3>2, UsedIs
  <2>3. CASE x > 0 /\ SessionOpen(spec, m, t)
    <3>1. n.open = m.open /\ n.used = m.used + x
      BY <1>1, <1>2, <1>7, <2>1, <2>3, SessionCharge
    <3>2. SessionOpen(spec, n, t)
      BY <2>3, <3>1 DEF SessionOpen
    <3> QED BY <1>1, <1>2, <1>3, <1>4, <1>7, <2>3, <3>1, <3>2, UsedIs
  <2>4. CASE x > 0 /\ ~SessionOpen(spec, m, t)
    <3>1. n.open = t /\ n.used = x
      BY <1>1, <1>2, <1>7, <2>1, <2>4, SessionCharge
    <3>2. SessionOpen(spec, n, t)
      BY <3>1, SpecFacts, NoWindowAssumption DEF SessionOpen
    <3> QED BY <1>1, <1>2, <1>3, <1>4, <1>7, <2>4, <3>1, <3>2, UsedIs
  <2> QED BY <2>2, <2>3, <2>4
<1>8. CASE spec.kind = "credit"
  <2>1. CreditOK(spec, m) /\ CreditOK(spec, n) /\ m.at \in Int /\ m.at <= m.last_seen
    BY <1>3, <1>8 DEF MeterOK, CreditOK
  <2>2. PICK b : b = CreditBalance(spec, m, t)
    OBVIOUS
  <2>3. PICK w : w = spec.period
    OBVIOUS
  <2>4. w \in Nat \ {0} /\ spec.limit \in Nat /\ spec.refill \in Nat
    BY <1>8, <2>3, SpecFacts
  <2>5. b \in Int /\ b <= spec.limit * w
    BY <1>2, <1>8, <2>1, <2>2, <2>3, Balance
  <2>6. CreditBalance(spec, n, t) = b - x * w
    <3>1. CASE x = 0
      <4>1. n.at = m.at /\ n.scaled = m.scaled
        BY <1>1, <1>8, <2>1, <3>1, CreditCharge
      <4>2. CreditBalance(spec, n, t) = b
        BY <2>2, <4>1 DEF CreditBalance
      <4> QED BY <2>4, <2>5, <3>1, <4>2
    <3>2. CASE x > 0
      <4>1. n.at = t /\ n.scaled = b - x * w
        BY <1>1, <1>2, <1>8, <2>1, <2>2, <2>3, <3>2, CreditCharge
      <4>2. PICK y : y = b - x * w
        OBVIOUS
      <4>3. PICK cap : cap = spec.limit * w
        OBVIOUS
      <4>4. x * w \in Nat /\ y \in Int /\ cap \in Int /\ y <= cap
        <5>1. x * w \in Nat /\ cap \in Int
          BY <2>4, <4>3
        <5> QED BY <2>5, <4>2, <4>3, <5>1
      <4>5. (t - t) * spec.refill = 0
        BY <2>4
      <4>6. CreditBalance(spec, n, t) = IF y + 0 <= cap THEN y + 0 ELSE cap
        BY <1>8, <2>1, <2>3, <4>1, <4>2, <4>3, <4>5, Balance
      <4> QED BY <4>2, <4>4, <4>6
    <3> QED BY <3>1, <3>2
  <2>7. CreditBalance(spec, n, t) \div w = (b \div w) - x
    <3>1. b \in Int /\ x \in Int /\ w \in Nat \ {0}
      BY <2>4, <2>5
    <3>2. (b - x * w) \div w = (b \div w) - x
      BY <3>1, DivMinus, Zenon
    <3> QED BY <2>6, <3>2, Zenon
  <2>8. b \div w \in Int
    BY <2>4, <2>5, DivBounds
  <2>9. Used(spec, n, t) = spec.limit - ((b \div w) - x)
    BY <1>3, <1>4, <1>8, <2>3, <2>7, UsedIs
  <2>10. Used(spec, m, t) = spec.limit - (b \div w)
    BY <1>2, <1>8, <2>2, <2>3, UsedIs
  <2>11. Used(spec, n, t) = Used(spec, m, t) + x
    BY <2>4, <2>8, <2>9, <2>10
  <2> QED BY <1>1, <2>11
<1> QED BY <1>5, <1>6, <1>7, <1>8, SpecFacts DEF Kinds

LEMMA BalanceLater ==
  ASSUME NEW spec \in MeterSpecs, spec.kind = "credit", NEW m, CreditOK(spec, m),
         NEW t \in Int, NEW u \in Int, m.at <= t, t <= u
  PROVE  CreditBalance(spec, m, t) <= CreditBalance(spec, m, u)
<1>1. m.at \in Int /\ m.scaled \in Int /\ spec.refill \in Nat
  BY SpecFacts DEF CreditOK
<1>2. PICK x : x = (t - m.at) * spec.refill
  OBVIOUS
<1>3. PICK y : y = (u - m.at) * spec.refill
  OBVIOUS
<1>4. x \in Int /\ y \in Int /\ x <= y
  <2>1. t - m.at \in Int /\ u - m.at \in Int /\ t - m.at <= u - m.at
    BY <1>1
  <2> QED BY <1>1, <1>2, <1>3, <2>1, TimesMono
<1>5. PICK cap : cap = spec.limit * spec.period
  OBVIOUS
<1>6. cap \in Int
  BY <1>5, SpecFacts
<1>7. CreditBalance(spec, m, t) = IF m.scaled + x <= cap THEN m.scaled + x ELSE cap
  BY <1>2, <1>5, Balance
<1>8. CreditBalance(spec, m, u) = IF m.scaled + y <= cap THEN m.scaled + y ELSE cap
  <2>1. m.at <= u
    BY <1>1
  <2> QED BY <1>3, <1>5, <2>1, Balance
<1> QED BY <1>1, <1>4, <1>6, <1>7, <1>8

\* What a meter reports only shrinks as time passes.
LEMMA UsedLater ==
  ASSUME NEW spec \in MeterSpecs, NEW m, MeterOK(spec, m), NEW t \in Int, NEW u \in Int,
         m.last_seen <= t, t <= u
  PROVE  Used(spec, m, u) <= Used(spec, m, t)
<1>1. m.last_seen \in Int /\ Later(t, m) = t /\ Later(u, m) = u
  BY DEF MeterOK, Later
<1>2. CASE spec.kind = "fixed"
  <2>1. PICK p : p = spec.period
    OBVIOUS
  <2>2. PICK x : x = Floor(t, p)
    OBVIOUS
  <2>3. PICK y : y = Floor(u, p)
    OBVIOUS
  <2>4. PICK z : z = Floor(m.last_seen, p)
    OBVIOUS
  <2>5. x \in Int /\ y \in Int /\ z \in Int /\ z <= x /\ x <= y
    BY <1>1, <2>1, <2>2, <2>3, <2>4, FloorFacts, SpecFacts
  <2>6. m.used \in Nat /\ (m.window = NoWindow \/ (m.window \in Int /\ m.window <= z))
    BY <1>2, <2>1, <2>4 DEF MeterOK, FixedOK
  <2>7. Used(spec, m, u) = IF m.window = y THEN m.used ELSE 0
    BY <1>1, <1>2, <2>1, <2>3, UsedIs
  <2>8. Used(spec, m, t) = IF m.window = x THEN m.used ELSE 0
    BY <1>1, <1>2, <2>1, <2>2, UsedIs
  <2> QED BY <2>5, <2>6, <2>7, <2>8, NoWindowAssumption
<1>3. CASE spec.kind = "rolling"
  <2>1. RollingOK(spec, m)
    BY <1>3 DEF MeterOK
  <2>2. PICK f : f = m.buckets
    OBVIOUS
  <2>3. PICK S : S = LiveBuckets(spec, m, t)
    OBVIOUS
  <2>4. PICK R : R = LiveBuckets(spec, m, u)
    OBVIOUS
  <2>5. IsFiniteSet(S) /\ \A x \in S : f[x] \in Nat
    BY <2>1, <2>2, <2>3, LiveFacts
  <2>6. R \in SUBSET S
    <3>1. RollingExpiry(spec.period) \in Int /\ DOMAIN m.buckets \subseteq Int
      BY <2>1, LiveFacts, RollingFacts, SpecFacts
    <3> QED BY <2>3, <2>4, <3>1 DEF LiveBuckets
  <2>7. Total(f, R) <= Total(f, S)
    BY <2>5, <2>6, TotalSplit
  <2> QED BY <1>1, <1>3, <2>2, <2>3, <2>4, <2>7, UsedIs DEF BucketSpend
<1>4. CASE spec.kind = "session"
  <2>1. m.used \in Nat /\ m.open \in Int \union {NoWindow}
    BY <1>4 DEF MeterOK, SessionOK
  <2>2. SessionOpen(spec, m, u) => SessionOpen(spec, m, t)
    BY <2>1, SpecFacts DEF SessionOpen
  <2> QED BY <1>1, <1>4, <2>1, <2>2, UsedIs
<1>5. CASE spec.kind = "credit"
  <2>1. CreditOK(spec, m) /\ m.at \in Int /\ m.at <= t /\ m.at <= u
    BY <1>1, <1>5 DEF MeterOK, CreditOK
  <2>2. PICK x : x = CreditBalance(spec, m, t)
    OBVIOUS
  <2>3. PICK y : y = CreditBalance(spec, m, u)
    OBVIOUS
  <2>4. x \in Int /\ y \in Int
    BY <1>5, <2>1, <2>2, <2>3, Balance
  <2>5. x <= y
    BY <1>5, <2>1, <2>2, <2>3, BalanceLater
  <2>6. x \div spec.period <= y \div spec.period
    BY <2>4, <2>5, DivMono, SpecFacts
  <2>7. x \div spec.period \in Int /\ y \div spec.period \in Int /\ spec.limit \in Int
    BY <2>4, DivBounds, SpecFacts
  <2>8. /\ Used(spec, m, t) = spec.limit - (x \div spec.period)
        /\ Used(spec, m, u) = spec.limit - (y \div spec.period)
    BY <1>1, <1>5, <2>2, <2>3, UsedIs
  <2> QED BY <2>6, <2>7, <2>8
<1> QED BY <1>2, <1>3, <1>4, <1>5, SpecFacts DEF Kinds

------------------------------------------------------------------------------
(* Sequences of charges, and the meter they leave behind. *)

Replays(r, spec, since, q) ==
  r = [n \in 0 .. Len(q) |-> IF n = 0 THEN NewMeter(spec, since)
                             ELSE Charge(spec, r[n - 1], q[n].at, q[n].tokens)]

LEMMA ReplayIs ==
  ASSUME NEW spec, NEW since, NEW q
  PROVE  Replay(spec, since, q) = (CHOOSE r : Replays(r, spec, since, q))[Len(q)]
BY DEF Replay, Replays

\* Charging a sequence and one more is charging the one after the sequence.
LEMMA ReplaysStep ==
  ASSUME NEW spec, NEW since, NEW S, NEW q \in Seq(S), NEW e \in S,
         NEW r, Replays(r, spec, since, q)
  PROVE  \E s : /\ Replays(s, spec, since, Append(q, e))
                /\ s[Len(q) + 1] = Charge(spec, r[Len(q)], e.at, e.tokens)
<1> DEFINE k == Len(q)
           p == Append(q, e)
<1>1. k \in Nat /\ Len(p) = k + 1 /\ p[k + 1] = e /\ \A n \in 1 .. k : p[n] = q[n]
  OBVIOUS
<1> HIDE DEF p
<1>2. PICK z : z = Charge(spec, r[k], e.at, e.tokens)
  OBVIOUS
<1> DEFINE s == [n \in 0 .. (k + 1) |-> IF n = k + 1 THEN z ELSE r[n]]
<1>3. ASSUME NEW n \in 0 .. (k + 1)
      PROVE  s[n] = IF n = 0 THEN NewMeter(spec, since)
                    ELSE Charge(spec, s[n - 1], p[n].at, p[n].tokens)
  <2>1. CASE n = 0
    <3>1. 0 \in 0 .. k /\ 0 \in 0 .. (k + 1) /\ 0 # k + 1
      BY <1>1
    <3>2. r[0] = NewMeter(spec, since)
      BY <3>1 DEF Replays
    <3> QED BY <2>1, <3>1, <3>2
  <2>2. CASE n \in 1 .. k
    <3>1. n \in 0 .. k /\ n # 0 /\ n - 1 \in 0 .. (k + 1) /\ n # k + 1 /\ n - 1 # k + 1
      BY <1>1, <2>2
    <3>2. r[n] = Charge(spec, r[n - 1], q[n].at, q[n].tokens)
      BY <3>1 DEF Replays
    <3>3. s[n] = r[n] /\ s[n - 1] = r[n - 1]
      BY <3>1
    <3> HIDE DEF s
    <3> QED BY <1>1, <2>2, <3>1, <3>2, <3>3
  <2>3. CASE n = k + 1
    <3>1. n # 0 /\ n - 1 = k /\ k \in 0 .. (k + 1) /\ k # k + 1
      BY <1>1, <2>3
    <3>2. s[n] = z /\ s[n - 1] = r[k]
      BY <2>3, <3>1
    <3> HIDE DEF s
    <3> QED BY <1>1, <1>2, <2>3, <3>1, <3>2
  <2> QED BY <1>1, <2>1, <2>2, <2>3
<1>4. Replays(s, spec, since, p)
  <2>1. s = [n \in 0 .. (k + 1) |-> IF n = 0 THEN NewMeter(spec, since)
                                    ELSE Charge(spec, s[n - 1], p[n].at, p[n].tokens)]
    BY <1>3
  <2> HIDE DEF s
  <2> QED BY <1>1, <2>1 DEF Replays
<1>5. s[k + 1] = z
  BY <1>1
<1> HIDE DEF s
<1> QED BY <1>2, <1>4, <1>5 DEF p

LEMMA ReplaysAgree ==
  ASSUME NEW spec, NEW since, NEW q, Len(q) \in Nat,
         NEW r, Replays(r, spec, since, q), NEW s, Replays(s, spec, since, q)
  PROVE  r[Len(q)] = s[Len(q)]
<1> DEFINE k == Len(q)
           N == {n \in Nat : n <= k => r[n] = s[n]}
<1>1. 0 \in N
  <2>1. 0 \in 0 .. k
    OBVIOUS
  <2>2. r[0] = NewMeter(spec, since) /\ s[0] = NewMeter(spec, since)
    BY <2>1 DEF Replays
  <2> QED BY <2>2
<1>2. ASSUME NEW n \in Nat, n \in N
      PROVE  n + 1 \in N
  <2>1. ASSUME n + 1 <= k
        PROVE  r[n + 1] = s[n + 1]
    <3>1. n + 1 \in 0 .. k /\ n + 1 # 0 /\ (n + 1) - 1 = n /\ n <= k
      BY <2>1
    <3>2. r[n + 1] = Charge(spec, r[n], q[n + 1].at, q[n + 1].tokens)
      BY <3>1 DEF Replays
    <3>3. s[n + 1] = Charge(spec, s[n], q[n + 1].at, q[n + 1].tokens)
      BY <3>1 DEF Replays
    <3>4. r[n] = s[n]
      BY <1>2, <3>1
    <3> QED BY <3>2, <3>3, <3>4
  <2> QED BY <2>1
<1> HIDE DEF N
<1>3. k \in N
  BY <1>1, <1>2, SetInduction
<1> QED BY <1>3 DEF N

LEMMA ReplaysExist ==
  ASSUME NEW spec, NEW since, NEW S
  PROVE  \A q \in Seq(S) : \E r : Replays(r, spec, since, q)
<1> DEFINE K == {q \in Seq(S) : \E r : Replays(r, spec, since, q)}
<1>1. <<>> \in K
  <2> DEFINE r == [n \in 0 .. 0 |-> NewMeter(spec, since)]
  <2>1. Len(<<>>) = 0 /\ \A n \in 0 .. 0 : n = 0
    OBVIOUS
  <2>2. r = [n \in 0 .. Len(<<>>) |->
               IF n = 0 THEN NewMeter(spec, since)
               ELSE Charge(spec, r[n - 1], (<<>>)[n].at, (<<>>)[n].tokens)]
    BY <2>1
  <2>3. Replays(r, spec, since, <<>>)
    BY <2>2 DEF Replays
  <2> HIDE DEF r
  <2>4. <<>> \in Seq(S)
    OBVIOUS
  <2> QED BY <2>3, <2>4
<1>2. ASSUME NEW q \in Seq(S), NEW e \in S, q \in K
      PROVE  Append(q, e) \in K
  <2>1. PICK r : Replays(r, spec, since, q)
    BY <1>2
  <2>2. \E s : Replays(s, spec, since, Append(q, e))
    BY <2>1, ReplaysStep
  <2>3. Append(q, e) \in Seq(S)
    OBVIOUS
  <2> QED BY <2>2, <2>3
<1> HIDE DEF K
<1>3. \A q \in Seq(S) : q \in K
  BY <1>1, <1>2, SequenceInduction
<1> QED BY <1>3 DEF K

LEMMA ReplayAppend ==
  ASSUME NEW spec, NEW since, NEW S, NEW q \in Seq(S), NEW e \in S
  PROVE  Replay(spec, since, Append(q, e))
           = Charge(spec, Replay(spec, since, q), e.at, e.tokens)
<1>1. PICK p : p = Append(q, e)
  OBVIOUS
<1>2. p \in Seq(S) /\ Len(p) = Len(q) + 1 /\ Len(p) \in Nat
  BY <1>1
<1>3. PICK r : r = CHOOSE s : Replays(s, spec, since, q)
  OBVIOUS
<1>4. Replays(r, spec, since, q) /\ Replay(spec, since, q) = r[Len(q)]
  BY <1>3, ReplaysExist, ReplayIs
<1>5. PICK t : t = CHOOSE s : Replays(s, spec, since, p)
  OBVIOUS
<1>6. Replays(t, spec, since, p) /\ Replay(spec, since, p) = t[Len(p)]
  BY <1>2, <1>5, ReplaysExist, ReplayIs
<1>7. PICK s : /\ Replays(s, spec, since, p)
               /\ s[Len(p)] = Charge(spec, r[Len(q)], e.at, e.tokens)
  BY <1>1, <1>2, <1>4, ReplaysStep
<1>8. t[Len(p)] = s[Len(p)]
  BY <1>2, <1>6, <1>7, ReplaysAgree
<1> QED BY <1>1, <1>4, <1>6, <1>7, <1>8

LEMMA ReplayNothing ==
  ASSUME NEW spec, NEW since
  PROVE  Replay(spec, since, <<>>) = NewMeter(spec, since)
<1>1. PICK q : q = <<>>
  OBVIOUS
<1>2. q \in Seq({}) /\ Len(q) = 0
  BY <1>1
<1>3. PICK r : r = CHOOSE s : Replays(s, spec, since, q)
  OBVIOUS
<1>4. Replays(r, spec, since, q) /\ Replay(spec, since, q) = r[Len(q)]
  BY <1>2, <1>3, ReplaysExist, ReplayIs
<1>5. r[0] = NewMeter(spec, since)
  BY <1>2, <1>4 DEF Replays
<1> QED BY <1>1, <1>2, <1>4, <1>5

\* Costly, in the same way.
Keeps(r, q) ==
  r = [n \in 0 .. Len(q) |-> IF n = 0 THEN <<>>
                             ELSE IF q[n].tokens > 0 THEN Append(r[n - 1], q[n])
                             ELSE r[n - 1]]

LEMMA CostlyIs ==
  ASSUME NEW q
  PROVE  Costly(q) = (CHOOSE r : Keeps(r, q))[Len(q)]
BY DEF Costly, Keeps

LEMMA KeepsStep ==
  ASSUME NEW S, NEW q \in Seq(S), NEW e \in S, NEW r, Keeps(r, q)
  PROVE  \E s : /\ Keeps(s, Append(q, e))
                /\ s[Len(q) + 1] = IF e.tokens > 0 THEN Append(r[Len(q)], e) ELSE r[Len(q)]
<1> DEFINE k == Len(q)
           p == Append(q, e)
<1>1. k \in Nat /\ Len(p) = k + 1 /\ p[k + 1] = e /\ \A n \in 1 .. k : p[n] = q[n]
  OBVIOUS
<1> HIDE DEF p
<1>2. PICK z : z = IF e.tokens > 0 THEN Append(r[k], e) ELSE r[k]
  OBVIOUS
<1> DEFINE s == [n \in 0 .. (k + 1) |-> IF n = k + 1 THEN z ELSE r[n]]
<1>3. ASSUME NEW n \in 0 .. (k + 1)
      PROVE  s[n] = IF n = 0 THEN <<>>
                    ELSE IF p[n].tokens > 0 THEN Append(s[n - 1], p[n])
                    ELSE s[n - 1]
  <2>1. CASE n = 0
    <3>1. 0 \in 0 .. k /\ 0 \in 0 .. (k + 1) /\ 0 # k + 1
      BY <1>1
    <3>2. r[0] = <<>>
      BY <3>1 DEF Keeps
    <3> QED BY <2>1, <3>1, <3>2
  <2>2. CASE n \in 1 .. k
    <3>1. n \in 0 .. k /\ n # 0 /\ n - 1 \in 0 .. (k + 1) /\ n # k + 1 /\ n - 1 # k + 1
      BY <1>1, <2>2
    <3>2. r[n] = IF q[n].tokens > 0 THEN Append(r[n - 1], q[n]) ELSE r[n - 1]
      BY <3>1 DEF Keeps
    <3>3. s[n] = r[n] /\ s[n - 1] = r[n - 1]
      BY <3>1
    <3> HIDE DEF s
    <3> QED BY <1>1, <2>2, <3>1, <3>2, <3>3
  <2>3. CASE n = k + 1
    <3>1. n # 0 /\ n - 1 = k /\ k \in 0 .. (k + 1) /\ k # k + 1
      BY <1>1, <2>3
    <3>2. s[n] = z /\ s[n - 1] = r[k]
      BY <2>3, <3>1
    <3> HIDE DEF s
    <3> QED BY <1>1, <1>2, <2>3, <3>1, <3>2
  <2> QED BY <1>1, <2>1, <2>2, <2>3
<1>4. Keeps(s, p)
  <2>1. s = [n \in 0 .. (k + 1) |-> IF n = 0 THEN <<>>
                                    ELSE IF p[n].tokens > 0 THEN Append(s[n - 1], p[n])
                                    ELSE s[n - 1]]
    BY <1>3
  <2> HIDE DEF s
  <2> QED BY <1>1, <2>1 DEF Keeps
<1>5. s[k + 1] = z
  BY <1>1
<1> HIDE DEF s
<1> QED BY <1>2, <1>4, <1>5 DEF p

LEMMA KeepsAgree ==
  ASSUME NEW q, Len(q) \in Nat, NEW r, Keeps(r, q), NEW s, Keeps(s, q)
  PROVE  r[Len(q)] = s[Len(q)]
<1> DEFINE k == Len(q)
           N == {n \in Nat : n <= k => r[n] = s[n]}
<1>1. 0 \in N
  <2>1. 0 \in 0 .. k
    OBVIOUS
  <2>2. r[0] = <<>> /\ s[0] = <<>>
    BY <2>1 DEF Keeps
  <2> QED BY <2>2
<1>2. ASSUME NEW n \in Nat, n \in N
      PROVE  n + 1 \in N
  <2>1. ASSUME n + 1 <= k
        PROVE  r[n + 1] = s[n + 1]
    <3>1. n + 1 \in 0 .. k /\ n + 1 # 0 /\ (n + 1) - 1 = n /\ n <= k
      BY <2>1
    <3>2. r[n + 1] = IF q[n + 1].tokens > 0 THEN Append(r[n], q[n + 1]) ELSE r[n]
      BY <3>1 DEF Keeps
    <3>3. s[n + 1] = IF q[n + 1].tokens > 0 THEN Append(s[n], q[n + 1]) ELSE s[n]
      BY <3>1 DEF Keeps
    <3>4. r[n] = s[n]
      BY <1>2, <3>1
    <3> QED BY <3>2, <3>3, <3>4
  <2> QED BY <2>1
<1> HIDE DEF N
<1>3. k \in N
  BY <1>1, <1>2, SetInduction
<1> QED BY <1>3 DEF N

LEMMA KeepsNothing == \E r : Keeps(r, <<>>)
<1> DEFINE r == [n \in 0 .. 0 |-> <<>>]
<1>1. Len(<<>>) = 0 /\ \A n \in 0 .. 0 : n = 0
  OBVIOUS
<1>2. r = [n \in 0 .. Len(<<>>) |-> IF n = 0 THEN <<>>
             ELSE IF (<<>>)[n].tokens > 0 THEN Append(r[n - 1], (<<>>)[n])
             ELSE r[n - 1]]
  BY <1>1
<1>3. Keeps(r, <<>>)
  BY <1>2 DEF Keeps
<1> HIDE DEF r
<1> QED BY <1>3

LEMMA KeepsExist ==
  ASSUME NEW S
  PROVE  \A q \in Seq(S) : \E r : Keeps(r, q)
<1> DEFINE K == {q \in Seq(S) : \E r : Keeps(r, q)}
<1>1. <<>> \in K
  <2>1. <<>> \in Seq(S)
    OBVIOUS
  <2> QED BY <2>1, KeepsNothing
<1>2. ASSUME NEW q \in Seq(S), NEW e \in S, q \in K
      PROVE  Append(q, e) \in K
  <2>1. PICK r : Keeps(r, q)
    BY <1>2
  <2>2. \E s : Keeps(s, Append(q, e))
    BY <2>1, KeepsStep
  <2>3. Append(q, e) \in Seq(S)
    OBVIOUS
  <2> QED BY <2>2, <2>3
<1> HIDE DEF K
<1>3. \A q \in Seq(S) : q \in K
  BY <1>1, <1>2, SequenceInduction
<1> QED BY <1>3 DEF K

LEMMA CostlyAppend ==
  ASSUME NEW S, NEW q \in Seq(S), NEW e \in S
  PROVE  Costly(Append(q, e)) = IF e.tokens > 0 THEN Append(Costly(q), e) ELSE Costly(q)
<1>1. PICK p : p = Append(q, e)
  OBVIOUS
<1>2. p \in Seq(S) /\ Len(p) = Len(q) + 1 /\ Len(p) \in Nat
  BY <1>1
<1>3. PICK r : r = CHOOSE s : Keeps(s, q)
  OBVIOUS
<1>4. Keeps(r, q) /\ Costly(q) = r[Len(q)]
  BY <1>3, KeepsExist, CostlyIs
<1>5. PICK t : t = CHOOSE s : Keeps(s, p)
  OBVIOUS
<1>6. Keeps(t, p) /\ Costly(p) = t[Len(p)]
  BY <1>2, <1>5, KeepsExist, CostlyIs
<1>7. PICK s : /\ Keeps(s, p)
               /\ s[Len(p)] = IF e.tokens > 0 THEN Append(r[Len(q)], e) ELSE r[Len(q)]
  BY <1>1, <1>2, <1>4, KeepsStep
<1>8. t[Len(p)] = s[Len(p)]
  BY <1>2, <1>6, <1>7, KeepsAgree
<1> QED BY <1>1, <1>4, <1>6, <1>7, <1>8

LEMMA CostlyNothing == Costly(<<>>) = <<>>
<1>1. PICK q : q = <<>>
  OBVIOUS
<1>2. q \in Seq({}) /\ Len(q) = 0
  BY <1>1
<1>3. PICK r : r = CHOOSE s : Keeps(s, q)
  OBVIOUS
<1>4. Keeps(r, q) /\ Costly(q) = r[Len(q)]
  BY <1>2, <1>3, KeepsExist, CostlyIs
<1>5. r[0] = <<>>
  BY <1>2, <1>4 DEF Keeps
<1> QED BY <1>1, <1>2, <1>4, <1>5

LEMMA CostlyType ==
  ASSUME NEW S
  PROVE  \A q \in Seq(S) : Costly(q) \in Seq(S)
<1> DEFINE K == {q \in Seq(S) : Costly(q) \in Seq(S)}
<1>1. <<>> \in K
  <2>1. <<>> \in Seq(S)
    OBVIOUS
  <2> QED BY <2>1, CostlyNothing
<1>2. ASSUME NEW q \in Seq(S), NEW e \in S, q \in K
      PROVE  Append(q, e) \in K
  <2>1. PICK p : p = Append(q, e)
    OBVIOUS
  <2>2. PICK r : r = Costly(q)
    OBVIOUS
  <2>3. p \in Seq(S) /\ r \in Seq(S) /\ Append(r, e) \in Seq(S)
    BY <1>2, <2>1, <2>2
  <2>4. Costly(p) = IF e.tokens > 0 THEN Append(r, e) ELSE r
    BY <2>1, <2>2, CostlyAppend
  <2>5. p \in K
    BY <2>3, <2>4
  <2> QED BY <2>1, <2>5
<1> HIDE DEF K
<1>3. \A q \in Seq(S) : q \in K
  BY <1>1, <1>2, SequenceInduction
<1> QED BY <1>3 DEF K

------------------------------------------------------------------------------
(* Type correctness. *)

LEMMA TypeInit == Init => TypeOK
<1> SUFFICES ASSUME Init PROVE TypeOK
  OBVIOUS
<1>1. Idle \in [phase: Phases, input: Nat, total: Nat, covered: BOOLEAN]
  BY DEF Idle, Phases
<1>2. call \in [Calls -> [phase: Phases, input: Nat, total: Nat, covered: BOOLEAN]]
  BY <1>1 DEF Init
<1> QED
  BY <1>2, ClockAssumption DEF Init, TypeOK

\* Type correctness: in particular the reserved counter never goes negative.
THEOREM TypeCorrect == Spec => []TypeOK
<1>1. Init => TypeOK
  BY TypeInit
<1>2. TypeOK /\ [Next]_vars => TypeOK'
  <2> SUFFICES ASSUME TypeOK, [Next]_vars PROVE TypeOK'
    OBVIOUS
  <2>1. ASSUME NEW c \in Calls, NEW e \in Estimates, NEW covered \in BOOLEAN,
               Admit(c, e, covered)
        PROVE  TypeOK'
    <3> DEFINE total == e.input + e.output_reserve
    <3>1. e.input \in Nat /\ total \in Nat
      BY EstimatesAssumption
    <3> QED
      BY <2>1, <3>1 DEF TypeOK, Admit, Phases
  <2>2. ASSUME NEW c \in Calls, NEW o \in Outcomes, NEW u \in Usages, NEW t \in Texts,
               Finish(c, o, u, t)
        PROVE  TypeOK'
    <3>1. call[c].total \in Nat
      BY DEF TypeOK
    <3>2. Max({reserved - call[c].total, 0}) \in Nat
      BY <3>1, MaxWithZero DEF TypeOK
    <3> QED
      BY <2>2, <3>2 DEF TypeOK, Finish, SettleBudget, Phases, Idle
  <2>3. CASE \E rows \in Histories : Restore(rows)
    BY <2>3 DEF TypeOK, Restore
  <2>4. CASE AbandonRestore
    BY <2>4 DEF TypeOK, AbandonRestore
  <2>5. CASE Tick
    BY <2>5 DEF TypeOK, Tick
  <2>6. CASE SetClockBack
    BY <2>6, ClockAssumption DEF TypeOK, SetClockBack
  <2>7. CASE UNCHANGED vars
    BY <2>7 DEF TypeOK, vars
  <2> QED
    BY <2>1, <2>2, <2>3, <2>4, <2>5, <2>6, <2>7 DEF Next
<1> QED
  BY <1>1, <1>2, PTL DEF Spec

------------------------------------------------------------------------------
(* Reservations: one coin per token held, which the finite-set theorems count. *)

\* A call that holds n tokens contributes n coins.
LEMMA CoinsOfOne ==
  ASSUME NEW c, NEW n \in Nat
  PROVE  /\ IsFiniteSet({c} \X (1 .. n))
         /\ Cardinality({c} \X (1 .. n)) = n
<1>1. IsFiniteSet({c}) /\ Cardinality({c}) = 1
  BY FS_Singleton
<1>2. IsFiniteSet(1 .. n) /\ Cardinality(1 .. n) = n
  BY FS_Interval
<1> DEFINE S == {c}
           T == 1 .. n
<1>3. IsFiniteSet(S) /\ Cardinality(S) = 1 /\ IsFiniteSet(T) /\ Cardinality(T) = n
  BY <1>1, <1>2
<1> HIDE DEF S, T
<1>4. IsFiniteSet(S \X T) /\ Cardinality(S \X T) = Cardinality(S) * Cardinality(T)
  BY <1>3, FS_Product
<1>5. IsFiniteSet(S \X T) /\ Cardinality(S \X T) = 1 * n
  BY <1>3, <1>4
<1>6. 1 * n = n
  OBVIOUS
<1> QED
  BY <1>5, <1>6 DEF S, T

\* A coin belongs to one call in flight.
LEMMA CoinMembership ==
  \A p : p \in HeldCoins <=>
           \E d \in Calls : Holds(d) /\ p \in {d} \X (1 .. call[d].total)
BY Zenon DEF HeldCoins

\* The inductive strengthening: without finiteness the coins cannot be counted.
ReservedInv == TypeOK /\ IsFiniteSet(HeldCoins) /\ ReservedExact

LEMMA ReservedInit == Init => ReservedInv
<1> SUFFICES ASSUME Init PROVE ReservedInv
  OBVIOUS
<1>1. TypeOK
  BY TypeInit
<1>2. HeldCoins = {}
  BY DEF HeldCoins, Holds, Init, Idle
<1> QED
  BY <1>1, <1>2, FS_EmptySet DEF ReservedInv, ReservedExact, Init

\* A step that touches neither the admissions nor the counter.
LEMMA ReservedFrame ==
  ReservedInv /\ TypeOK' /\ UNCHANGED <<call, reserved>> => ReservedInv'
BY DEF ReservedInv, ReservedExact, HeldCoins, Holds

\* How the coins move when only call c changes: c's old coins go, its new
\* ones come, and every other call keeps its own.
LEMMA CoinsMove ==
  ASSUME NEW c \in Calls, \A d \in Calls \ {c} : call'[d] = call[d]
  PROVE  \A p : p \in HeldCoins' <=>
           \/ Holds(c)' /\ p \in {c} \X (1 .. call'[c].total)
           \/ \E d \in Calls \ {c} : Holds(d) /\ p \in {d} \X (1 .. call[d].total)
<1>1. \A p : p \in HeldCoins' <=>
        \E d \in Calls : Holds(d)' /\ p \in {d} \X (1 .. call'[d].total)
  BY Zenon DEF HeldCoins
<1>2. \A d \in Calls \ {c} : Holds(d)' <=> Holds(d)
  BY DEF Holds
<1> QED
  BY <1>1, <1>2, Zenon

LEMMA CoinsDisjoint ==
  ASSUME NEW c \in Calls, NEW n, NEW p, p \in {c} \X n, NEW d \in Calls \ {c}, NEW k
  PROVE  p \notin {d} \X k
OBVIOUS

LEMMA ReservedAdmit ==
  ASSUME ReservedInv, TypeOK', NEW c \in Calls, NEW e \in Estimates,
         NEW covered \in BOOLEAN, Admit(c, e, covered)
  PROVE  ReservedInv'
<1> DEFINE total == e.input + e.output_reserve
           allowed == ~covered \/ Explain(clock, reserved, total) = Allow
           coins == {c} \X (1 .. total)
<1>1. total \in Nat
  BY EstimatesAssumption
<1>2. ~Holds(c) /\ \A d \in Calls \ {c} : call'[d] = call[d]
  BY DEF Admit, Holds, ReservedInv, TypeOK
<1>3. CASE covered /\ allowed
  <2>1. Holds(c)' /\ call'[c].total = total
    BY <1>3 DEF Admit, Holds, ReservedInv, TypeOK
  <2> HIDE DEF total
  <2>2. \A p : p \in HeldCoins' <=> p \in HeldCoins \/ p \in coins
    BY <1>2, <2>1, CoinsMove, CoinMembership, Zenon
  <2>3. HeldCoins' = HeldCoins \union coins
    BY <2>2, Zenon
  <2>4. HeldCoins \cap coins = {}
    <3>1. ASSUME NEW p \in HeldCoins PROVE p \notin coins
      <4>1. PICK d \in Calls : Holds(d) /\ p \in {d} \X (1 .. call[d].total)
        BY <3>1, CoinMembership
      <4>2. d \in Calls \ {c}
        BY <1>2, <4>1
      <4> QED
        BY <4>1, <4>2
    <3> QED
      BY <3>1, Zenon
  <2>5. reserved' = reserved + total
    BY <1>3 DEF Admit, total
  <2>6. IsFiniteSet(coins) /\ Cardinality(coins) = total
    BY <1>1, CoinsOfOne
  <2>7. IsFiniteSet(HeldCoins) /\ Cardinality(HeldCoins) \in Nat
    BY FS_CardinalityType DEF ReservedInv
  <2>8. /\ IsFiniteSet(HeldCoins')
        /\ Cardinality(HeldCoins') = Cardinality(HeldCoins) + Cardinality(coins) - 0
    <3>1. /\ IsFiniteSet(HeldCoins \union coins)
          /\ Cardinality(HeldCoins \union coins) =
               Cardinality(HeldCoins) + Cardinality(coins) - Cardinality(HeldCoins \cap coins)
      BY <2>6, <2>7, FS_Union
    <3>2. Cardinality(HeldCoins \cap coins) = 0
      BY <2>4, FS_EmptySet
    <3> HIDE DEF coins
    <3> QED
      BY <2>3, <3>1, <3>2
  <2>9. reserved' = Cardinality(HeldCoins')
    BY <1>1, <2>5, <2>6, <2>7, <2>8 DEF ReservedInv, ReservedExact
  <2> QED
    BY <2>8, <2>9 DEF ReservedInv, ReservedExact
<1>4. CASE ~(covered /\ allowed)
  <2>1. ~Holds(c)' /\ reserved' = reserved
    BY <1>4 DEF Admit, Holds, ReservedInv, TypeOK
  <2>2. \A p : p \in HeldCoins' <=> p \in HeldCoins
    BY <1>2, <2>1, CoinsMove, CoinMembership, Zenon
  <2>3. HeldCoins' = HeldCoins
    BY <2>2, Zenon
  <2> QED
    BY <2>1, <2>3 DEF ReservedInv, ReservedExact
<1> QED
  BY <1>3, <1>4

LEMMA ReservedFinish ==
  ASSUME ReservedInv, TypeOK', NEW c \in Calls, NEW o \in Outcomes, NEW u \in Usages,
         NEW t \in Texts, Finish(c, o, u, t)
  PROVE  ReservedInv'
<1> DEFINE total == call[c].total
           coins == {c} \X (1 .. total)
<1>1. total \in Nat
  BY DEF ReservedInv, TypeOK
<1>2. ~Holds(c)' /\ \A d \in Calls \ {c} : call'[d] = call[d]
  BY DEF Finish, Holds, ReservedInv, TypeOK, Idle
<1>3. CASE call[c].covered
  <2>1. Holds(c)
    BY <1>3 DEF Finish, Holds
  <2>2. \A p : p \in HeldCoins' <=> p \in HeldCoins /\ p \notin coins
    <3>1. \A p : p \in HeldCoins' <=>
            \E d \in Calls \ {c} : Holds(d) /\ p \in {d} \X (1 .. call[d].total)
      BY <1>2, CoinsMove, Zenon
    <3>2. \A p : p \in HeldCoins <=>
            \/ p \in coins
            \/ \E d \in Calls \ {c} : Holds(d) /\ p \in {d} \X (1 .. call[d].total)
      BY <2>1, CoinMembership, Zenon
    <3>3. ASSUME NEW p \in coins, NEW d \in Calls \ {c}
          PROVE  p \notin {d} \X (1 .. call[d].total)
      BY <3>3, CoinsDisjoint
    <3> HIDE DEF coins
    <3> QED
      BY <3>1, <3>2, <3>3, Zenon
  <2>3. HeldCoins' = HeldCoins \ coins
    BY <2>2, Zenon
  <2>4. HeldCoins \cap coins = coins
    <3>1. \A p : p \in coins => p \in HeldCoins
      BY <2>1, CoinMembership, Zenon
    <3> QED
      BY <3>1, Zenon
  <2>5. IsFiniteSet(coins) /\ Cardinality(coins) = total
    BY <1>1, CoinsOfOne
  <2>6. IsFiniteSet(HeldCoins) /\ Cardinality(HeldCoins) \in Nat
    BY FS_CardinalityType DEF ReservedInv
  <2>7. /\ IsFiniteSet(HeldCoins')
        /\ Cardinality(HeldCoins') = Cardinality(HeldCoins) - Cardinality(coins)
    <3>1. /\ IsFiniteSet(HeldCoins \ coins)
          /\ Cardinality(HeldCoins \ coins) =
               Cardinality(HeldCoins) - Cardinality(HeldCoins \cap coins)
      BY <2>6, FS_Difference
    <3> HIDE DEF coins
    <3> QED
      BY <2>3, <2>4, <3>1
  <2>8. Cardinality(coins) <= Cardinality(HeldCoins)
    BY <2>7, <2>6, <2>5, <1>1, FS_CardinalityType
  <2>9. reserved' = Max({reserved - total, 0})
    BY <1>3 DEF Finish, SettleBudget
  <2>10. reserved - total \in Int /\ reserved - total >= 0
    BY <1>1, <2>5, <2>6, <2>8 DEF ReservedInv, ReservedExact
  <2>11. Max({reserved - total, 0}) = reserved - total
    BY <2>10, MaxWithZero
  <2>12. reserved' = Cardinality(HeldCoins')
    BY <2>5, <2>7, <2>9, <2>11 DEF ReservedInv, ReservedExact
  <2> QED
    BY <2>7, <2>12 DEF ReservedInv, ReservedExact
<1>4. CASE ~call[c].covered
  <2>1. ~Holds(c) /\ reserved' = reserved
    BY <1>4 DEF Finish, Holds
  <2>2. \A p : p \in HeldCoins' <=> p \in HeldCoins
    BY <1>2, <2>1, CoinsMove, CoinMembership, Zenon
  <2>3. HeldCoins' = HeldCoins
    BY <2>2, Zenon
  <2> QED
    BY <2>1, <2>3 DEF ReservedInv, ReservedExact
<1> QED
  BY <1>3, <1>4

LEMMA ReservedNext == ReservedInv /\ TypeOK' /\ [Next]_vars => ReservedInv'
<1> SUFFICES ASSUME ReservedInv, TypeOK', [Next]_vars PROVE ReservedInv'
  OBVIOUS
<1>1. CASE \E c \in Calls, e \in Estimates, covered \in BOOLEAN : Admit(c, e, covered)
  BY <1>1, ReservedAdmit
<1>2. CASE \E c \in Calls, o \in Outcomes, u \in Usages, t \in Texts : Finish(c, o, u, t)
  BY <1>2, ReservedFinish
<1>3. CASE \E rows \in Histories : Restore(rows)
  BY <1>3, ReservedFrame DEF Restore
<1>4. CASE AbandonRestore
  BY <1>4, ReservedFrame DEF AbandonRestore
<1>5. CASE Tick \/ SetClockBack
  BY <1>5, ReservedFrame DEF Tick, SetClockBack
<1>6. CASE UNCHANGED vars
  BY <1>6, ReservedFrame DEF vars
<1> QED
  BY <1>1, <1>2, <1>3, <1>4, <1>5, <1>6 DEF Next

LEMMA ReservedHolds == Spec => []ReservedInv
BY ReservedInit, ReservedNext, TypeCorrect, PTL DEF Spec

\* No reservation leaks and none is given back twice, whatever the calls do
\* and however they end: Budget.reserved is the sum over the calls in flight.
THEOREM ReservationsConserved == Spec => []ReservedExact
<1>1. ReservedInv => ReservedExact
  BY DEF ReservedInv
<1> QED
  BY <1>1, ReservedHolds, PTL

\* What one call holds is part of what is reserved.
LEMMA HeldIsReserved ==
  ASSUME ReservedInv, NEW c \in Calls, Holds(c)
  PROVE  call[c].total \in Nat /\ call[c].total <= reserved
<1>1. call[c].total \in Nat
  BY DEF ReservedInv, TypeOK
<1> DEFINE coins == {c} \X (1 .. call[c].total)
<1>2. IsFiniteSet(coins) /\ Cardinality(coins) = call[c].total
  BY <1>1, CoinsOfOne
<1>3. coins \subseteq HeldCoins
  <2>1. \A p : p \in coins => p \in HeldCoins
    BY CoinMembership, Zenon
  <2> QED BY <2>1, Zenon
<1> HIDE DEF coins
<1>4. Cardinality(coins) <= Cardinality(HeldCoins)
  BY <1>3, FS_Subset DEF ReservedInv
<1> QED BY <1>1, <1>2, <1>4 DEF ReservedInv, ReservedExact

------------------------------------------------------------------------------
(* A restore is exact. *)

Charges == [at: Int, tokens: Nat]

Rows == [at: Int, tokens: Nat, covered: BOOLEAN]

Counted == Charges \union Rows

Base == IF restore = "restored" THEN Since ELSE Boot

\* The inductive strengthening: as long as a restore may come, the live tail
\* is what this process was charged, without the charges of nothing.
ExactInv ==
  /\ TypeOK
  /\ live \in Seq(Charges) /\ spent \in Seq(Charges) /\ replayed \in Seq(Rows)
  /\ overrun \in Nat
  /\ restore # "restored" => replayed = <<>>
  /\ restore = "pending" => live = Costly(spent)
  /\ meters = Rebuilt(Base, replayed \o spent)

LEMMA RebuiltAppend ==
  ASSUME NEW since, NEW q \in Seq(Counted), NEW e \in Counted
  PROVE  Rebuilt(since, Append(q, e)) = ChargeAll(Rebuilt(since, q), e)
<1>1. \A i \in DOMAIN specs : Replay(specs[i], since, Append(q, e))
        = Charge(specs[i], Replay(specs[i], since, q), e.at, e.tokens)
  BY ReplayAppend
<1>2. DOMAIN Rebuilt(since, q) = DOMAIN specs
  BY DEF Rebuilt
<1> QED BY <1>1, <1>2 DEF Rebuilt, ChargeAll

LEMMA CountedAppend ==
  ASSUME NEW p \in Seq(Rows), NEW q \in Seq(Charges), NEW e \in Charges
  PROVE  /\ p \o q \in Seq(Counted) /\ e \in Counted
         /\ p \o Append(q, e) = Append(p \o q, e)
<1>1. p \in Seq(Counted) /\ q \in Seq(Counted) /\ e \in Counted
  BY DEF Counted
<1> HIDE DEF Counted
<1>2. p \o q \in Seq(Counted)
  BY <1>1
<1>3. p \o Append(q, e) = Append(p \o q, e)
  BY <1>1
<1> QED BY <1>1, <1>2, <1>3

LEMMA ChargeOfType ==
  ASSUME TypeOK, NEW c \in Calls, NEW o \in Outcomes, NEW u \in Usages, NEW t \in Texts
  PROVE  ChargeOf(o, call[c].input, u, t) \in Nat
<1>1. call[c].input \in Nat /\ t \in Nat
  BY UsagesAssumption DEF TypeOK
<1>2. u.input \in Nat \union {None} /\ u.output \in Nat \union {None}
  BY UsagesAssumption
<1>3. ASSUME NEW a \in Nat, NEW b \in Nat
      PROVE  a + b \in Nat
  OBVIOUS
<1>4. (IF u.input = None THEN call[c].input ELSE u.input) \in Nat
  BY <1>1, <1>2
<1>5. (IF u.output = None THEN t ELSE u.output) \in Nat
  BY <1>1, <1>2
<1> QED BY <1>3, <1>4, <1>5 DEF ChargeOf

LEMMA HistoryType ==
  ASSUME NEW rows \in Histories, NEW h \in InOrder(Kept(rows))
  PROVE  /\ h \in Seq(Rows)
         /\ \A n \in DOMAIN h : h[n].at >= Since /\ h[n].at < Boot
<1>1. Kept(rows) \subseteq Rows /\ IsFiniteSet(rows)
  BY RestoreAssumption DEF Kept, Rows
<1>2. Cardinality(Kept(rows)) \in Nat
  BY <1>1, FS_Subset, FS_CardinalityType DEF Kept
<1>3. h \in [1 .. Cardinality(Kept(rows)) -> Kept(rows)]
  BY DEF InOrder, SetToSeqs
<1>4. h \in Seq(Rows)
  BY <1>1, <1>2, <1>3
<1>5. \A r \in Kept(rows) : r.at >= Since /\ r.at < Boot
  BY DEF Kept
<1> QED BY <1>3, <1>4, <1>5

LEMMA ExactInit == Init => ExactInv
<1> SUFFICES ASSUME Init PROVE ExactInv
  OBVIOUS
<1>1. TypeOK
  BY TypeInit
<1>2. meters = Rebuilt(Base, replayed \o spent)
  <2>1. replayed \o spent = <<>> /\ Base = Boot
    BY DEF Init, Base
  <2> QED BY <2>1, ReplayNothing DEF Init, Rebuilt, Meters
<1>3. live = Costly(spent)
  BY CostlyNothing DEF Init
<1> QED BY <1>1, <1>2, <1>3 DEF Init, ExactInv

LEMMA ExactFrame ==
  ASSUME ExactInv, TypeOK',
         UNCHANGED <<specs, meters, restore, live, replayed, spent, overrun>>
  PROVE  ExactInv'
<1>1. Base' = Base
  BY DEF Base, Since
<1>2. meters' = Rebuilt(Base, replayed \o spent)'
  BY <1>1 DEF ExactInv, Rebuilt
<1> QED BY <1>2 DEF ExactInv

LEMMA ExactFinish ==
  ASSUME ExactInv, TypeOK', NEW c \in Calls, NEW o \in Outcomes, NEW u \in Usages,
         NEW t \in Texts, Finish(c, o, u, t)
  PROVE  ExactInv'
<1>1. CASE ~call[c].covered
  BY <1>1, ExactFrame DEF Finish
<1>2. CASE call[c].covered
  <2>1. PICK x : x = ChargeOf(o, call[c].input, u, t)
    OBVIOUS
  <2>2. x \in Nat
    BY <2>1, ChargeOfType DEF ExactInv
  <2>3. PICK e : e = [at |-> clock, tokens |-> x]
    OBVIOUS
  <2>4. e \in Charges /\ e.tokens = x
    BY <2>2, <2>3 DEF ExactInv, TypeOK, Charges
  <2>5. /\ UNCHANGED <<specs, clock, restore, replayed>>
        /\ meters' = ChargeAll(meters, e)
        /\ live' = IF restore = "pending" /\ x > 0 THEN Append(live, e) ELSE live
        /\ spent' = Append(spent, e)
        /\ overrun' = overrun + Max({x - call[c].total, 0})
    BY <1>2, <2>1, <2>3 DEF Finish, SettleBudget
  <2>6. overrun' \in Nat
    <3>1. call[c].total \in Nat
      BY DEF ExactInv, TypeOK
    <3>2. Max({x - call[c].total, 0}) \in Nat
      BY <2>2, <3>1, MaxWithZero
    <3> QED BY <2>5, <3>2 DEF ExactInv
  <2>7. live' \in Seq(Charges) /\ spent' \in Seq(Charges) /\ replayed' \in Seq(Rows)
    BY <2>4, <2>5 DEF ExactInv
  <2>8. restore' = "pending" => live' = Costly(spent')
    BY <2>4, <2>5, CostlyAppend DEF ExactInv
  <2>9. Base' = Base
    BY <2>5 DEF Base, Since
  <2>10. meters' = Rebuilt(Base, replayed \o spent)'
    <3>1. Rebuilt(Base, replayed \o spent)' = Rebuilt(Base, replayed \o spent')
      BY <2>5, <2>9 DEF Rebuilt
    <3>2. replayed \o spent' = Append(replayed \o spent, e)
      BY <2>4, <2>5, CountedAppend DEF ExactInv
    <3>3. Rebuilt(Base, Append(replayed \o spent, e))
            = ChargeAll(Rebuilt(Base, replayed \o spent), e)
      <4>1. replayed \o spent \in Seq(Counted) /\ e \in Counted
        BY <2>4, CountedAppend DEF ExactInv
      <4> QED BY <4>1, RebuiltAppend
    <3>4. meters = Rebuilt(Base, replayed \o spent)
      BY DEF ExactInv
    <3> QED BY <2>5, <3>1, <3>2, <3>3, <3>4
  <2> QED BY <2>5, <2>6, <2>7, <2>8, <2>10 DEF ExactInv
<1> QED BY <1>1, <1>2

LEMMA ExactRestore ==
  ASSUME ExactInv, TypeOK', NEW rows \in Histories, Restore(rows)
  PROVE  ExactInv'
<1>1. PICK h \in InOrder(Kept(rows)) :
        /\ restore = "pending"
        /\ meters' = Rebuilt(Since, h \o live)
        /\ replayed' = h
        /\ restore' = "restored"
        /\ live' = <<>>
        /\ spent' = Costly(spent)
        /\ UNCHANGED <<specs, clock, reserved, call, overrun, setBack>>
  BY DEF Restore
<1>2. live = Costly(spent)
  BY <1>1 DEF ExactInv
<1>3. Base' = Since
  BY <1>1 DEF Base, Since
<1>4. meters' = Rebuilt(Base, replayed \o spent)'
  BY <1>1, <1>2, <1>3 DEF Rebuilt
<1>5. live' \in Seq(Charges)
  BY <1>1
<1>6. spent' \in Seq(Charges) /\ replayed' \in Seq(Rows)
  BY <1>1, HistoryType, CostlyType DEF ExactInv
<1> QED BY <1>1, <1>4, <1>5, <1>6 DEF ExactInv

LEMMA ExactAbandon == ExactInv /\ TypeOK' /\ AbandonRestore => ExactInv'
<1> SUFFICES ASSUME ExactInv, TypeOK', AbandonRestore PROVE ExactInv'
  OBVIOUS
<1>1. Base' = Base
  BY DEF AbandonRestore, Base, Since
<1>2. meters' = Rebuilt(Base, replayed \o spent)'
  BY <1>1 DEF ExactInv, AbandonRestore, Rebuilt
<1>3. live' \in Seq(Charges)
  BY DEF AbandonRestore
<1> QED BY <1>2, <1>3 DEF ExactInv, AbandonRestore

LEMMA ExactNext == ExactInv /\ TypeOK' /\ [Next]_vars => ExactInv'
<1> SUFFICES ASSUME ExactInv, TypeOK', [Next]_vars PROVE ExactInv'
  OBVIOUS
<1>1. CASE \E c \in Calls, e \in Estimates, covered \in BOOLEAN : Admit(c, e, covered)
  BY <1>1, ExactFrame DEF Admit
<1>2. CASE \E c \in Calls, o \in Outcomes, u \in Usages, t \in Texts : Finish(c, o, u, t)
  BY <1>2, ExactFinish
<1>3. CASE \E rows \in Histories : Restore(rows)
  BY <1>3, ExactRestore
<1>4. CASE AbandonRestore
  BY <1>4, ExactAbandon
<1>5. CASE Tick \/ SetClockBack
  BY <1>5, ExactFrame DEF Tick, SetClockBack
<1>6. CASE UNCHANGED vars
  BY <1>6, ExactFrame DEF vars
<1> QED BY <1>1, <1>2, <1>3, <1>4, <1>5, <1>6 DEF Next

LEMMA ExactHolds == Spec => []ExactInv
BY ExactInit, ExactNext, TypeCorrect, PTL DEF Spec

\* A restore loses no charge of this process and counts none twice, whatever
\* calls end while the search runs, and in whatever order (Budget::restore,
\* Budget::charge).
THEOREM RestoreIsExact == Spec => []RestoreExact
<1>1. ExactInv => RestoreExact
  BY DEF ExactInv, RestoreExact, Base
<1> QED BY <1>1, ExactHolds, PTL

------------------------------------------------------------------------------
(* The times at which charges count. *)

Latest(c, q, n, b) ==
  /\ c \in Int /\ c >= b
  /\ \A k \in 1 .. n : c >= q[k].at
  /\ c = b \/ \E k \in 1 .. n : c = q[k].at

LEMMA CountsAtIs ==
  ASSUME NEW q \in Seq(Counted), NEW b \in Int, NEW n \in 0 .. Len(q)
  PROVE  Latest(CountsAt(q, n, b), q, n, b)
<1>1. \A k \in 1 .. Len(q) : q[k].at \in Int
  BY DEF Counted, Charges, Rows
<1> DEFINE g == [k \in 1 .. n |-> q[k].at]
           A == {q[k].at : k \in 1 .. n}
           S == {b} \union A
<1>2. S \in SUBSET Int /\ S # {} /\ b \in S /\ \A k \in 1 .. n : q[k].at \in S
  BY <1>1
<1>3. IsFiniteSet(A)
  <2>1. IsFiniteSet(1 .. n)
    BY FS_Interval
  <2>2. A = {g[k] : k \in 1 .. n}
    OBVIOUS
  <2> HIDE DEF g, A
  <2> QED BY <2>1, <2>2, ImageFinite
<1>4. IsFiniteSet(S)
  <2>1. S = A \union {b}
    OBVIOUS
  <2> HIDE DEF A, S
  <2> QED BY <1>3, <2>1, FS_AddElement
<1>5. CountsAt(q, n, b) = Max(S)
  BY DEF CountsAt
<1>6. \A y \in S : y = b \/ \E k \in 1 .. n : y = q[k].at
  OBVIOUS
<1> HIDE DEF S
<1>7. Max(S) \in S /\ Max(S) \in Int /\ \A y \in S : Max(S) >= y
  BY <1>2, <1>4, MaxIn
<1> QED BY <1>2, <1>5, <1>6, <1>7 DEF Latest

LEMMA CountsAtNone ==
  ASSUME NEW q \in Seq(Counted), NEW b \in Int
  PROVE  CountsAt(q, 0, b) = b
<1>1. 0 \in 0 .. Len(q) /\ \A k \in 1 .. 0 : FALSE
  OBVIOUS
<1>2. Latest(CountsAt(q, 0, b), q, 0, b)
  BY <1>1, CountsAtIs
<1> QED BY <1>1, <1>2 DEF Latest

\* A charge counts at its own time, or at that of the one before it when that
\* is later; and what comes after a charge does not move it.
LEMMA CountsAtAppend ==
  ASSUME NEW q \in Seq(Counted), NEW e \in Counted, NEW b \in Int
  PROVE  /\ \A n \in 0 .. Len(q) : CountsAt(Append(q, e), n, b) = CountsAt(q, n, b)
         /\ CountsAt(Append(q, e), Len(q) + 1, b) =
              IF e.at >= CountsAt(q, Len(q), b) THEN e.at ELSE CountsAt(q, Len(q), b)
<1>1. PICK p : p = Append(q, e)
  OBVIOUS
<1>2. /\ p \in Seq(Counted) /\ Len(q) \in Nat /\ Len(p) = Len(q) + 1 /\ p[Len(q) + 1] = e
      /\ \A k \in 1 .. Len(q) : p[k] = q[k]
  <2> HIDE DEF Counted
  <2> QED BY <1>1
<1>3. \A n \in 0 .. Len(q) : CountsAt(p, n, b) = CountsAt(q, n, b)
  <2>1. ASSUME NEW n \in 0 .. Len(q)
        PROVE  {p[k].at : k \in 1 .. n} = {q[k].at : k \in 1 .. n}
    BY <1>2
  <2> QED BY <2>1 DEF CountsAt
<1>4. PICK c : c = CountsAt(q, Len(q), b)
  OBVIOUS
<1>5. PICK d : d = CountsAt(p, Len(q) + 1, b)
  OBVIOUS
<1>6. /\ c \in Int /\ c >= b /\ \A k \in 1 .. Len(q) : c >= q[k].at
      /\ c = b \/ \E k \in 1 .. Len(q) : c = q[k].at
  <2>1. Len(q) \in 0 .. Len(q)
    BY <1>2
  <2> QED BY <1>4, <2>1, CountsAtIs DEF Latest
<1>7. /\ d \in Int /\ d >= b /\ \A k \in 1 .. (Len(q) + 1) : d >= p[k].at
      /\ d = b \/ \E k \in 1 .. (Len(q) + 1) : d = p[k].at
  <2>1. Len(q) + 1 \in 0 .. Len(p)
    BY <1>2
  <2> QED BY <1>2, <1>5, <2>1, CountsAtIs DEF Latest
<1>8. e.at \in Int
  BY DEF Counted, Charges, Rows
<1> HIDE DEF Counted
<1>9. d >= e.at /\ \A k \in 1 .. Len(q) : d >= q[k].at
  <2>1. Len(q) + 1 \in 1 .. (Len(q) + 1) /\ \A k \in 1 .. Len(q) : k \in 1 .. (Len(q) + 1)
    BY <1>2
  <2> QED BY <1>2, <1>7, <2>1
<1>10. d >= c
  BY <1>6, <1>7, <1>9
<1>11. d = b \/ d = e.at \/ \E k \in 1 .. Len(q) : d = q[k].at
  <2>1. \A k \in 1 .. (Len(q) + 1) : k = Len(q) + 1 \/ k \in 1 .. Len(q)
    BY <1>2
  <2> QED BY <1>2, <1>7, <2>1
<1>12. d = e.at \/ d <= c
  BY <1>6, <1>11
<1>13. d = IF e.at >= c THEN e.at ELSE c
  BY <1>6, <1>7, <1>8, <1>9, <1>10, <1>12
<1> QED BY <1>1, <1>3, <1>4, <1>5, <1>13

\* The lowest time at which a meter's next charge counts is that of its last.
LEMMA ReplayOK ==
  ASSUME NEW spec \in MeterSpecs, NEW b \in Int
  PROVE  \A q \in Seq(Counted) :
           /\ MeterOK(spec, Replay(spec, b, q))
           /\ Replay(spec, b, q).last_seen = CountsAt(q, Len(q), b)
<1> DEFINE K == {q \in Seq(Counted) : /\ MeterOK(spec, Replay(spec, b, q))
                                      /\ Replay(spec, b, q).last_seen = CountsAt(q, Len(q), b)}
<1>1. <<>> \in K
  <2>1. <<>> \in Seq(Counted) /\ Len(<<>>) = 0
    OBVIOUS
  <2>2. CountsAt(<<>>, 0, b) = b
    BY <2>1, CountsAtNone
  <2> QED BY <2>1, <2>2, ReplayNothing, NewMeterOK
<1>2. ASSUME NEW q \in Seq(Counted), NEW e \in Counted, q \in K
      PROVE  Append(q, e) \in K
  <2>1. PICK p : p = Append(q, e)
    OBVIOUS
  <2>2. p \in Seq(Counted) /\ Len(p) = Len(q) + 1
    BY <2>1
  <2>3. PICK m : m = Replay(spec, b, q)
    OBVIOUS
  <2>4. e.at \in Int /\ e.tokens \in Nat
    BY DEF Counted, Charges, Rows
  <2>5. MeterOK(spec, m) /\ m.last_seen = CountsAt(q, Len(q), b)
    BY <1>2, <2>3
  <2>6. Replay(spec, b, p) = Charge(spec, m, e.at, e.tokens)
    BY <2>1, <2>3, ReplayAppend
  <2>7. MeterOK(spec, Replay(spec, b, p)) /\ Replay(spec, b, p).last_seen = Later(e.at, m)
    BY <2>4, <2>5, <2>6, ChargeOK
  <2>8. Later(e.at, m) = CountsAt(p, Len(p), b)
    BY <2>1, <2>2, <2>5, CountsAtAppend DEF Later
  <2> QED BY <2>1, <2>2, <2>7, <2>8
<1> HIDE DEF K
<1>3. \A q \in Seq(Counted) : q \in K
  BY <1>1, <1>2, SequenceInduction
<1> QED BY <1>3 DEF K

------------------------------------------------------------------------------
(* The budget's clock. *)

LEMMA SpecsType ==
  ASSUME TypeOK
  PROVE  /\ specs \in Seq(MeterSpecs) /\ IsFiniteSet(DOMAIN specs)
         /\ \A i \in DOMAIN specs : specs[i] \in MeterSpecs
<1>1. specs \in Seq(MeterSpecs)
  BY BudgetsAssumption DEF TypeOK
<1>2. DOMAIN specs = 1 .. Len(specs) /\ Len(specs) \in Nat
  BY <1>1
<1>3. IsFiniteSet(1 .. Len(specs))
  BY <1>2, FS_Interval
<1> QED BY <1>1, <1>2, <1>3

LEMMA HorizonType ==
  ASSUME NEW spec \in MeterSpecs, NEW t \in Int
  PROVE  Horizon(spec, t) \in Int
<1>1. /\ spec.kind \in Kinds /\ spec.limit \in Nat \ {0} /\ spec.period \in Nat \ {0}
      /\ spec.kind = "credit" => spec.refill \in Nat \ {0}
  BY SpecFacts
<1>2. CASE spec.kind = "fixed"
  <2>1. Floor(t, spec.period) \in Int
    BY <1>1, FloorFacts
  <2> QED BY <1>2, <2>1 DEF Horizon
<1>3. CASE spec.kind = "rolling"
  BY <1>1, <1>3, RollingFacts DEF Horizon
<1>4. CASE spec.kind = "session"
  BY <1>1, <1>4 DEF Horizon
<1>5. CASE spec.kind = "credit"
  <2>1. PICK d : d = Max({spec.refill, 1})
    OBVIOUS
  <2>2. d \in Nat \ {0}
    BY <1>1, <1>5, <2>1, MaxTwo
  <2>3. PICK c : c = spec.limit * spec.period
    OBVIOUS
  <2>4. c \in Int
    BY <1>1, <2>3
  <2>5. c \div d \in Int
    BY <2>2, <2>4, DivBounds
  <2> QED BY <1>5, <2>1, <2>3, <2>5 DEF Horizon
<1> QED BY <1>1, <1>2, <1>3, <1>4, <1>5 DEF Kinds

\* The window that is restored ends at boot.
LEMMA SinceFacts ==
  ASSUME TypeOK
  PROVE  Since \in Int /\ Since <= Boot /\ Base \in Int /\ Base <= Boot
<1> DEFINE g == [i \in DOMAIN specs |-> Horizon(specs[i], Boot)]
           A == {Horizon(specs[i], Boot) : i \in DOMAIN specs}
           S == A \union {0}
<1>1. A = {g[i] : i \in DOMAIN specs} /\ {0} \union A = S
  OBVIOUS
<1>2. A \subseteq Int
  BY SpecsType, HorizonType, ClockAssumption
<1>3. IsFiniteSet(A)
  <2> HIDE DEF g, A
  <2> QED BY <1>1, SpecsType, ImageFinite
<1> HIDE DEF A
<1>4. IsFiniteSet(S) /\ S \in SUBSET Int /\ S # {} /\ 0 \in S
  BY <1>2, <1>3, FS_AddElement
<1>5. PICK h : h = Max(S)
  OBVIOUS
<1>6. h \in Int /\ h >= 0
  <2> HIDE DEF S
  <2> QED BY <1>4, <1>5, MaxIn
<1>7. Since = Boot - Min({LookbackMax, h})
  BY <1>1, <1>5 DEF Since, A
<1>8. PICK l : l = Min({LookbackMax, h})
  OBVIOUS
<1>9. l \in Int /\ l >= 0
  BY <1>6, <1>8, MinTwo, RestoreAssumption
<1>10. Since \in Int /\ Since <= Boot
  BY <1>7, <1>8, <1>9, ClockAssumption
<1> QED BY <1>10, ClockAssumption DEF Base

\* Every charge and every row restored, in the order in which they count.
All == replayed \o spent

LEMMA MetersAre ==
  ASSUME ExactInv
  PROVE  /\ All \in Seq(Counted)
         /\ \A i \in DOMAIN specs :
              /\ specs[i] \in MeterSpecs
              /\ meters[i] = Replay(specs[i], Base, All)
              /\ MeterOK(specs[i], meters[i])
              /\ meters[i].last_seen = CountsAt(All, Len(All), Base)
<1>1. All \in Seq(Counted)
  <2>1. replayed \in Seq(Counted) /\ spent \in Seq(Counted)
    BY DEF ExactInv, Counted
  <2> HIDE DEF Counted
  <2> QED BY <2>1 DEF All
<1>2. Base \in Int
  BY SinceFacts DEF ExactInv
<1>3. \A i \in DOMAIN specs : specs[i] \in MeterSpecs
  BY SpecsType DEF ExactInv
<1>4. \A i \in DOMAIN specs : meters[i] = Replay(specs[i], Base, All)
  BY DEF ExactInv, Rebuilt, All
<1> QED BY <1>1, <1>2, <1>3, <1>4, ReplayOK

Past(t) == {e \in Charges : e.at <= t}

BeforeBoot == {r \in Rows : r.at < Boot}

\* Without a clock set back, nothing has been charged in the future.
ClockInv ==
  /\ ExactInv
  /\ replayed \in Seq(BeforeBoot)
  /\ ~setBack => Boot <= clock /\ spent \in Seq(Past(clock))

LEMMA PastGrows ==
  ASSUME NEW t \in Int, NEW u \in Int, t <= u, NEW q \in Seq(Past(t))
  PROVE  q \in Seq(Past(u))
<1>1. Past(t) \subseteq Past(u)
  BY DEF Past, Charges
<1> QED BY <1>1

LEMMA ClockInit == Init => ClockInv
<1> SUFFICES ASSUME Init PROVE ClockInv
  OBVIOUS
<1>1. ExactInv
  BY ExactInit
<1>2. replayed \in Seq(BeforeBoot) /\ spent \in Seq(Past(clock)) /\ Boot <= clock
  BY ClockAssumption DEF Init
<1> QED BY <1>1, <1>2 DEF ClockInv

LEMMA ClockNext == ClockInv /\ ExactInv' /\ [Next]_vars => ClockInv'
<1> SUFFICES ASSUME ClockInv, ExactInv', [Next]_vars PROVE ClockInv'
  OBVIOUS
<1>1. clock \in Int /\ clock' \in Int
  BY DEF ClockInv, ExactInv, TypeOK
<1>2. ASSUME UNCHANGED <<clock, replayed, spent, setBack>>
      PROVE  ClockInv'
  BY <1>2 DEF ClockInv
<1>3. CASE \E c \in Calls, e \in Estimates, covered \in BOOLEAN : Admit(c, e, covered)
  BY <1>2, <1>3 DEF Admit
<1>4. ASSUME NEW c \in Calls, NEW o \in Outcomes, NEW u \in Usages, NEW t \in Texts,
             Finish(c, o, u, t)
      PROVE  ClockInv'
  <2>1. CASE ~call[c].covered
    BY <1>2, <1>4, <2>1 DEF Finish
  <2>2. CASE call[c].covered
    <3>1. PICK x : x = ChargeOf(o, call[c].input, u, t)
      OBVIOUS
    <3>2. x \in Nat
      BY <3>1, ChargeOfType DEF ClockInv, ExactInv
    <3>3. PICK e : e = [at |-> clock, tokens |-> x]
      OBVIOUS
    <3>4. e \in Past(clock)
      BY <1>1, <3>2, <3>3 DEF Past, Charges
    <3>5. UNCHANGED <<clock, replayed, setBack>> /\ spent' = Append(spent, e)
      BY <1>4, <2>2, <3>1, <3>3 DEF Finish
    <3>6. ~setBack' => spent' \in Seq(Past(clock'))
      BY <3>4, <3>5 DEF ClockInv
    <3> QED BY <3>5, <3>6 DEF ClockInv
  <2> QED BY <2>1, <2>2
<1>5. ASSUME NEW rows \in Histories, Restore(rows)
      PROVE  ClockInv'
  <2>1. PICK h \in InOrder(Kept(rows)) :
          replayed' = h /\ spent' = Costly(spent) /\ UNCHANGED <<clock, setBack>>
    BY <1>5 DEF Restore
  <2>2. h \in Seq(BeforeBoot)
    <3>1. h \in Seq(Rows) /\ \A n \in DOMAIN h : h[n].at < Boot
      BY HistoryType
    <3> QED BY <3>1 DEF BeforeBoot
  <2>3. ~setBack => Costly(spent) \in Seq(Past(clock))
    BY CostlyType DEF ClockInv
  <2> QED BY <2>1, <2>2, <2>3 DEF ClockInv
<1>6. CASE AbandonRestore
  BY <1>2, <1>6 DEF AbandonRestore
<1>7. CASE Tick
  <2>1. clock <= clock' /\ UNCHANGED <<replayed, spent, setBack>>
    BY <1>1, <1>7 DEF Tick
  <2>2. ~setBack => spent' \in Seq(Past(clock'))
    BY <1>1, <2>1, PastGrows DEF ClockInv
  <2> QED BY <1>1, <2>1, <2>2, ClockAssumption DEF ClockInv
<1>8. CASE SetClockBack
  BY <1>8 DEF SetClockBack, ClockInv
<1>9. CASE UNCHANGED vars
  BY <1>2, <1>9 DEF vars
<1> QED BY <1>3, <1>4, <1>5, <1>6, <1>7, <1>8, <1>9 DEF Next

LEMMA ClockHolds == Spec => []ClockInv
BY ClockInit, ClockNext, ExactHolds, PTL DEF Spec

LEMMA ClockSane ==
  ASSUME ClockInv, ~setBack
  PROVE  CountsAt(All, Len(All), Base) \in Int /\ CountsAt(All, Len(All), Base) <= clock
<1>1. ExactInv /\ clock \in Int /\ Boot <= clock /\ Boot \in Int
  BY ClockAssumption DEF ClockInv, ExactInv, TypeOK
<1>2. All \in Seq(Counted) /\ Base \in Int /\ Base <= Boot
  BY <1>1, MetersAre, SinceFacts DEF ExactInv
<1>3. Len(All) \in 0 .. Len(All)
  BY <1>2
<1>4. PICK c : c = CountsAt(All, Len(All), Base)
  OBVIOUS
<1>5. Latest(c, All, Len(All), Base)
  BY <1>2, <1>3, <1>4, CountsAtIs
<1>6. ASSUME NEW k \in 1 .. Len(All)
      PROVE  All[k].at \in Int /\ All[k].at <= clock
  <2>1. replayed \in Seq(BeforeBoot) /\ spent \in Seq(Past(clock))
    BY DEF ClockInv
  <2>2. All[k] \in BeforeBoot \union Past(clock)
    BY <2>1 DEF All
  <2> QED BY <1>1, <2>2 DEF BeforeBoot, Past, Rows, Charges
<1> QED BY <1>1, <1>2, <1>4, <1>5, <1>6 DEF Latest

\* A restore never carries a meter past the present, whatever rows the search
\* returns: restore_once drops those stamped at or after boot, and the meters
\* count from the start of the window.
THEOREM BudgetClockSane == Spec => []BudgetClockNotFrozen
<1>1. ClockInv => BudgetClockNotFrozen
  BY ClockSane, MetersAre DEF BudgetClockNotFrozen, ClockInv
<1> QED BY <1>1, ClockHolds, PTL

------------------------------------------------------------------------------
(* What the windows report. *)

Tokens(q) == [n \in DOMAIN q |-> q[n].tokens]

LEMMA TokensAppend ==
  ASSUME NEW q \in Seq(Counted), NEW e \in Counted, NEW A \in SUBSET (1 .. Len(q))
  PROVE  /\ Total(Tokens(q), A) \in Int
         /\ Total(Tokens(Append(q, e)), A) = Total(Tokens(q), A)
         /\ Total(Tokens(Append(q, e)), A \union {Len(q) + 1}) = Total(Tokens(q), A) + e.tokens
<1>1. PICK p : p = Append(q, e)
  OBVIOUS
<1>2. /\ p \in Seq(Counted) /\ Len(q) \in Nat /\ Len(p) = Len(q) + 1 /\ p[Len(q) + 1] = e
      /\ \A k \in 1 .. Len(q) : p[k] = q[k]
      /\ DOMAIN q = 1 .. Len(q) /\ DOMAIN p = 1 .. (Len(q) + 1)
  <2> HIDE DEF Counted
  <2> QED BY <1>1
<1>3. PICK k : k = Len(q) + 1
  OBVIOUS
<1>4. k \notin A /\ k \in DOMAIN p /\ \A n \in A : n \in DOMAIN p /\ n \in DOMAIN q
  BY <1>2, <1>3
<1>5. \A c \in Counted : c.tokens \in Int
  BY DEF Counted, Rows, Charges
<1> HIDE DEF Counted
<1>6. PICK f : f = Tokens(q)
  OBVIOUS
<1>7. PICK g : g = Tokens(p)
  OBVIOUS
<1>8. \A n \in A : g[n] = f[n] /\ f[n] \in Int
  BY <1>2, <1>4, <1>5, <1>6, <1>7 DEF Tokens
<1>9. g[k] = e.tokens /\ e.tokens \in Int
  BY <1>2, <1>3, <1>4, <1>5, <1>7 DEF Tokens
<1>10. IsFiniteSet(A)
  <2>1. IsFiniteSet(1 .. Len(q))
    BY <1>2, FS_Interval
  <2> QED BY <2>1, FS_Subset
<1>11. Total(g, A) = Total(f, A)
  BY <1>8, <1>10, TotalCongruent
<1>12. Total(g, A \union {k}) = Total(g, A) + g[k] /\ Total(g, A) \in Int
  <2>1. \A n \in A \union {k} : g[n] \in Int
    BY <1>8, <1>9
  <2> QED BY <1>4, <1>10, <2>1, TotalAdd
<1> QED BY <1>1, <1>3, <1>6, <1>7, <1>9, <1>11, <1>12

\* The charges that count in the window w of a fixed meter.
InWindow(q, b, p, w) == {n \in 1 .. Len(q) : Floor(CountsAt(q, n, b), p) = w}

LEMMA FixedSum ==
  ASSUME NEW spec \in MeterSpecs, spec.kind = "fixed", NEW b \in Int
  PROVE  \A q \in Seq(Counted) : \A w \in Int :
           w >= Floor(CountsAt(q, Len(q), b), spec.period) =>
             (IF Replay(spec, b, q).window = w THEN Replay(spec, b, q).used ELSE 0)
               = Total(Tokens(q), InWindow(q, b, spec.period, w))
<1> DEFINE K == {q \in Seq(Counted) : \A w \in Int :
                   w >= Floor(CountsAt(q, Len(q), b), spec.period) =>
                     (IF Replay(spec, b, q).window = w THEN Replay(spec, b, q).used ELSE 0)
                       = Total(Tokens(q), InWindow(q, b, spec.period, w))}
<1>0. spec.period \in Nat \ {0}
  BY SpecFacts
<1>1. <<>> \in K
  <2>1. ASSUME NEW w \in Int
        PROVE  (IF Replay(spec, b, <<>>).window = w THEN Replay(spec, b, <<>>).used ELSE 0)
                 = Total(Tokens(<<>>), InWindow(<<>>, b, spec.period, w))
    <3>1. InWindow(<<>>, b, spec.period, w) = {}
      BY DEF InWindow
    <3>2. Replay(spec, b, <<>>) = [last_seen |-> b, window |-> NoWindow, used |-> 0]
      BY ReplayNothing DEF NewMeter
    <3>3. Replay(spec, b, <<>>).window # w
      BY <3>2, NoWindowAssumption
    <3>4. PICK f : f = Tokens(<<>>)
      OBVIOUS
    <3>5. Total(f, {}) = 0
      BY TotalEmpty
    <3> QED BY <3>1, <3>3, <3>4, <3>5
  <2>2. <<>> \in Seq(Counted)
    OBVIOUS
  <2> QED BY <2>1, <2>2
<1>2. ASSUME NEW q \in Seq(Counted), NEW e \in Counted, q \in K
      PROVE  Append(q, e) \in K
  <2>1. PICK p : p = Append(q, e)
    OBVIOUS
  <2>2. p \in Seq(Counted) /\ Len(p) = Len(q) + 1 /\ Len(q) \in Nat
    BY <2>1
  <2>3. PICK m : m = Replay(spec, b, q)
    OBVIOUS
  <2>4. PICK n : n = Replay(spec, b, p)
    OBVIOUS
  <2>5. e.at \in Int /\ e.tokens \in Nat
    BY DEF Counted, Charges, Rows
  <2>6. /\ MeterOK(spec, m) /\ m.last_seen = CountsAt(q, Len(q), b)
        /\ n.last_seen = CountsAt(p, Len(p), b)
    BY <2>2, <2>3, <2>4, ReplayOK
  <2>7. n = Charge(spec, m, e.at, e.tokens)
    BY <2>1, <2>3, <2>4, ReplayAppend
  <2>8. n.last_seen = Later(e.at, m) /\ FixedOK(spec, m)
    BY <2>5, <2>6, <2>7, ChargeOK DEF MeterOK
  <2>9. m.last_seen \in Int /\ n.last_seen \in Int /\ m.last_seen <= n.last_seen
    BY <2>5, <2>6, <2>8 DEF Later, MeterOK
  <2>10. PICK v : v = Floor(n.last_seen, spec.period)
    OBVIOUS
  <2>11. v \in Int /\ Floor(m.last_seen, spec.period) \in Int /\ Floor(m.last_seen, spec.period) <= v
    BY <1>0, <2>9, <2>10, FloorFacts
  <2>12. ASSUME NEW w \in Int, w >= v
         PROVE  (IF n.window = w THEN n.used ELSE 0)
                  = Total(Tokens(p), InWindow(p, b, spec.period, w))
    <3>1. PICK x : x = IF m.window = w THEN m.used ELSE 0
      OBVIOUS
    <3>2. (IF n.window = w THEN n.used ELSE 0) = x + (IF w = v THEN e.tokens ELSE 0)
      BY <2>5, <2>7, <2>8, <2>10, <2>12, <3>1, FixedGrows
    <3>3. PICK A : A = InWindow(q, b, spec.period, w)
      OBVIOUS
    <3>4. A \in SUBSET (1 .. Len(q))
      BY <3>3 DEF InWindow
    <3>5. w >= Floor(m.last_seen, spec.period)
      BY <2>11, <2>12
    <3>6. x = Total(Tokens(q), A)
      BY <1>2, <2>3, <2>6, <3>1, <3>3, <3>5
    <3>7. InWindow(p, b, spec.period, w) = IF w = v THEN A \union {Len(q) + 1} ELSE A
      <4>1. \A k \in 1 .. Len(q) : CountsAt(p, k, b) = CountsAt(q, k, b)
        BY <2>1, CountsAtAppend
      <4>2. 1 .. (Len(q) + 1) = (1 .. Len(q)) \union {Len(q) + 1}
        BY <2>2
      <4>3. Floor(CountsAt(p, Len(q) + 1, b), spec.period) = v
        BY <2>2, <2>6, <2>10
      <4>4. InWindow(p, b, spec.period, w) =
              {k \in 1 .. (Len(q) + 1) : Floor(CountsAt(p, k, b), spec.period) = w}
        BY <2>2 DEF InWindow
      <4>5. A = {k \in 1 .. Len(q) : Floor(CountsAt(p, k, b), spec.period) = w}
        BY <3>3, <4>1 DEF InWindow
      <4> QED BY <4>2, <4>3, <4>4, <4>5
    <3>8. /\ Total(Tokens(q), A) \in Int /\ Total(Tokens(p), A) = Total(Tokens(q), A)
          /\ Total(Tokens(p), A \union {Len(q) + 1}) = Total(Tokens(q), A) + e.tokens
      BY <2>1, <3>4, TokensAppend
    <3> QED BY <3>2, <3>6, <3>7, <3>8
  <2>13. p \in K
    BY <2>2, <2>4, <2>6, <2>10, <2>12
  <2> QED BY <2>1, <2>13
<1> HIDE DEF K
<1>3. \A q \in Seq(Counted) : q \in K
  BY <1>1, <1>2, SequenceInduction
<1> QED BY <1>3 DEF K

\* The charges whose bucket a rolling meter still counts at time u.
StillCounts(q, b, p, u) ==
  {n \in 1 .. Len(q) : u < Floor(CountsAt(q, n, b), RollingBucket(p)) + RollingExpiry(p)}

LEMMA RollingSum ==
  ASSUME NEW spec \in MeterSpecs, spec.kind = "rolling", NEW b \in Int
  PROVE  \A q \in Seq(Counted) : \A u \in Int :
           u >= CountsAt(q, Len(q), b) =>
             BucketSpend(Replay(spec, b, q), LiveBuckets(spec, Replay(spec, b, q), u))
               = Total(Tokens(q), StillCounts(q, b, spec.period, u))
<1> DEFINE K == {q \in Seq(Counted) : \A u \in Int :
                   u >= CountsAt(q, Len(q), b) =>
                     BucketSpend(Replay(spec, b, q), LiveBuckets(spec, Replay(spec, b, q), u))
                       = Total(Tokens(q), StillCounts(q, b, spec.period, u))}
<1>0. spec.period \in Nat \ {0} /\ RollingBucket(spec.period) \in Nat \ {0}
  BY SpecFacts, RollingFacts
<1>1. <<>> \in K
  <2>1. ASSUME NEW u \in Int
        PROVE  BucketSpend(Replay(spec, b, <<>>), LiveBuckets(spec, Replay(spec, b, <<>>), u))
                 = Total(Tokens(<<>>), StillCounts(<<>>, b, spec.period, u))
    <3>1. StillCounts(<<>>, b, spec.period, u) = {}
      BY DEF StillCounts
    <3>2. Replay(spec, b, <<>>) = [last_seen |-> b, buckets |-> [s \in {} |-> 0]]
      BY ReplayNothing DEF NewMeter
    <3>3. LiveBuckets(spec, Replay(spec, b, <<>>), u) = {}
      BY <3>2 DEF LiveBuckets
    <3> QED BY <3>1, <3>3, TotalEmpty DEF BucketSpend
  <2>2. <<>> \in Seq(Counted)
    OBVIOUS
  <2> QED BY <2>1, <2>2
<1>2. ASSUME NEW q \in Seq(Counted), NEW e \in Counted, q \in K
      PROVE  Append(q, e) \in K
  <2>1. PICK p : p = Append(q, e)
    OBVIOUS
  <2>2. p \in Seq(Counted) /\ Len(p) = Len(q) + 1 /\ Len(q) \in Nat
    BY <2>1
  <2>3. PICK m : m = Replay(spec, b, q)
    OBVIOUS
  <2>4. PICK n : n = Replay(spec, b, p)
    OBVIOUS
  <2>5. e.at \in Int /\ e.tokens \in Nat
    BY DEF Counted, Charges, Rows
  <2>6. /\ MeterOK(spec, m) /\ m.last_seen = CountsAt(q, Len(q), b)
        /\ n.last_seen = CountsAt(p, Len(p), b)
    BY <2>2, <2>3, <2>4, ReplayOK
  <2>7. n = Charge(spec, m, e.at, e.tokens)
    BY <2>1, <2>3, <2>4, ReplayAppend
  <2>8. n.last_seen = Later(e.at, m) /\ RollingOK(spec, m)
    BY <2>5, <2>6, <2>7, ChargeOK DEF MeterOK
  <2>9. m.last_seen \in Int /\ n.last_seen \in Int /\ m.last_seen <= n.last_seen
    BY <2>5, <2>6, <2>8 DEF Later, MeterOK
  <2>10. PICK v : v = Floor(n.last_seen, RollingBucket(spec.period)) + RollingExpiry(spec.period)
    OBVIOUS
  <2>11. v \in Int
    BY <1>0, <2>9, <2>10, FloorFacts, RollingFacts
  <2>12. ASSUME NEW u \in Int, u >= n.last_seen
         PROVE  BucketSpend(n, LiveBuckets(spec, n, u))
                  = Total(Tokens(p), StillCounts(p, b, spec.period, u))
    <3>1. PICK x : x = BucketSpend(m, LiveBuckets(spec, m, u))
      OBVIOUS
    <3>2. BucketSpend(n, LiveBuckets(spec, n, u)) = x + (IF v > u THEN e.tokens ELSE 0)
      BY <2>5, <2>7, <2>8, <2>10, <2>12, <3>1, RollingGrows
    <3>3. PICK A : A = StillCounts(q, b, spec.period, u)
      OBVIOUS
    <3>4. A \in SUBSET (1 .. Len(q))
      BY <3>3 DEF StillCounts
    <3>5. u >= m.last_seen
      BY <2>9, <2>12
    <3>6. x = Total(Tokens(q), A)
      BY <1>2, <2>3, <2>6, <3>1, <3>3, <3>5
    <3>7. StillCounts(p, b, spec.period, u) = IF v > u THEN A \union {Len(q) + 1} ELSE A
      <4> DEFINE ends(k) == Floor(CountsAt(p, k, b), RollingBucket(spec.period))
                            + RollingExpiry(spec.period)
      <4>1. \A k \in 1 .. Len(q) : CountsAt(p, k, b) = CountsAt(q, k, b)
        BY <2>1, CountsAtAppend
      <4>2. 1 .. (Len(q) + 1) = (1 .. Len(q)) \union {Len(q) + 1}
        BY <2>2
      <4>3. ends(Len(q) + 1) = v
        BY <2>2, <2>6, <2>10
      <4>4. StillCounts(p, b, spec.period, u) = {k \in 1 .. (Len(q) + 1) : u < ends(k)}
        BY <2>2 DEF StillCounts
      <4>5. A = {k \in 1 .. Len(q) : u < ends(k)}
        BY <3>3, <4>1 DEF StillCounts
      <4>6. v > u <=> u < v
        BY <2>11
      <4> HIDE DEF ends
      <4> QED BY <4>2, <4>3, <4>4, <4>5, <4>6
    <3>8. /\ Total(Tokens(q), A) \in Int /\ Total(Tokens(p), A) = Total(Tokens(q), A)
          /\ Total(Tokens(p), A \union {Len(q) + 1}) = Total(Tokens(q), A) + e.tokens
      BY <2>1, <3>4, TokensAppend
    <3> QED BY <3>2, <3>6, <3>7, <3>8
  <2>13. p \in K
    BY <2>2, <2>4, <2>6, <2>12
  <2> QED BY <2>1, <2>13
<1> HIDE DEF K
<1>3. \A q \in Seq(Counted) : q \in K
  BY <1>1, <1>2, SequenceInduction
<1> QED BY <1>3 DEF K

\* What a window meter reports is the sum of the charges in its window, by the
\* times at which they count, for every history of charges and restores
\* (Meter::charge, Meter::status).
THEOREM WindowSpendExact == Spec => []WindowSpend
<1>1. ASSUME ExactInv PROVE WindowSpend
  <2>1. PICK all : all = All
    OBVIOUS
  <2>2. PICK base : base = Base
    OBVIOUS
  <2>3. PICK last : last = CountsAt(all, Len(all), base)
    OBVIOUS
  <2>4. PICK now : now = Max({clock, last})
    OBVIOUS
  <2>5. /\ all \in Seq(Counted) /\ base \in Int /\ clock \in Int
        /\ DOMAIN all = 1 .. Len(all) /\ Len(all) \in 0 .. Len(all)
    <3>1. all \in Seq(Counted)
      BY <1>1, <2>1, MetersAre
    <3>2. base \in Int
      BY <1>1, <2>2, SinceFacts DEF ExactInv
    <3> HIDE DEF Counted
    <3> QED BY <1>1, <3>1, <3>2 DEF ExactInv, TypeOK
  <2>6. last \in Int
    BY <2>3, <2>5, CountsAtIs DEF Latest
  <2>7. now \in Int /\ now >= last
    BY <2>4, <2>5, <2>6, MaxTwo
  <2>8. ASSUME NEW i \in DOMAIN specs
        PROVE  /\ specs[i] \in MeterSpecs /\ meters[i] = Replay(specs[i], base, all)
               /\ MeterOK(specs[i], meters[i]) /\ Later(clock, meters[i]) = now
    <3>1. /\ specs[i] \in MeterSpecs /\ meters[i] = Replay(specs[i], base, all)
          /\ MeterOK(specs[i], meters[i]) /\ meters[i].last_seen = last
      BY <1>1, <2>1, <2>2, <2>3, MetersAre
    <3>2. Max({clock, meters[i].last_seen}) = Later(clock, meters[i])
      BY <2>5, <2>6, <3>1, LaterIs
    <3> QED BY <2>4, <3>1, <3>2
  <2>9. ASSUME NEW i \in DOMAIN specs, specs[i].kind = "fixed"
        PROVE  Used(specs[i], meters[i], clock) =
                 Total(Tokens(all), InWindow(all, base, specs[i].period, Floor(now, specs[i].period)))
    <3>1. PICK w : w = Floor(now, specs[i].period)
      OBVIOUS
    <3>2. w \in Int /\ w >= Floor(last, specs[i].period)
      BY <2>6, <2>7, <2>8, <3>1, FloorFacts, SpecFacts
    <3>3. Used(specs[i], meters[i], clock) = IF meters[i].window = w THEN meters[i].used ELSE 0
      BY <2>5, <2>8, <2>9, <3>1, UsedIs
    <3>4. (IF meters[i].window = w THEN meters[i].used ELSE 0)
            = Total(Tokens(all), InWindow(all, base, specs[i].period, w))
      BY <2>3, <2>5, <2>8, <2>9, <3>2, FixedSum
    <3> QED BY <3>1, <3>3, <3>4
  <2>10. ASSUME NEW i \in DOMAIN specs, specs[i].kind = "rolling"
         PROVE  Used(specs[i], meters[i], clock) =
                  Total(Tokens(all), StillCounts(all, base, specs[i].period, now))
    <3>1. Used(specs[i], meters[i], clock) =
            BucketSpend(meters[i], LiveBuckets(specs[i], meters[i], now))
      BY <2>5, <2>8, <2>10, UsedIs
    <3>2. BucketSpend(meters[i], LiveBuckets(specs[i], meters[i], now))
            = Total(Tokens(all), StillCounts(all, base, specs[i].period, now))
      BY <2>3, <2>5, <2>7, <2>8, <2>10, RollingSum
    <3> QED BY <3>1, <3>2
  <2>11. DOMAIN All = 1 .. Len(All)
    BY <2>1, <2>5
  <2>12. ASSUME NEW i \in DOMAIN specs, specs[i].kind = "fixed"
         PROVE  Used(specs[i], meters[i], clock) =
                  Total(Tokens(All), {n \in DOMAIN All : Floor(CountsAt(All, n, Base), specs[i].period)
                    = Floor(Max({clock, CountsAt(All, Len(All), Base)}), specs[i].period)})
    <3>1. Used(specs[i], meters[i], clock) = Total(Tokens(All),
            InWindow(All, Base, specs[i].period,
              Floor(Max({clock, CountsAt(All, Len(All), Base)}), specs[i].period)))
      BY <2>1, <2>2, <2>3, <2>4, <2>9, <2>12
    <3> QED BY <2>11, <3>1 DEF InWindow
  <2>13. ASSUME NEW i \in DOMAIN specs, specs[i].kind = "rolling"
         PROVE  Used(specs[i], meters[i], clock) =
                  Total(Tokens(All), {n \in DOMAIN All :
                    Max({clock, CountsAt(All, Len(All), Base)}) <
                      Floor(CountsAt(All, n, Base), RollingBucket(specs[i].period))
                      + RollingExpiry(specs[i].period)})
    <3>1. Used(specs[i], meters[i], clock) = Total(Tokens(All),
            StillCounts(All, Base, specs[i].period, Max({clock, CountsAt(All, Len(All), Base)})))
      BY <2>1, <2>2, <2>3, <2>4, <2>10, <2>13
    <3> QED BY <2>11, <3>1 DEF StillCounts
  <2> QED BY <2>12, <2>13, Zenon DEF WindowSpend, All, Base, Tokens
<1> QED BY <1>1, ExactHolds, PTL

------------------------------------------------------------------------------
(* Verdicts. *)

LEMMA UsedAgain ==
  ASSUME NEW spec \in MeterSpecs, NEW m, MeterOK(spec, m), NEW t \in Int
  PROVE  Used(spec, m, Max({t, m.last_seen})) = Used(spec, m, t)
<1>1. PICK a : a = Max({t, m.last_seen})
  OBVIOUS
<1>2. a = Later(t, m) /\ a \in Int /\ m.last_seen \in Int
  BY <1>1, LaterIs DEF MeterOK
<1>3. Max({a, m.last_seen}) = a
  BY <1>2, LaterIs DEF Later
<1> QED BY <1>1, <1>3 DEF Used

\* A credit bucket holds what a call wants exactly when its limit does.
LEMMA CreditFits ==
  ASSUME NEW spec \in MeterSpecs, spec.kind = "credit", NEW m, MeterOK(spec, m),
         NEW t \in Int, NEW k \in Int
  PROVE  /\ CreditBalance(spec, m, Later(t, m)) \in Int
         /\ CreditBalance(spec, m, Later(t, m)) >= k * spec.period
              <=> Used(spec, m, t) + k <= spec.limit
<1>1. PICK a : a = Later(t, m)
  OBVIOUS
<1>2. a \in Int /\ m.at \in Int /\ a >= m.at /\ CreditOK(spec, m)
  BY <1>1, LaterIs DEF MeterOK, CreditOK, Later
<1>3. PICK b : b = CreditBalance(spec, m, a)
  OBVIOUS
<1>4. b \in Int
  BY <1>2, <1>3, Balance
<1>5. PICK w : w = spec.period
  OBVIOUS
<1>6. w \in Nat \ {0} /\ spec.limit \in Int
  BY <1>5, SpecFacts
<1>7. PICK d : d = b \div w
  OBVIOUS
<1>8. d \in Int /\ (k <= d <=> k * w <= b)
  BY <1>4, <1>6, <1>7, DivBounds, DivAtLeast
<1>9. Used(spec, m, t) = spec.limit - d
  BY <1>1, <1>3, <1>5, <1>7, UsedIs
<1>10. k * w \in Int
  BY <1>6
<1>11. b >= k * w <=> Used(spec, m, t) + k <= spec.limit
  BY <1>4, <1>6, <1>8, <1>9, <1>10
<1> QED BY <1>1, <1>3, <1>4, <1>5, <1>11

\* A verdict is Allow exactly when the call fits under the limit.
LEMMA VerdictAllow ==
  ASSUME NEW spec \in MeterSpecs, NEW m, MeterOK(spec, m), NEW t \in Int,
         NEW held \in Nat, NEW want \in Nat
  PROVE  /\ Verdict(spec, m, t, held, want) = Allow <=>
              want <= spec.limit /\ Used(spec, m, t) + held + want <= spec.limit
         /\ Verdict(spec, m, t, held, want) = Never <=> want > spec.limit
         /\ \/ Verdict(spec, m, t, held, want) = Allow
            \/ Verdict(spec, m, t, held, want) = Never
            \/ Verdict(spec, m, t, held, want).tag = "wait"
<1>1. PICK v : v = Verdict(spec, m, t, held, want)
  OBVIOUS
<1>2. PICK used : used = Used(spec, m, t)
  OBVIOUS
<1>3. used \in Int /\ spec.limit \in Int /\ spec.period \in Nat
  BY <1>2, UsedType, SpecFacts
<1>4. Allow # Never /\ \A d : Wait(d).tag = "wait" /\ Wait(d) # Allow /\ Wait(d) # Never
  BY DEF Allow, Never, Wait
<1>5. CASE want > spec.limit
  <2>1. v = Never
    BY <1>1, <1>5 DEF Verdict
  <2> QED BY <1>1, <1>3, <1>4, <1>5, <2>1
<1>6. CASE ~(want > spec.limit)
  <2>1. Used(spec, m, Max({t, m.last_seen})) = used
    BY <1>2, UsedAgain
  <2>2. CASE spec.kind = "credit"
    <3>1. PICK b : b = CreditBalance(spec, m, Later(t, m))
      OBVIOUS
    <3>2. Max({t, m.last_seen}) = Later(t, m)
      BY LaterIs DEF MeterOK
    <3>3. held + want \in Int /\ used + (held + want) = used + held + want
      BY <1>3
    <3>4. b >= (held + want) * spec.period <=> used + (held + want) <= spec.limit
      BY <1>2, <2>2, <3>1, <3>3, CreditFits
    <3>5. spec.refill # 0
      BY <2>2, SpecFacts
    <3>6. v = IF b >= (held + want) * spec.period THEN Allow
              ELSE Wait(((held + want) * spec.period - b + spec.refill - 1) \div spec.refill)
      BY <1>1, <1>6, <2>2, <3>1, <3>2, <3>5 DEF Verdict
    <3> QED BY <1>1, <1>2, <1>3, <1>4, <1>6, <3>3, <3>4, <3>6
  <2>3. CASE spec.kind # "credit"
    <3>1. used + held + want <= spec.limit => v = Allow
      BY <1>1, <1>6, <2>1, <2>3, SpecFacts DEF Verdict, Kinds
    <3>2. ~(used + held + want <= spec.limit) => \E d : v = Wait(d)
      <4> SUFFICES ASSUME ~(used + held + want <= spec.limit)
                   PROVE  \E d : v = Wait(d)
        OBVIOUS
      <4>1. CASE spec.kind = "fixed"
        BY <1>1, <1>6, <2>1, <4>1 DEF Verdict
      <4>2. CASE spec.kind = "rolling"
        BY <1>1, <1>6, <2>1, <4>2 DEF Verdict
      <4>3. CASE spec.kind = "session"
        BY <1>1, <1>6, <2>1, <4>3 DEF Verdict
      <4> QED BY <2>3, <4>1, <4>2, <4>3, SpecFacts DEF Kinds
    <3> QED BY <1>1, <1>2, <1>3, <1>4, <1>6, <3>1, <3>2
  <2> QED BY <2>2, <2>3
<1> QED BY <1>5, <1>6

\* Explain allows a call exactly when every meter does, and says never exactly
\* when some meter does.
LEMMA ExplainIs ==
  ASSUME NEW t, NEW held, NEW want,
         \A i \in DOMAIN specs : LET v == Verdict(specs[i], meters[i], t, held, want)
                                 IN  v = Allow \/ v = Never \/ v.tag = "wait"
  PROVE  /\ Explain(t, held, want) = Allow <=>
              \A i \in DOMAIN specs : Verdict(specs[i], meters[i], t, held, want) = Allow
         /\ Explain(t, held, want).tag = "never" <=>
              \E i \in DOMAIN specs : Verdict(specs[i], meters[i], t, held, want) = Never
<1> DEFINE v(i) == Verdict(specs[i], meters[i], t, held, want)
           verdicts == {v(i) : i \in DOMAIN specs}
           waits == {x.after : x \in {w \in verdicts : w.tag = "wait"}}
           e == Explain(t, held, want)
<1>1. e = IF Never \in verdicts THEN Never ELSE IF waits # {} THEN Wait(Max(waits)) ELSE Allow
  BY DEF Explain
<1>2. Never \in verdicts <=> \E i \in DOMAIN specs : v(i) = Never
  OBVIOUS
<1>3. waits # {} <=> \E i \in DOMAIN specs : v(i).tag = "wait"
  OBVIOUS
<1>4. /\ Allow.tag = "allow" /\ Never.tag = "never" /\ Allow # Never
      /\ \A d : Wait(d).tag = "wait" /\ Wait(d) # Allow
  BY DEF Allow, Never, Wait
<1>5. \A i \in DOMAIN specs : v(i) = Allow \/ v(i) = Never \/ v(i).tag = "wait"
  OBVIOUS
<1> HIDE DEF v, verdicts, waits, e
<1>6. e = Allow <=> \A i \in DOMAIN specs : v(i) = Allow
  BY <1>1, <1>2, <1>3, <1>4, <1>5
<1>7. e.tag = "never" <=> \E i \in DOMAIN specs : v(i) = Never
  BY <1>1, <1>2, <1>3, <1>4, <1>5
<1> QED BY <1>6, <1>7 DEF v, e

------------------------------------------------------------------------------
(* No overspending. *)

\* The meter h, started earlier and charged the same, never reports more than
\* m: it holds the same window, and of a credit bucket at least the balance.
Covers(spec, h, m) ==
  /\ MeterOK(spec, h) /\ MeterOK(spec, m) /\ h.last_seen <= m.last_seen
  /\ spec.kind = "fixed" => h.window = m.window /\ h.used = m.used
  /\ spec.kind = "rolling" => h.buckets = m.buckets
  /\ spec.kind = "session" => h.open = m.open /\ h.used = m.used
  /\ spec.kind = "credit" => h.at <= m.at /\ h.scaled >= m.scaled

LEMMA CoversBalance ==
  ASSUME NEW spec \in MeterSpecs, spec.kind = "credit", NEW h, NEW m, Covers(spec, h, m),
         NEW t \in Int, m.last_seen <= t
  PROVE  /\ CreditBalance(spec, h, t) \in Int /\ CreditBalance(spec, m, t) \in Int
         /\ CreditBalance(spec, h, t) >= CreditBalance(spec, m, t)
<1>1. /\ CreditOK(spec, h) /\ CreditOK(spec, m) /\ h.at <= m.at /\ h.scaled >= m.scaled
      /\ h.at \in Int /\ m.at \in Int /\ h.scaled \in Int /\ m.scaled \in Int
      /\ h.at <= t /\ m.at <= t
  BY DEF Covers, MeterOK, CreditOK
<1>2. PICK x : x = (t - h.at) * spec.refill
  OBVIOUS
<1>3. PICK y : y = (t - m.at) * spec.refill
  OBVIOUS
<1>4. x \in Int /\ y \in Int /\ y <= x
  <2>1. t - h.at \in Int /\ t - m.at \in Int /\ t - m.at <= t - h.at /\ spec.refill \in Nat
    BY <1>1, SpecFacts
  <2> QED BY <1>2, <1>3, <2>1, TimesMono
<1>5. PICK cap : cap = spec.limit * spec.period
  OBVIOUS
<1>6. cap \in Int
  BY <1>5, SpecFacts
<1>7. CreditBalance(spec, h, t) = IF h.scaled + x <= cap THEN h.scaled + x ELSE cap
  BY <1>1, <1>2, <1>5, Balance
<1>8. CreditBalance(spec, m, t) = IF m.scaled + y <= cap THEN m.scaled + y ELSE cap
  BY <1>1, <1>3, <1>5, Balance
<1> QED BY <1>1, <1>4, <1>6, <1>7, <1>8

LEMMA CoversUsed ==
  ASSUME NEW spec \in MeterSpecs, NEW h, NEW m, Covers(spec, h, m),
         NEW t \in Int, m.last_seen <= t
  PROVE  Used(spec, h, t) <= Used(spec, m, t)
<1>1. MeterOK(spec, h) /\ MeterOK(spec, m) /\ Later(t, h) = t /\ Later(t, m) = t
  BY DEF Covers, MeterOK, Later
<1>2. Used(spec, h, t) \in Int /\ Used(spec, m, t) \in Int
  BY <1>1, UsedType
<1>3. CASE spec.kind = "fixed"
  BY <1>1, <1>2, <1>3, UsedIs DEF Covers
<1>4. CASE spec.kind = "rolling"
  <2>1. h.buckets = m.buckets
    BY <1>4 DEF Covers
  <2>2. LiveBuckets(spec, h, t) = LiveBuckets(spec, m, t)
    BY <2>1 DEF LiveBuckets
  <2>3. Used(spec, h, t) = Used(spec, m, t)
    BY <1>1, <1>4, <2>1, <2>2, UsedIs DEF BucketSpend
  <2> QED BY <1>2, <2>3
<1>5. CASE spec.kind = "session"
  <2>1. h.open = m.open /\ h.used = m.used
    BY <1>5 DEF Covers
  <2>2. SessionOpen(spec, h, t) <=> SessionOpen(spec, m, t)
    BY <2>1 DEF SessionOpen
  <2>3. Used(spec, h, t) = Used(spec, m, t)
    BY <1>1, <1>5, <2>1, <2>2, UsedIs
  <2> QED BY <1>2, <2>3
<1>6. CASE spec.kind = "credit"
  <2>1. PICK x : x = CreditBalance(spec, h, t)
    OBVIOUS
  <2>2. PICK y : y = CreditBalance(spec, m, t)
    OBVIOUS
  <2>3. x \in Int /\ y \in Int /\ y <= x
    BY <1>6, <2>1, <2>2, CoversBalance
  <2>4. y \div spec.period <= x \div spec.period
    BY <2>3, DivMono, SpecFacts
  <2>5. x \div spec.period \in Int /\ y \div spec.period \in Int /\ spec.limit \in Int
    BY <2>3, DivBounds, SpecFacts
  <2>6. /\ Used(spec, h, t) = spec.limit - (x \div spec.period)
        /\ Used(spec, m, t) = spec.limit - (y \div spec.period)
    BY <1>1, <1>6, <2>1, <2>2, UsedIs
  <2> QED BY <2>4, <2>5, <2>6
<1> QED BY <1>3, <1>4, <1>5, <1>6, SpecFacts DEF Kinds

\* The same charge keeps them so, and so does a charge of nothing to m alone.
LEMMA CoversCharge ==
  ASSUME NEW spec \in MeterSpecs, NEW h, NEW m, Covers(spec, h, m),
         NEW t \in Int, m.last_seen <= t, NEW x \in Nat
  PROVE  /\ x > 0 => Covers(spec, Charge(spec, h, t, x), Charge(spec, m, t, x))
         /\ x = 0 => Covers(spec, h, Charge(spec, m, t, x))
<1>1. PICK g : g = Charge(spec, h, t, x)
  OBVIOUS
<1>2. PICK n : n = Charge(spec, m, t, x)
  OBVIOUS
<1>3. MeterOK(spec, h) /\ MeterOK(spec, m) /\ Later(t, h) = t /\ Later(t, m) = t
  BY DEF Covers, MeterOK, Later
<1>4. MeterOK(spec, g) /\ MeterOK(spec, n) /\ g.last_seen = t /\ n.last_seen = t
  BY <1>1, <1>2, <1>3, ChargeOK
<1>5. h.last_seen \in Int /\ m.last_seen \in Int /\ h.last_seen <= t /\ h.last_seen <= m.last_seen
  BY DEF Covers, MeterOK
<1>6. CASE spec.kind = "fixed"
  <2>1. FixedOK(spec, h) /\ FixedOK(spec, m) /\ h.window = m.window /\ h.used = m.used
    BY <1>3, <1>6 DEF Covers, MeterOK
  <2>2. x = 0 => n.window = m.window /\ n.used = m.used
    BY <1>2, <1>6, <2>1, FixedCharge
  <2>3. x > 0 => g.window = n.window /\ g.used = n.used
    <3>1. x > 0 => /\ g.window = Floor(t, spec.period)
                   /\ g.used = (IF h.window = g.window THEN h.used ELSE 0) + x
      BY <1>1, <1>3, <1>6, <2>1, FixedCharge
    <3>2. x > 0 => /\ n.window = Floor(t, spec.period)
                   /\ n.used = (IF m.window = n.window THEN m.used ELSE 0) + x
      BY <1>2, <1>3, <1>6, <2>1, FixedCharge
    <3> QED BY <2>1, <3>1, <3>2
  <2> QED BY <1>1, <1>2, <1>3, <1>4, <1>5, <1>6, <2>1, <2>2, <2>3 DEF Covers
<1>7. CASE spec.kind = "rolling"
  <2>1. RollingOK(spec, h) /\ RollingOK(spec, m) /\ h.buckets = m.buckets
    BY <1>3, <1>7 DEF Covers, MeterOK
  <2>2. LiveBuckets(spec, h, t) = LiveBuckets(spec, m, t)
    BY <2>1 DEF LiveBuckets
  <2>3. x = 0 => n.buckets = m.buckets
    BY <1>2, <1>7, <2>1, RollingCharge
  <2>4. x > 0 => g.buckets = n.buckets
    <3>1. x > 0 => g.buckets = Recharged(h.buckets, LiveBuckets(spec, h, t),
                                         Floor(t, RollingBucket(spec.period)), x)
      BY <1>1, <1>3, <1>7, <2>1, RollingCharge
    <3>2. x > 0 => n.buckets = Recharged(m.buckets, LiveBuckets(spec, m, t),
                                         Floor(t, RollingBucket(spec.period)), x)
      BY <1>2, <1>3, <1>7, <2>1, RollingCharge
    <3> QED BY <2>1, <2>2, <3>1, <3>2
  <2> QED BY <1>1, <1>2, <1>3, <1>4, <1>5, <1>7, <2>1, <2>3, <2>4 DEF Covers
<1>8. CASE spec.kind = "session"
  <2>1. SessionOK(spec, h) /\ SessionOK(spec, m) /\ h.open = m.open /\ h.used = m.used
    BY <1>3, <1>8 DEF Covers, MeterOK
  <2>2. SessionOpen(spec, h, t) <=> SessionOpen(spec, m, t)
    BY <2>1 DEF SessionOpen
  <2>3. x = 0 => n.open = m.open /\ n.used = m.used
    BY <1>2, <1>8, <2>1, SessionCharge
  <2>4. x > 0 => g.open = n.open /\ g.used = n.used
    <3>1. /\ x > 0 /\ SessionOpen(spec, h, t) => g.open = h.open /\ g.used = h.used + x
          /\ x > 0 /\ ~SessionOpen(spec, h, t) => g.open = t /\ g.used = x
      BY <1>1, <1>3, <1>8, <2>1, SessionCharge
    <3>2. /\ x > 0 /\ SessionOpen(spec, m, t) => n.open = m.open /\ n.used = m.used + x
          /\ x > 0 /\ ~SessionOpen(spec, m, t) => n.open = t /\ n.used = x
      BY <1>2, <1>3, <1>8, <2>1, SessionCharge
    <3> QED BY <2>1, <2>2, <3>1, <3>2
  <2> QED BY <1>1, <1>2, <1>3, <1>4, <1>5, <1>8, <2>1, <2>3, <2>4 DEF Covers
<1>9. CASE spec.kind = "credit"
  <2>1. /\ CreditOK(spec, h) /\ CreditOK(spec, m) /\ h.at <= m.at /\ h.scaled >= m.scaled
        /\ h.at \in Int /\ m.at \in Int /\ m.at <= t
    BY <1>3, <1>9 DEF Covers, MeterOK, CreditOK
  <2>2. x = 0 => n.at = m.at /\ n.scaled = m.scaled
    BY <1>2, <1>9, <2>1, CreditCharge
  <2>3. x > 0 => g.at <= n.at /\ g.scaled >= n.scaled
    <3> SUFFICES ASSUME x > 0 PROVE g.at <= n.at /\ g.scaled >= n.scaled
      OBVIOUS
    <3>1. g.at = t /\ g.scaled = CreditBalance(spec, h, t) - x * spec.period
      BY <1>1, <1>3, <1>9, <2>1, CreditCharge
    <3>2. n.at = t /\ n.scaled = CreditBalance(spec, m, t) - x * spec.period
      BY <1>2, <1>3, <1>9, <2>1, CreditCharge
    <3>3. PICK c : c = CreditBalance(spec, h, t)
      OBVIOUS
    <3>4. PICK d : d = CreditBalance(spec, m, t)
      OBVIOUS
    <3>5. c \in Int /\ d \in Int /\ c >= d
      BY <1>9, <3>3, <3>4, CoversBalance
    <3>6. PICK z : z = x * spec.period
      OBVIOUS
    <3>7. z \in Int
      BY <3>6, SpecFacts
    <3> QED BY <3>1, <3>2, <3>3, <3>4, <3>5, <3>6, <3>7
  <2> QED BY <1>1, <1>2, <1>3, <1>4, <1>5, <1>9, <2>1, <2>2, <2>3 DEF Covers
<1> QED BY <1>6, <1>7, <1>8, <1>9, SpecFacts DEF Kinds

LEMMA CoversNew ==
  ASSUME NEW spec \in MeterSpecs, NEW a \in Int, NEW b \in Int, a <= b
  PROVE  Covers(spec, NewMeter(spec, a), NewMeter(spec, b))
<1>1. PICK h : h = NewMeter(spec, a)
  OBVIOUS
<1>2. PICK m : m = NewMeter(spec, b)
  OBVIOUS
<1>3. MeterOK(spec, h) /\ MeterOK(spec, m) /\ h.last_seen = a /\ m.last_seen = b
  BY <1>1, <1>2, NewMeterOK
<1>4. CASE spec.kind = "fixed"
  BY <1>1, <1>2, <1>3, <1>4 DEF Covers, NewMeter
<1>5. CASE spec.kind = "rolling"
  BY <1>1, <1>2, <1>3, <1>5 DEF Covers, NewMeter
<1>6. CASE spec.kind = "session"
  BY <1>1, <1>2, <1>3, <1>6 DEF Covers, NewMeter
<1>7. CASE spec.kind = "credit"
  <2>1. h.at = a /\ m.at = b /\ h.scaled = m.scaled
    BY <1>1, <1>2, <1>7 DEF NewMeter
  <2>2. m.scaled \in Int
    BY <1>3, <1>7 DEF MeterOK, CreditOK
  <2> QED BY <1>1, <1>2, <1>3, <1>7, <2>1, <2>2 DEF Covers
<1> QED BY <1>4, <1>5, <1>6, <1>7, SpecFacts DEF Kinds

LEMMA UsedNew ==
  ASSUME NEW spec \in MeterSpecs, NEW b \in Int
  PROVE  Used(spec, NewMeter(spec, b), b) <= spec.limit
<1>1. PICK m : m = NewMeter(spec, b)
  OBVIOUS
<1>2. MeterOK(spec, m) /\ m.last_seen = b /\ Later(b, m) = b
  BY <1>1, NewMeterOK DEF Later
<1>3. spec.limit \in Nat /\ spec.period \in Nat \ {0}
  BY SpecFacts
<1>4. CASE spec.kind = "fixed"
  <2>1. m.used = 0
    BY <1>1, <1>4 DEF NewMeter
  <2> QED BY <1>1, <1>2, <1>3, <1>4, <2>1, UsedIs
<1>5. CASE spec.kind = "rolling"
  <2>1. m.buckets = [s \in {} |-> 0]
    BY <1>1, <1>5 DEF NewMeter
  <2>2. LiveBuckets(spec, m, b) = {}
    BY <2>1 DEF LiveBuckets
  <2>3. PICK f : f = m.buckets
    OBVIOUS
  <2>4. Total(f, {}) = 0
    BY TotalEmpty
  <2>5. Used(spec, m, b) = 0
    BY <1>2, <1>5, <2>2, <2>3, <2>4, UsedIs DEF BucketSpend
  <2> QED BY <1>1, <1>3, <2>5
<1>6. CASE spec.kind = "session"
  <2>1. m.used = 0
    BY <1>1, <1>6 DEF NewMeter
  <2> QED BY <1>1, <1>2, <1>3, <1>6, <2>1, UsedIs
<1>7. CASE spec.kind = "credit"
  <2>1. m.at = b /\ m.scaled = spec.initial * spec.period /\ spec.initial \in Nat /\ spec.refill \in Nat
    BY <1>1, <1>7, SpecFacts DEF NewMeter
  <2>2. PICK y : y = spec.initial * spec.period
    OBVIOUS
  <2>3. PICK cap : cap = spec.limit * spec.period
    OBVIOUS
  <2>4. y \in Nat /\ cap \in Int /\ y <= cap
    <3>1. CreditOK(spec, m)
      BY <1>2, <1>7 DEF MeterOK
    <3>2. y \in Nat /\ cap \in Int
      BY <1>3, <2>1, <2>2, <2>3
    <3> QED BY <2>1, <2>2, <2>3, <3>1, <3>2 DEF CreditOK
  <2>5. (b - b) * spec.refill = 0
    BY <2>1
  <2>6. CreditOK(spec, m) /\ b >= m.at
    BY <1>2, <1>7, <2>1 DEF MeterOK
  <2>7. CreditBalance(spec, m, b) = IF y + 0 <= cap THEN y + 0 ELSE cap
    BY <1>7, <2>1, <2>2, <2>3, <2>5, <2>6, Balance
  <2>8. CreditBalance(spec, m, b) = y
    BY <2>4, <2>7
  <2>9. y \div spec.period \in Int /\ y \div spec.period >= 0
    <3>1. 0 * spec.period <= y
      BY <1>3, <2>4
    <3> QED BY <1>3, <2>4, <3>1, DivBounds, DivAtLeast
  <2> QED BY <1>1, <1>2, <1>3, <1>7, <2>8, <2>9, UsedIs
<1> QED BY <1>4, <1>5, <1>6, <1>7, SpecFacts DEF Kinds

Restart(i) == Replay(specs[i], Since, live)

\* The inductive strengthening: while a restore may still come, the meters it
\* would start from the live tail alone report no more than those in use.
OverInv ==
  /\ ClockInv /\ ReservedInv /\ NoOverspend
  /\ (restore = "pending" /\ ~setBack) =>
       \A i \in DOMAIN specs : Covers(specs[i], Restart(i), meters[i])

LEMMA OverInit == Init => OverInv
<1> SUFFICES ASSUME Init PROVE OverInv
  OBVIOUS
<1>1. ClockInv /\ ReservedInv
  BY ClockInit, ReservedInit
<1>2. TypeOK
  BY <1>1 DEF ReservedInv
<1>3. \A i \in DOMAIN specs : specs[i] \in MeterSpecs /\ specs[i].limit \in Nat
  BY <1>2, SpecsType, SpecFacts
<1>4. Since \in Int /\ Since <= Boot /\ Boot \in Int
  BY <1>2, SinceFacts, ClockAssumption
<1>5. \A i \in DOMAIN specs : meters[i] = NewMeter(specs[i], Boot)
  BY DEF Init, Meters
<1>6. \A i \in DOMAIN specs : Restart(i) = NewMeter(specs[i], Since)
  BY ReplayNothing DEF Init, Restart
<1>7. \A i \in DOMAIN specs : Covers(specs[i], Restart(i), meters[i])
  BY <1>3, <1>4, <1>5, <1>6, CoversNew
<1>8. ASSUME NEW i \in DOMAIN specs
      PROVE  Used(specs[i], meters[i], clock) + reserved <= specs[i].limit + overrun
  <2>1. clock = Boot /\ reserved = 0 /\ overrun = 0
    BY DEF Init
  <2>2. MeterOK(specs[i], meters[i])
    BY <1>3, <1>4, <1>5, NewMeterOK
  <2>3. Used(specs[i], meters[i], Boot) \in Int
    BY <1>3, <1>4, <2>2, UsedType
  <2>4. Used(specs[i], meters[i], Boot) <= specs[i].limit
    BY <1>3, <1>4, <1>5, UsedNew
  <2> QED BY <1>3, <2>1, <2>3, <2>4
<1> QED BY <1>1, <1>7, <1>8 DEF OverInv, NoOverspend

\* What the invariant says of the meters when the clock was never set back.
LEMMA OverFacts ==
  ASSUME OverInv, ~setBack, NEW i \in DOMAIN specs
  PROVE  /\ specs[i] \in MeterSpecs /\ specs[i].limit \in Nat
         /\ MeterOK(specs[i], meters[i])
         /\ meters[i].last_seen \in Int /\ meters[i].last_seen <= clock
         /\ clock \in Int /\ reserved \in Nat /\ overrun \in Nat
         /\ \A t \in Int : Used(specs[i], meters[i], t) \in Int
         /\ replayed = <<>> =>
              Used(specs[i], meters[i], clock) + reserved <= specs[i].limit + overrun
         /\ restore = "pending" => Covers(specs[i], Restart(i), meters[i])
<1>1. ClockInv /\ ExactInv /\ TypeOK
  BY DEF OverInv, ClockInv, ExactInv
<1>2. /\ specs[i] \in MeterSpecs /\ MeterOK(specs[i], meters[i])
      /\ meters[i].last_seen = CountsAt(All, Len(All), Base)
  BY <1>1, MetersAre
<1>3. meters[i].last_seen \in Int /\ meters[i].last_seen <= clock
  BY <1>1, <1>2, ClockSane
<1>4. clock \in Int /\ reserved \in Nat /\ overrun \in Nat
  BY <1>1 DEF ExactInv, TypeOK
<1>5. specs[i].limit \in Nat /\ \A t \in Int : Used(specs[i], meters[i], t) \in Int
  BY <1>2, SpecFacts, UsedType
<1> QED BY <1>2, <1>3, <1>4, <1>5 DEF OverInv, NoOverspend

\* A step that moves neither the meters nor the live tail.
LEMMA OverFrame ==
  ASSUME OverInv, ClockInv', ReservedInv', NoOverspend',
         UNCHANGED <<specs, meters, live>>, restore' = "pending" => restore = "pending",
         setBack => setBack'
  PROVE  OverInv'
<1>1. Since' = Since
  BY DEF Since
<1>2. \A i \in DOMAIN specs : Restart(i)' = Restart(i)
  BY <1>1 DEF Restart
<1>3. DOMAIN specs' = DOMAIN specs /\ setBack \in BOOLEAN /\ setBack' \in BOOLEAN
  BY DEF OverInv, ReservedInv, TypeOK
<1> QED BY <1>2, <1>3 DEF OverInv

LEMMA OverAdmit ==
  ASSUME OverInv, ClockInv', ReservedInv', NEW c \in Calls, NEW e \in Estimates,
         NEW covered \in BOOLEAN, Admit(c, e, covered)
  PROVE  OverInv'
<1>1. PICK total : total = e.input + e.output_reserve
  OBVIOUS
<1>2. total \in Nat
  BY <1>1, EstimatesAssumption
<1>3. /\ UNCHANGED <<specs, clock, meters, restore, live, replayed, overrun, setBack>>
      /\ \/ reserved' = reserved
         \/ reserved' = reserved + total /\ Explain(clock, reserved, total) = Allow
  BY <1>1 DEF Admit
<1>4. ASSUME ~setBack', replayed' = <<>>, NEW i \in DOMAIN specs'
      PROVE  Used(specs[i], meters[i], clock)' + reserved' <= specs[i]'.limit + overrun'
  <2>1. ~setBack /\ replayed = <<>> /\ i \in DOMAIN specs
    BY <1>3, <1>4
  <2>2. Used(specs[i], meters[i], clock)' = Used(specs[i], meters[i], clock)
    BY <1>3
  <2>3. /\ specs[i] \in MeterSpecs /\ specs[i].limit \in Nat /\ MeterOK(specs[i], meters[i])
        /\ clock \in Int /\ reserved \in Nat /\ overrun \in Nat
        /\ Used(specs[i], meters[i], clock) \in Int
        /\ Used(specs[i], meters[i], clock) + reserved <= specs[i].limit + overrun
    BY <2>1, OverFacts
  <2>4. CASE reserved' = reserved
    BY <1>3, <2>2, <2>3, <2>4
  <2>5. CASE reserved' = reserved + total /\ Explain(clock, reserved, total) = Allow
    <3>1. \A j \in DOMAIN specs : LET v == Verdict(specs[j], meters[j], clock, reserved, total)
                                  IN  v = Allow \/ v = Never \/ v.tag = "wait"
      BY <1>2, <2>1, <2>3, OverFacts, VerdictAllow
    <3>2. Verdict(specs[i], meters[i], clock, reserved, total) = Allow
      BY <2>1, <2>5, <3>1, ExplainIs
    <3>3. Used(specs[i], meters[i], clock) + reserved + total <= specs[i].limit
      BY <1>2, <2>3, <3>2, VerdictAllow
    <3> QED BY <1>2, <1>3, <2>2, <2>3, <2>5, <3>3
  <2> QED BY <1>3, <2>4, <2>5
<1>5. NoOverspend'
  BY <1>4 DEF NoOverspend
<1> QED BY <1>3, <1>5, OverFrame

LEMMA OverFinish ==
  ASSUME OverInv, ClockInv', ReservedInv', NEW c \in Calls, NEW o \in Outcomes,
         NEW u \in Usages, NEW t \in Texts, Finish(c, o, u, t)
  PROVE  OverInv'
<1>1. CASE ~call[c].covered
  <2>1. UNCHANGED <<specs, clock, reserved, meters, restore, live, replayed, overrun, setBack>>
    BY <1>1 DEF Finish
  <2>2. NoOverspend'
    BY <2>1 DEF OverInv, NoOverspend
  <2> QED BY <2>1, <2>2, OverFrame
<1>2. CASE call[c].covered
  <2>1. PICK x : x = ChargeOf(o, call[c].input, u, t)
    OBVIOUS
  <2>2. ReservedInv /\ TypeOK /\ ExactInv /\ Holds(c)
    BY <1>2 DEF OverInv, ReservedInv, ClockInv, Finish, Holds
  <2>3. x \in Nat
    BY <2>1, <2>2, ChargeOfType
  <2>4. PICK total : total = call[c].total
    OBVIOUS
  <2>5. total \in Nat /\ total <= reserved /\ reserved \in Nat
    BY <2>2, <2>4, HeldIsReserved DEF TypeOK
  <2>6. PICK e : e = [at |-> clock, tokens |-> x]
    OBVIOUS
  <2>7. /\ UNCHANGED <<specs, clock, restore, replayed, setBack>>
        /\ reserved' = Max({reserved - total, 0})
        /\ meters' = ChargeAll(meters, e)
        /\ live' = IF restore = "pending" /\ x > 0 THEN Append(live, e) ELSE live
        /\ overrun' = overrun + Max({x - total, 0})
    BY <1>2, <2>1, <2>4, <2>6 DEF Finish, SettleBudget
  <2>8. reserved' = reserved - total
    BY <2>5, <2>7, MaxWithZero
  <2>9. PICK y : y = Max({x - total, 0})
    OBVIOUS
  <2>10. y \in Nat /\ y >= x - total
    BY <2>3, <2>5, <2>9, MaxTwo
  <2>11. \A i \in DOMAIN specs : meters'[i] = Charge(specs[i], meters[i], clock, x)
    <3>1. DOMAIN meters = DOMAIN specs
      BY <2>2 DEF ExactInv, Rebuilt
    <3>2. e.at = clock /\ e.tokens = x
      BY <2>6
    <3> QED BY <2>7, <3>1, <3>2 DEF ChargeAll
  <2>12. ASSUME ~setBack', replayed' = <<>>, NEW i \in DOMAIN specs'
         PROVE  Used(specs[i], meters[i], clock)' + reserved' <= specs[i]'.limit + overrun'
    <3>1. ~setBack /\ replayed = <<>> /\ i \in DOMAIN specs
      BY <2>7, <2>12
    <3>2. PICK used : used = Used(specs[i], meters[i], clock)
      OBVIOUS
    <3>3. /\ specs[i] \in MeterSpecs /\ specs[i].limit \in Nat /\ MeterOK(specs[i], meters[i])
          /\ clock \in Int /\ reserved \in Nat /\ overrun \in Nat /\ used \in Int
          /\ clock >= meters[i].last_seen
          /\ used + reserved <= specs[i].limit + overrun
      BY <3>1, <3>2, OverFacts
    <3>4. Used(specs[i], meters[i], clock)' = used + x
      <4>1. Used(specs[i], Charge(specs[i], meters[i], clock, x), clock) = used + x
        BY <2>3, <3>2, <3>3, UsedCharged
      <4> QED BY <2>7, <2>11, <3>1, <4>1
    <3> QED BY <2>3, <2>5, <2>7, <2>8, <2>9, <2>10, <3>3, <3>4
  <2>13. ASSUME restore' = "pending", ~setBack', NEW i \in DOMAIN specs'
         PROVE  Covers(specs[i], Restart(i), meters[i])'
    <3>1. restore = "pending" /\ ~setBack /\ i \in DOMAIN specs
      BY <2>7, <2>13
    <3>2. PICK h : h = Restart(i)
      OBVIOUS
    <3>3. /\ specs[i] \in MeterSpecs /\ Covers(specs[i], h, meters[i])
          /\ clock \in Int /\ meters[i].last_seen <= clock
      BY <3>1, <3>2, OverFacts
    <3>4. Since' = Since
      BY <2>7 DEF Since
    <3>5. PICK n : n = Charge(specs[i], meters[i], clock, x)
      OBVIOUS
    <3>6. CASE x > 0
      <4>1. live \in Seq(Charges) /\ e \in Charges
        BY <2>2, <2>3, <2>6, <3>3 DEF ExactInv, Charges
      <4>2. Replay(specs[i], Since, Append(live, e)) = Charge(specs[i], h, clock, x)
        BY <2>6, <3>2, <4>1, ReplayAppend DEF Restart
      <4>3. Restart(i)' = Charge(specs[i], h, clock, x)
        BY <2>7, <3>1, <3>4, <3>6, <4>2 DEF Restart
      <4>4. Covers(specs[i], Charge(specs[i], h, clock, x), n)
        BY <2>3, <3>3, <3>5, <3>6, CoversCharge
      <4>5. meters'[i] = n /\ specs'[i] = specs[i]
        BY <2>7, <2>11, <3>1, <3>5
      <4> QED BY <4>3, <4>4, <4>5 DEF Covers, MeterOK, FixedOK, RollingOK, SessionOK, CreditOK
    <3>7. CASE x = 0
      <4>1. Restart(i)' = h
        BY <2>7, <3>2, <3>4, <3>7 DEF Restart
      <4>2. Covers(specs[i], h, n)
        BY <2>3, <3>3, <3>5, <3>7, CoversCharge
      <4>3. meters'[i] = n /\ specs'[i] = specs[i]
        BY <2>7, <2>11, <3>1, <3>5
      <4> QED BY <4>1, <4>2, <4>3 DEF Covers, MeterOK, FixedOK, RollingOK, SessionOK, CreditOK
    <3> QED BY <2>3, <3>6, <3>7
  <2> QED BY <2>12, <2>13 DEF OverInv, NoOverspend
<1> QED BY <1>1, <1>2

LEMMA OverRestore ==
  ASSUME OverInv, ClockInv', ReservedInv', NEW rows \in Histories, Restore(rows)
  PROVE  OverInv'
<1>1. PICK h \in InOrder(Kept(rows)) :
        /\ restore = "pending" /\ restore' = "restored"
        /\ meters' = Rebuilt(Since, h \o live) /\ replayed' = h
        /\ UNCHANGED <<specs, clock, reserved, overrun, setBack>>
  BY DEF Restore
<1>2. ASSUME ~setBack', replayed' = <<>>, NEW i \in DOMAIN specs'
      PROVE  Used(specs[i], meters[i], clock)' + reserved' <= specs[i]'.limit + overrun'
  <2>1. ~setBack /\ h = <<>> /\ i \in DOMAIN specs
    BY <1>1, <1>2
  <2>2. replayed = <<>> /\ live \in Seq(Charges)
    BY <1>1 DEF OverInv, ClockInv, ExactInv
  <2>3. h \o live = live
    BY <2>1, <2>2
  <2>4. meters'[i] = Restart(i)
    BY <1>1, <2>1, <2>3 DEF Rebuilt, Restart
  <2>5. PICK used : used = Used(specs[i], meters[i], clock)
    OBVIOUS
  <2>6. /\ specs[i] \in MeterSpecs /\ specs[i].limit \in Nat
        /\ clock \in Int /\ reserved \in Nat /\ overrun \in Nat /\ used \in Int
        /\ meters[i].last_seen <= clock
        /\ used + reserved <= specs[i].limit + overrun
        /\ Covers(specs[i], Restart(i), meters[i])
    BY <1>1, <2>1, <2>2, <2>5, OverFacts
  <2>7. PICK now : now = Used(specs[i], Restart(i), clock)
    OBVIOUS
  <2>8. now \in Int /\ now <= used
    BY <2>5, <2>6, <2>7, CoversUsed, UsedType DEF Covers
  <2>9. Used(specs[i], meters[i], clock)' = now
    BY <1>1, <2>1, <2>4, <2>7
  <2> QED BY <1>1, <2>6, <2>8, <2>9
<1> QED BY <1>1, <1>2 DEF OverInv, NoOverspend

LEMMA OverTick ==
  ASSUME OverInv, ClockInv', ReservedInv', Tick
  PROVE  OverInv'
<1>1. /\ UNCHANGED <<specs, meters, reserved, restore, live, replayed, overrun, setBack>>
      /\ clock' = clock + 1
  BY DEF Tick
<1>2. ASSUME ~setBack', replayed' = <<>>, NEW i \in DOMAIN specs'
      PROVE  Used(specs[i], meters[i], clock)' + reserved' <= specs[i]'.limit + overrun'
  <2>1. ~setBack /\ replayed = <<>> /\ i \in DOMAIN specs
    BY <1>1, <1>2
  <2>2. /\ specs[i] \in MeterSpecs /\ specs[i].limit \in Nat /\ MeterOK(specs[i], meters[i])
        /\ clock \in Int /\ reserved \in Nat /\ overrun \in Nat
        /\ meters[i].last_seen <= clock
        /\ \A t \in Int : Used(specs[i], meters[i], t) \in Int
        /\ Used(specs[i], meters[i], clock) + reserved <= specs[i].limit + overrun
    BY <2>1, OverFacts
  <2>3. Used(specs[i], meters[i], clock + 1) <= Used(specs[i], meters[i], clock)
    BY <2>2, UsedLater
  <2>4. Used(specs[i], meters[i], clock + 1) \in Int /\ Used(specs[i], meters[i], clock) \in Int
    BY <2>2
  <2>5. Used(specs[i], meters[i], clock)' = Used(specs[i], meters[i], clock + 1)
    BY <1>1
  <2> QED BY <1>1, <2>2, <2>3, <2>4, <2>5
<1>3. NoOverspend'
  BY <1>2 DEF NoOverspend
<1> QED BY <1>1, <1>3, OverFrame

LEMMA OverNext == OverInv /\ ClockInv' /\ ReservedInv' /\ [Next]_vars => OverInv'
<1> SUFFICES ASSUME OverInv, ClockInv', ReservedInv', [Next]_vars PROVE OverInv'
  OBVIOUS
<1>1. CASE \E c \in Calls, e \in Estimates, covered \in BOOLEAN : Admit(c, e, covered)
  BY <1>1, OverAdmit
<1>2. CASE \E c \in Calls, o \in Outcomes, u \in Usages, t \in Texts : Finish(c, o, u, t)
  BY <1>2, OverFinish
<1>3. CASE \E rows \in Histories : Restore(rows)
  BY <1>3, OverRestore
<1>4. CASE AbandonRestore
  BY <1>4 DEF AbandonRestore, OverInv, NoOverspend
<1>5. CASE Tick
  BY <1>5, OverTick
<1>6. CASE SetClockBack
  BY <1>6 DEF SetClockBack, OverInv, NoOverspend
<1>7. CASE UNCHANGED vars
  <2>1. NoOverspend'
    BY <1>7 DEF vars, OverInv, NoOverspend
  <2> QED BY <1>7, <2>1, OverFrame DEF vars
<1> QED BY <1>1, <1>2, <1>3, <1>4, <1>5, <1>6, <1>7 DEF Next

LEMMA OverHolds == Spec => []OverInv
BY OverInit, OverNext, ClockHolds, ReservedHolds, PTL DEF Spec

\* However many calls run at once, whenever they are admitted and settled and
\* whenever the meters are rebuilt, spending and reservations stay within every
\* limit, but for what calls cost beyond their estimates (Budget::reserve,
\* Budget::settle, Budget::restore).
THEOREM NeverOverspends == Spec => []NoOverspend
<1>1. OverInv => NoOverspend
  BY DEF OverInv
<1> QED BY <1>1, OverHolds, PTL

------------------------------------------------------------------------------
(* Honest refusals. *)

Fits(spec, m, t, want) == Used(spec, m, t) + want <= spec.limit

\* The first time from now on at which the call fits is d later.
FirstFit(spec, m, now, want, d) ==
  /\ d \in Nat \ {0}
  /\ Fits(spec, m, now + d, want)
  /\ ~Fits(spec, m, now + d - 1, want)

LEMMA FitsLater ==
  ASSUME NEW spec \in MeterSpecs, NEW m, MeterOK(spec, m), NEW t \in Int, NEW u \in Int,
         m.last_seen <= t, t <= u, NEW want \in Nat, Fits(spec, m, t, want)
  PROVE  Fits(spec, m, u, want)
<1>1. Used(spec, m, t) \in Int /\ Used(spec, m, u) \in Int /\ spec.limit \in Int
  BY UsedType, SpecFacts
<1>2. Used(spec, m, u) <= Used(spec, m, t)
  BY UsedLater
<1> QED BY <1>1, <1>2 DEF Fits

LEMMA FixedWait ==
  ASSUME NEW spec \in MeterSpecs, spec.kind = "fixed", NEW m, MeterOK(spec, m),
         NEW now \in Int, m.last_seen <= now, NEW want \in Nat, want <= spec.limit,
         ~Fits(spec, m, now, want)
  PROVE  FirstFit(spec, m, now, want, Floor(now, spec.period) + spec.period - now)
<1>1. PICK p : p = spec.period
  OBVIOUS
<1>2. p \in Nat \ {0} /\ m.last_seen \in Int /\ spec.limit \in Int
  BY <1>1, SpecFacts DEF MeterOK
<1>3. PICK f : f = Floor(now, p)
  OBVIOUS
<1>4. f \in Int /\ f <= now /\ now < f + p /\ Floor(f + p, p) = f + p
  BY <1>2, <1>3, FloorFacts
<1>5. Floor(f + p - 1, p) = f
  <2>1. f + p - 1 \in Int /\ f <= f + p - 1 /\ f + p - 1 < f + p
    BY <1>2, <1>4
  <2> QED BY <1>2, <1>3, <2>1, FloorFacts
<1>6. PICK z : z = Floor(m.last_seen, p)
  OBVIOUS
<1>7. z \in Int /\ z <= f
  BY <1>2, <1>3, <1>6, FloorFacts
<1>8. m.used \in Nat /\ (m.window = NoWindow \/ (m.window \in Int /\ m.window <= z))
  BY <1>1, <1>6 DEF MeterOK, FixedOK
<1>9. PICK d : d = f + p - now
  OBVIOUS
<1>10. d \in Nat \ {0} /\ now + d = f + p /\ now + d - 1 = f + p - 1
  BY <1>2, <1>4, <1>9
<1>11. Later(now, m) = now /\ Later(f + p, m) = f + p /\ Later(f + p - 1, m) = f + p - 1
  BY <1>2, <1>4 DEF Later
<1>12. f + p \in Int /\ f + p - 1 \in Int
  BY <1>2, <1>4
<1>13. Used(spec, m, now) = IF m.window = f THEN m.used ELSE 0
  BY <1>1, <1>3, <1>11, UsedIs
<1>14. Used(spec, m, f + p) = IF m.window = f + p THEN m.used ELSE 0
  BY <1>1, <1>4, <1>11, <1>12, UsedIs
<1>15. Used(spec, m, f + p - 1) = IF m.window = f THEN m.used ELSE 0
  BY <1>1, <1>5, <1>11, <1>12, UsedIs
<1>16. m.window # f + p
  <2>1. CASE m.window = NoWindow
    BY <1>12, <2>1, NoWindowAssumption
  <2>2. CASE m.window \in Int /\ m.window <= z
    BY <1>2, <1>4, <1>7, <2>2
  <2> QED BY <1>8, <2>1, <2>2
<1>17. Fits(spec, m, f + p, want) /\ ~Fits(spec, m, f + p - 1, want)
  BY <1>2, <1>13, <1>14, <1>15, <1>16 DEF Fits
<1>18. FirstFit(spec, m, now, want, d)
  BY <1>10, <1>17 DEF FirstFit
<1> QED BY <1>1, <1>3, <1>9, <1>18

LEMMA SessionWait ==
  ASSUME NEW spec \in MeterSpecs, spec.kind = "session", NEW m, MeterOK(spec, m),
         NEW now \in Int, m.last_seen <= now, NEW want \in Nat, want <= spec.limit,
         ~Fits(spec, m, now, want)
  PROVE  SessionOpen(spec, m, now) /\ FirstFit(spec, m, now, want, m.open + spec.period - now)
<1>1. PICK p : p = spec.period
  OBVIOUS
<1>2. p \in Nat \ {0} /\ m.last_seen \in Int /\ spec.limit \in Int
  BY <1>1, SpecFacts DEF MeterOK
<1>3. m.used \in Nat /\ m.open \in Int \union {NoWindow}
  BY DEF MeterOK, SessionOK
<1>4. Used(spec, m, now) = IF SessionOpen(spec, m, now) THEN m.used ELSE 0
  BY <1>2, UsedIs DEF Later
<1>5. SessionOpen(spec, m, now)
  BY <1>2, <1>3, <1>4 DEF Fits
<1>6. PICK e : e = m.open + p
  OBVIOUS
<1>7. m.open \in Int /\ m.open # NoWindow /\ e \in Int /\ e > now
  BY <1>1, <1>2, <1>3, <1>5, <1>6 DEF SessionOpen
<1>8. e - 1 \in Int /\ Later(e, m) = e /\ Later(e - 1, m) = e - 1
  BY <1>2, <1>7 DEF Later
<1>9. ~SessionOpen(spec, m, e) /\ SessionOpen(spec, m, e - 1)
  BY <1>1, <1>6, <1>7 DEF SessionOpen
<1>10. Used(spec, m, e) = 0 /\ Used(spec, m, e - 1) = m.used
  BY <1>7, <1>8, <1>9, UsedIs
<1>11. Fits(spec, m, e, want) /\ ~Fits(spec, m, e - 1, want)
  BY <1>2, <1>4, <1>5, <1>10 DEF Fits
<1>12. e - now \in Nat \ {0} /\ now + (e - now) = e /\ now + (e - now) - 1 = e - 1
  BY <1>7
<1>13. FirstFit(spec, m, now, want, e - now)
  BY <1>11, <1>12 DEF FirstFit
<1>14. m.open + spec.period - now = e - now
  BY <1>1, <1>2, <1>6, <1>7
<1> QED BY <1>5, <1>13, <1>14

LEMMA CreditWait ==
  ASSUME NEW spec \in MeterSpecs, spec.kind = "credit", NEW m, MeterOK(spec, m),
         NEW now \in Int, m.last_seen <= now, NEW want \in Nat, want <= spec.limit,
         ~Fits(spec, m, now, want)
  PROVE  FirstFit(spec, m, now, want,
           (want * spec.period - CreditBalance(spec, m, now) + spec.refill - 1) \div spec.refill)
<1>1. PICK need : need = want * spec.period
  OBVIOUS
<1>2. PICK cap : cap = spec.limit * spec.period
  OBVIOUS
<1>3. PICK r : r = spec.refill
  OBVIOUS
<1>4. need \in Int /\ cap \in Int /\ need <= cap /\ r \in Nat \ {0}
  BY <1>1, <1>2, <1>3, SpecFacts, TimesMono
<1>5. /\ CreditOK(spec, m) /\ m.at \in Int /\ m.scaled \in Int /\ m.last_seen \in Int
      /\ m.at <= now
  BY DEF MeterOK, CreditOK
<1>6. PICK s : s = m.scaled + (now - m.at) * r
  OBVIOUS
<1>7. s \in Int /\ CreditBalance(spec, m, now) = IF s <= cap THEN s ELSE cap
  BY <1>2, <1>3, <1>5, <1>6, Balance
<1>8. ASSUME NEW t \in Int, now <= t
      PROVE  Fits(spec, m, t, want) <=> CreditBalance(spec, m, t) >= need
  <2>1. Later(t, m) = t
    BY <1>5, <1>8 DEF Later
  <2> QED BY <1>1, <1>8, <2>1, CreditFits DEF Fits
<1>9. CreditBalance(spec, m, now) = s /\ s < need
  <2>1. ~(CreditBalance(spec, m, now) >= need)
    BY <1>8
  <2> QED BY <1>4, <1>7, <2>1
<1>10. PICK d : d = (need - s + r - 1) \div r
  OBVIOUS
<1>11. d \in Nat \ {0} /\ need - s <= d * r /\ (d - 1) * r < need - s
  <2>1. PICK x : x = need - s
    OBVIOUS
  <2>2. x \in Nat \ {0} /\ d = (x + r - 1) \div r
    BY <1>4, <1>7, <1>9, <1>10, <2>1
  <2> QED BY <1>4, <2>1, <2>2, CeilFacts
<1>12. ASSUME NEW k \in Nat
       PROVE  /\ k * r \in Int
              /\ CreditBalance(spec, m, now + k) = IF s + k * r <= cap THEN s + k * r ELSE cap
  <2>1. now + k \in Int /\ now + k >= m.at
    BY <1>5
  <2>2. (now + k - m.at) * r = (now - m.at) * r + k * r
    BY <1>4, <1>5
  <2>3. k * r \in Int /\ (now - m.at) * r \in Int
    BY <1>4, <1>5
  <2>4. m.scaled + (now + k - m.at) * r = s + k * r
    BY <1>5, <1>6, <2>2, <2>3
  <2> QED BY <1>2, <1>3, <1>5, <2>1, <2>3, <2>4, Balance
<1>13. CreditBalance(spec, m, now + d) >= need
  BY <1>4, <1>7, <1>11, <1>12
<1>14. ~(CreditBalance(spec, m, now + (d - 1)) >= need)
  <2>1. d - 1 \in Nat
    BY <1>11
  <2> QED BY <1>4, <1>7, <1>11, <1>12, <2>1
<1>15. /\ now + d \in Int /\ now <= now + d
       /\ now + (d - 1) \in Int /\ now <= now + (d - 1) /\ now + (d - 1) = now + d - 1
  BY <1>11
<1>16. FirstFit(spec, m, now, want, d)
  BY <1>8, <1>11, <1>13, <1>14, <1>15 DEF FirstFit
<1> QED BY <1>1, <1>3, <1>9, <1>10, <1>16

\* The buckets whose expiry, oldest first, makes room for the call.
Enough(spec, m, now, want) ==
  {s \in LiveBuckets(spec, m, now) :
     BucketSpend(m, {r \in LiveBuckets(spec, m, now) : r > s}) + 0 + want <= spec.limit}

LEMMA RollingWait ==
  ASSUME NEW spec \in MeterSpecs, spec.kind = "rolling", NEW m, MeterOK(spec, m),
         NEW now \in Int, m.last_seen <= now, NEW want \in Nat, want <= spec.limit,
         ~Fits(spec, m, now, want)
  PROVE  /\ Enough(spec, m, now, want) # {}
         /\ FirstFit(spec, m, now, want,
              Min(Enough(spec, m, now, want)) + RollingExpiry(spec.period) - now)
<1>1. PICK E : E = RollingExpiry(spec.period)
  OBVIOUS
<1>2. PICK D : D = DOMAIN m.buckets
  OBVIOUS
<1>3. PICK f : f = m.buckets
  OBVIOUS
<1>4. PICK alive : alive = LiveBuckets(spec, m, now)
  OBVIOUS
<1>5. E \in Nat \ {0} /\ m.last_seen \in Int /\ spec.limit \in Int
  BY <1>1, RollingFacts, SpecFacts DEF MeterOK
<1>6. /\ IsFiniteSet(alive) /\ alive \subseteq D /\ alive \subseteq Int /\ D \subseteq Int
      /\ \A s \in alive : f[s] \in Int
  BY <1>2, <1>3, <1>4, LiveFacts DEF MeterOK
<1>7. \A T \in SUBSET alive : Total(f, T) \in Int
  BY <1>6, TotalInt
<1>8. ASSUME NEW t \in Int, now <= t
      PROVE  Used(spec, m, t) = Total(f, {s \in D : s + E > t})
  <2>1. Later(t, m) = t
    BY <1>5, <1>8 DEF Later
  <2>2. LiveBuckets(spec, m, t) = {s \in D : s + E > t}
    BY <1>1, <1>2 DEF LiveBuckets
  <2> QED BY <1>3, <1>8, <2>1, <2>2, UsedIs DEF BucketSpend
<1>9. alive = {s \in D : s + E > now}
  BY <1>1, <1>2, <1>4 DEF LiveBuckets
<1>10. Used(spec, m, now) = Total(f, alive) /\ alive \in SUBSET alive
  BY <1>8, <1>9
<1>11. ~(Total(f, alive) + want <= spec.limit)
  BY <1>10 DEF Fits
<1> DEFINE after(s) == {r \in alive : r > s}
           from(s) == {r \in alive : r >= s}
           room == {s \in alive : Total(f, after(s)) + want <= spec.limit}
<1>12. Enough(spec, m, now, want) = room
  <2>1. \A s \in alive : BucketSpend(m, after(s)) = Total(f, after(s))
    BY <1>3 DEF BucketSpend
  <2>2. \A s \in alive : Total(f, after(s)) \in Int
    BY <1>7
  <2>3. \A s \in alive : BucketSpend(m, after(s)) + 0 + want <= spec.limit
                          <=> Total(f, after(s)) + want <= spec.limit
    <3> SUFFICES ASSUME NEW s \in alive
                 PROVE  BucketSpend(m, after(s)) + 0 + want <= spec.limit
                          <=> Total(f, after(s)) + want <= spec.limit
      OBVIOUS
    <3>1. PICK x : x = Total(f, after(s))
      OBVIOUS
    <3>2. x \in Int /\ BucketSpend(m, after(s)) = x
      BY <2>1, <2>2, <3>1
    <3> HIDE DEF after
    <3> QED BY <1>5, <3>1, <3>2
  <2> QED BY <1>4, <2>3 DEF Enough
<1>13. alive # {}
  <2>1. ASSUME alive = {} PROVE FALSE
    <3>1. Total(f, {}) = 0
      BY TotalEmpty
    <3>2. Total(f, alive) = 0
      BY <2>1, <3>1
    <3> QED BY <1>5, <1>11, <3>2
  <2> QED BY <2>1
<1>14. room # {}
  <2>1. PICK z : z = Max(alive)
    OBVIOUS
  <2>2. z \in alive /\ \A y \in alive : z >= y
    BY <1>6, <1>13, <2>1, MaxIn
  <2>3. after(z) = {}
    <3>1. \A r \in alive : ~(r > z)
      BY <1>6, <2>2
    <3> QED BY <3>1, Zenon
  <2>4. Total(f, {}) = 0
    BY TotalEmpty
  <2>5. Total(f, after(z)) + want <= spec.limit
    <3>1. Total(f, after(z)) = 0
      BY <2>3, <2>4
    <3> HIDE DEF after
    <3> QED BY <1>5, <3>1
  <2> QED BY <2>2, <2>5
<1>15. PICK s : s = Min(room)
  OBVIOUS
<1>16. s \in room /\ \A y \in room : s <= y
  <2>1. room \in SUBSET Int /\ IsFiniteSet(room)
    BY <1>6, FS_Subset
  <2> HIDE DEF room
  <2> QED BY <1>14, <1>15, <2>1, MinIn
<1>17. s \in alive /\ s \in Int /\ s + E > now /\ Total(f, after(s)) + want <= spec.limit
  BY <1>6, <1>9, <1>16
<1>18. ~(Total(f, from(s)) + want <= spec.limit)
  <2> DEFINE before == {r \in alive : r < s}
  <2>1. CASE before = {}
    <3>1. from(s) = alive
      <4>1. \A r \in alive : ~(r < s)
        BY <2>1
      <4>2. \A r \in alive : r >= s
        BY <1>6, <1>17, <4>1
      <4> QED BY <4>2, Zenon
    <3> HIDE DEF from
    <3> QED BY <1>11, <3>1
  <2>2. CASE before # {}
    <3>1. before \in SUBSET Int /\ IsFiniteSet(before)
      BY <1>6, FS_Subset
    <3>2. PICK z : z = Max(before)
      OBVIOUS
    <3>3. z \in before /\ \A y \in before : z >= y
      <4> HIDE DEF before
      <4> QED BY <2>2, <3>1, <3>2, MaxIn
    <3>4. z \in alive /\ z < s
      BY <3>3
    <3>5. after(z) = from(s)
      <4>1. \A r \in alive : r < s => z >= r
        BY <3>3
      <4>2. \A r \in alive : r > z <=> r >= s
        BY <1>6, <1>17, <3>4, <4>1
      <4> QED BY <4>2, Zenon
    <3>6. z \notin room
      BY <1>6, <1>16, <1>17, <3>4
    <3>7. ~(Total(f, after(z)) + want <= spec.limit)
      BY <3>4, <3>6
    <3> HIDE DEF after, from
    <3> QED BY <3>5, <3>7
  <2> QED BY <2>1, <2>2
<1>19. PICK e : e = s + E
  OBVIOUS
<1>20. e \in Int /\ e - 1 \in Int /\ now <= e /\ now <= e - 1
  BY <1>5, <1>17, <1>19
<1>21. {r \in D : r + E > e} = after(s)
  <2>1. \A r \in D : r \in Int /\ (r + E > e <=> r + E > now /\ r > s)
    BY <1>5, <1>6, <1>17, <1>19
  <2> QED BY <1>9, <2>1
<1>22. {r \in D : r + E > e - 1} = from(s)
  <2>1. \A r \in D : r \in Int /\ (r + E > e - 1 <=> r + E > now /\ r >= s)
    BY <1>5, <1>6, <1>17, <1>19
  <2> QED BY <1>9, <2>1
<1>23. Fits(spec, m, e, want) /\ ~Fits(spec, m, e - 1, want)
  <2>1. Used(spec, m, e) = Total(f, after(s)) /\ Used(spec, m, e - 1) = Total(f, from(s))
    BY <1>8, <1>20, <1>21, <1>22
  <2> HIDE DEF after, from
  <2> QED BY <1>17, <1>18, <2>1 DEF Fits
<1>24. e - now \in Nat \ {0} /\ now + (e - now) = e /\ now + (e - now) - 1 = e - 1
  BY <1>5, <1>17, <1>19
<1>25. FirstFit(spec, m, now, want, e - now)
  BY <1>23, <1>24 DEF FirstFit
<1>26. Min(Enough(spec, m, now, want)) + RollingExpiry(spec.period) - now = e - now
  <2> HIDE DEF room
  <2> QED BY <1>1, <1>5, <1>12, <1>15, <1>17, <1>19
<1> HIDE DEF room
<1> QED BY <1>12, <1>14, <1>25, <1>26

\* With nothing in flight, a verdict allows exactly the calls that fit, and one
\* that says wait names the first moment at which the call fits.
LEMMA WaitIsExact ==
  ASSUME NEW spec \in MeterSpecs, NEW m, MeterOK(spec, m), NEW now \in Int,
         m.last_seen <= now, NEW want \in Nat, want <= spec.limit
  PROVE  /\ Verdict(spec, m, now, 0, want) = Allow <=> Fits(spec, m, now, want)
         /\ ~Fits(spec, m, now, want) =>
              /\ Verdict(spec, m, now, 0, want).tag = "wait"
              /\ FirstFit(spec, m, now, want, Verdict(spec, m, now, 0, want).after)
<1>1. PICK v : v = Verdict(spec, m, now, 0, want)
  OBVIOUS
<1>2. PICK used : used = Used(spec, m, now)
  OBVIOUS
<1>3. /\ used \in Int /\ spec.limit \in Int /\ spec.period \in Nat \ {0}
      /\ used + 0 + want = used + want /\ 0 + 0 + want = want
  BY <1>2, UsedType, SpecFacts
<1>4. v = Allow <=> Fits(spec, m, now, want)
  <2>1. v = Allow <=> want <= spec.limit /\ used + 0 + want <= spec.limit
    BY <1>1, <1>2, VerdictAllow
  <2> QED BY <1>2, <1>3, <2>1 DEF Fits
<1>5. ASSUME ~Fits(spec, m, now, want)
      PROVE  v.tag = "wait" /\ FirstFit(spec, m, now, want, v.after)
  <2>1. Max({now, m.last_seen}) = now /\ Used(spec, m, now) = used
    BY <1>2, LaterIs DEF MeterOK, Later
  <2>2. ~(want > spec.limit)
    BY <1>3
  <2>3. ~(used + 0 + want <= spec.limit) /\ 0 + 0 + want <= spec.limit
    BY <1>2, <1>3, <1>5 DEF Fits
  <2>4. \A d : FirstFit(spec, m, now, want, d) =>
          Wait(d).tag = "wait" /\ FirstFit(spec, m, now, want, Wait(d).after)
    <3>1. ASSUME NEW d, FirstFit(spec, m, now, want, d)
          PROVE  Wait(d).tag = "wait" /\ Wait(d).after = d
      <4>1. d \in Int /\ d >= 0
        BY <3>1 DEF FirstFit
      <4> QED BY <4>1, MaxWithZero DEF Wait
    <3> QED BY <3>1
  <2>5. CASE spec.kind = "fixed"
    <3>1. v = Wait(Floor(now, spec.period) + spec.period - now)
      BY <1>1, <2>1, <2>2, <2>3, <2>5 DEF Verdict
    <3>2. FirstFit(spec, m, now, want, Floor(now, spec.period) + spec.period - now)
      BY <1>5, <2>5, FixedWait
    <3> QED BY <2>4, <3>1, <3>2
  <2>6. CASE spec.kind = "rolling"
    <3>1. /\ Enough(spec, m, now, want) # {}
          /\ FirstFit(spec, m, now, want,
               Min(Enough(spec, m, now, want)) + RollingExpiry(spec.period) - now)
      BY <1>5, <2>6, RollingWait
    <3>2. v = IF Enough(spec, m, now, want) # {}
              THEN Wait(Min(Enough(spec, m, now, want)) + RollingExpiry(spec.period) - now)
              ELSE Wait(ReservationWait)
      BY <1>1, <2>1, <2>2, <2>3, <2>6 DEF Verdict, Enough
    <3> QED BY <2>4, <3>1, <3>2
  <2>7. CASE spec.kind = "session"
    <3>1. SessionOpen(spec, m, now) /\ FirstFit(spec, m, now, want, m.open + spec.period - now)
      BY <1>5, <2>7, SessionWait
    <3>2. v = Wait(m.open + spec.period - now)
      BY <1>1, <2>1, <2>2, <2>3, <2>7, <3>1 DEF Verdict
    <3> QED BY <2>4, <3>1, <3>2
  <2>8. CASE spec.kind = "credit"
    <3>1. PICK b : b = CreditBalance(spec, m, now)
      OBVIOUS
    <3>2. 0 + want = want /\ spec.refill # 0
      BY <2>8, SpecFacts
    <3>3. v = IF b >= want * spec.period THEN Allow
              ELSE Wait((want * spec.period - b + spec.refill - 1) \div spec.refill)
      BY <1>1, <2>1, <2>2, <2>8, <3>1, <3>2 DEF Verdict
    <3>4. v = Wait((want * spec.period - b + spec.refill - 1) \div spec.refill)
      BY <1>4, <1>5, <3>3
    <3>5. FirstFit(spec, m, now, want,
            (want * spec.period - b + spec.refill - 1) \div spec.refill)
      BY <1>5, <2>8, <3>1, CreditWait
    <3> QED BY <2>4, <3>4, <3>5
  <2> QED BY <2>5, <2>6, <2>7, <2>8, SpecFacts DEF Kinds
<1> QED BY <1>1, <1>4, <1>5

\* The times from which on every meter reads the clock as it is.
Present(t) == t \in Int /\ \A i \in DOMAIN specs : meters[i].last_seen <= t

LEMMA ExplainFits ==
  ASSUME ExactInv, NEW want \in Nat, NEW t \in Int, Present(t)
  PROVE  /\ Explain(t, 0, want).tag = "never" <=> \E i \in DOMAIN specs : want > specs[i].limit
         /\ Explain(t, 0, want) = Allow <=>
              \A i \in DOMAIN specs : want <= specs[i].limit /\ Fits(specs[i], meters[i], t, want)
<1>1. \A i \in DOMAIN specs : /\ specs[i] \in MeterSpecs /\ specs[i].limit \in Nat
                              /\ MeterOK(specs[i], meters[i])
  BY MetersAre, SpecFacts
<1>2. ASSUME NEW i \in DOMAIN specs
      PROVE  LET v == Verdict(specs[i], meters[i], t, 0, want)
             IN  v = Allow \/ v = Never \/ v.tag = "wait"
  <2>1. \/ Verdict(specs[i], meters[i], t, 0, want) = Allow
        \/ Verdict(specs[i], meters[i], t, 0, want) = Never
        \/ Verdict(specs[i], meters[i], t, 0, want).tag = "wait"
    BY <1>1, VerdictAllow
  <2> QED BY <2>1
<1>3. ASSUME NEW i \in DOMAIN specs
      PROVE  Verdict(specs[i], meters[i], t, 0, want) = Never <=> want > specs[i].limit
  BY <1>1, VerdictAllow
<1>4. ASSUME NEW i \in DOMAIN specs
      PROVE  Verdict(specs[i], meters[i], t, 0, want) = Allow <=>
               want <= specs[i].limit /\ Fits(specs[i], meters[i], t, want)
  <2>1. CASE want <= specs[i].limit
    BY <1>1, <2>1, WaitIsExact DEF Present
  <2>2. CASE ~(want <= specs[i].limit)
    BY <1>1, <2>2, VerdictAllow
  <2> QED BY <2>1, <2>2
<1>5. /\ Explain(t, 0, want) = Allow <=>
           \A i \in DOMAIN specs : Verdict(specs[i], meters[i], t, 0, want) = Allow
      /\ Explain(t, 0, want).tag = "never" <=>
           \E i \in DOMAIN specs : Verdict(specs[i], meters[i], t, 0, want) = Never
  BY <1>2, ExplainIs
<1> QED BY <1>3, <1>4, <1>5

\* The wait that Explain answers is one of the meters', and the longest.
LEMMA ExplainWait ==
  ASSUME ExactInv, NEW want \in Nat, NEW t \in Int, Present(t),
         Explain(t, 0, want).tag = "wait"
  PROVE  LET a == Explain(t, 0, want).after
         IN  /\ a \in Nat \ {0}
             /\ \A i \in DOMAIN specs : want <= specs[i].limit
             /\ \E i \in DOMAIN specs : FirstFit(specs[i], meters[i], t, want, a)
             /\ \A i \in DOMAIN specs :
                  \/ Fits(specs[i], meters[i], t, want)
                  \/ \E d \in Nat : d <= a /\ FirstFit(specs[i], meters[i], t, want, d)
<1> DEFINE v(i) == Verdict(specs[i], meters[i], t, 0, want)
           verdicts == {v(i) : i \in DOMAIN specs}
           waits == {x.after : x \in {w \in verdicts : w.tag = "wait"}}
           g == [i \in DOMAIN specs |-> v(i).after]
           e == Explain(t, 0, want)
<1>1. e = IF Never \in verdicts THEN Never ELSE IF waits # {} THEN Wait(Max(waits)) ELSE Allow
  BY DEF Explain
<1>2. e.tag = "wait" /\ Never.tag # "wait" /\ Allow.tag # "wait"
  BY DEF Never, Allow
<1>3. e = Wait(Max(waits)) /\ waits # {}
  <2> HIDE DEF e, waits, verdicts
  <2> QED BY <1>1, <1>2
<1>4. \A i \in DOMAIN specs : /\ specs[i] \in MeterSpecs /\ specs[i].limit \in Nat
                              /\ MeterOK(specs[i], meters[i])
  BY MetersAre, SpecFacts
<1>5. \A i \in DOMAIN specs : want <= specs[i].limit
  <2>1. e.tag # "never"
    <3> HIDE DEF e
    <3> QED BY <1>2
  <2>2. ~\E i \in DOMAIN specs : want > specs[i].limit
    BY <2>1, ExplainFits
  <2> QED BY <1>4, <2>2
<1>6. ASSUME NEW i \in DOMAIN specs
      PROVE  /\ v(i) = Allow <=> Fits(specs[i], meters[i], t, want)
             /\ ~Fits(specs[i], meters[i], t, want) =>
                  v(i).tag = "wait" /\ FirstFit(specs[i], meters[i], t, want, v(i).after)
  BY <1>4, <1>5, WaitIsExact DEF Present
<1>7. ASSUME NEW i \in DOMAIN specs, v(i).tag = "wait"
      PROVE  FirstFit(specs[i], meters[i], t, want, v(i).after) /\ v(i).after \in waits
  <2>1. v(i).after \in waits
    BY <1>7
  <2> HIDE DEF v
  <2> QED BY <1>2, <1>6, <1>7, <2>1
<1>8. \A x \in waits : \E i \in DOMAIN specs : v(i).tag = "wait" /\ x = v(i).after
  OBVIOUS
<1>9. waits \in SUBSET Int /\ IsFiniteSet(waits)
  <2>1. waits \subseteq Nat
    <3> HIDE DEF v, waits
    <3> QED BY <1>7, <1>8 DEF FirstFit
  <2>2. IsFiniteSet({g[i] : i \in DOMAIN specs})
    <3>1. IsFiniteSet(DOMAIN specs)
      BY SpecsType DEF ExactInv
    <3> HIDE DEF g
    <3> QED BY <3>1, ImageFinite
  <2>3. waits \subseteq {g[i] : i \in DOMAIN specs}
    <3>1. \A i \in DOMAIN specs : g[i] = v(i).after
      OBVIOUS
    <3> HIDE DEF v, waits, g
    <3> QED BY <1>8, <3>1
  <2> DEFINE G == {g[i] : i \in DOMAIN specs}
  <2>4. IsFiniteSet(G) /\ waits \subseteq G
    BY <2>2, <2>3
  <2> HIDE DEF waits, g, G
  <2>5. IsFiniteSet(waits)
    BY <2>4, FS_Subset
  <2> QED BY <2>1, <2>5
<1> HIDE DEF v, verdicts, waits, g, e
<1>10. PICK a : a = Max(waits)
  OBVIOUS
<1>11. a \in waits /\ \A y \in waits : a >= y
  BY <1>3, <1>9, <1>10, MaxIn
<1>12. PICK j \in DOMAIN specs : v(j).tag = "wait" /\ a = v(j).after
  BY <1>8, <1>11
<1>13. FirstFit(specs[j], meters[j], t, want, a) /\ a \in Nat \ {0}
  BY <1>7, <1>12 DEF FirstFit
<1>14. e.after = a
  <2>1. a \in Int /\ a >= 0
    BY <1>13
  <2>2. Max({a, 0}) = a
    BY <2>1, MaxWithZero
  <2> QED BY <1>3, <1>10, <2>2 DEF Wait
<1>15. ASSUME NEW i \in DOMAIN specs, ~Fits(specs[i], meters[i], t, want)
       PROVE  \E d \in Nat : d <= a /\ FirstFit(specs[i], meters[i], t, want, d)
  <2>1. v(i).tag = "wait"
    BY <1>6, <1>15
  <2>2. FirstFit(specs[i], meters[i], t, want, v(i).after) /\ v(i).after \in waits
    BY <1>7, <2>1
  <2>3. v(i).after \in Nat /\ v(i).after <= a
    BY <1>11, <1>13, <2>2 DEF FirstFit
  <2> QED BY <2>2, <2>3
<1> QED BY <1>5, <1>12, <1>13, <1>14, <1>15 DEF e

LEMMA RetryHonest ==
  ASSUME ExactInv, NEW want \in Nat, NEW now \in Int, Present(now)
  PROVE  /\ Explain(now, 0, want).tag = "wait" =>
              /\ Explain(now + Explain(now, 0, want).after, 0, want) = Allow
              /\ \A t \in now .. (now + Explain(now, 0, want).after - 1) :
                   Explain(t, 0, want) # Allow
         /\ Explain(now, 0, want).tag = "never" <=> \E i \in DOMAIN specs : want > specs[i].limit
<1>1. ASSUME Explain(now, 0, want).tag = "wait"
      PROVE  /\ Explain(now + Explain(now, 0, want).after, 0, want) = Allow
             /\ \A t \in now .. (now + Explain(now, 0, want).after - 1) :
                  Explain(t, 0, want) # Allow
  <2>1. PICK a : a = Explain(now, 0, want).after
    OBVIOUS
  <2>2. /\ a \in Nat \ {0}
        /\ \A i \in DOMAIN specs : want <= specs[i].limit
        /\ \E i \in DOMAIN specs : FirstFit(specs[i], meters[i], now, want, a)
        /\ \A i \in DOMAIN specs :
             \/ Fits(specs[i], meters[i], now, want)
             \/ \E d \in Nat : d <= a /\ FirstFit(specs[i], meters[i], now, want, d)
    BY <1>1, <2>1, ExplainWait
  <2>3. \A i \in DOMAIN specs : /\ specs[i] \in MeterSpecs /\ MeterOK(specs[i], meters[i])
                                /\ meters[i].last_seen \in Int /\ meters[i].last_seen <= now
    BY MetersAre DEF Present, MeterOK
  <2>4. ASSUME NEW i \in DOMAIN specs
        PROVE  Fits(specs[i], meters[i], now + a, want)
    <3>1. CASE Fits(specs[i], meters[i], now, want)
      <4>1. now + a \in Int /\ now <= now + a
        BY <2>2
      <4> QED BY <2>3, <3>1, <4>1, FitsLater
    <3>2. CASE ~Fits(specs[i], meters[i], now, want)
      <4>1. PICK d \in Nat : d <= a /\ FirstFit(specs[i], meters[i], now, want, d)
        BY <2>2, <3>2
      <4>2. Fits(specs[i], meters[i], now + d, want)
        BY <4>1 DEF FirstFit
      <4>3. now + d \in Int /\ now + a \in Int /\ now + d <= now + a /\ meters[i].last_seen <= now + d
        BY <2>2, <2>3, <4>1
      <4> QED BY <2>3, <4>2, <4>3, FitsLater
    <3> QED BY <3>1, <3>2
  <2>5. Explain(now + a, 0, want) = Allow
    <3>1. now + a \in Int /\ Present(now + a)
      BY <2>2, <2>3 DEF Present
    <3> QED BY <2>2, <2>4, <3>1, ExplainFits
  <2>6. ASSUME NEW t \in now .. (now + a - 1)
        PROVE  Explain(t, 0, want) # Allow
    <3>1. t \in Int /\ now + a - 1 \in Int /\ now <= t /\ t <= now + a - 1
      BY <2>2
    <3>2. Present(t)
      BY <2>3, <3>1 DEF Present
    <3>3. PICK i \in DOMAIN specs : FirstFit(specs[i], meters[i], now, want, a)
      BY <2>2
    <3>4. ~Fits(specs[i], meters[i], now + a - 1, want)
      BY <3>3 DEF FirstFit
    <3>5. meters[i].last_seen <= t
      BY <3>2 DEF Present
    <3>6. ~Fits(specs[i], meters[i], t, want)
      BY <2>3, <3>1, <3>4, <3>5, FitsLater
    <3> QED BY <3>1, <3>2, <3>6, ExplainFits
  <2> QED BY <2>1, <2>5, <2>6
<1> QED BY <1>1, ExplainFits

\* A refusal is honest at every moment of every run: the retry time is exact,
\* and "never" is said only of a call larger than a limit (Meter::verdict,
\* Budget::explain).
THEOREM RetriesAreHonest == Spec => []HonestRetry
<1>1. ASSUME ExactInv PROVE HonestRetry
  <2>1. PICK now : now = Max({clock} \union {meters[i].last_seen : i \in DOMAIN specs})
    OBVIOUS
  <2>2. now \in Int /\ Present(now)
    <3> DEFINE g == [i \in DOMAIN specs |-> meters[i].last_seen]
               A == {meters[i].last_seen : i \in DOMAIN specs}
               S == A \union {clock}
    <3>1. A = {g[i] : i \in DOMAIN specs} /\ {clock} \union A = S
      OBVIOUS
    <3>2. A \subseteq Int /\ clock \in Int /\ \A i \in DOMAIN specs : meters[i].last_seen \in A
      BY <1>1, MetersAre DEF MeterOK, ExactInv, TypeOK
    <3>3. IsFiniteSet(A)
      <4>1. IsFiniteSet(DOMAIN specs)
        BY <1>1, SpecsType DEF ExactInv
      <4> HIDE DEF g, A
      <4> QED BY <3>1, <4>1, ImageFinite
    <3>4. IsFiniteSet(S) /\ S \in SUBSET Int /\ S # {}
      <4> HIDE DEF A
      <4> QED BY <3>2, <3>3, FS_AddElement
    <3>5. now = Max(S)
      BY <2>1, <3>1
    <3> HIDE DEF A
    <3>6. now \in Int /\ \A y \in S : now >= y
      <4> HIDE DEF S
      <4> QED BY <3>4, <3>5, MaxIn
    <3> QED BY <3>2, <3>6 DEF Present
  <2>3. Wants \subseteq Nat
    <3>1. \A i \in DOMAIN specs : specs[i].limit \in Nat
      BY <1>1, MetersAre, SpecFacts
    <3> QED BY <3>1 DEF Wants
  <2>4. ASSUME NEW want \in Wants
        PROVE  /\ Explain(now, 0, want).tag = "wait" =>
                    /\ Explain(now + Explain(now, 0, want).after, 0, want) = Allow
                    /\ \A t \in now .. (now + Explain(now, 0, want).after - 1) :
                         Explain(t, 0, want) # Allow
               /\ Explain(now, 0, want).tag = "never" <=>
                    \E i \in DOMAIN specs : want > specs[i].limit
    BY <1>1, <2>2, <2>3, RetryHonest
  <2> QED BY <2>1, <2>4 DEF HonestRetry
<1> QED BY <1>1, ExactHolds, PTL
==============================================================================
