----------------------------- MODULE NatLemmas ------------------------------
(***************************************************************************)
(* Least and greatest elements of sets of numbers, induction in the form   *)
(* that speaks of a set where the library speaks of an operator, and with  *)
(* it the sums over finite sets (SumFunctionOnSet of Functions).           *)
(***************************************************************************)
EXTENDS Integers, Functions, FiniteSetTheorems, WellFoundedInduction, TLAPS

NatOrder == {p \in Nat \X Nat : p[1] < p[2]}

LEMMA NatOrderWellFounded == IsWellFoundedOn(NatOrder, Nat)
BY NatLessThanWellFounded DEF OpToRel, NatOrder

LEMMA LessInOrder ==
  ASSUME NEW x \in Nat, NEW y \in Nat, y < x
  PROVE  <<y, x>> \in NatOrder
<1> DEFINE p == <<y, x>>
<1>1. p \in Nat \X Nat /\ p[1] = y /\ p[2] = x
  OBVIOUS
<1> HIDE DEF p
<1>2. p \in NatOrder
  BY <1>1 DEF NatOrder
<1> QED BY <1>2 DEF p

\* a set of numbers has a least one
LEMMA LeastElement ==
  ASSUME NEW S, S \subseteq Nat, S # {}
  PROVE  \E x \in S : \A y \in S : x <= y
<1>1. PICK x \in S : \A y \in S : ~(<<y, x>> \in NatOrder)
  BY WFMin, NatOrderWellFounded
<1>2. ASSUME NEW y \in S  PROVE x <= y
  <2>1. ~(y < x)
    BY <1>1, LessInOrder
  <2> QED BY <2>1
<1> QED BY <1>2

\* a set of numbers up to n has a greatest one
LEMMA GreatestElement ==
  ASSUME NEW n \in Nat, NEW S, S \subseteq 0 .. n, S # {}
  PROVE  \E x \in S : \A y \in S : y <= x
<1> DEFINE T == {n - x : x \in S}
<1>1. T \subseteq Nat /\ T # {}
  <2>1. \A x \in S : n - x \in Nat
    OBVIOUS
  <2> QED BY <2>1
<1>2. PICK t \in T : \A y \in T : t <= y
  BY <1>1, LeastElement
<1>3. PICK x \in S : t = n - x
  OBVIOUS
<1>4. ASSUME NEW y \in S  PROVE y <= x
  <2>1. n - x <= n - y
    BY <1>2, <1>3
  <2> QED BY <2>1
<1> QED BY <1>4

\* a set that has 0, and with a number the next one, has all
LEMMA Induction ==
  ASSUME NEW P, 0 \in P, \A n \in Nat : n \in P => n + 1 \in P
  PROVE  Nat \subseteq P
<1> SUFFICES ASSUME Nat \ P # {}  PROVE FALSE
  OBVIOUS
<1>1. PICK x \in Nat \ P : \A y \in Nat \ P : x <= y
  BY LeastElement
<1>2. x - 1 \in Nat /\ x - 1 < x /\ (x - 1) + 1 = x
  BY <1>1
<1> QED BY <1>1, <1>2

-----------------------------------------------------------------------------
(* Sums over finite sets.                                                  *)

\* g gives the sums of f over the subsets of S, an element at a time
IsSum(g, f, S) ==
  g = [s \in SUBSET S |->
         IF s = {} THEN 0 ELSE LET x == CHOOSE x \in s : TRUE IN f[x] + g[s \ {x}]]

\* the subsets of S with no more than n elements
Small(S, n) == {s \in SUBSET S : Cardinality(s) <= n}

LEMMA SmallLess ==
  ASSUME NEW S, IsFiniteSet(S), NEW n \in Nat
  PROVE  /\ {} \in Small(S, n)
         /\ \A s \in Small(S, n) : \A x \in s : s \ {x} \in Small(S, n)
         /\ \A s \in Small(S, n + 1) : \A x \in s : s \ {x} \in Small(S, n)
         /\ Small(S, n) \subseteq Small(S, n + 1)
         /\ Small(S, Cardinality(S)) = SUBSET S
<1>1. \A s \in SUBSET S : IsFiniteSet(s) /\ Cardinality(s) \in Nat
                          /\ Cardinality(s) <= Cardinality(S)
  BY FS_Subset, FS_CardinalityType
<1>2. \A s \in SUBSET S : \A x \in s : Cardinality(s \ {x}) = Cardinality(s) - 1
  BY <1>1, FS_RemoveElement
<1>3. {} \in Small(S, n)
  BY FS_EmptySet DEF Small
<1>4. ASSUME NEW s \in SUBSET S, NEW x \in s, NEW k \in Nat, Cardinality(s) <= k + 1
      PROVE  s \ {x} \in Small(S, k)
  <2>1. Cardinality(s \ {x}) <= k
    BY <1>1, <1>2, <1>4
  <2> QED BY <2>1 DEF Small
<1>5. /\ \A s \in Small(S, n) : \A x \in s : s \ {x} \in Small(S, n)
      /\ \A s \in Small(S, n + 1) : \A x \in s : s \ {x} \in Small(S, n)
  <2>1. \A s \in Small(S, n) : s \in SUBSET S /\ Cardinality(s) <= n + 1
    BY <1>1 DEF Small
  <2>2. \A s \in Small(S, n + 1) : s \in SUBSET S /\ Cardinality(s) <= n + 1
    BY DEF Small
  <2> QED BY <1>4, <2>1, <2>2
<1>6. Small(S, n) \subseteq Small(S, n + 1)
  BY <1>1 DEF Small
<1>7. Small(S, Cardinality(S)) = SUBSET S
  BY <1>1 DEF Small
<1> QED BY <1>3, <1>5, <1>6, <1>7

\* g sums f over the sets of D
SumsOn(g, f, D) ==
  g = [s \in D |->
         IF s = {} THEN 0 ELSE LET x == CHOOSE x \in s : TRUE IN f[x] + g[s \ {x}]]

LEMMA SumExists ==
  ASSUME NEW S, IsFiniteSet(S), NEW f
  PROVE  \E g : IsSum(g, f, S)
<1> DEFINE P == {n \in Nat : \E g : SumsOn(g, f, Small(S, n))}
<1>1. 0 \in P
  <2> DEFINE g == [s \in Small(S, 0) |-> 0]
  <2>1. \A s \in Small(S, 0) : s = {}
    BY FS_Subset, FS_CardinalityType, FS_EmptySet DEF Small
  <2>2. SumsOn(g, f, Small(S, 0))
    BY <2>1 DEF SumsOn
  <2> QED BY <2>2
<1>2. ASSUME NEW n \in Nat, n \in P  PROVE n + 1 \in P
  <2>1. PICK g : SumsOn(g, f, Small(S, n))
    BY <1>2
  <2> DEFINE D == Small(S, n)
             E == Small(S, n + 1)
             h == [s \in E |->
                     IF s = {} THEN 0
                     ELSE LET x == CHOOSE x \in s : TRUE IN f[x] + g[s \ {x}]]
  <2>2. \A s \in D : s \in E /\ h[s] = g[s]
    <3>1. D \subseteq E
      BY SmallLess
    <3>2. \A s \in D : g[s] = IF s = {} THEN 0
                     ELSE LET x == CHOOSE x \in s : TRUE IN f[x] + g[s \ {x}]
      BY <2>1 DEF SumsOn
    <3> QED BY <3>1, <3>2
  <2>3. \A s \in E : s # {} => s \ {CHOOSE x \in s : TRUE} \in D
    BY SmallLess
  <2>4. h = [s \in E |->
               IF s = {} THEN 0
               ELSE LET x == CHOOSE x \in s : TRUE IN f[x] + h[s \ {x}]]
    <3> HIDE DEF D, E
    <3> DEFINE k == [s \in E |->
               IF s = {} THEN 0
               ELSE LET x == CHOOSE x \in s : TRUE IN f[x] + h[s \ {x}]]
    <3>1. ASSUME NEW s \in E  PROVE h[s] = k[s]
      <4>1. CASE s = {}  BY <4>1
      <4>2. CASE s # {}
        <5> DEFINE x == CHOOSE x \in s : TRUE
        <5>1. h[s \ {x}] = g[s \ {x}]
          BY <2>2, <2>3, <4>2
        <5> QED BY <5>1, <4>2
      <4> QED BY <4>1, <4>2
    <3> HIDE DEF h
    <3>2. h = [s \in E |-> h[s]] /\ k = [s \in E |-> k[s]]
      BY DEF h
    <3> HIDE DEF k
    <3>3. h = k
      BY <3>1, <3>2
    <3> QED BY <3>3 DEF k
  <2>5. SumsOn(h, f, E)
    BY <2>4 DEF SumsOn
  <2> QED BY <2>5
<1>3. Cardinality(S) \in P
  <2> HIDE DEF P
  <2> QED BY <1>1, <1>2, Induction, FS_CardinalityType
<1>4. PICK g : SumsOn(g, f, Small(S, Cardinality(S)))
  BY <1>3
<1>5. Small(S, Cardinality(S)) = SUBSET S
  BY SmallLess, FS_CardinalityType
<1>6. SumsOn(g, f, SUBSET S)
  BY <1>4, <1>5
<1> QED BY <1>6 DEF SumsOn, IsSum

Pick(s) == CHOOSE x \in s : TRUE

\* g sums f over the subsets of S
Sums(g, f, S) ==
  /\ g[{}] = 0
  /\ \A s \in SUBSET S : s # {} => g[s] = f[Pick(s)] + g[s \ {Pick(s)}]

LEMMA SumUnfolds ==
  ASSUME NEW S, IsFiniteSet(S), NEW f
  PROVE  \E g : SumFunctionOnSet(f, S) = g[S] /\ Sums(g, f, S)
<1> DEFINE g == CHOOSE g : IsSum(g, f, S)
<1>1. SumFunctionOnSet(f, S) = g[S]
  BY DEF SumFunctionOnSet, FoldFunctionOnSet, MapThenFoldSet, IsSum
<1>2. IsSum(g, f, S)
  BY SumExists
<1> HIDE DEF g
<1>3. \A s \in SUBSET S :
        g[s] = IF s = {} THEN 0
               ELSE f[CHOOSE x \in s : TRUE] + g[s \ {CHOOSE x \in s : TRUE}]
  BY <1>2 DEF IsSum
<1>4. Sums(g, f, S)
  BY <1>3 DEF Sums, Pick
<1> QED BY <1>1, <1>4

\* the sums over two sets agree on what both have
LEMMA SumsAgree ==
  ASSUME NEW f, NEW S, IsFiniteSet(S), NEW g, NEW h, Sums(g, f, S), Sums(h, f, S)
  PROVE  g[S] = h[S]
<1> DEFINE P == {k \in Nat : \A s \in Small(S, k) : g[s] = h[s]}
<1>1. 0 \in P
  <2>1. \A s \in Small(S, 0) : s = {}
    BY FS_Subset, FS_CardinalityType, FS_EmptySet DEF Small
  <2> QED BY <2>1 DEF Sums
<1>2. ASSUME NEW k \in Nat, k \in P  PROVE k + 1 \in P
  <2>1. ASSUME NEW s \in Small(S, k + 1)  PROVE g[s] = h[s]
    <3>1. CASE s = {}  BY <3>1 DEF Sums
    <3>2. CASE s # {}
      <4>1. Pick(s) \in s /\ s \in SUBSET S
        BY <3>2 DEF Small, Pick
      <4>2. s \ {Pick(s)} \in Small(S, k)
        BY <4>1, SmallLess
      <4>3. g[s \ {Pick(s)}] = h[s \ {Pick(s)}]
        BY <1>2, <4>2
      <4> QED BY <3>2, <4>1, <4>3 DEF Sums
    <3> QED BY <3>1, <3>2
  <2> QED BY <2>1
<1>3. Cardinality(S) \in P
  <2> HIDE DEF P
  <2> QED BY <1>1, <1>2, Induction, FS_CardinalityType
<1>4. S \in Small(S, Cardinality(S))
  BY SmallLess, FS_CardinalityType
<1> QED BY <1>3, <1>4

LEMMA SumEmpty ==
  ASSUME NEW f  PROVE SumFunctionOnSet(f, {}) = 0
<1>1. PICK g : SumFunctionOnSet(f, {}) = g[{}] /\ Sums(g, f, {})
  BY SumUnfolds, FS_EmptySet
<1> QED BY <1>1 DEF Sums

LEMMA SumFirst ==
  ASSUME NEW S, IsFiniteSet(S), NEW f, S # {}
  PROVE  SumFunctionOnSet(f, S) = f[Pick(S)] + SumFunctionOnSet(f, S \ {Pick(S)})
<1> DEFINE R == S \ {Pick(S)}
<1>0. IsFiniteSet(R) /\ R \subseteq S
  BY FS_Subset
<1>1. PICK g : SumFunctionOnSet(f, S) = g[S] /\ Sums(g, f, S)
  BY SumUnfolds
<1> HIDE DEF R
<1>2. PICK h : SumFunctionOnSet(f, R) = h[R] /\ Sums(h, f, R)
  BY <1>0, SumUnfolds
<1>3. Sums(g, f, R)
  BY <1>0, <1>1 DEF Sums
<1>4. g[R] = h[R]
  BY <1>0, <1>2, <1>3, SumsAgree
<1>5. g[S] = f[Pick(S)] + g[R]
  BY <1>1 DEF R, Sums
<1> QED BY <1>1, <1>2, <1>4, <1>5 DEF R

LEMMA SumInt ==
  ASSUME NEW S, IsFiniteSet(S), NEW f, \A x \in S : f[x] \in Int
  PROVE  SumFunctionOnSet(f, S) \in Int
<1> DEFINE P == {k \in Nat : \A s \in Small(S, k) : SumFunctionOnSet(f, s) \in Int}
<1>1. 0 \in P
  <2>1. \A s \in Small(S, 0) : s = {}
    BY FS_Subset, FS_CardinalityType, FS_EmptySet DEF Small
  <2> QED BY <2>1, SumEmpty
<1>2. ASSUME NEW k \in Nat, k \in P  PROVE k + 1 \in P
  <2>1. ASSUME NEW s \in Small(S, k + 1)  PROVE SumFunctionOnSet(f, s) \in Int
    <3>1. CASE s = {}  BY <3>1, SumEmpty
    <3>2. CASE s # {}
      <4>1. Pick(s) \in s /\ s \in SUBSET S /\ IsFiniteSet(s)
        BY <3>2, FS_Subset DEF Small, Pick
      <4>2. s \ {Pick(s)} \in Small(S, k)
        BY <4>1, SmallLess
      <4>3. SumFunctionOnSet(f, s \ {Pick(s)}) \in Int
        BY <1>2, <4>2
      <4>4. SumFunctionOnSet(f, s) = f[Pick(s)] + SumFunctionOnSet(f, s \ {Pick(s)})
        BY <3>2, <4>1, SumFirst
      <4> QED BY <4>1, <4>3, <4>4
    <3> QED BY <3>1, <3>2
  <2> QED BY <2>1
<1>3. Cardinality(S) \in P
  <2> HIDE DEF P
  <2> QED BY <1>1, <1>2, Induction, FS_CardinalityType
<1>4. S \in Small(S, Cardinality(S))
  BY SmallLess, FS_CardinalityType
<1> QED BY <1>3, <1>4

\* a sum does not depend on the order: any element may come first
LEMMA SumOne ==
  ASSUME NEW S, IsFiniteSet(S), NEW f, \A x \in S : f[x] \in Int, NEW y \in S
  PROVE  SumFunctionOnSet(f, S) = f[y] + SumFunctionOnSet(f, S \ {y})
<1> DEFINE P == {k \in Nat : \A s \in Small(S, k) : \A x \in s :
                   SumFunctionOnSet(f, s) = f[x] + SumFunctionOnSet(f, s \ {x})}
<1>1. 0 \in P
  <2>1. \A s \in Small(S, 0) : s = {}
    BY FS_Subset, FS_CardinalityType, FS_EmptySet DEF Small
  <2> QED BY <2>1
<1>2. ASSUME NEW k \in Nat, k \in P  PROVE k + 1 \in P
  <2>1. ASSUME NEW s \in Small(S, k + 1), NEW x \in s
        PROVE SumFunctionOnSet(f, s) = f[x] + SumFunctionOnSet(f, s \ {x})
    <3> DEFINE z == Pick(s)
    <3>1. z \in s /\ s \in SUBSET S /\ IsFiniteSet(s)
      BY FS_Subset DEF Small, Pick
    <3>2. SumFunctionOnSet(f, s) = f[z] + SumFunctionOnSet(f, s \ {z})
      BY <3>1, SumFirst
    <3> HIDE DEF z
    <3>3. CASE z = x  BY <3>2, <3>3
    <3>4. CASE z # x
      <4>1. s \ {z} \in Small(S, k) /\ s \ {x} \in Small(S, k)
        BY <3>1, SmallLess
      <4>2. x \in s \ {z} /\ z \in s \ {x} /\ (s \ {z}) \ {x} = (s \ {x}) \ {z}
        BY <3>1, <3>4
      <4>3. SumFunctionOnSet(f, s \ {z}) = f[x] + SumFunctionOnSet(f, (s \ {x}) \ {z})
        BY <1>2, <4>1, <4>2
      <4>4. SumFunctionOnSet(f, s \ {x}) = f[z] + SumFunctionOnSet(f, (s \ {x}) \ {z})
        BY <1>2, <4>1, <4>2
      <4>5. SumFunctionOnSet(f, (s \ {x}) \ {z}) \in Int
        <5>1. IsFiniteSet((s \ {x}) \ {z})
          BY <3>1, FS_Subset
        <5>2. \A v \in (s \ {x}) \ {z} : f[v] \in Int
          BY <3>1
        <5> QED BY <5>1, <5>2, SumInt
      <4>6. f[x] \in Int /\ f[z] \in Int
        BY <3>1
      <4> QED BY <3>2, <4>3, <4>4, <4>5, <4>6
    <3> QED BY <3>3, <3>4
  <2> QED BY <2>1
<1>3. Cardinality(S) \in P
  <2> HIDE DEF P
  <2> QED BY <1>1, <1>2, Induction, FS_CardinalityType
<1>4. S \in Small(S, Cardinality(S))
  BY SmallLess, FS_CardinalityType
<1> QED BY <1>3, <1>4

\* a larger set, and larger numbers, have a larger sum
LEMMA SumLess ==
  ASSUME NEW S, IsFiniteSet(S), NEW f, \A x \in S : f[x] \in Nat,
         NEW T, T \subseteq S, NEW g, \A x \in T : g[x] \in Int /\ g[x] <= f[x]
  PROVE  SumFunctionOnSet(g, T) <= SumFunctionOnSet(f, S)
<1> DEFINE G(s) == SumFunctionOnSet(g, s \cap T)
           F(s) == SumFunctionOnSet(f, s)
           P == {k \in Nat : \A s \in Small(S, k) : G(s) <= F(s)}
<1>0. ASSUME NEW s \in SUBSET S  PROVE G(s) \in Int /\ F(s) \in Int
  <2>1. IsFiniteSet(s) /\ IsFiniteSet(s \cap T)
    BY FS_Subset
  <2>2. (\A x \in s : f[x] \in Int) /\ \A x \in s \cap T : g[x] \in Int
    OBVIOUS
  <2> QED BY <2>1, <2>2, SumInt
<1>1. 0 \in P
  <2>1. \A s \in Small(S, 0) : s = {}
    BY FS_Subset, FS_CardinalityType, FS_EmptySet DEF Small
  <2>2. {} \cap T = {}
    OBVIOUS
  <2> QED BY <2>1, <2>2, SumEmpty
<1>2. ASSUME NEW k \in Nat, k \in P  PROVE k + 1 \in P
  <2>1. ASSUME NEW s \in Small(S, k + 1)  PROVE G(s) <= F(s)
    <3>1. CASE s = {}
      <4>1. {} \cap T = {}
        OBVIOUS
      <4> QED BY <3>1, <4>1, SumEmpty
    <3>2. CASE s # {}
      <4>1. PICK x \in s : TRUE
        BY <3>2
      <4>2. /\ s \in SUBSET S /\ IsFiniteSet(s) /\ s \ {x} \in Small(S, k)
            /\ s \ {x} \in SUBSET S /\ x \in S /\ f[x] \in Nat
            /\ \A y \in s : f[y] \in Int
        BY SmallLess, FS_Subset DEF Small
      <4>3. F(s) = f[x] + F(s \ {x})
        BY <4>2, SumOne
      <4>4. G(s \ {x}) <= F(s \ {x})
        BY <1>2, <4>2
      <4>5. CASE x \in T
        <5>1. IsFiniteSet(s \cap T) /\ (\A y \in s \cap T : g[y] \in Int) /\ x \in s \cap T
          BY <4>2, <4>5, FS_Subset
        <5>2. (s \cap T) \ {x} = (s \ {x}) \cap T
          OBVIOUS
        <5>3. G(s) = g[x] + SumFunctionOnSet(g, (s \cap T) \ {x})
          BY <5>1, SumOne
        <5>4. G(s) = g[x] + G(s \ {x})
          BY <5>2, <5>3
        <5>5. g[x] \in Int /\ g[x] <= f[x] /\ G(s \ {x}) \in Int /\ F(s \ {x}) \in Int
          BY <1>0, <4>2, <4>5
        <5> HIDE DEF F, G
        <5> QED BY <4>2, <4>3, <4>4, <5>4, <5>5
      <4>6. CASE x \notin T
        <5>1. s \cap T = (s \ {x}) \cap T
          BY <4>6
        <5>2. G(s) = G(s \ {x})
          BY <5>1
        <5>5. G(s \ {x}) \in Int /\ F(s \ {x}) \in Int
          BY <1>0, <4>2
        <5> HIDE DEF F, G
        <5> QED BY <4>2, <4>3, <4>4, <5>2, <5>5
      <4> QED BY <4>5, <4>6
    <3> QED BY <3>1, <3>2
  <2> QED BY <2>1
<1>3. Cardinality(S) \in P
  <2> HIDE DEF P
  <2> QED BY <1>1, <1>2, Induction, FS_CardinalityType
<1>4. S \in Small(S, Cardinality(S)) /\ S \cap T = T
  BY SmallLess, FS_CardinalityType
<1>5. G(S) <= F(S)
  BY <1>3, <1>4
<1> QED BY <1>4, <1>5

\* the sum over a union, at most
LEMMA SumUnion ==
  ASSUME NEW A, IsFiniteSet(A), NEW B, IsFiniteSet(B), NEW f,
         \A x \in A \cup B : f[x] \in Nat
  PROVE  SumFunctionOnSet(f, A \cup B) <= SumFunctionOnSet(f, A) + SumFunctionOnSet(f, B)
<1> DEFINE F(s) == SumFunctionOnSet(f, s)
           P == {k \in Nat : \A s \in Small(B, k) : F(A \cup s) <= F(A) + F(s)}
<1>0. ASSUME NEW s \in SUBSET (A \cup B)  PROVE F(s) \in Int /\ IsFiniteSet(s)
  <2>1. IsFiniteSet(s)
    BY FS_Subset, FS_Union
  <2>2. \A x \in s : f[x] \in Int
    OBVIOUS
  <2> QED BY <2>1, <2>2, SumInt
<1>1. 0 \in P
  <2>1. \A s \in Small(B, 0) : s = {}
    BY FS_Subset, FS_CardinalityType, FS_EmptySet DEF Small
  <2>2. A \cup {} = A /\ F(A \cup {}) = F(A)
    OBVIOUS
  <2>3. F({}) = 0 /\ F(A) \in Int
    BY <1>0, SumEmpty
  <2>4. F(A \cup {}) <= F(A) + F({})
    <3> HIDE DEF F
    <3> QED BY <2>2, <2>3
  <2> QED BY <2>1, <2>4
<1>2. ASSUME NEW k \in Nat, k \in P  PROVE k + 1 \in P
  <2>1. ASSUME NEW s \in Small(B, k + 1)  PROVE F(A \cup s) <= F(A) + F(s)
    <3>1. CASE s = {}
      <4>1. A \cup {} = A
        OBVIOUS
      <4>2. F({}) = 0 /\ F(A) \in Int
        BY <1>0, SumEmpty
      <4> HIDE DEF F
      <4> QED BY <3>1, <4>1, <4>2
    <3>2. CASE s # {}
      <4>1. PICK x \in s : TRUE
        BY <3>2
      <4> DEFINE r == s \ {x}
      <4>2. /\ s \in SUBSET B /\ r \in Small(B, k) /\ r \in SUBSET B
            /\ x \in B /\ f[x] \in Nat
        BY SmallLess DEF Small
      <4>3. /\ F(s) \in Int /\ IsFiniteSet(s) /\ F(r) \in Int /\ F(A) \in Int
            /\ F(A \cup s) \in Int /\ F(A \cup r) \in Int
            /\ IsFiniteSet(A \cup s)
        <5>1. /\ s \in SUBSET (A \cup B) /\ r \in SUBSET (A \cup B) /\ A \in SUBSET (A \cup B)
              /\ A \cup s \in SUBSET (A \cup B) /\ A \cup r \in SUBSET (A \cup B)
          BY <4>2
        <5> HIDE DEF F, r
        <5> QED BY <1>0, <5>1
      <4>4. F(s) = f[x] + F(r)
        BY <4>2, <4>3, SumOne
      <4>5. F(A \cup r) <= F(A) + F(r)
        BY <1>2, <4>2
      <4>6. CASE x \in A
        <5>1. F(A \cup s) = F(A \cup r)
          <6>1. A \cup s = A \cup r
            BY <4>6
          <6> QED BY <6>1
        <5> HIDE DEF F, r
        <5> QED BY <4>2, <4>3, <4>4, <4>5, <5>1
      <4>7. CASE x \notin A
        <5>1. (A \cup s) \ {x} = A \cup r /\ x \in A \cup s
          BY <4>7
        <5>2. \A y \in A \cup s : f[y] \in Int
          BY <4>2
        <5>3. F(A \cup s) = f[x] + SumFunctionOnSet(f, (A \cup s) \ {x})
          BY <4>3, <5>1, <5>2, SumOne
        <5>4. F(A \cup s) = f[x] + F(A \cup r)
          BY <5>1, <5>3
        <5> HIDE DEF F, r
        <5> QED BY <4>2, <4>3, <4>4, <4>5, <5>4
      <4> QED BY <4>6, <4>7
    <3> QED BY <3>1, <3>2
  <2> QED BY <2>1
<1>3. Cardinality(B) \in P
  <2> HIDE DEF P
  <2> QED BY <1>1, <1>2, Induction, FS_CardinalityType
<1>4. B \in Small(B, Cardinality(B))
  BY SmallLess, FS_CardinalityType
<1>5. F(A \cup B) <= F(A) + F(B)
  BY <1>3, <1>4
<1> QED BY <1>5

\* the sum over a list without repetitions is that over its elements
LEMMA SumList ==
  ASSUME NEW n \in Nat, NEW s, DOMAIN s = 1 .. n, \A i, j \in 1 .. n : s[i] = s[j] => i = j,
         NEW f, \A i \in 1 .. n : f[s[i]] \in Int
  PROVE  SumFunctionOnSet([i \in 1 .. n |-> f[s[i]]], 1 .. n)
           = SumFunctionOnSet(f, {s[i] : i \in 1 .. n})
<1> DEFINE S == 1 .. n
           g == [i \in S |-> f[s[i]]]
           Img(d) == {s[i] : i \in d}
           G(d) == SumFunctionOnSet(g, d)
           F(d) == SumFunctionOnSet(f, Img(d))
           P == {k \in Nat : \A d \in Small(S, k) : IsFiniteSet(Img(d)) /\ G(d) = F(d)}
<1>0. IsFiniteSet(S)
  BY FS_Interval
<1> HIDE DEF S
<1>1. 0 \in P
  <2>1. \A d \in Small(S, 0) : d = {}
    BY <1>0, FS_Subset, FS_CardinalityType, FS_EmptySet DEF Small
  <2>2. Img({}) = {} /\ IsFiniteSet({})
    BY FS_EmptySet
  <2>3. G({}) = 0 /\ F({}) = 0
    BY <2>2, SumEmpty
  <2>4. IsFiniteSet(Img({})) /\ G({}) = F({})
    BY <2>2, <2>3
  <2> QED BY <2>1, <2>4
<1>2. ASSUME NEW k \in Nat, k \in P  PROVE k + 1 \in P
  <2>1. ASSUME NEW d \in Small(S, k + 1)  PROVE IsFiniteSet(Img(d)) /\ G(d) = F(d)
    <3>1. CASE d = {}
      <4>2. Img({}) = {} /\ IsFiniteSet({})
        BY FS_EmptySet
      <4>3. G({}) = 0 /\ F({}) = 0
        BY <4>2, SumEmpty
      <4> QED BY <3>1, <4>2, <4>3
    <3>2. CASE d # {}
      <4>1. PICK i \in d : TRUE
        BY <3>2
      <4> DEFINE r == d \ {i}
      <4>2. /\ d \in SUBSET S /\ r \in Small(S, k) /\ i \in S /\ IsFiniteSet(d)
        BY <1>0, SmallLess, FS_Subset DEF Small
      <4>3. IsFiniteSet(Img(r)) /\ G(r) = F(r)
        BY <1>2, <4>2
      <4>4. Img(d) = Img(r) \cup {s[i]} /\ s[i] \notin Img(r)
        BY <4>2 DEF S
      <4>5. IsFiniteSet(Img(d)) /\ Img(d) \ {s[i]} = Img(r)
        <5> HIDE DEF Img, r
        <5>1. IsFiniteSet(Img(r) \cup {s[i]})
          BY <4>3, FS_AddElement
        <5>2. Img(d) \ {s[i]} = Img(r)
          BY <4>4
        <5> QED BY <4>4, <5>1, <5>2
      <4>6. (\A j \in d : g[j] \in Int) /\ (\A y \in Img(d) : f[y] \in Int) /\ g[i] = f[s[i]]
        BY <4>2 DEF S
      <4> HIDE DEF g, Img
      <4>7. G(d) = g[i] + G(r)
        BY <4>2, <4>6, SumOne
      <4>8. F(d) = f[s[i]] + SumFunctionOnSet(f, Img(d) \ {s[i]})
        <5>1. s[i] \in Img(d)
          BY <4>4
        <5> QED BY <4>5, <4>6, <5>1, SumOne
      <4> QED BY <4>3, <4>5, <4>6, <4>7, <4>8
    <3> QED BY <3>1, <3>2
  <2> HIDE DEF G, F, Img
  <2> QED BY <2>1
<1>3. Cardinality(S) \in P
  <2> HIDE DEF P
  <2> QED BY <1>0, <1>1, <1>2, Induction, FS_CardinalityType
<1>4. S \in Small(S, Cardinality(S))
  BY <1>0, SmallLess, FS_CardinalityType
<1>5. G(S) = F(S)
  BY <1>3, <1>4
<1> QED BY <1>5 DEF S
=============================================================================
