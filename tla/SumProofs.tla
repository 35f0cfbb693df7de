------------------------------- MODULE SumProofs -------------------------------
(***************************************************************************)
(* Facts by induction on the size of a set.  The greatest and the least of *)
(* finitely many numbers exist.  Sums over a finite set, as the folds of   *)
(* FiniteSetsExt compute them, exist, do not depend on the order of the    *)
(* elements, and grow by what a new element weighs.                        *)
(***************************************************************************)
EXTENDS Integers, FiniteSetsExt, FiniteSetTheorems, WellFoundedInduction, TLAPS

-----------------------------------------------------------------------------
(* Induction over sets of numbers.                                         *)

\* A set of numbers with 0 and with the successor of each of its numbers is Nat.
LEMMA Successors ==
    ASSUME NEW S, 0 \in S, \A n \in Nat : n \in S => n + 1 \in S
    PROVE  Nat \subseteq S
  <1> DEFINE less == {ss \in Nat \X Nat : ss[1] < ss[2]}
             rest == Nat \ S
  <1>1. IsWellFoundedOn(less, Nat)
    BY NatLessThanWellFounded DEF OpToRel
  <1>2. SUFFICES ASSUME rest # {} PROVE FALSE
    OBVIOUS
  <1>3. PICK x \in rest : \A y \in rest : ~ (<<y, x>> \in less)
    <2>1. rest \subseteq Nat
      OBVIOUS
    <2> HIDE DEF less, rest
    <2> QED
      BY <1>1, <1>2, <2>1, WFMin
  <1>4. x # 0 /\ x - 1 \in Nat /\ x - 1 < x
    OBVIOUS
  <1>5. x - 1 \in S
    BY <1>3, <1>4
  <1> QED
    BY <1>4, <1>5
-----------------------------------------------------------------------------
(* Subsets by their size.                                                  *)

\* The element that a fold takes next.
Chosen(s) == CHOOSE x \in s : TRUE

\* The subsets of S with at most n elements.
Upto(n, S) == {s \in SUBSET S : Cardinality(s) <= n}

\* Taking an element away makes a finite set smaller by one.
LEMMA Smaller ==
    ASSUME NEW S, IsFiniteSet(S), NEW s \in SUBSET S, s # {}
    PROVE  /\ Chosen(s) \in s
           /\ IsFiniteSet(s) /\ Cardinality(s) \in Nat \ {0}
           /\ Cardinality(s \ {Chosen(s)}) = Cardinality(s) - 1
  <1>1. Chosen(s) \in s
    BY DEF Chosen
  <1>2. IsFiniteSet(s) /\ Cardinality(s) \in Nat
    BY FS_Subset, FS_CardinalityType
  <1>3. Cardinality(s) # 0
    BY <1>2, FS_EmptySet
  <1> QED
    BY <1>1, <1>2, <1>3, FS_RemoveElement

\* So it leads from the subsets with at most n + 1 to those with at most n.
LEMMA OneLess ==
    ASSUME NEW S, IsFiniteSet(S), NEW n \in Nat, NEW s \in Upto(n + 1, S), s # {}
    PROVE  /\ s \in SUBSET S /\ Chosen(s) \in s
           /\ s \ {Chosen(s)} \in Upto(n, S)
  BY Smaller DEF Upto

\* The subsets with at most as many elements as S are all of them.
LEMMA AllSmall ==
    ASSUME NEW S, IsFiniteSet(S)
    PROVE  Cardinality(S) \in Nat /\ Upto(Cardinality(S), S) = SUBSET S
  BY FS_Subset, FS_CardinalityType DEF Upto

\* The only one with none is empty.
LEMMA NoneSmall ==
    ASSUME NEW S, IsFiniteSet(S)
    PROVE  Upto(0, S) = {{}}
  <1>1. ASSUME NEW s \in Upto(0, S)
        PROVE  s = {}
    <2>1. s \in SUBSET S /\ Cardinality(s) <= 0
      BY DEF Upto
    <2>2. IsFiniteSet(s) /\ Cardinality(s) \in Nat
      BY <2>1, FS_Subset, FS_CardinalityType
    <2> QED
      BY <2>1, <2>2, FS_EmptySet
  <1>2. {} \in Upto(0, S)
    BY FS_EmptySet DEF Upto
  <1> QED
    BY <1>1, <1>2

-----------------------------------------------------------------------------
(* Maxima and minima.                                                      *)

\* Finitely many integers have a greatest one, and a least one.
LEMMA Extremes ==
    ASSUME NEW S, IsFiniteSet(S), S \subseteq Int, S # {}
    PROVE  /\ Max(S) \in S /\ \A y \in S : Max(S) >= y
           /\ Min(S) \in S /\ \A y \in S : Min(S) <= y
  <1> DEFINE has(T) == /\ \E x \in T : \A y \in T : x >= y
                       /\ \E x \in T : \A y \in T : x <= y
             Good == {n \in Nat : \A T \in Upto(n, S) : T = {} \/ has(T)}
  <1>1. 0 \in Good
    BY NoneSmall
  <1>2. ASSUME NEW n \in Nat, n \in Good
        PROVE  n + 1 \in Good
    <2>1. ASSUME NEW T \in Upto(n + 1, S), T # {}
          PROVE  has(T)
      <3> DEFINE c == Chosen(T)
                 R == T \ {c}
      <3>1. c \in T /\ R \in Upto(n, S) /\ T \subseteq Int /\ T = R \cup {c}
        <4>1. c \in T /\ R \in Upto(n, S) /\ T \subseteq S
          BY <2>1, OneLess
        <4> HIDE DEF c
        <4> QED
          BY <4>1
      <3>2. R = {} \/ has(R)
        BY <1>2, <3>1
      <3> HIDE DEF c, R
      <3>3. CASE R = {}
        BY <3>1, <3>3
      <3>4. CASE has(R)
        <4>1. PICK a \in R : \A y \in R : a >= y
          BY <3>4
        <4>2. PICK b \in R : \A y \in R : b <= y
          BY <3>4
        <4>3. \E x \in T : \A y \in T : x >= y
          <5>1. a \in T /\ a \in Int /\ c \in Int /\ \A y \in R : y \in Int
            BY <3>1
          <5>2. CASE c >= a
            BY <3>1, <4>1, <5>1, <5>2
          <5>3. CASE a >= c
            BY <3>1, <4>1, <5>1, <5>3
          <5> QED
            BY <5>1, <5>2, <5>3
        <4>4. \E x \in T : \A y \in T : x <= y
          <5>1. b \in T /\ b \in Int /\ c \in Int /\ \A y \in R : y \in Int
            BY <3>1
          <5>2. CASE c <= b
            BY <3>1, <4>2, <5>1, <5>2
          <5>3. CASE b <= c
            BY <3>1, <4>2, <5>1, <5>3
          <5> QED
            BY <5>1, <5>2, <5>3
        <4> QED
          BY <4>3, <4>4
      <3> QED
        BY <3>2, <3>3, <3>4
    <2> QED
      BY <2>1
  <1>3. Nat \subseteq Good
    <2> HIDE DEF Good
    <2> QED
      BY <1>1, <1>2, Successors
  <1>4. Cardinality(S) \in Good /\ Upto(Cardinality(S), S) = SUBSET S
    BY <1>3, AllSmall
  <1>5. has(S)
    BY <1>4
  <1> QED
    BY <1>5 DEF Max, Min

-----------------------------------------------------------------------------
(* Functions that sum.                                                     *)

\* What a sum of weights w is at s, if its value at smaller sets is that of g.
SumAt(g, w, s) == IF s = {} THEN 0 ELSE w[Chosen(s)] + g[s \ {Chosen(s)}]

\* On the sets in D, g sums the weights w.
Sums(g, w, D) == \A s \in D : g[s] = SumAt(g, w, s)

\* Every weighing of a finite set has a function that sums it.
LEMMA SumExists ==
    ASSUME NEW S, IsFiniteSet(S), NEW w, \A x \in S : w[x] \in Int
    PROVE  \E g \in [SUBSET S -> Int] : Sums(g, w, SUBSET S)
  <1> DEFINE Good == {n \in Nat : \E g \in [SUBSET S -> Int] : Sums(g, w, Upto(n, S))}
  <1>1. 0 \in Good
    <2> DEFINE g == [s \in SUBSET S |-> 0]
    <2>1. Upto(0, S) = {{}}
      BY NoneSmall
    <2>2. Sums(g, w, Upto(0, S)) /\ g \in [SUBSET S -> Int]
      BY <2>1 DEF Sums, SumAt
    <2> HIDE DEF g
    <2> QED
      BY <2>2
  <1>2. ASSUME NEW n \in Nat, n \in Good
        PROVE  n + 1 \in Good
    <2>1. PICK g \in [SUBSET S -> Int] : Sums(g, w, Upto(n, S))
      BY <1>2
    <2> DEFINE h == [s \in SUBSET S |-> SumAt(g, w, s)]
    <2>2. h \in [SUBSET S -> Int]
      <3>1. ASSUME NEW s \in SUBSET S
            PROVE  SumAt(g, w, s) \in Int
        <4>1. CASE s = {}
          BY <4>1 DEF SumAt
        <4>2. CASE s # {}
          <5>1. Chosen(s) \in S /\ s \ {Chosen(s)} \in SUBSET S
            BY <4>2, Smaller
          <5>2. w[Chosen(s)] \in Int /\ g[s \ {Chosen(s)}] \in Int
            BY <5>1
          <5> QED
            BY <4>2, <5>2 DEF SumAt
        <4> QED
          BY <4>1, <4>2
      <3> QED
        BY <3>1
    <2>3. \A s \in Upto(n, S) : h[s] = g[s]
      BY <2>1 DEF Sums, Upto
    <2>4. ASSUME NEW s \in Upto(n + 1, S)
          PROVE  h[s] = SumAt(h, w, s)
      <3>1. CASE s = {}
        BY <3>1 DEF SumAt
      <3>2. CASE s # {}
        <4>1. s \in SUBSET S /\ s \ {Chosen(s)} \in Upto(n, S)
          BY <3>2, OneLess
        <4>2. h[s] = SumAt(g, w, s)
          BY <4>1
        <4>3. h[s \ {Chosen(s)}] = g[s \ {Chosen(s)}]
          BY <4>1, <2>3
        <4> HIDE DEF h
        <4> QED
          BY <3>2, <4>2, <4>3 DEF SumAt
      <3> QED
        BY <3>1, <3>2
    <2>5. Sums(h, w, Upto(n + 1, S))
      BY <2>4 DEF Sums
    <2> QED
      BY <2>2, <2>5
  <1>3. Nat \subseteq Good
    <2> HIDE DEF Good
    <2> QED
      BY <1>1, <1>2, Successors
  <1>4. Cardinality(S) \in Good /\ Upto(Cardinality(S), S) = SUBSET S
    BY <1>3, AllSmall
  <1> QED
    BY <1>4

\* Two functions that sum agree where both are defined.
LEMMA SumUnique ==
    ASSUME NEW S, IsFiniteSet(S), NEW w, NEW g, NEW h,
           Sums(g, w, SUBSET S), Sums(h, w, SUBSET S)
    PROVE  \A s \in SUBSET S : g[s] = h[s]
  <1> DEFINE Good == {n \in Nat : \A s \in Upto(n, S) : g[s] = h[s]}
  <1>1. 0 \in Good
    <2>1. Upto(0, S) = {{}}
      BY NoneSmall
    <2> QED
      BY <2>1 DEF Sums, SumAt
  <1>2. ASSUME NEW n \in Nat, n \in Good
        PROVE  n + 1 \in Good
    <2>1. ASSUME NEW s \in Upto(n + 1, S)
          PROVE  g[s] = h[s]
      <3>1. CASE s = {}
        BY <3>1 DEF Sums, SumAt
      <3>2. CASE s # {}
        <4>1. s \in SUBSET S /\ s \ {Chosen(s)} \in Upto(n, S)
          BY <3>2, OneLess
        <4>2. g[s \ {Chosen(s)}] = h[s \ {Chosen(s)}]
          BY <4>1, <1>2
        <4> QED
          BY <3>2, <4>1, <4>2 DEF Sums, SumAt
      <3> QED
        BY <3>1, <3>2
    <2> QED
      BY <2>1
  <1>3. Nat \subseteq Good
    <2> HIDE DEF Good
    <2> QED
      BY <1>1, <1>2, Successors
  <1>4. Cardinality(S) \in Good /\ Upto(Cardinality(S), S) = SUBSET S
    BY <1>3, AllSmall
  <1> QED
    BY <1>4

\* The order of the elements does not matter: any element can be the last.
LEMMA SumGrows ==
    ASSUME NEW S, IsFiniteSet(S), NEW w, \A x \in S : w[x] \in Int,
           NEW g \in [SUBSET S -> Int], Sums(g, w, SUBSET S)
    PROVE  \A s \in SUBSET S : \A x \in S \ s : g[s \cup {x}] = g[s] + w[x]
  <1> DEFINE Good == {n \in Nat : \A s \in Upto(n, S) : \A x \in S \ s :
                                       g[s \cup {x}] = g[s] + w[x]}
  <1>1. ASSUME NEW n \in Nat,
               \A t \in SUBSET S : \A y \in S \ t :
                  Cardinality(t) < n => g[t \cup {y}] = g[t] + w[y],
               NEW s \in SUBSET S, Cardinality(s) <= n, NEW x \in S \ s
        PROVE  g[s \cup {x}] = g[s] + w[x]
    <2> DEFINE u == s \cup {x}
               y == Chosen(u)
               t == s \ {y}
    <2>1. u \in SUBSET S /\ y \in u
      BY DEF Chosen
    <2>2. g[u] = w[y] + g[u \ {y}]
      BY <2>1 DEF Sums, SumAt
    <2>3. CASE y = x
      <3>1. u \ {y} = s
        BY <2>3
      <3>2. g[s] \in Int /\ w[x] \in Int
        OBVIOUS
      <3> HIDE DEF y, u
      <3>3. g[u] = w[x] + g[s]
        BY <2>2, <2>3, <3>1
      <3>4. g[u] = g[s] + w[x]
        BY <3>2, <3>3
      <3> QED
        BY <3>4 DEF u
    <2>4. CASE y # x
      <3>1. /\ y \in s /\ t \in SUBSET S /\ x \in S \ t /\ y \in S \ t
            /\ u \ {y} = t \cup {x} /\ s = t \cup {y}
        BY <2>1, <2>4
      <3>2. Cardinality(t) < n
        <4>1. IsFiniteSet(s)
          BY FS_Subset
        <4>2. Cardinality(s) \in Nat
          BY <4>1, FS_CardinalityType
        <4>3. Cardinality(t) = Cardinality(s) - 1
          <5> HIDE DEF y
          <5> QED
            BY <3>1, <4>1, FS_RemoveElement
        <4> HIDE DEF t
        <4> QED
          BY <1>1, <4>2, <4>3
      <3>3. g[t \cup {x}] = g[t] + w[x] /\ g[t \cup {y}] = g[t] + w[y]
        BY <1>1, <3>1, <3>2
      <3>4. w[x] \in Int /\ w[y] \in Int /\ g[t] \in Int
        BY <3>1
      <3>5. g[u] = w[y] + g[t \cup {x}] /\ g[s] = g[t \cup {y}]
        BY <2>2, <3>1
      <3> HIDE DEF u, y, t
      <3>6. g[u] = g[s] + w[x]
        BY <3>3, <3>4, <3>5
      <3> QED
        BY <3>6 DEF u
    <2> QED
      BY <2>3, <2>4
  <1>2. 0 \in Good
    <2>1. \A t \in SUBSET S : ~(Cardinality(t) < 0)
      BY FS_Subset, FS_CardinalityType
    <2> QED
      BY <1>1, <2>1 DEF Upto
  <1>3. ASSUME NEW n \in Nat, n \in Good
        PROVE  n + 1 \in Good
    <2>1. \A t \in SUBSET S : Cardinality(t) < n + 1 => t \in Upto(n, S)
      BY FS_Subset, FS_CardinalityType DEF Upto
    <2>2. \A t \in SUBSET S : \A y \in S \ t :
             Cardinality(t) < n + 1 => g[t \cup {y}] = g[t] + w[y]
      BY <1>3, <2>1
    <2> QED
      BY <1>1, <2>2 DEF Upto
  <1>4. Nat \subseteq Good
    <2> HIDE DEF Good
    <2> QED
      BY <1>2, <1>3, Successors
  <1>5. Cardinality(S) \in Good /\ Upto(Cardinality(S), S) = SUBSET S
    BY <1>4, AllSmall
  <1> QED
    BY <1>5
-----------------------------------------------------------------------------
(* Sums.                                                                   *)

\* v is the sum of the weights w over S.
IsSum(v, w, S) == \E g \in [SUBSET S -> Int] : Sums(g, w, SUBSET S) /\ v = g[S]

\* The fold that computes it.
SumOf(w, S) == MapThenSumSet(LAMBDA x : w[x], S)

\* The fold is the sum.
LEMMA FoldSums ==
    ASSUME NEW S, IsFiniteSet(S), NEW w, \A x \in S : w[x] \in Int
    PROVE  IsSum(SumOf(w, S), w, S)
  <1> DEFINE rule(g) == g = [s \in SUBSET S |-> SumAt(g, w, s)]
             iter == CHOOSE g : rule(g)
  <1>1. PICK g \in [SUBSET S -> Int] : Sums(g, w, SUBSET S)
    BY SumExists
  <1>2. g = [s \in SUBSET S |-> SumAt(g, w, s)]
    BY <1>1 DEF Sums
  <1>3. rule(iter)
    <2> HIDE DEF rule
    <2>1. rule(g)
      BY <1>2 DEF rule
    <2> QED
      BY <2>1
  <1>4. iter = [s \in SUBSET S |-> iter[s]] /\ Sums(iter, w, SUBSET S)
    <2> HIDE DEF iter
    <2> QED
      BY <1>3 DEF Sums
  <1>5. iter = g
    <2> HIDE DEF iter, rule
    <2>1. \A s \in SUBSET S : iter[s] = g[s]
      BY <1>1, <1>4, SumUnique
    <2> QED
      BY <1>4, <2>1
  <1>6. SumOf(w, S) = iter[S]
    BY DEF SumOf, MapThenSumSet, MapThenFoldSet, SumAt, Chosen
  <1> QED
    BY <1>1, <1>5, <1>6 DEF IsSum

\* There is nothing to sum in an empty set.
LEMMA EmptySum ==
    ASSUME NEW v, NEW w, IsSum(v, w, {})
    PROVE  v = 0
  BY DEF IsSum, Sums, SumAt

\* Whatever sums the weights computes the fold.
LEMMA SumDetermined ==
    ASSUME NEW S, IsFiniteSet(S), NEW w, \A x \in S : w[x] \in Int,
           NEW g, Sums(g, w, SUBSET S)
    PROVE  SumOf(w, S) = g[S]
  <1>1. PICK h : Sums(h, w, SUBSET S) /\ SumOf(w, S) = h[S]
    BY FoldSums DEF IsSum
  <1> QED
    BY <1>1, SumUnique

\* A sum is an integer.
LEMMA SumIsInt ==
    ASSUME NEW S, NEW v, NEW w, IsSum(v, w, S)
    PROVE  v \in Int
  BY DEF IsSum

\* One more element adds its weight.
LEMMA SumOfOneMore ==
    ASSUME NEW S, IsFiniteSet(S), NEW x, x \notin S, NEW w, \A y \in S \cup {x} : w[y] \in Int,
           NEW u, NEW v, IsSum(u, w, S), IsSum(v, w, S \cup {x})
    PROVE  v = u + w[x]
  <1> DEFINE T == S \cup {x}
  <1>1. IsFiniteSet(T)
    BY FS_AddElement
  <1>2. PICK g \in [SUBSET S -> Int] : Sums(g, w, SUBSET S) /\ u = g[S]
    BY DEF IsSum
  <1>3. PICK h \in [SUBSET T -> Int] : Sums(h, w, SUBSET T) /\ v = h[T]
    BY DEF IsSum
  <1>4. h[T] = h[S] + w[x]
    <2>1. S \in SUBSET T /\ x \in T \ S
      OBVIOUS
    <2>2. \A y \in T : w[y] \in Int
      OBVIOUS
    <2> HIDE DEF T
    <2>3. h[S \cup {x}] = h[S] + w[x]
      BY <1>1, <1>3, <2>1, <2>2, SumGrows
    <2> QED
      BY <2>3 DEF T
  <1>5. Sums(h, w, SUBSET S)
    BY <1>3 DEF Sums
  <1>6. g[S] = h[S]
    BY <1>2, <1>5, SumUnique
  <1> QED
    BY <1>2, <1>3, <1>4, <1>6
=============================================================================
