---------------------------- MODULE Orders_proofs ---------------------------
(* What the proofs about several modules need of numbers, finite sets,       *)
(* orders, lists and sums.                                                   *)
(*                                                                           *)
(* The library's induction theorems take the property as an operator; with   *)
(* the property as a set, a well-founded minimum is enough.                  *)
EXTENDS Integers, Sequences, FiniteSets, FiniteSetsExt, Sums, Selections,
        FunctionTheorems, FiniteSetTheorems, SequenceTheorems, WellFoundedInduction, TLAPS

\* A set of numbers that is not empty has a least one.
LEMMA LeastNumber ==
    ASSUME NEW S \in SUBSET Nat, S # {}
    PROVE  \E x \in S : \A y \in S : x <= y
<1> DEFINE R == OpToRel(<, Nat)
<1>1. IsWellFoundedOn(R, Nat)
  BY NatLessThanWellFounded
<1>2. PICK x \in S : \A y \in S : <<y, x>> \notin R
  <2> HIDE DEF R
  <2> QED BY <1>1, WFMin
<1>3. \A y \in S : <<y, x>> \in R <=> y < x
  BY DEF OpToRel
<1> HIDE DEF R
<1>4. \A y \in S : ~(y < x)
  BY <1>2, <1>3
<1> QED BY <1>4

\* What holds of 0 and of the next of each number holds of all.
LEMMA Induction ==
    ASSUME NEW S, 0 \in S, \A n \in Nat : n \in S => n + 1 \in S
    PROVE  Nat \subseteq S
<1> SUFFICES ASSUME Nat \ S # {} PROVE FALSE
  OBVIOUS
<1>1. PICK x \in Nat \ S : \A y \in Nat \ S : x <= y
  BY LeastNumber
<1>2. x - 1 \in Nat /\ ~(x <= x - 1)
  BY <1>1
<1>3. x - 1 \in S /\ x = (x - 1) + 1
  BY <1>1, <1>2
<1> QED BY <1>1, <1>2, <1>3

-----------------------------------------------------------------------------
(* Finite sets.                                                            *)

\* What a function makes of a finite set is finite.
LEMMA ImageFinite ==
    ASSUME NEW f, IsFiniteSet(DOMAIN f)
    PROVE  IsFiniteSet({f[x] : x \in DOMAIN f})
<1> DEFINE T == {f[x] : x \in DOMAIN f}
           h == [x \in DOMAIN f |-> f[x]]
<1>1. h \in Surjection(DOMAIN f, T)
  BY DEF Surjection
<1> HIDE DEF h, T
<1>2. IsFiniteSet(T)
  BY <1>1, FS_Surjection
<1> QED BY <1>2 DEF T

\* A strict order of a set in which any two can be compared.
Orders(R, S) ==
    /\ \A x \in S : <<x, x>> \notin R
    /\ \A x, y \in S : x # y => <<x, y>> \in R \/ <<y, x>> \in R
    /\ \A x, y, z \in S : <<x, y>> \in R /\ <<y, z>> \in R => <<x, z>> \in R

Before(R, S, x) == {y \in S : <<y, x>> \in R}

\* Where a finite set is in order, every member has a place of its own: as
\* many as come before it.
LEMMA Places ==
    ASSUME NEW S, IsFiniteSet(S), NEW R, Orders(R, S)
    PROVE  /\ Cardinality(S) \in Nat
           /\ \A x \in S : Cardinality(Before(R, S, x)) \in 0..(Cardinality(S) - 1)
           /\ \A x, y \in S : <<x, y>> \in R <=>
                  Cardinality(Before(R, S, x)) < Cardinality(Before(R, S, y))
           /\ \A n \in 0..(Cardinality(S) - 1) : \E x \in S : Cardinality(Before(R, S, x)) = n
<1> DEFINE place == [x \in S |-> Cardinality(Before(R, S, x))]
           top == Cardinality(S)
<1>1. top \in Nat
  BY FS_CardinalityType
<1>2. ASSUME NEW x \in S PROVE IsFiniteSet(Before(R, S, x)) /\ place[x] \in 0..(top - 1)
  <2>1. Before(R, S, x) \subseteq S /\ x \notin Before(R, S, x)
    BY DEF Before, Orders
  <2>2. Before(R, S, x) # S
    BY <2>1
  <2>3. IsFiniteSet(Before(R, S, x)) /\ Cardinality(Before(R, S, x)) <= top
    BY <2>1, FS_Subset
  <2>4. Cardinality(Before(R, S, x)) # top
    BY <2>1, <2>2, FS_Subset
  <2>5. Cardinality(Before(R, S, x)) \in Nat
    BY <2>3, FS_CardinalityType
  <2> HIDE DEF top
  <2>6. Cardinality(Before(R, S, x)) \in 0..(top - 1)
    BY <1>1, <2>3, <2>4, <2>5
  <2> QED BY <2>3, <2>6
<1>3. ASSUME NEW x \in S, NEW y \in S, <<x, y>> \in R PROVE place[x] < place[y]
  <2>1. Before(R, S, x) \subseteq Before(R, S, y)
    BY <1>3 DEF Before, Orders
  <2>2. x \in Before(R, S, y) /\ x \notin Before(R, S, x)
    BY <1>3 DEF Before, Orders
  <2> DEFINE a == Before(R, S, x)
             b == Before(R, S, y)
  <2>3. a \in SUBSET b /\ a # b /\ IsFiniteSet(a) /\ IsFiniteSet(b)
    BY <1>2, <2>1, <2>2
  <2> HIDE DEF a, b
  <2>4. Cardinality(a) <= Cardinality(b) /\ Cardinality(a) # Cardinality(b)
    BY <2>3, FS_Subset
  <2>5. Cardinality(a) \in Nat /\ Cardinality(b) \in Nat
    BY <2>3, FS_CardinalityType
  <2>6. Cardinality(a) < Cardinality(b)
    BY <2>4, <2>5
  <2> QED BY <2>6 DEF a, b
<1>4. \A x \in S : place[x] \in Int
  <2> HIDE DEF place
  <2> QED BY <1>1, <1>2
<1>5. \A x, y \in S : place[x] = place[y] => x = y
  <2> SUFFICES ASSUME NEW x \in S, NEW y \in S, place[x] = place[y], x # y PROVE FALSE
    OBVIOUS
  <2>1. <<x, y>> \in R \/ <<y, x>> \in R
    BY DEF Orders
  <2> HIDE DEF place
  <2>2. place[x] < place[y] \/ place[y] < place[x]
    BY <1>3, <2>1
  <2> QED BY <1>4, <2>2
<1>6. ASSUME NEW x \in S, NEW y \in S, place[x] < place[y] PROVE <<x, y>> \in R
  <2> HIDE DEF place
  <2>1. x # y
    BY <1>4, <1>6
  <2>2. CASE <<y, x>> \in R
    <3>1. place[y] < place[x]
      BY <1>3, <2>2
    <3> QED BY <1>4, <1>6, <3>1
  <2> QED BY <2>1, <2>2 DEF Orders
<1>7. place \in Surjection(S, 0..(top - 1))
  <2>1. place \in [S -> 0..(top - 1)]
    BY <1>2
  <2>2. place \in Injection(S, 0..(top - 1))
    <3> HIDE DEF place, top
    <3> QED BY <1>5, <2>1, Fun_IsInj
  <2>3. IsFiniteSet(0..(top - 1)) /\ Cardinality(0..(top - 1)) = top
    <3> HIDE DEF top
    <3>1. 0 \in Int /\ top - 1 \in Int /\ (top - 1) - 0 + 1 = top
      BY <1>1
    <3> QED BY <1>1, <3>1, FS_Interval
  <2> HIDE DEF place
  <2> QED BY <1>1, <2>1, <2>2, <2>3, FS_Injection
<1>8. ASSUME NEW n \in 0..(top - 1) PROVE \E x \in S : place[x] = n
  <2> HIDE DEF place, top
  <2> QED BY <1>7 DEF Surjection
<1> QED BY <1>1, <1>2, <1>3, <1>6, <1>8

\* The members of a finite set in order: each has the place that as many as
\* come before it give it.
Listed(R, S) ==
    [n \in 1..Cardinality(S) |-> CHOOSE x \in S : Cardinality(Before(R, S, x)) = n - 1]

LEMMA InPlaces ==
    ASSUME NEW S, IsFiniteSet(S), NEW R, Orders(R, S)
    PROVE  /\ Cardinality(S) \in Nat
           /\ Listed(R, S) \in [1..Cardinality(S) -> S]
           /\ \A x \in S : \E n \in 1..Cardinality(S) : Listed(R, S)[n] = x
           /\ \A m, n \in 1..Cardinality(S) :
                 m < n <=> <<Listed(R, S)[m], Listed(R, S)[n]>> \in R
<1> DEFINE top == Cardinality(S)
           place(x) == Cardinality(Before(R, S, x))
           f == Listed(R, S)
<1>1. /\ top \in Nat
      /\ \A x \in S : place(x) \in 0..(top - 1)
      /\ \A x, y \in S : <<x, y>> \in R <=> place(x) < place(y)
      /\ \A n \in 0..(top - 1) : \E x \in S : place(x) = n
  BY Places
<1>2. \A n \in 1..top : f[n] = CHOOSE x \in S : place(x) = n - 1
  BY DEF Listed
<1>3. DOMAIN f = 1..top /\ f = [n \in 1..top |-> f[n]]
  BY DEF Listed
<1> HIDE DEF place, top, f
<1>4. ASSUME NEW n \in 1..top PROVE f[n] \in S /\ place(f[n]) = n - 1
  <2>1. n - 1 \in 0..(top - 1)
    BY <1>1
  <2>2. \E x \in S : place(x) = n - 1
    BY <1>1, <2>1
  <2> QED BY <1>2, <2>2
<1>5. \A x, y \in S : place(x) = place(y) => x = y
  <2> SUFFICES ASSUME NEW x \in S, NEW y \in S, place(x) = place(y), x # y PROVE FALSE
    OBVIOUS
  <2>1. <<x, y>> \in R \/ <<y, x>> \in R
    BY DEF Orders
  <2> QED BY <1>1, <2>1
<1>6. ASSUME NEW x \in S PROVE \E n \in 1..top : f[n] = x
  <2>1. place(x) + 1 \in 1..top /\ (place(x) + 1) - 1 = place(x)
    BY <1>1
  <2>2. f[place(x) + 1] = x
    BY <1>4, <1>5, <2>1
  <2> QED BY <2>1, <2>2
<1>7. ASSUME NEW m \in 1..top, NEW n \in 1..top PROVE m < n <=> <<f[m], f[n]>> \in R
  <2>1. f[m] \in S /\ f[n] \in S /\ place(f[m]) = m - 1 /\ place(f[n]) = n - 1
    BY <1>4
  <2>2. m < n <=> m - 1 < n - 1
    BY <1>1
  <2> QED BY <1>1, <2>1, <2>2
<1> QED BY <1>1, <1>3, <1>4, <1>6, <1>7 DEF top, f

\* The numbers of a set, in order.
Upwards(S) == {q \in S \X S : q[1] < q[2]}

LEMMA NumbersOrdered ==
    ASSUME NEW S \in SUBSET Nat
    PROVE  /\ Orders(Upwards(S), S)
           /\ \A x \in S : Before(Upwards(S), S, x) = {j \in S : j < x}
           /\ \A x, y \in S : <<x, y>> \in Upwards(S) <=> x < y
<1>1. \A x, y \in S : <<x, y>> \in Upwards(S) <=> x < y
  BY DEF Upwards
<1>2. \A x, y \in S : x \in Int /\ y \in Int
  OBVIOUS
<1>3. Orders(Upwards(S), S)
  <2>1. \A x \in S : <<x, x>> \notin Upwards(S)
    BY <1>1, <1>2
  <2>2. \A x, y \in S : x # y => <<x, y>> \in Upwards(S) \/ <<y, x>> \in Upwards(S)
    BY <1>1, <1>2
  <2>3. \A x, y, z \in S :
            <<x, y>> \in Upwards(S) /\ <<y, z>> \in Upwards(S) => <<x, z>> \in Upwards(S)
    BY <1>1, <1>2
  <2> QED BY <2>1, <2>2, <2>3 DEF Orders
<1>4. \A x \in S : Before(Upwards(S), S, x) = {j \in S : j < x}
  BY <1>1 DEF Before
<1> QED BY <1>1, <1>3, <1>4

-----------------------------------------------------------------------------
(* Sequences.                                                              *)

\* A function on 1 .. n is a sequence of length n.
LEMMA FunctionIsList ==
    ASSUME NEW S, NEW n \in Nat, NEW f \in [1 .. n -> S]
    PROVE  f \in Seq(S) /\ Len(f) = n /\ DOMAIN f = 1 .. n
<1>1. f \in Seq(S)
  BY SeqDef
<1>2. Len(f) \in Nat /\ 1 .. Len(f) = 1 .. n
  BY <1>1, LenProperties
<1>3. ~(Len(f) < n) /\ ~(n < Len(f))
  <2>1. ASSUME Len(f) < n PROVE FALSE
    <3>1. n \in 1 .. n /\ n \notin 1 .. Len(f)
      BY <1>2, <2>1
    <3> QED
      BY <3>1, <1>2
  <2>2. ASSUME n < Len(f) PROVE FALSE
    <3>1. Len(f) \in 1 .. Len(f) /\ Len(f) \notin 1 .. n
      BY <1>2, <2>2
    <3> QED
      BY <3>1, <1>2
  <2> QED
    BY <2>1, <2>2
<1> QED
  BY <1>1, <1>2, <1>3

\* SelectedFrom: t is the members of s at the places p, which are those of S in order.
SelectedFrom(t, s, S, p) ==
    /\ DOMAIN t = 1 .. Len(t)
    /\ p \in [1 .. Len(t) -> S]
    /\ \A m, n \in 1 .. Len(t) : m < n <=> p[m] < p[n]
    /\ \A i \in S : \E m \in 1 .. Len(t) : p[m] = i
    /\ \A m \in 1 .. Len(t) : t[m] = s[p[m]]

\* Selected keeps the members at the places S, in their order.
LEMMA SelectedIs ==
    ASSUME NEW T, NEW s \in Seq(T), NEW S \in SUBSET DOMAIN s
    PROVE  /\ Selected(s, S) \in Seq(T)
           /\ Len(Selected(s, S)) <= Len(s)
           /\ \E p : SelectedFrom(Selected(s, S), s, S, p)
<1> DEFINE R == Upwards(S)
           p == Listed(R, S)
           t == Selected(s, S)
<1>1. S \in SUBSET Nat /\ IsFiniteSet(S) /\ Cardinality(S) <= Len(s)
  <2>1. Len(s) \in Nat /\ DOMAIN s = 1 .. Len(s)
    BY LenProperties
  <2>2. IsFiniteSet(1 .. Len(s)) /\ Cardinality(1 .. Len(s)) = Len(s)
    <3>1. 1 \in Int /\ Len(s) \in Int
      BY <2>1
    <3>2. /\ IsFiniteSet(1 .. Len(s))
          /\ Cardinality(1 .. Len(s)) = IF 1 > Len(s) THEN 0 ELSE Len(s) - 1 + 1
      BY <3>1, FS_Interval
    <3> QED BY <2>1, <3>2
  <2> QED BY <2>1, <2>2, FS_Subset
<1>2. /\ Orders(R, S)
      /\ \A x \in S : Before(R, S, x) = {j \in S : j < x}
      /\ \A x, y \in S : <<x, y>> \in R <=> x < y
  BY <1>1, NumbersOrdered
<1> HIDE DEF R
<1>4. \A m \in 1 .. Cardinality(S) :
         p[m] = CHOOSE i \in S : Cardinality({j \in S : j < i}) = m - 1
  <2> TAKE m \in 1 .. Cardinality(S)
  <2>1. p[m] = CHOOSE x \in S : Cardinality(Before(R, S, x)) = m - 1
    BY DEF Listed
  <2> HIDE DEF p
  <2>2. \A x \in S : Cardinality(Before(R, S, x)) = Cardinality({j \in S : j < x})
    BY <1>2
  <2> QED BY <2>1, <2>2
<1> HIDE DEF p
<1>5. /\ Cardinality(S) \in Nat
      /\ p \in [1 .. Cardinality(S) -> S]
      /\ \A x \in S : \E m \in 1 .. Cardinality(S) : p[m] = x
      /\ \A l, m \in 1 .. Cardinality(S) : l < m <=> <<p[l], p[m]>> \in R
  <2>1. IsFiniteSet(S) /\ Orders(R, S)
    BY <1>1, <1>2
  <2> QED BY <2>1, InPlaces DEF p
<1>6. /\ DOMAIN t = 1 .. Cardinality(S)
      /\ \A m \in 1 .. Cardinality(S) : t[m] = s[p[m]]
  BY <1>4 DEF Selected
<1>7. t \in [1 .. Cardinality(S) -> T]
  <2>1. \A m \in 1 .. Cardinality(S) : s[p[m]] \in T
    BY <1>5, ElementOfSeq, LenProperties
  <2>2. t = [m \in 1 .. Cardinality(S) |-> t[m]]
    BY <1>6 DEF Selected
  <2> HIDE DEF t
  <2> QED BY <1>6, <2>1, <2>2
<1> HIDE DEF t
<1>8. t \in Seq(T) /\ Len(t) = Cardinality(S) /\ DOMAIN t = 1 .. Cardinality(S)
  BY <1>5, <1>7, FunctionIsList
<1>9. \A l, m \in 1 .. Cardinality(S) : l < m <=> p[l] < p[m]
  BY <1>2, <1>5
<1>10. SelectedFrom(t, s, S, p)
  BY <1>5, <1>6, <1>8, <1>9 DEF SelectedFrom
<1> QED BY <1>1, <1>8, <1>10 DEF t

-----------------------------------------------------------------------------
(* Numbers.                                                                *)

\* A set of numbers that is not empty has a least one.
LEMMA LeastIs ==
    ASSUME NEW S \in SUBSET Nat, S # {}
    PROVE  Min(S) \in S /\ \A y \in S : Min(S) <= y
<1>1. \E x \in S : \A y \in S : x <= y
  BY LeastNumber
<1> QED BY <1>1 DEF Min

\* A set of numbers up to n that is not empty has a greatest one.
LEMMA GreatestIs ==
    ASSUME NEW S \in SUBSET Nat, S # {}, NEW n \in Nat, \A x \in S : x <= n
    PROVE  Max(S) \in S /\ \A y \in S : y <= Max(S)
<1> DEFINE T == {n - x : x \in S}
<1>0. T # {} /\ T \in SUBSET Nat
  <2>1. \A x \in S : n - x \in Nat
    OBVIOUS
  <2> QED BY <2>1
<1>1. Min(T) \in T /\ \A y \in T : Min(T) <= y
  BY <1>0, LeastIs
<1>2. PICK x \in S : Min(T) = n - x
  BY <1>1
<1>3. \A y \in S : y <= x
  <2> TAKE y \in S
  <2>1. n - x <= n - y
    BY <1>1, <1>2
  <2> QED BY <2>1
<1> HIDE DEF T
<1> QED BY <1>3 DEF Max

\* A finite set of numbers has a bound.
LEMMA Bounded ==
    ASSUME NEW S \in SUBSET Nat, IsFiniteSet(S)
    PROVE  \E n \in Nat : \A x \in S : x <= n
<1> DEFINE Holds(n) == \A T \in SUBSET S : Cardinality(T) = n => \E m \in Nat : \A x \in T : x <= m
           N == {n \in Nat : Holds(n)}
<1>1. 0 \in N
  <2> SUFFICES ASSUME NEW T \in SUBSET S, Cardinality(T) = 0
               PROVE  \E m \in Nat : \A x \in T : x <= m
    OBVIOUS
  <2>1. T = {}
    BY FS_Subset, FS_EmptySet
  <2> QED BY <2>1
<1>2. ASSUME NEW n \in Nat, n \in N PROVE n + 1 \in N
  <2>0. Holds(n + 1) => n + 1 \in N
    <3> HIDE DEF Holds
    <3> QED OBVIOUS
  <2> SUFFICES ASSUME NEW T \in SUBSET S, Cardinality(T) = n + 1
               PROVE  \E m \in Nat : \A x \in T : x <= m
    BY <2>0
  <2>1. IsFiniteSet(T)
    BY FS_Subset
  <2>2. PICK x \in T : TRUE
    <3>1. T # {}
      BY FS_EmptySet
    <3> QED BY <3>1
  <2>3. T \ {x} \in SUBSET S /\ Cardinality(T \ {x}) = n
    <3>1. Cardinality(T \ {x}) = Cardinality(T) - 1
      BY <2>1, <2>2, FS_RemoveElement
    <3> QED BY <3>1
  <2>4. PICK m \in Nat : \A y \in T \ {x} : y <= m
    BY <1>2, <2>3
  <2>5. x \in Nat
    BY <2>2
  <2>6. CASE x <= m
    BY <2>4, <2>6
  <2>7. CASE ~(x <= m)
    <3>1. \A y \in T : y <= x
      BY <2>4, <2>5, <2>7
    <3> QED BY <2>5, <3>1
  <2> QED BY <2>6, <2>7
<1>3. Nat \subseteq N
  <2> HIDE DEF N
  <2> QED BY <1>1, <1>2, Induction
<1>4. Cardinality(S) \in Nat
  BY FS_CardinalityType
<1> QED BY <1>3, <1>4

\* A finite set of numbers has a greatest one.
LEMMA FiniteMax ==
    ASSUME NEW S \in SUBSET Nat, S # {}, IsFiniteSet(S)
    PROVE  Max(S) \in S /\ \A y \in S : y <= Max(S)
<1>1. PICK n \in Nat : \A x \in S : x <= n
  BY Bounded
<1> QED BY <1>1, GreatestIs

-----------------------------------------------------------------------------
(* Sums: of a function with finitely many arguments, a number each.        *)

\* The element CHOOSE takes off, and what the sum or the product of R is from
\* smaller ones.
TakenOff(R) == CHOOSE x \in R : TRUE
SumStep(w, g, R) == IF R = {} THEN 0 ELSE w[TakenOff(R)] + g[R \ {TakenOff(R)}]
ProductStep(w, g, R) == IF R = {} THEN 1 ELSE w[TakenOff(R)] * g[R \ {TakenOff(R)}]
FoldStep(unit, w, g, R) == IF unit = 0 THEN SumStep(w, g, R) ELSE ProductStep(w, g, R)

\* g sums w over every subset of S.
IsSum(g, S, w) == g = [R \in SUBSET S |-> SumStep(w, g, R)]

IsFold(g, S, unit, w) == g = [R \in SUBSET S |-> FoldStep(unit, w, g, R)]

\* There is a fold: one step after another, up to the size of the set.
LEMMA FoldExists ==
    ASSUME NEW S, IsFiniteSet(S), NEW w, NEW unit
    PROVE  \E g : IsFold(g, S, unit, w)
<1> DEFINE Upto(n) == {R \in SUBSET S : Cardinality(R) <= n}
           N == {n \in Nat : \E g : \A R \in Upto(n) : g[R] = FoldStep(unit, w, g, R)}
<1>0. \A R \in SUBSET S : IsFiniteSet(R) /\ Cardinality(R) \in Nat
  BY FS_Subset, FS_CardinalityType
<1>1. 0 \in N
  <2> DEFINE g == [R \in SUBSET S |-> IF unit = 0 THEN 0 ELSE 1]
  <2>1. \A R \in Upto(0) : R = {}
    BY <1>0, FS_EmptySet
  <2>2. \A R \in Upto(0) : g[R] = FoldStep(unit, w, g, R)
    BY <2>1 DEF FoldStep, SumStep, ProductStep
  <2> QED BY <2>2
<1>2. ASSUME NEW n \in Nat, n \in N PROVE n + 1 \in N
  <2>1. PICK g : \A R \in Upto(n) : g[R] = FoldStep(unit, w, g, R)
    BY <1>2
  <2> DEFINE h == [R \in Upto(n + 1) |-> IF R \in Upto(n) THEN g[R] ELSE FoldStep(unit, w, g, R)]
  <2>2. ASSUME NEW R \in Upto(n + 1), R # {}
        PROVE  R \ {TakenOff(R)} \in Upto(n) /\ R \ {TakenOff(R)} \in Upto(n + 1)
    <3>1. TakenOff(R) \in R
      BY <2>2 DEF TakenOff
    <3>2. Cardinality(R \ {TakenOff(R)}) = Cardinality(R) - 1
      BY <1>0, <3>1, FS_RemoveElement
    <3>3. Cardinality(R) \in Nat /\ Cardinality(R) <= n + 1
      BY <1>0
    <3>4. Cardinality(R \ {TakenOff(R)}) <= n /\ Cardinality(R \ {TakenOff(R)}) <= n + 1
      BY <3>2, <3>3
    <3> QED BY <3>4
  <2>3. ASSUME NEW R \in Upto(n + 1) PROVE h[R] = FoldStep(unit, w, h, R)
    <3>1. h[R] = FoldStep(unit, w, g, R)
      <4> HIDE DEF Upto
      <4> QED BY <2>1
    <3>2. R # {} => h[R \ {TakenOff(R)}] = g[R \ {TakenOff(R)}]
      <4> HIDE DEF Upto
      <4> QED BY <2>2
    <3> HIDE DEF h, Upto
    <3> QED BY <3>1, <3>2 DEF FoldStep, SumStep, ProductStep
  <2> HIDE DEF h
  <2> QED BY <2>3
<1>3. Nat \subseteq N
  <2> HIDE DEF N
  <2> QED BY <1>1, <1>2, Induction
<1>4. Cardinality(S) \in N
  BY <1>0, <1>3
<1>5. PICK g : \A R \in Upto(Cardinality(S)) : g[R] = FoldStep(unit, w, g, R)
  BY <1>4
<1>6. \A R \in SUBSET S : R \in Upto(Cardinality(S))
  BY FS_Subset
<1> DEFINE G == [R \in SUBSET S |-> g[R]]
<1>7. \A R \in SUBSET S : G[R] = FoldStep(unit, w, G, R)
  <2> TAKE R \in SUBSET S
  <2>1. G[R] = FoldStep(unit, w, g, R) /\ G[R \ {TakenOff(R)}] = g[R \ {TakenOff(R)}]
    <3> HIDE DEF Upto
    <3> QED BY <1>5, <1>6
  <2> HIDE DEF G
  <2> QED BY <2>1 DEF FoldStep, SumStep, ProductStep
<1>8. G = [R \in SUBSET S |-> FoldStep(unit, w, G, R)]
  <2>1. G = [R \in SUBSET S |-> G[R]]
    OBVIOUS
  <2> HIDE DEF G
  <2> QED BY <1>7, <2>1
<1> HIDE DEF G
<1> QED BY <1>8 DEF IsFold

LEMMA SumExists ==
    ASSUME NEW S, IsFiniteSet(S), NEW w
    PROVE  \E g : IsSum(g, S, w)
<1>1. PICK g : IsFold(g, S, 0, w)
  BY FoldExists
<1>2. g = [R \in SUBSET S |-> SumStep(w, g, R)]
  BY <1>1 DEF FoldStep, IsFold
<1> QED BY <1>2 DEF IsSum

\* What is taken off first does not matter.
LEMMA SumOrder ==
    ASSUME NEW S, IsFiniteSet(S), NEW w \in [S -> Nat], NEW g,
           \A R \in SUBSET S : g[R] = SumStep(w, g, R)
    PROVE  \A R \in SUBSET S : g[R] \in Nat /\ \A y \in R : g[R] = w[y] + g[R \ {y}]
<1> DEFINE Fits(R) == g[R] \in Nat /\ \A y \in R : g[R] = w[y] + g[R \ {y}]
           N == {n \in Nat : \A R \in SUBSET S : Cardinality(R) <= n => Fits(R)}
<1>0. \A R \in SUBSET S : IsFiniteSet(R) /\ Cardinality(R) \in Nat
  BY FS_Subset, FS_CardinalityType
<1>e. ASSUME NEW R \in SUBSET S, R = {} PROVE Fits(R)
  <2>1. SumStep(w, g, R) = 0
    BY <1>e DEF SumStep
  <2>2. g[R] = 0
    BY <2>1
  <2> QED BY <1>e, <2>2
<1>1. 0 \in N
  <2> SUFFICES ASSUME NEW R \in SUBSET S, Cardinality(R) <= 0 PROVE Fits(R)
    OBVIOUS
  <2>1. Cardinality(R) = 0
    BY <1>0
  <2>2. R = {}
    BY <1>0, <2>1, FS_EmptySet
  <2> QED BY <1>e, <2>2
<1>2. ASSUME NEW n \in Nat, n \in N PROVE n + 1 \in N
  <2> SUFFICES ASSUME NEW R \in SUBSET S, Cardinality(R) <= n + 1, R # {} PROVE Fits(R)
    BY <1>e
  <2> DEFINE x == TakenOff(R)
  <2>1. x \in R
    BY DEF TakenOff
  <2>2. g[R] = w[x] + g[R \ {x}]
    BY DEF SumStep
  <2> HIDE DEF x
  <2>3. \A y \in R : R \ {y} \in SUBSET S /\ Cardinality(R \ {y}) <= n
    <3> TAKE y \in R
    <3>1. Cardinality(R \ {y}) = Cardinality(R) - 1
      BY <1>0, FS_RemoveElement
    <3>2. Cardinality(R) \in Nat
      BY <1>0
    <3> QED BY <3>1, <3>2
  <2>4. \A y \in R : Fits(R \ {y})
    BY <1>2, <2>3
  <2>5. g[R] \in Nat
    <3>1. g[R \ {x}] \in Nat /\ w[x] \in Nat
      BY <2>1, <2>4
    <3> QED BY <2>2, <3>1
  <2>6. ASSUME NEW y \in R, y # x PROVE g[R] = w[y] + g[R \ {y}]
    <3> DEFINE U == R \ {x, y}
    <3>1. /\ U = (R \ {x}) \ {y} /\ U = (R \ {y}) \ {x}
          /\ y \in R \ {x} /\ x \in R \ {y}
      BY <2>1, <2>6
    <3>2. g[R \ {x}] = w[y] + g[U] /\ g[R \ {y}] = w[x] + g[U]
      BY <2>1, <2>4, <3>1
    <3>3. g[U] \in Nat
      <4>1. U \in SUBSET S /\ Cardinality(U) <= n
        <5>1. U \in SUBSET (R \ {x}) /\ IsFiniteSet(R \ {x})
          BY <1>0, <2>1, <2>3
        <5>2. Cardinality(U) <= Cardinality(R \ {x})
          BY <5>1, FS_Subset
        <5>3. Cardinality(R \ {x}) <= n
          BY <2>1, <2>3
        <5>4. Cardinality(U) \in Nat /\ Cardinality(R \ {x}) \in Nat /\ U \in SUBSET S
          BY <1>0, <2>1, <2>3
        <5> QED BY <5>2, <5>3, <5>4
      <4> HIDE DEF U
      <4> QED BY <1>2, <4>1
    <3>4. w[x] \in Nat /\ w[y] \in Nat
      BY <2>1
    <3> HIDE DEF U
    <3> QED BY <2>2, <3>2, <3>3, <3>4
  <2> QED BY <2>2, <2>5, <2>6
<1>3. Nat \subseteq N
  <2> HIDE DEF N
  <2> QED BY <1>1, <1>2, Induction
<1> QED BY <1>0, <1>3

\* The sum of a function takes its arguments off in any order.
Adds(g, S, w) ==
    /\ SumOf(w) = g[S]
    /\ g[{}] = 0
    /\ \A R \in SUBSET S : g[R] \in Nat /\ \A y \in R : g[R] = w[y] + g[R \ {y}]

LEMMA SumIs ==
    ASSUME NEW S, IsFiniteSet(S), NEW w \in [S -> Nat]
    PROVE  \E g : Adds(g, S, w)
<1> DEFINE sum == CHOOSE g : IsSum(g, S, w)
<1>1. IsSum(sum, S, w)
  BY SumExists
<1>2. SumOf(w) = sum[S]
  <2>1. DOMAIN w = S
    OBVIOUS
  <2> QED BY <2>1 DEF SumOf, IsSum, SumStep, TakenOff
<1>3. \A R \in SUBSET S : sum[R] = SumStep(w, sum, R)
  <2> HIDE DEF sum
  <2> QED BY <1>1 DEF IsSum
<1> HIDE DEF sum
<1>4. \A R \in SUBSET S : sum[R] \in Nat /\ \A y \in R : sum[R] = w[y] + sum[R \ {y}]
  BY <1>3, SumOrder
<1>5. sum[{}] = 0
  BY <1>3 DEF SumStep
<1> QED BY <1>2, <1>4, <1>5 DEF Adds

\* A sum whose terms are no more than those of another is no more than it.
LEMMA SumBound ==
    ASSUME NEW S, IsFiniteSet(S), NEW w \in [S -> Nat],
           NEW T, IsFiniteSet(T), NEW v \in [T -> Nat],
           \A x \in S : w[x] = 0 \/ (x \in T /\ w[x] <= v[x])
    PROVE  SumOf(w) \in Nat /\ SumOf(v) \in Nat /\ SumOf(w) <= SumOf(v)
<1>1. PICK g : Adds(g, S, w)
  BY SumIs
<1>2. PICK h : Adds(h, T, v)
  BY SumIs
<1> DEFINE A == S \cup T
           Less(R) == g[R \cap S] <= h[R \cap T]
           Holds(n) == \A R \in SUBSET A : Cardinality(R) = n => Less(R)
           N == {n \in Nat : Holds(n)}
<1>3. IsFiniteSet(A)
  BY FS_Union
<1>4. \A R \in SUBSET A : IsFiniteSet(R) /\ Cardinality(R) \in Nat
  BY <1>3, FS_Subset, FS_CardinalityType
<1>5. 0 \in N
  <2> SUFFICES ASSUME NEW R \in SUBSET A, Cardinality(R) = 0 PROVE Less(R)
    OBVIOUS
  <2>1. R = {}
    BY <1>4, FS_EmptySet
  <2>2. g[R \cap S] = 0 /\ h[R \cap T] = 0
    <3>1. R \cap S = {} /\ R \cap T = {}
      BY <2>1
    <3> QED BY <1>1, <1>2, <3>1 DEF Adds
  <2> QED BY <2>2
<1>6. ASSUME NEW n \in Nat, n \in N PROVE n + 1 \in N
  <2>0. Holds(n + 1) => n + 1 \in N
    <3> HIDE DEF Holds
    <3> QED OBVIOUS
  <2> SUFFICES ASSUME NEW R \in SUBSET A, Cardinality(R) = n + 1 PROVE Less(R)
    BY <2>0
  <2>1. PICK y \in R : TRUE
    <3>1. R # {}
      <4> HIDE DEF A, Less, N, Holds
      <4> QED BY FS_EmptySet
    <3> QED BY <3>1
  <2> DEFINE Q == R \ {y}
  <2>2. Less(Q)
    <3>1. Cardinality(Q) = Cardinality(R) - 1
      BY <1>4, <2>1, FS_RemoveElement
    <3>2. Cardinality(Q) = n
      BY <3>1
    <3> HIDE DEF Less
    <3> QED BY <1>6, <3>2
  <2> DEFINE a == g[R \cap S]
             b == h[R \cap T]
             a1 == g[Q \cap S]
             b1 == h[Q \cap T]
  <2>3. a \in Nat /\ b \in Nat /\ a1 \in Nat /\ b1 \in Nat
    BY <1>1, <1>2 DEF Adds
  <2>4. y \in S => a = w[y] + a1 /\ w[y] \in Nat
    <3> SUFFICES ASSUME y \in S PROVE a = w[y] + a1 /\ w[y] \in Nat
      OBVIOUS
    <3> DEFINE RS == R \cap S
    <3>1. RS \in SUBSET S /\ y \in RS /\ RS \ {y} = Q \cap S
      BY <2>1
    <3> HIDE DEF RS, Q
    <3>2. g[RS] = w[y] + g[RS \ {y}]
      BY <1>1, <3>1 DEF Adds
    <3> QED BY <3>1, <3>2 DEF RS
  <2>5. y \in T => b = v[y] + b1 /\ v[y] \in Nat
    <3> SUFFICES ASSUME y \in T PROVE b = v[y] + b1 /\ v[y] \in Nat
      OBVIOUS
    <3> DEFINE RT == R \cap T
    <3>1. RT \in SUBSET T /\ y \in RT /\ RT \ {y} = Q \cap T
      BY <2>1
    <3> HIDE DEF RT, Q
    <3>2. h[RT] = v[y] + h[RT \ {y}]
      BY <1>2, <3>1 DEF Adds
    <3> QED BY <3>1, <3>2 DEF RT
  <2>6. (y \notin S => a = a1) /\ (y \notin T => b = b1)
    <3>1. y \notin S => R \cap S = Q \cap S
      OBVIOUS
    <3>2. y \notin T => R \cap T = Q \cap T
      OBVIOUS
    <3> QED BY <3>1, <3>2
  <2>7. a1 <= b1
    BY <2>2
  <2>8. y \in S => w[y] = 0 \/ (y \in T /\ w[y] <= v[y])
    OBVIOUS
  <2>9. a <= b
    <3> HIDE DEF a, b, a1, b1, Q, Less
    <3> QED BY <2>3, <2>4, <2>5, <2>6, <2>7, <2>8
  <2> QED BY <2>9
<1>7. Nat \subseteq N
  <2> HIDE DEF N
  <2> QED BY <1>5, <1>6, Induction
<1>8. Less(A)
  <2> HIDE DEF Less
  <2> QED BY <1>4, <1>7
<1>9. A \cap S = S /\ A \cap T = T
  OBVIOUS
<1>10. SumOf(w) = g[S] /\ SumOf(v) = h[T] /\ g[S] \in Nat /\ h[T] \in Nat
  BY <1>1, <1>2 DEF Adds
<1> QED BY <1>8, <1>9, <1>10

\* A sum is at least each of its terms, and nothing adds up to nothing.
LEMMA SumPart ==
    ASSUME NEW S, IsFiniteSet(S), NEW w \in [S -> Nat], NEW y \in S
    PROVE  w[y] <= SumOf(w)
<1>1. PICK g : Adds(g, S, w)
  BY SumIs
<1>2. SumOf(w) = w[y] + g[S \ {y}] /\ g[S \ {y}] \in Nat
  <2>1. S \in SUBSET S /\ S \ {y} \in SUBSET S
    OBVIOUS
  <2> QED BY <1>1, <2>1 DEF Adds
<1> QED BY <1>2

LEMMA SumNothing ==
    ASSUME NEW S, S = {}, NEW w \in [S -> Nat]
    PROVE  SumOf(w) = 0
<1>1. IsFiniteSet(S)
  BY FS_EmptySet
<1>2. PICK g : Adds(g, S, w)
  BY <1>1, SumIs
<1> QED BY <1>2 DEF Adds

\* A product of numbers is one.
LEMMA ProductIs ==
    ASSUME NEW S, IsFiniteSet(S), NEW w \in [S -> Nat]
    PROVE  ProductOf(w) \in Nat
<1> DEFINE IsProduct(g) == g = [R \in SUBSET S |-> ProductStep(w, g, R)]
           product == CHOOSE g : IsProduct(g)
           N == {n \in Nat : \A R \in SUBSET S : Cardinality(R) <= n => product[R] \in Nat}
<1>1. \E g : IsProduct(g)
  <2>1. PICK g : IsFold(g, S, 1, w)
    BY FoldExists
  <2> QED BY <2>1 DEF FoldStep, IsFold
<1>2. IsProduct(product)
  <2> HIDE DEF IsProduct
  <2> QED BY <1>1
<1>3. ProductOf(w) = product[S]
  <2>1. DOMAIN w = S
    OBVIOUS
  <2> QED BY <2>1 DEF ProductOf, ProductStep, TakenOff
<1>4. \A R \in SUBSET S : product[R] = ProductStep(w, product, R)
  <2> HIDE DEF product
  <2> QED BY <1>2
<1> HIDE DEF product, IsProduct
<1>5. \A R \in SUBSET S : IsFiniteSet(R) /\ Cardinality(R) \in Nat
  BY FS_Subset, FS_CardinalityType
<1>6. 0 \in N
  <2> SUFFICES ASSUME NEW R \in SUBSET S, Cardinality(R) <= 0 PROVE product[R] \in Nat
    OBVIOUS
  <2>1. Cardinality(R) = 0
    BY <1>5
  <2>2. R = {}
    BY <1>5, <2>1, FS_EmptySet
  <2>3. product[R] = 1
    BY <1>4, <2>2 DEF ProductStep
  <2> QED BY <2>3
<1>7. ASSUME NEW n \in Nat, n \in N PROVE n + 1 \in N
  <2> SUFFICES ASSUME NEW R \in SUBSET S, Cardinality(R) <= n + 1 PROVE product[R] \in Nat
    OBVIOUS
  <2>1. CASE R = {}
    <3>1. product[R] = 1
      BY <1>4, <2>1 DEF ProductStep
    <3> QED BY <3>1
  <2>2. CASE R # {}
    <3> DEFINE x == TakenOff(R)
    <3>1. x \in R
      BY <2>2 DEF TakenOff
    <3>2. product[R] = w[x] * product[R \ {x}]
      BY <1>4, <2>2 DEF ProductStep
    <3> HIDE DEF x
    <3>3. Cardinality(R \ {x}) = Cardinality(R) - 1 /\ Cardinality(R) \in Nat
      BY <1>5, <3>1, FS_RemoveElement
    <3>4. Cardinality(R \ {x}) <= n /\ R \ {x} \in SUBSET S
      BY <3>3
    <3>5. product[R \ {x}] \in Nat
      BY <1>7, <3>4
    <3>6. w[x] \in Nat
      BY <3>1
    <3>7. \A a, b \in Nat : a * b \in Nat
      OBVIOUS
    <3> QED BY <3>2, <3>5, <3>6, <3>7
  <2> QED BY <2>1, <2>2
<1>8. Nat \subseteq N
  <2> HIDE DEF N
  <2> QED BY <1>6, <1>7, Induction
<1>9. Cardinality(S) \in Nat /\ S \in SUBSET S
  BY FS_CardinalityType
<1>10. Cardinality(S) \in N
  BY <1>8, <1>9
<1> QED BY <1>3, <1>9, <1>10

-----------------------------------------------------------------------------
(* Lists, cut and sorted.                                                  *)

Lesser(a, b) == IF a <= b THEN a ELSE b

LEMMA LesserIs ==
    ASSUME NEW a \in Nat, NEW b \in Nat
    PROVE  Min({a, b}) = Lesser(a, b)
<1>1. {a, b} \in SUBSET Nat /\ {a, b} # {}
  OBVIOUS
<1>2. Min({a, b}) \in {a, b} /\ \A y \in {a, b} : Min({a, b}) <= y
  BY <1>1, LeastIs
<1> QED BY <1>2 DEF Lesser

\* Truncated keeps the first members.
LEMMA TruncatedIs ==
    ASSUME NEW T, NEW s \in Seq(T), NEW k \in Nat
    PROVE  /\ Truncated(s, k) \in Seq(T)
           /\ Len(Truncated(s, k)) = Lesser(k, Len(s))
           /\ \A i \in 1 .. Lesser(k, Len(s)) : Truncated(s, k)[i] = s[i]
<1> DEFINE a == Lesser(k, Len(s))
<1>1. Len(s) \in Nat
  BY LenProperties
<1>2. a \in Nat /\ a <= Len(s)
  BY <1>1 DEF Lesser
<1>3. Truncated(s, k) = SubSeq(s, 1, a)
  BY <1>1, LesserIs DEF Truncated
<1> HIDE DEF a
<1>4. 1 \in Int /\ a \in Int /\ \A i \in 1 .. a : s[i] \in T
  BY <1>1, <1>2, ElementOfSeq
<1>5. /\ SubSeq(s, 1, a) \in Seq(T)
      /\ Len(SubSeq(s, 1, a)) = IF 1 <= a THEN a - 1 + 1 ELSE 0
      /\ \A i \in 1 .. a - 1 + 1 : SubSeq(s, 1, a)[i] = s[1 + i - 1]
  BY <1>4, SubSeqProperties
<1>6. Len(SubSeq(s, 1, a)) = a
  BY <1>2, <1>5
<1>7. \A i \in 1 .. a : i \in 1 .. a - 1 + 1 /\ 1 + i - 1 = i
  BY <1>2
<1> QED BY <1>3, <1>5, <1>6, <1>7 DEF a

\* A list that names nothing twice.
Once(s, S) == s \in Seq(S) /\ \A i, j \in DOMAIN s : s[i] = s[j] => i = j

LEMMA OnceIs ==
    ASSUME NEW S, NEW s, Once(s, S)
    PROVE  /\ s \in Seq(S) /\ Len(s) \in Nat /\ DOMAIN s = 1 .. Len(s)
           /\ \A i, j \in 1 .. Len(s) : s[i] = s[j] => i = j
           /\ Range(s) \subseteq S /\ IsFiniteSet(Range(s)) /\ Cardinality(Range(s)) = Len(s)
<1>1. s \in Seq(S) /\ Len(s) \in Nat /\ DOMAIN s = 1 .. Len(s) /\ s \in [1 .. Len(s) -> S]
  BY LenProperties DEF Once
<1>2. \A i, j \in 1 .. Len(s) : s[i] = s[j] => i = j
  BY <1>1 DEF Once
<1>3. s \in Bijection(1 .. Len(s), Range(s))
  <2>1. s \in [1 .. Len(s) -> Range(s)]
    BY <1>1 DEF Range
  <2>2. \A y \in Range(s) : \E i \in 1 .. Len(s) : s[i] = y
    BY <1>1 DEF Range
  <2> QED BY <1>2, <2>1, <2>2 DEF Bijection, Injection, Surjection, IsInjective
<1>4. IsFiniteSet(1 .. Len(s)) /\ Cardinality(1 .. Len(s)) = Len(s)
  <2>1. ASSUME NEW n \in Nat PROVE IsFiniteSet(1 .. n) /\ Cardinality(1 .. n) = n
    BY FS_Interval
  <2> QED BY <1>1, <2>1
<1>5. ExistsBijection(1 .. Len(s), Range(s))
  BY <1>3 DEF ExistsBijection
<1>6. IsFiniteSet(Range(s)) /\ Cardinality(Range(s)) = Len(s)
  BY <1>4, <1>5, FS_Bijection
<1>7. Range(s) \subseteq S
  BY <1>1 DEF Range
<1> QED BY <1>1, <1>2, <1>6, <1>7

LEMMA OnceTruncated ==
    ASSUME NEW S, NEW s, Once(s, S), NEW k \in Nat
    PROVE  /\ Once(Truncated(s, k), S)
           /\ Len(Truncated(s, k)) = Lesser(k, Len(s))
           /\ Range(Truncated(s, k)) \subseteq Range(s)
<1> DEFINE t == Truncated(s, k)
<1>1. /\ s \in Seq(S) /\ Len(s) \in Nat /\ DOMAIN s = 1 .. Len(s)
      /\ \A i, j \in 1 .. Len(s) : s[i] = s[j] => i = j
  BY OnceIs
<1>2. /\ t \in Seq(S) /\ Len(t) = Lesser(k, Len(s))
      /\ \A i \in 1 .. Len(t) : t[i] = s[i]
  <2>1. /\ t \in Seq(S) /\ Len(t) = Lesser(k, Len(s))
        /\ \A i \in 1 .. Lesser(k, Len(s)) : t[i] = s[i]
    BY <1>1, TruncatedIs
  <2> HIDE DEF t
  <2> QED BY <2>1
<1> HIDE DEF t
<1>3. DOMAIN t = 1 .. Len(t) /\ Len(t) \in Nat /\ Len(t) <= Len(s)
  BY <1>1, <1>2, LenProperties DEF Lesser
<1>4. \A i \in 1 .. Len(t) : i \in 1 .. Len(s)
  BY <1>1, <1>3
<1>5. Once(t, S)
  BY <1>1, <1>2, <1>3, <1>4 DEF Once
<1>6. Range(t) \subseteq Range(s)
  BY <1>1, <1>2, <1>3, <1>4 DEF Range
<1> QED BY <1>2, <1>5, <1>6 DEF t

\* What is picked of a list that names nothing twice names nothing twice.
LEMMA OncePicked ==
    ASSUME NEW T, NEW s, Once(s, T), NEW S \in SUBSET DOMAIN s
    PROVE  /\ Once(Selected(s, S), T)
           /\ Range(Selected(s, S)) = {s[i] : i \in S}
<1> DEFINE t == Selected(s, S)
<1>1. s \in Seq(T) /\ DOMAIN s = 1 .. Len(s) /\ \A i, j \in 1 .. Len(s) : s[i] = s[j] => i = j
  BY OnceIs
<1>2. t \in Seq(T) /\ \E p : SelectedFrom(t, s, S, p)
  BY <1>1, SelectedIs
<1> HIDE DEF t
<1>3. PICK p : SelectedFrom(t, s, S, p)
  BY <1>2
<1>4. Len(t) \in Nat /\ DOMAIN t = 1 .. Len(t)
  BY <1>2, LenProperties
<1>5. /\ \A m \in 1 .. Len(t) : p[m] \in S /\ t[m] = s[p[m]]
      /\ \A m, n \in 1 .. Len(t) : m < n <=> p[m] < p[n]
      /\ \A i \in S : \E m \in 1 .. Len(t) : p[m] = i
  BY <1>3 DEF SelectedFrom
<1>6. ASSUME NEW m \in DOMAIN t, NEW n \in DOMAIN t, t[m] = t[n] PROVE m = n
  <2>1. p[m] = p[n]
    BY <1>1, <1>4, <1>5, <1>6
  <2>2. p[m] \in Int
    BY <1>1, <1>4, <1>5
  <2>3. ~(m < n) /\ ~(n < m)
    BY <1>4, <1>5, <2>1, <2>2
  <2> QED BY <1>4, <2>3
<1>7. Range(t) = {s[i] : i \in S}
  BY <1>4, <1>5 DEF Range
<1> QED BY <1>2, <1>6, <1>7 DEF t, Once

\* The order of a sort: by descending score, equals by the tie.
SortOrder(S, score, tie) ==
    {q \in S \X S : \/ score[q[1]] > score[q[2]]
                    \/ score[q[1]] = score[q[2]] /\ tie[q[1]] < tie[q[2]]}

\* A sort of a finite set names each member once, in order.
LEMMA SortedIs ==
    ASSUME NEW S, IsFiniteSet(S), NEW score, NEW tie,
           \A x \in S : score[x] \in Int /\ tie[x] \in Int,
           \A x, y \in S : tie[x] = tie[y] => x = y
    PROVE  /\ Cardinality(S) \in Nat
           /\ Sorted(S, score, tie) \in [1 .. Cardinality(S) -> S]
           /\ \A x \in S : \E n \in 1 .. Cardinality(S) : Sorted(S, score, tie)[n] = x
           /\ \A m, n \in 1 .. Cardinality(S) :
                 m < n <=> <<Sorted(S, score, tie)[m], Sorted(S, score, tie)[n]>>
                              \in SortOrder(S, score, tie)
<1> DEFINE R == SortOrder(S, score, tie)
           order == Sorted(S, score, tie)
           ahead(c) == {d \in S : \/ score[d] > score[c]
                                  \/ score[d] = score[c] /\ tie[d] <= tie[c]}
<1>1. \A x, y \in S : <<x, y>> \in R <=>
          score[x] > score[y] \/ (score[x] = score[y] /\ tie[x] < tie[y])
  BY DEF SortOrder
<1>2. Orders(R, S)
  <2> HIDE DEF R
  <2>1. \A x \in S : <<x, x>> \notin R
    BY <1>1
  <2>2. \A x, y \in S : x # y => <<x, y>> \in R \/ <<y, x>> \in R
    BY <1>1
  <2>3. \A x, y, z \in S : <<x, y>> \in R /\ <<y, z>> \in R => <<x, z>> \in R
    BY <1>1
  <2> QED BY <2>1, <2>2, <2>3 DEF Orders
<1>3. ASSUME NEW c \in S
      PROVE  /\ Cardinality(ahead(c)) = Cardinality(Before(R, S, c)) + 1
             /\ Cardinality(Before(R, S, c)) \in Nat
  <2> HIDE DEF R
  <2>1. ahead(c) = Before(R, S, c) \cup {c} /\ c \notin Before(R, S, c)
    BY <1>1 DEF Before
  <2>2. IsFiniteSet(Before(R, S, c)) /\ Cardinality(Before(R, S, c)) \in Nat
    <3>1. Before(R, S, c) \subseteq S
      BY DEF Before
    <3> QED BY <3>1, FS_Subset, FS_CardinalityType
  <2> HIDE DEF ahead
  <2> QED BY <2>1, <2>2, FS_AddElement
<1>4. Cardinality(S) \in Nat
  BY FS_CardinalityType
<1>5. order = Listed(R, S)
  <2>1. ASSUME NEW i \in 1 .. Cardinality(S)
        PROVE  (CHOOSE c \in S : Cardinality(ahead(c)) = i)
                 = (CHOOSE c \in S : Cardinality(Before(R, S, c)) = i - 1)
    <3>1. \A c \in S : Cardinality(ahead(c)) = i <=> Cardinality(Before(R, S, c)) = i - 1
      BY <1>3, <1>4
    <3> HIDE DEF ahead, R
    <3> QED BY <3>1
  <2>2. order = [i \in 1 .. Cardinality(S) |-> CHOOSE c \in S : Cardinality(ahead(c)) = i]
    BY DEF Sorted
  <2>3. Listed(R, S) = [i \in 1 .. Cardinality(S) |->
                          CHOOSE c \in S : Cardinality(Before(R, S, c)) = i - 1]
    BY DEF Listed
  <2> HIDE DEF order, R, ahead
  <2> QED BY <2>1, <2>2, <2>3
<1>6. IsFiniteSet(S) /\ Orders(R, S)
  BY <1>2
<1>7. /\ order \in [1 .. Cardinality(S) -> S]
      /\ \A x \in S : \E n \in 1 .. Cardinality(S) : order[n] = x
      /\ \A m, n \in 1 .. Cardinality(S) : m < n <=> <<order[m], order[n]>> \in R
  <2> HIDE DEF order, R
  <2> QED BY <1>5, <1>6, InPlaces
<1> QED BY <1>4, <1>7
=============================================================================
