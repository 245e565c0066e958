----------------------------- MODULE FoldLemmas -----------------------------
(***************************************************************************)
(* What FoldLeft computes, for any operator Op: the fold of an empty       *)
(* sequence is the base, and that of a longer one is Op of the fold of all *)
(* but its last element and of that element.                               *)
(*                                                                         *)
(* FoldLeft takes an operator, which a lemma cannot have as a parameter if *)
(* it is to be cited; so the operator is a constant of this module, and a  *)
(* module that folds with an operator of its own instantiates this one.    *)
(* Folds are defined by recursion on sets of positions; that such a        *)
(* function exists is proved by induction, which comes down to the least   *)
(* element of a set of numbers (Least).                                    *)
(***************************************************************************)
EXTENDS Integers, SequencesExt, SequenceTheorems, WellFoundedInduction, TLAPS

CONSTANT Op(_, _)

Fold(base, q) == FoldLeft(Op, base, q)

----------------------------------------------------------------------------
\* A set of natural numbers that is not empty has a least element.
LEMMA Least ==
  ASSUME NEW T \in SUBSET Nat, T # {}
  PROVE  \E m \in T : \A k \in T : m <= k
<1>1. IsWellFoundedOn(OpToRel(<, Nat), Nat)
  BY NatLessThanWellFounded
<1>2. PICK m \in T : \A k \in T : <<k, m>> \notin OpToRel(<, Nat)
  BY <1>1, WFMin
<1>3. \A k \in T : ~(k < m)
  BY <1>2 DEF OpToRel
<1> QED BY <1>3

\* A set that contains 0 and with a number its successor contains all numbers.
LEMMA Induction ==
  ASSUME NEW T, 0 \in T, \A n \in Nat : n \in T => n + 1 \in T
  PROVE  Nat \subseteq T
<1> DEFINE U == {n \in Nat : n \notin T}
<1> SUFFICES ASSUME U # {} PROVE FALSE
  OBVIOUS
<1>1. PICK m \in U : \A k \in U : m <= k
  BY Least
<1>2. m - 1 \in Nat /\ m - 1 \notin U
  BY <1>1
<1> QED BY <1>2

\* A bounded set of numbers that is not empty has a greatest element.
LEMMA Greatest ==
  ASSUME NEW n \in Nat, NEW T \in SUBSET (0..n), T # {}
  PROVE  \E m \in T : \A k \in T : k <= m
<1> DEFINE U == {d \in 0..n : n - d \in T}
<1>1. ASSUME NEW k \in T PROVE n - k \in U /\ k \in 0..n
  <2>1. k \in 0..n /\ n - k \in 0..n /\ n - (n - k) = k
    OBVIOUS
  <2> QED BY <2>1
<1>2. U \in SUBSET Nat /\ U # {}
  <2>1. PICK k : k \in T
    OBVIOUS
  <2>2. n - k \in U
    BY <1>1, <2>1
  <2>3. U \in SUBSET Nat
    OBVIOUS
  <2> QED BY <2>2, <2>3
<1>3. PICK d \in U : \A e \in U : d <= e
  BY <1>2, Least
<1>4. ASSUME NEW k \in T PROVE k <= n - d
  <2>1. d <= n - k /\ k \in 0..n /\ d \in 0..n
    BY <1>1, <1>3
  <2> QED BY <2>1
<1> QED BY <1>3, <1>4

LEMMA MaxOf ==
  ASSUME NEW S \in SUBSET Int, NEW m \in S, \A x \in S : x <= m
  PROVE  Max(S) = m
<1>1. \E x \in S : \A y \in S : x >= y
  OBVIOUS
<1>2. Max(S) \in S /\ \A y \in S : Max(S) >= y
  BY <1>1, Zenon DEF Max
<1>3. Max(S) \in Int /\ Max(S) <= m /\ Max(S) >= m
  BY <1>2
<1> QED BY <1>3

----------------------------------------------------------------------------
\* The function a fold is made of, on the subsets of 1..k.
Folds(f, base, q, k) ==
  f = [s \in SUBSET (1..k) |->
         IF s = {} THEN base ELSE Op(f[s \ {Max(s)}], q[Max(s)])]

LEMMA FoldsExist ==
  ASSUME NEW base, NEW q, NEW n \in Nat
  PROVE  \E f : Folds(f, base, q, n)
<1> DEFINE T == {k \in Nat : \E f : Folds(f, base, q, k)}
<1>1. 0 \in T
  <2> DEFINE f == [s \in SUBSET (1..0) |-> base]
  <2>1. SUBSET (1..0) = {{}}
    OBVIOUS
  <2>2. Folds(f, base, q, 0)
    BY <2>1 DEF Folds
  <2> QED BY <2>2
<1>2. ASSUME NEW k \in Nat, k \in T PROVE k + 1 \in T
  <2>1. PICK f : Folds(f, base, q, k)
    BY <1>2
  <2> DEFINE m == k + 1
             g == [s \in SUBSET (1..m) |->
                     IF m \in s THEN Op(f[s \ {m}], q[m]) ELSE f[s]]
  <2>2. ASSUME NEW s \in SUBSET (1..m), m \in s
        PROVE  s \ {m} \in SUBSET (1..k) /\ Max(s) = m
    <3>1. s \ {m} \in SUBSET (1..k)
      OBVIOUS
    <3>2. s \in SUBSET Int /\ \A x \in s : x <= m
      OBVIOUS
    <3>3. Max(s) = m
      BY <3>2, <2>2, MaxOf
    <3> QED BY <3>1, <3>3
  <2>3. ASSUME NEW s \in SUBSET (1..m)
        PROVE  g[s] = IF s = {} THEN base ELSE Op(g[s \ {Max(s)}], q[Max(s)])
    <3>1. CASE m \in s
      <4>1. g[s] = Op(f[s \ {m}], q[m])
        BY <3>1
      <4>2. s \ {m} \in SUBSET (1..m) /\ g[s \ {m}] = f[s \ {m}]
        BY <3>1, <2>2
      <4> HIDE DEF g
      <4> QED BY <3>1, <4>1, <4>2, <2>2
    <3>2. CASE m \notin s
      <4>1. g[s] = f[s] /\ s \in SUBSET (1..k)
        BY <3>2
      <4>2. s \ {Max(s)} \in SUBSET (1..m) /\ g[s \ {Max(s)}] = f[s \ {Max(s)}]
        BY <3>2
      <4>3. f[s] = IF s = {} THEN base ELSE Op(f[s \ {Max(s)}], q[Max(s)])
        BY <2>1, <4>1 DEF Folds
      <4> HIDE DEF g
      <4> QED BY <4>1, <4>2, <4>3
    <3> QED BY <3>1, <3>2
  <2>4. g = [s \in SUBSET (1..m) |->
               IF s = {} THEN base ELSE Op(g[s \ {Max(s)}], q[Max(s)])]
    <3>1. g = [s \in SUBSET (1..m) |-> g[s]]
      OBVIOUS
    <3> HIDE DEF g
    <3> QED BY <3>1, <2>3
  <2> HIDE DEF g
  <2>5. Folds(g, base, q, m)
    BY <2>4 DEF Folds
  <2> QED BY <2>5
<1> HIDE DEF T
<1>3. n \in T
  BY <1>1, <1>2, Induction
<1> QED BY <1>3 DEF T

\* The values of a fold along a sequence.
Steps(f, base, q, n) == f[0] = base /\ \A k \in 1..n : f[k] = Op(f[k - 1], q[k])

LEMMA FoldSteps ==
  ASSUME NEW base, NEW n \in Nat, NEW q, DOMAIN q = 1..n
  PROVE  \E f : Steps(f, base, q, n) /\ Fold(base, q) = f[n]
<1> DEFINE iter == CHOOSE f : Folds(f, base, q, n)
           h == [k \in 0..n |-> iter[1..k]]
<1>1. Folds(iter, base, q, n)
  BY FoldsExist
<1>2. Fold(base, q) = iter[1..n]
  BY DEF Fold, FoldLeft, MapThenFoldSet, Folds
<1> HIDE DEF iter
<1>3. h[0] = base
  <2>1. 1..0 = {} /\ {} \in SUBSET (1..n)
    OBVIOUS
  <2> QED BY <1>1, <2>1 DEF Folds
<1>4. ASSUME NEW k \in 1..n PROVE h[k] = Op(h[k - 1], q[k])
  <2>1. /\ 1..k \in SUBSET (1..n) /\ 1..k # {} /\ (1..k) \ {k} = 1..(k - 1)
        /\ k \in 1..k /\ 1..k \in SUBSET Int /\ \A x \in 1..k : x <= k
    OBVIOUS
  <2>2. Max(1..k) = k
    BY <2>1, MaxOf
  <2>3. iter[1..k] = Op(iter[1..(k - 1)], q[k])
    BY <1>1, <2>1, <2>2 DEF Folds
  <2>4. k \in 0..n /\ k - 1 \in 0..n
    OBVIOUS
  <2> QED BY <2>3, <2>4
<1>5. Steps(h, base, q, n) /\ h[n] = iter[1..n]
  BY <1>3, <1>4 DEF Steps
<1> QED BY <1>2, <1>5

LEMMA FoldEmpty ==
  ASSUME NEW base
  PROVE  Fold(base, <<>>) = base
<1>1. DOMAIN <<>> = 1..0
  OBVIOUS
<1>2. PICK f : Steps(f, base, <<>>, 0) /\ Fold(base, <<>>) = f[0]
  BY <1>1, FoldSteps
<1> QED BY <1>2 DEF Steps

LEMMA FoldAppend ==
  ASSUME NEW S, NEW base, NEW q \in Seq(S), NEW x \in S
  PROVE  Fold(base, Append(q, x)) = Op(Fold(base, q), x)
<1> DEFINE n == Len(q)
           r == Append(q, x)
<1>1. /\ n \in Nat /\ DOMAIN q = 1..n /\ DOMAIN r = 1..(n + 1)
      /\ r[n + 1] = x /\ \A k \in 1..n : r[k] = q[k]
  OBVIOUS
<1> HIDE DEF r, n
<1>2. PICK f : Steps(f, base, q, n) /\ Fold(base, q) = f[n]
  BY <1>1, FoldSteps
<1>3. PICK g : Steps(g, base, r, n + 1) /\ Fold(base, r) = g[n + 1]
  BY <1>1, FoldSteps
<1> DEFINE T == {k \in Nat : k <= n => f[k] = g[k]}
<1>4. 0 \in T
  BY <1>2, <1>3 DEF Steps
<1>5. ASSUME NEW k \in Nat, k \in T PROVE k + 1 \in T
  <2> SUFFICES ASSUME k + 1 <= n PROVE f[k + 1] = g[k + 1]
    OBVIOUS
  <2> DEFINE m == k + 1
  <2>1. m \in 1..n /\ m \in 1..(n + 1) /\ m - 1 = k /\ f[k] = g[k]
    BY <1>1, <1>5
  <2> HIDE DEF m
  <2>2. f[m] = Op(f[m - 1], q[m]) /\ g[m] = Op(g[m - 1], r[m])
    BY <1>2, <1>3, <2>1 DEF Steps
  <2>3. f[m] = g[m]
    BY <1>1, <2>1, <2>2
  <2> QED BY <2>3 DEF m
<1> HIDE DEF T
<1>6. n \in T
  BY <1>1, <1>4, <1>5, Induction
<1>7. f[n] = g[n]
  BY <1>1, <1>6 DEF T
<1>8. g[n + 1] = Op(g[n], x)
  <2>1. n + 1 \in 1..(n + 1) /\ (n + 1) - 1 = n
    BY <1>1
  <2>2. g[n + 1] = Op(g[(n + 1) - 1], r[n + 1])
    BY <1>3, <2>1 DEF Steps
  <2> QED BY <1>1, <2>1, <2>2
<1> QED BY <1>2, <1>3, <1>7, <1>8 DEF r

----------------------------------------------------------------------------
\* Induction over sequences.
LEMMA SeqInduction ==
  ASSUME NEW S, NEW T, <<>> \in T,
         \A q \in Seq(S), x \in S : q \in T => Append(q, x) \in T
  PROVE  Seq(S) \subseteq T
<1> DEFINE U == {n \in Nat : \A q \in Seq(S) : Len(q) = n => q \in T}
<1>1. 0 \in U
  BY EmptySeq
<1>2. ASSUME NEW n \in Nat, n \in U PROVE n + 1 \in U
  <2> SUFFICES ASSUME NEW q \in Seq(S), Len(q) = n + 1 PROVE q \in T
    OBVIOUS
  <2> DEFINE r == SubSeq(q, 1, n)
             x == q[n + 1]
  <2>1. r \in Seq(S) /\ Len(r) = n /\ x \in S /\ q = Append(r, x)
    OBVIOUS
  <2>2. r \in T
    BY <1>2, <2>1
  <2> HIDE DEF r, x
  <2> QED BY <2>1, <2>2
<1> HIDE DEF U
<1>3. Nat \subseteq U
  BY <1>1, <1>2, Induction
<1> QED BY <1>3, LenProperties DEF U

\* A fold stays in a set that its steps do not leave.
LEMMA FoldIn ==
  ASSUME NEW V, NEW S, NEW base \in V, NEW q \in Seq(S),
         \A a \in V, x \in S : Op(a, x) \in V
  PROVE  Fold(base, q) \in V
<1> DEFINE T == {r \in Seq(S) : Fold(base, r) \in V}
<1>1. <<>> \in T
  BY FoldEmpty, EmptySeq
<1>2. ASSUME NEW r \in Seq(S), NEW x \in S, r \in T PROVE Append(r, x) \in T
  BY <1>2, FoldAppend
<1> HIDE DEF T
<1>3. Seq(S) \subseteq T
  BY <1>1, <1>2, SeqInduction
<1> QED BY <1>3 DEF T
=============================================================================
