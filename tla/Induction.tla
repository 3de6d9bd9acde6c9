------------------------------ MODULE Induction ------------------------------
(***************************************************************************)
(* Induction for proofs.  The library states induction for an arbitrary    *)
(* predicate; here it is stated for a set, of which a proof says that it   *)
(* has every number or every subset of a finite set.  From it follow the   *)
(* existence of recursive functions and the laws of powers and of sums.    *)
(***************************************************************************)
EXTENDS Integers, FiniteSets, FiniteSetTheorems, FunctionTheorems, TLAPS

-----------------------------------------------------------------------------
(* Numbers                                                                 *)

(* A set of numbers that is not empty has a least one.                     *)
LEMMA LeastNumber ==
  ASSUME NEW B \in SUBSET Nat, B # {}
  PROVE  \E m \in B : \A n \in B : m <= n
<1> DEFINE R == {p \in Nat \X Nat : p[1] < p[2]}
<1>1. R = OpToRel(<, Nat)
  BY DEF OpToRel
<1>2. IsWellFoundedOn(R, Nat)
  BY <1>1, NatLessThanWellFounded
<1> HIDE DEF R
<1>3. PICK m \in B : \A n \in B : ~ (<<n, m>> \in R)
  BY <1>2, WFMin
<1>4. \A n \in B : ~(n < m)
  BY <1>3 DEF R
<1> QED
  BY <1>4

(* A set that has 0, and with n also n + 1, has every number.              *)
LEMMA NumberInduction ==
  ASSUME NEW B, 0 \in B, \A n \in Nat : n \in B => n + 1 \in B
  PROVE  Nat \subseteq B
<1> SUFFICES ASSUME Nat \ B # {} PROVE FALSE
  OBVIOUS
<1>1. PICK m \in Nat \ B : \A n \in Nat \ B : m <= n
  BY LeastNumber
<1>2. m # 0 /\ m - 1 \in Nat
  BY <1>1
<1>3. m - 1 \in B
  BY <1>1, <1>2
<1> QED
  BY <1>1, <1>2, <1>3

(* The next value, for every element of S and every value in V.            *)
Steps(S, V) == [S -> [V -> V]]

(* f starts with b and goes on with g.                                     *)
Iterates(f, V, b, g) ==
  /\ f \in [Nat -> V] /\ f[0] = b
  /\ \A n \in Nat : f[n + 1] = g[n][f[n]]

(* A function on the numbers is defined by its first value and by a next   *)
(* value for every number and value.                                       *)
LEMMA NumberRecursion ==
  ASSUME NEW V, NEW b \in V, NEW g, g \in Steps(Nat, V)
  PROVE  \E f : Iterates(f, V, b, g)
<1> USE DEF Steps
<1> DEFINE Upto(n, a) ==
             /\ a \in [0 .. n -> V] /\ a[0] = b
             /\ \A k \in 0 .. n - 1 : a[k + 1] = g[k][a[k]]
           Known == {n \in Nat : \E a : Upto(n, a)}
           F(n) == CHOOSE a : Upto(n, a)
           f == [n \in Nat |-> F(n)[n]]
<1>1. ASSUME NEW n \in Nat, NEW m \in Nat, m <= n,
             NEW a, Upto(n, a), NEW c, Upto(m, c)
      PROVE  \A k \in 0 .. m : a[k] = c[k]
  <2> DEFINE Same == {k \in Nat : k <= m => a[k] = c[k]}
  <2>1. 0 \in Same
    BY <1>1
  <2>2. ASSUME NEW k \in Nat, k \in Same PROVE k + 1 \in Same
    <3> SUFFICES ASSUME k + 1 <= m PROVE a[k + 1] = c[k + 1]
      OBVIOUS
    <3>1. k \in 0 .. n - 1 /\ k \in 0 .. m - 1 /\ k <= m
      BY <1>1
    <3>2. a[k] = c[k]
      BY <2>2, <3>1
    <3> QED
      BY <1>1, <3>1, <3>2
  <2> HIDE DEF Same, Upto
  <2>3. Nat \subseteq Same
    BY <2>1, <2>2, NumberInduction
  <2> QED
    BY <2>3 DEF Same
<1>2. 0 \in Known
  <2>1. Upto(0, [k \in 0 .. 0 |-> b])
    OBVIOUS
  <2> QED
    BY <2>1
<1>3. ASSUME NEW n \in Nat, n \in Known PROVE n + 1 \in Known
  <2>1. PICK a : Upto(n, a)
    BY <1>3
  <2> DEFINE c == [k \in 0 .. n + 1 |-> IF k = n + 1 THEN g[n][a[n]] ELSE a[k]]
  <2>2. a[n] \in V /\ g[n][a[n]] \in V
    BY <2>1
  <2>3. c \in [0 .. n + 1 -> V] /\ c[0] = b
    BY <2>1, <2>2
  <2>4. ASSUME NEW k \in 0 .. (n + 1) - 1 PROVE c[k + 1] = g[k][c[k]]
    <3>1. CASE k = n
      <4>1. c[k + 1] = g[n][a[n]] /\ c[k] = a[n]
        BY <3>1
      <4> QED
        BY <3>1, <4>1
    <3>2. CASE k # n
      <4>1. k \in 0 .. n - 1 /\ k + 1 \in 0 .. n /\ k + 1 # n + 1 /\ k # n + 1
        BY <3>2
      <4> QED
        BY <2>1, <4>1
    <3> QED
      BY <3>1, <3>2
  <2>5. Upto(n + 1, c)
    BY <2>3, <2>4
  <2> HIDE DEF Upto, c
  <2> QED
    BY <2>5
<1> HIDE DEF Upto
<1>4. Nat \subseteq Known
  <2> HIDE DEF Known
  <2> QED
    BY <1>2, <1>3, NumberInduction
<1>5. \A n \in Nat : Upto(n, F(n))
  BY <1>4
<1>6. ASSUME NEW n \in Nat PROVE F(n)[n] \in V
  <2>1. F(n) \in [0 .. n -> V]
    BY <1>5 DEF Upto
  <2> HIDE DEF F
  <2> QED
    BY <2>1
<1>7. F(0)[0] = b
  BY <1>5 DEF Upto
<1>8. ASSUME NEW n \in Nat PROVE F(n + 1)[n + 1] = g[n][F(n)[n]]
  <2>1. Upto(n + 1, F(n + 1)) /\ Upto(n, F(n))
    BY <1>5
  <2>2. F(n + 1)[n] = F(n)[n]
    BY <1>1, <2>1
  <2>3. n \in 0 .. (n + 1) - 1
    OBVIOUS
  <2>4. F(n + 1)[n + 1] = g[n][F(n + 1)[n]]
    BY <2>1, <2>3 DEF Upto
  <2> QED
    BY <2>2, <2>4
<1> HIDE DEF F
<1>9. f \in [Nat -> V] /\ f[0] = b
  BY <1>6, <1>7
<1>10. \A n \in Nat : f[n + 1] = g[n][f[n]]
  BY <1>8
<1> HIDE DEF f
<1> QED
  BY <1>9, <1>10 DEF Iterates

-----------------------------------------------------------------------------
(* Powers of two: 2^n is the number of subsets of 1 .. n.                  *)

LEMMA PowerOfTwo ==
  /\ 2^0 = 1
  /\ \A n \in Nat : 2^n \in Nat /\ 2^(n + 1) = 2 * 2^n
<1>1. ASSUME NEW n \in Nat
      PROVE  /\ IsFiniteSet(SUBSET (1 .. n))
             /\ Cardinality(SUBSET (1 .. n)) = 2^n
             /\ 2^n \in Nat
  <2>1. IsFiniteSet(1 .. n) /\ Cardinality(1 .. n) = n
    BY FS_Interval
  <2>2. IsFiniteSet(SUBSET (1 .. n)) /\ Cardinality(SUBSET (1 .. n)) = 2^n
    BY <2>1, FS_SUBSET
  <2> QED
    BY <2>2, FS_CardinalityType
<1>2. ASSUME NEW n \in Nat PROVE 2^(n + 1) = 2 * 2^n
  <2> DEFINE P == SUBSET (1 .. n)
             Q == {T \cup {n + 1} : T \in P}
             h == [T \in P |-> T \cup {n + 1}]
  <2>1. h \in [P -> Q] /\ \A T \in Q : \E U \in P : h[U] = T
    OBVIOUS
  <2>2. ASSUME NEW T \in P, NEW U \in P, h[T] = h[U] PROVE T = U
    <3>1. n + 1 \notin T /\ n + 1 \notin U
      OBVIOUS
    <3> QED
      BY <2>2, <3>1
  <2>3. h \in Bijection(P, Q)
    <3> HIDE DEF h, P, Q
    <3> QED
      BY <2>1, <2>2, Fun_IsBij
  <2>4. IsFiniteSet(P) /\ Cardinality(P) = 2^n /\ 2^n \in Nat
    BY <1>1
  <2>5. ExistsBijection(P, Q)
    <3> HIDE DEF h, P, Q
    <3> QED
      BY <2>3, Fun_ExistsBij
  <2>6. IsFiniteSet(Q) /\ Cardinality(Q) = 2^n
    <3> HIDE DEF h, P, Q
    <3> QED
      BY <2>4, <2>5, FS_Bijection
  <2>7. P \cap Q = {}
    OBVIOUS
  <2>8. P \cup Q = SUBSET (1 .. n + 1)
    <3>1. ASSUME NEW T \in SUBSET (1 .. n + 1), n + 1 \in T
          PROVE  T \in Q
      <4>1. T \ {n + 1} \in P
        OBVIOUS
      <4>2. T = (T \ {n + 1}) \cup {n + 1}
        BY <3>1
      <4> HIDE DEF P
      <4> QED
        BY <4>1, <4>2
    <3>2. ASSUME NEW T \in SUBSET (1 .. n + 1), n + 1 \notin T
          PROVE  T \in P
      BY <3>2
    <3>3. ASSUME NEW T \in P PROVE T \in SUBSET (1 .. n + 1)
      OBVIOUS
    <3>4. ASSUME NEW T \in P PROVE T \cup {n + 1} \in SUBSET (1 .. n + 1)
      OBVIOUS
    <3>5. ASSUME NEW T \in Q PROVE T \in SUBSET (1 .. n + 1)
      <4> HIDE DEF P
      <4> QED
        BY <3>4
    <3> HIDE DEF P, Q
    <3> QED
      BY <3>1, <3>2, <3>3, <3>5
  <2>9. Cardinality(P \cup Q) = 2^n + 2^n - Cardinality(P \cap Q)
    <3> HIDE DEF P, Q
    <3> QED
      BY <2>4, <2>6, FS_Union
  <2>10. Cardinality(P \cap Q) = 0
    BY <2>7, FS_EmptySet
  <2>11. Cardinality(P \cup Q) = 2^(n + 1)
    <3> DEFINE m == n + 1
    <3>1. m \in Nat
      OBVIOUS
    <3> HIDE DEF m
    <3>2. Cardinality(SUBSET (1 .. m)) = 2^m
      BY <1>1, <3>1
    <3> QED
      BY <2>8, <3>2 DEF m
  <2> HIDE DEF P, Q
  <2> QED
    BY <2>4, <2>9, <2>10, <2>11
<1>3. 2^0 = 1
  OBVIOUS
<1> QED
  BY <1>1, <1>2, <1>3

-----------------------------------------------------------------------------
(* Finite sets                                                             *)

(* C has a subset of S as soon as it has all that lack one of its elements *)
Inductive(C, S) ==
  \A T \in SUBSET S : (\A x \in T : T \ {x} \in C) => T \in C

(* Such a set has every subset.                                            *)
LEMMA SubsetInduction ==
  ASSUME NEW S, IsFiniteSet(S), NEW C, Inductive(C, S)
  PROVE  SUBSET S \subseteq C
<1> SUFFICES ASSUME (SUBSET S) \ C # {} PROVE FALSE
  OBVIOUS
<1>1. IsWellFoundedOn(StrictSubsetOrdering(S), SUBSET S)
  <2>1. FiniteSubsetsOf(S) = SUBSET S
    BY FS_FiniteSubsetsOfFinite
  <2>2. IsWellFoundedOn(StrictSubsetOrdering(S), FiniteSubsetsOf(S))
    BY FS_StrictSubsetOrderingWellFounded
  <2> QED
    BY <2>1, <2>2
<1>2. PICK T \in (SUBSET S) \ C :
        \A U \in (SUBSET S) \ C : ~ (<<U, T>> \in StrictSubsetOrdering(S))
  <2> DEFINE D == (SUBSET S) \ C
  <2>1. D \subseteq SUBSET S /\ D # {}
    OBVIOUS
  <2> HIDE DEF D
  <2>2. \E T \in D : \A U \in D : ~ (<<U, T>> \in StrictSubsetOrdering(S))
    BY <1>1, <2>1, WFMin
  <2> QED
    BY <2>2 DEF D
<1>3. ASSUME NEW x \in T PROVE T \ {x} \in C
  <2>1. <<T \ {x}, T>> \in StrictSubsetOrdering(S)
    BY DEF StrictSubsetOrdering
  <2> QED
    BY <1>2, <2>1
<1> QED
  BY <1>2, <1>3 DEF Inductive

Chooses(pick, S) == \A T \in SUBSET S : T # {} => pick[T] \in T

(* f starts with b and goes on with g, from subset to larger subset.       *)
Accumulates(f, S, V, b, g, pick) ==
  /\ f \in [SUBSET S -> V] /\ f[{}] = b
  /\ \A T \in SUBSET S : T # {} => f[T] = g[pick[T]][f[T \ {pick[T]}]]

(* A function on the subsets of a finite set is defined by its value for   *)
(* the empty set and by the step from a subset without its chosen element. *)
LEMMA SubsetRecursion ==
  ASSUME NEW S, IsFiniteSet(S), NEW V, NEW b \in V, NEW g, g \in Steps(S, V),
         NEW pick, Chooses(pick, S)
  PROVE  \E f : Accumulates(f, S, V, b, g, pick)
<1> USE DEF Steps, Chooses
<1> DEFINE W == [SUBSET S -> V]
           Next(w) == [T \in SUBSET S |->
                         IF T = {} THEN b ELSE g[pick[T]][w[T \ {pick[T]}]]]
           n == [k \in Nat |-> [w \in W |-> Next(w)]]
           start == [T \in SUBSET S |-> b]
<1>1. ASSUME NEW w \in W PROVE Next(w) \in W
  <2>1. ASSUME NEW T \in SUBSET S, T # {}
        PROVE  g[pick[T]][w[T \ {pick[T]}]] \in V
    <3>1. pick[T] \in S /\ T \ {pick[T]} \in SUBSET S
      BY <2>1
    <3> QED
      BY <3>1
  <2> QED
    BY <2>1
<1>2. n \in [Nat -> [W -> W]] /\ start \in W
  <2> HIDE DEF Next, W
  <2>1. n \in [Nat -> [W -> W]]
    BY <1>1
  <2>2. start \in W
    BY DEF W
  <2> QED
    BY <2>1, <2>2
<1> HIDE DEF n, start, W, Next, Steps
<1>3. PICK h : Iterates(h, W, start, n)
  <2>1. n \in Steps(Nat, W)
    BY <1>2 DEF Steps
  <2> QED
    BY <1>2, <2>1, NumberRecursion
<1>4. \A k \in Nat : h[k] \in W /\ h[k + 1] = Next(h[k])
  BY <1>3 DEF n, Iterates
<1> USE DEF start, W, Next
<1> DEFINE f == [T \in SUBSET S |-> h[Cardinality(T)][T]]
<1>5. ASSUME NEW T \in SUBSET S
      PROVE  /\ IsFiniteSet(T) /\ Cardinality(T) \in Nat
             /\ h[Cardinality(T)] \in [SUBSET S -> V]
  BY <1>4, FS_Subset, FS_CardinalityType
<1>6. f \in [SUBSET S -> V]
  BY <1>5
<1>7. f[{}] = b
  <2>1. f[{}] = h[0][{}]
    BY FS_EmptySet
  <2> QED
    BY <1>3, <2>1 DEF Iterates
<1>8. ASSUME NEW T \in SUBSET S, T # {}
      PROVE  f[T] = g[pick[T]][f[T \ {pick[T]}]]
  <2> DEFINE U == T \ {pick[T]}
  <2>1. pick[T] \in T /\ U \in SUBSET S
    BY <1>8
  <2>2. Cardinality(U) \in Nat /\ Cardinality(T) = Cardinality(U) + 1
    BY <1>5, <2>1, FS_RemoveElement
  <2>3. h[Cardinality(T)] = Next(h[Cardinality(U)])
    BY <1>4, <2>2
  <2>4. h[Cardinality(T)][T] = g[pick[T]][h[Cardinality(U)][U]]
    BY <1>8, <2>3
  <2> QED
    BY <2>1, <2>4
<1> HIDE DEF f
<1> QED
  BY <1>6, <1>7, <1>8 DEF Accumulates

-----------------------------------------------------------------------------
(* Sums                                                                    *)

First(T) == CHOOSE x \in T : TRUE

IntegersOn(f, S) == \A x \in S : f[x] \in Int

(* a has the sums of f over all subsets of S: each is that of the subset   *)
(* without one element, plus its value.                                    *)
Sums(a, f, S) ==
  /\ a \in [SUBSET S -> Int]
  /\ SumFunctionOnSet(f, S) = a[S]
  /\ a[{}] = 0
  /\ \A T \in SUBSET S : T # {} =>
       First(T) \in T /\ a[T] = f[First(T)] + a[T \ {First(T)}]

(* The sum of the library is defined as the last of them.                  *)
LEMMA SumEquation ==
  ASSUME NEW S, IsFiniteSet(S), NEW f, IntegersOn(f, S)
  PROVE  \E a : Sums(a, f, S)
<1> USE DEF IntegersOn
<1> DEFINE pick == [T \in SUBSET S |-> First(T)]
           g == [x \in S |-> [i \in Int |-> f[x] + i]]
           Body(s) == [T \in SUBSET S |->
                         IF T = {} THEN 0 ELSE f[First(T)] + s[T \ {First(T)}]]
           sum == CHOOSE s : s = Body(s)
<1>1. \A T \in SUBSET S : T # {} => First(T) \in T /\ pick[T] = First(T)
  BY DEF First
<1>2. g \in [S -> [Int -> Int]]
  OBVIOUS
<1> HIDE DEF pick, g
<1>3. PICK s : Accumulates(s, S, Int, 0, g, pick)
  <2>1. Chooses(pick, S)
    BY <1>1 DEF Chooses
  <2>2. 0 \in Int /\ g \in Steps(S, Int)
    BY <1>2 DEF Steps
  <2> QED
    BY <2>1, <2>2, SubsetRecursion
<1> USE DEF g
<1>4. ASSUME NEW T \in SUBSET S, T # {}
      PROVE  s[T] = f[First(T)] + s[T \ {First(T)}]
  <2>1. First(T) \in S /\ T \ {First(T)} \in SUBSET S /\ pick[T] = First(T)
    BY <1>1, <1>4
  <2>2. s[T \ {First(T)}] \in Int
    BY <1>3, <2>1 DEF Accumulates
  <2>3. g[First(T)][s[T \ {First(T)}]] = f[First(T)] + s[T \ {First(T)}]
    BY <2>1, <2>2
  <2> QED
    BY <1>3, <1>4, <2>1, <2>3 DEF Accumulates
<1>5. s = Body(s)
  BY <1>3, <1>4 DEF Accumulates
<1>6. sum = Body(sum)
  BY <1>5
<1>7. SumFunctionOnSet(f, S) = sum[S]
  BY DEF SumFunctionOnSet, FoldFunctionOnSet, MapThenFoldSet, First
<1> HIDE DEF sum
<1>8. /\ sum = [T \in SUBSET S |-> sum[T]] /\ sum[{}] = 0
      /\ \A T \in SUBSET S : T # {} => sum[T] = f[First(T)] + sum[T \ {First(T)}]
  BY <1>6
<1> DEFINE C == {T \in SUBSET S : sum[T] \in Int}
<1>9. SUBSET S \subseteq C
  <2>1. ASSUME NEW T \in SUBSET S, \A x \in T : T \ {x} \in C PROVE T \in C
    <3>1. CASE T = {}
      <4>1. sum[T] = 0
        BY <1>8, <3>1
      <4> QED
        BY <4>1
    <3>2. CASE T # {}
      <4>1. First(T) \in T /\ T \ {First(T)} \in C
        BY <1>1, <2>1, <3>2
      <4>2. f[First(T)] \in Int /\ sum[T \ {First(T)}] \in Int
        BY <4>1
      <4>3. sum[T] = f[First(T)] + sum[T \ {First(T)}]
        BY <1>8, <3>2
      <4>4. sum[T] \in Int
        BY <4>2, <4>3
      <4> QED
        BY <4>4
    <3> QED
      BY <3>1, <3>2
  <2> HIDE DEF C
  <2>2. Inductive(C, S)
    BY <2>1 DEF Inductive
  <2> QED
    BY <2>2, SubsetInduction
<1>10. sum \in [SUBSET S -> Int]
  BY <1>8, <1>9
<1> QED
  BY <1>1, <1>7, <1>8, <1>10 DEF Sums

(* The sum over no element is 0, and every other sum is that of the set    *)
(* without its first element, plus that element's value.                   *)
LEMMA SumFirst ==
  ASSUME NEW S, IsFiniteSet(S), NEW f, \A x \in S : f[x] \in Int
  PROVE  /\ SumFunctionOnSet(f, S) \in Int
         /\ S = {} => SumFunctionOnSet(f, S) = 0
         /\ S # {} => /\ First(S) \in S
                      /\ SumFunctionOnSet(f, S)
                           = f[First(S)] + SumFunctionOnSet(f, S \ {First(S)})
<1>0. IntegersOn(f, S)
  BY DEF IntegersOn
<1>1. PICK a : Sums(a, f, S)
  BY <1>0, SumEquation
<1>2. ASSUME S # {} PROVE a[S \ {First(S)}] = SumFunctionOnSet(f, S \ {First(S)})
  <2> DEFINE R == S \ {First(S)}
  <2>1. IsFiniteSet(R) /\ R \subseteq S
    BY FS_Subset
  <2> HIDE DEF R
  <2>2. PICK c : Sums(c, f, R)
    <3>1. IntegersOn(f, R)
      BY <2>1 DEF IntegersOn
    <3> QED
      BY <2>1, <3>1, SumEquation
  <2> USE DEF Sums
  <2> DEFINE C == {T \in SUBSET R : a[T] = c[T]}
  <2>3. ASSUME NEW T \in SUBSET R, \A x \in T : T \ {x} \in C PROVE T \in C
    <3>1. CASE T = {}
      BY <1>1, <2>2, <3>1
    <3>2. CASE T # {}
      <4>1. T \in SUBSET S /\ First(T) \in T
        BY <1>1, <2>1, <3>2
      <4>2. a[T \ {First(T)}] = c[T \ {First(T)}]
        BY <2>3, <4>1
      <4>3. a[T] = c[T]
        BY <1>1, <2>2, <3>2, <4>1, <4>2
      <4> QED
        BY <4>3
    <3> QED
      BY <3>1, <3>2
  <2> HIDE DEF C
  <2>4. Inductive(C, R)
    BY <2>3 DEF Inductive
  <2>5. R \in C
    BY <2>1, <2>4, SubsetInduction
  <2> QED
    BY <2>2, <2>5 DEF C, R
<1> QED
  BY <1>1, <1>2 DEF Sums

(* The sum over a set is the value of any of its elements plus the sum     *)
(* over the others.                                                        *)
LEMMA SumRemove ==
  ASSUME NEW S, IsFiniteSet(S), NEW f, \A x \in S : f[x] \in Int, NEW y \in S
  PROVE  SumFunctionOnSet(f, S) = f[y] + SumFunctionOnSet(f, S \ {y})
<1> DEFINE Total(T) == SumFunctionOnSet(f, T)
           C == {T \in SUBSET S : \A x \in T : Total(T) = f[x] + Total(T \ {x})}
<1> HIDE DEF Total
<1>1. ASSUME NEW T \in SUBSET S
      PROVE  /\ Total(T) \in Int
             /\ T # {} => First(T) \in T /\ Total(T) = f[First(T)] + Total(T \ {First(T)})
  <2>1. IsFiniteSet(T) /\ \A x \in T : f[x] \in Int
    BY FS_Subset
  <2> QED
    BY <2>1, SumFirst DEF Total
<1>2. ASSUME NEW T \in SUBSET S, \A x \in T : T \ {x} \in C, NEW x \in T
      PROVE  Total(T) = f[x] + Total(T \ {x})
  <2> DEFINE z == First(T)
  <2>1. z \in T /\ Total(T) = f[z] + Total(T \ {z})
    BY <1>1
  <2> HIDE DEF z
  <2>2. CASE x = z
    BY <2>1, <2>2
  <2>3. CASE x # z
    <3>1. x \in T \ {z} /\ z \in T \ {x}
      BY <2>1, <2>3
    <3>2. T \ {z} \in C /\ T \ {x} \in C
      BY <1>2, <2>1
    <3>3. Total(T \ {z}) = f[x] + Total((T \ {z}) \ {x})
      BY <3>1, <3>2
    <3>4. Total(T \ {x}) = f[z] + Total((T \ {x}) \ {z})
      BY <3>1, <3>2
    <3> DEFINE U == (T \ {x}) \ {z}
    <3>5. (T \ {z}) \ {x} = U /\ U \in SUBSET S
      OBVIOUS
    <3>6. Total(T \ {z}) = f[x] + Total(U)
      BY <3>3, <3>5
    <3> HIDE DEF U
    <3>7. Total(U) \in Int /\ f[x] \in Int /\ f[z] \in Int
      BY <1>1, <2>1, <3>5
    <3>8. Total(T \ {x}) = f[z] + Total(U)
      BY <3>4 DEF U
    <3> QED
      BY <2>1, <3>6, <3>7, <3>8
  <2> QED
    BY <2>2, <2>3
<1>3. Inductive(C, S)
  BY <1>2 DEF Inductive
<1>4. S \in C
  <2> HIDE DEF C
  <2> QED
    BY <1>3, SubsetInduction
<1> QED
  BY <1>4 DEF Total

(* Functions with the same values have the same sum.                       *)
LEMMA SumSame ==
  ASSUME NEW S, IsFiniteSet(S), NEW f, \A x \in S : f[x] \in Int,
         NEW g, \A x \in S : g[x] = f[x]
  PROVE  SumFunctionOnSet(g, S) = SumFunctionOnSet(f, S)
<1> DEFINE Left(T) == SumFunctionOnSet(g, T)
           Right(T) == SumFunctionOnSet(f, T)
           C == {T \in SUBSET S : Left(T) = Right(T)}
<1> HIDE DEF Left, Right
<1>1. ASSUME NEW T \in SUBSET S
      PROVE  /\ T = {} => Left(T) = 0 /\ Right(T) = 0
             /\ T # {} => /\ First(T) \in T
                          /\ Left(T) = g[First(T)] + Left(T \ {First(T)})
                          /\ Right(T) = f[First(T)] + Right(T \ {First(T)})
  <2>1. IsFiniteSet(T) /\ (\A x \in T : f[x] \in Int) /\ \A x \in T : g[x] \in Int
    BY FS_Subset
  <2> QED
    BY <2>1, SumFirst DEF Left, Right
<1>2. ASSUME NEW T \in SUBSET S, \A x \in T : T \ {x} \in C
      PROVE  Left(T) = Right(T)
  <2>1. CASE T = {}
    BY <1>1, <2>1
  <2>2. CASE T # {}
    <3>1. First(T) \in T /\ T \ {First(T)} \in C
      BY <1>1, <1>2, <2>2
    <3>2. Left(T \ {First(T)}) = Right(T \ {First(T)}) /\ g[First(T)] = f[First(T)]
      BY <3>1
    <3> QED
      BY <1>1, <2>2, <3>2
  <2> QED
    BY <2>1, <2>2
<1>3. Inductive(C, S)
  BY <1>2 DEF Inductive
<1>4. S \in C
  <2> HIDE DEF C
  <2> QED
    BY <1>3, SubsetInduction
<1> QED
  BY <1>4 DEF Left, Right

(* A function that differs in one value has a sum that differs by as much. *)
LEMMA SumChange ==
  ASSUME NEW S, IsFiniteSet(S), NEW f, \A x \in S : f[x] \in Int, NEW y \in S,
         NEW g, g[y] \in Int, \A x \in S : x # y => g[x] = f[x]
  PROVE  SumFunctionOnSet(g, S) = SumFunctionOnSet(f, S) - f[y] + g[y]
<1> DEFINE R == S \ {y}
<1>1. IsFiniteSet(R) /\ (\A x \in R : f[x] \in Int) /\ \A x \in R : g[x] = f[x]
  BY FS_Subset
<1>2. SumFunctionOnSet(f, S) = f[y] + SumFunctionOnSet(f, R)
  BY SumRemove
<1>3. SumFunctionOnSet(g, S) = g[y] + SumFunctionOnSet(g, R)
  <2>1. \A x \in S : g[x] \in Int
    OBVIOUS
  <2> QED
    BY <2>1, SumRemove
<1> HIDE DEF R
<1>4. SumFunctionOnSet(g, R) = SumFunctionOnSet(f, R)
  BY <1>1, SumSame
<1>5. SumFunctionOnSet(f, R) \in Int /\ f[y] \in Int
  BY <1>1, SumFirst
<1> QED
  BY <1>2, <1>3, <1>4, <1>5

(* A sum of natural numbers is one, and none of them is larger.            *)
LEMMA SumNatural ==
  ASSUME NEW S, IsFiniteSet(S), NEW f, \A x \in S : f[x] \in Nat
  PROVE  SumFunctionOnSet(f, S) \in Nat /\ \A x \in S : f[x] <= SumFunctionOnSet(f, S)
<1> DEFINE Total(T) == SumFunctionOnSet(f, T)
           C == {T \in SUBSET S : Total(T) \in Nat}
<1> HIDE DEF Total
<1>1. ASSUME NEW T \in SUBSET S
      PROVE  /\ T = {} => Total(T) = 0
             /\ \A x \in T : Total(T) = f[x] + Total(T \ {x})
  <2>1. IsFiniteSet(T) /\ \A x \in T : f[x] \in Int
    BY FS_Subset
  <2> QED
    BY <2>1, SumFirst, SumRemove DEF Total
<1>2. ASSUME NEW T \in SUBSET S, \A x \in T : T \ {x} \in C
      PROVE  Total(T) \in Nat
  <2>1. CASE T = {}
    BY <1>1, <2>1
  <2>2. CASE T # {}
    <3>1. PICK x \in T : T \ {x} \in C
      BY <1>2, <2>2
    <3>2. Total(T \ {x}) \in Nat /\ f[x] \in Nat /\ Total(T) = f[x] + Total(T \ {x})
      BY <1>1, <3>1
    <3> QED
      BY <3>2
  <2> QED
    BY <2>1, <2>2
<1>3. Inductive(C, S)
  BY <1>2 DEF Inductive
<1>4. SUBSET S \subseteq C
  <2> HIDE DEF C
  <2> QED
    BY <1>3, SubsetInduction
<1>5. ASSUME NEW x \in S PROVE f[x] <= Total(S)
  <2>1. Total(S) = f[x] + Total(S \ {x}) /\ Total(S \ {x}) \in Nat /\ f[x] \in Nat
    BY <1>1, <1>4
  <2> QED
    BY <2>1
<1> QED
  BY <1>4, <1>5 DEF Total

(* Nothing adds up to nothing.                                             *)
LEMMA SumZero ==
  ASSUME NEW S, IsFiniteSet(S), NEW f, \A x \in S : f[x] = 0
  PROVE  SumFunctionOnSet(f, S) = 0
<1> DEFINE Total(T) == SumFunctionOnSet(f, T)
           C == {T \in SUBSET S : Total(T) = 0}
<1> HIDE DEF Total
<1>1. ASSUME NEW T \in SUBSET S, \A x \in T : T \ {x} \in C
      PROVE  Total(T) = 0
  <2>1. IsFiniteSet(T) /\ \A x \in T : f[x] \in Int
    BY FS_Subset
  <2>2. /\ T = {} => Total(T) = 0
        /\ T # {} => First(T) \in T /\ Total(T) = f[First(T)] + Total(T \ {First(T)})
    BY <2>1, SumFirst DEF Total
  <2> QED
    BY <1>1, <2>2
<1>2. Inductive(C, S)
  BY <1>1 DEF Inductive
<1>3. S \in C
  <2> HIDE DEF C
  <2> QED
    BY <1>2, SubsetInduction
<1> QED
  BY <1>3 DEF Total

(* A sum of natural numbers is at least the number of those above 0.       *)
LEMMA SumAtLeast ==
  ASSUME NEW S, IsFiniteSet(S), NEW f, \A x \in S : f[x] \in Nat,
         NEW P \in SUBSET S, \A x \in P : f[x] >= 1
  PROVE  Cardinality(P) <= SumFunctionOnSet(f, S)
<1> DEFINE Total(T) == SumFunctionOnSet(f, T)
           C == {T \in SUBSET S : Cardinality(P \cap T) <= Total(T)}
<1> HIDE DEF Total
<1>1. ASSUME NEW T \in SUBSET S
      PROVE  /\ IsFiniteSet(T) /\ Total(T) \in Nat
             /\ T = {} => Total(T) = 0
             /\ \A x \in T : Total(T) = f[x] + Total(T \ {x})
  <2>1. IsFiniteSet(T) /\ (\A x \in T : f[x] \in Int) /\ (\A x \in T : f[x] \in Nat)
    BY FS_Subset
  <2> QED
    BY <2>1, SumFirst, SumRemove, SumNatural DEF Total
<1>2. ASSUME NEW T \in SUBSET S, \A x \in T : T \ {x} \in C
      PROVE  Cardinality(P \cap T) <= Total(T)
  <2>1. CASE T = {}
    <3>1. P \cap T = {} /\ Total(T) = 0
      BY <1>1, <2>1
    <3> QED
      BY <3>1, FS_EmptySet
  <2>2. CASE T # {}
    <3>1. PICK x \in T : T \ {x} \in C
      BY <1>2, <2>2
    <3> DEFINE R == T \ {x}
    <3>2. /\ R \in SUBSET S /\ Total(R) \in Nat /\ f[x] \in Nat
          /\ Total(T) = f[x] + Total(R) /\ Cardinality(P \cap R) <= Total(R)
      BY <1>1, <3>1
    <3>3. /\ IsFiniteSet(P \cap R) /\ Cardinality(P \cap R) \in Nat
      BY <1>1, <3>2, FS_Intersection, FS_CardinalityType
    <3>4. CASE x \in P
      <4>1. P \cap T = (P \cap R) \cup {x} /\ x \notin P \cap R
        BY <3>4
      <4>2. Cardinality(P \cap T) = Cardinality(P \cap R) + 1
        BY <3>3, <4>1, FS_AddElement
      <4>3. f[x] >= 1
        BY <3>4
      <4> HIDE DEF R
      <4> QED
        BY <3>2, <3>3, <4>2, <4>3
    <3>5. CASE x \notin P
      <4>1. P \cap T = P \cap R
        BY <3>5
      <4> HIDE DEF R
      <4> QED
        BY <3>2, <3>3, <4>1
    <3> QED
      BY <3>4, <3>5
  <2> QED
    BY <2>1, <2>2
<1>3. Inductive(C, S)
  BY <1>2 DEF Inductive
<1>4. S \in C
  <2> HIDE DEF C
  <2> QED
    BY <1>3, SubsetInduction
<1>5. P \cap S = P
  OBVIOUS
<1> QED
  BY <1>4, <1>5 DEF Total

(* The parts of a set add up to the set.                                   *)
LEMMA SumParts ==
  ASSUME NEW T, IsFiniteSet(T), NEW A, IsFiniteSet(A), NEW g, \A x \in A : g[x] \in T
  PROVE  SumFunctionOnSet([t \in T |-> Cardinality({x \in A : g[x] = t})], T)
           = Cardinality(A)
<1> DEFINE part(B, t) == {x \in B : g[x] = t}
           parts(B) == [t \in T |-> Cardinality(part(B, t))]
           Total(B) == SumFunctionOnSet(parts(B), T)
           C == {B \in SUBSET A : Total(B) = Cardinality(B)}
<1>1. ASSUME NEW B \in SUBSET A
      PROVE  /\ IsFiniteSet(B) /\ Cardinality(B) \in Nat
             /\ \A t \in T : IsFiniteSet(part(B, t)) /\ parts(B)[t] \in Int
  <2>1. IsFiniteSet(B) /\ Cardinality(B) \in Nat
    BY FS_Subset, FS_CardinalityType
  <2>2. ASSUME NEW t \in T PROVE IsFiniteSet(part(B, t)) /\ parts(B)[t] \in Int
    <3>1. IsFiniteSet(part(B, t))
      BY <2>1, FS_Subset
    <3>2. Cardinality(part(B, t)) \in Int
      BY <3>1, FS_CardinalityType
    <3> HIDE DEF part
    <3> QED
      BY <3>1, <3>2
  <2> HIDE DEF part, parts
  <2> QED
    BY <2>1, <2>2
<1>2. ASSUME NEW B \in SUBSET A, \A x \in B : B \ {x} \in C
      PROVE  Total(B) = Cardinality(B)
  <2>1. CASE B = {}
    <3>1. \A t \in T : parts(B)[t] = 0
      <4>1. \A t \in T : part(B, t) = {}
        BY <2>1
      <4> HIDE DEF part
      <4> QED
        BY <4>1, FS_EmptySet
    <3> HIDE DEF parts
    <3>2. Total(B) = 0
      BY <3>1, SumZero
    <3> QED
      BY <2>1, <3>2, FS_EmptySet
  <2>2. CASE B # {}
    <3>1. PICK x \in B : B \ {x} \in C
      BY <1>2, <2>2
    <3> DEFINE R == B \ {x}
               y == g[x]
    <3>2. R \in SUBSET A /\ y \in T /\ Total(R) = Cardinality(R)
      BY <3>1
    <3>3. Cardinality(B) = Cardinality(R) + 1 /\ Cardinality(R) \in Nat
      BY <1>1, <3>2, FS_RemoveElement
    <3>4. ASSUME NEW t \in T, t # y PROVE parts(B)[t] = parts(R)[t]
      <4>1. part(B, t) = part(R, t)
        BY <3>4
      <4> HIDE DEF part
      <4> QED
        BY <4>1
    <3>5. parts(B)[y] = parts(R)[y] + 1
      <4>1. part(B, y) = part(R, y) \cup {x} /\ x \notin part(R, y)
        OBVIOUS
      <4>2. IsFiniteSet(part(R, y))
        BY <1>1, <3>2
      <4> HIDE DEF part, y
      <4>3. Cardinality(part(B, y)) = Cardinality(part(R, y)) + 1
        BY <4>1, <4>2, FS_AddElement
      <4> QED
        BY <3>2, <4>3
    <3>6. /\ \A t \in T : parts(R)[t] \in Int
          /\ parts(B)[y] \in Int /\ parts(R)[y] \in Int
      BY <1>1, <3>2
    <3> HIDE DEF parts, R, y
    <3>7. \A t \in T : t # y => parts(B)[t] = parts(R)[t]
      BY <3>4
    <3>8. Total(B) = Total(R) - parts(R)[y] + parts(B)[y]
      BY <3>2, <3>6, <3>7, SumChange
    <3> HIDE DEF Total
    <3> QED
      BY <3>2, <3>3, <3>5, <3>6, <3>8
  <2> QED
    BY <2>1, <2>2
<1>3. Inductive(C, A)
  BY <1>2 DEF Inductive
<1>4. A \in C
  <2> HIDE DEF C
  <2> QED
    BY <1>3, SubsetInduction
<1> QED
  BY <1>4
=============================================================================
