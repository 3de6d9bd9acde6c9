---------------------------- MODULE Reads_proofs ----------------------------
(***************************************************************************)
(* How far an answer that takes several statements can be from the tables, *)
(* for every number of rows, targets, pages and moves.                     *)
(***************************************************************************)
EXTENDS Reads, Induction

(* A set that has one element more than a finite one, at most.             *)
LEMMA OneMore ==
  ASSUME NEW A, IsFiniteSet(A), NEW B, \A x, y \in B \ A : x = y
  PROVE  /\ IsFiniteSet(B) /\ Cardinality(B) \in Nat /\ Cardinality(A) \in Nat
         /\ Cardinality(B) <= Cardinality(A) + 1
<1>1. PICK z : B \subseteq A \cup {z}
  OBVIOUS
<1>2. /\ IsFiniteSet(A \cup {z}) /\ Cardinality(A) \in Nat
      /\ Cardinality(A \cup {z}) <= Cardinality(A) + 1
  <2>1. /\ IsFiniteSet(A \cup {z})
        /\ Cardinality(A \cup {z}) = IF z \in A THEN Cardinality(A) ELSE Cardinality(A) + 1
    BY FS_AddElement
  <2>2. Cardinality(A) \in Nat
    BY FS_CardinalityType
  <2> QED
    BY <2>1, <2>2
<1>3. /\ IsFiniteSet(B) /\ Cardinality(B) <= Cardinality(A \cup {z})
      /\ Cardinality(B) \in Nat /\ Cardinality(A \cup {z}) \in Nat
  BY <1>1, <1>2, FS_Subset, FS_CardinalityType
<1> QED
  BY <1>2, <1>3

-----------------------------------------------------------------------------
(* The place of a row in a listing                                         *)

Rows(S) == S \in SUBSET Nat /\ IsFiniteSet(S)

(* The places are the numbers below the size of the listing, each taken    *)
(* once.                                                                   *)
LEMMA Places ==
  ASSUME NEW S, Rows(S)
  PROVE  /\ Cardinality(S) \in Nat
         /\ \A i : Newer(i, S) \in Nat
         /\ \A i \in S : Newer(i, S) < Cardinality(S)
         /\ \A i, j \in S : i > j => Newer(i, S) < Newer(j, S)
<1>1. IsFiniteSet(S) /\ Cardinality(S) \in Nat
  BY FS_CardinalityType DEF Rows
<1>2. ASSUME NEW i
      PROVE  IsFiniteSet({j \in S : j > i}) /\ Newer(i, S) \in Nat
  <2>1. IsFiniteSet({j \in S : j > i})
    BY <1>1, FS_Subset
  <2> QED
    BY <2>1, FS_CardinalityType DEF Newer
<1>3. ASSUME NEW i \in S PROVE Newer(i, S) < Cardinality(S)
  <2> DEFINE U == {j \in S : j > i}
  <2>1. U \in SUBSET S /\ i \notin U /\ i \in Nat
    BY DEF Rows
  <2>2. Cardinality(U) <= Cardinality(S) /\ Cardinality(U) # Cardinality(S)
    BY <1>1, <2>1, FS_Subset
  <2>3. Cardinality(U) \in Nat
    BY <1>2 DEF Newer
  <2> HIDE DEF U
  <2>4. Cardinality(U) < Cardinality(S)
    BY <1>1, <2>2, <2>3
  <2> QED
    BY <2>4 DEF U, Newer
<1>4. ASSUME NEW i \in S, NEW j \in S, i > j PROVE Newer(i, S) < Newer(j, S)
  <2> DEFINE U == {k \in S : k > i}
             V == {k \in S : k > j}
  <2>1. U \in SUBSET V /\ i \notin U /\ i \in V
    <3>1. i \in Nat /\ j \in Nat /\ \A k \in S : k \in Nat
      BY DEF Rows
    <3>2. \A k \in S : k > i => k > j
      BY <1>4, <3>1
    <3>3. U \in SUBSET V
      BY <3>2
    <3>4. i \notin U
      BY <3>1
    <3> QED
      BY <1>4, <3>3, <3>4
  <2>2. IsFiniteSet(V) /\ Cardinality(U) \in Nat /\ Cardinality(V) \in Nat
    BY <1>2 DEF Newer
  <2>3. Cardinality(U) <= Cardinality(V) /\ Cardinality(U) # Cardinality(V)
    BY <2>1, <2>2, FS_Subset
  <2> HIDE DEF U, V
  <2>4. Cardinality(U) < Cardinality(V)
    BY <2>2, <2>3
  <2> QED
    BY <2>4 DEF U, V, Newer
<1> QED
  BY <1>1, <1>2, <1>3, <1>4

(* Two rows of a listing have two places.                                  *)
LEMMA OwnPlace ==
  ASSUME NEW S, Rows(S), NEW i \in S, NEW j \in S, Newer(i, S) = Newer(j, S)
  PROVE  i = j
<1>1. i \in Nat /\ j \in Nat /\ Newer(i, S) \in Nat
  BY Places DEF Rows
<1>2. ~(i > j) /\ ~(j > i)
  BY <1>1, Places
<1> QED
  BY <1>1, <1>2

(* A page has as many rows as there are places for it.                     *)
LEMMA CutSize ==
  ASSUME NEW S, Rows(S), NEW o \in Nat
  PROVE  /\ IsFiniteSet(Cut(S, o))
         /\ Cardinality(Cut(S, o)) =
              IF Cardinality(S) <= o THEN 0
              ELSE IF Cardinality(S) <= o + Limit THEN Cardinality(S) - o ELSE Limit
<1> DEFINE m == Cardinality(S)
           place == [i \in S |-> Newer(i, S)]
           last == IF m <= o + Limit THEN m - 1 ELSE o + Limit - 1
           part == [i \in Cut(S, o) |-> place[i]]
<1>1. /\ m \in Nat /\ Limit \in Nat \ {0} /\ IsFiniteSet(S)
      /\ \A i \in S : place[i] \in 0 .. m - 1
      /\ \A i, j \in S : place[i] = place[j] => i = j
  <2>1. m \in Nat /\ \A i \in S : Newer(i, S) \in 0 .. m - 1
    BY Places
  <2>2. \A i, j \in S : Newer(i, S) = Newer(j, S) => i = j
    BY OwnPlace
  <2> QED
    BY <2>1, <2>2, ReadsAssumption DEF Rows
<1>2. \A k \in 0 .. m - 1 : \E i \in S : place[i] = k
  <2>1. place \in Injection(S, 0 .. m - 1)
    BY <1>1 DEF Injection, IsInjective
  <2>2. IsFiniteSet(0 .. m - 1) /\ Cardinality(0 .. m - 1) = m
    <3>1. 0 \in Int /\ m - 1 \in Int /\ (0 > m - 1 => m = 0) /\ (m - 1) - 0 + 1 = m
      BY <1>1
    <3> HIDE DEF m
    <3> QED
      BY <3>1, FS_Interval
  <2>3. place \in Surjection(S, 0 .. m - 1)
    BY <2>1, <2>2, FS_Injection
  <2> QED
    BY <2>3 DEF Surjection
<1>3. Cut(S, o) = {i \in S : place[i] \in o .. o + Limit - 1}
  BY DEF Cut
<1> HIDE DEF place, m
<1>4. Cut(S, o) = {i \in S : place[i] \in o .. last}
  <2>1. \A k \in 0 .. m - 1 : k \in o .. o + Limit - 1 <=> k \in o .. last
    BY <1>1
  <2> QED
    BY <1>1, <1>3, <2>1
<1>5. \A k \in o .. last : k \in 0 .. m - 1
  BY <1>1
<1>6. part \in Bijection(Cut(S, o), o .. last)
  <2>1. part \in [Cut(S, o) -> o .. last]
    BY <1>4
  <2>2. \A i, j \in Cut(S, o) : part[i] = part[j] => i = j
    BY <1>1, <1>4
  <2>3. \A k \in o .. last : \E i \in Cut(S, o) : part[i] = k
    <3> TAKE k \in o .. last
    <3>1. PICK i \in S : place[i] = k
      BY <1>2, <1>5
    <3> QED
      BY <1>4, <3>1
  <2> QED
    BY <2>1, <2>2, <2>3 DEF Bijection, Injection, IsInjective, Surjection
<1>7. IsFiniteSet(Cut(S, o))
  BY <1>1, <1>4, FS_Subset
<1>8. Cardinality(Cut(S, o)) = Cardinality(o .. last)
  BY <1>6, <1>7, FS_Bijection DEF ExistsBijection
<1>9. Cardinality(o .. last) = IF o > last THEN 0 ELSE last - o + 1
  <2>1. o \in Int /\ last \in Int
    BY <1>1
  <2> HIDE DEF last
  <2> QED
    BY <2>1, FS_Interval
<1>10. (IF o > last THEN 0 ELSE last - o + 1)
         = IF m <= o THEN 0 ELSE IF m <= o + Limit THEN m - o ELSE Limit
  BY <1>1
<1> QED
  BY <1>7, <1>8, <1>9, <1>10 DEF m

(* Without row y every older row moves up by one place.                    *)
LEMMA PlacesWithout ==
  ASSUME NEW S, Rows(S), NEW y \in S, NEW i
  PROVE  Newer(i, S \ {y}) = IF y > i THEN Newer(i, S) - 1 ELSE Newer(i, S)
<1> DEFINE U == {j \in S : j > i}
<1>1. {j \in S \ {y} : j > i} = U \ {y}
  OBVIOUS
<1>2. IsFiniteSet(U)
  BY FS_Subset DEF Rows
<1>3. Cardinality(U \ {y}) = IF y \in U THEN Cardinality(U) - 1 ELSE Cardinality(U)
  BY <1>2, FS_RemoveElement
<1>4. y \in U <=> y > i
  OBVIOUS
<1> HIDE DEF U
<1> QED
  BY <1>1, <1>3, <1>4 DEF Newer, U

-----------------------------------------------------------------------------
(* A listing that changes while it is read: the rows before place o are    *)
(* those that the reader is past.                                          *)
Past(K, S, o) == {x \in K : Newer(x, S) < o}
Ahead(K, S, o) == {x \in K : Newer(x, S) >= o}

(* When a row leaves the listing, at most one row more slips past.         *)
LEMMA LeavingPast ==
  ASSUME NEW S, Rows(S), NEW y \in S, NEW K \in SUBSET S, NEW o \in Nat
  PROVE  /\ IsFiniteSet(Past(K, S, o)) /\ IsFiniteSet(Past(K \ {y}, S \ {y}, o))
         /\ Cardinality(Past(K, S, o)) \in Nat
         /\ Cardinality(Past(K \ {y}, S \ {y}, o)) \in Nat
         /\ Cardinality(Past(K \ {y}, S \ {y}, o)) <= Cardinality(Past(K, S, o)) + 1
<1> DEFINE A == Past(K, S, o)
           B == Past(K \ {y}, S \ {y}, o)
<1>1. IsFiniteSet(A)
  <2>1. A \in SUBSET S /\ IsFiniteSet(S)
    BY DEF Past, Rows
  <2> QED
    BY <2>1, FS_Subset
<1>2. ASSUME NEW x \in B \ A PROVE x \in S /\ Newer(x, S) = o
  <2>1. x \in K /\ x \in S /\ Newer(x, S \ {y}) < o /\ ~(Newer(x, S) < o)
    BY <1>2 DEF Past
  <2>2. Newer(x, S) \in Nat
    BY Places
  <2>3. Newer(x, S \ {y}) = Newer(x, S) - 1 \/ Newer(x, S \ {y}) = Newer(x, S)
    BY PlacesWithout
  <2> QED
    BY <2>1, <2>2, <2>3
<1>3. \A x, z \in B \ A : x = z
  BY <1>2, OwnPlace
<1> HIDE DEF A, B
<1>4. /\ IsFiniteSet(B) /\ Cardinality(B) \in Nat /\ Cardinality(A) \in Nat
      /\ Cardinality(B) <= Cardinality(A) + 1
  BY <1>1, <1>3, OneMore
<1> QED
  BY <1>1, <1>4 DEF A, B

(* Nor does any row come up that the reader is past.                       *)
LEMMA LeavingAhead ==
  ASSUME NEW S, Rows(S), NEW y \in S, NEW K \in SUBSET S, NEW o \in Nat
  PROVE  Ahead(K \ {y}, S \ {y}, o) \subseteq Ahead(K, S, o)
<1> SUFFICES ASSUME NEW x \in K, x # y, Newer(x, S \ {y}) >= o
             PROVE  Newer(x, S) >= o
  BY DEF Ahead
<1>1. Newer(x, S) \in Nat
  BY Places
<1>2. Newer(x, S \ {y}) = Newer(x, S) - 1 \/ Newer(x, S \ {y}) = Newer(x, S)
  BY PlacesWithout
<1> QED
  BY <1>1, <1>2

(* When a row enters the listing, at most one row more comes up again: the *)
(* row itself or the one that it pushes over the reader's place.           *)
LEMMA EnteringAhead ==
  ASSUME NEW S, Rows(S), NEW y \in Nat, y \notin S, NEW G, NEW o \in Nat
  PROVE  LET A == Ahead(S \cap G, S, o)
             B == Ahead((S \cup {y}) \cap G, S \cup {y}, o)
         IN  /\ IsFiniteSet(A) /\ IsFiniteSet(B)
             /\ Cardinality(A) \in Nat /\ Cardinality(B) \in Nat
             /\ Cardinality(B) <= Cardinality(A) + 1
<1> DEFINE T == S \cup {y}
           A == Ahead(S \cap G, S, o)
           B == Ahead(T \cap G, T, o)
<1>1. Rows(T) /\ y \in T /\ T \ {y} = S
  <2>1. IsFiniteSet(T)
    BY FS_AddElement DEF Rows
  <2> QED
    BY <2>1 DEF Rows
<1>2. IsFiniteSet(A)
  <2>1. A \in SUBSET S /\ IsFiniteSet(S)
    BY DEF Ahead, Rows
  <2> QED
    BY <2>1, FS_Subset
<1>3. \A x : Newer(x, S) = IF y > x THEN Newer(x, T) - 1 ELSE Newer(x, T)
  BY <1>1, PlacesWithout
<1>4. \A x : Newer(x, S) \in Nat /\ Newer(x, T) \in Nat
  BY <1>1, Places
<1>5. ASSUME NEW x \in B \ A
      PROVE  x \in T /\ Newer(x, T) >= o /\ (x = y \/ (y > x /\ Newer(x, T) = o))
  <2>1. x \in T /\ x \in G /\ Newer(x, T) >= o
    BY DEF Ahead
  <2>2. CASE x = y
    BY <2>1, <2>2
  <2>3. CASE x # y
    <3>1. x \in S /\ ~(Newer(x, S) >= o)
      BY <2>1, <2>3 DEF Ahead
    <3> QED
      BY <1>3, <1>4, <2>1, <3>1
  <2> QED
    BY <2>2, <2>3
<1>6. ASSUME NEW x \in B \ A, NEW z \in B \ A PROVE x = z
  <2>1. ASSUME NEW w \in T, y > w, Newer(w, T) = o PROVE ~(Newer(y, T) >= o)
    <3>1. Newer(y, T) < Newer(w, T)
      BY <1>1, <2>1, Places
    <3> QED
      BY <1>4, <2>1, <3>1
  <2> HIDE DEF T, A, B
  <2>2. \/ x = y /\ z = y
        \/ Newer(x, T) = o /\ Newer(z, T) = o
    BY <1>5, <1>6, <2>1
  <2> QED
    BY <1>1, <1>5, <1>6, <2>2, OwnPlace
<1> HIDE DEF A, B
<1>7. /\ IsFiniteSet(B) /\ Cardinality(B) \in Nat /\ Cardinality(A) \in Nat
      /\ Cardinality(B) <= Cardinality(A) + 1
  BY <1>2, <1>6, OneMore
<1> QED
  BY <1>2, <1>7 DEF A, B

(* Nor does any row slip past.                                             *)
LEMMA EnteringPast ==
  ASSUME NEW S, Rows(S), NEW y \in Nat, y \notin S, NEW K \in SUBSET S, NEW o \in Nat
  PROVE  Past(K, S \cup {y}, o) \subseteq Past(K, S, o)
<1> DEFINE T == S \cup {y}
<1> SUFFICES ASSUME NEW x \in K, Newer(x, T) < o
             PROVE  Newer(x, S) < o
  BY DEF Past
<1>1. Rows(T) /\ y \in T /\ T \ {y} = S
  <2>1. IsFiniteSet(T)
    BY FS_AddElement DEF Rows
  <2> QED
    BY <2>1 DEF Rows
<1>2. Newer(x, S) \in Nat /\ Newer(x, T) \in Nat
  BY <1>1, Places
<1>3. Newer(x, S) = Newer(x, T) - 1 \/ Newer(x, S) = Newer(x, T)
  BY <1>1, PlacesWithout
<1> QED
  BY <1>2, <1>3

-----------------------------------------------------------------------------
(* A page                                                                  *)

(* Its rows are those at the places it is for, and a page that is not full *)
(* is the last.                                                            *)
LEMMA PageRows ==
  ASSUME NEW S, Rows(S), NEW o \in Nat
  PROVE  LET P == Cut(S, o)
             n == Cardinality(P)
         IN  /\ P \in SUBSET S /\ IsFiniteSet(P) /\ n \in Nat
             /\ \A x \in P : Newer(x, S) >= o /\ Newer(x, S) < o + n
             /\ \A x \in S : Newer(x, S) >= o /\ Newer(x, S) < o + n => x \in P
             /\ n < Limit => \A x \in S : Newer(x, S) < o + n
<1> DEFINE P == Cut(S, o)
           n == Cardinality(P)
           m == Cardinality(S)
<1>1. /\ \A x : Newer(x, S) \in Nat
      /\ \A x \in S : Newer(x, S) < m
      /\ m \in Nat /\ Limit \in Nat \ {0}
  BY Places, ReadsAssumption
<1>2. /\ IsFiniteSet(P)
      /\ n = IF m <= o THEN 0 ELSE IF m <= o + Limit THEN m - o ELSE Limit
  BY CutSize
<1>3. P \in SUBSET S
      /\ \A x \in S : x \in P <=> (Newer(x, S) >= o /\ Newer(x, S) <= o + Limit - 1)
  <2>1. P = {x \in S : Newer(x, S) \in o .. o + Limit - 1}
    BY DEF Cut
  <2>2. \A x \in S : Newer(x, S) \in o .. o + Limit - 1
                       <=> (Newer(x, S) >= o /\ Newer(x, S) <= o + Limit - 1)
    BY <1>1
  <2> HIDE DEF P
  <2> QED
    BY <2>1, <2>2
<1> HIDE DEF P, n, m
<1>4. \A x \in P : Newer(x, S) >= o /\ Newer(x, S) < o + n
  <2> TAKE x \in P
  <2>1. x \in S /\ Newer(x, S) >= o /\ Newer(x, S) <= o + Limit - 1
    BY <1>3
  <2> QED
    BY <1>1, <1>2, <2>1
<1>5. \A x \in S : Newer(x, S) >= o /\ Newer(x, S) < o + n => x \in P
  <2> SUFFICES ASSUME NEW x \in S, Newer(x, S) >= o, Newer(x, S) < o + n
               PROVE  Newer(x, S) <= o + Limit - 1
    BY <1>3
  <2> QED
    BY <1>1, <1>2
<1>6. n < Limit => \A x \in S : Newer(x, S) < o + n
  BY <1>1, <1>2
<1>7. n \in Nat
  BY <1>1, <1>2
<1> QED
  BY <1>2, <1>3, <1>4, <1>5, <1>6, <1>7 DEF P, n

WalkRecord ==
  [kind : {"walk"}, open : BOOLEAN, complete : BOOLEAN, caller : Caller,
   filter : Filter, got : SUBSET Id, count : Nat, left : Nat, entered : Nat,
   stayed : SUBSET Id]

(* What holds of a walk over a listing S: the rows it is past without      *)
(* having had them are no more than have left, and the rows it had twice   *)
(* or will have again are no more than have entered.                       *)
Counted(w, S) ==
  /\ w.stayed \subseteq S
  /\ Cardinality(Past(w.stayed \ w.got, S, w.count)) <= w.left
  /\ Cardinality(Ahead(S \cap w.got, S, w.count)) + w.count - Cardinality(w.got)
       <= w.entered

Drift(w) ==
  /\ Cardinality(w.stayed \ w.got) <= w.left
  /\ w.count - Cardinality(w.got) <= w.entered

Keeps(w, S) ==
  /\ w \in WalkRecord
  /\ \A i \in w.got : Owner[i] = w.caller
  /\ w.open => ~w.complete /\ Counted(w, S)
  /\ w.complete => Drift(w)

(* The arithmetic of a page: a walk at place o that has had got now gets   *)
(* the rows of the page too.                                               *)
LEMMA PageCounts ==
  ASSUME NEW S, Rows(S), NEW o \in Nat, NEW got, IsFiniteSet(got),
         NEW stayed \in SUBSET S, NEW left \in Nat, NEW entered \in Nat,
         Cardinality(Past(stayed \ got, S, o)) <= left,
         Cardinality(Ahead(S \cap got, S, o)) + o - Cardinality(got) <= entered
  PROVE  LET P == Cut(S, o)
             p == o + Cardinality(P)
             all == got \cup P
         IN  /\ Cardinality(Past(stayed \ all, S, p)) <= left
             /\ Cardinality(Ahead(S \cap all, S, p)) + p - Cardinality(all) <= entered
             /\ Cardinality(P) < Limit =>
                  /\ Cardinality(stayed \ all) <= left
                  /\ p - Cardinality(all) <= entered
<1> DEFINE P == Cut(S, o)
           n == Cardinality(P)
           all == got \cup P
           A == Ahead(S \cap got, S, o)
           B == Ahead(S \cap all, S, o + n)
           K == Past(stayed \ got, S, o)
           M == Past(stayed \ all, S, o + n)
<1>1. /\ P \in SUBSET S /\ IsFiniteSet(P) /\ n \in Nat
      /\ \A x \in P : Newer(x, S) >= o /\ Newer(x, S) < o + n
      /\ \A x \in S : Newer(x, S) >= o /\ Newer(x, S) < o + n => x \in P
      /\ n < Limit => \A x \in S : Newer(x, S) < o + n
  BY PageRows
<1>2. \A x : Newer(x, S) \in Nat
  BY Places
<1> HIDE DEF P, n
<1>3. IsFiniteSet(A) /\ IsFiniteSet(B) /\ IsFiniteSet(K) /\ IsFiniteSet(M)
  <2>1. /\ A \in SUBSET S /\ B \in SUBSET S /\ K \in SUBSET S /\ M \in SUBSET S
        /\ IsFiniteSet(S)
    BY DEF Ahead, Past, Rows
  <2> HIDE DEF A, B, K, M
  <2> QED
    BY <2>1, FS_Subset
<1>4. M \subseteq K
  <2> SUFFICES ASSUME NEW x \in M PROVE x \in K
    OBVIOUS
  <2>1. x \in S /\ x \in stayed \ got /\ x \notin P /\ Newer(x, S) < o + n
    BY DEF Past
  <2>2. Newer(x, S) < o
    BY <1>1, <1>2, <2>1
  <2> QED
    BY <2>1, <2>2 DEF Past
<1>5. B \cap (got \cap P) = {} /\ B \cup (got \cap P) \subseteq A
  <2>1. ASSUME NEW x \in B PROVE x \notin P /\ x \in A
    <3>1. x \in S /\ (x \in got \/ x \in P) /\ Newer(x, S) >= o + n
      BY DEF Ahead
    <3>2. x \notin P
      BY <1>1, <1>2, <3>1
    <3>3. Newer(x, S) >= o
      BY <1>1, <1>2, <3>1
    <3> QED
      BY <3>1, <3>2, <3>3 DEF Ahead
  <2>2. got \cap P \subseteq A
    BY <1>1 DEF Ahead
  <2> HIDE DEF A, B
  <2> QED
    BY <2>1, <2>2
<1> HIDE DEF A, B, K, M
<1>6. Cardinality(M) <= left
  <2>1. /\ Cardinality(M) <= Cardinality(K)
        /\ Cardinality(M) \in Nat /\ Cardinality(K) \in Nat
    BY <1>3, <1>4, FS_Subset, FS_CardinalityType
  <2> QED
    BY <2>1 DEF K
<1>7. Cardinality(B) + (o + n) - Cardinality(all) <= entered
      /\ Cardinality(B) \in Nat /\ Cardinality(all) \in Nat
  <2> DEFINE Q == got \cap P
  <2>1. /\ IsFiniteSet(Q) /\ Cardinality(Q) \in Nat
        /\ Cardinality(got) \in Nat /\ Cardinality(A) \in Nat /\ Cardinality(B) \in Nat
    BY <1>1, <1>3, FS_Intersection, FS_CardinalityType
  <2>2. /\ IsFiniteSet(all)
        /\ Cardinality(all) = Cardinality(got) + n - Cardinality(Q)
    BY <1>1, FS_Union DEF n
  <2>3. Cardinality(B) + Cardinality(Q) <= Cardinality(A)
    <3>1. /\ IsFiniteSet(B \cup Q)
          /\ Cardinality(B \cup Q) = Cardinality(B) + Cardinality(Q) - Cardinality(B \cap Q)
      BY <1>3, <2>1, FS_Union
    <3>2. Cardinality(B \cap Q) = 0
      BY <1>5, FS_EmptySet
    <3>3. Cardinality(B \cup Q) <= Cardinality(A)
      BY <1>3, <1>5, FS_Subset
    <3> HIDE DEF Q
    <3> QED
      BY <2>1, <3>1, <3>2, <3>3
  <2> HIDE DEF Q, all
  <2>4. Cardinality(A) + o - Cardinality(got) <= entered
    BY DEF A
  <2>5. Cardinality(all) \in Nat
    BY <2>2, FS_CardinalityType
  <2> QED
    BY <1>1, <2>1, <2>2, <2>3, <2>4, <2>5
<1>8. ASSUME n < Limit
      PROVE  Cardinality(stayed \ all) <= left /\ (o + n) - Cardinality(all) <= entered
  <2>1. M = stayed \ all
    BY <1>1, <1>8 DEF M, Past
  <2> HIDE DEF all
  <2> QED
    BY <1>1, <1>6, <1>7, <2>1
<1> QED
  BY <1>6, <1>7, <1>8 DEF P, n, B, M

(* The rows a walk is over.                                                *)
Listed(caller, f) == {i \in Id : Matches(life[i], i, caller, f)}

LEMMA ListedRows ==
  ASSUME NEW caller, NEW f
  PROVE  /\ Rows(Listed(caller, f)) /\ Listed(caller, f) \in SUBSET Id
         /\ \A i \in Listed(caller, f) : Owner[i] = caller
<1>1. Listed(caller, f) \in SUBSET Id
  BY DEF Listed
<1>2. IsFiniteSet(Listed(caller, f)) /\ Listed(caller, f) \in SUBSET Nat
  BY <1>1, ReadsAssumption, FS_Subset
<1> QED
  BY <1>1, <1>2 DEF Rows, Listed, Matches

LEMMA PageKeeps ==
  ASSUME NEW w, w.open, Keeps(w, Listed(w.caller, w.filter))
  PROVE  Keeps(Page(w), Listed(w.caller, w.filter))
<1> DEFINE S == Listed(w.caller, w.filter)
           offset == queryInt(w.count)
           P == List(w.caller, w.filter, offset)
           n == Cardinality(P)
           all == w.got \cup P
<1>1. /\ w \in WalkRecord /\ ~w.complete /\ Counted(w, S)
      /\ \A i \in w.got : Owner[i] = w.caller
  BY DEF Keeps
<1>2. CASE offset # w.count
  <2>1. Page(w) = [w EXCEPT !.open = FALSE]
    BY <1>2 DEF Page
  <2> HIDE DEF S
  <2>2. /\ Page(w) \in WalkRecord /\ ~Page(w).open /\ ~Page(w).complete
        /\ Page(w).got = w.got /\ Page(w).caller = w.caller
    BY <1>1, <2>1 DEF WalkRecord
  <2> QED
    BY <1>1, <2>2 DEF Keeps
<1>3. CASE offset = w.count
  <2> DEFINE full == n = Limit
             last == n < Limit
             v == [w EXCEPT !.got = all, !.count = w.count + n,
                            !.open = full, !.complete = last]
  <2>1. Page(w) = v
    BY <1>3 DEF Page
  <2>2. P = Cut(S, w.count)
    BY <1>3 DEF List, Listed
  <2>3. /\ Rows(S) /\ S \in SUBSET Id /\ \A i \in S : Owner[i] = w.caller
    BY ListedRows
  <2>4. /\ w.count \in Nat /\ w.left \in Nat /\ w.entered \in Nat
        /\ w.got \in SUBSET Id /\ w.stayed \in SUBSET Id
        /\ w.open \in BOOLEAN /\ w.complete \in BOOLEAN
    BY <1>1 DEF WalkRecord
  <2> HIDE DEF S, P
  <2>5. P \in SUBSET S /\ n \in Nat
    BY <2>2, <2>3, <2>4, PageRows
  <2>6. IsFiniteSet(w.got)
    BY <2>4, ReadsAssumption, FS_Subset
  <2>7. /\ Cardinality(Past(w.stayed \ all, S, w.count + n)) <= w.left
        /\ Cardinality(Ahead(S \cap all, S, w.count + n)) + (w.count + n)
             - Cardinality(all) <= w.entered
        /\ n < Limit => /\ Cardinality(w.stayed \ all) <= w.left
                        /\ (w.count + n) - Cardinality(all) <= w.entered
    <3>1. /\ w.stayed \in SUBSET S
          /\ Cardinality(Past(w.stayed \ w.got, S, w.count)) <= w.left
          /\ Cardinality(Ahead(S \cap w.got, S, w.count)) + w.count - Cardinality(w.got)
               <= w.entered
      BY <1>1 DEF Counted
    <3> QED
      BY <2>2, <2>3, <2>4, <2>6, <3>1, PageCounts
  <2>8. all \in SUBSET Id /\ \A i \in all : Owner[i] = w.caller
    BY <1>1, <2>3, <2>4, <2>5
  <2> HIDE DEF n, all
  <2>9. w.count + n \in Nat /\ full \in BOOLEAN /\ last \in BOOLEAN
    BY <2>4, <2>5
  <2> HIDE DEF full, last
  <2>10. /\ v \in WalkRecord
         /\ v.got = all /\ v.count = w.count + n
         /\ v.stayed = w.stayed /\ v.left = w.left /\ v.entered = w.entered
         /\ v.caller = w.caller
    BY <1>1, <2>8, <2>9 DEF WalkRecord
  <2>11. v.open <=> n = Limit
    BY <1>1 DEF WalkRecord, full
  <2>12. v.complete <=> n < Limit
    BY <1>1 DEF WalkRecord, last
  <2> HIDE DEF v
  <2>13. v.open => ~v.complete
    BY <2>5, <2>11, <2>12, ReadsAssumption
  <2>14. Counted(v, S)
    BY <1>1, <2>7, <2>10 DEF Counted
  <2>15. v.complete => Drift(v)
    BY <2>7, <2>10, <2>12 DEF Drift
  <2> QED
    BY <2>1, <2>8, <2>10, <2>13, <2>14, <2>15 DEF Keeps, S
<1> QED
  BY <1>2, <1>3

(* A walk that has had nothing yet.                                        *)
LEMMA WalkKeeps ==
  ASSUME NEW caller \in Caller, NEW f \in Filter
  PROVE  Keeps(Walk(caller, f), Listed(caller, f))
<1> DEFINE w == Walk(caller, f)
           S == Listed(caller, f)
<1>1. /\ w.got = {} /\ w.count = 0 /\ w.left = 0 /\ w.entered = 0 /\ w.stayed = S
      /\ ~w.complete
  BY DEF Walk, Listed
<1>2. w \in WalkRecord
  BY DEF Walk, WalkRecord
<1>3. \A x : Newer(x, S) \in Nat
  BY ListedRows, Places
<1> HIDE DEF w, S
<1>4. Past(w.stayed \ w.got, S, w.count) = {}
  BY <1>1, <1>3 DEF Past
<1>5. Ahead(S \cap w.got, S, w.count) = {}
  BY <1>1 DEF Ahead
<1>6. Counted(w, S)
  BY <1>1, <1>4, <1>5, FS_EmptySet DEF Counted
<1> QED
  BY <1>1, <1>2, <1>6 DEF Keeps, w, S

-----------------------------------------------------------------------------
(* What the rows do meanwhile                                              *)

State == [status : RowStatus, run : Nat, spent : Nat, limit : {MaxAttempts},
          reason : Reasons \cup {""}]

(* A row that is processing has made an attempt.                           *)
RowsOK ==
  /\ life \in [Id -> State] /\ made \in [Id -> Nat] /\ due \in SUBSET Id
  /\ \A i \in Id : life[i].status = "processing" => made[i] >= 1

(* One row becomes another; a removed one stays removed, and only then are *)
(* there fewer attempts.                                                   *)
LEMMA RowMoves ==
  ASSUME RowsOK, NEW i \in Id, NEW n \in Becomes, Move(i, n)
  PROVE  /\ RowsOK'
         /\ life' = [life EXCEPT ![i] = n]
         /\ life[i].status # "deleted"
         /\ \A j \in Id : life'[j].status = "deleted" \/ made'[j] >= made[j]
         /\ \A j \in Id : life[j].status = "deleted" => life'[j] = life[j]
         /\ call = NoCall \/ call.open
         /\ call' = Witnessed(i, n)
<1>1. /\ L!Edge(life[i], n) /\ Undisturbed
      /\ life' = [life EXCEPT ![i] = n]
      /\ made' = [made EXCEPT ![i] = CASE n.status = "processing" -> @ + 1
                                       [] n.status = "deleted" -> 0
                                       [] OTHER -> @]
      /\ due' \in {due \ {i}, due, due \cup {i}}
      /\ call' = Witnessed(i, n)
  BY DEF Move
<1>2. n \in State
  <2>1. CASE n = Removed
    BY <2>1 DEF State, Removed, RowStatus
  <2>2. CASE n \in [status : Status, run : 1 .. MaxRuns, spent : 0 .. MaxAttempts,
                    limit : {MaxAttempts}, reason : Reasons]
    <3>1. (\A k \in 1 .. MaxRuns : k \in Nat) /\ \A k \in 0 .. MaxAttempts : k \in Nat
      OBVIOUS
    <3>2. Status \subseteq RowStatus /\ Reasons \subseteq Reasons \cup {""}
      BY DEF RowStatus
    <3> QED
      BY <2>2, <3>1, <3>2 DEF State
  <2> QED
    BY <2>1, <2>2 DEF Becomes
<1>3. life[i].status # "deleted"
  BY <1>1 DEF L!Edge, L!Accept, L!Start, L!TryAgain, L!Success, L!Failure, L!NewRun,
              L!Remove, L!Active, L!Terminal
<1>4. made[i] \in Nat
  BY DEF RowsOK
<1>5. \/ n.status = "processing" /\ made' = [made EXCEPT ![i] = made[i] + 1]
      \/ n.status = "deleted" /\ made' = [made EXCEPT ![i] = 0]
      \/ n.status \notin {"processing", "deleted"}
         /\ made' = [made EXCEPT ![i] = made[i]]
  BY <1>1
<1>6. L!Edge(life[i], n) /\ n.status \notin {"processing", "deleted"} => made[i] >= 0
  BY <1>4
<1>7. made' \in [Id -> Nat] /\ due' \in SUBSET Id /\ life' \in [Id -> State]
  BY <1>1, <1>2, <1>4, <1>5 DEF RowsOK
<1>8. ASSUME NEW j \in Id
      PROVE  /\ life'[j].status = "processing" => made'[j] >= 1
             /\ life'[j].status = "deleted" \/ made'[j] >= made[j]
             /\ life[j].status = "deleted" => life'[j] = life[j]
  <2>1. made[j] \in Nat /\ (life[j].status = "processing" => made[j] >= 1)
    BY DEF RowsOK
  <2>2. CASE j = i
    <3>1. life'[i] = n /\ \/ n.status = "processing" /\ made'[i] = made[i] + 1
                          \/ n.status = "deleted" /\ made'[i] = 0
                          \/ n.status \notin {"processing", "deleted"} /\ made'[i] = made[i]
      BY <1>1, <1>5 DEF RowsOK
    <3> QED
      BY <1>3, <2>1, <2>2, <3>1
  <2>3. CASE j # i
    <3>1. life'[j] = life[j] /\ made'[j] = made[j]
      BY <1>1, <1>5, <2>3 DEF RowsOK
    <3> QED
      BY <2>1, <3>1
  <2> QED
    BY <2>2, <2>3
<1>9. RowsOK'
  BY <1>7, <1>8 DEF RowsOK
<1> QED
  BY <1>1, <1>3, <1>8, <1>9 DEF Undisturbed

-----------------------------------------------------------------------------
(* The calls                                                               *)

AttemptsRecord ==
  [kind : {"attempts"}, open : BOOLEAN, caller : Caller, id : Id,
   before : SUBSET Nat, got : SUBSET Nat]

MetricsRecord ==
  [kind : {"metrics"}, open : BOOLEAN, moved : Nat, step : {2, 3},
   statuses : [Status -> Nat], waits : BOOLEAN,
   attempts : [Target -> [in_progress : Nat, all : Nat]]]

CallOK == call \in {NoCall} \cup WalkRecord \cup AttemptsRecord \cup MetricsRecord

LEMMA CallKinds ==
  ASSUME CallOK
  PROVE  /\ call.kind = "metrics" => call \in MetricsRecord
         /\ call.kind = "attempts" => call \in AttemptsRecord
         /\ call.kind = "walk" => call \in WalkRecord
BY DEF CallOK, NoCall, WalkRecord, AttemptsRecord, MetricsRecord

-----------------------------------------------------------------------------
(* Walks                                                                   *)
WalkOK == call.kind = "walk" => Keeps(call, Listed(call.caller, call.filter))

LEMMA WalkMoves ==
  ASSUME RowsOK, CallOK, WalkOK, NEW i \in Id, NEW n \in Becomes, Move(i, n)
  PROVE  WalkOK'
<1>1. /\ life' = [life EXCEPT ![i] = n] /\ DOMAIN life = Id
      /\ call = NoCall \/ call.open
      /\ call' = Witnessed(i, n)
  BY RowMoves DEF RowsOK
<1>2. CASE call.kind # "walk"
  <2>1. call'.kind # "walk"
    <3>1. CASE call.kind = "metrics"
      <4>1. call \in MetricsRecord /\ call' = [call EXCEPT !.moved = @ + 1]
        BY <1>1, <3>1, CallKinds DEF Witnessed
      <4> QED
        BY <4>1 DEF MetricsRecord
    <3>2. CASE call.kind # "metrics"
      BY <1>1, <1>2, <3>2 DEF Witnessed
    <3> QED
      BY <3>1, <3>2
  <2> QED
    BY <2>1 DEF WalkOK
<1>3. CASE call.kind = "walk"
  <2> DEFINE caller == call.caller
             f == call.filter
             was == Matches(life[i], i, caller, f)
             is == Matches(n, i, caller, f)
             S == Listed(caller, f)
             T == {j \in Id : Matches(life'[j], j, caller, f)}
  <2>1. /\ call \in WalkRecord /\ call.open /\ ~call.complete /\ Counted(call, S)
        /\ \A j \in call.got : Owner[j] = caller
    <3>1. call.open
      BY <1>1, <1>3 DEF NoCall
    <3> QED
      BY <1>3, <3>1 DEF WalkOK, Keeps
  <2>2. call' = [call EXCEPT !.left = IF was /\ ~is THEN @ + 1 ELSE @,
                             !.entered = IF ~was /\ is THEN @ + 1 ELSE @,
                             !.stayed = IF is THEN @ ELSE @ \ {i}]
    BY <1>1, <1>3 DEF Witnessed
  <2>3. /\ Rows(S) /\ S \in SUBSET Id /\ i \in Nat
        /\ i \in S <=> was
        /\ i \in T <=> is
        /\ \A j \in Id : j # i => (j \in S <=> j \in T)
        /\ T \in SUBSET Id
    <3>1. Rows(S) /\ S \in SUBSET Id /\ i \in Nat
      BY ListedRows, ReadsAssumption
    <3>2. life'[i] = n /\ \A j \in Id : j # i => life'[j] = life[j]
      BY <1>1
    <3> QED
      BY <3>1, <3>2 DEF Listed
  <2>4. call'.caller = caller /\ call'.filter = f /\ Keeps(call', T) => WalkOK'
    <3>1. Listed(call.caller, call.filter)'
            = {j \in Id : Matches(life'[j], j, call'.caller, call'.filter)}
      BY DEF Listed
    <3> QED
      BY <3>1 DEF WalkOK
  <2>5. /\ call.left \in Nat /\ call.entered \in Nat /\ call.count \in Nat
        /\ call.got \in SUBSET Id /\ call.stayed \in SUBSET Id
    BY <2>1 DEF WalkRecord
  <2> HIDE DEF was, is, S, T, caller, f
  <2> DEFINE left == IF was /\ ~is THEN call.left + 1 ELSE call.left
             entered == IF ~was /\ is THEN call.entered + 1 ELSE call.entered
             stayed == IF is THEN call.stayed ELSE call.stayed \ {i}
             got == call.got
             o == call.count
             K == call.stayed \ got
  <2>6. left \in Nat /\ entered \in Nat /\ stayed \in SUBSET Id
    BY <2>5
  <2>7. /\ call.stayed \subseteq S
        /\ Cardinality(Past(K, S, o)) <= call.left
        /\ Cardinality(Ahead(S \cap got, S, o)) + o - Cardinality(got) <= call.entered
    BY <2>1 DEF Counted
  <2>8. Cardinality(got) \in Nat
    BY <2>5, ReadsAssumption, FS_Subset, FS_CardinalityType
  <2>9. /\ stayed \subseteq T
        /\ Cardinality(Past(stayed \ got, T, o)) <= left
        /\ Cardinality(Ahead(T \cap got, T, o)) + o - Cardinality(got) <= entered
    <3> DEFINE A == Ahead(S \cap got, S, o)
               C == Past(K, S, o)
    <3>0. IsFiniteSet(A) /\ IsFiniteSet(C)
          /\ Cardinality(A) \in Nat /\ Cardinality(C) \in Nat
      <4>1. A \in SUBSET S /\ C \in SUBSET S /\ IsFiniteSet(S)
        BY <2>3, <2>7 DEF Ahead, Past, Rows
      <4> HIDE DEF A, C
      <4> QED
        BY <4>1, FS_Subset, FS_CardinalityType
    <3>1. CASE (was /\ is) \/ (~was /\ ~is)
      <4>0. \A j \in Id : j \in S <=> j \in T
        BY <2>3, <3>1
      <4>1. T = S /\ left = call.left /\ entered = call.entered
        BY <2>3, <3>1, <4>0
      <4>2. stayed = call.stayed
        BY <2>3, <2>7, <3>1
      <4> QED
        BY <2>7, <4>1, <4>2
    <3>2. CASE was /\ ~is
      <4>1. T = S \ {i} /\ i \in S /\ left = call.left + 1 /\ entered = call.entered
            /\ stayed = call.stayed \ {i} /\ stayed \ got = K \ {i}
        BY <2>3, <3>2
      <4>2. K \in SUBSET S
        BY <2>7
      <4> DEFINE B == Ahead((S \cap got) \ {i}, S \ {i}, o)
                 D == Past(K \ {i}, S \ {i}, o)
      <4>3. Cardinality(D) \in Nat /\ Cardinality(D) <= Cardinality(C) + 1
        BY <2>3, <2>5, <4>1, <4>2, LeavingPast
      <4>4. B \subseteq A
        BY <2>3, <2>5, <4>1, LeavingAhead
      <4>5. T \cap got = (S \cap got) \ {i} /\ stayed \subseteq T
        BY <2>7, <4>1
      <4> HIDE DEF A, B, C, D
      <4>6. Cardinality(B) \in Nat /\ Cardinality(B) <= Cardinality(A)
        BY <3>0, <4>4, FS_Subset, FS_CardinalityType
      <4>7. Cardinality(D) <= left
        BY <2>5, <2>7, <3>0, <4>1, <4>3 DEF C
      <4>8. Cardinality(B) + o - Cardinality(got) <= entered
        BY <2>5, <2>7, <2>8, <3>0, <4>1, <4>6 DEF A
      <4> QED
        BY <4>1, <4>5, <4>7, <4>8 DEF B, D
    <3>3. CASE ~was /\ is
      <4>1. T = S \cup {i} /\ i \notin S /\ left = call.left
            /\ entered = call.entered + 1 /\ stayed = call.stayed
        BY <2>3, <3>3
      <4>2. K \in SUBSET S /\ stayed \subseteq T
        BY <2>7, <4>1
      <4> DEFINE B == Ahead((S \cup {i}) \cap got, S \cup {i}, o)
                 D == Past(K, S \cup {i}, o)
      <4>3. Cardinality(B) \in Nat /\ Cardinality(B) <= Cardinality(A) + 1
        BY <2>3, <2>5, <4>1, EnteringAhead
      <4>4. D \subseteq C
        BY <2>3, <2>5, <4>1, <4>2, EnteringPast
      <4> HIDE DEF A, B, C, D
      <4>6. Cardinality(D) \in Nat /\ Cardinality(D) <= Cardinality(C)
        BY <3>0, <4>4, FS_Subset, FS_CardinalityType
      <4>7. Cardinality(D) <= left
        BY <2>5, <2>7, <3>0, <4>1, <4>6 DEF C
      <4>8. Cardinality(B) + o - Cardinality(got) <= entered
        BY <2>5, <2>7, <2>8, <3>0, <4>1, <4>3 DEF A
      <4> QED
        BY <4>1, <4>2, <4>7, <4>8 DEF B, D
    <3> QED
      BY <3>1, <3>2, <3>3
  <2>10. call' = [call EXCEPT !.left = left, !.entered = entered, !.stayed = stayed]
    BY <2>1, <2>2 DEF WalkRecord
  <2> HIDE DEF left, entered, stayed
  <2>11. /\ call' \in WalkRecord /\ call'.open /\ ~call'.complete
         /\ call'.left = left /\ call'.entered = entered /\ call'.stayed = stayed
         /\ call'.got = got /\ call'.count = o
         /\ call'.caller = caller /\ call'.filter = f
    BY <2>1, <2>6, <2>10 DEF WalkRecord, caller, f
  <2>12. Counted(call', T)
    BY <2>9, <2>11 DEF Counted
  <2>13. Keeps(call', T)
    BY <2>1, <2>11, <2>12 DEF Keeps
  <2> QED
    BY <2>4, <2>11, <2>13
<1> QED
  BY <1>2, <1>3

-----------------------------------------------------------------------------
(* Attempts                                                                *)
Numbers(m) == {k \in 1 .. m : k > m - Limit}

LEMMA NumbersGrow ==
  ASSUME NEW m \in Nat, NEW n \in Nat, n >= m
  PROVE  /\ Numbers(m) \in SUBSET Nat
         /\ Cardinality(Numbers(m)) \in Nat /\ Cardinality(Numbers(n)) \in Nat
         /\ Cardinality(Numbers(m)) <= Cardinality(Numbers(n))
<1> DEFINE size(a) == IF a <= Limit THEN a ELSE Limit
<1>1. Limit \in Nat \ {0}
  BY ReadsAssumption
<1>2. ASSUME NEW a \in Nat PROVE Cardinality(Numbers(a)) = size(a)
  <2> DEFINE low == IF a <= Limit THEN 1 ELSE a - Limit + 1
  <2>1. Numbers(a) = low .. a
    BY <1>1 DEF Numbers
  <2>2. Cardinality(low .. a) = IF low > a THEN 0 ELSE a - low + 1
    <3>1. low \in Int /\ a \in Int
      BY <1>1
    <3> HIDE DEF low
    <3> QED
      BY <3>1, FS_Interval
  <2>3. (IF low > a THEN 0 ELSE a - low + 1) = size(a)
    BY <1>1
  <2> QED
    BY <2>1, <2>2, <2>3
<1>3. size(m) \in Nat /\ size(n) \in Nat /\ size(m) <= size(n)
  BY <1>1
<1>4. Numbers(m) \in SUBSET Nat
  BY DEF Numbers
<1> HIDE DEF size
<1> QED
  BY <1>2, <1>3, <1>4

(* While the answer is open, the row is the caller's own, and has as many  *)
(* attempts to show as before unless it has been removed.                  *)
AttemptsOK ==
  /\ call.kind = "attempts" /\ call.open =>
       /\ Owner[call.id] = call.caller
       /\ \/ life[call.id].status = "deleted"
          \/ \E m \in Nat : call.before = Numbers(m) /\ m <= made[call.id]
  /\ AttemptsOfOwnRow

LEMMA NumbersAre ==
  ASSUME RowsOK, NEW i \in Id
  PROVE  AttemptNumbers(i) = Numbers(made[i]) /\ made[i] \in Nat
         /\ AttemptNumbers(i) \in SUBSET Nat
<1>1. made[i] \in Nat
  BY DEF RowsOK
<1>2. Numbers(made[i]) \in SUBSET Nat
  BY <1>1, NumbersGrow
<1> QED
  BY <1>1, <1>2 DEF AttemptNumbers, Numbers

LEMMA AttemptsMove ==
  ASSUME RowsOK, CallOK, AttemptsOK, NEW i \in Id, NEW n \in Becomes, Move(i, n)
  PROVE  AttemptsOK'
<1>1. /\ RowsOK'
      /\ call = NoCall \/ call.open
      /\ \A j \in Id : life'[j].status = "deleted" \/ made'[j] >= made[j]
      /\ \A j \in Id : life[j].status = "deleted" => life'[j] = life[j]
      /\ call' = Witnessed(i, n)
  BY RowMoves
<1>2. CASE call.kind # "attempts"
  <2>1. call'.kind # "attempts"
    <3>1. CASE call.kind = "walk"
      <4>1. call \in WalkRecord /\ \E l, e, t :
              call' = [call EXCEPT !.left = l, !.entered = e, !.stayed = t]
        BY <1>1, <3>1, CallKinds DEF Witnessed
      <4> QED
        BY <4>1 DEF WalkRecord
    <3>2. CASE call.kind = "metrics"
      <4>1. call \in MetricsRecord /\ call' = [call EXCEPT !.moved = @ + 1]
        BY <1>1, <3>2, CallKinds DEF Witnessed
      <4> QED
        BY <4>1 DEF MetricsRecord
    <3>3. CASE call.kind \notin {"walk", "metrics"}
      BY <1>1, <1>2, <3>3 DEF Witnessed
    <3> QED
      BY <3>1, <3>2, <3>3
  <2> QED
    BY <2>1 DEF AttemptsOK, AttemptsOfOwnRow, Answered
<1>3. CASE call.kind = "attempts"
  <2>1. call.open /\ call' = call /\ call.id \in Id
    BY <1>1, <1>3, CallKinds DEF NoCall, Witnessed, AttemptsRecord
  <2>2. made[call.id] \in Nat /\ made'[call.id] \in Nat
    <3>1. made \in [Id -> Nat] /\ made' \in [Id -> Nat]
      BY <1>1 DEF RowsOK
    <3> QED
      BY <2>1, <3>1
  <2>3. Owner[call.id] = call.caller
    BY <1>3, <2>1 DEF AttemptsOK
  <2>4. \/ life'[call.id].status = "deleted"
        \/ \E m \in Nat : call.before = Numbers(m) /\ m <= made'[call.id]
    <3>1. CASE life[call.id].status = "deleted"
      BY <1>1, <2>1, <3>1
    <3>2. CASE life[call.id].status # "deleted"
      <4>1. PICK m \in Nat : call.before = Numbers(m) /\ m <= made[call.id]
        BY <1>3, <2>1, <3>2 DEF AttemptsOK
      <4>2. life'[call.id].status = "deleted" \/ m <= made'[call.id]
        BY <1>1, <2>1, <2>2, <4>1
      <4> QED
        BY <4>1, <4>2
    <3> QED
      BY <3>1, <3>2
  <2> QED
    BY <2>1, <2>3, <2>4 DEF AttemptsOK, AttemptsOfOwnRow, Answered
<1> QED
  BY <1>2, <1>3

LEMMA AttemptsChecked ==
  ASSUME RowsOK, NEW caller \in Caller, NEW i \in Id, CheckExists(caller, i)
  PROVE  AttemptsOK' /\ call' \in AttemptsRecord
<1> DEFINE found == Found(caller, i)
           numbers == AttemptNumbers(i)
<1>1. /\ call' = [kind |-> "attempts", open |-> found, caller |-> caller,
                  id |-> i, before |-> numbers, got |-> {}]
      /\ UNCHANGED <<life, made, due>>
  BY DEF CheckExists
<1>2. numbers = Numbers(made[i]) /\ numbers \in SUBSET Nat /\ made[i] \in Nat
  BY NumbersAre
<1>3. found \in BOOLEAN /\ (found => Owner[i] = caller)
      /\ (~found => Owner[i] # caller \/ life[i].status \in {"absent", "deleted"})
  <2>1. life[i].status \in RowStatus
    BY DEF RowsOK, State
  <2> QED
    BY <2>1 DEF Found, Exists, RowStatus
<1> HIDE DEF found, numbers
<1>4. call' \in AttemptsRecord
  BY <1>1, <1>2, <1>3 DEF AttemptsRecord
<1>5. /\ call'.kind = "attempts" /\ call'.open = found /\ call'.id = i
      /\ call'.caller = caller /\ call'.before = numbers /\ call'.got = {}
  BY <1>1
<1>6. made[i] <= made[i]
  BY <1>2
<1>7. AttemptsOfOwnRow'
  BY <1>1, <1>3, <1>5 DEF AttemptsOfOwnRow, Answered
<1> QED
  BY <1>1, <1>2, <1>3, <1>4, <1>5, <1>6, <1>7 DEF AttemptsOK

LEMMA AttemptsSelected ==
  ASSUME RowsOK, CallOK, AttemptsOK, SelectAttempts
  PROVE  AttemptsOK' /\ call' \in AttemptsRecord
<1>1. /\ call \in AttemptsRecord /\ call.kind = "attempts" /\ call.open
      /\ call' = [call EXCEPT !.open = FALSE, !.got = AttemptNumbers(call.id)]
      /\ UNCHANGED <<life, made, due>>
  BY CallKinds DEF SelectAttempts
<1>2. call.id \in Id
  BY <1>1 DEF AttemptsRecord
<1> DEFINE numbers == AttemptNumbers(call.id)
<1>3. numbers = Numbers(made[call.id]) /\ numbers \in SUBSET Nat
      /\ made[call.id] \in Nat
  BY <1>2, NumbersAre
<1> HIDE DEF numbers
<1>4. /\ call' \in AttemptsRecord /\ ~call'.open
      /\ call'.id = call.id /\ call'.caller = call.caller
      /\ call'.before = call.before /\ call'.got = numbers
  BY <1>1, <1>3 DEF AttemptsRecord, numbers
<1>5. Owner[call.id] = call.caller
  BY <1>1 DEF AttemptsOK
<1>6. life[call.id].status = "deleted" \/ Cardinality(numbers) >= Cardinality(call.before)
  <2>1. CASE life[call.id].status # "deleted"
    <3>1. PICK m \in Nat : call.before = Numbers(m) /\ m <= made[call.id]
      BY <1>1, <2>1 DEF AttemptsOK
    <3>2. /\ Cardinality(Numbers(m)) \in Nat
          /\ Cardinality(Numbers(made[call.id])) \in Nat
          /\ Cardinality(Numbers(m)) <= Cardinality(Numbers(made[call.id]))
      BY <1>3, <3>1, NumbersGrow
    <3> QED
      BY <1>3, <3>1, <3>2
  <2> QED
    BY <2>1
<1> QED
  BY <1>1, <1>4, <1>5, <1>6 DEF AttemptsOK, AttemptsOfOwnRow, Answered

-----------------------------------------------------------------------------
(* Metrics                                                                 *)
Having(s) == {i \in Id : life[i].status = s}

LEMMA CountType ==
  ASSUME NEW s
  PROVE  /\ IsFiniteSet(Having(s)) /\ Having(s) \in SUBSET Id
         /\ CountOf(s) = Cardinality(Having(s)) /\ CountOf(s) \in Nat
<1>1. Having(s) \in SUBSET Id /\ IsFiniteSet(Id)
  BY ReadsAssumption DEF Having
<1>2. IsFiniteSet(Having(s)) /\ Cardinality(Having(s)) \in Nat
  BY <1>1, FS_Subset, FS_CardinalityType
<1> QED
  BY <1>1, <1>2 DEF CountOf, Having

Near(a, b, d) == a - b \in -d .. d

(* What an open answer has counted is off by what has moved since, and an  *)
(* answer that is given has the attempts as they are.                      *)
MetricsOK ==
  call.kind = "metrics" =>
    /\ \A s \in Status : Near(call.statuses[s], CountOf(s), call.moved)
    /\ call.step = 3 /\ call.moved = 0 => (call.waits <=> SomeoneWaits)
    /\ ~call.open => /\ call.step = 3
                     /\ call.attempts = [t \in Target |-> AttemptCounts(t)]

(* One row more or less in a count.                                        *)
LEMMA CountMoves ==
  ASSUME NEW i \in Id, NEW n, RowsOK, life' = [life EXCEPT ![i] = n], NEW s
  PROVE  /\ CountOf(s)' \in Nat
         /\ CountOf(s)' <= CountOf(s) + 1 /\ CountOf(s) <= CountOf(s)' + 1
<1> DEFINE A == Having(s)
           B == {j \in Id : life'[j].status = s}
<1>1. \A j \in Id : j # i => life'[j] = life[j]
  BY DEF RowsOK
<1>2. (\A x, y \in B \ A : x = y) /\ (\A x, y \in A \ B : x = y)
  BY <1>1 DEF Having
<1>3. IsFiniteSet(A) /\ CountOf(s) = Cardinality(A)
  BY CountType
<1>4. CountOf(s)' = Cardinality(B)
  BY DEF CountOf
<1> HIDE DEF A, B
<1>5. /\ IsFiniteSet(B) /\ Cardinality(B) \in Nat
      /\ Cardinality(B) <= Cardinality(A) + 1
  BY <1>2, <1>3, OneMore
<1>6. Cardinality(A) <= Cardinality(B) + 1
  BY <1>2, <1>5, OneMore
<1> QED
  BY <1>3, <1>4, <1>5, <1>6

(* Whatever moves while an answer is open is counted.                      *)
LEMMA MetricsMoved ==
  ASSUME CallOK, MetricsOK, call.kind = "metrics", call.open,
         call' = [call EXCEPT !.moved = @ + 1],
         \A s \in Status : /\ CountOf(s)' \in Nat
                           /\ CountOf(s)' <= CountOf(s) + 1
                           /\ CountOf(s) <= CountOf(s)' + 1
  PROVE  MetricsOK' /\ call' \in MetricsRecord
<1>1. call \in MetricsRecord
  BY CallKinds
<1>2. call.moved \in Nat /\ call.statuses \in [Status -> Nat]
  BY <1>1 DEF MetricsRecord
<1>3. /\ call' \in MetricsRecord /\ call'.moved = call.moved + 1 /\ call'.open
      /\ call'.statuses = call.statuses
  BY <1>1, <1>2 DEF MetricsRecord
<1>4. ASSUME NEW s \in Status
      PROVE  Near(call.statuses[s], CountOf(s)', call.moved + 1)
  <2>1. call.statuses[s] \in Nat /\ CountOf(s) \in Nat
    BY <1>2, CountType
  <2>2. call.statuses[s] - CountOf(s) \in -call.moved .. call.moved
    BY MetricsOK DEF MetricsOK, Near
  <2>3. call.statuses[s] - CountOf(s)' \in -(call.moved + 1) .. call.moved + 1
    BY <1>2, <2>1, <2>2
  <2> QED
    BY <2>3 DEF Near
<1>5. \A s \in Status : Near(call'.statuses[s], CountOf(s)', call'.moved)
  BY <1>3, <1>4
<1>6. call'.moved # 0
  BY <1>2, <1>3
<1>7. MetricsOK'
  BY <1>3, <1>5, <1>6 DEF MetricsOK, Near
<1> QED
  BY <1>3, <1>7

LEMMA MetricsMove ==
  ASSUME RowsOK, CallOK, MetricsOK, NEW i \in Id, NEW n \in Becomes, Move(i, n)
  PROVE  MetricsOK'
<1>1. /\ life' = [life EXCEPT ![i] = n]
      /\ call = NoCall \/ call.open
      /\ call' = Witnessed(i, n)
  BY RowMoves
<1>2. CASE call.kind = "metrics"
  <2>1. call.open /\ call' = [call EXCEPT !.moved = @ + 1]
    BY <1>1, <1>2 DEF NoCall, Witnessed
  <2> QED
    BY <1>1, <1>2, <2>1, CountMoves, MetricsMoved
<1>3. CASE call.kind = "walk"
  <2>1. call \in WalkRecord /\ \E l, e, t :
          call' = [call EXCEPT !.left = l, !.entered = e, !.stayed = t]
    BY <1>1, <1>3, CallKinds DEF Witnessed
  <2>2. call'.kind = "walk"
    BY <2>1 DEF WalkRecord
  <2> QED
    BY <2>2 DEF MetricsOK
<1>4. CASE call.kind \notin {"walk", "metrics"}
  <2>1. call' = call
    BY <1>1, <1>4 DEF Witnessed
  <2> QED
    BY <1>4, <2>1 DEF MetricsOK
<1> QED
  BY <1>2, <1>3, <1>4

(* The attempts of a target, of which those in progress are a part.        *)
LEMMA AttemptCountsAre ==
  ASSUME RowsOK, NEW t \in Target
  PROVE  /\ AttemptCounts(t) \in [in_progress : Nat, all : Nat]
         /\ AttemptCounts(t).in_progress
              = Cardinality({i \in Having("processing") : TargetOf[i] = t})
         /\ AttemptCounts(t).in_progress <= AttemptCounts(t).all
<1> DEFINE rows == {i \in Id : Exists(i) /\ TargetOf[i] = t}
           part == {i \in rows : life[i].status = "processing"}
           total == SumFunctionOnSet(made, rows)
<1>1. AttemptCounts(t) = [in_progress |-> Cardinality(part), all |-> total]
  BY DEF AttemptCounts
<1>2. part = {i \in Having("processing") : TargetOf[i] = t}
  BY DEF Having, Exists, Status, Active
<1>3. /\ IsFiniteSet(rows) /\ part \in SUBSET rows
      /\ \A i \in rows : made[i] \in Nat
      /\ \A i \in part : made[i] >= 1
  BY ReadsAssumption, FS_Subset DEF RowsOK
<1> HIDE DEF rows, part
<1>4. Cardinality(part) <= total /\ total \in Nat
  BY <1>3, SumAtLeast, SumNatural
<1>5. Cardinality(part) \in Nat
  BY <1>3, FS_Subset, FS_CardinalityType
<1> HIDE DEF total
<1> QED
  BY <1>1, <1>2, <1>4, <1>5

(* The processing rows are those of the targets together.                  *)
LEMMA InProgressIs ==
  ASSUME RowsOK
  PROVE  SumFunctionOnSet([t \in Target |-> AttemptCounts(t).in_progress], Target)
           = CountOf("processing")
<1> DEFINE A == Having("processing")
<1>1. IsFiniteSet(A) /\ A \in SUBSET Id /\ CountOf("processing") = Cardinality(A)
  BY CountType
<1>2. \A i \in A : TargetOf[i] \in Target
  BY <1>1, ReadsAssumption
<1>3. [t \in Target |-> AttemptCounts(t).in_progress]
        = [t \in Target |-> Cardinality({i \in A : TargetOf[i] = t})]
  BY AttemptCountsAre
<1> HIDE DEF A
<1>4. SumFunctionOnSet([t \in Target |-> Cardinality({i \in A : TargetOf[i] = t})], Target)
        = Cardinality(A)
  BY <1>1, <1>2, ReadsAssumption, SumParts
<1> QED
  BY <1>1, <1>3, <1>4

LEMMA MetricsDrifts == RowsOK /\ CallOK /\ MetricsOK => MetricsDrift
<1> SUFFICES ASSUME RowsOK, CallOK, MetricsOK, Answered("metrics")
             PROVE  MetricsDrift
  BY DEF MetricsDrift
<1>1. call \in MetricsRecord /\ ~call.open /\ call.kind = "metrics"
  BY CallKinds DEF Answered
<1>2. /\ \A s \in Status : Near(call.statuses[s], CountOf(s), call.moved)
      /\ call.moved = 0 => (call.waits <=> SomeoneWaits)
      /\ \A t \in Target : call.attempts[t] = AttemptCounts(t)
  BY <1>1 DEF MetricsOK
<1>3. SumFunctionOnSet([t \in Target |-> call.attempts[t].in_progress], Target)
        = CountOf("processing")
  <2>1. [t \in Target |-> call.attempts[t].in_progress]
          = [t \in Target |-> AttemptCounts(t).in_progress]
    BY <1>2
  <2> QED
    BY <2>1, InProgressIs
<1>4. \A t \in Target : call.attempts[t].in_progress <= call.attempts[t].all
  BY <1>2, AttemptCountsAre
<1>5. SomeoneWaits <=> \E i \in Id : i \in due /\ life[i].status = "pending"
  BY DEF SomeoneWaits, RowsOK
<1>6. "processing" \in Status
  BY DEF Status, Active
<1> QED
  BY <1>2, <1>3, <1>4, <1>5, <1>6 DEF MetricsDrift, Near, CountOf

-----------------------------------------------------------------------------
(* The invariant                                                           *)
ReadsInv == RowsOK /\ CallOK /\ WalkOK /\ AttemptsOK /\ MetricsOK

LEMMA ReadsInit == Init => ReadsInv
<1> SUFFICES ASSUME Init PROVE ReadsInv
  OBVIOUS
<1>1. RowsOK
  BY DEF Init, RowsOK, State, RowStatus
<1>2. call = NoCall /\ call.kind = "none"
  BY DEF Init, NoCall
<1> QED
  BY <1>1, <1>2 DEF ReadsInv, CallOK, WalkOK, AttemptsOK, AttemptsOfOwnRow, Answered,
                    MetricsOK

(* A page of a walk over the rows as they are.                             *)
LEMMA WalkPaged ==
  ASSUME RowsOK, NEW w, w.open, Keeps(w, Listed(w.caller, w.filter)),
         call' = Page(w), UNCHANGED <<life, made, due>>
  PROVE  ReadsInv'
<1>1. Keeps(call', Listed(w.caller, w.filter))
  BY PageKeeps
<1>2. call' \in WalkRecord /\ call'.kind = "walk"
  BY <1>1 DEF Keeps, WalkRecord
<1>3. call'.caller = w.caller /\ call'.filter = w.filter
  <2>1. w \in WalkRecord
    BY DEF Keeps
  <2>2. \E g, c, o, d : Page(w) = [w EXCEPT !.got = g, !.count = c,
                                            !.open = o, !.complete = d]
                        \/ Page(w) = [w EXCEPT !.open = FALSE]
    BY DEF Page
  <2> QED
    BY <2>1, <2>2 DEF WalkRecord
<1>4. Listed(call.caller, call.filter)' = Listed(w.caller, w.filter)
  BY <1>3 DEF Listed
<1>5. WalkOK'
  BY <1>1, <1>4 DEF WalkOK
<1>6. RowsOK' /\ CallOK'
  BY <1>2 DEF RowsOK, CallOK
<1>7. AttemptsOK' /\ MetricsOK'
  BY <1>2 DEF AttemptsOK, AttemptsOfOwnRow, Answered, MetricsOK
<1> QED
  BY <1>5, <1>6, <1>7 DEF ReadsInv

LEMMA PageSteps ==
  ASSUME ReadsInv, NextPage \/ \E caller \in Caller, f \in Filter : FirstPage(caller, f)
  PROVE  ReadsInv'
<1>1. ASSUME NEW caller \in Caller, NEW f \in Filter, FirstPage(caller, f)
      PROVE  ReadsInv'
  <2> DEFINE w == Walk(caller, f)
  <2>1. call' = Page(w) /\ UNCHANGED <<life, made, due>>
    BY <1>1 DEF FirstPage
  <2>2. w.open /\ w.caller = caller /\ w.filter = f
    BY DEF Walk
  <2>3. Keeps(w, Listed(caller, f))
    BY WalkKeeps
  <2> HIDE DEF w
  <2> QED
    BY <2>1, <2>2, <2>3, WalkPaged DEF ReadsInv
<1>2. CASE NextPage
  <2>1. /\ call.kind = "walk" /\ call.open /\ call' = Page(call)
        /\ UNCHANGED <<life, made, due>>
    BY <1>2 DEF NextPage
  <2> QED
    BY <2>1, WalkPaged DEF ReadsInv, WalkOK
<1> QED
  BY <1>1, <1>2

LEMMA AttemptsSteps ==
  ASSUME ReadsInv,
         SelectAttempts \/ \E caller \in Caller, i \in Id : CheckExists(caller, i)
  PROVE  ReadsInv'
<1>1. /\ AttemptsOK' /\ call' \in AttemptsRecord
      /\ UNCHANGED <<life, made, due>>
  <2>1. ASSUME NEW caller \in Caller, NEW i \in Id, CheckExists(caller, i)
        PROVE  AttemptsOK' /\ call' \in AttemptsRecord /\ UNCHANGED <<life, made, due>>
    BY <2>1, AttemptsChecked DEF ReadsInv, CheckExists
  <2>2. ASSUME SelectAttempts
        PROVE  AttemptsOK' /\ call' \in AttemptsRecord /\ UNCHANGED <<life, made, due>>
    BY <2>2, AttemptsSelected DEF ReadsInv, SelectAttempts
  <2> QED
    BY <2>1, <2>2
<1>2. call'.kind = "attempts"
  BY <1>1 DEF AttemptsRecord
<1>3. WalkOK' /\ MetricsOK'
  BY <1>2 DEF WalkOK, MetricsOK
<1>4. RowsOK' /\ CallOK'
  BY <1>1 DEF ReadsInv, RowsOK, CallOK
<1> QED
  BY <1>1, <1>3, <1>4 DEF ReadsInv

(* The three statements of Metrics: each leaves the rows alone, and the    *)
(* last one finds the attempts as they are.                                *)
LEMMA MetricsSteps ==
  ASSUME ReadsInv, CountStatuses \/ OldestPending \/ CountAttempts
  PROVE  ReadsInv'
<1>1. UNCHANGED <<life, made, due>>
  BY DEF CountStatuses, OldestPending, CountAttempts
<1>2. /\ \A s : CountOf(s)' = CountOf(s)
      /\ SomeoneWaits' <=> SomeoneWaits
      /\ [t \in Target |-> AttemptCounts(t)]' = [t \in Target |-> AttemptCounts(t)]
  BY <1>1 DEF CountOf, SomeoneWaits, AttemptCounts, Exists
<1>3. RowsOK /\ RowsOK'
  BY <1>1 DEF ReadsInv, RowsOK
<1>4. call' \in MetricsRecord /\ MetricsOK'
  <2>1. CASE CountStatuses
    <3> DEFINE counts == [s \in Status |-> CountOf(s)]
               none == [t \in Target |-> [in_progress |-> 0, all |-> 0]]
    <3>1. call' = [kind |-> "metrics", open |-> TRUE, moved |-> 0, step |-> 2,
                   statuses |-> counts, waits |-> FALSE, attempts |-> none]
      BY <2>1 DEF CountStatuses
    <3>2. counts \in [Status -> Nat] /\ none \in [Target -> [in_progress : Nat, all : Nat]]
      BY CountType
    <3>3. \A s \in Status : Near(counts[s], CountOf(s), 0)
      BY CountType DEF Near
    <3> HIDE DEF counts, none
    <3>4. call' \in MetricsRecord
      BY <3>1, <3>2 DEF MetricsRecord
    <3>5. call'.statuses = counts /\ call'.moved = 0 /\ call'.step = 2 /\ call'.open
      BY <3>1
    <3> QED
      BY <1>2, <3>3, <3>4, <3>5 DEF MetricsOK, Near
  <2>2. CASE OldestPending
    <3> DEFINE waits == SomeoneWaits
    <3>1. /\ call \in MetricsRecord /\ call.kind = "metrics" /\ call.open
          /\ call' = [call EXCEPT !.step = 3, !.waits = waits]
      BY <2>2, CallKinds DEF OldestPending, ReadsInv
    <3>2. waits \in BOOLEAN
      BY DEF SomeoneWaits
    <3> HIDE DEF waits
    <3>3. /\ call' \in MetricsRecord /\ call'.open /\ call'.statuses = call.statuses
          /\ call'.moved = call.moved /\ call'.waits = waits
      BY <3>1, <3>2 DEF MetricsRecord
    <3>4. call'.waits <=> SomeoneWaits
      BY <3>3 DEF waits
    <3>5. \A s \in Status : Near(call.statuses[s], CountOf(s), call.moved)
      BY <3>1 DEF ReadsInv, MetricsOK
    <3> QED
      BY <1>2, <3>3, <3>4, <3>5 DEF MetricsOK, Near
  <2>3. CASE CountAttempts
    <3> DEFINE counts == [t \in Target |-> AttemptCounts(t)]
    <3>1. /\ call \in MetricsRecord /\ call.kind = "metrics" /\ call.open /\ call.step = 3
          /\ call' = [call EXCEPT !.open = FALSE, !.attempts = counts]
      BY <2>3, CallKinds DEF CountAttempts, ReadsInv
    <3>2. counts \in [Target -> [in_progress : Nat, all : Nat]]
      BY <1>3, AttemptCountsAre
    <3>3. /\ call' \in MetricsRecord /\ call'.statuses = call.statuses
          /\ call'.moved = call.moved /\ call'.waits = call.waits
          /\ call'.step = 3 /\ call'.attempts = counts
      <4> HIDE DEF counts
      <4> QED
        BY <3>1, <3>2 DEF MetricsRecord
    <3>4. /\ \A s \in Status : Near(call.statuses[s], CountOf(s), call.moved)
          /\ call.moved = 0 => (call.waits <=> SomeoneWaits)
      BY <3>1 DEF ReadsInv, MetricsOK
    <3>5. [t \in Target |-> AttemptCounts(t)]' = counts
      BY <1>2
    <3> HIDE DEF counts
    <3> QED
      BY <1>2, <3>3, <3>4, <3>5 DEF MetricsOK, Near
  <2> QED
    BY <2>1, <2>2, <2>3
<1>5. call'.kind = "metrics"
  BY <1>4 DEF MetricsRecord
<1>6. WalkOK' /\ AttemptsOK' /\ CallOK'
  BY <1>4, <1>5 DEF WalkOK, AttemptsOK, AttemptsOfOwnRow, Answered, CallOK
<1> QED
  BY <1>3, <1>4, <1>6 DEF ReadsInv

LEMMA CallMoves ==
  ASSUME RowsOK, CallOK, WalkOK, NEW i \in Id, NEW n \in Becomes, Move(i, n), WalkOK'
  PROVE  CallOK'
<1>1. /\ call = NoCall \/ call.open
      /\ call' = Witnessed(i, n)
  BY RowMoves
<1>2. CASE call.kind = "metrics"
  <2>1. call \in MetricsRecord /\ call' = [call EXCEPT !.moved = @ + 1]
    BY <1>1, <1>2, CallKinds DEF Witnessed
  <2>2. call' \in MetricsRecord
    BY <2>1 DEF MetricsRecord
  <2> QED
    BY <2>2 DEF CallOK
<1>3. CASE call.kind = "walk"
  <2>1. call \in WalkRecord /\ \E l, e, t :
          call' = [call EXCEPT !.left = l, !.entered = e, !.stayed = t]
    BY <1>1, <1>3, CallKinds DEF Witnessed
  <2>2. call'.kind = "walk"
    BY <2>1 DEF WalkRecord
  <2>3. call' \in WalkRecord
    BY <2>2 DEF WalkOK, Keeps
  <2> QED
    BY <2>3 DEF CallOK
<1>4. CASE call.kind \notin {"walk", "metrics"}
  <2>1. call' = call
    BY <1>1, <1>4 DEF Witnessed
  <2> QED
    BY <2>1 DEF CallOK
<1> QED
  BY <1>2, <1>3, <1>4

LEMMA MoveSteps ==
  ASSUME ReadsInv, NEW i \in Id, NEW n \in Becomes, Move(i, n)
  PROVE  ReadsInv'
<1>1. RowsOK /\ CallOK /\ WalkOK /\ AttemptsOK /\ MetricsOK
  BY DEF ReadsInv
<1>2. RowsOK'
  BY <1>1, RowMoves
<1>3. WalkOK'
  BY <1>1, WalkMoves
<1>4. AttemptsOK'
  BY <1>1, AttemptsMove
<1>5. MetricsOK'
  BY <1>1, MetricsMove
<1>6. CallOK'
  BY <1>1, <1>3, CallMoves
<1> QED
  BY <1>2, <1>3, <1>4, <1>5, <1>6 DEF ReadsInv

(* The clock changes no status and no attempt.                             *)
LEMMA DueSteps ==
  ASSUME ReadsInv, NEW i \in Id, ComesDue(i)
  PROVE  ReadsInv'
<1>1. /\ RowsOK /\ CallOK /\ WalkOK /\ AttemptsOK /\ MetricsOK
      /\ Undisturbed /\ due' = due \cup {i} /\ UNCHANGED <<life, made>>
      /\ call' = IF call.kind = "metrics" THEN Witnessed(i, life[i]) ELSE call
  BY DEF ReadsInv, ComesDue
<1>2. RowsOK'
  BY <1>1 DEF RowsOK
<1>3. CASE call.kind = "metrics"
  <2>1. call.open /\ call' = [call EXCEPT !.moved = @ + 1]
    BY <1>1, <1>3 DEF Undisturbed, NoCall, Witnessed
  <2>2. \A s : CountOf(s)' = CountOf(s) /\ CountOf(s) \in Nat
    BY <1>1, CountType DEF CountOf
  <2>3. \A s \in Status : /\ CountOf(s)' \in Nat
                          /\ CountOf(s)' <= CountOf(s) + 1
                          /\ CountOf(s) <= CountOf(s)' + 1
    BY <2>2
  <2>4. MetricsOK' /\ call' \in MetricsRecord
    BY <1>1, <1>3, <2>1, <2>3, MetricsMoved
  <2>5. call'.kind = "metrics"
    BY <2>4 DEF MetricsRecord
  <2>6. WalkOK' /\ AttemptsOK' /\ CallOK'
    BY <2>4, <2>5 DEF WalkOK, AttemptsOK, AttemptsOfOwnRow, Answered, CallOK
  <2> QED
    BY <1>2, <2>4, <2>6 DEF ReadsInv
<1>4. CASE call.kind # "metrics"
  <2>1. UNCHANGED <<life, made, call>>
    BY <1>1, <1>4
  <2>2. WalkOK' /\ AttemptsOK' /\ CallOK'
    BY <1>1, <2>1 DEF WalkOK, Listed, AttemptsOK, AttemptsOfOwnRow, Answered, CallOK
  <2>3. MetricsOK'
    BY <1>4, <2>1 DEF MetricsOK
  <2> QED
    BY <1>2, <2>2, <2>3 DEF ReadsInv
<1> QED
  BY <1>3, <1>4

LEMMA ReadsStep == ReadsInv /\ [Next]_vars => ReadsInv'
<1> SUFFICES ASSUME ReadsInv, [Next]_vars PROVE ReadsInv'
  OBVIOUS
<1>1. CASE UNCHANGED vars
  BY <1>1 DEF vars, ReadsInv, RowsOK, CallOK, WalkOK, Listed, AttemptsOK,
              AttemptsOfOwnRow, Answered, MetricsOK, CountOf, SomeoneWaits,
              AttemptCounts, Exists
<1>2. CASE Return
  <2>1. call' = NoCall /\ UNCHANGED <<life, made, due>>
    BY <1>2 DEF Return
  <2>2. call'.kind = "none"
    BY <2>1 DEF NoCall
  <2> QED
    BY <2>1, <2>2 DEF ReadsInv, RowsOK, CallOK, WalkOK, AttemptsOK, AttemptsOfOwnRow,
                      Answered, MetricsOK
<1>3. CASE Next /\ ~Return
  BY <1>3, PageSteps, AttemptsSteps, MetricsSteps, MoveSteps, DueSteps DEF Next
<1> QED
  BY <1>1, <1>2, <1>3

LEMMA ReadsInvariant == Spec => []ReadsInv
BY ReadsInit, ReadsStep, PTL DEF Spec

-----------------------------------------------------------------------------
(* A client that pages through a list that changes misses no more of the   *)
(* rows that were there all the time than rows left, and gets none twice   *)
(* but for those that entered, however large the list and its pages        *)
(* (Store.List, Server.list).                                              *)
THEOREM PagesDriftBounded == Spec => []PagesDrift
<1>1. ReadsInv => PagesDrift
  BY DEF ReadsInv, WalkOK, Keeps, Drift, PagesDrift, Answered
<1> QED
  BY ReadsInvariant, <1>1, PTL

(* The attempts a caller is shown are its own notification's, and all that *)
(* there were unless the notification has been removed meanwhile           *)
(* (Store.ListAttempts).                                                   *)
THEOREM OwnAttemptsOnly == Spec => []AttemptsOfOwnRow
<1>1. ReadsInv => AttemptsOfOwnRow
  BY DEF ReadsInv, AttemptsOK
<1> QED
  BY ReadsInvariant, <1>1, PTL

(* The numbers of an answer are off by what moved between its statements   *)
(* at most, whatever the rows and targets are (Store.Metrics).             *)
THEOREM MetricsDriftBounded == Spec => []MetricsDrift
<1>1. ReadsInv => MetricsDrift
  BY MetricsDrifts DEF ReadsInv
<1> QED
  BY ReadsInvariant, <1>1, PTL
=============================================================================
