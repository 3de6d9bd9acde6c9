-------------------------- MODULE RequestPath_proofs --------------------------
(***************************************************************************)
(* Proofs about RequestPath, for all requests, configurations and answers  *)
(* of the resolver, and for maps and lists of any length: digests tell     *)
(* requests apart and recognise repetitions, what a process accepts it     *)
(* would send, no process sends what its own configuration does not admit, *)
(* and the vendor gets what was submitted.                                 *)
(***************************************************************************)
EXTENDS RequestPath, Induction, SequenceTheorems

-----------------------------------------------------------------------------
(* f has the concatenations of the first sequences of ss.                  *)
Joins(f, ss, V) ==
  /\ f \in [0 .. Len(ss) -> Seq(V)] /\ f[0] = <<>>
  /\ \A k \in 1 .. Len(ss) : f[k] = f[k - 1] \o ss[k]
  /\ FlattenSeq(ss) = f[Len(ss)]

LEMMA Flattening ==
  ASSUME NEW V, NEW ss \in Seq(Seq(V))
  PROVE  \E f : Joins(f, ss, V)
<1> DEFINE n == Len(ss)
           W == Seq(V)
           g == [k \in Nat |-> [v \in W |-> IF k + 1 <= n THEN v \o ss[k + 1] ELSE v]]
           Body(x) == [i \in 1 .. n |-> IF i = 1 THEN ss[i] ELSE x[i - 1] \o ss[i]]
           c == CHOOSE x : x = Body(x)
<1>1. n \in Nat /\ \A k \in 1 .. n : ss[k] \in W
  BY LenProperties, ElementOfSeq
<1>2. <<>> \in W /\ \A v \in W, w \in W : v \o w \in W
  BY EmptySeq, ConcatProperties
<1>3. n = 0 => ss = <<>>
  BY EmptySeq
<1>4. n # 0 => FlattenSeq(ss) = c[n]
  BY DEF FlattenSeq
<1>5. n = 0 => FlattenSeq(ss) = ss
  BY DEF FlattenSeq
<1> HIDE DEF n, W
<1>6. g \in Steps(Nat, W)
  <2>1. ASSUME NEW k \in Nat, NEW v \in W
        PROVE  (IF k + 1 <= n THEN v \o ss[k + 1] ELSE v) \in W
    BY <1>1, <1>2
  <2> QED
    BY <2>1 DEF Steps
<1>7. PICK h : Iterates(h, W, <<>>, g)
  <2> HIDE DEF g
  <2> QED
    BY <1>2, <1>6, NumberRecursion
<1>8. /\ h \in [Nat -> W] /\ h[0] = <<>>
      /\ \A k \in 1 .. n : h[k] = h[k - 1] \o ss[k]
      /\ \A k \in Nat : k + 1 <= n => h[k + 1] = h[k] \o ss[k + 1]
  <2>1. h \in [Nat -> W] /\ h[0] = <<>> /\ \A k \in Nat : h[k + 1] = g[k][h[k]]
    BY <1>7 DEF Iterates
  <2>2. ASSUME NEW k \in 1 .. n PROVE h[k] = h[k - 1] \o ss[k]
    <3> DEFINE j == k - 1
    <3>1. j \in Nat /\ j + 1 = k /\ k <= n
      BY <1>1
    <3> HIDE DEF j
    <3>2. h[j + 1] = g[j][h[j]] /\ h[j] \in W
      BY <2>1, <3>1
    <3>3. h[k] = h[j] \o ss[k]
      BY <3>1, <3>2
    <3> QED
      BY <3>3 DEF j
  <2>3. ASSUME NEW k \in Nat, k + 1 <= n PROVE h[k + 1] = h[k] \o ss[k + 1]
    BY <2>1, <2>3
  <2> QED
    BY <2>1, <2>2, <2>3
<1>9. \E x : x = Body(x)
  <2> DEFINE a == [i \in 1 .. n |-> h[i]]
  <2>1. ASSUME NEW i \in 1 .. n
        PROVE  a[i] = IF i = 1 THEN ss[i] ELSE a[i - 1] \o ss[i]
    <3>1. CASE i = 1
      <4>0. 0 + 1 <= n /\ 0 + 1 = 1 /\ 0 \in Nat
        BY <1>1, <3>1
      <4>1. h[1] = <<>> \o ss[1]
        BY <1>8, <4>0
      <4>2. ss[1] \in Seq(V)
        BY <1>1, <3>1 DEF W
      <4> QED
        BY <3>1, <4>1, <4>2, ConcatEmptySeq
    <3>2. CASE i # 1
      <4>1. i - 1 \in 1 .. n
        BY <1>1, <3>2
      <4> QED
        BY <1>8, <3>2, <4>1
    <3> QED
      BY <3>1, <3>2
  <2>2. a = Body(a)
    <3>1. a = [i \in 1 .. n |-> a[i]]
      OBVIOUS
    <3> HIDE DEF a
    <3> QED
      BY <2>1, <3>1
  <2> QED
    BY <2>2
<1>10. c = Body(c)
  BY <1>9
<1> HIDE DEF c
<1>11. \A i \in 1 .. n : c[i] = h[i]
  <2> DEFINE B == {k \in Nat : k + 1 <= n => c[k + 1] = h[k + 1]}
  <2>1. 0 \in B
    <3> SUFFICES ASSUME 1 <= n PROVE c[1] = h[1]
      OBVIOUS
    <3>1. c[1] = ss[1] /\ ss[1] \in Seq(V)
      BY <1>1, <1>10 DEF W
    <3>0. 0 + 1 <= n /\ 0 + 1 = 1 /\ 0 \in Nat
      OBVIOUS
    <3>2. h[1] = <<>> \o ss[1]
      BY <1>8, <3>0
    <3> QED
      BY <3>1, <3>2, ConcatEmptySeq
  <2>2. ASSUME NEW k \in Nat, k \in B PROVE k + 1 \in B
    <3> SUFFICES ASSUME k + 2 <= n PROVE c[k + 2] = h[k + 2]
      OBVIOUS
    <3>1. c[k + 1] = h[k + 1]
      BY <1>1, <2>2
    <3> DEFINE j == k + 2
    <3>2. j \in 1 .. n /\ j # 1 /\ j - 1 = k + 1
      BY <1>1
    <3> HIDE DEF j
    <3>3. c[j] = c[j - 1] \o ss[j] /\ h[j] = h[j - 1] \o ss[j]
      BY <1>8, <1>10, <3>2
    <3> QED
      BY <3>1, <3>2, <3>3 DEF j
  <2> HIDE DEF B
  <2>3. Nat \subseteq B
    BY <2>1, <2>2, NumberInduction
  <2> QED
    BY <1>1, <2>3 DEF B
<1> DEFINE f == [k \in 0 .. n |-> h[k]]
<1>12. FlattenSeq(ss) = f[n]
  BY <1>1, <1>3, <1>4, <1>5, <1>8, <1>11
<1>13. f \in [0 .. n -> W] /\ f[0] = <<>>
  BY <1>1, <1>8
<1>14. ASSUME NEW k \in 1 .. n PROVE f[k] = f[k - 1] \o ss[k]
  <2>1. k \in 0 .. n /\ k - 1 \in 0 .. n
    BY <1>1
  <2> QED
    BY <1>8, <2>1
<1> QED
  BY <1>12, <1>13, <1>14 DEF Joins, n, W

(* The same, with the index of the sequence before.                        *)
LEMMA JoinStep ==
  ASSUME NEW V, NEW ss \in Seq(Seq(V)), NEW f, Joins(f, ss, V)
  PROVE  /\ Len(ss) \in Nat /\ f[0] = <<>> /\ FlattenSeq(ss) = f[Len(ss)]
         /\ \A k \in Nat : k <= Len(ss) => f[k] \in Seq(V)
         /\ \A k \in Nat : k + 1 <= Len(ss) =>
              ss[k + 1] \in Seq(V) /\ f[k + 1] = f[k] \o ss[k + 1]
<1> DEFINE n == Len(ss)
<1>1. n \in Nat /\ \A k \in 1 .. n : ss[k] \in Seq(V)
  BY LenProperties, ElementOfSeq
<1>2. /\ f \in [0 .. n -> Seq(V)] /\ f[0] = <<>> /\ FlattenSeq(ss) = f[n]
      /\ \A k \in 1 .. n : f[k] = f[k - 1] \o ss[k]
  BY DEF Joins
<1> HIDE DEF n
<1>3. ASSUME NEW k \in Nat, k <= n PROVE f[k] \in Seq(V)
  BY <1>1, <1>2, <1>3
<1>4. ASSUME NEW k \in Nat, k + 1 <= n
      PROVE  ss[k + 1] \in Seq(V) /\ f[k + 1] = f[k] \o ss[k + 1]
  <2> DEFINE j == k + 1
  <2>1. j \in 1 .. n /\ j - 1 = k
    BY <1>1, <1>4
  <2> HIDE DEF j
  <2>2. ss[j] \in Seq(V) /\ f[j] = f[k] \o ss[j]
    BY <1>1, <1>2, <2>1
  <2> QED
    BY <2>2 DEF j
<1> QED
  BY <1>1, <1>2, <1>3, <1>4 DEF n

LEMMA FlattenType ==
  ASSUME NEW V, NEW ss \in Seq(Seq(V))
  PROVE  FlattenSeq(ss) \in Seq(V)
<1>1. PICK f : Joins(f, ss, V)
  BY Flattening
<1>2. Len(ss) \in Nat /\ FlattenSeq(ss) = f[Len(ss)]
  BY <1>1, JoinStep
<1>3. \A k \in Nat : k <= Len(ss) => f[k] \in Seq(V)
  BY <1>1, JoinStep
<1> QED
  BY <1>2, <1>3

(* Empty sequences add nothing.                                            *)
LEMMA FlattenOne ==
  ASSUME NEW V, NEW ss \in Seq(Seq(V)), NEW j \in Nat,
         \A i \in 1 .. Len(ss) : i # j => ss[i] = <<>>
  PROVE  FlattenSeq(ss) = IF j \in 1 .. Len(ss) THEN ss[j] ELSE <<>>
<1>1. PICK f : Joins(f, ss, V)
  BY Flattening
<1> DEFINE n == Len(ss)
<1>2. /\ n \in Nat /\ f[0] = <<>> /\ FlattenSeq(ss) = f[n]
      /\ \A k \in Nat : k <= n => f[k] \in Seq(V)
      /\ \A k \in Nat : k + 1 <= n => ss[k + 1] \in Seq(V) /\ f[k + 1] = f[k] \o ss[k + 1]
  BY <1>1, JoinStep
<1> DEFINE B == {k \in Nat : k <= n => f[k] = IF 1 <= j /\ j <= k THEN ss[j] ELSE <<>>}
<1> HIDE DEF n
<1>3. 0 \in B
  BY <1>2
<1>4. ASSUME NEW k \in Nat, k \in B PROVE k + 1 \in B
  <2> SUFFICES ASSUME k + 1 <= n
               PROVE  f[k + 1] = IF 1 <= j /\ j <= k + 1 THEN ss[j] ELSE <<>>
    OBVIOUS
  <2>1. f[k] = IF 1 <= j /\ j <= k THEN ss[j] ELSE <<>>
    BY <1>2, <1>4
  <2>0. k <= n
    BY <1>2
  <2>2. ss[k + 1] \in Seq(V) /\ f[k + 1] = f[k] \o ss[k + 1] /\ f[k] \in Seq(V)
    BY <1>2, <2>0
  <2>3. CASE k + 1 = j
    <3>1. f[k] = <<>>
      BY <2>1, <2>3
    <3>2. f[k + 1] = ss[k + 1]
      BY <2>2, <3>1, ConcatEmptySeq
    <3> QED
      BY <2>3, <3>2
  <2>4. CASE k + 1 # j
    <3>1. ss[k + 1] = <<>>
      BY <1>2, <2>4 DEF n
    <3>2. f[k + 1] = f[k]
      BY <2>2, <3>1, ConcatEmptySeq
    <3> QED
      BY <2>1, <2>4, <3>2
  <2> QED
    BY <2>3, <2>4
<1> HIDE DEF B
<1>5. n \in B
  BY <1>2, <1>3, <1>4, NumberInduction
<1>6. f[n] = IF 1 <= j /\ j <= n THEN ss[j] ELSE <<>>
  BY <1>2, <1>5 DEF B
<1> QED
  BY <1>2, <1>6 DEF n

LEMMA FlattenAppend ==
  ASSUME NEW V, NEW ss \in Seq(Seq(V)), NEW x \in Seq(V)
  PROVE  FlattenSeq(Append(ss, x)) = FlattenSeq(ss) \o x
<1> DEFINE tt == Append(ss, x)
           n == Len(ss)
<1>1. /\ tt \in Seq(Seq(V)) /\ n \in Nat /\ Len(tt) = n + 1
      /\ \A i \in 1 .. n : tt[i] = ss[i]
      /\ tt[n + 1] = x
  BY AppendProperties, LenProperties
<1>2. PICK f : Joins(f, ss, V)
  BY Flattening
<1> HIDE DEF tt
<1>3. PICK g : Joins(g, tt, V)
  BY <1>1, Flattening
<1>4. /\ f[0] = <<>> /\ FlattenSeq(ss) = f[n]
      /\ \A k \in Nat : k + 1 <= n => f[k + 1] = f[k] \o ss[k + 1]
  BY <1>2, JoinStep
<1>5. /\ g[0] = <<>> /\ FlattenSeq(tt) = g[n + 1]
      /\ \A k \in Nat : k + 1 <= n + 1 => g[k + 1] = g[k] \o tt[k + 1]
  BY <1>1, <1>3, JoinStep
<1> HIDE DEF n
<1> DEFINE B == {k \in Nat : k <= n => g[k] = f[k]}
<1>6. 0 \in B
  BY <1>4, <1>5
<1>7. ASSUME NEW k \in Nat, k \in B PROVE k + 1 \in B
  <2> SUFFICES ASSUME k + 1 <= n PROVE g[k + 1] = f[k + 1]
    OBVIOUS
  <2>1. g[k] = f[k] /\ k + 1 <= n + 1 /\ k + 1 \in 1 .. n
    BY <1>1, <1>7
  <2> QED
    BY <1>1, <1>4, <1>5, <2>1
<1> HIDE DEF B
<1>8. n \in B
  BY <1>1, <1>6, <1>7, NumberInduction
<1>9. g[n] = f[n]
  BY <1>1, <1>8 DEF B
<1>10. g[n + 1] = g[n] \o tt[n + 1]
  <2>1. n + 1 <= n + 1
    BY <1>1
  <2> QED
    BY <1>1, <1>5, <2>1
<1> QED
  BY <1>1, <1>4, <1>5, <1>9, <1>10 DEF tt

(* An order of a finite set is a sequence that has each element once.      *)
LEMMA OrderOnce ==
  ASSUME NEW S, IsFiniteSet(S), NEW o \in Orders(S)
  PROVE  /\ o \in Seq(S) /\ Len(o) = Cardinality(S) /\ Len(o) \in Nat
         /\ DOMAIN o = 1 .. Len(o)
         /\ \A x \in S : \E i \in 1 .. Len(o) : o[i] = x
         /\ \A i, j \in 1 .. Len(o) : o[i] = o[j] => i = j
<1> DEFINE n == Cardinality(S)
<1>1. n \in Nat
  BY FS_CardinalityType
<1>2. o \in [1 .. n -> S] /\ Range(o) = S
  BY DEF Orders
<1> HIDE DEF n
<1>3. o \in Seq(S) /\ Len(o) = n /\ DOMAIN o = 1 .. n
  <2>1. o \in Seq(S)
    BY <1>1, <1>2, SeqDef
  <2> QED
    BY <1>1, <1>2, <2>1, LenProperties
<1>4. \A x \in S : \E i \in 1 .. n : o[i] = x
  BY <1>2 DEF Range
<1>5. IsFiniteSet(1 .. n) /\ Cardinality(1 .. n) = n
  BY <1>1, FS_Interval
<1>6. o \in Surjection(1 .. n, S)
  BY <1>2, <1>4, Fun_IsSurj
<1>7. o \in Injection(1 .. n, S)
  BY <1>5, <1>6, FS_SurjSameCardinalityImpliesInj DEF n
<1>8. \A i, j \in 1 .. n : o[i] = o[j] => i = j
  BY <1>2, <1>7 DEF Injection, IsInjective
<1> QED
  BY <1>1, <1>3, <1>4, <1>8 DEF n

LEMMA OrderExists ==
  ASSUME NEW S, IsFiniteSet(S)
  PROVE  \E o : o \in Orders(S)
<1>1. Cardinality(S) \in Nat /\ ExistsBijection(1 .. Cardinality(S), S)
  BY FS_CardinalityType
<1>2. PICK o : o \in Bijection(1 .. Cardinality(S), S)
  BY <1>1 DEF ExistsBijection
<1>3. o \in [1 .. Cardinality(S) -> S] /\ Range(o) = S
  BY <1>2 DEF Bijection, Injection, Surjection, Range
<1> QED
  BY <1>3 DEF Orders

-----------------------------------------------------------------------------
HeaderMap(h) ==
  /\ IsFiniteSet(DOMAIN h) /\ DOMAIN h \subseteq Spelling
  /\ \A s \in DOMAIN h : h[s] \in Seq(STRING)

Spelled(h, o, n) ==
  [i \in DOMAIN o |-> IF NameOf(o[i]) = n THEN h[o[i]] ELSE <<>>]

LEMMA SpelledType ==
  ASSUME NEW h, HeaderMap(h), NEW o \in Orders(DOMAIN h), NEW n
  PROVE  /\ Spelled(h, o, n) \in Seq(Seq(STRING))
         /\ Len(Spelled(h, o, n)) = Len(o)
         /\ Values(h, o, n) = FlattenSeq(Spelled(h, o, n))
<1>1. /\ Len(o) \in Nat /\ DOMAIN o = 1 .. Len(o)
      /\ \A i \in 1 .. Len(o) : o[i] \in DOMAIN h
  BY OrderOnce, ElementOfSeq DEF HeaderMap
<1> DEFINE ss == Spelled(h, o, n)
           m == Len(o)
<1>2. <<>> \in Seq(STRING)
  BY EmptySeq
<1>3. ss \in [1 .. m -> Seq(STRING)]
  BY <1>1, <1>2 DEF Spelled, HeaderMap
<1> HIDE DEF ss, m
<1>4. ss \in Seq(Seq(STRING)) /\ Len(ss) = m
  <2>1. ss \in Seq(Seq(STRING))
    BY <1>1, <1>3, SeqDef DEF m
  <2> QED
    BY <1>1, <1>3, <2>1, LenProperties DEF m
<1> QED
  BY <1>4 DEF ss, m, Values, Spelled

(* The values of a name are those of its only spelling.                    *)
LEMMA OneSpelling ==
  ASSUME NEW h, HeaderMap(h), NEW o \in Orders(DOMAIN h), NEW s \in DOMAIN h,
         \A t \in DOMAIN h : Canonical[t] = Canonical[s] => t = s
  PROVE  Values(h, o, Canonical[s]) = h[s]
<1> DEFINE n == Canonical[s]
           ss == Spelled(h, o, n)
<1>1. PICK j \in 1 .. Len(o) : o[j] = s
  BY OrderOnce DEF HeaderMap
<1>2. /\ Len(o) \in Nat /\ DOMAIN o = 1 .. Len(o)
      /\ \A i \in 1 .. Len(o) : o[i] \in DOMAIN h /\ (o[i] = s => i = j)
  <2>1. /\ Len(o) \in Nat /\ DOMAIN o = 1 .. Len(o)
        /\ \A i \in 1 .. Len(o) : o[i] = o[j] => i = j
    BY <1>1, OrderOnce DEF HeaderMap
  <2>2. \A i \in 1 .. Len(o) : o[i] \in DOMAIN h
    BY OrderOnce, ElementOfSeq DEF HeaderMap
  <2> QED
    BY <1>1, <2>1, <2>2
<1>3. ss[j] = h[s]
  BY <1>1, <1>2 DEF Spelled, NameOf
<1>4. \A i \in 1 .. Len(o) : i # j => ss[i] = <<>>
  BY <1>2 DEF Spelled, NameOf
<1>5. ss \in Seq(Seq(STRING)) /\ Len(ss) = Len(o) /\ Values(h, o, n) = FlattenSeq(ss)
  BY SpelledType
<1> HIDE DEF ss
<1>6. FlattenSeq(ss) = ss[j]
  BY <1>1, <1>2, <1>4, <1>5, FlattenOne
<1> QED
  BY <1>3, <1>5, <1>6

LEMMA SubmittedHeaders ==
  ASSUME NEW s \in Submission
  PROVE  HeaderMap(s.headers)
BY RequestAssumption DEF HeaderMap

(* Headers that are not given twice are stored as they are, under their    *)
(* canonical names.                                                        *)
LEMMA StoredHeaders ==
  ASSUME NEW s \in Submission, Unambiguous(s), NEW o \in Orders(DOMAIN s.headers)
  PROVE  LET h == Normalized(s.headers, o)
         IN  /\ h = [n \in DOMAIN h |-> h[n]]
             /\ \A n \in DOMAIN h : \E t \in DOMAIN s.headers :
                  Canonical[t] = n /\ h[n] = s.headers[t] /\ s.headers[t] # <<>>
             /\ Content(s).headers = {<<n, h[n]>> : n \in DOMAIN h}
<1> DEFINE g == s.headers
           h == Normalized(g, o)
<1>1. HeaderMap(g)
  BY SubmittedHeaders
<1>2. /\ h = [n \in DOMAIN h |-> h[n]]
      /\ DOMAIN h = {Canonical[t] : t \in {u \in DOMAIN g : g[u] # <<>>}}
      /\ \A n \in DOMAIN h : h[n] = Values(g, o, n)
  BY DEF Normalized, NameOf
<1>3. \A t \in DOMAIN g : Values(g, o, Canonical[t]) = g[t]
  BY <1>1, OneSpelling DEF Unambiguous
<1>4. Content(s).headers =
        {<<Canonical[t], g[t]>> : t \in {u \in DOMAIN g : g[u] # <<>>}}
  BY DEF Content
<1> HIDE DEF h, g
<1>5. \A n \in DOMAIN h : \E t \in DOMAIN g : Canonical[t] = n /\ h[n] = g[t] /\ g[t] # <<>>
  BY <1>2, <1>3
<1>6. \A t \in DOMAIN g : g[t] # <<>> => Canonical[t] \in DOMAIN h /\ h[Canonical[t]] = g[t]
  BY <1>2, <1>3
<1>7. Content(s).headers = {<<n, h[n]>> : n \in DOMAIN h}
  <2>1. ASSUME NEW p \in Content(s).headers PROVE p \in {<<n, h[n]>> : n \in DOMAIN h}
    BY <1>4, <1>6
  <2>2. ASSUME NEW n \in DOMAIN h PROVE <<n, h[n]>> \in Content(s).headers
    BY <1>4, <1>5
  <2> QED
    BY <2>1, <2>2
<1> QED
  BY <1>2, <1>5, <1>7 DEF h, g

(* Requests with the same content are stored alike.                        *)
LEMMA SameContent ==
  ASSUME NEW s \in Submission, Unambiguous(s), NEW o \in Orders(DOMAIN s.headers),
         NEW t \in Submission, Unambiguous(t), NEW p \in Orders(DOMAIN t.headers)
  PROVE  Content(s) = Content(t) <=> Validated(s, o) = Validated(t, p)
<1> DEFINE g == Normalized(s.headers, o)
           h == Normalized(t.headers, p)
<1>1. /\ g = [n \in DOMAIN g |-> g[n]] /\ h = [n \in DOMAIN h |-> h[n]]
      /\ Content(s).headers = {<<n, g[n]>> : n \in DOMAIN g}
      /\ Content(t).headers = {<<n, h[n]>> : n \in DOMAIN h}
  BY StoredHeaders
<1>2. /\ Content(s) = [target_id |-> s.target_id, url |-> s.url, method |-> Upper[s.method],
                       body |-> s.body, headers |-> Content(s).headers]
      /\ Content(t) = [target_id |-> t.target_id, url |-> t.url, method |-> Upper[t.method],
                       body |-> t.body, headers |-> Content(t).headers]
  BY DEF Content
<1>3. /\ Validated(s, o) = [target_id |-> s.target_id, url |-> s.url,
                            method |-> Upper[s.method], headers |-> g, body |-> s.body]
      /\ Validated(t, p) = [target_id |-> t.target_id, url |-> t.url,
                            method |-> Upper[t.method], headers |-> h, body |-> t.body]
  BY DEF Validated
<1> HIDE DEF g, h
<1>4. g = h <=> Content(s).headers = Content(t).headers
  <2>1. ASSUME Content(s).headers = Content(t).headers PROVE g = h
    <3>1. ASSUME NEW n \in DOMAIN g PROVE n \in DOMAIN h /\ h[n] = g[n]
      <4>1. <<n, g[n]>> \in {<<k, h[k]>> : k \in DOMAIN h}
        BY <1>1, <2>1
      <4>2. PICK k \in DOMAIN h : <<n, g[n]>> = <<k, h[k]>>
        BY <4>1
      <4> QED
        BY <4>2
    <3>2. ASSUME NEW n \in DOMAIN h PROVE n \in DOMAIN g
      <4>1. <<n, h[n]>> \in {<<k, g[k]>> : k \in DOMAIN g}
        BY <1>1, <2>1
      <4>2. PICK k \in DOMAIN g : <<n, h[n]>> = <<k, g[k]>>
        BY <4>1
      <4> QED
        BY <4>2
    <3>3. DOMAIN g = DOMAIN h
      BY <3>1, <3>2
    <3> QED
      BY <1>1, <3>1, <3>3
  <2> QED
    BY <1>1, <2>1
<1> QED
  BY <1>2, <1>3, <1>4

-----------------------------------------------------------------------------
(* Sequences with the same concatenation are the same, if either is as long*)
(* as the other.                                                           *)
LEMMA EqualParts ==
  ASSUME NEW V, NEW s \in Seq(V), NEW t \in Seq(V), NEW x \in Seq(V), NEW y \in Seq(V),
         s \o x = t \o y, Len(s) = Len(t) \/ Len(x) = Len(y)
  PROVE  s = t /\ x = y
<1>1. /\ Len(s) \in Nat /\ Len(t) \in Nat /\ Len(x) \in Nat /\ Len(y) \in Nat
      /\ Len(s \o x) = Len(s) + Len(x) /\ Len(t \o y) = Len(t) + Len(y)
  BY ConcatProperties, LenProperties
<1>2. Len(s) = Len(t) /\ Len(x) = Len(y)
  BY <1>1
<1>3. /\ \A i \in 1 .. Len(s) + Len(x) :
           (s \o x)[i] = IF i <= Len(s) THEN s[i] ELSE x[i - Len(s)]
      /\ \A i \in 1 .. Len(t) + Len(y) :
           (t \o y)[i] = IF i <= Len(t) THEN t[i] ELSE y[i - Len(t)]
  BY ConcatProperties
<1> DEFINE n == Len(s)
           m == Len(x)
           z == s \o x
<1>4. /\ n \in Nat /\ m \in Nat /\ n = Len(t) /\ m = Len(y)
      /\ \A i \in 1 .. n + m : z[i] = IF i <= n THEN s[i] ELSE x[i - n]
      /\ \A i \in 1 .. n + m : z[i] = IF i <= n THEN t[i] ELSE y[i - n]
  BY <1>1, <1>2, <1>3
<1> HIDE DEF n, m, z
<1>5. \A i \in 1 .. n : s[i] = t[i]
  BY <1>4
<1>6. ASSUME NEW i \in 1 .. m PROVE x[i] = y[i]
  <2> DEFINE j == i + n
  <2>1. j \in 1 .. n + m /\ ~(j <= n) /\ j - n = i
    BY <1>4
  <2> HIDE DEF j
  <2> QED
    BY <1>4, <2>1
<1> QED
  BY <1>4, <1>5, <1>6, SeqEqual DEF n, m

(* A header with its name: two parts.                                      *)
Listed(h) ==
  [i \in DOMAIN NameOrder |->
     IF NameOrder[i] \in DOMAIN h THEN <<NameOrder[i]>> \o h[NameOrder[i]] ELSE <<>>]

Part == Spelling \cup STRING

SingleValues(h) ==
  /\ h = [n \in DOMAIN h |-> h[n]] /\ DOMAIN h \subseteq Range(NameOrder)
  /\ \A n \in DOMAIN h : h[n] \in Seq(STRING) /\ Len(h[n]) = 1

LEMMA ListedType ==
  ASSUME NEW h, SingleValues(h)
  PROVE  /\ Listed(h) \in Seq(Seq(Part)) /\ Len(Listed(h)) = Len(NameOrder)
         /\ Parts(h) = FlattenSeq(Listed(h))
         /\ \A i \in 1 .. Len(NameOrder) :
              /\ NameOrder[i] \notin DOMAIN h => Listed(h)[i] = <<>>
              /\ NameOrder[i] \in DOMAIN h =>
                   /\ Listed(h)[i] = <<NameOrder[i]>> \o h[NameOrder[i]]
                   /\ Listed(h)[i] \in Seq(Part) /\ Len(Listed(h)[i]) = 2
                   /\ Listed(h)[i][1] = NameOrder[i]
<1> DEFINE n == Len(NameOrder)
           ss == Listed(h)
<1>1. /\ n \in Nat /\ DOMAIN NameOrder = 1 .. n
      /\ \A i \in 1 .. n : NameOrder[i] \in Spelling
  BY DigestAssumption, LenProperties, ElementOfSeq
<1>2. ASSUME NEW i \in 1 .. n, NameOrder[i] \in DOMAIN h
      PROVE  /\ ss[i] = <<NameOrder[i]>> \o h[NameOrder[i]]
             /\ ss[i] \in Seq(Part) /\ Len(ss[i]) = 2 /\ ss[i][1] = NameOrder[i]
  <2> DEFINE a == <<NameOrder[i]>>
             b == h[NameOrder[i]]
  <2>1. ss[i] = a \o b
    BY <1>1, <1>2 DEF Listed
  <2>2. a \in Seq(Part) /\ Len(a) = 1 /\ a[1] = NameOrder[i]
    BY <1>1 DEF Part
  <2>3. b \in Seq(Part) /\ Len(b) = 1
    BY <1>2, SeqMonotonic DEF SingleValues, Part
  <2> HIDE DEF a, b
  <2>4. a \o b \in Seq(Part) /\ Len(a \o b) = 2 /\ (a \o b)[1] = a[1]
    BY <2>2, <2>3, ConcatProperties
  <2> QED
    BY <2>1, <2>2, <2>4 DEF a, b
<1>3. \A i \in 1 .. n : NameOrder[i] \notin DOMAIN h => ss[i] = <<>>
  BY <1>1 DEF Listed
<1>4. ss = [i \in 1 .. n |-> ss[i]]
  BY <1>1 DEF Listed
<1>5. <<>> \in Seq(Part)
  BY EmptySeq
<1> HIDE DEF n, ss
<1>6. ss \in [1 .. n -> Seq(Part)]
  BY <1>2, <1>3, <1>4, <1>5
<1>7. ss \in Seq(Seq(Part)) /\ Len(ss) = n
  <2>1. ss \in Seq(Seq(Part))
    BY <1>1, <1>6, SeqDef
  <2> QED
    BY <1>1, <1>6, <2>1, LenProperties
<1>8. Parts(h) = FlattenSeq(ss)
  BY DEF Parts, ss, Listed
<1> QED
  BY <1>2, <1>3, <1>7, <1>8 DEF n, ss

(* Every other part is a name, of those that were listed so far.           *)
NamesFirst(a, k) ==
  /\ \E m \in Nat : Len(a) = 2 * m
  /\ \A m \in Nat : 2 * m + 1 <= Len(a) => \E j \in 1 .. k : a[2 * m + 1] = NameOrder[j]

LEMMA PartsAlternate ==
  ASSUME NEW h, SingleValues(h), NEW f, Joins(f, Listed(h), Part)
  PROVE  \A k \in Nat : k <= Len(NameOrder) => f[k] \in Seq(Part) /\ NamesFirst(f[k], k)
<1> DEFINE n == Len(NameOrder)
           ss == Listed(h)
           B == {k \in Nat : k <= n => NamesFirst(f[k], k)}
<1>1. ss \in Seq(Seq(Part)) /\ Len(ss) = n /\ n \in Nat
  BY ListedType, DigestAssumption, LenProperties
<1>2. \A i \in 1 .. n :
        \/ ss[i] = <<>>
        \/ ss[i] \in Seq(Part) /\ Len(ss[i]) = 2 /\ ss[i][1] = NameOrder[i]
  BY ListedType
<1> HIDE DEF n, ss
<1>3. /\ f[0] = <<>>
      /\ \A k \in Nat : k <= n => f[k] \in Seq(Part)
      /\ \A k \in Nat : k + 1 <= n => f[k + 1] = f[k] \o ss[k + 1]
  <2>1. Joins(f, ss, Part)
    BY DEF ss
  <2> QED
    BY <1>1, <2>1, JoinStep
<1>4. 0 \in B
  <2>1. Len(f[0]) = 2 * 0
    BY <1>3, EmptySeq
  <2>2. NamesFirst(f[0], 0)
    BY <2>1 DEF NamesFirst
  <2> QED
    BY <2>2
<1>5. ASSUME NEW k \in Nat, k \in B PROVE k + 1 \in B
  <2> SUFFICES ASSUME k + 1 <= n PROVE NamesFirst(f[k + 1], k + 1)
    OBVIOUS
  <2> DEFINE a == f[k]
             c == ss[k + 1]
             b == f[k + 1]
  <2>1. k <= n /\ k + 1 \in 1 .. n
    BY <1>1
  <2>2. NamesFirst(a, k) /\ a \in Seq(Part) /\ b = a \o c
    BY <1>3, <1>5, <2>1
  <2>3. \/ c = <<>>
        \/ c \in Seq(Part) /\ Len(c) = 2 /\ c[1] = NameOrder[k + 1]
    BY <1>2, <2>1
  <2> HIDE DEF a, b, c
  <2>4. CASE c = <<>>
    <3>1. b = a
      BY <2>2, <2>4, ConcatEmptySeq
    <3> QED
      BY <2>2, <3>1 DEF NamesFirst, b
  <2>5. CASE c \in Seq(Part) /\ Len(c) = 2 /\ c[1] = NameOrder[k + 1]
    <3>1. PICK p \in Nat : Len(a) = 2 * p
      BY <2>2 DEF NamesFirst
    <3>2. Len(b) = 2 * (p + 1)
      <4>1. Len(b) = Len(a) + Len(c)
        BY <2>2, <2>5, ConcatProperties
      <4> QED
        BY <2>5, <3>1, <4>1
    <3>3. ASSUME NEW m \in Nat, 2 * m + 1 <= Len(b)
          PROVE  \E j \in 1 .. k + 1 : b[2 * m + 1] = NameOrder[j]
      <4>1. m < p \/ m = p
        BY <3>2, <3>3
      <4>2. \A i \in 1 .. Len(a) + Len(c) :
              b[i] = IF i <= Len(a) THEN a[i] ELSE c[i - Len(a)]
        BY <2>2, <2>5, ConcatProperties
      <4>3. CASE m < p
        <5>1. 2 * m + 1 \in 1 .. Len(a) + Len(c) /\ 2 * m + 1 <= Len(a)
          BY <2>5, <3>1, <4>3
        <5>2. b[2 * m + 1] = a[2 * m + 1]
          BY <4>2, <5>1
        <5> QED
          BY <2>2, <5>1, <5>2 DEF NamesFirst
      <4>4. CASE m = p
        <5> DEFINE i == 2 * m + 1
        <5>1. i \in 1 .. Len(a) + Len(c) /\ ~(i <= Len(a)) /\ i - Len(a) = 1
          BY <2>5, <3>1, <4>4
        <5> HIDE DEF i
        <5>2. b[i] = c[1]
          BY <4>2, <5>1
        <5> QED
          BY <2>5, <5>2 DEF i
      <4> QED
        BY <4>1, <4>3, <4>4
    <3> QED
      BY <3>2, <3>3 DEF NamesFirst, b
  <2> QED
    BY <2>3, <2>4, <2>5
<1> HIDE DEF B
<1>6. Nat \subseteq B
  BY <1>4, <1>5, NumberInduction
<1> QED
  BY <1>3, <1>6 DEF B, n

LEMMA TwoMore ==
  ASSUME NEW V, NEW a \in Seq(V), NEW c \in Seq(V), Len(c) = 2
  PROVE  /\ Len(a \o c) = Len(a) + 2 /\ Len(a) \in Nat
         /\ (a \o c)[Len(a) + 1] = c[1]
<1>1. /\ Len(a \o c) = Len(a) + Len(c) /\ Len(a) \in Nat
      /\ \A i \in 1 .. Len(a) + Len(c) :
           (a \o c)[i] = IF i <= Len(a) THEN a[i] ELSE c[i - Len(a)]
  BY ConcatProperties, LenProperties
<1> DEFINE i == Len(a) + 1
<1>2. i \in 1 .. Len(a) + Len(c) /\ ~(i <= Len(a)) /\ i - Len(a) = 1
  BY <1>1
<1> HIDE DEF i
<1>3. (a \o c)[i] = c[1]
  BY <1>1, <1>2
<1> QED
  BY <1>1, <1>3 DEF i

LEMMA NotLonger ==
  ASSUME NEW a \in Seq(Part), NEW c \in Seq(Part), Len(c) = 2,
         NEW k \in Nat, k + 1 <= Len(NameOrder), c[1] = NameOrder[k + 1],
         NamesFirst(a, k), NamesFirst(a \o c, k)
  PROVE  FALSE
<1> DEFINE b == a \o c
<1>1. Len(b) = Len(a) + 2 /\ Len(a) \in Nat /\ b[Len(a) + 1] = NameOrder[k + 1]
  BY TwoMore
<1>2. NamesFirst(b, k)
  OBVIOUS
<1> HIDE DEF b
<1>3. PICK p \in Nat : Len(a) = 2 * p
  BY DEF NamesFirst
<1>4. 2 * p + 1 <= Len(b)
  BY <1>1, <1>3
<1>5. PICK j \in 1 .. k : b[2 * p + 1] = NameOrder[j]
  BY <1>2, <1>4 DEF NamesFirst
<1>6. NameOrder[j] = NameOrder[k + 1]
  BY <1>1, <1>3, <1>5
<1>7. DOMAIN NameOrder = 1 .. Len(NameOrder) /\ Len(NameOrder) \in Nat
  BY DigestAssumption, LenProperties
<1>8. j \in DOMAIN NameOrder /\ k + 1 \in DOMAIN NameOrder /\ j # k + 1
  BY <1>7
<1> QED
  BY <1>6, <1>8, DigestAssumption

(* f has the parts of the first names, in their order.                     *)
Lists(f, h) ==
  /\ Parts(h) = f[Len(NameOrder)]
  /\ \A k \in Nat : k <= Len(NameOrder) => f[k] \in Seq(Part) /\ NamesFirst(f[k], k)
  /\ \A k \in Nat : k + 1 <= Len(NameOrder) => f[k + 1] = f[k] \o Listed(h)[k + 1]

LEMMA PartsListed ==
  ASSUME NEW h, SingleValues(h)
  PROVE  \E f : Lists(f, h)
<1> DEFINE ss == Listed(h)
<1>1. ss \in Seq(Seq(Part)) /\ Len(ss) = Len(NameOrder) /\ Parts(h) = FlattenSeq(ss)
  BY ListedType
<1>2. PICK f : Joins(f, ss, Part)
  BY <1>1, Flattening
<1>3. \A k \in Nat : k <= Len(NameOrder) => f[k] \in Seq(Part) /\ NamesFirst(f[k], k)
  BY <1>2, PartsAlternate
<1> HIDE DEF ss
<1>4. /\ FlattenSeq(ss) = f[Len(ss)]
      /\ \A k \in Nat : k + 1 <= Len(ss) => f[k + 1] = f[k] \o ss[k + 1]
  BY <1>1, <1>2, JoinStep
<1> QED
  BY <1>1, <1>3, <1>4 DEF Lists, ss

(* Headers of one value each are told apart by their parts.                *)
LEMMA PartsTell ==
  ASSUME NEW g, SingleValues(g), NEW h, SingleValues(h), Parts(g) = Parts(h)
  PROVE  g = h
<1> DEFINE n == Len(NameOrder)
           gs == Listed(g)
           hs == Listed(h)
           Same(k) ==
             /\ NameOrder[k] \in DOMAIN g <=> NameOrder[k] \in DOMAIN h
             /\ NameOrder[k] \in DOMAIN g => g[NameOrder[k]] = h[NameOrder[k]]
<1>1. n \in Nat /\ DOMAIN NameOrder = 1 .. n
  BY DigestAssumption, LenProperties
<1>2. ASSUME NEW i \in 1 .. n
      PROVE  /\ NameOrder[i] \notin DOMAIN g => gs[i] = <<>>
             /\ NameOrder[i] \in DOMAIN g =>
                  /\ gs[i] = <<NameOrder[i]>> \o g[NameOrder[i]]
                  /\ gs[i] \in Seq(Part) /\ Len(gs[i]) = 2 /\ gs[i][1] = NameOrder[i]
             /\ NameOrder[i] \notin DOMAIN h => hs[i] = <<>>
             /\ NameOrder[i] \in DOMAIN h =>
                  /\ hs[i] = <<NameOrder[i]>> \o h[NameOrder[i]]
                  /\ hs[i] \in Seq(Part) /\ Len(hs[i]) = 2 /\ hs[i][1] = NameOrder[i]
  BY ListedType
<1>3. PICK a : Lists(a, g)
  BY PartsListed
<1>4. PICK b : Lists(b, h)
  BY PartsListed
<1>5. /\ \A k \in Nat : k <= n => a[k] \in Seq(Part) /\ NamesFirst(a[k], k)
      /\ \A k \in Nat : k <= n => b[k] \in Seq(Part) /\ NamesFirst(b[k], k)
  BY <1>3, <1>4 DEF Lists
<1>6. /\ a[n] = b[n]
      /\ \A k \in Nat : k + 1 <= n => a[k + 1] = a[k] \o gs[k + 1]
      /\ \A k \in Nat : k + 1 <= n => b[k + 1] = b[k] \o hs[k + 1]
  BY <1>3, <1>4 DEF Lists
<1> HIDE DEF gs, hs, n
<1>7. ASSUME NEW k \in Nat, k + 1 <= n, a[k + 1] = b[k + 1]
      PROVE  a[k] = b[k] /\ Same(k + 1)
  <2> DEFINE x == NameOrder[k + 1]
             c == gs[k + 1]
             d == hs[k + 1]
  <2>1. k <= n /\ k + 1 \in 1 .. n
    BY <1>1, <1>7
  <2>2. /\ x \notin DOMAIN g => c = <<>>
        /\ x \in DOMAIN g => /\ c = <<x>> \o g[x]
                             /\ c \in Seq(Part) /\ Len(c) = 2 /\ c[1] = x
        /\ x \notin DOMAIN h => d = <<>>
        /\ x \in DOMAIN h => /\ d = <<x>> \o h[x]
                             /\ d \in Seq(Part) /\ Len(d) = 2 /\ d[1] = x
    BY <1>2, <2>1
  <2>3. /\ a[k] \in Seq(Part) /\ NamesFirst(a[k], k)
        /\ b[k] \in Seq(Part) /\ NamesFirst(b[k], k)
        /\ a[k] \o c = b[k] \o d
    BY <1>5, <1>6, <1>7, <2>1
  <2> HIDE DEF c, d
  <2>4. CASE x \notin DOMAIN g /\ x \notin DOMAIN h
    <3>1. a[k] \o c = a[k] /\ b[k] \o d = b[k]
      BY <2>2, <2>3, <2>4, ConcatEmptySeq
    <3> QED
      BY <2>3, <2>4, <3>1
  <2>5. CASE x \in DOMAIN g /\ x \in DOMAIN h
    <3>1. a[k] = b[k] /\ c = d
      <4> DEFINE u == a[k]
                 v == b[k]
      <4>1. /\ u \in Seq(Part) /\ v \in Seq(Part) /\ u \o c = v \o d
            /\ c \in Seq(Part) /\ d \in Seq(Part) /\ Len(c) = Len(d)
        BY <2>2, <2>3, <2>5
      <4> HIDE DEF x, u, v
      <4>2. u = v /\ c = d
        BY <4>1, EqualParts
      <4> QED
        BY <4>2 DEF u, v
    <3>2. g[x] \in Seq(STRING) /\ h[x] \in Seq(STRING)
      BY <2>5 DEF SingleValues
    <3>3. <<x>> \o g[x] = <<x>> \o h[x]
      BY <2>2, <2>5, <3>1
    <3>4. /\ <<x>> \in Seq(Part) /\ g[x] \in Seq(Part) /\ h[x] \in Seq(Part)
          /\ Len(g[x]) = Len(h[x])
      <4>1. <<x>> \in Seq(Part)
        <5>1. x \in Spelling
          BY <1>1, <2>1, DigestAssumption, ElementOfSeq DEF n
        <5> QED
          BY <5>1 DEF Part
      <4> QED
        BY <2>5, <3>2, <4>1, SeqMonotonic DEF SingleValues, Part
    <3> HIDE DEF x
    <3>5. g[x] = h[x]
      BY <3>3, <3>4, EqualParts
    <3> QED
      BY <2>5, <3>1, <3>5 DEF x
  <2>6. CASE x \in DOMAIN g /\ x \notin DOMAIN h
    <3>1. a[k] \o c = b[k]
      BY <2>2, <2>3, <2>6, ConcatEmptySeq
    <3>2. NamesFirst(a[k] \o c, k)
      BY <2>3, <3>1
    <3> QED
      BY <1>7, <2>2, <2>3, <2>6, <3>2, NotLonger DEF n
  <2>7. CASE x \notin DOMAIN g /\ x \in DOMAIN h
    <3>1. b[k] \o d = a[k]
      BY <2>2, <2>3, <2>7, ConcatEmptySeq
    <3>2. NamesFirst(b[k] \o d, k)
      BY <2>3, <3>1
    <3> QED
      BY <1>7, <2>2, <2>3, <2>7, <3>2, NotLonger DEF n
  <2> QED
    BY <2>4, <2>5, <2>6, <2>7
<1> DEFINE B == {k \in Nat : k <= n => a[n - k] = b[n - k]}
<1>8. \A k \in Nat : k <= n => a[k] = b[k]
  <2>1. 0 \in B
    <3>1. n - 0 = n
      BY <1>1
    <3>2. a[n] = b[n]
      BY <1>6
    <3> QED
      BY <3>1, <3>2
  <2>2. ASSUME NEW k \in Nat, k \in B PROVE k + 1 \in B
    <3> SUFFICES ASSUME k + 1 <= n PROVE a[n - (k + 1)] = b[n - (k + 1)]
      OBVIOUS
    <3> DEFINE j == n - (k + 1)
    <3>1. j \in Nat /\ j + 1 = n - k /\ j + 1 <= n
      BY <1>1
    <3>2. a[n - k] = b[n - k]
      BY <1>1, <2>2
    <3> HIDE DEF j
    <3>3. a[j] = b[j]
      BY <1>7, <3>1, <3>2
    <3> QED
      BY <3>3 DEF j
  <2> HIDE DEF B
  <2>3. Nat \subseteq B
    BY <2>1, <2>2, NumberInduction
  <2>4. ASSUME NEW k \in Nat, k <= n PROVE a[k] = b[k]
    <3> DEFINE j == n - k
    <3>1. j \in Nat /\ j <= n /\ n - j = k
      BY <1>1, <2>4
    <3> HIDE DEF j
    <3>2. a[n - j] = b[n - j]
      BY <2>3, <3>1 DEF B
    <3> QED
      BY <3>1, <3>2
  <2> QED
    BY <2>4
<1>9. ASSUME NEW i \in 1 .. n PROVE Same(i)
  <2> DEFINE k == i - 1
  <2>1. k \in Nat /\ k + 1 <= n /\ k + 1 = i
    BY <1>1
  <2> HIDE DEF k
  <2>2. a[k + 1] = b[k + 1]
    BY <1>8, <2>1
  <2>3. Same(k + 1)
    BY <1>7, <2>1, <2>2
  <2> QED
    BY <2>1, <2>3
<1>10. \A x \in DOMAIN g \cup DOMAIN h : \E i \in 1 .. n : NameOrder[i] = x
  BY <1>1 DEF SingleValues, Range
<1>11. /\ DOMAIN g = DOMAIN h
       /\ \A x \in DOMAIN g : g[x] = h[x]
  BY <1>9, <1>10
<1> QED
  BY <1>11 DEF SingleValues

LEMMA StoredSingle ==
  ASSUME NEW s \in Submission, Unambiguous(s), SingleValued(s),
         NEW o \in Orders(DOMAIN s.headers)
  PROVE  SingleValues(Normalized(s.headers, o))
<1> DEFINE h == Normalized(s.headers, o)
<1>1. /\ h = [n \in DOMAIN h |-> h[n]]
      /\ \A n \in DOMAIN h : \E t \in DOMAIN s.headers :
           Canonical[t] = n /\ h[n] = s.headers[t] /\ s.headers[t] # <<>>
  BY StoredHeaders
<1> HIDE DEF h
<1>2. ASSUME NEW n \in DOMAIN h
      PROVE  n \in Range(NameOrder) /\ h[n] \in Seq(STRING) /\ Len(h[n]) = 1
  <2>1. PICK t \in DOMAIN s.headers :
          Canonical[t] = n /\ h[n] = s.headers[t] /\ s.headers[t] # <<>>
    BY <1>1
  <2>2. t \in Spelling /\ s.headers[t] \in Seq(STRING)
    BY SubmittedHeaders DEF HeaderMap
  <2>3. n \in Range(NameOrder)
    BY <2>1, <2>2, DigestAssumption DEF Range
  <2>4. Len(s.headers[t]) = 1
    <3> DEFINE m == Len(s.headers[t])
    <3>1. m \in Nat \ {0}
      BY <2>1, <2>2, EmptySeq
    <3>2. m <= 1
      BY DEF SingleValued
    <3> HIDE DEF m
    <3>3. m = 1
      BY <3>1, <3>2
    <3> QED
      BY <3>3 DEF m
  <2> QED
    BY <2>1, <2>2, <2>3, <2>4, Zenon
<1>3. DOMAIN h \subseteq Range(NameOrder)
  BY <1>2
<1> QED
  BY <1>1, <1>2, <1>3 DEF SingleValues, h

(* Requests whose headers have one value each are told apart by their      *)
(* digests.                                                                *)
LEMMA HashTells ==
  ASSUME NEW x, SingleValues(x.headers), NEW y, SingleValues(y.headers),
         requestHash(x) = requestHash(y)
  PROVE  /\ x.target_id = y.target_id /\ x.url = y.url /\ x.method = y.method
         /\ x.headers = y.headers /\ x.body = y.body
<1> DEFINE W == Part \cup {x.target_id, x.url, x.method, x.body,
                           y.target_id, y.url, y.method, y.body}
           a == <<x.target_id, x.url, x.method>>
           b == <<y.target_id, y.url, y.method>>
           f == Parts(x.headers)
           g == Parts(y.headers)
           c == <<x.body>>
           d == <<y.body>>
<1>1. /\ a \in Seq(W) /\ b \in Seq(W) /\ c \in Seq(W) /\ d \in Seq(W)
      /\ Len(a) = Len(b) /\ Len(c) = Len(d)
  OBVIOUS
<1>2. f \in Seq(W) /\ g \in Seq(W)
  <2>1. /\ Listed(x.headers) \in Seq(Seq(Part)) /\ f = FlattenSeq(Listed(x.headers))
        /\ Listed(y.headers) \in Seq(Seq(Part)) /\ g = FlattenSeq(Listed(y.headers))
    BY ListedType
  <2>2. f \in Seq(Part) /\ g \in Seq(Part)
    BY <2>1, FlattenType
  <2>3. Part \subseteq W
    OBVIOUS
  <2> HIDE DEF W, f, g
  <2> QED
    BY <2>2, <2>3, SeqMonotonic
<1>3. (a \o f) \o c = (b \o g) \o d
  BY DEF requestHash
<1>4. a = b => x.target_id = y.target_id /\ x.url = y.url /\ x.method = y.method
  OBVIOUS
<1>5. c = d => x.body = y.body
  OBVIOUS
<1> HIDE DEF W, a, b, c, d, f, g
<1>6. a \o f \in Seq(W) /\ b \o g \in Seq(W)
  BY <1>1, <1>2, ConcatProperties
<1>7. a \o f = b \o g /\ c = d
  <2> DEFINE u == a \o f
             v == b \o g
  <2>1. u \in Seq(W) /\ v \in Seq(W) /\ u \o c = v \o d
    BY <1>3, <1>6
  <2> HIDE DEF u, v
  <2>2. u = v /\ c = d
    BY <1>1, <2>1, EqualParts
  <2> QED
    BY <2>2 DEF u, v
<1>8. a = b /\ f = g
  BY <1>1, <1>2, <1>7, EqualParts
<1>9. x.headers = y.headers
  BY <1>8, PartsTell DEF f, g
<1> QED
  BY <1>4, <1>5, <1>7, <1>8, <1>9

-----------------------------------------------------------------------------
(* An order of all spellings has an order of those of one name.            *)
LEMMA OrderAppend ==
  ASSUME NEW S, IsFiniteSet(S), NEW q \in Orders(S), NEW x, x \notin S
  PROVE  /\ Append(q, x) \in Orders(S \cup {x}) /\ IsFiniteSet(S \cup {x})
<1> DEFINE T == S \cup {x}
           n == Len(q)
           p == Append(q, x)
<1>1. /\ q \in Seq(S) /\ n = Cardinality(S) /\ n \in Nat
      /\ \A y \in S : \E i \in 1 .. n : q[i] = y
  BY OrderOnce
<1>2. IsFiniteSet(T) /\ Cardinality(T) = n + 1
  BY <1>1, FS_AddElement
<1>3. q \in Seq(T) /\ x \in T
  BY <1>1, SeqMonotonic
<1> HIDE DEF T
<1>4. p \in Seq(T) /\ Len(p) = n + 1 /\ p[n + 1] = x /\ \A i \in 1 .. n : p[i] = q[i]
  BY <1>3, AppendProperties
<1> HIDE DEF p, n
<1>5. p \in [1 .. n + 1 -> T] /\ DOMAIN p = 1 .. n + 1
  BY <1>4, LenProperties
<1>6. Range(p) = T
  <2>1. ASSUME NEW y \in T PROVE \E i \in 1 .. n + 1 : p[i] = y
    <3>1. CASE y = x
      BY <1>1, <1>4, <3>1
    <3>2. CASE y # x
      BY <1>1, <1>4, <3>2 DEF T
    <3> QED
      BY <3>1, <3>2
  <2> QED
    BY <1>5, <2>1 DEF Range
<1> QED
  BY <1>2, <1>5, <1>6 DEF Orders, T, p

LEMMA MapAppend ==
  ASSUME NEW h, HeaderMap(h), NEW S, S \subseteq DOMAIN h, NEW q \in Seq(S),
         NEW x \in DOMAIN h
  PROVE  LET a == [i \in DOMAIN q |-> h[q[i]]]
             p == Append(q, x)
         IN  /\ a \in Seq(Seq(STRING))
             /\ [i \in DOMAIN p |-> h[p[i]]] = Append(a, h[x])
<1> DEFINE a == [i \in DOMAIN q |-> h[q[i]]]
           p == Append(q, x)
           b == [i \in DOMAIN p |-> h[p[i]]]
           n == Len(q)
<1>1. n \in Nat /\ DOMAIN q = 1 .. n /\ \A i \in 1 .. n : q[i] \in DOMAIN h
  BY LenProperties, ElementOfSeq
<1>2. q \in Seq(DOMAIN h)
  BY SeqMonotonic
<1>3. /\ p \in Seq(DOMAIN h) /\ Len(p) = n + 1 /\ p[n + 1] = x
      /\ \A i \in 1 .. n : p[i] = q[i]
  BY <1>2, AppendProperties
<1>4. DOMAIN p = 1 .. n + 1
  BY <1>3, LenProperties
<1> HIDE DEF p, n
<1>5. a \in [1 .. n -> Seq(STRING)]
  BY <1>1 DEF HeaderMap
<1>6. a \in Seq(Seq(STRING)) /\ Len(a) = n
  <2>1. a \in Seq(Seq(STRING))
    BY <1>1, <1>5, SeqDef
  <2> QED
    BY <1>1, <1>5, <2>1, LenProperties
<1>7. h[x] \in Seq(STRING)
  BY DEF HeaderMap
<1>8. b = [i \in 1 .. n + 1 |-> b[i]] /\ b[n + 1] = h[x] /\ \A i \in 1 .. n : b[i] = a[i]
  BY <1>1, <1>3, <1>4
<1> HIDE DEF a, b
<1> DEFINE c == Append(a, h[x])
<1>9. /\ c \in Seq(Seq(STRING)) /\ Len(c) = n + 1 /\ c[n + 1] = h[x]
      /\ \A i \in 1 .. n : c[i] = a[i]
  BY <1>6, <1>7, AppendProperties
<1> HIDE DEF c
<1>10. c = [i \in 1 .. n + 1 |-> c[i]]
  BY <1>9, LenProperties
<1>11. ASSUME NEW i \in 1 .. n + 1 PROVE b[i] = c[i]
  <2>1. CASE i = n + 1
    BY <1>8, <1>9, <2>1
  <2>2. CASE i # n + 1
    <3>1. i \in 1 .. n
      BY <1>1, <2>2
    <3>2. b[i] = a[i]
      BY <1>8, <3>1
    <3>3. c[i] = a[i]
      BY <1>9, <3>1
    <3> QED
      BY <3>2, <3>3
  <2> QED
    BY <2>1, <2>2
<1>12. b = c
  BY <1>8, <1>10, <1>11
<1> QED
  BY <1>6, <1>12 DEF a, b, c, p

(* The values stored under a name are those of its spellings, in an order. *)
LEMMA ValuesInOrder ==
  ASSUME NEW h, HeaderMap(h), NEW o \in Orders(DOMAIN h), NEW n
  PROVE  \E q \in Orders({s \in DOMAIN h : Canonical[s] = n}) :
           Values(h, o, n) = FlattenSeq([i \in DOMAIN q |-> h[q[i]]])
<1> DEFINE ss == Spelled(h, o, n)
           m == Len(o)
           A(k) == {s \in DOMAIN h : Canonical[s] = n /\ \E j \in 1 .. k : o[j] = s}
           flat(q) == FlattenSeq([i \in DOMAIN q |-> h[q[i]]])
<1>1. /\ m \in Nat /\ DOMAIN o = 1 .. m
      /\ \A x \in DOMAIN h : \E i \in 1 .. m : o[i] = x
      /\ \A i, j \in 1 .. m : o[i] = o[j] => i = j
  BY OrderOnce DEF HeaderMap
<1>2. \A i \in 1 .. m : o[i] \in DOMAIN h
  BY OrderOnce, ElementOfSeq DEF HeaderMap
<1>3. ss \in Seq(Seq(STRING)) /\ Len(ss) = m /\ Values(h, o, n) = FlattenSeq(ss)
  BY SpelledType
<1>4. \A i \in 1 .. m : ss[i] = IF Canonical[o[i]] = n THEN h[o[i]] ELSE <<>>
  BY <1>1 DEF Spelled, NameOf
<1> HIDE DEF ss, m
<1>5. PICK f : Joins(f, ss, STRING)
  BY <1>3, Flattening
<1>6. /\ f[0] = <<>> /\ FlattenSeq(ss) = f[m]
      /\ \A k \in Nat : k <= m => f[k] \in Seq(STRING)
      /\ \A k \in Nat : k + 1 <= m => f[k + 1] = f[k] \o ss[k + 1]
  BY <1>3, <1>5, JoinStep
<1> DEFINE G(k) == IsFiniteSet(A(k)) /\ \E q \in Orders(A(k)) : f[k] = flat(q)
           B == {k \in Nat : k <= m => G(k)}
<1>7. 0 \in B
  <2>1. A(0) = {}
    OBVIOUS
  <2>2. IsFiniteSet({}) /\ Cardinality({}) = 0
    BY FS_EmptySet
  <2>3. <<>> \in Orders({})
    BY <2>2 DEF Orders, Range
  <2>4. flat(<<>>) = <<>>
    <3> DEFINE e == [i \in DOMAIN <<>> |-> h[<<>>[i]]]
    <3>1. e = <<>> /\ Len(<<>>) = 0
      OBVIOUS
    <3> HIDE DEF e
    <3>2. FlattenSeq(e) = <<>>
      BY <3>1 DEF FlattenSeq
    <3> QED
      BY <3>2 DEF e
  <2> HIDE DEF A, flat
  <2> QED
    BY <1>6, <2>1, <2>2, <2>3, <2>4
<1>8. ASSUME NEW k \in Nat, k \in B PROVE k + 1 \in B
  <2> HIDE DEF G
  <2> SUFFICES ASSUME k + 1 <= m PROVE G(k + 1)
    OBVIOUS
  <2>0. k <= m => G(k)
    BY <1>8
  <2> USE DEF G
  <2>1. k <= m /\ k + 1 \in 1 .. m
    BY <1>1
  <2> DEFINE x == o[k + 1]
  <2>2. IsFiniteSet(A(k)) /\ f[k] \in Seq(STRING) /\ f[k + 1] = f[k] \o ss[k + 1]
    BY <1>6, <2>0, <2>1
  <2>3. PICK q \in Orders(A(k)) : f[k] = flat(q)
    BY <2>0, <2>1
  <2>4. x \in DOMAIN h /\ ss[k + 1] = IF Canonical[x] = n THEN h[x] ELSE <<>>
    BY <1>2, <1>4, <2>1
  <2>5. CASE Canonical[x] # n
    <3>1. A(k + 1) = A(k)
      BY <2>1, <2>5
    <3>2. f[k + 1] = f[k]
      BY <2>2, <2>4, <2>5, ConcatEmptySeq
    <3> HIDE DEF A, flat
    <3> QED
      BY <2>2, <2>3, <3>1, <3>2
  <2>6. CASE Canonical[x] = n
    <3>1. A(k + 1) = A(k) \cup {x} /\ x \notin A(k) /\ A(k) \subseteq DOMAIN h
      <4>1. x \notin A(k)
        BY <1>1, <2>1
      <4> QED
        BY <2>1, <2>4, <2>6, <4>1
    <3> HIDE DEF A
    <3> DEFINE p == Append(q, x)
               a == [i \in DOMAIN q |-> h[q[i]]]
    <3>2. p \in Orders(A(k + 1)) /\ IsFiniteSet(A(k + 1))
      BY <2>2, <3>1, OrderAppend
    <3>3. q \in Seq(A(k))
      BY <2>2, OrderOnce
    <3>4. a \in Seq(Seq(STRING)) /\ flat(p) = FlattenSeq(Append(a, h[x]))
      <4> HIDE DEF x
      <4>1. A(k) \subseteq DOMAIN h
        BY <3>1
      <4>2. /\ [i \in DOMAIN q |-> h[q[i]]] \in Seq(Seq(STRING))
            /\ [i \in DOMAIN Append(q, x) |-> h[Append(q, x)[i]]]
                 = Append([i \in DOMAIN q |-> h[q[i]]], h[x])
        BY <2>4, <3>3, <4>1, MapAppend
      <4> QED
        BY <4>2
    <3>5. h[x] \in Seq(STRING)
      BY <2>4 DEF HeaderMap
    <3>6. f[k] = FlattenSeq(a)
      BY <2>3
    <3> HIDE DEF a, flat, p, x
    <3>7. flat(p) = f[k] \o h[x]
      BY <3>4, <3>5, <3>6, FlattenAppend
    <3> QED
      BY <2>2, <2>4, <2>6, <3>2, <3>7 DEF x
  <2> QED
    BY <2>5, <2>6
<1> HIDE DEF B
<1>9. m \in B
  BY <1>1, <1>7, <1>8, NumberInduction
<1>10. A(m) = {s \in DOMAIN h : Canonical[s] = n}
  BY <1>1
<1> HIDE DEF A
<1>11. \E q \in Orders(A(m)) : f[m] = flat(q)
  BY <1>1, <1>9 DEF B
<1> QED
  BY <1>3, <1>6, <1>10, <1>11

-----------------------------------------------------------------------------
(* The fold of the credential's headers.                                   *)
LEMMA LargestOf ==
  ASSUME NEW n \in Nat, NEW T \in SUBSET (1 .. n), T # {}
  PROVE  Max(T) \in T /\ \A y \in T : Max(T) >= y
<1> DEFINE B == {n - x : x \in T}
<1>0. \A x \in T : n - x \in Nat
  OBVIOUS
<1>1. B \in SUBSET Nat /\ B # {}
  BY <1>0
<1> HIDE DEF B
<1>2. PICK m \in B : \A b \in B : m <= b
  BY <1>1, LeastNumber
<1>3. \E x \in T : \A y \in T : x >= y
  <2>1. PICK x \in T : m = n - x
    BY <1>2 DEF B
  <2>2. ASSUME NEW y \in T PROVE x >= y
    <3>1. n - y \in B
      BY DEF B
    <3>2. m <= n - y
      BY <1>2, <3>1
    <3> QED
      BY <2>1, <3>2
  <2> QED
    BY <2>2
<1> QED
  BY <1>3 DEF Max

CredentialNamesOf(cr) == {NameOf(s) : s \in DOMAIN cr}

(* What the loop over the credential may have made of the headers h.       *)
Reached(h, cr) ==
  [conflict : BOOLEAN,
   headers  : UNION {[D -> Range(h) \cup {<<cr[s]>> : s \in DOMAIN cr}] :
                       D \in SUBSET (DOMAIN h \cup CredentialNamesOf(cr))}]

Starts(h) == [conflict |-> FALSE, headers |-> h]

LEMMA AddReaches ==
  ASSUME NEW h, h = [n \in DOMAIN h |-> h[n]], NEW cr
  PROVE  /\ Starts(h) \in Reached(h, cr)
         /\ \A r \in Reached(h, cr), s \in DOMAIN cr :
              /\ AddHeader(r, NameOf(s), cr[s]) \in Reached(h, cr)
              /\ AddHeader(r, NameOf(s), cr[s]) =
                   IF r.conflict \/ Get(r.headers, NameOf(s)) # Blank
                   THEN [conflict |-> TRUE, headers |-> r.headers]
                   ELSE [conflict |-> FALSE,
                         headers  |-> Set(r.headers, NameOf(s), cr[s])]
<1> DEFINE X == Range(h) \cup {<<cr[s]>> : s \in DOMAIN cr}
           N == DOMAIN h \cup CredentialNamesOf(cr)
           H == UNION {[D -> X] : D \in SUBSET N}
<1>1. h \in [DOMAIN h -> X] /\ DOMAIN h \in SUBSET N
  BY DEF Range
<1>2. \A s \in DOMAIN cr : NameOf(s) \in N /\ <<cr[s]>> \in X
  BY DEF CredentialNamesOf
<1>3. Reached(h, cr) = [conflict : BOOLEAN, headers : H]
  BY DEF Reached
<1> HIDE DEF X, N
<1>4. h \in H
  BY <1>1
<1>5. ASSUME NEW g \in H, NEW s \in DOMAIN cr
      PROVE  Set(g, NameOf(s), cr[s]) \in H
  <2>1. PICK D \in SUBSET N : g \in [D -> X]
    OBVIOUS
  <2> DEFINE E == D \cup {NameOf(s)}
             e == Set(g, NameOf(s), cr[s])
  <2>2. E \in SUBSET N
    BY <1>2
  <2>3. e \in [E -> X]
    <3>1. e = [m \in E |-> IF m = NameOf(s) THEN <<cr[s]>> ELSE g[m]]
      BY <2>1 DEF Set
    <3>2. \A m \in E : (IF m = NameOf(s) THEN <<cr[s]>> ELSE g[m]) \in X
      BY <1>2, <2>1
    <3> QED
      BY <3>1, <3>2
  <2> HIDE DEF e, E
  <2> QED
    BY <2>2, <2>3 DEF e
<1> HIDE DEF H
<1>6. ASSUME NEW r \in [conflict : BOOLEAN, headers : H], NEW s \in DOMAIN cr
      PROVE  LET a == AddHeader(r, NameOf(s), cr[s])
             IN  /\ a \in [conflict : BOOLEAN, headers : H]
                 /\ a = IF r.conflict \/ Get(r.headers, NameOf(s)) # Blank
                        THEN [conflict |-> TRUE, headers |-> r.headers]
                        ELSE [conflict |-> FALSE,
                              headers  |-> Set(r.headers, NameOf(s), cr[s])]
  <2> DEFINE e == Set(r.headers, NameOf(s), cr[s])
             full == r.conflict \/ Get(r.headers, NameOf(s)) # Blank
             a == AddHeader(r, NameOf(s), cr[s])
  <2>1. e \in H /\ r.headers \in H /\ r.conflict \in BOOLEAN
    BY <1>5
  <2>2. a = IF full THEN [r EXCEPT !.conflict = TRUE] ELSE [r EXCEPT !.headers = e]
    BY DEF AddHeader
  <2> HIDE DEF e
  <2>3. CASE full
    <3>1. a = [conflict |-> TRUE, headers |-> r.headers]
      BY <2>2, <2>3
    <3> QED
      BY <2>1, <2>3, <3>1
  <2>4. CASE ~full
    <3>1. r.conflict = FALSE
      BY <2>1, <2>4
    <3> HIDE DEF full
    <3>2. a = [conflict |-> FALSE, headers |-> e]
      BY <2>2, <2>4, <3>1
    <3>3. a \in [conflict : BOOLEAN, headers : H]
      BY <2>1, <3>2
    <3> QED
      BY <2>4, <3>2, <3>3 DEF full, e
  <2> QED
    BY <2>3, <2>4
<1> QED
  BY <1>3, <1>4, <1>6 DEF Starts

(* f has what the loop makes of the first headers of the credential.       *)
Merges(f, h, cr, o) ==
  /\ f \in [0 .. Len(o) -> Reached(h, cr)]
  /\ f[0] = Starts(h)
  /\ \A k \in 1 .. Len(o) : f[k] = AddHeader(f[k - 1], NameOf(o[k]), cr[o[k]])
  /\ WithCredential(h, cr, o) = f[Len(o)]

LEMMA Merging ==
  ASSUME NEW h, h = [n \in DOMAIN h |-> h[n]], NEW cr, IsFiniteSet(DOMAIN cr),
         NEW o \in Orders(DOMAIN cr)
  PROVE  \E f : Merges(f, h, cr, o)
<1> DEFINE n == Len(o)
           S == DOMAIN o
           V == Reached(h, cr)
           b == Starts(h)
           Add(i, r) == AddHeader(r, NameOf(o[i]), cr[o[i]])
           pick == [T \in SUBSET S |-> Max(T)]
           g == [i \in S |-> [r \in V |-> Add(i, r)]]
           Body(s) == [T \in SUBSET S |->
                         IF T = {} THEN b ELSE Add(Max(T), s[T \ {Max(T)}])]
           fold == CHOOSE s : s = Body(s)
<1>1. n \in Nat /\ S = 1 .. n /\ \A i \in S : o[i] \in DOMAIN cr
  BY OrderOnce, ElementOfSeq
<1>2. \A T \in SUBSET S : T # {} => Max(T) \in T /\ \A y \in T : Max(T) >= y
  BY <1>1, LargestOf
<1>3. b \in V /\ \A i \in S, r \in V : Add(i, r) \in V
  BY <1>1, AddReaches
<1>4. WithCredential(h, cr, o) = fold[S]
  BY DEF WithCredential, FoldLeft, MapThenFoldSet, Starts
<1> HIDE DEF V, b, Add, S
<1> HIDE DEF pick, g
<1>5. PICK s : Accumulates(s, S, V, b, g, pick)
  <2>1. IsFiniteSet(S)
    <3> HIDE DEF n
    <3>0. n \in Nat
      BY <1>1
    <3>1. IsFiniteSet(1 .. n) /\ Cardinality(1 .. n) = n
      BY <3>0, FS_Interval
    <3> QED
      BY <1>1, <3>1
  <2>2. Chooses(pick, S)
    BY <1>2 DEF Chooses, pick
  <2>3. g \in Steps(S, V)
    BY <1>3 DEF Steps, g
  <2> QED
    BY <1>3, <2>1, <2>2, <2>3, SubsetRecursion
<1>6. ASSUME NEW T \in SUBSET S, T # {}
      PROVE  s[T] = Add(Max(T), s[T \ {Max(T)}])
  <2>1. Max(T) \in S /\ T \ {Max(T)} \in SUBSET S /\ pick[T] = Max(T)
    BY <1>2, <1>6 DEF pick
  <2>2. s[T \ {Max(T)}] \in V
    BY <1>5, <2>1 DEF Accumulates
  <2>3. g[Max(T)][s[T \ {Max(T)}]] = Add(Max(T), s[T \ {Max(T)}])
    BY <2>1, <2>2 DEF g
  <2> QED
    BY <1>5, <1>6, <2>1, <2>3 DEF Accumulates
<1>7. s = Body(s)
  BY <1>5, <1>6 DEF Accumulates
<1>8. fold = Body(fold)
  BY <1>7
<1> HIDE DEF fold
<1>9. /\ fold[{}] = b
      /\ \A T \in SUBSET S : T # {} => fold[T] = Add(Max(T), fold[T \ {Max(T)}])
  BY <1>8
<1> DEFINE f == [k \in 0 .. n |-> fold[1 .. k]]
<1>10. f[0] = b /\ f[n] = fold[S]
  <2>1. 1 .. 0 = {} /\ 0 \in 0 .. n /\ n \in 0 .. n
    BY <1>1
  <2> QED
    BY <1>1, <1>9, <2>1
<1>11. ASSUME NEW k \in 1 .. n PROVE f[k] = Add(k, f[k - 1])
  <2> DEFINE T == 1 .. k
  <2>1. T \in SUBSET S /\ k \in T /\ T # {}
    BY <1>1
  <2>2. Max(T) = k
    <3>1. Max(T) \in T /\ Max(T) >= k
      BY <1>2, <2>1
    <3> QED
      BY <1>1, <3>1
  <2>3. T \ {k} = 1 .. k - 1
    BY <1>1
  <2> HIDE DEF T
  <2>4. fold[T] = Add(k, fold[1 .. k - 1])
    BY <1>9, <2>1, <2>2, <2>3
  <2>5. k \in 0 .. n /\ k - 1 \in 0 .. n
    BY <1>1
  <2> QED
    BY <2>4, <2>5 DEF T
<1>12. ASSUME NEW k \in 0 .. n PROVE f[k] \in V
  <2> HIDE DEF f
  <2> DEFINE B == {j \in Nat : j <= n => f[j] \in V}
  <2>1. 0 \in B
    BY <1>3, <1>10
  <2>2. ASSUME NEW j \in Nat, j \in B PROVE j + 1 \in B
    <3> SUFFICES ASSUME j + 1 <= n PROVE f[j + 1] \in V
      OBVIOUS
    <3> DEFINE i == j + 1
    <3>1. i \in 1 .. n /\ i - 1 = j /\ j <= n
      BY <1>1
    <3> HIDE DEF i
    <3>2. f[i] = Add(i, f[j]) /\ f[j] \in V
      BY <1>11, <2>2, <3>1
    <3>3. Add(i, f[j]) \in V
      BY <1>1, <1>3, <3>1, <3>2
    <3> QED
      BY <3>2, <3>3 DEF i
  <2> HIDE DEF B
  <2>3. Nat \subseteq B
    BY <2>1, <2>2, NumberInduction
  <2> QED
    BY <1>1, <2>3 DEF B
<1>13. f \in [0 .. n -> V]
  BY <1>12
<1> HIDE DEF f
<1> QED
  BY <1>4, <1>10, <1>11, <1>13 DEF Merges, V, b, Add

(* What the credential's headers have become while none was in the way:    *)
(* those of the caller remain, and of the spellings of one name the one    *)
(* that is not empty has won.                                              *)
Merged(g, h, cr, o, k) ==
  /\ g = [m \in DOMAIN g |-> g[m]]
  /\ DOMAIN g = DOMAIN h \cup {NameOf(o[j]) : j \in 1 .. k}
  /\ \A m \in DOMAIN h : (\A j \in 1 .. k : NameOf(o[j]) # m) => g[m] = h[m]
  /\ \A j \in 1 .. k : \E i \in 1 .. k :
       NameOf(o[i]) = NameOf(o[j]) /\ g[NameOf(o[j])] = <<cr[o[i]]>>
  /\ \A j \in 1 .. k : cr[o[j]] # Blank => g[NameOf(o[j])] = <<cr[o[j]]>>
  /\ \A j \in 1 .. k : NameOf(o[j]) \in DOMAIN h => h[NameOf(o[j])][1] = Blank

LEMMA MergeOne ==
  ASSUME NEW g, NEW h, NEW cr, NEW o, NEW k \in Nat, Merged(g, h, cr, o, k),
         NEW n, n = NameOf(o[k + 1]), Get(g, n) = Blank
  PROVE  Merged(Set(g, n, cr[o[k + 1]]), h, cr, o, k + 1)
<1> DEFINE v == cr[o[k + 1]]
           e == Set(g, n, v)
           l == k + 1
<1>1. /\ e = [m \in DOMAIN e |-> e[m]] /\ DOMAIN e = DOMAIN g \cup {n} /\ e[n] = <<v>>
      /\ \A m \in DOMAIN g : m # n => e[m] = g[m]
  BY DEF Set
<1>2. n \in DOMAIN g => g[n][1] = Blank
  BY DEF Get
<1>3. 1 .. l = (1 .. k) \cup {l} /\ l \in 1 .. l
  OBVIOUS
<1>4. NameOf(o[l]) = n /\ cr[o[l]] = v
  OBVIOUS
<1> HIDE DEF e, v, l
<1>5. /\ DOMAIN g = DOMAIN h \cup {NameOf(o[j]) : j \in 1 .. k}
      /\ \A m \in DOMAIN h : (\A j \in 1 .. k : NameOf(o[j]) # m) => g[m] = h[m]
      /\ \A j \in 1 .. k : \E i \in 1 .. k :
           NameOf(o[i]) = NameOf(o[j]) /\ g[NameOf(o[j])] = <<cr[o[i]]>>
      /\ \A j \in 1 .. k : cr[o[j]] # Blank => g[NameOf(o[j])] = <<cr[o[j]]>>
      /\ \A j \in 1 .. k : NameOf(o[j]) \in DOMAIN h => h[NameOf(o[j])][1] = Blank
  BY DEF Merged
<1>6. DOMAIN e = DOMAIN h \cup {NameOf(o[j]) : j \in 1 .. l}
  BY <1>1, <1>3, <1>4, <1>5
<1>7. ASSUME NEW m \in DOMAIN h, \A j \in 1 .. l : NameOf(o[j]) # m
      PROVE  e[m] = h[m]
  BY <1>1, <1>3, <1>4, <1>5, <1>7
<1>8. ASSUME NEW j \in 1 .. l
      PROVE  /\ \E i \in 1 .. l : NameOf(o[i]) = NameOf(o[j]) /\ e[NameOf(o[j])] = <<cr[o[i]]>>
             /\ cr[o[j]] # Blank => e[NameOf(o[j])] = <<cr[o[j]]>>
             /\ NameOf(o[j]) \in DOMAIN h => h[NameOf(o[j])][1] = Blank
  <2>1. CASE j = l
    <3>1. n \in DOMAIN h => h[n][1] = Blank
      <4>1. CASE \E i \in 1 .. k : NameOf(o[i]) = n
        BY <1>5, <4>1
      <4>2. CASE \A i \in 1 .. k : NameOf(o[i]) # n
        BY <1>2, <1>5, <4>2
      <4> QED
        BY <4>1, <4>2
    <3> QED
      BY <1>1, <1>3, <1>4, <2>1, <3>1
  <2>2. CASE j # l /\ NameOf(o[j]) # n
    <3>1. j \in 1 .. k /\ NameOf(o[j]) \in DOMAIN g
      BY <1>3, <1>5, <2>2
    <3>2. e[NameOf(o[j])] = g[NameOf(o[j])]
      BY <1>1, <2>2, <3>1
    <3>3. PICK i \in 1 .. k :
            NameOf(o[i]) = NameOf(o[j]) /\ g[NameOf(o[j])] = <<cr[o[i]]>>
      BY <1>5, <3>1
    <3>4. i \in 1 .. l
      BY <1>3
    <3>5. /\ cr[o[j]] # Blank => g[NameOf(o[j])] = <<cr[o[j]]>>
          /\ NameOf(o[j]) \in DOMAIN h => h[NameOf(o[j])][1] = Blank
      BY <1>5, <3>1
    <3> QED
      BY <3>2, <3>3, <3>4, <3>5
  <2>3. CASE j # l /\ NameOf(o[j]) = n
    <3>1. j \in 1 .. k /\ n \in DOMAIN g
      BY <1>3, <1>5, <2>3
    <3>2. cr[o[j]] = Blank
      <4>1. <<cr[o[j]]>>[1] = cr[o[j]]
        OBVIOUS
      <4> QED
        BY <1>2, <1>5, <2>3, <3>1, <4>1
    <3> QED
      BY <1>1, <1>3, <1>4, <1>5, <2>3, <3>1, <3>2
  <2> QED
    BY <2>1, <2>2, <2>3
<1>9. Merged(e, h, cr, o, l)
  BY <1>1, <1>6, <1>7, <1>8 DEF Merged
<1> QED
  BY <1>9 DEF e, v, l

LEMMA MergedCredential ==
  ASSUME NEW h, h = [n \in DOMAIN h |-> h[n]], NEW cr, IsFiniteSet(DOMAIN cr),
         NEW o \in Orders(DOMAIN cr)
  PROVE  LET r == WithCredential(h, cr, o)
         IN  r.conflict \/ Merged(r.headers, h, cr, o, Len(o))
<1> DEFINE n == Len(o)
           V == Reached(h, cr)
<1>1. n \in Nat /\ \A i \in 1 .. n : o[i] \in DOMAIN cr
  BY OrderOnce, ElementOfSeq
<1>2. PICK f : Merges(f, h, cr, o)
  BY Merging
<1> HIDE DEF n, V
<1>3. /\ f \in [0 .. n -> V] /\ f[0] = Starts(h) /\ WithCredential(h, cr, o) = f[n]
      /\ \A k \in 1 .. n : f[k] = AddHeader(f[k - 1], NameOf(o[k]), cr[o[k]])
  BY <1>2 DEF Merges, n, V
<1> DEFINE G(k) == f[k].conflict \/ Merged(f[k].headers, h, cr, o, k)
           B == {k \in Nat : k <= n => G(k)}
<1>4. G(0)
  <2>1. f[0].headers = h
    BY <1>3 DEF Starts
  <2>2. 1 .. 0 = {}
    OBVIOUS
  <2>3. Merged(h, h, cr, o, 0)
    BY <2>2 DEF Merged
  <2> QED
    BY <2>1, <2>3
<1>5. ASSUME NEW k \in Nat, k \in B PROVE k + 1 \in B
  <2> HIDE DEF G
  <2> SUFFICES ASSUME k + 1 <= n PROVE G(k + 1)
    OBVIOUS
  <2>0. k <= n => G(k)
    BY <1>5
  <2> DEFINE l == k + 1
             m == NameOf(o[l])
             r == f[k]
  <2>1. l \in 1 .. n /\ l - 1 = k /\ k \in 0 .. n /\ k <= n
    BY <1>1
  <2>2. r \in V /\ f[l] = AddHeader(r, m, cr[o[l]]) /\ o[l] \in DOMAIN cr
    <3> HIDE DEF l
    <3> QED
      BY <1>1, <1>3, <2>1
  <2> HIDE DEF r
  <2>3. f[l] = IF r.conflict \/ Get(r.headers, m) # Blank
               THEN [conflict |-> TRUE, headers |-> r.headers]
               ELSE [conflict |-> FALSE, headers  |-> Set(r.headers, m, cr[o[l]])]
    <3> HIDE DEF l
    <3>1. \A q \in V, s \in DOMAIN cr :
            AddHeader(q, NameOf(s), cr[s]) =
              IF q.conflict \/ Get(q.headers, NameOf(s)) # Blank
              THEN [conflict |-> TRUE, headers |-> q.headers]
              ELSE [conflict |-> FALSE, headers |-> Set(q.headers, NameOf(s), cr[s])]
      BY AddReaches DEF V
    <3> QED
      BY <2>2, <3>1
  <2>4. CASE r.conflict \/ Get(r.headers, m) # Blank
    <3>1. f[l].conflict = TRUE
      BY <2>3, <2>4
    <3> QED
      BY <3>1 DEF G
  <2>5. CASE ~(r.conflict \/ Get(r.headers, m) # Blank)
    <3>1. f[l].headers = Set(r.headers, m, cr[o[l]])
      BY <2>3, <2>5
    <3>2. Merged(r.headers, h, cr, o, k)
      BY <2>0, <2>1, <2>5 DEF G, r
    <3>3. Merged(Set(r.headers, m, cr[o[l]]), h, cr, o, l)
      BY <2>5, <3>2, MergeOne
    <3> QED
      BY <3>1, <3>3 DEF G
  <2> QED
    BY <2>4, <2>5
<1> HIDE DEF G
<1>6. 0 \in B
  BY <1>4
<1> HIDE DEF B
<1>7. n \in B
  BY <1>1, <1>5, <1>6, NumberInduction
<1>8. G(n)
  BY <1>1, <1>7 DEF B
<1> QED
  BY <1>3, <1>8 DEF G, n


(* What the spellings of n contribute, in any order.                       *)
Given(h, n) ==
  {FlattenSeq([i \in DOMAIN q |-> h[q[i]]]) :
     q \in Orders({s \in DOMAIN h : Canonical[s] = n})}

LEMMA StoredValues ==
  ASSUME NEW s \in Submission, NEW o \in Orders(DOMAIN s.headers)
  PROVE  LET h == Normalized(s.headers, o)
         IN  /\ h = [n \in DOMAIN h |-> h[n]]
             /\ \A n \in DOMAIN h : h[n] \in Given(s.headers, n)
             /\ \A n : n \notin DOMAIN h => <<>> \in Given(s.headers, n)
             /\ \A t \in DOMAIN s.headers : s.headers[t] # <<>> => Canonical[t] \in DOMAIN h
<1> DEFINE g == s.headers
           h == Normalized(g, o)
<1>1. HeaderMap(g)
  BY SubmittedHeaders
<1>2. /\ h = [n \in DOMAIN h |-> h[n]]
      /\ DOMAIN h = {Canonical[t] : t \in {u \in DOMAIN g : g[u] # <<>>}}
      /\ \A n \in DOMAIN h : h[n] = Values(g, o, n)
  BY DEF Normalized, NameOf
<1>3. ASSUME NEW n PROVE Values(g, o, n) \in Given(g, n)
  BY <1>1, ValuesInOrder DEF Given
<1>4. ASSUME NEW n, n \notin DOMAIN h PROVE Values(g, o, n) = <<>>
  <2> DEFINE ss == Spelled(g, o, n)
  <2>1. ss \in Seq(Seq(STRING)) /\ Len(ss) = Len(o) /\ Values(g, o, n) = FlattenSeq(ss)
    BY <1>1, SpelledType
  <2>2. /\ Len(o) \in Nat /\ DOMAIN o = 1 .. Len(o)
        /\ \A i \in 1 .. Len(o) : o[i] \in DOMAIN g
    BY <1>1, OrderOnce, ElementOfSeq DEF HeaderMap
  <2> HIDE DEF g, h
  <2>3. \A t \in DOMAIN g : Canonical[t] = n => g[t] = <<>>
    BY <1>2, <1>4
  <2>4. \A i \in 1 .. Len(o) : ss[i] = <<>>
    BY <2>2, <2>3 DEF Spelled, NameOf
  <2> HIDE DEF ss
  <2>5. FlattenSeq(ss) = <<>>
    BY <2>1, <2>2, <2>4, FlattenOne
  <2> QED
    BY <2>1, <2>5
<1> HIDE DEF h
<1> QED
  BY <1>2, <1>3, <1>4 DEF h

-----------------------------------------------------------------------------
(* The row repeats the submission that created it, which was well-formed,  *)
(* and a call's answer is what its process makes of the row.               *)
RowInv ==
  row # NoRow =>
    /\ first \in Submission /\ ~Malformed(first)
    /\ \E o \in Orders(DOMAIN first.headers) : row = Stored(first, o)

SubmitInv ==
  last.call = "submit" =>
    /\ last.by \in Configuration /\ last.request \in Submission
    /\ last.answer \in {"created", "existing", "conflict"} =>
         Refusal(last.by, last.request) = "none" /\ row # NoRow
    /\ last.answer \in {"existing", "conflict"} =>
         \E o \in Orders(DOMAIN last.request.headers) :
           last.answer = IF Stored(last.request, o).request_hash = row.request_hash
                         THEN "existing" ELSE "conflict"

DeliverInv ==
  last.call = "deliver" =>
    /\ last.by \in Configuration /\ last.addresses \in Lookup /\ row # NoRow
    /\ \E o \in Orders(CredentialNames(last.by)) :
         last.result = Delivered(last.by, last.addresses, o)

PathInv == RowInv /\ SubmitInv /\ DeliverInv

LEMMA RowColumns ==
  ASSUME NEW s, NEW o
  PROVE  LET r == Stored(s, o)
             n == r.request
         IN  /\ r # NoRow /\ r.caller_id = s.caller_id
             /\ n.target_id = s.target_id /\ n.url = s.url
             /\ n.method = Upper[s.method] /\ n.body = s.body
             /\ n.headers = Normalized(s.headers, o)
             /\ r.request_hash = requestHash(n)
BY DEF Stored, Validated, NoRow

LEMMA Verdicts ==
  ASSUME NEW c, NEW s
  PROVE  /\ Refusal(c, s) \in {"target_not_allowed", "invalid_request", "none"}
         /\ Refusal(c, s) = "none" =>
              /\ s.target_id \in DOMAIN c /\ s.caller_id \in c[s.target_id].callers
              /\ ~Malformed(s)
              /\ SameHost(c[s.target_id].hosts, s.url.host)
              /\ PortOf(s.url) \in c[s.target_id].ports
BY DEF Refusal

LEMMA InitPath == Init => PathInv
BY DEF Init, PathInv, RowInv, SubmitInv, DeliverInv, NoCall, NoRow

LEMMA NextPath == PathInv /\ [Next]_vars => PathInv'
<1> SUFFICES ASSUME PathInv, [Next]_vars PROVE PathInv'
  OBVIOUS
<1> USE DEF PathInv
<1>1. CASE UNCHANGED vars
  <2>1. last' = last /\ row' = row /\ first' = first
    BY <1>1 DEF vars
  <2>2. /\ CredentialNames(last.by)' = CredentialNames(last.by)
        /\ \A o : Delivered(last.by, last.addresses, o)'
                   = Delivered(last.by, last.addresses, o)
    BY <2>1 DEF CredentialNames, Usable, Delivered, DialRefused
  <2> QED
    BY <2>1, <2>2 DEF RowInv, SubmitInv, DeliverInv
<1>2. ASSUME NEW c \in Configuration, NEW s \in Submission,
             NEW o \in Orders(DOMAIN s.headers), Submit(c, s, o)
      PROVE  PathInv'
  <2>1. last'.call = "submit" /\ last'.by = c /\ last'.request = s
    BY <1>2 DEF Submit, Answered
  <2>2. CASE Refusal(c, s) # "none"
    <3>1. last'.answer = Refusal(c, s) /\ UNCHANGED <<row, first>>
      BY <1>2, <2>2 DEF Submit, Answered
    <3>2. last'.answer \notin {"created", "existing", "conflict"}
      BY <2>2, <3>1, Verdicts
    <3> QED
      BY <2>1, <3>1, <3>2 DEF RowInv, SubmitInv, DeliverInv
  <2>3. CASE Refusal(c, s) = "none" /\ row = NoRow
    <3>1. last'.answer = "created" /\ row' = Stored(s, o) /\ first' = s
      BY <1>2, <2>3 DEF Submit, Answered
    <3>2. row' # NoRow /\ ~Malformed(s)
      BY <2>3, <3>1, RowColumns, Verdicts
    <3> QED
      BY <2>1, <2>3, <3>1, <3>2 DEF RowInv, SubmitInv, DeliverInv
  <2>4. CASE Refusal(c, s) = "none" /\ row # NoRow
    <3>1. /\ last'.answer = IF Stored(s, o).request_hash = row.request_hash
                            THEN "existing" ELSE "conflict"
          /\ UNCHANGED <<row, first>>
      BY <1>2, <2>4 DEF Submit, Answered
    <3> QED
      BY <2>1, <2>4, <3>1 DEF RowInv, SubmitInv, DeliverInv
  <2> QED
    BY <2>2, <2>3, <2>4
<1>3. ASSUME JustCreated, NEW c \in Configuration, NEW addresses \in Lookup,
             NEW o \in Orders(CredentialNames(c)), Deliver(c, addresses, o)
      PROVE  PathInv'
  <2>1. /\ last'.call = "deliver" /\ last'.by = c /\ last'.addresses = addresses
        /\ last'.result = Delivered(c, addresses, o)
        /\ row' = row /\ first' = first
    BY <1>3 DEF Deliver
  <2>2. row # NoRow
    BY <1>3 DEF JustCreated, SubmitInv
  <2>3. Delivered(c, addresses, o)' = Delivered(c, addresses, o)
    BY <2>1 DEF Delivered, Usable, DialRefused
  <2>4. CredentialNames(c)' = CredentialNames(c)
    BY <2>1 DEF CredentialNames, Usable
  <2>5. RowInv' /\ SubmitInv'
    BY <2>1 DEF RowInv, SubmitInv
  <2>6. DeliverInv'
    BY <2>1, <2>2, <2>3, <2>4 DEF DeliverInv
  <2> QED
    BY <2>5, <2>6
<1> QED
  BY <1>1, <1>2, <1>3 DEF Next

LEMMA PathInvariant == Spec => []PathInv
BY InitPath, NextPath, PTL DEF Spec

-----------------------------------------------------------------------------
(* The port that validate computes is the one that net/http dials.         *)
LEMMA SamePort ==
  ASSUME NEW s, ~Malformed(s)
  PROVE  /\ s.url.scheme \in {"http", "https"}
         /\ DialledPort(s.url) = PortOf(s.url)
         /\ s.url.port = NoPort =>
              PortOf(s.url) = [http |-> 80, https |-> 443][s.url.scheme]
         /\ s.url.port # NoPort => PortOf(s.url) = s.url.port
<1>1. s.url.scheme \in {"http", "https"}
  BY DEF Malformed
<1>2. /\ [http |-> 80, https |-> 443]["http"] = 80
      /\ [http |-> 80, https |-> 443]["https"] = 443
  OBVIOUS
<1> QED
  BY <1>1, <1>2 DEF DialledPort, PortOf

(* What a process would accept now it refuses to send only for a private   *)
(* address or for a host that net/http converts and that is not allowed in *)
(* its converted form: else the guarded dialer agrees with validate.       *)
THEOREM AcceptanceKept == Spec => []AcceptanceHolds
<1>1. ASSUME PathInv PROVE AcceptanceHolds
  <2> SUFFICES ASSUME last.call = "deliver", last.result.code = "target_not_allowed",
                      Refusal(last.by, first) = "none"
               PROVE  \/ Range(last.addresses) \cap Private # {}
                      \/ /\ DialHost[first.url.host] # first.url.host
                         /\ DialHost[first.url.host]
                              \notin last.by[first.target_id].hosts
    BY DEF AcceptanceHolds
  <2> DEFINE c == last.by
             a == last.addresses
  <2>1. PICK o : last.result = Delivered(c, a, o)
    BY <1>1 DEF PathInv, DeliverInv
  <2>2. /\ row.caller_id = first.caller_id /\ row.request.target_id = first.target_id
        /\ row.request.url = first.url /\ ~Malformed(first)
    BY <1>1, RowColumns DEF PathInv, DeliverInv, RowInv
  <2>3. Usable(c)
    BY <2>2, Verdicts DEF Usable
  <2>4. DialRefused(c[row.request.target_id], a)
    BY <2>1, <2>3 DEF Delivered, Failed
  <2>5. /\ SameHost(c[first.target_id].hosts, first.url.host)
        /\ DialledPort(first.url) \in c[first.target_id].ports
    BY <2>2, Verdicts, SamePort
  <2> QED
    BY <2>2, <2>4, <2>5 DEF DialRefused, SameHost
<1> QED
  BY <1>1, PathInvariant, PTL

(* No process answers a submission with a row, or sends one, unless its own*)
(* configuration admits the caller, the host and the port, and it connects *)
(* only to an address that the look-up returned and that may be used.      *)
THEOREM RevocationKept == Spec => []RevocationWins
<1>1. ASSUME PathInv PROVE RevocationWins
  <2> DEFINE c == last.by
             admits(s, host) ==
               /\ s.target_id \in DOMAIN c
               /\ s.caller_id \in c[s.target_id].callers
               /\ \E h \in c[s.target_id].hosts : Lower[h] = Lower[host]
               /\ \E p \in c[s.target_id].ports :
                    \/ p = s.url.port
                    \/ /\ s.url.port = NoPort
                       /\ p = [http |-> 80, https |-> 443][s.url.scheme]
  <2>1. ASSUME Admitted PROVE admits(last.request, last.request.url.host)
    <3>1. Refusal(c, last.request) = "none"
      BY <1>1, <2>1 DEF Admitted, Compared, JustCreated, PathInv, SubmitInv
    <3>2. ~Malformed(last.request)
      BY <3>1, Verdicts
    <3> QED
      BY <3>1, <3>2, Verdicts, SamePort DEF SameHost
  <2>2. ASSUME Sent
        PROVE  /\ admits(first, DialHost[first.url.host])
               /\ last.result.address \in Range(last.addresses)
               /\ c[first.target_id].allow_private \/ last.result.address \notin Private
    <3>1. PICK o : last.result = Delivered(c, last.addresses, o)
      BY <1>1, <2>2 DEF Sent, PathInv, DeliverInv
    <3>2. /\ row.caller_id = first.caller_id /\ row.request.target_id = first.target_id
          /\ row.request.url = first.url /\ ~Malformed(first)
      BY <1>1, <2>2, RowColumns DEF Sent, PathInv, DeliverInv, RowInv
    <3>3. /\ Usable(c) /\ ~DialRefused(c[row.request.target_id], last.addresses)
          /\ last.addresses # <<>> /\ last.result.address = Head(last.addresses)
      BY <2>2, <3>1 DEF Sent, Delivered, Failed
    <3>4. last.addresses \in Seq(Range(last.addresses))
      BY <1>1, <2>2, RequestAssumption DEF Sent, PathInv, DeliverInv
    <3>5. Head(last.addresses) \in Range(last.addresses)
      BY <3>3, <3>4
    <3>6. admits(first, DialHost[first.url.host])
      BY <3>2, <3>3, SamePort DEF Usable, DialRefused, SameHost
    <3> QED
      BY <3>2, <3>3, <3>5, <3>6 DEF DialRefused
  <2> HIDE DEF admits
  <2>3. CASE Sent
    <3>1. ~Admitted
      BY <2>3 DEF Sent, Admitted, Compared, JustCreated
    <3> QED
      BY <2>2, <2>3 DEF RevocationWins, admits
  <2>4. CASE ~Sent
    BY <2>1, <2>4 DEF RevocationWins, admits
  <2> QED
    BY <2>3, <2>4
<1> QED
  BY <1>1, PathInvariant, PTL
-----------------------------------------------------------------------------
(* What a comparison has compared.                                         *)
LEMMA ComparedWith ==
  ASSUME PathInv, Compared
  PROVE  /\ first \in Submission /\ last.request \in Submission
         /\ \E p \in Orders(DOMAIN first.headers), o \in Orders(DOMAIN last.request.headers) :
              last.answer = IF requestHash(Validated(last.request, o))
                                 = requestHash(Validated(first, p))
                            THEN "existing" ELSE "conflict"
<1>1. /\ last.call = "submit" /\ last.answer \in {"existing", "conflict"}
      /\ last.request \in Submission /\ row # NoRow
  BY DEF Compared, PathInv, SubmitInv
<1>2. PICK o \in Orders(DOMAIN last.request.headers) :
        last.answer = IF Stored(last.request, o).request_hash = row.request_hash
                      THEN "existing" ELSE "conflict"
  BY <1>1 DEF PathInv, SubmitInv
<1>3. PICK p \in Orders(DOMAIN first.headers) : row = Stored(first, p)
  BY <1>1 DEF PathInv, RowInv
<1>4. \A s, q : Stored(s, q).request_hash = requestHash(Validated(s, q))
  BY DEF Stored
<1>5. first \in Submission
  BY <1>1 DEF PathInv, RowInv
<1> QED
  BY <1>1, <1>2, <1>3, <1>4, <1>5

(* A request repeated with its method or headers spelled otherwise is      *)
(* answered with the existing row, in whatever order the maps are iterated *)
(* (Service.validate, requestHash).                                        *)
THEOREM RepetitionsRecognised == Spec => []RepetitionRecognised
<1>1. ASSUME PathInv PROVE RepetitionRecognised
  <2> SUFFICES ASSUME Compared, Unambiguous(first), Unambiguous(last.request),
                      Content(first) = Content(last.request)
               PROVE  last.answer = "existing"
    BY DEF RepetitionRecognised
  <2>1. /\ first \in Submission /\ last.request \in Submission
        /\ \E p \in Orders(DOMAIN first.headers), o \in Orders(DOMAIN last.request.headers) :
             last.answer = IF requestHash(Validated(last.request, o))
                                = requestHash(Validated(first, p))
                           THEN "existing" ELSE "conflict"
    BY <1>1, ComparedWith
  <2>2. PICK p \in Orders(DOMAIN first.headers), o \in Orders(DOMAIN last.request.headers) :
             last.answer = IF requestHash(Validated(last.request, o))
                                = requestHash(Validated(first, p))
                           THEN "existing" ELSE "conflict"
    BY <2>1
  <2>3. Validated(last.request, o) = Validated(first, p)
    BY <2>1, SameContent
  <2> QED
    BY <2>2, <2>3
<1> QED
  BY <1>1, PathInvariant, PTL

(* A request that differs in anything the digest covers is answered with a *)
(* conflict, as long as no header has several values (requestHash).        *)
THEOREM DifferencesRecognised == Spec => []DifferenceRecognised
<1>1. ASSUME PathInv PROVE DifferenceRecognised
  <2> SUFFICES ASSUME Compared, Unambiguous(first), Unambiguous(last.request),
                      SingleValued(first), SingleValued(last.request),
                      last.answer # "conflict"
               PROVE  Content(first) = Content(last.request)
    BY DEF DifferenceRecognised
  <2> DEFINE s == last.request
  <2>1. /\ first \in Submission /\ s \in Submission
        /\ \E p \in Orders(DOMAIN first.headers), o \in Orders(DOMAIN s.headers) :
             last.answer = IF requestHash(Validated(s, o)) = requestHash(Validated(first, p))
                           THEN "existing" ELSE "conflict"
    BY <1>1, ComparedWith
  <2>2. PICK p \in Orders(DOMAIN first.headers), o \in Orders(DOMAIN s.headers) :
             requestHash(Validated(s, o)) = requestHash(Validated(first, p))
    BY <2>1
  <2> DEFINE x == Validated(s, o)
             y == Validated(first, p)
  <2>3. /\ x = [target_id |-> s.target_id, url |-> s.url, method |-> Upper[s.method],
                headers |-> Normalized(s.headers, o), body |-> s.body]
        /\ y = [target_id |-> first.target_id, url |-> first.url,
                method |-> Upper[first.method], headers |-> Normalized(first.headers, p),
                body |-> first.body]
    BY DEF Validated
  <2>4. SingleValues(Normalized(s.headers, o)) /\ SingleValues(Normalized(first.headers, p))
    BY <2>1, StoredSingle
  <2> HIDE DEF x, y
  <2>5. SingleValues(x.headers) /\ SingleValues(y.headers)
    BY <2>3, <2>4
  <2>6. requestHash(x) = requestHash(y)
    BY <2>2 DEF x, y
  <2>7. /\ x.target_id = y.target_id /\ x.url = y.url /\ x.method = y.method
        /\ x.headers = y.headers /\ x.body = y.body
    BY <2>5, <2>6, HashTells
  <2>8. x = y
    BY <2>3, <2>7
  <2> QED
    BY <2>1, <2>8, SameContent DEF x, y
<1> QED
  BY <1>1, PathInvariant, PTL

(* The vendor gets what was submitted and the credential: a header of the  *)
(* caller arrives complete unless its first value is empty and it gives    *)
(* way, and no value of the credential is lost unless it is empty          *)
(* (Service.validate, Client.Deliver).                                     *)
THEOREM WireKept == Spec => []WireFaithful
<1>1. ASSUME PathInv PROVE WireFaithful
  <2> DEFINE c == last.by
             w == last.result.wire
             cr == c[first.target_id].credential
             names == {NameOf(s) : s \in DOMAIN cr}
             h == row.request.headers
  <2> SUFFICES ASSUME Sent
               PROVE  /\ w.url = [first.url EXCEPT !.host = DialHost[@]]
                      /\ w.body = first.body
                      /\ w.method = Upper[first.method]
                      /\ \A n \in DOMAIN w.headers \ names : w.headers[n] \in Submitted(n)
                      /\ \A n \in names : \E s \in DOMAIN cr :
                           NameOf(s) = n /\ w.headers[n] = <<cr[s]>>
                      /\ \A s \in DOMAIN cr :
                           cr[s] # Blank => w.headers[NameOf(s)] = <<cr[s]>>
                      /\ \A s \in DOMAIN first.headers :
                           first.headers[s] # <<>> => Canonical[s] \in DOMAIN w.headers
                      /\ \A n \in names : \E vs \in Submitted(n) : vs = <<>> \/ vs[1] = Blank
    BY DEF WireFaithful
  <2>1. /\ c \in Configuration /\ row # NoRow
        /\ \E o \in Orders(CredentialNames(c)) : last.result = Delivered(c, last.addresses, o)
    BY <1>1 DEF Sent, PathInv, DeliverInv
  <2>2. PICK o \in Orders(CredentialNames(c)) :
               last.result = Delivered(c, last.addresses, o)
    BY <2>1
  <2>3. first \in Submission /\ \E p \in Orders(DOMAIN first.headers) : row = Stored(first, p)
    BY <1>1, <2>1 DEF PathInv, RowInv
  <2>4. PICK p \in Orders(DOMAIN first.headers) : row = Stored(first, p)
    BY <2>3
  <2>5. /\ row.request.target_id = first.target_id /\ row.request.url = first.url
        /\ row.request.method = Upper[first.method] /\ row.request.body = first.body
        /\ h = Normalized(first.headers, p)
    BY <2>4, RowColumns
  <2> DEFINE r == WithCredential(h, cr, o)
  <2>6. /\ Usable(c) /\ ~r.conflict
        /\ w = [url |-> [row.request.url EXCEPT !.host = DialHost[@]],
                method |-> row.request.method,
                headers |-> r.headers, body |-> row.request.body]
    BY <2>2, <2>5 DEF Sent, Delivered, Failed
  <2>7. o \in Orders(DOMAIN cr) /\ IsFiniteSet(DOMAIN cr)
    BY <2>1, <2>2, <2>5, <2>6, RequestAssumption DEF CredentialNames, Usable
  <2>8. /\ h = [n \in DOMAIN h |-> h[n]]
        /\ \A n \in DOMAIN h : h[n] \in Submitted(n)
        /\ \A n : n \notin DOMAIN h => <<>> \in Submitted(n)
        /\ \A t \in DOMAIN first.headers :
             first.headers[t] # <<>> => Canonical[t] \in DOMAIN h
    <3>1. \A n : Submitted(n) = Given(first.headers, n)
      BY DEF Submitted, Given
    <3> HIDE DEF h
    <3> QED
      BY <2>3, <2>5, <3>1, StoredValues
  <2> DEFINE g == w.headers
             k == Len(o)
  <2>9. Merged(g, h, cr, o, k)
    <3>1. Merged(r.headers, h, cr, o, k)
      <4> HIDE DEF h, cr
      <4> QED
        BY <2>6, <2>7, <2>8, MergedCredential
    <3> HIDE DEF r
    <3> QED
      BY <2>6, <3>1
  <2>10. /\ \A j \in 1 .. k : o[j] \in DOMAIN cr
         /\ \A s \in DOMAIN cr : \E j \in 1 .. k : o[j] = s
    <3> HIDE DEF cr
    <3> QED
      BY <2>7, OrderOnce, ElementOfSeq
  <2>11. /\ w.url = [first.url EXCEPT !.host = DialHost[@]]
         /\ w.body = first.body /\ w.method = Upper[first.method]
    BY <2>5, <2>6
  <2> HIDE DEF w, h, cr, g, k
  <2>12. DOMAIN g = DOMAIN h \cup names
    <3>1. DOMAIN g = DOMAIN h \cup {NameOf(o[j]) : j \in 1 .. k}
      BY <2>9 DEF Merged
    <3>2. {NameOf(o[j]) : j \in 1 .. k} = names
      BY <2>10
    <3> QED
      BY <3>1, <3>2
  <2>13. ASSUME NEW n \in DOMAIN g \ names PROVE g[n] \in Submitted(n)
    <3>1. n \in DOMAIN h /\ g[n] = h[n]
      BY <2>9, <2>10, <2>12 DEF Merged
    <3> QED
      BY <2>8, <3>1
  <2>14. ASSUME NEW n \in names
         PROVE  /\ \E s \in DOMAIN cr : NameOf(s) = n /\ g[n] = <<cr[s]>>
                /\ \E vs \in Submitted(n) : vs = <<>> \/ vs[1] = Blank
    <3>1. PICK j \in 1 .. k : NameOf(o[j]) = n
      BY <2>10
    <3>2. /\ \E i \in 1 .. k : NameOf(o[i]) = n /\ g[n] = <<cr[o[i]]>>
          /\ n \in DOMAIN h => h[n][1] = Blank
      BY <2>9, <3>1 DEF Merged
    <3> QED
      BY <2>8, <2>10, <3>2
  <2>15. ASSUME NEW s \in DOMAIN cr, cr[s] # Blank PROVE g[NameOf(s)] = <<cr[s]>>
    <3>1. PICK j \in 1 .. k : o[j] = s
      BY <2>10
    <3>2. cr[o[j]] # Blank => g[NameOf(o[j])] = <<cr[o[j]]>>
      BY <2>9 DEF Merged
    <3> QED
      BY <2>15, <3>1, <3>2
  <2> HIDE DEF names
  <2> QED
    BY <2>8, <2>11, <2>12, <2>13, <2>14, <2>15 DEF g
<1> QED
  BY <1>1, PathInvariant, PTL
=============================================================================
