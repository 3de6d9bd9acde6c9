---------------------------- MODULE RequestDigest ----------------------------
(***************************************************************************)
(* The header merge of Service.validate and requestHash: the digest by     *)
(* which a repeated idempotency key is compared.                           *)
(*                                                                         *)
(* SHA-256 over length-prefixed parts tells sequences of parts apart, so   *)
(* the digest is modelled as that sequence.  Names, values and bodies are  *)
(* strings and may coincide.                                               *)
(***************************************************************************)
EXTENDS Integers, Sequences, FiniteSets, SequencesExt

CONSTANTS Spelling,     \* header names as callers spell them
          Canonical,    \* http.CanonicalHeaderKey of every spelling
          NameOrder     \* the canonical names in byte order

ASSUME DigestAssumption ==
  /\ DOMAIN Canonical = Spelling
  /\ Range(Canonical) = Range(NameOrder)
  /\ NameOrder \in Seq(Spelling)
  /\ \A i, j \in DOMAIN NameOrder : NameOrder[i] = NameOrder[j] => i = j
  /\ \A n \in Range(NameOrder) : Canonical[n] = n

(* A map is iterated in any order.                                         *)
Orders(S) == {o \in [1 .. Cardinality(S) -> S] : Range(o) = S}

(* Fault: names are taken as they are spelled.                             *)
NameOf_AsSpelled(s) == s

NameOf(s) == Canonical[s]

(* The values of the spellings of one name, in the order the map yields    *)
(* them, are appended to one list.                                         *)
Values(headers, order, n) ==
  FlattenSeq([i \in DOMAIN order |->
                IF NameOf(order[i]) = n THEN headers[order[i]] ELSE <<>>])

(* A header without values disappears.                                     *)
Normalized(headers, order) ==
  [n \in {NameOf(s) : s \in {t \in DOMAIN headers : headers[t] # <<>>}} |->
     Values(headers, order, n)]

(* Fault: only the values are written.                                     *)
Parts_ValuesOnly(headers) ==
  FlattenSeq([i \in DOMAIN NameOrder |->
                IF NameOrder[i] \in DOMAIN headers THEN headers[NameOrder[i]] ELSE <<>>])

(* The names in their order, each with its values.                         *)
Parts(headers) ==
  FlattenSeq([i \in DOMAIN NameOrder |->
                IF NameOrder[i] \in DOMAIN headers
                THEN <<NameOrder[i]>> \o headers[NameOrder[i]] ELSE <<>>])

requestHash(n) ==
  <<n.target_id, n.url, n.method>> \o Parts(n.headers) \o <<n.body>>
=============================================================================
