----------------------------- MODULE MCAdmission -----------------------------
(***************************************************************************)
(* Admission on small instances.                                           *)
(***************************************************************************)
EXTENDS Admission, TLC

CONSTANTS k1, k2, a1, a2, x1, x2, n1, n2, n3

MCSymmetry ==
  Permutations(Key) \cup Permutations(Client) \cup Permutations(Ids)
=============================================================================
