----------------------------- MODULE MCDispatch -----------------------------
(***************************************************************************)
(* Dispatch on small instances.                                            *)
(***************************************************************************)
EXTENDS Dispatch, TLC

CONSTANTS i1, i2, t1, p1, p2, k1, k2

Seconds(s) == [kind |-> "seconds", amount |-> s]

(* One status of every class, with and without a Retry-After, and the two  *)
(* kinds of transport error.                                               *)
MCOutcomes == Answers({200, 404, 503}, {NoHeader, Seconds(2)})

(* A success and a failure that may be retried.                            *)
MCFewOutcomes == {HttpAnswer(s, NoHeader) : s \in {200, 503}}

MCSymmetry == Permutations(Proc) \cup Permutations(Token)
=============================================================================
