------------------------------ MODULE MCManager ------------------------------
(***************************************************************************)
(* Manager on small instances.                                             *)
(***************************************************************************)
EXTENDS Manager

CONSTANTS c1, c2, r1

MCOneEach == [t \in Configured |-> 1]
MCTwoAndOne == [t \in Configured |-> IF t = c1 THEN 2 ELSE 1]
=============================================================================
