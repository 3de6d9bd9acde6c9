------------------------------- MODULE MCReads -------------------------------
(***************************************************************************)
(* Reads on notifications of one of two callers and of two targets; the    *)
(* walks filter by nothing, by a status that rows enter and leave, and by  *)
(* both status and target.                                                 *)
(***************************************************************************)
EXTENDS Reads

MCOwner == [i \in Id |-> "c"]
MCTargetOf == [i \in Id |-> IF i = 1 THEN "s" ELSE "t"]
MCFilter ==
  {[status |-> "", target_id |-> ""], [status |-> "pending", target_id |-> ""],
   [status |-> "failed", target_id |-> "t"]}
=============================================================================
