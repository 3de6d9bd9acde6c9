-------------------------------- MODULE Turns --------------------------------
(***************************************************************************)
(* The turns of the targets while the process is busy: a scan finds at most*)
(* Slots free slots, and every target has at most one due row and room for *)
(* it.  A whole scan is one step, in which the first targets of the rotated*)
(* list are claimed; Manager has the scan in its steps.                    *)
(***************************************************************************)
EXTENDS Rotation, FiniteSets

CONSTANTS Configured,   \* cfg.Targets
          Slots         \* free slots a scan finds, at most

VARIABLES due, nextTarget

vars == <<due, nextTarget>>

Init ==
  /\ due = <<>>
  /\ nextTarget = 0

RowDue(t) ==
  /\ t \notin Range(due)
  /\ due' = Append(due, t)
  /\ UNCHANGED nextTarget

ScanClaims(free) ==
  LET ready == ReadyTargets(due, Cardinality(Configured))
      taken == Range(SubSeq(Rotated(ready, nextTarget), 1,
                            IF Len(ready) < free THEN Len(ready) ELSE free))
  IN  /\ due # <<>>
      /\ due' = SelectSeq(due, LAMBDA t : t \notin taken)
      /\ nextTarget' = NextStart(nextTarget, ready)

Next ==
  \/ \E t \in Configured : RowDue(t)
  \/ \E free \in 1 .. Slots : ScanClaims(free)

(* Scans go on.                                                            *)
Spec ==
  Init /\ [][Next]_vars /\ WF_vars(\E free \in 1 .. Slots : ScanClaims(free))

-----------------------------------------------------------------------------
(* docs/DESIGN.md, operation: targets are chosen fairly.  A target with a  *)
(* due row is claimed in the end, whatever rows of other targets arrive.   *)
EveryTargetClaimed ==
  \A t \in Configured : t \in Range(due) ~> t \notin Range(due)
=============================================================================
