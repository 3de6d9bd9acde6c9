------------------------------ MODULE Rotation ------------------------------
(***************************************************************************)
(* Which target a scan tries first: the query ReadyTargets of the store    *)
(* and Manager.rotate.  queue holds the targets of the due rows, the row   *)
(* with the smallest next_attempt_at first.                                *)
(***************************************************************************)
EXTENDS Integers, Sequences, SequencesExt

(* GROUP BY target_id ORDER BY MIN(next_attempt_at) LIMIT n: the targets   *)
(* in the order of their oldest due row.                                   *)
ReadyTargets(queue, n) ==
  LET isFirst(k) == \A l \in 1 .. k - 1 : queue[l] # queue[k]
      targets == FoldLeftDomain(
        LAMBDA s, k : IF isFirst(k) THEN Append(s, queue[k]) ELSE s, <<>>, queue)
  IN  SubSeq(targets, 1, IF Len(targets) < n THEN Len(targets) ELSE n)

(* A list of one is not rotated and does not count as a turn.              *)
Rotated(s, next) ==
  LET start == next % Len(s)
  IN  IF Len(s) < 2
      THEN s
      ELSE SubSeq(s, start + 1, Len(s)) \o SubSeq(s, 1, start)

NextStart(next, s) == IF Len(s) < 2 THEN next ELSE (next + 1) % Len(s)
=============================================================================
