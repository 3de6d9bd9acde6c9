------------------------------ MODULE Lifecycle ------------------------------
(***************************************************************************)
(* What the service promises about one notification, whatever the workers, *)
(* the clock and the crashes do: the state diagram of docs/DESIGN.md with  *)
(* the attempt budget on its edges.  life[i] is the state of notification  *)
(* i, the number of its run and the attempts the run has spent.            *)
(*                                                                         *)
(* One database transaction may move several notifications, each along an  *)
(* edge of its own.                                                        *)
(***************************************************************************)
EXTENDS Domain

CONSTANTS Id,      \* notification identifiers
          Limit    \* the attempt limits a notification can be given

VARIABLE life

Life == [status : RowStatus, run : Nat, spent : Nat, limit : Limit,
         reason : StopReason]

-----------------------------------------------------------------------------
(* The edges: b is what a becomes.                                         *)

Accept(a, b) ==
  /\ a.status = "absent" /\ b.status = "pending"
  /\ b.run = 1 /\ b.spent = 0 /\ b.reason = ""

SameRun(a, b) == b.run = a.run /\ b.limit = a.limit

Start(a, b) ==
  /\ a.status = "pending" /\ b.status = "processing"
  /\ a.spent < a.limit
  /\ SameRun(a, b) /\ b.spent = a.spent + 1 /\ b.reason = ""

TryAgain(a, b) ==
  /\ a.status = "processing" /\ b.status = "pending"
  /\ a.spent < a.limit
  /\ SameRun(a, b) /\ b.spent = a.spent /\ b.reason = ""

Success(a, b) ==
  /\ a.status = "processing" /\ b.status = "succeeded"
  /\ SameRun(a, b) /\ b.spent = a.spent /\ b.reason = ""

(* A run fails before it is exhausted only by a permanent error or by      *)
(* expiry, and only expiry ends a run that is waiting.                     *)
Failure(a, b) ==
  /\ a.status \in Active /\ b.status = "failed"
  /\ SameRun(a, b) /\ b.spent = a.spent /\ b.reason # ""
  /\ b.reason = "RETRY_EXHAUSTED" => a.spent = a.limit
  /\ b.reason = "EXPIRED" => a.spent < a.limit
  /\ a.status = "pending" => b.reason = "EXPIRED"

NewRun(a, b) ==
  /\ a.status = "failed" /\ b.status = "pending"
  /\ b.run = a.run + 1 /\ b.spent = 0 /\ b.limit = a.limit /\ b.reason = ""

Remove(a, b) == a.status \in Terminal /\ b.status = "deleted"

Edge(a, b) ==
  \/ Accept(a, b)
  \/ Start(a, b)
  \/ TryAgain(a, b)
  \/ Success(a, b)
  \/ Failure(a, b)
  \/ NewRun(a, b)
  \/ Remove(a, b)

-----------------------------------------------------------------------------
Init ==
  /\ life \in [Id -> Life]
  /\ \A i \in Id : life[i].status = "absent"

Next == \A i \in Id : life'[i] = life[i] \/ Edge(life[i], life'[i])

Spec == Init /\ [][Next]_life
=============================================================================
