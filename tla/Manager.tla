------------------------------- MODULE Manager -------------------------------
(***************************************************************************)
(* internal/worker/manager.go and the rest of main in cmd/notifier: the    *)
(* scan loop of one process, the slots it hands out, its HTTP server, and  *)
(* the shutdown of both under one deadline.                                *)
(*                                                                         *)
(* Of the database only the queue of due rows is kept, as the targets of   *)
(* the rows in the order of next_attempt_at.  A row becomes due now, so it *)
(* joins at the end; it leaves when it is claimed, here or by another      *)
(* process, or expires.  What the transactions do to rows is in Dispatch.  *)
(***************************************************************************)
EXTENDS Rotation, FiniteSets

CONSTANTS Configured,      \* cfg.Targets
          Removed,         \* targets of old rows, no longer configured
          MaxConcurrency,  \* max_concurrency of every configured target
          Workers,         \* WORKERS
          MaxDue,          \* bound: rows due at a time
          MaxHandlers      \* bound: requests served at a time

ASSUME ManagerAssumption ==
  /\ IsFiniteSet(Configured)
  /\ Configured # {}
  /\ Configured \cap Removed = {}
  /\ MaxConcurrency \in [Configured -> Nat \ {0}]
  /\ Workers \in Nat \ {0}
  /\ MaxDue \in Nat /\ MaxHandlers \in Nat

VARIABLES due,         \* targets of the due rows, oldest row first
          pc,          \* where the goroutine of Run is
          scan,        \* the local variables of scan
          nextTarget,  \* where the next rotation starts
          global,      \* taken slots of the process
          slots,       \* taken slots of every target
          executing,   \* executions holding both of their slots
          freed,       \* executions that have released their target's slot
          wg,          \* the WaitGroup
          cancelled,   \* the context of Run is done
          main,        \* where main is
          listening,   \* the HTTP server accepts requests
          handlers,    \* requests being served
          drained,     \* Shutdown found no request being served
          expired      \* shutdownCtx is done

scanVars == <<pc, scan, nextTarget>>
slotVars == <<global, slots, executing, freed, wg>>
httpVars == <<listening, handlers>>
mainVars == <<cancelled, main, drained, expired>>

vars == <<due, scanVars, slotVars, httpVars, mainVars>>

AllTarget == Configured \cup Removed

(* early says that the context was not cancelled when the scan, and later  *)
(* the claim being made, began.                                            *)
Scan == [targetIDs : Seq(AllTarget), pos : Nat, available : Nat,
         claimedAny : BOOLEAN, early : BOOLEAN]

NoScan == [targetIDs |-> <<>>, pos |-> 1, available |-> 0,
           claimedAny |-> FALSE, early |-> FALSE]

TypeOK ==
  /\ due \in Seq(AllTarget)
  /\ pc \in {"idle", "querying", "choosing", "claiming", "stopped"}
  /\ scan \in Scan
  /\ slots \in [Configured -> Nat] /\ executing \in [Configured -> Nat]
  /\ {nextTarget, global, freed, wg, handlers} \subseteq Nat
  /\ main \in {"serving", "draining", "awaiting run", "awaiting group", "clean", "forced"}
  /\ {cancelled, listening, drained, expired} \subseteq BOOLEAN

Init ==
  /\ \E n \in 0 .. MaxDue : due \in [1 .. n -> AllTarget]
  /\ pc = "idle" /\ scan = NoScan /\ nextTarget = 0
  /\ global = 0 /\ freed = 0 /\ wg = 0
  /\ slots = [t \in Configured |-> 0]
  /\ executing = [t \in Configured |-> 0]
  /\ listening = TRUE /\ handlers = 0
  /\ main = "serving" /\ cancelled = FALSE /\ drained = FALSE /\ expired = FALSE

(* main has returned, and every goroutine with it.                         *)
Exited == main \in {"clean", "forced"}

At(place) == ~Exited /\ pc = place

-----------------------------------------------------------------------------
(* The database                                                            *)

(* A row is created, retried, recovered or replayed and is due at once or  *)
(* after its delay.                                                        *)
RowDue(t) ==
  /\ ~Exited
  /\ Len(due) < MaxDue
  /\ due' = Append(due, t)
  /\ UNCHANGED <<scanVars, slotVars, httpVars, mainVars>>

(* A row expires, or another process claims it.                            *)
RowGone(k) ==
  /\ ~Exited
  /\ due' = RemoveAt(due, k)
  /\ UNCHANGED <<scanVars, slotVars, httpVars, mainVars>>

-----------------------------------------------------------------------------
(* The scan                                                                *)

(* The tick, the maintenance of Cleanup, Recover and ExpirePending (whose  *)
(* effect here is RowDue and RowGone), and the count of free slots.  With  *)
(* none free the scan ends there.                                          *)
BeginScan ==
  /\ At("idle")
  /\ global < Workers
  /\ pc' = "querying"
  /\ scan' = [NoScan EXCEPT !.available = Workers - global, !.early = ~cancelled]
  /\ UNCHANGED <<due, nextTarget, slotVars, httpVars, mainVars>>

(* ReadyTargets, then rotate; a cancelled context begins no query.         *)
QueryTargets ==
  LET ready == ReadyTargets(due, Cardinality(Configured))
  IN  /\ At("querying")
      /\ scan.early
      /\ pc' = "choosing"
      /\ scan' = [scan EXCEPT !.targetIDs = Rotated(ready, nextTarget)]
      /\ nextTarget' = NextStart(nextTarget, ready)
      /\ UNCHANGED <<due, slotVars, httpVars, mainVars>>

QueryFails ==
  /\ At("querying")
  /\ pc' = "idle" /\ scan' = NoScan
  /\ UNCHANGED <<due, nextTarget, slotVars, httpVars, mainVars>>

InRound ==
  /\ At("choosing")
  /\ scan.available > 0
  /\ scan.pos <= Len(scan.targetIDs)

Candidate == scan.targetIDs[scan.pos]

TargetFree(t) == t \in Configured /\ slots[t] < MaxConcurrency[t]

Passed(s) == [s EXCEPT !.pos = @ + 1]

(* The target is not configured or has no slot left.                       *)
SkipTarget ==
  /\ InRound
  /\ ~TargetFree(Candidate)
  /\ scan' = Passed(scan)
  /\ UNCHANGED <<due, pc, nextTarget, slotVars, httpVars, mainVars>>

TakeSlots ==
  /\ InRound
  /\ TargetFree(Candidate)
  /\ global < Workers
  /\ global' = global + 1
  /\ slots' = [slots EXCEPT ![Candidate] = @ + 1]
  /\ pc' = "claiming"
  /\ scan' = [scan EXCEPT !.early = ~cancelled]
  /\ UNCHANGED <<due, nextTarget, executing, freed, wg, httpVars, mainVars>>

(* Fault: the count of free slots is not brought down by a claim.          *)
Claimed_KeepsAvailable(s) == [Passed(s) EXCEPT !.claimedAny = TRUE]

Claimed(s) == [Passed(s) EXCEPT !.available = @ - 1, !.claimedAny = TRUE]

(* The transaction picks the oldest row of the target that nobody has      *)
(* locked; under a cancelled context no transaction begins.                *)
ClaimSucceeds(k) ==
  /\ At("claiming")
  /\ scan.early
  /\ due[k] = Candidate
  /\ due' = RemoveAt(due, k)
  /\ executing' = [executing EXCEPT ![Candidate] = @ + 1]
  /\ wg' = wg + 1
  /\ pc' = "choosing" /\ scan' = Claimed(scan)
  /\ UNCHANGED <<nextTarget, global, slots, freed, httpVars, mainVars>>

(* Faults: the target's slot is given back twice, or it alone is.          *)
GiveBack_Twice(t) == global' = global - 1 /\ slots' = [slots EXCEPT ![t] = @ - 2]
GiveBack_TargetOnly(t) == global' = global /\ slots' = [slots EXCEPT ![t] = @ - 1]

GiveBack(t) == global' = global - 1 /\ slots' = [slots EXCEPT ![t] = @ - 1]

(* Nothing to claim after all, or the transaction fails.                   *)
ClaimFails ==
  /\ At("claiming")
  /\ GiveBack(Candidate)
  /\ pc' = "choosing" /\ scan' = Passed(scan)
  /\ UNCHANGED <<due, nextTarget, executing, freed, wg, httpVars, mainVars>>

RoundOver == scan.pos > Len(scan.targetIDs)

(* Fault: the next round starts as if it had claimed something.            *)
Rewound_KeepsFlag(s) == [s EXCEPT !.pos = 1]

Rewound(s) == [s EXCEPT !.pos = 1, !.claimedAny = FALSE]

NextRound ==
  /\ At("choosing")
  /\ RoundOver /\ scan.claimedAny /\ scan.available > 0
  /\ scan' = Rewound(scan)
  /\ UNCHANGED <<due, pc, nextTarget, slotVars, httpVars, mainVars>>

EndScan ==
  /\ At("choosing")
  /\ scan.available = 0 \/ (RoundOver /\ ~scan.claimedAny)
  /\ pc' = "idle" /\ scan' = NoScan
  /\ UNCHANGED <<due, nextTarget, slotVars, httpVars, mainVars>>

-----------------------------------------------------------------------------
(* The executions: the deferred calls of execute run in this order.        *)

FinishDelivery(t) ==
  /\ ~Exited
  /\ executing[t] > 0
  /\ executing' = [executing EXCEPT ![t] = @ - 1]
  /\ slots' = [slots EXCEPT ![t] = @ - 1]
  /\ freed' = freed + 1
  /\ UNCHANGED <<due, scanVars, global, wg, httpVars, mainVars>>

EndExecution ==
  /\ ~Exited
  /\ freed > 0
  /\ freed' = freed - 1 /\ global' = global - 1 /\ wg' = wg - 1
  /\ UNCHANGED <<due, scanVars, slots, executing, httpVars, mainVars>>

-----------------------------------------------------------------------------
(* The HTTP server                                                         *)

Request ==
  /\ ~Exited
  /\ listening /\ handlers < MaxHandlers
  /\ handlers' = handlers + 1
  /\ UNCHANGED <<due, scanVars, slotVars, listening, mainVars>>

Respond ==
  /\ ~Exited
  /\ handlers > 0
  /\ handlers' = handlers - 1
  /\ UNCHANGED <<due, scanVars, slotVars, listening, mainVars>>

(* ListenAndServe returns an error; requests being served go on.           *)
ServerFails ==
  /\ main = "serving"
  /\ listening' = FALSE
  /\ UNCHANGED <<due, scanVars, slotVars, handlers, mainVars>>

-----------------------------------------------------------------------------
(* Shutdown                                                                *)

(* A signal or the server's error: stopWorkers, then httpServer.Shutdown,  *)
(* which first closes the listener.                                        *)
Shutdown ==
  /\ main = "serving"
  /\ main' = "draining" /\ cancelled' = TRUE /\ listening' = FALSE
  /\ UNCHANGED <<due, scanVars, slotVars, handlers, drained, expired>>

(* SHUTDOWN_TIMEOUT has passed since.                                      *)
Deadline ==
  /\ main \in {"draining", "awaiting run", "awaiting group"}
  /\ expired' = TRUE
  /\ UNCHANGED <<due, scanVars, slotVars, httpVars, cancelled, main, drained>>

(* Shutdown polls for idle connections before it looks at the deadline.    *)
ShutdownReturns ==
  /\ main = "draining"
  /\ handlers = 0 \/ expired
  /\ main' = "awaiting run" /\ drained' = (handlers = 0)
  /\ UNCHANGED <<due, scanVars, slotVars, httpVars, cancelled, expired>>

(* The select of Run may prefer a waiting tick, but not for ever.          *)
RunReturns ==
  /\ At("idle")
  /\ cancelled
  /\ pc' = "stopped"
  /\ UNCHANGED <<due, scan, nextTarget, slotVars, httpVars, mainVars>>

(* Fault: Wait does not wait for Run.                                      *)
LoopOver_Assumed == TRUE

LoopOver == pc = "stopped"

(* The two selects of Wait: when the deadline has passed as well, either   *)
(* branch may be taken.                                                    *)
WaitAdvances ==
  /\ \/ main = "awaiting run" /\ LoopOver /\ main' = "awaiting group"
     \/ main = "awaiting group" /\ wg = 0 /\ main' = "clean"
     \/ main \in {"awaiting run", "awaiting group"} /\ expired /\ main' = "forced"
  /\ UNCHANGED <<due, scanVars, slotVars, httpVars, cancelled, drained, expired>>

-----------------------------------------------------------------------------
Next ==
  \/ \E t \in AllTarget : RowDue(t)
  \/ \E k \in DOMAIN due : RowGone(k)
  \/ BeginScan \/ QueryTargets \/ QueryFails
  \/ SkipTarget \/ TakeSlots
  \/ \E k \in DOMAIN due : ClaimSucceeds(k)
  \/ ClaimFails
  \/ NextRound \/ EndScan
  \/ \E t \in Configured : FinishDelivery(t)
  \/ EndExecution
  \/ Request \/ Respond \/ ServerFails
  \/ Shutdown \/ Deadline \/ ShutdownReturns
  \/ RunReturns \/ WaitAdvances

Spec == Init /\ [][Next]_vars

(* The goroutine of Run and the executions keep going (every call they     *)
(* make has a timeout or an answer), and neither the query nor the claims  *)
(* fail for ever.                                                          *)
Fairness ==
  /\ WF_vars(BeginScan)
  /\ SF_vars(QueryTargets)
  /\ WF_vars(SkipTarget \/ TakeSlots \/ NextRound \/ EndScan)
  /\ WF_vars(ClaimFails \/ \E k \in DOMAIN due : ClaimSucceeds(k))
  /\ SF_vars(\E k \in DOMAIN due : ClaimSucceeds(k))
  /\ \A t \in Configured : WF_vars(FinishDelivery(t))
  /\ WF_vars(EndExecution)

FairSpec == Spec /\ Fairness

-----------------------------------------------------------------------------
Claiming(t) == IF pc = "claiming" /\ Candidate = t THEN 1 ELSE 0

Sum(f) == SumFunctionOnSet(f, Configured)

(* Every taken slot belongs to a delivery in progress or to the claim being*)
(* made, and the WaitGroup counts the executions: no path through scan and *)
(* execute loses a slot or gives one back twice.                           *)
SlotsAccounted ==
  /\ \A t \in Configured : slots[t] = executing[t] + Claiming(t)
  /\ global = Sum(executing) + freed + (IF pc = "claiming" THEN 1 ELSE 0)
  /\ wg = Sum(executing) + freed

(* The count of free slots that scan keeps to itself is never too high,    *)
(* although executions end meanwhile: whenever it wants a slot there is    *)
(* one, and the failing branch of tryAcquire(m.global) is never taken.     *)
SlotForEveryClaim == InRound => global + scan.available <= Workers

(* When Wait reports success the loop has ended and every execution is     *)
(* over, and when Shutdown did so too no request is being served: main     *)
(* closes the database under nobody, although the two share one deadline   *)
(* that may pass between them and a failed server is shut down like any.   *)
CleanExit ==
  main = "clean" =>
    /\ pc = "stopped" /\ wg = 0 /\ global = 0
    /\ drained => handlers = 0 /\ ~listening

(* A scan ends, however fast rows arrive and deliveries end meanwhile.     *)
ScanEnds ==
  pc \in {"choosing", "claiming"} ~> pc = "idle" \/ cancelled

Waiting == {k \in DOMAIN due : due[k] \in Configured}


(* docs/DESIGN.md, execution: rows of targets that are no longer valid must*)
(* not fill the candidates while a valid target has a due row.             *)
CandidatesUsable ==
  [][pc = "querying" /\ pc' = "choosing" =>
       (Configured \cap Range(due) # {} =>
          Configured \cap Range(scan'.targetIDs) # {})]_vars
=============================================================================
