---------------------------- MODULE Manager_proofs ----------------------------
(***************************************************************************)
(* The accounts of the slots, the count of free ones and the clean exit,   *)
(* for any number of targets, workers, rows and requests.                  *)
(***************************************************************************)
EXTENDS Manager, Induction, SequenceTheorems

Held == IF pc = "claiming" THEN 1 ELSE 0

(* Every slot of the process belongs to an execution the WaitGroup counts, *)
(* or to the claim being made; what scan believes to be free is free.      *)
Slots ==
  /\ pc \in {"idle", "querying", "choosing", "claiming", "stopped"}
  /\ global \in Int /\ wg \in Int
  /\ DOMAIN scan = DOMAIN NoScan /\ scan.available \in Int
  /\ global = wg + Held
  /\ pc \in {"querying", "choosing", "claiming"} =>
       global + scan.available <= Workers + Held

(* How far main has got says what is over.                                 *)
Ending ==
  /\ drained \in BOOLEAN /\ handlers \in Nat
  /\ main \in {"awaiting group", "clean"} => pc = "stopped"
  /\ main = "clean" => wg = 0
  /\ main # "serving" => listening = FALSE
  /\ drained => handlers = 0 /\ main \notin {"serving", "draining"}

ManagerInv == Slots /\ Ending

LEMMA ScanFields ==
  ASSUME DOMAIN scan = DOMAIN NoScan
  PROVE  {"targetIDs", "pos", "available", "claimedAny", "early"} \subseteq DOMAIN scan
BY DEF NoScan

LEMMA ManagerInit == Init => ManagerInv
<1> SUFFICES ASSUME Init PROVE Slots /\ Ending
  BY DEF ManagerInv
<1>1. pc = "idle" /\ global = 0 /\ wg = 0 /\ scan = NoScan
  BY DEF Init
<1>2. NoScan.available = 0
  BY DEF NoScan
<1>3. Slots
  BY <1>1, <1>2 DEF Slots, Held
<1>4. Ending
  BY DEF Init, Ending
<1> QED
  BY <1>3, <1>4

-----------------------------------------------------------------------------
(* Steps that touch neither the loop, the slots nor main.                  *)
LEMMA RowSteps ==
  ASSUME ManagerInv, UNCHANGED <<scanVars, slotVars, httpVars, mainVars>>
  PROVE  ManagerInv'
BY DEF ManagerInv, Slots, Ending, Held, scanVars, slotVars, httpVars, mainVars

(* Steps of scan.                                                          *)
LEMMA ScanSteps ==
  ASSUME ManagerInv,
         \/ BeginScan \/ QueryTargets \/ QueryFails \/ SkipTarget \/ TakeSlots
         \/ (\E k \in DOMAIN due : ClaimSucceeds(k))
         \/ ClaimFails \/ NextRound \/ EndScan \/ RunReturns
  PROVE  ManagerInv'
<1> USE DEF ManagerInv
<1>1. /\ Workers \in Nat
      /\ {"targetIDs", "pos", "available", "claimedAny", "early"} \subseteq DOMAIN scan
  BY ManagerAssumption, ScanFields DEF Slots
<1>2. UNCHANGED <<httpVars, mainVars>>
  BY DEF BeginScan, QueryTargets, QueryFails, SkipTarget, TakeSlots,
         ClaimSucceeds, ClaimFails, NextRound, EndScan, RunReturns
<1>3. pc # "stopped" /\ main # "clean"
  BY DEF BeginScan, QueryTargets, QueryFails, SkipTarget, TakeSlots,
         ClaimSucceeds, ClaimFails, NextRound, EndScan, RunReturns,
         InRound, At, Exited
<1>4. Ending'
  BY <1>2, <1>3 DEF Ending, httpVars, mainVars
<1>5. CASE BeginScan
  BY <1>1, <1>4, <1>5 DEF BeginScan, Slots, Held, At, NoScan, slotVars
<1>6. CASE QueryTargets
  BY <1>1, <1>4, <1>6 DEF QueryTargets, Slots, Held, At, slotVars
<1>7. CASE QueryFails
  BY <1>1, <1>4, <1>7 DEF QueryFails, Slots, Held, At, NoScan, slotVars
<1>8. CASE SkipTarget
  BY <1>1, <1>4, <1>8 DEF SkipTarget, InRound, Passed, Slots, Held, At, slotVars
<1>9. CASE TakeSlots
  BY <1>1, <1>4, <1>9 DEF TakeSlots, InRound, Slots, Held, At
<1>10. CASE \E k \in DOMAIN due : ClaimSucceeds(k)
  BY <1>1, <1>4, <1>10 DEF ClaimSucceeds, Claimed, Passed, Slots, Held, At
<1>11. CASE ClaimFails
  BY <1>1, <1>4, <1>11 DEF ClaimFails, GiveBack, Passed, Slots, Held, At
<1>12. CASE NextRound
  BY <1>1, <1>4, <1>12 DEF NextRound, Rewound, Slots, Held, At, slotVars
<1>13. CASE EndScan
  BY <1>1, <1>4, <1>13 DEF EndScan, Slots, Held, At, NoScan, slotVars
<1>14. CASE RunReturns
  BY <1>1, <1>4, <1>14 DEF RunReturns, Slots, Held, At, slotVars
<1> QED
  BY <1>5, <1>6, <1>7, <1>8, <1>9, <1>10, <1>11, <1>12, <1>13, <1>14

(* Steps of an execution.                                                  *)
LEMMA ExecutionSteps ==
  ASSUME ManagerInv,
         (\E t \in Configured : FinishDelivery(t)) \/ EndExecution
  PROVE  ManagerInv'
<1>1. UNCHANGED <<scanVars, httpVars, mainVars>> /\ ~Exited
  BY DEF FinishDelivery, EndExecution
<1>2. pc' = pc /\ scan' = scan
  BY <1>1 DEF scanVars
<1>3. Ending'
  <2>1. main # "clean"
    BY <1>1 DEF Exited
  <2> QED
    BY <1>1, <1>2, <2>1 DEF ManagerInv, Ending, httpVars, mainVars
<1>4. Slots'
  <2>1. \/ global' = global /\ wg' = wg
        \/ global' = global - 1 /\ wg' = wg - 1
    BY DEF FinishDelivery, EndExecution
  <2>2. Workers \in Nat
    BY ManagerAssumption
  <2> QED
    BY <1>2, <2>1, <2>2 DEF ManagerInv, Slots, Held
<1> QED
  BY <1>3, <1>4 DEF ManagerInv

(* Steps of the HTTP server and of main.                                   *)
LEMMA MainSteps ==
  ASSUME ManagerInv,
         \/ Request \/ Respond \/ ServerFails
         \/ Shutdown \/ Deadline \/ ShutdownReturns \/ WaitAdvances
  PROVE  ManagerInv'
<1>1. UNCHANGED <<scanVars, slotVars>>
  BY DEF Request, Respond, ServerFails, Shutdown, Deadline, ShutdownReturns, WaitAdvances
<1>2. Slots'
  BY <1>1 DEF ManagerInv, Slots, Held, scanVars, slotVars
<1>3. Ending'
  <2> USE <1>1 DEF ManagerInv, Ending, scanVars, slotVars
  <2>1. CASE Request
    <3>1. listening # FALSE
      BY <2>1, Zenon DEF Request
    <3>2. main' = main /\ drained' = drained /\ handlers' = handlers + 1
      BY <2>1, Zenon DEF Request, mainVars
    <3>3. main = "serving"
      BY <3>1
    <3>4. ~drained'
      BY <3>2, <3>3
    <3> QED
      BY <3>2, <3>3, <3>4
  <2>2. CASE Respond
    <3>1. handlers > 0 /\ handlers' = handlers - 1
      BY <2>2, Zenon DEF Respond
    <3>2. main' = main /\ drained' = drained /\ listening' = listening
      BY <2>2, Zenon DEF Respond, mainVars
    <3>3. handlers \in Nat
      BY Zenon
    <3>4. handlers # 0 /\ handlers' \in Nat
      <4> HIDE DEF ManagerInv
      <4> QED
        BY <3>1, <3>3
    <3>5. ~drained'
      BY <3>2, <3>4, Zenon
    <3> QED
      BY <3>2, <3>4, <3>5, Zenon
  <2>3. CASE ServerFails
    BY <2>3 DEF ServerFails, mainVars
  <2>4. CASE Shutdown
    BY <2>4 DEF Shutdown
  <2>5. CASE Deadline
    BY <2>5 DEF Deadline, httpVars
  <2>6. CASE ShutdownReturns
    BY <2>6 DEF ShutdownReturns, httpVars
  <2>7. CASE WaitAdvances
    BY <2>7 DEF WaitAdvances, LoopOver, httpVars
  <2> QED
    BY <2>1, <2>2, <2>3, <2>4, <2>5, <2>6, <2>7
<1> QED
  BY <1>2, <1>3 DEF ManagerInv

LEMMA ManagerStep == ManagerInv /\ [Next]_vars => ManagerInv'
<1> SUFFICES ASSUME ManagerInv, [Next]_vars PROVE ManagerInv'
  OBVIOUS
<1>1. CASE UNCHANGED vars
  BY <1>1, RowSteps DEF vars
<1>2. CASE (\E t \in AllTarget : RowDue(t)) \/ (\E k \in DOMAIN due : RowGone(k))
  BY <1>2, RowSteps DEF RowDue, RowGone
<1>3. CASE Next /\ ~((\E t \in AllTarget : RowDue(t)) \/ (\E k \in DOMAIN due : RowGone(k)))
  BY <1>3, ScanSteps, ExecutionSteps, MainSteps DEF Next
<1> QED
  BY <1>1, <1>2, <1>3

LEMMA ManagerInvariant == Spec => []ManagerInv
BY ManagerInit, ManagerStep, PTL DEF Spec

-----------------------------------------------------------------------------
(* scan never wants a slot that is not there, however many executions end  *)
(* while it counts on its own: the branch in which tryAcquire(m.global)    *)
(* fails is dead code.                                                     *)
THEOREM SlotSafety == Spec => []SlotForEveryClaim
<1>1. ASSUME ManagerInv, InRound
      PROVE  global + scan.available <= Workers
  <2>1. pc = "choosing"
    BY <1>1 DEF InRound, At
  <2>2. Held = 0
    BY <2>1 DEF Held
  <2>3. global + scan.available <= Workers + Held
    BY <1>1, <2>1 DEF ManagerInv, Slots
  <2> QED
    BY <1>1, <2>2, <2>3, ManagerAssumption DEF ManagerInv, Slots
<1>2. ManagerInv => SlotForEveryClaim
  BY <1>1 DEF SlotForEveryClaim
<1> QED
  BY ManagerInvariant, <1>2, PTL

(* When Wait succeeds the loop and the executions are over, and after a    *)
(* successful Shutdown no request is served either: main closes the        *)
(* database under nobody.                                                  *)
THEOREM ShutdownSafety == Spec => []CleanExit
<1>1. ManagerInv => CleanExit
  BY DEF ManagerInv, Slots, Ending, Held, CleanExit
<1> QED
  BY ManagerInvariant, <1>1, PTL

-----------------------------------------------------------------------------
(* The order of the candidates                                             *)

(* A set of numbers up to n that is not empty has a largest one.           *)
LEMMA LargestNumber ==
  ASSUME NEW n \in Nat, NEW U \in SUBSET (1 .. n), U # {}
  PROVE  Max(U) \in U
<1> DEFINE B == {n - x : x \in U}
<1>1. B \in SUBSET Nat /\ B # {}
  <2>1. \A x \in U : n - x \in Nat
    OBVIOUS
  <2> QED
    BY <2>1
<1> HIDE DEF B
<1>2. PICK m \in B : \A k \in B : m <= k
  BY <1>1, LeastNumber
<1>3. PICK x \in U : m = n - x
  BY <1>2 DEF B
<1>4. ASSUME NEW y \in U PROVE x >= y
  <2>1. n - y \in B
    BY DEF B
  <2>2. n - x <= n - y /\ x \in Int /\ y \in Int
    BY <1>2, <1>3, <2>1
  <2> QED
    BY <2>2
<1>5. \E x_1 \in U : \A y \in U : x_1 >= y
  BY <1>4
<1> QED
  BY <1>5 DEF Max

(* The query answers with targets of due rows, in whatever order.          *)
LEMMA ReadyType ==
  ASSUME NEW T, NEW queue \in Seq(T), NEW n \in Nat
  PROVE  ReadyTargets(queue, n) \in Seq(T)
<1> DEFINE ids == [i \in DOMAIN queue |-> i]
           isFirst(k) == \A l \in 1 .. k - 1 : queue[l] # queue[k]
           Body(s) == [U \in SUBSET DOMAIN ids |->
             IF U = {} THEN <<>>
             ELSE LET x == Max(U)
                  IN  IF isFirst(ids[x])
                      THEN Append(s[U \ {x}], queue[ids[x]]) ELSE s[U \ {x}]]
           targets == CHOOSE s : s = Body(s)
           S == DOMAIN queue
           pick == [U \in SUBSET S |-> Max(U)]
           g == [k \in S |-> [s \in Seq(T) |->
                  IF isFirst(k) THEN Append(s, queue[k]) ELSE s]]
<1>1. /\ S = 1 .. Len(queue) /\ Len(queue) \in Nat /\ IsFiniteSet(S)
      /\ \A k \in S : queue[k] \in T
  BY FS_Interval
<1>2. \A U \in SUBSET S : U # {} => Max(U) \in U /\ pick[U] = Max(U)
  BY <1>1, LargestNumber
<1>3. g \in Steps(S, Seq(T))
  <2> HIDE DEF isFirst
  <2>1. \A k \in S, s \in Seq(T) : (IF isFirst(k) THEN Append(s, queue[k]) ELSE s) \in Seq(T)
    BY <1>1
  <2> QED
    BY <2>1 DEF Steps
<1> HIDE DEF pick, g
<1>4. <<>> \in Seq(T) /\ Chooses(pick, S)
  <2>1. <<>> \in Seq(T)
    OBVIOUS
  <2>2. Chooses(pick, S)
    BY <1>2 DEF Chooses
  <2> QED
    BY <2>1, <2>2
<1>5. PICK a : Accumulates(a, S, Seq(T), <<>>, g, pick)
  <2> HIDE DEF S
  <2> QED
    BY <1>1, <1>3, <1>4, SubsetRecursion
<1>6. a = Body(a)
  <2>1. DOMAIN ids = S /\ \A k \in S : ids[k] = k
    OBVIOUS
  <2>2. ASSUME NEW U \in SUBSET S, U # {}
        PROVE  a[U] = IF isFirst(Max(U))
                      THEN Append(a[U \ {Max(U)}], queue[Max(U)]) ELSE a[U \ {Max(U)}]
    <3>1. pick[U] = Max(U) /\ Max(U) \in S /\ U \ {Max(U)} \in SUBSET S
      BY <1>2, <2>2
    <3>2. a[U \ {Max(U)}] \in Seq(T)
      BY <1>5, <3>1 DEF Accumulates
    <3>3. a[U] = g[Max(U)][a[U \ {Max(U)}]]
      BY <1>5, <2>2, <3>1 DEF Accumulates
    <3> HIDE DEF isFirst, S
    <3> QED
      BY <3>1, <3>2, <3>3 DEF g
  <2>3. a \in [SUBSET S -> Seq(T)] /\ a[{}] = <<>>
    BY <1>5 DEF Accumulates
  <2>4. a = [U \in SUBSET S |->
               IF U = {} THEN <<>>
               ELSE IF isFirst(Max(U))
                    THEN Append(a[U \ {Max(U)}], queue[Max(U)]) ELSE a[U \ {Max(U)}]]
    <3> HIDE DEF isFirst, S
    <3> QED
      BY <2>2, <2>3
  <2>5. Body(a) = [U \in SUBSET S |->
               IF U = {} THEN <<>>
               ELSE IF isFirst(Max(U))
                    THEN Append(a[U \ {Max(U)}], queue[Max(U)]) ELSE a[U \ {Max(U)}]]
    <3>1. \A U \in SUBSET S : U # {} => ids[Max(U)] = Max(U)
      BY <1>2, <2>1
    <3> HIDE DEF ids, isFirst, S
    <3> QED
      BY <2>1, <3>1
  <2> HIDE DEF Body
  <2> QED
    BY <2>4, <2>5
<1>7. targets = Body(targets)
  <2> HIDE DEF Body
  <2> QED
    BY <1>6
<1>8. ReadyTargets(queue, n)
        = SubSeq(targets[S], 1, IF Len(targets[S]) < n THEN Len(targets[S]) ELSE n)
  BY DEF ReadyTargets, FoldLeftDomain, FoldLeft, MapThenFoldSet
<1> HIDE DEF targets
<1>9. /\ targets[{}] = <<>>
      /\ \A U \in SUBSET S : U # {} =>
           targets[U] = IF isFirst(Max(U))
                        THEN Append(targets[U \ {Max(U)}], queue[Max(U)])
                        ELSE targets[U \ {Max(U)}]
  BY <1>2, <1>7
<1> DEFINE C == {U \in SUBSET S : targets[U] \in Seq(T)}
<1> HIDE DEF isFirst
<1>10. ASSUME NEW U \in SUBSET S, \A x \in U : U \ {x} \in C
       PROVE  targets[U] \in Seq(T)
  <2>1. CASE U = {}
    <3>1. targets[U] = <<>> /\ <<>> \in Seq(T)
      BY <1>9, <2>1
    <3> QED
      BY <3>1
  <2>2. CASE U # {}
    <3>1. Max(U) \in S /\ targets[U \ {Max(U)}] \in Seq(T)
      BY <1>2, <1>10, <2>2
    <3>2. queue[Max(U)] \in T
      BY <1>1, <3>1
    <3> DEFINE s == targets[U \ {Max(U)}]
    <3>3. targets[U] \in {Append(s, queue[Max(U)]), s}
      BY <1>9, <2>2
    <3>4. Append(s, queue[Max(U)]) \in Seq(T)
      <4> HIDE DEF s
      <4> QED
        BY <3>1, <3>2 DEF s
    <3> QED
      BY <3>1, <3>3, <3>4
  <2> QED
    BY <2>1, <2>2
<1>11. Inductive(C, S)
  BY <1>10 DEF Inductive
<1>12. S \in C
  <2> HIDE DEF C, S
  <2> QED
    BY <1>1, <1>11, SubsetInduction
<1>13. targets[S] \in Seq(T)
  BY <1>12
<1> HIDE DEF S
<1> DEFINE s == targets[S]
           m == IF Len(s) < n THEN Len(s) ELSE n
<1>14. s \in Seq(T) /\ m \in 0 .. Len(s)
  BY <1>13
<1> HIDE DEF s
<1>15. SubSeq(s, 1, m) \in Seq(T)
  BY <1>14
<1> QED
  BY <1>8, <1>15 DEF s

(* Rotating neither adds a candidate nor leaves the range of the counter.  *)
LEMMA RotatedType ==
  ASSUME NEW T, NEW s \in Seq(T), NEW next \in Nat
  PROVE  Rotated(s, next) \in Seq(T) /\ NextStart(next, s) \in Nat
<1>1. CASE Len(s) < 2
  BY <1>1 DEF Rotated, NextStart
<1>2. CASE ~(Len(s) < 2)
  <2> DEFINE start == next % Len(s)
  <2>1. start \in 0 .. Len(s) - 1 /\ (next + 1) % Len(s) \in Nat
    BY <1>2
  <2>2. /\ Rotated(s, next) = SubSeq(s, start + 1, Len(s)) \o SubSeq(s, 1, start)
        /\ NextStart(next, s) = (next + 1) % Len(s)
    BY <1>2 DEF Rotated, NextStart
  <2> HIDE DEF start
  <2>3. SubSeq(s, start + 1, Len(s)) \in Seq(T) /\ SubSeq(s, 1, start) \in Seq(T)
    BY <2>1
  <2> QED
    BY <2>1, <2>2, <2>3
<1> QED
  BY <1>1, <1>2

LEMMA RemovedType ==
  ASSUME NEW T, NEW s \in Seq(T), NEW k \in DOMAIN s
  PROVE  RemoveAt(s, k) \in Seq(T)
<1>1. SubSeq(s, 1, k - 1) \in Seq(T) /\ SubSeq(s, k + 1, Len(s)) \in Seq(T)
  OBVIOUS
<1> QED
  BY <1>1 DEF RemoveAt

-----------------------------------------------------------------------------
(* Every slot has its holder.  A claim is made for a configured target with*)
(* a slot taken from those scan believed to be free, which is why the slot *)
(* can be given back and the count of free ones brought down.              *)
Claim ==
  pc = "claiming" =>
    /\ scan.available > 0
    /\ Candidate \in Configured

SlotInv == TypeOK /\ SlotsAccounted /\ Claim

Executions == Sum(executing)

(* TypeOK, variable by variable.                                           *)
LEMMA Types ==
  TypeOK <=>
    /\ due \in Seq(AllTarget) /\ scan \in Scan
    /\ pc \in {"idle", "querying", "choosing", "claiming", "stopped"}
    /\ slots \in [Configured -> Nat] /\ executing \in [Configured -> Nat]
    /\ nextTarget \in Nat /\ global \in Nat /\ freed \in Nat /\ wg \in Nat
    /\ handlers \in Nat
    /\ main \in {"serving", "draining", "awaiting run", "awaiting group",
                 "clean", "forced"}
    /\ cancelled \in BOOLEAN /\ listening \in BOOLEAN
    /\ drained \in BOOLEAN /\ expired \in BOOLEAN
BY DEF TypeOK

LEMMA TypesAfter ==
  ASSUME due' \in Seq(AllTarget), scan' \in Scan,
         pc' \in {"idle", "querying", "choosing", "claiming", "stopped"},
         slots' \in [Configured -> Nat], executing' \in [Configured -> Nat],
         nextTarget' \in Nat, global' \in Nat, freed' \in Nat, wg' \in Nat,
         handlers' \in Nat,
         main' \in {"serving", "draining", "awaiting run", "awaiting group",
                    "clean", "forced"},
         cancelled' \in BOOLEAN, listening' \in BOOLEAN,
         drained' \in BOOLEAN, expired' \in BOOLEAN
  PROVE  TypeOK'
BY DEF TypeOK

LEMMA ExecutionsType ==
  ASSUME TypeOK
  PROVE  Executions \in Nat /\ \A t \in Configured : executing[t] <= Executions
<1>1. \A t \in Configured : executing[t] \in Nat
  BY Types
<1> QED
  BY <1>1, ManagerAssumption, SumNatural DEF Executions, Sum

(* An execution more or less of one target.                                *)
LEMMA ExecutionsChange ==
  ASSUME TypeOK, NEW t \in Configured, NEW v \in Nat,
         executing' = [executing EXCEPT ![t] = v]
  PROVE  Executions' = Executions - executing[t] + v
<1>0. executing \in [Configured -> Nat]
  BY Types
<1>1. \A u \in Configured : executing[u] \in Int
  BY <1>0
<1>2. executing'[t] = v /\ \A u \in Configured : u # t => executing'[u] = executing[u]
  BY Types
<1> DEFINE after == executing'
<1> HIDE DEF after
<1>3. SumFunctionOnSet(after, Configured)
        = SumFunctionOnSet(executing, Configured) - executing[t] + after[t]
  <2>1. after[t] \in Int /\ \A u \in Configured : t # u => after[u] = executing[u]
    BY <1>2 DEF after
  <2> QED
    BY <1>1, <2>1, ManagerAssumption, SumChange
<1> QED
  BY <1>2, <1>3 DEF after, Executions, Sum

(* The accounts, with the sum and the claim as numbers.                    *)
LEMMA Accounts ==
  ASSUME SlotInv
  PROVE  /\ \A u \in Configured :
              /\ slots[u] \in Nat /\ executing[u] \in Nat /\ Claiming(u) \in {0, 1}
              /\ slots[u] = executing[u] + Claiming(u)
              /\ slots[u] \in Int /\ executing[u] \in Int
         /\ Held \in {0, 1} /\ Executions \in Nat
         /\ freed \in Nat /\ wg \in Nat /\ global \in Nat
         /\ global = Executions + freed + Held
         /\ wg = Executions + freed
<1>1. /\ slots \in [Configured -> Nat] /\ executing \in [Configured -> Nat]
      /\ freed \in Nat /\ wg \in Nat /\ global \in Nat /\ Executions \in Nat
  BY Types, ExecutionsType DEF SlotInv
<1>2. \A u \in Configured :
        Claiming(u) \in {0, 1} /\ slots[u] = executing[u] + Claiming(u)
  BY DEF SlotInv, SlotsAccounted, Claiming
<1>3. global = Executions + freed + Held /\ wg = Executions + freed
  BY DEF SlotInv, SlotsAccounted, Held, Executions
<1>4. Held \in {0, 1}
  BY DEF Held
<1>5. ASSUME NEW u \in Configured PROVE slots[u] \in Int /\ executing[u] \in Int
  <2>1. slots[u] \in Nat /\ executing[u] \in Nat
    BY <1>1
  <2> QED
    BY <2>1
<1> QED
  BY <1>1, <1>2, <1>3, <1>4, <1>5

(* The same, to establish them.                                            *)
LEMMA AccountsAfter ==
  ASSUME \A u \in Configured : slots'[u] = executing'[u] + Claiming(u)',
         global' = Executions' + freed' + Held',
         wg' = Executions' + freed'
  PROVE  SlotsAccounted'
BY DEF SlotsAccounted, Executions, Held

(* One target's count changes.                                             *)
LEMMA CountChange ==
  ASSUME NEW f \in [Configured -> Nat], NEW t \in Configured, NEW v \in Nat,
         NEW h, h = [f EXCEPT ![t] = v]
  PROVE  /\ h \in [Configured -> Nat] /\ h[t] = v
         /\ \A u \in Configured : u # t => h[u] = f[u]
OBVIOUS

(* Steps after which the slots and the executions are as they were.        *)
LEMMA SlotsKept ==
  ASSUME SlotInv, UNCHANGED slotVars, (pc' = "claiming") <=> (pc = "claiming"),
         pc = "claiming" => scan' = scan
  PROVE  SlotsAccounted' /\ Claim'
<1>1. \A t \in Configured : Claiming(t)' = Claiming(t)
  BY DEF Claiming, Candidate
<1>2. Sum(executing)' = Sum(executing)
  BY DEF slotVars, Sum
<1> QED
  BY <1>1, <1>2 DEF SlotInv, SlotsAccounted, Claim, Candidate, slotVars

LEMMA SlotInit == Init => SlotInv
<1> SUFFICES ASSUME Init PROVE SlotInv
  OBVIOUS
<1>1. NoScan \in Scan
  BY DEF NoScan, Scan
<1>2. due \in Seq(AllTarget)
  BY DEF Init
<1>3. TypeOK
  BY <1>1, <1>2, Types DEF Init
<1>4. Sum(executing) = 0
  <2>1. \A t \in Configured : executing[t] \in Nat /\ executing[t] = 0
    BY DEF Init
  <2> QED
    BY <2>1, ManagerAssumption, SumZero DEF Sum
<1>5. SlotsAccounted
  BY <1>4 DEF Init, SlotsAccounted, Claiming
<1> QED
  BY <1>3, <1>5 DEF SlotInv, Claim, Init

(* Rows, requests, main: nothing of the slots.                             *)
LEMMA OtherSlotSteps ==
  ASSUME SlotInv,
         \/ \E t \in AllTarget : RowDue(t)
         \/ \E k \in DOMAIN due : RowGone(k)
         \/ Request \/ Respond \/ ServerFails
         \/ Shutdown \/ Deadline \/ ShutdownReturns \/ WaitAdvances
         \/ UNCHANGED vars
  PROVE  SlotInv'
<1>0. \A n \in Nat : n + 1 \in Nat /\ (n > 0 => n - 1 \in Nat)
  OBVIOUS
<1>1. UNCHANGED <<scanVars, slotVars>>
  BY DEF RowDue, RowGone, Request, Respond, ServerFails, Shutdown, Deadline,
         ShutdownReturns, WaitAdvances, vars
<1>2. SlotsAccounted' /\ Claim'
  BY <1>1, SlotsKept DEF scanVars
<1>3. due' \in Seq(AllTarget)
  <2>1. due \in Seq(AllTarget)
    BY Types DEF SlotInv
  <2>2. CASE \E t \in AllTarget : RowDue(t)
    BY <2>1, <2>2 DEF RowDue
  <2>3. CASE \E k \in DOMAIN due : RowGone(k)
    BY <2>1, <2>3, RemovedType DEF RowGone
  <2>4. CASE due' = due
    BY <2>1, <2>4
  <2> QED
    BY <2>2, <2>3, <2>4 DEF Request, Respond, ServerFails, Shutdown, Deadline,
         ShutdownReturns, WaitAdvances, vars
<1>4. /\ main' \in {"serving", "draining", "awaiting run", "awaiting group",
                    "clean", "forced"}
      /\ cancelled' \in BOOLEAN /\ listening' \in BOOLEAN
      /\ drained' \in BOOLEAN /\ expired' \in BOOLEAN
      /\ handlers' \in Nat
  <2> USE Types DEF SlotInv, httpVars, mainVars
  <2>1. CASE Request \/ Respond \/ ServerFails
    <3>1. handlers \in Nat
      BY <2>1
    <3>2. handlers + 1 \in Nat /\ (handlers > 0 => handlers - 1 \in Nat)
      BY <1>0, <3>1, Zenon
    <3>3. handlers' \in Nat
      BY <2>1, <3>1, <3>2 DEF Request, Respond, ServerFails
    <3>4. UNCHANGED mainVars /\ listening' \in {listening, FALSE}
      BY <2>1, Zenon DEF Request, Respond, ServerFails
    <3> QED
      BY <3>3, <3>4
  <2>2. CASE Shutdown \/ Deadline
    BY <2>2 DEF Shutdown, Deadline
  <2>3. CASE ShutdownReturns
    BY <2>3 DEF ShutdownReturns
  <2>4. CASE WaitAdvances
    BY <2>4 DEF WaitAdvances
  <2>5. CASE UNCHANGED <<httpVars, mainVars>>
    BY <2>5
  <2> QED
    BY <2>1, <2>2, <2>3, <2>4, <2>5 DEF RowDue, RowGone, vars
<1>5. TypeOK'
  BY <1>1, <1>3, <1>4, Types, TypesAfter DEF SlotInv, scanVars, slotVars
<1> QED
  BY <1>2, <1>5 DEF SlotInv

(* The scan, up to the claim and from round to round.                      *)
LEMMA ScanKeepsSlots ==
  ASSUME SlotInv,
         \/ BeginScan \/ QueryTargets \/ QueryFails \/ SkipTarget
         \/ NextRound \/ EndScan \/ RunReturns
  PROVE  SlotInv'
<1>1. /\ pc \in {"idle", "querying", "choosing"} /\ pc' # "claiming"
      /\ UNCHANGED <<due, slotVars, httpVars, mainVars>>
  BY DEF BeginScan, QueryTargets, QueryFails, SkipTarget, NextRound, EndScan,
         RunReturns, InRound, At
<1>2. SlotsAccounted' /\ Claim'
  BY <1>1, SlotsKept
<1>3. scan \in Scan /\ NoScan \in Scan /\ nextTarget \in Nat
  <2>1. NoScan \in Scan
    BY DEF NoScan, Scan
  <2> QED
    BY <2>1, Types DEF SlotInv
<1>4. scan' \in Scan /\ nextTarget' \in Nat
  <2>1. CASE BeginScan
    <3>1. Workers - global \in Nat /\ nextTarget' = nextTarget
      <4>1. global \in Nat /\ Workers \in Nat /\ global < Workers
        BY <2>1, ManagerAssumption, Accounts DEF BeginScan
      <4> QED
        BY <2>1, <4>1 DEF BeginScan
    <3>2. (~cancelled) \in BOOLEAN
      OBVIOUS
    <3>3. scan' = [NoScan EXCEPT !.available = Workers - global, !.early = ~cancelled]
      BY <2>1 DEF BeginScan
    <3> QED
      BY <1>3, <3>1, <3>2, <3>3 DEF Scan
  <2>2. CASE QueryTargets
    <3> DEFINE ready == ReadyTargets(due, Cardinality(Configured))
    <3>1. ready \in Seq(AllTarget)
      <4>1. Cardinality(Configured) \in Nat /\ due \in Seq(AllTarget)
        BY ManagerAssumption, FS_CardinalityType, Types DEF SlotInv
      <4> QED
        BY <4>1, ReadyType
    <3>2. /\ scan' = [scan EXCEPT !.targetIDs = Rotated(ready, nextTarget)]
          /\ nextTarget' = NextStart(nextTarget, ready)
      BY <2>2 DEF QueryTargets
    <3> HIDE DEF ready
    <3> QED
      BY <1>3, <3>1, <3>2, RotatedType DEF Scan
  <2>3. CASE QueryFails \/ EndScan
    BY <1>3, <2>3 DEF QueryFails, EndScan
  <2>4. CASE SkipTarget
    BY <1>3, <2>4 DEF SkipTarget, Passed, Scan
  <2>5. CASE NextRound
    BY <1>3, <2>5 DEF NextRound, Rewound, Scan
  <2>6. CASE RunReturns
    BY <1>3, <2>6 DEF RunReturns
  <2> QED
    BY <2>1, <2>2, <2>3, <2>4, <2>5, <2>6
<1>5. pc' \in {"idle", "querying", "choosing", "claiming", "stopped"}
  BY <1>1 DEF BeginScan, QueryTargets, QueryFails, SkipTarget, NextRound, EndScan,
         RunReturns
<1>6. TypeOK'
  BY <1>1, <1>4, <1>5, Types, TypesAfter DEF SlotInv, slotVars, httpVars, mainVars
<1> QED
  BY <1>2, <1>6 DEF SlotInv

(* A slot is taken for the claim.                                          *)
LEMMA TakeSlotsStep ==
  ASSUME SlotInv, TakeSlots
  PROVE  SlotInv'
<1> DEFINE t == Candidate
<1>1. /\ pc = "choosing" /\ pc' = "claiming" /\ scan.available > 0
      /\ t \in Configured
      /\ global' = global + 1 /\ slots' = [slots EXCEPT ![t] = slots[t] + 1]
      /\ scan' = [scan EXCEPT !.early = ~cancelled]
      /\ UNCHANGED <<due, nextTarget, executing, freed, wg, httpVars, mainVars>>
  BY Types DEF TakeSlots, InRound, At, TargetFree, SlotInv
<1>2. /\ scan' \in Scan /\ scan'.targetIDs = scan.targetIDs /\ scan'.pos = scan.pos
      /\ scan'.available = scan.available
  <2>1. (~cancelled) \in BOOLEAN /\ scan \in Scan
    BY Types DEF SlotInv
  <2> QED
    BY <1>1, <2>1 DEF Scan
<1>3. Candidate' = t
  BY <1>2 DEF Candidate
<1> HIDE DEF t
<1>4. /\ slots' \in [Configured -> Nat] /\ slots'[t] = slots[t] + 1
      /\ \A u \in Configured : u # t => slots'[u] = slots[u]
      /\ executing' = executing
  <2>1. slots \in [Configured -> Nat] /\ slots[t] + 1 \in Nat
    <3>1. slots \in [Configured -> Nat] /\ slots[t] \in Nat
      BY <1>1, Types, Accounts DEF SlotInv
    <3> QED
      BY <3>1
  <2> QED
    BY <1>1, <2>1, CountChange
<1>5. /\ Held = 0 /\ Held' = 1 /\ Executions' = Executions
      /\ \A u \in Configured : Claiming(u) = 0
      /\ \A u \in Configured : Claiming(u)' = IF u = t THEN 1 ELSE 0
  BY <1>1, <1>3 DEF Held, Executions, Sum, Claiming
<1>6. SlotsAccounted'
  <2>1. ASSUME NEW u \in Configured PROVE slots'[u] = executing'[u] + Claiming(u)'
    <3>1. slots[u] = executing[u] + 0 /\ executing[u] \in Int
      BY <1>5, Accounts
    <3> QED
      BY <1>4, <1>5, <3>1
  <2>2. global' = Executions' + freed' + Held' /\ wg' = Executions' + freed'
    BY <1>1, <1>5, Accounts
  <2> QED
    BY <2>1, <2>2, AccountsAfter
<1>7. TypeOK'
  <2>1. global' \in Nat
    BY <1>1, Accounts
  <2> QED
    BY <1>1, <1>2, <1>4, <2>1, Types, TypesAfter DEF SlotInv, httpVars, mainVars
<1> QED
  BY <1>1, <1>2, <1>3, <1>6, <1>7 DEF SlotInv, Claim

(* What the accounts say while a claim is being made.                      *)
LEMMA ClaimHeld ==
  ASSUME SlotInv, pc = "claiming"
  PROVE  /\ Candidate \in Configured /\ scan \in Scan /\ scan.available > 0
         /\ slots[Candidate] = executing[Candidate] + 1
         /\ \A u \in Configured : u # Candidate => slots[u] = executing[u]
         /\ global = Executions + freed + 1 /\ wg = Executions + freed
         /\ Executions \in Nat /\ freed \in Nat
<1>1. Candidate \in Configured /\ scan \in Scan /\ scan.available > 0
  BY Types DEF SlotInv, Claim
<1>2. /\ Claiming(Candidate) = 1 /\ Held = 1
      /\ \A u \in Configured : u # Candidate => Claiming(u) = 0
  BY DEF Claiming, Held
<1>3. slots[Candidate] = executing[Candidate] + 1
  BY <1>1, <1>2, Accounts
<1>4. \A u \in Configured : u # Candidate => slots[u] = executing[u]
  <2>1. ASSUME NEW u \in Configured, u # Candidate PROVE slots[u] = executing[u]
    <3>1. slots[u] = executing[u] + 0 /\ executing[u] \in Int
      BY <1>2, <2>1, Accounts
    <3> QED
      BY <3>1
  <2> QED
    BY <2>1
<1> QED
  BY <1>1, <1>2, <1>3, <1>4, Accounts

LEMMA PassedType ==
  ASSUME NEW s \in Scan
  PROVE  /\ Passed(s) \in Scan
         /\ s.available > 0 => Claimed(s) \in Scan
<1>1. s.pos + 1 \in Nat /\ (s.available > 0 => s.available - 1 \in Nat)
  <2>1. s.pos \in Nat /\ s.available \in Nat
    BY DEF Scan
  <2> QED
    BY <2>1
<1>2. Passed(s) = [s EXCEPT !.pos = s.pos + 1]
  BY DEF Passed
<1>3. Claimed(s) = [[s EXCEPT !.pos = s.pos + 1]
                      EXCEPT !.available = s.available - 1, !.claimedAny = TRUE]
  BY DEF Claimed, Passed, Scan
<1>4. Passed(s) \in Scan
  BY <1>1, <1>2 DEF Scan
<1> QED
  BY <1>1, <1>3, <1>4 DEF Scan

(* The slot passes from the claim to the execution.                        *)
LEMMA ClaimSucceedsStep ==
  ASSUME SlotInv, NEW k \in DOMAIN due, ClaimSucceeds(k)
  PROVE  SlotInv'
<1> DEFINE t == Candidate
<1>1. /\ pc = "claiming" /\ pc' = "choosing" /\ scan' = Claimed(scan)
      /\ due' = RemoveAt(due, k)
      /\ executing' = [executing EXCEPT ![t] = executing[t] + 1] /\ wg' = wg + 1
      /\ UNCHANGED <<nextTarget, global, slots, freed, httpVars, mainVars>>
  BY Types DEF ClaimSucceeds, At, SlotInv
<1>2. /\ t \in Configured /\ scan \in Scan /\ scan.available > 0
      /\ slots[t] = executing[t] + 1
      /\ \A u \in Configured : u # t => slots[u] = executing[u]
      /\ global = Executions + freed + 1 /\ wg = Executions + freed
      /\ Executions \in Nat /\ freed \in Nat
  BY <1>1, ClaimHeld
<1>3. scan' \in Scan /\ due' \in Seq(AllTarget)
  BY <1>1, <1>2, PassedType, RemovedType, Types DEF SlotInv
<1> HIDE DEF t
<1>4. executing[t] \in Nat /\ executing[t] + 1 \in Nat
  <2>1. executing[t] \in Nat
    BY <1>2, Accounts
  <2> QED
    BY <2>1
<1>5. /\ executing' \in [Configured -> Nat] /\ executing'[t] = executing[t] + 1
      /\ \A u \in Configured : u # t => executing'[u] = executing[u]
  <2>1. executing \in [Configured -> Nat]
    BY Types DEF SlotInv
  <2> QED
    BY <1>1, <1>2, <1>4, <2>1, CountChange
<1>6. Executions' = Executions + 1
  <2>1. Executions' = Executions - executing[t] + (executing[t] + 1)
    BY <1>1, <1>2, <1>4, ExecutionsChange DEF SlotInv
  <2> QED
    BY <1>2, <1>4, <2>1
<1>7. Held' = 0 /\ \A u \in Configured : Claiming(u)' = 0
  BY <1>1 DEF Held, Claiming
<1>8. SlotsAccounted'
  <2>1. ASSUME NEW u \in Configured PROVE slots'[u] = executing'[u] + Claiming(u)'
    <3>1. executing[u] \in Int /\ slots'[u] = slots[u]
      BY <1>1, Accounts
    <3> QED
      BY <1>2, <1>4, <1>5, <1>7, <3>1
  <2>2. global' = Executions' + freed' + Held' /\ wg' = Executions' + freed'
    BY <1>1, <1>2, <1>6, <1>7
  <2> QED
    BY <2>1, <2>2, AccountsAfter
<1>9. TypeOK'
  <2>1. wg' \in Nat
    BY <1>1, Accounts
  <2> QED
    BY <1>1, <1>3, <1>5, <2>1, Types, TypesAfter DEF SlotInv, httpVars, mainVars
<1> QED
  BY <1>1, <1>8, <1>9 DEF SlotInv, Claim

(* The slot is given back.                                                 *)
LEMMA ClaimFailsStep ==
  ASSUME SlotInv, ClaimFails
  PROVE  SlotInv'
<1> DEFINE t == Candidate
<1>1. /\ pc = "claiming" /\ pc' = "choosing" /\ scan' = Passed(scan)
      /\ global' = global - 1 /\ slots' = [slots EXCEPT ![t] = slots[t] - 1]
      /\ UNCHANGED <<due, nextTarget, executing, freed, wg, httpVars, mainVars>>
  BY Types DEF ClaimFails, GiveBack, At, SlotInv
<1>2. /\ t \in Configured /\ scan \in Scan
      /\ slots[t] = executing[t] + 1
      /\ \A u \in Configured : u # t => slots[u] = executing[u]
      /\ global = Executions + freed + 1 /\ wg = Executions + freed
      /\ Executions \in Nat /\ freed \in Nat
  BY <1>1, ClaimHeld
<1>3. scan' \in Scan
  BY <1>1, <1>2, PassedType
<1> HIDE DEF t
<1>4. executing[t] \in Nat /\ slots[t] - 1 = executing[t]
  <2>1. executing[t] \in Nat
    BY <1>2, Accounts
  <2> QED
    BY <1>2, <2>1
<1>5. /\ slots' \in [Configured -> Nat] /\ slots'[t] = executing[t]
      /\ \A u \in Configured : u # t => slots'[u] = slots[u]
  <2>1. slots \in [Configured -> Nat] /\ slots' = [slots EXCEPT ![t] = executing[t]]
    BY <1>1, <1>4, Types DEF SlotInv
  <2> QED
    BY <1>2, <1>4, <2>1, CountChange
<1>6. Executions' = Executions
  BY <1>1 DEF Executions, Sum
<1>7. Held' = 0 /\ \A u \in Configured : Claiming(u)' = 0
  BY <1>1 DEF Held, Claiming
<1>8. SlotsAccounted'
  <2>1. ASSUME NEW u \in Configured PROVE slots'[u] = executing'[u] + Claiming(u)'
    <3>1. executing[u] \in Int /\ executing'[u] = executing[u]
      BY <1>1, Accounts
    <3> QED
      BY <1>2, <1>5, <1>7, <3>1
  <2>2. global' = Executions' + freed' + Held' /\ wg' = Executions' + freed'
    BY <1>1, <1>2, <1>6, <1>7
  <2> QED
    BY <2>1, <2>2, AccountsAfter
<1>9. TypeOK'
  <2>1. global' \in Nat
    BY <1>1, <1>2
  <2> QED
    BY <1>1, <1>3, <1>5, <2>1, Types, TypesAfter DEF SlotInv, httpVars, mainVars
<1> QED
  BY <1>1, <1>8, <1>9 DEF SlotInv, Claim

(* The target's slot is freed first, the slot of the process after it.     *)
LEMMA FinishStep ==
  ASSUME SlotInv, NEW t \in Configured, FinishDelivery(t)
  PROVE  SlotInv'
<1>1. /\ executing[t] > 0
      /\ executing' = [executing EXCEPT ![t] = executing[t] - 1]
      /\ slots' = [slots EXCEPT ![t] = slots[t] - 1]
      /\ freed' = freed + 1
      /\ UNCHANGED <<due, scanVars, global, wg, httpVars, mainVars>>
  BY Types DEF FinishDelivery, SlotInv
<1>2. /\ executing[t] \in Nat /\ executing[t] - 1 \in Nat
      /\ slots[t] \in Nat /\ slots[t] - 1 \in Nat
  <2>1. /\ executing[t] \in Nat /\ slots[t] \in Nat /\ Claiming(t) \in {0, 1}
        /\ slots[t] = executing[t] + Claiming(t)
    BY Accounts
  <2> QED
    BY <1>1, <2>1
<1>3. /\ executing' \in [Configured -> Nat] /\ executing'[t] = executing[t] - 1
      /\ \A u \in Configured : u # t => executing'[u] = executing[u]
      /\ slots' \in [Configured -> Nat] /\ slots'[t] = slots[t] - 1
      /\ \A u \in Configured : u # t => slots'[u] = slots[u]
  <2>1. executing \in [Configured -> Nat] /\ slots \in [Configured -> Nat]
    BY Types DEF SlotInv
  <2> QED
    BY <1>1, <1>2, <2>1, CountChange
<1>4. Executions' = Executions - 1
  <2>1. Executions' = Executions - executing[t] + (executing[t] - 1)
    BY <1>1, <1>2, ExecutionsChange DEF SlotInv
  <2> QED
    BY <1>2, <2>1, Accounts
<1>5. Held' = Held /\ \A u \in Configured : Claiming(u)' = Claiming(u)
  BY <1>1 DEF Held, Claiming, Candidate, scanVars
<1>6. SlotsAccounted'
  <2>1. ASSUME NEW u \in Configured PROVE slots'[u] = executing'[u] + Claiming(u)'
    <3>1. /\ slots[u] = executing[u] + Claiming(u)
          /\ executing[u] \in Int /\ Claiming(u) \in {0, 1}
      BY Accounts
    <3> QED
      BY <1>3, <1>5, <3>1
  <2>2. global' = Executions' + freed' + Held' /\ wg' = Executions' + freed'
    BY <1>1, <1>4, <1>5, Accounts
  <2> QED
    BY <2>1, <2>2, AccountsAfter
<1>7. TypeOK'
  <2>1. freed' \in Nat
    BY <1>1, Accounts
  <2> QED
    BY <1>1, <1>3, <2>1, Types, TypesAfter DEF SlotInv, scanVars, httpVars, mainVars
<1> QED
  BY <1>1, <1>6, <1>7 DEF SlotInv, Claim, Candidate, scanVars

LEMMA EndExecutionStep ==
  ASSUME SlotInv, EndExecution
  PROVE  SlotInv'
<1>1. /\ freed > 0 /\ freed' = freed - 1 /\ global' = global - 1 /\ wg' = wg - 1
      /\ UNCHANGED <<due, scanVars, slots, executing, httpVars, mainVars>>
  BY DEF EndExecution
<1>2. Executions' = Executions /\ Held' = Held
  BY <1>1 DEF Executions, Sum, Held, scanVars
<1>3. \A u \in Configured : slots'[u] = executing'[u] + Claiming(u)'
  BY <1>1 DEF Claiming, Candidate, scanVars, SlotInv, SlotsAccounted
<1>4. /\ global' = Executions' + freed' + Held' /\ wg' = Executions' + freed'
      /\ freed' \in Nat /\ global' \in Nat /\ wg' \in Nat
  BY <1>1, <1>2, Accounts
<1>5. SlotsAccounted'
  BY <1>3, <1>4, AccountsAfter
<1>6. TypeOK'
  BY <1>1, <1>4, Types, TypesAfter DEF SlotInv, scanVars, httpVars, mainVars
<1> QED
  BY <1>1, <1>5, <1>6 DEF SlotInv, Claim, Candidate, scanVars

LEMMA SlotStep == SlotInv /\ [Next]_vars => SlotInv'
<1> SUFFICES ASSUME SlotInv, [Next]_vars PROVE SlotInv'
  OBVIOUS
<1> QED
  BY OtherSlotSteps, ScanKeepsSlots, TakeSlotsStep, ClaimSucceedsStep, ClaimFailsStep,
     FinishStep, EndExecutionStep DEF Next

LEMMA SlotInvariant == Spec => []SlotInv
BY SlotInit, SlotStep, PTL DEF Spec

(* No path through scan and execute loses a slot or gives one back twice:  *)
(* every taken slot has one holder, for any number of targets, workers and *)
(* rows (scan, execute, release).                                          *)
THEOREM SlotAccounts == Spec => []SlotsAccounted
<1>1. SlotInv => SlotsAccounted
  BY DEF SlotInv
<1> QED
  BY SlotInvariant, <1>1, PTL

(* No counter falls below zero, and the candidates of a scan are targets of*)
(* rows, in whatever order the rotation puts them.                         *)
THEOREM ManagerTypes == Spec => []TypeOK
<1>1. SlotInv => TypeOK
  BY DEF SlotInv
<1> QED
  BY SlotInvariant, <1>1, PTL

-----------------------------------------------------------------------------
(* Scans end                                                               *)

(* How far the scan is from its end: the claims it may still make and the  *)
(* round they allow, then the steps left in the round.                     *)
Rounds == scan.available + (IF scan.claimedAny THEN 1 ELSE 0)

Left == 2 * (Len(scan.targetIDs) + 1 - scan.pos) + (IF pc = "choosing" THEN 1 ELSE 0)

Scanning == pc \in {"choosing", "claiming"}

(* Where a scan is in its list of candidates.                              *)
Place ==
  /\ pc = "querying" => scan.pos = 1
  /\ Scanning => scan.pos \in 1 .. Len(scan.targetIDs) + 1
  /\ pc = "claiming" => scan.pos \in 1 .. Len(scan.targetIDs)

ScanInv == ManagerInv /\ SlotInv /\ Place

ScanMeasured ==
  Scanning =>
    /\ Rounds \in Nat /\ Left \in Nat
    /\ InRound /\ TargetFree(Candidate) => global < Workers

ScanShrinks ==
  Scanning /\ scanVars' # scanVars =>
    \/ pc' = "idle"
    \/ Scanning' /\ Rounds' < Rounds
    \/ Scanning' /\ Rounds' = Rounds /\ Left' < Left

LEMMA ScanTypes ==
  ASSUME TypeOK
  PROVE  /\ DOMAIN scan = DOMAIN NoScan /\ scan.pos \in Nat /\ scan.available \in Nat
         /\ scan.claimedAny \in BOOLEAN /\ Len(scan.targetIDs) \in Nat
<1>1. scan \in Scan
  BY Types
<1>2. DOMAIN scan = {"targetIDs", "pos", "available", "claimedAny", "early"}
  BY <1>1 DEF Scan
<1>3. DOMAIN NoScan = {"targetIDs", "pos", "available", "claimedAny", "early"}
  BY DEF NoScan
<1>4. /\ scan.pos \in Nat /\ scan.available \in Nat /\ scan.claimedAny \in BOOLEAN
      /\ scan.targetIDs \in Seq(AllTarget)
  BY <1>1 DEF Scan
<1> QED
  BY <1>2, <1>3, <1>4, LenProperties

LEMMA Placed ==
  ASSUME TypeOK, TypeOK', Place, [Next]_vars
  PROVE  Place' /\ ScanShrinks
<1> DEFINE n == Len(scan.targetIDs)
           flag == IF scan.claimedAny THEN 1 ELSE 0
<1>1. /\ DOMAIN scan = DOMAIN NoScan /\ scan.pos \in Nat /\ scan.available \in Nat
      /\ n \in Nat /\ Len(scan'.targetIDs) \in Nat /\ flag \in {0, 1}
      /\ {"targetIDs", "pos", "available", "claimedAny", "early"} \subseteq DOMAIN scan
  <2>1. scan' \in Scan
    BY DEF TypeOK
  <2> QED
    BY <2>1, ScanTypes, ScanFields DEF Scan
<1>2. CASE UNCHANGED scanVars
  BY <1>2 DEF Place, Scanning, ScanShrinks, scanVars
<1>3. CASE BeginScan \/ QueryFails \/ EndScan \/ RunReturns
  <2>1. pc' \notin {"choosing", "claiming"}
    BY <1>3 DEF BeginScan, QueryFails, EndScan, RunReturns
  <2>2. Scanning => pc' = "idle"
    BY <1>3 DEF Scanning, BeginScan, QueryFails, EndScan, RunReturns, At
  <2>3. pc' = "querying" => scan'.pos = 1
    BY <1>3 DEF BeginScan, QueryFails, EndScan, RunReturns, NoScan
  <2> QED
    BY <2>1, <2>2, <2>3 DEF Place, Scanning, ScanShrinks
<1>4. CASE QueryTargets
  <2>1. /\ pc = "querying" /\ pc' = "choosing"
        /\ scan' = [scan EXCEPT !.targetIDs = scan'.targetIDs]
    BY <1>1, <1>4 DEF QueryTargets, At
  <2>2. scan'.pos = 1
    BY <1>1, <2>1 DEF Place
  <2> QED
    BY <1>1, <2>1, <2>2 DEF Place, Scanning, ScanShrinks
(* A step of a round: the place moves on, or the claim begins.             *)
<1>5. ASSUME Scanning, Scanning', scan'.targetIDs = scan.targetIDs,
             \/ /\ pc = "choosing" /\ pc' = "claiming" /\ scan'.pos = scan.pos
                /\ scan.pos <= n
             \/ /\ pc' = "choosing" /\ scan'.pos = scan.pos + 1 /\ scan.pos <= n,
             Rounds' \in Int, Rounds' <= Rounds
      PROVE  Place' /\ ScanShrinks
  <2>1. scan.pos \in 1 .. n + 1
    BY <1>5 DEF Place
  <2>2. Place'
    BY <1>1, <1>5, <2>1 DEF Place, Scanning
  <2>3. Left' < Left
    BY <1>1, <1>5, <2>1 DEF Left, Scanning
  <2>4. Rounds \in Int
    BY <1>1 DEF Rounds
  <2> QED
    BY <1>5, <2>2, <2>3, <2>4 DEF ScanShrinks
<1>6. CASE SkipTarget
  <2>1. /\ pc = "choosing" /\ pc' = pc /\ scan.pos <= n
        /\ scan' = [scan EXCEPT !.pos = scan.pos + 1]
    BY <1>6 DEF SkipTarget, InRound, At, Passed
  <2>2. /\ scan'.targetIDs = scan.targetIDs /\ scan'.pos = scan.pos + 1
        /\ scan'.available = scan.available /\ scan'.claimedAny = scan.claimedAny
    BY <1>1, <2>1
  <2>3. Rounds' = Rounds /\ Rounds \in Int
    BY <1>1, <2>2 DEF Rounds
  <2> QED
    BY <1>5, <2>1, <2>2, <2>3 DEF Scanning
<1>7. CASE TakeSlots
  <2>1. /\ pc = "choosing" /\ pc' = "claiming" /\ scan.pos <= n
        /\ scan' = [scan EXCEPT !.early = ~cancelled]
    BY <1>7 DEF TakeSlots, InRound, At
  <2>2. /\ scan'.targetIDs = scan.targetIDs /\ scan'.pos = scan.pos
        /\ scan'.available = scan.available /\ scan'.claimedAny = scan.claimedAny
    BY <1>1, <2>1
  <2>3. Rounds' = Rounds /\ Rounds \in Int
    BY <1>1, <2>2 DEF Rounds
  <2> QED
    BY <1>5, <2>1, <2>2, <2>3 DEF Scanning
<1>8. CASE (\E k \in DOMAIN due : ClaimSucceeds(k)) \/ ClaimFails
  <2>1. /\ pc = "claiming" /\ pc' = "choosing"
        /\ scan' = Claimed(scan) \/ scan' = Passed(scan)
    BY <1>8 DEF ClaimSucceeds, ClaimFails, At
  <2>2. /\ scan'.targetIDs = scan.targetIDs /\ scan'.pos = scan.pos + 1
        /\ \/ scan'.available = scan.available /\ scan'.claimedAny = scan.claimedAny
           \/ scan'.available = scan.available - 1 /\ scan'.claimedAny = TRUE
    BY <1>1, <2>1 DEF Claimed, Passed
  <2>3. scan.pos <= n
    BY <1>1, <2>1 DEF Place
  <2>4. Rounds' \in Int /\ Rounds' <= Rounds
    BY <1>1, <2>2 DEF Rounds
  <2> QED
    BY <1>5, <2>1, <2>2, <2>3, <2>4 DEF Scanning
<1>9. CASE NextRound
  <2>1. /\ pc = "choosing" /\ pc' = pc /\ scan.claimedAny
        /\ scan' = [scan EXCEPT !.pos = 1, !.claimedAny = FALSE]
    BY <1>9 DEF NextRound, At, Rewound
  <2>2. /\ scan'.targetIDs = scan.targetIDs /\ scan'.pos = 1
        /\ scan'.available = scan.available /\ scan'.claimedAny = FALSE
    BY <1>1, <2>1
  <2>3. Rounds' < Rounds
    BY <1>1, <2>1, <2>2 DEF Rounds
  <2> QED
    BY <1>1, <2>1, <2>2, <2>3 DEF Place, Scanning, ScanShrinks
<1> QED
  <2>1. \/ UNCHANGED scanVars
        \/ BeginScan \/ QueryTargets \/ QueryFails \/ SkipTarget \/ TakeSlots
        \/ (\E k \in DOMAIN due : ClaimSucceeds(k)) \/ ClaimFails
        \/ NextRound \/ EndScan \/ RunReturns
    BY DEF Next, vars, RowDue, RowGone, FinishDelivery, EndExecution, Request, Respond,
           ServerFails, Shutdown, Deadline, ShutdownReturns, WaitAdvances
  <2> QED
    BY <1>2, <1>3, <1>4, <1>6, <1>7, <1>8, <1>9, <2>1

(* Every step of a scan brings it nearer to its end, whatever rows become  *)
(* due and whatever executions end meanwhile: it makes fewer claims and    *)
(* rounds, or fewer steps of the round; and it always finds the slot that  *)
(* its own count promises.  With the fairness of the loop this is why scans*)
(* end (Manager.scan).                                                     *)
THEOREM ScanTerminates == Spec => []ScanMeasured /\ [][ScanShrinks]_vars
<1>1. Init => Place
  BY DEF Init, Place, Scanning
<1>2. ScanInv /\ [Next]_vars => ScanInv' /\ ScanShrinks
  <2> SUFFICES ASSUME ScanInv, [Next]_vars PROVE ScanInv' /\ ScanShrinks
    OBVIOUS
  <2>1. ManagerInv' /\ SlotInv'
    BY ManagerStep, SlotStep DEF ScanInv
  <2>2. TypeOK /\ TypeOK' /\ Place
    BY <2>1 DEF ScanInv, SlotInv
  <2> QED
    BY <2>1, <2>2, Placed DEF ScanInv
<1>3. ScanInv => ScanMeasured
  <2> SUFFICES ASSUME ScanInv, Scanning PROVE ScanMeasured
    BY DEF ScanMeasured
  <2>1. /\ scan.pos \in Nat /\ scan.available \in Nat /\ Len(scan.targetIDs) \in Nat
        /\ scan.pos <= Len(scan.targetIDs) + 1 /\ Workers \in Nat
    BY ScanTypes, ManagerAssumption DEF ScanInv, SlotInv, Place
  <2>2. Rounds \in Nat
    BY <2>1 DEF Rounds
  <2>3. Left \in Nat
    BY <2>1 DEF Left
  <2>4. InRound => global < Workers
    <3> SUFFICES ASSUME InRound PROVE global < Workers
      OBVIOUS
    <3>1. pc = "choosing" /\ scan.available > 0
      BY DEF InRound, At
    <3>2. global \in Int /\ global + scan.available <= Workers
      BY <2>1, <3>1 DEF ScanInv, ManagerInv, Slots, Held
    <3> QED
      BY <2>1, <3>1, <3>2
  <2> QED
    BY <2>2, <2>3, <2>4 DEF ScanMeasured
<1> QED
  BY <1>1, <1>2, <1>3, ManagerInit, SlotInit, PTL DEF Spec, ScanInv

=============================================================================
