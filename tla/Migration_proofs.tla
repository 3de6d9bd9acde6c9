--------------------------- MODULE Migration_proofs ---------------------------
(***************************************************************************)
(* The schema a process serves on, for any number of processes, files,     *)
(* statements and failures.                                                *)
(***************************************************************************)
EXTENDS Migration, TLAPS

(* What process r knows of its file: the statements before the next one    *)
(* are in effect, all of them when it is about to record the version, and  *)
(* every earlier file is recorded.  Nothing is ever taken back, therefore  *)
(* another process cannot disturb it.                                      *)
Progress(r) ==
  /\ r.pc = "apply" =>
       /\ r.next \in 1 .. Statements[r.file]
       /\ \A s \in 1 .. Statements[r.file] : s < r.next => <<r.file, s>> \in applied
  /\ r.pc = "record" => InForce(r.file)
  /\ r.pc # "failed" => \A f \in 1 .. Files : f < r.file => f \in recorded
  /\ r.pc = "ready" => recorded = 1 .. Files

MigrationInv ==
  /\ TypeOK
  /\ \A f \in recorded : InForce(f)
  /\ \A p \in Proc : Progress(proc[p])

LEMMA MigrationInit == Init => MigrationInv
<1> SUFFICES ASSUME Init PROVE MigrationInv
  OBVIOUS
<1>1. Start \in [pc : PC, file : 1 .. Files, next : Nat] /\ 0 \in 0 .. MaxFailures
  BY MigrationAssumption DEF Start, PC
<1>2. TypeOK
  BY <1>1 DEF Init, TypeOK
<1>3. ASSUME NEW p \in Proc PROVE Progress(proc[p])
  BY DEF Init, Progress, Start
<1> QED
  BY <1>2, <1>3 DEF MigrationInv, Init

(* What is in effect and recorded only grows, so a process that did not    *)
(* move still knows what it knew.                                          *)
LEMMA ProgressKept ==
  ASSUME TypeOK, TypeOK', applied \subseteq applied', recorded \subseteq recorded',
         NEW p \in Proc, Progress(proc[p]), proc'[p] = proc[p]
  PROVE  Progress(proc[p])'
BY DEF Progress, TypeOK, InForce

-----------------------------------------------------------------------------
(* Where a step takes the process that makes it.                           *)
Process == [pc : PC, file : 1 .. Files, next : Nat]

Moves(p, pc, file, next) ==
  /\ proc' \in [Proc -> Process]
  /\ proc'[p].pc = pc /\ proc'[p].file = file /\ proc'[p].next = next

LEMMA GotoMoves ==
  ASSUME TypeOK, NEW p \in Proc, NEW pc \in PC, Goto(p, pc)
  PROVE  Moves(p, pc, proc[p].file, 1)
BY DEF TypeOK, Process, Goto, Moves

LEMMA NextFileMoves ==
  ASSUME TypeOK, NEW p \in Proc, NextFile(p)
  PROVE  \/ proc[p].file = Files /\ Moves(p, "ready", Files, proc[p].next)
         \/ proc[p].file < Files /\ Moves(p, "inspect", proc[p].file + 1, 1)
<1>1. proc[p] \in Process /\ Files \in Nat
  BY MigrationAssumption DEF TypeOK, Process
<1>2. CASE proc[p].file = Files
  <2>1. proc' = [proc EXCEPT ![p] = [@ EXCEPT !.pc = "ready"]]
    BY <1>2 DEF NextFile, TypeOK
  <2> QED
    BY <1>1, <1>2, <2>1 DEF Moves, TypeOK, Process, PC
<1>3. CASE proc[p].file # Files
  <2>1. proc' = [proc EXCEPT ![p] =
                   [pc |-> "inspect", file |-> proc[p].file + 1, next |-> 1]]
    BY <1>3 DEF NextFile, TypeOK
  <2> QED
    BY <1>1, <1>3, <2>1 DEF Moves, TypeOK, Process, PC
<1> QED
  BY <1>2, <1>3

(* What the process knows when it goes on to the next file, or serves.     *)
LEMMA NextKnown ==
  ASSUME NEW p \in Proc, NEW file \in 1 .. Files, NEW next,
         \A f \in 1 .. Files : f <= file => f \in recorded',
         recorded' \subseteq 1 .. Files,
         \/ file = Files /\ Moves(p, "ready", Files, next)
         \/ file < Files /\ Moves(p, "inspect", file + 1, 1)
  PROVE  Progress(proc[p])'
<1>1. Files \in Nat
  BY MigrationAssumption
<1>2. CASE file = Files /\ Moves(p, "ready", Files, next)
  <2>1. recorded' = 1 .. Files
    <3>1. ASSUME NEW f \in 1 .. Files PROVE f \in recorded'
      BY <1>1, <1>2
    <3> QED
      BY <3>1, Zenon
  <2> QED
    BY <1>1, <1>2, <2>1 DEF Progress, Moves
<1>3. CASE file < Files /\ Moves(p, "inspect", file + 1, 1)
  BY <1>1, <1>3 DEF Progress, Moves
<1> QED
  BY <1>2, <1>3

LEMMA StartMoves ==
  ASSUME TypeOK, NEW p \in Proc, proc' = [proc EXCEPT ![p] = Start]
  PROVE  Moves(p, "inspect", 1, 1)
BY MigrationAssumption DEF TypeOK, Process, Start, Moves, PC

LEMMA AfterStatementMoves ==
  ASSUME TypeOK, NEW p \in Proc, AfterStatement(p)
  PROVE  \/ /\ proc[p].next = Statements[proc[p].file]
            /\ Moves(p, "record", proc[p].file, 1)
         \/ /\ proc[p].next # Statements[proc[p].file]
            /\ Moves(p, proc[p].pc, proc[p].file, proc[p].next + 1)
<1>1. CASE proc[p].next = Statements[proc[p].file]
  BY <1>1, GotoMoves DEF AfterStatement, PC
<1>2. CASE proc[p].next # Statements[proc[p].file]
  BY <1>2 DEF AfterStatement, TypeOK, Process, Moves
<1> QED
  BY <1>1, <1>2

(* The process that moves.                                                 *)
LEMMA MigrationStep == MigrationInv /\ [Next]_vars => MigrationInv'
<1> SUFFICES ASSUME MigrationInv, [Next]_vars PROVE MigrationInv'
  OBVIOUS
<1> USE MigrationAssumption DEF MigrationInv
<1>1. CASE UNCHANGED vars
  BY <1>1 DEF vars, TypeOK, Progress, InForce
<1>2. ASSUME NEW p \in Proc,
             Inspect(p) \/ Check(p) \/ Apply(p) \/ Record(p) \/ Fail(p) \/ Restart(p)
      PROVE  MigrationInv'
  <2> DEFINE r == proc[p]
  <2>1. /\ r \in [pc : PC, file : 1 .. Files, next : Nat]
        /\ Statements[r.file] \in Nat \ {0}
    BY DEF TypeOK
  <2>2. /\ proc' \in [Proc -> Process]
        /\ applied \subseteq applied' /\ applied' \subseteq Statement
        /\ recorded \subseteq recorded' /\ recorded' \subseteq 1 .. Files
        /\ failures' \in 0 .. MaxFailures
    <3>1. CASE Inspect(p)
      <4>1. Moves(p, "check", r.file, 1) \/ Moves(p, "apply", r.file, 1)
        BY <3>1, GotoMoves DEF Inspect, PC
      <4> QED
        BY <3>1, <4>1 DEF Inspect, Moves, TypeOK
    <3>2. CASE Check(p)
      <4>1. NextFile(p) \/ Goto(p, "apply")
        BY <3>2 DEF Check
      <4>2. proc' \in [Proc -> Process]
        BY <4>1, GotoMoves, NextFileMoves DEF PC, Moves
      <4> QED
        BY <3>2, <4>2 DEF Check, TypeOK
    <3>3. CASE Apply(p)
      <4>1. r.pc = "apply" /\ r.next \in 1 .. Statements[r.file]
        BY <3>3 DEF Apply, Progress
      <4>2. <<r.file, r.next>> \in Statement
        BY <2>1, <4>1 DEF Statement
      <4>3. proc' \in [Proc -> Process]
        BY <3>3, AfterStatementMoves DEF Apply, Moves
      <4> QED
        BY <3>3, <4>2, <4>3 DEF Apply, TypeOK
    <3>4. CASE Record(p)
      <4>1. NextFile(p) \/ Goto(p, "failed")
        BY <3>4 DEF Record
      <4>2. proc' \in [Proc -> Process]
        BY <4>1, GotoMoves, NextFileMoves DEF PC, Moves
      <4> QED
        BY <2>1, <3>4, <4>2 DEF Record, TypeOK
    <3>5. CASE Fail(p)
      <4>1. Moves(p, "failed", r.file, 1)
        BY <3>5, GotoMoves DEF Fail, PC
      <4> QED
        BY <3>5, <4>1 DEF Fail, Moves, TypeOK
    <3>6. CASE Restart(p)
      <4>1. Moves(p, "inspect", 1, 1)
        BY <3>6, StartMoves DEF Restart
      <4> QED
        BY <3>6, <4>1 DEF Restart, Moves, TypeOK
    <3> QED
      BY <1>2, <3>1, <3>2, <3>3, <3>4, <3>5, <3>6
  <2>7. TypeOK'
    BY <2>2 DEF TypeOK, Process
  <2>3. \A f \in recorded' : InForce(f)'
    <3>1. ASSUME NEW f, InForce(f) PROVE InForce(f)'
      BY <2>2, <3>1 DEF InForce
    <3>2. recorded' = recorded \/ (recorded' = recorded \cup {r.file} /\ InForce(r.file))
      BY <1>2 DEF Inspect, Check, Apply, Record, Fail, Restart, Progress
    <3>3. \A f \in recorded' : InForce(f)
      BY <3>2
    <3> QED
      BY <3>1, <3>3
  <2>4. ASSUME NEW q \in Proc, q # p PROVE Progress(proc[q])'
    <3>1. proc'[q] = proc[q]
      BY <1>2, <2>4 DEF TypeOK, Inspect, Check, Apply, Record, Fail, Restart,
                        AfterStatement, NextFile, Goto
    <3> QED
      BY <2>2, <2>7, <3>1, ProgressKept
  <2>5. Progress(proc[p])'
    <3>1. CASE Inspect(p)
      <4>1. \/ Moves(p, "check", r.file, 1)
            \/ Moves(p, "apply", r.file, 1)
        BY <3>1, GotoMoves DEF Inspect, PC
      <4>2. \A f \in 1 .. Files : f < r.file => f \in recorded'
        BY <3>1 DEF Inspect, Progress
      <4> QED
        BY <2>1, <4>1, <4>2 DEF Progress, Moves
    <3>2. CASE Check(p)
      <4>1. \/ NextFile(p) /\ r.file \in recorded
            \/ Goto(p, "apply")
        BY <3>2 DEF Check
      <4>2. CASE NextFile(p) /\ r.file \in recorded
        <5>1. /\ \A f \in 1 .. Files : f <= r.file => f \in recorded'
              /\ recorded' \subseteq 1 .. Files
          BY <2>1, <2>2, <3>2, <4>2 DEF Check, Progress
        <5> QED
          BY <2>1, <4>2, <5>1, NextFileMoves, NextKnown
      <4>3. CASE Goto(p, "apply")
        <5>1. Moves(p, "apply", r.file, 1)
          BY <4>3, GotoMoves DEF PC
        <5> QED
          BY <2>1, <3>2, <5>1 DEF Check, Progress, Moves
      <4> QED
        BY <4>1, <4>2, <4>3
    <3>3. CASE Apply(p)
      <4>1. /\ r.pc = "apply" /\ r.next \in 1 .. Statements[r.file]
            /\ \A s \in 1 .. Statements[r.file] :
                 s <= r.next => <<r.file, s>> \in applied'
            /\ recorded' = recorded
        BY <2>1, <3>3 DEF Apply, Progress
      <4>2. CASE r.next = Statements[r.file] /\ Moves(p, "record", r.file, 1)
        BY <2>1, <4>1, <4>2 DEF Progress, Moves, InForce
      <4>3. CASE /\ r.next # Statements[r.file]
                 /\ Moves(p, r.pc, r.file, r.next + 1)
        BY <2>1, <4>1, <4>3 DEF Progress, Moves
      <4> QED
        BY <3>3, <4>2, <4>3, AfterStatementMoves DEF Apply
    <3>4. CASE Record(p)
      <4>1. /\ recorded' = recorded \cup {r.file}
            /\ NextFile(p) \/ Goto(p, "failed")
        BY <3>4 DEF Record
      <4>2. CASE NextFile(p)
        <5>1. /\ \A f \in 1 .. Files : f <= r.file => f \in recorded'
              /\ recorded' \subseteq 1 .. Files
          BY <2>1, <2>2, <3>4, <4>1 DEF Record, Progress
        <5> QED
          BY <2>1, <4>2, <5>1, NextFileMoves, NextKnown
      <4>3. CASE Goto(p, "failed")
        <5>1. Moves(p, "failed", r.file, 1)
          BY <4>3, GotoMoves DEF PC
        <5> QED
          BY <5>1 DEF Progress, Moves
      <4> QED
        BY <4>1, <4>2, <4>3
    <3>5. CASE Fail(p)
      <4>1. Moves(p, "failed", r.file, 1)
        BY <3>5, GotoMoves DEF Fail, PC
      <4> QED
        BY <4>1 DEF Progress, Moves
    <3>6. CASE Restart(p)
      <4>1. Moves(p, "inspect", 1, 1)
        BY <3>6, StartMoves DEF Restart
      <4> QED
        BY <4>1 DEF Progress, Moves
    <3> QED
      BY <1>2, <3>1, <3>2, <3>3, <3>4, <3>5, <3>6
  <2> QED
    BY <2>7, <2>3, <2>4, <2>5
<1> QED
  BY <1>1, <1>2 DEF Next

LEMMA MigrationInvariant == Spec => []MigrationInv
BY MigrationInit, MigrationStep, PTL DEF Spec

(* A recorded version is in force as a whole, and a process that serves has*)
(* recorded versions only, however the processes interleave, fail and are  *)
(* started again (Migrate).                                                *)
THEOREM MigrationSafety == Spec => []RecordedInForce
<1>1. MigrationInv => RecordedInForce
  BY DEF MigrationInv, Progress, RecordedInForce
<1> QED
  BY MigrationInvariant, <1>1, PTL

(* A process never runs a statement its file does not have, and no version *)
(* is recorded that has no file, wherever it fails and starts again        *)
(* (Migrate).                                                              *)
THEOREM MigrationTypes == Spec => []TypeOK
<1>1. MigrationInv => TypeOK
  BY DEF MigrationInv
<1> QED
  BY MigrationInvariant, <1>1, PTL
=============================================================================
