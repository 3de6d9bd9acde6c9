------------------------------ MODULE Migration ------------------------------
(***************************************************************************)
(* internal/store/mysqlstore/migrate.go: every process brings the schema   *)
(* up to date before it serves, several at a time, without a lock and, as  *)
(* DDL commits at once, without a transaction.                             *)
(*                                                                         *)
(* The table schema_migration is made by the first statement of the first  *)
(* file.  A process that fails exits, and is started again.                *)
(***************************************************************************)
EXTENDS Integers

CONSTANTS Proc,          \* processes
          Files,         \* number of migration files
          Statements,    \* number of statements in every file
          MaxFailures    \* bound: failures that are nobody's fault

ASSUME MigrationAssumption ==
  /\ Files \in Nat \ {0}
  /\ Statements \in [1 .. Files -> Nat \ {0}]
  /\ MaxFailures \in Nat

VARIABLES applied,    \* <<file, statement>> in effect
          recorded,   \* files in schema_migration
          proc,       \* the processes
          failures    \* failures so far

vars == <<applied, recorded, proc, failures>>

Statement == {st \in (1 .. Files) \X Nat : st[2] \in 1 .. Statements[st[1]]}

PC == {"inspect", "check", "apply", "record", "ready", "failed"}

TypeOK ==
  /\ applied \subseteq Statement
  /\ recorded \subseteq 1 .. Files
  /\ proc \in [Proc -> [pc : PC, file : 1 .. Files, next : Nat]]
  /\ failures \in 0 .. MaxFailures

Start == [pc |-> "inspect", file |-> 1, next |-> 1]

Init ==
  /\ applied = {}
  /\ recorded = {}
  /\ proc = [p \in Proc |-> Start]
  /\ failures = 0

-----------------------------------------------------------------------------
Goto(p, pc) == proc' = [proc EXCEPT ![p].pc = pc, ![p].next = 1]

NextFile(p) ==
  proc' = [proc EXCEPT ![p] =
    IF @.file = Files THEN [@ EXCEPT !.pc = "ready"]
    ELSE [pc |-> "inspect", file |-> @.file + 1, next |-> 1]]

(* Is there a table schema_migration?                                      *)
Inspect(p) ==
  /\ proc[p].pc = "inspect"
  /\ Goto(p, IF <<1, 1>> \in applied THEN "check" ELSE "apply")
  /\ UNCHANGED <<applied, recorded, failures>>

Check(p) ==
  /\ proc[p].pc = "check"
  /\ IF proc[p].file \in recorded THEN NextFile(p) ELSE Goto(p, "apply")
  /\ UNCHANGED <<applied, recorded, failures>>

(* Fault: the file is done when its last statement is about to run.        *)
AfterStatement_TooEarly(p) ==
  IF proc[p].next + 1 >= Statements[proc[p].file]
  THEN Goto(p, "record")
  ELSE proc' = [proc EXCEPT ![p].next = @ + 1]

(* Fault: one statement more than the file has.                            *)
AfterStatement_TooLate(p) ==
  IF proc[p].next > Statements[proc[p].file]
  THEN Goto(p, "record")
  ELSE proc' = [proc EXCEPT ![p].next = @ + 1]

AfterStatement(p) ==
  IF proc[p].next = Statements[proc[p].file]
  THEN Goto(p, "record")
  ELSE proc' = [proc EXCEPT ![p].next = @ + 1]

(* Fault: a table that is already there is an error.                       *)
Apply_Once(p) ==
  LET statement == <<proc[p].file, proc[p].next>>
  IN  /\ proc[p].pc = "apply"
      /\ IF statement \in applied THEN Goto(p, "failed") ELSE AfterStatement(p)
      /\ applied' = applied \cup {statement}
      /\ UNCHANGED <<recorded, failures>>

(* CREATE TABLE IF NOT EXISTS                                              *)
Apply(p) ==
  /\ proc[p].pc = "apply"
  /\ applied' = applied \cup {<<proc[p].file, proc[p].next>>}
  /\ AfterStatement(p)
  /\ UNCHANGED <<recorded, failures>>

(* version is the primary key: the second process to record it fails.      *)
Record(p) ==
  /\ proc[p].pc = "record"
  /\ IF proc[p].file \in recorded THEN Goto(p, "failed") ELSE NextFile(p)
  /\ recorded' = recorded \cup {proc[p].file}
  /\ UNCHANGED <<applied, failures>>

(* A statement or a process fails, or the thirty seconds of startup pass.  *)
Fail(p) ==
  /\ proc[p].pc \notin {"ready", "failed"}
  /\ failures < MaxFailures
  /\ failures' = failures + 1
  /\ Goto(p, "failed")
  /\ UNCHANGED <<applied, recorded>>

(* The process is started again, whatever ended it.                        *)
Restart(p) ==
  /\ proc[p].pc = "failed"
  /\ proc' = [proc EXCEPT ![p] = Start]
  /\ UNCHANGED <<applied, recorded, failures>>

Next ==
  \E p \in Proc :
    \/ Inspect(p)
    \/ Check(p)
    \/ Apply(p)
    \/ Record(p)
    \/ Fail(p)
    \/ Restart(p)

(* A process that runs goes on, and one that has failed is restarted.      *)
Fairness ==
  \A p \in Proc :
    WF_vars(Inspect(p) \/ Check(p) \/ Apply(p) \/ Record(p) \/ Restart(p))

Spec == Init /\ [][Next]_vars /\ Fairness

-----------------------------------------------------------------------------
InForce(f) == \A s \in 1 .. Statements[f] : <<f, s>> \in applied

(* A recorded version is in force as a whole, whichever processes applied  *)
(* its statements and wherever they were interrupted; so is every version  *)
(* for a process that serves (the insert comes last in Migrate).           *)
RecordedInForce ==
  /\ \A f \in recorded : InForce(f)
  /\ \A p \in Proc : proc[p].pc = "ready" => recorded = 1 .. Files

(* Every process comes to serve once failures stop: neither a half-applied *)
(* file nor a race for its version stands in the way for ever.             *)
EveryoneServes == \A p \in Proc : <>(proc[p].pc = "ready")
=============================================================================
