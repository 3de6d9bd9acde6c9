-------------------------------- MODULE Reads --------------------------------
(***************************************************************************)
(* The calls that only read: Store.List page by page, Store.ListAttempts   *)
(* and Store.Metrics.  Each is several statements with snapshots of their  *)
(* own, and the rows move between them.                                    *)
(*                                                                         *)
(* The rows move along the edges of Lifecycle, which Dispatch is shown to  *)
(* implement; a row is processing exactly while its last attempt is in     *)
(* progress (LeaseMatchesAttempt of Dispatch).  Readers change nothing, so *)
(* one of them at a time is enough, and what it has read is returned       *)
(* before anything else happens.                                           *)
(***************************************************************************)
EXTENDS Domain, FiniteSets, Functions

CONSTANTS Id,          \* notifications, numbered by (created_at, id)
          Caller, Owner,      \* callers, and the one of every notification
          Target, TargetOf,   \* targets, and the one of every notification
          Filter,      \* [status, target_id], "" for any
          Limit,       \* rows of a page
          MaxOffset,   \* the largest offset queryInt accepts
          MaxRuns,     \* bound: runs of a notification
          MaxAttempts, \* the attempt limit of a run
          Reasons      \* bound: stop reasons, which no reader looks at

ASSUME ReadsAssumption ==
  /\ Id \subseteq Nat /\ IsFiniteSet(Id) /\ IsFiniteSet(Target)
  /\ Owner \in [Id -> Caller] /\ TargetOf \in [Id -> Target]
  /\ Limit \in Nat \ {0} /\ MaxOffset \in Nat

VARIABLES life,   \* the notifications, as in Lifecycle
          made,   \* the attempts of every notification
          due,    \* notifications whose next_attempt_at has come
          call    \* the reader

vars == <<life, made, due, call>>

L == INSTANCE Lifecycle WITH Limit <- {MaxAttempts}

NoCall == [kind |-> "none", open |-> FALSE]

Init ==
  /\ life = [i \in Id |-> [status |-> "absent", run |-> 0, spent |-> 0,
                           limit |-> MaxAttempts, reason |-> ""]]
  /\ made = [i \in Id |-> 0]
  /\ due = {}
  /\ call = NoCall

Exists(i) == life[i].status \in Status

-----------------------------------------------------------------------------
(* List                                                                    *)

Matches(n, i, caller, f) ==
  /\ n.status \in Status
  /\ Owner[i] = caller
  /\ f.status \in {"", n.status}
  /\ f.target_id \in {"", TargetOf[i]}

(* ORDER BY created_at DESC, id DESC: the rows of S that come before i.    *)
Newer(i, S) == Cardinality({j \in S : j > i})

(* LIMIT ? OFFSET ?                                                        *)
Cut(rows, offset) == {i \in rows : Newer(i, rows) \in offset .. offset + Limit - 1}

(* Fault: the page is cut before the filter is applied.                    *)
List_FilterLast(caller, f, offset) ==
  {i \in Cut({i \in Id : Exists(i)}, offset) : Matches(life[i], i, caller, f)}

List(caller, f, offset) == Cut({i \in Id : Matches(life[i], i, caller, f)}, offset)

(* An offset out of range is read as none.                                 *)
queryInt(value) == IF value \in 0 .. MaxOffset THEN value ELSE 0

(* A client asks for the rows after those it has, until a page is short or *)
(* the answer names another offset than it asked for.  It has received     *)
(* `count' rows, those of `got', some of them perhaps twice.               *)
Page(walk) ==
  LET offset == queryInt(walk.count)
      rows   == List(walk.caller, walk.filter, offset)
  IN  IF offset # walk.count
      THEN [walk EXCEPT !.open = FALSE]
      ELSE [walk EXCEPT !.got = @ \cup rows, !.count = @ + Cardinality(rows),
                        !.open = Cardinality(rows) = Limit,
                        !.complete = Cardinality(rows) < Limit]

Walk(caller, f) ==
  [kind |-> "walk", open |-> TRUE, complete |-> FALSE, caller |-> caller,
   filter |-> f, got |-> {}, count |-> 0, left |-> 0, entered |-> 0,
   stayed |-> {i \in Id : Matches(life[i], i, caller, f)}]

FirstPage(caller, f) ==
  /\ call = NoCall
  /\ call' = Page(Walk(caller, f))
  /\ UNCHANGED <<life, made, due>>

NextPage ==
  /\ call.kind = "walk" /\ call.open
  /\ call' = Page(call)
  /\ UNCHANGED <<life, made, due>>

-----------------------------------------------------------------------------
(* ListAttempts                                                            *)

(* Fault: any caller's notification will do.                               *)
Found_AnyOwner(caller, i) == Exists(i)

Found(caller, i) == Exists(i) /\ Owner[i] = caller

(* The newest attempts first, by the identifier alone.                     *)
AttemptNumbers(i) == {k \in 1 .. made[i] : k > made[i] - Limit}

CheckExists(caller, i) ==
  /\ call = NoCall
  /\ call' = [kind |-> "attempts", open |-> Found(caller, i), caller |-> caller,
              id |-> i, before |-> AttemptNumbers(i), got |-> {}]
  /\ UNCHANGED <<life, made, due>>

SelectAttempts ==
  /\ call.kind = "attempts" /\ call.open
  /\ call' = [call EXCEPT !.open = FALSE, !.got = AttemptNumbers(call.id)]
  /\ UNCHANGED <<life, made, due>>

-----------------------------------------------------------------------------
(* Metrics: three statements.                                              *)

CountOf(s) == Cardinality({i \in Id : life[i].status = s})

(* Fault: a row that waits for its retry counts as waiting.                *)
SomeoneWaits_NotDue == \E i \in Id : life[i].status = "pending"

SomeoneWaits == \E i \in due : life[i].status = "pending"

(* Per target: the attempts in progress, and all of them.                  *)
AttemptCounts(t) ==
  LET rows == {i \in Id : Exists(i) /\ TargetOf[i] = t}
  IN  [in_progress |-> Cardinality({i \in rows : life[i].status = "processing"}),
       all |-> SumFunctionOnSet(made, rows)]

CountStatuses ==
  /\ call = NoCall
  /\ call' = [kind |-> "metrics", open |-> TRUE, moved |-> 0, step |-> 2,
              statuses |-> [s \in Status |-> CountOf(s)], waits |-> FALSE,
              attempts |-> [t \in Target |-> [in_progress |-> 0, all |-> 0]]]
  /\ UNCHANGED <<life, made, due>>

OldestPending ==
  /\ call.kind = "metrics" /\ call.open /\ call.step = 2
  /\ call' = [call EXCEPT !.step = 3, !.waits = SomeoneWaits]
  /\ UNCHANGED <<life, made, due>>

CountAttempts ==
  /\ call.kind = "metrics" /\ call.open /\ call.step = 3
  /\ call' = [call EXCEPT !.open = FALSE,
                          !.attempts = [t \in Target |-> AttemptCounts(t)]]
  /\ UNCHANGED <<life, made, due>>

-----------------------------------------------------------------------------
(* A statement fails, or the answer has been given.                        *)
Return ==
  /\ call # NoCall
  /\ call' = NoCall
  /\ UNCHANGED <<life, made, due>>

(* What the open call lives through when row i becomes n.                  *)
Witnessed(i, n) ==
  CASE call.kind = "walk" ->
         LET was == Matches(life[i], i, call.caller, call.filter)
             is  == Matches(n, i, call.caller, call.filter)
         IN  [call EXCEPT !.left = IF was /\ ~is THEN @ + 1 ELSE @,
                          !.entered = IF ~was /\ is THEN @ + 1 ELSE @,
                          !.stayed = IF is THEN @ ELSE @ \ {i}]
    [] call.kind = "metrics" -> [call EXCEPT !.moved = @ + 1]
    [] OTHER -> call

Undisturbed == call = NoCall \/ call.open

Removed == [status |-> "deleted", run |-> 0, spent |-> 0,
            limit |-> MaxAttempts, reason |-> ""]

Becomes ==
  [status : Status, run : 1 .. MaxRuns, spent : 0 .. MaxAttempts,
   limit : {MaxAttempts}, reason : Reasons] \cup {Removed}

(* A retry waits, every other pending row is due at once; a removed row    *)
(* takes its attempts with it.                                             *)
Move(i, n) ==
  /\ Undisturbed
  /\ L!Edge(life[i], n)
  /\ life[i].status = "pending" /\ n.status = "processing" => i \in due
  /\ life' = [life EXCEPT ![i] = n]
  /\ made' = [made EXCEPT ![i] = CASE n.status = "processing" -> @ + 1
                                    [] n.status = "deleted" -> 0
                                    [] OTHER -> @]
  /\ due' \in IF n.status # "pending" THEN {due \ {i}}
              ELSE IF life[i].status = "processing" THEN {due, due \cup {i}}
              ELSE {due \cup {i}}
  /\ call' = Witnessed(i, n)

ComesDue(i) ==
  /\ Undisturbed
  /\ life[i].status = "pending" /\ i \notin due
  /\ due' = due \cup {i}
  /\ call' = IF call.kind = "metrics" THEN Witnessed(i, life[i]) ELSE call
  /\ UNCHANGED <<life, made>>

Next ==
  \/ \E caller \in Caller, f \in Filter : FirstPage(caller, f)
  \/ NextPage
  \/ \E caller \in Caller, i \in Id : CheckExists(caller, i)
  \/ SelectAttempts
  \/ CountStatuses \/ OldestPending \/ CountAttempts
  \/ Return
  \/ \E i \in Id, n \in Becomes : Move(i, n)
  \/ \E i \in Id : ComesDue(i)

Spec == Init /\ [][Next]_vars

-----------------------------------------------------------------------------
Answered(kind) == call.kind = kind /\ ~call.open

(* An offset counts rows in a list that changes.  A walk that has come to  *)
(* its end has missed no more of the rows that matched all the time than   *)
(* there were rows that ceased to match during it, and has returned none   *)
(* twice but for the rows that began to match (Store.List, Server.list).   *)
PagesDrift ==
  Answered("walk") /\ call.complete =>
    /\ Cardinality(call.stayed \ call.got) <= call.left
    /\ call.count - Cardinality(call.got) <= call.entered
    /\ \A i \in call.got : Owner[i] = call.caller

(* The caller gets attempts of a notification of its own only, and is told *)
(* that there are none although there were only when the notification has  *)
(* been removed between the two statements (Store.ListAttempts).           *)
AttemptsOfOwnRow ==
  Answered("attempts") =>
    /\ call.got # {} => Owner[call.id] = call.caller
    /\ \/ Owner[call.id] # call.caller
       \/ life[call.id].status \in {"absent", "deleted"}
       \/ Cardinality(call.got) >= Cardinality(call.before)

(* No number of one answer is further from the tables than by what moved   *)
(* while the three statements were run; when nothing moved, all are exact  *)
(* and the processing rows are the attempts in progress (Store.Metrics).   *)
MetricsDrift ==
  Answered("metrics") =>
    LET Near(a, b) == a - b \in -call.moved .. call.moved
        InProgress == SumFunctionOnSet([t \in Target |-> call.attempts[t].in_progress],
                                       Target)
    IN  /\ \A s \in Status :
             Near(call.statuses[s], Cardinality({i \in Id : life[i].status = s}))
        /\ Near(call.statuses["processing"], InProgress)
        /\ \A t \in Target : call.attempts[t].in_progress <= call.attempts[t].all
        /\ call.moved = 0 =>
             (call.waits <=> \E i \in Id : i \in due /\ life[i].status = "pending")
=============================================================================
