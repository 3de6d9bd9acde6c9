-------------------------------- MODULE Store --------------------------------
(***************************************************************************)
(* internal/store/mysqlstore: the tables notification and                  *)
(* notification_attempt and the transactions that change them.             *)
(*                                                                         *)
(* Every transaction locks the rows it changes with its first statement    *)
(* and keeps them locked until it commits, so it is one atomic step; one   *)
(* that fails or is rolled back changes nothing and is no step at all.  A  *)
(* row locked by another transaction is what SKIP LOCKED passes over: a    *)
(* statement with SKIP LOCKED may therefore return any of the rows its     *)
(* WHERE clause selects.                                                   *)
(***************************************************************************)
EXTENDS Domain, Sequences, FiniteSets

CONSTANTS Id,             \* notification identifiers
          Target,         \* target identifiers
          Token,          \* lease tokens (random UUIDs)
          NoToken,        \* NULL in lease_token
          AttemptLimits,  \* the values MAX_ATTEMPTS has had
          Lease,          \* LEASE_DURATION
          Validity,       \* NOTIFICATION_VALIDITY
          Retention,      \* TERMINAL_RETENTION
          CleanupLimit    \* rows one Cleanup deletes (500)

ASSUME StoreAssumption ==
  /\ NoToken \notin Token
  /\ AttemptLimits \subseteq Nat \ {0}
  /\ Lease \in Nat \ {0}
  /\ Validity \in Nat \ {0}
  /\ Retention \in Nat \ {0}
  /\ CleanupLimit \in Nat \ {0}

VARIABLES now,            \* the database clock
          notification,   \* the row of every identifier
          attempt         \* the set of rows of notification_attempt

storeVars == <<now, notification, attempt>>

Row ==
  [status : RowStatus, target_id : Target,
   run_no : Nat, run_attempt_count : Nat, last_attempt_no : Nat,
   max_attempts : AttemptLimits, next_attempt_at : Instant,
   expires_at : Instant, lease_token : Token \cup {NoToken},
   lease_until : OptionalInstant, stop_reason : StopReason,
   finished_at : OptionalInstant, replay_history : Seq(Nat)]

(* retryable stands for http_status and error_code: whether what they say  *)
(* leaves room for another try.                                            *)
Attempt ==
  [id : Id, attempt_no : Nat, run_no : Nat, result : AttemptResult,
   retryable : BOOLEAN, evidence : Evidence, retry_after : OptionalInstant]

StoreTypeOK ==
  /\ now \in Instant
  /\ notification \in [Id -> Row]
  /\ attempt \subseteq Attempt

-----------------------------------------------------------------------------
(* Rows                                                                    *)

(* No row: the identifier is not in the table.                             *)
NoRow(status, target, limit) ==
  [status |-> status, target_id |-> target, run_no |-> 0,
   run_attempt_count |-> 0, last_attempt_no |-> 0, max_attempts |-> limit,
   next_attempt_at |-> 0, expires_at |-> 0,
   lease_token |-> NoToken, lease_until |-> NoTime, stop_reason |-> "",
   finished_at |-> NoTime, replay_history |-> <<>>]

InsertedRow(target, limit, at) ==
  [status |-> "pending", target_id |-> target, run_no |-> 1,
   run_attempt_count |-> 0, last_attempt_no |-> 0, max_attempts |-> limit,
   next_attempt_at |-> at, expires_at |-> at + Validity,
   lease_token |-> NoToken, lease_until |-> NoTime, stop_reason |-> "",
   finished_at |-> NoTime, replay_history |-> <<>>]

ClaimedRow(n, token) ==
  [n EXCEPT !.status = "processing",
            !.lease_token = token,
            !.lease_until = now + Lease,
            !.run_attempt_count = @ + 1,
            !.last_attempt_no = @ + 1]

(* Fault: a terminal completion writes its own next_attempt_at, the zero   *)
(* time.                                                                   *)
CompletedRow_WritesZeroTime(n, snapshot, c) ==
  [n EXCEPT !.status = c.status,
            !.next_attempt_at = c.next_attempt_at,
            !.lease_token = NoToken,
            !.lease_until = NoTime,
            !.stop_reason = c.stop_reason,
            !.finished_at = IF c.status \in Terminal THEN now ELSE NoTime]

(* snapshot is the row as Claim returned it: a terminal completion writes  *)
(* the snapshot's next_attempt_at back.                                    *)
CompletedRow(n, snapshot, c) ==
  [n EXCEPT !.status = c.status,
            !.next_attempt_at = IF c.status \in Terminal
                                THEN snapshot.next_attempt_at
                                ELSE c.next_attempt_at,
            !.lease_token = NoToken,
            !.lease_until = NoTime,
            !.stop_reason = c.stop_reason,
            !.finished_at = IF c.status \in Terminal THEN now ELSE NoTime]

(* Fault: the token of the dead worker stays in the row.                   *)
RecoveredRow_KeepsToken(n) ==
  [n EXCEPT !.status = IF n.run_attempt_count >= n.max_attempts
                       THEN "failed" ELSE "pending",
            !.next_attempt_at = now,
            !.lease_until = NoTime]

(* Fault: a recovered notification is always given another attempt.        *)
RecoveredRow_IgnoresBudget(n) ==
  [n EXCEPT !.status = IF n.expires_at <= now THEN "failed" ELSE "pending",
            !.next_attempt_at = now,
            !.lease_token = NoToken,
            !.lease_until = NoTime,
            !.stop_reason = IF n.expires_at <= now THEN "EXPIRED" ELSE "",
            !.finished_at = IF n.expires_at <= now THEN now ELSE NoTime]

RecoveredRow(n) ==
  LET stop == IF n.run_attempt_count >= n.max_attempts
              THEN "RETRY_EXHAUSTED"
              ELSE IF n.expires_at <= now THEN "EXPIRED" ELSE ""
  IN  [n EXCEPT !.status = IF stop = "" THEN "pending" ELSE "failed",
                !.next_attempt_at = now,
                !.lease_token = NoToken,
                !.lease_until = NoTime,
                !.stop_reason = stop,
                !.finished_at = IF stop = "" THEN NoTime ELSE now]

ExpiredRow(n) ==
  [n EXCEPT !.status = "failed",
            !.stop_reason = "EXPIRED",
            !.finished_at = now]

(* Fault: the new run inherits the spent budget.                           *)
ReplayedRow_KeepsCount(n, expires) ==
  [n EXCEPT !.status = "pending",
            !.run_no = @ + 1,
            !.next_attempt_at = now,
            !.expires_at = expires,
            !.stop_reason = "",
            !.finished_at = NoTime,
            !.replay_history = Append(@, n.run_no + 1)]

ReplayedRow(n, expires) ==
  [n EXCEPT !.status = "pending",
            !.run_no = @ + 1,
            !.run_attempt_count = 0,
            !.next_attempt_at = now,
            !.expires_at = expires,
            !.stop_reason = "",
            !.finished_at = NoTime,
            !.replay_history = Append(@, n.run_no + 1)]

DeletedRow(n) == NoRow("deleted", n.target_id, n.max_attempts)

StartedAttempt(i, n) ==
  [id |-> i, attempt_no |-> n.last_attempt_no, run_no |-> n.run_no,
   result |-> "in_progress", retryable |-> FALSE, evidence |-> "",
   retry_after |-> NoTime]

(* Fault: the UPDATE of an attempt forgets its number.                     *)
Open_AnyNumber(a, i, no) == a.id = i

(* UPDATE notification_attempt ... AND result = 'in_progress'              *)
Open(a, i, no) == a.id = i /\ a.attempt_no = no /\ a.result = "in_progress"

-----------------------------------------------------------------------------
(* Selections                                                              *)

Due(i) ==
  /\ notification[i].status = "pending"
  /\ notification[i].next_attempt_at <= now
  /\ notification[i].expires_at > now

(* Fault: the scan recovers only what can still be delivered.              *)
LeaseExpired_UnexpiredOnly ==
  {i \in Id : /\ notification[i].status = "processing"
              /\ notification[i].lease_until <= now
              /\ notification[i].expires_at > now}

LeaseExpired ==
  {i \in Id : /\ notification[i].status = "processing"
              /\ notification[i].lease_until <= now}

PendingExpired ==
  {i \in Id : /\ notification[i].status = "pending"
              /\ notification[i].expires_at <= now}

Removable ==
  {i \in Id : /\ notification[i].status \in Terminal
              /\ notification[i].finished_at < now - Retention}

(* LIMIT n FOR UPDATE SKIP LOCKED: up to n of the rows, others are locked. *)
SkipLocked(S, n) == {B \in SUBSET S : B # {} /\ Cardinality(B) <= n}

(* LIMIT n: any n of the rows, or all when there are fewer.                *)
Limited(S, n) == {B \in SkipLocked(S, n) : Cardinality(B) = n \/ B = S}

(* ORDER BY finished_at LIMIT n                                            *)
OldestFinished(S, n) ==
  {B \in Limited(S, n) :
     \A i \in B, j \in S \ B :
       notification[i].finished_at <= notification[j].finished_at}

-----------------------------------------------------------------------------
(* Transactions                                                            *)

Create(i, target, limit, at) ==
  /\ notification[i].status = "absent"
  /\ notification' = [notification EXCEPT ![i] = InsertedRow(target, limit, at)]
  /\ UNCHANGED <<now, attempt>>

(* The INSERT into notification_attempt fails, and everything with it, if  *)
(* the number is taken: UNIQUE (notification_id, attempt_no).              *)
Claim(i, token) ==
  LET n == ClaimedRow(notification[i], token)
  IN  /\ Due(i)
      /\ ~ \E a \in attempt : a.id = i /\ a.attempt_no = n.last_attempt_no
      /\ notification' = [notification EXCEPT ![i] = n]
      /\ attempt' = attempt \cup {StartedAttempt(i, n)}
      /\ UNCHANGED now

HoldsLease(i, snapshot) ==
  /\ notification[i].status = "processing"
  /\ notification[i].lease_token = snapshot.lease_token

(* Fault: any worker completes whatever is being processed.                *)
CanComplete_AnyWorker(i, snapshot) == notification[i].status = "processing"

(* Either UPDATE touching no row makes the whole transaction ErrLeaseLost. *)
CanComplete(i, snapshot) ==
  /\ HoldsLease(i, snapshot)
  /\ \E a \in attempt : Open(a, i, snapshot.last_attempt_no)

FinishedAttempt(a, result, c) ==
  [a EXCEPT !.result = result.result,
            !.retryable = result.retryable,
            !.evidence = result.evidence,
            !.retry_after = c.retry_after]

Complete(i, snapshot, result, c) ==
  /\ CanComplete(i, snapshot)
  /\ notification' =
       [notification EXCEPT ![i] = CompletedRow(@, snapshot, c)]
  /\ attempt' = {IF Open(a, i, snapshot.last_attempt_no)
                 THEN FinishedAttempt(a, result, c)
                 ELSE a : a \in attempt}
  /\ UNCHANGED now

(* Faults: recovery leaves the attempt open, or claims nothing was sent.   *)
RecoveredAttempt_StaysOpen(a) == [a EXCEPT !.evidence = "unknown"]
RecoveredAttempt_NotSent(a) ==
  [a EXCEPT !.result = "recovered_unknown", !.retryable = TRUE,
            !.evidence = "not_sent"]

RecoveredAttempt(a) ==
  [a EXCEPT !.result = "recovered_unknown", !.retryable = TRUE,
            !.evidence = "unknown"]

Recover(B) ==
  /\ notification' =
       [i \in Id |-> IF i \in B THEN RecoveredRow(notification[i])
                               ELSE notification[i]]
  /\ attempt' = {IF a.id \in B /\ Open(a, a.id, notification[a.id].last_attempt_no)
                 THEN RecoveredAttempt(a)
                 ELSE a : a \in attempt}
  /\ UNCHANGED now

ExpirePending(B) ==
  /\ notification' =
       [i \in Id |-> IF i \in B THEN ExpiredRow(notification[i])
                               ELSE notification[i]]
  /\ UNCHANGED <<now, attempt>>

(* ON DELETE CASCADE takes the attempts along.                             *)
Cleanup(B) ==
  /\ notification' =
       [i \in Id |-> IF i \in B THEN DeletedRow(notification[i])
                               ELSE notification[i]]
  /\ attempt' = {a \in attempt : a.id \notin B}
  /\ UNCHANGED now

(* Fault: any failed run will do.                                          *)
Replay_AnyRun(i, expectedRun, expires, local) ==
  /\ expires > local
  /\ notification[i].status = "failed"
  /\ notification' =
       [notification EXCEPT ![i] = ReplayedRow(@, expires)]
  /\ UNCHANGED <<now, attempt>>

(* local is the clock of the process that serves the request: the new      *)
(* expiry is compared with it, not with the database's.                    *)
Replay(i, expectedRun, expires, local) ==
  /\ expires > local
  /\ notification[i].status = "failed"
  /\ notification[i].run_no = expectedRun
  /\ notification' =
       [notification EXCEPT ![i] = ReplayedRow(@, expires)]
  /\ UNCHANGED <<now, attempt>>
=============================================================================
