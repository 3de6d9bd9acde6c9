--------------------------- MODULE Dispatch_proofs ---------------------------
(***************************************************************************)
(* Proofs about Dispatch, for every value of its constants: types and      *)
(* leases first, then the history of deliveries against what the vendor    *)
(* saw, then what the rows of a notification and of its attempts say about *)
(* its past, and last how many attempts it gets.                           *)
(***************************************************************************)
EXTENDS Dispatch, FiniteSetTheorems, FunctionTheorems, TLAPS

-----------------------------------------------------------------------------
(* The inductive invariant                                                 *)

(* What the policy decided fits the snapshot it was decided on.            *)
CompletionFits(j) ==
  LET n == j.n
      c == j.completion
  IN  /\ j.result.result \in AnswerResult
      /\ c.status = "pending" =>
           /\ c.next_attempt_at \in Instant
           /\ c.stop_reason = ""
           /\ n.run_attempt_count < n.max_attempts
      /\ c.status = "succeeded" => c.stop_reason = ""
      /\ c.status = "failed" => c.stop_reason # ""
      /\ c.stop_reason = "RETRY_EXHAUSTED" =>
           n.run_attempt_count >= n.max_attempts
      /\ c.stop_reason = "EXPIRED" => n.run_attempt_count < n.max_attempts

OwnsLease(j) ==
  /\ j.n.status = "processing"
  /\ j.n.lease_token # NoToken
  /\ j.phase = "completing" => CompletionFits(j)

JobOK == \A j \in job : OwnsLease(j)

InBudget(n) ==
  /\ n.run_attempt_count <= n.max_attempts
  /\ n.status = "pending" => n.run_attempt_count < n.max_attempts
  /\ n.status \in Active => n.stop_reason = ""

(* No two jobs hold the same lease: a token is never drawn twice.          *)
AtMostOneOwner ==
  \A j, k \in job : j.n.lease_token = k.n.lease_token => j = k

BudgetOK == \A i \in Id : InBudget(notification[i])

(* The lease invariants with what they rest on: a job's token is its own,  *)
(* so its row cannot change without taking the lease away, so what the     *)
(* policy decided on the snapshot holds of the row (Claim, execute,        *)
(* Complete, Recover).                                                     *)
IndInv ==
  /\ TypeOK
  /\ JobOK
  /\ LeaseMatchesAttempt
  /\ SnapshotFresh
  /\ AtMostOneOwner
  /\ BudgetOK

-----------------------------------------------------------------------------
(* The policy returns a decision, and a retry has a time.                  *)

LEMMA RetryAfterType ==
  ASSUME NEW header \in Header, NEW t \in Instant
  PROVE  ParseRetryAfter(header, t) \in OptionalInstant
BY PolicyAssumption DEF ParseRetryAfter, Header, Instant, OptionalInstant, NoTime

LEMMA WaitsType ==
  ASSUME NEW k, NEW w \in Waits(k)
  PROVE  w \in Nat /\ w >= RetryMin
BY PolicyAssumption DEF Waits, Later

LEMMA DecisionType ==
  ASSUME NEW n \in Row, NEW answer \in Answer, NEW t \in Instant,
         NEW wait \in Nat
  PROVE  LET d == Decide(n, answer, t, wait)
         IN  /\ d \in Decision
             /\ d.action = "retry" => d.next_attempt_at \in Instant
<1>1. answer.retry_after \in Header
  BY DEF Answer
<1>2. ParseRetryAfter(answer.retry_after, t) \in OptionalInstant
  BY <1>1, RetryAfterType
<1>3. n.expires_at \in Nat
  BY DEF Row, Instant
<1> QED
  BY <1>2, <1>3
  DEF Decide, RetryOrExpire, Later, Succeed, Stop, Retry, Decision, Action,
      StopReason, Instant, OptionalInstant, NoTime

LEMMA CompletionType ==
  ASSUME NEW d \in Decision
  PROVE  CompletionOf(d) \in Completion
BY DEF CompletionOf, Completion, Decision, Action

-----------------------------------------------------------------------------
(* Every operator on rows yields a row.                                    *)

LEMMA NoRowType ==
  ASSUME NEW s \in RowStatus, NEW t \in Target, NEW m \in AttemptLimits
  PROVE  NoRow(s, t, m) \in Row
BY DEF NoRow, Row, Instant, OptionalInstant, NoTime, StopReason

LEMMA InsertedRowType ==
  ASSUME NEW t \in Target, NEW m \in AttemptLimits, NEW at \in Nat
  PROVE  InsertedRow(t, m, at) \in Row
BY StoreAssumption
DEF InsertedRow, Row, Instant, OptionalInstant, NoTime, StopReason,
    RowStatus, Status, Active

LEMMA ClaimedRowType ==
  ASSUME now \in Nat, NEW n \in Row, NEW token \in Token
  PROVE  ClaimedRow(n, token) \in Row
<1>1. now + Lease \in OptionalInstant
  BY StoreAssumption DEF OptionalInstant
<1>2. "processing" \in RowStatus
  BY DEF RowStatus, Status, Active
<1>3. n.run_attempt_count + 1 \in Nat /\ n.last_attempt_no + 1 \in Nat
  BY DEF Row
<1> QED
  BY <1>1, <1>2, <1>3 DEF ClaimedRow, Row

LEMMA CompletedRowType ==
  ASSUME now \in Nat, NEW n \in Row, NEW snapshot \in Row,
         NEW c \in Completion,
         c.status = "pending" => c.next_attempt_at \in Instant
  PROVE  CompletedRow(n, snapshot, c) \in Row
<1> DEFINE next == IF c.status \in Terminal
                   THEN snapshot.next_attempt_at
                   ELSE c.next_attempt_at
           finished == IF c.status \in Terminal THEN now ELSE NoTime
<1>1. c.status \in RowStatus /\ next \in Instant
  BY DEF Row, Completion, RowStatus, Status, Active, Terminal
<1>2. finished \in OptionalInstant /\ NoTime \in OptionalInstant
  BY DEF OptionalInstant
<1>3. c.stop_reason \in StopReason
  BY DEF Completion
<1> HIDE DEF next, finished
<1>4. CompletedRow(n, snapshot, c) =
        [n EXCEPT !.status = c.status, !.next_attempt_at = next,
                  !.lease_token = NoToken, !.lease_until = NoTime,
                  !.stop_reason = c.stop_reason, !.finished_at = finished]
  BY DEF CompletedRow, next, finished
<1> QED
  BY <1>1, <1>2, <1>3, <1>4 DEF Row

LEMMA RecoveredRowType ==
  ASSUME now \in Nat, NEW n \in Row
  PROVE  RecoveredRow(n) \in Row
BY DEF RecoveredRow, Row, Instant, OptionalInstant, NoTime, StopReason,
       RowStatus, Status, Active, Terminal

LEMMA ExpiredRowType ==
  ASSUME now \in Nat, NEW n \in Row
  PROVE  ExpiredRow(n) \in Row
BY DEF ExpiredRow, Row, OptionalInstant, StopReason, RowStatus, Status,
       Terminal

LEMMA ReplayedRowType ==
  ASSUME now \in Nat, NEW n \in Row, NEW expires \in Nat
  PROVE  ReplayedRow(n, expires) \in Row
<1>1. Append(n.replay_history, n.run_no + 1) \in Seq(Nat)
  BY DEF Row
<1>2. /\ "pending" \in RowStatus /\ "" \in StopReason
      /\ now \in Instant /\ expires \in Instant
      /\ NoTime \in OptionalInstant
  BY DEF RowStatus, Status, Active, StopReason, Instant, OptionalInstant
<1>3. n.run_no + 1 \in Nat /\ 0 \in Nat
  BY DEF Row
<1> QED
  BY <1>1, <1>2, <1>3 DEF ReplayedRow, Row

LEMMA DeletedRowType ==
  ASSUME NEW n \in Row
  PROVE  DeletedRow(n) \in Row
BY NoRowType DEF DeletedRow, Row, RowStatus

-----------------------------------------------------------------------------
(* Type correctness                                                        *)

LEMMA InitType == Init => TypeOK
<1> SUFFICES ASSUME Init PROVE TypeOK
  OBVIOUS
<1>1. "absent" \in RowStatus
  BY DEF RowStatus
<1>2. notification \in [Id -> Row]
  BY <1>1, NoRowType DEF Init
<1> QED
  BY <1>2 DEF Init, TypeOK, StoreTypeOK, Instant

(* A job whose delivery is decided is a job again.                         *)
LEMMA DecidedJobType ==
  ASSUME NEW j \in Job, NEW answer \in Answer, NEW c \in Completion
  PROVE  [j EXCEPT !.phase = "completing",
                   !.result = [result |-> answer.result,
                               retryable |-> answer.retryable,
                               evidence |-> answer.evidence],
                   !.completion = c] \in Job
<1>1. [result |-> answer.result, retryable |-> answer.retryable,
       evidence |-> answer.evidence] \in DeliveryResult
  BY DEF Answer, DeliveryResult, AttemptResult
<1> QED
  BY <1>1 DEF Job, Phase

LEMMA NewJobType ==
  ASSUME NEW p \in Proc, NEW i \in Id, NEW n \in Row
  PROVE  NewJob(p, i, n) \in Job
BY DEF NewJob, Job, Phase, NoResult, DeliveryResult, AttemptResult, Evidence,
       NoCompletion, Completion, OptionalInstant, StopReason

(* Both claims, whoever learns of them, leave well-typed tables.           *)
LEMMA ClaimType ==
  ASSUME StoreTypeOK, NEW i \in Id, NEW token \in Token, Claim(i, token)
  PROVE  StoreTypeOK'
<1>1. ClaimedRow(notification[i], token) \in Row
  BY ClaimedRowType DEF StoreTypeOK, Instant
<1>2. StartedAttempt(i, ClaimedRow(notification[i], token)) \in Attempt
  BY <1>1 DEF StartedAttempt, Attempt, Row, AttemptResult, Evidence,
              OptionalInstant
<1> QED
  BY <1>1, <1>2 DEF StoreTypeOK, Claim

LEMMA CompleteType ==
  ASSUME StoreTypeOK, NEW i \in Id, NEW snapshot \in Row,
         NEW result \in DeliveryResult, NEW c \in Completion,
         c.status = "pending" => c.next_attempt_at \in Instant,
         Complete(i, snapshot, result, c)
  PROVE  StoreTypeOK'
<1>1. CompletedRow(notification[i], snapshot, c) \in Row
  BY CompletedRowType DEF StoreTypeOK, Instant
<1>2. ASSUME NEW a \in attempt PROVE FinishedAttempt(a, result, c) \in Attempt
  <2>1. /\ result.result \in AttemptResult /\ result.retryable \in BOOLEAN
        /\ result.evidence \in Evidence /\ c.retry_after \in OptionalInstant
    BY DEF DeliveryResult, Completion
  <2>2. a \in Attempt
    BY DEF StoreTypeOK
  <2> QED
    BY <2>1, <2>2 DEF FinishedAttempt, Attempt
<1> QED
  BY <1>1, <1>2 DEF StoreTypeOK, Complete

LEMMA RecoverType ==
  ASSUME StoreTypeOK, NEW B, Recover(B)
  PROVE  StoreTypeOK'
<1>1. \A i \in Id : RecoveredRow(notification[i]) \in Row
  BY RecoveredRowType DEF StoreTypeOK, Instant
<1>2. \A a \in attempt : RecoveredAttempt(a) \in Attempt
  BY DEF StoreTypeOK, RecoveredAttempt, Attempt, AttemptResult, Evidence
<1> QED
  BY <1>1, <1>2 DEF StoreTypeOK, Recover

LEMMA TypeStep ==
  ASSUME TypeOK, JobOK, [Next]_vars
  PROVE  TypeOK'
<1> USE DEF TypeOK
<1>1. ASSUME NEW i \in Id, NEW t \in Target, NEW m \in AttemptLimits,
             NEW at \in 0 .. now, AcceptNotification(i, t, m, at)
      PROVE  TypeOK'
  <2>1. InsertedRow(t, m, at) \in Row
    BY InsertedRowType DEF StoreTypeOK, Instant
  <2> QED
    BY <1>1, <2>1 DEF AcceptNotification, Create, StoreTypeOK
<1>2. ASSUME NEW i \in Id, ApproveReplay(i)
      PROVE  TypeOK'
  <2>1. notification[i].run_no \in Nat
    BY DEF StoreTypeOK, Row
  <2> QED
    BY <1>2, <2>1 DEF ApproveReplay, StoreTypeOK, storeVars
<1>3. ASSUME NEW i \in Id, NEW run \in 1 .. MaxRuns,
             NEW expires \in 0 .. now + ReplayValidity,
             NEW local \in now - ClockSkew .. now + ClockSkew,
             ReplayNotification(i, run, expires, local)
      PROVE  TypeOK'
  <2>1. ReplayedRow(notification[i], expires) \in Row
    BY ReplayedRowType, DispatchAssumption DEF StoreTypeOK, Instant
  <2> QED
    BY <1>3, <2>1 DEF ReplayNotification, Replay, StoreTypeOK
<1>4. ASSUME NEW p \in Proc, NEW i \in Id, NEW token \in Token,
             ClaimNotification(p, i, token)
      PROVE  TypeOK'
  <2>1. StoreTypeOK'
    BY <1>4, ClaimType DEF ClaimNotification
  <2>2. NewJob(p, i, notification'[i]) \in Job
    BY <2>1, NewJobType DEF StoreTypeOK
  <2> QED
    BY <1>4, <2>1, <2>2 DEF ClaimNotification
<1>5. ASSUME NEW p \in Proc, NEW i \in Id, NEW token \in Token,
             ClaimUnacknowledged(p, i, token)
      PROVE  TypeOK'
  BY <1>5, ClaimType DEF ClaimUnacknowledged
<1>6. ASSUME NEW j \in job, NEW answer \in Outcomes, NEW vendor \in BOOLEAN,
             NEW wait \in Waits(j.n.run_attempt_count),
             DeliverNotification(j, answer, wait, vendor)
      PROVE  TypeOK'
  <2>1. answer \in Answer /\ wait \in Nat /\ j \in Job /\ j.n \in Row
    BY DispatchAssumption, WaitsType DEF Job
  <2>2. CompletionOf(Decide(j.n, answer, now, wait)) \in Completion
    BY <2>1, DecisionType, CompletionType DEF StoreTypeOK
  <2>3. Key(j) \in Id \X Nat
    BY <2>1 DEF Key, Job, Row
  <2> DEFINE k == [j EXCEPT !.phase = "completing",
                            !.result = [result |-> answer.result,
                                        retryable |-> answer.retryable,
                                        evidence |-> answer.evidence],
                            !.completion = CompletionOf(Decide(j.n, answer, now, wait))]
  <2>4. k \in Job
    BY <2>1, <2>2, DecidedJobType
  <2>5. /\ job' = (job \ {j}) \cup {k}
        /\ accepted' \subseteq accepted \cup {Key(j)}
        /\ UNCHANGED <<now, notification, attempt, approved>>
    BY <1>6 DEF DeliverNotification, storeVars
  <2> HIDE DEF k
  <2>6. StoreTypeOK'
    BY <2>5 DEF StoreTypeOK
  <2> QED
    BY <2>3, <2>4, <2>5, <2>6
<1>7. ASSUME NEW j \in job, CompleteNotification(j)
      PROVE  TypeOK'
  <2>1. /\ j.id \in Id /\ j.n \in Row
        /\ j.result \in DeliveryResult /\ j.completion \in Completion
    BY DEF Job
  <2>2. j.completion.status = "pending" =>
          j.completion.next_attempt_at \in Instant
    BY <1>7 DEF CompleteNotification, JobOK, OwnsLease, CompletionFits
  <2>3. StoreTypeOK'
    BY <1>7, <2>1, <2>2, CompleteType DEF CompleteNotification
  <2> QED
    BY <1>7, <2>3 DEF CompleteNotification
<1>8. ASSUME NEW j \in job, RejectCompletion(j) \/ AbandonJob(j)
      PROVE  TypeOK'
  BY <1>8 DEF RejectCompletion, AbandonJob, storeVars, StoreTypeOK
<1>9. ASSUME NEW B \in SUBSET Id, RecoverLeases(B)
      PROVE  TypeOK'
  BY <1>9, RecoverType DEF RecoverLeases
<1>10. ASSUME NEW B \in SUBSET Id, ExpireNotifications(B)
       PROVE  TypeOK'
  <2>1. \A i \in Id : ExpiredRow(notification[i]) \in Row
    BY ExpiredRowType DEF StoreTypeOK, Instant
  <2> QED
    BY <1>10, <2>1 DEF ExpireNotifications, ExpirePending, StoreTypeOK
<1>11. ASSUME NEW B \in SUBSET Id, CleanupNotifications(B)
       PROVE  TypeOK'
  <2>1. \A i \in Id : DeletedRow(notification[i]) \in Row
    BY DeletedRowType DEF StoreTypeOK
  <2> QED
    BY <1>11, <2>1 DEF CleanupNotifications, Cleanup, StoreTypeOK
<1>12. ASSUME NEW p \in Proc, NEW arrived \in SUBSET JobsOf(p),
              Crash(p, arrived)
       PROVE  TypeOK'
  <2>1. \A j \in arrived : Key(j) \in Id \X Nat
    BY DEF JobsOf, Key, Job, Row
  <2> QED
    BY <1>12, <2>1 DEF Crash, JobsOf, storeVars, StoreTypeOK
<1>13. CASE Tick
  BY <1>13 DEF Tick, StoreTypeOK, Instant
<1>14. CASE UNCHANGED vars
  BY <1>14 DEF vars, StoreTypeOK
<1> QED
  BY <1>1, <1>2, <1>3, <1>4, <1>5, <1>6, <1>7, <1>8, <1>9, <1>10, <1>11,
     <1>12, <1>13, <1>14 DEF Next

-----------------------------------------------------------------------------
(* The jobs                                                                *)

LEMMA DecisionFits ==
  ASSUME NEW n \in Row, NEW answer \in Answer, NEW t \in Instant,
         NEW wait \in Nat
  PROVE  LET d == Decide(n, answer, t, wait)
         IN  /\ d.action = "retry" =>
                  /\ d.stop_reason = ""
                  /\ n.run_attempt_count < n.max_attempts
             /\ d.action = "succeed" => d.stop_reason = ""
             /\ d.action = "stop" => d.stop_reason # ""
             /\ d.stop_reason = "RETRY_EXHAUSTED" =>
                  n.run_attempt_count >= n.max_attempts
             /\ d.stop_reason = "EXPIRED" =>
                  n.run_attempt_count < n.max_attempts
<1>1. n.run_attempt_count \in Nat /\ n.max_attempts \in Nat
  BY StoreAssumption DEF Row
<1> QED
  BY <1>1 DEF Decide, RetryOrExpire, Succeed, Stop, Retry

LEMMA ClaimedRowFields ==
  ASSUME NEW n \in Row, NEW token \in Token
  PROVE  /\ ClaimedRow(n, token).status = "processing"
         /\ ClaimedRow(n, token).lease_token = token
         /\ ClaimedRow(n, token).lease_until = now + Lease
         /\ ClaimedRow(n, token).run_attempt_count = n.run_attempt_count + 1
         /\ ClaimedRow(n, token).last_attempt_no = n.last_attempt_no + 1
         /\ ClaimedRow(n, token).run_no = n.run_no
         /\ ClaimedRow(n, token).max_attempts = n.max_attempts
         /\ ClaimedRow(n, token).stop_reason = n.stop_reason
BY DEF ClaimedRow, Row

LEMMA JobStep ==
  ASSUME TypeOK, JobOK, [Next]_vars
  PROVE  JobOK'
<1>1. ASSUME NEW p \in Proc, NEW i \in Id, NEW token \in Token,
             ClaimNotification(p, i, token)
      PROVE  JobOK'
  <2>1. notification'[i] = ClaimedRow(notification[i], token)
    BY <1>1 DEF ClaimNotification, Claim, TypeOK, StoreTypeOK
  <2>2. notification[i] \in Row
    BY DEF TypeOK, StoreTypeOK
  <2>3. /\ notification'[i].status = "processing"
        /\ notification'[i].lease_token # NoToken
    BY <2>1, <2>2, ClaimedRowFields, StoreAssumption
  <2>4. job' = job \cup {NewJob(p, i, notification'[i])}
    BY <1>1 DEF ClaimNotification
  <2>5. OwnsLease(NewJob(p, i, notification'[i]))
    BY <2>3 DEF OwnsLease, NewJob
  <2> QED
    BY <2>4, <2>5 DEF JobOK
<1>2. ASSUME NEW j \in job, NEW answer \in Outcomes, NEW vendor \in BOOLEAN,
             NEW wait \in Waits(j.n.run_attempt_count),
             DeliverNotification(j, answer, wait, vendor)
      PROVE  JobOK'
  <2> DEFINE d == Decide(j.n, answer, now, wait)
             k == [j EXCEPT !.phase = "completing",
                            !.result = [result |-> answer.result,
                                        retryable |-> answer.retryable,
                                        evidence |-> answer.evidence],
                            !.completion = CompletionOf(d)]
  <2>1. answer \in Answer /\ wait \in Nat /\ j \in Job /\ j.n \in Row
    BY DispatchAssumption, WaitsType DEF TypeOK, Job
  <2>2. d \in Decision /\ (d.action = "retry" => d.next_attempt_at \in Instant)
    BY <2>1, DecisionType DEF TypeOK, StoreTypeOK
  <2>3. /\ k.n = j.n /\ k.completion = CompletionOf(d)
        /\ k.result.result \in AnswerResult
    BY <2>1 DEF Job, Answer
  <2>4. CompletionFits(k)
    <3>1. d \in Decision => d.action \in {"succeed", "retry", "stop"}
      BY DEF Decision, Action
    <3>2. /\ CompletionOf(d).next_attempt_at = d.next_attempt_at
          /\ CompletionOf(d).stop_reason = d.stop_reason
          /\ CompletionOf(d).status = "pending" => d.action = "retry"
          /\ CompletionOf(d).status = "succeeded" => d.action = "succeed"
          /\ CompletionOf(d).status = "failed" => d.action = "stop"
      BY <2>2, <3>1 DEF CompletionOf
    <3>3. /\ d.action = "retry" =>
               /\ d.stop_reason = ""
               /\ j.n.run_attempt_count < j.n.max_attempts
          /\ d.action = "succeed" => d.stop_reason = ""
          /\ d.action = "stop" => d.stop_reason # ""
          /\ d.stop_reason = "RETRY_EXHAUSTED" =>
               j.n.run_attempt_count >= j.n.max_attempts
          /\ d.stop_reason = "EXPIRED" =>
               j.n.run_attempt_count < j.n.max_attempts
      BY <2>1, DecisionFits DEF TypeOK, StoreTypeOK
    <3> HIDE DEF d, k
    <3> QED
      BY <2>2, <2>3, <3>2, <3>3 DEF CompletionFits
  <2>5. job' = (job \ {j}) \cup {k}
    BY <1>2 DEF DeliverNotification
  <2>6. OwnsLease(k)
    <3> HIDE DEF k
    <3> QED
      BY <2>3, <2>4 DEF OwnsLease, JobOK
  <2> HIDE DEF k
  <2> QED
    BY <2>5, <2>6 DEF JobOK
<1>3. CASE job' \subseteq job
  BY <1>3 DEF JobOK
<1>4. ASSUME NEW p \in Proc, NEW arrived \in SUBSET JobsOf(p),
             Crash(p, arrived)
      PROVE  job' \subseteq job
  BY <1>4 DEF Crash
<1> QED
  BY <1>1, <1>2, <1>3, <1>4
  DEF Next, vars, storeVars, AcceptNotification, ApproveReplay,
      ReplayNotification, ClaimUnacknowledged, CompleteNotification,
      RejectCompletion, AbandonJob, RecoverLeases, ExpireNotifications,
      CleanupNotifications, Tick

-----------------------------------------------------------------------------
(* Leases and open attempts                                                *)

(* Nothing is being delivered of a row that carries no lease, and a change *)
(* that leaves it without one keeps it so.                                 *)
LEMMA ReleasedRow ==
  ASSUME NEW i \in Id,
         notification'[i].status # "processing",
         notification'[i].lease_token = NoToken,
         notification'[i].lease_until = NoTime,
         \A a \in attempt' : ~ InProgress(a, i)
  PROVE  LeaseMatches(i)'
BY DEF LeaseMatches

LEMMA ClaimLease ==
  ASSUME TypeOK, LeaseMatchesAttempt, NEW i \in Id, NEW token \in Token,
         Claim(i, token)
  PROVE  LeaseMatchesAttempt'
<1> DEFINE n == ClaimedRow(notification[i], token)
<1>1. notification[i] \in Row /\ now \in Nat
  BY DEF TypeOK, StoreTypeOK, Instant
<1>2. notification' = [notification EXCEPT ![i] = n]
  BY DEF Claim
<1>3. notification'[i] = n /\ \A k \in Id \ {i} : notification'[k] = notification[k]
  BY <1>2 DEF TypeOK, StoreTypeOK
<1>4. attempt' = attempt \cup {StartedAttempt(i, n)}
  BY DEF Claim
<1>5. \A a \in attempt : ~ InProgress(a, i)
  BY DEF Claim, Due, LeaseMatchesAttempt, LeaseMatches
<1>6. /\ n.status = "processing" /\ n.lease_token # NoToken
      /\ n.lease_until # NoTime
  BY <1>1, ClaimedRowFields, StoreAssumption DEF NoTime
<1>7. /\ InProgress(StartedAttempt(i, n), i)
      /\ StartedAttempt(i, n).attempt_no = n.last_attempt_no
      /\ StartedAttempt(i, n).run_no = n.run_no
      /\ \A k \in Id \ {i} : ~ InProgress(StartedAttempt(i, n), k)
  BY DEF StartedAttempt, InProgress
<1> HIDE DEF n
<1>8. LeaseMatches(i)'
  BY <1>3, <1>4, <1>5, <1>6, <1>7 DEF LeaseMatches
<1>9. ASSUME NEW k \in Id \ {i} PROVE LeaseMatches(k)'
  BY <1>3, <1>4, <1>7 DEF LeaseMatches, LeaseMatchesAttempt
<1> QED
  BY <1>8, <1>9 DEF LeaseMatchesAttempt

(* Complete and Recover close the open attempts of the rows they release   *)
(* and touch no attempt of another notification.                           *)
LEMMA CompleteLease ==
  ASSUME TypeOK, LeaseMatchesAttempt, SnapshotFresh, NEW j \in job,
         OwnsLease(j), j.phase = "completing",
         Complete(j.id, j.n, j.result, j.completion)
  PROVE  LeaseMatchesAttempt'
<1> DEFINE i == j.id
           n == CompletedRow(notification[i], j.n, j.completion)
           f(a) == IF Open(a, i, j.n.last_attempt_no)
                   THEN FinishedAttempt(a, j.result, j.completion) ELSE a
<1>1. /\ i \in Id /\ notification[i] \in Row /\ j.result \in DeliveryResult
      /\ j.completion \in Completion
  BY DEF TypeOK, StoreTypeOK, Job
<1>2. notification' = [notification EXCEPT ![i] = n]
  BY DEF Complete
<1>3. notification'[i] = n /\ \A k \in Id \ {i} : notification'[k] = notification[k]
  BY <1>1, <1>2 DEF TypeOK, StoreTypeOK
<1>4. attempt' = {f(a) : a \in attempt}
  BY DEF Complete
<1>5. notification[i] = j.n
  BY DEF Complete, CanComplete, HoldsLease, SnapshotFresh
<1>6. /\ n.status \in {"pending", "succeeded", "failed"}
      /\ n.lease_token = NoToken /\ n.lease_until = NoTime
  BY <1>1 DEF CompletedRow, Row, Completion
<1>7. \A a \in attempt : f(a).id = a.id
  BY DEF TypeOK, StoreTypeOK, Attempt, FinishedAttempt
<1>8. \A a \in attempt : a.id # i => f(a) = a
  BY DEF Open
<1>9. \A a \in attempt : a.id = i => ~ InProgress(f(a), i)
  <2> SUFFICES ASSUME NEW a \in attempt, a.id = i, InProgress(f(a), i)
               PROVE  FALSE
    OBVIOUS
  <2>1. CASE Open(a, i, j.n.last_attempt_no)
    <3>1. FinishedAttempt(a, j.result, j.completion).result = j.result.result
      BY DEF FinishedAttempt, TypeOK, StoreTypeOK, Attempt
    <3>2. j.result.result # "in_progress"
      BY DEF Complete, OwnsLease, CompletionFits, AnswerResult
    <3> QED
      BY <2>1, <3>1, <3>2 DEF InProgress
  <2>2. CASE ~ Open(a, i, j.n.last_attempt_no)
    <3>1. InProgress(a, i)
      BY <2>2
    <3> QED
      BY <1>1, <1>5, <2>2, <3>1
      DEF LeaseMatchesAttempt, LeaseMatches, InProgress, Open
  <2> QED
    BY <2>1, <2>2
<1> HIDE DEF n, f
<1>10. LeaseMatches(i)'
  BY <1>1, <1>3, <1>4, <1>6, <1>7, <1>9, ReleasedRow DEF InProgress
<1>11. ASSUME NEW k \in Id \ {i} PROVE LeaseMatches(k)'
  <2>1. \A a : InProgress(a, k) => (a \in attempt' <=> a \in attempt)
    BY <1>4, <1>7, <1>8 DEF InProgress
  <2> QED
    BY <1>3, <2>1 DEF LeaseMatches, LeaseMatchesAttempt
<1> QED
  BY <1>10, <1>11 DEF LeaseMatchesAttempt

LEMMA RecoverLease ==
  ASSUME TypeOK, LeaseMatchesAttempt, NEW B \in SUBSET Id, Recover(B),
         \A i \in B : notification[i].status = "processing"
  PROVE  LeaseMatchesAttempt'
<1> DEFINE f(a) == IF a.id \in B /\ Open(a, a.id, notification[a.id].last_attempt_no)
                   THEN RecoveredAttempt(a) ELSE a
<1>1. notification' = [i \in Id |-> IF i \in B THEN RecoveredRow(notification[i])
                                             ELSE notification[i]]
  BY DEF Recover
<1>2. attempt' = {f(a) : a \in attempt}
  BY DEF Recover
<1>3. \A a \in attempt : f(a).id = a.id
  BY DEF TypeOK, StoreTypeOK, Attempt, RecoveredAttempt
<1>4. \A a \in attempt : a.id \notin B => f(a) = a
  OBVIOUS
<1>5. \A a \in attempt : a.id \in B => f(a).result # "in_progress"
  BY DEF TypeOK, StoreTypeOK, Attempt, RecoveredAttempt, Open,
         LeaseMatchesAttempt, LeaseMatches, InProgress
<1> HIDE DEF f
<1>6. ASSUME NEW i \in B PROVE LeaseMatches(i)'
  <2>1. notification[i] \in Row /\ i \in Id
    BY DEF TypeOK, StoreTypeOK
  <2>2. /\ RecoveredRow(notification[i]).status # "processing"
        /\ RecoveredRow(notification[i]).lease_token = NoToken
        /\ RecoveredRow(notification[i]).lease_until = NoTime
    BY <2>1 DEF RecoveredRow, Row
  <2>3. \A a \in attempt' : ~ InProgress(a, i)
    BY <1>2, <1>3, <1>5 DEF InProgress
  <2>4. notification'[i] = RecoveredRow(notification[i])
    BY <1>1, <2>1
  <2> QED
    BY <2>1, <2>2, <2>3, <2>4, ReleasedRow
<1>7. ASSUME NEW k \in Id \ B PROVE LeaseMatches(k)'
  <2>1. \A a : InProgress(a, k) => (a \in attempt' <=> a \in attempt)
    BY <1>2, <1>3, <1>4 DEF InProgress
  <2>2. notification'[k] = notification[k]
    BY <1>1
  <2> QED
    BY <2>1, <2>2 DEF LeaseMatches, LeaseMatchesAttempt
<1> QED
  BY <1>6, <1>7 DEF LeaseMatchesAttempt

(* Inserts, replays, expiry and cleanup: the rows they change carry no     *)
(* lease before or after.                                                  *)
LEMMA IdleRowsLease ==
  ASSUME TypeOK, LeaseMatchesAttempt, NEW B \in SUBSET Id,
         attempt' \subseteq attempt,
         \A a \in attempt \ attempt' : a.id \in B,
         \A i \in B :
           /\ notification[i].status # "processing"
           /\ notification'[i].status # "processing"
           /\ notification'[i].lease_token = NoToken
           /\ notification'[i].lease_until = NoTime,
         \A i \in Id \ B : notification'[i] = notification[i]
  PROVE  LeaseMatchesAttempt'
<1>1. ASSUME NEW i \in B PROVE LeaseMatches(i)'
  <2>1. \A a \in attempt' : ~ InProgress(a, i)
    BY DEF LeaseMatchesAttempt, LeaseMatches
  <2> QED
    BY <2>1, ReleasedRow
<1>2. ASSUME NEW k \in Id \ B PROVE LeaseMatches(k)'
  <2>1. \A a : InProgress(a, k) => (a \in attempt' <=> a \in attempt)
    BY DEF InProgress
  <2> QED
    BY <2>1 DEF LeaseMatches, LeaseMatchesAttempt
<1> QED
  BY <1>1, <1>2 DEF LeaseMatchesAttempt

LEMMA IdleRowFields ==
  ASSUME NEW n \in Row, n.lease_token = NoToken, n.lease_until = NoTime
  PROVE  /\ ExpiredRow(n).status = "failed"
         /\ ExpiredRow(n).lease_token = NoToken
         /\ ExpiredRow(n).lease_until = NoTime
         /\ DeletedRow(n).status = "deleted"
         /\ DeletedRow(n).lease_token = NoToken
         /\ DeletedRow(n).lease_until = NoTime
         /\ \A e : /\ ReplayedRow(n, e).status = "pending"
                   /\ ReplayedRow(n, e).lease_token = NoToken
                   /\ ReplayedRow(n, e).lease_until = NoTime
BY DEF ExpiredRow, DeletedRow, NoRow, ReplayedRow, Row

LEMMA LeaseStep ==
  ASSUME TypeOK, JobOK, LeaseMatchesAttempt, SnapshotFresh, [Next]_vars
  PROVE  LeaseMatchesAttempt'
<1>0. \A i \in Id : notification[i].status # "processing" =>
        /\ notification[i].lease_token = NoToken
        /\ notification[i].lease_until = NoTime
        /\ notification[i] \in Row
  BY DEF LeaseMatchesAttempt, LeaseMatches, TypeOK, StoreTypeOK
<1>1. ASSUME NEW i \in Id, NEW t, NEW m, NEW at, AcceptNotification(i, t, m, at)
      PROVE  LeaseMatchesAttempt'
  <2>1. /\ notification' = [notification EXCEPT ![i] = InsertedRow(t, m, at)]
        /\ notification[i].status # "processing" /\ attempt' = attempt
    BY <1>1 DEF AcceptNotification, Create
  <2>2. /\ notification'[i] = InsertedRow(t, m, at)
        /\ \A k \in Id \ {i} : notification'[k] = notification[k]
    BY <2>1 DEF TypeOK, StoreTypeOK
  <2>3. /\ InsertedRow(t, m, at).status = "pending"
        /\ InsertedRow(t, m, at).lease_token = NoToken
        /\ InsertedRow(t, m, at).lease_until = NoTime
    BY DEF InsertedRow
  <2> QED
    BY <2>1, <2>2, <2>3, IdleRowsLease, {i} \in SUBSET Id
<1>2. ASSUME NEW i \in Id, NEW r, NEW e, NEW l, ReplayNotification(i, r, e, l)
      PROVE  LeaseMatchesAttempt'
  <2>1. /\ notification' = [notification EXCEPT ![i] = ReplayedRow(@, e)]
        /\ notification[i].status = "failed" /\ attempt' = attempt
    BY <1>2 DEF ReplayNotification, Replay
  <2>2. /\ notification'[i] = ReplayedRow(notification[i], e)
        /\ \A k \in Id \ {i} : notification'[k] = notification[k]
    BY <2>1 DEF TypeOK, StoreTypeOK
  <2>3. /\ notification'[i].status = "pending"
        /\ notification'[i].lease_token = NoToken
        /\ notification'[i].lease_until = NoTime
    BY <1>0, <2>1, <2>2, IdleRowFields
  <2> QED
    BY <2>1, <2>2, <2>3, IdleRowsLease, {i} \in SUBSET Id
<1>3. ASSUME NEW p, NEW i \in Id, NEW token \in Token,
             ClaimNotification(p, i, token) \/ ClaimUnacknowledged(p, i, token)
      PROVE  LeaseMatchesAttempt'
  BY <1>3, ClaimLease DEF ClaimNotification, ClaimUnacknowledged
<1>4. ASSUME NEW j \in job, CompleteNotification(j)
      PROVE  LeaseMatchesAttempt'
  BY <1>4, CompleteLease DEF CompleteNotification, JobOK
<1>5. ASSUME NEW B \in SUBSET Id, RecoverLeases(B)
      PROVE  LeaseMatchesAttempt'
  <2>1. \A i \in B : notification[i].status = "processing"
    BY <1>5 DEF RecoverLeases, SkipLocked, LeaseExpired
  <2> QED
    BY <1>5, <2>1, RecoverLease DEF RecoverLeases
<1>6. ASSUME NEW B \in SUBSET Id, ExpireNotifications(B)
      PROVE  LeaseMatchesAttempt'
  <2>1. /\ notification' = [i \in Id |-> IF i \in B THEN ExpiredRow(notification[i])
                                                  ELSE notification[i]]
        /\ attempt' = attempt
    BY <1>6 DEF ExpireNotifications, ExpirePending
  <2>2. \A i \in B : notification[i].status = "pending"
    BY <1>6 DEF ExpireNotifications, Limited, SkipLocked, PendingExpired
  <2>3. \A i \in B : /\ notification'[i].status = "failed"
                     /\ notification'[i].lease_token = NoToken
                     /\ notification'[i].lease_until = NoTime
    BY <1>0, <2>1, <2>2, IdleRowFields
  <2> QED
    BY <2>1, <2>2, <2>3, IdleRowsLease
<1>7. ASSUME NEW B \in SUBSET Id, CleanupNotifications(B)
      PROVE  LeaseMatchesAttempt'
  <2>1. /\ notification' = [i \in Id |-> IF i \in B THEN DeletedRow(notification[i])
                                                  ELSE notification[i]]
        /\ attempt' = {a \in attempt : a.id \notin B}
    BY <1>7 DEF CleanupNotifications, Cleanup
  <2>2. \A i \in B : notification[i].status \in Terminal
    BY <1>7 DEF CleanupNotifications, OldestFinished, Limited, SkipLocked,
                Removable
  <2>3. \A i \in B : /\ notification'[i].status = "deleted"
                     /\ notification'[i].lease_token = NoToken
                     /\ notification'[i].lease_until = NoTime
    BY <1>0, <2>1, <2>2, IdleRowFields DEF Terminal
  <2> QED
    BY <2>1, <2>2, <2>3, IdleRowsLease DEF Terminal
<1>8. CASE UNCHANGED <<notification, attempt>>
  BY <1>8 DEF LeaseMatchesAttempt, LeaseMatches
<1>9. ASSUME NEW p, NEW arrived, Crash(p, arrived)
      PROVE  UNCHANGED <<notification, attempt>>
  BY <1>9 DEF Crash, storeVars
<1>10. ASSUME NEW j, NEW a, NEW w, NEW v, DeliverNotification(j, a, w, v)
       PROVE  UNCHANGED <<notification, attempt>>
  BY <1>10 DEF DeliverNotification, storeVars
<1> QED
  BY <1>1, <1>2, <1>3, <1>4, <1>5, <1>6, <1>7, <1>8, <1>9, <1>10
  DEF Next, vars, storeVars, ApproveReplay, RejectCompletion, AbandonJob, Tick

-----------------------------------------------------------------------------
(* Snapshots and owners                                                    *)

(* A step that only takes leases away, or leaves rows as they are, cannot  *)
(* make a snapshot stale.                                                  *)
LEMMA ReleaseKeepsSnapshots ==
  ASSUME JobOK, SnapshotFresh,
         \A k \in job' : \E j \in job : k.id = j.id /\ k.n = j.n,
         \A j \in job : \/ notification'[j.id] = notification[j.id]
                        \/ notification'[j.id].lease_token = NoToken
  PROVE  SnapshotFresh'
BY DEF SnapshotFresh, JobOK, OwnsLease

LEMMA ClaimSnapshots ==
  ASSUME TypeOK, SnapshotFresh, NEW i \in Id, NEW token \in Token,
         token \notin TokensInUse, Claim(i, token)
  PROVE  /\ \A j \in job :
              notification'[j.id].lease_token = j.n.lease_token =>
                notification'[j.id] = j.n
         /\ notification'[i].lease_token = token
<1>1. notification'[i] = ClaimedRow(notification[i], token)
  BY DEF Claim, TypeOK, StoreTypeOK
<1>2. notification'[i].lease_token = token
  BY <1>1, ClaimedRowFields DEF TypeOK, StoreTypeOK
<1>3. \A k \in Id \ {i} : notification'[k] = notification[k]
  BY DEF Claim, TypeOK, StoreTypeOK
<1>4. \A j \in job : j.n.lease_token # token /\ j.id \in Id
  BY DEF TokensInUse, TypeOK, Job
<1> QED
  BY <1>2, <1>3, <1>4 DEF SnapshotFresh

LEMMA SnapshotStep ==
  ASSUME TypeOK, JobOK, LeaseMatchesAttempt, SnapshotFresh, [Next]_vars
  PROVE  SnapshotFresh'
<1>0. /\ \A i \in Id : notification[i] \in Row
      /\ \A j \in job : j.id \in Id
      /\ DOMAIN notification = Id
  BY DEF TypeOK, StoreTypeOK, Job
<1>1. \A i \in Id : notification[i].status # "processing" =>
        notification[i].lease_token = NoToken
  BY DEF LeaseMatchesAttempt, LeaseMatches
<1>2. ASSUME NEW i \in Id, NEW t, NEW m, NEW at, AcceptNotification(i, t, m, at)
      PROVE  SnapshotFresh'
  <2>1. InsertedRow(t, m, at).lease_token = NoToken
    BY DEF InsertedRow
  <2> QED
    BY <1>0, <1>2, <2>1, ReleaseKeepsSnapshots DEF AcceptNotification, Create
<1>3. ASSUME NEW i \in Id, NEW r, NEW e, NEW l, ReplayNotification(i, r, e, l)
      PROVE  SnapshotFresh'
  <2>1. ReplayedRow(notification[i], e).lease_token = NoToken
    <3>1. notification[i].lease_token = NoToken
      BY <1>1, <1>3 DEF ReplayNotification, Replay
    <3> QED
      BY <1>0, <3>1 DEF ReplayedRow, Row
  <2> QED
    BY <1>0, <1>3, <2>1, ReleaseKeepsSnapshots DEF ReplayNotification, Replay
<1>4. ASSUME NEW p \in Proc, NEW i \in Id, NEW token \in Token,
             ClaimNotification(p, i, token)
      PROVE  SnapshotFresh'
  <2>1. \A j \in job : notification'[j.id].lease_token = j.n.lease_token =>
                         notification'[j.id] = j.n
    BY <1>4, ClaimSnapshots DEF ClaimNotification
  <2>2. job' = job \cup {NewJob(p, i, notification'[i])}
    BY <1>4 DEF ClaimNotification
  <2>3. /\ NewJob(p, i, notification'[i]).id = i
        /\ NewJob(p, i, notification'[i]).n = notification'[i]
    BY DEF NewJob
  <2> QED
    BY <2>1, <2>2, <2>3 DEF SnapshotFresh
<1>5. ASSUME NEW p \in Proc, NEW i \in Id, NEW token \in Token,
             ClaimUnacknowledged(p, i, token)
      PROVE  SnapshotFresh'
  BY <1>5, ClaimSnapshots DEF ClaimUnacknowledged, SnapshotFresh
<1>6. ASSUME NEW j \in job, NEW answer, NEW wait, NEW vendor,
             DeliverNotification(j, answer, wait, vendor)
      PROVE  SnapshotFresh'
  <2>1. \A k \in job' : \E l \in job : k.id = l.id /\ k.n = l.n
    BY <1>6 DEF DeliverNotification, TypeOK, Job
  <2> QED
    BY <1>6, <2>1, ReleaseKeepsSnapshots DEF DeliverNotification, storeVars
<1>7. ASSUME NEW j \in job, CompleteNotification(j)
      PROVE  SnapshotFresh'
  <2>1. CompletedRow(notification[j.id], j.n, j.completion).lease_token = NoToken
    BY <1>0 DEF CompletedRow, Row
  <2> QED
    BY <1>0, <1>7, <2>1, ReleaseKeepsSnapshots
    DEF CompleteNotification, Complete
<1>8. ASSUME NEW B \in SUBSET Id, RecoverLeases(B)
      PROVE  SnapshotFresh'
  <2>1. \A i \in Id : RecoveredRow(notification[i]).lease_token = NoToken
    BY <1>0 DEF RecoveredRow, Row
  <2> QED
    BY <1>0, <1>8, <2>1, ReleaseKeepsSnapshots DEF RecoverLeases, Recover
<1>9. ASSUME NEW B \in SUBSET Id, ExpireNotifications(B)
      PROVE  SnapshotFresh'
  <2>1. \A i \in B : ExpiredRow(notification[i]).lease_token = NoToken
    <3>1. \A i \in B : notification[i].lease_token = NoToken
      BY <1>1, <1>9 DEF ExpireNotifications, Limited, SkipLocked, PendingExpired
    <3> QED
      BY <1>0, <3>1 DEF ExpiredRow, Row
  <2> QED
    BY <1>0, <1>9, <2>1, ReleaseKeepsSnapshots
    DEF ExpireNotifications, ExpirePending
<1>10. ASSUME NEW B \in SUBSET Id, CleanupNotifications(B)
       PROVE  SnapshotFresh'
  <2>1. \A i \in B : DeletedRow(notification[i]).lease_token = NoToken
    BY DEF DeletedRow, NoRow
  <2> QED
    BY <1>0, <1>10, <2>1, ReleaseKeepsSnapshots
    DEF CleanupNotifications, Cleanup
<1>11. CASE notification' = notification /\ job' \subseteq job
  BY <1>11, ReleaseKeepsSnapshots
<1>12. ASSUME NEW p, NEW arrived, Crash(p, arrived)
       PROVE  notification' = notification /\ job' \subseteq job
  BY <1>12 DEF Crash, storeVars
<1> QED
  BY <1>2, <1>3, <1>4, <1>5, <1>6, <1>7, <1>8, <1>9, <1>10, <1>11, <1>12
  DEF Next, vars, storeVars, ApproveReplay, RejectCompletion, AbandonJob, Tick

LEMMA OwnerStep ==
  ASSUME TypeOK, AtMostOneOwner, [Next]_vars
  PROVE  AtMostOneOwner'
<1>1. ASSUME NEW p \in Proc, NEW i \in Id, NEW token \in Token,
             ClaimNotification(p, i, token)
      PROVE  AtMostOneOwner'
  <2>1. NewJob(p, i, notification'[i]).n.lease_token = token
    <3>1. notification'[i] = ClaimedRow(notification[i], token)
      BY <1>1 DEF ClaimNotification, Claim, TypeOK, StoreTypeOK
    <3>2. notification'[i].lease_token = token
      BY <3>1, ClaimedRowFields DEF TypeOK, StoreTypeOK
    <3> QED
      BY <3>2 DEF NewJob
  <2>2. \A j \in job : j.n.lease_token # token
    BY <1>1 DEF ClaimNotification, TokensInUse
  <2>3. job' = job \cup {NewJob(p, i, notification'[i])}
    BY <1>1 DEF ClaimNotification
  <2> QED
    BY <2>1, <2>2, <2>3 DEF AtMostOneOwner
<1>2. ASSUME NEW j \in job, NEW answer, NEW wait, NEW vendor,
             DeliverNotification(j, answer, wait, vendor)
      PROVE  AtMostOneOwner'
  <2> DEFINE k == [j EXCEPT !.phase = "completing",
                            !.result = [result |-> answer.result,
                                        retryable |-> answer.retryable,
                                        evidence |-> answer.evidence],
                            !.completion =
                               CompletionOf(Decide(j.n, answer, now, wait))]
  <2>1. k.n = j.n
    BY DEF TypeOK, Job
  <2>2. job' = (job \ {j}) \cup {k}
    BY <1>2 DEF DeliverNotification
  <2> HIDE DEF k
  <2> QED
    BY <2>1, <2>2 DEF AtMostOneOwner
<1>3. CASE job' \subseteq job
  BY <1>3 DEF AtMostOneOwner
<1>4. ASSUME NEW p, NEW arrived, Crash(p, arrived)
      PROVE  job' \subseteq job
  BY <1>4 DEF Crash
<1> QED
  BY <1>1, <1>2, <1>3, <1>4
  DEF Next, vars, storeVars, AcceptNotification, ApproveReplay,
      ReplayNotification, ClaimUnacknowledged, CompleteNotification,
      RejectCompletion, AbandonJob, RecoverLeases, ExpireNotifications,
      CleanupNotifications, Tick

-----------------------------------------------------------------------------
(* What a step can do to one row                                           *)

Inserted(i) ==
  /\ notification[i].status = "absent"
  /\ \E t \in Target, m \in AttemptLimits, at \in Nat :
       notification'[i] = InsertedRow(t, m, at)

Claimed(i) ==
  /\ notification[i].status = "pending"
  /\ \E token \in Token : notification'[i] = ClaimedRow(notification[i], token)

Completed(i) ==
  \E j \in job :
    /\ j.phase = "completing"
    /\ j.id = i
    /\ HoldsLease(i, j.n)
    /\ notification'[i] = CompletedRow(notification[i], j.n, j.completion)
    /\ j \notin job'

Recovered(i) ==
  /\ notification[i].status = "processing"
  /\ notification[i].lease_until <= now
  /\ notification'[i] = RecoveredRow(notification[i])

Expired(i) ==
  /\ notification[i].status = "pending"
  /\ notification'[i] = ExpiredRow(notification[i])

Deleted(i) ==
  /\ notification[i].status \in Terminal
  /\ notification'[i] = DeletedRow(notification[i])

Replayed(i) ==
  /\ notification[i].status = "failed"
  /\ \E e \in Nat : notification'[i] = ReplayedRow(notification[i], e)

RowChange(i) ==
  \/ notification'[i] = notification[i]
  \/ Inserted(i)
  \/ Claimed(i)
  \/ Completed(i)
  \/ Recovered(i)
  \/ Expired(i)
  \/ Deleted(i)
  \/ Replayed(i)

LEMMA RowChanges ==
  ASSUME TypeOK, [Next]_vars, NEW k \in Id
  PROVE  RowChange(k)
<1>0. DOMAIN notification = Id /\ notification = [i \in Id |-> notification[i]]
      /\ now \in Nat
  BY DEF TypeOK, StoreTypeOK, Instant
<1>1. ASSUME NEW i \in Id, NEW t \in Target, NEW m \in AttemptLimits,
             NEW at \in 0 .. now, AcceptNotification(i, t, m, at)
      PROVE  RowChange(k)
  BY <1>0, <1>1 DEF AcceptNotification, Create, RowChange, Inserted
<1>2. ASSUME NEW i \in Id, NEW r, NEW e \in 0 .. now + ReplayValidity, NEW l,
             ReplayNotification(i, r, e, l)
      PROVE  RowChange(k)
  <2>1. e \in Nat
    BY <1>0, DispatchAssumption
  <2> QED
    BY <1>0, <1>2, <2>1 DEF ReplayNotification, Replay, RowChange, Replayed
<1>3. ASSUME NEW p, NEW i \in Id, NEW token \in Token,
             ClaimNotification(p, i, token) \/ ClaimUnacknowledged(p, i, token)
      PROVE  RowChange(k)
  <2>1. Claim(i, token)
    BY <1>3 DEF ClaimNotification, ClaimUnacknowledged
  <2> QED
    BY <1>0, <2>1 DEF Claim, Due, RowChange, Claimed
<1>4. ASSUME NEW j \in job, CompleteNotification(j)
      PROVE  RowChange(k)
  <2>1. /\ Complete(j.id, j.n, j.result, j.completion) /\ j.phase = "completing"
        /\ j \notin job'
    BY <1>4 DEF CompleteNotification
  <2>2. notification'[k] = IF k = j.id
                           THEN CompletedRow(notification[k], j.n, j.completion)
                           ELSE notification[k]
    BY <1>0, <2>1 DEF Complete
  <2> QED
    BY <2>1, <2>2 DEF Complete, CanComplete, RowChange, Completed
<1>5. ASSUME NEW B \in SUBSET Id, RecoverLeases(B)
      PROVE  RowChange(k)
  BY <1>0, <1>5
  DEF RecoverLeases, SkipLocked, LeaseExpired, Recover, RowChange, Recovered
<1>6. ASSUME NEW B \in SUBSET Id, ExpireNotifications(B)
      PROVE  RowChange(k)
  BY <1>0, <1>6
  DEF ExpireNotifications, Limited, SkipLocked, PendingExpired, ExpirePending,
      RowChange, Expired
<1>7. ASSUME NEW B \in SUBSET Id, CleanupNotifications(B)
      PROVE  RowChange(k)
  BY <1>0, <1>7
  DEF CleanupNotifications, OldestFinished, Limited, SkipLocked, Removable,
      Cleanup, RowChange, Deleted
<1>8. CASE UNCHANGED notification
  BY <1>8 DEF RowChange
<1>9. ASSUME NEW p, NEW arrived, Crash(p, arrived)
      PROVE  UNCHANGED notification
  BY <1>9 DEF Crash, storeVars
<1>10. ASSUME NEW j, NEW a, NEW w, NEW v, DeliverNotification(j, a, w, v)
       PROVE  UNCHANGED notification
  BY <1>10 DEF DeliverNotification, storeVars
<1> QED
  BY <1>1, <1>2, <1>3, <1>4, <1>5, <1>6, <1>7, <1>8, <1>9, <1>10
  DEF Next, vars, storeVars, ApproveReplay, RejectCompletion, AbandonJob, Tick

(* The row a job holds the lease of is the job's snapshot, and what the    *)
(* policy decided fits it.                                                 *)
LEMMA CompletedFits ==
  ASSUME TypeOK, JobOK, SnapshotFresh, NEW i \in Id, Completed(i)
  PROVE  \E j \in job :
           /\ notification[i].status = "processing"
           /\ notification[i] = j.n
           /\ j.completion \in Completion
           /\ CompletionFits(j)
           /\ notification'[i] = CompletedRow(notification[i], j.n, j.completion)
<1>1. PICK j \in job :
        /\ j.phase = "completing" /\ j.id = i /\ HoldsLease(i, j.n)
        /\ notification'[i] = CompletedRow(notification[i], j.n, j.completion)
  BY DEF Completed
<1>2. notification[i] = j.n /\ notification[i].status = "processing"
  BY <1>1 DEF SnapshotFresh, HoldsLease
<1>3. j.completion \in Completion /\ CompletionFits(j)
  BY <1>1 DEF TypeOK, Job, JobOK, OwnsLease
<1> QED
  BY <1>1, <1>2, <1>3

-----------------------------------------------------------------------------
(* The budget                                                              *)
LEMMA InsertedInBudget ==
  ASSUME NEW t \in Target, NEW m \in AttemptLimits, NEW at \in Nat
  PROVE  InBudget(InsertedRow(t, m, at))
<1>1. m \in Nat \ {0}
  BY StoreAssumption
<1> QED
  BY <1>1 DEF InBudget, InsertedRow

LEMMA ClaimedInBudget ==
  ASSUME NEW n \in Row, NEW token \in Token, InBudget(n),
         n.status = "pending"
  PROVE  InBudget(ClaimedRow(n, token))
<1>1. n.run_attempt_count \in Nat /\ n.max_attempts \in Nat
  BY StoreAssumption DEF Row
<1>2. n.run_attempt_count < n.max_attempts
  BY DEF InBudget
<1>3. n.run_attempt_count + 1 <= n.max_attempts
  BY <1>1, <1>2
<1>4. n.stop_reason = ""
  BY DEF InBudget, Active
<1>5. /\ ClaimedRow(n, token).run_attempt_count <=
           ClaimedRow(n, token).max_attempts
      /\ ClaimedRow(n, token).stop_reason = ""
      /\ ClaimedRow(n, token).status # "pending"
  BY <1>3, <1>4, ClaimedRowFields, Zenon
<1> QED
  BY <1>5, Zenon DEF InBudget

LEMMA CompletedInBudget ==
  ASSUME NEW n \in Row, InBudget(n), NEW j, j.n = n,
         j.completion \in Completion, CompletionFits(j)
  PROVE  InBudget(CompletedRow(n, n, j.completion))
<1>1. /\ CompletedRow(n, n, j.completion).status = j.completion.status
      /\ CompletedRow(n, n, j.completion).stop_reason = j.completion.stop_reason
      /\ CompletedRow(n, n, j.completion).run_attempt_count = n.run_attempt_count
      /\ CompletedRow(n, n, j.completion).max_attempts = n.max_attempts
  BY DEF CompletedRow, Row
<1>2. j.completion.status \in Active => j.completion.status = "pending"
  BY DEF Completion, Active
<1> QED
  BY <1>1, <1>2, Zenon DEF InBudget, CompletionFits

LEMMA RecoveredInBudget ==
  ASSUME NEW n \in Row, InBudget(n)
  PROVE  InBudget(RecoveredRow(n))
<1>1. n.run_attempt_count \in Nat /\ n.max_attempts \in Nat
  BY StoreAssumption DEF Row
<1>2. /\ RecoveredRow(n).run_attempt_count = n.run_attempt_count
      /\ RecoveredRow(n).max_attempts = n.max_attempts
      /\ RecoveredRow(n).status \in {"pending", "failed"}
      /\ RecoveredRow(n).status = "pending" =>
           /\ ~ (n.run_attempt_count >= n.max_attempts)
           /\ RecoveredRow(n).stop_reason = ""
  BY DEF RecoveredRow, Row
<1>3. ~ (n.run_attempt_count >= n.max_attempts) =>
        n.run_attempt_count < n.max_attempts
  BY <1>1
<1>4. RecoveredRow(n).status \in Active => RecoveredRow(n).status = "pending"
  BY <1>2 DEF Active
<1> QED
  BY <1>2, <1>3, <1>4, Zenon DEF InBudget

LEMMA OthersInBudget ==
  ASSUME NEW n \in Row, InBudget(n)
  PROVE  /\ InBudget(ExpiredRow(n))
         /\ InBudget(DeletedRow(n))
         /\ \A e : InBudget(ReplayedRow(n, e))
<1>1. n.run_attempt_count \in Nat /\ n.max_attempts \in Nat \ {0}
  BY StoreAssumption DEF Row
<1>0. 0 < n.max_attempts /\ 0 <= n.max_attempts
  BY <1>1
<1>2. InBudget(ExpiredRow(n))
  BY DEF ExpiredRow, Row, InBudget, Active
<1>3. InBudget(DeletedRow(n))
  <2>1. /\ DeletedRow(n).run_attempt_count = 0
        /\ DeletedRow(n).max_attempts = n.max_attempts
        /\ DeletedRow(n).status = "deleted"
    BY DEF DeletedRow, NoRow
  <2>2. DeletedRow(n).status # "pending" /\ DeletedRow(n).status \notin Active
    BY <2>1 DEF Active
  <2> QED
    BY <1>0, <2>1, <2>2, Zenon DEF InBudget
<1>4. ASSUME NEW e PROVE InBudget(ReplayedRow(n, e))
  <2>1. /\ ReplayedRow(n, e).run_attempt_count = 0
        /\ ReplayedRow(n, e).max_attempts = n.max_attempts
        /\ ReplayedRow(n, e).stop_reason = ""
    BY DEF ReplayedRow, Row
  <2> QED
    BY <1>0, <2>1, Zenon DEF InBudget
<1> QED
  BY <1>2, <1>3, <1>4

LEMMA BudgetStep ==
  ASSUME TypeOK, JobOK, SnapshotFresh, BudgetOK, [Next]_vars
  PROVE  BudgetOK'
<1> SUFFICES ASSUME NEW i \in Id
             PROVE  InBudget(notification'[i])
  BY DEF BudgetOK
<1>1. notification[i] \in Row /\ InBudget(notification[i])
  BY DEF TypeOK, StoreTypeOK, BudgetOK
<1>2. CASE Inserted(i)
  BY <1>2, InsertedInBudget DEF Inserted
<1>3. CASE Claimed(i)
  BY <1>1, <1>3, ClaimedInBudget DEF Claimed
<1>4. CASE Completed(i)
  BY <1>1, <1>4, CompletedFits, CompletedInBudget
<1>5. CASE Recovered(i)
  BY <1>1, <1>5, RecoveredInBudget DEF Recovered
<1>6. CASE Expired(i) \/ Deleted(i) \/ Replayed(i)
  BY <1>1, <1>6, OthersInBudget DEF Expired, Deleted, Replayed
<1> QED
  BY <1>1, <1>2, <1>3, <1>4, <1>5, <1>6, RowChanges DEF RowChange

-----------------------------------------------------------------------------
(* The theorems                                                            *)

LEMMA InitIndInv == Init => IndInv
<1> SUFFICES ASSUME Init PROVE IndInv
  OBVIOUS
<1>1. TypeOK
  BY InitType
<1>2. /\ job = {} /\ attempt = {}
      /\ \A i \in Id : \E t \in Target, m \in AttemptLimits :
           notification[i] = NoRow("absent", t, m)
  BY DEF Init
<1>3. \A i \in Id : /\ notification[i].status = "absent"
                    /\ notification[i].lease_token = NoToken
                    /\ notification[i].lease_until = NoTime
                    /\ notification[i].run_attempt_count = 0
  <2>1. \A t, m : /\ NoRow("absent", t, m).status = "absent"
                  /\ NoRow("absent", t, m).lease_token = NoToken
                  /\ NoRow("absent", t, m).lease_until = NoTime
                  /\ NoRow("absent", t, m).run_attempt_count = 0
    BY DEF NoRow
  <2>2. \A i \in Id : \E t, m : notification[i] = NoRow("absent", t, m)
    BY <1>2
  <2> QED
    BY <2>1, <2>2
<1>4. LeaseMatchesAttempt
  BY <1>2, <1>3 DEF LeaseMatchesAttempt, LeaseMatches
<1>5. BudgetOK
  <2>1. \A i \in Id : notification[i].max_attempts \in Nat
    BY <1>1, StoreAssumption DEF TypeOK, StoreTypeOK, Row
  <2> QED
    <3> SUFFICES ASSUME NEW i \in Id PROVE InBudget(notification[i])
      BY DEF BudgetOK
    <3>1. 0 <= notification[i].max_attempts
      BY <2>1
    <3>2. /\ notification[i].status # "pending"
          /\ notification[i].status \notin Active
      BY <1>3 DEF Active
    <3> QED
      BY <1>3, <3>1, <3>2, Zenon DEF InBudget
<1> QED
  BY <1>1, <1>2, <1>4, <1>5
  DEF IndInv, JobOK, SnapshotFresh, AtMostOneOwner

(* IndInv is inductive: it holds in every reachable state.                 *)
THEOREM Invariance == Spec => []IndInv
<1>1. Init => IndInv
  BY InitIndInv
<1>2. IndInv /\ [Next]_vars => IndInv'
  BY TypeStep, JobStep, LeaseStep, SnapshotStep, OwnerStep, BudgetStep
  DEF IndInv
<1> QED
  BY <1>1, <1>2, PTL DEF Spec

(* Tables, jobs and the two records keep their types, and in particular no *)
(* completion ever writes the zero time into next_attempt_at (Complete).   *)
THEOREM TypeCorrect == Spec => []TypeOK
BY Invariance, PTL DEF IndInv

(* A row carries a lease exactly while it is processing, and exactly then  *)
(* has it an open attempt, its last (Claim, Complete, Recover).            *)
THEOREM LeaseSafety == Spec => []LeaseMatchesAttempt
BY Invariance, PTL DEF IndInv

(* A worker that still holds the lease looks at a current snapshot, however*)
(* long its HTTP call took (Manager.execute).                              *)
THEOREM SnapshotSafety == Spec => []SnapshotFresh
BY Invariance, PTL DEF IndInv

LEMMA FinishedStep ==
  ASSUME IndInv, [Next]_vars, NEW a \in attempt, a.result # "in_progress"
  PROVE  a \in attempt' \/ notification'[a.id].status = "deleted"
<1>1. CASE attempt \subseteq attempt'
  BY <1>1
<1>2. ASSUME NEW i \in Id, NEW p, NEW token,
             ClaimNotification(p, i, token) \/ ClaimUnacknowledged(p, i, token)
      PROVE  attempt \subseteq attempt'
  BY <1>2 DEF ClaimNotification, ClaimUnacknowledged, Claim
<1>3. ASSUME NEW j \in job, CompleteNotification(j)
      PROVE  a \in attempt'
  BY <1>3 DEF CompleteNotification, Complete, Open
<1>4. ASSUME NEW B \in SUBSET Id, RecoverLeases(B)
      PROVE  a \in attempt'
  BY <1>4 DEF RecoverLeases, Recover, Open
<1>5. ASSUME NEW B \in SUBSET Id, CleanupNotifications(B)
      PROVE  a \in attempt' \/ notification'[a.id].status = "deleted"
  <2>1. a.id \in Id
    BY DEF IndInv, TypeOK, StoreTypeOK, Attempt
  <2>2. /\ attempt' = {b \in attempt : b.id \notin B}
        /\ notification' = [i \in Id |-> IF i \in B
                                         THEN DeletedRow(notification[i])
                                         ELSE notification[i]]
    BY <1>5 DEF CleanupNotifications, Cleanup
  <2>3. \A n : DeletedRow(n).status = "deleted"
    BY DEF DeletedRow, NoRow
  <2> QED
    BY <2>1, <2>2, <2>3
<1>6. ASSUME NEW p, NEW arrived, Crash(p, arrived)
      PROVE  attempt \subseteq attempt'
  BY <1>6 DEF Crash, storeVars
<1>7. ASSUME NEW j, NEW x, NEW w, NEW v, DeliverNotification(j, x, w, v)
      PROVE  attempt \subseteq attempt'
  BY <1>7 DEF DeliverNotification, storeVars
<1> QED
  BY <1>1, <1>2, <1>3, <1>4, <1>5, <1>6, <1>7
  DEF Next, vars, storeVars, AcceptNotification, Create, ApproveReplay,
      ReplayNotification, Replay, RejectCompletion, AbandonJob,
      ExpireNotifications, ExpirePending, Tick

(* A finished attempt keeps its result until its notification is removed   *)
(* (Complete, Recover and the cascade of Cleanup).                         *)
THEOREM FinishedAttemptsSafety == Spec => FinishedAttemptsKept
<1> DEFINE Kept == \A a \in attempt :
                     a.result # "in_progress" =>
                       a \in attempt' \/ notification'[a.id].status = "deleted"
<1>1. IndInv /\ [Next]_vars => [Kept]_vars
  BY FinishedStep
<1> QED
  BY <1>1, Invariance, PTL DEF Spec, FinishedAttemptsKept

-----------------------------------------------------------------------------
(* Refinement: every row change is an edge of the lifecycle                *)

LEMMA ViewFields ==
  ASSUME NEW n
  PROVE  /\ View(n).status = n.status
         /\ View(n).run = n.run_no
         /\ View(n).spent = n.run_attempt_count
         /\ View(n).limit = n.max_attempts
         /\ View(n).reason = n.stop_reason
BY DEF View

LEMMA InsertedEdge ==
  ASSUME NEW n, n.status = "absent", NEW t, NEW m, NEW at
  PROVE  L!Accept(View(n), View(InsertedRow(t, m, at)))
<1>1. /\ InsertedRow(t, m, at).status = "pending"
      /\ InsertedRow(t, m, at).run_no = 1
      /\ InsertedRow(t, m, at).run_attempt_count = 0
      /\ InsertedRow(t, m, at).stop_reason = ""
  BY DEF InsertedRow
<1> QED
  BY <1>1, ViewFields, Zenon DEF L!Accept

LEMMA ClaimedEdge ==
  ASSUME NEW n \in Row, InBudget(n), n.status = "pending", NEW token \in Token
  PROVE  L!Start(View(n), View(ClaimedRow(n, token)))
<1>1. n.run_attempt_count < n.max_attempts
  BY DEF InBudget
<1>2. n.stop_reason = ""
  BY DEF InBudget, Active
<1> DEFINE a == View(n)
           b == View(ClaimedRow(n, token))
<1>0. /\ ClaimedRow(n, token).status = "processing"
      /\ ClaimedRow(n, token).stop_reason = n.stop_reason
  BY DEF ClaimedRow, Row
<1>3. a.status = "pending" /\ b.status = "processing" /\ b.reason = ""
  BY <1>0, <1>2, ViewFields, Zenon
<1>4. b.run = a.run /\ b.limit = a.limit
  BY ClaimedRowFields, ViewFields
<1>5. b.spent = a.spent + 1
  BY ClaimedRowFields, ViewFields
<1>6. a.spent < a.limit
  BY <1>1, ViewFields
<1> HIDE DEF a, b
<1>7. L!Start(a, b)
  BY <1>3, <1>4, <1>5, <1>6, Zenon DEF L!Start, L!SameRun
<1> QED
  BY <1>7 DEF a, b

(* The end of a delivery, answered or recovered: m is what n becomes.      *)
LEMMA ReleaseEdge ==
  ASSUME NEW n, NEW m, n.status = "processing",
         m.status \in {"pending", "succeeded", "failed"},
         m.run_no = n.run_no, m.run_attempt_count = n.run_attempt_count,
         m.max_attempts = n.max_attempts,
         m.status = "pending" =>
           m.stop_reason = "" /\ n.run_attempt_count < n.max_attempts,
         m.status = "succeeded" => m.stop_reason = "",
         m.status = "failed" => m.stop_reason # "",
         m.stop_reason = "RETRY_EXHAUSTED" =>
           n.run_attempt_count = n.max_attempts,
         m.stop_reason = "EXPIRED" => n.run_attempt_count < n.max_attempts
  PROVE  L!Edge(View(n), View(m))
<1> DEFINE a == View(n)
           b == View(m)
<1>1. a.status = "processing" /\ b.status = m.status /\ b.reason = m.stop_reason
  BY ViewFields
<1>2. b.run = a.run /\ b.limit = a.limit /\ b.spent = a.spent
  BY ViewFields
<1>3. a.spent = n.run_attempt_count /\ a.limit = n.max_attempts
  BY ViewFields
<1>4. a.status \in L!Active /\ a.status # "pending"
  BY <1>1 DEF L!Active
<1> HIDE DEF a, b
<1>5. CASE m.status = "pending"
  <2>1. L!TryAgain(a, b)
    BY <1>1, <1>2, <1>3, <1>5, Zenon DEF L!TryAgain, L!SameRun
  <2> QED
    BY <2>1 DEF L!Edge, a, b
<1>6. CASE m.status = "succeeded"
  <2>1. L!Success(a, b)
    BY <1>1, <1>2, <1>6, Zenon DEF L!Success, L!SameRun
  <2> QED
    BY <2>1 DEF L!Edge, a, b
<1>7. CASE m.status = "failed"
  <2>1. L!Failure(a, b)
    BY <1>1, <1>2, <1>3, <1>4, <1>7, Zenon DEF L!Failure, L!SameRun
  <2> QED
    BY <2>1 DEF L!Edge, a, b
<1> QED
  BY <1>5, <1>6, <1>7

LEMMA CompletedEdge ==
  ASSUME NEW n \in Row, InBudget(n), n.status = "processing",
         NEW j, j.n = n, j.completion \in Completion, CompletionFits(j)
  PROVE  L!Edge(View(n), View(CompletedRow(n, n, j.completion)))
<1> DEFINE c == j.completion
           m == CompletedRow(n, n, c)
<1>1. /\ m.status = c.status /\ m.stop_reason = c.stop_reason
      /\ m.run_no = n.run_no /\ m.run_attempt_count = n.run_attempt_count
      /\ m.max_attempts = n.max_attempts
  BY DEF CompletedRow, Row
<1>2. c.status \in {"pending", "succeeded", "failed"}
  BY DEF Completion
<1>3. n.run_attempt_count \in Nat /\ n.max_attempts \in Nat
  BY StoreAssumption DEF Row
<1>4. c.stop_reason = "RETRY_EXHAUSTED" => n.run_attempt_count = n.max_attempts
  <2>1. n.run_attempt_count <= n.max_attempts
    BY DEF InBudget
  <2>2. n.run_attempt_count >= n.max_attempts =>
          n.run_attempt_count = n.max_attempts
    BY <1>3, <2>1
  <2> QED
    BY <2>2, Zenon DEF CompletionFits
<1>5. c.stop_reason = "EXPIRED" => n.run_attempt_count < n.max_attempts
  BY Zenon DEF CompletionFits
<1>6. c.status = "pending" =>
        c.stop_reason = "" /\ n.run_attempt_count < n.max_attempts
  BY Zenon DEF CompletionFits
<1>7. /\ c.status = "succeeded" => c.stop_reason = ""
      /\ c.status = "failed" => c.stop_reason # ""
  BY Zenon DEF CompletionFits
<1> HIDE DEF m, c
<1>8. L!Edge(View(n), View(m))
  BY <1>1, <1>2, <1>4, <1>5, <1>6, <1>7, ReleaseEdge
<1> QED
  BY <1>8 DEF m, c

LEMMA RecoveredEdge ==
  ASSUME NEW n \in Row, InBudget(n), n.status = "processing"
  PROVE  L!Edge(View(n), View(RecoveredRow(n)))
<1> DEFINE m == RecoveredRow(n)
<1>1. n.run_attempt_count \in Nat /\ n.max_attempts \in Nat
  BY StoreAssumption DEF Row
<1>2. /\ m.run_no = n.run_no /\ m.run_attempt_count = n.run_attempt_count
      /\ m.max_attempts = n.max_attempts
      /\ \/ /\ n.run_attempt_count >= n.max_attempts
            /\ m.status = "failed" /\ m.stop_reason = "RETRY_EXHAUSTED"
         \/ /\ ~ (n.run_attempt_count >= n.max_attempts)
            /\ m.status = "failed" /\ m.stop_reason = "EXPIRED"
         \/ /\ ~ (n.run_attempt_count >= n.max_attempts)
            /\ m.status = "pending" /\ m.stop_reason = ""
  BY DEF RecoveredRow, Row
<1>3. n.run_attempt_count <= n.max_attempts
  BY DEF InBudget
<1>4. /\ n.run_attempt_count >= n.max_attempts =>
           n.run_attempt_count = n.max_attempts
      /\ ~ (n.run_attempt_count >= n.max_attempts) =>
           n.run_attempt_count < n.max_attempts
  BY <1>1, <1>3
<1> HIDE DEF m
<1>5. L!Edge(View(n), View(m))
  BY <1>2, <1>4, ReleaseEdge
<1> QED
  BY <1>5 DEF m

LEMMA ExpiredEdge ==
  ASSUME NEW n \in Row, InBudget(n), n.status = "pending"
  PROVE  L!Failure(View(n), View(ExpiredRow(n)))
<1>1. /\ ExpiredRow(n).status = "failed" /\ ExpiredRow(n).stop_reason = "EXPIRED"
      /\ ExpiredRow(n).run_no = n.run_no
      /\ ExpiredRow(n).run_attempt_count = n.run_attempt_count
      /\ ExpiredRow(n).max_attempts = n.max_attempts
  BY DEF ExpiredRow, Row
<1>2. n.run_attempt_count < n.max_attempts
  BY DEF InBudget
<1>3. n.status \in Active
  BY DEF Active
<1> QED
  BY <1>1, <1>2, <1>3, ViewFields, Zenon DEF L!Failure, L!SameRun, L!Active, Active

LEMMA ReplayedEdge ==
  ASSUME NEW n \in Row, n.status = "failed", NEW e
  PROVE  L!NewRun(View(n), View(ReplayedRow(n, e)))
<1>1. /\ ReplayedRow(n, e).status = "pending"
      /\ ReplayedRow(n, e).run_no = n.run_no + 1
      /\ ReplayedRow(n, e).run_attempt_count = 0
      /\ ReplayedRow(n, e).max_attempts = n.max_attempts
      /\ ReplayedRow(n, e).stop_reason = ""
  BY DEF ReplayedRow, Row
<1> QED
  BY <1>1, ViewFields, Zenon DEF L!NewRun

LEMMA DeletedEdge ==
  ASSUME NEW n, n.status \in Terminal
  PROVE  L!Remove(View(n), View(DeletedRow(n)))
<1>1. DeletedRow(n).status = "deleted"
  BY DEF DeletedRow, NoRow
<1> QED
  BY <1>1, ViewFields, Zenon DEF L!Remove, L!Terminal, Terminal

LEMMA RowEdge ==
  ASSUME IndInv, [Next]_vars, NEW i \in Id
  PROVE  \/ View(notification'[i]) = View(notification[i])
         \/ L!Edge(View(notification[i]), View(notification'[i]))
<1>1. notification[i] \in Row /\ InBudget(notification[i])
  BY DEF IndInv, TypeOK, StoreTypeOK, BudgetOK
<1>2. RowChange(i)
  BY RowChanges DEF IndInv
<1>3. CASE notification'[i] = notification[i]
  BY <1>3
<1>4. CASE Inserted(i)
  BY <1>4, InsertedEdge DEF Inserted, L!Edge
<1>5. CASE Claimed(i)
  BY <1>1, <1>5, ClaimedEdge DEF Claimed, L!Edge
<1>6. CASE Completed(i)
  BY <1>1, <1>6, CompletedFits, CompletedEdge DEF IndInv
<1>7. CASE Recovered(i)
  BY <1>1, <1>7, RecoveredEdge DEF Recovered
<1>8. CASE Expired(i)
  BY <1>1, <1>8, ExpiredEdge DEF Expired, L!Edge
<1>9. CASE Deleted(i)
  BY <1>9, DeletedEdge DEF Deleted, L!Edge
<1>10. CASE Replayed(i)
  BY <1>1, <1>10, ReplayedEdge DEF Replayed, L!Edge
<1> QED
  BY <1>2, <1>3, <1>4, <1>5, <1>6, <1>7, <1>8, <1>9, <1>10 DEF RowChange

(* The system of processes, leases and jobs implements the lifecycle: no   *)
(* interleaving, crash or lost commit moves a notification along an edge   *)
(* that the state diagram of docs/DESIGN.md does not have.                 *)
THEOREM Refinement == Spec => FollowsLifecycle
<1>1. Init => L!Init
  <2> SUFFICES ASSUME Init PROVE L!Init
    OBVIOUS
  <2>1. \A i \in Id : View(notification[i]) \in L!Life
    <3>1. \A n \in Row : View(n) \in L!Life
      BY StoreAssumption
      DEF Row, View, L!Life, L!RowStatus, L!Status, L!Active, L!Terminal,
          L!StopReason, RowStatus, Status, Active, Terminal, StopReason
    <3> QED
      BY <3>1, InitType DEF TypeOK, StoreTypeOK
  <2>2. \A i \in Id : notification[i].status = "absent"
    <3>1. \A t, m : NoRow("absent", t, m).status = "absent"
      BY DEF NoRow
    <3> QED
      BY <3>1 DEF Init
  <2>3. \A i \in Id : View(notification[i]).status = "absent"
    BY <2>2, ViewFields
  <2> QED
    BY <2>1, <2>3 DEF L!Init, lifecycle
<1>2. IndInv /\ [Next]_vars => [L!Next]_lifecycle
  <2> SUFFICES ASSUME IndInv, [Next]_vars PROVE L!Next
    OBVIOUS
  <2>1. \A i \in Id : \/ View(notification'[i]) = View(notification[i])
                      \/ L!Edge(View(notification[i]), View(notification'[i]))
    BY RowEdge
  <2> QED
    BY <2>1 DEF L!Next, lifecycle
<1> QED
  BY <1>1, <1>2, Invariance, PTL DEF Spec, FollowsLifecycle, L!Spec

-----------------------------------------------------------------------------
(* Deliveries and the vendor: the history of deliveries against what the   *)
(* vendor saw.                                                             *)

(* An attempt number that a notification has come to, or once had.         *)
Numbered(i, no) ==
  /\ notification[i].status # "absent"
  /\ notification[i].status = "deleted" \/ no <= notification[i].last_attempt_no

(* Numbers are never given twice, so a request the vendor accepts under one*)
(* is that of the only job that has it.                                    *)
Numbers ==
  /\ \A j \in job : Numbered(j.id, j.n.last_attempt_no)
  /\ \A i \in Id, no \in Nat : <<i, no>> \in accepted => Numbered(i, no)
  /\ \A a \in attempt :
       /\ notification[a.id].status \notin {"absent", "deleted"}
       /\ a.attempt_no <= notification[a.id].last_attempt_no
  /\ \A j, k \in job : Key(j) = Key(k) => j = k

(* What a job is about to write is what the vendor did, and nobody else has*)
(* written of its attempt that it was not sent.                            *)
JobTrue(j) ==
  /\ j.phase = "delivering" => Key(j) \notin accepted
  /\ j.phase = "completing" =>
       /\ j.result.result = "http_success" =>
            Key(j) \in accepted /\ j.completion.status = "succeeded"
       /\ j.result.evidence = "not_sent" => Key(j) \notin accepted
  /\ \A a \in attempt :
       <<a.id, a.attempt_no>> = Key(j) => a.evidence # "not_sent"

AttemptTrue(a) ==
  /\ a.result = "http_success" =>
       /\ <<a.id, a.attempt_no>> \in accepted
       /\ notification[a.id].status = "succeeded"
       /\ a.attempt_no = notification[a.id].last_attempt_no
  /\ a.evidence = "not_sent" => <<a.id, a.attempt_no>> \notin accepted

VendorInv ==
  /\ Numbers
  /\ \A j \in job : JobTrue(j)
  /\ \A a \in attempt : AttemptTrue(a)

LEMMA VendorInit == Init => VendorInv
BY DEF Init, VendorInv, Numbers

-----------------------------------------------------------------------------
(* What a change does to the status and the number of a row.               *)
LEMMA ChangeFields ==
  ASSUME IndInv, [Next]_vars, NEW i \in Id
  PROVE  LET n == notification[i]
             m == notification'[i]
         IN  \/ m = n
             \/ n.status = "absent" /\ m.status = "pending"
             \/ /\ n.status = "pending" /\ m.status = "processing"
                /\ m.last_attempt_no = n.last_attempt_no + 1
             \/ /\ n.status = "processing"
                /\ m.status \in {"pending", "succeeded", "failed"}
                /\ m.last_attempt_no = n.last_attempt_no
             \/ /\ n.status = "pending" /\ m.status = "failed"
                /\ m.last_attempt_no = n.last_attempt_no
             \/ n.status \in Terminal /\ m.status = "deleted"
             \/ /\ n.status = "failed" /\ m.status = "pending"
                /\ m.last_attempt_no = n.last_attempt_no
<1> DEFINE n == notification[i]
           m == notification'[i]
<1>1. n \in Row /\ RowChange(i)
  BY RowChanges DEF IndInv, TypeOK, StoreTypeOK
<1>2. CASE Inserted(i)
  <2>1. \A t, limit, at : InsertedRow(t, limit, at).status = "pending"
    BY DEF InsertedRow
  <2> QED
    BY <1>2, <2>1 DEF Inserted
<1>3. CASE Claimed(i)
  BY <1>1, <1>3, ClaimedRowFields DEF Claimed
<1>4. CASE Completed(i)
  <2>1. PICK j \in job : /\ n.status = "processing" /\ j.completion \in Completion
                         /\ m = CompletedRow(n, j.n, j.completion)
    BY <1>4, CompletedFits DEF IndInv
  <2> QED
    BY <1>1, <2>1 DEF CompletedRow, Completion, Row
<1>5. CASE Recovered(i)
  BY <1>1, <1>5 DEF Recovered, RecoveredRow, Row
<1>6. CASE Expired(i)
  BY <1>1, <1>6 DEF Expired, ExpiredRow, Row
<1>7. CASE Deleted(i)
  <2>1. \A r : DeletedRow(r).status = "deleted"
    BY DEF DeletedRow, NoRow
  <2> QED
    BY <1>7, <2>1 DEF Deleted
<1>8. CASE Replayed(i)
  BY <1>1, <1>8 DEF Replayed, ReplayedRow, Row
<1> QED
  BY <1>1, <1>2, <1>3, <1>4, <1>5, <1>6, <1>7, <1>8 DEF RowChange

LEMMA NumberedKept ==
  ASSUME IndInv, [Next]_vars, NEW i \in Id, NEW no \in Nat, Numbered(i, no)
  PROVE  Numbered(i, no)'
<1>1. notification[i].last_attempt_no \in Nat
  BY DEF IndInv, TypeOK, StoreTypeOK, Row
<1> QED
  BY <1>1, ChangeFields DEF Numbered, Terminal

LEMMA JobFields ==
  ASSUME IndInv, NEW j \in job
  PROVE  /\ j.id \in Id /\ j.n \in Row /\ j.n.last_attempt_no \in Nat
         /\ Key(j) \in Id \X Nat
BY DEF IndInv, TypeOK, Job, Row, Key

LEMMA AttemptFields ==
  ASSUME IndInv, NEW a \in attempt
  PROVE  a.id \in Id /\ a.attempt_no \in Nat /\ a \in Attempt
BY DEF IndInv, TypeOK, StoreTypeOK, Attempt

-----------------------------------------------------------------------------
(* Steps that neither write an attempt nor start a job: requests accepted, *)
(* replays, expiry, lost results, crashes, the passing of time.            *)
LEMMA HistoryKept ==
  ASSUME IndInv, [Next]_vars, VendorInv,
         attempt' = attempt, job' \subseteq job, accepted \subseteq accepted',
         \A key \in accepted' \ accepted : \E j \in job \ job' : Key(j) = key,
         \A i \in Id : \/ notification'[i] = notification[i]
                       \/ notification[i].status = "absent"
                       \/ notification[i].status = "pending"
                       \/ notification[i].status = "failed",
         \A i \in Id : notification'[i].status \in {"absent", "deleted"} =>
                         notification'[i] = notification[i]
  PROVE  VendorInv'
<1> USE DEF VendorInv
<1>1. Numbers'
  <2>1. \A j \in job' : Numbered(j.id, j.n.last_attempt_no)'
    BY JobFields, NumberedKept DEF Numbers
  <2>2. ASSUME NEW i \in Id, NEW no \in Nat, <<i, no>> \in accepted'
        PROVE  Numbered(i, no)'
    <3>1. CASE <<i, no>> \in accepted
      BY <3>1, NumberedKept DEF Numbers
    <3>2. CASE <<i, no>> \notin accepted
      <4>1. PICK j \in job : Key(j) = <<i, no>>
        BY <2>2, <3>2
      <4>2. j.id = i /\ j.n.last_attempt_no = no
        BY <4>1 DEF Key
      <4> QED
        BY <4>2, NumberedKept DEF Numbers
    <3> QED
      BY <3>1, <3>2
  <2>3. ASSUME NEW a \in attempt'
        PROVE  /\ notification'[a.id].status \notin {"absent", "deleted"}
               /\ a.attempt_no <= notification'[a.id].last_attempt_no
    <3>1. a \in attempt /\ a.id \in Id /\ a.attempt_no \in Nat
      BY AttemptFields
    <3>2. Numbered(a.id, a.attempt_no)
      BY <3>1 DEF Numbers, Numbered
    <3>3. Numbered(a.id, a.attempt_no)'
      BY <3>1, <3>2, NumberedKept
    <3>4. notification'[a.id].status \notin {"absent", "deleted"}
      BY <3>1 DEF Numbers
    <3> QED
      BY <3>3, <3>4 DEF Numbered
  <2>4. \A j, k \in job' : Key(j) = Key(k) => j = k
    BY DEF Numbers
  <2>5. \A j : Key(j)' = Key(j)
    BY DEF Key
  <2> QED
    BY <2>1, <2>2, <2>3, <2>4, <2>5 DEF Numbers
<1>2. ASSUME NEW j \in job' PROVE JobTrue(j)'
  <2>1. Key(j) \in accepted' <=> Key(j) \in accepted
    BY DEF Numbers
  <2> QED
    BY <2>1 DEF JobTrue, Key
<1>3. ASSUME NEW a \in attempt' PROVE AttemptTrue(a)'
  <2>1. AttemptTrue(a) /\ a.id \in Id
    BY AttemptFields
  <2>2. a.result = "http_success" => notification'[a.id] = notification[a.id]
    BY <2>1 DEF AttemptTrue
  <2>3. ASSUME <<a.id, a.attempt_no>> \in accepted' \ accepted
        PROVE  a.evidence # "not_sent"
    BY <2>3 DEF JobTrue
  <2> QED
    BY <2>1, <2>2, <2>3 DEF AttemptTrue
<1> QED
  BY <1>1, <1>2, <1>3

(* What holds of the numbers after any step, up to the attempts it writes  *)
(* and the jobs it starts.                                                 *)
LEMMA NumbersKept ==
  ASSUME IndInv, [Next]_vars, VendorInv, accepted' = accepted,
         \A k \in job' : \/ \E j \in job : k.id = j.id /\ k.n = j.n
                         \/ k.id \in Id /\ Numbered(k.id, k.n.last_attempt_no)',
         \A a \in attempt' :
           \/ /\ \E b \in attempt : a.id = b.id /\ a.attempt_no = b.attempt_no
              /\ notification'[a.id].status \notin {"absent", "deleted"}
           \/ /\ notification'[a.id].status \notin {"absent", "deleted"}
              /\ a.attempt_no <= notification'[a.id].last_attempt_no,
         \A j, k \in job' : Key(j) = Key(k) => j = k
  PROVE  Numbers'
<1>1. \A j \in job' : Numbered(j.id, j.n.last_attempt_no)'
  BY JobFields, NumberedKept DEF VendorInv, Numbers
<1>2. ASSUME NEW i \in Id, NEW no \in Nat, <<i, no>> \in accepted'
      PROVE  Numbered(i, no)'
  BY <1>2, NumberedKept DEF VendorInv, Numbers
<1>3. ASSUME NEW a \in attempt'
      PROVE  /\ notification'[a.id].status \notin {"absent", "deleted"}
             /\ a.attempt_no <= notification'[a.id].last_attempt_no
  <2>1. ASSUME NEW b \in attempt, a.id = b.id, a.attempt_no = b.attempt_no
        PROVE  Numbered(a.id, a.attempt_no)'
    <3>1. b.id \in Id /\ b.attempt_no \in Nat /\ Numbered(b.id, b.attempt_no)
      BY AttemptFields DEF VendorInv, Numbers, Numbered
    <3> QED
      BY <2>1, <3>1, NumberedKept
  <2> QED
    BY <2>1 DEF Numbered
<1>4. \A j : Key(j)' = Key(j)
  BY DEF Key
<1> QED
  BY <1>1, <1>2, <1>3, <1>4 DEF Numbers

(* A claim gives a number that neither a job, nor an attempt, nor an       *)
(* accepted request has.                                                   *)
LEMMA ClaimHistory ==
  ASSUME IndInv, VendorInv, NEW p \in Proc, NEW i \in Id, NEW token \in Token,
         ClaimNotification(p, i, token) \/ ClaimUnacknowledged(p, i, token)
  PROVE  VendorInv'
<1> DEFINE n == notification[i]
           m == ClaimedRow(n, token)
           new == NewJob(p, i, m)
           start == StartedAttempt(i, m)
<1> USE DEF VendorInv
<1>1. /\ n.status = "pending" /\ attempt' = attempt \cup {start}
      /\ notification' = [notification EXCEPT ![i] = m]
      /\ job' = job \/ job' = job \cup {new}
      /\ accepted' = accepted
      /\ [Next]_vars
  <2>1. Next
    BY DEF Next
  <2> QED
    BY <2>1 DEF ClaimNotification, ClaimUnacknowledged, Claim, Due, IndInv, TypeOK, StoreTypeOK
<1>2. /\ m.status = "processing" /\ m.last_attempt_no = n.last_attempt_no + 1
      /\ n.last_attempt_no \in Nat
  BY ClaimedRowFields DEF IndInv, TypeOK, StoreTypeOK, Row
<1>3. /\ notification'[i] = m
      /\ \A k \in Id : k # i => notification'[k] = notification[k]
  BY <1>1 DEF IndInv, TypeOK, StoreTypeOK
<1>4. /\ start.id = i /\ start.attempt_no = m.last_attempt_no
      /\ start.result = "in_progress" /\ start.evidence = ""
  BY DEF StartedAttempt
<1>5. /\ new.id = i /\ new.n = m /\ new.phase = "delivering"
      /\ Key(new) = <<i, m.last_attempt_no>>
  BY DEF NewJob, Key
<1> HIDE DEF new, start, m
<1>6. /\ \A j \in job : Key(j) # <<i, m.last_attempt_no>>
      /\ \A a \in attempt : <<a.id, a.attempt_no>> # <<i, m.last_attempt_no>>
      /\ <<i, m.last_attempt_no>> \notin accepted
  <2>1. ~Numbered(i, m.last_attempt_no)
    BY <1>1, <1>2 DEF Numbered
  <2>2. \A j \in job : Key(j) # <<i, m.last_attempt_no>>
    BY <2>1 DEF Numbers, Key
  <2>3. \A a \in attempt : <<a.id, a.attempt_no>> # <<i, m.last_attempt_no>>
    BY <1>2 DEF Numbers
  <2>4. <<i, m.last_attempt_no>> \notin accepted
    BY <1>2, <2>1 DEF Numbers
  <2> QED
    BY <2>2, <2>3, <2>4
<1>7. Numbers'
  <2>1. \A k \in job' : \/ \E j \in job : k.id = j.id /\ k.n = j.n
                        \/ k.id \in Id /\ Numbered(k.id, k.n.last_attempt_no)'
    <3> SUFFICES ASSUME NEW k \in job', k \notin job
                 PROVE  k.id \in Id /\ Numbered(k.id, k.n.last_attempt_no)'
      OBVIOUS
    <3>1. k.id = i /\ k.n = notification'[i]
      BY <1>1, <1>3, <1>5
    <3>2. notification'[i].status = "processing" /\ k.n.last_attempt_no \in Nat
      BY <1>2, <1>3, <3>1
    <3> QED
      BY <3>1, <3>2 DEF Numbered
  <2>2. ASSUME NEW a \in attempt'
        PROVE  \/ /\ \E b \in attempt : a.id = b.id /\ a.attempt_no = b.attempt_no
                  /\ notification'[a.id].status \notin {"absent", "deleted"}
               \/ /\ notification'[a.id].status \notin {"absent", "deleted"}
                  /\ a.attempt_no <= notification'[a.id].last_attempt_no
    <3>1. CASE a = start
      <4>1. a.id = i /\ a.attempt_no = m.last_attempt_no
        BY <1>4, <3>1
      <4> QED
        BY <1>2, <1>3, <4>1
    <3>2. CASE a \in attempt
      BY <1>2, <1>3, <3>2, AttemptFields DEF Numbers
    <3> QED
      BY <1>1, <3>1, <3>2
  <2>3. \A j, k \in job' : Key(j) = Key(k) => j = k
    BY <1>1, <1>5, <1>6 DEF Numbers
  <2> QED
    BY <1>1, <2>1, <2>2, <2>3, NumbersKept
<1>8. ASSUME NEW j \in job' PROVE JobTrue(j)'
  <2>1. CASE j \in job
    <3>1. \A a \in attempt' : <<a.id, a.attempt_no>> = Key(j) => a \in attempt
      BY <1>1, <1>4, <1>6, <2>1
    <3> QED
      BY <1>1, <2>1, <3>1 DEF JobTrue, Key
  <2>2. CASE j = new
    <3>1. \A a \in attempt' : <<a.id, a.attempt_no>> = Key(j) => a = start
      BY <1>1, <1>5, <1>6, <2>2
    <3> QED
      BY <1>1, <1>4, <1>5, <1>6, <2>2, <3>1 DEF JobTrue, Key
  <2> QED
    BY <1>1, <2>1, <2>2
<1>9. ASSUME NEW a \in attempt' PROVE AttemptTrue(a)'
  <2>1. CASE a = start
    BY <1>4, <2>1 DEF AttemptTrue
  <2>2. CASE a \in attempt
    <3>1. AttemptTrue(a) /\ a.id \in Id
      BY <2>2, AttemptFields
    <3>2. a.result = "http_success" => a.id # i
      BY <1>1, <3>1 DEF AttemptTrue
    <3> QED
      BY <1>1, <1>3, <3>1, <3>2 DEF AttemptTrue
  <2> QED
    BY <1>1, <2>1, <2>2
<1> QED
  BY <1>7, <1>8, <1>9

(* The answer and what the vendor did belong together (MayBeAccepted).     *)
LEMMA DeliverHistory ==
  ASSUME IndInv, VendorInv, NEW j \in job, NEW answer \in Outcomes,
         NEW vendor \in BOOLEAN, NEW wait \in Waits(j.n.run_attempt_count),
         DeliverNotification(j, answer, wait, vendor)
  PROVE  VendorInv'
<1> DEFINE d == Decide(j.n, answer, now, wait)
           k == [j EXCEPT !.phase = "completing",
                          !.result = [result |-> answer.result,
                                      retryable |-> answer.retryable,
                                      evidence |-> answer.evidence],
                          !.completion = CompletionOf(d)]
<1> USE DEF VendorInv
<1>1. /\ j.phase = "delivering" /\ vendor \in MayBeAccepted(answer)
      /\ job' = (job \ {j}) \cup {k}
      /\ accepted' = IF vendor THEN accepted \cup {Key(j)} ELSE accepted
      /\ notification' = notification /\ attempt' = attempt
  BY DEF DeliverNotification, storeVars
<1>2. /\ k.id = j.id /\ k.n = j.n /\ k.phase = "completing"
      /\ k.result.result = answer.result /\ k.result.evidence = answer.evidence
      /\ k.completion = CompletionOf(d)
  BY DEF IndInv, TypeOK, Job
<1>3. answer.result = "http_success" => k.completion.status = "succeeded"
  <2>1. ASSUME answer.result = "http_success" PROVE d.action = "succeed"
    BY <2>1 DEF Decide, Succeed
  <2> HIDE DEF d
  <2>2. d.action = "succeed" => CompletionOf(d).status = "succeeded"
    BY DEF CompletionOf
  <2> QED
    BY <1>2, <2>1, <2>2
<1>4. Key(k) = Key(j)
  BY <1>2 DEF Key
<1>5. Key(j) \notin accepted /\ \A l \in job : Key(l) = Key(j) => l = j
  BY <1>1 DEF JobTrue, Numbers
<1> HIDE DEF k, d
<1>6. Numbers'
  <2>1. \A l \in job' : Numbered(l.id, l.n.last_attempt_no)
    BY <1>1, <1>2 DEF Numbers
  <2>2. ASSUME NEW i \in Id, NEW no \in Nat, <<i, no>> \in accepted'
        PROVE  Numbered(i, no)
    <3>1. CASE <<i, no>> \in accepted
      BY <3>1 DEF Numbers
    <3>2. CASE <<i, no>> = Key(j)
      BY <3>2 DEF Numbers, Key
    <3> QED
      BY <1>1, <2>2, <3>1, <3>2
  <2>3. \A l, o \in job' : Key(l) = Key(o) => l = o
    BY <1>1, <1>4, <1>5 DEF Numbers
  <2>4. /\ \A l : Key(l)' = Key(l)
        /\ \A i, no : Numbered(i, no)' <=> Numbered(i, no)
    BY <1>1 DEF Key, Numbered
  <2> QED
    BY <1>1, <2>1, <2>2, <2>3, <2>4 DEF Numbers
<1>7. ASSUME NEW l \in job' PROVE JobTrue(l)'
  <2>1. CASE l \in job /\ l # j
    <3>1. Key(l) \in accepted' <=> Key(l) \in accepted
      BY <1>1, <1>5, <2>1
    <3> QED
      BY <1>1, <2>1, <3>1 DEF JobTrue, Key
  <2>2. CASE l = k
    <3>1. /\ answer.result = "http_success" => Key(k) \in accepted'
          /\ answer.evidence = "not_sent" => Key(k) \notin accepted'
      BY <1>1, <1>4, <1>5, DispatchAssumption DEF MayBeAccepted
    <3>2. \A a \in attempt : <<a.id, a.attempt_no>> = Key(k) =>
            a.evidence # "not_sent"
      BY <1>4 DEF JobTrue
    <3> QED
      BY <1>1, <1>2, <1>3, <2>2, <3>1, <3>2 DEF JobTrue, Key
  <2> QED
    BY <1>1, <2>1, <2>2
<1>8. ASSUME NEW a \in attempt' PROVE AttemptTrue(a)'
  <2>1. AttemptTrue(a) /\ JobTrue(j)
    BY <1>1
  <2>2. <<a.id, a.attempt_no>> \in accepted' \ accepted =>
          a.evidence # "not_sent"
    BY <1>1, <2>1 DEF JobTrue
  <2> QED
    BY <1>1, <2>1, <2>2 DEF AttemptTrue
<1> QED
  BY <1>6, <1>7, <1>8

(* Steps that write the answers of attempts: f is what becomes of each.    *)
LEMMA WrittenHistory ==
  ASSUME IndInv, [Next]_vars, VendorInv, NEW f,
         attempt' = {f[a] : a \in attempt}, job' \subseteq job, accepted' = accepted,
         \A a \in attempt :
           /\ f[a].id = a.id /\ f[a].attempt_no = a.attempt_no
           /\ \/ f[a] = a
              \/ /\ a.result = "in_progress" /\ f[a].result # "http_success"
                 /\ f[a].evidence = "not_sent" => <<a.id, a.attempt_no>> \notin accepted
              \/ /\ a.result = "in_progress" /\ f[a].result = "http_success"
                 /\ <<a.id, a.attempt_no>> \in accepted
                 /\ f[a].evidence # "not_sent"
                 /\ notification'[a.id].status = "succeeded"
                 /\ a.attempt_no = notification'[a.id].last_attempt_no
           /\ \/ f[a] = a \/ f[a].evidence = "unknown"
              \/ \A j \in job' : Key(j) # <<a.id, a.attempt_no>>,
         \A i \in Id : \/ notification'[i] = notification[i]
                       \/ /\ notification[i].status = "processing"
                          /\ notification'[i].status \notin {"absent", "deleted"}
  PROVE  VendorInv'
<1> USE DEF VendorInv
<1>1. Numbers'
  <2>1. \A a \in attempt : notification'[a.id].status \notin {"absent", "deleted"}
    BY AttemptFields DEF Numbers
  <2>2. \A j, k \in job' : Key(j) = Key(k) => j = k
    BY DEF Numbers
  <2>3. \A b \in attempt' :
          /\ \E a \in attempt : b.id = a.id /\ b.attempt_no = a.attempt_no
          /\ notification'[b.id].status \notin {"absent", "deleted"}
    <3> SUFFICES ASSUME NEW b \in attempt'
                 PROVE  /\ \E a \in attempt : b.id = a.id /\ b.attempt_no = a.attempt_no
                        /\ notification'[b.id].status \notin {"absent", "deleted"}
      OBVIOUS
    <3>1. PICK a \in attempt : b = f[a]
      OBVIOUS
    <3>2. b.id = a.id /\ b.attempt_no = a.attempt_no
      BY <3>1
    <3> QED
      BY <2>1, <3>2
  <2>4. \A k \in job' : \E j \in job : k.id = j.id /\ k.n = j.n
    OBVIOUS
  <2> QED
    BY <2>2, <2>3, <2>4, NumbersKept
<1>2. ASSUME NEW j \in job' PROVE JobTrue(j)'
  <2>1. j \in job /\ JobTrue(j)
    OBVIOUS
  <2>2. \A a \in attempt : <<f[a].id, f[a].attempt_no>> = Key(j) =>
          f[a].evidence # "not_sent"
    <3> SUFFICES ASSUME NEW a \in attempt, <<f[a].id, f[a].attempt_no>> = Key(j)
                 PROVE  f[a].evidence # "not_sent"
      OBVIOUS
    <3>1. <<a.id, a.attempt_no>> = Key(j)
      OBVIOUS
    <3>2. f[a] = a \/ f[a].evidence = "unknown"
      BY <3>1
    <3> QED
      BY <2>1, <3>1, <3>2 DEF JobTrue
  <2> QED
    BY <2>1, <2>2 DEF JobTrue, Key
<1>3. ASSUME NEW a \in attempt PROVE AttemptTrue(f[a])'
  <2>1. AttemptTrue(a) /\ a.id \in Id
    BY AttemptFields
  <2>2. CASE f[a] = a
    BY <2>1, <2>2 DEF AttemptTrue
  <2>3. CASE f[a] # a
    BY <2>1, <2>3 DEF AttemptTrue
  <2> QED
    BY <2>2, <2>3
<1>4. \A b \in attempt' : AttemptTrue(b)'
  BY <1>3
<1> QED
  BY <1>1, <1>2, <1>4

LEMMA CompleteHistory ==
  ASSUME IndInv, VendorInv, NEW j \in job, CompleteNotification(j)
  PROVE  VendorInv'
<1> DEFINE i == j.id
           c == j.completion
           f == [a \in attempt |-> IF Open(a, i, j.n.last_attempt_no)
                                   THEN FinishedAttempt(a, j.result, c) ELSE a]
<1>1. /\ j.phase = "completing" /\ Complete(i, j.n, j.result, c)
      /\ job' = job \ {j} /\ accepted' = accepted /\ [Next]_vars
  <2>1. Next
    BY DEF Next
  <2> QED
    BY <2>1 DEF CompleteNotification
<1>2. /\ notification' = [notification EXCEPT ![i] = CompletedRow(@, j.n, c)]
      /\ attempt' = {f[a] : a \in attempt}
      /\ notification[i].status = "processing" /\ notification[i] = j.n
  BY <1>1 DEF Complete, CanComplete, HoldsLease, IndInv, SnapshotFresh
<1>3. /\ i \in Id /\ notification[i] \in Row /\ c \in Completion
      /\ DOMAIN notification = Id
  BY DEF IndInv, TypeOK, StoreTypeOK, Job
<1>4. /\ notification'[i].status = c.status
      /\ notification'[i].last_attempt_no = j.n.last_attempt_no
      /\ c.status \in {"pending", "succeeded", "failed"}
      /\ \A k \in Id : k # i => notification'[k] = notification[k]
  BY <1>2, <1>3 DEF CompletedRow, Row, Completion
<1>5. JobTrue(j) /\ \A k \in job : Key(k) = Key(j) => k = j
  BY DEF VendorInv, Numbers
<1>6. ASSUME NEW a \in attempt
      PROVE  /\ f[a].id = a.id /\ f[a].attempt_no = a.attempt_no
             /\ \/ f[a] = a
                \/ /\ a.result = "in_progress" /\ f[a].result # "http_success"
                   /\ f[a].evidence = "not_sent" => <<a.id, a.attempt_no>> \notin accepted
                \/ /\ a.result = "in_progress" /\ f[a].result = "http_success"
                   /\ <<a.id, a.attempt_no>> \in accepted
                   /\ f[a].evidence # "not_sent"
                   /\ notification'[a.id].status = "succeeded"
                   /\ a.attempt_no = notification'[a.id].last_attempt_no
             /\ \/ f[a] = a \/ f[a].evidence = "unknown"
                \/ \A k \in job' : Key(k) # <<a.id, a.attempt_no>>
  <2>1. CASE ~Open(a, i, j.n.last_attempt_no)
    BY <2>1
  <2>2. CASE Open(a, i, j.n.last_attempt_no)
    <3>1. /\ a.id = i /\ a.attempt_no = j.n.last_attempt_no
          /\ a.result = "in_progress" /\ <<a.id, a.attempt_no>> = Key(j)
      BY <2>2 DEF Open, Key
    <3>2. /\ f[a].id = a.id /\ f[a].attempt_no = a.attempt_no
          /\ f[a].result = j.result.result /\ f[a].evidence = j.result.evidence
      BY <2>2, AttemptFields DEF FinishedAttempt, Attempt
    <3> HIDE DEF f
    <3> QED
      BY <1>1, <1>4, <1>5, <3>1, <3>2 DEF JobTrue
  <2> QED
    BY <2>1, <2>2
<1>7. \A k \in Id : \/ notification'[k] = notification[k]
                    \/ /\ notification[k].status = "processing"
                       /\ notification'[k].status \notin {"absent", "deleted"}
  BY <1>2, <1>4
<1> HIDE DEF f
<1> QED
  BY <1>1, <1>2, <1>6, <1>7, WrittenHistory

LEMMA RecoverHistory ==
  ASSUME IndInv, VendorInv, NEW B \in SUBSET Id, RecoverLeases(B)
  PROVE  VendorInv'
<1> DEFINE f == [a \in attempt |->
                   IF a.id \in B /\ Open(a, a.id, notification[a.id].last_attempt_no)
                   THEN RecoveredAttempt(a) ELSE a]
<1>1. /\ Recover(B) /\ job' = job /\ accepted' = accepted /\ [Next]_vars
      /\ \A i \in B : notification[i].status = "processing"
  <2>1. Next
    BY DEF Next
  <2> QED
    BY <2>1 DEF RecoverLeases, SkipLocked, LeaseExpired
<1>2. /\ attempt' = {f[a] : a \in attempt}
      /\ \A i \in Id : notification'[i] = IF i \in B THEN RecoveredRow(notification[i])
                                                    ELSE notification[i]
  BY <1>1 DEF Recover
<1>3. \A i \in Id : \/ notification'[i] = notification[i]
                    \/ /\ notification[i].status = "processing"
                       /\ notification'[i].status \notin {"absent", "deleted"}
  <2>1. \A i \in Id : RecoveredRow(notification[i]).status \in {"pending", "failed"}
    BY DEF RecoveredRow, IndInv, TypeOK, StoreTypeOK, Row
  <2> QED
    BY <1>1, <1>2, <2>1
<1>4. ASSUME NEW a \in attempt
      PROVE  /\ f[a].id = a.id /\ f[a].attempt_no = a.attempt_no
             /\ \/ f[a] = a
                \/ /\ a.result = "in_progress" /\ f[a].result # "http_success"
                   /\ f[a].evidence = "unknown"
  <2>1. a \in Attempt
    BY AttemptFields
  <2> QED
    BY <2>1 DEF RecoveredAttempt, Open, Attempt
<1> HIDE DEF f
<1> QED
  BY <1>1, <1>2, <1>3, <1>4, WrittenHistory

LEMMA CleanupHistory ==
  ASSUME IndInv, VendorInv, NEW B \in SUBSET Id, CleanupNotifications(B)
  PROVE  VendorInv'
<1> USE DEF VendorInv
<1>1. /\ Cleanup(B) /\ job' = job /\ accepted' = accepted /\ [Next]_vars
  <2>1. Next
    BY DEF Next
  <2> QED
    BY <2>1 DEF CleanupNotifications
<1>2. /\ attempt' = {a \in attempt : a.id \notin B}
      /\ \A i \in Id : i \notin B => notification'[i] = notification[i]
  BY <1>1 DEF Cleanup
<1>3. Numbers'
  <2>1. \A j, k \in job' : Key(j) = Key(k) => j = k
    BY <1>1 DEF Numbers
  <2>2. \A a \in attempt' : /\ a \in attempt
                            /\ notification'[a.id].status \notin {"absent", "deleted"}
    BY <1>2, AttemptFields DEF Numbers
  <2> QED
    BY <1>1, <2>1, <2>2, NumbersKept
<1>4. \A j \in job' : JobTrue(j)'
  BY <1>1, <1>2 DEF JobTrue, Key
<1>5. \A a \in attempt' : AttemptTrue(a)'
  BY <1>1, <1>2, AttemptFields DEF AttemptTrue
<1> QED
  BY <1>3, <1>4, <1>5

LEMMA CrashHistory ==
  ASSUME IndInv, VendorInv, NEW p \in Proc, NEW arrived \in SUBSET JobsOf(p),
         Crash(p, arrived)
  PROVE  VendorInv'
<1>1. /\ job' = job \ JobsOf(p) /\ accepted' = accepted \cup {Key(j) : j \in arrived}
      /\ notification' = notification /\ attempt' = attempt /\ [Next]_vars
  <2>1. Next
    BY DEF Next
  <2> QED
    BY <2>1 DEF Crash, storeVars
<1>2. \A key \in accepted' \ accepted : \E j \in job \ job' : Key(j) = key
  BY <1>1 DEF JobsOf
<1> QED
  BY <1>1, <1>2, HistoryKept

-----------------------------------------------------------------------------
LEMMA VendorStep == IndInv /\ VendorInv /\ [Next]_vars => VendorInv'
<1> SUFFICES ASSUME IndInv, VendorInv, [Next]_vars PROVE VendorInv'
  OBVIOUS
<1>0. DOMAIN notification = Id
  BY DEF IndInv, TypeOK, StoreTypeOK
<1>1. ASSUME NEW i \in Id, NEW t, NEW m, NEW at, AcceptNotification(i, t, m, at)
      PROVE  VendorInv'
  <2>1. /\ notification[i].status = "absent" /\ attempt' = attempt
        /\ notification' = [notification EXCEPT ![i] = InsertedRow(t, m, at)]
        /\ job' = job /\ accepted' = accepted
    BY <1>1 DEF AcceptNotification, Create
  <2>2. InsertedRow(t, m, at).status = "pending"
    BY DEF InsertedRow
  <2> QED
    BY <1>0, <2>1, <2>2, HistoryKept
<1>2. ASSUME NEW i \in Id, NEW r, NEW e, NEW l, ReplayNotification(i, r, e, l)
      PROVE  VendorInv'
  <2>1. /\ notification[i].status = "failed" /\ attempt' = attempt
        /\ notification' = [notification EXCEPT ![i] = ReplayedRow(@, e)]
        /\ job' = job /\ accepted' = accepted
    BY <1>2 DEF ReplayNotification, Replay
  <2>2. ReplayedRow(notification[i], e).status = "pending"
    BY DEF ReplayedRow, IndInv, TypeOK, StoreTypeOK, Row
  <2> QED
    BY <1>0, <2>1, <2>2, HistoryKept
<1>3. ASSUME NEW B \in SUBSET Id, ExpireNotifications(B)
      PROVE  VendorInv'
  <2>1. /\ attempt' = attempt /\ job' = job /\ accepted' = accepted
        /\ \A i \in Id : notification'[i] = IF i \in B THEN ExpiredRow(notification[i])
                                                      ELSE notification[i]
        /\ \A i \in B : notification[i].status = "pending"
    BY <1>3 DEF ExpireNotifications, ExpirePending, Limited, SkipLocked, PendingExpired
  <2>2. \A i \in Id : ExpiredRow(notification[i]).status = "failed"
    BY DEF ExpiredRow, IndInv, TypeOK, StoreTypeOK, Row
  <2> QED
    BY <2>1, <2>2, HistoryKept
<1>4. CASE /\ attempt' = attempt /\ job' \subseteq job /\ accepted' = accepted
           /\ notification' = notification
  BY <1>4, HistoryKept
<1> QED
  BY <1>1, <1>2, <1>3, <1>4, ClaimHistory, DeliverHistory, CompleteHistory,
     RecoverHistory, CleanupHistory, CrashHistory
  DEF Next, vars, storeVars, ApproveReplay, RejectCompletion, AbandonJob, Tick

LEMMA VendorInvariant == Spec => []VendorInv
<1>1. Init => VendorInv
  BY VendorInit
<1>2. IndInv /\ VendorInv /\ [Next]_vars => VendorInv'
  BY VendorStep
<1> QED
  BY <1>1, <1>2, Invariance, PTL DEF Spec

(* An attempt recorded as successful was accepted, and one recorded as not *)
(* sent was not, whatever crashes, lost leases and late workers there are  *)
(* (Complete, Recover).                                                    *)
THEOREM VendorSafety == Spec => []VendorTruth
<1>1. VendorInv => VendorTruth
  BY DEF VendorInv, AttemptTrue, VendorTruth
<1> QED
  BY VendorInvariant, <1>1, PTL

-----------------------------------------------------------------------------
(* Replays                                                                 *)

RunsAuthorised(i) ==
  LET n == notification[i]
  IN  /\ \A r \in 1 .. n.run_no - 1 : <<i, r>> \in approved
      /\ n.replay_history = [k \in 1 .. Len(n.replay_history) |-> k + 1]
      /\ n.run_no > 0 => Len(n.replay_history) = n.run_no - 1

LEMMA ApprovalsKept == [Next]_vars => approved \subseteq approved'
BY DEF Next, vars, storeVars, AcceptNotification, ApproveReplay,
   ReplayNotification, ClaimNotification, ClaimUnacknowledged,
   DeliverNotification, CompleteNotification, RejectCompletion, AbandonJob,
   RecoverLeases, ExpireNotifications, CleanupNotifications, Crash, Tick

(* Only a replay starts a run.                                             *)
LEMMA RunFields ==
  ASSUME TypeOK, NEW i \in Id, RowChange(i), ~Replayed(i)
  PROVE  \/ /\ notification'[i].run_no = notification[i].run_no
            /\ notification'[i].replay_history = notification[i].replay_history
         \/ /\ notification'[i].run_no \in {0, 1}
            /\ notification'[i].replay_history = <<>>
<1>1. notification[i] \in Row
  BY DEF TypeOK, StoreTypeOK
<1>2. CASE Inserted(i)
  <2>1. \A t, m, at : /\ InsertedRow(t, m, at).run_no = 1
                      /\ InsertedRow(t, m, at).replay_history = <<>>
    BY Zenon DEF InsertedRow
  <2> QED
    BY <1>2, <2>1 DEF Inserted
<1>3. CASE Deleted(i)
  <2>1. \A n : DeletedRow(n).run_no = 0 /\ DeletedRow(n).replay_history = <<>>
    BY Zenon DEF DeletedRow, NoRow
  <2> QED
    BY <1>3, <2>1 DEF Deleted
<1>4. CASE Claimed(i)
  BY <1>1, <1>4 DEF Claimed, ClaimedRow, Row
<1>5. CASE Completed(i)
  BY <1>1, <1>5 DEF Completed, CompletedRow, Row
<1>6. CASE Recovered(i)
  BY <1>1, <1>6 DEF Recovered, RecoveredRow, Row
<1>7. CASE Expired(i)
  BY <1>1, <1>7 DEF Expired, ExpiredRow, Row
<1> QED
  BY <1>2, <1>3, <1>4, <1>5, <1>6, <1>7 DEF RowChange

LEMMA ReplayOnly ==
  ASSUME TypeOK, [Next]_vars, NEW i \in Id, Replayed(i)
  PROVE  \E r \in 1 .. MaxRuns, e \in Nat, l \in Int : ReplayNotification(i, r, e, l)
<1>0. /\ DOMAIN notification = Id /\ now \in Nat
      /\ notification[i] \in Row /\ notification[i].status = "failed"
      /\ notification'[i].run_no = notification[i].run_no + 1
  <2>1. notification[i] \in Row /\ DOMAIN notification = Id /\ now \in Nat
    BY DEF TypeOK, StoreTypeOK, Instant
  <2> QED
    BY <2>1 DEF Replayed, ReplayedRow, Row
<1>1. notification'[i] # notification[i]
  BY <1>0 DEF Row
<1>2. ASSUME NEW k \in Id, NEW r \in 1 .. MaxRuns,
             NEW e \in 0 .. now + ReplayValidity,
             NEW l \in now - ClockSkew .. now + ClockSkew, ReplayNotification(k, r, e, l)
      PROVE  \E x \in 1 .. MaxRuns, y \in Nat, z \in Int :
                ReplayNotification(i, x, y, z)
  <2>1. k = i
    BY <1>0, <1>1, <1>2 DEF ReplayNotification, Replay
  <2>2. e \in Nat /\ l \in Int
    BY <1>0, DispatchAssumption
  <2> QED
    BY <1>2, <2>1, <2>2
<1>3. ASSUME NEW k \in Id, NEW t, NEW m, NEW at, AcceptNotification(k, t, m, at)
      PROVE  FALSE
  BY <1>0, <1>1, <1>3 DEF AcceptNotification, Create
<1>4. ASSUME NEW k \in Id, NEW p, NEW token,
             ClaimNotification(p, k, token) \/ ClaimUnacknowledged(p, k, token)
      PROVE  FALSE
  BY <1>0, <1>1, <1>4 DEF ClaimNotification, ClaimUnacknowledged, Claim, Due
<1>5. ASSUME NEW j \in job, CompleteNotification(j)
      PROVE  FALSE
  BY <1>0, <1>1, <1>5
  DEF CompleteNotification, Complete, CanComplete, HoldsLease
<1>6. ASSUME NEW B \in SUBSET Id, RecoverLeases(B)
      PROVE  FALSE
  BY <1>0, <1>1, <1>6 DEF RecoverLeases, SkipLocked, LeaseExpired, Recover
<1>7. ASSUME NEW B \in SUBSET Id, ExpireNotifications(B)
      PROVE  FALSE
  BY <1>0, <1>1, <1>7
  DEF ExpireNotifications, Limited, SkipLocked, PendingExpired, ExpirePending
<1>8. ASSUME NEW B \in SUBSET Id, CleanupNotifications(B)
      PROVE  FALSE
  <2>1. \A n : DeletedRow(n).run_no = 0
    BY Zenon DEF DeletedRow, NoRow
  <2>2. notification'[i] = notification[i] \/ notification'[i] = DeletedRow(notification[i])
    BY <1>8 DEF CleanupNotifications, Cleanup
  <2>3. notification[i].run_no + 1 # 0
    BY <1>0 DEF Row
  <2> QED
    BY <1>0, <1>1, <2>1, <2>2, <2>3
<1>9. notification' # notification
  BY <1>1
<1>10. ASSUME NEW p, NEW arrived, Crash(p, arrived)
       PROVE  FALSE
  BY <1>9, <1>10 DEF Crash, storeVars
<1>11. ASSUME NEW j, NEW a, NEW w, NEW v, DeliverNotification(j, a, w, v)
       PROVE  FALSE
  BY <1>9, <1>11 DEF DeliverNotification, storeVars
<1> QED
  BY <1>2, <1>3, <1>4, <1>5, <1>6, <1>7, <1>8, <1>9, <1>10, <1>11
  DEF Next, vars, storeVars, ApproveReplay, RejectCompletion, AbandonJob, Tick

LEMMA ReplayStep ==
  ASSUME TypeOK, NEW i \in Id, RunsAuthorised(i), NEW r \in 1 .. MaxRuns,
         NEW e \in Nat, NEW l, ReplayNotification(i, r, e, l)
  PROVE  RunsAuthorised(i)'
<1> DEFINE n == notification[i]
           m == notification'[i]
<1>1. n \in Row /\ DOMAIN notification = Id
  BY DEF TypeOK, StoreTypeOK
<1>2. /\ <<i, r>> \in approved /\ n.run_no = r /\ approved' = approved
      /\ m = ReplayedRow(n, e)
  BY <1>1 DEF ReplayNotification, Replay
<1>3. /\ m.run_no = r + 1 /\ m.replay_history = Append(n.replay_history, r + 1)
      /\ n.replay_history \in Seq(Nat) /\ r \in Nat /\ r > 0
  BY <1>1, <1>2, DispatchAssumption DEF ReplayedRow, Row
<1> DEFINE h == n.replay_history
           g == m.replay_history
<1>4. Len(h) = r - 1 /\ h = [k \in 1 .. r - 1 |-> k + 1]
  BY <1>2, <1>3 DEF RunsAuthorised
<1>5. Len(g) = r /\ \A k \in 1 .. r : g[k] = k + 1
  <2>1. Len(g) = r /\ \A k \in 1 .. r - 1 : g[k] = h[k]
    BY <1>3, <1>4
  <2>2. g[r] = r + 1
    BY <1>3, <1>4
  <2> QED
    BY <1>3, <1>4, <2>1, <2>2
<1>6. g = [k \in 1 .. Len(g) |-> k + 1]
  <2>1. g \in Seq(Nat)
    BY <1>3
  <2>2. DOMAIN g = 1 .. Len(g) /\ g = [k \in DOMAIN g |-> g[k]]
    BY <2>1
  <2>3. [k \in DOMAIN g |-> g[k]] = [k \in 1 .. Len(g) |-> k + 1]
    BY <1>5, <2>2, Zenon
  <2> QED
    BY <2>2, <2>3
<1>7. \A x \in 1 .. m.run_no - 1 : <<i, x>> \in approved
  <2> SUFFICES ASSUME NEW x \in 1 .. m.run_no - 1, x # r
               PROVE  <<i, x>> \in approved
    BY <1>2
  <2>1. x \in 1 .. n.run_no - 1
    BY <1>2, <1>3
  <2> QED
    BY <2>1 DEF RunsAuthorised
<1>8. Len(g) = m.run_no - 1 /\ approved' = approved
  BY <1>2, <1>3, <1>5
<1> QED
  BY <1>6, <1>7, <1>8, Zenon DEF RunsAuthorised

LEMMA AuthorisedStep ==
  TypeOK /\ ReplayAuthorised /\ [Next]_vars => ReplayAuthorised'
<1> SUFFICES ASSUME TypeOK, ReplayAuthorised, [Next]_vars, NEW i \in Id
             PROVE  RunsAuthorised(i)'
  BY DEF ReplayAuthorised, RunsAuthorised
<1>1. RunsAuthorised(i) /\ approved \subseteq approved' /\ RowChange(i)
  BY ApprovalsKept, RowChanges DEF ReplayAuthorised, RunsAuthorised
<1>2. CASE ~Replayed(i)
  <2>1. CASE /\ notification'[i].run_no = notification[i].run_no
             /\ notification'[i].replay_history = notification[i].replay_history
    BY <1>1, <2>1 DEF RunsAuthorised
  <2>2. CASE /\ notification'[i].run_no \in {0, 1}
             /\ notification'[i].replay_history = <<>>
    <3>1. \A r \in 1 .. notification'[i].run_no - 1 : FALSE
      BY <2>2
    <3>2. notification'[i].replay_history = [k \in 1 .. 0 |-> k + 1]
      BY <2>2
    <3> QED
      BY <2>2, <3>1, <3>2 DEF RunsAuthorised
  <2> QED
    BY <1>1, <1>2, <2>1, <2>2, RunFields
<1>3. CASE Replayed(i)
  <2>1. PICK r \in 1 .. MaxRuns, e \in Nat, l \in Int : ReplayNotification(i, r, e, l)
    BY <1>3, ReplayOnly
  <2> QED
    BY <1>1, <2>1, ReplayStep
<1> QED
  BY <1>2, <1>3

LEMMA InitRow ==
  ASSUME Init, NEW i \in Id
  PROVE  /\ notification[i].status = "absent" /\ notification[i].run_no = 0
         /\ notification[i].replay_history = <<>>
         /\ notification[i].stop_reason = ""
         /\ notification[i].finished_at = NoTime
<1>1. PICK t \in Target, m \in AttemptLimits : notification[i] = NoRow("absent", t, m)
  BY DEF Init
<1>2. /\ NoRow("absent", t, m).status = "absent"
      /\ NoRow("absent", t, m).run_no = 0
      /\ NoRow("absent", t, m).replay_history = <<>>
      /\ NoRow("absent", t, m).stop_reason = ""
      /\ NoRow("absent", t, m).finished_at = NoTime
  BY Zenon DEF NoRow
<1> QED
  BY <1>1, <1>2

LEMMA InitAuthorised == Init => ReplayAuthorised
<1> SUFFICES ASSUME Init, NEW i \in Id PROVE RunsAuthorised(i)
  BY DEF ReplayAuthorised, RunsAuthorised
<1>1. notification[i].run_no = 0 /\ notification[i].replay_history = <<>>
  BY InitRow
<1>2. <<>> = [k \in 1 .. 0 |-> k + 1]
  OBVIOUS
<1>3. \A r \in 1 .. 0 - 1 : FALSE
  OBVIOUS
<1> QED
  BY <1>1, <1>2, <1>3 DEF RunsAuthorised

(* Every run beyond the first was opened by a request that named the run   *)
(* before it, whatever requests are repeated or late (Replay).             *)
THEOREM ReplaySafety == Spec => []ReplayAuthorised
<1>1. Init => ReplayAuthorised
  BY InitAuthorised
<1>2. TypeOK /\ ReplayAuthorised /\ [Next]_vars => ReplayAuthorised'
  BY AuthorisedStep
<1> QED
  BY <1>1, <1>2, TypeCorrect, PTL DEF Spec

-----------------------------------------------------------------------------
(* The vendor's Retry-After                                                *)

(* While a run goes on, its row is not due before any of its attempts asks *)
(* for; the claim has waited for that, and so has whatever follows it.     *)
RowWaits(i) ==
  notification[i].status = "processing" => notification[i].next_attempt_at <= now

AttemptWaits(a) ==
  LET n == notification[a.id]
  IN  /\ n.status \notin {"absent", "deleted"}
      /\ a.run_no <= n.run_no
      /\ n.status \in Active /\ a.run_no = n.run_no =>
           a.retry_after <= n.next_attempt_at

JobWaits(j) ==
  /\ j.n.next_attempt_at <= now
  /\ j.phase = "completing" /\ j.completion.status = "pending" =>
       /\ j.completion.next_attempt_at >= j.n.next_attempt_at
       /\ j.completion.retry_after <= j.completion.next_attempt_at

WaitInv ==
  /\ \A i \in Id : RowWaits(i)
  /\ \A a \in attempt : AttemptWaits(a)
  /\ \A j \in job : JobWaits(j)

LEMMA InitWaits == Init => WaitInv
<1> SUFFICES ASSUME Init PROVE WaitInv
  OBVIOUS
<1>1. \A i \in Id : RowWaits(i)
  BY InitRow DEF RowWaits
<1>2. attempt = {} /\ job = {}
  BY DEF Init
<1> QED
  BY <1>1, <1>2 DEF WaitInv

LEMMA TimePasses == TypeOK /\ [Next]_vars => now' \in Nat /\ now \in Nat /\ now <= now'
<1> SUFFICES ASSUME TypeOK, [Next]_vars PROVE now' \in Nat /\ now \in Nat /\ now <= now'
  OBVIOUS
<1>1. now \in Nat
  BY DEF TypeOK, StoreTypeOK, Instant
<1>2. now' = now \/ now' = now + 1
  BY DEF Next, vars, storeVars, AcceptNotification, Create, ApproveReplay,
     ReplayNotification, Replay, ClaimNotification, ClaimUnacknowledged, Claim,
     DeliverNotification, CompleteNotification, Complete, RejectCompletion,
     AbandonJob, RecoverLeases, Recover, ExpireNotifications, ExpirePending,
     CleanupNotifications, Cleanup, Crash, Tick
<1> QED
  BY <1>1, <1>2

-----------------------------------------------------------------------------
(* What a step can do to the attempts and to the jobs                      *)

FromClaim(a) ==
  \E i \in Id, token \in Token :
    /\ Claim(i, token)
    /\ a = StartedAttempt(i, notification'[i])

FromCompletion(a) ==
  \E j \in job, b \in attempt :
    /\ CompleteNotification(j)
    /\ Open(b, j.id, j.n.last_attempt_no)
    /\ a = FinishedAttempt(b, j.result, j.completion)

FromRecovery(a) ==
  \E b \in attempt : b.result = "in_progress" /\ a = RecoveredAttempt(b)

LEMMA AttemptChanges ==
  ASSUME TypeOK, [Next]_vars, NEW a \in attempt'
  PROVE  a \in attempt \/ FromClaim(a) \/ FromCompletion(a) \/ FromRecovery(a)
<1>0. DOMAIN notification = Id
  BY DEF TypeOK, StoreTypeOK
<1>1. CASE attempt' \subseteq attempt
  BY <1>1
<1>2. ASSUME NEW p, NEW i \in Id, NEW token \in Token,
             ClaimNotification(p, i, token) \/ ClaimUnacknowledged(p, i, token)
      PROVE  a \in attempt \/ FromClaim(a)
  <2>1. Claim(i, token)
    BY <1>2 DEF ClaimNotification, ClaimUnacknowledged
  <2>2. /\ notification'[i] = ClaimedRow(notification[i], token)
        /\ attempt' = attempt \cup {StartedAttempt(i, ClaimedRow(notification[i], token))}
    BY <1>0, <2>1 DEF Claim
  <2> QED
    BY <2>1, <2>2 DEF FromClaim
<1>3. ASSUME NEW j \in job, CompleteNotification(j)
      PROVE  a \in attempt \/ FromCompletion(a)
  BY <1>3 DEF CompleteNotification, Complete, FromCompletion
<1>4. ASSUME NEW B, RecoverLeases(B)
      PROVE  a \in attempt \/ FromRecovery(a)
  BY <1>4 DEF RecoverLeases, Recover, Open, FromRecovery
<1>5. ASSUME NEW B, CleanupNotifications(B)
      PROVE  attempt' \subseteq attempt
  BY <1>5 DEF CleanupNotifications, Cleanup
<1>6. ASSUME NEW p, NEW arrived, Crash(p, arrived)
      PROVE  attempt' \subseteq attempt
  BY <1>6 DEF Crash, storeVars
<1>7. ASSUME NEW j, NEW x, NEW w, NEW v, DeliverNotification(j, x, w, v)
      PROVE  attempt' \subseteq attempt
  BY <1>7 DEF DeliverNotification, storeVars
<1> QED
  BY <1>1, <1>2, <1>3, <1>4, <1>5, <1>6, <1>7
  DEF Next, vars, storeVars, AcceptNotification, Create, ApproveReplay,
      ReplayNotification, Replay, RejectCompletion, AbandonJob,
      ExpireNotifications, ExpirePending, Tick

StartedJob(k) ==
  \E p \in Proc, i \in Id, token \in Token :
    Claim(i, token) /\ k = NewJob(p, i, notification'[i])

DecidedJob(k) ==
  \E j \in job, answer \in Outcomes :
    \E wait \in Waits(j.n.run_attempt_count) :
      k = [j EXCEPT !.phase = "completing",
                    !.result = [result |-> answer.result,
                                retryable |-> answer.retryable,
                                evidence |-> answer.evidence],
                    !.completion = CompletionOf(Decide(j.n, answer, now, wait))]

LEMMA JobChanges ==
  ASSUME [Next]_vars, NEW k \in job'
  PROVE  k \in job \/ StartedJob(k) \/ DecidedJob(k)
<1>1. ASSUME NEW p \in Proc, NEW i \in Id, NEW token \in Token,
             ClaimNotification(p, i, token)
      PROVE  k \in job \/ StartedJob(k)
  BY <1>1 DEF ClaimNotification, StartedJob
<1>2. ASSUME NEW j \in job, NEW answer \in Outcomes, NEW vendor,
             NEW wait \in Waits(j.n.run_attempt_count),
             DeliverNotification(j, answer, wait, vendor)
      PROVE  k \in job \/ DecidedJob(k)
  BY <1>2 DEF DeliverNotification, DecidedJob
<1>3. CASE job' \subseteq job
  BY <1>3
<1>4. ASSUME NEW p, NEW arrived, Crash(p, arrived)
      PROVE  job' \subseteq job
  BY <1>4 DEF Crash
<1> QED
  BY <1>1, <1>2, <1>3, <1>4
  DEF Next, vars, storeVars, AcceptNotification, ApproveReplay,
      ReplayNotification, ClaimUnacknowledged, CompleteNotification,
      RejectCompletion, AbandonJob, RecoverLeases, ExpireNotifications,
      CleanupNotifications, Tick

(* Only a claim leads from pending to processing.                          *)
LEMMA ClaimOnly ==
  ASSUME TypeOK, [Next]_vars, NEW i \in Id,
         notification[i].status = "pending", notification'[i].status = "processing"
  PROVE  \E token \in Token : Claim(i, token)
<1>0. DOMAIN notification = Id /\ notification[i] \in Row
  BY DEF TypeOK, StoreTypeOK
<1>1. ASSUME NEW p, NEW k \in Id, NEW token \in Token,
             ClaimNotification(p, k, token) \/ ClaimUnacknowledged(p, k, token)
      PROVE  Claim(i, token)
  <2>1. Claim(k, token)
    BY <1>1 DEF ClaimNotification, ClaimUnacknowledged
  <2> QED
    BY <1>0, <2>1 DEF Claim
<1>2. ASSUME NEW k \in Id, NEW t, NEW m, NEW at, AcceptNotification(k, t, m, at)
      PROVE  FALSE
  BY <1>0, <1>2 DEF AcceptNotification, Create
<1>3. ASSUME NEW k \in Id, NEW r, NEW e, NEW l, ReplayNotification(k, r, e, l)
      PROVE  FALSE
  BY <1>0, <1>3 DEF ReplayNotification, Replay
<1>4. ASSUME NEW j \in job, CompleteNotification(j)
      PROVE  FALSE
  BY <1>0, <1>4 DEF CompleteNotification, Complete, CanComplete, HoldsLease
<1>5. ASSUME NEW B \in SUBSET Id, RecoverLeases(B)
      PROVE  FALSE
  BY <1>0, <1>5 DEF RecoverLeases, SkipLocked, LeaseExpired, Recover
<1>6. ASSUME NEW B \in SUBSET Id, ExpireNotifications(B)
      PROVE  FALSE
  <2>1. ExpiredRow(notification[i]).status = "failed"
    BY <1>0 DEF ExpiredRow, Row
  <2> QED
    BY <1>0, <1>6, <2>1 DEF ExpireNotifications, ExpirePending
<1>7. ASSUME NEW B \in SUBSET Id, CleanupNotifications(B)
      PROVE  FALSE
  BY <1>0, <1>7
  DEF CleanupNotifications, OldestFinished, Limited, SkipLocked, Removable,
      Terminal, Cleanup
<1>8. notification' # notification
  OBVIOUS
<1>9. ASSUME NEW p, NEW arrived, Crash(p, arrived)
      PROVE  FALSE
  BY <1>8, <1>9 DEF Crash, storeVars
<1>10. ASSUME NEW j, NEW a, NEW w, NEW v, DeliverNotification(j, a, w, v)
       PROVE  FALSE
  BY <1>8, <1>10 DEF DeliverNotification, storeVars
<1> QED
  BY <1>1, <1>2, <1>3, <1>4, <1>5, <1>6, <1>7, <1>8, <1>9, <1>10
  DEF Next, vars, storeVars, ApproveReplay, RejectCompletion, AbandonJob, Tick

LEMMA ClaimedWhen ==
  ASSUME TypeOK, NEW i \in Id, NEW token \in Token, Claim(i, token)
  PROVE  /\ notification[i].status = "pending"
         /\ notification[i].next_attempt_at <= now
         /\ notification'[i] = ClaimedRow(notification[i], token)
         /\ notification'[i] \in Row
         /\ notification'[i].status = "processing"
         /\ notification'[i].run_no = notification[i].run_no
         /\ notification'[i].next_attempt_at = notification[i].next_attempt_at
<1>1. notification[i] \in Row /\ DOMAIN notification = Id
  BY DEF TypeOK, StoreTypeOK
<1>2. /\ notification[i].status = "pending"
      /\ notification[i].next_attempt_at <= now
      /\ notification'[i] = ClaimedRow(notification[i], token)
  BY <1>1 DEF Claim, Due
<1>3. ClaimedRow(notification[i], token) \in Row
  BY <1>1, ClaimedRowType DEF TypeOK, StoreTypeOK, Instant
<1>4. ClaimedRow(notification[i], token).next_attempt_at
        = notification[i].next_attempt_at
  BY <1>1 DEF ClaimedRow, Row
<1> QED
  BY <1>1, <1>2, <1>3, <1>4, ClaimedRowFields

-----------------------------------------------------------------------------
(* Leases                                                                  *)

(* A job that is neither old nor new is an old one whose delivery is       *)
(* decided, a step that leaves the tables alone.                           *)
LEMMA JobDecided ==
  ASSUME TypeOK, [Next]_vars, NEW k \in job', k \notin job, ~StartedJob(k)
  PROVE  \E j \in job : j.id = k.id /\ j.n = k.n /\ notification' = notification
<1>1. ASSUME NEW p \in Proc, NEW i \in Id, NEW token \in Token,
             ClaimNotification(p, i, token)
      PROVE  FALSE
  BY <1>1 DEF ClaimNotification, StartedJob
<1>2. ASSUME NEW j \in job, NEW answer \in Outcomes, NEW vendor,
             NEW wait \in Waits(j.n.run_attempt_count),
             DeliverNotification(j, answer, wait, vendor)
      PROVE  \E l \in job : l.id = k.id /\ l.n = k.n /\ notification' = notification
  BY <1>2 DEF DeliverNotification, TypeOK, Job, storeVars
<1>3. ~(job' \subseteq job)
  OBVIOUS
<1>4. ASSUME NEW p, NEW arrived, Crash(p, arrived)
      PROVE  FALSE
  BY <1>3, <1>4 DEF Crash
<1> QED
  BY <1>1, <1>2, <1>3, <1>4
  DEF Next, vars, storeVars, AcceptNotification, ApproveReplay,
      ReplayNotification, ClaimUnacknowledged, CompleteNotification,
      RejectCompletion, AbandonJob, RecoverLeases, ExpireNotifications,
      CleanupNotifications, Tick

LEMMA LeaseKeptStep ==
  ASSUME IndInv, LeaseKeptToItsEnd, [Next]_vars
  PROVE  LeaseKeptToItsEnd'
<1> SUFFICES ASSUME NEW k \in job'
             PROVE  \/ notification'[k.id].lease_token = k.n.lease_token
                    \/ k.n.lease_until <= now'
  BY DEF LeaseKeptToItsEnd
<1>1. TypeOK /\ now \in Nat /\ now' \in Nat /\ now <= now'
  BY TimePasses DEF IndInv
<1>2. ASSUME NEW j \in job, j.id = k.id, j.n = k.n,
             \A l \in job : l.n.lease_token = k.n.lease_token => l = j,
             j \in job' \/ notification'[k.id] = notification[k.id]
      PROVE  \/ notification'[k.id].lease_token = k.n.lease_token
             \/ k.n.lease_until <= now'
  <2>1. k.id \in Id /\ k.n.lease_until \in Int /\ k.n.status = "processing"
    BY <1>1, <1>2
    DEF TypeOK, Job, Row, OptionalInstant, NoTime, IndInv, JobOK, OwnsLease
  <2>2. CASE k.n.lease_until <= now
    BY <1>1, <2>1, <2>2
  <2>3. CASE notification[k.id].lease_token = k.n.lease_token
    <3>1. notification[k.id] = k.n
      BY <1>2, <2>3 DEF IndInv, SnapshotFresh
    <3>2. ~Completed(k.id) \/ notification'[k.id] = notification[k.id]
      BY <1>2, <2>3 DEF Completed, HoldsLease
    <3>3. RowChange(k.id)
      BY <1>1, <2>1, RowChanges
    <3>4. CASE Recovered(k.id)
      BY <1>1, <2>1, <3>1, <3>4 DEF Recovered
    <3>5. CASE notification'[k.id] = notification[k.id]
      BY <2>3, <3>5
    <3> QED
      BY <2>1, <3>1, <3>2, <3>3, <3>4, <3>5
      DEF RowChange, Inserted, Claimed, Expired, Deleted, Replayed, Terminal
  <2> QED
    BY <1>2, <2>2, <2>3 DEF LeaseKeptToItsEnd
<1>3. CASE k \in job
  BY <1>2, <1>3 DEF IndInv, AtMostOneOwner
<1>4. CASE StartedJob(k)
  BY <1>4 DEF StartedJob, NewJob
<1>5. CASE k \notin job /\ ~StartedJob(k)
  <2>1. PICK j \in job : j.id = k.id /\ j.n = k.n /\ notification' = notification
    BY <1>1, <1>5, JobDecided
  <2> QED
    BY <1>2, <2>1 DEF IndInv, AtMostOneOwner
<1> QED
  BY <1>3, <1>4, <1>5

(* An execution keeps its lease until it has run out: no recovery takes it *)
(* earlier and no late worker releases it (Recover, Complete).             *)
THEOREM LeaseKept == Spec => []LeaseKeptToItsEnd
<1>1. Init => LeaseKeptToItsEnd
  BY DEF Init, LeaseKeptToItsEnd
<1>2. IndInv /\ LeaseKeptToItsEnd /\ [Next]_vars => LeaseKeptToItsEnd'
  BY LeaseKeptStep
<1> QED
  BY <1>1, <1>2, Invariance, PTL DEF Spec

-----------------------------------------------------------------------------
(* The decision never moves an attempt forward in time.                    *)
LEMMA RetryWaits ==
  ASSUME NEW n \in Row, NEW answer \in Answer, NEW t \in Instant,
         NEW wait \in Nat, Decide(n, answer, t, wait).action = "retry"
  PROVE  /\ Decide(n, answer, t, wait).next_attempt_at >= t
         /\ Decide(n, answer, t, wait).retry_after
              <= Decide(n, answer, t, wait).next_attempt_at
<1> DEFINE retryAfter == ParseRetryAfter(answer.retry_after, t)
<1>1. retryAfter \in Int
  BY RetryAfterType DEF Answer, OptionalInstant, NoTime, Instant
<1>2. Decide(n, answer, t, wait)
        = Retry(Later(t + wait, retryAfter), retryAfter)
  BY DEF Decide, RetryOrExpire, Succeed, Stop, Retry
<1> HIDE DEF retryAfter
<1>3. /\ Retry(Later(t + wait, retryAfter), retryAfter).next_attempt_at
           = Later(t + wait, retryAfter)
      /\ Retry(Later(t + wait, retryAfter), retryAfter).retry_after = retryAfter
  BY DEF Retry
<1>4. Later(t + wait, retryAfter) >= t /\ retryAfter <= Later(t + wait, retryAfter)
  BY <1>1 DEF Later, Instant
<1> QED
  BY <1>2, <1>3, <1>4

LEMMA RowWaitsStep ==
  ASSUME IndInv, WaitInv, [Next]_vars, NEW i \in Id
  PROVE  RowWaits(i)'
<1> SUFFICES ASSUME notification'[i].status = "processing"
             PROVE  notification'[i].next_attempt_at <= now'
  BY DEF RowWaits
<1>1. /\ TypeOK /\ now \in Nat /\ now' \in Nat /\ now <= now'
      /\ notification[i].next_attempt_at \in Nat
  BY TimePasses DEF IndInv, TypeOK, StoreTypeOK, Row, Instant
<1>2. CASE notification'[i] = notification[i]
  BY <1>1, <1>2 DEF WaitInv, RowWaits
<1>3. CASE notification[i].status = "pending"
  <2>1. PICK token \in Token : Claim(i, token)
    BY <1>1, <1>3, ClaimOnly
  <2> QED
    BY <1>1, <2>1, ClaimedWhen
<1> QED
  BY <1>2, <1>3, ChangeFields DEF Terminal

(* Only a cleanup removes a row.                                           *)
LEMMA ChangeDeleted ==
  ASSUME TypeOK, JobOK, SnapshotFresh, NEW i \in Id, RowChange(i),
         notification[i].status # "deleted", notification'[i].status = "deleted"
  PROVE  Deleted(i)
<1>1. notification[i] \in Row
  BY DEF TypeOK, StoreTypeOK
<1>2. ~Inserted(i)
  <2>1. \A t, m, at : InsertedRow(t, m, at).status = "pending"
    BY DEF InsertedRow
  <2> QED
    BY <2>1 DEF Inserted
<1>3. ~Completed(i)
  <2> SUFFICES ASSUME Completed(i) PROVE FALSE
    OBVIOUS
  <2>1. PICK j \in job :
          /\ j.completion \in Completion
          /\ notification'[i] = CompletedRow(notification[i], j.n, j.completion)
    BY CompletedFits
  <2> QED
    BY <1>1, <2>1 DEF CompletedRow, Row, Completion
<1>4. ~Claimed(i)
  BY <1>1, ClaimedRowFields DEF Claimed
<1> QED
  BY <1>1, <1>2, <1>3, <1>4
  DEF RowChange, Recovered, RecoveredRow, Expired, ExpiredRow, Replayed,
      ReplayedRow, Row

(* As long as its run goes on, a row is postponed but not brought forward. *)
LEMMA RowPostponed ==
  ASSUME IndInv, WaitInv, [Next]_vars, NEW i \in Id,
         notification[i].status \notin {"absent", "deleted"},
         notification'[i].status # "deleted"
  PROVE  /\ notification'[i].status \notin {"absent", "deleted"}
         /\ notification'[i].run_no >= notification[i].run_no
         /\ /\ notification'[i].status \in Active
            /\ notification'[i].run_no = notification[i].run_no
            => /\ notification[i].status \in Active
               /\ notification'[i].next_attempt_at >= notification[i].next_attempt_at
<1> DEFINE n == notification[i]
           m == notification'[i]
<1>1. /\ n \in Row /\ RowChange(i) /\ now \in Nat
      /\ n.next_attempt_at \in Nat /\ n.run_no \in Nat
  BY RowChanges DEF IndInv, TypeOK, StoreTypeOK, Row, Instant
<1>2. CASE Claimed(i)
  <2>1. PICK token \in Token : m = ClaimedRow(n, token) /\ n.status = "pending"
    BY <1>2 DEF Claimed
  <2> QED
    BY <1>1, <2>1 DEF ClaimedRow, Row, Active
<1>3. CASE Completed(i)
  <2>1. PICK j \in job :
          /\ j.phase = "completing" /\ j.id = i /\ HoldsLease(i, j.n)
          /\ m = CompletedRow(n, j.n, j.completion)
    BY <1>3 DEF Completed
  <2>2. n = j.n /\ n.status = "processing" /\ j.completion \in Completion
    BY <2>1 DEF IndInv, SnapshotFresh, HoldsLease, TypeOK, Job
  <2>3. j.completion.status = "pending" =>
          j.completion.next_attempt_at >= n.next_attempt_at
    BY <2>1, <2>2 DEF WaitInv, JobWaits
  <2> QED
    BY <1>1, <2>1, <2>2, <2>3 DEF CompletedRow, Row, Completion, Active, Terminal
<1>4. CASE Recovered(i)
  <2>1. n.next_attempt_at <= now
    BY <1>4 DEF Recovered, WaitInv, RowWaits
  <2> QED
    BY <1>1, <1>4, <2>1 DEF Recovered, RecoveredRow, Row, Active
<1>5. CASE Expired(i)
  BY <1>1, <1>5 DEF Expired, ExpiredRow, Row, Active
<1>6. CASE Deleted(i)
  <2>1. \A r : DeletedRow(r).status = "deleted"
    BY DEF DeletedRow, NoRow
  <2> QED
    BY <1>6, <2>1 DEF Deleted
<1>7. CASE Replayed(i)
  BY <1>1, <1>7 DEF Replayed, ReplayedRow, Row
<1> QED
  BY <1>1, <1>2, <1>3, <1>4, <1>5, <1>6, <1>7 DEF RowChange, Inserted

LEMMA AttemptWaitsStep ==
  ASSUME IndInv, VendorInv, WaitInv, [Next]_vars, NEW a \in attempt'
  PROVE  AttemptWaits(a)'
<1>0. TypeOK /\ TypeOK' /\ VendorInv'
  BY TypeStep, VendorStep DEF IndInv
<1>1. /\ a \in Attempt /\ a.id \in Id /\ a.run_no \in Nat
      /\ notification'[a.id].status \notin {"absent", "deleted"}
  BY <1>0 DEF TypeOK, StoreTypeOK, Attempt, VendorInv, Numbers
<1>2. ASSUME NEW b \in attempt, a.id = b.id, a.run_no = b.run_no
      PROVE  /\ a.run_no <= notification'[a.id].run_no
             /\ /\ notification'[a.id].status \in Active
                /\ a.run_no = notification'[a.id].run_no
                => /\ b.retry_after <= notification'[a.id].next_attempt_at
                   /\ notification[a.id].status \in Active
  <2>1. AttemptWaits(b) /\ b.retry_after \in Int
    BY DEF WaitInv, IndInv, TypeOK, StoreTypeOK, Attempt, OptionalInstant, Instant, NoTime
  <2>2. /\ notification[a.id].run_no \in Nat /\ notification'[a.id].run_no \in Nat
        /\ notification[a.id].next_attempt_at \in Nat
        /\ notification'[a.id].next_attempt_at \in Nat
    BY <1>0, <1>1 DEF TypeOK, StoreTypeOK, Row, Instant
  <2>3. /\ notification'[a.id].run_no >= notification[a.id].run_no
        /\ /\ notification'[a.id].status \in Active
           /\ notification'[a.id].run_no = notification[a.id].run_no
           => /\ notification[a.id].status \in Active
              /\ notification'[a.id].next_attempt_at
                   >= notification[a.id].next_attempt_at
    BY <1>1, <1>2, <2>1, RowPostponed DEF AttemptWaits
  <2> QED
    BY <1>1, <1>2, <2>1, <2>2, <2>3 DEF AttemptWaits
<1>3. CASE a \in attempt
  BY <1>1, <1>2, <1>3 DEF AttemptWaits
<1>4. CASE FromClaim(a)
  <2>1. PICK i \in Id, token \in Token :
          Claim(i, token) /\ a = StartedAttempt(i, notification'[i])
    BY <1>4 DEF FromClaim
  <2>2. /\ a.id = i /\ a.run_no = notification'[i].run_no
        /\ a.retry_after = NoTime
    BY <2>1 DEF StartedAttempt
  <2>3. notification'[i].next_attempt_at \in Nat
    BY <1>0 DEF TypeOK, StoreTypeOK, Row, Instant
  <2> QED
    BY <1>1, <2>2, <2>3 DEF AttemptWaits, NoTime
<1>5. CASE FromCompletion(a)
  <2>1. PICK j \in job, b \in attempt :
          /\ CompleteNotification(j) /\ Open(b, j.id, j.n.last_attempt_no)
          /\ a = FinishedAttempt(b, j.result, j.completion)
    BY <1>5 DEF FromCompletion
  <2>2. /\ a.id = b.id /\ a.run_no = b.run_no /\ b.id = j.id
        /\ a.retry_after = j.completion.retry_after
    BY <2>1 DEF Open, FinishedAttempt, IndInv, TypeOK, StoreTypeOK, Attempt
  <2>3. /\ notification'[j.id] = CompletedRow(notification[j.id], j.n, j.completion)
        /\ notification[j.id] \in Row /\ j.completion \in Completion
        /\ j.phase = "completing"
    BY <2>1 DEF CompleteNotification, Complete, IndInv, TypeOK, StoreTypeOK, Job
  <2>4. notification'[j.id].status \in Active =>
          a.retry_after <= notification'[j.id].next_attempt_at
    BY <2>2, <2>3 DEF CompletedRow, Row, Completion, Active, Terminal, WaitInv, JobWaits
  <2> QED
    BY <1>1, <1>2, <2>2, <2>4 DEF AttemptWaits
<1>6. CASE FromRecovery(a)
  <2>1. PICK b \in attempt : a = RecoveredAttempt(b)
    BY <1>6 DEF FromRecovery
  <2>2. a.id = b.id /\ a.run_no = b.run_no /\ a.retry_after = b.retry_after
    BY <2>1 DEF RecoveredAttempt, IndInv, TypeOK, StoreTypeOK, Attempt
  <2> QED
    BY <1>1, <1>2, <2>2 DEF AttemptWaits
<1> QED
  BY <1>0, <1>3, <1>4, <1>5, <1>6, AttemptChanges

LEMMA JobWaitsStep ==
  ASSUME IndInv, WaitInv, [Next]_vars, NEW k \in job'
  PROVE  JobWaits(k)'
<1>1. TypeOK /\ now \in Nat /\ now' \in Nat /\ now <= now'
  BY TimePasses DEF IndInv
<1>2. CASE k \in job
  <2>1. JobWaits(k) /\ k.n.next_attempt_at \in Nat
    BY <1>1, <1>2 DEF WaitInv, TypeOK, Job, Row, Instant
  <2> QED
    BY <1>1, <2>1 DEF JobWaits
<1>3. CASE StartedJob(k)
  <2>1. PICK p \in Proc, i \in Id, token \in Token :
          Claim(i, token) /\ k = NewJob(p, i, notification'[i])
    BY <1>3 DEF StartedJob
  <2>2. k.n = notification'[i] /\ k.phase = "delivering"
    BY <2>1 DEF NewJob
  <2>3. /\ notification'[i].next_attempt_at <= now
        /\ notification'[i].next_attempt_at \in Nat
    BY <1>1, <2>1, ClaimedWhen DEF Row, Instant
  <2> QED
    BY <1>1, <2>2, <2>3 DEF JobWaits
<1>4. CASE DecidedJob(k)
  <2>0. PICK j \in job, answer \in Outcomes :
          \E wait \in Waits(j.n.run_attempt_count) :
            k = [j EXCEPT !.phase = "completing",
                          !.result = [result |-> answer.result,
                                      retryable |-> answer.retryable,
                                      evidence |-> answer.evidence],
                          !.completion = CompletionOf(Decide(j.n, answer, now, wait))]
    BY <1>4 DEF DecidedJob
  <2>1. PICK wait \in Waits(j.n.run_attempt_count) :
          k = [j EXCEPT !.phase = "completing",
                        !.result = [result |-> answer.result,
                                    retryable |-> answer.retryable,
                                    evidence |-> answer.evidence],
                        !.completion = CompletionOf(Decide(j.n, answer, now, wait))]
    BY <2>0
  <2> DEFINE d == Decide(j.n, answer, now, wait)
  <2>2. /\ j \in Job /\ j.n \in Row /\ answer \in Answer /\ wait \in Nat
        /\ j.n.next_attempt_at \in Nat /\ j.n.next_attempt_at <= now
    BY <1>1, DispatchAssumption, WaitsType
    DEF TypeOK, Job, Row, Instant, WaitInv, JobWaits
  <2>3. d \in Decision
    BY <1>1, <2>2, DecisionType DEF Instant
  <2>4. k.n = j.n /\ k.completion = CompletionOf(d)
    BY <2>1, <2>2 DEF Job
  <2>5. d.action = "retry" => d.next_attempt_at >= now /\ d.retry_after <= d.next_attempt_at
    BY <1>1, <2>2, RetryWaits DEF Instant
  <2>6. d.action = "retry" => d.next_attempt_at \in Nat
    BY <1>1, <2>2, DecisionType DEF Instant
  <2> HIDE DEF d
  <2>7. /\ CompletionOf(d).status = "pending" => d.action = "retry"
        /\ CompletionOf(d).next_attempt_at = d.next_attempt_at
        /\ CompletionOf(d).retry_after = d.retry_after
    BY <2>3 DEF CompletionOf, Decision, Action
  <2> QED
    BY <1>1, <2>2, <2>4, <2>5, <2>6, <2>7 DEF JobWaits
<1> QED
  BY <1>2, <1>3, <1>4, JobChanges

LEMMA WaitsInvariant == Spec => []WaitInv
<1>1. Init => WaitInv
  BY InitWaits
<1>2. IndInv /\ VendorInv /\ WaitInv /\ [Next]_vars => WaitInv'
  BY RowWaitsStep, AttemptWaitsStep, JobWaitsStep DEF WaitInv
<1> QED
  BY <1>1, <1>2, Invariance, VendorInvariant, PTL DEF Spec

(* No attempt starts before a moment that is recorded as the vendor's wish *)
(* with an earlier attempt of its run, whichever process claims it         *)
(* (Decide, Complete, Claim).  A Retry-After that was read but lost with   *)
(* its lease is not recorded, and not covered.                             *)
THEOREM RetryAfterSafety == Spec => RetryAfterRespected
<1> DEFINE Respected ==
             \A i \in Id :
               notification'[i].last_attempt_no > notification[i].last_attempt_no =>
                 \A a \in attempt :
                   a.id = i /\ a.run_no = notification[i].run_no =>
                     a.retry_after <= now
<1>1. ASSUME IndInv, WaitInv, [Next]_vars PROVE Respected
  <2> SUFFICES ASSUME NEW i \in Id, NEW a \in attempt,
                      notification'[i].last_attempt_no > notification[i].last_attempt_no,
                      a.id = i, a.run_no = notification[i].run_no
               PROVE  a.retry_after <= now
    OBVIOUS
  <2>1. /\ TypeOK /\ now \in Nat /\ a.retry_after \in Int
        /\ notification[i].next_attempt_at \in Nat
        /\ notification[i].last_attempt_no \in Nat
        /\ notification[i].status \notin {"absent", "deleted"}
        /\ AttemptWaits(a)
    <3>1. /\ TypeOK /\ now \in Nat /\ notification[i] \in Row
          /\ a.retry_after \in OptionalInstant
      BY <1>1 DEF IndInv, TypeOK, StoreTypeOK, Attempt, Instant
    <3>2. AttemptWaits(a)
      BY <1>1 DEF WaitInv
    <3> QED
      BY <3>1, <3>2
      DEF Row, Instant, OptionalInstant, NoTime, AttemptWaits
  <2>2. notification'[i].status # "deleted"
    <3>1. \A n : DeletedRow(n).last_attempt_no = 0
      BY Zenon DEF DeletedRow, NoRow
    <3>2. ~Deleted(i)
      BY <2>1, <3>1 DEF Deleted
    <3>3. RowChange(i)
      BY <1>1, <2>1, RowChanges
    <3> QED
      BY <1>1, <2>1, <3>2, <3>3, ChangeDeleted DEF IndInv
  <2>3. notification[i].status = "pending" /\ notification'[i].status = "processing"
    BY <1>1, <2>1, <2>2, ChangeFields
  <2>4. notification[i].next_attempt_at <= now
    BY <1>1, <2>1, <2>3, ClaimOnly, ClaimedWhen
  <2> QED
    BY <2>1, <2>3, <2>4 DEF AttemptWaits, Active
<1>2. IndInv /\ WaitInv /\ [Next]_vars => [Respected]_vars
  BY <1>1
<1> QED
  BY <1>2, Invariance, WaitsInvariant, PTL DEF Spec, RetryAfterRespected

-----------------------------------------------------------------------------
(* Room for another attempt                                                *)

RunBegun(i) ==
  notification[i].status \notin {"absent", "deleted"} => notification[i].run_no >= 1

(* While its run goes on, an attempt that is over has left room for the    *)
(* next one.                                                               *)
LeavesRoom(a) ==
  LET n == notification[a.id]
  IN  /\ a.run_no >= 1
      /\ n.status \in Active /\ a.run_no = n.run_no /\ a.result # "in_progress" =>
           a.retryable

JobLeavesRoom(j) ==
  j.phase = "completing" /\ j.completion.status = "pending" => j.result.retryable

Before(a, b) == a.id = b.id /\ a.attempt_no < b.attempt_no

Justified(a, b) ==
  \/ a.run_no = b.run_no /\ a.retryable
  \/ a.run_no < b.run_no /\ <<a.id, a.run_no>> \in approved

RoomInv ==
  /\ \A i \in Id : RunBegun(i)
  /\ \A a \in attempt : LeavesRoom(a)
  /\ \A j \in job : JobLeavesRoom(j)
  /\ \A a, b \in attempt : Before(a, b) => Justified(a, b)

LEMMA InitRoom == Init => RoomInv
<1> SUFFICES ASSUME Init PROVE RoomInv
  OBVIOUS
<1>1. \A i \in Id : RunBegun(i)
  BY InitRow DEF RunBegun
<1>2. attempt = {} /\ job = {}
  BY DEF Init
<1> QED
  BY <1>1, <1>2 DEF RoomInv

LEMMA RunBegunStep ==
  ASSUME IndInv, WaitInv, RoomInv, [Next]_vars, NEW i \in Id
  PROVE  RunBegun(i)'
<1> SUFFICES ASSUME notification'[i].status \notin {"absent", "deleted"}
             PROVE  notification'[i].run_no >= 1
  BY DEF RunBegun
<1>1. /\ TypeOK
      /\ RowChange(i) /\ notification[i].run_no \in Nat
      /\ notification'[i].run_no \in Nat
  <2>1. TypeOK /\ TypeOK'
    BY TypeStep DEF IndInv
  <2> QED
    BY <2>1, RowChanges DEF TypeOK, StoreTypeOK, Row
<1>2. CASE notification[i].status = "absent"
  <2>1. \A t, m, at : InsertedRow(t, m, at).run_no = 1
    BY Zenon DEF InsertedRow
  <2>2. Inserted(i)
    BY <1>1, <1>2
    DEF RowChange, Claimed, Completed, HoldsLease, Recovered, Expired, Deleted,
        Replayed, Terminal
  <2> QED
    BY <1>1, <2>1, <2>2 DEF Inserted
<1>3. CASE notification[i].status = "deleted"
  BY <1>3, ChangeFields DEF Terminal
<1>4. CASE notification[i].status \notin {"absent", "deleted"}
  <2>1. notification'[i].run_no >= notification[i].run_no
    BY <1>4, RowPostponed
  <2>2. notification[i].run_no >= 1
    BY <1>4 DEF RoomInv, RunBegun
  <2> QED
    BY <1>1, <2>1, <2>2
<1> QED
  BY <1>2, <1>3, <1>4

(* A refusal that is not to be retried is not (Decide).                    *)
LEMMA OnlyRetryable ==
  ASSUME NEW n, NEW answer, NEW t, NEW wait,
         Decide(n, answer, t, wait).action = "retry"
  PROVE  answer.retryable
BY DEF Decide, Succeed, Stop

LEMMA JobRoomStep ==
  ASSUME IndInv, RoomInv, [Next]_vars, NEW k \in job'
  PROVE  JobLeavesRoom(k)
<1>1. CASE k \in job
  BY <1>1 DEF RoomInv
<1>2. CASE StartedJob(k)
  BY <1>2 DEF StartedJob, NewJob, JobLeavesRoom
<1>3. CASE DecidedJob(k)
  <2>0. PICK j \in job, answer \in Outcomes :
          \E wait \in Waits(j.n.run_attempt_count) :
            k = [j EXCEPT !.phase = "completing",
                          !.result = [result |-> answer.result,
                                      retryable |-> answer.retryable,
                                      evidence |-> answer.evidence],
                          !.completion = CompletionOf(Decide(j.n, answer, now, wait))]
    BY <1>3 DEF DecidedJob
  <2>1. PICK wait \in Waits(j.n.run_attempt_count) :
          k = [j EXCEPT !.phase = "completing",
                        !.result = [result |-> answer.result,
                                    retryable |-> answer.retryable,
                                    evidence |-> answer.evidence],
                        !.completion = CompletionOf(Decide(j.n, answer, now, wait))]
    BY <2>0
  <2> DEFINE d == Decide(j.n, answer, now, wait)
  <2>2. /\ j \in Job /\ j.n \in Row /\ answer \in Answer /\ wait \in Nat
        /\ now \in Instant
    BY DispatchAssumption, WaitsType DEF IndInv, TypeOK, StoreTypeOK, Job
  <2>3. d \in Decision
    BY <2>2, DecisionType
  <2>4. k.result.retryable = answer.retryable /\ k.completion = CompletionOf(d)
    BY <2>1, <2>2 DEF Job
  <2>5. d.action = "retry" => answer.retryable
    BY OnlyRetryable
  <2> HIDE DEF d
  <2>6. CompletionOf(d).status = "pending" => d.action = "retry"
    BY <2>3 DEF CompletionOf, Decision, Action
  <2> QED
    BY <2>4, <2>5, <2>6 DEF JobLeavesRoom
<1> QED
  BY <1>1, <1>2, <1>3, JobChanges

(* Unless a claim has just started it, an attempt was there before, as it  *)
(* is or still open.                                                       *)
LEMMA AttemptBefore ==
  ASSUME TypeOK, [Next]_vars, NEW a \in attempt', ~FromClaim(a)
  PROVE  \E b \in attempt :
           /\ b.id = a.id /\ b.attempt_no = a.attempt_no /\ b.run_no = a.run_no
           /\ a = b \/ b.result = "in_progress"
<1>1. attempt \subseteq Attempt
  BY DEF TypeOK, StoreTypeOK
<1>2. CASE a \in attempt
  BY <1>2
<1>3. CASE FromCompletion(a)
  <2>1. PICK j \in job, b \in attempt :
          /\ Open(b, j.id, j.n.last_attempt_no)
          /\ a = FinishedAttempt(b, j.result, j.completion)
    BY <1>3 DEF FromCompletion
  <2> QED
    BY <1>1, <2>1 DEF Open, FinishedAttempt, Attempt
<1>4. CASE FromRecovery(a)
  <2>1. PICK b \in attempt : b.result = "in_progress" /\ a = RecoveredAttempt(b)
    BY <1>4 DEF FromRecovery
  <2> QED
    BY <1>1, <2>1 DEF RecoveredAttempt, Attempt
<1> QED
  BY <1>2, <1>3, <1>4, AttemptChanges

LEMMA AttemptRoomStep ==
  ASSUME IndInv, VendorInv, WaitInv, RoomInv, [Next]_vars, NEW a \in attempt'
  PROVE  LeavesRoom(a)'
<1>0. TypeOK /\ TypeOK' /\ VendorInv'
  BY TypeStep, VendorStep DEF IndInv
<1>1. /\ a \in Attempt /\ a.id \in Id /\ a.run_no \in Nat
      /\ notification'[a.id].status \notin {"absent", "deleted"}
  BY <1>0 DEF TypeOK, StoreTypeOK, Attempt, VendorInv, Numbers
<1>2. /\ notification[a.id] \in Row /\ notification[a.id].run_no \in Nat
      /\ notification'[a.id] \in Row /\ notification'[a.id].run_no \in Nat
  BY <1>0, <1>1 DEF TypeOK, StoreTypeOK, Row
<1>3. CASE FromClaim(a)
  <2>1. PICK i \in Id, token \in Token :
          Claim(i, token) /\ a = StartedAttempt(i, notification'[i])
    BY <1>3 DEF FromClaim
  <2>2. a.id = i /\ a.run_no = notification'[i].run_no /\ a.result = "in_progress"
    BY <2>1 DEF StartedAttempt
  <2>3. RunBegun(a.id)'
    BY <1>1, RunBegunStep
  <2> QED
    BY <1>1, <2>2, <2>3 DEF LeavesRoom, RunBegun
<1>4. CASE ~FromClaim(a)
  <2>1. PICK b \in attempt :
          /\ b.id = a.id /\ b.attempt_no = a.attempt_no /\ b.run_no = a.run_no
          /\ a = b \/ b.result = "in_progress"
    BY <1>0, <1>4, AttemptBefore
  <2>2. LeavesRoom(b) /\ AttemptWaits(b)
    BY DEF RoomInv, WaitInv
  <2>3. a.run_no >= 1
    BY <2>1, <2>2 DEF LeavesRoom
  <2>4. ASSUME a \in attempt, notification'[a.id].status \in Active,
               a.run_no = notification'[a.id].run_no, a.result # "in_progress"
        PROVE  a.retryable
    <3>1. /\ a.run_no <= notification[a.id].run_no
          /\ notification[a.id].status \notin {"absent", "deleted"}
      BY <2>4 DEF WaitInv, AttemptWaits
    <3>2. notification'[a.id].run_no >= notification[a.id].run_no
      BY <1>1, <3>1, RowPostponed
    <3>3. notification'[a.id].run_no = notification[a.id].run_no
      BY <1>2, <2>4, <3>1, <3>2
    <3>4. notification[a.id].status \in Active
      BY <1>1, <2>4, <3>1, <3>3, RowPostponed
    <3> QED
      BY <2>4, <3>3, <3>4 DEF RoomInv, LeavesRoom
  <2>5. ASSUME FromCompletion(a), notification'[a.id].status \in Active
        PROVE  a.retryable
    <3>1. PICK j \in job, c \in attempt :
            /\ CompleteNotification(j) /\ Open(c, j.id, j.n.last_attempt_no)
            /\ a = FinishedAttempt(c, j.result, j.completion)
      BY <2>5 DEF FromCompletion
    <3>2. a.id = j.id /\ a.retryable = j.result.retryable
      BY <1>0, <3>1 DEF Open, FinishedAttempt, TypeOK, StoreTypeOK, Attempt
    <3>3. /\ notification'[j.id] = CompletedRow(notification[j.id], j.n, j.completion)
          /\ notification[j.id] \in Row /\ j.completion \in Completion
          /\ j.phase = "completing"
      BY <1>0, <3>1 DEF CompleteNotification, Complete, TypeOK, StoreTypeOK, Job
    <3>4. j.completion.status = "pending"
      BY <2>5, <3>2, <3>3 DEF CompletedRow, Row, Completion, Active, Terminal
    <3> QED
      BY <3>2, <3>3, <3>4 DEF RoomInv, JobLeavesRoom
  <2>6. ASSUME FromRecovery(a)
        PROVE  a.retryable
    <3>1. PICK c \in attempt : a = RecoveredAttempt(c)
      BY <2>6 DEF FromRecovery
    <3> QED
      BY <1>0, <3>1 DEF RecoveredAttempt, TypeOK, StoreTypeOK, Attempt
  <2> QED
    BY <1>0, <1>4, <2>3, <2>4, <2>5, <2>6, AttemptChanges DEF LeavesRoom
<1> QED
  BY <1>3, <1>4

(* What an attempt just claimed follows has been closed, and room was left *)
(* in its run or a replay has opened a new one.                            *)
LEMMA ClaimJustified ==
  ASSUME IndInv, VendorInv, WaitInv, RoomInv, ReplayAuthorised, [Next]_vars,
         NEW a \in attempt', NEW b \in attempt', Before(a, b), FromClaim(b)
  PROVE  Justified(a, b)'
<1>1. PICK i \in Id, token \in Token :
        Claim(i, token) /\ b = StartedAttempt(i, notification'[i])
  BY DEF FromClaim
<1>2. /\ b.id = i /\ b.run_no = notification'[i].run_no
      /\ b.attempt_no = notification'[i].last_attempt_no /\ a.id = i
  BY <1>1 DEF StartedAttempt, Before
<1>3. /\ TypeOK /\ TypeOK' /\ notification[i] \in Row
      /\ notification[i].status = "pending"
      /\ \E k \in Token : notification'[i] = ClaimedRow(notification[i], k)
  <2>1. TypeOK /\ TypeOK'
    BY TypeStep DEF IndInv
  <2> QED
    BY <1>1, <2>1 DEF TypeOK, StoreTypeOK, Claim, Due
<1>4. notification'[i].run_no = notification[i].run_no
  BY <1>3 DEF ClaimedRow, Row
<1>5. ~FromClaim(a)
  <2> SUFFICES ASSUME FromClaim(a) PROVE FALSE
    OBVIOUS
  <2>1. PICK k \in Id : a = StartedAttempt(k, notification'[k])
    BY DEF FromClaim
  <2>2. a.attempt_no = b.attempt_no
    BY <1>1, <1>2, <2>1 DEF StartedAttempt
  <2>3. b.attempt_no \in Nat
    BY <1>3 DEF TypeOK, StoreTypeOK, Attempt
  <2> QED
    BY <2>2, <2>3 DEF Before
<1>6. a \in attempt /\ a.result # "in_progress"
  <2>1. PICK c \in attempt :
          c.id = a.id /\ (a = c \/ c.result = "in_progress")
    BY <1>3, <1>5, AttemptBefore
  <2>2. c.result # "in_progress"
    BY <1>2, <1>3, <2>1
    DEF IndInv, LeaseMatchesAttempt, LeaseMatches, InProgress
  <2> QED
    BY <2>1, <2>2
<1>7. /\ a.run_no \in Nat /\ notification[i].run_no \in Nat
      /\ 1 <= a.run_no /\ a.run_no <= notification[i].run_no
      /\ a.run_no = notification[i].run_no => a.retryable
  BY <1>2, <1>3, <1>6
  DEF TypeOK, StoreTypeOK, Attempt, Row, RoomInv, LeavesRoom, WaitInv,
      AttemptWaits, Active
<1>8. a.run_no < notification[i].run_no => <<i, a.run_no>> \in approved
  <2>1. a.run_no < notification[i].run_no => a.run_no \in 1 .. notification[i].run_no - 1
    BY <1>7
  <2>2. RunsAuthorised(i)
    BY DEF ReplayAuthorised, RunsAuthorised
  <2> QED
    BY <2>1, <2>2 DEF RunsAuthorised
<1>9. approved \subseteq approved'
  BY ApprovalsKept
<1> QED
  BY <1>2, <1>4, <1>7, <1>8, <1>9 DEF Justified

LEMMA JustifiedStep ==
  ASSUME IndInv, VendorInv, WaitInv, RoomInv, ReplayAuthorised, [Next]_vars,
         NEW a \in attempt', NEW b \in attempt', Before(a, b)
  PROVE  Justified(a, b)'
<1>1. /\ TypeOK /\ TypeOK' /\ approved \subseteq approved'
      /\ a.attempt_no \in Nat /\ b.attempt_no \in Nat /\ a.id \in Id
  <2>1. TypeOK /\ TypeOK'
    BY TypeStep DEF IndInv
  <2> QED
    BY <2>1, ApprovalsKept DEF TypeOK, StoreTypeOK, Attempt
<1>2. CASE FromClaim(b)
  BY <1>2, ClaimJustified
<1>3. CASE ~FromClaim(b)
  <2>1. PICK d \in attempt :
          d.id = b.id /\ d.attempt_no = b.attempt_no /\ d.run_no = b.run_no
    BY <1>1, <1>3, AttemptBefore
  <2>2. /\ b.attempt_no <= notification[a.id].last_attempt_no
        /\ notification[a.id].last_attempt_no \in Nat
    BY <1>1, <2>1 DEF Before, VendorInv, Numbers, TypeOK, StoreTypeOK, Row
  <2>3. ~FromClaim(a)
    <3> SUFFICES ASSUME FromClaim(a) PROVE FALSE
      OBVIOUS
    <3>1. PICK i \in Id, token \in Token :
            Claim(i, token) /\ a = StartedAttempt(i, notification'[i])
      BY DEF FromClaim
    <3>2. /\ a.id = i /\ a.attempt_no = notification'[i].last_attempt_no
          /\ \E k \in Token : notification'[i] = ClaimedRow(notification[i], k)
          /\ notification[i] \in Row
      BY <1>1, <3>1 DEF StartedAttempt, Claim, TypeOK, StoreTypeOK
    <3>3. a.attempt_no = notification[a.id].last_attempt_no + 1
      BY <3>2 DEF ClaimedRow, Row
    <3> QED
      BY <1>1, <2>2, <3>3 DEF Before
  <2>4. PICK c \in attempt :
          /\ c.id = a.id /\ c.attempt_no = a.attempt_no
          /\ a = c \/ c.result = "in_progress"
    BY <1>1, <2>3, AttemptBefore
  <2>5. c.result # "in_progress"
    <3> SUFFICES ASSUME c.result = "in_progress" PROVE FALSE
      OBVIOUS
    <3>1. a.attempt_no = notification[a.id].last_attempt_no
      BY <1>1, <2>4 DEF IndInv, LeaseMatchesAttempt, LeaseMatches, InProgress
    <3> QED
      BY <1>1, <2>2, <3>1 DEF Before
  <2>6. a \in attempt /\ Before(a, d) /\ Justified(a, d)
    BY <2>1, <2>4, <2>5 DEF RoomInv, Before
  <2> QED
    BY <1>1, <2>1, <2>6 DEF Justified
<1> QED
  BY <1>2, <1>3

LEMMA RoomInvariant == Spec => []RoomInv
<1>1. Init => RoomInv
  BY InitRoom
<1>2. ASSUME IndInv, VendorInv, WaitInv, ReplayAuthorised, RoomInv, [Next]_vars
      PROVE  RoomInv'
  <2>1. \A i \in Id : RunBegun(i)'
    BY <1>2, RunBegunStep
  <2>2. \A a \in attempt' : LeavesRoom(a)'
    BY <1>2, AttemptRoomStep
  <2>3. \A j \in job' : JobLeavesRoom(j)
    BY <1>2, JobRoomStep
  <2>4. \A a, b \in attempt' : Before(a, b) => Justified(a, b)'
    BY <1>2, JustifiedStep
  <2> QED
    BY <2>1, <2>2, <2>3, <2>4 DEF RoomInv
<1> QED
  BY <1>1, <1>2, Invariance, VendorInvariant, WaitsInvariant, ReplaySafety, PTL
  DEF Spec

(* A request is sent again only when the attempt before it is over, was no *)
(* success, and left room for a retry or ended a run that an operator has  *)
(* asked to replay (Decide, Complete, Recover, Replay, Claim).             *)
THEOREM ResentSafety == Spec => []ResentOnlyIfOpen
<1>1. ASSUME IndInv, VendorInv, RoomInv PROVE ResentOnlyIfOpen
  <2> SUFFICES ASSUME NEW a \in attempt, NEW b \in attempt, Before(a, b)
               PROVE  /\ a.result \notin {"in_progress", "http_success"}
                      /\ Justified(a, b)
    BY DEF ResentOnlyIfOpen, Before, Justified
  <2>1. /\ a.attempt_no \in Nat /\ b.attempt_no \in Nat /\ a.id \in Id
        /\ b.attempt_no <= notification[a.id].last_attempt_no
        /\ notification[a.id].last_attempt_no \in Nat
    BY <1>1 DEF Before, VendorInv, Numbers, IndInv, TypeOK, StoreTypeOK, Attempt, Row
  <2>2. a.attempt_no # notification[a.id].last_attempt_no
    BY <2>1 DEF Before
  <2>3. a.result # "in_progress"
    BY <1>1, <2>1, <2>2 DEF IndInv, LeaseMatchesAttempt, LeaseMatches, InProgress
  <2>4. a.result # "http_success"
    BY <1>1, <2>2 DEF VendorInv, AttemptTrue
  <2>5. Justified(a, b)
    BY <1>1 DEF RoomInv
  <2> QED
    BY <2>3, <2>4, <2>5
<1> QED
  BY <1>1, Invariance, VendorInvariant, RoomInvariant, PTL

-----------------------------------------------------------------------------
(* Why a notification ended                                                *)

LastAttempt(i, R) ==
  \E a \in attempt :
    /\ a.id = i /\ a.attempt_no = notification[i].last_attempt_no
    /\ a.run_no = notification[i].run_no /\ a.result \in R

(* What the last attempt has to tell of.                                   *)
Accounted(i) ==
  /\ notification[i].status = "succeeded" => LastAttempt(i, {"http_success"})
  /\ notification[i].stop_reason = "PERMANENT_ERROR" =>
       LastAttempt(i, {"http_failure", "transport_error"})

(* What the row tells of itself.                                           *)
Ended(n) ==
  /\ n.status = "failed" <=> n.stop_reason # ""
  /\ n.stop_reason = "RETRY_EXHAUSTED" => n.run_attempt_count = n.max_attempts
  /\ n.stop_reason = "EXPIRED" => n.run_attempt_count < n.max_attempts
  /\ n.status \in Terminal <=> n.finished_at # NoTime

(* A job calls success only what the vendor answered with a 2xx.           *)
JobEnds(j) ==
  j.phase = "completing" /\ j.completion.status = "succeeded" =>
    j.result.result = "http_success"

ReasonInv ==
  /\ \A i \in Id : Accounted(i) /\ Ended(notification[i])
  /\ \A j \in job : JobEnds(j)

LEMMA InitReasons == Init => ReasonInv
<1> SUFFICES ASSUME Init PROVE ReasonInv
  OBVIOUS
<1>1. \A i \in Id : Accounted(i) /\ Ended(notification[i])
  BY InitRow DEF Accounted, Ended, Terminal
<1>2. job = {}
  BY DEF Init
<1> QED
  BY <1>1, <1>2 DEF ReasonInv

LEMMA JobEndsStep ==
  ASSUME TypeOK, ReasonInv, [Next]_vars, NEW k \in job'
  PROVE  JobEnds(k)
<1>1. CASE k \in job
  BY <1>1 DEF ReasonInv
<1>2. CASE StartedJob(k)
  BY <1>2 DEF StartedJob, NewJob, JobEnds
<1>3. CASE DecidedJob(k)
  <2>0. PICK j \in job, answer \in Outcomes :
          \E wait \in Waits(j.n.run_attempt_count) :
            k = [j EXCEPT !.phase = "completing",
                          !.result = [result |-> answer.result,
                                      retryable |-> answer.retryable,
                                      evidence |-> answer.evidence],
                          !.completion = CompletionOf(Decide(j.n, answer, now, wait))]
    BY <1>3 DEF DecidedJob
  <2>1. PICK wait \in Waits(j.n.run_attempt_count) :
          k = [j EXCEPT !.phase = "completing",
                        !.result = [result |-> answer.result,
                                    retryable |-> answer.retryable,
                                    evidence |-> answer.evidence],
                        !.completion = CompletionOf(Decide(j.n, answer, now, wait))]
    BY <2>0
  <2> DEFINE d == Decide(j.n, answer, now, wait)
  <2>2. /\ j \in Job /\ j.n \in Row /\ answer \in Answer /\ wait \in Nat /\ now \in Nat
    BY DispatchAssumption, WaitsType DEF TypeOK, StoreTypeOK, Job, Instant
  <2>3. d \in Decision
    BY <2>2, DecisionType DEF Instant
  <2>4. k.result.result = answer.result /\ k.completion = CompletionOf(d)
    BY <2>1, <2>2 DEF Job
  <2>5. d.action = "succeed" => answer.result = "http_success"
    BY DEF Decide, RetryOrExpire, Stop, Retry
  <2> HIDE DEF d
  <2>6. CompletionOf(d).status = "succeeded" => d.action = "succeed"
    BY <2>3 DEF CompletionOf, Decision, Action
  <2> QED
    BY <2>4, <2>5, <2>6 DEF JobEnds
<1> QED
  BY <1>1, <1>2, <1>3, JobChanges

LEMMA EndedStep ==
  ASSUME IndInv, ReasonInv, [Next]_vars, NEW i \in Id
  PROVE  Ended(notification'[i])
<1> DEFINE n == notification[i]
           m == notification'[i]
<1> SUFFICES Ended(m)
  OBVIOUS
<1>1. /\ n \in Row /\ RowChange(i) /\ now \in Nat /\ Ended(n) /\ InBudget(n)
      /\ n.run_attempt_count \in Nat /\ n.max_attempts \in Nat
  BY RowChanges, StoreAssumption
  DEF IndInv, TypeOK, StoreTypeOK, Row, Instant, ReasonInv, BudgetOK
<1>0. n.run_attempt_count >= n.max_attempts =>
        n.run_attempt_count = n.max_attempts
  <2>1. n.run_attempt_count <= n.max_attempts
    BY <1>1, Zenon DEF InBudget
  <2>2. n.run_attempt_count \in Nat /\ n.max_attempts \in Nat
    BY <1>1
  <2> HIDE DEF n
  <2> QED
    BY <2>1, <2>2
<1>9. now # NoTime
  BY <1>1 DEF NoTime
<1>2. CASE Inserted(i)
  <2>1. \A t, l, at : /\ InsertedRow(t, l, at).status = "pending"
                      /\ InsertedRow(t, l, at).stop_reason = ""
                      /\ InsertedRow(t, l, at).finished_at = NoTime
    BY Zenon DEF InsertedRow
  <2>2. m.status = "pending" /\ m.stop_reason = "" /\ m.finished_at = NoTime
    BY <1>2, <2>1 DEF Inserted
  <2> QED
    BY <2>2 DEF Ended, Terminal
<1>3. CASE Claimed(i)
  <2>1. PICK token \in Token : m = ClaimedRow(n, token) /\ n.status = "pending"
    BY <1>3 DEF Claimed
  <2>2. ClaimedRow(n, token).finished_at = n.finished_at
    BY <1>1 DEF ClaimedRow, Row
  <2> QED
    BY <1>1, <2>1, <2>2, ClaimedRowFields DEF Ended, Terminal, InBudget, Active
<1>4. CASE Completed(i)
  <2>1. PICK j \in job :
          /\ n = j.n /\ j.completion \in Completion /\ CompletionFits(j)
          /\ m = CompletedRow(n, j.n, j.completion)
    BY <1>4, CompletedFits DEF IndInv
  <2>2. /\ m.status = j.completion.status /\ m.stop_reason = j.completion.stop_reason
        /\ m.finished_at = IF m.status \in Terminal THEN now ELSE NoTime
        /\ m.run_attempt_count = n.run_attempt_count
        /\ m.max_attempts = n.max_attempts
        /\ m.status \in {"pending", "succeeded", "failed"}
    BY <1>1, <2>1 DEF CompletedRow, Row, Completion
  <2>3. /\ m.status = "failed" <=> m.stop_reason # ""
        /\ m.stop_reason = "RETRY_EXHAUSTED" => n.run_attempt_count >= n.max_attempts
        /\ m.stop_reason = "EXPIRED" => n.run_attempt_count < n.max_attempts
    BY <2>1, <2>2 DEF CompletionFits
  <2>4. m.status \in Terminal <=> m.finished_at # NoTime
    BY <1>9, <2>2, Zenon
  <2>5. m.stop_reason = "RETRY_EXHAUSTED" => m.run_attempt_count = m.max_attempts
    BY <1>0, <2>2, <2>3, Zenon
  <2>6. m.stop_reason = "EXPIRED" => m.run_attempt_count < m.max_attempts
    BY <2>2, <2>3, Zenon
  <2> HIDE DEF m, n
  <2> QED
    BY <2>3, <2>4, <2>5, <2>6, Zenon DEF Ended
<1>5. CASE Recovered(i)
  <2>1. /\ n.status = "processing" /\ m = RecoveredRow(n)
        /\ n.run_attempt_count <= n.max_attempts
    BY <1>1, <1>5 DEF Recovered, InBudget
  <2>2. /\ m.run_attempt_count = n.run_attempt_count
        /\ m.max_attempts = n.max_attempts
        /\ \/ /\ m.stop_reason = "RETRY_EXHAUSTED" /\ m.status = "failed"
              /\ n.run_attempt_count >= n.max_attempts /\ m.finished_at = now
           \/ /\ m.stop_reason = "EXPIRED" /\ m.status = "failed"
              /\ n.run_attempt_count < n.max_attempts /\ m.finished_at = now
           \/ /\ m.stop_reason = "" /\ m.status = "pending"
              /\ m.finished_at = NoTime
    BY <1>1, <2>1 DEF RecoveredRow, Row
  <2>3. m.status \in Terminal <=> m.finished_at # NoTime
    BY <1>9, <2>2, Zenon DEF Terminal
  <2>4. m.stop_reason = "RETRY_EXHAUSTED" => m.run_attempt_count = m.max_attempts
    BY <1>0, <2>2
  <2>5. m.stop_reason = "EXPIRED" => m.run_attempt_count < m.max_attempts
    BY <2>2
  <2>6. m.status = "failed" <=> m.stop_reason # ""
    BY <2>2
  <2> HIDE DEF m, n
  <2> QED
    BY <2>3, <2>4, <2>5, <2>6, Zenon DEF Ended
<1>6. CASE Expired(i)
  <2>1. /\ n.run_attempt_count < n.max_attempts
        /\ m.status = "failed" /\ m.stop_reason = "EXPIRED" /\ m.finished_at = now
        /\ m.run_attempt_count = n.run_attempt_count
        /\ m.max_attempts = n.max_attempts
    BY <1>1, <1>6 DEF Expired, ExpiredRow, Row, InBudget
  <2>2. m.status \in Terminal <=> m.finished_at # NoTime
    BY <1>9, <2>1, Zenon DEF Terminal
  <2>3. m.stop_reason = "EXPIRED" => m.run_attempt_count < m.max_attempts
    BY <2>1
  <2>4. m.status = "failed" <=> m.stop_reason # ""
    BY <2>1
  <2>5. m.stop_reason # "RETRY_EXHAUSTED"
    BY <2>1
  <2> HIDE DEF m, n
  <2> QED
    BY <2>2, <2>3, <2>4, <2>5, Zenon DEF Ended
<1>7. CASE Deleted(i)
  <2>1. \A r : /\ DeletedRow(r).status = "deleted"
               /\ DeletedRow(r).stop_reason = ""
               /\ DeletedRow(r).finished_at = NoTime
    BY Zenon DEF DeletedRow, NoRow
  <2>2. m.status = "deleted" /\ m.stop_reason = "" /\ m.finished_at = NoTime
    BY <1>7, <2>1 DEF Deleted
  <2> QED
    BY <2>2 DEF Ended, Terminal
<1>8. CASE Replayed(i)
  BY <1>1, <1>8 DEF Replayed, ReplayedRow, Row, Ended, Terminal, NoTime
<1> QED
  BY <1>1, <1>2, <1>3, <1>4, <1>5, <1>6, <1>7, <1>8 DEF RowChange

(* Only a completion ends a notification by an answer.                     *)
LEMMA AnsweredOnly ==
  ASSUME IndInv, [Next]_vars, NEW i \in Id, notification'[i] # notification[i],
         \/ notification'[i].status = "succeeded"
         \/ notification'[i].stop_reason = "PERMANENT_ERROR"
  PROVE  \E j \in job : CompleteNotification(j) /\ j.id = i
<1>0. /\ DOMAIN notification = Id /\ notification[i] \in Row
      /\ InBudget(notification[i])
  BY DEF IndInv, TypeOK, StoreTypeOK, BudgetOK
<1>1. ASSUME NEW p, NEW k \in Id, NEW token \in Token,
             ClaimNotification(p, k, token) \/ ClaimUnacknowledged(p, k, token)
      PROVE  FALSE
  <2>1. Claim(k, token)
    BY <1>1 DEF ClaimNotification, ClaimUnacknowledged
  <2>2. /\ notification[i].status = "pending"
        /\ notification'[i] = ClaimedRow(notification[i], token)
    BY <1>0, <2>1 DEF Claim, Due
  <2>3. notification[i].stop_reason = ""
    BY <1>0, <2>2 DEF InBudget, Active
  <2> QED
    BY <1>0, <2>2, <2>3, ClaimedRowFields
<1>2. ASSUME NEW k \in Id, NEW t, NEW m, NEW at, AcceptNotification(k, t, m, at)
      PROVE  FALSE
  <2>1. /\ InsertedRow(t, m, at).status = "pending"
        /\ InsertedRow(t, m, at).stop_reason = ""
    BY Zenon DEF InsertedRow
  <2> QED
    BY <1>0, <1>2, <2>1 DEF AcceptNotification, Create
<1>3. ASSUME NEW k \in Id, NEW r, NEW e, NEW l, ReplayNotification(k, r, e, l)
      PROVE  FALSE
  BY <1>0, <1>3 DEF ReplayNotification, Replay, ReplayedRow, Row
<1>4. ASSUME NEW j \in job, CompleteNotification(j)
      PROVE  j.id = i
  BY <1>0, <1>4 DEF CompleteNotification, Complete
<1>5. ASSUME NEW B \in SUBSET Id, RecoverLeases(B)
      PROVE  FALSE
  BY <1>0, <1>5 DEF RecoverLeases, Recover, RecoveredRow, Row
<1>6. ASSUME NEW B \in SUBSET Id, ExpireNotifications(B)
      PROVE  FALSE
  BY <1>0, <1>6 DEF ExpireNotifications, ExpirePending, ExpiredRow, Row
<1>7. ASSUME NEW B \in SUBSET Id, CleanupNotifications(B)
      PROVE  FALSE
  <2>1. \A n : DeletedRow(n).status = "deleted" /\ DeletedRow(n).stop_reason = ""
    BY Zenon DEF DeletedRow, NoRow
  <2> QED
    BY <1>7, <2>1 DEF CleanupNotifications, Cleanup
<1>8. notification' # notification
  OBVIOUS
<1>9. ASSUME NEW p, NEW arrived, Crash(p, arrived)
      PROVE  FALSE
  BY <1>8, <1>9 DEF Crash, storeVars
<1>10. ASSUME NEW j, NEW a, NEW w, NEW v, DeliverNotification(j, a, w, v)
       PROVE  FALSE
  BY <1>8, <1>10 DEF DeliverNotification, storeVars
<1> QED
  BY <1>1, <1>2, <1>3, <1>4, <1>5, <1>6, <1>7, <1>8, <1>9, <1>10
  DEF Next, vars, storeVars, ApproveReplay, RejectCompletion, AbandonJob, Tick

LEMMA AnswerKept ==
  ASSUME IndInv, [Next]_vars, NEW i \in Id, notification'[i] = notification[i],
         notification[i].status # "deleted", NEW R, "in_progress" \notin R,
         LastAttempt(i, R)
  PROVE  LastAttempt(i, R)'
<1>1. PICK a \in attempt :
        /\ a.id = i /\ a.attempt_no = notification[i].last_attempt_no
        /\ a.run_no = notification[i].run_no /\ a.result \in R
  BY DEF LastAttempt
<1>2. a \in attempt'
  BY <1>1, FinishedStep
<1> QED
  BY <1>1, <1>2 DEF LastAttempt

LEMMA AnswerWritten ==
  ASSUME IndInv, VendorInv, ReasonInv, NEW j \in job, CompleteNotification(j)
  PROVE  Accounted(j.id)'
<1> DEFINE i == j.id
           m == notification'[i]
           c == j.completion
<1>1. /\ j.phase = "completing" /\ i \in Id /\ c \in Completion
      /\ notification[i] \in Row /\ notification[i] = j.n
      /\ j.result.result \in AnswerResult
      /\ m = CompletedRow(j.n, j.n, c)
  BY DEF CompleteNotification, Complete, CanComplete, HoldsLease, IndInv,
         SnapshotFresh, TypeOK, StoreTypeOK, Job, JobOK, OwnsLease, CompletionFits
<1>2. /\ m.status = c.status /\ m.stop_reason = c.stop_reason
      /\ m.last_attempt_no = j.n.last_attempt_no /\ m.run_no = j.n.run_no
  BY <1>1 DEF CompletedRow, Row
<1>3. PICK a \in attempt : Open(a, i, j.n.last_attempt_no)
  BY DEF CompleteNotification, Complete, CanComplete
<1> DEFINE b == FinishedAttempt(a, j.result, c)
<1>4. b \in attempt'
  BY <1>3 DEF CompleteNotification, Complete
<1>5. /\ b.id = i /\ b.attempt_no = j.n.last_attempt_no
      /\ b.run_no = j.n.run_no /\ b.result = j.result.result
  <2>1. a \in Attempt /\ a.id = i /\ a.attempt_no = j.n.last_attempt_no
    BY <1>3, AttemptFields DEF Open
  <2>2. a.run_no = j.n.run_no
    BY <1>1, <1>3 DEF Open, IndInv, LeaseMatchesAttempt, LeaseMatches, InProgress
  <2> QED
    BY <2>1, <2>2 DEF FinishedAttempt, Attempt
<1> HIDE DEF b
<1>6. ASSUME NEW R, j.result.result \in R PROVE LastAttempt(i, R)'
  BY <1>2, <1>4, <1>5, <1>6 DEF LastAttempt
<1>7. m.status = "succeeded" => j.result.result = "http_success"
  BY <1>1, <1>2 DEF ReasonInv, JobEnds
<1>8. m.stop_reason = "PERMANENT_ERROR" =>
        j.result.result \in {"http_failure", "transport_error"}
  <2>1. CompletionFits(j) /\ JobTrue(j)
    BY <1>1 DEF IndInv, JobOK, OwnsLease, VendorInv
  <2>2. c.stop_reason = "PERMANENT_ERROR" => c.status # "succeeded"
    BY <2>1 DEF CompletionFits
  <2> QED
    BY <1>1, <1>2, <2>1, <2>2 DEF JobTrue, AnswerResult
<1> QED
  BY <1>6, <1>7, <1>8 DEF Accounted

LEMMA AccountedStep ==
  ASSUME IndInv, VendorInv, ReasonInv, [Next]_vars, NEW i \in Id
  PROVE  Accounted(i)'
<1>1. Accounted(i) /\ Ended(notification[i])
  BY DEF ReasonInv
<1>2. CASE notification'[i] = notification[i]
  <2>1. \/ notification[i].status = "succeeded"
        \/ notification[i].stop_reason = "PERMANENT_ERROR"
        => notification[i].status # "deleted"
    BY <1>1 DEF Ended
  <2> QED
    BY <1>1, <1>2, <2>1, AnswerKept DEF Accounted
<1>3. CASE /\ notification'[i] # notification[i]
           /\ \/ notification'[i].status = "succeeded"
              \/ notification'[i].stop_reason = "PERMANENT_ERROR"
  BY <1>3, AnsweredOnly, AnswerWritten
<1> QED
  BY <1>2, <1>3 DEF Accounted

LEMMA ReasonsInvariant == Spec => []ReasonInv
<1>1. Init => ReasonInv
  BY InitReasons
<1>2. ASSUME IndInv, VendorInv, ReasonInv, [Next]_vars PROVE ReasonInv'
  <2>1. \A i \in Id : Accounted(i)'
    BY <1>2, AccountedStep
  <2>2. \A i \in Id : Ended(notification[i])'
    BY <1>2, EndedStep DEF Ended
  <2>3. \A k \in job' : JobEnds(k)'
    BY <1>2, JobEndsStep DEF JobEnds, IndInv
  <2> QED
    BY <2>1, <2>2, <2>3 DEF ReasonInv
<1>3. IndInv /\ VendorInv /\ ReasonInv /\ [Next]_vars => ReasonInv'
  BY <1>2
<1> QED
  BY <1>1, <1>3, Invariance, VendorInvariant, PTL DEF Spec

(* A final status can be explained from the attempts, and a failed run     *)
(* contains no success (Decide, Complete, Recover, ExpirePending, Replay). *)
THEOREM ReasonSafety == Spec => []StopReasonTrue
<1>1. ASSUME VendorInv, ReasonInv, IndInv PROVE StopReasonTrue
  <2> SUFFICES ASSUME NEW i \in Id
               PROVE  /\ Accounted(i) /\ Ended(notification[i])
                      /\ notification[i].status = "failed" =>
                           \A a \in attempt : a.id = i => a.result # "http_success"
    BY DEF StopReasonTrue, Accounted, Ended, LastAttempt
  <2>1. \A a \in attempt :
          a.id = i /\ a.result = "http_success" => notification[i].status = "succeeded"
    BY <1>1 DEF VendorInv, AttemptTrue
  <2> QED
    BY <1>1, <2>1 DEF ReasonInv
<1>2. VendorInv /\ ReasonInv /\ IndInv => StopReasonTrue
  BY <1>1
<1> QED
  BY <1>2, Invariance, VendorInvariant, ReasonsInvariant, PTL

-----------------------------------------------------------------------------
(* Counting by numbers                                                     *)

LEMMA CountAtMost ==
  ASSUME NEW S, NEW s \in Nat, NEW size \in Nat, NEW f \in [S -> s + 1 .. s + size],
         \A x, y \in S : f[x] = f[y] => x = y
  PROVE  IsFiniteSet(S) /\ Cardinality(S) <= size
<1>1. f \in Injection(S, s + 1 .. s + size)
  BY Fun_IsInj
<1>2. /\ IsFiniteSet(s + 1 .. s + size)
      /\ Cardinality(s + 1 .. s + size) <= size
  BY FS_Interval
<1>3. IsFiniteSet(S) /\ Cardinality(S) <= Cardinality(s + 1 .. s + size)
  BY <1>1, <1>2, FS_Injection
<1>4. Cardinality(S) \in Nat /\ Cardinality(s + 1 .. s + size) \in Nat
  BY <1>2, <1>3, FS_CardinalityType
<1> QED
  BY <1>2, <1>3, <1>4

LEMMA CountExactly ==
  ASSUME NEW S, NEW s \in Nat, NEW size \in Nat, NEW f \in [S -> s + 1 .. s + size],
         \A x, y \in S : f[x] = f[y] => x = y,
         \A no \in s + 1 .. s + size : \E x \in S : f[x] = no
  PROVE  Cardinality(S) = size
<1>1. f \in Bijection(S, s + 1 .. s + size)
  BY Fun_IsBij
<1>2. /\ IsFiniteSet(s + 1 .. s + size)
      /\ Cardinality(s + 1 .. s + size) = size
  BY FS_Interval
<1>3. IsFiniteSet(S)
  BY CountAtMost
<1>4. ExistsBijection(S, s + 1 .. s + size)
  BY <1>1, Fun_ExistsBij
<1> QED
  BY <1>2, <1>3, <1>4, FS_Bijection

-----------------------------------------------------------------------------
(* A number is given once, numbers have no gap, the present run has the    *)
(* last ones, and every run fits between two numbers max_attempts apart.   *)
Tried(i, no, r) ==
  \E a \in attempt : a.id = i /\ a.attempt_no = no /\ a.run_no = r

GivenOnce ==
  \A a, b \in attempt : a.id = b.id /\ a.attempt_no = b.attempt_no => a = b

Counted(i) ==
  LET n == notification[i]
  IN  /\ n.run_attempt_count <= n.last_attempt_no
      /\ \A no, r \in Nat : Tried(i, no, r) =>
           /\ 1 <= no /\ no <= n.last_attempt_no
           /\ r <= n.run_no
           /\ r = n.run_no <=> no > n.last_attempt_no - n.run_attempt_count
      /\ \A no \in Nat : 1 <= no /\ no <= n.last_attempt_no =>
           \E r \in Nat : Tried(i, no, r)
      /\ \A r \in Nat : \E s \in Nat : \A no \in Nat :
           Tried(i, no, r) => s < no /\ no <= s + n.max_attempts

CountInv == GivenOnce /\ \A i \in Id : Counted(i)

SameCounts(i) ==
  /\ notification'[i].run_no = notification[i].run_no
  /\ notification'[i].run_attempt_count = notification[i].run_attempt_count
  /\ notification'[i].last_attempt_no = notification[i].last_attempt_no
  /\ notification'[i].max_attempts = notification[i].max_attempts

SameTries(i) == \A no, r : Tried(i, no, r)' <=> Tried(i, no, r)

LEMMA InitCounts == Init => CountInv
<1> SUFFICES ASSUME Init PROVE CountInv
  OBVIOUS
<1>1. attempt = {}
  BY DEF Init
<1>2. ASSUME NEW i \in Id
      PROVE  /\ notification[i].run_attempt_count = 0
             /\ notification[i].last_attempt_no = 0
  <2>1. PICK t \in Target, m \in AttemptLimits : notification[i] = NoRow("absent", t, m)
    BY DEF Init
  <2>2. /\ NoRow("absent", t, m).run_attempt_count = 0
        /\ NoRow("absent", t, m).last_attempt_no = 0
    BY Zenon DEF NoRow
  <2> QED
    BY <2>1, <2>2
<1> QED
  BY <1>1, <1>2 DEF CountInv, GivenOnce, Counted, Tried

-----------------------------------------------------------------------------
(* Completions and recoveries write results, not numbers.                  *)
LEMMA Rewritten ==
  ASSUME NEW f, attempt' = {f[a] : a \in attempt},
         \A a \in attempt : /\ f[a].id = a.id /\ f[a].attempt_no = a.attempt_no
                            /\ f[a].run_no = a.run_no
  PROVE  /\ \A i : SameTries(i)
         /\ GivenOnce => GivenOnce'
<1>1. ASSUME NEW i, NEW no, NEW r PROVE Tried(i, no, r)' <=> Tried(i, no, r)
  BY DEF Tried
<1>2. ASSUME GivenOnce PROVE GivenOnce'
  BY <1>2 DEF GivenOnce
<1> QED
  BY <1>1, <1>2 DEF SameTries

LEMMA CompleteTries ==
  ASSUME TypeOK, NEW j \in job, CompleteNotification(j)
  PROVE  /\ \A i : SameTries(i)
         /\ GivenOnce => GivenOnce'
<1> DEFINE f == [a \in attempt |-> IF Open(a, j.id, j.n.last_attempt_no)
                                   THEN FinishedAttempt(a, j.result, j.completion)
                                   ELSE a]
<1>1. attempt' = {f[a] : a \in attempt}
  BY DEF CompleteNotification, Complete
<1>2. \A a \in attempt : /\ f[a].id = a.id /\ f[a].attempt_no = a.attempt_no
                         /\ f[a].run_no = a.run_no
  BY DEF FinishedAttempt, TypeOK, StoreTypeOK, Attempt
<1> HIDE DEF f
<1> QED
  BY <1>1, <1>2, Rewritten

LEMMA RecoverTries ==
  ASSUME TypeOK, NEW B \in SUBSET Id, RecoverLeases(B)
  PROVE  /\ \A i : SameTries(i)
         /\ GivenOnce => GivenOnce'
<1> DEFINE f == [a \in attempt |->
                   IF a.id \in B /\ Open(a, a.id, notification[a.id].last_attempt_no)
                   THEN RecoveredAttempt(a) ELSE a]
<1>1. attempt' = {f[a] : a \in attempt}
  BY DEF RecoverLeases, Recover
<1>2. \A a \in attempt : /\ f[a].id = a.id /\ f[a].attempt_no = a.attempt_no
                         /\ f[a].run_no = a.run_no
  BY DEF RecoveredAttempt, TypeOK, StoreTypeOK, Attempt
<1> HIDE DEF f
<1> QED
  BY <1>1, <1>2, Rewritten

LEMMA GivenOnceStep ==
  ASSUME TypeOK, [Next]_vars, GivenOnce
  PROVE  GivenOnce'
<1>1. CASE attempt' \subseteq attempt
  BY <1>1 DEF GivenOnce
<1>2. ASSUME NEW p, NEW i \in Id, NEW token \in Token,
             ClaimNotification(p, i, token) \/ ClaimUnacknowledged(p, i, token)
      PROVE  GivenOnce'
  <2> DEFINE m == ClaimedRow(notification[i], token)
             start == StartedAttempt(i, m)
  <2>1. /\ attempt' = attempt \cup {start}
        /\ ~ \E a \in attempt : a.id = i /\ a.attempt_no = m.last_attempt_no
    BY <1>2 DEF ClaimNotification, ClaimUnacknowledged, Claim
  <2>2. start.id = i /\ start.attempt_no = m.last_attempt_no
    BY DEF StartedAttempt
  <2> HIDE DEF start, m
  <2> QED
    BY <2>1, <2>2 DEF GivenOnce
<1>3. ASSUME NEW B, CleanupNotifications(B)
      PROVE  attempt' \subseteq attempt
  BY <1>3 DEF CleanupNotifications, Cleanup
<1>4. ASSUME NEW p, NEW arrived, Crash(p, arrived)
      PROVE  attempt' \subseteq attempt
  BY <1>4 DEF Crash, storeVars
<1>5. ASSUME NEW j, NEW x, NEW w, NEW v, DeliverNotification(j, x, w, v)
      PROVE  attempt' \subseteq attempt
  BY <1>5 DEF DeliverNotification, storeVars
<1> QED
  BY <1>1, <1>2, <1>3, <1>4, <1>5, CompleteTries, RecoverTries
  DEF Next, vars, storeVars, AcceptNotification, Create, ApproveReplay,
      ReplayNotification, Replay, RejectCompletion, AbandonJob,
      ExpireNotifications, ExpirePending, Tick

LEMMA SameAttempts ==
  ASSUME attempt' = attempt, NEW i
  PROVE  SameTries(i)
BY DEF SameTries, Tried

(* Unless a row is inserted, claimed, removed or replayed its counters stay*)
(* as they are.                                                            *)
LEMMA OtherCounts ==
  ASSUME TypeOK, NEW i \in Id, RowChange(i)
  PROVE  SameCounts(i) \/ Inserted(i) \/ Claimed(i) \/ Deleted(i) \/ Replayed(i)
<1>1. notification[i] \in Row
  BY DEF TypeOK, StoreTypeOK
<1>2. CASE Completed(i)
  BY <1>1, <1>2 DEF Completed, CompletedRow, Row, SameCounts
<1>3. CASE Recovered(i)
  BY <1>1, <1>3 DEF Recovered, RecoveredRow, Row, SameCounts
<1>4. CASE Expired(i)
  BY <1>1, <1>4 DEF Expired, ExpiredRow, Row, SameCounts
<1> QED
  BY <1>2, <1>3, <1>4 DEF RowChange, SameCounts

LEMMA SameTriesStep ==
  ASSUME TypeOK, [Next]_vars, NEW i \in Id
  PROVE  \/ \E token \in Token : Claim(i, token)
         \/ \E B \in SUBSET Id : i \in B /\ CleanupNotifications(B)
         \/ SameTries(i)
<1>1. ASSUME NEW p, NEW k \in Id, NEW token \in Token,
             ClaimNotification(p, k, token) \/ ClaimUnacknowledged(p, k, token)
      PROVE  Claim(i, token) \/ SameTries(i)
  <2> DEFINE start == StartedAttempt(k, ClaimedRow(notification[k], token))
  <2>1. Claim(k, token)
    BY <1>1 DEF ClaimNotification, ClaimUnacknowledged
  <2>2. attempt' = attempt \cup {start} /\ start.id = k
    BY <2>1 DEF Claim, StartedAttempt
  <2> HIDE DEF start
  <2>3. k # i => SameTries(i)
    BY <2>2 DEF SameTries, Tried
  <2> QED
    BY <2>1, <2>3
<1>2. ASSUME NEW B \in SUBSET Id, CleanupNotifications(B), i \notin B
      PROVE  SameTries(i)
  BY <1>2 DEF CleanupNotifications, Cleanup, SameTries, Tried
<1>3. CASE attempt' = attempt
  BY <1>3, SameAttempts
<1>4. ASSUME NEW p, NEW arrived, Crash(p, arrived)
      PROVE  attempt' = attempt
  BY <1>4 DEF Crash, storeVars
<1>5. ASSUME NEW j, NEW x, NEW w, NEW v, DeliverNotification(j, x, w, v)
      PROVE  attempt' = attempt
  BY <1>5 DEF DeliverNotification, storeVars
<1> QED
  BY <1>1, <1>2, <1>3, <1>4, <1>5, CompleteTries, RecoverTries
  DEF Next, vars, storeVars, AcceptNotification, Create, ApproveReplay,
      ReplayNotification, Replay, RejectCompletion, AbandonJob,
      ExpireNotifications, ExpirePending, Tick

LEMMA TriesChange ==
  ASSUME IndInv, VendorInv, [Next]_vars, NEW i \in Id
  PROVE  \/ \E token \in Token : Claim(i, token)
         \/ SameTries(i) /\ (SameCounts(i) \/ Inserted(i) \/ Replayed(i))
         \/ Deleted(i) /\ \A no, r : ~Tried(i, no, r)'
<1>0. /\ TypeOK /\ DOMAIN notification = Id
      /\ SameCounts(i) \/ Inserted(i) \/ Claimed(i) \/ Deleted(i) \/ Replayed(i)
  BY RowChanges, OtherCounts DEF IndInv, TypeOK, StoreTypeOK
<1>1. Claimed(i) => \E token \in Token : Claim(i, token)
  <2> SUFFICES ASSUME Claimed(i) PROVE \E token \in Token : Claim(i, token)
    OBVIOUS
  <2>1. notification[i].status = "pending" /\ notification'[i].status = "processing"
    BY <1>0, ClaimedRowFields DEF Claimed, TypeOK, StoreTypeOK
  <2> QED
    BY <1>0, <2>1, ClaimOnly
<1>2. Deleted(i) => \A no, r : ~Tried(i, no, r)'
  <2>1. \A n : DeletedRow(n).status = "deleted"
    BY DEF DeletedRow, NoRow
  <2>2. \A a \in attempt' : notification'[a.id].status # "deleted"
    BY VendorStep DEF VendorInv, Numbers
  <2> QED
    BY <2>1, <2>2 DEF Deleted, Tried
<1>3. ASSUME NEW B \in SUBSET Id, i \in B, CleanupNotifications(B)
      PROVE  Deleted(i)
  BY <1>0, <1>3
  DEF CleanupNotifications, OldestFinished, Limited, SkipLocked, Removable,
      Cleanup, Deleted
<1> QED
  BY <1>0, <1>1, <1>2, <1>3, SameTriesStep

-----------------------------------------------------------------------------
LEMMA LimitsKept ==
  ASSUME TypeOK, NEW i \in Id, Replayed(i)
  PROVE  /\ notification'[i].run_no = notification[i].run_no + 1
         /\ notification'[i].run_attempt_count = 0
         /\ notification'[i].last_attempt_no = notification[i].last_attempt_no
         /\ notification'[i].max_attempts = notification[i].max_attempts
BY DEF TypeOK, StoreTypeOK, Replayed, ReplayedRow, Row

LEMMA CountedKept ==
  ASSUME NEW i, Counted(i), SameCounts(i), SameTries(i)
  PROVE  Counted(i)'
BY DEF Counted, SameCounts, SameTries

(* Without attempts there is nothing to count.                             *)
LEMMA NothingCounted ==
  ASSUME NEW i, \A no, r : ~Tried(i, no, r)',
         notification'[i].run_attempt_count = 0,
         notification'[i].last_attempt_no = 0
  PROVE  Counted(i)'
BY DEF Counted

LEMMA ReplayCounts ==
  ASSUME IndInv, NEW i \in Id, Counted(i), SameTries(i), Replayed(i)
  PROVE  Counted(i)'
<1> DEFINE n == notification[i]
           m == notification'[i]
<1>1. /\ m.run_no = n.run_no + 1 /\ m.run_attempt_count = 0
      /\ m.last_attempt_no = n.last_attempt_no /\ m.max_attempts = n.max_attempts
      /\ n.run_no \in Nat /\ n.last_attempt_no \in Nat
  BY LimitsKept DEF IndInv, TypeOK, StoreTypeOK, Row
<1>2. \A no, r \in Nat : Tried(i, no, r)' =>
        /\ 1 <= no /\ no <= m.last_attempt_no
        /\ r <= m.run_no
        /\ r = m.run_no <=> no > m.last_attempt_no - m.run_attempt_count
  BY <1>1 DEF Counted, SameTries
<1>3. \A no \in Nat : 1 <= no /\ no <= m.last_attempt_no =>
        \E r \in Nat : Tried(i, no, r)'
  BY <1>1 DEF Counted, SameTries
<1>4. \A r \in Nat : \E s \in Nat : \A no \in Nat :
        Tried(i, no, r)' => s < no /\ no <= s + m.max_attempts
  BY <1>1 DEF Counted, SameTries
<1>5. m.run_attempt_count <= m.last_attempt_no
  BY <1>1
<1> QED
  BY <1>2, <1>3, <1>4, <1>5, Zenon DEF Counted

LEMMA ClaimCounts ==
  ASSUME IndInv, NEW i \in Id, Counted(i), NEW token \in Token, Claim(i, token)
  PROVE  Counted(i)'
<1> DEFINE n == notification[i]
           m == notification'[i]
<1>1. /\ n \in Row /\ m = ClaimedRow(n, token) /\ n.status = "pending"
      /\ attempt' = attempt \cup {StartedAttempt(i, m)}
  <2>1. DOMAIN notification = Id
    BY DEF IndInv, TypeOK, StoreTypeOK
  <2> QED
    BY <2>1 DEF Claim, Due, IndInv, TypeOK, StoreTypeOK
<1>2. /\ m.run_no = n.run_no /\ m.run_attempt_count = n.run_attempt_count + 1
      /\ m.last_attempt_no = n.last_attempt_no + 1 /\ m.max_attempts = n.max_attempts
      /\ n.run_no \in Nat /\ n.run_attempt_count \in Nat
      /\ n.last_attempt_no \in Nat /\ n.max_attempts \in Nat
  <2>1. /\ n.run_no \in Nat /\ n.run_attempt_count \in Nat
        /\ n.last_attempt_no \in Nat /\ n.max_attempts \in Nat
    BY <1>1, StoreAssumption DEF Row
  <2>2. /\ m.run_no = n.run_no /\ m.run_attempt_count = n.run_attempt_count + 1
        /\ m.last_attempt_no = n.last_attempt_no + 1
        /\ m.max_attempts = n.max_attempts
    BY <1>1, ClaimedRowFields
  <2> QED
    BY <2>1, <2>2
<1>3. n.run_attempt_count < n.max_attempts
  BY <1>1 DEF IndInv, BudgetOK, InBudget
<1>4. \A no, r : Tried(i, no, r)' <=>
        Tried(i, no, r) \/ (no = n.last_attempt_no + 1 /\ r = n.run_no)
  <2> DEFINE start == StartedAttempt(i, m)
  <2>1. start.id = i /\ start.attempt_no = m.last_attempt_no /\ start.run_no = m.run_no
    BY DEF StartedAttempt
  <2>2. attempt' = attempt \cup {start}
    BY <1>1
  <2> HIDE DEF start
  <2>3. ASSUME NEW no, NEW r
        PROVE  Tried(i, no, r)' <=>
                 Tried(i, no, r) \/ (no = m.last_attempt_no /\ r = m.run_no)
    BY <2>1, <2>2 DEF Tried
  <2> QED
    BY <1>2, <2>3
<1> HIDE DEF m, n
<1>5. /\ n.run_attempt_count <= n.last_attempt_no
      /\ \A no, r \in Nat : Tried(i, no, r) =>
           /\ 1 <= no /\ no <= n.last_attempt_no
           /\ r <= n.run_no
           /\ r = n.run_no <=> no > n.last_attempt_no - n.run_attempt_count
      /\ \A no \in Nat : 1 <= no /\ no <= n.last_attempt_no =>
           \E r \in Nat : Tried(i, no, r)
      /\ \A r \in Nat : \E s \in Nat : \A no \in Nat :
           Tried(i, no, r) => s < no /\ no <= s + n.max_attempts
  BY DEF Counted, n
<1>6. \A no, r \in Nat : Tried(i, no, r)' =>
        /\ 1 <= no /\ no <= m.last_attempt_no
        /\ r <= m.run_no
        /\ r = m.run_no <=> no > m.last_attempt_no - m.run_attempt_count
  <2> SUFFICES ASSUME NEW no \in Nat, NEW r \in Nat, Tried(i, no, r)'
               PROVE  /\ 1 <= no /\ no <= m.last_attempt_no
                      /\ r <= m.run_no
                      /\ r = m.run_no <=> no > m.last_attempt_no - m.run_attempt_count
    OBVIOUS
  <2>1. CASE Tried(i, no, r)
    BY <1>2, <1>5, <2>1
  <2>2. CASE no = n.last_attempt_no + 1 /\ r = n.run_no
    BY <1>2, <2>2
  <2> QED
    BY <1>4, <2>1, <2>2
<1>7. \A no \in Nat : 1 <= no /\ no <= m.last_attempt_no =>
        \E r \in Nat : Tried(i, no, r)'
  <2> SUFFICES ASSUME NEW no \in Nat, 1 <= no, no <= m.last_attempt_no
               PROVE  \E r \in Nat : Tried(i, no, r)'
    OBVIOUS
  <2>1. CASE no = n.last_attempt_no + 1
    BY <1>2, <1>4, <2>1
  <2>2. CASE no <= n.last_attempt_no
    BY <1>4, <1>5, <2>2
  <2> QED
    BY <1>2, <2>1, <2>2
<1>8. ASSUME NEW r \in Nat
      PROVE  \E s \in Nat : \A no \in Nat :
               Tried(i, no, r)' => s < no /\ no <= s + m.max_attempts
  <2>1. CASE r # n.run_no
    BY <1>2, <1>4, <1>5, <2>1
  <2>2. CASE r = n.run_no
    <3> DEFINE s == n.last_attempt_no - n.run_attempt_count
    <3>1. s \in Nat
      BY <1>2, <1>5
    <3>2. ASSUME NEW no \in Nat, Tried(i, no, r)'
          PROVE  s < no /\ no <= s + m.max_attempts
      BY <1>2, <1>3, <1>6, <2>2, <3>2
    <3> QED
      BY <3>1, <3>2
  <2> QED
    BY <2>1, <2>2
<1> QED
  BY <1>2, <1>5, <1>6, <1>7, <1>8 DEF Counted, m

LEMMA CountedStep ==
  ASSUME IndInv, VendorInv, [Next]_vars, NEW i \in Id, Counted(i)
  PROVE  Counted(i)'
<1>1. CASE \E token \in Token : Claim(i, token)
  BY <1>1, ClaimCounts
<1>2. CASE SameTries(i) /\ SameCounts(i)
  BY <1>2, CountedKept
<1>3. CASE SameTries(i) /\ Inserted(i)
  <2>1. \A t, m, at : /\ InsertedRow(t, m, at).run_attempt_count = 0
                      /\ InsertedRow(t, m, at).last_attempt_no = 0
    BY Zenon DEF InsertedRow
  <2>2. \A no, r : ~Tried(i, no, r)
    BY <1>3 DEF Inserted, Tried, VendorInv, Numbers
  <2> QED
    BY <1>3, <2>1, <2>2, NothingCounted DEF Inserted, SameTries
<1>4. CASE SameTries(i) /\ Replayed(i)
  BY <1>4, ReplayCounts
<1>5. CASE Deleted(i) /\ \A no, r : ~Tried(i, no, r)'
  <2>1. \A n : /\ DeletedRow(n).run_attempt_count = 0
               /\ DeletedRow(n).last_attempt_no = 0
    BY Zenon DEF DeletedRow, NoRow
  <2> QED
    BY <1>5, <2>1, NothingCounted DEF Deleted
<1> QED
  BY <1>1, <1>2, <1>3, <1>4, <1>5, TriesChange

LEMMA CountInvariant == Spec => []CountInv
<1>1. Init => CountInv
  BY InitCounts
<1>2. IndInv /\ VendorInv /\ CountInv /\ [Next]_vars => CountInv'
  BY CountedStep, GivenOnceStep DEF CountInv, IndInv
<1> QED
  BY <1>1, <1>2, Invariance, VendorInvariant, PTL DEF Spec

(* Attempts are numbered without a gap over all runs, run_attempt_count    *)
(* counts those of the present run, no run exceeds max_attempts and a      *)
(* pending notification has an attempt left (Claim, Complete, Recover,     *)
(* Replay), however many attempts and runs there are.                      *)
THEOREM BudgetSafety == Spec => []BudgetKept
<1>1. ASSUME IndInv, CountInv PROVE BudgetKept
  <2> SUFFICES ASSUME NEW i \in Id
               PROVE  LET n     == notification[i]
                          Of(r) == {a \in attempt : a.id = i /\ a.run_no = r}
                      IN  /\ {a.attempt_no : a \in {b \in attempt : b.id = i}}
                               = 1 .. n.last_attempt_no
                          /\ Cardinality({a \in attempt : a.id = i}) = n.last_attempt_no
                          /\ Cardinality(Of(n.run_no)) = n.run_attempt_count
                          /\ \A r \in 1 .. n.run_no :
                               Cardinality(Of(r)) <= n.max_attempts
                          /\ n.status = "pending" => n.run_attempt_count < n.max_attempts
    BY DEF BudgetKept
  <2> DEFINE n == notification[i]
             All == {a \in attempt : a.id = i}
             Of(r) == {a \in attempt : a.id = i /\ a.run_no = r}
  <2>1. /\ n.run_no \in Nat /\ n.run_attempt_count \in Nat
        /\ n.last_attempt_no \in Nat /\ n.max_attempts \in Nat
        /\ InBudget(n)
    BY <1>1, StoreAssumption DEF IndInv, TypeOK, StoreTypeOK, Row, BudgetOK
  <2>2. \A a \in attempt : a.attempt_no \in Nat /\ a.run_no \in Nat
    BY <1>1 DEF IndInv, TypeOK, StoreTypeOK, Attempt
  <2>3. /\ n.run_attempt_count <= n.last_attempt_no
        /\ \A a \in All :
             /\ 1 <= a.attempt_no /\ a.attempt_no <= n.last_attempt_no
             /\ a.run_no = n.run_no <=>
                  a.attempt_no > n.last_attempt_no - n.run_attempt_count
        /\ \A no \in Nat : 1 <= no /\ no <= n.last_attempt_no =>
             \E a \in All : a.attempt_no = no
        /\ \A r \in Nat : \E s \in Nat : \A a \in Of(r) :
             s < a.attempt_no /\ a.attempt_no <= s + n.max_attempts
    <3>1. Counted(i)
      BY <1>1 DEF CountInv
    <3>2. ASSUME NEW a \in All
          PROVE  Tried(i, a.attempt_no, a.run_no)
      BY DEF Tried
    <3>3. n.run_attempt_count <= n.last_attempt_no
      BY <3>1 DEF Counted
    <3>4. ASSUME NEW a \in All
          PROVE  /\ 1 <= a.attempt_no /\ a.attempt_no <= n.last_attempt_no
                 /\ a.run_no = n.run_no <=>
                      a.attempt_no > n.last_attempt_no - n.run_attempt_count
      BY <2>2, <3>1, <3>2 DEF Counted
    <3>5. ASSUME NEW no \in Nat, 1 <= no, no <= n.last_attempt_no
          PROVE  \E a \in All : a.attempt_no = no
      <4>1. PICK r \in Nat : Tried(i, no, r)
        BY <3>1, <3>5 DEF Counted
      <4> QED
        BY <4>1 DEF Tried
    <3>6. ASSUME NEW r \in Nat
          PROVE  \E s \in Nat : \A a \in Of(r) :
                   s < a.attempt_no /\ a.attempt_no <= s + n.max_attempts
      <4>1. PICK s \in Nat : \A no \in Nat :
              Tried(i, no, r) => s < no /\ no <= s + n.max_attempts
        BY <3>1 DEF Counted
      <4>2. \A a \in Of(r) : s < a.attempt_no /\ a.attempt_no <= s + n.max_attempts
        BY <2>2, <3>2, <4>1
      <4> QED
        BY <4>2
    <3> QED
      BY <3>3, <3>4, <3>5, <3>6
  <2>4. \A a, b \in All : a.attempt_no = b.attempt_no => a = b
    BY <1>1 DEF CountInv, GivenOnce
  <2>5. {a.attempt_no : a \in All} = 1 .. n.last_attempt_no
    BY <2>1, <2>2, <2>3
  <2>6. Cardinality(All) = n.last_attempt_no
    <3> DEFINE S == All
               f == [a \in S |-> a.attempt_no]
    <3>1. PICK s \in Nat : s = 0
      OBVIOUS
    <3>2. f \in [S -> s + 1 .. s + n.last_attempt_no]
      BY <2>1, <2>2, <2>3, <3>1
    <3>3. \A x, y \in S : f[x] = f[y] => x = y
      BY <2>4
    <3>4. \A no \in s + 1 .. s + n.last_attempt_no : \E x \in S : f[x] = no
      BY <2>1, <2>3, <3>1
    <3> HIDE DEF f, S, n
    <3>5. Cardinality(S) = n.last_attempt_no
      BY <2>1, <3>2, <3>3, <3>4, CountExactly
    <3> QED
      BY <3>5 DEF S
  <2>7. Cardinality(Of(n.run_no)) = n.run_attempt_count
    <3> DEFINE S == Of(n.run_no)
               s == n.last_attempt_no - n.run_attempt_count
               f == [a \in S |-> a.attempt_no]
    <3>1. s \in Nat /\ s + n.run_attempt_count = n.last_attempt_no
      BY <2>1, <2>3
    <3>2. f \in [S -> s + 1 .. s + n.run_attempt_count]
      BY <2>1, <2>2, <2>3, <3>1
    <3>3. \A x, y \in S : f[x] = f[y] => x = y
      BY <2>4
    <3>4. \A no \in s + 1 .. s + n.run_attempt_count : \E x \in S : f[x] = no
      <4> SUFFICES ASSUME NEW no \in s + 1 .. s + n.run_attempt_count
                   PROVE  \E x \in S : f[x] = no
        OBVIOUS
      <4>1. no \in Nat /\ 1 <= no /\ no <= n.last_attempt_no /\ no > s
        BY <2>1, <3>1
      <4>2. PICK a \in All : a.attempt_no = no
        BY <2>3, <4>1
      <4>3. a \in S
        BY <2>3, <4>1, <4>2
      <4> QED
        BY <4>2, <4>3
    <3> HIDE DEF f, S, n, s
    <3>5. Cardinality(S) = n.run_attempt_count
      BY <2>1, <3>1, <3>2, <3>3, <3>4, CountExactly
    <3> QED
      BY <3>5 DEF S
  <2>8. ASSUME NEW r \in 1 .. n.run_no
        PROVE  Cardinality(Of(r)) <= n.max_attempts
    <3> DEFINE S == Of(r)
               f == [a \in S |-> a.attempt_no]
    <3>1. PICK s \in Nat : \A a \in S :
             s < a.attempt_no /\ a.attempt_no <= s + n.max_attempts
      BY <2>1, <2>3
    <3>2. f \in [S -> s + 1 .. s + n.max_attempts]
      BY <2>1, <2>2, <3>1
    <3>3. \A x, y \in S : f[x] = f[y] => x = y
      BY <2>4
    <3> HIDE DEF f, S, n
    <3>4. Cardinality(S) <= n.max_attempts
      BY <2>1, <3>2, <3>3, CountAtMost
    <3> QED
      BY <3>4 DEF S
  <2>9. n.status = "pending" => n.run_attempt_count < n.max_attempts
    BY <2>1 DEF InBudget
  <2> QED
    BY <2>5, <2>6, <2>7, <2>8, <2>9
<1>2. IndInv /\ CountInv => BudgetKept
  BY <1>1
<1> QED
  BY <1>2, Invariance, CountInvariant, PTL
=============================================================================
