------------------------------- MODULE Dispatch -------------------------------
(***************************************************************************)
(* The delivery of notifications by several processes over one database:   *)
(* the API's inserts and replays, the workers' claims, deliveries and      *)
(* completions, the scans' recovery, expiry and cleanup, the passing of    *)
(* time, lost commits and crashes.                                         *)
(*                                                                         *)
(* A job is one run of Manager.execute: a goroutine with the row as Claim  *)
(* returned it.  It lives until the goroutine ends or its process dies.    *)
(* Two variables record what happens outside the program: accepted, the    *)
(* attempts whose request the vendor has accepted, and approved, the runs  *)
(* an operator has looked at and asked to replay.                          *)
(***************************************************************************)
EXTENDS Store, Delivery

CONSTANTS Proc,              \* notifier processes
          Workers,           \* WORKERS
          MaxConcurrency,    \* max_concurrency of every target
          Outcomes,          \* the answers Deliver may return
          InsertDelay,       \* longest time between Service.Create's clock
                             \* read and its INSERT
          ClockSkew,         \* process clocks are this close to the database's
          ReplayValidity,    \* bound: how far ahead an operator's expiry lies
          LastRequest,       \* bound: no request arrives after this time
          MaxTime,           \* bound: the clock stops here
          MaxRuns            \* bound: no replay is approved beyond this run

ASSUME DispatchAssumption ==
  /\ Workers \in Nat \ {0}
  /\ MaxConcurrency \in Nat \ {0}
  /\ Outcomes \subseteq Answer
  /\ \A o \in Outcomes : o.evidence = "not_sent" => o.result = "transport_error"
  /\ InsertDelay \in Nat
  /\ InsertDelay < Validity
  /\ ClockSkew \in Nat
  /\ ReplayValidity \in Nat
  /\ LastRequest \in Nat
  /\ MaxTime \in Nat
  /\ MaxRuns \in Nat

VARIABLES job,        \* the running executions of every process
          accepted,   \* <<id, attempt_no>> of requests the vendor accepted
          approved    \* <<id, run_no>> an operator has asked to replay

vars == <<now, notification, attempt, job, accepted, approved>>

-----------------------------------------------------------------------------
(* Jobs                                                                    *)

(* What execute hands to Complete once the delivery is decided.            *)
Completion ==
  [status : {"pending", "succeeded", "failed"},
   next_attempt_at : OptionalInstant, stop_reason : StopReason,
   retry_after : OptionalInstant]

NoCompletion ==
  [status |-> "pending", next_attempt_at |-> NoTime,
   stop_reason |-> "", retry_after |-> NoTime]

(* The part of the answer that Complete stores.                            *)
DeliveryResult ==
  [result : AttemptResult, retryable : BOOLEAN, evidence : Evidence]

NoResult == [result |-> "in_progress", retryable |-> FALSE, evidence |-> ""]

Phase == {"delivering", "completing"}

Job == [proc : Proc, id : Id, n : Row, phase : Phase,
        result : DeliveryResult, completion : Completion]

NewJob(p, i, n) ==
  [proc |-> p, id |-> i, n |-> n, phase |-> "delivering",
   result |-> NoResult, completion |-> NoCompletion]

CompletionOf(d) ==
  [status |-> CASE d.action = "succeed" -> "succeeded"
                [] d.action = "retry"   -> "pending"
                [] d.action = "stop"    -> "failed",
   next_attempt_at |-> d.next_attempt_at,
   stop_reason |-> d.stop_reason,
   retry_after |-> d.retry_after]

Key(j) == <<j.id, j.n.last_attempt_no>>

(* The semaphores global and targets[t] of a process count its executions. *)
JobsOf(p) == {j \in job : j.proc = p}
JobsFor(p, t) == {j \in JobsOf(p) : j.n.target_id = t}

HasSlot(p, t) ==
  /\ Cardinality(JobsOf(p)) < Workers
  /\ Cardinality(JobsFor(p, t)) < MaxConcurrency

(* A random UUID is new: no row and no job has it.                         *)
TokensInUse ==
  {notification[i].lease_token : i \in Id} \cup {j.n.lease_token : j \in job}

-----------------------------------------------------------------------------
TypeOK ==
  /\ StoreTypeOK
  /\ job \subseteq Job
  /\ accepted \subseteq Id \X Nat
  /\ approved \subseteq Id \X Nat

Init ==
  /\ now = 0
  /\ \E t \in Target, m \in AttemptLimits :
       notification = [i \in Id |-> NoRow("absent", t, m)]
  /\ attempt = {}
  /\ job = {}
  /\ accepted = {}
  /\ approved = {}

-----------------------------------------------------------------------------
(* The API                                                                 *)

(* Service.Create reads the database clock, then inserts.                  *)
AcceptNotification(i, t, m, at) ==
  /\ now <= LastRequest
  /\ at >= now - InsertDelay
  /\ Create(i, t, m, at)
  /\ UNCHANGED <<job, accepted, approved>>

(* An operator sees a failed run and asks for another one.  The request    *)
(* may be submitted, retried and delayed at will from then on.             *)
ApproveReplay(i) ==
  /\ notification[i].status = "failed"
  /\ <<i, notification[i].run_no>> \notin approved
  /\ notification[i].run_no < MaxRuns
  /\ approved' = approved \cup {<<i, notification[i].run_no>>}
  /\ UNCHANGED <<storeVars, job, accepted>>

ReplayNotification(i, run, expires, local) ==
  /\ now <= LastRequest
  /\ <<i, run>> \in approved
  /\ Replay(i, run, expires, local)
  /\ UNCHANGED <<job, accepted, approved>>

-----------------------------------------------------------------------------
(* The workers                                                             *)

(* scan takes the two slots, claims, and starts the goroutine.             *)
ClaimNotification(p, i, token) ==
  /\ HasSlot(p, notification[i].target_id)
  /\ token \notin TokensInUse
  /\ Claim(i, token)
  /\ job' = job \cup {NewJob(p, i, notification'[i])}
  /\ UNCHANGED <<accepted, approved>>

(* The commit succeeds but its acknowledgement is lost, or the process     *)
(* dies before it starts the goroutine: nobody delivers this attempt.      *)
ClaimUnacknowledged(p, i, token) ==
  /\ HasSlot(p, notification[i].target_id)
  /\ token \notin TokensInUse
  /\ Claim(i, token)
  /\ UNCHANGED <<job, accepted, approved>>

(* Deliver returns, store.Now is read and the policy decides: all of them  *)
(* look at the snapshot, not at the row.                                   *)
DeliverNotification(j, answer, wait, vendor) ==
  /\ j.phase = "delivering"
  /\ wait \in Waits(j.n.run_attempt_count)
  /\ vendor \in MayBeAccepted(answer)
  /\ job' = (job \ {j}) \cup
              {[j EXCEPT !.phase = "completing",
                         !.result = [result |-> answer.result,
                                     retryable |-> answer.retryable,
                                     evidence |-> answer.evidence],
                         !.completion =
                            CompletionOf(Decide(j.n, answer, now, wait))]}
  /\ accepted' = IF vendor THEN accepted \cup {Key(j)} ELSE accepted
  /\ UNCHANGED <<storeVars, approved>>

CompleteNotification(j) ==
  /\ j.phase = "completing"
  /\ Complete(j.id, j.n, j.result, j.completion)
  /\ job' = job \ {j}
  /\ UNCHANGED <<accepted, approved>>

(* ErrLeaseLost: the result is logged and forgotten.                       *)
RejectCompletion(j) ==
  /\ j.phase = "completing"
  /\ ~ CanComplete(j.id, j.n)
  /\ job' = job \ {j}
  /\ UNCHANGED <<storeVars, accepted, approved>>

(* The clock read or the completion fails in the database: likewise.       *)
AbandonJob(j) ==
  /\ j.phase = "completing"
  /\ job' = job \ {j}
  /\ UNCHANGED <<storeVars, accepted, approved>>

-----------------------------------------------------------------------------
(* The rest of the scan                                                    *)

RecoverLeases(B) ==
  /\ B \in SkipLocked(LeaseExpired, Workers)
  /\ Recover(B)
  /\ UNCHANGED <<job, accepted, approved>>

ExpireNotifications(B) ==
  /\ B \in Limited(PendingExpired, Workers)
  /\ ExpirePending(B)
  /\ UNCHANGED <<job, accepted, approved>>

CleanupNotifications(B) ==
  /\ B \in OldestFinished(Removable, CleanupLimit)
  /\ Cleanup(B)
  /\ UNCHANGED <<job, accepted, approved>>

-----------------------------------------------------------------------------
(* The environment                                                         *)

(* The process dies, by a crash or by the end of the grace period of a     *)
(* shutdown.  Requests on the wire may still reach the vendor.             *)
Crash(p, arrived) ==
  /\ JobsOf(p) # {}
  /\ \A j \in arrived : j.phase = "delivering"
  /\ job' = job \ JobsOf(p)
  /\ accepted' = accepted \cup {Key(j) : j \in arrived}
  /\ UNCHANGED <<storeVars, approved>>

Tick ==
  /\ now < MaxTime
  /\ now' = now + 1
  /\ UNCHANGED <<notification, attempt, job, accepted, approved>>

-----------------------------------------------------------------------------
Next ==
  \/ \E i \in Id, t \in Target, m \in AttemptLimits, at \in 0 .. now :
       AcceptNotification(i, t, m, at)
  \/ \E i \in Id : ApproveReplay(i)
  \/ \E i \in Id, run \in 1 .. MaxRuns,
        expires \in 0 .. now + ReplayValidity,
        local \in now - ClockSkew .. now + ClockSkew :
       ReplayNotification(i, run, expires, local)
  \/ \E p \in Proc, i \in Id, token \in Token : ClaimNotification(p, i, token)
  \/ \E p \in Proc, i \in Id, token \in Token : ClaimUnacknowledged(p, i, token)
  \/ \E j \in job, answer \in Outcomes, vendor \in BOOLEAN :
       \E wait \in Waits(j.n.run_attempt_count) :
         DeliverNotification(j, answer, wait, vendor)
  \/ \E j \in job : CompleteNotification(j)
  \/ \E j \in job : RejectCompletion(j)
  \/ \E j \in job : AbandonJob(j)
  \/ \E B \in SUBSET Id : RecoverLeases(B)
  \/ \E B \in SUBSET Id : ExpireNotifications(B)
  \/ \E B \in SUBSET Id : CleanupNotifications(B)
  \/ \E p \in Proc : \E arrived \in SUBSET JobsOf(p) : Crash(p, arrived)
  \/ Tick

Spec == Init /\ [][Next]_vars

(* Time passes, and one process keeps scanning: while leases have run out  *)
(* some batch of them is recovered, while notifications have expired some  *)
(* batch of them is failed.  Which rows a batch takes is not assumed, nor  *)
(* that anything is ever claimed, delivered or completed.                  *)
Fairness ==
  /\ WF_vars(Tick)
  /\ WF_vars(\E B \in SUBSET Id : RecoverLeases(B))
  /\ WF_vars(\E B \in SUBSET Id : ExpireNotifications(B))

FairSpec == Spec /\ Fairness

-----------------------------------------------------------------------------
(* Safety                                                                  *)

InProgress(a, i) == a.id = i /\ a.result = "in_progress"

LeaseMatches(i) ==
  LET n == notification[i]
  IN  /\ n.status = "processing" <=> n.lease_token # NoToken
      /\ n.status = "processing" <=> n.lease_until # NoTime
      /\ n.status = "processing" <=> \E a \in attempt : InProgress(a, i)
      /\ \A a \in attempt : InProgress(a, i) =>
           a.attempt_no = n.last_attempt_no /\ a.run_no = n.run_no

(* The two tables agree about who is being delivered: a row carries a      *)
(* lease exactly while it is processing, and exactly then it has an open   *)
(* attempt, its last one (Claim, Complete and Recover each change both     *)
(* tables).                                                                *)
LeaseMatchesAttempt == \A i \in Id : LeaseMatches(i)

(* A job that still holds the lease decides on current data: whatever      *)
(* happened during its HTTP call, the row is the snapshot Claim gave it    *)
(* (execute never reads the row again before Complete).                    *)
SnapshotFresh ==
  \A j \in job :
    notification[j.id].lease_token = j.n.lease_token => notification[j.id] = j.n

(* Nobody takes an execution's lease away before it has run out, whether   *)
(* by recovery or by a worker that comes late: two executions of one       *)
(* notification overlap only when the first has outlived its lease         *)
(* (lease_until in Recover, lease_token in Complete).                      *)
LeaseKeptToItsEnd ==
  \A j \in job :
    \/ notification[j.id].lease_token = j.n.lease_token
    \/ j.n.lease_until <= now

(* Attempts are numbered without a gap over all runs, run_attempt_count    *)
(* counts those of the present run, no run exceeds max_attempts, and a     *)
(* pending notification can always still be claimed: recoveries spend the  *)
(* budget as answers do, and a replay renews it (docs/DESIGN.md, retries). *)
BudgetKept ==
  \A i \in Id :
    LET n        == notification[i]
        Of(r)    == {a \in attempt : a.id = i /\ a.run_no = r}
    IN  /\ {a.attempt_no : a \in {b \in attempt : b.id = i}} = 1 .. n.last_attempt_no
        /\ Cardinality({a \in attempt : a.id = i}) = n.last_attempt_no
        /\ Cardinality(Of(n.run_no)) = n.run_attempt_count
        /\ \A r \in 1 .. n.run_no : Cardinality(Of(r)) <= n.max_attempts
        /\ n.status = "pending" => n.run_attempt_count < n.max_attempts

(* The history never contradicts the vendor: an attempt recorded as        *)
(* successful was accepted, and one recorded as not sent was not, even     *)
(* when a crash or a lost lease hides the answer (delivery_evidence in     *)
(* Complete and Recover).                                                  *)
VendorTruth ==
  \A a \in attempt :
    LET key == <<a.id, a.attempt_no>>
    IN  /\ a.result = "http_success" => key \in accepted
        /\ a.evidence = "not_sent" => key \notin accepted

(* At least once and no worse: a request is sent again only when the       *)
(* attempt before it is over, was no success, and either left room for a   *)
(* retry or ended a run that an operator has asked to replay; whichever    *)
(* process, worker or recovery closed it (docs/DESIGN.md, retries).        *)
ResentOnlyIfOpen ==
  \A a, b \in attempt :
    a.id = b.id /\ a.attempt_no < b.attempt_no =>
      /\ a.result \notin {"in_progress", "http_success"}
      /\ \/ a.run_no = b.run_no /\ a.retryable
         \/ a.run_no < b.run_no /\ <<a.id, a.run_no>> \in approved

(* A final status can be explained from the attempts: success by the last  *)
(* attempt's 2xx, a permanent error by the last attempt's refusal,         *)
(* exhaustion by a spent budget, expiry by one that was not spent.  A run  *)
(* that has failed contains no success.                                    *)
StopReasonTrue ==
  \A i \in Id :
    LET n       == notification[i]
        Last(R) == \E a \in attempt :
                     /\ a.id = i /\ a.attempt_no = n.last_attempt_no
                     /\ a.run_no = n.run_no /\ a.result \in R
    IN  /\ n.status = "succeeded" => Last({"http_success"})
        /\ n.status = "failed" =>
             \A a \in attempt : a.id = i => a.result # "http_success"
        /\ n.status = "failed" <=> n.stop_reason # ""
        /\ n.stop_reason = "PERMANENT_ERROR" =>
             Last({"http_failure", "transport_error"})
        /\ n.stop_reason = "RETRY_EXHAUSTED" =>
             n.run_attempt_count = n.max_attempts
        /\ n.stop_reason = "EXPIRED" => n.run_attempt_count < n.max_attempts
        /\ n.status \in Terminal <=> n.finished_at # NoTime

(* Every run beyond the first was opened by a request that named the run   *)
(* before it: repeated, late or concurrent replay requests open no run     *)
(* nobody asked for (expected_run in Replay).                              *)
ReplayAuthorised ==
  \A i \in Id :
    LET n == notification[i]
    IN  /\ \A r \in 1 .. n.run_no - 1 : <<i, r>> \in approved
        /\ n.replay_history = [k \in 1 .. Len(n.replay_history) |-> k + 1]
        /\ n.run_no > 0 => Len(n.replay_history) = n.run_no - 1

-----------------------------------------------------------------------------
(* What a step may not do                                                  *)

(* The result of a finished attempt is final until its notification is     *)
(* removed: no late worker and no recovery rewrites it.                    *)
FinishedAttemptsKept ==
  [][\A a \in attempt :
       a.result # "in_progress" =>
         a \in attempt' \/ notification'[a.id].status = "deleted"]_vars

(* No attempt starts before a moment that is recorded as the vendor's wish *)
(* with an earlier attempt of the same run, whichever process claims it    *)
(* (Decide, Complete, Claim).  What of a wish that is not recorded is the  *)
(* subject of RetryAfterHonoured.                                          *)
RetryAfterRespected ==
  [][\A i \in Id :
       notification'[i].last_attempt_no > notification[i].last_attempt_no =>
         \A a \in attempt :
           a.id = i /\ a.run_no = notification[i].run_no =>
             a.retry_after <= now]_vars

(* What docs/DESIGN.md asks for: the same of every Retry-After that was    *)
(* read, also when the worker that read it has lost its lease before its   *)
(* Complete and the header was not recorded.                               *)
RetryAfterHonoured ==
  [][\A j \in job :
       LET n == notification[j.id]
       IN  /\ j.phase = "completing" /\ j.n.run_no = n.run_no
           /\ notification'[j.id].last_attempt_no > n.last_attempt_no
           => j.completion.retry_after <= now]_vars

(* The lifecycle of a notification as its row shows it.                    *)
View(n) ==
  [status |-> n.status, run |-> n.run_no, spent |-> n.run_attempt_count,
   limit |-> n.max_attempts, reason |-> n.stop_reason]

lifecycle == [i \in Id |-> View(notification[i])]

L == INSTANCE Lifecycle WITH Id <- Id, Limit <- AttemptLimits, life <- lifecycle

(* Whatever the interleaving, every step of the system moves every         *)
(* notification along an edge of the documented state diagram, within its  *)
(* budget and with a reason that fits (docs/DESIGN.md, states).            *)
FollowsLifecycle == L!Spec

-----------------------------------------------------------------------------
(* Liveness                                                                *)

(* Every accepted notification stops being active, although its workers    *)
(* may all die and its vendor may never answer.                            *)
EventuallyStops ==
  \A i \in Id : notification[i].status \in Active
                  ~> notification[i].status \notin Active
=============================================================================
