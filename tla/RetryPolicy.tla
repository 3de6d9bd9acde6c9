----------------------------- MODULE RetryPolicy -----------------------------
(***************************************************************************)
(* internal/retry/policy.go: what to do with a notification after one      *)
(* delivery, as a pure function of the claimed row, the delivery's result, *)
(* the database clock and the random backoff.                              *)
(***************************************************************************)
EXTENDS Domain

CONSTANTS RetryBase,    \* RETRY_BASE
          RetryMax,     \* RETRY_MAX
          RetryMin,     \* RETRY_MIN
          MaxSeconds    \* the largest delay strconv.ParseInt(_, 10, 32) accepts

ASSUME PolicyAssumption ==
  /\ RetryMin \in Nat \ {0}
  /\ RetryBase \in Nat
  /\ RetryMax \in Nat
  /\ RetryMin <= RetryBase
  /\ RetryBase <= RetryMax
  /\ MaxSeconds \in Nat

-----------------------------------------------------------------------------
(* A Retry-After header: absent (or not parsable), a number of seconds, or *)
(* an HTTP date.                                                           *)
HeaderKind == {"none", "seconds", "date"}
Header == [kind : HeaderKind, amount : Int]
NoHeader == [kind |-> "none", amount |-> 0]

ParseRetryAfter(header, now) ==
  IF header.kind = "seconds" /\ header.amount \in 0 .. MaxSeconds
  THEN now + header.amount
  ELSE IF header.kind = "date" /\ header.amount >= now
       THEN header.amount
       ELSE NoTime

(* The doubling loop: capDuration when it has been entered k - 1 times.    *)
Doubling[k \in Nat] ==
  IF k <= 1
  THEN RetryBase
  ELSE LET c == Doubling[k - 1]
       IN  IF c >= RetryMax
           THEN c
           ELSE IF c > RetryMax \div 2 THEN RetryMax ELSE 2 * c

(* Fault: the loop runs once too often.                                    *)
BackoffCap_OnceMore(k) == Earlier(Doubling[k + 1], RetryMax)

BackoffCap(k) == Earlier(Doubling[k], RetryMax)

(* Fault: the random wait may be zero.                                     *)
Waits_NoMinimum(k) == 0 .. BackoffCap(k)

(* The waits a random factor in [0, 1] can yield, never below RetryMin.    *)
Waits(k) == {Later(w, RetryMin) : w \in 0 .. BackoffCap(k)}

-----------------------------------------------------------------------------
Action == {"succeed", "retry", "stop"}

Decision == [action : Action, next_attempt_at : OptionalInstant,
             stop_reason : StopReason, retry_after : OptionalInstant]

Succeed ==
  [action |-> "succeed", next_attempt_at |-> NoTime,
   stop_reason |-> "", retry_after |-> NoTime]

Stop(reason, retryAfter) ==
  [action |-> "stop", next_attempt_at |-> NoTime,
   stop_reason |-> reason, retry_after |-> retryAfter]

Retry(next, retryAfter) ==
  [action |-> "retry", next_attempt_at |-> next,
   stop_reason |-> "", retry_after |-> retryAfter]

(* Fault: Retry-After is recorded but does not move the next attempt.      *)
RetryOrExpire_BackoffOnly(n, header, now, wait) ==
  IF now + wait > n.expires_at
  THEN Stop("EXPIRED", ParseRetryAfter(header, now))
  ELSE Retry(now + wait, ParseRetryAfter(header, now))

(* Fault: the expiry is looked at before the Retry-After.                  *)
RetryOrExpire_BeforeParsing(n, header, now, wait) ==
  LET retryAfter == ParseRetryAfter(header, now)
  IN  IF now + wait > n.expires_at
      THEN Stop("EXPIRED", retryAfter)
      ELSE Retry(Later(now + wait, retryAfter), retryAfter)

(* Fault: no retry is scheduled unless its longest wait would fit too.     *)
RetryOrExpire_WholeMaximum(n, header, now, wait) ==
  LET retryAfter == ParseRetryAfter(header, now)
      next       == Later(now + wait, retryAfter)
  IN  IF Later(now + RetryMax, retryAfter) > n.expires_at
      THEN Stop("EXPIRED", retryAfter)
      ELSE Retry(next, retryAfter)

(* The later of the backoff and the vendor's Retry-After, unless the       *)
(* notification has expired by then.                                       *)
RetryOrExpire(n, header, now, wait) ==
  LET retryAfter == ParseRetryAfter(header, now)
      next       == Later(now + wait, retryAfter)
  IN  IF next > n.expires_at
      THEN Stop("EXPIRED", retryAfter)
      ELSE Retry(next, retryAfter)

(* Fault: the classification of the answer is forgotten.                   *)
Decide_RetriesRefusals(n, result, now, wait) ==
  IF result.result = "http_success"
  THEN Succeed
  ELSE IF n.run_attempt_count >= n.max_attempts
  THEN Stop("RETRY_EXHAUSTED", NoTime)
  ELSE IF now >= n.expires_at
  THEN Stop("EXPIRED", NoTime)
  ELSE RetryOrExpire(n, result.retry_after, now, wait)

Decide(n, result, now, wait) ==
  IF result.result = "http_success"
  THEN Succeed
  ELSE IF ~result.retryable
  THEN Stop("PERMANENT_ERROR", NoTime)
  ELSE IF n.run_attempt_count >= n.max_attempts
  THEN Stop("RETRY_EXHAUSTED", NoTime)
  ELSE IF now >= n.expires_at
  THEN Stop("EXPIRED", NoTime)
  ELSE RetryOrExpire(n, result.retry_after, now, wait)
=============================================================================
