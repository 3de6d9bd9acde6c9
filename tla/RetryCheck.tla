----------------------------- MODULE RetryCheck -----------------------------
(***************************************************************************)
(* A configuration and the retry policy it yields, against the text of     *)
(* docs/DESIGN.md: a process loads its environment, then Decide is asked   *)
(* about one claimed row, one answer and one clock reading.                *)
(***************************************************************************)
EXTENDS Config, Domain

CONSTANTS MaxSeconds,     \* the largest delay strconv.ParseInt(_, 10, 32) accepts
          Environments,   \* environments of the process
          Counts,         \* values of run_attempt_count
          Limits,         \* values of max_attempts
          Expiries,       \* values of expires_at
          Headers,        \* Retry-After headers
          Clock           \* values of the database clock

VARIABLES env, config, query, decision

vars == <<env, config, query, decision>>

(* worker.New hands the loaded durations to the policy.                    *)
P == INSTANCE RetryPolicy WITH
       RetryBase <- config.settings["RetryBase"],
       RetryMax  <- config.settings["RetryMax"],
       RetryMin  <- config.settings["RetryMin"]

ASSUME CheckAssumption ==
  /\ MaxSeconds \in Nat
  /\ Counts \subseteq Nat \ {0}
  /\ Limits \subseteq Nat \ {0}
  /\ Expiries \subseteq Instant
  /\ Headers \subseteq [kind : {"none", "seconds", "date"}, amount : Int]
  /\ Clock \subseteq Instant
  /\ \A e \in Environments :
       /\ e.settings \in [Setting -> Int \cup {Unset, Garbled}]
       /\ e.targets # Garbled => \A t \in Range(e.targets) : t.max_concurrency \in Int

NotLoaded == [loaded |-> FALSE]
NoQuery == [asked |-> FALSE]
Undecided == [action |-> "undecided"]

Init ==
  /\ env \in Environments
  /\ config = NotLoaded
  /\ query = NoQuery
  /\ decision = Undecided

Start ==
  /\ config = NotLoaded
  /\ config' = Load(env)
  /\ UNCHANGED <<env, query, decision>>

Loaded == config \notin {NotLoaded, Refused}

Ask(n, now, header, result, wait) ==
  /\ n.run_attempt_count <= n.max_attempts
  /\ query' = [n |-> n, now |-> now, header |-> header, wait |-> wait]
  /\ decision' = P!Decide(n, result, now, wait)
  /\ UNCHANGED <<env, config>>

Next ==
  \/ Start
  \/ /\ Loaded
     /\ decision = Undecided
     /\ \E n \in [run_attempt_count : Counts, max_attempts : Limits,
                  expires_at : Expiries],
           now \in Clock, header \in Headers,
           answer \in {"http_success", "http_failure"}, retryable \in BOOLEAN :
          \E wait \in P!Waits(n.run_attempt_count) :
            Ask(n, now, header,
                [result |-> answer, retryable |-> retryable,
                 retry_after |-> header], wait)

Spec == Init /\ [][Next]_vars

-----------------------------------------------------------------------------
(* Configuration                                                           *)

(* What the operator has written is in force: no setting is replaced by a  *)
(* fallback because it is garbled, no entry of a list is overridden by     *)
(* another.  Only a garbled setting that Load does not check gets through, *)
(* as -1 (Load, parseAPIKeys, parseTargets).                               *)
AsWritten ==
  Loaded =>
    /\ \A s \in Setting :
         LET written == env.settings[s]
         IN  \/ config.settings[s] = written
             \/ written = Unset /\ config.settings[s] = Default[s]
             \/ written = Garbled /\ s \in Unchecked
    /\ \A e \in Range(env.keys) \ {Blank} :
         config.keys[e.key] = [caller |-> e.caller, admin |-> e.role = "admin"]
    /\ \A t \in Range(env.targets) : config.targets[t.id] = t

(* What every other module assumes of its constants is so in a process     *)
(* that has started, whatever its environment: the ranges of the policy,   *)
(* of the store, of the workers and of the targets.                        *)
AssumptionsMet ==
  Loaded =>
    LET c == config.settings
    IN  /\ \A s \in Checked : c[s] \in Nat \ {0}
        /\ c["RetryMin"] <= c["RetryBase"] /\ c["RetryBase"] <= c["RetryMax"]
        /\ c["LeaseDuration"] > c["RequestTimeout"]
        /\ DOMAIN config.keys # {} /\ DOMAIN config.targets # {}
        /\ \A t \in DOMAIN config.targets :
             /\ config.targets[t].id = t
             /\ config.targets[t].max_concurrency \in Nat \ {0}

-----------------------------------------------------------------------------
(* The policy                                                              *)

Retries == decision.action = "retry"

Minimum == config.settings["RetryMin"]

(* min(max, base * 2^(k - 1)), in one piece.                               *)
DesignCap(k) ==
  Earlier(config.settings["RetryMax"], config.settings["RetryBase"] * 2 ^ (k - 1))

LongestWait == Later(Minimum, DesignCap(query.n.run_attempt_count))

(* The moment a well-formed Retry-After names; the past when it names none.*)
Asked ==
  IF query.header.kind = "seconds" /\ query.header.amount >= 0
  THEN query.now + query.header.amount
  ELSE IF query.header.kind = "date" THEN query.header.amount ELSE NoTime

(* More seconds than the parser of ParseRetryAfter takes.                  *)
TooManySeconds ==
  query.header.kind = "seconds" /\ query.header.amount > MaxSeconds

(* The doubling loop of Decide, which stops early so as not to overflow,   *)
(* computes the documented bound for every attempt number.                 *)
BackoffMatchesDesign ==
  Loaded => \A k \in Counts : P!BackoffCap(k) = DesignCap(k)

(* A retry is later than the decision by the minimum at least and, unless  *)
(* the vendor asked for more, by the documented bound at most.  A          *)
(* Retry-After that is negative or past falls back to the bound: it        *)
(* neither postpones a retry nor makes it immediate (ParseRetryAfter;      *)
(* docs/DESIGN.md, retries).  For TooManySeconds only the minimum is       *)
(* claimed, since docs/DESIGN.md would have such a run stopped.            *)
RetrySpaced ==
  Retries =>
    LET next == decision.next_attempt_at
    IN  /\ next >= query.now + Minimum /\ next > query.now
        /\ TooManySeconds \/ next <= Later(query.now + LongestWait, Asked)

(* A retry is not scheduled before the moment a Retry-After names, unless  *)
(* it names more seconds than ParseRetryAfter accepts, nor after the       *)
(* notification's expiry: when the two cannot be had together the run stops*)
(* (the last two tests of Decide).                                         *)
RetryInWindow ==
  Retries =>
    /\ decision.next_attempt_at <= query.n.expires_at
    /\ TooManySeconds \/ decision.next_attempt_at >= Asked

(* Nothing is given up early: a retryable failure within the budget is     *)
(* declared expired only when it has expired, or when the wait that was    *)
(* drawn or the moment the vendor asked for ends after the expiry.         *)
ExpiredOnlyWhenLate ==
  decision # Undecided /\ decision.stop_reason = "EXPIRED" =>
    \/ query.now >= query.n.expires_at
    \/ query.now + query.wait > query.n.expires_at
    \/ Asked > query.n.expires_at
=============================================================================
