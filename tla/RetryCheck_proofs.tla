-------------------------- MODULE RetryCheck_proofs --------------------------
(***************************************************************************)
(* What Load accepts, what the doubling loop computes, and when a retry is *)
(* scheduled, for every environment, header, clock and expiry.             *)
(***************************************************************************)
EXTENDS RetryCheck, Induction

(* What is known of an accepted configuration when its maker is forgotten. *)
Accepted(c) ==
  /\ c.settings \in [Setting -> Int]
  /\ Sound(c.settings)
  /\ DOMAIN c.keys # {} /\ DOMAIN c.targets # {}
  /\ \A t \in DOMAIN c.targets :
       c.targets[t].id = t /\ c.targets[t].max_concurrency \in Nat \ {0}

(* Load parses every setting to an integer, and accepts none but sound     *)
(* ones.                                                                   *)
LEMMA LoadAccepts ==
  ASSUME NEW e \in Environments, Load(e) # Refused
  PROVE  Accepted(Load(e))
<1> DEFINE settings == [s \in Setting |-> Parsed(e.settings[s], s)]
           keys     == Principals(e.keys)
           targets  == Targets(e.targets)
<1>1. /\ targets # Refused
      /\ DOMAIN keys # {} /\ DOMAIN targets # {}
      /\ Sound(settings)
      /\ Load(e) = [settings |-> settings, keys |-> keys, targets |-> targets]
  BY DEF Load
<1>2. settings \in [Setting -> Int]
  <2>1. ASSUME NEW s \in Setting PROVE Parsed(e.settings[s], s) \in Int
    <3>1. Default[s] \in Int /\ e.settings[s] \in Int \cup {Unset, Garbled}
      BY ConfigAssumption, CheckAssumption
    <3> QED
      BY <3>1 DEF Parsed
  <2> QED
    BY <2>1
<1>3. ASSUME NEW i \in DOMAIN targets
      PROVE  targets[i].id = i /\ targets[i].max_concurrency \in Nat \ {0}
  <2>1. /\ e.targets # Garbled
        /\ \A t \in Range(e.targets) : ~Incomplete(t)
        /\ targets = [k \in {t.id : t \in Range(e.targets)} |->
                        CHOOSE t \in Range(e.targets) : t.id = k]
    BY <1>1 DEF Targets
  <2>2. PICK u \in Range(e.targets) : u.id = i
    BY <2>1
  <2>3. targets[i] = CHOOSE t \in Range(e.targets) : t.id = i
    BY <2>1
  <2>4. targets[i] \in Range(e.targets) /\ targets[i].id = i
    BY <2>2, <2>3
  <2>5. targets[i].max_concurrency \in Int
    BY <2>1, <2>4, CheckAssumption
  <2>6. ~Incomplete(targets[i])
    BY <2>1, <2>4
  <2> HIDE DEF targets
  <2>7. ~(targets[i].max_concurrency < 1)
    BY <2>6 DEF Incomplete
  <2> QED
    BY <2>4, <2>5, <2>7
<1> QED
  BY <1>1, <1>2, <1>3 DEF Accepted

(* No setting Load looks at is below one.                                  *)
LEMMA CheckedPositive ==
  ASSUME NEW c \in [Setting -> Int], Sound(c), NEW s \in Checked
  PROVE  c[s] >= 1
<1>1. \A t \in Positive : c[t] >= 1
  BY DEF Sound
<1>2. /\ c["MaxEnvelopeBytes"] >= c["MaxBodyBytes"]
      /\ c["LeaseDuration"] > c["RequestTimeout"]
      /\ c["RetryMin"] <= c["RetryBase"] /\ c["RetryBase"] <= c["RetryMax"]
  BY DEF Sound
<1>3. {"MaxBodyBytes", "RequestTimeout", "RetryMin"} \subseteq Positive
  BY DEF Positive, Checked
<1>4. \A t \in {"MaxEnvelopeBytes", "LeaseDuration", "RetryBase", "RetryMax",
               "MaxBodyBytes", "RequestTimeout", "RetryMin"} : c[t] \in Int
  BY DEF Setting, Checked
<1>5. /\ c["MaxEnvelopeBytes"] >= 1 /\ c["LeaseDuration"] >= 1
      /\ c["RetryBase"] >= 1 /\ c["RetryMax"] >= 1
  BY <1>1, <1>2, <1>3, <1>4
<1>6. s \in Positive \/ s \in {"MaxEnvelopeBytes", "LeaseDuration", "RetryBase", "RetryMax"}
  BY DEF Positive
<1> QED
  BY <1>1, <1>5, <1>6

(* No two entries for one key are accepted, nor two targets of one name:   *)
(* what is chosen for the key or the name is the entry that has it.        *)
LEMMA LoadKeepsLists ==
  ASSUME NEW e \in Environments, Load(e) # Refused
  PROVE  /\ \A x \in Range(e.keys) \ {Blank} :
              Load(e).keys[x.key] = [caller |-> x.caller, admin |-> x.role = "admin"]
         /\ \A t \in Range(e.targets) : Load(e).targets[t.id] = t
<1> DEFINE keys    == Principals(e.keys)
           targets == Targets(e.targets)
           given   == Range(e.keys) \ {Blank}
<1>1. keys # Refused /\ targets # Refused
      /\ Load(e).keys = keys /\ Load(e).targets = targets
  BY DEF Load
<1>2. ASSUME NEW x \in given
      PROVE  keys[x.key] = [caller |-> x.caller, admin |-> x.role = "admin"]
  <2> DEFINE Of(k) == CHOOSE y \in given : y.key = k
  <2>1. /\ ~KeyTwice(e.keys)
        /\ keys = [k \in {y.key : y \in given} |->
                     [caller |-> Of(k).caller, admin |-> Of(k).role = "admin"]]
    BY <1>1 DEF Principals
  <2>2. ASSUME NEW y \in given, y.key = x.key PROVE y = x
    <3>1. PICK i \in DOMAIN e.keys : e.keys[i] = x
      BY DEF Range
    <3>2. PICK j \in DOMAIN e.keys : e.keys[j] = y
      BY DEF Range
    <3> QED
      BY <2>1, <2>2, <3>1, <3>2 DEF KeyTwice
  <2>3. Of(x.key) = x
    BY <2>2
  <2>4. keys[x.key] = [caller |-> Of(x.key).caller, admin |-> Of(x.key).role = "admin"]
    BY <2>1
  <2> QED
    BY <2>3, <2>4
<1>3. ASSUME NEW t \in Range(e.targets) PROVE targets[t.id] = t
  <2> DEFINE Of(k) == CHOOSE u \in Range(e.targets) : u.id = k
  <2>1. /\ \A i, j \in DOMAIN e.targets : i # j => e.targets[i].id # e.targets[j].id
        /\ targets = [k \in {u.id : u \in Range(e.targets)} |-> Of(k)]
    BY <1>1 DEF Targets
  <2>2. ASSUME NEW u \in Range(e.targets), u.id = t.id PROVE u = t
    <3>1. PICK i \in DOMAIN e.targets : e.targets[i] = t
      BY DEF Range
    <3>2. PICK j \in DOMAIN e.targets : e.targets[j] = u
      BY DEF Range
    <3> QED
      BY <2>1, <2>2, <3>1, <3>2
  <2>3. Of(t.id) = t
    BY <2>2
  <2> QED
    BY <2>1, <2>3
<1> QED
  BY <1>1, <1>2, <1>3

-----------------------------------------------------------------------------
(* The doubling loop                                                       *)

Base == config.settings["RetryBase"]
Cap  == config.settings["RetryMax"]

LEMMA Ranges ==
  ASSUME Accepted(config)
  PROVE  /\ Base \in Nat \ {0} /\ Cap \in Nat \ {0} /\ Minimum \in Nat \ {0}
         /\ Minimum <= Base /\ Base <= Cap
<1>1. /\ {"RetryMin", "RetryBase", "RetryMax"} \subseteq Checked
      /\ Checked \subseteq Setting
  BY DEF Checked, Setting
<1>2. config.settings \in [Setting -> Int] /\ Sound(config.settings)
  BY DEF Accepted
<1>3. /\ Base \in Int /\ Cap \in Int /\ Minimum \in Int
      /\ Base >= 1 /\ Cap >= 1 /\ Minimum >= 1
  BY <1>1, <1>2, CheckedPositive DEF Base, Cap, Minimum
<1>4. Minimum <= Base /\ Base <= Cap
  BY <1>2 DEF Sound, Base, Cap, Minimum
<1> QED
  BY <1>3, <1>4

(* One turn of the loop.                                                   *)
Turn(c) == IF c >= Cap THEN c ELSE IF c > Cap \div 2 THEN Cap ELSE 2 * c

(* The loop starts with the base and takes a turn for every further        *)
(* attempt.                                                                *)
LEMMA DoublingTurns ==
  ASSUME Accepted(config)
  PROVE  /\ P!Doubling[1] = Base
         /\ \A k \in Nat \ {0} : P!Doubling[k + 1] = Turn(P!Doubling[k])
<1> DEFINE g == [k \in Nat |-> [c \in Nat |-> IF k + 1 <= 1 THEN Base ELSE Turn(c)]]
           Body(f) == [k \in Nat |->
             IF k <= 1
             THEN Base
             ELSE LET c == f[k - 1]
                  IN  IF c >= Cap THEN c ELSE IF c > Cap \div 2 THEN Cap ELSE 2 * c]
           d == CHOOSE f : f = Body(f)
<1>1. Base \in Nat /\ Cap \in Nat
  BY Ranges
<1>2. g \in Steps(Nat, Nat)
  <2>1. \A c \in Nat : Turn(c) \in Nat
    BY <1>1 DEF Turn
  <2> HIDE DEF g
  <2>2. \A k, c \in Nat : (IF k + 1 <= 1 THEN Base ELSE Turn(c)) \in Nat
    BY <1>1, <2>1
  <2>3. [k \in Nat |-> [c \in Nat |-> IF k + 1 <= 1 THEN Base ELSE Turn(c)]]
          \in [Nat -> [Nat -> Nat]]
    BY <2>2
  <2> QED
    BY <2>3 DEF g, Steps
<1> HIDE DEF g
<1>3. PICK f : Iterates(f, Nat, Base, g)
  BY <1>1, <1>2, NumberRecursion
<1>4. f = Body(f)
  <2>1. f = [k \in Nat |-> f[k]] /\ f[0] = Base
    BY <1>3 DEF Iterates
  <2>2. ASSUME NEW k \in Nat \ {0}
        PROVE  f[k] = IF k <= 1 THEN Base ELSE Turn(f[k - 1])
    <3> DEFINE n == k - 1
    <3>1. n \in Nat /\ n + 1 = k
      OBVIOUS
    <3> HIDE DEF n
    <3>2. f[n] \in Nat /\ f[n + 1] = g[n][f[n]]
      BY <1>3, <3>1 DEF Iterates
    <3>3. f[n + 1] = IF n + 1 <= 1 THEN Base ELSE Turn(f[n])
      BY <3>1, <3>2 DEF g
    <3> QED
      BY <3>1, <3>3 DEF n
  <2>3. \A k \in Nat : f[k] = IF k <= 1 THEN Base ELSE Turn(f[k - 1])
    <3>1. \A k \in Nat : k = 0 => f[k] = Base /\ k <= 1
      BY <2>1
    <3> QED
      BY <2>2, <3>1
  <2> HIDE DEF Base, Cap
  <2> QED
    BY <2>1, <2>3 DEF Turn
<1>5. d = Body(d)
  <2> HIDE DEF Body
  <2> QED
    BY <1>4
<1>6. P!Doubling = d
  BY DEF P!Doubling, Base, Cap
<1> HIDE DEF d, Base, Cap
<1>7. d[1] = Base
  BY <1>5
<1>8. ASSUME NEW k \in Nat \ {0} PROVE d[k + 1] = Turn(d[k])
  <2>1. k + 1 \in Nat /\ ~(k + 1 <= 1) /\ (k + 1) - 1 = k
    OBVIOUS
  <2>2. d[k + 1] = Body(d)[k + 1]
    BY <1>5
  <2> QED
    BY <2>1, <2>2 DEF Turn
<1> HIDE DEF Turn
<1> QED
  BY <1>6, <1>7, <1>8

(* After k - 1 turns the delay is base * 2^(k - 1), or the cap when that   *)
(* is no less.                                                             *)
Doubled(k) ==
  LET power == Base * 2^(k - 1)
  IN  /\ P!Doubling[k] \in Nat /\ P!Doubling[k] <= Cap
      /\ P!Doubling[k] = power \/ (P!Doubling[k] = Cap /\ power >= Cap)

LEMMA DoublingPower ==
  ASSUME Accepted(config), NEW k \in Nat \ {0}
  PROVE  Doubled(k) /\ Base * 2^(k - 1) \in Nat
<1> DEFINE power(n) == Base * 2^n
           C == {n \in Nat : Doubled(n + 1)}
<1>1. Base \in Nat \ {0} /\ Cap \in Nat \ {0} /\ Base <= Cap
  BY Ranges
<1>2. power(0) = Base /\ \A n \in Nat : power(n) \in Nat /\ power(n + 1) = 2 * power(n)
  <2>1. 2^0 = 1 /\ \A n \in Nat : 2^n \in Nat /\ 2^(n + 1) = 2 * 2^n
    BY PowerOfTwo
  <2>2. \A b, q \in Nat : b * q \in Nat /\ b * (2 * q) = 2 * (b * q) /\ b * 1 = b
    OBVIOUS
  <2> QED
    BY <1>1, <2>1, <2>2
<1>3. \A n \in Nat : (n + 1) - 1 = n /\ n + 1 \in Nat \ {0}
  OBVIOUS
<1>4. \A n \in Nat : Doubled(n + 1) <=>
        /\ P!Doubling[n + 1] \in Nat /\ P!Doubling[n + 1] <= Cap
        /\ P!Doubling[n + 1] = power(n) \/ (P!Doubling[n + 1] = Cap /\ power(n) >= Cap)
  BY <1>3 DEF Doubled
<1> HIDE DEF power
<1>5. 0 \in C
  <2>1. P!Doubling[0 + 1] = Base
    BY DoublingTurns
  <2> QED
    BY <1>1, <1>2, <1>4, <2>1
<1>6. ASSUME NEW n \in Nat, n \in C PROVE n + 1 \in C
  <2> DEFINE c == P!Doubling[n + 1]
             x == power(n)
  <2>1. c \in Nat /\ c <= Cap /\ (c = x \/ (c = Cap /\ x >= Cap)) /\ x \in Nat
    BY <1>2, <1>4, <1>6
  <2>2. P!Doubling[(n + 1) + 1] = Turn(c) /\ power(n + 1) = 2 * x
    BY <1>2, <1>3, DoublingTurns
  <2> HIDE DEF c, x
  <2>3. /\ Turn(c) \in Nat /\ Turn(c) <= Cap
        /\ Turn(c) = 2 * x \/ (Turn(c) = Cap /\ 2 * x >= Cap)
    BY <1>1, <2>1 DEF Turn
  <2> QED
    BY <1>3, <1>4, <2>2, <2>3
<1>7. Nat \subseteq C
  <2> HIDE DEF C
  <2> QED
    BY <1>5, <1>6, NumberInduction
<1>8. k - 1 \in Nat /\ (k - 1) + 1 = k
  OBVIOUS
<1>9. Doubled(k)
  BY <1>7, <1>8
<1>10. power(k - 1) \in Nat
  BY <1>2, <1>8
<1> QED
  BY <1>9, <1>10 DEF power

(* The loop, which stops early, computes the documented bound.             *)
LEMMA CapIsDocumented ==
  ASSUME Accepted(config), NEW k \in Nat \ {0}
  PROVE  P!BackoffCap(k) = DesignCap(k) /\ DesignCap(k) \in Nat
<1> DEFINE x == Base * 2^(k - 1)
           d == P!Doubling[k]
<1>1. /\ d \in Nat /\ d <= Cap /\ (d = x \/ (d = Cap /\ x >= Cap)) /\ x \in Nat
  BY DoublingPower DEF Doubled
<1>2. P!BackoffCap(k) = (IF d < Cap THEN d ELSE Cap)
      /\ DesignCap(k) = (IF Cap < x THEN Cap ELSE x)
  BY DEF P!BackoffCap, P!Earlier, DesignCap, Earlier, Base, Cap
<1>3. Cap \in Nat
  BY Ranges
<1> HIDE DEF x, d
<1> QED
  BY <1>1, <1>2, <1>3

-----------------------------------------------------------------------------
(* A random wait is an integer between the minimum and the longest wait.   *)
Longest(k) == Later(Minimum, DesignCap(k))

LEMMA WaitBounds ==
  ASSUME Accepted(config), NEW k \in Nat \ {0}, NEW wait \in P!Waits(k)
  PROVE  /\ wait \in Int /\ wait >= Minimum /\ Minimum \in Nat \ {0}
         /\ Longest(k) \in Nat /\ wait <= Longest(k)
<1>1. Minimum \in Nat \ {0}
  BY Ranges
<1>2. P!BackoffCap(k) = DesignCap(k) /\ DesignCap(k) \in Nat
  BY CapIsDocumented
<1>3. PICK w \in 0 .. P!BackoffCap(k) : wait = P!Later(w, Minimum)
  BY DEF P!Waits, Minimum
<1>4. w \in Int /\ w <= DesignCap(k)
  BY <1>2, <1>3
<1> QED
  BY <1>1, <1>2, <1>3, <1>4 DEF P!Later, Longest, Later

(* What Decide gives, by the tests it makes in order: it does not retry,   *)
(* and calls a notification expired only when it is; or it weighs the wait *)
(* and the Retry-After against the expiry.                                 *)
LEMMA Decided ==
  ASSUME NEW n, NEW now, NEW result, NEW wait
  PROVE  LET d == P!Decide(n, result, now, wait)
         IN  \/ /\ d.action # "retry"
                /\ d.stop_reason = "EXPIRED" => now >= n.expires_at
             \/ d = P!RetryOrExpire(n, result.retry_after, now, wait)
BY DEF P!Decide, P!Succeed, P!Stop

-----------------------------------------------------------------------------
(* The invariant: a started process runs with what its environment loads   *)
(* to, which Load accepts, and every decision has kept the window.         *)
Started == Loaded => config = Load(env) /\ Load(env) # Refused

Kept == RetryInWindow /\ RetrySpaced /\ ExpiredOnlyWhenLate

Window ==
  /\ env \in Environments
  /\ Started /\ Kept
  /\ config = NotLoaded => decision = Undecided

LEMMA StartedAccepts == Window /\ Loaded => Accepted(config)
BY LoadAccepts DEF Window, Started

LEMMA WindowInit == Init => Window
BY DEF Init, Window, Started, Kept, Loaded, RetryInWindow, RetrySpaced,
       ExpiredOnlyWhenLate, Retries, Undecided

(* Kept says nothing of a process that has decided nothing.                *)
LEMMA WindowStart ==
  ASSUME Window, Start
  PROVE  Window'
<1>1. /\ config' = Load(env) /\ UNCHANGED <<env, query, decision>>
      /\ decision = Undecided
  BY DEF Start, Window
<1>2. Started'
  BY <1>1 DEF Started, Loaded
<1>3. Kept'
  BY <1>1 DEF Kept, RetryInWindow, RetrySpaced, ExpiredOnlyWhenLate, Retries, Undecided
<1> QED
  BY <1>1, <1>2, <1>3 DEF Window

(* What ParseRetryAfter gives is the moment asked for or, when that is     *)
(* past or too far for the parser, none.                                   *)
LEMMA ParsedOrNone ==
  ASSUME NEW n, NEW now \in Clock, NEW header \in Headers, NEW wait,
         query' = [n |-> n, now |-> now, header |-> header, wait |-> wait]
  PROVE  LET parsed == P!ParseRetryAfter(header, now)
         IN  /\ parsed \in Int /\ Asked' \in Int
             /\ TooManySeconds' => parsed = NoTime
             /\ \/ parsed = Asked'
                \/ parsed = NoTime /\ (TooManySeconds' \/ Asked' < now)
<1> DEFINE parsed == P!ParseRetryAfter(header, now)
           h == header
<1>1. /\ now \in Nat /\ h.amount \in Int /\ MaxSeconds \in Nat
      /\ h.kind \in {"none", "seconds", "date"}
  BY CheckAssumption DEF Instant
<1>2. /\ Asked' = IF h.kind = "seconds" /\ h.amount >= 0
                 THEN now + h.amount
                 ELSE IF h.kind = "date" THEN h.amount ELSE NoTime
      /\ TooManySeconds' <=> (h.kind = "seconds" /\ h.amount > MaxSeconds)
  BY DEF Asked, TooManySeconds
<1>3. CASE h.kind = "none"
  BY <1>1, <1>2, <1>3 DEF P!ParseRetryAfter, NoTime, P!NoTime
<1>4. CASE h.kind = "seconds"
  <2>1. parsed = IF h.amount \in 0 .. MaxSeconds THEN now + h.amount ELSE -1
    BY <1>4 DEF P!ParseRetryAfter, P!NoTime
  <2>2. Asked' = IF h.amount >= 0 THEN now + h.amount ELSE -1
    BY <1>2, <1>4 DEF NoTime
  <2>3. TooManySeconds' <=> h.amount > MaxSeconds
    BY <1>2, <1>4
  <2> HIDE DEF parsed, h
  <2>4. /\ parsed \in Int /\ Asked' \in Int
        /\ TooManySeconds' => parsed = -1
        /\ parsed = Asked' \/ (parsed = -1 /\ TooManySeconds')
    BY <1>1, <2>1, <2>2, <2>3
  <2> QED
    BY <2>4 DEF parsed, NoTime
<1>5. CASE h.kind = "date"
  BY <1>1, <1>2, <1>5 DEF P!ParseRetryAfter, NoTime, P!NoTime
<1> QED
  BY <1>1, <1>3, <1>4, <1>5

(* The three rules, of one decision: the wait lies between the minimum and *)
(* the longest wait, and the answer asked for a moment or none.            *)
LEMMA DecisionKeeps ==
  ASSUME Accepted(config),
         NEW n \in [run_attempt_count : Counts, max_attempts : Limits,
                    expires_at : Expiries],
         NEW now \in Clock, NEW header \in Headers, NEW answer, NEW retryable,
         NEW wait \in P!Waits(n.run_attempt_count),
         query' = [n |-> n, now |-> now, header |-> header, wait |-> wait],
         decision' = P!Decide(n, [result |-> answer, retryable |-> retryable,
                                  retry_after |-> header], now, wait),
         UNCHANGED config
  PROVE  Kept'
<1> DEFINE parsed == P!ParseRetryAfter(header, now)
           next   == P!Later(now + wait, parsed)
           most   == Longest(n.run_attempt_count)
<1>1. now \in Nat /\ n.expires_at \in Nat /\ n.run_attempt_count \in Nat \ {0}
  BY CheckAssumption DEF Instant
<1>2. /\ wait \in Int /\ wait >= Minimum /\ Minimum \in Nat \ {0}
      /\ most \in Nat /\ wait <= most
  BY <1>1, WaitBounds
<1>3. /\ parsed \in Int /\ Asked' \in Int
      /\ TooManySeconds' => parsed = -1
      /\ parsed = Asked' \/ (parsed = -1 /\ (TooManySeconds' \/ Asked' < now))
  BY ParsedOrNone DEF NoTime
<1>4. /\ LongestWait' = most /\ Minimum' = Minimum
      /\ query'.now = now /\ query'.n.expires_at = n.expires_at
      /\ query'.wait = wait
  <2>1. /\ query'.n = n /\ query'.now = now /\ query'.wait = wait
        /\ Minimum' = Minimum
    BY DEF Minimum
  <2>2. LongestWait' = Later(Minimum, DesignCap(n.run_attempt_count))
    BY <2>1 DEF LongestWait, DesignCap, Later
  <2> QED
    BY <2>1, <2>2 DEF Longest
<1>5. \/ /\ decision'.action # "retry"
         /\ decision'.stop_reason = "EXPIRED" => now >= n.expires_at
      \/ decision' = P!RetryOrExpire(n, header, now, wait)
  BY Decided
<1>6. decision' = P!RetryOrExpire(n, header, now, wait) =>
        IF next > n.expires_at
        THEN decision'.action = "stop"
        ELSE /\ decision'.action = "retry" /\ decision'.next_attempt_at = next
             /\ decision'.stop_reason = ""
  <2>1. CASE next > n.expires_at
    <3>1. P!RetryOrExpire(n, header, now, wait) = P!Stop("EXPIRED", parsed)
      BY <2>1 DEF P!RetryOrExpire
    <3>2. P!Stop("EXPIRED", parsed).action = "stop"
      BY DEF P!Stop
    <3> QED
      BY <2>1, <3>1, <3>2
  <2>2. CASE ~(next > n.expires_at)
    <3>1. P!RetryOrExpire(n, header, now, wait) = P!Retry(next, parsed)
      BY <2>2 DEF P!RetryOrExpire
    <3>2. /\ P!Retry(next, parsed).action = "retry"
          /\ P!Retry(next, parsed).next_attempt_at = next
          /\ P!Retry(next, parsed).stop_reason = ""
      BY DEF P!Retry
    <3> QED
      BY <2>2, <3>1, <3>2
  <2> QED
    BY <2>1, <2>2
<1>7. next = IF now + wait < parsed THEN parsed ELSE now + wait
  BY DEF P!Later
<1> HIDE DEF parsed, next, most
<1>8. next \in Int
  BY <1>1, <1>2, <1>3, <1>7
<1>9. ASSUME Retries' PROVE RetryInWindow' /\ RetrySpaced'
  <2>1. decision'.next_attempt_at = next /\ next <= n.expires_at
    <3>1. decision'.action = "retry"
      BY <1>9 DEF Retries
    <3>2. decision' = P!RetryOrExpire(n, header, now, wait)
      BY <1>5, <3>1
    <3>3. ~(next > n.expires_at)
      BY <1>6, <3>1, <3>2
    <3>4. decision'.next_attempt_at = next
      BY <1>6, <3>2, <3>3
    <3> QED
      BY <1>1, <1>8, <3>3, <3>4
  <2>2. TooManySeconds' \/ next >= Asked'
    BY <1>1, <1>2, <1>3, <1>7
  <2>3. next >= now + Minimum /\ next > now
    BY <1>1, <1>2, <1>3, <1>7
  <2>4. CASE TooManySeconds'
    <3>1. next <= now + most
      BY <1>1, <1>2, <1>3, <1>7, <2>4
    <3> QED
      BY <1>4, <2>1, <2>2, <2>3, <2>4, <3>1 DEF RetryInWindow, RetrySpaced
  <2>5. CASE ~TooManySeconds'
    <3>1. next <= Later(now + most, Asked')
      BY <1>1, <1>2, <1>3, <1>7, <2>5 DEF Later
    <3> QED
      BY <1>4, <2>1, <2>2, <2>3, <2>5, <3>1 DEF RetryInWindow, RetrySpaced
  <2> QED
    BY <2>4, <2>5
<1>10. ASSUME decision'.stop_reason = "EXPIRED" PROVE ExpiredOnlyWhenLate'
  <2>1. now >= n.expires_at \/ next > n.expires_at
    BY <1>5, <1>6, <1>10
  <2>2. \/ Asked' > n.expires_at \/ now + wait > n.expires_at
        \/ now >= n.expires_at
    BY <1>1, <1>2, <1>3, <1>7, <2>1
  <2> QED
    BY <1>4, <2>2 DEF ExpiredOnlyWhenLate
<1> QED
  BY <1>9, <1>10 DEF Kept, RetryInWindow, RetrySpaced, ExpiredOnlyWhenLate

LEMMA WindowAsk ==
  ASSUME Window, Loaded,
         NEW n \in [run_attempt_count : Counts, max_attempts : Limits,
                    expires_at : Expiries],
         NEW now \in Clock, NEW header \in Headers, NEW answer, NEW retryable,
         NEW wait \in P!Waits(n.run_attempt_count),
         Ask(n, now, header,
             [result |-> answer, retryable |-> retryable,
              retry_after |-> header], wait)
  PROVE  Window'
<1>1. /\ query' = [n |-> n, now |-> now, header |-> header, wait |-> wait]
      /\ decision' = P!Decide(n, [result |-> answer, retryable |-> retryable,
                                  retry_after |-> header], now, wait)
      /\ UNCHANGED <<env, config>>
  BY DEF Ask
<1>2. Accepted(config)
  BY StartedAccepts
<1>3. Kept'
  BY <1>1, <1>2, DecisionKeeps
<1>4. config # NotLoaded
  BY DEF Loaded
<1> QED
  BY <1>1, <1>3, <1>4 DEF Window, Started, Loaded

LEMMA WindowStep == Window /\ [Next]_vars => Window'
<1> SUFFICES ASSUME Window, [Next]_vars PROVE Window'
  OBVIOUS
<1>1. CASE UNCHANGED vars
  BY <1>1 DEF vars, Window, Started, Loaded, Kept, RetryInWindow, RetrySpaced,
              ExpiredOnlyWhenLate, Retries, TooManySeconds, Asked, LongestWait,
              DesignCap, Minimum
<1>2. CASE Start
  BY <1>2, WindowStart
<1>3. CASE Next /\ ~Start
  BY <1>3, WindowAsk DEF Next
<1> QED
  BY <1>1, <1>2, <1>3

LEMMA WindowInvariant == Spec => []Window
BY WindowInit, WindowStep, PTL DEF Spec

-----------------------------------------------------------------------------
(* A retry is never scheduled before the moment the vendor asked for, nor  *)
(* after the expiry, whatever durations Load accepts (Policy.Decide).      *)
THEOREM RetryWindow == Spec => []RetryInWindow
<1>1. Window => RetryInWindow
  BY DEF Window, Kept
<1> QED
  BY WindowInvariant, <1>1, PTL

(* A retry comes after the minimum wait and, unless the vendor asked for   *)
(* more, within the documented bound; of more seconds than the parser      *)
(* takes only the minimum is said (Policy.Decide, ParseRetryAfter).        *)
THEOREM RetrySpacing == Spec => []RetrySpaced
<1>1. Window => RetrySpaced
  BY DEF Window, Kept
<1> QED
  BY WindowInvariant, <1>1, PTL

(* No notification is declared expired before its expiry while the wait    *)
(* that was drawn and the vendor's request both end by then                *)
(* (Policy.Decide).                                                        *)
THEOREM ExpiryNotEarly == Spec => []ExpiredOnlyWhenLate
<1>1. Window => ExpiredOnlyWhenLate
  BY DEF Window, Kept
<1> QED
  BY WindowInvariant, <1>1, PTL

(* The doubling loop computes min(max, base * 2^(k - 1)) for every attempt *)
(* number and every configuration that Load accepts (Policy.Decide).       *)
THEOREM BackoffAsDesigned == Spec => []BackoffMatchesDesign
<1>1. Window => BackoffMatchesDesign
  BY CheckAssumption, StartedAccepts, CapIsDocumented DEF BackoffMatchesDesign
<1> QED
  BY WindowInvariant, <1>1, PTL

(* A process runs with what its environment says: a written setting is in  *)
(* force, a setting that does not parse stops the process unless Load does *)
(* not look at it, and no entry of a list hides another (Load).            *)
THEOREM SettingsAsWritten == Spec => []AsWritten
<1>1. Window => AsWritten
  <2> SUFFICES ASSUME Window, Loaded PROVE AsWritten
    BY DEF AsWritten
  <2> DEFINE c == config.settings
  <2>1. env \in Environments /\ config = Load(env) /\ Load(env) # Refused
    BY DEF Window, Started
  <2>2. ASSUME NEW s \in Setting
        PROVE  LET written == env.settings[s]
               IN  \/ c[s] = written
                   \/ written = Unset /\ c[s] = Default[s]
                   \/ written = Garbled /\ s \in Unchecked
    <3>1. c[s] = Parsed(env.settings[s], s)
      BY <2>1 DEF Load
    <3>2. s \in Checked => c[s] >= 1
      BY StartedAccepts, CheckedPositive DEF Accepted
    <3>3. s \in Checked \/ s \in Unchecked
      BY DEF Setting
    <3> QED
      BY <3>1, <3>2, <3>3 DEF Parsed
  <2> QED
    BY <2>1, <2>2, LoadKeepsLists DEF AsWritten
<1> QED
  BY WindowInvariant, <1>1, PTL

(* A process that has started satisfies the assumptions the other modules  *)
(* and their proofs make about their constants, whatever the environment   *)
(* contained (Load, parseTargets).                                         *)
THEOREM ConfigurationSafety == Spec => []AssumptionsMet
<1>1. Window => AssumptionsMet
  <2> SUFFICES ASSUME Window, Loaded PROVE AssumptionsMet
    BY DEF AssumptionsMet
  <2>1. Accepted(config)
    BY StartedAccepts
  <2>2. \A s \in Checked : config.settings[s] \in Nat \ {0}
    <3>1. \A s \in Checked : config.settings[s] \in Int /\ config.settings[s] >= 1
      BY <2>1, CheckedPositive DEF Accepted, Setting
    <3> QED
      BY <3>1
  <2> QED
    BY <2>1, <2>2 DEF AssumptionsMet, Accepted, Sound
<1> QED
  BY WindowInvariant, <1>1, PTL
=============================================================================
