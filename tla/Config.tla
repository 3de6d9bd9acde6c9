------------------------------- MODULE Config -------------------------------
(***************************************************************************)
(* internal/config/config.go: what Load makes of the environment.          *)
(*                                                                         *)
(* A variable is unset (or empty), garbled (text its parser refuses) or a  *)
(* number; durations and sizes are numbers of one unit each.  The lists of *)
(* API keys and targets are the sequences of their entries.                *)
(***************************************************************************)
EXTENDS Integers, Sequences, SequencesExt

CONSTANTS Unset,     \* an empty variable
          Garbled,   \* text that does not parse
          Default    \* the fallback of every setting

Checked ==
  {"Workers", "MaxAttempts", "BacklogLimit", "MaxBodyBytes", "MaxEnvelopeBytes",
   "ScanInterval", "LeaseDuration", "RequestTimeout", "Validity", "RetryMin",
   "RetryBase", "RetryMax", "TerminalRetention", "CleanupInterval"}

(* Settings that Load does not look at again.                              *)
Unchecked ==
  {"ShutdownTimeout", "ConnectTimeout", "TLSTimeout", "ResponseHeaderTimeout",
   "MaxResponseBodyBytes"}

Setting == Checked \cup Unchecked

ASSUME ConfigAssumption ==
  /\ Default \in [Setting -> Nat \ {0}]
  /\ Unset \notin Int /\ Garbled \notin Int /\ Unset # Garbled

(* A refused configuration, or a list that is refused.                     *)
Refused == [refused |-> TRUE]

-----------------------------------------------------------------------------
(* Fault: what does not parse is replaced by the fallback.                 *)
Parsed_FallsBack(raw, s) == IF raw \in {Unset, Garbled} THEN Default[s] ELSE raw

(* envInt, envInt64 and envDuration                                        *)
Parsed(raw, s) ==
  IF raw = Unset THEN Default[s] ELSE IF raw = Garbled THEN -1 ELSE raw

(* Fault: the minimum wait of a retry is not looked at.                    *)
Positive_AnyMinimum ==
  Checked \ {"MaxEnvelopeBytes", "LeaseDuration", "RetryBase", "RetryMax", "RetryMin"}

(* The others are bounded below by one of these.                           *)
Positive == Checked \ {"MaxEnvelopeBytes", "LeaseDuration", "RetryBase", "RetryMax"}

(* The last two tests of Load.                                             *)
Sound(c) ==
  /\ \A s \in Positive : c[s] >= 1
  /\ c["MaxEnvelopeBytes"] >= c["MaxBodyBytes"]
  /\ c["LeaseDuration"] > c["RequestTimeout"]
  /\ c["RetryMin"] <= c["RetryBase"]
  /\ c["RetryBase"] <= c["RetryMax"]

-----------------------------------------------------------------------------
(* An entry of NOTIFIER_API_KEYS: caller, key and role; blank entries are  *)
(* skipped.                                                                *)
Blank == [caller |-> "", key |-> "", role |-> ""]

Malformed(e) == e.caller = "" \/ e.key = "" \/ e.role \notin {"user", "admin"}

KeyTwice(entries) ==
  \E i, j \in DOMAIN entries :
    i # j /\ Blank \notin {entries[i], entries[j]} /\ entries[i].key = entries[j].key

(* parseAPIKeys: the principal of every key, or Refused.                   *)
Principals(entries) ==
  LET given == Range(entries) \ {Blank}
      Of(k) == CHOOSE e \in given : e.key = k
  IN  IF KeyTwice(entries) \/ \E e \in given : Malformed(e)
      THEN Refused
      ELSE [k \in {e.key : e \in given} |->
              [caller |-> Of(k).caller, admin |-> Of(k).role = "admin"]]

(* A target lacks what it cannot do without.                               *)
Incomplete(t) ==
  \/ t.id = "" \/ t.callers = {} \/ t.hosts = {} \/ t.ports = {}
  \/ t.max_concurrency < 1

(* parseTargets: the target of every identifier, or Refused.               *)
Targets(list) ==
  IF \/ list = Garbled
     \/ \E t \in Range(list) : Incomplete(t)
     \/ \E i, j \in DOMAIN list : i # j /\ list[i].id = list[j].id
  THEN Refused
  ELSE [i \in {t.id : t \in Range(list)} |->
          CHOOSE t \in Range(list) : t.id = i]

-----------------------------------------------------------------------------
(* Load                                                                    *)
Load(env) ==
  LET settings == [s \in Setting |-> Parsed(env.settings[s], s)]
      keys     == Principals(env.keys)
      targets  == Targets(env.targets)
  IN  IF \/ keys = Refused \/ targets = Refused
         \/ env.dsn = Unset
         \/ DOMAIN keys = {} \/ DOMAIN targets = {}
         \/ ~Sound(settings)
      THEN Refused
      ELSE [settings |-> settings, keys |-> keys, targets |-> targets]
=============================================================================
