---------------------------- MODULE Idempotency ----------------------------
(***************************************************************************)
(* What accepting a notification promises its callers: every request takes *)
(* effect in one instant between its arrival and its answer, as if it were *)
(* alone.  stored[k] is what is kept under idempotency key k.  A caller may *)
(* get an error at any time, and then does not know whether its request    *)
(* has taken effect, or will: late are the requests that still may, once.  *)
(***************************************************************************)
CONSTANTS Key,      \* pairs of a caller and an idempotency key
          Client,   \* connections
          Content,  \* digests of requests
          Ids,      \* notification identifiers
          None      \* nothing is stored

VARIABLES stored, call, late

vars == <<stored, call, late>>

Entry == [id : Ids, content : Content]

Answer == {"created", "existing", "conflict", "full", "error"}

Call ==
  [state : {"idle"}]
    \cup [state : {"waiting"}, key : Key, content : Content]
    \cup [state : {"done"}, key : Key, content : Content, answer : Answer,
          entry : Entry \cup {None}]

Idle == [state |-> "idle"]

Waiting(k, x) == [state |-> "waiting", key |-> k, content |-> x]

Done(k, x, answer, entry) ==
  [state |-> "done", key |-> k, content |-> x, answer |-> answer, entry |-> entry]

Init ==
  /\ stored = [k \in Key |-> None]
  /\ call = [c \in Client |-> Idle]
  /\ late = {}

Request(c, k, x) ==
  /\ call[c] = Idle
  /\ call' = [call EXCEPT ![c] = Waiting(k, x)]
  /\ UNCHANGED <<stored, late>>

Effect(c, answer, entry) ==
  call' = [call EXCEPT ![c] = Done(@.key, @.content, answer, entry)]

(* An entry is created where there is none, under an identifier of its own.*)
Put(k, entry) ==
  /\ stored[k] = None
  /\ \A l \in Key : stored[l] # None => stored[l].id # entry.id
  /\ stored' = [stored EXCEPT ![k] = entry]

Created(c, id) ==
  LET entry == [id |-> id, content |-> call[c].content]
  IN  /\ call[c].state = "waiting"
      /\ Put(call[c].key, entry)
      /\ Effect(c, "created", entry)
      /\ UNCHANGED late

Existing(c) ==
  LET entry == stored[call[c].key]
  IN  /\ call[c].state = "waiting"
      /\ entry # None
      /\ entry.content = call[c].content
      /\ Effect(c, "existing", entry)
      /\ UNCHANGED <<stored, late>>

Conflict(c) ==
  LET entry == stored[call[c].key]
  IN  /\ call[c].state = "waiting"
      /\ entry # None
      /\ entry.content # call[c].content
      /\ Effect(c, "conflict", None)
      /\ UNCHANGED <<stored, late>>

(* Only what is not stored yet can be turned away.                         *)
Full(c) ==
  /\ call[c].state = "waiting"
  /\ stored[call[c].key] = None
  /\ Effect(c, "full", None)
  /\ UNCHANGED <<stored, late>>

Error(c) ==
  /\ \/ call[c].state = "waiting"
     \/ call[c].state = "done" /\ call[c].answer = "created"
  /\ Effect(c, "error", None)
  /\ UNCHANGED <<stored, late>>

(* A request that is answered with an error goes on without its caller.    *)
Abandoned(c, id) ==
  /\ call[c].state = "waiting"
  /\ Effect(c, "error", None)
  /\ late' = late \cup {[id |-> id, key |-> call[c].key, content |-> call[c].content]}
  /\ UNCHANGED stored

CreatedLate(a) ==
  /\ Put(a.key, [id |-> a.id, content |-> a.content])
  /\ late' = late \ {a}
  /\ UNCHANGED call

Dropped(a) ==
  /\ late' = late \ {a}
  /\ UNCHANGED <<stored, call>>

Return(c) ==
  /\ call[c].state = "done"
  /\ call' = [call EXCEPT ![c] = Idle]
  /\ UNCHANGED <<stored, late>>

(* Terminal notifications are removed after their retention.               *)
Removed(K) ==
  /\ stored' = [k \in Key |-> IF k \in K THEN None ELSE stored[k]]
  /\ UNCHANGED <<call, late>>

Next ==
  \/ \E c \in Client :
       \/ \E k \in Key, x \in Content : Request(c, k, x)
       \/ \E id \in Ids : Created(c, id) \/ Abandoned(c, id)
       \/ Existing(c) \/ Conflict(c) \/ Full(c) \/ Error(c) \/ Return(c)
  \/ \E a \in late : CreatedLate(a) \/ Dropped(a)
  \/ \E K \in SUBSET Key : Removed(K)

Spec == Init /\ [][Next]_vars
=============================================================================
