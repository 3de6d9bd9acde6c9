------------------------------ MODULE Admission ------------------------------
(***************************************************************************)
(* Service.Create with Store.Create: accepting notifications over several  *)
(* connections.  Every statement is a step of its own, for no transaction  *)
(* spans two of them: the count of active rows, the insert, and the read   *)
(* after it may each see what others have done in between.                 *)
(*                                                                         *)
(* A row is kept as its identifier, its digest and whether it is active.   *)
(* Workers finish rows, operators replay them, Cleanup removes them; a row *)
(* that has been replayed is marked, for replays are not counted against   *)
(* the backlog.                                                            *)
(***************************************************************************)
EXTENDS Integers, FiniteSets

CONSTANTS Key,            \* pairs of a caller and an idempotency key
          Client,         \* connections
          Content,        \* digests of requests
          Ids,            \* identifiers (random UUIDs)
          None,           \* no row
          BacklogLimit,   \* BACKLOG_LIMIT
          MaxAbandoned    \* bound: inserts that go on without their caller

ASSUME AdmissionAssumption ==
  /\ IsFiniteSet(Client)
  /\ IsFiniteSet(Key)
  /\ BacklogLimit \in Nat \ {0}
  /\ MaxAbandoned \in Nat
  /\ None \notin [id : Ids, content : Content, active : BOOLEAN, replayed : BOOLEAN]
  /\ None \notin [id : Ids, content : Content]

VARIABLES row,        \* the row of every key
          request,    \* the request of every connection
          abandoned   \* inserts the database may still execute although
                      \* their callers have got an error

vars == <<row, request, abandoned>>

Row == [id : Ids, content : Content, active : BOOLEAN, replayed : BOOLEAN]

(* The program counter of Create, and what it has got.  The identifier is  *)
(* that of the row it has inserted or found.                               *)
PC == {"idle", "counting", "turning away", "inserting", "reading back",
       "rereading", "created", "existing", "conflict", "full", "error"}

Answered == {"created", "existing", "conflict", "full", "error"}

Req == [pc : PC, key : Key \cup {None}, content : Content \cup {None},
        id : Ids \cup {None}]

Insertion == [id : Ids, key : Key, content : Content]

Free == [pc |-> "idle", key |-> None, content |-> None, id |-> None]

TypeOK ==
  /\ row \in [Key -> Row \cup {None}]
  /\ request \in [Client -> Req]
  /\ abandoned \subseteq Insertion

Init ==
  /\ row = [k \in Key |-> None]
  /\ request = [c \in Client |-> Free]
  /\ abandoned = {}

ActiveKeys == {k \in Key : row[k] # None /\ row[k].active}

-----------------------------------------------------------------------------
(* A request that validate accepts arrives.                                *)
Arrive(c, k, x) ==
  /\ request[c] = Free
  /\ request' = [request EXCEPT
       ![c] = [pc |-> "counting", key |-> k, content |-> x, id |-> None]]
  /\ UNCHANGED <<row, abandoned>>

Goto(c, pc) == request' = [request EXCEPT ![c].pc = pc]

(* Fault: the limit itself is still let through.                           *)
CountActive_OneMore(c) ==
  /\ request[c].pc = "counting"
  /\ Goto(c, IF Cardinality(ActiveKeys) > BacklogLimit
             THEN "turning away" ELSE "inserting")
  /\ UNCHANGED <<row, abandoned>>

CountActive(c) ==
  /\ request[c].pc = "counting"
  /\ Goto(c, IF Cardinality(ActiveKeys) >= BacklogLimit
             THEN "turning away" ELSE "inserting")
  /\ UNCHANGED <<row, abandoned>>

(* Fault: whatever is stored under the key answers the request.            *)
Compare_KeyOnly(c, n) ==
  request' = [request EXCEPT ![c].pc = "existing", ![c].id = n.id]

(* The stored request is compared with the one that has arrived.           *)
Compare(c, n) ==
  IF n.content = request[c].content
  THEN request' = [request EXCEPT ![c].pc = "existing", ![c].id = n.id]
  ELSE Goto(c, "conflict")

(* The backlog is full: only a repetition is answered.                     *)
TurnAway(c) ==
  LET n == row[request[c].key]
  IN  /\ request[c].pc = "turning away"
      /\ IF n = None THEN Goto(c, "full") ELSE Compare(c, n)
      /\ UNCHANGED <<row, abandoned>>

(* Fault: the digest is not stored.                                        *)
Insert_NoDigest(c, id) ==
  /\ request[c].pc = "inserting"
  /\ row[request[c].key] = None
  /\ row' = [row EXCEPT ![request[c].key] =
       [id |-> id, content |-> None, active |-> TRUE, replayed |-> FALSE]]
  /\ request' = [request EXCEPT ![c].pc = "reading back", ![c].id = id]
  /\ UNCHANGED abandoned

(* A random UUID is new.                                                   *)
IdsInUse ==
  {row[k].id : k \in {l \in Key : row[l] # None}}
    \cup {request[c].id : c \in Client} \cup {a.id : a \in abandoned}

InsertedRow(id, x) ==
  [id |-> id, content |-> x, active |-> TRUE, replayed |-> FALSE]

Insert(c, id) ==
  /\ request[c].pc = "inserting"
  /\ row[request[c].key] = None
  /\ id \notin IdsInUse
  /\ row' = [row EXCEPT ![request[c].key] = InsertedRow(id, request[c].content)]
  /\ request' = [request EXCEPT ![c].pc = "reading back", ![c].id = id]
  /\ UNCHANGED abandoned

(* The request's context ends or its connection breaks while the insert is *)
(* under way: the caller gets an error, the database may yet execute it.   *)
InsertAbandoned(c, id) ==
  /\ request[c].pc = "inserting"
  /\ id \notin IdsInUse
  /\ Cardinality(abandoned) < MaxAbandoned
  /\ abandoned' = abandoned \cup
       {[id |-> id, key |-> request[c].key, content |-> request[c].content]}
  /\ Goto(c, "error")
  /\ UNCHANGED row

InsertLate(a) ==
  /\ row[a.key] = None
  /\ row' = [row EXCEPT ![a.key] = InsertedRow(a.id, a.content)]
  /\ abandoned' = abandoned \ {a}
  /\ UNCHANGED request

(* It fails on the unique key, or never reached the database.              *)
InsertLost(a) ==
  /\ abandoned' = abandoned \ {a}
  /\ UNCHANGED <<row, request>>

(* Error 1062: UNIQUE (caller_id, idempotency_key).                        *)
InsertDuplicate(c) ==
  /\ request[c].pc = "inserting"
  /\ row[request[c].key] # None
  /\ Goto(c, "rereading")
  /\ UNCHANGED <<row, abandoned>>

(* The row just inserted is read; it may be gone again.                    *)
ReadBack(c) ==
  LET n == row[request[c].key]
  IN  /\ request[c].pc = "reading back"
      /\ Goto(c, IF n # None /\ n.id = request[c].id THEN "created" ELSE "error")
      /\ UNCHANGED <<row, abandoned>>

(* The row that was in the way may be gone by now: ErrNotFound.            *)
Reread(c) ==
  LET n == row[request[c].key]
  IN  /\ request[c].pc = "rereading"
      /\ IF n = None THEN Goto(c, "error") ELSE Compare(c, n)
      /\ UNCHANGED <<row, abandoned>>

(* Any statement may fail without effect, and an insert that has committed *)
(* may go unacknowledged: the request is then about to read back.          *)
StatementFails(c) ==
  /\ request[c].pc \notin Answered \cup {"idle"}
  /\ Goto(c, "error")
  /\ UNCHANGED <<row, abandoned>>

Respond(c) ==
  /\ request[c].pc \in Answered
  /\ request' = [request EXCEPT ![c] = Free]
  /\ UNCHANGED <<row, abandoned>>

-----------------------------------------------------------------------------
(* What Dispatch does to the rows                                          *)

Finish(k) ==
  /\ k \in ActiveKeys
  /\ row' = [row EXCEPT ![k].active = FALSE]
  /\ UNCHANGED <<request, abandoned>>

Replay(k) ==
  /\ row[k] # None /\ ~row[k].active
  /\ row' = [row EXCEPT ![k].active = TRUE, ![k].replayed = TRUE]
  /\ UNCHANGED <<request, abandoned>>

Cleanup(K) ==
  /\ K # {}
  /\ \A k \in K : row[k] # None /\ ~row[k].active
  /\ row' = [k \in Key |-> IF k \in K THEN None ELSE row[k]]
  /\ UNCHANGED <<request, abandoned>>

-----------------------------------------------------------------------------
Next ==
  \/ \E c \in Client, k \in Key, x \in Content : Arrive(c, k, x)
  \/ \E c \in Client : CountActive(c)
  \/ \E c \in Client : TurnAway(c)
  \/ \E c \in Client, id \in Ids : Insert(c, id)
  \/ \E c \in Client, id \in Ids : InsertAbandoned(c, id)
  \/ \E a \in abandoned : InsertLate(a)
  \/ \E a \in abandoned : InsertLost(a)
  \/ \E c \in Client : InsertDuplicate(c)
  \/ \E c \in Client : ReadBack(c)
  \/ \E c \in Client : Reread(c)
  \/ \E c \in Client : StatementFails(c)
  \/ \E c \in Client : Respond(c)
  \/ \E k \in Key : Finish(k)
  \/ \E k \in Key : Replay(k)
  \/ \E K \in SUBSET Key : Cleanup(K)

Spec == Init /\ [][Next]_vars

-----------------------------------------------------------------------------
Counted == {k \in ActiveKeys : ~row[k].replayed}

Inserting == {c \in Client : request[c].pc = "inserting"}

(* The limit is a soft one: requests that counted before others inserted   *)
(* may pass it, each by one row and no more.  The rows there are and those *)
(* that may still come, of requests let through and of inserts without a   *)
(* caller, stay within that together (docs/DESIGN.md, operation).          *)
BacklogBounded ==
  Cardinality(Counted) + Cardinality(Inserting) + Cardinality(abandoned)
    <= BacklogLimit + Cardinality(Client) - 1 + MaxAbandoned

(* How the rows and the program counters look from outside: a request has  *)
(* taken effect when its insert is committed or its answer is known.       *)
Entry(n) == [id |-> n.id, content |-> n.content]

Seen(r) ==
  LET answer == IF r.pc = "reading back" THEN "created" ELSE r.pc
  IN  IF r.pc = "idle"
      THEN [state |-> "idle"]
      ELSE IF r.pc \in Answered \cup {"reading back"}
      THEN [state |-> "done", key |-> r.key, content |-> r.content,
            answer |-> answer,
            entry |-> IF answer \in {"created", "existing"}
                      THEN [id |-> r.id, content |-> r.content] ELSE None]
      ELSE [state |-> "waiting", key |-> r.key, content |-> r.content]

stored == [k \in Key |-> IF row[k] = None THEN None ELSE Entry(row[k])]

call == [c \in Client |-> Seen(request[c])]

I == INSTANCE Idempotency WITH late <- abandoned

(* However concurrent requests with one key interleave, with each other and*)
(* with the removal of old rows, each is answered as if the requests had   *)
(* been handled one at a time: one of equal requests is created, the others*)
(* get the same notification, a different one is told of the conflict.     *)
AnswersAsIfAlone == I!Spec
=============================================================================
