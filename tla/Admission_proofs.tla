--------------------------- MODULE Admission_proofs ---------------------------
(***************************************************************************)
(* The statements of Create implement the register of Idempotency, and the *)
(* backlog stays bounded, for any number of connections, keys and requests.*)
(***************************************************************************)
EXTENDS Admission, FiniteSetTheorems, TLAPS

Busy == PC \ {"idle"}

Over == Answered \cup {"reading back"}

(* A request in progress knows its key and its content, and one that has   *)
(* inserted or found a row knows its identifier.                           *)
RequestInv ==
  /\ TypeOK
  /\ \A c \in Client :
       /\ request[c].pc = "idle" => request[c] = Free
       /\ request[c].pc \in Busy =>
            request[c].key \in Key /\ request[c].content \in Content

AnswerOf(r) == IF r.pc = "reading back" THEN "created" ELSE r.pc

EntryOf(r) ==
  IF AnswerOf(r) \in {"created", "existing"}
  THEN [id |-> r.id, content |-> r.content] ELSE None

(* The three looks of a request from outside.                              *)
LEMMA SeenIdle ==
  ASSUME NEW r, r.pc = "idle"
  PROVE  Seen(r) = I!Idle
BY DEF Seen, I!Idle

LEMMA SeenWaiting ==
  ASSUME NEW r, r.pc \in Busy, r.pc \notin Over
  PROVE  Seen(r) = I!Waiting(r.key, r.content)
BY DEF Seen, I!Waiting, Busy, Over, Answered, PC

LEMMA SeenDone ==
  ASSUME NEW r, r.pc \in Over
  PROVE  Seen(r) = I!Done(r.key, r.content, AnswerOf(r), EntryOf(r))
BY DEF Seen, I!Done, Over, Answered, AnswerOf, EntryOf

LEMMA SeenFields ==
  ASSUME NEW r, r.pc \in Busy
  PROVE  /\ Seen(r).key = r.key /\ Seen(r).content = r.content
         /\ r.pc \notin Over => Seen(r).state = "waiting"
         /\ r.pc \in Over => /\ Seen(r).state = "done"
                             /\ Seen(r).answer = AnswerOf(r)
<1>1. CASE r.pc \in Over
  <2>1. Seen(r) = I!Done(r.key, r.content, AnswerOf(r), EntryOf(r))
    BY <1>1, SeenDone
  <2> QED
    BY <1>1, <2>1 DEF I!Done
<1>2. CASE r.pc \notin Over
  <2>1. Seen(r) = I!Waiting(r.key, r.content)
    BY <1>2, SeenWaiting
  <2> QED
    BY <1>2, <2>1 DEF I!Waiting
<1> QED
  BY <1>1, <1>2

(* One connection moves: the others look as before.                        *)
LEMMA OneCall ==
  ASSUME TypeOK, NEW c \in Client, NEW r, request' = [request EXCEPT ![c] = r]
  PROVE  call' = [call EXCEPT ![c] = Seen(r)]
<1>1. \A b \in Client : request'[b] = IF b = c THEN r ELSE request[b]
  BY DEF TypeOK
<1>2. \A b \in Client : call'[b] = Seen(request'[b]) /\ call[b] = Seen(request[b])
  BY DEF call
<1> QED
  BY <1>1, <1>2 DEF call

LEMMA CallAt ==
  ASSUME NEW c \in Client
  PROVE  call[c] = Seen(request[c])
BY DEF call

(* Its request goes on without being seen.                                 *)
LEMMA Unseen ==
  ASSUME TypeOK, NEW c \in Client, NEW r, request' = [request EXCEPT ![c] = r],
         Seen(r) = Seen(request[c])
  PROVE  call' = call
<1>1. call' = [call EXCEPT ![c] = call[c]]
  BY OneCall, CallAt
<1> QED
  BY <1>1 DEF call

(* Its request takes effect.                                               *)
LEMMA TakesEffect ==
  ASSUME TypeOK, NEW c \in Client, NEW r, request' = [request EXCEPT ![c] = r],
         request[c].pc \in Busy, r.pc \in Over,
         r.key = request[c].key, r.content = request[c].content
  PROVE  I!Effect(c, AnswerOf(r), EntryOf(r))
<1>1. call' = [call EXCEPT ![c] = I!Done(r.key, r.content, AnswerOf(r), EntryOf(r))]
  BY OneCall, SeenDone
<1>2. call[c].key = r.key /\ call[c].content = r.content
  BY CallAt, SeenFields
<1> QED
  BY <1>1, <1>2, Zenon DEF I!Effect

-----------------------------------------------------------------------------
(* A request goes on: it keeps what it asked for.                          *)
Continues(c, r) ==
  /\ request' = [request EXCEPT ![c] = r]
  /\ r \in Req /\ r.pc \in Busy
  /\ r.key = request[c].key /\ r.content = request[c].content

LEMMA FindGoesOn ==
  ASSUME TypeOK, NEW c \in Client, NEW id \in Ids,
         request' = [request EXCEPT ![c].pc = "existing", ![c].id = id]
  PROVE  \E r : Continues(c, r) /\ r.pc = "existing" /\ r.id = id
<1> DEFINE r == [request[c] EXCEPT !.pc = "existing", !.id = id]
<1>1. request[c] \in Req
  BY DEF TypeOK
<1>2. /\ r \in Req /\ r.pc = "existing" /\ r.id = id /\ r.pc \in Busy
      /\ r.key = request[c].key /\ r.content = request[c].content
  BY <1>1 DEF Req, Busy, PC
<1>3. request' = [request EXCEPT ![c] = r]
  BY DEF TypeOK
<1>4. Continues(c, r)
  BY <1>2, <1>3 DEF Continues
<1> QED
  BY <1>2, <1>4

LEMMA GotoGoesOn ==
  ASSUME TypeOK, NEW c \in Client, NEW pc \in Busy, Goto(c, pc)
  PROVE  \E r : Continues(c, r) /\ r.pc = pc /\ r.id = request[c].id
<1>1. request[c] \in Req
  BY DEF TypeOK
<1> DEFINE r == [request[c] EXCEPT !.pc = pc]
<1>2. /\ r \in Req /\ r.pc = pc /\ r.id = request[c].id
      /\ r.key = request[c].key /\ r.content = request[c].content
  BY <1>1 DEF Req, Busy
<1>3. request' = [request EXCEPT ![c] = r]
  BY DEF Goto
<1>4. Continues(c, r)
  BY <1>2, <1>3 DEF Continues
<1> QED
  BY <1>2, <1>4

LEMMA ContinuesInv ==
  ASSUME RequestInv, NEW c \in Client, NEW r, Continues(c, r),
         request[c].pc \in Busy, row' \in [Key -> Row \cup {None}],
         abandoned' \subseteq Insertion
  PROVE  RequestInv'
BY DEF RequestInv, TypeOK, Continues, Busy

LEMMA ContinuesUnseen ==
  ASSUME TypeOK, NEW c \in Client, NEW r, Continues(c, r),
         request[c].pc \in Busy \ Over, r.pc \notin Over
  PROVE  call' = call
<1>1. Seen(r) = Seen(request[c])
  BY SeenWaiting DEF Continues
<1> QED
  BY <1>1, Unseen DEF Continues

LEMMA ContinuesEffect ==
  ASSUME TypeOK, NEW c \in Client, NEW r, Continues(c, r),
         request[c].pc \in Busy, r.pc \in Over
  PROVE  I!Effect(c, AnswerOf(r), EntryOf(r))
BY TakesEffect DEF Continues

(* What is stored under the key of a request, seen from outside.           *)
LEMMA StoredAt ==
  ASSUME TypeOK, NEW k \in Key
  PROVE  /\ row[k] = None => stored[k] = None
         /\ row[k] # None => /\ row[k] \in Row
                             /\ stored[k] = Entry(row[k]) /\ stored[k] # None
                             /\ stored[k].id = row[k].id
                             /\ stored[k].content = row[k].content
<1>1. CASE row[k] = None
  BY <1>1 DEF stored
<1>2. CASE row[k] # None
  <2>1. row[k] \in Row /\ stored[k] = Entry(row[k])
    BY <1>2 DEF TypeOK, stored
  <2>2. /\ Entry(row[k]) \in [id : Ids, content : Content]
        /\ Entry(row[k]).id = row[k].id /\ Entry(row[k]).content = row[k].content
    BY <2>1 DEF Entry, Row
  <2> QED
    BY <1>2, <2>1, <2>2, AdmissionAssumption
<1> QED
  BY <1>1, <1>2

LEMMA StoredKept == row' = row => stored' = stored
BY DEF stored, Entry

-----------------------------------------------------------------------------
(* What a step leaves behind: the invariant, and a step of the register or *)
(* nothing to be seen.                                                     *)
Implemented == RequestInv' /\ (I!Next \/ UNCHANGED I!vars)

(* Steps that nobody sees.                                                 *)
LEMMA QuietSteps ==
  ASSUME RequestInv, NEW c \in Client, CountActive(c) \/ InsertDuplicate(c)
  PROVE  Implemented
<1>1. /\ request[c].pc \in Busy \ Over /\ row' = row /\ abandoned' = abandoned
      /\ \E pc \in Busy \ Over : Goto(c, pc)
  BY DEF CountActive, InsertDuplicate, Busy, Over, Answered, PC
<1>2. PICK pc \in Busy \ Over : Goto(c, pc)
  BY <1>1
<1>3. PICK r : Continues(c, r) /\ r.pc = pc
  BY <1>2, GotoGoesOn DEF RequestInv
<1>4. call' = call /\ stored' = stored
  BY <1>1, <1>3, ContinuesUnseen, StoredKept DEF RequestInv
<1>5. RequestInv'
  BY <1>1, <1>3, ContinuesInv DEF RequestInv, TypeOK
<1> QED
  BY <1>1, <1>4, <1>5 DEF Implemented, I!vars

LEMMA ArriveStep ==
  ASSUME RequestInv, NEW c \in Client, NEW k \in Key, NEW x \in Content,
         Arrive(c, k, x)
  PROVE  Implemented
<1> DEFINE r == [pc |-> "counting", key |-> k, content |-> x, id |-> None]
<1>1. /\ request[c].pc = "idle" /\ request' = [request EXCEPT ![c] = r]
      /\ row' = row /\ abandoned' = abandoned
  BY DEF Arrive, Free
<1>2. r \in Req /\ r.pc \in Busy \ Over /\ r.pc # "idle"
  BY DEF Req, Busy, Over, Answered, PC
<1>3. call[c] = I!Idle /\ Seen(r) = I!Waiting(k, x)
  BY <1>1, <1>2, CallAt, SeenIdle, SeenWaiting
<1>4. call' = [call EXCEPT ![c] = I!Waiting(k, x)] /\ stored' = stored
  BY <1>1, <1>3, OneCall, StoredKept DEF RequestInv
<1>5. I!Request(c, k, x)
  BY <1>1, <1>3, <1>4 DEF I!Request
<1>6. RequestInv'
  BY <1>1, <1>2 DEF RequestInv, TypeOK
<1> QED
  BY <1>5, <1>6 DEF Implemented, I!Next

LEMMA RespondStep ==
  ASSUME RequestInv, NEW c \in Client, Respond(c)
  PROVE  Implemented
<1>1. /\ request[c].pc \in Over \cap Busy /\ row' = row /\ abandoned' = abandoned
      /\ request' = [request EXCEPT ![c] = Free]
  BY DEF Respond, Over, Busy, Answered, PC
<1>2. Free \in Req /\ Free.pc = "idle"
  BY DEF Free, Req, PC
<1>3. call[c].state = "done"
  BY <1>1, CallAt, SeenFields
<1>4. call' = [call EXCEPT ![c] = I!Idle] /\ stored' = stored
  <2>1. Seen(Free) = I!Idle
    BY <1>2, SeenIdle
  <2> QED
    BY <1>1, <2>1, OneCall, StoredKept DEF RequestInv
<1>5. I!Return(c)
  BY <1>1, <1>3, <1>4 DEF I!Return
<1>6. RequestInv'
  BY <1>1, <1>2 DEF RequestInv, TypeOK, Busy
<1> QED
  BY <1>5, <1>6 DEF Implemented, I!Next

(* An answer that compares what is stored with what has arrived.           *)
LEMMA CompareStep ==
  ASSUME RequestInv, NEW c \in Client, request[c].pc \in Busy \ Over,
         row' = row, abandoned' = abandoned, row[request[c].key] # None,
         Compare(c, row[request[c].key])
  PROVE  Implemented
<1> DEFINE k == request[c].key
           n == row[k]
<1>1. k \in Key /\ n \in Row /\ stored' = stored
  BY StoredKept DEF RequestInv, TypeOK
<1>2. /\ stored[k] = Entry(n) /\ stored[k] # None /\ stored[k].content = n.content
      /\ call[c].state = "waiting" /\ call[c].key = k
      /\ call[c].content = request[c].content
  BY <1>1, StoredAt, CallAt, SeenFields DEF RequestInv
<1>3. CASE n.content = request[c].content
  <2>1. request' = [request EXCEPT ![c].pc = "existing", ![c].id = n.id]
    BY <1>3 DEF Compare
  <2>2. n.id \in Ids /\ "existing" \in Over
    BY <1>1 DEF Row, Over, Answered
  <2>3. PICK r : Continues(c, r) /\ r.pc = "existing" /\ r.id = n.id
    BY <2>1, <2>2, FindGoesOn, Zenon DEF RequestInv
  <2>4. AnswerOf(r) = "existing" /\ EntryOf(r) = Entry(n)
    BY <1>3, <2>3 DEF AnswerOf, EntryOf, Entry, Continues
  <2>5. I!Effect(c, "existing", stored[k])
    BY <1>2, <2>2, <2>3, <2>4, ContinuesEffect DEF RequestInv
  <2>6. I!Existing(c)
    BY <1>1, <1>2, <1>3, <2>5 DEF I!Existing
  <2>7. RequestInv'
    BY <2>3, ContinuesInv DEF RequestInv, TypeOK
  <2> QED
    BY <2>6, <2>7 DEF Implemented, I!Next
<1>4. CASE n.content # request[c].content
  <2>1. Goto(c, "conflict") /\ "conflict" \in Busy \cap Over
    BY <1>4 DEF Compare, Busy, Over, Answered, PC
  <2>2. PICK r : Continues(c, r) /\ r.pc = "conflict"
    BY <2>1, GotoGoesOn DEF RequestInv
  <2>3. I!Effect(c, "conflict", None)
    <3>1. AnswerOf(r) = "conflict" /\ EntryOf(r) = None
      BY <2>2 DEF AnswerOf, EntryOf
    <3> QED
      BY <2>1, <2>2, <3>1, ContinuesEffect DEF RequestInv
  <2>4. I!Conflict(c)
    BY <1>1, <1>2, <1>4, <2>3 DEF I!Conflict
  <2>5. RequestInv'
    BY <2>2, ContinuesInv DEF RequestInv, TypeOK
  <2> QED
    BY <2>4, <2>5 DEF Implemented, I!Next
<1> QED
  BY <1>3, <1>4

(* An error, whether or not the insert has taken effect.                   *)
LEMMA ErrorStep ==
  ASSUME RequestInv, NEW c \in Client,
         request[c].pc \in Busy, request[c].pc \notin Answered,
         row' = row, abandoned' = abandoned, Goto(c, "error")
  PROVE  Implemented
<1>1. "error" \in Busy \cap Over
  BY DEF Busy, Over, Answered, PC
<1>2. PICK r : Continues(c, r) /\ r.pc = "error"
  BY <1>1, GotoGoesOn DEF RequestInv
<1>3. AnswerOf(r) = "error" /\ EntryOf(r) = None
  BY <1>2 DEF AnswerOf, EntryOf
<1>4. I!Effect(c, "error", None) /\ stored' = stored
  BY <1>1, <1>2, <1>3, ContinuesEffect, StoredKept DEF RequestInv
<1>5. \/ call[c].state = "waiting"
      \/ call[c].state = "done" /\ call[c].answer = "created"
  <2>1. CASE request[c].pc = "reading back"
    BY <2>1, CallAt, SeenFields DEF Over, AnswerOf
  <2>2. CASE request[c].pc # "reading back"
    BY <2>2, CallAt, SeenFields DEF Over
  <2> QED
    BY <2>1, <2>2
<1>6. I!Error(c)
  BY <1>4, <1>5 DEF I!Error
<1>7. RequestInv'
  BY <1>2, ContinuesInv DEF RequestInv, TypeOK
<1> QED
  BY <1>6, <1>7 DEF Implemented, I!Next

LEMMA TurnAwayStep ==
  ASSUME RequestInv, NEW c \in Client, TurnAway(c)
  PROVE  Implemented
<1> DEFINE k == request[c].key
<1>1. request[c].pc \in Busy \ Over /\ row' = row /\ abandoned' = abandoned
  BY DEF TurnAway, Busy, Over, Answered, PC
<1>2. CASE row[k] # None
  <2>1. Compare(c, row[k])
    BY <1>2 DEF TurnAway
  <2> QED
    BY <1>1, <1>2, <2>1, CompareStep
<1>3. CASE row[k] = None
  <2>1. Goto(c, "full") /\ "full" \in Busy \cap Over /\ k \in Key
    BY <1>1, <1>3 DEF TurnAway, Busy, Over, Answered, PC, RequestInv
  <2>2. PICK r : Continues(c, r) /\ r.pc = "full"
    BY <2>1, GotoGoesOn DEF RequestInv
  <2>3. AnswerOf(r) = "full" /\ EntryOf(r) = None
    BY <2>2 DEF AnswerOf, EntryOf
  <2>4. I!Effect(c, "full", None) /\ stored' = stored
    BY <1>1, <2>1, <2>2, <2>3, ContinuesEffect, StoredKept DEF RequestInv
  <2>5. call[c].state = "waiting" /\ stored[call[c].key] = None
    BY <1>1, <1>3, <2>1, CallAt, SeenFields, StoredAt DEF RequestInv
  <2>6. I!Full(c)
    BY <1>1, <2>4, <2>5 DEF I!Full
  <2>7. RequestInv'
    BY <1>1, <2>2, ContinuesInv DEF RequestInv, TypeOK
  <2> QED
    BY <2>6, <2>7 DEF Implemented, I!Next
<1> QED
  BY <1>2, <1>3

LEMMA RereadStep ==
  ASSUME RequestInv, NEW c \in Client, Reread(c)
  PROVE  Implemented
<1>1. /\ request[c].pc \in Busy \ Over /\ request[c].pc \notin Answered
      /\ row' = row /\ abandoned' = abandoned
  BY DEF Reread, Busy, Over, Answered, PC
<1>2. CASE row[request[c].key] = None
  BY <1>1, <1>2, ErrorStep DEF Reread
<1>3. CASE row[request[c].key] # None
  BY <1>1, <1>3, CompareStep DEF Reread
<1> QED
  BY <1>2, <1>3

LEMMA ReadBackStep ==
  ASSUME RequestInv, NEW c \in Client, ReadBack(c)
  PROVE  Implemented
<1>1. /\ request[c].pc = "reading back"
      /\ request[c].pc \in Busy \cap Over /\ request[c].pc \notin Answered
      /\ row' = row /\ abandoned' = abandoned
  BY DEF ReadBack, Busy, Over, Answered, PC
<1>2. CASE Goto(c, "created")
  <2>1. "created" \in Busy \cap Over
    BY DEF Busy, Over, Answered, PC
  <2>2. PICK r : Continues(c, r) /\ r.pc = "created" /\ r.id = request[c].id
    BY <1>2, <2>1, GotoGoesOn DEF RequestInv
  <2>3. AnswerOf(r) = AnswerOf(request[c]) /\ EntryOf(r) = EntryOf(request[c])
    BY <1>1, <2>2 DEF AnswerOf, EntryOf, Continues
  <2>4. Seen(r) = Seen(request[c])
    BY <1>1, <2>1, <2>2, <2>3, SeenDone DEF Continues
  <2>5. call' = call /\ stored' = stored
    BY <1>1, <2>2, <2>4, Unseen, StoredKept DEF Continues, RequestInv
  <2>6. RequestInv'
    BY <1>1, <2>2, ContinuesInv DEF RequestInv, TypeOK
  <2> QED
    BY <1>1, <2>5, <2>6 DEF Implemented, I!vars
<1>3. CASE Goto(c, "error")
  BY <1>1, <1>3, ErrorStep
<1> QED
  BY <1>2, <1>3 DEF ReadBack

(* A row is put under an identifier no row has: an entry is stored.        *)
LEMMA Putting ==
  ASSUME RequestInv, NEW k \in Key, NEW id \in Ids, NEW x \in Content,
         row[k] = None, row' = [row EXCEPT ![k] = InsertedRow(id, x)],
         \A l \in Key : row[l] # None => row[l].id # id
  PROVE  /\ row' \in [Key -> Row \cup {None}]
         /\ I!Put(k, [id |-> id, content |-> x])
<1> DEFINE n == InsertedRow(id, x)
           e == [id |-> id, content |-> x]
<1>1. n \in Row /\ n # None /\ Entry(n) = e /\ e.id = id
  <2>1. n \in Row /\ Entry(n) = e /\ e.id = id
    BY DEF Row, InsertedRow, Entry
  <2> QED
    BY <2>1, AdmissionAssumption, Zenon DEF Row
<1> HIDE DEF n, e
<1>2. row' = [row EXCEPT ![k] = n]
  BY DEF n
<1>3. row' \in [Key -> Row \cup {None}]
  BY <1>1, <1>2 DEF RequestInv, TypeOK
<1>4. stored' = [stored EXCEPT ![k] = e]
  <2>1. \A l \in Key : row'[l] = IF l = k THEN n ELSE row[l]
    BY <1>2 DEF RequestInv, TypeOK
  <2>2. ASSUME NEW l \in Key
        PROVE  (IF row'[l] = None THEN None ELSE Entry(row'[l]))
                 = IF l = k THEN e ELSE stored[l]
    <3>1. CASE l = k
      BY <1>1, <2>1, <3>1
    <3>2. CASE l # k
      BY <2>1, <3>2 DEF stored
    <3> QED
      BY <3>1, <3>2
  <2>3. stored' = [l \in Key |-> IF l = k THEN e ELSE stored[l]]
    BY <2>2 DEF stored
  <2> QED
    BY <2>3 DEF stored
<1>5. ASSUME NEW l \in Key, stored[l] # None PROVE stored[l].id # id
  <2>1. row[l] # None /\ stored[l].id = row[l].id
    BY <1>5, StoredAt DEF RequestInv
  <2> QED
    BY <2>1
<1>6. stored[k] = None
  BY StoredAt DEF RequestInv
<1>7. I!Put(k, e)
  BY <1>1, <1>4, <1>5, <1>6 DEF I!Put
<1> QED
  BY <1>3, <1>7 DEF e

LEMMA InsertStep ==
  ASSUME RequestInv, NEW c \in Client, NEW id \in Ids, Insert(c, id)
  PROVE  Implemented
<1> DEFINE k == request[c].key
           x == request[c].content
<1>1. /\ request[c].pc \in Busy \ Over /\ k \in Key /\ x \in Content
      /\ row[k] = None /\ row' = [row EXCEPT ![k] = InsertedRow(id, x)]
      /\ abandoned' = abandoned
  BY DEF Insert, Busy, Over, Answered, PC, RequestInv
<1>2. \A l \in Key : row[l] # None => row[l].id # id
  BY DEF Insert, IdsInUse
<1>3. /\ row' \in [Key -> Row \cup {None}]
      /\ I!Put(k, [id |-> id, content |-> x])
  BY <1>1, <1>2, Putting
<1>4. PICK r : Continues(c, r) /\ r.pc = "reading back" /\ r.id = id
  <2> DEFINE q == [request[c] EXCEPT !.pc = "reading back", !.id = id]
  <2>1. request[c] \in Req
    BY DEF RequestInv, TypeOK
  <2>2. /\ q \in Req /\ q.pc = "reading back" /\ q.id = id /\ q.pc \in Busy
        /\ q.key = k /\ q.content = x
    BY <2>1 DEF Req, Busy, PC
  <2>3. request' = [request EXCEPT ![c] = q]
    BY DEF Insert, RequestInv, TypeOK
  <2>4. Continues(c, q)
    BY <2>2, <2>3 DEF Continues
  <2> QED
    BY <2>2, <2>4
<1>5. I!Effect(c, "created", [id |-> id, content |-> x])
  <2>1. AnswerOf(r) = "created" /\ EntryOf(r) = [id |-> id, content |-> x]
    BY <1>4 DEF AnswerOf, EntryOf, Continues
  <2>2. request[c].pc \in Busy /\ r.pc \in Over
    BY <1>1, <1>4 DEF Over
  <2> QED
    BY <1>4, <2>1, <2>2, ContinuesEffect DEF RequestInv
<1>6. call[c].state = "waiting" /\ call[c].key = k /\ call[c].content = x
  BY <1>1, CallAt, SeenFields DEF RequestInv
<1>7. I!Created(c, id)
  BY <1>1, <1>3, <1>5, <1>6, Zenon DEF I!Created
<1>8. RequestInv'
  BY <1>1, <1>3, <1>4, ContinuesInv DEF RequestInv, TypeOK
<1> QED
  BY <1>7, <1>8 DEF Implemented, I!Next

(* The caller is gone, the insert goes on.                                 *)
LEMMA InsertAbandonedStep ==
  ASSUME RequestInv, NEW c \in Client, NEW id \in Ids, InsertAbandoned(c, id)
  PROVE  Implemented
<1> DEFINE a == [id |-> id, key |-> request[c].key, content |-> request[c].content]
<1>1. /\ request[c].pc \in Busy \ Over /\ "error" \in Busy \cap Over
      /\ row' = row /\ Goto(c, "error") /\ abandoned' = abandoned \cup {a}
  BY DEF InsertAbandoned, Busy, Over, Answered, PC
<1>2. abandoned' \subseteq Insertion
  BY <1>1 DEF RequestInv, TypeOK, Insertion
<1>3. PICK r : Continues(c, r) /\ r.pc = "error"
  BY <1>1, GotoGoesOn DEF RequestInv
<1>4. AnswerOf(r) = "error" /\ EntryOf(r) = None
  BY <1>3 DEF AnswerOf, EntryOf
<1>5. I!Effect(c, "error", None) /\ stored' = stored
  BY <1>1, <1>3, <1>4, ContinuesEffect, StoredKept DEF RequestInv
<1>6. /\ call[c].state = "waiting" /\ call[c].key = request[c].key
      /\ call[c].content = request[c].content
  BY <1>1, CallAt, SeenFields
<1>7. I!Abandoned(c, id)
  BY <1>1, <1>5, <1>6 DEF I!Abandoned
<1>8. RequestInv'
  BY <1>1, <1>2, <1>3, ContinuesInv DEF RequestInv, TypeOK
<1> QED
  BY <1>7, <1>8 DEF Implemented, I!Next

LEMMA InsertLostStep ==
  ASSUME RequestInv, NEW a \in abandoned, InsertLost(a)
  PROVE  Implemented
<1>1. call' = call /\ stored' = stored /\ RequestInv'
  BY DEF InsertLost, call, stored, Seen, Entry, RequestInv, TypeOK
<1>2. I!Dropped(a)
  BY <1>1 DEF InsertLost, I!Dropped
<1> QED
  BY <1>1, <1>2 DEF Implemented, I!Next

(* An identifier is given to one row or to one insert under way.           *)
OwnIds ==
  \A a \in abandoned :
    /\ \A k \in Key : row[k] # None => row[k].id # a.id
    /\ \A b \in abandoned : b.id = a.id => b = a

LEMMA InsertLateStep ==
  ASSUME RequestInv, OwnIds, NEW a \in abandoned, InsertLate(a)
  PROVE  Implemented
<1>1. a \in Insertion /\ a.key \in Key /\ a.id \in Ids /\ a.content \in Content
  BY DEF RequestInv, TypeOK, Insertion
<1>2. /\ row' \in [Key -> Row \cup {None}]
      /\ I!Put(a.key, [id |-> a.id, content |-> a.content])
  BY <1>1, Putting DEF InsertLate, OwnIds
<1>3. call' = call
  BY DEF InsertLate, call, Seen
<1>4. I!CreatedLate(a)
  BY <1>2, <1>3 DEF InsertLate, I!CreatedLate
<1>5. RequestInv'
  BY <1>2 DEF InsertLate, RequestInv, TypeOK
<1> QED
  BY <1>4, <1>5 DEF Implemented, I!Next

LEMMA OwnIdsStep ==
  ASSUME RequestInv, OwnIds, Next \/ UNCHANGED vars
  PROVE  OwnIds'
<1>1. CASE /\ abandoned' \subseteq abandoned
           /\ \A k \in Key : row'[k] # None => row[k] # None /\ row'[k].id = row[k].id
  BY <1>1 DEF OwnIds
<1>2. CASE UNCHANGED <<row, abandoned>>
  BY <1>1, <1>2
<1>3. ASSUME NEW c \in Client, NEW id \in Ids, Insert(c, id)
      PROVE  OwnIds'
  <2>1. \A k \in Key : row'[k] # None => \/ row[k] # None /\ row'[k].id = row[k].id
                                         \/ row'[k].id = id
    BY <1>3 DEF Insert, InsertedRow, RequestInv, TypeOK
  <2>2. abandoned' = abandoned /\ \A a \in abandoned : a.id # id
    BY <1>3 DEF Insert, IdsInUse
  <2> QED
    BY <2>1, <2>2 DEF OwnIds
<1>4. ASSUME NEW c \in Client, NEW id \in Ids, InsertAbandoned(c, id)
      PROVE  OwnIds'
  <2>1. /\ row' = row /\ \A a \in abandoned : a.id # id
        /\ \A k \in Key : row[k] # None => row[k].id # id
    BY <1>4 DEF InsertAbandoned, IdsInUse
  <2> DEFINE b == [id |-> id, key |-> request[c].key, content |-> request[c].content]
  <2>2. abandoned' = abandoned \cup {b} /\ b.id = id
    BY <1>4 DEF InsertAbandoned
  <2> HIDE DEF b
  <2> QED
    BY <2>1, <2>2 DEF OwnIds
<1>5. ASSUME NEW a \in abandoned, InsertLate(a)
      PROVE  OwnIds'
  <2>1. \A k \in Key : row'[k] # None => \/ row[k] # None /\ row'[k].id = row[k].id
                                         \/ row'[k].id = a.id
    BY <1>5 DEF InsertLate, InsertedRow, RequestInv, TypeOK
  <2>2. abandoned' = abandoned \ {a}
    BY <1>5 DEF InsertLate
  <2> QED
    BY <2>1, <2>2 DEF OwnIds
<1>6. ASSUME NEW a \in abandoned, InsertLost(a)
      PROVE  OwnIds'
  BY <1>6, <1>1 DEF InsertLost
<1>7. CASE \E k \in Key : Finish(k) \/ Replay(k)
  BY <1>1, <1>7 DEF Finish, Replay, ActiveKeys, RequestInv, TypeOK, Row
<1>8. CASE \E K \in SUBSET Key : Cleanup(K)
  BY <1>1, <1>8 DEF Cleanup
<1>9. ASSUME NEW c \in Client,
             \/ \E k \in Key, x \in Content : Arrive(c, k, x)
             \/ CountActive(c) \/ TurnAway(c) \/ InsertDuplicate(c) \/ ReadBack(c)
             \/ Reread(c) \/ StatementFails(c) \/ Respond(c)
      PROVE  OwnIds'
  <2>1. UNCHANGED <<row, abandoned>>
    BY <1>9 DEF Arrive, CountActive, TurnAway, InsertDuplicate, ReadBack, Reread,
                StatementFails, Respond
  <2> QED
    BY <1>2, <2>1
<1>10. CASE Next
  BY <1>3, <1>4, <1>5, <1>6, <1>7, <1>8, <1>9, <1>10 DEF Next
<1> QED
  BY <1>2, <1>10 DEF vars

(* What workers, operators and the removal do to rows.                     *)
LEMMA RowSteps ==
  ASSUME RequestInv, NEW k \in Key, Finish(k) \/ Replay(k)
  PROVE  Implemented
<1>1. /\ request' = request /\ row[k] # None /\ abandoned' = abandoned
      /\ row' \in [Key -> Row \cup {None}]
      /\ \A l \in Key : IF row[l] = None THEN row'[l] = None
                        ELSE row'[l] # None /\ Entry(row'[l]) = Entry(row[l])
  <2>1. PICK m : /\ row' = [row EXCEPT ![k] = m]
                 /\ m = [row[k] EXCEPT !.active = FALSE]
                      \/ m = [row[k] EXCEPT !.active = TRUE, !.replayed = TRUE]
    BY DEF Finish, Replay
  <2>2. /\ request' = request /\ abandoned' = abandoned
        /\ row[k] # None /\ row[k] \in Row
    BY DEF Finish, Replay, ActiveKeys, RequestInv, TypeOK
  <2>3. m \in Row /\ m.id = row[k].id /\ m.content = row[k].content
    BY <2>1, <2>2 DEF Row
  <2>4. m # None
    BY <2>3, AdmissionAssumption, Zenon DEF Row
  <2>5. \A l \in Key : row'[l] = IF l = k THEN m ELSE row[l]
    BY <2>1 DEF RequestInv, TypeOK
  <2> QED
    BY <2>1, <2>2, <2>3, <2>4, <2>5 DEF RequestInv, TypeOK, Entry
<1>2. call' = call
  BY <1>1 DEF call, Seen
<1>3. stored' = stored
  BY <1>1 DEF stored
<1>4. RequestInv'
  BY <1>1 DEF RequestInv, TypeOK
<1> QED
  BY <1>1, <1>2, <1>3, <1>4 DEF Implemented, I!vars

LEMMA CleanupStep ==
  ASSUME RequestInv, NEW K \in SUBSET Key, Cleanup(K)
  PROVE  Implemented
<1>1. /\ request' = request /\ abandoned' = abandoned
      /\ row' = [k \in Key |-> IF k \in K THEN None ELSE row[k]]
  BY DEF Cleanup
<1>2. call' = call
  BY <1>1 DEF call, Seen
<1>3. stored' = [k \in Key |-> IF k \in K THEN None ELSE stored[k]]
  BY <1>1 DEF stored
<1>4. I!Removed(K)
  BY <1>1, <1>2, <1>3 DEF I!Removed
<1>5. RequestInv'
  BY <1>1 DEF RequestInv, TypeOK
<1> QED
  BY <1>4, <1>5 DEF Implemented, I!Next

-----------------------------------------------------------------------------
LEMMA AdmissionInit == Init => RequestInv /\ OwnIds /\ I!Init
<1> SUFFICES ASSUME Init PROVE RequestInv /\ OwnIds /\ I!Init
  OBVIOUS
<1>1. Free \in Req /\ Free.pc = "idle"
  BY DEF Free, Req, PC
<1>2. RequestInv
  BY <1>1 DEF Init, RequestInv, TypeOK, Busy
<1>3. Seen(Free) = I!Idle
  BY <1>1, SeenIdle
<1>4. I!Init
  BY <1>3 DEF Init, I!Init, stored, call
<1>5. OwnIds
  BY DEF Init, OwnIds
<1> QED
  BY <1>2, <1>4, <1>5

LEMMA AdmissionStep ==
  RequestInv /\ OwnIds /\ [Next]_vars
    => RequestInv' /\ OwnIds' /\ [I!Next]_(I!vars)
<1> SUFFICES ASSUME RequestInv, OwnIds, [Next]_vars PROVE Implemented
  BY OwnIdsStep DEF Implemented
<1>1. CASE UNCHANGED vars
  <2>1. call' = call /\ stored' = stored /\ RequestInv'
    BY <1>1 DEF vars, call, stored, Seen, Entry, RequestInv, TypeOK
  <2>2. abandoned' = abandoned
    BY <1>1 DEF vars
  <2> QED
    BY <2>1, <2>2 DEF Implemented, I!vars
<1>2. ASSUME NEW c \in Client, StatementFails(c) PROVE Implemented
  BY <1>2, ErrorStep DEF StatementFails, Busy, RequestInv, TypeOK, Req
<1>3. CASE Next
  BY <1>2, <1>3, ArriveStep, QuietSteps, TurnAwayStep, InsertStep,
     InsertAbandonedStep, InsertLateStep, InsertLostStep, ReadBackStep, RereadStep,
     RespondStep, RowSteps, CleanupStep DEF Next
<1> QED
  BY <1>1, <1>3

(* Every connection is answered as if the requests had been handled one at *)
(* a time, although Create keeps no lock and no transaction between the    *)
(* count, the insert and the read, and rows may be removed in between.     *)
THEOREM AdmissionRefinement == Spec => AnswersAsIfAlone
BY AdmissionInit, AdmissionStep, PTL DEF Spec, AnswersAsIfAlone, I!Spec

LEMMA RequestInvariant == Spec => []RequestInv
BY AdmissionInit, AdmissionStep, PTL DEF Spec

(* Rows and connections keep their shape through every interleaving of the *)
(* statements of Create, whatever removes or replays rows meanwhile.       *)
THEOREM AdmissionTypes == Spec => []TypeOK
<1>1. RequestInv => TypeOK
  BY DEF RequestInv
<1> QED
  BY RequestInvariant, <1>1, PTL

-----------------------------------------------------------------------------
(* The backlog: whoever has been let through by the count and has not yet  *)
(* inserted is counted as if it had, with or without its caller.  The last *)
(* to be let through saw fewer rows than the limit, and the others are at  *)
(* most the other connections and the inserts that have been abandoned.    *)
FewAbandoned ==
  IsFiniteSet(abandoned) /\ Cardinality(abandoned) <= MaxAbandoned

BacklogInv == FewAbandoned /\ BacklogBounded

LEMMA BacklogFinite ==
  /\ IsFiniteSet(Counted) /\ Cardinality(Counted) \in Nat
  /\ IsFiniteSet(Inserting) /\ Cardinality(Inserting) \in Nat
  /\ Cardinality(Inserting) <= Cardinality(Client)
  /\ Cardinality(Client) \in Nat /\ BacklogLimit \in Nat \ {0}
  /\ MaxAbandoned \in Nat
<1>1. Counted \subseteq Key /\ Inserting \subseteq Client
  BY DEF Counted, ActiveKeys, Inserting
<1> HIDE DEF Counted, Inserting
<1> QED
  BY <1>1, AdmissionAssumption, FS_Subset, FS_CardinalityType

(* Fewer rows count, or fewer requests are let through.                    *)
LEMMA BacklogShrinks ==
  ASSUME BacklogInv, Counted' \subseteq Counted, Inserting' \subseteq Inserting,
         abandoned' \subseteq abandoned
  PROVE  BacklogInv'
<1>1. /\ Cardinality(Counted') \in Nat /\ Cardinality(Counted') <= Cardinality(Counted)
      /\ Cardinality(Inserting') \in Nat
      /\ Cardinality(Inserting') <= Cardinality(Inserting)
  BY BacklogFinite, FS_Subset, FS_CardinalityType
<1>2. /\ IsFiniteSet(abandoned') /\ Cardinality(abandoned') \in Nat
      /\ Cardinality(abandoned) \in Nat
      /\ Cardinality(abandoned') <= Cardinality(abandoned)
  BY FS_Subset, FS_CardinalityType DEF BacklogInv, BacklogBounded, FewAbandoned
<1> QED
  BY <1>1, <1>2, BacklogFinite DEF BacklogInv, BacklogBounded, FewAbandoned

(* The requests let through are no more after a connection has moved on to *)
(* anything but the insert.                                                *)
LEMMA NobodyLetThrough ==
  ASSUME TypeOK, NEW c \in Client, NEW r, request' = [request EXCEPT ![c] = r],
         r.pc # "inserting"
  PROVE  Inserting' = Inserting \ {c}
BY DEF TypeOK, Inserting

LEMMA GotoElsewhere ==
  ASSUME TypeOK, NEW c \in Client, NEW pc \in Busy, pc # "inserting", Goto(c, pc)
  PROVE  Inserting' = Inserting \ {c}
<1>1. PICK r : Continues(c, r) /\ r.pc = pc
  BY GotoGoesOn
<1> QED
  BY <1>1, NobodyLetThrough DEF Continues

LEMMA CountStep ==
  ASSUME RequestInv, BacklogInv, NEW c \in Client, CountActive(c)
  PROVE  BacklogInv'
<1>1. row' = row /\ Counted' = Counted /\ abandoned' = abandoned
  BY DEF CountActive, Counted, ActiveKeys
<1>2. CASE Cardinality(ActiveKeys) >= BacklogLimit
  <2>1. Goto(c, "turning away") /\ "turning away" \in Busy
    BY <1>2 DEF CountActive, Busy, PC
  <2>2. Inserting' = Inserting \ {c}
    BY <2>1, GotoElsewhere DEF RequestInv
  <2> QED
    BY <1>1, <2>2, BacklogShrinks
<1>3. CASE ~(Cardinality(ActiveKeys) >= BacklogLimit)
  <2>1. IsFiniteSet(ActiveKeys) /\ Counted \subseteq ActiveKeys
    <3>1. ActiveKeys \subseteq Key
      BY DEF ActiveKeys
    <3> QED
      BY <3>1, AdmissionAssumption, FS_Subset DEF Counted
  <2>2. /\ Cardinality(ActiveKeys) \in Nat
        /\ Cardinality(Counted) <= Cardinality(ActiveKeys)
    BY <2>1, FS_Subset, FS_CardinalityType
  <2>3. /\ Cardinality(Counted) <= BacklogLimit - 1
        /\ Cardinality(Counted) \in Nat /\ Cardinality(Client) \in Nat
        /\ BacklogLimit \in Nat \ {0}
    BY <1>3, <2>2, BacklogFinite
  <2>4. Inserting' \subseteq Client
    BY DEF Inserting
  <2>5. /\ Cardinality(Inserting') <= Cardinality(Client)
        /\ Cardinality(Inserting') \in Nat
    BY <2>4, AdmissionAssumption, FS_Subset, FS_CardinalityType
  <2>6. Cardinality(abandoned) \in Nat /\ MaxAbandoned \in Nat
    BY BacklogFinite, FS_CardinalityType DEF BacklogInv, BacklogBounded, FewAbandoned
  <2> QED
    BY <1>1, <2>3, <2>5, <2>6 DEF BacklogInv, BacklogBounded, FewAbandoned
<1> QED
  BY <1>2, <1>3

(* A row is put: one more counts.                                          *)
LEMMA PutCounts ==
  ASSUME RequestInv, NEW k \in Key, NEW n, row' = [row EXCEPT ![k] = n]
  PROVE  /\ Cardinality(Counted') \in Nat
         /\ Cardinality(Counted') <= Cardinality(Counted) + 1
<1>1. Counted' \subseteq Counted \cup {k}
  BY DEF Counted, ActiveKeys, RequestInv, TypeOK
<1>2. /\ IsFiniteSet(Counted \cup {k})
      /\ Cardinality(Counted \cup {k}) \in Nat
      /\ Cardinality(Counted \cup {k}) <= Cardinality(Counted) + 1
  <2>1. /\ IsFiniteSet(Counted \cup {k})
        /\ \/ Cardinality(Counted \cup {k}) = Cardinality(Counted)
           \/ Cardinality(Counted \cup {k}) = Cardinality(Counted) + 1
    BY BacklogFinite, FS_AddElement
  <2> QED
    BY <2>1, BacklogFinite
<1>3. /\ Cardinality(Counted') <= Cardinality(Counted \cup {k})
      /\ Cardinality(Counted') \in Nat
  BY <1>1, <1>2, FS_Subset, FS_CardinalityType
<1> QED
  BY <1>2, <1>3, BacklogFinite

(* The request let through becomes a row: one less there, one more here.   *)
LEMMA InsertCounts ==
  ASSUME RequestInv, BacklogInv, NEW c \in Client, NEW id \in Ids, Insert(c, id)
  PROVE  BacklogInv'
<1> DEFINE k == request[c].key
<1>1. c \in Inserting /\ Inserting' = Inserting \ {c}
  <2> DEFINE q == [request[c] EXCEPT !.pc = "reading back", !.id = id]
  <2>1. request[c] \in Req
    BY DEF RequestInv, TypeOK
  <2>2. q.pc = "reading back" /\ request' = [request EXCEPT ![c] = q]
    BY <2>1 DEF Insert, RequestInv, TypeOK, Req
  <2> HIDE DEF q
  <2> QED
    BY <2>2, NobodyLetThrough DEF Inserting, Insert, RequestInv
<1>2. /\ Cardinality(Counted') \in Nat
      /\ Cardinality(Counted') <= Cardinality(Counted) + 1
  BY PutCounts DEF Insert, RequestInv, Busy, PC
<1>3. abandoned' = abandoned /\ Cardinality(abandoned) \in Nat
  BY FS_CardinalityType DEF Insert, BacklogInv, BacklogBounded, FewAbandoned
<1>4. Cardinality(Inserting') = Cardinality(Inserting) - 1
  BY <1>1, BacklogFinite, FS_RemoveElement
<1> QED
  BY <1>2, <1>3, <1>4, BacklogFinite DEF BacklogInv, BacklogBounded, FewAbandoned

(* It becomes an insert without a caller.                                  *)
LEMMA AbandonCounts ==
  ASSUME RequestInv, BacklogInv, NEW c \in Client, NEW id \in Ids,
         InsertAbandoned(c, id)
  PROVE  BacklogInv'
<1> DEFINE a == [id |-> id, key |-> request[c].key, content |-> request[c].content]
<1>1. /\ Counted' = Counted /\ c \in Inserting /\ Goto(c, "error")
      /\ "error" \in Busy /\ abandoned' = abandoned \cup {a}
      /\ Cardinality(abandoned) < MaxAbandoned
  BY DEF InsertAbandoned, Counted, ActiveKeys, Inserting, Busy, PC
<1>2. Inserting' = Inserting \ {c}
  BY <1>1, GotoElsewhere DEF RequestInv
<1>3. Cardinality(Inserting') = Cardinality(Inserting) - 1
  BY <1>1, <1>2, BacklogFinite, FS_RemoveElement
<1> HIDE DEF a
<1>4. /\ IsFiniteSet(abandoned') /\ Cardinality(abandoned) \in Nat
      /\ \/ Cardinality(abandoned') = Cardinality(abandoned)
         \/ Cardinality(abandoned') = Cardinality(abandoned) + 1
  BY <1>1, FS_AddElement, FS_CardinalityType DEF BacklogInv, BacklogBounded, FewAbandoned
<1> QED
  BY <1>1, <1>3, <1>4, BacklogFinite DEF BacklogInv, BacklogBounded, FewAbandoned

(* An insert without a caller becomes a row, or nothing.                   *)
LEMMA LateCounts ==
  ASSUME RequestInv, BacklogInv, NEW a \in abandoned, InsertLate(a)
  PROVE  BacklogInv'
<1>1. Inserting' = Inserting /\ abandoned' = abandoned \ {a} /\ a.key \in Key
  BY DEF InsertLate, Inserting, RequestInv, TypeOK, Insertion
<1>2. /\ Cardinality(Counted') \in Nat
      /\ Cardinality(Counted') <= Cardinality(Counted) + 1
  BY <1>1, PutCounts DEF InsertLate
<1>3. /\ IsFiniteSet(abandoned') /\ Cardinality(abandoned) \in Nat
      /\ Cardinality(abandoned') = Cardinality(abandoned) - 1
  BY <1>1, FS_RemoveElement, FS_CardinalityType DEF BacklogInv, BacklogBounded, FewAbandoned
<1> QED
  BY <1>1, <1>2, <1>3, BacklogFinite DEF BacklogInv, BacklogBounded, FewAbandoned

LEMMA LostCounts ==
  ASSUME BacklogInv, NEW a \in abandoned, InsertLost(a)
  PROVE  BacklogInv'
<1>1. Inserting' = Inserting /\ Counted' = Counted /\ abandoned' \subseteq abandoned
  BY DEF InsertLost, Inserting, Counted, ActiveKeys
<1> QED
  BY <1>1, BacklogShrinks

(* A connection that is neither let through nor inserts.                   *)
LEMMA CreateShrinks ==
  ASSUME RequestInv, BacklogInv, NEW c \in Client,
         \/ \E k \in Key, x \in Content : Arrive(c, k, x)
         \/ TurnAway(c) \/ InsertDuplicate(c) \/ ReadBack(c) \/ Reread(c)
         \/ StatementFails(c) \/ Respond(c)
  PROVE  BacklogInv'
<1>1. Counted' = Counted /\ abandoned' = abandoned
  BY DEF Arrive, TurnAway, InsertDuplicate, ReadBack, Reread, StatementFails,
         Respond, Counted, ActiveKeys
<1>2. CASE \E pc \in Busy : pc # "inserting" /\ Goto(c, pc)
  BY <1>1, <1>2, GotoElsewhere, BacklogShrinks DEF RequestInv
<1>3. ASSUME NEW r, request' = [request EXCEPT ![c] = r], r.pc # "inserting"
      PROVE  BacklogInv'
  <2>1. Inserting' = Inserting \ {c}
    BY <1>3, NobodyLetThrough DEF RequestInv
  <2> QED
    BY <1>1, <2>1, BacklogShrinks
<1>4. ASSUME NEW n, Compare(c, n) PROVE BacklogInv'
  <2>1. CASE n.content = request[c].content
    <3> DEFINE q == [request[c] EXCEPT !.pc = "existing", !.id = n.id]
    <3>1. request[c] \in Req
      BY DEF RequestInv, TypeOK
    <3>2. q.pc = "existing" /\ request' = [request EXCEPT ![c] = q]
      BY <1>4, <2>1, <3>1 DEF Compare, RequestInv, TypeOK, Req
    <3> HIDE DEF q
    <3> QED
      BY <1>3, <3>2
  <2>2. CASE n.content # request[c].content
    BY <1>2, <1>4, <2>2 DEF Compare, Busy, PC
  <2> QED
    BY <2>1, <2>2
<1>5. CASE \E k \in Key, x \in Content : Arrive(c, k, x)
  <2>1. PICK k \in Key, x \in Content : Arrive(c, k, x)
    BY <1>5
  <2> DEFINE q == [pc |-> "counting", key |-> k, content |-> x, id |-> None]
  <2>2. request' = [request EXCEPT ![c] = q] /\ q.pc # "inserting"
    BY <2>1 DEF Arrive
  <2> HIDE DEF q
  <2> QED
    BY <1>3, <2>2
<1>6. CASE Respond(c)
  <2>1. request' = [request EXCEPT ![c] = Free] /\ Free.pc # "inserting"
    BY <1>6 DEF Respond, Free
  <2> QED
    BY <1>3, <2>1
<1>7. CASE TurnAway(c) \/ Reread(c)
  BY <1>2, <1>4, <1>7 DEF TurnAway, Reread, Busy, PC
<1>8. CASE InsertDuplicate(c) \/ ReadBack(c) \/ StatementFails(c)
  BY <1>2, <1>8 DEF InsertDuplicate, ReadBack, StatementFails, Busy, PC
<1> QED
  BY <1>5, <1>6, <1>7, <1>8

(* Finishing, replaying and removing rows leaves none that counts anew.    *)
LEMMA RowsShrink ==
  ASSUME RequestInv, BacklogInv,
         \/ \E k \in Key : Finish(k) \/ Replay(k)
         \/ \E K \in SUBSET Key : Cleanup(K)
  PROVE  BacklogInv'
<1>1. Inserting' = Inserting /\ abandoned' = abandoned
  BY DEF Finish, Replay, Cleanup, Inserting
<1>2. CASE \E k \in Key : Finish(k)
  <2>1. Counted' \subseteq Counted
    BY <1>2 DEF Finish, Counted, ActiveKeys, RequestInv, TypeOK, Row
  <2> QED
    BY <1>1, <2>1, BacklogShrinks
<1>3. CASE \E k \in Key : Replay(k)
  <2>1. Counted' \subseteq Counted
    BY <1>3 DEF Replay, Counted, ActiveKeys, RequestInv, TypeOK, Row
  <2> QED
    BY <1>1, <2>1, BacklogShrinks
<1>4. CASE \E K \in SUBSET Key : Cleanup(K)
  <2>1. Counted' \subseteq Counted
    BY <1>4 DEF Cleanup, Counted, ActiveKeys
  <2> QED
    BY <1>1, <2>1, BacklogShrinks
<1> QED
  BY <1>2, <1>3, <1>4

LEMMA BacklogInit == Init => BacklogInv
<1> SUFFICES ASSUME Init PROVE BacklogInv
  OBVIOUS
<1>1. Counted = {} /\ Inserting = {} /\ abandoned = {}
  BY DEF Init, Counted, ActiveKeys, Inserting, Free
<1> QED
  BY <1>1, BacklogFinite, FS_EmptySet DEF BacklogInv, BacklogBounded, FewAbandoned

LEMMA BacklogStep == RequestInv /\ BacklogInv /\ [Next]_vars => BacklogInv'
<1> SUFFICES ASSUME RequestInv, BacklogInv, [Next]_vars PROVE BacklogInv'
  OBVIOUS
<1>1. CASE UNCHANGED vars
  <2>1. Counted' = Counted /\ Inserting' = Inserting /\ abandoned' = abandoned
    BY <1>1 DEF vars, Counted, ActiveKeys, Inserting
  <2> QED
    BY <2>1, BacklogShrinks
<1>2. CASE Next
  BY <1>2, CountStep, InsertCounts, AbandonCounts, LateCounts, LostCounts, CreateShrinks,
     RowsShrink DEF Next
<1> QED
  BY <1>1, <1>2

(* Requests that counted before others inserted may pass the limit, each by*)
(* one row and no more, however many connections there are and however many*)
(* inserts go on without their caller (Create).                            *)
THEOREM BacklogSafety == Spec => []BacklogBounded
<1>1. BacklogInv => BacklogBounded
  BY DEF BacklogInv
<1> QED
  BY BacklogInit, BacklogStep, RequestInvariant, <1>1, PTL DEF Spec
=============================================================================
