----------------------------- MODULE RequestPath -----------------------------
(***************************************************************************)
(* What becomes of a request between its caller and the vendor: validate   *)
(* and the comparison of digests when it is submitted under an idempotency *)
(* key, Client.Deliver and its guarded dialer when it is sent.             *)
(*                                                                         *)
(* Processes share the database and each has the configuration it was      *)
(* started with: a request may be accepted under one and sent under        *)
(* another.  The row's content never changes, so one call after the row    *)
(* exists, whichever it is, shows what every later call can do.            *)
(***************************************************************************)
EXTENDS RequestDigest

CONSTANTS Configuration,   \* the targets of the processes, by identifier
          Submission,      \* requests as callers send them
          Lower,           \* the lower-case form of every host
          DialHost,        \* every host as net/http dials it: itself, or its
                           \* punycode if it is not ASCII
          Upper,           \* the upper-case form of every method
          Forbidden,       \* canonical names a request must not contain
          BadBody,         \* bodies too long or not UTF-8
          HeaderLimit,     \* bound on the values of a request's headers
          Lookup,          \* what a resolver may answer: addresses, or none
          Private          \* addresses that are not public

(* Headers are finite maps from names to lists of strings; a credential is  *)
(* a finite map.                                                           *)
ASSUME RequestAssumption ==
  /\ \A s \in Submission :
       /\ IsFiniteSet(DOMAIN s.headers) /\ DOMAIN s.headers \subseteq Spelling
       /\ \A n \in DOMAIN s.headers : s.headers[n] \in Seq(STRING)
  /\ \A c \in Configuration : \A t \in DOMAIN c : IsFiniteSet(DOMAIN c[t].credential)
  /\ \A addresses \in Lookup : addresses \in Seq(Range(addresses))

VARIABLES row,     \* the notification of the key, NoRow before
          first,   \* the submission that created it
          last     \* the last call and what came of it

vars == <<row, first, last>>

NoRow == [stored |-> FALSE]
NoCall == [call |-> "none"]

Method == {"GET", "POST", "PUT", "PATCH", "DELETE"}

NoPort == -1

Blank == ""

-----------------------------------------------------------------------------
(* Accepting                                                               *)

(* Fault: a URL without a port means port 80.                              *)
PortOf_AlwaysHTTP(url) == IF url.port # NoPort THEN url.port ELSE 80

PortOf(url) ==
  IF url.port # NoPort THEN url.port ELSE IF url.scheme = "https" THEN 443 ELSE 80

PortNumber == 1 .. 65535

(* An unusable URL is one without scheme or host.                          *)
Malformed(s) ==
  \/ Upper[s.method] \notin Method
  \/ s.body \in BadBody
  \/ s.url.scheme \notin {"http", "https"} \/ s.url.host = Blank
  \/ PortOf(s.url) \notin PortNumber

MalformedHeaders(headers) ==
  \/ \E s \in DOMAIN headers : Canonical[s] \in Forbidden
  \/ MapThenSumSet(LAMBDA s : Len(headers[s]), DOMAIN headers) > HeaderLimit

SameHost(hosts, host) == \E h \in hosts : Lower[h] = Lower[host]

(* The error of validate.                                                  *)
Refusal(c, s) ==
  IF s.target_id \notin DOMAIN c \/ s.caller_id \notin c[s.target_id].callers
  THEN "target_not_allowed"
  ELSE IF Malformed(s) THEN "invalid_request"
  ELSE IF \/ ~SameHost(c[s.target_id].hosts, s.url.host)
          \/ PortOf(s.url) \notin c[s.target_id].ports
  THEN "target_not_allowed"
  ELSE IF MalformedHeaders(s.headers) THEN "invalid_request" ELSE "none"

Validated(s, order) ==
  [target_id |-> s.target_id, url |-> s.url, method |-> Upper[s.method],
   headers |-> Normalized(s.headers, order), body |-> s.body]

Stored(s, order) ==
  LET request == Validated(s, order)
  IN  [caller_id |-> s.caller_id, request |-> request, request_hash |-> requestHash(request)]

Answered(c, s, answer) ==
  last' = [call |-> "submit", by |-> c, request |-> s, answer |-> answer]

Submit(c, s, order) ==
  \/ /\ Refusal(c, s) # "none"
     /\ Answered(c, s, Refusal(c, s))
     /\ UNCHANGED <<row, first>>
  \/ /\ Refusal(c, s) = "none" /\ row = NoRow
     /\ Answered(c, s, "created")
     /\ row' = Stored(s, order)
     /\ first' = s
  \/ /\ Refusal(c, s) = "none" /\ row # NoRow
     /\ Answered(c, s, IF Stored(s, order).request_hash = row.request_hash
                       THEN "existing" ELSE "conflict")
     /\ UNCHANGED <<row, first>>

-----------------------------------------------------------------------------
(* Sending                                                                 *)

(* Fault: the caller is not looked at again.                               *)
Usable_AnyCaller(c) == row.request.target_id \in DOMAIN c

Usable(c) ==
  row.request.target_id \in DOMAIN c /\ row.caller_id \in c[row.request.target_id].callers

(* http.Header.Get                                                         *)
Get(headers, n) == IF n \in DOMAIN headers THEN headers[n][1] ELSE Blank

(* http.Header.Set                                                         *)
Set(headers, n, value) ==
  [m \in DOMAIN headers \cup {n} |-> IF m = n THEN <<value>> ELSE headers[m]]

(* Fault: the credential replaces whatever the caller has sent.            *)
WithCredential_Replaces(headers, credential, order) ==
  [conflict |-> FALSE,
   headers  |-> FoldLeft(LAMBDA hs, s : Set(hs, NameOf(s), credential[s]),
                         headers, order)]

AddHeader(r, n, value) ==
  IF r.conflict \/ Get(r.headers, n) # Blank
  THEN [r EXCEPT !.conflict = TRUE] ELSE [r EXCEPT !.headers = Set(@, n, value)]

(* The credential's headers are set one by one, in the order of its map,   *)
(* until one of them has a value already.                                  *)
WithCredential(headers, credential, order) ==
  FoldLeft(LAMBDA r, s : AddHeader(r, NameOf(s), credential[s]),
           [conflict |-> FALSE, headers |-> headers], order)

(* net/http dials the port of the scheme, unless the URL names one, and the*)
(* host as DialHost has it; validate has looked at the host as written.    *)
DialledPort(url) ==
  IF url.port # NoPort THEN url.port ELSE [http |-> 80, https |-> 443][url.scheme]

DialRefused(t, addresses) ==
  \/ ~SameHost(t.hosts, DialHost[row.request.url.host])
  \/ DialledPort(row.request.url) \notin t.ports
  \/ ~t.allow_private /\ Range(addresses) \cap Private # {}

Failed(code, evidence) == [code |-> code, evidence |-> evidence]

(* A look-up takes place only for a host and a port that are allowed.      *)
Delivered(c, addresses, order) ==
  LET t == c[row.request.target_id]
      r == WithCredential(row.request.headers, t.credential, order)
  IN  IF ~Usable(c) THEN Failed("target_not_allowed", "not_sent")
      ELSE IF r.conflict THEN Failed("credential_conflict", "not_sent")
      ELSE IF DialRefused(t, addresses) THEN Failed("target_not_allowed", "unknown")
      ELSE IF addresses = <<>> THEN Failed("dns_error", "unknown")
      ELSE [code |-> "none", address |-> Head(addresses),
            wire |-> [url |-> [row.request.url EXCEPT !.host = DialHost[@]],
                      method |-> row.request.method,
                      headers |-> r.headers, body |-> row.request.body]]

CredentialNames(c) ==
  IF Usable(c) THEN DOMAIN c[row.request.target_id].credential ELSE {}

Deliver(c, addresses, order) ==
  /\ last' = [call |-> "deliver", by |-> c, addresses |-> addresses,
              result |-> Delivered(c, addresses, order)]
  /\ UNCHANGED <<row, first>>

-----------------------------------------------------------------------------
Init ==
  /\ row = NoRow
  /\ first = NoCall
  /\ last = NoCall

JustCreated == last.call = "submit" /\ last.answer = "created"

(* A key belongs to its caller.  Bound: one call after the row exists.     *)
Next ==
  \/ /\ row = NoRow \/ JustCreated
     /\ \E c \in Configuration, s \in Submission :
          /\ row # NoRow => s.caller_id = row.caller_id
          /\ \E order \in Orders(DOMAIN s.headers) : Submit(c, s, order)
  \/ /\ JustCreated
     /\ \E c \in Configuration, addresses \in Lookup :
          \E order \in Orders(CredentialNames(c)) : Deliver(c, addresses, order)

Spec == Init /\ [][Next]_vars

-----------------------------------------------------------------------------
(* No header is given twice in two spellings.                              *)
Unambiguous(s) ==
  \A n, m \in DOMAIN s.headers : Canonical[n] = Canonical[m] => n = m

SingleValued(s) == \A n \in DOMAIN s.headers : Len(s.headers[n]) <= 1

(* What a request without ambiguous headers says, whatever its spelling.   *)
Content(s) ==
  [target_id |-> s.target_id, url |-> s.url, method |-> Upper[s.method],
   body |-> s.body,
   headers |-> {<<Canonical[n], s.headers[n]>> :
                  n \in {m \in DOMAIN s.headers : s.headers[m] # <<>>}}]

Compared == last.call = "submit" /\ last.answer \in {"existing", "conflict"}

Admitted == Compared \/ JustCreated

Sent == last.call = "deliver" /\ last.result.code = "none"

(* A request repeated with its method or headers spelled otherwise, or with*)
(* an empty header more or less, is answered with the existing row, in     *)
(* whatever order the maps are iterated, as long as no header is given in  *)
(* two spellings.                                                          *)
RepetitionRecognised ==
  /\ Compared
  /\ Unambiguous(first) /\ Unambiguous(last.request)
  /\ Content(first) = Content(last.request)
  => last.answer = "existing"

(* A request that differs in target, URL, method, body, a header's name or *)
(* a header's value is answered with a conflict, as long as no header has  *)
(* several values.                                                         *)
DifferenceRecognised ==
  /\ Compared
  /\ \A s \in {first, last.request} : Unambiguous(s) /\ SingleValued(s)
  /\ Content(first) # Content(last.request)
  => last.answer = "conflict"

(* The checks of validate and of the dialer are written twice, and the     *)
(* second are fed by net/http.  They agree about the target, the caller,   *)
(* the port and every ASCII host: what a process would accept now it       *)
(* refuses to send only for a private address, or because it allows the    *)
(* host as it is written and not the punycode that is dialled.             *)
AcceptanceHolds ==
  /\ last.call = "deliver"
  /\ last.result.code = "target_not_allowed"
  /\ Refusal(last.by, first) = "none"
  => LET host == first.url.host
     IN  \/ Range(last.addresses) \cap Private # {}
         \/ DialHost[host] # host /\ DialHost[host] \notin last.by[first.target_id].hosts

(* docs/DESIGN.md, notification: a revoked permission overrides what was   *)
(* accepted before.  No process answers a submission with a row, or sends  *)
(* one, unless its own configuration admits the caller, the host (when it  *)
(* sends, the one that is dialled) and the port, and nothing is connected  *)
(* to that the look-up did not clear.                                      *)
RevocationWins ==
  Sent \/ Admitted =>
    LET s == IF Sent THEN first ELSE last.request
        t == last.by[s.target_id]
        host == IF Sent THEN DialHost[s.url.host] ELSE s.url.host
    IN  /\ s.target_id \in DOMAIN last.by
        /\ s.caller_id \in t.callers
        /\ \E h \in t.hosts : Lower[h] = Lower[host]
        /\ \E p \in t.ports :
             \/ p = s.url.port
             \/ s.url.port = NoPort /\ p = [http |-> 80, https |-> 443][s.url.scheme]
        /\ Sent => /\ last.result.address \in Range(last.addresses)
                   /\ t.allow_private \/ last.result.address \notin Private

(* The values that the spellings of name n contribute, in either order.    *)
Submitted(n) ==
  LET spellings == {s \in DOMAIN first.headers : Canonical[s] = n}
  IN  {FlattenSeq([i \in DOMAIN o |-> first.headers[o[i]]]) : o \in Orders(spellings)}

(* The vendor gets what was submitted plus the credential in force when it *)
(* is sent: a header of the caller arrives complete, a header of the       *)
(* credential has one value, of its spellings the one that is not empty if *)
(* there is one, and no header of the caller gives way to it unless its    *)
(* first value is empty (Client.Deliver).                                  *)
WireFaithful ==
  Sent =>
    LET w == last.result.wire
        credential == last.by[first.target_id].credential
        names == {NameOf(s) : s \in DOMAIN credential}
    IN  /\ w.url = [first.url EXCEPT !.host = DialHost[@]] /\ w.body = first.body /\ w.method = Upper[first.method]
        /\ \A n \in DOMAIN w.headers \ names : w.headers[n] \in Submitted(n)
        /\ \A n \in names : \E s \in DOMAIN credential :
             NameOf(s) = n /\ w.headers[n] = <<credential[s]>>
        /\ \A s \in DOMAIN credential :
             credential[s] # Blank => w.headers[NameOf(s)] = <<credential[s]>>
        /\ \A s \in DOMAIN first.headers :
             first.headers[s] # <<>> => Canonical[s] \in DOMAIN w.headers
        /\ \A n \in names : \E vs \in Submitted(n) : vs = <<>> \/ vs[1] = Blank

(* docs/DESIGN.md, notification: the comparison must not depend on the     *)
(* iteration order of a map.  A request repeated as it was is recognised.  *)
OneRequestOneDigest == Compared /\ last.request = first => last.answer = "existing"
=============================================================================
