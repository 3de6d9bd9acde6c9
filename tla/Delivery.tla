------------------------------ MODULE Delivery ------------------------------
(***************************************************************************)
(* internal/delivery/client.go: how one HTTP exchange is classified.  The  *)
(* network and the vendor are external; here is only what the client makes *)
(* of a status code, of a transport error and of a target it may not use.  *)
(***************************************************************************)
EXTENDS RetryPolicy

Answer == [result : AnswerResult, retryable : BOOLEAN,
           retry_after : Header, evidence : Evidence]

(* A response was read.  A 2xx is success whatever follows; of the others, *)
(* 408, 429 and the 5xx other than 501 and 505 may be retried.             *)
RetryableStatus(status) ==
  \/ status \in {408, 429}
  \/ status >= 500 /\ status \notin {501, 505}

HttpAnswer(status, header) ==
  IF status \in 200 .. 299
  THEN [result |-> "http_success", retryable |-> FALSE,
        retry_after |-> NoHeader, evidence |-> "http_response"]
  ELSE [result |-> "http_failure", retryable |-> RetryableStatus(status),
        retry_after |-> header, evidence |-> "http_response"]

(* client.Do failed: the vendor may or may not have seen the request.      *)
PermanentError ==
  {"target_not_allowed", "tls_certificate", "dns_not_found"}
TransientError == {"dns_error", "timeout", "transport_error"}

failed(evidence, retryable) ==
  [result |-> "transport_error", retryable |-> retryable,
   retry_after |-> NoHeader, evidence |-> evidence]

TransportAnswer(code) == failed("unknown", code \in TransientError)

(* Deliver gave up before sending: the target or the caller is no longer   *)
(* configured, the stored URL is unusable, or a stored header collides     *)
(* with the target's credential.                                           *)
NotSent == failed("not_sent", FALSE)

(* Everything Deliver can return when the vendor answers with one of these *)
(* status codes and Retry-After headers.                                   *)
Answers(statuses, headers) ==
  {HttpAnswer(s, h) : s \in statuses, h \in headers}
    \cup {TransportAnswer(c) : c \in PermanentError \cup TransientError}
    \cup {NotSent}

(* Whether the vendor can have accepted a request that was answered so: it *)
(* did if the client read a 2xx and did not if nothing was sent.  In every *)
(* other case it may have: a 500 may have had its effect, and a transport  *)
(* that sends a request again may have had the first copy accepted and the *)
(* second refused (docs/DESIGN.md, delivery semantics).                    *)
MayBeAccepted(answer) ==
  CASE answer.result = "http_success" -> {TRUE}
    [] answer.evidence = "not_sent"   -> {FALSE}
    [] OTHER                          -> BOOLEAN
=============================================================================
