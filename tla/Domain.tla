------------------------------- MODULE Domain -------------------------------
(***************************************************************************)
(* The vocabulary of internal/domain/model.go that the other modules share.*)
(*                                                                         *)
(* Instants are naturals on the database clock, NOW(6); one unit stands    *)
(* for whatever granularity the instance needs.  NoTime is the NULL of a   *)
(* nullable DATETIME column and the nil of a *time.Time: it is earlier     *)
(* than every instant.                                                     *)
(***************************************************************************)
EXTENDS Integers

NoTime == -1

Instant == Nat
OptionalInstant == Nat \cup {NoTime}

Later(s, t) == IF s < t THEN t ELSE s
Earlier(s, t) == IF s < t THEN s ELSE t

(* "absent" and "deleted" are not statuses of a row: they say that the row *)
(* has not been inserted yet, and that Cleanup has removed it (identifiers *)
(* are random UUIDs, a deleted one never comes back).                      *)
Active == {"pending", "processing"}
Terminal == {"succeeded", "failed"}
Status == Active \cup Terminal
RowStatus == Status \cup {"absent", "deleted"}

StopReason == {"", "PERMANENT_ERROR", "RETRY_EXHAUSTED", "EXPIRED"}

(* What notification_attempt.result can hold, and the delivery_evidence    *)
(* beside it: whether the vendor's answer was seen, cannot be known, or    *)
(* nothing was sent.                                                       *)
AnswerResult == {"http_success", "http_failure", "transport_error"}
AttemptResult == AnswerResult \cup {"in_progress", "recovered_unknown"}
Evidence == {"", "http_response", "unknown", "not_sent"}
=============================================================================
