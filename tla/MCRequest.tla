----------------------------- MODULE MCRequest -----------------------------
(***************************************************************************)
(* RequestPath on small inputs.  A and B are canonical names, a spells A   *)
(* too, and F is forbidden; the string B is also a value and a body.  The  *)
(* host u stands for one that is not ASCII.  A submission has rich headers,*)
(* or differs from a plain one in its address, its method or its size.     *)
(***************************************************************************)
EXTENDS RequestPath

MCCanonical == [s \in Spelling |-> IF s = "a" THEN "A" ELSE s]
MCNameOrder == <<"A", "B", "F">>
MCLower == [h \in {"h", "H", "g", "u", "xn--u"} |-> IF h = "H" THEN "h" ELSE h]
MCDialHost == [h \in DOMAIN MCLower |-> IF h = "u" THEN "xn--u" ELSE h]
MCUpper == [m \in {"POST", "post", "GET", "TRACE"} |-> IF m = "post" THEN "POST" ELSE m]

None == <<>>
HeaderMaps(spellings, values, n) ==
  UNION {[names -> BoundedSeq(values, n)] : names \in SUBSET spellings}

Plain == [caller_id |-> "c", target_id |-> "t", method |-> "POST", headers |-> None,
          url |-> [scheme |-> "http", host |-> "h", port |-> NoPort], body |-> "x"]

Urls == [scheme : {"http", "https"}, host : {"h", "H", "g", "u"}, port : {NoPort, 80, 443}]
BadUrls == [scheme : {"http", ""}, host : {"h", ""}, port : {NoPort, 0, 70000}]

MCSubmission ==
  {[Plain EXCEPT !.headers = h, !.body = b] :
     h \in HeaderMaps({"A", "a", "B"}, {"", "B"}, 1), b \in {"x", "B"}}
    \cup {[Plain EXCEPT !.headers = h] :
            h \in HeaderMaps({"A", "B"}, {"", "B"}, 2) \cup HeaderMaps({"F"}, {"B"}, 1)}
    \cup {[Plain EXCEPT !.url = u, !.caller_id = c] : u \in Urls, c \in {"c", "d"}}
    \cup {[Plain EXCEPT !.url = u] : u \in BadUrls}
    \cup {[Plain EXCEPT !.method = m, !.target_id = t] :
            m \in DOMAIN MCUpper, t \in {"t", "s", "none"}}
    \cup {[Plain EXCEPT !.body = "long"]}

Target == [callers |-> {"c", "d"}, hosts |-> {"h"}, ports |-> {80, 443},
           credential |-> None, allow_private |-> FALSE]
With(t, s) == [i \in {"t", "s"} |-> IF i = "t" THEN t ELSE s]

MCConfiguration ==
  {With(Target, Target),
   With([Target EXCEPT !.hosts = {"H", "g"}, !.ports = {80}, !.allow_private = TRUE], Target),
   With([Target EXCEPT !.callers = {"d"}], [Target EXCEPT !.hosts = {"g"}]),
   With([Target EXCEPT !.hosts = {"h", "u"},
                       !.credential = [s \in {"B"} |-> "secret"]], Target),
   With([Target EXCEPT !.hosts = {"h", "u", "xn--u"},
                       !.credential = [s \in {"A", "a"} |-> "secret"]], Target),
   With([Target EXCEPT !.credential = [s \in {"A", "a"} |-> IF s = "A" THEN "" ELSE "secret"]],
        Target),
   [i \in {"s"} |-> [Target EXCEPT !.ports = {443}]]}

MCLookup == {None, <<"public">>, <<"private">>, <<"public", "private">>, <<"private", "public">>}

(* The plain request with a header in two spellings.                       *)
MCTwice ==
  {[Plain EXCEPT !.headers = h] : h \in HeaderMaps({"A", "a", "B"}, {"B", "v"}, 1)}

MCOne == {With(Target, Target)}
=============================================================================
