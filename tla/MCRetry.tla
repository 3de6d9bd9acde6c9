------------------------------ MODULE MCRetry ------------------------------
(***************************************************************************)
(* RetryCheck on small inputs.  The fallbacks are a base of 2 capped at the*)
(* odd value 11, so that the doubling meets the cap from below; headers lie*)
(* on both sides of the clock, of the expiry and of the largest delay the  *)
(* parser takes, which is longer than any notification lives.  An          *)
(* environment differs from a sound one in a setting, in the three         *)
(* durations of the policy, in the lease, or in a list.                    *)
(***************************************************************************)
EXTENDS RetryCheck

MCDefault ==
  [s \in Setting |->
     CASE s = "RetryBase" -> 2 [] s = "RetryMax" -> 11
       [] s \in {"LeaseDuration", "MaxEnvelopeBytes"} -> 3
       [] OTHER -> 1]

MCKey == [caller |-> "a", key |-> "k", role |-> "user"]
MCTarget == [id |-> "t", callers |-> {"a"}, hosts |-> {"h"}, ports |-> {80},
             max_concurrency |-> 1]

Plain == [settings |-> [s \in Setting |-> Unset], dsn |-> "dsn",
          keys |-> <<MCKey>>, targets |-> <<MCTarget>>]

Keys == {Blank, MCKey, [MCKey EXCEPT !.role = "root"],
         [MCKey EXCEPT !.caller = "b", !.role = "admin"],
         [MCKey EXCEPT !.key = "l", !.role = "admin"]}

TargetLists ==
  {<<>>, Garbled, <<MCTarget, MCTarget>>, <<MCTarget, [MCTarget EXCEPT !.id = "u"]>>,
   <<[MCTarget EXCEPT !.max_concurrency = 0]>>, <<[MCTarget EXCEPT !.callers = {}]>>}

With(changed) == [Plain EXCEPT !.settings = [s \in Setting |->
  IF s \in DOMAIN changed THEN changed[s] ELSE Unset]]

MCEnvironments ==
  {With([s \in {t} |-> x]) : t \in Setting, x \in {Garbled, -1, 0, 2}}
    \cup {With([RetryMin |-> x, RetryBase |-> y, RetryMax |-> z]) :
            x \in {Garbled, 0, 1, 3}, y \in {1, 3}, z \in {Unset, 1, 3}}
    \cup {With([LeaseDuration |-> x, RequestTimeout |-> y]) :
            x \in {1, 2}, y \in {Unset, 1, 2, 3}}
    \cup {[Plain EXCEPT !.keys = ks] : ks \in BoundedSeq(Keys, 2)}
    \cup {[Plain EXCEPT !.targets = ts] : ts \in TargetLists}
    \cup {[Plain EXCEPT !.dsn = Unset]}

MCCounts == 1 .. 5
MCLimits == {1, 3, 5}
MCExpiries == {4, 6, 9, 16, 20}
MCClock == {3, 5}
MCHeaders ==
  {[kind |-> "none", amount |-> 0]}
    \cup [kind : {"seconds"}, amount : {-1, 0, 1, 4, 12, 30, 31}]
    \cup [kind : {"date"}, amount : {2, 5, 8, 16, 21}]
=============================================================================
