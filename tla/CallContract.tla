---------------------------- MODULE CallContract ----------------------------
(***************************************************************************)
(* What the push expects of one call of the Drata client, whatever happens  *)
(* between the client and the service: a limited number of attempts, then   *)
(* one outcome, which stays, or an exception that no caller handles.        *)
(* SessionPush takes Retry for its action Retried, Return for the actions   *)
(* that go on with the outcome, Retry and Surprise together for Surprised,  *)
(* and a limit that leaves no attempt for a run that ends early.            *)
(***************************************************************************)
EXTENDS Integers

CONSTANT Limits  \* the values drata.max_retries may have

VARIABLES
  limit,   \* drata.max_retries
  tries,   \* attempts that were given up for another one
  result   \* "none" as long as the call is under way

contractVars == <<limit, tries, result>>

Init == limit \in Limits /\ tries = 0 /\ result = "none"

Retry ==
  /\ result = "none" /\ tries + 1 < limit
  /\ tries' = tries + 1
  /\ UNCHANGED <<limit, result>>

Return ==
  /\ result = "none"
  /\ result' \in {"ok", "conflict", "error"}
  /\ UNCHANGED <<limit, tries>>

Surprise ==
  /\ result = "none" /\ (limit <= 0 \/ tries > 0)
  /\ result' = "crash"
  /\ UNCHANGED <<limit, tries>>

Next == Retry \/ Return \/ Surprise

Spec == Init /\ [][Next]_contractVars

=============================================================================
