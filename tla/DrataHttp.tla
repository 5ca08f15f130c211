------------------------------ MODULE DrataHttp ------------------------------
(***************************************************************************)
(* One call of src/nessus_drata/drata_client.py: the attempts of _request,  *)
(* the delay between them, the classification of the last answer and, for   *)
(* an upload, the results of the single records.  Network and service are   *)
(* external: every attempt may meet any answer of Answers, or none.         *)
(*                                                                          *)
(* An answer is [status, after, body]: after is the number in its           *)
(* Retry-After header, <<>> if there is none (or a date); body is           *)
(* [form, items], where form says where the list of record results is       *)
(* found, and a result is [code, error] with code 0 for a statusCode that   *)
(* is no number.  Seconds are counted in halves.  A max_retries that is no  *)
(* number makes the first comparison raise; like one that leaves no attempt *)
(* it ends the call before a request is sent, and 0 stands for it.          *)
(***************************************************************************)
EXTENDS Integers, Sequences

CONSTANTS
  Limits,      \* values of drata.max_retries: config.py takes any
  Answers,     \* answers that may come
  SleepLimit,  \* the longest delay time.sleep takes
  Upload       \* the call is upload_session_batch

ASSUME HttpAssumption ==
  /\ Limits \subseteq Int
  /\ SleepLimit \in Nat /\ SleepLimit > 60
  /\ Upload \in BOOLEAN
  /\ \A answer \in Answers :
       /\ answer.status \in Int
       /\ answer.after = <<>> \/ answer.after[1] \in Int
       /\ answer.status = 204 => answer.body.items = <<>>

VARIABLES
  limit,     \* _max_retries of the client
  pc,        \* "send", "sleep", "classify" or "over"
  attempt,   \* attempts answered 429 or 5xx
  last,      \* last_response, <<>> for None
  delay,     \* what time.sleep is called with
  result     \* how the call ended, "none" before

vars == <<limit, pc, attempt, last, delay, result>>

(* max_retries may leave no attempt at all.                                 *)
Init ==
  /\ limit \in Limits
  /\ pc = IF limit > 0 THEN "send" ELSE "classify"
  /\ attempt = 0
  /\ last = <<>>
  /\ delay = 0
  /\ result = "none"

(* A faulty variant of the next definition: a conflict is retried as well.  *)
RetryableWithConflict(status) == status \in {409, 429} \/ (500 <= status /\ status < 600)

Retryable(status) == status = 429 \/ (500 <= status /\ status < 600)

Smaller(a, b) == IF a <= b THEN a ELSE b

(* min(2 ** k, 30), in seconds.                                             *)
Backoff(k) == IF k < 5 THEN <<1, 2, 4, 8, 16>>[k + 1] ELSE 30

(* A faulty variant of the next definition: the time spent is subtracted.   *)
DelaysLeft(k, after) ==
  IF after = <<>>
  THEN {2 * Backoff(k) + jitter : jitter \in {0, 1}}
  ELSE {2 * after[1] - spent : spent \in {0, 1}}

(* _sleep_for_attempt: the header is honoured as it is; the other delay     *)
(* doubles up to 30 seconds, with up to half a second of jitter.            *)
Delays(k, after) ==
  IF after = <<>>
  THEN {2 * Backoff(k) + jitter : jitter \in {0, 1}}
  ELSE {2 * after[1]}

Finish(r) == pc' = "over" /\ result' = r

(* A faulty variant of the next definition: the counter is forgotten.       *)
TryAgainUncounted(answer) ==
  /\ pc' = IF attempt + 1 >= limit THEN "classify" ELSE "sleep"
  /\ attempt' = attempt
  /\ delay' \in Delays(attempt + 1, answer.after)

(* An off-by-one variant: one attempt too many.                             *)
TryAgainOnceMore(answer) ==
  /\ attempt' = attempt + 1
  /\ pc' = IF attempt >= limit THEN "classify" ELSE "sleep"
  /\ delay' \in Delays(attempt', answer.after)

TryAgain(answer) ==
  /\ attempt' = attempt + 1
  /\ pc' = IF attempt' >= limit THEN "classify" ELSE "sleep"
  /\ delay' \in Delays(attempt', answer.after)

Send ==
  /\ pc = "send"
  /\ \E answer \in Answers :
       /\ last' = <<answer>>
       /\ IF Retryable(answer.status)
          THEN TryAgain(answer)
          ELSE pc' = "classify" /\ UNCHANGED <<attempt, delay>>
  /\ UNCHANGED <<limit, result>>

(* A RequestException: no answer, hence never a conflict.                   *)
ConnectionFails ==
  /\ pc = "send"
  /\ Finish("error")
  /\ UNCHANGED <<limit, attempt, last, delay>>

(* A faulty variant of the next definition: the attempts start anew.        *)
SleepReset ==
  /\ pc = "sleep"
  /\ pc' = "send" /\ attempt' = 0
  /\ UNCHANGED <<limit, last, delay, result>>

Sleepable(d) == 0 <= d /\ d <= SleepLimit

(* time.sleep refuses a negative number with a ValueError and one that is   *)
(* too large with an OverflowError, as float does before it.                *)
Sleep ==
  /\ pc = "sleep"
  /\ IF Sleepable(delay) THEN pc' = "send" /\ UNCHANGED result ELSE Finish("crash")
  /\ UNCHANGED <<limit, attempt, last, delay>>

(* The results that _iter_record_results finds in a body.                   *)
ResultsIn(body) == IF body.form \in {"list", "data", "results"} THEN body.items ELSE <<>>

IsRejected(item) == item.code >= 400 \/ item.error

(* A careless variant of the next definition: an error needs a status code. *)
RejectionsByCode(items) == {i \in DOMAIN items : items[i].code >= 400}

Rejections(items) == {i \in DOMAIN items : IsRejected(items[i])}

(* _check_per_record_failures raises for the first rejected record; its own *)
(* 409 cannot be told from the session's, an error without a code is a 400. *)
RecordsResult(items) ==
  LET rejected == Rejections(items)
      first    == {i \in rejected : \A j \in rejected : i <= j}
  IN  IF rejected = {} THEN "ok"
      ELSE IF \E i \in first : items[i].code = 409 THEN "conflict" ELSE "error"

(* _classify_and_raise_if_error; the codes of a 401, and 400, 403, 429 and  *)
(* 5xx differ in their messages only.  A 204 has no body to look at.        *)
ResultOf(answer) ==
  CASE answer.status \in {200, 201} -> IF Upload THEN RecordsResult(ResultsIn(answer.body)) ELSE "ok"
    [] answer.status = 204 -> "ok"
    [] answer.status = 409 -> "conflict"
    [] answer.status \notin {200, 201, 204, 409} -> "error"

(* None has no status_code: an AttributeError.                              *)
Classify ==
  /\ pc = "classify"
  /\ Finish(IF last = <<>> THEN "crash" ELSE ResultOf(last[1]))
  /\ UNCHANGED <<limit, attempt, last, delay>>

(* The call has returned or raised; what follows is the caller's.           *)
Over == pc = "over" /\ UNCHANGED vars

Step == Send \/ ConnectionFails \/ Sleep \/ Classify

Next == Step \/ Over

Spec == Init /\ [][Next]_vars

(* The timeouts of the session end every attempt; a sleep ends.             *)
FairSpec == Spec /\ WF_vars(Step)

(***************************************************************************)
(* Properties.                                                              *)
(***************************************************************************)

(* Types, and that no call makes more than max_retries attempts.            *)
TypeOK ==
  /\ limit \in Limits
  /\ pc \in {"send", "sleep", "classify", "over"}
  /\ attempt \in Nat
  /\ pc \in {"send", "sleep"} => attempt < limit
  /\ last = <<>> \/ \E answer \in Answers : last = <<answer>>
  /\ delay \in Int
  /\ result \in {"none", "ok", "conflict", "error", "crash"}
  /\ result = "none" <=> pc # "over"

(* A call succeeds only if the service said so in its last answer, for the  *)
(* request and, as far as the body can be read, for every single record     *)
(* (_classify_and_raise_if_error and _check_per_record_failures).           *)
SuccessIsConfirmed ==
  result = "ok" =>
    /\ last # <<>>
    /\ last[1].status \in 200..299
    /\ Upload => \A i \in DOMAIN ResultsIn(last[1].body) :
                   ~IsRejected(ResultsIn(last[1].body)[i])

(* A request is sent again only after an answer that asks for it (429, 5xx):*)
(* a lost connection, a conflict or a rejection is the caller's to handle   *)
(* (_request; tests/test_drata_client.py, 409 is not retried).              *)
ResentOnlyOnRequest ==
  [][ last # <<>> /\ last' # last => last[1].status \in {429} \cup 500..599 ]_vars

(* A call ends in an exception its callers do not handle in two cases only, *)
(* and always in them: max_retries leaves no attempt, so that _request      *)
(* returns the None its annotation rules out, or an answer asks, with       *)
(* attempts left, for a delay that time.sleep refuses.  In particular, the  *)
(* delays of the client's own making are always taken.                      *)
RefusedDelay ==
  /\ last # <<>> /\ Retryable(last[1].status) /\ attempt < limit
  /\ last[1].after # <<>> /\ ~Sleepable(2 * last[1].after[1])

SurpriseHasCause ==
  pc = "over" => (result = "crash" <=> limit <= 0 \/ RefusedDelay)

(* Every call ends (_request).                                              *)
CallEnds == <>(pc = "over")

(* The calls are what SessionPush takes them for.  The attempt that was the *)
(* last does not count as given up for another.                             *)
Contract == INSTANCE CallContract WITH
  tries <- IF limit > 0 THEN Smaller(attempt, limit - 1) ELSE 0

ContractSpec == Contract!Spec

=============================================================================
