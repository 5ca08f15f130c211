--------------------------- MODULE DrataHttpProofs ---------------------------
(***************************************************************************)
(* What module DrataHttp promises for any max_retries, one that leaves no   *)
(* attempt included, and any answers of the service, and that it keeps the  *)
(* contract the push relies on.                                             *)
(***************************************************************************)
EXTENDS DrataHttp, TLAPS

LEMMA InitTypes == Init => TypeOK
  BY HttpAssumption DEF Init, TypeOK

(* What a delay can be: one that is refused was asked for.                  *)
LEMMA DelayType ==
  ASSUME NEW k \in Nat, NEW answer \in Answers, NEW d \in Delays(k, answer.after)
  PROVE  /\ d \in Int
         /\ Sleepable(d) <=> ~(answer.after # <<>> /\ ~Sleepable(2 * answer.after[1]))
<1>1. CASE answer.after = <<>>
  <2>1. Backoff(k) \in 1..30
    <3>1. CASE k < 5
      <4>1. k \in {0, 1, 2, 3, 4}
        BY <3>1
      <4> QED
        BY <3>1, <4>1 DEF Backoff
    <3>2. CASE ~(k < 5)
      BY <3>2 DEF Backoff
    <3> QED
      BY <3>1, <3>2
  <2>2. PICK jitter \in {0, 1} : d = 2 * Backoff(k) + jitter
    BY <1>1 DEF Delays
  <2>3. d \in Nat /\ d <= 61
    BY <2>1, <2>2
  <2> QED
    BY <1>1, <2>3, HttpAssumption DEF Sleepable
<1>2. CASE answer.after # <<>>
  <2>1. d = 2 * answer.after[1] /\ answer.after[1] \in Int
    BY <1>2, HttpAssumption DEF Delays
  <2> QED
    BY <1>2, <2>1
<1> QED
  BY <1>1, <1>2

(* The outcomes of an answer.                                               *)
LEMMA ResultType ==
  ASSUME NEW answer \in Answers
  PROVE  ResultOf(answer) \in {"ok", "conflict", "error"}
<1>1. RecordsResult(ResultsIn(answer.body)) \in {"ok", "conflict", "error"}
  BY DEF RecordsResult
<1> QED
  BY <1>1 DEF ResultOf

LEMMA SendTypes == ASSUME TypeOK, Send PROVE TypeOK'
<1>1. PICK answer \in Answers :
        /\ last' = <<answer>>
        /\ IF Retryable(answer.status)
           THEN TryAgain(answer)
           ELSE pc' = "classify" /\ UNCHANGED <<attempt, delay>>
  BY DEF Send
<1>2. pc = "send" /\ result' = result
  BY DEF Send
<1>3. CASE Retryable(answer.status)
  <2>1. attempt + 1 \in Nat
    BY DEF TypeOK
  <2>2. delay' \in Int /\ limit' = limit
    BY <1>1, <1>3, <2>1, DelayType DEF Send, TryAgain
  <2> QED
    BY <1>1, <1>2, <1>3, <2>1, <2>2, HttpAssumption DEF TypeOK, TryAgain
<1>4. CASE ~Retryable(answer.status)
  BY <1>1, <1>2, <1>4, HttpAssumption DEF TypeOK, Send
<1> QED
  BY <1>3, <1>4

LEMMA NextTypes == ASSUME TypeOK, [Next]_vars PROVE TypeOK'
<1>1. CASE Send
  BY <1>1, SendTypes
<1>2. CASE ConnectionFails
  BY <1>2 DEF TypeOK, ConnectionFails, Finish
<1>3. CASE Sleep
  BY <1>3 DEF TypeOK, Sleep, Finish
<1>4. CASE Classify
  BY <1>4, ResultType DEF TypeOK, Classify, Finish
<1>5. CASE Over \/ UNCHANGED vars
  BY <1>5 DEF TypeOK, Over, vars
<1> QED
  BY <1>1, <1>2, <1>3, <1>4, <1>5 DEF Next, Step

(* The types, and that no call makes more than max_retries attempts.        *)
THEOREM HttpTypes == Spec => []TypeOK
<1>1. TypeOK /\ [Next]_vars => TypeOK'
  BY NextTypes
<1> QED
  BY InitTypes, <1>1, PTL DEF Spec

-----------------------------------------------------------------------------

(* Classify is the only step that ends a call well.                         *)
LEMMA OkIsConfirmed ==
  ASSUME TypeOK, SuccessIsConfirmed, [Next]_vars
  PROVE  SuccessIsConfirmed'
<1>1. CASE Send
  BY <1>1 DEF Send, TypeOK, SuccessIsConfirmed
<1>2. CASE ConnectionFails \/ Sleep
  BY <1>2 DEF ConnectionFails, Sleep, Finish, TypeOK, SuccessIsConfirmed
<1>3. CASE Classify
  <2> SUFFICES ASSUME result' = "ok" PROVE SuccessIsConfirmed'
    BY DEF SuccessIsConfirmed
  <2>1. last # <<>> /\ last' = last /\ ResultOf(last[1]) = "ok"
    BY <1>3 DEF Classify, Finish
  <2>2. last[1].status \in {200, 201, 204}
    BY <2>1 DEF ResultOf
  <2>3. PICK answer \in Answers : last = <<answer>>
    BY <2>1 DEF TypeOK
  <2>4. Upload => Rejections(ResultsIn(last[1].body)) = {}
    <3>1. CASE last[1].status = 204
      <4>1. ResultsIn(last[1].body) = <<>>
        BY <2>3, <3>1, HttpAssumption DEF ResultsIn
      <4> QED
        BY <4>1 DEF Rejections
    <3>2. CASE last[1].status # 204
      BY <2>1, <2>2, <3>2 DEF ResultOf, RecordsResult
    <3> QED
      BY <3>1, <3>2
  <2>5. last[1].status \in 200..299
    BY <2>2
  <2>6. Upload => \A i \in DOMAIN ResultsIn(last[1].body) :
                    ~IsRejected(ResultsIn(last[1].body)[i])
    BY <2>4 DEF Rejections
  <2> QED
    BY <2>1, <2>5, <2>6 DEF SuccessIsConfirmed
<1>4. CASE Over \/ UNCHANGED vars
  BY <1>4 DEF Over, vars, SuccessIsConfirmed
<1> QED
  BY <1>1, <1>2, <1>3, <1>4 DEF Next, Step

(* No call succeeds unless the service has said so, for the request and for *)
(* every record result that can be read.                                    *)
THEOREM SuccessesAreConfirmed == Spec => []SuccessIsConfirmed
<1>1. Init => SuccessIsConfirmed
  BY DEF Init, SuccessIsConfirmed
<1>2. TypeOK /\ SuccessIsConfirmed /\ [Next]_vars => SuccessIsConfirmed'
  BY OkIsConfirmed
<1> QED
  BY <1>1, <1>2, HttpTypes, PTL DEF Spec

-----------------------------------------------------------------------------

(* Whenever another request may follow, the answer before it asked for it.  *)
AskedToRetry ==
  pc \in {"send", "sleep"} /\ last # <<>> => Retryable(last[1].status)

LEMMA RetryableStatus ==
  ASSUME NEW n \in Int, Retryable(n)
  PROVE  n \in {429} \cup 500..599
  BY DEF Retryable

LEMMA AskedKept ==
  ASSUME TypeOK, AskedToRetry, [Next]_vars
  PROVE  AskedToRetry'
<1>1. CASE Send
  <2>1. PICK answer \in Answers :
          /\ last' = <<answer>>
          /\ IF Retryable(answer.status)
             THEN TryAgain(answer)
             ELSE pc' = "classify" /\ UNCHANGED <<attempt, delay>>
    BY <1>1 DEF Send
  <2>2. CASE Retryable(answer.status)
    <3>1. last'[1].status = answer.status
      BY <2>1
    <3> QED
      BY <2>2, <3>1 DEF AskedToRetry, Retryable
  <2>3. CASE ~Retryable(answer.status)
    BY <2>1, <2>3 DEF AskedToRetry
  <2> QED
    BY <2>2, <2>3
<1>2. CASE ConnectionFails
  BY <1>2 DEF ConnectionFails, Finish, AskedToRetry
<1>3. CASE Sleep
  BY <1>3 DEF Sleep, Finish, AskedToRetry, Retryable
<1>4. CASE Classify
  BY <1>4 DEF Classify, Finish, AskedToRetry
<1>5. CASE Over \/ UNCHANGED vars
  BY <1>5 DEF Over, vars, AskedToRetry, Retryable
<1> QED
  BY <1>1, <1>2, <1>3, <1>4, <1>5 DEF Next, Step

(* No call sends its request again but after a 429 or a 5xx: Send alone     *)
(* changes the answer, and it is only reached through a retryable one.      *)
THEOREM RetriesAreAskedFor == Spec => ResentOnlyOnRequest
<1>1. Init => AskedToRetry
  BY DEF Init, AskedToRetry
<1>2. TypeOK /\ AskedToRetry /\ [Next]_vars => AskedToRetry'
  BY AskedKept
<1>3. ASSUME TypeOK, AskedToRetry, [Next]_vars
      PROVE  [last # <<>> /\ last' # last => last[1].status \in {429} \cup 500..599]_vars
  <2> SUFFICES ASSUME last # <<>>, last' # last
               PROVE  last[1].status \in {429} \cup 500..599
    OBVIOUS
  <2>1. pc = "send"
    BY <1>3 DEF Next, Step, Send, ConnectionFails, Sleep, Classify, Over, vars
  <2>2. Retryable(last[1].status)
    BY <1>3, <2>1 DEF AskedToRetry
  <2>3. PICK answer \in Answers : last = <<answer>>
    BY <1>3 DEF TypeOK
  <2>4. last[1].status \in Int
    BY <2>3, HttpAssumption
  <2> QED
    BY <2>2, <2>4, RetryableStatus
<1> QED
  BY <1>1, <1>2, <1>3, HttpTypes, PTL DEF Spec, ResentOnlyOnRequest

-----------------------------------------------------------------------------

(* What a call knows at each phase: a delay it is about to make is one that *)
(* the last answer asked for, or one of its own that is short enough, and   *)
(* an answer is missing only where no attempt was allowed.                  *)
Prepared ==
  /\ pc \in {"send", "sleep"} => ~(limit <= 0)
  /\ pc = "send" => ~RefusedDelay
  /\ pc = "sleep" => attempt > 0 /\ (Sleepable(delay) <=> ~RefusedDelay)
  /\ pc = "classify" => (last = <<>> <=> limit <= 0) /\ ~RefusedDelay
  /\ SurpriseHasCause

LEMMA InitPrepared == Init => Prepared
  BY HttpAssumption DEF Init, Prepared, RefusedDelay, SurpriseHasCause

LEMMA PreparedKept ==
  ASSUME TypeOK, Prepared, [Next]_vars
  PROVE  Prepared'
<1>1. CASE Send
  <2>1. PICK answer \in Answers :
          /\ last' = <<answer>>
          /\ IF Retryable(answer.status)
             THEN TryAgain(answer)
             ELSE pc' = "classify" /\ UNCHANGED <<attempt, delay>>
    BY <1>1 DEF Send
  <2>2. /\ last' # <<>> /\ last'[1] = answer /\ limit' = limit /\ limit \in Int
        /\ attempt \in Nat /\ ~(limit <= 0)
    BY <1>1, <2>1, HttpAssumption DEF Send, Prepared, TypeOK
  <2>3. CASE Retryable(answer.status)
    <3>1. /\ attempt' = attempt + 1 /\ delay' \in Delays(attempt + 1, answer.after)
          /\ pc' = IF attempt + 1 >= limit THEN "classify" ELSE "sleep"
      BY <2>1, <2>3 DEF TryAgain
    <3>2. RefusedDelay' <=> /\ attempt + 1 < limit
                            /\ answer.after # <<>> /\ ~Sleepable(2 * answer.after[1])
      BY <2>2, <2>3, <3>1 DEF RefusedDelay, Retryable, Sleepable
    <3>3. Sleepable(delay') <=> ~(answer.after # <<>> /\ ~Sleepable(2 * answer.after[1]))
      BY <2>2, <3>1, DelayType
    <3>4. Sleepable(delay)' <=> Sleepable(delay')
      BY DEF Sleepable
    <3> QED
      BY <2>2, <3>1, <3>2, <3>3, <3>4 DEF Prepared, SurpriseHasCause
  <2>4. CASE ~Retryable(answer.status)
    <3>1. pc' = "classify"
      BY <2>1, <2>4
    <3>2. ~RefusedDelay'
      BY <2>2, <2>4 DEF RefusedDelay, Retryable
    <3> QED
      BY <2>2, <3>1, <3>2 DEF Prepared, SurpriseHasCause
  <2> QED
    BY <2>3, <2>4
<1>2. CASE ConnectionFails \/ Sleep
  <2>1. RefusedDelay' <=> RefusedDelay
    BY <1>2 DEF ConnectionFails, Sleep, RefusedDelay, Retryable, Sleepable
  <2>2. limit' = limit /\ pc \in {"send", "sleep"}
    BY <1>2 DEF ConnectionFails, Sleep
  <2> QED
    BY <1>2, <2>1, <2>2 DEF ConnectionFails, Sleep, Finish, Prepared, SurpriseHasCause
<1>3. CASE Classify
  <2>1. (RefusedDelay' <=> RefusedDelay) /\ limit' = limit /\ pc' = "over"
    BY <1>3 DEF Classify, Finish, RefusedDelay, Retryable, Sleepable
  <2>2. result' = "crash" <=> last = <<>>
    <3>1. CASE last = <<>>
      BY <1>3, <3>1 DEF Classify, Finish
    <3>2. CASE last # <<>>
      <4>1. PICK answer \in Answers : last = <<answer>>
        BY <3>2 DEF TypeOK
      <4>2. result' = ResultOf(answer)
        BY <1>3, <3>2, <4>1 DEF Classify, Finish
      <4> QED
        BY <3>2, <4>2, ResultType
    <3> QED
      BY <3>1, <3>2
  <2> QED
    BY <1>3, <2>1, <2>2 DEF Classify, Prepared, SurpriseHasCause
<1>4. CASE Over \/ UNCHANGED vars
  BY <1>4 DEF Over, vars, Prepared, SurpriseHasCause, RefusedDelay, Retryable, Sleepable
<1> QED
  BY <1>1, <1>2, <1>3, <1>4 DEF Next, Step

LEMMA PreparedHolds == Spec => []Prepared
<1>1. TypeOK /\ Prepared /\ [Next]_vars => Prepared'
  BY PreparedKept
<1> QED
  BY InitPrepared, <1>1, HttpTypes, PTL DEF Spec

(* Whatever max_retries was configured and whatever the service answers, a  *)
(* call ends in an exception its callers do not handle exactly if no        *)
(* attempt was allowed or a delay was asked for that cannot be made; no     *)
(* delay of the client's own is ever refused.                               *)
THEOREM SurprisesHaveCauses == Spec => []SurpriseHasCause
<1>1. Prepared => SurpriseHasCause
  BY DEF Prepared
<1> QED
  BY <1>1, PreparedHolds, PTL

(* A call is what SessionPush takes it for, whatever max_retries and the    *)
(* answers are: a Retry is an attempt given up for another one, a Return or *)
(* a Surprise its last step.                                                *)
THEOREM CallsKeepContract == Spec => ContractSpec
<1> USE HttpAssumption DEF Contract!contractVars, Smaller
<1>1. Init => Contract!Init
  BY DEF Init, Contract!Init
<1>2. ASSUME TypeOK, Prepared, [Next]_vars
      PROVE  [Contract!Next]_(Contract!contractVars)
  <2>0. limit \in Int /\ attempt \in Nat
    BY <1>2 DEF TypeOK
  <2>1. CASE Send
    <3>1. PICK answer \in Answers :
            IF Retryable(answer.status)
            THEN TryAgain(answer)
            ELSE pc' = "classify" /\ UNCHANGED <<attempt, delay>>
      BY <2>1 DEF Send
    <3>2. /\ pc = "send" /\ result = "none" /\ result' = result /\ attempt < limit
          /\ limit' = limit
      BY <1>2, <2>1 DEF Send, TypeOK
    <3>3. CASE attempt' = attempt + 1
      BY <2>0, <3>2, <3>3 DEF Contract!Next, Contract!Retry
    <3>4. CASE attempt' = attempt
      BY <3>2, <3>4
    <3> QED
      BY <3>1, <3>3, <3>4 DEF TryAgain
  <2>2. CASE ConnectionFails
    BY <1>2, <2>2 DEF ConnectionFails, Finish, TypeOK, Contract!Next, Contract!Return
  <2>3. CASE Sleep
    <3>1. CASE Sleepable(delay)
      BY <2>3, <3>1 DEF Sleep
    <3>2. CASE ~Sleepable(delay)
      <4>1. RefusedDelay /\ limit > 0 /\ attempt < limit
        BY <1>2, <2>0, <2>3, <3>2 DEF Sleep, Prepared, TypeOK
      <4>2. attempt > 0
        BY <1>2, <2>3 DEF Sleep, Prepared
      <4>3. result = "none" /\ result' = "crash" /\ limit' = limit /\ attempt' = attempt
        BY <1>2, <2>3, <3>2 DEF Sleep, Finish, TypeOK
      <4> QED
        BY <2>0, <4>1, <4>2, <4>3 DEF Contract!Next, Contract!Surprise
    <3> QED
      BY <3>1, <3>2
  <2>4. CASE Classify
    <3>1. result = "none" /\ limit' = limit /\ attempt' = attempt
      BY <1>2, <2>4 DEF Classify, TypeOK
    <3>2. CASE last = <<>>
      BY <1>2, <2>0, <2>4, <3>1, <3>2
      DEF Classify, Finish, Prepared, Contract!Next, Contract!Surprise
    <3>3. CASE last # <<>>
      <4>1. PICK answer \in Answers : last = <<answer>>
        BY <1>2, <3>3 DEF TypeOK
      <4>2. result' \in {"ok", "conflict", "error"}
        BY <2>4, <3>3, <4>1, ResultType DEF Classify, Finish
      <4> QED
        BY <3>1, <4>2 DEF Contract!Next, Contract!Return
    <3> QED
      BY <3>2, <3>3
  <2>5. CASE Over \/ UNCHANGED vars
    BY <2>5 DEF Over, vars
  <2> QED
    BY <1>2, <2>1, <2>2, <2>3, <2>4, <2>5 DEF Next, Step
<1> QED
  BY <1>1, <1>2, HttpTypes, PreparedHolds, PTL DEF Spec, ContractSpec, Contract!Spec

=============================================================================
