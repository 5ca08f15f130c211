-------------------------- MODULE SessionPushProofs --------------------------
(***************************************************************************)
(* Theorems about SessionPush, for every set of scans and executions, every *)
(* record count, batch size and number of retries: first what holds with    *)
(* any overlap of executions and any delay of requests, then what needs the *)
(* lock and a network that applies no request late.                         *)
(***************************************************************************)
EXTENDS SessionPush, TLAPS

(***************************************************************************)
(* The service: a request keeps the types, and never reopens or alters a    *)
(* completed session.                                                       *)
(***************************************************************************)

GoodRequest(q) == q \in Request /\ q.recs \subseteq RecordsOf(q.sid)

(* The record ids of a scan are natural numbers.                            *)
LEMMA RecordsAreNat == ASSUME NEW s \in Scan PROVE RecordsOf(s) \subseteq Nat
  BY ServiceAssumption DEF RecordsOf

(* Taking a request keeps the service's state well typed.                   *)
LEMMA ApplyType ==
  ASSUME ServiceTypeOK, NEW q, GoodRequest(q), Apply(q),
         inflight' \subseteq inflight
  PROVE  ServiceTypeOK'
  <1>1. q.sid \in Scan /\ q.op \in {"upload", "cancel", "complete"}
    BY DEF GoodRequest, Request
  <1>2. Kept(q.sid) \subseteq RecordsOf(q.sid) /\ q.recs \subseteq RecordsOf(q.sid)
    BY <1>1 DEF GoodRequest, Kept, ServiceTypeOK
  <1>3. /\ Outcome(q) \in [status : SessionStatus, recs : SUBSET Nat]
        /\ Outcome(q).recs \subseteq RecordsOf(q.sid)
    BY <1>1, <1>2, RecordsAreNat DEF Outcome, SessionStatus, ServiceTypeOK
  <1>4. sess' = [sess EXCEPT ![q.sid] = Outcome(q)]
    BY DEF Apply
  <1>5. sess' \in [Scan -> [status : SessionStatus, recs : SUBSET Nat]]
    BY <1>1, <1>3, <1>4 DEF ServiceTypeOK
  <1>6. \A s \in Scan : sess'[s].recs \subseteq RecordsOf(s)
    BY <1>1, <1>3, <1>4 DEF ServiceTypeOK
  <1>7. current' \in Scan \cup {NoScan}
    BY <1>1 DEF Apply, ServiceTypeOK
  <1> QED
    BY <1>5, <1>6, <1>7 DEF ServiceTypeOK, RecordsOf

(* So does a request that is lost, applied, or delayed.                     *)
LEMMA UnansweredType ==
  ASSUME ServiceTypeOK, NEW q, GoodRequest(q), Unanswered(q)
  PROVE  ServiceTypeOK'
  <1>1. CASE UNCHANGED serviceVars
    BY <1>1 DEF ServiceTypeOK, serviceVars, RecordsOf
  <1>2. CASE Process(q) /\ UNCHANGED inflight
    BY <1>2, ApplyType DEF Process, ServiceTypeOK, RecordsOf
  <1>3. CASE inflight' = inflight \cup {q} /\ UNCHANGED <<sess, current>>
    BY <1>3 DEF ServiceTypeOK, GoodRequest, RecordsOf
  <1> QED
    BY <1>1, <1>2, <1>3 DEF Unanswered

(***************************************************************************)
(* The gates.                                                               *)
(***************************************************************************)

(* No value of --force lets a scan through that has no records, no match or *)
(* two records of one id, or whose upload failed: apply_force_bypass        *)
(* overrides only what _FORCE_BYPASSABLE_GATES lists.                       *)
THEOREM ForceBypassesNoHardGate ==
  ASSUME NEW s, s.scan \in Scan, AllGatesPassed(Gates(s))
  PROVE  Sound(s.scan) /\ s.uploads # "failed"
  <1> DEFINE evaluated ==
        EvaluateGates(Count[s.scan], s.base,
                      Count[s.scan] = 0 \/ s.scan \in NoMatch,
                      s.scan \in Duplicated, s.uploads)
  <1>1. \A g \in GateName \ ForceBypassable : Gates(s)[g] => evaluated[g]
    BY DEF Gates, ApplyForceBypass
  <1>2. \A g \in GateName \ ForceBypassable : evaluated[g]
    BY <1>1 DEF AllGatesPassed
  <1>3. {"manifest_coverage", "duplicate_ids", "batch_uploads"}
          \subseteq GateName \ ForceBypassable
    BY DEF GateName, ForceBypassable
  <1>4. evaluated["manifest_coverage"]
          = ~(Count[s.scan] = 0 \/ s.scan \in NoMatch)
    BY DEF EvaluateGates, GateName, CoverageGate
  <1>5. evaluated["duplicate_ids"] = (s.scan \notin Duplicated)
    BY DEF EvaluateGates, GateName, DuplicateGate
  <1>6. evaluated["batch_uploads"] = (s.uploads # "failed")
    BY DEF EvaluateGates, GateName, BatchUploadsGate
  <1>7. Count[s.scan] \in Nat
    BY ServiceAssumption
  <1> HIDE DEF evaluated
  <1>8. /\ evaluated["manifest_coverage"]
        /\ evaluated["duplicate_ids"]
        /\ evaluated["batch_uploads"]
    BY <1>2, <1>3
  <1>9. Count[s.scan] # 0 /\ s.scan \notin NoMatch
    BY <1>4, <1>8
  <1>10. s.scan \notin Duplicated /\ s.uploads # "failed"
    BY <1>5, <1>6, <1>8
  <1> QED
    BY <1>7, <1>9, <1>10 DEF Sound

(***************************************************************************)
(* The continuations of a call.                                             *)
(***************************************************************************)

(* Entering a phase keeps the data and starts the attempts anew.            *)
LEMMA EnterType ==
  ASSUME NEW s \in RunState, NEW phase \in Phase,
         phase \in Live => s.scan \in Scan,
         phase = "cancel" => s.target \in Scan
  PROVE  /\ RunTypeOK(Enter(s, phase))
         /\ Enter(s, phase).pc = phase
         /\ Enter(s, phase).scan = s.scan
         /\ Enter(s, phase).off = s.off
         /\ Enter(s, phase).conflict = s.conflict
         /\ Enter(s, phase).target = s.target
         /\ Enter(s, phase).exit = s.exit
  <1>1. Enter(s, phase) \in RunState
    BY DEF Enter, RunState
  <1>2. /\ Enter(s, phase).pc = phase
        /\ Enter(s, phase).scan = s.scan
        /\ Enter(s, phase).off = s.off
        /\ Enter(s, phase).conflict = s.conflict
        /\ Enter(s, phase).target = s.target
        /\ Enter(s, phase).exit = s.exit
        /\ Enter(s, phase).tries = 0
    BY DEF Enter, RunState
  <1> QED
    BY <1>1, <1>2, PushAssumption DEF RunTypeOK

LEMMA PhaseFacts ==
  /\ \A p : p \in Live <=> p \in {"list", "cancel", "upload", "complete", "abort",
                                 "save", "write", "report"}
  /\ \A p : p \in Phase <=> p \in Live \/ p \in {"done", "crashed", "idle"}
  <1>1. \A p : p \in Live <=> p \in {"list", "cancel", "upload", "complete", "abort",
                                     "save", "write", "report"}
    <2>1. \A p : p \in Calling <=> p \in {"list", "cancel", "upload", "complete", "abort"}
      BY DEF Calling, Acting
    <2> QED
      BY <2>1 DEF Live, Writing
  <1>2. \A p : p \in Phase <=> p \in Live \/ p \in {"done", "crashed", "idle"}
    BY DEF Phase, Ended
  <1> QED
    BY <1>1, <1>2

LEMMA IdleFacts ==
  /\ Idle \in RunState
  /\ Idle.pc = "idle" /\ Idle.tries = 0 /\ Idle.conflict = FALSE
  <1>1. "idle" \in Phase
    BY PhaseFacts
  <1>2. NoCount \in Int /\ "unattempted" \in UploadResult /\ {} \in SUBSET Scan
    BY DEF NoCount, UploadResult
  <1> QED
    BY <1>1, <1>2 DEF Idle, RunState

LEMMA ExitType ==
  ASSUME NEW code \in 0..6, NEW phase \in {"idle", "done", "crashed"}
  PROVE  /\ RunTypeOK([Idle EXCEPT !.pc = phase, !.exit = code])
         /\ Exit(code) = [Idle EXCEPT !.pc = "done", !.exit = code]
  <1>1. phase \in Phase /\ phase \notin Live
    BY PhaseFacts
  <1>2. /\ [Idle EXCEPT !.pc = phase, !.exit = code] \in RunState
        /\ [Idle EXCEPT !.pc = phase, !.exit = code].tries = 0
        /\ [Idle EXCEPT !.pc = phase, !.exit = code].pc = phase
    BY <1>1, IdleFacts DEF RunState
  <1> QED
    BY <1>1, <1>2, PushAssumption DEF RunTypeOK, Exit

(* The final gates complete a session only of a sound scan, after no batch  *)
(* failed, and leave the position alone.                                    *)
LEMMA DecideFacts ==
  ASSUME NEW s \in RunState, s.scan \in Scan, NEW result \in UploadResult
  PROVE  /\ RunTypeOK(Decide(s, result))
         /\ Decide(s, result).scan = s.scan
         /\ Decide(s, result).off = s.off
         /\ Decide(s, result).conflict = s.conflict
         /\ Decide(s, result).pc \in {"complete", "abort"}
         /\ Decide(s, result).pc = "complete" => Sound(s.scan) /\ result # "failed"
  <1> DEFINE t == [s EXCEPT !.uploads = result]
  <1>1. /\ t \in RunState /\ t.scan = s.scan /\ t.off = s.off
        /\ t.conflict = s.conflict /\ t.uploads = result
    BY DEF RunState
  <1>2. AllGatesPassed(Gates(t)) => Sound(s.scan) /\ result # "failed"
    BY <1>1, ForceBypassesNoHardGate
  <1>3. Decide(s, result) = IF AllGatesPassed(Gates(t)) THEN Enter(t, "complete")
                                                        ELSE Enter(t, "abort")
    BY DEF Decide
  <1>4. \A p \in {"complete", "abort"} :
          /\ RunTypeOK(Enter(t, p))
          /\ Enter(t, p).scan = s.scan /\ Enter(t, p).off = s.off
          /\ Enter(t, p).conflict = s.conflict /\ Enter(t, p).pc = p
    <2> HIDE DEF t
    <2> SUFFICES ASSUME NEW p \in {"complete", "abort"}
                 PROVE  /\ RunTypeOK(Enter(t, p))
                        /\ Enter(t, p).scan = s.scan /\ Enter(t, p).off = s.off
                        /\ Enter(t, p).conflict = s.conflict /\ Enter(t, p).pc = p
      OBVIOUS
    <2>1. p \in Phase /\ p # "cancel"
      BY PhaseFacts
    <2> QED
      BY <1>1, <2>1, EnterType
  <1> HIDE DEF t
  <1> QED
    BY <1>2, <1>3, <1>4

(* After a batch: another one while records are left, otherwise the gates.  *)
LEMMA NextBatchFacts ==
  ASSUME NEW s \in RunState, s.scan \in Scan
  PROVE  /\ RunTypeOK(NextBatch(s))
         /\ NextBatch(s).scan = s.scan
         /\ NextBatch(s).off = s.off
         /\ NextBatch(s).conflict = s.conflict
         /\ NextBatch(s).pc \in {"upload", "complete", "abort"}
         /\ NextBatch(s).pc = "complete" => Sound(s.scan) /\ Count[s.scan] <= s.off
         /\ NextBatch(s).pc = "upload" => s.off < Count[s.scan]
  <1>1. "ok" \in UploadResult /\ "upload" \in Phase
    BY PhaseFacts DEF UploadResult
  <1>2. CASE s.off < Count[s.scan]
    <2>1. NextBatch(s) = Enter(s, "upload")
      BY <1>2 DEF NextBatch
    <2> QED
      BY <1>1, <1>2, <2>1, EnterType
  <1>3. CASE ~(s.off < Count[s.scan])
    <2>1. NextBatch(s) = Decide(s, "ok")
      BY <1>3 DEF NextBatch
    <2>2. Count[s.scan] <= s.off
      BY <1>3, ServiceAssumption DEF RunState
    <2> QED
      BY <1>1, <2>1, <2>2, DecideFacts
  <1> QED
    BY <1>2, <1>3

(* What a phase says of the execution that is in it: it calls Drata with    *)
(* records of a sound scan only, it is at the first record or past a whole  *)
(* batch and before the last record as long as it uploads, and it asks to   *)
(* complete a session only when it is past the last record.                 *)
AtBatch(s) == s.off = 0 \/ (BatchSize <= s.off /\ s.off < Count[s.scan])

LocalOK(s) ==
  /\ s.pc \in {"upload", "complete", "abort"} \/ s.conflict => Sound(s.scan)
  /\ s.pc \in {"list", "cancel", "upload"} => AtBatch(s)
  /\ s.pc = "complete" => Count[s.scan] <= s.off

(* The cleanup ends in the next cancel, in the batch that met the conflict, *)
(* in the loop over the batches, or, if the gates fail, in the report.      *)
LEMMA AfterCleanupFacts ==
  ASSUME NEW s, RunTypeOK(s), s.pc \in {"list", "cancel"}, LocalOK(s)
  PROVE  /\ RunTypeOK(AfterCleanup(s)) /\ LocalOK(AfterCleanup(s))
         /\ AfterCleanup(s).scan = s.scan /\ AfterCleanup(s).off = s.off
         /\ AfterCleanup(s).pc \in {"upload", "complete", "abort", "report"}
  <1>1. s \in RunState /\ s.scan \in Scan
    BY PhaseFacts DEF RunTypeOK
  <1>2. s.conflict \in BOOLEAN
    BY <1>1 DEF RunState
  <1>3. CASE s.conflict
    <2>1. AfterCleanup(s) = Enter(s, "upload")
      BY <1>3 DEF AfterCleanup
    <2>2. "upload" \in Phase
      BY PhaseFacts
    <2>3. Sound(s.scan)
      BY <1>3 DEF LocalOK
    <2>4. /\ RunTypeOK(Enter(s, "upload"))
          /\ Enter(s, "upload").pc = "upload"
          /\ Enter(s, "upload").scan = s.scan /\ Enter(s, "upload").off = s.off
      BY <1>1, <2>2, EnterType
    <2> QED
      BY <2>1, <2>3, <2>4 DEF LocalOK, AtBatch
  <1>4. CASE ~s.conflict /\ ~AllGatesPassed(Gates(s))
    <2>1. AfterCleanup(s) = [Enter(s, "report") EXCEPT !.exit = 5]
      BY <1>4 DEF AfterCleanup
    <2>2. "report" \in Phase
      BY PhaseFacts
    <2>3. /\ RunTypeOK(Enter(s, "report"))
          /\ Enter(s, "report").pc = "report"
          /\ Enter(s, "report").scan = s.scan /\ Enter(s, "report").off = s.off
          /\ Enter(s, "report").conflict = s.conflict
      BY <1>1, <2>2, EnterType
    <2>4. /\ [Enter(s, "report") EXCEPT !.exit = 5] \in RunState
          /\ [Enter(s, "report") EXCEPT !.exit = 5].pc = "report"
          /\ [Enter(s, "report") EXCEPT !.exit = 5].scan = s.scan
          /\ [Enter(s, "report") EXCEPT !.exit = 5].off = s.off
          /\ [Enter(s, "report") EXCEPT !.exit = 5].conflict = s.conflict
          /\ [Enter(s, "report") EXCEPT !.exit = 5].tries = Enter(s, "report").tries
      BY <2>3 DEF RunTypeOK, RunState
    <2> QED
      BY <1>1, <1>4, <2>1, <2>3, <2>4 DEF RunTypeOK, LocalOK
  <1>5. CASE ~s.conflict /\ AllGatesPassed(Gates(s))
    <2>1. AfterCleanup(s) = NextBatch(s)
      BY <1>5 DEF AfterCleanup
    <2>2. Sound(s.scan) /\ AtBatch(s)
      BY <1>1, <1>5, ForceBypassesNoHardGate DEF LocalOK
    <2> QED
      BY <1>1, <2>1, <2>2, NextBatchFacts DEF LocalOK, AtBatch
  <1> QED
    BY <1>2, <1>3, <1>4, <1>5

LEMMA CleaningFacts ==
  ASSUME NEW s, RunTypeOK(s), s.pc \in {"list", "cancel"}, LocalOK(s),
         NEW t \in Cleaning(s)
  PROVE  /\ RunTypeOK(t) /\ LocalOK(t) /\ t.scan = s.scan /\ t.off = s.off
         /\ t.pc \in {"cancel", "upload", "complete", "abort", "report"}
  <1>1. s \in RunState /\ s.scan \in Scan /\ s.todo \subseteq Scan
    BY PhaseFacts DEF RunTypeOK, RunState
  <1>2. CASE s.todo = {}
    BY <1>2, AfterCleanupFacts DEF Cleaning
  <1>3. CASE s.todo # {}
    <2>1. PICK x \in s.todo :
            t = [Enter(s, "cancel") EXCEPT !.target = x, !.todo = s.todo \ {x}]
      BY <1>3 DEF Cleaning
    <2>2. "cancel" \in Phase
      BY PhaseFacts
    <2>3. /\ t \in RunState /\ t.pc = "cancel" /\ t.target \in Scan /\ t.tries = 0
          /\ t.scan = s.scan /\ t.off = s.off /\ t.conflict = s.conflict
      BY <1>1, <2>1, <2>2 DEF Enter, RunState
    <2>4. (s.conflict => Sound(s.scan)) /\ AtBatch(s)
      BY DEF LocalOK
    <2> QED
      BY <1>1, <2>3, <2>4, PushAssumption DEF RunTypeOK, LocalOK, AtBatch
  <1> QED
    BY <1>2, <1>3

Reply == {"ok", "conflict", "error"}

(* After a batch: further on if it was taken, back to the cleanup at its    *)
(* first conflict, and else to the final gates with a failed batch, which   *)
(* never complete.                                                          *)
LEMMA AfterUploadFacts ==
  ASSUME NEW s, RunTypeOK(s), s.pc = "upload", LocalOK(s), NEW reply \in Reply
  PROVE  /\ RunTypeOK(AfterUpload(s, reply)) /\ LocalOK(AfterUpload(s, reply))
         /\ AfterUpload(s, reply).scan = s.scan
         /\ AfterUpload(s, reply).off = IF reply = "ok" THEN s.off + BatchSize ELSE s.off
         /\ AfterUpload(s, reply).pc \in {"list", "upload", "complete", "abort"}
  <1>1. s \in RunState /\ s.scan \in Scan /\ Sound(s.scan)
    BY PhaseFacts DEF RunTypeOK, LocalOK
  <1>2. s.conflict \in BOOLEAN /\ s.off \in Nat
    BY <1>1 DEF RunState
  <1>3. CASE reply = "ok"
    <2> DEFINE t == [s EXCEPT !.off = s.off + BatchSize, !.conflict = FALSE]
    <2>1. t \in RunState /\ t.scan = s.scan /\ t.off = s.off + BatchSize
      <3>1. s.off + BatchSize \in Nat
        BY <1>2, PushAssumption
      <3> DEFINE o == s.off + BatchSize
      <3>2. o \in Nat /\ o = s.off + BatchSize
        BY <3>1
      <3> HIDE DEF o
      <3>3. t = [s EXCEPT !.off = o, !.conflict = FALSE]
        BY <3>2
      <3> QED
        BY <1>1, <3>2, <3>3 DEF RunState
    <2>2. AfterUpload(s, reply) = NextBatch(t)
      BY <1>3 DEF AfterUpload
    <2> HIDE DEF t
    <2>3. BatchSize <= s.off + BatchSize
      BY <1>2, PushAssumption
    <2>4. /\ RunTypeOK(NextBatch(t))
          /\ NextBatch(t).scan = s.scan /\ NextBatch(t).off = s.off + BatchSize
          /\ NextBatch(t).pc \in {"upload", "complete", "abort"}
          /\ NextBatch(t).pc = "complete" => Count[s.scan] <= s.off + BatchSize
          /\ NextBatch(t).pc = "upload" => s.off + BatchSize < Count[s.scan]
      BY <1>1, <2>1, NextBatchFacts
    <2>5. LocalOK(NextBatch(t))
      BY <1>1, <2>3, <2>4 DEF LocalOK, AtBatch
    <2> QED
      BY <1>3, <2>2, <2>4, <2>5
  <1>4. CASE reply = "conflict" /\ ~s.conflict
    <2>1. AfterUpload(s, reply) = [Enter(s, "list") EXCEPT !.conflict = TRUE]
      BY <1>4 DEF AfterUpload
    <2>2. "list" \in Phase
      BY PhaseFacts
    <2> DEFINE e == Enter(s, "list")
    <2>a. /\ e \in RunState /\ e.pc = "list" /\ e.scan = s.scan
          /\ e.off = s.off /\ e.tries = 0
      BY <1>1, <2>2 DEF Enter, RunState
    <2>b. AfterUpload(s, reply) = [e EXCEPT !.conflict = TRUE]
      BY <2>1
    <2> HIDE DEF e
    <2>3. /\ AfterUpload(s, reply) \in RunState
          /\ AfterUpload(s, reply).pc = "list"
          /\ AfterUpload(s, reply).scan = s.scan
          /\ AfterUpload(s, reply).off = s.off
          /\ AfterUpload(s, reply).tries = 0
      BY <2>a, <2>b DEF RunState
    <2>4. AtBatch(s)
      BY DEF LocalOK
    <2> QED
      BY <1>1, <1>4, <2>3, <2>4, PushAssumption DEF RunTypeOK, LocalOK, AtBatch
  <1>5. CASE reply = "error" \/ (reply = "conflict" /\ s.conflict)
    <2>1. AfterUpload(s, reply) = Decide(s, "failed")
      BY <1>5 DEF AfterUpload
    <2>2. "failed" \in UploadResult
      BY DEF UploadResult
    <2>3. reply # "ok"
      BY <1>5
    <2>4. /\ RunTypeOK(Decide(s, "failed"))
          /\ Decide(s, "failed").scan = s.scan
          /\ Decide(s, "failed").off = s.off
          /\ Decide(s, "failed").pc = "abort"
      BY <1>1, <2>2, DecideFacts
    <2> QED
      BY <1>1, <2>1, <2>3, <2>4 DEF LocalOK
  <1>6. reply = "ok" \/ reply = "conflict" \/ reply = "error"
    BY DEF Reply
  <1> QED
    BY <1>3, <1>4, <1>5, <1>6

(* After any call: only a complete that succeeded leads on to the saving.   *)
LEMMA AfterFacts ==
  ASSUME NEW s, RunTypeOK(s), s.pc \in Acting, LocalOK(s), NEW reply \in Reply,
         NEW t \in After(s, reply)
  PROVE  /\ RunTypeOK(t) /\ LocalOK(t)
         /\ t.pc \in Calling \cup {"save", "report", "done"}
         /\ t.pc \in Live => t.scan = s.scan
         /\ t.pc \in Calling =>
              /\ s.pc \in {"cancel", "upload"}
              /\ t.off = IF s.pc = "upload" /\ reply = "ok" THEN s.off + BatchSize
                                                            ELSE s.off
         /\ t.pc = "save" => s.pc = "complete" /\ reply = "ok"
  <1>1. s \in RunState /\ s.scan \in Scan
    BY PhaseFacts DEF RunTypeOK, Acting
  <1>2. "save" \in Phase /\ "report" \in Phase /\ 4 \in 0..6 /\ 5 \in 0..6
    BY PhaseFacts
  <1>3. /\ RunTypeOK(Exit(4)) /\ Exit(4).pc = "done" /\ ~Exit(4).conflict
    BY <1>2, ExitType DEF Idle
  <1>4. CASE s.pc = "cancel"
    <2>1. t \in Cleaning(s)
      BY <1>4 DEF After
    <2> QED
      BY <1>4, <2>1, CleaningFacts DEF Calling, Acting
  <1>5. CASE s.pc = "upload"
    <2>1. t = AfterUpload(s, reply)
      BY <1>5 DEF After
    <2> QED
      BY <1>5, <2>1, AfterUploadFacts DEF Calling, Acting
  <1>6. CASE s.pc = "complete"
    <2>1. t = IF reply = "ok" THEN Enter(s, "save") ELSE Exit(4)
      BY <1>6 DEF After, AfterComplete
    <2>2. /\ RunTypeOK(Enter(s, "save")) /\ Enter(s, "save").pc = "save"
          /\ Enter(s, "save").scan = s.scan
          /\ Enter(s, "save").conflict = s.conflict
      BY <1>1, <1>2, EnterType
    <2>3. LocalOK(Enter(s, "save")) /\ LocalOK(Exit(4))
      BY <1>3, <2>2 DEF LocalOK
    <2> QED
      BY <1>3, <1>6, <2>1, <2>2, <2>3, PhaseFacts DEF Calling, Acting
  <1>7. CASE s.pc = "abort"
    <2>1. t = IF reply = "ok" THEN [Enter(s, "report") EXCEPT !.exit = 5] ELSE Exit(4)
      BY <1>7 DEF After, AfterAbort
    <2>2. /\ [Enter(s, "report") EXCEPT !.exit = 5] \in RunState
          /\ [Enter(s, "report") EXCEPT !.exit = 5].pc = "report"
          /\ [Enter(s, "report") EXCEPT !.exit = 5].scan = s.scan
          /\ [Enter(s, "report") EXCEPT !.exit = 5].conflict = s.conflict
          /\ [Enter(s, "report") EXCEPT !.exit = 5].tries = 0
      BY <1>1, <1>2 DEF Enter, RunState
    <2>3. /\ RunTypeOK([Enter(s, "report") EXCEPT !.exit = 5])
          /\ LocalOK([Enter(s, "report") EXCEPT !.exit = 5]) /\ LocalOK(Exit(4))
      BY <1>1, <1>3, <2>2, PushAssumption DEF LocalOK, RunTypeOK
    <2> QED
      BY <1>3, <1>7, <2>1, <2>2, <2>3, PhaseFacts DEF Calling, Acting
  <1> QED
    BY <1>4, <1>5, <1>6, <1>7 DEF Acting

(* The cleanup goes for sessions only, and for the run's own only where the *)
(* listing shows that by another id.                                        *)
LEMMA TargetsFacts ==
  ASSUME NEW entries \in Listings, NEW own \in Scan
  PROVE  /\ CleanupTargets(entries, own) \subseteq Scan
         /\ own \notin Aliased => own \notin CleanupTargets(entries, own)
  <1>1. \A e \in entries : \E s \in Scan : e.id = ShownId(s)
    BY DEF Listings, Entry
  <1>2. \A s \in Scan : ShownId(s).sid = s
    BY DEF ShownId
  <1>3. \A s \in Scan : s \notin Aliased => (s \in Aliased) = FALSE
    OBVIOUS
  <1>4. \A s \in Scan : s \notin Aliased => ShownId(s) = OwnId(s)
    BY <1>3, Zenon DEF ShownId, OwnId
  <1>5. CleanupTargets(entries, own) \subseteq Scan
    BY <1>1, <1>2 DEF CleanupTargets
  <1>6. ASSUME own \notin Aliased, own \in CleanupTargets(entries, own) PROVE FALSE
    <2>1. PICK e \in entries : e.id.sid = own /\ e.id # OwnId(own)
      BY <1>6 DEF CleanupTargets
    <2>2. e.id = ShownId(own)
      BY <1>1, <1>2, <2>1
    <2> QED
      BY <1>4, <1>6, <2>1, <2>2
  <1> QED
    BY <1>5, <1>6

(***************************************************************************)
(* Type correctness.                                                        *)
(***************************************************************************)

LEMMA RequestGood ==
  ASSUME NEW s, RunTypeOK(s), s.pc \in Acting
  PROVE  GoodRequest(RequestOf(s)) /\ Replies(RequestOf(s)) \subseteq Reply
  <1>1. s \in RunState /\ s.scan \in Scan /\ (s.pc = "cancel" => s.target \in Scan)
    BY PhaseFacts DEF RunTypeOK, Acting
  <1>2. Batch(s) \subseteq RecordsOf(s.scan)
    BY DEF Batch
  <1>3. RecordsOf(s.scan) \subseteq Nat
    BY <1>1, RecordsAreNat
  <1> DEFINE o == CASE s.pc = "upload"   -> "upload"
                    [] s.pc = "complete" -> "complete"
                    [] s.pc \in {"cancel", "abort"} -> "cancel"
             d == IF s.pc = "cancel" THEN s.target ELSE s.scan
             c == IF s.pc = "upload" THEN Batch(s) ELSE {}
  <1>4. /\ o \in {"upload", "cancel", "complete"} /\ d \in Scan
        /\ c \subseteq RecordsOf(d) /\ c \subseteq Nat
    BY <1>1, <1>2, <1>3 DEF Acting
  <1>5. RequestOf(s) = [op |-> o, sid |-> d, recs |-> c]
    BY DEF RequestOf
  <1> HIDE DEF o, d, c
  <1>6. RequestOf(s) \in Request /\ RequestOf(s).recs \subseteq RecordsOf(RequestOf(s).sid)
    BY <1>4, <1>5 DEF Request
  <1>7. \A q \in Request : Replies(q) \subseteq Reply
    BY DEF Replies, Reply, Request
  <1> QED
    BY <1>6, <1>7 DEF GoodRequest

Inv0 ==
  /\ TypeOK
  /\ \A r \in Run : LocalOK(run[r])

LEMMA BecomeInv0 ==
  ASSUME Inv0, NEW r \in Run, NEW t, Become(r, t), RunTypeOK(t), LocalOK(t),
         ServiceTypeOK', lastRun' \in [count : Int, sid : Scan \cup {NoScan}]
  PROVE  Inv0'
  <1>1. DOMAIN run' = Run /\ run'[r] = t /\ \A q \in Run \ {r} : run'[q] = run[q]
    BY DEF Inv0, TypeOK, Become
  <1>2. \A q \in Run : RunTypeOK(run'[q]) /\ LocalOK(run'[q])
    BY <1>1 DEF Inv0, TypeOK
  <1> QED
    BY <1>1, <1>2 DEF Inv0, TypeOK, RunTypeOK, LocalOK, AtBatch, Sound

LEMMA ServiceUnchanged ==
  ASSUME ServiceTypeOK, UNCHANGED <<sess, current, inflight>>
  PROVE  ServiceTypeOK'
  BY DEF ServiceTypeOK, RecordsOf

LEMMA InitInv0 == Init => Inv0
  <1> SUFFICES ASSUME Init PROVE Inv0
    OBVIOUS
  <1>1. ServiceTypeOK
    BY DEF Init, ServiceInit, ServiceTypeOK, SessionStatus
  <1>2. lastRun \in [count : Int, sid : Scan \cup {NoScan}]
    BY DEF Init, NoState, NoCount
  <1>3. RunTypeOK(Idle) /\ LocalOK(Idle)
    <2>1. RunTypeOK(Idle)
      BY IdleFacts, PhaseFacts, PushAssumption DEF RunTypeOK
    <2> QED
      BY <2>1, IdleFacts DEF LocalOK
  <1> QED
    BY <1>1, <1>2, <1>3 DEF Init, Inv0, TypeOK

(* One step per action; the service part rests on UnansweredType, the local *)
(* part on what the continuations of a call keep.                           *)
LEMMA NextInv0 == Inv0 /\ [Next]_vars => Inv0'
  <1> SUFFICES ASSUME Inv0, [Next]_vars PROVE Inv0'
    OBVIOUS
  <1>1. /\ ServiceTypeOK /\ lastRun \in [count : Int, sid : Scan \cup {NoScan}]
        /\ \A r \in Run : RunTypeOK(run[r]) /\ LocalOK(run[r])
    BY DEF Inv0, TypeOK
  <1>2. ASSUME NEW r \in Run, Begin(r) PROVE Inv0'
    <2>1. PICK s \in Scan, f \in Forces, base \in Loaded(r) :
            Become(r, [Idle EXCEPT !.pc = "list", !.scan = s, !.force = f, !.base = base])
      BY <1>2 DEF Begin, Load
    <2> DEFINE t == [Idle EXCEPT !.pc = "list", !.scan = s, !.force = f, !.base = base]
    <2>2. Idle \in RunState
      BY IdleFacts
    <2>3. "list" \in Phase /\ f \in BOOLEAN /\ base \in Int
      BY <1>1, PhaseFacts, PushAssumption DEF Loaded, NoCount
    <2>4. /\ t \in RunState /\ t.pc = "list" /\ t.scan = s /\ t.tries = 0
          /\ ~t.conflict /\ t.off = 0
      BY <2>2, <2>3 DEF Idle, RunState
    <2>5. RunTypeOK(t) /\ LocalOK(t)
      BY <2>4, PushAssumption DEF RunTypeOK, LocalOK, AtBatch
    <2>6. ServiceTypeOK' /\ lastRun' = lastRun
      BY <1>1, <1>2, ServiceUnchanged DEF Begin, Load
    <2> HIDE DEF t
    <2> QED
      BY <1>1, <2>1, <2>5, <2>6, BecomeInv0 DEF t
  <1>3. ASSUME NEW r \in Run, EndEarly(r) PROVE Inv0'
    <2>1. PICK code \in 0..3 : Become(r, Exit(code))
      BY <1>3 DEF EndEarly
    <2>2. code \in 0..6
      OBVIOUS
    <2>3. RunTypeOK(Exit(code)) /\ LocalOK(Exit(code))
      BY <2>2, ExitType DEF Exit, Idle, LocalOK
    <2>4. ServiceTypeOK' /\ lastRun' = lastRun
      BY <1>1, <1>3, ServiceUnchanged DEF EndEarly
    <2> QED
      BY <1>1, <2>1, <2>3, <2>4, BecomeInv0
  <1>4. ASSUME NEW r \in Run, Listed(r) PROVE Inv0'
    <2>1. PICK entries \in Listings :
            \E s \in Cleaning([run[r] EXCEPT !.todo = CleanupTargets(entries, run[r].scan)]) :
              Become(r, s)
      BY <1>4 DEF Listed
    <2> DEFINE u == [run[r] EXCEPT !.todo = CleanupTargets(entries, run[r].scan)]
    <2>2. PICK s \in Cleaning(u) : Become(r, s)
      BY <2>1
    <2>3. CleanupTargets(entries, run[r].scan) \subseteq Scan
      BY <1>1, <1>4, PhaseFacts, TargetsFacts DEF Listed, RunTypeOK
    <2>4. run[r] \in RunState /\ run[r].pc = "list" /\ run[r].scan \in Scan
          /\ run[r].tries < MaxRetries /\ LocalOK(run[r])
      BY <1>1, <1>4, PhaseFacts DEF Listed, RunTypeOK
    <2>5. u \in RunState /\ u.pc = "list" /\ u.scan = run[r].scan
          /\ u.tries = run[r].tries /\ u.conflict = run[r].conflict /\ u.off = run[r].off
      BY <2>3, <2>4 DEF RunState
    <2>6. RunTypeOK(u) /\ LocalOK(u)
      BY <2>4, <2>5 DEF RunTypeOK, LocalOK, AtBatch
    <2> HIDE DEF u
    <2>7. RunTypeOK(s) /\ LocalOK(s)
      BY <2>5, <2>6, CleaningFacts
    <2>8. ServiceTypeOK' /\ lastRun' = lastRun
      BY <1>1, <1>4, ServiceUnchanged DEF Listed
    <2> QED
      BY <1>1, <2>2, <2>7, <2>8, BecomeInv0
  <1>5. ASSUME NEW r \in Run, ListFailed(r) PROVE Inv0'
    <2>1. RunTypeOK(AfterCleanup(run[r])) /\ LocalOK(AfterCleanup(run[r]))
      BY <1>1, <1>5, AfterCleanupFacts DEF ListFailed
    <2>2. ServiceTypeOK' /\ lastRun' = lastRun /\ Become(r, AfterCleanup(run[r]))
      BY <1>1, <1>5, ServiceUnchanged DEF ListFailed
    <2> QED
      BY <1>1, <2>1, <2>2, BecomeInv0
  <1>6. ASSUME NEW r \in Run, run[r].pc \in Acting, NEW reply \in Reply,
               \E s \in After(run[r], reply) : Become(r, s),
               ServiceTypeOK', UNCHANGED lastRun
        PROVE  Inv0'
    <2>1. PICK s \in After(run[r], reply) : Become(r, s)
      BY <1>6
    <2>2. RunTypeOK(s) /\ LocalOK(s)
      BY <1>1, <1>6, AfterFacts
    <2> QED
      BY <1>1, <1>6, <2>1, <2>2, BecomeInv0
  <1>7. ASSUME NEW r \in Run, Answered(r) PROVE Inv0'
    <2>1. GoodRequest(RequestOf(run[r])) /\ Replies(RequestOf(run[r])) \subseteq Reply
      BY <1>1, <1>7, RequestGood DEF Answered
    <2>2. Unanswered(RequestOf(run[r]))
      BY <1>7 DEF Answered, Unanswered
    <2>3. ServiceTypeOK'
      BY <1>1, <2>1, <2>2, UnansweredType
    <2> QED
      BY <1>6, <1>7, <2>1, <2>3 DEF Answered
  <1>8. ASSUME NEW r \in Run, PartlyStored(r) PROVE Inv0'
    <2>1. run[r].pc \in Acting /\ GoodRequest(RequestOf(run[r]))
      BY <1>1, <1>8, RequestGood DEF PartlyStored, Acting
    <2>2. PICK part \in SUBSET Batch(run[r]) :
            Apply([RequestOf(run[r]) EXCEPT !.recs = part])
      BY <1>8 DEF PartlyStored
    <2>3. GoodRequest([RequestOf(run[r]) EXCEPT !.recs = part])
      <3>1. RequestOf(run[r]).recs = Batch(run[r])
        BY <1>8 DEF PartlyStored, RequestOf
      <3> QED
        BY <2>1, <3>1 DEF GoodRequest, Request
    <2>4. ServiceTypeOK'
      BY <1>1, <1>8, <2>2, <2>3, ApplyType DEF PartlyStored
    <2>5. PICK reply \in {"conflict", "error"} \cup (IF Unverified THEN {"ok"} ELSE {}) :
            \E s \in After(run[r], reply) : Become(r, s)
      BY <1>8 DEF PartlyStored
    <2>6. reply \in Reply
      BY DEF Reply
    <2> QED
      BY <1>6, <1>8, <2>1, <2>4, <2>5, <2>6 DEF PartlyStored
  <1>9. ASSUME NEW r \in Run, Failed(r) PROVE Inv0'
    <2>1. GoodRequest(RequestOf(run[r])) /\ "error" \in Reply
      BY <1>1, <1>9, RequestGood DEF Failed, Reply
    <2>2. ServiceTypeOK'
      BY <1>1, <1>9, <2>1, UnansweredType DEF Failed
    <2> QED
      BY <1>6, <1>9, <2>1, <2>2 DEF Failed
  <1>10. ASSUME NEW r \in Run, Retried(r) PROVE Inv0'
    <2> DEFINE t == [run[r] EXCEPT !.tries = @ + 1]
    <2>1. run[r] \in RunState /\ run[r].scan \in Scan /\ run[r].tries + 1 < MaxRetries
      BY <1>1, <1>10, PhaseFacts DEF Retried, RunTypeOK, Live
    <2>2. /\ t \in RunState /\ t.tries < MaxRetries
          /\ t.pc = run[r].pc /\ t.scan = run[r].scan /\ t.off = run[r].off
          /\ t.conflict = run[r].conflict /\ t.target = run[r].target
      BY <2>1 DEF RunState
    <2>3. RunTypeOK(t) /\ LocalOK(t)
      BY <1>1, <2>1, <2>2 DEF RunTypeOK, LocalOK, AtBatch
    <2>4. ServiceTypeOK'
      <3>1. CASE run[r].pc = "list"
        BY <1>1, <1>10, <3>1, ServiceUnchanged DEF Retried, serviceVars
      <3>2. CASE run[r].pc # "list"
        <4>1. run[r].pc \in Acting
          BY <1>10, <3>2 DEF Retried, Calling
        <4>2. GoodRequest(RequestOf(run[r]))
          BY <1>1, <4>1, RequestGood
        <4> QED
          BY <1>1, <1>10, <3>2, <4>2, UnansweredType DEF Retried
      <3> QED
        BY <3>1, <3>2
    <2>5. Become(r, t) /\ lastRun' = lastRun
      BY <1>10 DEF Retried
    <2> HIDE DEF t
    <2> QED
      BY <1>1, <2>3, <2>4, <2>5, BecomeInv0
  <1>11. ASSUME NEW r \in Run, NEW phase \in {"write", "report"}, run[r].pc \in Live,
                Become(r, Enter(run[r], phase)), UNCHANGED serviceVars,
                lastRun' \in [count : Int, sid : Scan \cup {NoScan}]
         PROVE  Inv0'
    <2>1. run[r] \in RunState /\ run[r].scan \in Scan /\ phase \in Phase
      BY <1>1, <1>11, PhaseFacts DEF RunTypeOK
    <2>2. RunTypeOK(Enter(run[r], phase)) /\ LocalOK(Enter(run[r], phase))
      BY <1>1, <2>1, EnterType DEF LocalOK
    <2>3. ServiceTypeOK'
      BY <1>1, <1>11, ServiceUnchanged DEF serviceVars
    <2> QED
      BY <1>11, <2>2, <2>3, BecomeInv0
  <1>12. ASSUME NEW r \in Run, SaveOpen(r) PROVE Inv0'
    <2>1. lastRun' \in [count : Int, sid : Scan \cup {NoScan}]
      BY <1>12 DEF SaveOpen, NoState, NoCount
    <2> QED
      BY <1>11, <1>12, <2>1, PhaseFacts DEF SaveOpen
  <1>13. ASSUME NEW r \in Run, SaveWrite(r) PROVE Inv0'
    <2>1. run[r].scan \in Scan
      BY <1>1, <1>13, PhaseFacts DEF SaveWrite, RunTypeOK
    <2>2. Count[run[r].scan] \in Int
      BY <2>1, ServiceAssumption
    <2>3. lastRun' \in [count : Int, sid : Scan \cup {NoScan}]
      BY <1>13, <2>1, <2>2 DEF SaveWrite
    <2> QED
      BY <1>11, <1>13, <2>3, PhaseFacts DEF SaveWrite
  <1>14. ASSUME NEW r \in Run, NEW code \in 0..6, Become(r, Exit(code)),
                ServiceTypeOK', UNCHANGED lastRun
         PROVE  Inv0'
    <2>1. RunTypeOK(Exit(code)) /\ LocalOK(Exit(code))
      BY ExitType DEF Exit, Idle, LocalOK
    <2> QED
      BY <1>1, <1>14, <2>1, BecomeInv0
  <1>15. ASSUME NEW r \in Run, Report(r) PROVE Inv0'
    <2>1. run[r].exit \in 0..6
      BY <1>1 DEF RunTypeOK, RunState
    <2> QED
      BY <1>1, <1>14, <1>15, <2>1, ServiceUnchanged DEF Report
  <1>16. ASSUME NEW r \in Run, WriteFails(r) PROVE Inv0'
    <2>1. 1 \in 0..6
      OBVIOUS
    <2> QED
      BY <1>1, <1>14, <1>16, <2>1, ServiceUnchanged DEF WriteFails
  <1>17. ASSUME NEW r \in Run, Crash(r) PROVE Inv0'
    <2>1. ServiceTypeOK'
      <3>1. CASE run[r].pc \in Acting
        <4>1. GoodRequest(RequestOf(run[r]))
          BY <1>1, <3>1, RequestGood
        <4> QED
          BY <1>1, <1>17, <3>1, <4>1, UnansweredType DEF Crash
      <3>2. CASE run[r].pc \notin Acting
        BY <1>1, <1>17, <3>2, ServiceUnchanged DEF Crash, serviceVars
      <3> QED
        BY <3>1, <3>2
    <2> DEFINE t == [Idle EXCEPT !.pc = "crashed"]
    <2>2. Become(r, t) /\ lastRun' = lastRun
      BY <1>17 DEF Crash
    <2>3. t \in RunState /\ t.pc = "crashed" /\ t.tries = 0 /\ ~t.conflict
      BY IdleFacts, PhaseFacts DEF RunState
    <2>4. RunTypeOK(t) /\ LocalOK(t)
      BY <2>3, PhaseFacts, PushAssumption DEF RunTypeOK, LocalOK
    <2> HIDE DEF t
    <2> QED
      BY <1>1, <2>1, <2>2, <2>4, BecomeInv0
  <1>20. ASSUME NEW r \in Run, AliasUnknown(r) PROVE Inv0'
    <2>1. "error" \in Reply /\ run[r].pc \in Acting
      BY <1>20 DEF Reply, AliasUnknown, Acting
    <2> QED
      BY <1>1, <1>6, <1>20, <2>1, ServiceUnchanged DEF AliasUnknown
  <1>21. ASSUME NEW r \in Run, Surprised(r) PROVE Inv0'
    <2>1. ServiceTypeOK'
      <3>1. CASE run[r].pc = "list"
        BY <1>1, <1>21, <3>1, ServiceUnchanged DEF Surprised, serviceVars
      <3>2. CASE run[r].pc # "list"
        <4>1. run[r].pc \in Acting
          BY <1>21, <3>2 DEF Surprised, Calling
        <4>2. GoodRequest(RequestOf(run[r]))
          BY <1>1, <4>1, RequestGood
        <4> QED
          BY <1>1, <1>21, <3>2, <4>2, UnansweredType DEF Surprised
      <3> QED
        BY <3>1, <3>2
    <2>2. 1 \in 0..6
      OBVIOUS
    <2> QED
      BY <1>14, <1>21, <2>1, <2>2 DEF Surprised
  <1>18. CASE Late
    <2>1. PICK q \in inflight : Process(q) /\ inflight' \in {inflight, inflight \ {q}}
      BY <1>18 DEF Late, Deliver
    <2>2. GoodRequest(q)
      BY <1>1 DEF ServiceTypeOK, GoodRequest
    <2>3. inflight' \subseteq inflight
      BY <2>1
    <2>4. ServiceTypeOK'
      <3>1. CASE Apply(q)
        BY <1>1, <2>2, <2>3, <3>1, ApplyType
      <3>2. CASE UNCHANGED <<sess, current>>
        BY <1>1, <2>3, <3>2 DEF ServiceTypeOK, RecordsOf
      <3> QED
        BY <2>1, <3>1, <3>2 DEF Process
    <2> QED
      BY <1>18, <2>4 DEF Late, Inv0, TypeOK, RunTypeOK, LocalOK, AtBatch, Sound
  <1>19. CASE UNCHANGED vars
    <2>1. ServiceTypeOK'
      BY <1>1, <1>19, ServiceUnchanged DEF vars
    <2> QED
      BY <1>19, <2>1 DEF vars, Inv0, TypeOK, RunTypeOK, LocalOK, AtBatch, Sound
  <1> QED
    BY <1>2, <1>3, <1>4, <1>5, <1>7, <1>8, <1>9, <1>10, <1>12, <1>13, <1>15, <1>16,
       <1>17, <1>18, <1>19, <1>20, <1>21 DEF Next, Step, Quiescent

(* The state of the service, of last_run.json and of every execution is     *)
(* well typed, and no call is tried more often than max_retries allows.     *)
THEOREM TypeCorrect == Spec => []TypeOK
  <1>1. Inv0 => TypeOK
    BY DEF Inv0
  <1> QED
    BY InitInv0, NextInv0, <1>1, PTL DEF Spec

(***************************************************************************)
(* What one step does: to the service, to last_run.json, to an execution.   *)
(***************************************************************************)

Takes(q) == Accepts(q) /\ Apply(q)

(* q is the call execution r has outstanding, perhaps with fewer records.   *)
CallOf(r, q) ==
  /\ run[r].pc \in Acting
  /\ q.op = RequestOf(run[r]).op
  /\ q.sid = RequestOf(run[r]).sid
  /\ q.recs \subseteq RequestOf(run[r]).recs

(* A request that is taken touches its own session only, never a completed  *)
(* one; it alone completes, and it takes records away only by reopening.    *)
LEMMA TakesEffects ==
  ASSUME ServiceTypeOK, NEW q, GoodRequest(q), Takes(q)
  PROVE  /\ q.sid \in Scan
         /\ \A s \in Scan : s # q.sid => sess'[s] = sess[s]
         /\ ~Completed(q.sid)
         /\ q.op # "complete" => sess'[q.sid].status # "ACTIVE" /\ current' = current
         /\ q.op = "complete" => /\ sess'[q.sid].status = "ACTIVE" /\ current' = q.sid
                                 /\ sess'[q.sid].recs = sess[q.sid].recs
                                 /\ sess[q.sid].status = "IN_PROGRESS"
         /\ q.op = "upload" => q.recs \subseteq sess'[q.sid].recs
         /\ ~CanceledReusable => sess[q.sid].recs \subseteq sess'[q.sid].recs
         /\ q.op # "upload" => sess[q.sid].status = "IN_PROGRESS"
  <1>1. q.sid \in Scan /\ q.op \in {"upload", "cancel", "complete"}
    BY DEF GoodRequest, Request
  <1>2. sess'[q.sid] = Outcome(q) /\ \A s \in Scan : s # q.sid => sess'[s] = sess[s]
    BY <1>1 DEF Takes, Apply, ServiceTypeOK
  <1>3. CASE q.op = "upload"
    <2>1. /\ sess[q.sid].status # "ACTIVE"
          /\ ~CanceledReusable => sess[q.sid].status # "CANCELED"
      BY <1>3 DEF Takes, Accepts, Open
    <2>2. Outcome(q) = [status |-> "IN_PROGRESS", recs |-> Kept(q.sid) \cup q.recs]
      BY <1>3 DEF Outcome
    <2>3. ~CanceledReusable => Kept(q.sid) = sess[q.sid].recs
      BY <2>1 DEF Kept
    <2> QED
      BY <1>1, <1>2, <1>3, <2>1, <2>2, <2>3 DEF Takes, Apply, Completed
  <1>4. CASE q.op = "cancel"
    <2>1. Outcome(q) = [status |-> "CANCELED", recs |-> sess[q.sid].recs]
      BY <1>4 DEF Outcome
    <2> QED
      BY <1>1, <1>2, <1>4, <2>1 DEF Takes, Accepts, Apply, Completed
  <1>5. CASE q.op = "complete"
    <2>1. Outcome(q) = [status |-> "ACTIVE", recs |-> sess[q.sid].recs]
      BY <1>5 DEF Outcome
    <2> QED
      BY <1>1, <1>2, <1>5, <2>1 DEF Takes, Accepts, Apply, Completed
  <1> QED
    BY <1>1, <1>3, <1>4, <1>5

ServiceEffect ==
  /\ \/ UNCHANGED <<sess, current>>
     \/ \E q : /\ GoodRequest(q) /\ Takes(q)
               /\ q \in inflight \/ \E r \in Run : CallOf(r, q)
  /\ \A q \in inflight' : q \in inflight \/ \E r \in Run : CallOf(r, q)

(* Every step of the system changes the service by one request at most: one *)
(* that an execution has outstanding, or a delayed one.                     *)
LEMMA ServiceEffects == Inv0 /\ [Next]_vars => ServiceEffect
  <1> SUFFICES ASSUME Inv0, [Next]_vars PROVE ServiceEffect
    OBVIOUS
  <1>1. /\ ServiceTypeOK
        /\ \A r \in Run : RunTypeOK(run[r])
    BY DEF Inv0, TypeOK
  <1>2. ASSUME UNCHANGED <<sess, current, inflight>> PROVE ServiceEffect
    BY <1>2 DEF ServiceEffect
  <1>3. ASSUME NEW r \in Run, run[r].pc \in Acting, Unanswered(RequestOf(run[r]))
        PROVE  ServiceEffect
    <2>1. GoodRequest(RequestOf(run[r])) /\ CallOf(r, RequestOf(run[r]))
      BY <1>1, <1>3, RequestGood DEF CallOf
    <2> DEFINE p == RequestOf(run[r])
    <2> HIDE DEF p
    <2>2. GoodRequest(p) /\ CallOf(r, p) /\ Unanswered(p)
      BY <1>3, <2>1 DEF p
    <2>3. CASE UNCHANGED serviceVars
      BY <1>2, <2>3 DEF serviceVars
    <2>4. CASE Process(p) /\ UNCHANGED inflight
      <3>1. Takes(p) \/ UNCHANGED <<sess, current>>
        BY <2>4 DEF Process, Takes
      <3> QED
        BY <2>2, <2>4, <3>1 DEF ServiceEffect
    <2>5. CASE inflight' = inflight \cup {p} /\ UNCHANGED <<sess, current>>
      BY <2>2, <2>5 DEF ServiceEffect
    <2> QED
      BY <2>2, <2>3, <2>4, <2>5 DEF Unanswered
  <1>4. ASSUME NEW r \in Run, PartlyStored(r) PROVE ServiceEffect
    <2>1. run[r].pc \in Acting /\ GoodRequest(RequestOf(run[r]))
      BY <1>1, <1>4, RequestGood DEF PartlyStored, Acting
    <2>2. PICK part \in SUBSET Batch(run[r]) :
            Apply([RequestOf(run[r]) EXCEPT !.recs = part])
      BY <1>4 DEF PartlyStored
    <2> DEFINE p == [RequestOf(run[r]) EXCEPT !.recs = part]
    <2>3. RequestOf(run[r]).recs = Batch(run[r])
      BY <1>4 DEF PartlyStored, RequestOf
    <2>4. /\ GoodRequest(p) /\ p.op = RequestOf(run[r]).op
          /\ p.sid = RequestOf(run[r]).sid /\ p.recs = part
      BY <2>1, <2>3 DEF GoodRequest, Request
    <2> HIDE DEF p
    <2>5. Accepts(p)
      BY <1>4, <2>4 DEF PartlyStored, Accepts
    <2>6. Takes(p)
      BY <2>2, <2>5 DEF Takes, p
    <2>7. CallOf(r, p)
      BY <2>1, <2>3, <2>4 DEF CallOf
    <2> QED
      BY <1>4, <2>4, <2>6, <2>7 DEF ServiceEffect, PartlyStored
  <1>5. ASSUME NEW r \in Run, Answered(r) PROVE ServiceEffect
    BY <1>3, <1>5 DEF Answered, Unanswered
  <1>6. ASSUME NEW r \in Run, Failed(r) PROVE ServiceEffect
    BY <1>3, <1>6 DEF Failed
  <1>7. ASSUME NEW r \in Run, Retried(r) \/ Surprised(r) PROVE ServiceEffect
    BY <1>2, <1>3, <1>7 DEF Retried, Surprised, serviceVars, Calling
  <1>8. ASSUME NEW r \in Run, Crash(r) PROVE ServiceEffect
    BY <1>2, <1>3, <1>8 DEF Crash, serviceVars
  <1>9. CASE Late
    <2>1. PICK q \in inflight : Process(q) /\ inflight' \in {inflight, inflight \ {q}}
      BY <1>9 DEF Late, Deliver
    <2>2. GoodRequest(q)
      BY <1>1 DEF ServiceTypeOK, GoodRequest
    <2>3. Takes(q) \/ UNCHANGED <<sess, current>>
      BY <2>1 DEF Process, Takes
    <2>4. inflight' \subseteq inflight
      BY <2>1
    <2> QED
      BY <2>2, <2>3, <2>4 DEF ServiceEffect
  <1>10. ASSUME NEW r \in Run,
                \/ Begin(r) \/ EndEarly(r) \/ Listed(r) \/ ListFailed(r)
                \/ AliasUnknown(r) \/ SaveOpen(r) \/ SaveWrite(r) \/ Report(r) \/ WriteFails(r)
         PROVE  ServiceEffect
    BY <1>2, <1>10 DEF Begin, Load, EndEarly, Listed, ListFailed, AliasUnknown, SaveOpen,
                       SaveWrite, Report, WriteFails, serviceVars
  <1>11. CASE UNCHANGED vars
    BY <1>2, <1>11 DEF vars
  <1> QED
    BY <1>4, <1>5, <1>6, <1>7, <1>8, <1>9, <1>10, <1>11 DEF Next, Step, Quiescent

(* Phases in which an execution counts its first off records as sent.       *)
Loading == {"list", "cancel", "upload", "complete"}

RunEffect(r) ==
  \/ run'[r].pc \notin Loading \cup {"save", "write"}
  \/ run[r].pc = "idle" /\ run'[r].pc = "list" /\ run'[r].off = 0
  \/ /\ run'[r].scan = run[r].scan /\ run'[r].off = run[r].off
     /\ run'[r].pc \in Loading /\ run[r].pc \in Loading
     /\ run[r].pc = "complete" => run'[r].pc = "complete"
  \/ /\ run'[r].scan = run[r].scan
     /\ run'[r].pc \in {"save", "write"} /\ run[r].pc \in {"save", "write"}
  \/ /\ run[r].pc = "upload" /\ run'[r].pc \in Loading
     /\ run'[r].scan = run[r].scan /\ run'[r].off = run[r].off + BatchSize
     /\ Unverified \/ Takes(RequestOf(run[r]))
  \/ /\ run[r].pc = "complete" /\ run'[r].pc = "save"
     /\ run'[r].scan = run[r].scan /\ sess'[run[r].scan].status = "ACTIVE"

(* How an execution can come to be where its position or its success count. *)
LEMMA RunEffects == ASSUME Inv0, [Next]_vars, NEW r \in Run PROVE RunEffect(r)
  <1>1. /\ ServiceTypeOK /\ DOMAIN run = Run
        /\ RunTypeOK(run[r]) /\ LocalOK(run[r])
    BY DEF Inv0, TypeOK
  <1>2. run[r] \in RunState
    BY <1>1 DEF RunTypeOK
  <1>3. ASSUME run'[r] = run[r] PROVE RunEffect(r)
    BY <1>3 DEF RunEffect
  <1>4. ASSUME NEW t, Become(r, t) PROVE run'[r] = t
    BY <1>1, <1>4 DEF Become
  <1>5. CASE Begin(r)
    <2>1. PICK s \in Scan, f \in Forces, base \in Loaded(r) :
            Become(r, [Idle EXCEPT !.pc = "list", !.scan = s, !.force = f, !.base = base])
      BY <1>5 DEF Begin, Load
    <2>2. run'[r].pc = "list" /\ run'[r].off = 0
      BY <1>4, <2>1 DEF Idle
    <2> QED
      BY <1>5, <2>2 DEF Begin, Load, RunEffect
  <1>6. ASSUME NEW code \in 0..6, Become(r, Exit(code)) PROVE RunEffect(r)
    <2>1. run'[r].pc = "done"
      BY <1>4, <1>6 DEF Exit, Idle
    <2> QED
      BY <2>1 DEF RunEffect, Loading
  <1>7. CASE EndEarly(r) \/ Report(r) \/ WriteFails(r) \/ Surprised(r)
    <2>1. run[r].exit \in 0..6 /\ 0..3 \subseteq 0..6 /\ 1 \in 0..6
      BY <1>2 DEF RunState
    <2>2. \E code \in 0..6 : Become(r, Exit(code))
      BY <1>7, <2>1 DEF EndEarly, Report, WriteFails, Surprised
    <2> QED
      BY <1>6, <2>2
  <1>8. CASE Listed(r)
    <2>1. PICK entries \in Listings :
            \E s \in Cleaning([run[r] EXCEPT !.todo = CleanupTargets(entries, run[r].scan)]) :
              Become(r, s)
      BY <1>8 DEF Listed
    <2> DEFINE u == [run[r] EXCEPT !.todo = CleanupTargets(entries, run[r].scan)]
    <2>2. PICK s \in Cleaning(u) : Become(r, s)
      BY <2>1
    <2>3. CleanupTargets(entries, run[r].scan) \subseteq Scan
      BY <1>1, <1>8, PhaseFacts, TargetsFacts DEF Listed, RunTypeOK
    <2>4. run[r].pc = "list" /\ run[r].scan \in Scan /\ run[r].tries < MaxRetries
      BY <1>1, <1>8, PhaseFacts DEF Listed, RunTypeOK
    <2>5. u \in RunState /\ u.pc = "list" /\ u.scan = run[r].scan
          /\ u.tries = run[r].tries /\ u.conflict = run[r].conflict /\ u.off = run[r].off
      BY <1>2, <2>3, <2>4 DEF RunState
    <2>6. RunTypeOK(u) /\ LocalOK(u)
      BY <1>1, <2>4, <2>5 DEF RunTypeOK, LocalOK, AtBatch
    <2> HIDE DEF u
    <2>7. /\ s.scan = run[r].scan /\ s.off = run[r].off
          /\ s.pc \in {"cancel", "upload", "complete", "abort", "report"}
      BY <2>5, <2>6, CleaningFacts
    <2>8. run'[r] = s
      BY <1>4, <2>2
    <2> QED
      BY <2>4, <2>7, <2>8 DEF RunEffect, Loading
  <1>9. CASE ListFailed(r)
    <2>1. run'[r] = AfterCleanup(run[r]) /\ run[r].pc = "list"
      BY <1>4, <1>9 DEF ListFailed
    <2> QED
      BY <1>1, <2>1, AfterCleanupFacts DEF RunEffect, Loading
  <1>10. ASSUME run[r].pc \in Acting, NEW reply \in Reply,
                \E s \in After(run[r], reply) : Become(r, s),
                run[r].pc = "upload" /\ reply = "ok" =>
                  Unverified \/ Takes(RequestOf(run[r])),
                run[r].pc = "complete" /\ reply = "ok" => sess'[run[r].scan].status = "ACTIVE"
         PROVE  RunEffect(r)
    <2>1. PICK s \in After(run[r], reply) : Become(r, s)
      BY <1>10
    <2>2. /\ s.pc \in Calling \cup {"save", "report", "done"}
          /\ s.pc \in Live => s.scan = run[r].scan
          /\ s.pc \in Calling =>
               /\ run[r].pc \in {"cancel", "upload"}
               /\ s.off = IF run[r].pc = "upload" /\ reply = "ok"
                          THEN run[r].off + BatchSize ELSE run[r].off
          /\ s.pc = "save" => run[r].pc = "complete" /\ reply = "ok"
      BY <1>1, <1>10, AfterFacts
    <2>3. run'[r] = s
      BY <1>4, <2>1
    <2>4. CASE s.pc \in {"report", "done", "abort"}
      BY <2>3, <2>4 DEF RunEffect, Loading
    <2>5. CASE s.pc = "save"
      BY <1>10, <2>2, <2>3, <2>5, PhaseFacts DEF RunEffect
    <2>6. CASE s.pc \in Loading
      <3>1. s.pc \in Calling /\ s.pc \in Live
        BY <2>6, PhaseFacts DEF Loading, Calling, Acting
      <3>2. CASE run[r].pc = "upload" /\ reply = "ok"
        BY <1>10, <2>2, <2>3, <2>6, <3>1, <3>2 DEF RunEffect
      <3>3. CASE ~(run[r].pc = "upload" /\ reply = "ok")
        BY <2>2, <2>3, <2>6, <3>1, <3>3 DEF RunEffect, Loading
      <3> QED
        BY <3>2, <3>3
    <2> QED
      BY <2>2, <2>4, <2>5, <2>6 DEF Calling, Acting, Loading
  <1>11. CASE Answered(r)
    <2>1. PICK reply \in Replies(RequestOf(run[r])) :
            \E s \in After(run[r], reply) : Become(r, s)
      BY <1>11 DEF Answered
    <2>2. /\ run[r].pc \in Acting /\ reply \in Reply
          /\ GoodRequest(RequestOf(run[r])) /\ Process(RequestOf(run[r]))
      BY <1>1, <1>11, RequestGood DEF Answered
    <2>3. ASSUME run[r].pc = "upload", reply = "ok" PROVE Takes(RequestOf(run[r]))
      <3>1. RequestOf(run[r]).op = "upload"
        BY <2>3 DEF RequestOf
      <3>2. Accepts(RequestOf(run[r]))
        BY <2>1, <2>3, <3>1 DEF Replies
      <3> QED
        BY <2>2, <3>2 DEF Process, Takes
    <2>4. ASSUME run[r].pc = "complete", reply = "ok"
          PROVE  sess'[run[r].scan].status = "ACTIVE"
      <3>1. RequestOf(run[r]).op = "complete" /\ RequestOf(run[r]).sid = run[r].scan
        BY <2>4 DEF RequestOf
      <3>2. CASE Accepts(RequestOf(run[r]))
        <4>1. Takes(RequestOf(run[r]))
          BY <2>2, <3>2 DEF Process, Takes
        <4> QED
          BY <1>1, <2>2, <3>1, <4>1, TakesEffects
      <3>3. CASE ~Accepts(RequestOf(run[r]))
        BY <2>1, <2>2, <2>4, <3>1, <3>3 DEF Replies, Process
      <3> QED
        BY <3>2, <3>3
    <2> QED
      BY <1>10, <2>1, <2>2, <2>3, <2>4
  <1>12. CASE PartlyStored(r)
    <2>1. PICK reply \in {"conflict", "error"} \cup (IF Unverified THEN {"ok"} ELSE {}) :
            \E s \in After(run[r], reply) : Become(r, s)
      BY <1>12 DEF PartlyStored
    <2>2. reply \in Reply /\ (reply = "ok" => Unverified)
      BY DEF Reply
    <2>3. run[r].pc = "upload" /\ run[r].pc \in Acting
      BY <1>12 DEF PartlyStored, Acting
    <2> QED
      BY <1>10, <2>1, <2>2, <2>3
  <1>13. CASE Failed(r) \/ AliasUnknown(r)
    <2>1. run[r].pc \in Acting /\ "error" \in Reply
      BY <1>13 DEF Failed, AliasUnknown, Acting, Reply
    <2>2. \E s \in After(run[r], "error") : Become(r, s)
      BY <1>13 DEF Failed, AliasUnknown
    <2> QED
      BY <1>10, <2>1, <2>2
  <1>14. CASE Retried(r)
    <2>1. run'[r] = [run[r] EXCEPT !.tries = @ + 1]
      BY <1>4, <1>14 DEF Retried
    <2>2. /\ run'[r].pc = run[r].pc /\ run'[r].scan = run[r].scan
          /\ run'[r].off = run[r].off
      BY <1>2, <2>1 DEF RunState
    <2>3. run[r].pc \in Loading \/ run[r].pc = "abort"
      BY <1>14 DEF Retried, Calling, Acting, Loading
    <2> QED
      BY <2>2, <2>3 DEF RunEffect, Loading
  <1>15. CASE SaveOpen(r) \/ SaveWrite(r)
    <2>1. /\ run[r].pc = "save" /\ run'[r] = Enter(run[r], "write")
          \/ run'[r] = Enter(run[r], "report")
      BY <1>4, <1>15 DEF SaveOpen, SaveWrite
    <2> QED
      BY <1>2, <2>1 DEF RunEffect, Loading, Enter, RunState
  <1>16. CASE Crash(r)
    <2>1. run'[r] = [Idle EXCEPT !.pc = "crashed"]
      BY <1>4, <1>16 DEF Crash
    <2> QED
      BY <2>1 DEF RunEffect, Loading, Idle
  <1>17. ASSUME NEW q \in Run \ {r}, Begin(q) \/ EndEarly(q) \/ Step(q) \/ Crash(q)
         PROVE  run'[r] = run[r]
    BY <1>1, <1>17 DEF Begin, Load, EndEarly, Step, Listed, ListFailed, Answered,
       AliasUnknown, PartlyStored, Failed, Retried, Surprised, SaveOpen, SaveWrite, Report, WriteFails, Crash, Become
  <1>18. CASE Late \/ UNCHANGED vars
    BY <1>3, <1>18 DEF Late, vars
  <1> QED
    BY <1>3, <1>5, <1>7, <1>8, <1>9, <1>11, <1>12, <1>13, <1>14, <1>15, <1>16, <1>17, <1>18
    DEF Next, Step, Quiescent

(* A completed session stays as it is: no request, however late, moves it.  *)
LEMMA CompletedStays ==
  ASSUME ServiceEffect, Inv0, NEW s \in Scan, Completed(s)
  PROVE  sess'[s] = sess[s]
  <1>1. CASE UNCHANGED <<sess, current>>
    BY <1>1
  <1>2. ASSUME NEW q, GoodRequest(q), Takes(q) PROVE sess'[s] = sess[s]
    BY <1>2, TakesEffects DEF Inv0, TypeOK
  <1> QED
    BY <1>1, <1>2 DEF ServiceEffect

(***************************************************************************)
(* last_run.json tells the truth.                                           *)
(***************************************************************************)

Inv1 ==
  /\ SavedMeansPublished
  /\ \A r \in Run : run[r].pc \in {"save", "write"} => Completed(run[r].scan)

LEMMA NextInv1 == Inv0 /\ Inv1 /\ [Next]_vars => Inv1'
  <1> SUFFICES ASSUME Inv0, Inv1, [Next]_vars PROVE Inv1'
    OBVIOUS
  <1>1. ServiceEffect /\ \A r \in Run : RunEffect(r)
    BY ServiceEffects, RunEffects
  <1>2. \A s \in Scan : Completed(s) => sess'[s].status = "ACTIVE"
    BY <1>1, CompletedStays DEF Completed
  <1>3. \A r \in Run : run[r].pc \in Live => run[r].scan \in Scan
    BY DEF Inv0, TypeOK, RunTypeOK
  <1>4. ASSUME NEW r \in Run, run'[r].pc \in {"save", "write"}
        PROVE  sess'[run'[r].scan].status = "ACTIVE"
    <2>1. CASE run'[r].scan = run[r].scan /\ run[r].pc \in {"save", "write"}
      <3>1. run[r].scan \in Scan /\ Completed(run[r].scan)
        BY <1>3, <2>1, PhaseFacts DEF Inv1
      <3> QED
        BY <1>2, <2>1, <3>1
    <2>2. CASE run'[r].scan = run[r].scan /\ sess'[run[r].scan].status = "ACTIVE"
      BY <2>2
    <2> QED
      BY <1>1, <1>4, <2>1, <2>2 DEF RunEffect, Loading
  <1>5. CASE lastRun' = lastRun
    <2>1. SavedMeansPublished'
      BY <1>2, <1>5 DEF Inv1, SavedMeansPublished, Completed, NoState
    <2> QED
      BY <1>4, <2>1 DEF Inv1, Completed
  <1>6. CASE lastRun' = NoState
    <2>1. SavedMeansPublished'
      BY <1>6 DEF SavedMeansPublished, NoState
    <2> QED
      BY <1>4, <2>1 DEF Inv1, Completed
  <1>7. ASSUME NEW r \in Run, SaveWrite(r) PROVE Inv1'
    <2>1. run[r].scan \in Scan /\ Completed(run[r].scan)
      BY <1>3, <1>7, PhaseFacts DEF Inv1, SaveWrite
    <2>2. lastRun' = [count |-> Count[run[r].scan], sid |-> run[r].scan]
      BY <1>7 DEF SaveWrite
    <2>3. SavedMeansPublished'
      BY <1>2, <2>1, <2>2 DEF SavedMeansPublished, Completed
    <2> QED
      BY <1>4, <2>3 DEF Inv1, Completed
  <1>8. \/ lastRun' = lastRun
        \/ lastRun' = NoState
        \/ \E r \in Run : SaveWrite(r)
    BY DEF Next, Begin, Load, EndEarly, Step, Listed, ListFailed, Answered,
       AliasUnknown, PartlyStored, Failed, Retried, Surprised, SaveOpen, Report, WriteFails, Crash, Late, Quiescent, vars
  <1> QED
    BY <1>5, <1>6, <1>7, <1>8

(* Whatever overlaps, fails, crashes or arrives late: last_run.json, when   *)
(* it can be read, names a completed session and its record count.          *)
THEOREM SavedRunIsPublished == Spec => []SavedMeansPublished
  <1>1. Init => Inv1
    BY DEF Init, Inv1, SavedMeansPublished, Idle
  <1>2. Inv1 => SavedMeansPublished
    BY DEF Inv1
  <1> QED
    BY InitInv0, NextInv0, <1>1, <1>2, NextInv1, PTL DEF Spec

(***************************************************************************)
(* Nothing of an unsound scan leaves.                                       *)
(***************************************************************************)

Inv2 ==
  /\ UnsoundNeverSent
  /\ \A q \in inflight : q.op = "upload" => Sound(q.sid)

LEMMA NextInv2 == Inv0 /\ Inv2 /\ [Next]_vars => Inv2'
  <1> SUFFICES ASSUME Inv0, Inv2, [Next]_vars PROVE Inv2'
    OBVIOUS
  <1>1. ServiceEffect
    BY ServiceEffects
  <1>2. ASSUME NEW q, NEW r \in Run, CallOf(r, q), q.op = "upload" PROVE Sound(q.sid)
    <2>1. run[r].pc = "upload" /\ LocalOK(run[r])
      BY <1>2 DEF CallOf, RequestOf, Acting, Inv0
    <2>2. q.sid = run[r].scan
      BY <1>2, <2>1 DEF CallOf, RequestOf
    <2> QED
      BY <2>1, <2>2 DEF LocalOK
  <1>3. \A q \in inflight' : q.op = "upload" => Sound(q.sid)
    BY <1>1, <1>2 DEF ServiceEffect, Inv2
  <1>4. CASE UNCHANGED <<sess, current>>
    BY <1>3, <1>4 DEF Inv2, UnsoundNeverSent, Sound
  <1>5. ASSUME NEW q, GoodRequest(q), Takes(q),
               q \in inflight \/ \E r \in Run : CallOf(r, q)
        PROVE  UnsoundNeverSent'
    <2>1. q.op = "upload" => Sound(q.sid)
      BY <1>2, <1>5 DEF Inv2
    <2>2. q.op # "upload" => sess[q.sid].status # "NONE"
      BY <1>5, TakesEffects DEF Inv0, TypeOK
    <2>3. q.sid \in Scan /\ Sound(q.sid)
      BY <1>5, <2>1, <2>2, TakesEffects DEF Inv0, TypeOK, Inv2, UnsoundNeverSent
    <2>4. \A s \in Scan : ~Sound(s) => sess'[s] = sess[s]
      BY <1>5, <2>3, TakesEffects DEF Inv0, TypeOK
    <2> QED
      BY <2>4 DEF UnsoundNeverSent, Inv2, Sound
  <1> QED
    BY <1>1, <1>3, <1>4, <1>5 DEF ServiceEffect, Inv2, Sound

(* With or without --force, whatever overlaps or arrives late: nothing of a *)
(* scan without records, without a match or with duplicate ids is stored.   *)
THEOREM UnsoundScansStayHome == Spec => []UnsoundNeverSent
  <1>1. Init => Inv2
    BY DEF Init, ServiceInit, Inv2, UnsoundNeverSent
  <1>2. Inv2 => UnsoundNeverSent
    BY DEF Inv2
  <1> QED
    BY InitInv0, NextInv0, <1>1, <1>2, NextInv2, PTL DEF Spec

(***************************************************************************)
(* A completed session is whole.                                            *)
(***************************************************************************)

Prefix(s) == {k \in RecordsOf(s.scan) : k <= s.off}

(* CompletedIsWhole is not inductive: that a complete finds every record in *)
(* the session follows from what each execution has sent so far, and for a  *)
(* delayed complete from what was there when it was sent.                   *)
Inv3 ==
  /\ CompletedIsWhole
  /\ \A r \in Run : run[r].pc \in Loading => Prefix(run[r]) \subseteq sess[run[r].scan].recs
  /\ \A q \in inflight : q.op = "complete" => sess[q.sid].recs = RecordsOf(q.sid)

LEMMA NextInv3 ==
  ASSUME ~CanceledReusable, ~Unverified
  PROVE  Inv0 /\ Inv3 /\ [Next]_vars => Inv3'
  <1> SUFFICES ASSUME Inv0, Inv3, [Next]_vars PROVE Inv3'
    OBVIOUS
  <1>1. ServiceEffect /\ \A r \in Run : RunEffect(r)
    BY ServiceEffects, RunEffects
  <1>2. /\ ServiceTypeOK /\ ServiceTypeOK'
        /\ \A r \in Run : RunTypeOK(run[r]) /\ LocalOK(run[r])
    BY NextInv0 DEF Inv0, TypeOK
  (* Without reopening, a session only ever gains records.                  *)
  <1>3. \A s \in Scan : sess[s].recs \subseteq sess'[s].recs
    <2>1. ASSUME NEW q, GoodRequest(q), Takes(q)
          PROVE  \A s \in Scan : sess[s].recs \subseteq sess'[s].recs
      BY <1>2, <2>1, TakesEffects
    <2> QED
      BY <1>1, <2>1 DEF ServiceEffect
  <1>4. \A s \in Scan : sess'[s].recs \subseteq RecordsOf(s)
    BY <1>2 DEF ServiceTypeOK, RecordsOf
  <1>5. ASSUME NEW q, NEW r \in Run, CallOf(r, q), q.op = "complete"
        PROVE  q.sid \in Scan /\ sess[q.sid].recs = RecordsOf(q.sid)
    <2>1. run[r].pc = "complete"
      BY <1>5 DEF CallOf, RequestOf, Acting
    <2>2. q.sid = run[r].scan
      BY <1>5, <2>1 DEF CallOf, RequestOf
    <2>3. run[r].scan \in Scan /\ run[r].off \in Nat /\ Count[run[r].scan] <= run[r].off
      BY <1>2, <2>1, PhaseFacts DEF RunTypeOK, RunState, LocalOK
    <2>4. Count[run[r].scan] \in Nat
      BY <2>3, ServiceAssumption
    <2>5. Prefix(run[r]) = RecordsOf(run[r].scan)
      BY <2>3, <2>4 DEF Prefix, RecordsOf
    <2>6. Prefix(run[r]) \subseteq sess[run[r].scan].recs
      BY <2>1 DEF Inv3, Loading
    <2>7. sess[run[r].scan].recs \subseteq RecordsOf(run[r].scan)
      BY <1>2, <2>3 DEF ServiceTypeOK
    <2>8. sess[run[r].scan].recs = RecordsOf(run[r].scan)
      BY <2>5, <2>6, <2>7
    <2> QED
      BY <2>2, <2>3, <2>8
  <1>6. ASSUME NEW q \in inflight' PROVE q.op = "complete" => sess'[q.sid].recs = RecordsOf(q.sid)
    <2>1. CASE q.op = "complete"
      <3>1. q.sid \in Scan
        BY <1>2 DEF ServiceTypeOK, Request
      <3>2. sess[q.sid].recs = RecordsOf(q.sid)
        BY <1>1, <1>5, <2>1 DEF ServiceEffect, Inv3
      <3> QED
        BY <1>3, <1>4, <3>1, <3>2
    <2> QED
      BY <2>1
  <1>7. CompletedIsWhole'
    <2>1. CASE UNCHANGED <<sess, current>>
      BY <2>1 DEF Inv3, CompletedIsWhole, Completed, RecordsOf
    <2>2. ASSUME NEW q, GoodRequest(q), Takes(q),
                 q \in inflight \/ \E r \in Run : CallOf(r, q),
                 NEW s \in Scan, sess'[s].status = "ACTIVE"
          PROVE  sess'[s].recs = RecordsOf(s)
      <3>1. CASE s # q.sid
        BY <1>2, <2>2, <3>1, TakesEffects DEF Inv3, CompletedIsWhole, Completed
      <3>2. CASE s = q.sid
        <4>1. q.op = "complete" /\ sess'[s].recs = sess[s].recs
          BY <1>2, <2>2, <3>2, TakesEffects
        <4> QED
          BY <1>5, <2>2, <3>2, <4>1 DEF Inv3
      <3> QED
        BY <3>1, <3>2
    <2> QED
      BY <1>1, <2>1, <2>2 DEF ServiceEffect, CompletedIsWhole, Completed, RecordsOf
  <1>8. ASSUME NEW r \in Run, run'[r].pc \in Loading
        PROVE  Prefix(run'[r]) \subseteq sess'[run'[r].scan].recs
    <2>1. CASE run[r].pc = "idle" /\ run'[r].pc = "list" /\ run'[r].off = 0
      <3>1. run'[r].scan \in Scan
        BY <2>1, NextInv0, PhaseFacts DEF Inv0, TypeOK, RunTypeOK
      <3>2. Count[run'[r].scan] \in Nat
        BY <3>1, ServiceAssumption
      <3>3. Prefix(run'[r]) = {}
        BY <2>1, <3>2 DEF Prefix, RecordsOf
      <3> QED
        BY <3>3
    <2>2. CASE /\ run'[r].scan = run[r].scan /\ run'[r].off = run[r].off
               /\ run[r].pc \in Loading
      <3>1. run[r].scan \in Scan /\ Prefix(run[r]) \subseteq sess[run[r].scan].recs
        BY <1>2, <2>2, PhaseFacts DEF Inv3, RunTypeOK, Loading
      <3>2. Prefix(run'[r]) = Prefix(run[r])
        BY <2>2 DEF Prefix
      <3> QED
        BY <1>3, <2>2, <3>1, <3>2
    <2>3. CASE /\ run[r].pc = "upload" /\ run'[r].scan = run[r].scan
               /\ run'[r].off = run[r].off + BatchSize
               /\ Takes(RequestOf(run[r]))
      <3>1. run[r].scan \in Scan /\ run[r].off \in Nat
        BY <1>2, <2>3, PhaseFacts DEF RunTypeOK, RunState
      <3>2. Prefix(run[r]) \subseteq sess[run[r].scan].recs
        BY <2>3 DEF Inv3, Loading
      <3>3. /\ RequestOf(run[r]).op = "upload" /\ RequestOf(run[r]).sid = run[r].scan
            /\ RequestOf(run[r]).recs = Batch(run[r]) /\ GoodRequest(RequestOf(run[r]))
        BY <1>2, <2>3, RequestGood DEF RequestOf, Acting
      <3>4. Batch(run[r]) \subseteq sess'[run[r].scan].recs
        BY <1>2, <2>3, <3>3, TakesEffects
      <3>5. Prefix(run'[r]) \subseteq Prefix(run[r]) \cup Batch(run[r])
        <4>1. RecordsOf(run[r].scan) \subseteq Nat
          BY <3>1, RecordsAreNat
        <4>2. \A k \in RecordsOf(run[r].scan) :
                k <= run[r].off \/ (run[r].off < k)
          BY <3>1, <4>1
        <4> QED
          BY <2>3, <4>2 DEF Prefix, Batch
      <3> QED
        BY <1>3, <2>3, <3>1, <3>2, <3>4, <3>5
    <2> QED
      BY <1>1, <1>8, <2>1, <2>2, <2>3 DEF RunEffect, Loading
  <1> QED
    BY <1>6, <1>7, <1>8 DEF Inv3, Prefix, RecordsOf

(* If a canceled session is not reopened and no rejection goes unnoticed, a *)
(* completed session holds every record of its scan, whatever executions    *)
(* overlap and whatever requests are lost, repeated or late.                *)
THEOREM CompletedSessionsAreWhole ==
  ASSUME ~CanceledReusable, ~Unverified
  PROVE  Spec => []CompletedIsWhole
  <1>1. Init => Inv3
    BY DEF Init, ServiceInit, Inv3, CompletedIsWhole, Completed, Idle, Loading
  <1>2. Inv3 => CompletedIsWhole
    BY DEF Inv3
  <1> QED
    BY InitInv0, NextInv0, <1>1, <1>2, NextInv3, PTL DEF Spec

(***************************************************************************)
(* The push implements an atomic publication.                               *)
(***************************************************************************)

Visible == [s \in Scan |-> IF Completed(s) THEN sess[s].recs ELSE {}]

LEMMA InitPublication == Init => Abstract!Init
  BY DEF Init, ServiceInit, Completed, Abstract!Init

LEMMA NextPublication ==
  Inv0 /\ Inv2 /\ CompletedIsWhole' /\ [Next]_vars
    => [Abstract!Next]_(Abstract!publicationVars)
  <1> SUFFICES ASSUME Inv0, Inv2, CompletedIsWhole', [Next]_vars
               PROVE  [Abstract!Next]_(Abstract!publicationVars)
    OBVIOUS
  <1>1. ServiceEffect /\ ServiceTypeOK
    BY ServiceEffects DEF Inv0, TypeOK
  <1>2. CASE UNCHANGED <<sess, current>>
    BY <1>2 DEF Abstract!publicationVars, Completed
  <1>3. ASSUME NEW q, GoodRequest(q), Takes(q), q.op # "complete"
        PROVE  Visible' = Visible /\ current' = current
    <2>1. /\ q.sid \in Scan /\ sess[q.sid].status # "ACTIVE" /\ sess'[q.sid].status # "ACTIVE"
          /\ \A s \in Scan : s # q.sid => sess'[s] = sess[s]
          /\ current' = current
      BY <1>1, <1>3, TakesEffects DEF Completed
    <2>2. \A s \in Scan : (IF sess'[s].status = "ACTIVE" THEN sess'[s].recs ELSE {})
                          = (IF sess[s].status = "ACTIVE" THEN sess[s].recs ELSE {})
      BY <2>1
    <2> QED
      BY <2>1, <2>2 DEF Visible, Completed
  <1>4. ASSUME NEW q, GoodRequest(q), Takes(q), q.op = "complete"
        PROVE  \E s \in {x \in Scan : Sound(x)} :
                 /\ Visible[s] = {}
                 /\ Visible' = [Visible EXCEPT ![s] = RecordsOf(s)]
                 /\ current' = s
    <2>1. /\ q.sid \in Scan /\ sess[q.sid].status = "IN_PROGRESS"
          /\ sess'[q.sid].status = "ACTIVE"
          /\ \A s \in Scan : s # q.sid => sess'[s] = sess[s]
          /\ current' = q.sid
      BY <1>1, <1>4, TakesEffects
    <2>2. sess'[q.sid].recs = RecordsOf(q.sid)
      BY <2>1 DEF CompletedIsWhole, Completed, RecordsOf
    <2>3. Sound(q.sid)
      BY <2>1 DEF Inv2, UnsoundNeverSent
    <2>4. Visible[q.sid] = {}
      BY <2>1 DEF Visible, Completed
    <2>5. \A s \in Scan : (IF sess'[s].status = "ACTIVE" THEN sess'[s].recs ELSE {})
                          = IF s = q.sid THEN RecordsOf(s)
                            ELSE IF sess[s].status = "ACTIVE" THEN sess[s].recs ELSE {}
      BY <2>1, <2>2
    <2>6. Visible' = [Visible EXCEPT ![q.sid] = RecordsOf(q.sid)]
      BY <2>1, <2>5 DEF Visible, Completed
    <2> QED
      BY <2>1, <2>3, <2>4, <2>6
  <1>5. ASSUME NEW s \in {x \in Scan : Sound(x)}, Visible[s] = {},
               Visible' = [Visible EXCEPT ![s] = RecordsOf(s)], current' = s
        PROVE  Abstract!Next
    <2>1. Abstract!Publish(s)
      BY <1>5 DEF Abstract!Publish, Visible
    <2> QED
      BY <2>1 DEF Abstract!Next
  <1>6. ASSUME Visible' = Visible, current' = current
        PROVE  UNCHANGED Abstract!publicationVars
    BY <1>6 DEF Abstract!publicationVars, Visible
  <1> QED
    BY <1>1, <1>2, <1>3, <1>4, <1>5, <1>6 DEF ServiceEffect

(* Under the assumptions of CompletedSessionsAreWhole, what Drata shows     *)
(* changes as module Publication says: whole sound scans, one at a time,    *)
(* for good.                                                                *)
THEOREM PushPublishesAtomically ==
  ASSUME ~CanceledReusable, ~Unverified
  PROVE  Spec => PublicationSpec
  <1>1. Init => Inv2 /\ Inv3
    BY DEF Init, ServiceInit, Inv2, Inv3, UnsoundNeverSent, CompletedIsWhole, Completed,
           Idle, Loading
  <1>2. Inv3 => CompletedIsWhole
    BY DEF Inv3
  <1> QED
    BY InitInv0, NextInv0, <1>1, <1>2, NextInv2, NextInv3, InitPublication, NextPublication,
       PTL
    DEF Spec, PublicationSpec, Abstract!Spec

-----------------------------------------------------------------------------
(***************************************************************************)
(* What the push promises when the lock keeps executions apart and the      *)
(* network applies no request late: a session being filled is left alone,   *)
(* the exit code that is reported is the truth, and the data set shown      *)
(* loses records for a cause only.  Module CollectorProofs shows that the   *)
(* lock does keep them apart.                                               *)
(***************************************************************************)

(***************************************************************************)
(* What an execution knows at each phase.                                   *)
(***************************************************************************)

Ready(s) ==
  /\ s.pc \in Live \ {"report"} => s.exit = 0
  /\ s.pc \in {"list", "cancel", "upload"} => s.uploads = "unattempted"
  /\ s.pc = "cancel" /\ s.scan \notin Aliased => s.target # s.scan /\ s.scan \notin s.todo

LEMMA EnterKeeps ==
  ASSUME NEW s \in RunState, NEW phase
  PROVE  /\ Enter(s, phase).pc = phase /\ Enter(s, phase).exit = s.exit
         /\ Enter(s, phase).uploads = s.uploads /\ Enter(s, phase).scan = s.scan
BY DEF Enter, RunState

LEMMA DecideReady ==
  ASSUME NEW s \in RunState, s.exit = 0, NEW result \in UploadResult
  PROVE  Ready(Decide(s, result)) /\ Decide(s, result).pc # "report"
<1> DEFINE t == [s EXCEPT !.uploads = result]
<1>1. t \in RunState /\ t.exit = 0
  BY DEF RunState
<1>2. Decide(s, result) = Enter(t, "complete") \/ Decide(s, result) = Enter(t, "abort")
  BY DEF Decide
<1> HIDE DEF t
<1>3. Decide(s, result).pc \in {"complete", "abort"} /\ Decide(s, result).exit = 0
  BY <1>1, <1>2, EnterKeeps
<1> QED
  BY <1>3 DEF Ready

LEMMA NextBatchReady ==
  ASSUME NEW s \in RunState, s.exit = 0, s.uploads = "unattempted"
  PROVE  Ready(NextBatch(s)) /\ NextBatch(s).pc # "report"
<1>1. "ok" \in UploadResult
  BY DEF UploadResult
<1>2. CASE s.off < Count[s.scan]
  <2>1. NextBatch(s) = Enter(s, "upload")
    BY <1>2 DEF NextBatch
  <2>2. NextBatch(s).pc = "upload" /\ NextBatch(s).exit = 0
        /\ NextBatch(s).uploads = "unattempted"
    BY <2>1, EnterKeeps
  <2> QED
    BY <2>2 DEF Ready
<1>3. CASE ~(s.off < Count[s.scan])
  BY <1>1, <1>3, DecideReady DEF NextBatch
<1> QED
  BY <1>2, <1>3

(* A run that reports before any upload has tried none.                     *)
EarlyReport(t) == t.pc = "report" => t.exit = 5 /\ t.uploads = "unattempted"

LEMMA AfterCleanupReady ==
  ASSUME NEW s \in RunState, s.exit = 0, s.uploads = "unattempted"
  PROVE  Ready(AfterCleanup(s)) /\ EarlyReport(AfterCleanup(s))
<1>1. s.conflict \in BOOLEAN
  BY DEF RunState
<1>2. CASE s.conflict
  <2>1. AfterCleanup(s) = Enter(s, "upload")
    BY <1>2 DEF AfterCleanup
  <2>2. AfterCleanup(s).pc = "upload" /\ AfterCleanup(s).exit = 0
        /\ AfterCleanup(s).uploads = "unattempted"
    BY <2>1, EnterKeeps
  <2> QED
    BY <2>2 DEF Ready, EarlyReport
<1>3. CASE ~s.conflict /\ ~AllGatesPassed(Gates(s))
  <2>1. AfterCleanup(s) = [Enter(s, "report") EXCEPT !.exit = 5]
    BY <1>3 DEF AfterCleanup
  <2>2. AfterCleanup(s).pc = "report" /\ AfterCleanup(s).exit = 5
        /\ AfterCleanup(s).uploads = "unattempted"
    BY <2>1 DEF Enter, RunState
  <2> QED
    BY <2>2 DEF Ready, EarlyReport
<1>4. CASE ~s.conflict /\ AllGatesPassed(Gates(s))
  <2>1. AfterCleanup(s) = NextBatch(s)
    BY <1>4 DEF AfterCleanup
  <2> QED
    BY <2>1, NextBatchReady DEF EarlyReport
<1> QED
  BY <1>1, <1>2, <1>3, <1>4

LEMMA CleaningReady ==
  ASSUME NEW s \in RunState, s.exit = 0, s.uploads = "unattempted",
         s.scan \notin Aliased => s.scan \notin s.todo,
         NEW t \in Cleaning(s)
  PROVE  Ready(t) /\ EarlyReport(t)
<1>1. CASE s.todo = {}
  BY <1>1, AfterCleanupReady DEF Cleaning
<1>2. CASE s.todo # {}
  <2>1. PICK x \in s.todo :
          t = [Enter(s, "cancel") EXCEPT !.target = x, !.todo = s.todo \ {x}]
    BY <1>2 DEF Cleaning
  <2>2. /\ t.pc = "cancel" /\ t.exit = 0 /\ t.uploads = "unattempted"
        /\ t.scan = s.scan /\ t.target = x /\ t.todo = s.todo \ {x}
    BY <2>1 DEF Enter, RunState
  <2> QED
    BY <2>2 DEF Ready, EarlyReport
<1> QED
  BY <1>1, <1>2

LEMMA AfterUploadReady ==
  ASSUME NEW s \in RunState, s.exit = 0, s.uploads = "unattempted", NEW reply \in Reply
  PROVE  Ready(AfterUpload(s, reply)) /\ AfterUpload(s, reply).pc # "report"
<1>1. s.conflict \in BOOLEAN /\ s.off \in Nat /\ "failed" \in UploadResult
  BY DEF RunState, UploadResult
<1>2. CASE reply = "ok"
  <2> DEFINE o == s.off + BatchSize
             t == [s EXCEPT !.off = o, !.conflict = FALSE]
  <2>1. o \in Nat
    BY <1>1, PushAssumption
  <2>2. AfterUpload(s, reply) = NextBatch(t)
    BY <1>2 DEF AfterUpload
  <2> HIDE DEF o
  <2>3. t \in RunState /\ t.exit = 0 /\ t.uploads = "unattempted"
    BY <2>1 DEF RunState
  <2> HIDE DEF t
  <2> QED
    BY <2>2, <2>3, NextBatchReady
<1>3. CASE reply = "conflict" /\ ~s.conflict
  <2>1. AfterUpload(s, reply) = [Enter(s, "list") EXCEPT !.conflict = TRUE]
    BY <1>3 DEF AfterUpload
  <2>2. AfterUpload(s, reply).pc = "list" /\ AfterUpload(s, reply).exit = 0
        /\ AfterUpload(s, reply).uploads = "unattempted"
    BY <2>1 DEF Enter, RunState
  <2> QED
    BY <2>2 DEF Ready
<1>4. CASE reply = "error" \/ (reply = "conflict" /\ s.conflict)
  <2>1. AfterUpload(s, reply) = Decide(s, "failed")
    BY <1>4 DEF AfterUpload
  <2> QED
    BY <1>1, <2>1, DecideReady
<1> QED
  BY <1>1, <1>2, <1>3, <1>4 DEF Reply

LEMMA AfterReady ==
  ASSUME NEW s, RunTypeOK(s), s.pc \in Acting, Ready(s), NEW reply \in Reply,
         NEW t \in After(s, reply)
  PROVE  /\ Ready(t)
         /\ t.pc = "report" =>
              /\ t.exit = 5
              /\ t.uploads = "unattempted" \/ (s.pc = "abort" /\ reply = "ok" /\ t.scan = s.scan)
<1>1. s \in RunState /\ s.exit = 0
  BY DEF RunTypeOK, Ready, Acting, Live, Calling
<1>2. CASE s.pc = "cancel"
  BY <1>1, <1>2, CleaningReady DEF After, Ready, EarlyReport
<1>3. CASE s.pc = "upload"
  BY <1>1, <1>3, AfterUploadReady DEF After, Ready
<1>4. Exit(4).pc = "done" /\ Ready(Exit(4))
  BY PhaseFacts DEF Exit, Idle, Ready
<1>5. CASE s.pc = "complete"
  <2>1. t = Enter(s, "save") \/ t = Exit(4)
    BY <1>5 DEF After, AfterComplete
  <2>2. Enter(s, "save").pc = "save" /\ Enter(s, "save").exit = 0
    BY <1>1, EnterKeeps
  <2> QED
    BY <1>4, <2>1, <2>2 DEF Ready
<1>6. CASE s.pc = "abort"
  <2>1. (t = [Enter(s, "report") EXCEPT !.exit = 5] /\ reply = "ok") \/ t = Exit(4)
    BY <1>6 DEF After, AfterAbort
  <2>2. CASE t = [Enter(s, "report") EXCEPT !.exit = 5] /\ reply = "ok"
    <3>1. t.pc = "report" /\ t.exit = 5 /\ t.scan = s.scan
      BY <1>1, <2>2 DEF Enter, RunState
    <3> QED
      BY <1>6, <2>2, <3>1 DEF Ready
  <2> QED
    BY <1>4, <2>1, <2>2
<1> QED
  BY <1>2, <1>3, <1>5, <1>6 DEF Acting

(***************************************************************************)
(* The invariant of executions kept apart: one of them is at work at most,  *)
(* no request is under way that it does not wait for, and what the two      *)
(* properties say of it holds.  Neither property is inductive alone: that   *)
(* the session of a run is left alone needs the first three conjuncts.      *)
(***************************************************************************)

Kept4(s) ==
  s.pc \in {"list", "cancel", "upload"} /\ s.off > 0 /\ s.scan \notin Aliased =>
    /\ sess[s.scan].status = "IN_PROGRESS"
    /\ Prefix(s) \subseteq sess[s.scan].recs

True4(s) ==
  s.pc = "report" =>
    \/ s.exit = 0 /\ Completed(s.scan) /\ lastRun.sid = s.scan
    \/ /\ s.exit = 5
       /\ s.uploads = "failed" => sess[s.scan].status \in {"NONE", "CANCELED"}

Inv4 ==
  /\ \A r, q \in Run : run[r].pc \in Live /\ run[q].pc \in Live => r = q
  /\ inflight = {}
  /\ \A r \in Run : Ready(run[r]) /\ Kept4(run[r]) /\ True4(run[r])

LEMMA Inv4Says == Inv4 => UploadedPrefixKept /\ ReportIsTrue
  BY DEF Inv4, Kept4, True4, Prefix, UploadedPrefixKept, Filling, ReportIsTrue

(* A step of the only execution at work need only look at that execution.   *)
LEMMA BecomeInv4 ==
  ASSUME Inv0, Inv4, NEW r \in Run, \A q \in Run \ {r} : run[q].pc \notin Live,
         NEW t, Become(r, t), Ready(t), inflight' = {},
         t.pc \in {"list", "cancel", "upload"} /\ t.off > 0 /\ t.scan \notin Aliased =>
           /\ sess'[t.scan].status = "IN_PROGRESS"
           /\ Prefix(t) \subseteq sess'[t.scan].recs,
         t.pc = "report" =>
           \/ t.exit = 0 /\ sess'[t.scan].status = "ACTIVE" /\ lastRun'.sid = t.scan
           \/ /\ t.exit = 5
              /\ t.uploads = "failed" => sess'[t.scan].status \in {"NONE", "CANCELED"}
  PROVE  Inv4'
  <1>1. run'[r] = t /\ \A q \in Run \ {r} : run'[q] = run[q]
    BY DEF Inv0, TypeOK, Become
  <1>2. \A q \in Run \ {r} : run'[q].pc \notin Live
    BY <1>1
  <1>3. \A q \in Run : Ready(run'[q])
    BY <1>1 DEF Inv4
  <1>4. ASSUME NEW q \in Run
        PROVE  /\ run'[q].pc \in {"list", "cancel", "upload"} /\ run'[q].off > 0
                    /\ run'[q].scan \notin Aliased =>
                    /\ sess'[run'[q].scan].status = "IN_PROGRESS"
                    /\ Prefix(run'[q]) \subseteq sess'[run'[q].scan].recs
               /\ run'[q].pc = "report" =>
                    \/ /\ run'[q].exit = 0 /\ sess'[run'[q].scan].status = "ACTIVE"
                       /\ lastRun'.sid = run'[q].scan
                    \/ /\ run'[q].exit = 5
                       /\ run'[q].uploads = "failed" =>
                            sess'[run'[q].scan].status \in {"NONE", "CANCELED"}
    <2>1. CASE q = r
      BY <1>1, <2>1
    <2>2. CASE q # r
      BY <1>2, <2>2, PhaseFacts
    <2> QED
      BY <2>1, <2>2
  <1>5. \A p, q \in Run : run'[p].pc \in Live /\ run'[q].pc \in Live => p = q
    BY <1>2
  <1> QED
    BY <1>3, <1>4, <1>5 DEF Inv4, Kept4, True4, Ready, Prefix, Completed, RecordsOf

(* An upload that is taken leaves its session open, with what it held if it *)
(* was open before.                                                         *)
LEMMA UploadEffects ==
  ASSUME ServiceTypeOK, NEW q, GoodRequest(q), Takes(q), q.op = "upload"
  PROVE  /\ sess'[q.sid].status = "IN_PROGRESS"
         /\ q.recs \subseteq sess'[q.sid].recs
         /\ sess[q.sid].status = "IN_PROGRESS" => sess[q.sid].recs \subseteq sess'[q.sid].recs
  <1>1. q.sid \in Scan
    BY DEF GoodRequest, Request
  <1>2. sess'[q.sid] = [status |-> "IN_PROGRESS", recs |-> Kept(q.sid) \cup q.recs]
    BY <1>1 DEF Takes, Apply, Outcome, ServiceTypeOK
  <1> QED
    BY <1>2 DEF Kept

(* A call of an execution leaves the session it is filling open and whole:  *)
(* a cancel of the cleanup is of another session, unless the run does not   *)
(* know its own by the id it is listed under.                               *)
LEMMA CallKeeps ==
  ASSUME Inv0, Inv4, NEW r \in Run, run[r].pc \in {"cancel", "upload"}, run[r].off > 0,
         run[r].scan \notin Aliased,
         \/ UNCHANGED sess
         \/ \E q : GoodRequest(q) /\ Takes(q) /\ CallOf(r, q)
  PROVE  /\ sess'[run[r].scan].status = "IN_PROGRESS"
         /\ Prefix(run[r]) \subseteq sess'[run[r].scan].recs
  <1>1. /\ sess[run[r].scan].status = "IN_PROGRESS"
        /\ Prefix(run[r]) \subseteq sess[run[r].scan].recs
    BY DEF Inv4, Kept4
  <1>2. ServiceTypeOK /\ run[r].scan \in Scan
    BY PhaseFacts DEF Inv0, TypeOK, RunTypeOK
  <1>3. ASSUME NEW q, GoodRequest(q), Takes(q), CallOf(r, q)
        PROVE  /\ sess'[run[r].scan].status = "IN_PROGRESS"
               /\ Prefix(run[r]) \subseteq sess'[run[r].scan].recs
    <2>1. CASE run[r].pc = "cancel"
      <3>1. q.sid = run[r].target /\ run[r].target # run[r].scan
        BY <1>3, <2>1 DEF CallOf, RequestOf, Inv4, Ready
      <3> QED
        BY <1>1, <1>2, <1>3, <3>1, TakesEffects
    <2>2. CASE run[r].pc = "upload"
      <3>1. q.op = "upload" /\ q.sid = run[r].scan
        BY <1>3, <2>2 DEF CallOf, RequestOf
      <3> QED
        BY <1>1, <1>2, <1>3, <3>1, UploadEffects
    <2> QED
      BY <2>1, <2>2
  <1> QED
    BY <1>1, <1>3

(* A batch that is taken makes the prefix longer by itself.                 *)
LEMMA UploadTaken ==
  ASSUME Inv0, Inv4, NEW r \in Run, run[r].pc = "upload", Takes(RequestOf(run[r])),
         NEW t, t.scan = run[r].scan, t.off = run[r].off + BatchSize
  PROVE  /\ sess'[t.scan].status = "IN_PROGRESS"
         /\ run[r].off = 0 \/ run[r].scan \notin Aliased =>
              Prefix(t) \subseteq sess'[t.scan].recs
  <1>1. /\ ServiceTypeOK /\ RunTypeOK(run[r])
        /\ run[r].scan \in Scan /\ run[r].off \in Nat
    BY PhaseFacts DEF Inv0, TypeOK, RunTypeOK, RunState
  <1>2. RecordsOf(run[r].scan) \subseteq Nat
    BY <1>1, RecordsAreNat
  <1>3. /\ RequestOf(run[r]).op = "upload" /\ RequestOf(run[r]).sid = run[r].scan
        /\ RequestOf(run[r]).recs = Batch(run[r]) /\ GoodRequest(RequestOf(run[r]))
        /\ run[r].pc \in Acting
    BY <1>1, RequestGood DEF RequestOf, Acting
  <1>4. /\ sess'[run[r].scan].status = "IN_PROGRESS"
        /\ Batch(run[r]) \subseteq sess'[run[r].scan].recs
    BY <1>1, <1>3, UploadEffects
  <1>5. CallOf(r, RequestOf(run[r]))
    BY <1>3 DEF CallOf
  <1>6. ASSUME run[r].off = 0 \/ run[r].scan \notin Aliased
        PROVE  Prefix(run[r]) \subseteq sess'[run[r].scan].recs
    <2>1. CASE run[r].off > 0
      BY <1>3, <1>5, <1>6, <2>1, CallKeeps
    <2>2. CASE run[r].off = 0
      <3>1. Count[run[r].scan] \in Nat
        BY <1>1, ServiceAssumption
      <3>2. Prefix(run[r]) = {}
        BY <2>2, <3>1 DEF Prefix, RecordsOf
      <3> QED
        BY <3>2
    <2> QED
      BY <1>1, <2>1, <2>2
  <1>7. \A k \in RecordsOf(run[r].scan) : k <= run[r].off \/ run[r].off < k
    BY <1>1, <1>2
  <1>8. Prefix(t) \subseteq Prefix(run[r]) \cup Batch(run[r])
    BY <1>7 DEF Prefix, Batch
  <1> QED
    BY <1>4, <1>6, <1>8

(* What follows the end of a call, answered or not.                         *)
LEMMA CallEndInv4 ==
  ASSUME Inv0, Inv4, NEW r \in Run, run[r].pc \in Acting,
         \A q \in Run \ {r} : run[q].pc \notin Live,
         NEW reply \in Reply, NEW t \in After(run[r], reply), Become(r, t),
         inflight' = {},
         \/ UNCHANGED sess
         \/ \E q : GoodRequest(q) /\ Takes(q) /\ CallOf(r, q),
         run[r].pc = "upload" /\ reply = "ok" => Takes(RequestOf(run[r])),
         run[r].pc = "abort" /\ reply = "ok" =>
           sess'[run[r].scan].status \in {"NONE", "CANCELED"}
  PROVE  Inv4'
  <1>1. /\ ServiceTypeOK /\ RunTypeOK(run[r]) /\ LocalOK(run[r]) /\ Ready(run[r])
        /\ run[r] \in RunState /\ run[r].scan \in Scan
    BY PhaseFacts DEF Inv0, Inv4, TypeOK, RunTypeOK, Acting
  <1>2. /\ t.pc \in Live => t.scan = run[r].scan
        /\ t.pc \in Calling =>
             /\ run[r].pc \in {"cancel", "upload"}
             /\ t.off = IF run[r].pc = "upload" /\ reply = "ok" THEN run[r].off + BatchSize
                                                                ELSE run[r].off
    BY <1>1, AfterFacts
  <1>3. /\ Ready(t)
        /\ t.pc = "report" =>
             /\ t.exit = 5
             /\ \/ t.uploads = "unattempted"
                \/ run[r].pc = "abort" /\ reply = "ok" /\ t.scan = run[r].scan
    BY <1>1, AfterReady
  <1>4. ASSUME t.pc \in {"list", "cancel", "upload"}, t.off > 0, t.scan \notin Aliased
        PROVE  /\ sess'[t.scan].status = "IN_PROGRESS"
               /\ Prefix(t) \subseteq sess'[t.scan].recs
    <2>1. t.pc \in Calling /\ t.scan = run[r].scan /\ run[r].pc \in {"cancel", "upload"}
      BY <1>2, <1>4, PhaseFacts DEF Calling, Acting
    <2>2. CASE t.off = run[r].off
      <3>1. Prefix(t) = Prefix(run[r])
        BY <2>1, <2>2 DEF Prefix
      <3> QED
        BY <1>4, <2>1, <2>2, <3>1, CallKeeps
    <2>3. CASE /\ run[r].pc = "upload" /\ reply = "ok"
               /\ t.off = run[r].off + BatchSize
      BY <1>4, <2>1, <2>3, UploadTaken
    <2> QED
      BY <1>2, <2>1, <2>2, <2>3
  <1>5. ASSUME t.pc = "report", t.uploads = "failed"
        PROVE  sess'[t.scan].status \in {"NONE", "CANCELED"}
    BY <1>3, <1>5
  <1> QED
    BY <1>3, <1>4, <1>5, BecomeInv4

(* One step per action.  An action needs the execution to be at work, so no *)
(* other one is; Begin needs the lock.                                      *)
LEMMA NextInv4 ==
  ASSUME Serial, ~Delayed, ~Unverified
  PROVE  Inv0 /\ Inv1 /\ Inv4 /\ [Next]_vars => Inv4'
  <1> SUFFICES ASSUME Inv0, Inv1, Inv4, [Next]_vars PROVE Inv4'
    OBVIOUS
  <1>1. /\ ServiceTypeOK /\ DOMAIN run = Run /\ inflight = {}
        /\ \A r \in Run : RunTypeOK(run[r]) /\ LocalOK(run[r]) /\ Ready(run[r])
    BY DEF Inv0, Inv4, TypeOK
  <1>2. ASSUME NEW r \in Run, run[r].pc \in Live
        PROVE  /\ \A q \in Run \ {r} : run[q].pc \notin Live
               /\ run[r] \in RunState /\ run[r].scan \in Scan
    BY <1>1, <1>2 DEF Inv4, RunTypeOK
  <1>3. Acting \subseteq Live /\ Calling \subseteq Live /\ Writing \subseteq Live
    BY DEF Live, Calling
  <1>4. ASSUME NEW q, Unanswered(q) PROVE inflight' = {} /\ (UNCHANGED sess \/ Takes(q))
    BY <1>1, <1>4 DEF Unanswered, Process, Takes, serviceVars
  <1>5. ASSUME NEW r \in Run, Begin(r) PROVE Inv4'
    <2>1. PICK s \in Scan, f \in Forces, base \in Loaded(r) :
            Become(r, [Idle EXCEPT !.pc = "list", !.scan = s, !.force = f, !.base = base])
      BY <1>5 DEF Begin, Load
    <2> DEFINE t == [Idle EXCEPT !.pc = "list", !.scan = s, !.force = f, !.base = base]
    <2>2. /\ t.pc = "list" /\ t.off = 0 /\ t.exit = 0 /\ t.uploads = "unattempted"
      BY DEF Idle
    <2> HIDE DEF t
    <2>3. Become(r, t)
      BY <2>1 DEF t
    <2>4. \A q \in Run : run[q].pc \notin Live
      BY <1>5 DEF Begin
    <2>5. inflight' = {}
      BY <1>1, <1>5 DEF Begin, Load
    <2>6. Ready(t)
      BY <2>2 DEF Ready
    <2> QED
      BY <2>2, <2>3, <2>4, <2>5, <2>6, BecomeInv4
  (* Ends, killed or not, and writes that fail leave nothing to look at.    *)
  <1>6. ASSUME NEW r \in Run, NEW t, t.pc \in {"done", "crashed"}, Become(r, t),
               inflight' = {}, run[r].pc \in Live
        PROVE  Inv4'
    <2>1. Ready(t)
      BY <1>6, PhaseFacts DEF Ready
    <2> QED
      BY <1>2, <1>6, <2>1, BecomeInv4
  <1>7. ASSUME NEW r \in Run, EndEarly(r) PROVE Inv4'
    <2>1. PICK code \in 0..3 : Become(r, Exit(code))
      BY <1>7 DEF EndEarly
    <2>2. Exit(code).pc = "done"
      BY DEF Exit, Idle
    <2>3. run'[r].pc = "done" /\ \A q \in Run \ {r} : run'[q] = run[q]
      BY <1>1, <2>1, <2>2 DEF Become
    <2>4. \A p, q \in Run : run'[p].pc \in Live /\ run'[q].pc \in Live => p = q
      BY <2>3, PhaseFacts DEF Inv4
    <2>5. UNCHANGED <<sess, inflight, lastRun>>
      BY <1>7 DEF EndEarly
    <2>6. \A q \in Run \ {r} : Ready(run'[q]) /\ Kept4(run[q]) /\ True4(run[q])
      BY <2>3 DEF Inv4
    <2>7. Ready(run'[r])
      BY <2>3, PhaseFacts DEF Ready
    <2> QED
      BY <1>1, <2>3, <2>4, <2>5, <2>6, <2>7
      DEF Inv4, Kept4, True4, Ready, Prefix, Completed, RecordsOf
  <1>8. ASSUME NEW r \in Run, Report(r) \/ WriteFails(r) \/ Surprised(r) \/ Crash(r)
        PROVE  Inv4'
    <2>1. run[r].pc \in Live
      BY <1>3, <1>8 DEF Report, WriteFails, Surprised, Crash, Writing
    <2>2. inflight' = {}
      BY <1>1, <1>4, <1>8 DEF Report, WriteFails, Surprised, Crash, serviceVars
    <2>3. \E t : t.pc \in {"done", "crashed"} /\ Become(r, t)
      <3>1. \A code : Exit(code).pc = "done"
        BY DEF Exit, Idle
      <3>2. [Idle EXCEPT !.pc = "crashed"].pc = "crashed"
        BY DEF Idle
      <3>3. CASE Report(r) \/ WriteFails(r) \/ Surprised(r)
        <4>1. \E code : Become(r, Exit(code))
          BY <3>3 DEF Report, WriteFails, Surprised
        <4> QED
          BY <3>1, <4>1
      <3>4. CASE Crash(r)
        <4> DEFINE c == [Idle EXCEPT !.pc = "crashed"]
        <4>1. Become(r, c) /\ c.pc = "crashed"
          BY <3>2, <3>4 DEF Crash
        <4> HIDE DEF c
        <4> QED
          BY <4>1
      <3> QED
        BY <1>8, <3>3, <3>4
    <2> QED
      BY <1>6, <2>1, <2>2, <2>3
  (* The cleanup, from a listing or from one that failed.                   *)
  <1>9. ASSUME NEW r \in Run, run[r].pc = "list", NEW u, RunTypeOK(u), LocalOK(u),
               u.pc = "list", u.scan = run[r].scan, u.off = run[r].off, u.exit = 0,
               u.uploads = "unattempted", u.scan \notin Aliased => u.scan \notin u.todo,
               NEW t \in Cleaning(u), Become(r, t), UNCHANGED <<sess, inflight, lastRun>>
        PROVE  Inv4'
    <2>1. t.scan = run[r].scan /\ t.off = run[r].off
      BY <1>9, CleaningFacts
    <2>2. Ready(t) /\ EarlyReport(t)
      BY <1>9, CleaningReady DEF RunTypeOK
    <2>3. run[r].off > 0 /\ run[r].scan \notin Aliased =>
            /\ sess[run[r].scan].status = "IN_PROGRESS"
            /\ Prefix(run[r]) \subseteq sess[run[r].scan].recs
      BY <1>9 DEF Inv4, Kept4
    <2>4. Prefix(t) = Prefix(run[r])
      BY <2>1 DEF Prefix
    <2>5. \A q \in Run \ {r} : run[q].pc \notin Live
      BY <1>2, <1>9, PhaseFacts
    <2> QED
      BY <1>1, <1>9, <2>1, <2>2, <2>3, <2>4, <2>5, BecomeInv4 DEF EarlyReport
  <1>10. ASSUME NEW r \in Run, Listed(r) PROVE Inv4'
    <2>1. PICK entries \in Listings :
            \E s \in Cleaning([run[r] EXCEPT !.todo = CleanupTargets(entries, run[r].scan)]) :
              Become(r, s)
      BY <1>10 DEF Listed
    <2> DEFINE u == [run[r] EXCEPT !.todo = CleanupTargets(entries, run[r].scan)]
    <2>2. PICK s \in Cleaning(u) : Become(r, s)
      BY <2>1
    <2>4. run[r].pc = "list" /\ run[r] \in RunState /\ run[r].scan \in Scan
          /\ run[r].tries < MaxRetries
      BY <1>1, <1>2, <1>10, PhaseFacts DEF Listed, RunTypeOK
    <2>3. /\ CleanupTargets(entries, run[r].scan) \subseteq Scan
          /\ run[r].scan \notin Aliased => run[r].scan \notin CleanupTargets(entries, run[r].scan)
      BY <2>4, TargetsFacts
    <2>5. /\ u \in RunState /\ u.pc = "list" /\ u.scan = run[r].scan
          /\ u.tries = run[r].tries /\ u.conflict = run[r].conflict /\ u.off = run[r].off
          /\ u.exit = run[r].exit /\ u.uploads = run[r].uploads
          /\ u.scan \notin Aliased => u.scan \notin u.todo
      BY <2>3, <2>4 DEF RunState
    <2>6. RunTypeOK(u) /\ LocalOK(u)
      BY <1>1, <2>4, <2>5 DEF RunTypeOK, LocalOK, AtBatch
    <2>7. run[r].exit = 0 /\ run[r].uploads = "unattempted"
      BY <1>1, <2>4, PhaseFacts DEF Ready
    <2> HIDE DEF u
    <2>8. UNCHANGED <<sess, inflight, lastRun>>
      BY <1>10 DEF Listed
    <2> QED
      BY <1>9, <2>2, <2>4, <2>5, <2>6, <2>7, <2>8
  <1>11. ASSUME NEW r \in Run, ListFailed(r) PROVE Inv4'
    <2> DEFINE t == AfterCleanup(run[r])
    <2>1. /\ run[r].pc = "list" /\ Become(r, t) /\ UNCHANGED <<sess, inflight, lastRun>>
      BY <1>11 DEF ListFailed
    <2>2. run[r].exit = 0 /\ run[r].uploads = "unattempted" /\ run[r] \in RunState
      BY <1>1, <1>2, <2>1, PhaseFacts DEF Ready
    <2>3. Ready(t) /\ EarlyReport(t)
      BY <2>2, AfterCleanupReady
    <2>4. t.scan = run[r].scan /\ t.off = run[r].off
      BY <1>1, <2>1, AfterCleanupFacts
    <2> HIDE DEF t
    <2>5. Prefix(t) = Prefix(run[r])
      BY <2>4 DEF Prefix
    <2>6. run[r].off > 0 /\ run[r].scan \notin Aliased =>
            /\ sess[run[r].scan].status = "IN_PROGRESS"
            /\ Prefix(run[r]) \subseteq sess[run[r].scan].recs
      BY <2>1 DEF Inv4, Kept4
    <2>7. \A q \in Run \ {r} : run[q].pc \notin Live
      BY <1>2, <2>1, PhaseFacts
    <2> QED
      BY <1>1, <2>1, <2>3, <2>4, <2>5, <2>6, <2>7, BecomeInv4 DEF EarlyReport
  <1>12. ASSUME NEW r \in Run, Answered(r) PROVE Inv4'
    <2> DEFINE q == RequestOf(run[r])
    <2>1. PICK reply \in Replies(q) : \E s \in After(run[r], reply) : Become(r, s)
      BY <1>12 DEF Answered
    <2>2. /\ run[r].pc \in Acting /\ reply \in Reply /\ GoodRequest(q) /\ CallOf(r, q)
          /\ Process(q) /\ UNCHANGED <<inflight, lastRun>>
      BY <1>1, <1>12, RequestGood DEF Answered, CallOf
    <2>3. PICK t \in After(run[r], reply) : Become(r, t)
      BY <2>1
    <2>4. run[r].scan \in Scan /\ \A p \in Run \ {r} : run[p].pc \notin Live
      BY <1>2, <1>3, <2>2
    <2>5. ASSUME run[r].pc = "upload", reply = "ok" PROVE Takes(q)
      <3>1. q.op = "upload"
        BY <2>5 DEF RequestOf
      <3>2. Accepts(q)
        BY <2>1, <2>5, <3>1 DEF Replies
      <3> QED
        BY <2>2, <3>2 DEF Process, Takes
    <2>6. ASSUME run[r].pc = "abort", reply = "ok"
          PROVE  sess'[run[r].scan].status \in {"NONE", "CANCELED"}
      <3>1. q.op = "cancel" /\ q.sid = run[r].scan
        BY <2>6 DEF RequestOf
      <3>2. CASE Accepts(q)
        <4>1. Apply(q)
          BY <2>2, <3>2 DEF Process
        <4>2. sess' = [sess EXCEPT ![q.sid] = Outcome(q)]
          BY <4>1 DEF Apply
        <4>3. Outcome(q).status = "CANCELED"
          BY <3>1 DEF Outcome
        <4> HIDE DEF q
        <4> QED
          BY <1>1, <2>4, <3>1, <4>2, <4>3 DEF ServiceTypeOK
      <3>3. CASE ~Accepts(q)
        <4>1. sess' = sess
          BY <2>2, <3>3 DEF Process
        <4>2. sess[q.sid].status # "ACTIVE"
          BY <2>1, <2>6, <3>1, <3>3 DEF Replies
        <4>3. sess[q.sid].status # "IN_PROGRESS"
          BY <3>1, <3>3 DEF Accepts
        <4>4. sess[run[r].scan].status \in SessionStatus
          BY <1>1, <2>4 DEF ServiceTypeOK
        <4> HIDE DEF q
        <4> QED
          BY <3>1, <4>1, <4>2, <4>3, <4>4 DEF SessionStatus
      <3> QED
        BY <3>2, <3>3
    <2>7. UNCHANGED sess \/ Takes(q)
      BY <2>2 DEF Process, Takes
    <2>8. inflight' = {}
      BY <1>1, <2>2
    <2> QED
      BY <2>2, <2>3, <2>4, <2>5, <2>6, <2>7, <2>8, CallEndInv4
  <1>13. ASSUME NEW r \in Run, PartlyStored(r) PROVE Inv4'
    <2>1. run[r].pc = "upload" /\ run[r].pc \in Acting /\ GoodRequest(RequestOf(run[r]))
      BY <1>1, <1>13, RequestGood DEF PartlyStored, Acting
    <2>2. PICK part \in SUBSET Batch(run[r]) :
            Apply([RequestOf(run[r]) EXCEPT !.recs = part])
      BY <1>13 DEF PartlyStored
    <2>3. PICK reply \in {"conflict", "error"} : \E s \in After(run[r], reply) : Become(r, s)
      BY <1>13 DEF PartlyStored
    <2>4. PICK t \in After(run[r], reply) : Become(r, t)
      BY <2>3
    <2> DEFINE p == [RequestOf(run[r]) EXCEPT !.recs = part]
    <2>5. RequestOf(run[r]).recs = Batch(run[r])
      BY <2>1 DEF RequestOf
    <2>6. /\ GoodRequest(p) /\ p.op = RequestOf(run[r]).op
          /\ p.sid = RequestOf(run[r]).sid /\ p.recs = part
      BY <2>1, <2>5 DEF GoodRequest, Request
    <2> HIDE DEF p
    <2>7. Takes(p)
      BY <1>13, <2>2, <2>6 DEF PartlyStored, Accepts, Takes, p
    <2>8. CallOf(r, p)
      BY <2>1, <2>5, <2>6 DEF CallOf
    <2>9. reply \in Reply /\ reply # "ok" /\ inflight' = {}
      BY <1>1, <1>13 DEF Reply, PartlyStored
    <2>10. \A q \in Run \ {r} : run[q].pc \notin Live
      BY <1>2, <1>3, <2>1
    <2> QED
      BY <2>1, <2>4, <2>6, <2>7, <2>8, <2>9, <2>10, CallEndInv4
  <1>14. ASSUME NEW r \in Run, Failed(r) PROVE Inv4'
    <2> DEFINE q == RequestOf(run[r])
    <2>1. run[r].pc \in Acting /\ Unanswered(q) /\ GoodRequest(q) /\ CallOf(r, q)
      BY <1>1, <1>14, RequestGood DEF Failed, CallOf
    <2>2. PICK t \in After(run[r], "error") : Become(r, t)
      BY <1>14 DEF Failed
    <2>3. "error" \in Reply /\ \A p \in Run \ {r} : run[p].pc \notin Live
      BY <1>2, <1>3, <2>1 DEF Reply
    <2> HIDE DEF q
    <2>4. inflight' = {} /\ (UNCHANGED sess \/ Takes(q))
      BY <1>4, <2>1
    <2> QED
      BY <2>1, <2>2, <2>3, <2>4, CallEndInv4
  <1>15. ASSUME NEW r \in Run, Retried(r) PROVE Inv4'
    <2> DEFINE t == [run[r] EXCEPT !.tries = @ + 1]
    <2>1. run[r].pc \in Calling /\ run[r].pc \in Live /\ Become(r, t) /\ lastRun' = lastRun
      BY <1>3, <1>15 DEF Retried
    <2>2. run[r] \in RunState /\ run[r].scan \in Scan
          /\ \A q \in Run \ {r} : run[q].pc \notin Live
      BY <1>2, <2>1
    <2>3. /\ t.pc = run[r].pc /\ t.scan = run[r].scan /\ t.off = run[r].off
          /\ t.exit = run[r].exit /\ t.uploads = run[r].uploads
          /\ t.target = run[r].target /\ t.todo = run[r].todo
      BY <2>2 DEF RunState
    <2> HIDE DEF t
    <2>4. Ready(t) /\ Prefix(t) = Prefix(run[r]) /\ t.pc # "report"
      BY <1>1, <2>1, <2>3, PhaseFacts DEF Ready, Prefix, Calling, Acting
    <2>5. /\ inflight' = {}
          /\ \/ UNCHANGED sess
             \/ \E q : GoodRequest(q) /\ Takes(q) /\ CallOf(r, q) /\ run[r].pc # "list"
      <3>1. CASE run[r].pc = "list"
        BY <1>1, <1>15, <3>1 DEF Retried, serviceVars
      <3>2. CASE run[r].pc # "list"
        <4> DEFINE q == RequestOf(run[r])
        <4>1. run[r].pc \in Acting /\ Unanswered(q)
          BY <1>15, <3>2 DEF Retried, Calling
        <4>2. GoodRequest(q) /\ CallOf(r, q)
          BY <1>1, <4>1, RequestGood DEF CallOf
        <4> HIDE DEF q
        <4>3. inflight' = {} /\ (UNCHANGED sess \/ Takes(q))
          BY <1>4, <4>1
        <4> QED
          BY <3>2, <4>2, <4>3
      <3> QED
        BY <3>1, <3>2
    <2>6. ASSUME t.pc \in {"list", "cancel", "upload"}, t.off > 0, t.scan \notin Aliased
          PROVE  /\ sess'[t.scan].status = "IN_PROGRESS"
                 /\ Prefix(t) \subseteq sess'[t.scan].recs
      <3>1. CASE run[r].pc = "list"
        <4>1. sess' = sess
          BY <1>15, <3>1 DEF Retried, serviceVars
        <4> QED
          BY <2>3, <2>4, <2>6, <3>1, <4>1 DEF Inv4, Kept4
      <3>2. CASE run[r].pc \in {"cancel", "upload"}
        BY <2>3, <2>4, <2>5, <2>6, <3>2, CallKeeps
      <3> QED
        BY <2>3, <2>6, <3>1, <3>2
    <2> QED
      BY <2>1, <2>2, <2>4, <2>5, <2>6, BecomeInv4
  <1>16. ASSUME NEW r \in Run, SaveOpen(r) PROVE Inv4'
    <2> DEFINE t == Enter(run[r], "write")
    <2>1. run[r].pc = "save" /\ Become(r, t) /\ inflight' = {}
      BY <1>1, <1>16 DEF SaveOpen, serviceVars
    <2>2. run[r] \in RunState /\ \A q \in Run \ {r} : run[q].pc \notin Live
      BY <1>2, <2>1, PhaseFacts
    <2>3. t.pc = "write" /\ t.exit = run[r].exit
      BY <2>2, EnterKeeps
    <2>4. Ready(t)
      BY <1>1, <2>1, <2>3, PhaseFacts DEF Ready
    <2> HIDE DEF t
    <2> QED
      BY <2>1, <2>2, <2>3, <2>4, BecomeInv4
  <1>17. ASSUME NEW r \in Run, SaveWrite(r) PROVE Inv4'
    <2> DEFINE t == Enter(run[r], "report")
    <2>1. /\ run[r].pc = "write" /\ Become(r, t) /\ inflight' = {} /\ sess' = sess
          /\ lastRun'.sid = run[r].scan
      BY <1>1, <1>17 DEF SaveWrite, serviceVars
    <2>2. run[r] \in RunState /\ \A q \in Run \ {r} : run[q].pc \notin Live
      BY <1>2, <2>1, PhaseFacts
    <2>3. t.pc = "report" /\ t.exit = run[r].exit /\ t.scan = run[r].scan
      BY <2>2, EnterKeeps
    <2>4. t.exit = 0 /\ Ready(t)
      BY <1>1, <2>1, <2>3, PhaseFacts DEF Ready
    <2>5. sess[run[r].scan].status = "ACTIVE"
      BY <2>1 DEF Inv1, Completed
    <2> HIDE DEF t
    <2> QED
      BY <2>1, <2>2, <2>3, <2>4, <2>5, BecomeInv4
  <1>18. CASE Late
    BY <1>1, <1>18 DEF Late, Deliver
  <1>19. CASE UNCHANGED vars
    BY <1>19 DEF vars, Inv4, Kept4, True4, Ready, Prefix, Completed, RecordsOf
  <1>20. ASSUME NEW r \in Run, AliasUnknown(r) PROVE Inv4'
    <2>1. run[r].pc = "cancel" /\ run[r].pc \in Acting
      BY <1>20 DEF AliasUnknown, Acting
    <2>2. PICK t \in After(run[r], "error") : Become(r, t)
      BY <1>20 DEF AliasUnknown
    <2>3. "error" \in Reply /\ \A p \in Run \ {r} : run[p].pc \notin Live
      BY <1>2, <1>3, <2>1 DEF Reply
    <2>4. inflight' = {} /\ UNCHANGED sess
      BY <1>1, <1>20 DEF AliasUnknown
    <2> QED
      BY <2>1, <2>2, <2>3, <2>4, CallEndInv4
  <1> QED
    BY <1>5, <1>7, <1>8, <1>10, <1>11, <1>12, <1>13, <1>14, <1>15, <1>16, <1>17, <1>18,
       <1>19, <1>20 DEF Next, Step, Quiescent

LEMMA InitInv4 == Init => Inv4
  <1>1. \A r \in Run : Init => run[r] = Idle
    BY DEF Init
  <1>2. Idle.pc = "idle" /\ Idle.pc \notin Live
    BY PhaseFacts DEF Idle
  <1> QED
    BY <1>1, <1>2, PhaseFacts DEF Init, ServiceInit, Inv4, Kept4, True4, Ready

LEMMA SerialInvariant ==
  ASSUME Serial, ~Delayed, ~Unverified
  PROVE  Spec => []Inv4
  <1>1. Init => Inv1
    BY DEF Init, Inv1, SavedMeansPublished, Idle
  <1> QED
    BY InitInv0, NextInv0, <1>1, NextInv1, InitInv4, NextInv4, PTL DEF Spec

(* Executions kept apart by the lock, over a network that applies no        *)
(* request late, with no rejection overlooked: the session a run is filling *)
(* stays open and keeps every batch counted as sent, if listings show it by *)
(* its sessionId, whichever others they show by another id (the cleanup     *)
(* spares the session whose listed id is the run's own; cli.py,             *)
(* _cancel_other_sessions).                                                 *)
THEOREM UploadsAreKept ==
  ASSUME Serial, ~Delayed, ~Unverified
  PROVE  Spec => []UploadedPrefixKept
  <1>1. Inv4 => UploadedPrefixKept
    BY Inv4Says
  <1> QED
    BY <1>1, SerialInvariant, PTL

(* Under the same assumptions, the exit code a run is about to report is    *)
(* the truth about its session and last_run.json.                           *)
THEOREM ReportsAreTrue ==
  ASSUME Serial, ~Delayed, ~Unverified
  PROVE  Spec => []ReportIsTrue
  <1>1. Inv4 => ReportIsTrue
    BY Inv4Says
  <1> QED
    BY <1>1, SerialInvariant, PTL

(***************************************************************************)
(* A completed session is whole also where a canceled one may be reopened:  *)
(* among executions kept apart nobody else reopens, cancels or completes.   *)
(***************************************************************************)

Inv5 ==
  /\ CompletedIsWhole
  /\ \A r \in Run : run[r].pc = "complete" => Prefix(run[r]) \subseteq sess[run[r].scan].recs

(* The service takes the one call of the one execution at work, or none.    *)
LEMMA OneCallOnly ==
  ASSUME Inv0, Inv4, [Next]_vars
  PROVE  UNCHANGED sess \/ \E q : \E r \in Run : GoodRequest(q) /\ Takes(q) /\ CallOf(r, q)
  BY ServiceEffects DEF ServiceEffect, Inv4

LEMMA NextInv5 ==
  ASSUME ~Unverified, AliasedFitOneBatch
  PROVE  Inv0 /\ Inv4 /\ Inv5 /\ [Next]_vars => Inv5'
  <1> SUFFICES ASSUME Inv0, Inv4, Inv5, [Next]_vars PROVE Inv5'
    OBVIOUS
  <1>1. /\ ServiceTypeOK /\ ServiceTypeOK'
        /\ \A r \in Run : RunTypeOK(run[r]) /\ LocalOK(run[r]) /\ RunEffect(r)
        /\ \A r \in Run : LocalOK(run'[r])
    BY NextInv0, RunEffects DEF Inv0, TypeOK
  <1>2. UNCHANGED sess \/ \E q : \E r \in Run : GoodRequest(q) /\ Takes(q) /\ CallOf(r, q)
    BY OneCallOnly
  <1>3. ASSUME NEW r \in Run, run[r].pc \in Live
        PROVE  \/ UNCHANGED sess
               \/ \E q : GoodRequest(q) /\ Takes(q) /\ CallOf(r, q)
    <2>1. ASSUME NEW q, NEW p \in Run, GoodRequest(q), Takes(q), CallOf(p, q)
          PROVE  CallOf(r, q)
      <3>1. run[p].pc \in Live
        BY <2>1 DEF CallOf, Live, Calling
      <3>2. p = r
        BY <1>3, <3>1 DEF Inv4
      <3> QED
        BY <2>1, <3>2
    <2> QED
      BY <1>2, <2>1
  <1>4. CompletedIsWhole'
    <2>1. CASE UNCHANGED sess
      BY <2>1 DEF Inv5, CompletedIsWhole, Completed, RecordsOf
    <2>2. ASSUME NEW q, NEW r \in Run, GoodRequest(q), Takes(q), CallOf(r, q),
                 NEW s \in Scan, sess'[s].status = "ACTIVE"
          PROVE  sess'[s].recs = RecordsOf(s)
      <3>1. CASE s # q.sid
        BY <1>1, <2>2, <3>1, TakesEffects DEF Inv5, CompletedIsWhole, Completed
      <3>2. CASE s = q.sid
        <4>1. q.op = "complete" /\ sess'[s].recs = sess[s].recs
          BY <1>1, <2>2, <3>2, TakesEffects
        <4>2. run[r].pc = "complete"
          BY <2>2, <4>1 DEF CallOf, RequestOf, Acting
        <4>3. s = run[r].scan
          BY <2>2, <3>2, <4>2 DEF CallOf, RequestOf
        <4>4. run[r].off \in Nat /\ Count[run[r].scan] <= run[r].off
          BY <1>1, <4>2 DEF RunTypeOK, RunState, LocalOK
        <4>5. Count[run[r].scan] \in Nat
          BY <4>3, ServiceAssumption
        <4>6. Prefix(run[r]) = RecordsOf(run[r].scan)
          BY <4>4, <4>5 DEF Prefix, RecordsOf
        <4>7. RecordsOf(s) \subseteq sess'[s].recs
          BY <4>1, <4>2, <4>3, <4>6 DEF Inv5
        <4>8. sess'[s].recs \subseteq RecordsOf(s)
          BY <1>1 DEF ServiceTypeOK, RecordsOf
        <4> QED
          BY <4>7, <4>8
      <3> QED
        BY <3>1, <3>2
    <2> QED
      BY <1>2, <2>1, <2>2 DEF CompletedIsWhole, Completed, RecordsOf
  <1>5. ASSUME NEW r \in Run, run'[r].pc = "complete"
        PROVE  Prefix(run'[r]) \subseteq sess'[run'[r].scan].recs
    <2>1. CASE /\ run'[r].scan = run[r].scan /\ run'[r].off = run[r].off
               /\ run[r].pc \in Loading
      <3>1. Prefix(run'[r]) = Prefix(run[r]) /\ run[r].pc \in Live /\ run[r].scan \in Scan
        BY <1>1, <2>1, PhaseFacts DEF Prefix, Loading, RunTypeOK
      <3>2. CASE run[r].pc = "complete"
        <4>1. ASSUME NEW q, GoodRequest(q), Takes(q), CallOf(r, q)
              PROVE  sess'[run[r].scan].recs = sess[run[r].scan].recs
          <5>1. q.op = "complete" /\ q.sid = run[r].scan
            BY <3>2, <4>1 DEF CallOf, RequestOf
          <5> QED
            BY <1>1, <4>1, <5>1, TakesEffects
        <4>2. sess'[run[r].scan].recs = sess[run[r].scan].recs
          BY <1>3, <3>1, <4>1
        <4> QED
          BY <2>1, <3>1, <3>2, <4>2 DEF Inv5
      (* Not past the last record yet, and already asking to complete.      *)
      <3>3. CASE run[r].pc \in {"list", "cancel", "upload"}
        <4>1. Count[run[r].scan] \in Nat /\ run[r].off \in Nat
          BY <1>1, <3>1, ServiceAssumption DEF RunTypeOK, RunState
        <4>2. run[r].off = 0 \/ run[r].off < Count[run[r].scan]
          BY <1>1, <3>3 DEF LocalOK, AtBatch
        <4>3. Count[run[r].scan] <= run[r].off
          BY <1>1, <1>5, <2>1 DEF LocalOK
        <4>4. Prefix(run[r]) = {}
          BY <4>1, <4>2, <4>3 DEF Prefix, RecordsOf
        <4> QED
          BY <3>1, <4>4
      <3> QED
        BY <2>1, <3>2, <3>3 DEF Loading
    <2>2. CASE /\ run[r].pc = "upload" /\ run'[r].scan = run[r].scan
               /\ run'[r].off = run[r].off + BatchSize
               /\ Takes(RequestOf(run[r]))
      <3>1. run[r].scan \in Scan /\ run[r].off \in Nat /\ Count[run[r].scan] \in Nat
        BY <1>1, <2>2, PhaseFacts, ServiceAssumption DEF RunTypeOK, RunState
      <3>2. run[r].off = 0 \/ (BatchSize <= run[r].off /\ run[r].off < Count[run[r].scan])
        BY <1>1, <2>2 DEF LocalOK, AtBatch
      <3>3. run[r].scan \in Aliased => run[r].off = 0
        BY <3>1, <3>2, PushAssumption DEF AliasedFitOneBatch
      <3> QED
        BY <2>2, <3>3, UploadTaken
    <2> QED
      BY <1>1, <1>5, <2>1, <2>2 DEF RunEffect, Loading
  <1> QED
    BY <1>4, <1>5 DEF Inv5, Prefix, RecordsOf

(* Executions kept apart by the lock, over a network that applies no        *)
(* request late, with no rejection overlooked: a completed session holds    *)
(* every record of its scan, whether or not a canceled session may be       *)
(* opened again, if a scan of several batches is listed by its sessionId.   *)
(* Without that last condition it is false: see AliasedFitOneBatch.         *)
THEOREM SerialSessionsAreWhole ==
  ASSUME Serial, ~Delayed, ~Unverified, AliasedFitOneBatch
  PROVE  Spec => []CompletedIsWhole
  <1>1. Init => Inv5
    BY DEF Init, ServiceInit, Inv5, CompletedIsWhole, Completed, Idle
  <1>2. Inv5 => CompletedIsWhole
    BY DEF Inv5
  <1> QED
    BY InitInv0, NextInv0, SerialInvariant, <1>1, <1>2, NextInv5, PTL DEF Spec

(* Under the same assumptions the push publishes atomically, as module      *)
(* Publication says, also where a canceled session may be opened again.     *)
THEOREM SerialPushPublishesAtomically ==
  ASSUME Serial, ~Delayed, ~Unverified, AliasedFitOneBatch
  PROVE  Spec => PublicationSpec
  <1>1. Init => Inv2
    BY DEF Init, ServiceInit, Inv2, UnsoundNeverSent
  <1> QED
    BY InitInv0, NextInv0, <1>1, NextInv2, SerialSessionsAreWhole, InitPublication,
       NextPublication, PTL
    DEF Spec, PublicationSpec, Abstract!Spec

(***************************************************************************)
(* The data set shown loses records for a cause only.  The gates compare    *)
(* with last_run.json, so that what matters is how far the file may be      *)
(* behind: while no execution has ended badly, only by the publication of   *)
(* the one execution that has not saved yet.                                *)
(***************************************************************************)

(* Who asks to complete a session has passed the gate on the loss.          *)
Allowed(s) == s.pc = "complete" => s.force \/ ShrinkGate(Count[s.scan], s.base)

LEMMA GatesAllow ==
  ASSUME NEW s, AllGatesPassed(Gates(s))
  PROVE  s.force \/ ShrinkGate(Count[s.scan], s.base)
<1> DEFINE evaluated ==
      EvaluateGates(Count[s.scan], s.base,
                    Count[s.scan] = 0 \/ s.scan \in NoMatch,
                    s.scan \in Duplicated, s.uploads)
<1>1. "max_shrink_ratio" \in GateName
  BY DEF GateName
<1>2. evaluated["max_shrink_ratio"] = ShrinkGate(Count[s.scan], s.base)
  BY <1>1 DEF EvaluateGates
<1>3. s.force \/ evaluated["max_shrink_ratio"]
  BY <1>1 DEF AllGatesPassed, Gates, ApplyForceBypass
<1> HIDE DEF evaluated
<1> QED
  BY <1>2, <1>3

LEMMA DecideAllowed ==
  ASSUME NEW s \in RunState, NEW result \in UploadResult
  PROVE  Allowed(Decide(s, result))
<1> DEFINE t == [s EXCEPT !.uploads = result]
<1>1. t \in RunState
  BY DEF RunState
<1>2. Decide(s, result) = IF AllGatesPassed(Gates(t)) THEN Enter(t, "complete")
                                                      ELSE Enter(t, "abort")
  BY DEF Decide
<1> HIDE DEF t
<1>3. \A p : /\ Enter(t, p).pc = p /\ Enter(t, p).force = t.force
             /\ Enter(t, p).scan = t.scan /\ Enter(t, p).base = t.base
  BY <1>1 DEF Enter, RunState
<1>4. CASE AllGatesPassed(Gates(t))
  <2>1. t.force \/ ShrinkGate(Count[t.scan], t.base)
    BY <1>4, GatesAllow
  <2> QED
    BY <1>2, <1>3, <1>4, <2>1 DEF Allowed
<1>5. CASE ~AllGatesPassed(Gates(t))
  BY <1>2, <1>3, <1>5 DEF Allowed
<1> QED
  BY <1>4, <1>5

LEMMA NextBatchAllowed ==
  ASSUME NEW s \in RunState
  PROVE  Allowed(NextBatch(s))
<1>1. CASE s.off < Count[s.scan]
  <2>1. NextBatch(s) = Enter(s, "upload")
    BY <1>1 DEF NextBatch
  <2> QED
    BY <2>1, EnterKeeps DEF Allowed
<1>2. CASE ~(s.off < Count[s.scan])
  <2>1. "ok" \in UploadResult
    BY DEF UploadResult
  <2> QED
    BY <1>2, <2>1, DecideAllowed DEF NextBatch
<1> QED
  BY <1>1, <1>2

LEMMA AfterCleanupAllowed ==
  ASSUME NEW s \in RunState
  PROVE  Allowed(AfterCleanup(s))
<1>1. s.conflict \in BOOLEAN
  BY DEF RunState
<1>2. CASE s.conflict
  BY <1>2, EnterKeeps DEF AfterCleanup, Allowed
<1>3. CASE ~s.conflict /\ ~AllGatesPassed(Gates(s))
  <2>1. AfterCleanup(s) = [Enter(s, "report") EXCEPT !.exit = 5]
    BY <1>3 DEF AfterCleanup
  <2>2. AfterCleanup(s).pc = "report"
    BY <2>1 DEF Enter, RunState
  <2> QED
    BY <2>2 DEF Allowed
<1>4. CASE ~s.conflict /\ AllGatesPassed(Gates(s))
  <2>1. AfterCleanup(s) = NextBatch(s)
    BY <1>4 DEF AfterCleanup
  <2> QED
    BY <2>1, NextBatchAllowed
<1> QED
  BY <1>1, <1>2, <1>3, <1>4

LEMMA CleaningAllowed ==
  ASSUME NEW s \in RunState, NEW t \in Cleaning(s)
  PROVE  Allowed(t)
<1>1. CASE s.todo # {}
  <2>1. PICK x \in s.todo :
          t = [Enter(s, "cancel") EXCEPT !.target = x, !.todo = s.todo \ {x}]
    BY <1>1 DEF Cleaning
  <2>2. t.pc = "cancel"
    BY <2>1 DEF Enter, RunState
  <2> QED
    BY <2>2 DEF Allowed
<1>2. CASE s.todo = {}
  BY <1>2, AfterCleanupAllowed DEF Cleaning
<1> QED
  BY <1>1, <1>2

LEMMA AfterAllowed ==
  ASSUME NEW s \in RunState, s.pc \in Acting, NEW reply \in Reply, NEW t \in After(s, reply)
  PROVE  Allowed(t)
<1>1. CASE s.pc = "cancel"
  BY <1>1, CleaningAllowed DEF After
<1>2. CASE s.pc = "upload"
  <2>1. t = AfterUpload(s, reply)
    BY <1>2 DEF After
  <2>2. CASE reply = "ok"
    <3> DEFINE o == s.off + BatchSize
               u == [s EXCEPT !.off = o, !.conflict = FALSE]
    <3>1. o \in Nat
      BY PushAssumption DEF RunState
    <3>2. t = NextBatch(u)
      BY <2>1, <2>2 DEF AfterUpload
    <3> HIDE DEF o
    <3>3. u \in RunState
      BY <3>1 DEF RunState
    <3> HIDE DEF u
    <3> QED
      BY <3>2, <3>3, NextBatchAllowed
  <2>3. CASE reply = "conflict" /\ ~s.conflict
    <3>1. t = [Enter(s, "list") EXCEPT !.conflict = TRUE]
      BY <2>1, <2>3 DEF AfterUpload
    <3>2. t.pc = "list"
      BY <3>1 DEF Enter, RunState
    <3> QED
      BY <3>2 DEF Allowed
  <2>4. CASE reply = "error" \/ (reply = "conflict" /\ s.conflict)
    <3>1. t = Decide(s, "failed") /\ "failed" \in UploadResult
      BY <2>1, <2>4 DEF AfterUpload, UploadResult
    <3> QED
      BY <3>1, DecideAllowed
  <2> QED
    BY <2>2, <2>3, <2>4 DEF Reply
<1>3. CASE s.pc \in {"complete", "abort"}
  <2>1. /\ Enter(s, "save").pc = "save" /\ Exit(4).pc = "done"
        /\ [Enter(s, "report") EXCEPT !.exit = 5].pc = "report"
    BY DEF Enter, RunState, Exit, Idle
  <2>2. t \in {Enter(s, "save"), Exit(4), [Enter(s, "report") EXCEPT !.exit = 5]}
    BY <1>3 DEF After, AfterComplete, AfterAbort
  <2> QED
    BY <2>1, <2>2 DEF Allowed
<1> QED
  BY <1>1, <1>2, <1>3 DEF Acting

(* No step of an execution takes it past the gate unless it passes it.      *)
LEMMA NextAllowed ==
  ASSUME Inv0, [Next]_vars, NEW r \in Run, Allowed(run[r])
  PROVE  Allowed(run'[r])
<1>1. DOMAIN run = Run /\ run[r] \in RunState /\ RunTypeOK(run[r])
  BY DEF Inv0, TypeOK, RunTypeOK
<1>2. ASSUME NEW t, Become(r, t) PROVE run'[r] = t
  BY <1>1, <1>2 DEF Become
<1>3. ASSUME run'[r].pc # "complete" PROVE Allowed(run'[r])
  BY <1>3 DEF Allowed
<1>4. CASE Begin(r)
  <2>1. PICK s \in Scan, f \in Forces, base \in Loaded(r) :
          Become(r, [Idle EXCEPT !.pc = "list", !.scan = s, !.force = f, !.base = base])
    BY <1>4 DEF Begin, Load
  <2> QED
    BY <1>2, <1>3, <2>1 DEF Idle
<1>5. CASE EndEarly(r) \/ Report(r) \/ WriteFails(r) \/ Surprised(r)
  <2>1. \E code : Become(r, Exit(code))
    BY <1>5 DEF EndEarly, Report, WriteFails, Surprised
  <2> QED
    BY <1>2, <1>3, <2>1 DEF Exit, Idle
<1>6. CASE Listed(r)
  <2>1. PICK entries \in Listings :
          \E s \in Cleaning([run[r] EXCEPT !.todo = CleanupTargets(entries, run[r].scan)]) :
            Become(r, s)
    BY <1>6 DEF Listed
  <2> DEFINE u == [run[r] EXCEPT !.todo = CleanupTargets(entries, run[r].scan)]
  <2>2. CleanupTargets(entries, run[r].scan) \subseteq Scan
    BY <1>1, <1>6, PhaseFacts, TargetsFacts DEF Listed, RunTypeOK
  <2>3. u \in RunState /\ \E s \in Cleaning(u) : Become(r, s)
    BY <1>1, <2>1, <2>2 DEF RunState
  <2> HIDE DEF u
  <2> QED
    BY <1>2, <2>3, CleaningAllowed
<1>7. CASE ListFailed(r)
  BY <1>1, <1>2, <1>7, AfterCleanupAllowed DEF ListFailed
<1>8. CASE Answered(r) \/ PartlyStored(r) \/ Failed(r) \/ AliasUnknown(r)
  <2>1. run[r].pc \in Acting
    BY <1>8 DEF Answered, PartlyStored, Failed, AliasUnknown, Acting
  <2>2. \E reply \in Reply : \E s \in After(run[r], reply) : Become(r, s)
    <3>1. CASE Answered(r)
      <4>1. Replies(RequestOf(run[r])) \subseteq Reply
        BY <1>1, <2>1, RequestGood
      <4> QED
        BY <3>1, <4>1 DEF Answered
    <3>2. CASE PartlyStored(r)
      BY <3>2 DEF PartlyStored, Reply
    <3>3. CASE Failed(r) \/ AliasUnknown(r)
      BY <3>3 DEF Failed, AliasUnknown, Reply
    <3> QED
      BY <1>8, <3>1, <3>2, <3>3
  <2> QED
    BY <1>1, <1>2, <2>1, <2>2, AfterAllowed
<1>9. CASE Retried(r)
  <2>1. run'[r] = [run[r] EXCEPT !.tries = @ + 1]
    BY <1>2, <1>9 DEF Retried
  <2>2. /\ run'[r].pc = run[r].pc /\ run'[r].scan = run[r].scan
        /\ run'[r].force = run[r].force /\ run'[r].base = run[r].base
    BY <1>1, <2>1 DEF RunState
  <2> QED
    BY <2>2 DEF Allowed
<1>10. CASE SaveOpen(r) \/ SaveWrite(r)
  <2>1. run'[r] = Enter(run[r], "write") \/ run'[r] = Enter(run[r], "report")
    BY <1>2, <1>10 DEF SaveOpen, SaveWrite
  <2> QED
    BY <1>1, <1>3, <2>1, EnterKeeps
<1>11. CASE Crash(r)
  <2>1. run'[r] = [Idle EXCEPT !.pc = "crashed"]
    BY <1>2, <1>11 DEF Crash
  <2> QED
    BY <1>3, <2>1 DEF Idle
<1>12. ASSUME NEW q \in Run \ {r}, Begin(q) \/ EndEarly(q) \/ Step(q) \/ Crash(q)
       PROVE  run'[r] = run[r]
  BY <1>1, <1>12 DEF Begin, Load, EndEarly, Step, Listed, ListFailed, Answered,
     AliasUnknown, PartlyStored, Failed, Retried, Surprised, SaveOpen, SaveWrite, Report, WriteFails, Crash, Become
<1>13. CASE Late \/ UNCHANGED vars
  BY <1>13 DEF Late, vars
<1> QED
  BY <1>4, <1>5, <1>6, <1>7, <1>8, <1>9, <1>10, <1>11, <1>12, <1>13
  DEF Next, Step, Quiescent

(* The phases between asking to complete a session and having saved that.   *)
Publishing == {"complete", "save", "write"}

Badly == \E r \in Run : EndedBadly(r)

(* Out of them an execution ends badly, or with its scan's count saved.     *)
LEMMA PublishingLeads ==
  ASSUME Inv0, [Next]_vars, NEW r \in Run, run[r].pc \in Publishing
  PROVE  \/ run'[r].pc \in Publishing /\ run'[r].scan = run[r].scan
         \/ EndedBadly(r)'
         \/ run[r].pc = "write" /\ lastRun'.count = Count[run[r].scan]
<1>1. DOMAIN run = Run /\ run[r] \in RunState
  BY DEF Inv0, TypeOK, RunTypeOK
<1>2. ASSUME NEW t, Become(r, t) PROVE run'[r] = t
  BY <1>1, <1>2 DEF Become
<1>3. /\ \A p : Enter(run[r], p).pc = p /\ Enter(run[r], p).scan = run[r].scan
      /\ \A code : Exit(code).pc = "done"
      /\ Exit(1).exit = 1 /\ Exit(4).exit = 4
  BY <1>1 DEF Enter, RunState, Exit, Idle
<1>4. CASE Answered(r) \/ Failed(r)
  <2>1. run[r].pc = "complete"
    BY <1>4 DEF Answered, Failed, Acting, Publishing
  <2>2. \E reply : \E s \in After(run[r], reply) : Become(r, s)
    BY <1>4 DEF Answered, Failed
  <2>3. run'[r] = Enter(run[r], "save") \/ run'[r] = Exit(4)
    BY <1>2, <2>1, <2>2 DEF After, AfterComplete
  <2> QED
    BY <1>3, <2>3 DEF Publishing, EndedBadly
<1>5. CASE Retried(r)
  <2>1. run'[r] = [run[r] EXCEPT !.tries = @ + 1]
    BY <1>2, <1>5 DEF Retried
  <2> QED
    BY <1>1, <2>1 DEF RunState
<1>6. CASE SaveOpen(r)
  BY <1>2, <1>3, <1>6 DEF SaveOpen, Publishing
<1>7. CASE SaveWrite(r)
  BY <1>7 DEF SaveWrite
<1>8. CASE WriteFails(r) \/ Surprised(r)
  BY <1>2, <1>3, <1>8 DEF WriteFails, Surprised, EndedBadly
<1>9. CASE Crash(r)
  <2>1. run'[r] = [Idle EXCEPT !.pc = "crashed"]
    BY <1>2, <1>9 DEF Crash
  <2> QED
    BY <2>1 DEF Idle, EndedBadly
<1>10. ASSUME NEW q \in Run \ {r}, Begin(q) \/ EndEarly(q) \/ Step(q) \/ Crash(q)
       PROVE  run'[r] = run[r]
  BY <1>1, <1>10 DEF Begin, Load, EndEarly, Step, Listed, ListFailed, Answered,
     AliasUnknown, PartlyStored, Failed, Retried, Surprised, SaveOpen, SaveWrite, Report, WriteFails, Crash, Become
<1>11. CASE Late \/ UNCHANGED vars
  BY <1>11 DEF Late, vars
<1>12. ~(\/ Begin(r) \/ EndEarly(r) \/ Listed(r) \/ ListFailed(r) \/ AliasUnknown(r)
         \/ PartlyStored(r) \/ Report(r))
  BY DEF Begin, Load, EndEarly, Listed, ListFailed, AliasUnknown, PartlyStored, Report,
     Publishing
<1> QED
  BY <1>4, <1>5, <1>6, <1>7, <1>8, <1>9, <1>10, <1>11, <1>12 DEF Next, Step, Quiescent

(* An end is final, and only the execution that saves writes the file.      *)
LEMMA EndsAreFinal ==
  ASSUME Inv0, [Next]_vars, NEW r \in Run, EndedBadly(r)
  PROVE  EndedBadly(r)'
<1>1. DOMAIN run = Run
  BY DEF Inv0, TypeOK
<1>2. run[r].pc \in {"done", "crashed"}
  BY DEF EndedBadly
<1>3. ~(Begin(r) \/ EndEarly(r) \/ Step(r) \/ Crash(r))
  BY <1>2, PhaseFacts DEF Begin, Load, EndEarly, Step, Listed, ListFailed, Answered,
     AliasUnknown, PartlyStored, Failed, Retried, Surprised, SaveOpen, SaveWrite, Report, WriteFails, Crash,
     Acting, Calling, Writing
<1>4. ASSUME NEW q \in Run \ {r}, Begin(q) \/ EndEarly(q) \/ Step(q) \/ Crash(q)
      PROVE  run'[r] = run[r]
  BY <1>1, <1>4 DEF Begin, Load, EndEarly, Step, Listed, ListFailed, Answered,
     AliasUnknown, PartlyStored, Failed, Retried, Surprised, SaveOpen, SaveWrite, Report, WriteFails, Crash, Become
<1>5. CASE Late \/ UNCHANGED vars
  BY <1>5 DEF Late, vars, EndedBadly
<1> QED
  BY <1>3, <1>4, <1>5 DEF Next, Quiescent, EndedBadly

LEMMA SavesOnly ==
  ASSUME [Next]_vars
  PROVE  lastRun' = lastRun \/ \E r \in Run : run[r].pc \in {"save", "write"}
  BY DEF Next, Begin, Load, EndEarly, Step, Listed, ListFailed, Answered,
     AliasUnknown, PartlyStored, Failed, Retried, Surprised, SaveOpen, SaveWrite, Report, WriteFails, Crash, Late, Quiescent, vars

(* The count that is saved, or about to be, is that of the data set shown.  *)
Traced ==
  \/ lastRun.count = Count[current]
  \/ \E r \in Run : run[r].pc \in Publishing /\ run[r].scan = current

Inv6 ==
  /\ \A r \in Run : Allowed(run[r])
  /\ \A r \in Run : run[r].pc = "complete" =>
       sess[run[r].scan].status = "IN_PROGRESS" \/ current = run[r].scan
  /\ \A r \in Run : run[r].pc \in {"save", "write"} => current = run[r].scan
  /\ current # NoScan /\ ~Badly => Traced

(* Among executions kept apart, the one at work is alone with the service.  *)
LEMMA AloneWithService ==
  ASSUME Inv0, Inv4, [Next]_vars, NEW r \in Run, run[r].pc \in Live
  PROVE  \/ UNCHANGED <<sess, current>>
         \/ \E q : GoodRequest(q) /\ Takes(q) /\ CallOf(r, q)
<1>1. ASSUME NEW p \in Run, NEW q, CallOf(p, q) PROVE p = r
  BY <1>1 DEF CallOf, Inv4, Live, Calling
<1> QED
  BY <1>1, ServiceEffects DEF ServiceEffect, Inv4

(* Only asking to complete a session changes what is shown.                 *)
LEMMA ShownByComplete ==
  ASSUME Inv0, Inv4, [Next]_vars, current' # current
  PROVE  \E r \in Run : /\ run[r].pc = "complete" /\ current' = run[r].scan
                        /\ run[r].scan \in Scan
                        /\ sess[run[r].scan].status = "IN_PROGRESS"
<1>1. ServiceTypeOK
  BY DEF Inv0, TypeOK
<1>2. PICK q : GoodRequest(q) /\ Takes(q) /\ \E r \in Run : CallOf(r, q)
  BY ServiceEffects DEF ServiceEffect, Inv4
<1>3. PICK r \in Run : CallOf(r, q)
  BY <1>2
<1>4. /\ q.op = "complete" /\ current' = q.sid /\ q.sid \in Scan
      /\ sess[q.sid].status = "IN_PROGRESS"
  BY <1>1, <1>2, TakesEffects
<1>5. run[r].pc = "complete" /\ q.sid = run[r].scan
  BY <1>3, <1>4 DEF CallOf, RequestOf, Acting
<1> QED
  BY <1>4, <1>5

LEMMA NextInv6 ==
  ASSUME ~Unverified
  PROVE  Inv0 /\ Inv4 /\ Inv6 /\ [Next]_vars => Inv6'
<1> SUFFICES ASSUME Inv0, Inv4, Inv6, [Next]_vars PROVE Inv6'
  OBVIOUS
<1>1. /\ ServiceTypeOK /\ Inv0'
      /\ \A r \in Run : RunTypeOK(run[r]) /\ LocalOK(run[r]) /\ RunEffect(r)
  BY NextInv0, RunEffects DEF Inv0, TypeOK
<1>2. \A r \in Run : Allowed(run'[r])
  BY NextAllowed DEF Inv6
<1>3. ASSUME NEW r \in Run, run'[r].pc = "complete"
      PROVE  sess'[run'[r].scan].status = "IN_PROGRESS" \/ current' = run'[r].scan
  <2>1. CASE /\ run'[r].scan = run[r].scan /\ run'[r].off = run[r].off
             /\ run[r].pc \in Loading
    <3>1. run[r].pc \in Live /\ run[r].scan \in Scan
      BY <1>1, <2>1, PhaseFacts DEF Loading, RunTypeOK
    <3>2. \/ UNCHANGED <<sess, current>>
          \/ \E q : GoodRequest(q) /\ Takes(q) /\ CallOf(r, q)
      BY <3>1, AloneWithService
    <3>3. CASE run[r].pc = "complete"
      <4>1. ASSUME NEW q, GoodRequest(q), Takes(q), CallOf(r, q)
            PROVE  current' = run[r].scan
        <5>1. q.op = "complete" /\ q.sid = run[r].scan
          BY <3>3, <4>1 DEF CallOf, RequestOf
        <5> QED
          BY <1>1, <4>1, <5>1, TakesEffects
      <4> QED
        BY <2>1, <3>2, <3>3, <4>1 DEF Inv6
    (* A sound scan has records, so it is not complete before a batch is.   *)
    <3>4. CASE run[r].pc \in {"list", "cancel", "upload"}
      <4>1. LocalOK(run'[r])
        BY <1>1 DEF Inv0
      <4>2. Sound(run[r].scan) /\ Count[run[r].scan] <= run[r].off
        BY <1>3, <2>1, <4>1 DEF LocalOK
      <4>3. Count[run[r].scan] \in Nat /\ run[r].off \in Nat
        BY <1>1, <3>1, ServiceAssumption DEF RunTypeOK, RunState
      <4>4. run[r].off = 0 \/ run[r].off < Count[run[r].scan]
        BY <1>1, <3>4 DEF LocalOK, AtBatch
      <4> QED
        BY <4>2, <4>3, <4>4 DEF Sound
    <3> QED
      BY <2>1, <3>3, <3>4 DEF Loading
  <2>2. CASE /\ run[r].pc = "upload" /\ run'[r].scan = run[r].scan
             /\ run'[r].off = run[r].off + BatchSize
             /\ Takes(RequestOf(run[r]))
    BY <2>2, UploadTaken
  <2> QED
    BY <1>1, <1>3, <2>1, <2>2 DEF RunEffect, Loading
<1>4. ASSUME NEW r \in Run, run'[r].pc \in {"save", "write"}
      PROVE  current' = run'[r].scan
  <2>1. CASE run'[r].scan = run[r].scan /\ run[r].pc \in {"save", "write"}
    <3>1. run[r].pc \in Live /\ run[r].pc \notin Acting
      BY <2>1, PhaseFacts DEF Acting
    <3>2. UNCHANGED <<sess, current>>
      BY <3>1, AloneWithService DEF CallOf
    <3> QED
      BY <2>1, <3>2 DEF Inv6
  <2>2. CASE /\ run[r].pc = "complete" /\ run'[r].scan = run[r].scan
             /\ sess'[run[r].scan].status = "ACTIVE"
    <3>1. run[r].pc \in Live
      BY <2>2, PhaseFacts
    <3>2. ASSUME NEW q, GoodRequest(q), Takes(q), CallOf(r, q)
          PROVE  current' = run[r].scan
      <4>1. q.op = "complete" /\ q.sid = run[r].scan
        BY <2>2, <3>2 DEF CallOf, RequestOf
      <4> QED
        BY <1>1, <3>2, <4>1, TakesEffects
    <3>3. CASE UNCHANGED <<sess, current>>
      BY <2>2, <3>3 DEF Inv6
    <3> QED
      BY <2>2, <3>1, <3>2, <3>3, AloneWithService
  <2> QED
    BY <1>1, <1>4, <2>1, <2>2 DEF RunEffect, Loading
<1>5. ASSUME current' # NoScan, ~Badly' PROVE Traced'
  <2>1. ~Badly
    BY <1>5, EndsAreFinal DEF Badly
  <2>2. \A r \in Run : ~EndedBadly(r)'
    BY <1>5 DEF Badly, EndedBadly
  <2>3. ASSUME NEW r \in Run, run[r].pc \in Publishing, run[r].scan = current'
        PROVE  Traced'
    BY <2>2, <2>3, PublishingLeads DEF Traced
  <2>4. CASE current' # current
    BY <2>3, <2>4, ShownByComplete DEF Publishing
  <2>5. CASE current' = current
    <3>1. Traced
      BY <1>5, <2>1, <2>5 DEF Inv6
    <3>2. CASE \E r \in Run : run[r].pc \in Publishing /\ run[r].scan = current
      BY <2>3, <2>5, <3>2
    <3>3. CASE lastRun.count = Count[current] /\ lastRun' = lastRun
      BY <2>5, <3>3 DEF Traced
    <3>4. CASE \E r \in Run : run[r].pc \in {"save", "write"}
      BY <2>3, <2>5, <3>4 DEF Inv6, Publishing
    <3> QED
      BY <3>1, <3>2, <3>3, <3>4, SavesOnly DEF Traced
  <2> QED
    BY <2>4, <2>5
<1> QED
  BY <1>2, <1>3, <1>4, <1>5 DEF Inv6, Allowed

(* A loss beyond the ratio that nobody forced comes of a file that could    *)
(* not be read, or that an execution which ended badly has left behind.     *)
LEMMA LossHasCause ==
  ASSUME Inv0, Inv4, Inv6, [Next]_vars,
         current' # current, current # NoScan, ~ShownMayShrinkTo(current, current')
  PROVE  \E r \in Run :
           \/ EndedBadly(r)
           \/ run[r].scan = current' /\ (run[r].force \/ run[r].base # lastRun.count)
<1>1. PICK r \in Run : /\ run[r].pc = "complete" /\ current' = run[r].scan
                       /\ run[r].scan \in Scan
  BY ShownByComplete
<1> SUFFICES ASSUME ~Badly, ~run[r].force, run[r].base = lastRun.count PROVE FALSE
  BY <1>1 DEF Badly
<1>2. current \in Scan /\ run[r].force \in BOOLEAN
  BY DEF Inv0, TypeOK, ServiceTypeOK, RunTypeOK, RunState
<1>3. \A p \in Run : run[p].pc \in Publishing => p = r
  BY <1>1, PhaseFacts DEF Inv4, Publishing
<1>4. lastRun.count = Count[current]
  BY <1>1, <1>3 DEF Inv6, Traced
<1>5. ShrinkGate(Count[current'], Count[current])
  BY <1>1, <1>4 DEF Inv6, Allowed
<1>6. Count[current] \in Nat
  BY <1>2, ServiceAssumption
<1> QED
  BY <1>5, <1>6 DEF ShrinkGate, NoCount, ShownMayShrinkTo

(* Executions kept apart by the lock, over a network that applies no        *)
(* request late, with no rejection overlooked: without --force the data set *)
(* shown loses no more than max_shrink_ratio allows, unless last_run.json   *)
(* could not be read or an execution was killed or exited 1 or 4.           *)
THEOREM LossesHaveCauses ==
  ASSUME Serial, ~Delayed, ~Unverified
  PROVE  Spec => DropHasCause
<1>1. Init => Inv6
  <2>1. Idle.pc = "idle"
    BY DEF Idle
  <2> QED
    BY <2>1 DEF Init, ServiceInit, Inv6, Allowed
<1>2. Inv0 /\ Inv4 /\ Inv6 /\ [Next]_vars
        => [current' # current /\ current # NoScan /\ ~ShownMayShrinkTo(current, current') =>
              \E r \in Run :
                \/ EndedBadly(r)
                \/ /\ run[r].scan = current'
                   /\ run[r].force \/ run[r].base # lastRun.count]_vars
  BY LossHasCause
<1> QED
  BY InitInv0, NextInv0, SerialInvariant, <1>1, <1>2, NextInv6, PTL DEF Spec, DropHasCause

=============================================================================
