----------------------------- MODULE SessionPush -----------------------------
(***************************************************************************)
(* The push of one scan's records to Drata: _live_drata_push of             *)
(* src/nessus_drata/cli.py with the session cleanup and the batch upload it *)
(* calls, the retry loop of drata_client.py, and the part of _run_pipeline  *)
(* around it that loads and saves last_run.json.                            *)
(*                                                                          *)
(* A member of Run is one execution of the collector.  Between two HTTP     *)
(* calls an execution computes on its own data only, so a step is a call    *)
(* together with everything up to the next call or file write.  An          *)
(* execution that is not in Healthy may meet every fault the code handles,  *)
(* and may be killed between any two steps or with a call outstanding.      *)
(***************************************************************************)
EXTENDS DrataService, SafetyGates

CONSTANTS
  Run,         \* executions of the collector
  NoMatch,     \* scans with hosts, none of whose results match the manifest
  Duplicated,  \* scans two hosts of which get the same record id
  BatchSize,   \* drata.batch_size
  MaxRetries,  \* drata.max_retries
  Forces,      \* the values --force may have
  Healthy,     \* executions that meet no fault
  Unverified,  \* answers to a batch may have an unrecognized shape
  Serial       \* the lock of state.py keeps executions apart

ASSUME PushAssumption ==
  /\ NoMatch \subseteq Scan
  /\ Duplicated \subseteq Scan
  /\ BatchSize \in Nat \ {0}
  /\ MaxRetries \in Nat \ {0}
  /\ Forces \subseteq BOOLEAN
  /\ Healthy \subseteq Run
  /\ Unverified \in BOOLEAN
  /\ Serial \in BOOLEAN

VARIABLES
  lastRun,     \* last_run.json, as load_last_run_state reads it
  run          \* the local state of every execution

vars == <<sess, current, inflight, lastRun, run>>

(***************************************************************************)
(* The state of an execution.                                               *)
(***************************************************************************)

(* Phases with an HTTP call outstanding.  All but "list" are a Request.     *)
Acting  == {"cancel", "upload", "complete", "abort"}
Calling == Acting \cup {"list"}

(* The writes after the push: last_run.json truncated, then written, and    *)
(* the run report.                                                          *)
Writing == {"save", "write", "report"}
Live    == Calling \cup Writing
Ended   == {"done", "crashed"}
Phase   == Live \cup Ended \cup {"idle"}

RunState ==
  [pc       : Phase,
   scan     : Scan \cup {NoScan},
   force    : BOOLEAN,
   base     : Int,                    \* prior_state.last_record_count
   off      : Nat,                    \* start of the batch to upload next
   conflict : BOOLEAN,                \* this batch has had its 409 already
   todo     : SUBSET Scan,            \* stale sessions left to cancel
   target   : Scan \cup {NoScan},     \* the stale session being canceled
   tries    : Nat,                    \* failed attempts of this call
   uploads  : UploadResult,
   exit     : 0..6]

Idle ==
  [pc |-> "idle", scan |-> NoScan, force |-> FALSE, base |-> NoCount, off |-> 0,
   conflict |-> FALSE, todo |-> {}, target |-> NoScan, tries |-> 0,
   uploads |-> "unattempted", exit |-> 0]

(* What load_last_run_state returns for a missing or truncated file.        *)
NoState == [count |-> NoCount, sid |-> NoScan]

RunTypeOK(s) ==
  /\ s \in RunState
  /\ s.pc \in Live => s.scan \in Scan
  /\ s.pc = "cancel" => s.target \in Scan
  /\ s.tries < MaxRetries

(* Types, and the data a phase needs; no call is tried more than            *)
(* max_retries times (_request).                                            *)
TypeOK ==
  /\ ServiceTypeOK
  /\ lastRun \in [count : Int, sid : Scan \cup {NoScan}]
  /\ DOMAIN run = Run
  /\ \A r \in Run : RunTypeOK(run[r])

Init ==
  /\ ServiceInit
  /\ lastRun = NoState
  /\ run = [r \in Run |-> Idle]

(* The gates as _evaluate sees them: pre_gates while no upload was made.    *)
Gates(s) ==
  ApplyForceBypass(
    EvaluateGates(Count[s.scan], s.base,
                  Count[s.scan] = 0 \/ s.scan \in NoMatch,
                  s.scan \in Duplicated, s.uploads),
    s.force)

(* The batch of _chunk that starts at off.                                  *)
Batch(s) == {k \in RecordsOf(s.scan) : s.off < k /\ k <= s.off + BatchSize}

Enter(s, phase) == [s EXCEPT !.pc = phase, !.tries = 0]

(* An execution that has ended keeps nothing but its exit code.             *)
Exit(code) == [Idle EXCEPT !.pc = "done", !.exit = code]

(***************************************************************************)
(* What follows a call: the states an execution may continue in.            *)
(***************************************************************************)

(* A careless variant of the next definition: no batch_uploads result.      *)
DecideIgnoringUploads(s, result) ==
  IF AllGatesPassed(Gates(s)) THEN Enter(s, "complete") ELSE Enter(s, "abort")

(* The loop over the batches has ended: final_gates decide.                 *)
Decide(s, result) ==
  LET t == [s EXCEPT !.uploads = result]
  IN  IF AllGatesPassed(Gates(t)) THEN Enter(t, "complete") ELSE Enter(t, "abort")

NextBatch(s) ==
  IF s.off < Count[s.scan] THEN Enter(s, "upload") ELSE Decide(s, "ok")

(* Back from _cancel_other_sessions: to the batch that met the conflict, or *)
(* to the check of the pre-gates and the loop over the batches.             *)
AfterCleanup(s) ==
  CASE s.conflict -> Enter(s, "upload")
    [] ~s.conflict /\ ~AllGatesPassed(Gates(s)) ->
         [Enter(s, "report") EXCEPT !.exit = 5]
    [] ~s.conflict /\ AllGatesPassed(Gates(s)) -> NextBatch(s)

(* The next stale session to cancel, in whatever order they were listed.    *)
Cleaning(s) ==
  IF s.todo = {}
  THEN {AfterCleanup(s)}
  ELSE {[Enter(s, "cancel") EXCEPT !.target = t, !.todo = s.todo \ {t}] : t \in s.todo}

(* An impatient variant: every 409 is followed by another cleanup.          *)
AfterUploadRetrying(s, reply) ==
  CASE reply = "ok"       -> NextBatch([s EXCEPT !.off = s.off + BatchSize,
                                                 !.conflict = FALSE])
    [] reply = "conflict" -> [Enter(s, "list") EXCEPT !.conflict = TRUE]
    [] reply = "error"    -> Decide(s, "failed")

AfterUpload(s, reply) ==
  CASE reply = "ok" -> NextBatch([s EXCEPT !.off = s.off + BatchSize,
                                           !.conflict = FALSE])
    [] reply = "conflict" /\ ~s.conflict -> [Enter(s, "list") EXCEPT !.conflict = TRUE]
    [] reply = "conflict" /\ s.conflict  -> Decide(s, "failed")
    [] reply = "error" -> Decide(s, "failed")

(* A careless variant: a failed complete is taken for a success.            *)
AfterCompleteTrusting(s, reply) == Enter(s, "save")

(* A DrataApiError of complete or cancel leaves the run at once: exit 4.    *)
AfterComplete(s, reply) ==
  IF reply = "ok" THEN Enter(s, "save") ELSE Exit(4)

(* A careless variant: a failed cancel is logged and forgotten.             *)
AfterAbortTrusting(s, reply) == [Enter(s, "report") EXCEPT !.exit = 5]

AfterAbort(s, reply) ==
  IF reply = "ok" THEN [Enter(s, "report") EXCEPT !.exit = 5] ELSE Exit(4)

After(s, reply) ==
  CASE s.pc = "cancel"   -> Cleaning(s)
    [] s.pc = "upload"   -> {AfterUpload(s, reply)}
    [] s.pc = "complete" -> {AfterComplete(s, reply)}
    [] s.pc = "abort"    -> {AfterAbort(s, reply)}

(* The call an execution has outstanding in a phase of Acting.              *)
RequestOf(s) ==
  [op   |-> CASE s.pc = "upload"   -> "upload"
              [] s.pc = "complete" -> "complete"
              [] s.pc \in {"cancel", "abort"} -> "cancel",
   sid  |-> IF s.pc = "cancel" THEN s.target ELSE s.scan,
   recs |-> IF s.pc = "upload" THEN Batch(s) ELSE {}]

(***************************************************************************)
(* The steps of an execution.                                               *)
(***************************************************************************)

Become(r, s) == run' = [run EXCEPT ![r] = s]

(* load_last_run_state reads the file, or gives up on it.                   *)
Loaded(r) == {lastRun.count} \cup (IF r \in Healthy THEN {} ELSE {NoCount})

(* The state is loaded when the records are there; then the connection and  *)
(* the API key are looked up and the cleanup starts with a listing.         *)
Load(r) ==
  /\ run[r].pc = "idle"
  /\ \E s \in Scan, f \in Forces, base \in Loaded(r) :
       Become(r, [Idle EXCEPT !.pc = "list", !.scan = s, !.force = f, !.base = base])
  /\ UNCHANGED <<sess, current, inflight, lastRun>>

(* The lock lets nobody in while another execution is at work.              *)
Begin(r) == (Serial => \A q \in Run : run[q].pc \notin Live) /\ Load(r)

(* The run ends before its first call to Drata: a dry run (0), settings     *)
(* that are wrong or missing or a host without an identity (2), an export   *)
(* that cannot be had or read (3), any other exception (1).                 *)
EndEarly(r) ==
  /\ run[r].pc = "idle"
  /\ \E code \in IF r \in Healthy THEN {0} ELSE 0..3 : Become(r, Exit(code))
  /\ UNCHANGED <<sess, current, inflight, lastRun>>

(* A careless variant: sessions without a status field are passed over.     *)
CleanupTargetsStrict(entries, own) ==
  {e.id.sid : e \in {x \in entries : /\ x.status = "IN_PROGRESS"
                                     /\ x.usable /\ x.id # OwnId(own)}}

(* A careless variant: the session being filled is not spared.              *)
CleanupTargetsAll(entries, own) ==
  {e.id.sid : e \in {x \in entries : /\ x.status \in {"absent", "IN_PROGRESS"}
                                     /\ x.usable}}

(* The entries of a listing that _cancel_other_sessions cancels, as the     *)
(* sessions they name.  The id an entry shows is compared with the run's    *)
(* own: a run does not know its own session again under another id.         *)
CleanupTargets(entries, own) ==
  {e.id.sid : e \in {x \in entries : /\ x.status \in {"absent", "IN_PROGRESS"}
                                     /\ x.usable /\ x.id # OwnId(own)}}

Listed(r) ==
  /\ run[r].pc = "list"
  /\ \E entries \in Listings :
       \E s \in Cleaning([run[r] EXCEPT !.todo = CleanupTargets(entries, run[r].scan)]) :
         Become(r, s)
  /\ UNCHANGED <<sess, current, inflight, lastRun>>

(* A failed listing is logged, and the cleanup ends.                        *)
ListFailed(r) ==
  /\ run[r].pc = "list" /\ r \notin Healthy
  /\ Become(r, AfterCleanup(run[r]))
  /\ UNCHANGED <<sess, current, inflight, lastRun>>

Answered(r) ==
  /\ run[r].pc \in Acting
  /\ \E reply \in Replies(RequestOf(run[r])) :
       \E s \in After(run[r], reply) : Become(r, s)
  /\ Process(RequestOf(run[r]))
  /\ UNCHANGED <<inflight, lastRun>>

(* The actions of a session may not be had under its other id: a 404.       *)
AliasUnknown(r) ==
  /\ run[r].pc = "cancel" /\ run[r].target \in Aliased
  /\ \E s \in After(run[r], "error") : Become(r, s)
  /\ UNCHANGED <<sess, current, inflight, lastRun>>

(* An upload answered 200 or 201 in which a record was rejected; what comes *)
(* before or after it may be stored.  A record's own 409 reads as conflict, *)
(* and a rejection in a shape the client does not know as a success.        *)
PartlyStored(r) ==
  /\ run[r].pc = "upload" /\ r \notin Healthy
  /\ Accepts(RequestOf(run[r]))
  /\ \E part \in (SUBSET Batch(run[r])) \ {Batch(run[r])} :
       Apply([RequestOf(run[r]) EXCEPT !.recs = part])
  /\ \E reply \in {"conflict", "error"} \cup (IF Unverified THEN {"ok"} ELSE {}) :
       \E s \in After(run[r], reply) : Become(r, s)
  /\ UNCHANGED <<inflight, lastRun>>

(* The call has failed for good: a 4xx, a connection or read error, or the  *)
(* last of the attempts answered 429 or 5xx.                                *)
Failed(r) ==
  /\ run[r].pc \in Acting /\ r \notin Healthy
  /\ Unanswered(RequestOf(run[r]))
  /\ \E s \in After(run[r], "error") : Become(r, s)
  /\ UNCHANGED lastRun

(* An off-by-one variant of the next definition: one attempt too many.      *)
RetriedOnceMore(r) ==
  /\ run[r].pc \in Calling /\ r \notin Healthy
  /\ run[r].tries < MaxRetries
  /\ IF run[r].pc = "list" THEN UNCHANGED serviceVars ELSE Unanswered(RequestOf(run[r]))
  /\ Become(r, [run[r] EXCEPT !.tries = @ + 1])
  /\ UNCHANGED lastRun

(* A 429 or 5xx with attempts left: the same request is sent again.         *)
Retried(r) ==
  /\ run[r].pc \in Calling /\ r \notin Healthy
  /\ run[r].tries + 1 < MaxRetries
  /\ IF run[r].pc = "list" THEN UNCHANGED serviceVars ELSE Unanswered(RequestOf(run[r]))
  /\ Become(r, [run[r] EXCEPT !.tries = @ + 1])
  /\ UNCHANGED lastRun

(* An exception that no caller handles ends the run with exit code 1 in the *)
(* middle of a call: a delay that time.sleep refuses, asked for by a 429 or *)
(* 5xx with attempts left, or a listing whose entries are no objects.       *)
Surprised(r) ==
  /\ run[r].pc \in Calling /\ r \notin Healthy
  /\ run[r].pc = "list" \/ run[r].tries + 1 < MaxRetries
  /\ IF run[r].pc = "list" THEN UNCHANGED serviceVars ELSE Unanswered(RequestOf(run[r]))
  /\ Become(r, Exit(1))
  /\ UNCHANGED lastRun

(* save_last_run_state: write_text truncates the file, then fills it.       *)
SaveOpen(r) ==
  /\ run[r].pc = "save"
  /\ lastRun' = NoState
  /\ Become(r, Enter(run[r], "write"))
  /\ UNCHANGED serviceVars

(* A faulty variant: the count saved is that of the run before.             *)
SaveWriteStale(r) ==
  /\ run[r].pc = "write"
  /\ lastRun' = [count |-> run[r].base, sid |-> run[r].scan]
  /\ Become(r, Enter(run[r], "report"))
  /\ UNCHANGED serviceVars

SaveWrite(r) ==
  /\ run[r].pc = "write"
  /\ lastRun' = [count |-> Count[run[r].scan], sid |-> run[r].scan]
  /\ Become(r, Enter(run[r], "report"))
  /\ UNCHANGED serviceVars

Report(r) ==
  /\ run[r].pc = "report"
  /\ Become(r, Exit(run[r].exit))
  /\ UNCHANGED <<sess, current, inflight, lastRun>>

(* An OSError of one of the writes: exit 1.                                 *)
WriteFails(r) ==
  /\ run[r].pc \in Writing /\ r \notin Healthy
  /\ Become(r, Exit(1))
  /\ UNCHANGED <<sess, current, inflight, lastRun>>

(* The process is killed, by the task's time limit or with the machine.     *)
Crash(r) ==
  /\ run[r].pc \in Live /\ r \notin Healthy
  /\ IF run[r].pc \in Acting THEN Unanswered(RequestOf(run[r])) ELSE UNCHANGED serviceVars
  /\ Become(r, [Idle EXCEPT !.pc = "crashed"])
  /\ UNCHANGED lastRun

Step(r) ==
  \/ Listed(r) \/ ListFailed(r)
  \/ Answered(r) \/ AliasUnknown(r) \/ PartlyStored(r) \/ Failed(r) \/ Retried(r)
  \/ Surprised(r)
  \/ SaveOpen(r) \/ SaveWrite(r) \/ Report(r) \/ WriteFails(r)

Late == Deliver /\ UNCHANGED <<lastRun, run>>

(* No execution is left: the model ends here, the deployment does not.      *)
Quiescent ==
  /\ \A r \in Run : run[r].pc \in Ended
  /\ inflight = {}
  /\ UNCHANGED vars

Next ==
  \/ \E r \in Run : Begin(r) \/ EndEarly(r) \/ Step(r) \/ Crash(r)
  \/ Late
  \/ Quiescent

Spec == Init /\ [][Next]_vars

(* Every call ends: connect and read timeouts bound an attempt, max_retries *)
(* their number, and the delay between two attempts is finite.              *)
FairSpec == Spec /\ \A r \in Run : WF_vars(Step(r))

(***************************************************************************)
(* Properties.                                                              *)
(***************************************************************************)

Sound(s) == Count[s] > 0 /\ s \notin NoMatch /\ s \notin Duplicated

Completed(s) == sess[s].status = "ACTIVE"

(* A session is completed only with every record of its scan in it, however *)
(* many batches were lost, rejected, repeated or late on the way            *)
(* (cli.py: the upload loop and the batch_uploads gate before               *)
(* complete_session).  Where a canceled session may be opened again, this   *)
(* is claimed if no scan of several batches is listed by another id: after  *)
(* a 409 its run would cancel its own session and go on with the rest       *)
(* (AliasedFitOneBatch).                                                    *)
AliasedFitOneBatch == \A s \in Aliased : Count[s] <= BatchSize

CompletedIsWhole ==
  \A s \in Scan : Completed(s) => sess[s].recs = RecordsOf(s)

(* Nothing of a scan without records, without a matching result or with two *)
(* records of one id ever reaches Drata, with or without --force (the gates *)
(* manifest_coverage and duplicate_ids of safety.py are outside             *)
(* _FORCE_BYPASSABLE_GATES, and _live_drata_push checks before it uploads). *)
UnsoundNeverSent ==
  \A s \in Scan : ~Sound(s) => sess[s].status = "NONE" /\ sess[s].recs = {}

(* What last_run.json says of the last success is true: the session it      *)
(* names is completed and the count is that of its scan (_run_pipeline      *)
(* saves after complete_session has returned, and in no other case).        *)
SavedMeansPublished ==
  lastRun # NoState =>
    /\ lastRun.sid \in Scan
    /\ Completed(lastRun.sid)
    /\ lastRun.count = Count[lastRun.sid]

(* While a run works through its batches its session stays open and keeps   *)
(* every batch the client counts as sent: neither the cleanup after a 409   *)
(* nor a retry takes one back.  For executions the lock keeps apart and a   *)
(* network that applies no request late, and for sessions that listings     *)
(* show by their sessionId: one that is shown by a uuid or id its own run   *)
(* takes for a stale one and cancels.                                       *)
Filling(r) == run[r].pc \in {"list", "cancel", "upload"} /\ run[r].off > 0

UploadedPrefixKept ==
  \A r \in Run : Filling(r) /\ run[r].scan \notin Aliased =>
    /\ sess[run[r].scan].status = "IN_PROGRESS"
    /\ {k \in RecordsOf(run[r].scan) : k <= run[r].off} \subseteq sess[run[r].scan].recs

(* The exit code of a run that has reached its report is the truth: 0 for a *)
(* completed session, 5 for one that was closed or never opened and is not  *)
(* left open for Drata to wait on (_live_drata_push, the three returns).    *)
ReportIsTrue ==
  \A r \in Run : run[r].pc = "report" =>
    \/ run[r].exit = 0 /\ Completed(run[r].scan) /\ lastRun.sid = run[r].scan
    \/ /\ run[r].exit = 5
       /\ run[r].uploads = "failed" =>
            sess[run[r].scan].status \in {"NONE", "CANCELED"}

(* Without --force the data set that Drata shows never loses more than      *)
(* max_shrink_ratio allows from one completed session to the next           *)
(* (_gate_max_shrink_ratio compares with last_run.json).                    *)
ShownMayShrinkTo(s, t) == Count[t] * ShrinkDen >= Count[s] * ShrinkNum

NoUnforcedShrink ==
  [][ current' # current /\ current # NoScan =>
        \/ ShownMayShrinkTo(current, current')
        \/ \E r \in Run : run[r].scan = current' /\ run[r].force ]_vars

(* Such a loss has a cause that can be told: --force, a last_run.json that  *)
(* could not be read, or an earlier run that was killed or exited 1 or 4,   *)
(* after which last_run.json may not be of the data set shown.  As long as  *)
(* every run ends well, the file and the gate together bound what Drata     *)
(* shows (save_last_run_state against load_last_run_state and               *)
(* _gate_max_shrink_ratio).  For executions the lock keeps apart.           *)
EndedBadly(r) ==
  run[r].pc = "crashed" \/ (run[r].pc = "done" /\ run[r].exit \in {1, 4})

DropHasCause ==
  [][ current' # current /\ current # NoScan /\ ~ShownMayShrinkTo(current, current') =>
        \E r \in Run :
          \/ EndedBadly(r)
          \/ /\ run[r].scan = current'
             /\ run[r].force \/ run[r].base # lastRun.count ]_vars

(* Every execution that has started comes to an end, whatever it meets.     *)
EveryRunEnds == \A r \in Run : run[r].pc \in Live ~> run[r].pc \in Ended

(* A run that meets no fault publishes its scan and exits 0, whatever the   *)
(* runs before it left behind, provided that its gates pass, its session    *)
(* has not been closed already, and no session in its way lacks an id or    *)
(* has one that may not do to cancel it (the cleanup frees the resource,    *)
(* for entries without a status too, and a session of the same scan is      *)
(* taken up again, or canceled and reopened where that is possible).        *)
Promising(r) ==
  /\ run[r].pc = "list" /\ ~run[r].conflict
  /\ AllGatesPassed(Gates(run[r]))
  /\ Open(run[r].scan)
  /\ \A s \in (NoUsableId \cup Aliased) \ {run[r].scan} : sess[s].status # "IN_PROGRESS"
  /\ run[r].scan \in Aliased /\ sess[run[r].scan].status = "IN_PROGRESS" => CanceledReusable

HealthyRunPublishes ==
  \A r \in Healthy, s \in Scan :
    Promising(r) /\ run[r].scan = s
      ~> run[r].pc = "done" /\ run[r].exit = 0 /\ Completed(s)

(* Seen from outside, the push is an atomic publication (module             *)
(* Publication): a session is invisible until complete_session, and is then *)
(* the whole scan for good.                                                 *)
Abstract == INSTANCE Publication WITH
  Worthy  <- {s \in Scan : Sound(s)},
  Records <- [s \in Scan |-> RecordsOf(s)],
  visible <- [s \in Scan |-> IF Completed(s) THEN sess[s].recs ELSE {}],
  shown   <- current

PublicationSpec == Abstract!Spec

=============================================================================
