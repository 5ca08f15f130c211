--------------------------- MODULE CollectorProofs ---------------------------
(***************************************************************************)
(* The lock and the push put together, for any number of collectors, scans, *)
(* records and pids.  However collectors start, their pushes are those of   *)
(* SessionPush; if they start one at a time, those of SessionPush with      *)
(* Serial.  What is proved of either is carried over to whole runs here.    *)
(***************************************************************************)
EXTENDS Collector, TLAPS

(* The components again, with what is proved of them.                       *)
LockProof == INSTANCE StateLockProofs WITH Pid <- Run, pc <- lockPc
Overlapping == INSTANCE SessionPushProofs WITH Serial <- FALSE
Apart == INSTANCE SessionPushProofs WITH Serial <- TRUE

(* A collector between its first call and its last write is inside.         *)
Paired ==
  /\ DOMAIN run = Run
  /\ \A r \in Run : run[r].pc \in Push!Live => lockPc[r] = "inside"

(* A step of the pipeline is one of its own process only.                   *)
OfOne(r) == \E s : Push!Become(r, s)

LEMMA WorkOfOne == ASSUME NEW r \in Run, Work(r) PROVE OfOne(r)
<1> USE DEF OfOne
<1>1. CASE Push!Load(r)
  BY <1>1 DEF Push!Load
<1>2. CASE Push!EndEarly(r)
  BY <1>2 DEF Push!EndEarly
<1>3. CASE Push!Listed(r) \/ Push!ListFailed(r) \/ Push!Answered(r)
  BY <1>3 DEF Push!Listed, Push!ListFailed, Push!Answered
<1>4. CASE Push!AliasUnknown(r) \/ Push!PartlyStored(r) \/ Push!Failed(r)
             \/ Push!Retried(r) \/ Push!Surprised(r)
  BY <1>4 DEF Push!AliasUnknown, Push!PartlyStored, Push!Failed, Push!Retried,
              Push!Surprised
<1>5. CASE Push!SaveOpen(r) \/ Push!SaveWrite(r) \/ Push!Report(r) \/ Push!WriteFails(r)
  BY <1>5 DEF Push!SaveOpen, Push!SaveWrite, Push!Report, Push!WriteFails
<1> QED
  BY <1>1, <1>2, <1>3, <1>4, <1>5 DEF Work, Push!Step

LEMMA CrashOfOne ==
  ASSUME Paired, NEW r \in Run, Push!Crash(r)
  PROVE  OfOne(r) /\ run'[r].pc = "crashed"
BY DEF Paired, OfOne, Push!Crash, Push!Become, Push!Idle

LEMMA InitPaired == Init => Paired
BY DEF Init, Push!Init, Push!Idle, Push!Live, Push!Calling, Push!Acting, Push!Writing, Paired

LEMMA NextPaired == ASSUME Paired, Lock!TypeOK, [Next]_vars PROVE Paired'
<1>1. /\ lockPc \in [Run -> Lock!Phase]
      /\ DOMAIN run = Run
  BY DEF Paired, Lock!TypeOK
<1>2. /\ "crashed" \notin Push!Live /\ "done" \notin Push!Live
      /\ "idle" \notin Push!Live
  BY DEF Push!Live, Push!Calling, Push!Acting, Push!Writing
<1>3. ASSUME NEW r \in Run, Start(r) PROVE Paired'
  BY <1>1, <1>2, <1>3 DEF Start, Lock!Start, Lock!Goto, pushVars, Paired
<1>4. ASSUME NEW r \in Run, Acquire(r) PROVE Paired'
  <2>1. UNCHANGED run /\ lockPc[r] # "inside" /\ \E phase : Lock!Goto(r, phase)
    BY <1>4 DEF Acquire, pushVars, Lock!CheckExists, Lock!Read, Lock!Probe, Lock!Open, Lock!Fill
  <2> QED
    BY <1>1, <2>1 DEF Lock!Goto, Paired
<1>5. ASSUME NEW r \in Run, Work(r) PROVE Paired'
  <2>1. PICK s : run' = [run EXCEPT ![r] = s]
    BY <1>5, WorkOfOne DEF OfOne, Push!Become
  <2>2. lockPc[r] = "inside" /\ UNCHANGED lockPc
    BY <1>5 DEF Work, lockVars
  <2> QED
    BY <1>1, <2>1, <2>2 DEF Paired
<1>6. ASSUME NEW r \in Run, Leave(r) PROVE Paired'
  BY <1>1, <1>2, <1>6
  DEF Leave, Lock!Release, Lock!ReleaseFails, Lock!Goto, pushVars, Paired
<1>7. ASSUME NEW r \in Run, Kill(r) PROVE Paired'
  <2>1. lockPc' = [lockPc EXCEPT ![r] = "gone"]
    BY <1>7 DEF Kill, Lock!Die, Lock!Goto
  <2>2. /\ DOMAIN run' = Run /\ run'[r].pc \notin Push!Live
        /\ \A q \in Run \ {r} : run'[q] = run[q]
    <3>1. CASE run[r].pc \in Push!Live
      BY <1>1, <1>2, <1>7, <3>1, CrashOfOne DEF Kill, OfOne, Push!Become
    <3>2. CASE run[r].pc \notin Push!Live
      BY <1>1, <1>7, <3>2 DEF Kill, pushVars
    <3> QED
      BY <3>1, <3>2
  <2> QED
    BY <1>1, <2>1, <2>2 DEF Paired
<1>8. ASSUME NEW r \in Run, Foreign(r) PROVE Paired'
  <2>1. UNCHANGED run /\ lockPc[r] # "inside" /\ \E phase : Lock!Goto(r, phase)
    BY <1>8 DEF Foreign, pushVars, Lock!ForeignStart, Lock!ForeignEnd, Lock!Stopped
  <2> QED
    BY <1>1, <2>1 DEF Lock!Goto, Paired
<1>9. CASE Late \/ Quiescent \/ UNCHANGED vars
  BY <1>9 DEF Late, Push!Late, lockVars, Quiescent, vars, pushVars, Paired
<1> QED
  BY <1>3, <1>4, <1>5, <1>6, <1>7, <1>8, <1>9 DEF Next, Step

-----------------------------------------------------------------------------

(* Seen from the lock file, the composition is StateLock: the pipeline is a *)
(* stay inside.                                                             *)
THEOREM LockIsItself == Spec => Lock!Spec
<1>1. Init => Lock!Init
  BY DEF Init
<1>2. [Next]_vars => [Lock!Next]_(Lock!vars)
  <2> SUFFICES ASSUME [Next]_vars PROVE [Lock!Next]_(Lock!vars)
    OBVIOUS
  <2>1. ASSUME NEW r \in Run, Start(r) \/ Acquire(r) \/ Leave(r) \/ Kill(r) \/ Foreign(r)
        PROVE  Lock!Next
    BY <2>1 DEF Start, Acquire, Leave, Kill, Foreign, Lock!Next, Lock!Step
  <2>2. ASSUME NEW r \in Run, Work(r) PROVE UNCHANGED Lock!vars
    BY <2>2 DEF Work, lockVars, Lock!vars
  <2>3. CASE Late \/ Quiescent \/ UNCHANGED vars
    BY <2>3 DEF Late, Quiescent, vars, lockVars, Lock!vars
  <2> QED
    BY <2>1, <2>2, <2>3 DEF Next, Step
<1> QED
  BY <1>1, <1>2, PTL DEF Spec, Lock!Spec

(* The lock of the proofs is the lock of the composition.                   *)
LEMMA SameLock ==
  /\ Lock!Spec <=> LockProof!Spec
  /\ Lock!TypeOK <=> LockProof!TypeOK
  /\ Lock!MutualExclusion <=> LockProof!MutualExclusion
  /\ Lock!HolderOwnsFile <=> LockProof!HolderOwnsFile
<1> USE DEF Lock!Acquiring, LockProof!Acquiring, Lock!Alive, LockProof!Alive, Lock!Stopped,
            LockProof!Stopped, Lock!Phase, LockProof!Phase
<1>1. Lock!Spec <=> LockProof!Spec
  BY DEF Lock!Spec, LockProof!Spec, Lock!vars, LockProof!vars, Lock!Init, LockProof!Init,
         Lock!Next, LockProof!Next, Lock!Step, LockProof!Step, Lock!Goto, LockProof!Goto,
         Lock!Running, LockProof!Running, Lock!Available, LockProof!Available,
         Lock!Start, LockProof!Start, Lock!CheckExists, LockProof!CheckExists,
         Lock!Read, LockProof!Read, Lock!Probe, LockProof!Probe, Lock!Open, LockProof!Open,
         Lock!Fill, LockProof!Fill, Lock!Release, LockProof!Release,
         Lock!ReleaseFails, LockProof!ReleaseFails, Lock!Die,
         LockProof!Die, Lock!ForeignStart, LockProof!ForeignStart, Lock!ForeignEnd,
         LockProof!ForeignEnd, Lock!Quiescent, LockProof!Quiescent
<1>2. Lock!TypeOK <=> LockProof!TypeOK
  BY DEF Lock!TypeOK, LockProof!TypeOK
<1>3. /\ Lock!MutualExclusion <=> LockProof!MutualExclusion
      /\ Lock!HolderOwnsFile <=> LockProof!HolderOwnsFile
  BY DEF Lock!MutualExclusion, LockProof!MutualExclusion, Lock!HolderOwnsFile,
         LockProof!HolderOwnsFile
<1> QED
  BY <1>1, <1>2, <1>3

LEMMA LockWorks ==
  ASSUME Serialised
  PROVE  Spec => [](Lock!TypeOK /\ Lock!MutualExclusion /\ Lock!HolderOwnsFile)
<1>1. LockProof!LockAssumption
  BY CollectorAssumption DEF LockProof!LockAssumption
<1>2. LockProof!Spec => [](LockProof!MutualExclusion /\ LockProof!HolderOwnsFile)
  BY <1>1, LockProof!LockExcludes, PTL
<1>3. LockProof!Spec => []LockProof!TypeOK
  BY <1>1, LockProof!LockTypes, PTL
<1> QED
  BY <1>2, <1>3, SameLock, LockIsItself, PTL

(* If collectors start one at a time, only the one inside the lock calls    *)
(* Drata or writes last_run.json, and the file names it meanwhile.          *)
THEOREM WorkersHoldTheLock == ASSUME Serialised PROVE Spec => []WorkerHoldsLock
<1>1. Lock!TypeOK /\ Paired /\ [Next]_vars => Paired'
  BY NextPaired
<1>2. Paired /\ Lock!HolderOwnsFile => WorkerHoldsLock
  BY DEF Paired, Lock!HolderOwnsFile, WorkerHoldsLock
<1> QED
  BY InitPaired, <1>1, <1>2, LockWorks, PTL DEF Spec

(* And what they do to Drata and to last_run.json is what executions kept   *)
(* apart do: the constant Serial of SessionPush, discharged.                *)
THEOREM CollectorsAreSerial == ASSUME Serialised PROVE Spec => PushIsSerial
<1>1. Init => Push!Init
  BY DEF Init
<1>2. ASSUME Paired, Lock!MutualExclusion, [Next]_vars
      PROVE  [Push!Next]_(Push!vars)
  <2>1. ASSUME NEW r \in Run, Start(r) \/ Acquire(r) \/ Leave(r) \/ Foreign(r)
        PROVE  UNCHANGED Push!vars
    BY <2>1 DEF Start, Acquire, Leave, Foreign, pushVars, Push!vars
  <2>2. ASSUME NEW r \in Run, Kill(r) PROVE [Push!Next]_(Push!vars)
    BY <2>2 DEF Kill, pushVars, Push!vars, Push!Next
  <2>3. ASSUME NEW r \in Run, Work(r) PROVE Push!Next
    <3>1. CASE Push!Load(r)
      <4>1. run[r].pc = "idle" /\ lockPc[r] = "inside"
        BY <2>3, <3>1 DEF Work, Push!Load
      <4>2. run[r].pc \notin Push!Live
        BY <4>1 DEF Push!Live, Push!Calling, Push!Acting, Push!Writing
      <4>3. \A q \in Run : run[q].pc \notin Push!Live
        BY <1>2, <4>1, <4>2 DEF Paired, Lock!MutualExclusion
      <4> QED
        BY <3>1, <4>3 DEF Push!Begin, Push!Next
    <3>2. CASE Push!EndEarly(r) \/ Push!Step(r)
      BY <3>2 DEF Push!Next
    <3> QED
      BY <2>3, <3>1, <3>2 DEF Work
  <2>4. CASE Late
    BY <2>4 DEF Late, Push!Next
  <2>5. CASE Quiescent \/ UNCHANGED vars
    BY <2>5 DEF Quiescent, vars, pushVars, Push!vars
  <2> QED
    BY <1>2, <2>1, <2>2, <2>3, <2>4, <2>5 DEF Next, Step
<1>3. Lock!TypeOK /\ Paired /\ [Next]_vars => Paired'
  BY NextPaired
<1> QED
  BY InitPaired, <1>1, <1>2, <1>3, LockWorks, PTL DEF Spec, PushIsSerial, Push!Spec

-----------------------------------------------------------------------------
(***************************************************************************)
(* What is proved of the push, carried over to whole runs.                  *)
(***************************************************************************)

(* The pushes of the proofs are the push of the composition; only Begin     *)
(* looks at Serial.                                                         *)
LEMMA SamePush ==
  /\ (Push!Init <=> Apart!Init) /\ (Push!Init <=> Overlapping!Init)
  /\ [Push!Next]_(Push!vars) => [Apart!Next]_(Apart!vars)
  /\ \A r : Push!Load(r) => Overlapping!Begin(r)
  /\ \A r : Push!EndEarly(r) <=> Overlapping!EndEarly(r)
  /\ \A r : Push!Step(r) <=> Overlapping!Step(r)
  /\ \A r : Push!Crash(r) <=> Overlapping!Crash(r)
  /\ Push!Late <=> Overlapping!Late
<1> USE DEF
      Push!OwnId, Apart!OwnId, Overlapping!OwnId,
      Push!ShownId, Apart!ShownId, Overlapping!ShownId,
      Push!AliasUnknown, Apart!AliasUnknown, Overlapping!AliasUnknown,
      Push!Surprised, Apart!Surprised, Overlapping!Surprised,
      Push!NoCount, Apart!NoCount, Overlapping!NoCount, Push!GateName,
      Apart!GateName, Overlapping!GateName, Push!UploadResult, Apart!UploadResult,
      Overlapping!UploadResult, Push!ForceBypassable, Apart!ForceBypassable,
      Overlapping!ForceBypassable, Push!MinHostsGate, Apart!MinHostsGate,
      Overlapping!MinHostsGate, Push!ShrinkGate, Apart!ShrinkGate,
      Overlapping!ShrinkGate, Push!CoverageGate, Apart!CoverageGate,
      Overlapping!CoverageGate, Push!DuplicateGate, Apart!DuplicateGate,
      Overlapping!DuplicateGate, Push!BatchUploadsGate, Apart!BatchUploadsGate,
      Overlapping!BatchUploadsGate, Push!EvaluateGates, Apart!EvaluateGates,
      Overlapping!EvaluateGates, Push!ApplyForceBypass, Apart!ApplyForceBypass,
      Overlapping!ApplyForceBypass, Push!AllGatesPassed, Apart!AllGatesPassed,
      Overlapping!AllGatesPassed, Push!serviceVars, Apart!serviceVars,
      Overlapping!serviceVars, Push!RecordsOf, Apart!RecordsOf,
      Overlapping!RecordsOf, Push!SessionStatus, Apart!SessionStatus,
      Overlapping!SessionStatus, Push!Request, Apart!Request, Overlapping!Request,
      Push!ServiceTypeOK, Apart!ServiceTypeOK, Overlapping!ServiceTypeOK,
      Push!ServiceInit, Apart!ServiceInit, Overlapping!ServiceInit, Push!Busy,
      Apart!Busy, Overlapping!Busy, Push!Open, Apart!Open, Overlapping!Open,
      Push!Accepts, Apart!Accepts, Overlapping!Accepts, Push!Kept, Apart!Kept,
      Overlapping!Kept, Push!Outcome, Apart!Outcome, Overlapping!Outcome,
      Push!Apply, Apart!Apply, Overlapping!Apply, Push!Process, Apart!Process,
      Overlapping!Process, Push!Replies, Apart!Replies, Overlapping!Replies,
      Push!Unanswered, Apart!Unanswered, Overlapping!Unanswered, Push!Deliver,
      Apart!Deliver, Overlapping!Deliver, Push!Entry, Apart!Entry,
      Overlapping!Entry, Push!Listings, Apart!Listings, Overlapping!Listings,
      Push!Acting, Apart!Acting, Overlapping!Acting, Push!Calling, Apart!Calling,
      Overlapping!Calling, Push!Writing, Apart!Writing, Overlapping!Writing,
      Push!Live, Apart!Live, Overlapping!Live, Push!Ended, Apart!Ended,
      Overlapping!Ended, Push!Phase, Apart!Phase, Overlapping!Phase,
      Push!RunState, Apart!RunState, Overlapping!RunState, Push!Idle, Apart!Idle,
      Overlapping!Idle, Push!NoState, Apart!NoState, Overlapping!NoState,
      Push!RunTypeOK, Apart!RunTypeOK, Overlapping!RunTypeOK, Push!TypeOK,
      Apart!TypeOK, Overlapping!TypeOK, Push!Init, Apart!Init, Overlapping!Init,
      Push!Gates, Apart!Gates, Overlapping!Gates, Push!Batch, Apart!Batch,
      Overlapping!Batch, Push!Enter, Apart!Enter, Overlapping!Enter, Push!Exit,
      Apart!Exit, Overlapping!Exit, Push!Decide, Apart!Decide, Overlapping!Decide,
      Push!NextBatch, Apart!NextBatch, Overlapping!NextBatch, Push!AfterCleanup,
      Apart!AfterCleanup, Overlapping!AfterCleanup, Push!Cleaning, Apart!Cleaning,
      Overlapping!Cleaning, Push!AfterUpload, Apart!AfterUpload,
      Overlapping!AfterUpload, Push!AfterComplete, Apart!AfterComplete,
      Overlapping!AfterComplete, Push!AfterAbort, Apart!AfterAbort,
      Overlapping!AfterAbort, Push!After, Apart!After, Overlapping!After,
      Push!RequestOf, Apart!RequestOf, Overlapping!RequestOf, Push!Become,
      Apart!Become, Overlapping!Become, Push!Loaded, Apart!Loaded,
      Overlapping!Loaded, Push!Load, Apart!Load, Overlapping!Load, Push!EndEarly,
      Apart!EndEarly, Overlapping!EndEarly, Push!CleanupTargets,
      Apart!CleanupTargets, Overlapping!CleanupTargets, Push!Listed, Apart!Listed,
      Overlapping!Listed, Push!ListFailed, Apart!ListFailed,
      Overlapping!ListFailed, Push!Answered, Apart!Answered, Overlapping!Answered,
      Push!PartlyStored, Apart!PartlyStored, Overlapping!PartlyStored,
      Push!Failed, Apart!Failed, Overlapping!Failed, Push!Retried, Apart!Retried,
      Overlapping!Retried, Push!SaveOpen, Apart!SaveOpen, Overlapping!SaveOpen,
      Push!SaveWrite, Apart!SaveWrite, Overlapping!SaveWrite, Push!Report,
      Apart!Report, Overlapping!Report, Push!WriteFails, Apart!WriteFails,
      Overlapping!WriteFails, Push!Crash, Apart!Crash, Overlapping!Crash,
      Push!Step, Apart!Step, Overlapping!Step, Push!Late, Apart!Late,
      Overlapping!Late
<1>1. [Push!Next]_(Push!vars) => [Apart!Next]_(Apart!vars)
  BY DEF Push!Next, Apart!Next, Push!Begin, Apart!Begin, Push!Quiescent, Apart!Quiescent,
         Push!vars, Apart!vars
<1>2. (Push!Init <=> Apart!Init) /\ (Push!Init <=> Overlapping!Init)
  OBVIOUS
<1>3. \A r : Push!Load(r) => Overlapping!Begin(r)
  BY DEF Overlapping!Begin
<1>4. \A r : Push!EndEarly(r) <=> Overlapping!EndEarly(r)
  OBVIOUS
<1>5. \A r : Push!Step(r) <=> Overlapping!Step(r)
  OBVIOUS
<1>6. \A r : Push!Crash(r) <=> Overlapping!Crash(r)
  OBVIOUS
<1>7. Push!Late <=> Overlapping!Late
  OBVIOUS
<1> QED
  BY <1>1, <1>2, <1>3, <1>4, <1>5, <1>6, <1>7, Zenon

(* So are the properties.                                                   *)
LEMMA SameProperties ==
  /\ Push!TypeOK <=> Overlapping!TypeOK
  /\ Push!SavedMeansPublished <=> Overlapping!SavedMeansPublished
  /\ Push!UnsoundNeverSent <=> Overlapping!UnsoundNeverSent
  /\ Push!CompletedIsWhole <=> Overlapping!CompletedIsWhole
  /\ Push!CompletedIsWhole <=> Apart!CompletedIsWhole
  /\ Push!UploadedPrefixKept <=> Apart!UploadedPrefixKept
  /\ Push!ReportIsTrue <=> Apart!ReportIsTrue
  /\ Push!DropHasCause <=> Apart!DropHasCause
  /\ Push!PublicationSpec <=> Overlapping!PublicationSpec
  /\ Push!PublicationSpec <=> Apart!PublicationSpec
<1> USE DEF Push!Sound, Apart!Sound, Overlapping!Sound, Push!Completed, Apart!Completed,
            Overlapping!Completed, Push!RecordsOf, Apart!RecordsOf, Overlapping!RecordsOf
<1>1. Push!TypeOK <=> Overlapping!TypeOK
  BY DEF Push!TypeOK, Overlapping!TypeOK, Push!ServiceTypeOK, Overlapping!ServiceTypeOK,
         Push!SessionStatus, Overlapping!SessionStatus, Push!Request, Overlapping!Request,
         Push!RunTypeOK, Overlapping!RunTypeOK, Push!RunState, Overlapping!RunState,
         Push!Phase, Overlapping!Phase, Push!Live, Overlapping!Live, Push!Ended,
         Overlapping!Ended, Push!Calling, Overlapping!Calling, Push!Acting,
         Overlapping!Acting, Push!Writing, Overlapping!Writing, Push!UploadResult,
         Overlapping!UploadResult
<1>2. Push!SavedMeansPublished <=> Overlapping!SavedMeansPublished
  BY DEF Push!SavedMeansPublished, Overlapping!SavedMeansPublished, Push!NoState,
         Overlapping!NoState, Push!NoCount, Overlapping!NoCount
<1>3. Push!UnsoundNeverSent <=> Overlapping!UnsoundNeverSent
  BY DEF Push!UnsoundNeverSent, Overlapping!UnsoundNeverSent
<1>4. /\ Push!CompletedIsWhole <=> Overlapping!CompletedIsWhole
      /\ Push!CompletedIsWhole <=> Apart!CompletedIsWhole
  BY DEF Push!CompletedIsWhole, Overlapping!CompletedIsWhole, Apart!CompletedIsWhole
<1>5. Push!UploadedPrefixKept <=> Apart!UploadedPrefixKept
  BY DEF Push!UploadedPrefixKept, Apart!UploadedPrefixKept, Push!Filling, Apart!Filling
<1>6. Push!ReportIsTrue <=> Apart!ReportIsTrue
  BY DEF Push!ReportIsTrue, Apart!ReportIsTrue
<1>7. Push!DropHasCause <=> Apart!DropHasCause
  BY DEF Push!DropHasCause, Apart!DropHasCause, Push!ShownMayShrinkTo,
         Apart!ShownMayShrinkTo, Push!EndedBadly, Apart!EndedBadly, Push!vars, Apart!vars
<1>8. Push!PublicationSpec <=> Overlapping!PublicationSpec
  BY DEF Push!PublicationSpec, Overlapping!PublicationSpec,
         Push!Abstract!Spec, Overlapping!Abstract!Spec,
         Push!Abstract!Init, Overlapping!Abstract!Init,
         Push!Abstract!Next, Overlapping!Abstract!Next,
         Push!Abstract!Publish, Overlapping!Abstract!Publish,
         Push!Abstract!publicationVars, Overlapping!Abstract!publicationVars
<1>9. Push!PublicationSpec <=> Apart!PublicationSpec
  BY DEF Push!PublicationSpec, Apart!PublicationSpec,
         Push!Abstract!Spec, Apart!Abstract!Spec,
         Push!Abstract!Init, Apart!Abstract!Init,
         Push!Abstract!Next, Apart!Abstract!Next,
         Push!Abstract!Publish, Apart!Abstract!Publish,
         Push!Abstract!publicationVars, Apart!Abstract!publicationVars
<1> QED
  BY <1>1, <1>2, <1>3, <1>4, <1>5, <1>6, <1>7, <1>8, <1>9

(* However collectors start, and whatever becomes of the lock, what they do *)
(* to Drata and to last_run.json is what executions of SessionPush do that  *)
(* nothing keeps apart.                                                     *)
THEOREM CollectorsPush == Spec => Overlapping!Spec
<1>1. Init => Overlapping!Init
  BY SamePush DEF Init
<1>2. [Next]_vars => [Overlapping!Next]_(Overlapping!vars)
  <2> SUFFICES ASSUME [Next]_vars PROVE [Overlapping!Next]_(Overlapping!vars)
    OBVIOUS
  <2>1. ASSUME NEW r \in Run, Start(r) \/ Acquire(r) \/ Leave(r) \/ Foreign(r)
        PROVE  UNCHANGED Overlapping!vars
    BY <2>1 DEF Start, Acquire, Leave, Foreign, pushVars, Overlapping!vars
  <2>2. ASSUME NEW r \in Run, Kill(r) PROVE [Overlapping!Next]_(Overlapping!vars)
    BY <2>2, SamePush DEF Kill, pushVars, Overlapping!vars, Overlapping!Next
  <2>3. ASSUME NEW r \in Run, Work(r) PROVE Overlapping!Next
    BY <2>3, SamePush DEF Work, Overlapping!Next
  <2>4. CASE Late
    BY <2>4, SamePush DEF Late, Overlapping!Next
  <2>5. CASE Quiescent \/ UNCHANGED vars
    BY <2>5 DEF Quiescent, vars, pushVars, Overlapping!vars
  <2> QED
    BY <2>1, <2>2, <2>3, <2>4, <2>5 DEF Next, Step
<1> QED
  BY <1>1, <1>2, PTL DEF Spec, Overlapping!Spec

LEMMA PartsAssume ==
  /\ Overlapping!ServiceAssumption /\ Overlapping!GateAssumption
  /\ Overlapping!PushAssumption
  /\ Apart!ServiceAssumption /\ Apart!GateAssumption /\ Apart!PushAssumption
BY CollectorAssumption
DEF Push!ServiceAssumption, Push!GateAssumption, Push!PushAssumption,
    Overlapping!ServiceAssumption, Overlapping!GateAssumption, Overlapping!PushAssumption,
    Apart!ServiceAssumption, Apart!GateAssumption, Apart!PushAssumption

(* Also when several collectors are at work at once, last_run.json names a  *)
(* completed session of the count it gives, and nothing of an unsound scan  *)
(* is ever sent.                                                            *)
THEOREM CollectorsAreSound ==
  Spec => [](Push!TypeOK /\ Push!SavedMeansPublished /\ Push!UnsoundNeverSent)
<1>1. Overlapping!Spec => []Overlapping!TypeOK
  BY PartsAssume, Overlapping!TypeCorrect, PTL
<1>2. Overlapping!Spec => []Overlapping!SavedMeansPublished
  BY PartsAssume, Overlapping!SavedRunIsPublished, PTL
<1>3. Overlapping!Spec => []Overlapping!UnsoundNeverSent
  BY PartsAssume, Overlapping!UnsoundScansStayHome, PTL
<1> QED
  BY <1>1, <1>2, <1>3, CollectorsPush, SameProperties, PTL

(* A lock that fails tears nothing apart: where a canceled session is not   *)
(* opened again and no rejection is overlooked, Drata shows whole scans     *)
(* only, and one at a time, with any number of collectors at work.          *)
THEOREM CollectorsPublishAtomically ==
  ASSUME ~CanceledReusable, ~Unverified
  PROVE  Spec => []Push!CompletedIsWhole /\ Push!PublicationSpec
<1>1. Overlapping!Spec => []Overlapping!CompletedIsWhole
  BY PartsAssume, Overlapping!CompletedSessionsAreWhole, PTL
<1>2. Overlapping!Spec => Overlapping!PublicationSpec
  BY PartsAssume, Overlapping!PushPublishesAtomically, PTL
<1> QED
  BY <1>1, <1>2, CollectorsPush, SameProperties, PTL

(* Collectors that start one at a time, over a network that applies no      *)
(* request late, with no rejection overlooked: what the push promises to    *)
(* executions kept apart is true of whole runs, whatever the lock file goes *)
(* through and whatever ids listings show.  A session that is shown by its  *)
(* sessionId keeps its batches, an exit code that is reported is the truth, *)
(* and what Drata shows shrinks for a cause only; and if a scan of several  *)
(* batches is always shown by its sessionId, whole scans only are shown.    *)
THEOREM CollectorsKeepTheirPromises ==
  ASSUME Serialised, ~Delayed, ~Unverified
  PROVE  Spec => /\ [](Push!UploadedPrefixKept /\ Push!ReportIsTrue)
                 /\ Push!DropHasCause
                 /\ Push!AliasedFitOneBatch =>
                      []Push!CompletedIsWhole /\ Push!PublicationSpec
<1>1. ASSUME Push!AliasedFitOneBatch
      PROVE  Apart!Spec => []Apart!CompletedIsWhole /\ Apart!PublicationSpec
  <2>1. Apart!AliasedFitOneBatch
    BY <1>1 DEF Push!AliasedFitOneBatch, Apart!AliasedFitOneBatch
  <2>2. Apart!Spec => []Apart!CompletedIsWhole
    BY <2>1, PartsAssume, Apart!SerialSessionsAreWhole, PTL
  <2>3. Apart!Spec => Apart!PublicationSpec
    BY <2>1, PartsAssume, Apart!SerialPushPublishesAtomically, PTL
  <2> QED
    BY <2>2, <2>3
<1>2. Apart!Spec => []Apart!UploadedPrefixKept
  BY PartsAssume, Apart!UploadsAreKept, PTL
<1>3. Apart!Spec => []Apart!ReportIsTrue
  BY PartsAssume, Apart!ReportsAreTrue, PTL
<1>4. Apart!Spec => Apart!DropHasCause
  BY PartsAssume, Apart!LossesHaveCauses, PTL
<1>6. Spec => Apart!Spec
  BY CollectorsAreSerial, SamePush, PTL DEF PushIsSerial, Push!Spec, Apart!Spec
<1>7. Spec => [](Push!UploadedPrefixKept /\ Push!ReportIsTrue) /\ Push!DropHasCause
  BY <1>2, <1>3, <1>4, <1>6, SameProperties, PTL
<1>8. ASSUME Push!AliasedFitOneBatch
      PROVE  Spec => []Push!CompletedIsWhole /\ Push!PublicationSpec
  BY <1>1, <1>6, <1>8, SameProperties, PTL
<1> QED
  BY <1>7, <1>8

=============================================================================
