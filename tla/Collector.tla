------------------------------ MODULE Collector ------------------------------
(***************************************************************************)
(* Whole runs of the collector (cmd_run of src/nessus_drata/cli.py): the    *)
(* lock of module StateLock around the pipeline of module SessionPush.      *)
(*                                                                          *)
(* A member of Run is a pid under which one pipeline is run, though several *)
(* collectors may be started under it that are refused or killed before.    *)
(* The phases of the pipeline before the push are the time a collector      *)
(* spends inside the lock with its push still idle.                         *)
(***************************************************************************)
EXTENDS Integers

CONSTANTS
  (* of the service *)
  Scan, NoScan, Count, CanceledReusable, Delayed, NoStatus, NoUsableId,
  Aliased,
  (* of the gates and the push *)
  MinHosts, ShrinkNum, ShrinkDen,
  Run, NoMatch, Duplicated, BatchSize, MaxRetries, Forces, Healthy, Unverified,
  (* of the lock *)
  PidReuse, Serialised

VARIABLES
  sess, current, inflight, lastRun, run,   \* as in SessionPush
  file, lockPc, held, handle               \* as in StateLock, pc renamed

Lock == INSTANCE StateLock WITH Pid <- Run, pc <- lockPc

(* Of its steps the composition takes Load, not Begin: what keeps executions*)
(* apart here is the lock, not the constant Serial.                         *)
Push == INSTANCE SessionPush WITH Serial <- TRUE

(* What the parts assume of their constants.                                *)
ASSUME CollectorAssumption ==
  /\ Lock!LockAssumption
  /\ Push!ServiceAssumption /\ Push!GateAssumption /\ Push!PushAssumption

pushVars == <<sess, current, inflight, lastRun, run>>
lockVars == <<file, lockPc, held, handle>>
vars     == <<pushVars, lockVars>>

Init == Lock!Init /\ Push!Init

(* A collector is started; the lock file may hold its own pid, left by one  *)
(* that had the same.                                                       *)
Start(r) ==
  /\ run[r].pc = "idle"
  /\ Lock!Start(r)
  /\ UNCHANGED pushVars

(* acquire_lock; a collector that is refused ends with exit code 6.         *)
Acquire(r) ==
  /\ \/ Lock!CheckExists(r) \/ Lock!Read(r) \/ Lock!Probe(r)
     \/ Lock!Open(r) \/ Lock!Fill(r)
  /\ UNCHANGED pushVars

(* _run_pipeline inside the with statement.                                 *)
Work(r) ==
  /\ lockPc[r] = "inside"
  /\ Push!Load(r) \/ Push!EndEarly(r) \/ Push!Step(r)
  /\ UNCHANGED lockVars

(* A careless variant of the next definition: the lock is given back while  *)
(* the pipeline is at work.                                                 *)
LeaveEarly(r) == run[r].pc # "idle" /\ Lock!Release(r) /\ UNCHANGED pushVars

(* The pipeline has returned or raised: the lock is given back, if the file *)
(* can be removed.                                                          *)
Leave(r) ==
  /\ run[r].pc = "done"
  /\ Lock!Release(r) \/ (r \notin Healthy /\ Lock!ReleaseFails(r))
  /\ UNCHANGED pushVars

(* The process is killed, wherever it is.                                   *)
Kill(r) ==
  /\ r \notin Healthy
  /\ Lock!Die(r)
  /\ IF run[r].pc \in Push!Live THEN Push!Crash(r) ELSE UNCHANGED pushVars

Foreign(r) ==
  /\ Lock!ForeignStart(r) \/ Lock!ForeignEnd(r)
  /\ UNCHANGED pushVars

Late == Push!Late /\ UNCHANGED lockVars

(* No process is left; the model ends here, the deployment does not.        *)
Quiescent ==
  /\ \A r \in Run : lockPc[r] \in {"gone", "refused"}
  /\ inflight = {}
  /\ UNCHANGED vars

Step(r) == Acquire(r) \/ Work(r) \/ Leave(r)

Next ==
  \/ \E r \in Run : Start(r) \/ Step(r) \/ Kill(r) \/ Foreign(r)
  \/ Late
  \/ Quiescent

Spec == Init /\ [][Next]_vars

(* A process that the system runs goes on running, and its calls end.       *)
FairSpec == Spec /\ \A r \in Run : WF_vars(Step(r))

(***************************************************************************)
(* Properties.                                                              *)
(***************************************************************************)

(* Whoever talks to Drata or writes last_run.json is inside the lock, and   *)
(* the lock file holds its pid for as long as it does (cmd_run: the whole   *)
(* pipeline is inside the with statement).                                  *)
WorkerHoldsLock ==
  \A r \in Run : run[r].pc \in Push!Live => lockPc[r] = "inside" /\ file = r

(* If collectors start one at a time, the lock makes executions serial: the *)
(* composition implements SessionPush with Serial, the assumption under     *)
(* which its runs are checked.                                              *)
PushIsSerial == Push!Spec

(* A collector that meets no fault and starts while no other is at work     *)
(* gets the lock, ends its pipeline, and leaves no lock file, whatever      *)
(* earlier collectors left behind (tests/test_state.py,                     *)
(* test_acceptance_18_dead_pid_lock_is_reclaimed), but for two stale files  *)
(* that refuse it: one with a pid another program has got, and one with the *)
(* pid it has got itself, for a collector takes itself for the holder.      *)
StartsAlone(r) ==
  /\ lockPc[r] = "exists"
  /\ \A q \in Run \ {r} : ~Lock!Running(q)

LockIsReturned ==
  \A r \in Healthy :
    StartsAlone(r) ~>
      \/ run[r].pc = "done" /\ lockPc[r] = "gone" /\ file # r
      \/ lockPc[r] = "refused" /\ (held[r] = r \/ lockPc[held[r]] = "foreign")

=============================================================================
