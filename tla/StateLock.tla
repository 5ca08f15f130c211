------------------------------ MODULE StateLock ------------------------------
(***************************************************************************)
(* acquire_lock of src/nessus_drata/state.py: the file collector.lock that  *)
(* holds the pid of the collector at work.  Every access to the file is a   *)
(* step of its own, since the code takes no lock of the operating system.   *)
(*                                                                          *)
(* Processes are named by their pids.  A process that has ended may come    *)
(* back as another collector or, while its pid belongs to a program that is *)
(* not a collector, as "foreign" (if PidReuse).  All pids have as many      *)
(* digits: a file written by two processes holds the pid written last.      *)
(*                                                                          *)
(* The file outlives its writers: what the model begins with is whatever a  *)
(* collector of an earlier day, killed or unable to remove it, has left.    *)
(***************************************************************************)
CONSTANTS
  Pid,         \* process ids
  PidReuse,    \* the system may hand out the pid of an ended process again
  Serialised   \* collectors start one at a time (task: MultipleInstances IgnoreNew)

ASSUME LockAssumption ==
  /\ PidReuse \in BOOLEAN
  /\ Serialised \in BOOLEAN
  /\ "absent" \notin Pid /\ "empty" \notin Pid

VARIABLES
  file,    \* collector.lock: "absent", "empty" (or unreadable), or a pid
  pc,      \* where each process is
  held,    \* held[p]: the pid that p has read (held_pid)
  handle   \* handle[p]: the file p is writing is the one at the path

vars == <<file, pc, held, handle>>

Acquiring == {"exists", "read", "probe", "open", "fill"}
Alive     == Acquiring \cup {"inside", "foreign"}
Stopped   == {"new", "gone", "refused"}
Phase     == Alive \cup Stopped

TypeOK ==
  /\ file \in Pid \cup {"absent", "empty"}
  /\ pc \in [Pid -> Phase]
  /\ held \in [Pid -> Pid \cup {"empty"}]
  /\ handle \in [Pid -> BOOLEAN]

Init ==
  /\ file \in Pid \cup {"absent", "empty"}
  /\ pc = [p \in Pid |-> "new"]
  /\ held = [p \in Pid |-> "empty"]
  /\ handle = [p \in Pid |-> FALSE]

Goto(p, phase) == pc' = [pc EXCEPT ![p] = phase]

(* os.kill(pid, 0) or OpenProcess: does a process of this pid exist?        *)
Running(p) == pc[p] \in Alive

(* The system starts a process with this pid.                               *)
Available(p) == pc[p] = "new" \/ (PidReuse /\ pc[p] \in Stopped)

Start(p) ==
  /\ Available(p)
  /\ Serialised => \A q \in Pid : pc[q] \notin Acquiring
  /\ Goto(p, "exists")
  /\ held' = [held EXCEPT ![p] = "empty"]
  /\ handle' = [handle EXCEPT ![p] = FALSE]
  /\ UNCHANGED file

(* lock_path.exists()                                                       *)
CheckExists(p) ==
  /\ pc[p] = "exists"
  /\ Goto(p, IF file = "absent" THEN "open" ELSE "read")
  /\ UNCHANGED <<file, held, handle>>

(* A careless variant of the next definition: whatever was read is kept.    *)
ReadUnchecked(p) ==
  /\ pc[p] = "read"
  /\ Goto(p, IF file \in Pid THEN "probe" ELSE "open")
  /\ held' = [held EXCEPT ![p] = file]
  /\ UNCHANGED <<file, handle>>

(* read_text and int: a file that is gone by now or has no number in it     *)
(* leaves held_pid None.                                                    *)
Read(p) ==
  /\ pc[p] = "read"
  /\ IF file \in Pid
     THEN Goto(p, "probe") /\ held' = [held EXCEPT ![p] = file]
     ELSE Goto(p, "open") /\ UNCHANGED held
  /\ UNCHANGED <<file, handle>>

(* A careless variant of the next definition: the lock is always reclaimed. *)
ProbeTrusting(p) ==
  /\ pc[p] = "probe"
  /\ Goto(p, "open")
  /\ UNCHANGED <<file, held, handle>>

(* A careless variant: any pid in the file is taken for a running process.  *)
ProbeTimid(p) ==
  /\ pc[p] = "probe"
  /\ Goto(p, "refused")
  /\ UNCHANGED <<file, held, handle>>

(* A careless variant: the refused collector runs the finally clause too.   *)
ProbeUnlinking(p) ==
  /\ pc[p] = "probe"
  /\ Goto(p, IF Running(held[p]) THEN "refused" ELSE "open")
  /\ file' = IF Running(held[p]) THEN "absent" ELSE file
  /\ UNCHANGED <<held, handle>>

(* _pid_is_running, then LockHeldError (exit 6).                            *)
Probe(p) ==
  /\ pc[p] = "probe"
  /\ Goto(p, IF Running(held[p]) THEN "refused" ELSE "open")
  /\ UNCHANGED <<file, held, handle>>

(* write_text opens and truncates, or creates, the file ...                 *)
Open(p) ==
  /\ pc[p] = "open"
  /\ Goto(p, "fill")
  /\ file' = "empty"
  /\ handle' = [handle EXCEPT ![p] = TRUE]
  /\ UNCHANGED held

(* ... and writes the pid.                                                  *)
Fill(p) ==
  /\ pc[p] = "fill"
  /\ Goto(p, "inside")
  /\ file' = IF handle[p] THEN p ELSE file
  /\ UNCHANGED <<held, handle>>

(* The finally clause: unlink whatever file is there.  Who was writing the  *)
(* file at that moment writes to one that has no name any more.             *)
Release(p) ==
  /\ pc[p] = "inside"
  /\ Goto(p, "gone")
  /\ file' = "absent"
  /\ handle' = [q \in Pid |-> FALSE]
  /\ UNCHANGED held

(* An unlink that is refused (on Windows, of a file somebody has open) is   *)
(* not the FileNotFoundError that is caught: the file stays, and the run    *)
(* exits 1 whatever its pipeline returned.                                  *)
ReleaseFails(p) ==
  /\ pc[p] = "inside"
  /\ Goto(p, "gone")
  /\ UNCHANGED <<file, held, handle>>

(* The process is killed, or write_text raises: the file stays as it is.    *)
Die(p) ==
  /\ pc[p] \in Acquiring \cup {"inside"}
  /\ Goto(p, "gone")
  /\ UNCHANGED <<file, held, handle>>

(* A program that is not a collector gets the pid, and ends again.          *)
ForeignStart(p) ==
  /\ PidReuse /\ pc[p] \in Stopped
  /\ Goto(p, "foreign")
  /\ UNCHANGED <<file, held, handle>>

ForeignEnd(p) ==
  /\ pc[p] = "foreign"
  /\ Goto(p, "gone")
  /\ UNCHANGED <<file, held, handle>>

Step(p) ==
  \/ CheckExists(p) \/ Read(p) \/ Probe(p) \/ Open(p) \/ Fill(p) \/ Release(p)

(* No process is left; the model ends here, the deployment does not.        *)
Quiescent == (\A p \in Pid : pc[p] \in Stopped) /\ UNCHANGED vars

Next ==
  \/ \E p \in Pid :
       \/ Start(p) \/ Step(p) \/ ReleaseFails(p) \/ Die(p)
       \/ ForeignStart(p) \/ ForeignEnd(p)
  \/ Quiescent

Spec == Init /\ [][Next]_vars

(***************************************************************************)
(* Properties.                                                              *)
(***************************************************************************)

(* At most one collector is past acquire_lock (tests/test_state.py,         *)
(* test_acceptance_17_second_acquire_while_live_pid_holds_lock_raises).     *)
MutualExclusion ==
  \A p, q \in Pid : pc[p] = "inside" /\ pc[q] = "inside" => p = q

(* The lock file names the collector inside, from the moment it has written *)
(* its pid to its unlink: nobody else overwrites or removes the file.       *)
HolderOwnsFile == \A p \in Pid : pc[p] = "inside" => file = p

=============================================================================
