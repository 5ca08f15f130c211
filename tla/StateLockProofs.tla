--------------------------- MODULE StateLockProofs ---------------------------
(***************************************************************************)
(* Mutual exclusion of StateLock for any number of processes, with kills at *)
(* any point, pids that are reused, lock files that cannot be removed and   *)
(* any file to begin with, provided that collectors enter acquire_lock one  *)
(* at a time.                                                               *)
(***************************************************************************)
EXTENDS StateLock, TLAPS

(* MutualExclusion says nothing of how it comes about: a process on its way *)
(* in has seen that the file is not the lock of anybody inside.             *)
OneAcquires == \A p, q \in Pid : pc[p] \in Acquiring /\ pc[q] \in Acquiring => p = q

FoundFree == \A p \in Pid : pc[p] \in {"open", "fill"} => \A q \in Pid : pc[q] # "inside"

HasReadHolder ==
  \A p \in Pid : pc[p] = "probe" => \A q \in Pid : pc[q] = "inside" => held[p] = q

WritesInPlace == \A p \in Pid : pc[p] = "fill" => handle[p]

IInv ==
  /\ TypeOK
  /\ OneAcquires
  /\ FoundFree
  /\ HasReadHolder
  /\ WritesInPlace
  /\ HolderOwnsFile

LEMMA InitTypes == Init => TypeOK
  BY DEF Init, TypeOK, Phase, Alive, Acquiring, Stopped

LEMMA NextTypes == TypeOK /\ [Next]_vars => TypeOK'
  <1> SUFFICES ASSUME TypeOK, [Next]_vars PROVE TypeOK'
    OBVIOUS
  <1> USE LockAssumption DEF TypeOK, Goto, Phase, Alive, Acquiring, Stopped
  <1>1. ASSUME NEW p \in Pid, Start(p) \/ CheckExists(p) PROVE TypeOK'
    BY <1>1 DEF Start, CheckExists
  <1>2. ASSUME NEW p \in Pid, Read(p) \/ Probe(p) PROVE TypeOK'
    BY <1>2 DEF Read, Probe
  <1>3. ASSUME NEW p \in Pid, Open(p) \/ Fill(p) PROVE TypeOK'
    BY <1>3 DEF Open, Fill
  <1>4. ASSUME NEW p \in Pid,
               \/ Release(p) \/ ReleaseFails(p) \/ Die(p)
               \/ ForeignStart(p) \/ ForeignEnd(p)
        PROVE  TypeOK'
    BY <1>4 DEF Release, ReleaseFails, Die, ForeignStart, ForeignEnd
  <1>5. CASE UNCHANGED vars
    BY <1>5 DEF vars
  <1> QED
    BY <1>1, <1>2, <1>3, <1>4, <1>5 DEF Next, Step, Quiescent

(* The types, however collectors start: in particular the pid a collector   *)
(* has read is one, whatever it finds in the file.                          *)
THEOREM LockTypes == Spec => []TypeOK
  BY InitTypes, NextTypes, PTL DEF Spec

LEMMA InitIInv == Init => IInv
  BY DEF Init, IInv, TypeOK, OneAcquires, FoundFree, HasReadHolder, WritesInPlace,
         HolderOwnsFile, Phase, Alive, Acquiring, Stopped

LEMMA NextIInv == ASSUME Serialised PROVE IInv /\ [Next]_vars => IInv'
  <1> SUFFICES ASSUME IInv, [Next]_vars PROVE IInv'
    OBVIOUS
  <1> USE LockAssumption DEF IInv, TypeOK, Goto, Phase, Alive, Acquiring, Stopped
  <1>1. ASSUME NEW p \in Pid, Start(p) PROVE IInv'
    BY <1>1 DEF Start, Available, OneAcquires, FoundFree, HasReadHolder, WritesInPlace,
                HolderOwnsFile
  <1>2. ASSUME NEW p \in Pid, CheckExists(p) PROVE IInv'
    BY <1>2 DEF CheckExists, OneAcquires, FoundFree, HasReadHolder, WritesInPlace,
                HolderOwnsFile
  <1>3. ASSUME NEW p \in Pid, Read(p) PROVE IInv'
    BY <1>3 DEF Read, OneAcquires, FoundFree, HasReadHolder, WritesInPlace, HolderOwnsFile
  <1>4. ASSUME NEW p \in Pid, Probe(p) PROVE IInv'
    BY <1>4 DEF Probe, Running, OneAcquires, FoundFree, HasReadHolder, WritesInPlace,
                HolderOwnsFile
  <1>5. ASSUME NEW p \in Pid, Open(p) PROVE IInv'
    BY <1>5 DEF Open, OneAcquires, FoundFree, HasReadHolder, WritesInPlace, HolderOwnsFile
  <1>6. ASSUME NEW p \in Pid, Fill(p) PROVE IInv'
    BY <1>6 DEF Fill, OneAcquires, FoundFree, HasReadHolder, WritesInPlace, HolderOwnsFile
  <1>7. ASSUME NEW p \in Pid, Release(p) PROVE IInv'
    BY <1>7 DEF Release, OneAcquires, FoundFree, HasReadHolder, WritesInPlace,
                HolderOwnsFile
  <1>8. ASSUME NEW p \in Pid,
               ReleaseFails(p) \/ Die(p) \/ ForeignStart(p) \/ ForeignEnd(p)
        PROVE  IInv'
    BY <1>8 DEF ReleaseFails, Die, ForeignStart, ForeignEnd, OneAcquires, FoundFree,
                HasReadHolder, WritesInPlace, HolderOwnsFile
  <1>9. CASE UNCHANGED vars
    BY <1>9 DEF vars, OneAcquires, FoundFree, HasReadHolder, WritesInPlace, HolderOwnsFile
  <1> QED
    BY <1>1, <1>2, <1>3, <1>4, <1>5, <1>6, <1>7, <1>8, <1>9 DEF Next, Step, Quiescent

(* When collectors enter acquire_lock one at a time, at most one is past it *)
(* at any moment, and the file names it until it leaves.                    *)
THEOREM LockExcludes ==
  ASSUME Serialised PROVE Spec => [](MutualExclusion /\ HolderOwnsFile)
  <1>1. IInv => MutualExclusion /\ HolderOwnsFile
    BY DEF IInv, MutualExclusion, HolderOwnsFile
  <1> QED
    BY InitIInv, NextIInv, <1>1, PTL DEF Spec

(* The lock file is the holder's alone: it has the pid of the collector     *)
(* inside from the write of the pid to the unlink, whoever else is killed,  *)
(* refused or reclaims a stale file meanwhile.                              *)
THEOREM HolderKeepsFile == ASSUME Serialised PROVE Spec => []HolderOwnsFile
  BY LockExcludes, PTL

=============================================================================
