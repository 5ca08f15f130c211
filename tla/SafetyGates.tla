----------------------------- MODULE SafetyGates -----------------------------
(***************************************************************************)
(* The five safety gates of src/nessus_drata/safety.py: what evaluate_gates *)
(* computes, what --force may override, and when a set of gates passes.     *)
(* A gate is reduced to whether it passed; the texts of the reasons, which  *)
(* also tell a bypassed gate from a passed one, are left out.               *)
(* max_shrink_ratio is the fraction ShrinkNum / ShrinkDen, so that the      *)
(* comparison of _gate_max_shrink_ratio stays within the integers.          *)
(***************************************************************************)
EXTENDS Integers

CONSTANTS MinHosts, ShrinkNum, ShrinkDen

ASSUME GateAssumption ==
  /\ MinHosts \in Nat
  /\ ShrinkNum \in Nat
  /\ ShrinkDen \in Nat \ {0}

(* None of the Python code, for a record count that was never saved.        *)
NoCount == -1

GateName == {"min_hosts", "max_shrink_ratio", "manifest_coverage",
             "duplicate_ids", "batch_uploads"}

(* What is known of the batch uploads when the gates are evaluated: None    *)
(* before the loop, otherwise whether a failed batch is in the list.        *)
UploadResult == {"unattempted", "ok", "failed"}

ForceBypassable == {"min_hosts", "max_shrink_ratio"}

MinHostsGate(count) == count >= MinHosts

ShrinkGate(count, prior) ==
  prior = NoCount \/ count * ShrinkDen >= prior * ShrinkNum

(* Low coverage alone passes; only a "no results" reason fails the gate.    *)
CoverageGate(noResults) == ~noResults

DuplicateGate(duplicates) == ~duplicates

(* A lenient variant of the next definition: a failed batch is overlooked.  *)
BatchUploadsGateLenient(uploads) == uploads \in UploadResult

BatchUploadsGate(uploads) == uploads # "failed"

EvaluateGates(count, prior, noResults, duplicates, uploads) ==
  [g \in GateName |->
     CASE g = "min_hosts"         -> MinHostsGate(count)
       [] g = "max_shrink_ratio"  -> ShrinkGate(count, prior)
       [] g = "manifest_coverage" -> CoverageGate(noResults)
       [] g = "duplicate_ids"     -> DuplicateGate(duplicates)
       [] g = "batch_uploads"     -> BatchUploadsGate(uploads)]

(* A careless variant of the next definition: --force overrides every gate. *)
ApplyForceToAll(gates, force) == [g \in GateName |-> force \/ gates[g]]

ApplyForceBypass(gates, force) ==
  [g \in GateName |-> (force /\ g \in ForceBypassable) \/ gates[g]]

AllGatesPassed(gates) == \A g \in GateName : gates[g]

=============================================================================
