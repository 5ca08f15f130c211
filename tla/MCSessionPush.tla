---------------------------- MODULE MCSessionPush ----------------------------
(* Instances of SessionPush for TLC.  Scans: A has 3 records (two batches), *)
(* B one, a drop below max_shrink_ratio 4/5; D yields two records with one  *)
(* id, and E, a scan without hosts, none.                                   *)
EXTENDS SessionPush, FiniteSets, TLC

CONSTANTS A, B, D, E, r1, r2, r3

TwoScans   == {A, B}
AllScans   == {A, B, D, E}
CountOf    == [s \in Scan |-> CASE s = A -> 3 [] s = B -> 1 [] s = D -> 2 [] s = E -> 0]
TwoRuns    == {r1, r2}
ThreeRuns  == {r1, r2, r3}
NoRuns     == {}
NoScans    == {}
OnlyA      == {A}
OnlyB      == {B}
OnlyD      == {D}
OnlyR3     == {r3}

(* Executions that may meet the same faults are interchangeable.            *)
RunSymmetry == Permutations(Run)

=============================================================================
