----------------------------- MODULE MCCollector -----------------------------
(* Instances of Collector for TLC: one scan with one record.                *)
EXTENDS Collector

CONSTANTS A, r1, r2

OnlyA      == {A}
CountOf    == [s \in Scan |-> 1]
TwoRuns    == {r1, r2}
NoScans    == {}
OnlyR2     == {r2}

=============================================================================
