----------------------------- MODULE MCStateLock -----------------------------
(* Instances of StateLock for TLC.                                          *)
EXTENDS StateLock, FiniteSets, TLC

CONSTANTS p1, p2, p3

TwoPids   == {p1, p2}
ThreePids == {p1, p2, p3}

(* Every pid may do the same things.                                        *)
PidSymmetry == Permutations(Pid)

=============================================================================
