---------------------------- MODULE MCNessusExport ----------------------------
(* Instances of NessusExport for TLC.  An export is ready at any second up  *)
(* to the longest wait, or never (99).                                      *)
EXTENDS NessusExport

ReadyAnyTime == 0..WaitLimit \cup {99}
ReadyOrNot   == {0, 99}
Nothing      == {}
SomeUndated  == {1, 3}

=============================================================================
