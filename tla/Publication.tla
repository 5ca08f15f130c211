----------------------------- MODULE Publication -----------------------------
(***************************************************************************)
(* What the collector promises to whoever looks at Drata: a scan's records  *)
(* appear all at once or not at all, they never change again, only scans    *)
(* worth publishing appear, and what is shown is what was published last.   *)
(***************************************************************************)
EXTENDS Integers

CONSTANTS
  Scan,      \* scans
  Worthy,    \* the scans worth publishing
  Records,   \* Records[s]: the records of a scan
  NoScan     \* shown before anything was published

VARIABLES
  visible,   \* visible[s]: the records of s that Drata shows
  shown      \* the scan published last

publicationVars == <<visible, shown>>

Init ==
  /\ visible = [s \in Scan |-> {}]
  /\ shown = NoScan

Publish(s) ==
  /\ visible[s] = {}
  /\ visible' = [visible EXCEPT ![s] = Records[s]]
  /\ shown' = s

Next == \E s \in Worthy : Publish(s)

Spec == Init /\ [][Next]_publicationVars

=============================================================================
