-------------------------- MODULE NessusExportProofs --------------------------
(***************************************************************************)
(* What module NessusExport promises for any number of executions of the    *)
(* scan, any delays, any time limit and any duration of a status call.      *)
(*                                                                          *)
(* The export is right because a completed execution stays completed: what  *)
(* get_scan has said of it still holds when it is exported under its own    *)
(* history_id.  The wait is bounded because a poll is only put off when     *)
(* the last answer came before the limit.                                   *)
(***************************************************************************)
EXTENDS NessusExport, SequenceTheorems, TLAPS

Status == {"running", "completed", "canceled"}

(* TypeOK, and what later steps need to keep it.                            *)
Typing ==
  /\ history \in Seq(Status)
  /\ pc \in Calling \cup Ended
  /\ pinned \in 0..Len(history) /\ label \in 0..Len(history) /\ entry \in 0..Len(history)
  /\ finished \in BOOLEAN
  /\ readyAt \in Nat /\ clock \in Nat
  /\ exit \in {0, 1, 2, 3}
  /\ exit = 0 <=> pc \in Calling \cup {"done"}
  /\ pc \in Exported => entry > 0
  /\ pc = "request" => Len(history) > 0

(* A step of the console leaves what is completed as it is.                 *)
LEMMA HistoryGrows ==
  ASSUME Typing, Launch \/ ScanEnds
  PROVE  /\ history' \in Seq(Status)
         /\ Len(history') >= Len(history)
         /\ \A i \in DOMAIN history :
              i \in DOMAIN history' /\ (history[i] = "completed" => history'[i] = "completed")
<1>1. CASE Launch
  <2>1. history' = Append(history, "running")
    BY <1>1 DEF Launch
  <2> QED
    BY <2>1 DEF Typing, Status
<1>2. CASE ScanEnds
  <2>1. PICK i \in DOMAIN history, status \in {"completed", "canceled"} :
          history[i] = "running" /\ history' = [history EXCEPT ![i] = status]
    BY <1>2 DEF ScanEnds
  <2> QED
    BY <2>1 DEF Typing, Status
<1> QED
  BY <1>1, <1>2

(* The steps of the collector, by what they do to the phase.                *)
LEMMA TypingKept == ASSUME Typing, [Next]_vars PROVE Typing'
<1> USE ExportAssumption
<1>1. CASE Launch \/ ScanEnds
  <2>1. UNCHANGED client
    BY <1>1 DEF Launch, ScanEnds
  <2> QED
    BY <1>1, <2>1, HistoryGrows DEF Typing, client
<1>2. CASE Resolve
  BY <1>2 DEF Typing, Resolve, Goto, Fail, Calling, Ended, Exported
<1>3. CASE GetScan
  <2>1. PICK i \in Finished : Choose(i, 0) \/ Choose(i, i)
    <3>1. CASE UseLatestHistory
      BY <1>3, <3>1 DEF GetScan, PickFromHistory, Newest, IdOf
    <3>2. CASE ~UseLatestHistory
      BY <1>3, <3>2 DEF GetScan, PickCurrent
    <3> QED
      BY <3>1, <3>2
  <2>2. i \in 1..Len(history)
    BY <2>1 DEF Finished, Typing
  <2>3. Date(i) \in 0..Len(history)
    BY <2>1, <2>2 DEF Date, Typing
  <2> QED
    BY <1>3, <2>1, <2>2, <2>3
    DEF Typing, GetScan, Choose, Goto, Calling, Ended, Exported
<1>4. CASE NothingCompleted
  BY <1>4 DEF Typing, NothingCompleted, Fail, Calling, Ended, Exported
<1>5. CASE RequestExport
  <2>1. entry' \in 1..Len(history)
    BY <1>5 DEF Typing, RequestExport
  <2>2. finished' \in BOOLEAN /\ readyAt' \in Nat /\ clock' \in Nat
    BY <1>5 DEF RequestExport
  <2> QED
    BY <1>5, <2>1, <2>2 DEF Typing, RequestExport, Goto, Calling, Ended, Exported
<1>6. CASE Poll
  <2>1. PICK looked, answered \in clock..(clock + Latency) :
          IF looked >= readyAt
          THEN Goto("download") /\ clock' = answered
          ELSE StillLoading(answered)
    BY <1>6 DEF Poll
  <2>2. answered \in Nat
    BY <2>1 DEF Typing
  <2> QED
    BY <1>6, <2>1, <2>2
    DEF Typing, Poll, StillLoading, GiveUp, Goto, Calling, Ended, Exported
<1>7. CASE Download
  BY <1>7 DEF Typing, Download, Goto, Calling, Ended, Exported
<1>8. CASE Parse
  BY <1>8 DEF Typing, Parse, Goto, Calling, Ended, Exported
<1>9. CASE CallFails
  BY <1>9 DEF Typing, CallFails, Fail, Calling, Ended, Exported
<1>10. CASE Over \/ UNCHANGED vars
  BY <1>10 DEF Typing, Over, vars, client
<1> QED
  BY <1>1, <1>2, <1>3, <1>4, <1>5, <1>6, <1>7, <1>8, <1>9, <1>10 DEF Next, Step

LEMMA TypingHolds == Spec => []Typing
<1>1. Init => Typing
  <2> SUFFICES ASSUME Init PROVE Typing
    OBVIOUS
  <2>1. history \in Seq(Status)
    <3>1. CASE history = <<>>
      BY <3>1
    <3>2. CASE history \in [1..1 -> Status]
      BY <3>2, SeqDef
    <3> QED
      BY <3>1, <3>2 DEF Init, Status
  <2>2. Len(history) \in Nat
    BY <2>1, LenProperties
  <2>3. /\ pinned = 0 /\ label = 0 /\ entry = 0 /\ finished = FALSE
        /\ readyAt = 0 /\ clock = 0 /\ exit = 0 /\ pc = "resolve"
    BY DEF Init
  <2>4. 0 \in 0..Len(history)
    BY <2>2
  <2>5. exit = 0 <=> pc \in Calling \cup {"done"}
    BY <2>3 DEF Calling
  <2>6. ~(pc \in Exported) /\ pc # "request" /\ pc \in Calling
    BY <2>3 DEF Exported, Calling
  <2> QED
    BY <2>1, <2>3, <2>4, <2>5, <2>6 DEF Typing
<1>2. Typing /\ [Next]_vars => Typing'
  BY TypingKept
<1> QED
  BY <1>1, <1>2, PTL DEF Spec

(* The types of all variables, an execution behind every export, and an     *)
(* exit code for every failure and for no other end.                        *)
THEOREM ExportTypes == Spec => []TypeOK
<1>1. Typing => TypeOK
  BY DEF Typing, TypeOK, Status
<1> QED
  BY <1>1, TypingHolds, PTL

-----------------------------------------------------------------------------

(* The execution picked is completed, and the date is its own.              *)
PickIsTrue ==
  /\ pc = "request" =>
       pinned \in DOMAIN history /\ history[pinned] = "completed" /\ label \in {0, pinned}
  /\ pc \in Exported => finished /\ label \in {0, entry}

LEMMA PickKept ==
  ASSUME UseLatestHistory, NoId = {}, Typing, PickIsTrue, [Next]_vars
  PROVE  PickIsTrue'
<1>1. CASE Launch \/ ScanEnds
  <2>1. UNCHANGED client
    BY <1>1 DEF Launch, ScanEnds
  <2> QED
    BY <1>1, <2>1, HistoryGrows DEF PickIsTrue, client
<1>2. CASE GetScan
  <2>1. PICK i \in Finished : Choose(i, i)
    BY <1>2 DEF GetScan, PickFromHistory, Newest, IdOf
  <2> QED
    BY <2>1 DEF Choose, Goto, Finished, Date, PickIsTrue, Exported
<1>3. CASE RequestExport
  <2>1. entry' = pinned /\ history[pinned] = "completed"
    BY <1>3 DEF RequestExport, PickIsTrue, Typing
  <2>2. finished'
    BY <1>3, <2>1, Zenon DEF RequestExport
  <2> QED
    BY <1>3, <2>1, <2>2 DEF RequestExport, Goto, PickIsTrue, Exported
<1>4. CASE Poll
  <2>1. PICK looked, answered \in clock..(clock + Latency) :
          pc' \in {"download", "timeout", "poll"}
    BY <1>4 DEF Poll, StillLoading, GiveUp, Goto
  <2> QED
    BY <1>4, <2>1 DEF Poll, PickIsTrue, Exported
<1>5. CASE Resolve \/ NothingCompleted \/ CallFails
  BY <1>5 DEF Resolve, NothingCompleted, CallFails, Goto, Fail, PickIsTrue, Exported
<1>6. CASE Download \/ Parse
  BY <1>6 DEF Download, Parse, Goto, PickIsTrue, Exported
<1>7. CASE Over \/ UNCHANGED vars
  BY <1>7 DEF PickIsTrue, Over, vars, client
<1> QED
  BY <1>1, <1>2, <1>3, <1>4, <1>5, <1>6, <1>7 DEF Next, Step

(* With use_latest_history, and if the console lists every execution with   *)
(* its history_id, a run has the results of one finished execution and that *)
(* execution's end time, however often the scan is launched meanwhile.      *)
THEOREM PinnedExportIsTrue ==
  ASSUME UseLatestHistory, NoId = {}
  PROVE  Spec => []LabelIsTrue
<1>1. Init => PickIsTrue
  BY DEF Init, PickIsTrue, Exported
<1>2. Typing /\ PickIsTrue /\ [Next]_vars => PickIsTrue'
  BY PickKept
<1>3. PickIsTrue => LabelIsTrue
  BY DEF PickIsTrue, LabelIsTrue, Exported
<1> QED
  BY <1>1, <1>2, <1>3, TypingHolds, PTL DEF Spec

-----------------------------------------------------------------------------

(* The clock by phase.                                                      *)
ClockIsBounded ==
  /\ clock <= WaitLimit
  /\ pc \in {"resolve", "scan", "request"} => clock = 0
  /\ pc = "poll" => clock <= Max2(InitialDelay, Timeout + Interval)

LEMMA ClockKept ==
  ASSUME Typing, ClockIsBounded, [Next]_vars
  PROVE  ClockIsBounded'
<1> USE ExportAssumption
<1>1. CASE RequestExport
  BY <1>1 DEF RequestExport, Goto, ClockIsBounded, WaitLimit, Max2
<1>2. CASE Poll
  <2>1. PICK looked, answered \in clock..(clock + Latency) :
          IF looked >= readyAt
          THEN Goto("download") /\ clock' = answered
          ELSE StillLoading(answered)
    BY <1>2 DEF Poll
  <2>2. answered <= WaitLimit
    BY <1>2, <2>1 DEF Poll, ClockIsBounded, WaitLimit, Typing, Max2
  <2>3. CASE pc' # "poll"
    BY <1>2, <2>1, <2>2, <2>3 DEF StillLoading, GiveUp, Goto, ClockIsBounded
  <2>4. CASE pc' = "poll"
    <3>1. answered < Timeout /\ clock' = answered + Interval
      BY <2>1, <2>4 DEF StillLoading, GiveUp, Goto, Typing
    <3> QED
      BY <2>1, <2>4, <3>1 DEF ClockIsBounded, WaitLimit, Max2, Typing
  <2> QED
    BY <2>3, <2>4
<1>3. CASE GetScan
  BY <1>3 DEF GetScan, PickFromHistory, PickCurrent, Choose, Goto, ClockIsBounded
<1>4. CASE Resolve \/ NothingCompleted \/ CallFails \/ Download \/ Parse
  BY <1>4 DEF Resolve, NothingCompleted, CallFails, Download, Parse, Goto, Fail, ClockIsBounded
<1>5. CASE Launch \/ ScanEnds \/ Over \/ UNCHANGED vars
  BY <1>5 DEF Launch, ScanEnds, Over, vars, client, ClockIsBounded
<1> QED
  BY <1>1, <1>2, <1>3, <1>4, <1>5 DEF Next, Step

(* The last answer comes at most one interval and one status call after the *)
(* time limit, whatever the configured times.                               *)
THEOREM ExportWaitIsBounded == Spec => []WaitIsBounded
<1>1. Init => ClockIsBounded
  BY ExportAssumption DEF Init, ClockIsBounded, WaitLimit, Max2
<1>2. Typing /\ ClockIsBounded /\ [Next]_vars => ClockIsBounded'
  BY ClockKept
<1>3. ClockIsBounded => WaitIsBounded
  BY DEF ClockIsBounded, WaitIsBounded
<1> QED
  BY <1>1, <1>2, <1>3, TypingHolds, PTL DEF Spec

(* No export is given up that was ready a status call before the limit.     *)
THEOREM GivingUpIsJustified == Spec => []GiveUpIsJustified
<1> USE ExportAssumption
<1>1. Init => GiveUpIsJustified
  BY DEF Init, GiveUpIsJustified
<1>2. ASSUME Typing, GiveUpIsJustified, [Next]_vars
      PROVE  GiveUpIsJustified'
  <2>1. CASE Poll
    <3>1. PICK looked, answered \in clock..(clock + Latency) :
            IF looked >= readyAt
            THEN Goto("download") /\ clock' = answered
            ELSE StillLoading(answered)
      BY <2>1 DEF Poll
    <3> QED
      BY <1>2, <2>1, <3>1 DEF Poll, StillLoading, GiveUp, Goto, GiveUpIsJustified, Typing
  <2>2. CASE GetScan
    BY <1>2, <2>2 DEF GetScan, PickFromHistory, PickCurrent, Choose, Goto, GiveUpIsJustified
  <2>3. CASE Resolve \/ NothingCompleted \/ CallFails \/ RequestExport \/ Download \/ Parse
    BY <1>2, <2>3 DEF Resolve, NothingCompleted, CallFails, RequestExport, Download, Parse,
                Goto, Fail, GiveUpIsJustified
  <2>4. CASE Launch \/ ScanEnds \/ Over \/ UNCHANGED vars
    BY <1>2, <2>4 DEF Launch, ScanEnds, Over, vars, client, GiveUpIsJustified
  <2> QED
    BY <1>2, <2>1, <2>2, <2>3, <2>4 DEF Next, Step
<1> QED
  BY <1>1, <1>2, TypingHolds, PTL DEF Spec

=============================================================================
