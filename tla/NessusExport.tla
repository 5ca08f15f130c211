----------------------------- MODULE NessusExport -----------------------------
(***************************************************************************)
(* One collector fetching one scan's results from the Nessus console:       *)
(* _live_nessus_export and _resolve_scan_id of src/nessus_drata/cli.py with *)
(* the calls of nessus_client.py, above all wait_for_export_ready.          *)
(*                                                                          *)
(* The console is external.  While the collector talks to it, the scan may  *)
(* be launched again and may end.  The executions of a scan are numbered in *)
(* the order of their end, so that a number stands for the execution, for   *)
(* its history_id and for its last_modification_date.                       *)
(***************************************************************************)
EXTENDS Integers, Sequences

CONSTANTS
  Selector,          \* which of nessus.scan_id, scan_name_exact is set
  UseLatestHistory,  \* nessus.use_latest_history
  NoDate,            \* executions listed without a usable last_modification_date
  NoId,              \* executions listed without a history_id
  MaxLaunches,       \* bound on the executions of the scan
  ReadyTimes,        \* when an export may become ready, counted from the request
  InitialDelay, Interval,  \* seconds slept before the first and later polls
  Timeout,           \* nessus.export_timeout_seconds
  Latency            \* bound on the duration of a status call

ASSUME ExportAssumption ==
  /\ Selector \in {"id", "name", "neither"}
  /\ UseLatestHistory \in BOOLEAN
  /\ NoDate \subseteq Nat /\ NoId \subseteq Nat
  /\ MaxLaunches \in Nat
  /\ ReadyTimes \subseteq Nat
  /\ InitialDelay \in Nat /\ Interval \in Nat
  /\ Timeout \in Int
  /\ Latency \in Nat

VARIABLES
  history,   \* the console: the status of every execution of the scan
  pc,        \* the collector's next call
  pinned,    \* history_id of the export request, 0 for None
  label,     \* scan_ended_at, 0 for None
  entry,     \* the execution whose results the export holds
  finished,  \* it had ended when the export was requested
  readyAt,   \* when the export becomes ready
  clock,     \* seconds since wait_for_export_ready began
  exit       \* exit code of a run that ends here

client == <<pc, pinned, label, entry, finished, readyAt, clock, exit>>
vars   == <<history, client>>

Calling == {"resolve", "scan", "request", "poll", "download", "parse"}
Ended   == {"done", "failed", "timeout"}

Init ==
  /\ history \in [1..1 -> {"running", "completed", "canceled"}] \cup {<<>>}
  /\ pc = "resolve"
  /\ pinned = 0 /\ label = 0 /\ entry = 0 /\ finished = FALSE
  /\ readyAt = 0 /\ clock = 0 /\ exit = 0

(***************************************************************************)
(* The console.                                                             *)
(***************************************************************************)

Launch ==
  /\ Len(history) < MaxLaunches
  /\ \A i \in DOMAIN history : history[i] # "running"
  /\ history' = Append(history, "running")
  /\ UNCHANGED client

ScanEnds ==
  /\ \E i \in DOMAIN history, status \in {"completed", "canceled"} :
       history[i] = "running" /\ history' = [history EXCEPT ![i] = status]
  /\ UNCHANGED client

(***************************************************************************)
(* The collector, one call to the console a step.                           *)
(***************************************************************************)

Goto(phase) == pc' = phase /\ UNCHANGED exit

Fail(code) == pc' = "failed" /\ exit' = code

(* scan_id wins; a name must be that of exactly one scan.                   *)
Resolve ==
  /\ pc = "resolve"
  /\ \/ Selector \in {"id", "name"} /\ Goto("scan")
     \/ Selector \in {"name", "neither"} /\ Fail(2)
  /\ UNCHANGED <<history, pinned, label, entry, finished, readyAt, clock>>

Date(i)  == IF i \in NoDate THEN 0 ELSE i
IdOf(i)  == IF i \in NoId THEN 0 ELSE i
Finished == {i \in DOMAIN history : history[i] = "completed"}

(* max over last_modification_date, a missing one counting as 0.            *)
Newest == {i \in Finished : \A j \in Finished : Date(j) <= Date(i)}

Choose(i, id) ==
  /\ Goto("request")
  /\ pinned' = id
  /\ label' = Date(i)
  /\ UNCHANGED <<history, entry, finished, readyAt, clock>>

(* A careless variant of the next definition: the export is not pinned.     *)
PickFromHistoryUnpinned == \E i \in Newest : Choose(i, 0)

PickFromHistory == \E i \in Newest : Choose(i, IdOf(i))

(* info of a scan is that of its last execution.                            *)
PickCurrent == Len(history) \in Finished /\ Choose(Len(history), 0)

GetScan ==
  /\ pc = "scan"
  /\ IF UseLatestHistory THEN PickFromHistory ELSE PickCurrent

(* No completed execution, or the last one is running or was canceled.      *)
NothingCompleted ==
  /\ pc = "scan"
  /\ IF UseLatestHistory THEN Finished = {} ELSE Len(history) \notin Finished
  /\ Fail(3)
  /\ UNCHANGED <<history, pinned, label, entry, finished, readyAt, clock>>

(* Without a history_id the console exports the last execution there is.    *)
(* The first poll comes after the initial delay.                            *)
RequestExport ==
  /\ pc = "request"
  /\ entry' = IF pinned = 0 THEN Len(history) ELSE pinned
  /\ finished' = (history[entry'] = "completed")
  /\ readyAt' \in ReadyTimes
  /\ clock' = InitialDelay
  /\ Goto("poll")
  /\ UNCHANGED <<history, pinned, label>>

(* A careless variant of the next definition: giving up is no error.        *)
GiveUpQuietly == pc' = "timeout" /\ UNCHANGED exit

GiveUp == pc' = "timeout" /\ exit' = 3

(* A faulty variant: the time is measured from one poll to the next.        *)
StillLoadingRestarted(answered) ==
  IF answered - clock >= Timeout
  THEN GiveUp /\ clock' = answered
  ELSE Goto("poll") /\ clock' = answered - clock + Interval

(* A hasty variant: whoever would sleep past the limit gives up at once.    *)
StillLoadingHasty(answered) ==
  IF answered + Interval >= Timeout
  THEN GiveUp /\ clock' = answered
  ELSE Goto("poll") /\ clock' = answered + Interval

(* A faulty variant: nobody looks at the time.                              *)
StillLoadingForever(answered) == Goto("poll") /\ clock' = answered + Interval

(* The limit is looked at after an answer "loading", never before a poll.   *)
StillLoading(answered) ==
  IF answered >= Timeout
  THEN GiveUp /\ clock' = answered
  ELSE Goto("poll") /\ clock' = answered + Interval

(* The console looks at the export some time before its answer is here.     *)
Poll ==
  /\ pc = "poll"
  /\ \E looked, answered \in clock..(clock + Latency) :
       /\ looked <= answered
       /\ IF looked >= readyAt
          THEN Goto("download") /\ clock' = answered
          ELSE StillLoading(answered)
  /\ UNCHANGED <<history, pinned, label, entry, finished, readyAt>>

Download ==
  /\ pc = "download"
  /\ Goto("parse")
  /\ UNCHANGED <<history, pinned, label, entry, finished, readyAt, clock>>

Parse ==
  /\ pc = "parse"
  /\ Goto("done")
  /\ UNCHANGED <<history, pinned, label, entry, finished, readyAt, clock>>

(* A NessusApiError or ExportParseError (3): no answer, a status outside    *)
(* 2xx, an answer without info or file, an export that failed, a download   *)
(* cut short.  Other exceptions (1): an answer that is not JSON, a          *)
(* connection lost in the middle of the download.                           *)
CallFails ==
  /\ pc \in Calling
  /\ pc = "resolve" => Selector = "name"
  /\ \E code \in {1, 3} : Fail(code)
  /\ UNCHANGED <<history, pinned, label, entry, finished, readyAt, clock>>

Step ==
  \/ Resolve \/ GetScan \/ NothingCompleted \/ RequestExport
  \/ Poll \/ Download \/ Parse \/ CallFails

(* The collector goes on elsewhere, the console for ever.                   *)
Over == pc \in Ended /\ UNCHANGED vars

Next == Launch \/ ScanEnds \/ Step \/ Over

Spec == Init /\ [][Next]_vars

(* Every call ends (connect and read timeouts), and time passes.            *)
FairSpec == Spec /\ WF_vars(Step)

(***************************************************************************)
(* Properties.                                                              *)
(***************************************************************************)

Max2(a, b) == IF a >= b THEN a ELSE b

(* Longest time from the request of an export to the last answer about it.  *)
WaitLimit == Max2(InitialDelay, Timeout + Interval) + Latency

Exported == {"poll", "download", "parse", "done", "timeout"}

(* Types; an export is always of some execution; a failure has its code.    *)
TypeOK ==
  /\ history \in Seq({"running", "completed", "canceled"})
  /\ pc \in Calling \cup Ended
  /\ {pinned, label, entry} \subseteq 0..Len(history)
  /\ finished \in BOOLEAN
  /\ readyAt \in Nat /\ clock \in Nat
  /\ exit \in {0, 1, 2, 3}
  /\ exit = 0 <=> pc \in Calling \cup {"done"}
  /\ pc \in Exported => entry > 0

(* The results of a run are those of one finished execution, and their end  *)
(* time, from which the session id is made, is that execution's, whenever   *)
(* the scan is launched again meanwhile (_live_nessus_export reads the time *)
(* in get_scan and asks for the results later).                             *)
LabelIsTrue ==
  pc = "done" => finished /\ (label # 0 => label = entry)

(* An export is given up only after the time limit, and only if it was not  *)
(* ready by then (a status call's duration aside): wait_for_export_ready    *)
(* asks once more before it looks at the clock.                             *)
GiveUpIsJustified ==
  pc = "timeout" => clock >= Timeout /\ readyAt > Timeout - Latency

(* The last answer comes at most one interval and one call after the limit  *)
(* (wait_for_export_ready).                                                 *)
WaitIsBounded == clock <= WaitLimit

(* Every export comes to an end (_live_nessus_export).                      *)
ExportEnds == pc \in Calling ~> pc \in Ended

=============================================================================
