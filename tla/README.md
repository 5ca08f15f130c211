# TLA+ models of the Nessus → Drata collector

The collector (`src/nessus_drata/`) reads the results of one finished Nessus
compliance scan, turns each host into a record, and pushes the records to a
Drata custom connection in an *upload session* that is completed as a whole or
cancelled. It runs once a day from the Windows task scheduler, or by hand. This
directory models the parts of it that are hard to test, checks them with TLC,
and proves the most important properties with TLAPS. Paths below are relative
to the root of the repository.

## The system

| Component | State it keeps | Operations | What makes it correct |
|---|---|---|---|
| Session push (`cli.py`: `_live_drata_push`, `_cancel_other_sessions`, `_upload_batch_with_409_retry`, the tail of `_run_pipeline`) | batch position, results of the batches, gates | clean up stale sessions, check gates, upload, complete or cancel, save, report | what is completed is whole and worth showing; what is saved and reported is true; every run ends; leftovers of one run do not stop the next |
| Drata HTTP client (`drata_client.py`) | attempt number | request with retries, classification of answers and of per-record results | bounded attempts; no rejection taken for a success |
| Safety gates (`safety.py`) | none | `evaluate_gates`, `apply_force_bypass` | `--force` overrides two gates and no other |
| Last-run state (`state.py`) | `last_run.json` | load, save | names a published session, or nothing |
| Lock (`state.py`) | `collector.lock` | acquire, release | one collector inside; a dead one's lock is reclaimed |
| Transform (`transform.py`) and diagnosis (`diagnostics.py`) | counters of the loop | match checks, build records, explain gaps | a pass is backed by evidence; both passes agree; the gates see the truth |
| Nessus export (`cli.py`: `_live_nessus_export`; `nessus_client.py`) | file id, polling clock | resolve scan, export, poll, download | the label of the results is that of their scan; polling ends |
| Export parser (`parse_nessus_xml.py`) | none | parse, health check | a damaged export is refused, not read as no results |
| Configuration (`config.py`) | none | load, validate, `.env` | field names unique; precedence of the environment |
| Commands, report, logging, schema (`cli.py`, `report.py`, `logging_setup.py`, `schema_gen.py`) | files | print and write | the report agrees with the exit code |

A run calls them in one thread: lock, export, parse, transform, diagnosis, load
of `last_run.json`, push (gates twice), save, report, unlock. Before that every
command reads its settings. Concurrency comes
from other collectors, from requests that outlive their caller, and from
crashes; the shared state is the two files and the sessions at Drata.

The hazards, each with its line and the properties aimed at it, are in
`PROJECT.json`. The main ones: a crash or a lost answer between `complete` and
the save; a session left open by a dead run and continued by the next; the
cleanup of one run cancelling the session of another; a retried or late POST;
the window between the check of the lock file and the write; a pid that is used
again; matching done twice by two modules; a scan that is launched again while
its results are fetched; an export cut short between two hosts; an answer that
looks like a success; a check whose field name is that of the record; the own
session listed under another id; settings that fail in ways the code does not
name.

## Modules

| Module | Models | Role |
|---|---|---|
| `SafetyGates` | `safety.py` | operators |
| `DrataService` | the session API as the client relies on it (external) | state and operators |
| `SessionPush` | `cli.py` (push, save, report), load/save of `state.py` | the core; extends the two above |
| `Publication` | what an observer of Drata is promised | abstract specification of `SessionPush` |
| `CallContract` | what the push expects of one call of the client | abstract specification of `DrataHttp` |
| `DrataHttp` | `drata_client.py`: one call | implements `CallContract` |
| `StateLock` | `acquire_lock`, `_pid_is_running` of `state.py` | the lock |
| `Collector` | `cmd_run`: lock, pipeline, unlock; several processes | composes `StateLock` and `SessionPush` |
| `NessusExport` | `_live_nessus_export`, `nessus_client.py` | the scan, its export, the polling |
| `ParseExport` | `parse_nessus_xml.py` | documents, damage, health check |
| `Transform` | `transform.py`, `analyze_manifest`, `no_results_reason` | extends `SafetyGates` |
| `Settings` | `config.py`, `_load_env_files`, the checks of the commands, `schema_gen.py` | what a command reads first |
| `SessionPushProofs`, `StateLockProofs`, `CollectorProofs`, `DrataHttpProofs`, `NessusExportProofs`, `ParseExportProofs`, `TransformProofs`, `SettingsProofs` | | theorems |
| `MC...` | | instances for TLC |

How they fit: `Collector` says that the lock makes pushes serial, which is the
constant `Serial` of `SessionPush`; `DrataHttp` says that a call has one of the
outcomes that `SessionPush` knows; `NessusExport` says that the label of a scan,
from which the session id is made, is that of its results; `ParseExport` that
the results are all there; `Transform` that the counts the gates see mean what
they say; `Settings` that the run has what it needs.

### SessionPush and DrataService

A member of `Run` is one execution; `run[r].pc` is the HTTP call or the file
write it is about to make. Between two calls the code computes on its own data
only, so one step is a call with everything up to the next.

| Code | Model |
|---|---|
| `load_last_run_state` and the start of `_live_drata_push` | `Load` (file unreadable: `Loaded`); `Begin` is `Load` behind the lock, if `Serial` |
| a run that ends before its first call: dry run, settings, export errors | `EndEarly` |
| `list_sessions` and its error path | `Listed`, `ListFailed`, `CleanupTargets` |
| cancelling the stale sessions, in any order; one known only by another id may not be found | phase `cancel`, `Cleaning`, `AfterCleanup`, `AliasUnknown` |
| the loop over `_chunk` with the 409 retry | phase `upload`, `Batch`, `NextBatch`, `AfterUpload` |
| final gates, complete or cancel | `Decide`, `AfterComplete`, `AfterAbort` |
| `_request`: retry on 429 and 5xx; errors; an exception no caller handles (a delay that cannot be slept) | `Retried`, `Failed`, `Surprised` |
| `_check_per_record_failures` | `PartlyStored` |
| `save_last_run_state`, `write_report` | `SaveOpen`, `SaveWrite`, `Report`, `WriteFails` |
| the process is killed | `Crash` |

Any call of an execution outside `Healthy` may be lost, applied without an
answer, or (`Delayed`) applied later, even twice. A session is named by its
scan, because the session id is a function of scan id and end time; so two runs
on one scan share a session, as in the code. (A scan without an end time takes
the time of the run instead, which is a session of its own each time.)
`DrataService` says what the service does with a call: one session of the
resource is open at a time (the 409 "session state conflict"), records are
upserted, an active session stays active. Where the client relies on nothing it
is nondeterministic: `CanceledReusable` (a cancelled id may be opened again,
empty), which closed sessions a listing includes, entries without status
(`NoStatus`) or usable id (`NoUsableId`), and sessions that the listing shows by
a `uuid` or `id` instead of the `sessionId` the client gave (`Aliased`). An
entry's id is then `ShownId`, which is not the run's `OwnId`: `CleanupTargets`
compares the two as `cli.py:270-288` does, so a run may cancel its own session.

### DrataHttp and CallContract

One call: `Send` an attempt, `Sleep` before another, `Classify` the last answer.
An answer has a status, a `Retry-After`, and a body that holds record results in
one of the shapes `_iter_record_results` knows, or in none. `limit` is
`max_retries`, any integer, as `config.py` takes any; with 0 the `None` out of
`_request` is dereferenced. A delay is slept as the service names it: a negative
one is a `ValueError`, one beyond `SleepLimit` an `OverflowError`. These are the
result `crash`, and `SurpriseHasCause` says that there are no others. The
contract has three actions: `Retry`, which is `Retried` of `SessionPush`,
`Return` with success, conflict or error, which is what the actions after a call
go on from, and `Surprise`, an exception that no caller handles: `Surprised` of
`SessionPush` after a retry. Without an attempt at all a run ends at its first
call, the listing, where `Surprised` needs no retry.

### StateLock and Collector

One step for each access to the file: `exists`, `read_text`, the probe of the
pid, the truncating open, the write, the unlink. Pids may be reused by
collectors or by foreign programs (`PidReuse`). `Serialised` is the scheduler's
`IgnoreNew`: a collector does not start while another is in `acquire_lock`.
It may start while another is inside; that one it must see. The file may be
there from the start, empty or with any pid in it, its reader's own too, and the
unlink at the end may be refused (`ReleaseFails`): the process ends, the file
stays.

`Collector` puts an instance of the push inside an instance of the lock: a
process acquires (`Acquire`), works (`Work`: `Load`, `EndEarly` or a step of the
push), and leaves. A process may start under the pid of a dead one, and find its
own pid in the file that one left. `Kill` takes lock and push down together. Nothing in it
says that pushes are serial; that they are is what is checked and proved.

### NessusExport

The console launches and ends executions of the scan whenever it likes.
Executions are numbered in the order of their end, so that a number is the
execution, its history id (`IdOf`, 0 for a missing one) and its end time
(`Date`, 0 for a missing one). `GetScan` chooses what to export,
`RequestExport` asks for it later: by history id, or for whatever is last by
then. `Poll` counts seconds as `wait_for_export_ready` does: the delay, the
duration of the status call, the look at the limit after a "loading".

### ParseExport

A document is what the console sent, `damage` what became of it: nothing,
undeclared prefixes, a cut at any place (also between two hosts, where what is
left is whole), a hole, another document, or none. `Delivered` says what the
recovering XML library makes of each, `ErrorLog` what it reports; the rest is
the code: which items count, absent names and results, and `Health`. `ComplianceItems`
is the list of the loop over a host's items; the property `NamedOf` says without
a loop what that list must be.

### Transform

One step per host. A check name is its normal form and its spelling;
`UpperOf`, `LabelOf` and `SlugOf` are the string functions on host names. The
diagnosis and the gates are operators on the state (a list of matches is the set
of their places, of which the code uses the number and the only one), and the properties relate
the two passes over the same hosts, the hosts' results, and what the gates let
through.

### Settings

A *world* is all that a command finds when it starts: command line, environment,
env files, `config.yaml`, `checks.yaml`, and what becomes of `checks.yaml` until
a run reads it again. The actions look at them in the code's order:
`LoadEnvFile`, `LoadConfig`, `LoadManifest`, `ParseEntry` for each check,
`LoadSecrets`, `BuildConfig` (the sections), `ReachNessus`, `LoadAuditFile` (the
second reading, `cli.py:437`) and `ReachDrata`. They stop with exit 2 at what
`config.py` names, and with exit 1 at what it does not: `_load_yaml` lets an
`OSError` and a `UnicodeDecodeError` through (`LoadYaml`), and a section that is
no mapping has no `get`. `GenerateSchema` is the schema of the checks accepted;
its own list of fields is `BaseProperties`, that of the records `RecordTypes`.

## Runs

| Run | Question | Bounds and why they suffice |
|---|---|---|
| `push_serial` | are completed sessions whole, unsound scans kept home, files and exit codes true? does a drop of the data set have a cause? does a run without faults publish? | three executions in sequence, in any order: one leaves debris, one meets it, one builds on the result; one of them healthy. Scans of 3 records (two batches), 1 (a drop), 2 with one id, 0. `MaxRetries` 2: one retry. Listings without status (A), or by another id (B) |
| `push_overlap` | refinement of `Publication`, with the lock broken and late requests; do both runs end? | two executions, two scans: same or different session, one listed by another id (A), one without a usable id (B); `MaxRetries` 1, since a late request arrives up to twice anyway |
| `push_shrink` | (finding) the shrink gate with faults | |
| `lock_serial` | mutual exclusion and ownership of the file | three pids with reuse |
| `lock_overlap` | (finding) collectors starting together | two pids |
| `collector_serial` | is the push inside the lock a serial push, and does a lone healthy collector get through? | two processes, one of which may be killed or meet any fault, its unlink included; they may share a pid, and the lock file may be there from the start, empty or with any pid in it; late requests; one scan of one record, as the data of the push is the question of the runs above |
| `http_call` | what can come out of a call, and does it keep the contract? | `max_retries` 0 to 3; every class of status; `Retry-After` absent, -1, 0, 7, and an hour, within and beyond the (scaled) limit of `time.sleep`; batches of up to two results in all shapes and codes |
| `export_pinned` | do label and results belong together, and is the wait bounded and given up for a reason? | three executions of the scan, two without a date; an export ready at any second up to the longest wait, or never; limit 10 s, delays 2 and 3, calls up to 2 |
| `export_current` | (finding) the same without `use_latest_history` | |
| `parse_all` | is what is accepted whole, and what is cut refused? | all documents of one host with up to two items and of two hosts with up to one, with every damage |
| `transform_all` | evidence, diagnosis, gates | all lists of up to two hosts over 65 hosts, chosen lists of three; three manifests with all match types and a blank match value |
| `settings_all` | precedence, unique fields, does the exit code tell what was wrong? | every command; up to two env files; ten settings; nine manifests, each flaw once; each yaml file missing, malformed, unreadable or sound, at each reading |

`MaxRetries`, `BatchSize`, the number of executions, the records of a scan, the
times of the export, the longest sleep and the sizes of documents and manifests are the only
bounds; all are constants, and the theorems below are free of them. Deadlock is
checked everywhere: the ends of the models are explicit actions (`Quiescent`,
`Over`, `Ended`). Symmetry is used in `lock_serial` only, where all pids may do
the same.

**Fairness.** `FairSpec` requires only that what can step does (`WF` of `Step`,
of each execution or process, or of the one client): connect and read timeouts
end each attempt, the number of attempts is bounded, the delays between them are
finite, and a scheduled process goes on running. No fairness on a success, on
the service or the console, on late requests, or on a start; crashes are always
possible to an unhealthy run. Liveness is then `EveryRunEnds`,
`HealthyRunPublishes`, `LockIsReturned`, `ExportEnds` and `CallEnds`.

### Findings

1. `lock_overlap`: the lock is checked and written in separate steps
   (`state.py:82-93`), and two collectors that start together both enter.
2. `push_shrink`: after `complete_session` took effect without an answer
   (`cli.py:405`), the next run compares with an older count, or none, and a
   sudden drop passes. `DropHasCause` says when this can happen: after a run
   that was killed or exited 1 or 4, or with an unreadable `last_run.json`.
3. `export_current`: without `use_latest_history` the scan may be launched
   between the status check (`cli.py:193-214`) and the export request
   (`cli.py:216`), which then gives the results of a running scan under the end
   time of the last one.

Further observations, which are exceptions stated in a property, assumptions of
a theorem, or notes of a hazard:

* The run may cancel its own session: `_cancel_other_sessions` compares
  whichever of `sessionId`, `session_id`, `uuid` and `id` an entry shows first
  with the run's own `session_id` (`cli.py:270-288`). Its batches so far are then
  lost, which is why `UploadedPrefixKept` is about sessions outside `Aliased`.
  Where a cancelled id may be opened again it gets worse: with `Aliased = {A}` in
  `PushSerial.cfg`, batch 1 of A is stored, batch 2 meets a 409, the cleanup
  cancels A itself, and the retried batch 2 opens it anew: it is completed with
  one of three records. `AliasedFitOneBatch` in the serial theorems excludes
  that, and nothing else.
* A stale lock whose pid now belongs to another program, or to the reader
  itself, is not reclaimed (`state.py:85-91`): the second and the third alternative of
  `LockIsReturned`. An unlink that fails with anything but `FileNotFoundError`
  leaves such a file, and the run exits 1 (`state.py:97-100`).
* `max_retries: 0` is accepted and makes every call fail with an
  `AttributeError`, against the annotation `-> requests.Response` of `_request`;
  a negative `Retry-After` is a `ValueError`, a huge one an `OverflowError`:
  `SurpriseHasCause`. How long a large one holds the lock is not modelled.
* A yaml file that cannot be read or decoded, or a section that is no mapping,
  ends a command with exit 1 and a stack trace in the log instead of a
  `[CONFIG ERROR]` (`config.py:122`, `133`, `348-351`): `Broken` in `Settings`.
* A match value of blanks, on a host with one result, takes that result for its
  check (`config.py:217`): `AttestedIsEvidenced` holds, as it did match.
* An export damaged in the middle goes on with a warning; a FAILED beside a
  PASSED may be gone. Only invented passes are excluded (`NoInventedPass`).
* A history entry without `history_id` leads to an export that is not pinned:
  `NoId = {}` in `PinnedExportIsTrue`.
* A run that logs "nothing sent" may have cancelled open sessions
  (`cli.py:380` before `382`), though it opens and fills none.
* A host without a `host-ip` tag becomes a record with `host_ip` null, which the
  generated schema does not allow (`transform.py:119`, `schema_gen.py:10`).

## Proofs

Each theorem holds for every value of the constants that satisfies the named
`ASSUME`s of its module and the assumptions given here.

**The push** (`SessionPushProofs`), any scans, executions and batch size, with
the lock or without it:

* `TypeCorrect`: from `Inv0`, which adds what each phase knows of its data.
* `ForceBypassesNoHardGate`: what passing gates mean, with `--force` or not.
* `SavedRunIsPublished`: `Inv1` adds that an execution about to write
  `last_run.json` has a completed session; a completed session stays completed,
  whoever acts (`CompletedStays`).
* `UnsoundScansStayHome`, which is not inductive: an execution about to upload,
  or a request in flight, could break it. `Inv0` says that an execution past the
  gates has a sound scan, `Inv2` that every upload still in flight is of one.
* `CompletedSessionsAreWhole` and `PushPublishesAtomically` (the refinement of
  `Publication`), under `~CanceledReusable` and `~Unverified`. `Inv3` adds that
  the batches an execution counts as sent are in its session, and that a
  `complete` still in flight is for a session that holds the whole scan. If a
  cancelled id could be reopened, a late `complete` of a run long gone would
  close a session filled anew in part; and an answer that cannot be verified may
  hide a rejected record.

**The push behind the lock** (the same module), under `Serial`, `~Delayed` and
`~Unverified`: `UploadsAreKept` (for sessions listed by their own id),
`ReportsAreTrue`, and with `AliasedFitOneBatch` also `SerialSessionsAreWhole` and
`SerialPushPublishesAtomically` (`Publication` again), which no longer need
`~CanceledReusable`. `Inv4` says
that one execution at most is live, that nothing is in flight, and what the live
one knows of its session; `Inv5` adds the whole session before `complete`.
`LossesHaveCauses` (`DropHasCause`) bounds how far `last_run.json` may be behind
the data set shown: `Inv6` says that whoever asks to complete a session has
passed the gate on the loss (`Allowed`), and that, while no execution has ended
badly, the count in the file is that of the data set shown but for the
publication of the one execution that has not saved yet (`Traced`). Without that
clause the gate compares with a count of which nothing is known.

**The lock** (`StateLockProofs`): `LockTypes`, and under `Serialised`
`LockExcludes` (mutual exclusion) and `HolderKeepsFile` (the file names whoever
is inside), with reuse of pids. `IInv`
follows the file through `acquire_lock`: one collector at a time is between the
check and the write; one past the check has found nobody inside; one that has
read a pid has read that of the collector inside, if there is one; the file
being written is the one at the path. Finding 1 shows that the assumption is
needed.

**Whole runs** (`CollectorProofs`) are where the two meet. Every step of the
composition is one of a push whose executions may overlap (`CollectorsPush`), so
that what is proved of such a push holds of it: `CollectorsAreSound` without any
assumption, `CollectorsPublishAtomically` under `~CanceledReusable` and
`~Unverified`, even where the lock fails. Seen from the file the composition is
the lock (`LockIsItself`), so that `LockExcludes` applies to it under
`Serialised`; with the invariant `Paired` (a push at work is inside) follow
`WorkersHoldTheLock` and `CollectorsAreSerial`: the lock discharges the
assumption `Serial` of the push. `CollectorsKeepTheirPromises` puts the chain
together: runs that start one at a time, without late requests and with answers
that can be verified, keep uploads (of sessions listed by their own id), report
the truth and lose nothing without a cause, whatever is killed in between and
whichever pid is used again; under `AliasedFitOneBatch` they complete whole
sessions only and implement `Publication`.

**A call** (`DrataHttpProofs`): `HttpTypes` (no more than `max_retries`
attempts), `SuccessesAreConfirmed`, `RetriesAreAskedFor` (by `AskedToRetry`: an
answer kept while another request may follow is a 429 or 5xx),
`SurprisesHaveCauses` (a call crashes if and only if there was no attempt to make
or no way to sleep the delay) and `CallsKeepContract`, all for any `max_retries`
and any answers. `Prepared` says that there is an answer to classify and a delay to sleep.

**The export** (`NessusExportProofs`): `ExportTypes`; `PinnedExportIsTrue` under
`UseLatestHistory` and `NoId = {}`, since what is pinned had ended before and an
ended execution stays what it is; `ExportWaitIsBounded` and
`GivingUpIsJustified` for any times, from a bound on the clock before each poll.

**Reading the export** (`ParseExportProofs`), for documents of any size:
`ParseTypes`, `AcceptedExportIsWhole`, `CutExportIsRefused` and
`PassesWereSent`. `IInv` says that the hosts yielded are those delivered so far
and that only an undamaged document is accepted; `ItemsAreNamed` that the list
of the loop has exactly the named items, by induction over the host;
`DeliveredRemains` that all damage leaves is remains of items sent.

**Records** (`TransformProofs`): `TransformTypes`, `ClaimsHaveEvidence`,
`PushedIsEvidence` and `PassesAgree`. The gates see counters, evidence is in the
records: `IInv` says that the misses are the number of pairs of a check and a
host it misses (`Missed`), and all the attempts if no check found anything, so
that coverage is zero and the hard gate fails. The first pass counts the pairs
by host; the diagnosis counts them by check, which `GapsAddUp` shows by
induction over the manifest to be the same number.

**Settings** (`SettingsProofs`): `SettingsTypes`, `FirstSourceGiven`,
`FieldsAreKept` (with `SchemaCoversRecord`, that the schema's list has every field
of a record) and `ExitsHaveCauses`, for any number of env files and any
manifest. `IInv` says of the part that is read that the value is that of the
first source so far, and the fields so far are as many as the checks and none of
the record's. `IInv2` adds what has been asked so far (`Asked`): whoever arrives
at a place of the code has met every need that is looked at before it.

The assumptions `ParseAssumption`, `TransformAssumption` and
`SettingsAssumption` say only that lists are lists and records have their
fields. The theorems of the library about induction take an operator as a
parameter, which the provers here cannot use; the lemma `Induction`, about a set
of numbers, is proved from the well-foundedness of the order instead, and a
recursive function gets its values from a lemma that says it exists
(`ListsExist`) or by a witness (`GapsAddUp`). Where an operator is used that the
prover cannot open (`SelectSeq` in `ValueIn`, the fold of `ItemCount`), no proof
depends on what it computes.

Only model-checked: all liveness (`HealthyRunPublishes`, `EveryRunEnds`,
`ExportEnds`, `CallEnds`, `LockIsReturned`), which is out of the prover's reach,
and the findings, which are counterexamples.

## Not modelled, and the plan

Not modelled: logging, redaction and wording (no effect on state); what the
probes print, the closest and unmapped names of the diagnosis, and the layout
of the report; YAML, XML and regular expressions (libraries); the rounding of
the shrink threshold, a product of floats (the model's is exact);
`upsert_records` (unused); the installation scripts, except that the scheduler's
settings justify `Serial`, `Serialised`, `Crash`, `Die` and `Kill`. `batch_size`
is assumed to be positive, which `config.py` does not check. Exceptions other
than `DrataApiError` inside the push leave the service as a crash does.

Next, in this order:

1. The phases before the push as actions of `Collector`, so that the exit codes
   of `main` are those of one model; the passed and failed counters and the
   report.
2. Liveness of `HealthyRunPublishes` on larger instances.
