------------------------------ MODULE Transform ------------------------------
(***************************************************************************)
(* From hosts to records: transform_host_results of                         *)
(* src/nessus_drata/transform.py, one step per host, and the second look    *)
(* that diagnostics.py takes at the same hosts before the gates decide.     *)
(*                                                                          *)
(* A check name is [norm, form]: its normal form (a sequence of letters)    *)
(* and the way it is written, of which normalize_check_name keeps the       *)
(* first.  A host name is a value on which UpperOf and LabelOf say what     *)
(* str.upper and the first label of a domain name are; SlugOf is _slug.     *)
(***************************************************************************)
EXTENDS SafetyGates, SequencesExt

CONSTANTS
  Manifest,   \* checks.yaml: sequences of [field, type, value, required]
  HostList,   \* parsed exports: sequences of [netbios, fqdn, ip, items]
  None,       \* Python's None: the export has no such tag
  UpperOf, LabelOf, SlugOf

(* load_checks_manifest refuses a manifest without entries.                 *)
ASSUME TransformAssumption ==
  /\ \A m \in Manifest : m \in Seq(Range(m)) /\ m # <<>>
  /\ \A l \in HostList : /\ l \in Seq(Range(l))
                         /\ \A i \in DOMAIN l : l[i].items \in Seq(Range(l[i].items))

VARIABLES
  checks, hosts,     \* the manifest and the hosts of this run
  records,           \* the records built so far
  misses, ambiguous, fallbacks, missing,   \* the counters of the loop
  outcome            \* "running", "done" or "error" (TransformError)

vars == <<checks, hosts, records, misses, ambiguous, fallbacks, missing, outcome>>

Init ==
  /\ checks \in Manifest
  /\ hosts \in HostList
  /\ records = <<>>
  /\ misses = 0 /\ ambiguous = 0 /\ fallbacks = 0
  /\ missing = {}
  /\ outcome = "running"

Normalize(name) == name.norm

Contained(short, long) ==
  \E i \in 0..(Len(long) - Len(short)) : SubSeq(long, i + 1, i + Len(short)) = short

Satisfies(check, item) ==
  LET wanted == Normalize(check.value)
      name   == Normalize(item.name)
  IN  CASE check.type = "check_name_exact"    -> name = wanted
        [] check.type = "check_name_prefix"   -> IsPrefix(wanted, name)
        [] check.type = "check_name_contains" -> Contained(wanted, name)

(* The places of the matching items.                                        *)
MatchCheck(check, items) == {j \in DOMAIN items : Satisfies(check, items[j])}

(* A tag without a value is an empty string, and names nothing either.      *)
Given(text) == text \notin {None, ""}

(* _resolve_host_key: NetBIOS name, else first label of the domain name,    *)
(* else the address; None is the error of a host without any.               *)
ResolveHostKey(host) ==
  CASE Given(host.netbios) -> UpperOf[host.netbios]
    [] ~Given(host.netbios) /\ Given(host.fqdn) -> UpperOf[LabelOf[host.fqdn]]
    [] ~Given(host.netbios) /\ ~Given(host.fqdn) -> host.ip

UsesAddress(host) == ~Given(host.netbios) /\ ~Given(host.fqdn) /\ Given(host.ip)

(* A host whose key is missing or slugs to nothing has no record id.        *)
Identified(host) == Given(ResolveHostKey(host)) /\ Given(SlugOf[ResolveHostKey(host)])

(* A careless variant of the next definition: the first match is believed.  *)
VerdictOfFirst(check, items) ==
  LET matches == MatchCheck(check, items)
  IN  IF matches = {} THEN "NOT_FOUND"
      ELSE items[CHOOSE j \in matches : \A l \in matches : j <= l].result

Verdict(check, items) ==
  LET matches == MatchCheck(check, items)
  IN  CASE Cardinality(matches) = 0 -> "NOT_FOUND"
        [] Cardinality(matches) = 1 -> items[CHOOSE j \in matches : TRUE].result
        [] Cardinality(matches) > 1 -> "AMBIGUOUS"

(* A faulty variant of the next definition: checks without a match are left *)
(* out of the record.                                                       *)
RecordOfMatched(host) ==
  LET verdicts == [k \in 1..Len(checks) |-> Verdict(checks[k], host.items)]
  IN  [id          |-> SlugOf[ResolveHostKey(host)],
       verdicts    |-> SelectSeq(verdicts, LAMBDA v : v # "NOT_FOUND"),
       allRequired |-> \A k \in 1..Len(checks) :
                         checks[k].required => verdicts[k] = "PASSED"]

RecordOf(host) ==
  LET verdicts == [k \in 1..Len(checks) |-> Verdict(checks[k], host.items)]
  IN  [id          |-> SlugOf[ResolveHostKey(host)],
       verdicts    |-> verdicts,
       allRequired |-> \A k \in 1..Len(checks) :
                         checks[k].required => verdicts[k] = "PASSED"]

(* The checks that no item of a host matches, and those that several match. *)
Unmatched(host) == {k \in DOMAIN checks : Cardinality(MatchCheck(checks[k], host.items)) = 0}
Repeated(host)  == {k \in DOMAIN checks : Cardinality(MatchCheck(checks[k], host.items)) > 1}

TransformHost ==
  /\ outcome = "running" /\ Len(records) < Len(hosts)
  /\ LET host == hosts[Len(records) + 1]
     IN  /\ Identified(host)
         /\ records' = Append(records, RecordOf(host))
         /\ misses' = misses + Cardinality(Unmatched(host))
         /\ ambiguous' = ambiguous + Cardinality(Repeated(host))
         /\ fallbacks' = IF UsesAddress(host) THEN fallbacks + 1 ELSE fallbacks
         /\ missing' = missing \cup {checks[k].field : k \in Unmatched(host)}
  /\ UNCHANGED <<checks, hosts, outcome>>

(* One host without an identity fails the whole run.                        *)
RejectHost ==
  /\ outcome = "running" /\ Len(records) < Len(hosts)
  /\ ~Identified(hosts[Len(records) + 1])
  /\ outcome' = "error"
  /\ UNCHANGED <<checks, hosts, records, misses, ambiguous, fallbacks, missing>>

Finish ==
  /\ outcome = "running" /\ Len(records) = Len(hosts)
  /\ outcome' = "done"
  /\ UNCHANGED <<checks, hosts, records, misses, ambiguous, fallbacks, missing>>

(* The run goes on elsewhere.                                               *)
Ended == outcome # "running" /\ UNCHANGED vars

Next == TransformHost \/ RejectHost \/ Finish \/ Ended

Spec == Init /\ [][Next]_vars

(***************************************************************************)
(* The summary of the loop, and the diagnosis.                              *)
(***************************************************************************)

(* A careless variant: only neighbouring records are compared.              *)
DuplicateIdsAdjacent ==
  {records[i].id : i \in {j \in 1..(Len(records) - 1) : records[j].id = records[j + 1].id}}

DuplicateIds ==
  LET ids == {records[i].id : i \in DOMAIN records}
  IN  {x \in ids : Cardinality({i \in DOMAIN records : records[i].id = x}) > 1}

(* coverage_pct <= 0.  Without hosts it is 100.                             *)
Attempts == Len(records) * Len(checks)

CoverageIsZero == Attempts > 0 /\ misses = Attempts

HostsMissing(check) ==
  Cardinality({i \in DOMAIN hosts : MatchCheck(check, hosts[i].items) = {}})

(* A variant of the next definition that stops at the first host.           *)
GapsOfFirstHost ==
  [k \in {j \in DOMAIN checks : hosts # <<>> /\ MatchCheck(checks[j], hosts[1].items) = {}} |->
     [field |-> checks[k].field, hosts_missing |-> HostsMissing(checks[k])]]

(* The gaps of analyze_manifest, which matches every check on every host    *)
(* once more, by the place of the check in the manifest.                    *)
Gaps ==
  [k \in {j \in DOMAIN checks : HostsMissing(checks[j]) > 0} |->
     [field |-> checks[k].field, hosts_missing |-> HostsMissing(checks[k])]]

ItemCount == FoldLeft(LAMBDA n, h : n + Len(h.items), 0, hosts)

(* no_results_reason gives a reason.                                        *)
NoResults == Len(hosts) = 0 \/ ItemCount = 0 \/ CoverageIsZero

(***************************************************************************)
(* Properties.                                                              *)
(***************************************************************************)

(* Every record has a verdict for each check, and the counters are those of *)
(* the records so far.                                                      *)
TypeOK ==
  /\ Len(records) <= Len(hosts)
  /\ \A i \in DOMAIN records : DOMAIN records[i].verdicts = DOMAIN checks
  /\ misses \in 0..Attempts /\ ambiguous \in 0..(Attempts - misses)
  /\ fallbacks \in 0..Len(records)
  /\ missing \subseteq {checks[k].field : k \in DOMAIN checks}
  /\ outcome \in {"running", "done", "error"}

(* A record that claims all required checks passed is backed by the host's  *)
(* own results: one result for each required check, and that one PASSED.    *)
(* Absent, repeated and failed results never make a pass                    *)
(* (transform_host_results, NOT_FOUND and AMBIGUOUS).                       *)
AttestedIsEvidenced ==
  \A i \in DOMAIN records : records[i].allRequired =>
    \A k \in DOMAIN checks : checks[k].required =>
      LET about == {j \in DOMAIN hosts[i].items : Satisfies(checks[k], hosts[i].items[j])}
      IN  Cardinality(about) = 1 /\ \A j \in about : hosts[i].items[j].result = "PASSED"

(* The two passes over the hosts agree: the manifest fields that the        *)
(* diagnosis reports as gaps are the summary's missing_fields, and the      *)
(* hosts it misses them on add up to the summary's misses (analyze_manifest *)
(* against the counters of transform_host_results).                         *)
HostsInGaps ==
  LET sum[n \in 0..Len(checks)] ==
        IF n = 0 THEN 0
        ELSE IF n \in DOMAIN Gaps THEN sum[n - 1] + Gaps[n].hosts_missing ELSE sum[n - 1]
  IN  sum[Len(checks)]

DiagnosisAgrees ==
  outcome = "done" => {Gaps[k].field : k \in DOMAIN Gaps} = missing /\ HostsInGaps = misses

(* What the gates let through, even with --force, is worth sending: there   *)
(* are records, each of a host of its own, and one result at least stands   *)
(* behind them (the gates manifest_coverage and duplicate_ids, fed by       *)
(* no_results_reason and duplicate_ids).                                    *)
Forced ==
  ApplyForceBypass(
    EvaluateGates(Len(records), NoCount, NoResults, DuplicateIds # {}, "unattempted"), TRUE)

PushableIsEvidence ==
  outcome = "done" /\ AllGatesPassed(Forced) =>
    /\ records # <<>>
    /\ \A i, j \in DOMAIN records : records[i].id = records[j].id => i = j
    /\ \E i \in DOMAIN records, k \in DOMAIN checks : k \notin Unmatched(hosts[i])

=============================================================================
