------------------------------- MODULE Settings -------------------------------
(***************************************************************************)
(* What every command reads before it works, and the errors it ends with:   *)
(* _load_env_files and the handlers of src/nessus_drata/cli.py, the loaders *)
(* and validators of config.py, and the schema of schema_gen.py.            *)
(*                                                                          *)
(* A world is all that a command finds when it starts:                      *)
(*   command, dry, fixtures   the command line                              *)
(*   env          the real environment, "" for an unset variable            *)
(*   explicit     --env-file is given                                       *)
(*   envFiles     the env files in the order they are loaded (two defaults  *)
(*                that resolve to one path count once), each [kind, lines]  *)
(*   config       config.yaml: [file, nessus, rest, selected, ids], where   *)
(*                nessus says what that section is ("ok", "format" with     *)
(*                another export format, "list" if it is no mapping) and    *)
(*                rest that the other three are mappings                    *)
(*   checksFile   checks.yaml, with the entries [field, match] of manifest, *)
(*                match[k] = "absent" if the block has no such key, "" for  *)
(*                what is no text; <<>> stands for no list of checks        *)
(*   reread       checks.yaml when a run reads it again, after the scan     *)
(* A yaml file is "missing", "malformed" (no YAML, or no mapping on top),   *)
(* "unreadable" (access denied, wrongly encoded) or a "mapping".            *)
(*                                                                          *)
(* What else can end a command is modelled elsewhere or not at all: the     *)
(* calls and files of the scan in NessusExport and ParseExport, the lock in *)
(* StateLock, the push in SessionPush; logs and output files not at all.    *)
(***************************************************************************)
EXTENDS Integers, Sequences, FiniteSets, Functions

CONSTANTS
  Worlds,      \* the worlds a command may start in
  WellFormed   \* names that match FIELD_NAME_RE

VARIABLES
  world,
  pc,       \* the next thing to read or to check
  todo,     \* env files left to load
  env,      \* os.environ
  checks,   \* the manifest's entries accepted so far
  exit      \* exit code

vars == <<world, pc, todo, env, checks, exit>>

Variable == {"NESSUS_ACCESS_KEY", "NESSUS_SECRET_KEY", "DRATA_API_KEY"}

ASSUME SettingsAssumption ==
  \A w \in Worlds :
    /\ DOMAIN w.env = Variable
    /\ w.envFiles \in Seq(Range(w.envFiles))
    /\ w.manifest \in Seq(Range(w.manifest))

Init ==
  /\ world \in Worlds
  /\ pc = "env"
  /\ todo = world.envFiles
  /\ env = world.env
  /\ checks = <<>>
  /\ exit = 0

(* A careless variant of the next definition: the error is noted, no more.  *)
ExitLater(code) == exit' = code /\ UNCHANGED pc

Exit(code) == pc' = "over" /\ exit' = code

Goto(phase) == pc' = phase /\ UNCHANGED exit

(* parse_env_text: of several lines for one key the last one counts.        *)
ValueIn(lines, name) ==
  LET about == SelectSeq(lines, LAMBDA l : l.key = name)
  IN  IF about = <<>> THEN "" ELSE about[Len(about)].value

(* A careless variant of the next definition: the file wins.                *)
LoadedOver(file) ==
  [n \in Variable |->
     IF ValueIn(file.lines, n) # "" THEN ValueIn(file.lines, n) ELSE env[n]]

(* A variable that has a value keeps it; other keys are ignored.            *)
LoadedFrom(file) ==
  [n \in Variable |-> IF env[n] # "" THEN env[n] ELSE ValueIn(file.lines, n)]

(* load_env_file: only a file named on the command line has to exist.       *)
LoadEnvFile ==
  /\ pc = "env" /\ todo # <<>>
  /\ LET file == Head(todo)
     IN  IF file.kind = "unreadable" \/ (file.kind = "missing" /\ world.explicit)
         THEN Exit(2) /\ UNCHANGED <<todo, env>>
         ELSE /\ todo' = Tail(todo)
              /\ env' = IF file.kind = "missing" THEN env ELSE LoadedFrom(file)
              /\ UNCHANGED <<pc, exit>>
  /\ UNCHANGED <<world, checks>>

(* _load_yaml names what it finds wrong, but only a YAMLError is caught: an *)
(* OSError or a UnicodeDecodeError ends the command as unexpected.          *)
LoadYaml(file, next) ==
  \/ file = "mapping" /\ Goto(next)
  \/ file \in {"missing", "malformed"} /\ Exit(2)
  \/ file = "unreadable" /\ Exit(1)

(* gen-schema reads the manifest only.                                      *)
LoadConfig ==
  /\ pc = "env" /\ todo = <<>>
  /\ IF world.command = "gen-schema"
     THEN Goto("manifest") ELSE LoadYaml(world.config.file, "manifest")
  /\ UNCHANGED <<world, todo, env, checks>>

LoadManifest ==
  /\ pc = "manifest"
  /\ IF world.checksFile = "mapping" /\ world.manifest = <<>>
     THEN Exit(2) ELSE LoadYaml(world.checksFile, "checks")
  /\ UNCHANGED <<world, todo, env, checks>>

MatchKeys == <<"check_name_exact", "check_name_prefix", "check_name_contains">>

(* The keys that transform_host_results gives to every record.              *)
RecordBase ==
  {"id", "hostname", "host_ip", "host_fqdn", "operating_system", "scan_id",
   "scan_name", "scan_ended_at", "collected_at", "audit_file",
   "checks_evaluated", "checks_passed", "checks_failed", "checks_inconclusive",
   "failed_check_fields", "all_required_checks_passed", "source_fidelity"}

(* A variant of the next definition from before source_fidelity was added.  *)
ReservedOld == RecordBase \ {"source_fidelity"}

ReservedFieldNames ==
  {"id", "hostname", "host_ip", "host_fqdn", "operating_system", "scan_id",
   "scan_name", "scan_ended_at", "collected_at", "audit_file",
   "checks_evaluated", "checks_passed", "checks_failed", "checks_inconclusive",
   "failed_check_fields", "all_required_checks_passed", "source_fidelity"}

ValidFieldName(name) == name \in WellFormed /\ name \notin ReservedFieldNames

(* The first key of MATCH_KEYS_IN_PRECEDENCE that is there decides; others  *)
(* in the block are not looked at.                                          *)
MatchOf(entry) ==
  LET present == {k \in 1..3 : entry.match[MatchKeys[k]] # "absent"}
      first   == CHOOSE k \in present : \A l \in present : k <= l
  IN  IF present = {} THEN <<>> ELSE <<MatchKeys[first], entry.match[MatchKeys[first]]>>

(* A careless variant: an entry is compared with the one before it only.    *)
AcceptedNextTo(entry) ==
  /\ ValidFieldName(entry.field)
  /\ MatchOf(entry) # <<>> /\ MatchOf(entry)[2] # ""
  /\ checks # <<>> => checks[Len(checks)].field # entry.field

Accepted(entry) ==
  /\ ValidFieldName(entry.field)
  /\ MatchOf(entry) # <<>> /\ MatchOf(entry)[2] # ""
  /\ \A i \in DOMAIN checks : checks[i].field # entry.field

(* One entry of the loop of load_checks_manifest.                           *)
ParseEntry ==
  /\ pc = "checks" /\ Len(checks) < Len(world.manifest)
  /\ LET entry == world.manifest[Len(checks) + 1]
     IN  IF Accepted(entry)
         THEN /\ checks' = Append(checks, [field |-> entry.field, type |-> MatchOf(entry)[1],
                                           value |-> MatchOf(entry)[2]])
              /\ UNCHANGED <<pc, exit>>
         ELSE Exit(2) /\ UNCHANGED checks
  /\ UNCHANGED <<world, todo, env>>

HasAll(names) == \A n \in names : env[n] # ""

Whole == Len(checks) = Len(world.manifest)

(* The schema is written without a look at the settings.                    *)
GenSchema ==
  /\ pc = "checks" /\ Whole /\ world.command = "gen-schema"
  /\ Exit(0)
  /\ UNCHANGED <<world, todo, env, checks>>

(* validate-config alone asks for all secrets here.                         *)
LoadSecrets ==
  /\ pc = "checks" /\ Whole /\ world.command # "gen-schema"
  /\ IF world.command = "validate-config" /\ ~HasAll(Variable)
     THEN Exit(2) ELSE Goto("sections")
  /\ UNCHANGED <<world, todo, env, checks>>

(* Of the sections only the export format is checked; one that is no        *)
(* mapping (and not empty) has no get() and ends the command as unexpected. *)
BuildConfig ==
  /\ pc = "sections"
  /\ LET config == world.config
     IN  \/ config.nessus = "list" /\ Exit(1)
         \/ config.nessus = "format" /\ Exit(2)
         \/ config.nessus = "ok" /\ ~config.rest /\ Exit(1)
         \/ /\ config.nessus = "ok" /\ config.rest
            /\ IF world.command = "validate-config" THEN Exit(0) ELSE Goto("nessus")
  /\ UNCHANGED <<world, todo, env, checks>>

UsesNessus == world.command = "probe-nessus" \/ (world.command = "run" /\ ~world.fixtures)
UsesDrata  == world.command = "probe-drata" \/ (world.command = "run" /\ ~world.dry)

(* The keys of the console, and for a run the scan it is to export.         *)
ReachNessus ==
  /\ pc = "nessus"
  /\ IF UsesNessus /\ (\/ ~HasAll({"NESSUS_ACCESS_KEY", "NESSUS_SECRET_KEY"})
                       \/ world.command = "run" /\ ~world.config.selected)
     THEN Exit(2) ELSE Goto("reread")
  /\ UNCHANGED <<world, todo, env, checks>>

(* With the hosts in hand a run opens checks.yaml again, for audit_file.    *)
LoadAuditFile ==
  /\ pc = "reread"
  /\ IF world.command = "run" THEN LoadYaml(world.reread, "drata") ELSE Goto("drata")
  /\ UNCHANGED <<world, todo, env, checks>>

(* A run looks at its ids and its key for Drata last of all.                *)
ReachDrata ==
  /\ pc = "drata"
  /\ IF UsesDrata /\ (\/ ~HasAll({"DRATA_API_KEY"})
                      \/ world.command = "run" /\ ~world.config.ids)
     THEN Exit(2) ELSE Exit(0)
  /\ UNCHANGED <<world, todo, env, checks>>

Over == pc = "over" /\ UNCHANGED vars

Next ==
  \/ LoadEnvFile \/ LoadConfig \/ LoadManifest \/ ParseEntry \/ GenSchema \/ LoadSecrets
  \/ BuildConfig \/ ReachNessus \/ LoadAuditFile \/ ReachDrata \/ Over

Spec == Init /\ [][Next]_vars

(* What transform_host_results puts there: properties of the host may be    *)
(* missing, and so may the name of the audit file.                          *)
RecordTypes ==
  [p \in RecordBase |->
     CASE p \in {"host_ip", "host_fqdn", "operating_system", "audit_file"} -> {"string", "null"}
       [] p \in {"scan_id", "checks_evaluated", "checks_passed", "checks_failed",
                 "checks_inconclusive"} -> {"number"}
       [] p = "all_required_checks_passed" -> {"boolean"}
       [] p \in {"id", "hostname", "scan_name", "scan_ended_at", "collected_at",
                 "failed_check_fields", "source_fidelity"} -> {"string"}]

(* The schema's own list of the record's fields.                            *)
Texts ==
  {"id", "hostname", "host_ip", "scan_name", "scan_ended_at", "collected_at",
   "failed_check_fields", "source_fidelity"}
Options == {"host_fqdn", "operating_system", "audit_file"}
Numbers ==
  {"scan_id", "checks_evaluated", "checks_passed", "checks_failed", "checks_inconclusive"}

(* A variant of the next definition from before source_fidelity was added.  *)
BasePropertiesOld ==
  [p \in (Texts \ {"source_fidelity"}) \cup Options \cup Numbers
            \cup {"all_required_checks_passed"} |->
     CASE p \in Texts -> {"string"}
       [] p \in Options -> {"string", "null"}
       [] p \in Numbers -> {"number"}
       [] p = "all_required_checks_passed" -> {"boolean"}]

BaseProperties ==
  [p \in Texts \cup Options \cup Numbers \cup {"all_required_checks_passed"} |->
     CASE p \in Texts -> {"string"}
       [] p \in Options -> {"string", "null"}
       [] p \in Numbers -> {"number"}
       [] p = "all_required_checks_passed" -> {"boolean"}]

CheckFields == {checks[i].field : i \in DOMAIN checks}

(* generate_schema: a check's property replaces a base property of the name.*)
GenerateSchema ==
  [p \in DOMAIN BaseProperties \cup CheckFields |->
     IF p \in CheckFields THEN {"string"} ELSE BaseProperties[p]]

(***************************************************************************)
(* Properties.                                                              *)
(***************************************************************************)

TypeOK ==
  /\ pc \in {"env", "manifest", "checks", "sections", "nessus", "reread", "drata", "over"}
  /\ exit \in {0, 1, 2} /\ (exit # 0 => pc = "over")
  /\ DOMAIN env = Variable
  /\ Len(checks) <= Len(world.manifest)

(* A variable has the value of the first source that sets it: the real      *)
(* environment, then the env files in their order; no source takes a value  *)
(* back (load_env_file; cli.py:606, "Real environment variables always take  *)
(* precedence").                                                            *)
Sources(name) ==
  [i \in 0..Len(world.envFiles) |->
     CASE i = 0 -> world.env[name]
       [] i # 0 -> IF world.envFiles[i].kind = "missing" THEN ""
                   ELSE ValueIn(world.envFiles[i].lines, name)]

FirstOf(value, sources, n) ==
  \E i \in 0..n : /\ value = sources[i]
                  /\ \A j \in 0..(i - 1) : sources[j] = ""
                  /\ value = "" => i = n

FirstSourceWins ==
  pc \notin {"env", "over"} =>
    \A n \in Variable : FirstOf(env[n], Sources(n), Len(world.envFiles))

(* No check that was accepted writes over another check or over a field of  *)
(* the record itself, and the schema knows every field of a record and      *)
(* admits what transform.py puts there (RESERVED_FIELD_NAMES and the        *)
(* duplicate check of config.py, the record of transform.py and the schema  *)
(* of schema_gen.py are kept by hand, apart). host_ip is left out: a host   *)
(* without host-ip has null there, which the schema does not admit.         *)
RecordsKeepTheirFields ==
  /\ Cardinality(CheckFields) = Len(checks)
  /\ CheckFields \cap RecordBase = {}
  /\ RecordBase \subseteq DOMAIN GenerateSchema
  /\ \A p \in RecordBase \ {"host_ip"} : RecordTypes[p] \subseteq GenerateSchema[p]

(* A command goes on to its work (exit 0) if and only if nothing it needs   *)
(* is wrong, whatever the order in which the code looks; it blames its      *)
(* settings (exit 2) only if one is wrong in a way that config.py names,    *)
(* and ends as unexpected (exit 1) only over a file it cannot read or a     *)
(* section that is no mapping. An offline dry run needs no secret,          *)
(* validate-config needs them all, gen-schema needs no config.yaml.         *)
ManifestOk ==
  /\ world.manifest # <<>>
  /\ \A i \in DOMAIN world.manifest :
       LET e == world.manifest[i]
       IN  /\ e.field \in WellFormed \ ReservedFieldNames
           /\ \A j \in DOMAIN world.manifest : world.manifest[j].field = e.field => i = j
           /\ \E k \in 1..3 : /\ e.match[MatchKeys[k]] \notin {"absent", ""}
                              /\ \A l \in 1..(k - 1) : e.match[MatchKeys[l]] = "absent"

Given(name) == \E i \in DOMAIN Sources(name) : Sources(name)[i] # ""

Rejected == {"missing", "malformed"}

NeedsConfig == world.command # "gen-schema"

FlawedFiles ==
  \/ \E i \in DOMAIN world.envFiles :
       \/ world.envFiles[i].kind = "unreadable"
       \/ world.explicit /\ world.envFiles[i].kind = "missing"
  \/ world.checksFile \in Rejected
  \/ world.checksFile = "mapping" /\ ~ManifestOk
  \/ NeedsConfig /\ (world.config.file \in Rejected \/ world.config.nessus = "format")
  \/ world.command = "run" /\ world.reread \in Rejected

FlawedSettings ==
  \/ /\ UsesNessus \/ world.command = "validate-config"
     /\ ~Given("NESSUS_ACCESS_KEY") \/ ~Given("NESSUS_SECRET_KEY")
  \/ (UsesDrata \/ world.command = "validate-config") /\ ~Given("DRATA_API_KEY")
  \/ world.command = "run" /\ ~world.fixtures /\ ~world.config.selected
  \/ world.command = "run" /\ ~world.dry /\ ~world.config.ids

Broken ==
  \/ world.checksFile = "unreadable"
  \/ /\ NeedsConfig
     /\ world.config.file = "unreadable" \/ world.config.nessus = "list" \/ ~world.config.rest
  \/ world.command = "run" /\ world.reread = "unreadable"

Flawed == FlawedFiles \/ FlawedSettings

ExitTellsCause ==
  pc = "over" => /\ exit = 0 <=> ~Flawed /\ ~Broken
                 /\ exit = 2 => Flawed
                 /\ exit = 1 => Broken

=============================================================================
