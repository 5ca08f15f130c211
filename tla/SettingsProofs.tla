---------------------------- MODULE SettingsProofs ----------------------------
(***************************************************************************)
(* Theorems about Settings, for any number of env files, any manifest and   *)
(* any command: where a variable's value comes from, that no check of an    *)
(* accepted manifest takes a field that belongs to another, and that the    *)
(* exit code of a command tells what was wrong, if anything was.            *)
(***************************************************************************)
EXTENDS Settings, FiniteSetTheorems, TLAPS

Loaded == Len(world.envFiles) - Len(todo)

(* Each variable has the value of the first source so far that gives one,   *)
(* and the checks accepted so far have fields of their own.                 *)
IInv ==
  /\ world \in Worlds
  /\ pc \in {"env", "manifest", "checks", "sections", "nessus", "reread", "drata", "over"}
  /\ exit \in {0, 1, 2} /\ (exit # 0 => pc = "over")
  /\ DOMAIN env = Variable
  /\ todo \in Seq(Range(world.envFiles)) /\ Len(todo) <= Len(world.envFiles)
  /\ \A i \in 1..Len(todo) : todo[i] = world.envFiles[Loaded + i]
  /\ pc \notin {"env", "over"} => todo = <<>>
  /\ pc # "over" => \A n \in Variable : FirstOf(env[n], Sources(n), Loaded)
  /\ checks \in Seq(Range(checks)) /\ Len(checks) <= Len(world.manifest)
  /\ IsFiniteSet(CheckFields) /\ Cardinality(CheckFields) = Len(checks)
  /\ CheckFields \cap RecordBase = {}

(* What a world is made of.                                                 *)
LEMMA WorldFacts ==
  ASSUME NEW w \in Worlds
  PROVE  /\ Len(w.envFiles) \in Nat /\ DOMAIN w.envFiles = 1..Len(w.envFiles)
         /\ w.envFiles \in Seq(Range(w.envFiles))
         /\ Len(w.manifest) \in Nat /\ w.manifest \in Seq(Range(w.manifest))
  BY SettingsAssumption

(* One more source is asked when the sources before it gave nothing.        *)
LEMMA OneMoreSource ==
  ASSUME NEW sources, NEW n \in Nat, NEW value, FirstOf(value, sources, n)
  PROVE  /\ value # "" => FirstOf(value, sources, n + 1)
         /\ value = "" => FirstOf(sources[n + 1], sources, n + 1)
<1>1. PICK i \in 0..n : /\ value = sources[i]
                        /\ \A j \in 0..(i - 1) : sources[j] = ""
                        /\ value = "" => i = n
  BY DEF FirstOf
<1>2. ASSUME value # "" PROVE FirstOf(value, sources, n + 1)
  <2>1. i \in 0..(n + 1)
    OBVIOUS
  <2> QED
    BY <1>1, <1>2, <2>1 DEF FirstOf
<1>3. ASSUME value = "" PROVE FirstOf(sources[n + 1], sources, n + 1)
  <2>1. n + 1 \in 0..(n + 1) /\ (n + 1) - 1 = n
    OBVIOUS
  <2>2. \A j \in 0..n : j = n \/ j \in 0..(n - 1)
    OBVIOUS
  <2>3. sources[n] = "" /\ \A j \in 0..(n - 1) : sources[j] = ""
    BY <1>1, <1>3
  <2>4. \A j \in 0..n : sources[j] = ""
    BY <2>2, <2>3
  <2>5. \A j \in 0..((n + 1) - 1) : sources[j] = ""
    BY <2>1, <2>4
  <2> QED
    BY <2>1, <2>5 DEF FirstOf
<1> QED
  BY <1>2, <1>3

(* Before the first file the real environment is the only source.           *)
LEMMA InitIInv == Init => IInv
<1> SUFFICES ASSUME Init PROVE IInv
  OBVIOUS
<1>1. world \in Worlds /\ todo = world.envFiles /\ checks = <<>> /\ pc = "env" /\ exit = 0
      /\ env = world.env
  BY DEF Init
<1>2. todo \in Seq(Range(world.envFiles)) /\ Len(todo) \in Nat /\ Loaded = 0
  BY <1>1, WorldFacts DEF Loaded
<1>3. \A n \in Variable : FirstOf(env[n], Sources(n), Loaded)
  <2> SUFFICES ASSUME NEW n \in Variable PROVE FirstOf(env[n], Sources(n), 0)
    BY <1>2
  <2>1. 0 \in 0..Len(world.envFiles)
    BY <1>1, WorldFacts
  <2>2. Sources(n)[0] = env[n]
    BY <1>1, <2>1 DEF Sources
  <2>3. 0 \in 0..0 /\ \A j \in 0..(0 - 1) : FALSE
    OBVIOUS
  <2> QED
    BY <2>2, <2>3 DEF FirstOf
<1>4. CheckFields = {} /\ Len(checks) = 0 /\ checks \in Seq(Range(checks))
  BY <1>1 DEF CheckFields
<1>5. IsFiniteSet(CheckFields) /\ Cardinality(CheckFields) = 0
  BY <1>4, FS_EmptySet
<1>6. DOMAIN env = Variable
  BY <1>1, SettingsAssumption
<1>7. \A i \in 1..Len(todo) : todo[i] = world.envFiles[Loaded + i]
  BY <1>1, <1>2
<1> QED
  BY <1>1, <1>2, <1>3, <1>4, <1>5, <1>6, <1>7, WorldFacts DEF IInv

(* A file gives a value to the variables that have none.                    *)
LEMMA LoadIInv == ASSUME IInv, LoadEnvFile PROVE IInv'
<1>1. /\ pc = "env" /\ todo # <<>>
      /\ UNCHANGED <<world, checks>>
  BY DEF LoadEnvFile
<1>2. Len(world.envFiles) \in Nat /\ world.envFiles \in Seq(Range(world.envFiles))
  BY WorldFacts DEF IInv
<1>3. CheckFields' = CheckFields /\ \A n : Sources(n)' = Sources(n)
  BY <1>1 DEF CheckFields, Sources
<1>4. CASE pc' = "over" /\ exit' = 2 /\ UNCHANGED <<todo, env>>
  <2>1. Loaded' = Loaded
    BY <1>1, <1>4 DEF Loaded
  <2> QED
    BY <1>1, <1>3, <1>4, <2>1 DEF IInv
<1>5. CASE /\ todo' = Tail(todo)
           /\ env' = IF Head(todo).kind = "missing" THEN env ELSE LoadedFrom(Head(todo))
           /\ UNCHANGED <<pc, exit>>
  <2> DEFINE file == Head(todo)
             k == Loaded
  <2>1. /\ Len(todo) \in Nat \ {0} /\ k \in Nat
        /\ todo' \in Seq(Range(world.envFiles)) /\ Len(todo') = Len(todo) - 1
        /\ \A i \in 1..Len(todo') : todo'[i] = todo[i + 1]
        /\ file = world.envFiles[k + 1]
        /\ k + 1 \in 1..Len(world.envFiles)
    BY <1>1, <1>2, <1>5 DEF IInv, Loaded
  <2>2. Loaded' = k + 1
    BY <1>1, <1>2, <2>1 DEF Loaded
  <2>3. \A i \in 1..Len(todo') : todo'[i] = world.envFiles[(k + 1) + i]
    <3> SUFFICES ASSUME NEW i \in 1..Len(todo')
                 PROVE  todo'[i] = world.envFiles[(k + 1) + i]
      OBVIOUS
    <3>1. i + 1 \in 1..Len(todo) /\ k + (i + 1) = (k + 1) + i
      BY <2>1
    <3> QED
      BY <2>1, <3>1 DEF IInv
  <2>4. \A n \in Variable : Sources(n)[k + 1] = IF file.kind = "missing" THEN ""
                                                 ELSE ValueIn(file.lines, n)
    <3>1. k + 1 \in 0..Len(world.envFiles) /\ k + 1 # 0
      BY <1>2, <2>1
    <3> HIDE DEF k
    <3>2. world.envFiles[k + 1] = file
      BY <2>1
    <3> HIDE DEF file
    <3> QED
      BY <3>1, <3>2 DEF Sources
  <2>5. \A n \in Variable : env'[n] = IF env[n] # "" THEN env[n] ELSE Sources(n)[k + 1]
    <3>1. CASE file.kind = "missing"
      BY <1>5, <2>4, <3>1
    <3>2. CASE file.kind # "missing"
      <4>1. env' = [n \in Variable |-> IF env[n] # "" THEN env[n] ELSE ValueIn(file.lines, n)]
        BY <1>5, <3>2 DEF LoadedFrom
      <4> QED
        BY <2>4, <3>2, <4>1
    <3> QED
      BY <3>1, <3>2
  <2>6. DOMAIN env' = Variable
    BY <1>5 DEF IInv, LoadedFrom
  <2>7. \A n \in Variable : FirstOf(env'[n], Sources(n), k + 1)
    <3> SUFFICES ASSUME NEW n \in Variable PROVE FirstOf(env'[n], Sources(n), k + 1)
      OBVIOUS
    <3>1. FirstOf(env[n], Sources(n), k)
      BY <1>1 DEF IInv
    <3>2. env'[n] = IF env[n] # "" THEN env[n] ELSE Sources(n)[k + 1]
      BY <2>5
    <3>3. /\ env[n] # "" => env'[n] = env[n]
          /\ env[n] = "" => env'[n] = Sources(n)[k + 1]
      BY <3>2
    <3> QED
      BY <2>1, <3>1, <3>3, OneMoreSource
  <2> QED
    BY <1>1, <1>3, <1>5, <2>1, <2>2, <2>3, <2>6, <2>7 DEF IInv
<1> QED
  BY <1>1, <1>4, <1>5 DEF LoadEnvFile, Exit

(* An accepted entry has a field that no check before it has.               *)
LEMMA EntryIInv == ASSUME IInv, ParseEntry PROVE IInv'
<1> DEFINE entry == world.manifest[Len(checks) + 1]
           check == [field |-> entry.field, type |-> MatchOf(entry)[1], value |-> MatchOf(entry)[2]]
<1>1. pc = "checks" /\ Len(checks) < Len(world.manifest) /\ UNCHANGED <<world, todo, env>>
  BY DEF ParseEntry
<1>2. Loaded' = Loaded /\ \A n : Sources(n)' = Sources(n)
  BY <1>1 DEF Loaded, Sources
<1>3. CASE pc' = "over" /\ exit' = 2 /\ UNCHANGED checks
  <2>1. CheckFields' = CheckFields
    BY <1>3 DEF CheckFields
  <2> QED
    BY <1>1, <1>2, <1>3, <2>1 DEF IInv
<1>4. CASE Accepted(entry) /\ checks' = Append(checks, check) /\ UNCHANGED <<pc, exit>>
  <2>1. check.field = entry.field
    OBVIOUS
  <2>2. Len(checks) \in Nat /\ DOMAIN checks = 1..Len(checks) /\ Len(world.manifest) \in Nat
    BY WorldFacts DEF IInv
  <2>3. entry.field \notin CheckFields
    BY <1>4 DEF Accepted, CheckFields
  <2>4. entry.field \notin RecordBase
    BY <1>4 DEF Accepted, ValidFieldName, ReservedFieldNames, RecordBase
  <2> HIDE DEF check
  <2>5. /\ checks' \in Seq(Range(checks) \cup {check})
        /\ Len(checks') = Len(checks) + 1
        /\ checks'[Len(checks) + 1] = check
        /\ \A i \in 1..Len(checks) : checks'[i] = checks[i]
    BY <1>4 DEF IInv
  <2>6. DOMAIN checks' = 1..(Len(checks) + 1)
    BY <2>5
  <2>7. checks' \in Seq(Range(checks'))
    <3>1. \A i \in DOMAIN checks' : checks'[i] \in Range(checks')
      BY DEF Range
    <3> QED
      BY <2>2, <2>5, <2>6, <3>1
  <2>8. CheckFields' = CheckFields \cup {check.field}
    <3>1. CheckFields' = {checks'[i].field : i \in 1..(Len(checks) + 1)}
      BY <2>6 DEF CheckFields
    <3>2. CheckFields = {checks[i].field : i \in 1..Len(checks)}
      BY <2>2 DEF CheckFields
    <3> QED
      BY <2>2, <2>5, <3>1, <3>2
  <2>9. IsFiniteSet(CheckFields') /\ Cardinality(CheckFields') = Len(checks) + 1
    BY <2>1, <2>3, <2>8, FS_AddElement DEF IInv
  <2>10. CheckFields' \cap RecordBase = {}
    BY <2>1, <2>4, <2>8 DEF IInv
  <2> QED
    BY <1>1, <1>2, <1>4, <2>2, <2>5, <2>7, <2>9, <2>10 DEF IInv
<1> QED
  BY <1>1, <1>3, <1>4 DEF ParseEntry, Exit

(* The other steps only go on or end the command.                           *)
LEMMA NextIInv == ASSUME IInv, [Next]_vars PROVE IInv'
<1>1. CASE LoadEnvFile
  BY <1>1, LoadIInv
<1>2. CASE ParseEntry
  BY <1>2, EntryIInv
<1>3. CASE \/ LoadConfig \/ LoadManifest \/ GenSchema \/ LoadSecrets \/ BuildConfig
            \/ ReachNessus \/ LoadAuditFile \/ ReachDrata \/ Over \/ UNCHANGED vars
  <2>1. UNCHANGED <<world, todo, env, checks>>
    BY <1>3 DEF LoadConfig, LoadManifest, GenSchema, LoadSecrets, BuildConfig, ReachNessus,
                LoadAuditFile, ReachDrata, Over, vars
  <2>2. /\ pc' \in {"manifest", "checks", "sections", "nessus", "reread", "drata", "over"}
           \/ pc' = pc
        /\ exit' \in {0, 1, 2} /\ (exit' # 0 => pc' = "over")
        /\ pc' \notin {"env", "over"} => todo = <<>>
        /\ pc' # "over" => pc # "over"
    <3>1. CASE LoadConfig
      BY <3>1 DEF LoadConfig, LoadYaml, Exit, Goto, IInv
    <3>2. CASE LoadManifest
      BY <3>2 DEF LoadManifest, LoadYaml, Exit, Goto, IInv
    <3>3. CASE GenSchema \/ LoadSecrets
      BY <3>3 DEF GenSchema, LoadSecrets, Exit, Goto, IInv
    <3>4. CASE BuildConfig
      BY <3>4 DEF BuildConfig, Exit, Goto, IInv
    <3>5. CASE ReachNessus
      BY <3>5 DEF ReachNessus, Exit, Goto, IInv
    <3>6. CASE LoadAuditFile
      BY <3>6 DEF LoadAuditFile, LoadYaml, Exit, Goto, IInv
    <3>7. CASE ReachDrata
      BY <3>7 DEF ReachDrata, Exit, Goto, IInv
    <3>8. CASE Over \/ UNCHANGED vars
      BY <3>8 DEF Over, vars, IInv
    <3> QED
      BY <1>3, <3>1, <3>2, <3>3, <3>4, <3>5, <3>6, <3>7, <3>8
  <2>3. Loaded' = Loaded /\ CheckFields' = CheckFields /\ \A n : Sources(n)' = Sources(n)
    BY <2>1 DEF Loaded, CheckFields, Sources
  <2> QED
    BY <2>1, <2>2, <2>3 DEF IInv
<1> QED
  BY <1>1, <1>2, <1>3 DEF Next

(* So the invariant always holds.                                           *)
LEMMA Invariance == Spec => []IInv
BY InitIInv, NextIInv, PTL DEF Spec

(* A command that is over has exit code 0, 1 or 2, one that is not has none *)
(* yet, and never more checks are accepted than the manifest has.           *)
THEOREM SettingsTypes == Spec => []TypeOK
<1>1. IInv => TypeOK
  BY DEF IInv, TypeOK
<1> QED
  BY <1>1, Invariance, PTL

(* However many env files there are, the real environment wins over all of  *)
(* them, and an earlier file over a later one (load_env_file).              *)
THEOREM FirstSourceGiven == Spec => []FirstSourceWins
<1>1. IInv => FirstSourceWins
  <2> SUFFICES ASSUME IInv, pc \notin {"env", "over"}
               PROVE  \A n \in Variable : FirstOf(env[n], Sources(n), Len(world.envFiles))
    BY DEF FirstSourceWins
  <2>1. Loaded = Len(world.envFiles)
    BY WorldFacts DEF IInv, Loaded
  <2> QED
    BY <2>1 DEF IInv
<1> QED
  BY <1>1, Invariance, PTL

(* The schema lists every field of a record, with a type that admits it.    *)
LEMMA SchemaCoversRecord ==
  /\ RecordBase \subseteq DOMAIN BaseProperties
  /\ \A p \in RecordBase \ {"host_ip"} : RecordTypes[p] \subseteq BaseProperties[p]
<1> DEFINE Strings == {"id", "hostname", "scan_name", "scan_ended_at", "collected_at",
                       "failed_check_fields", "source_fidelity"}
<1>1. DOMAIN BaseProperties = Texts \cup Options \cup Numbers \cup {"all_required_checks_passed"}
  BY DEF BaseProperties
<1>2. RecordBase = Strings \cup {"host_ip"} \cup Options \cup Numbers
                   \cup {"all_required_checks_passed"}
  BY DEF RecordBase, Options, Numbers
<1>3. RecordBase \subseteq DOMAIN BaseProperties
  BY <1>1, <1>2 DEF Texts
<1>4. \A p \in Strings : RecordTypes[p] = {"string"} /\ BaseProperties[p] = {"string"}
  BY DEF RecordTypes, BaseProperties, RecordBase, Texts, Options, Numbers
<1>5. \A p \in Options : /\ RecordTypes[p] = {"string", "null"}
                        /\ BaseProperties[p] = {"string", "null"}
  BY DEF RecordTypes, BaseProperties, RecordBase, Texts, Options, Numbers
<1>6. \A p \in Numbers : RecordTypes[p] = {"number"} /\ BaseProperties[p] = {"number"}
  BY DEF RecordTypes, BaseProperties, RecordBase, Texts, Options, Numbers
<1>7. /\ RecordTypes["all_required_checks_passed"] = {"boolean"}
      /\ BaseProperties["all_required_checks_passed"] = {"boolean"}
  BY DEF RecordTypes, BaseProperties, RecordBase, Texts, Options, Numbers
<1> HIDE DEF Strings
<1> QED
  BY <1>2, <1>3, <1>4, <1>5, <1>6, <1>7

(* No check that is accepted, of a manifest of any length, has the field of *)
(* another check or of the record itself, and the schema lists the record's *)
(* fields with types that admit them (load_checks_manifest,                 *)
(* transform_host_results, generate_schema).                                *)
THEOREM FieldsAreKept == Spec => []RecordsKeepTheirFields
<1>1. IInv => RecordsKeepTheirFields
  <2> SUFFICES ASSUME IInv PROVE RecordsKeepTheirFields
    OBVIOUS
  <2>1. Cardinality(CheckFields) = Len(checks) /\ CheckFields \cap RecordBase = {}
    BY DEF IInv
  <2>2. RecordBase \subseteq DOMAIN GenerateSchema
    BY SchemaCoversRecord DEF GenerateSchema
  <2>3. \A p \in RecordBase : GenerateSchema[p] = BaseProperties[p]
    BY <2>1, SchemaCoversRecord DEF GenerateSchema
  <2> QED
    BY <2>1, <2>2, <2>3, SchemaCoversRecord DEF RecordsKeepTheirFields
<1> QED
  BY <1>1, Invariance, PTL

-----------------------------------------------------------------------------
(***************************************************************************)
(* Why a command is refused.  Each step of the code looks at one need and   *)
(* goes on if it is met; at the end no need is left unasked.                *)
(***************************************************************************)

FileOk(i) ==
  /\ world.envFiles[i].kind # "unreadable"
  /\ world.explicit => world.envFiles[i].kind # "missing"

EntryOk(e) ==
  /\ e.field \in WellFormed \ ReservedFieldNames
  /\ \E k \in 1..3 : /\ e.match[MatchKeys[k]] \notin {"absent", ""}
                     /\ \A l \in 1..(k - 1) : e.match[MatchKeys[l]] = "absent"

(* What has been asked so far, by the place the command has come to.        *)
Asked ==
  /\ \A i \in 1..Loaded : FileOk(i)
  /\ \A i \in 1..Len(checks) : /\ checks[i].field = world.manifest[i].field
                               /\ EntryOk(world.manifest[i])
  /\ \A i, j \in 1..Len(checks) : checks[i].field = checks[j].field => i = j
  /\ pc # "env" /\ NeedsConfig => world.config.file = "mapping"
  /\ pc \notin {"env", "manifest"} => world.checksFile = "mapping" /\ world.manifest # <<>>
  /\ pc \notin {"env", "manifest", "checks"} =>
       /\ Whole /\ NeedsConfig
       /\ world.command = "validate-config" => HasAll(Variable)
  /\ pc \in {"nessus", "reread", "drata"} =>
       /\ world.config.nessus = "ok" /\ world.config.rest
       /\ world.command # "validate-config"
  /\ pc \in {"reread", "drata"} /\ UsesNessus =>
       /\ HasAll({"NESSUS_ACCESS_KEY", "NESSUS_SECRET_KEY"})
       /\ world.command = "run" => world.config.selected
  /\ pc = "drata" /\ world.command = "run" => world.reread = "mapping"

IInv2 ==
  /\ IInv
  /\ pc # "over" => Asked
  /\ ExitTellsCause

(* The key that decides is the first one there.                             *)
LEMMA MatchFound ==
  ASSUME NEW e
  PROVE  (MatchOf(e) # <<>> /\ MatchOf(e)[2] # "") <=>
           \E k \in 1..3 : /\ e.match[MatchKeys[k]] \notin {"absent", ""}
                           /\ \A l \in 1..(k - 1) : e.match[MatchKeys[l]] = "absent"
<1> DEFINE present == {k \in 1..3 : e.match[MatchKeys[k]] # "absent"}
           first == CHOOSE k \in present : \A l \in present : k <= l
<1>1. CASE present = {}
  BY <1>1 DEF MatchOf
<1>2. CASE present # {}
  <2>1. \E k \in present : \A l \in present : k <= l
    BY <1>2
  <2>2. first \in present /\ \A l \in present : first <= l
    BY <2>1
  <2>3. MatchOf(e) = <<MatchKeys[first], e.match[MatchKeys[first]]>>
    BY <1>2 DEF MatchOf
  <2> HIDE DEF first
  <2>4. MatchOf(e) # <<>> /\ MatchOf(e)[2] = e.match[MatchKeys[first]]
    BY <2>3
  <2>5. \A k \in 1..3 :
          e.match[MatchKeys[k]] # "absent"
            /\ (\A l \in 1..(k - 1) : e.match[MatchKeys[l]] = "absent") <=> k = first
    BY <2>2
  <2>6. first \in 1..3 /\ e.match[MatchKeys[first]] # "absent"
    BY <2>2
  <2> QED
    BY <2>4, <2>5, <2>6
<1> QED
  BY <1>1, <1>2

(* When all env files are loaded, a variable has a value if and only if one *)
(* of its sources gives one.                                                *)
LEMMA ValueIsGiven ==
  ASSUME IInv, pc # "over", Loaded = Len(world.envFiles), NEW n \in Variable
  PROVE  env[n] # "" <=> Given(n)
<1>1. Len(world.envFiles) \in Nat
  BY WorldFacts DEF IInv
<1> DEFINE s == Sources(n)
           m == Len(world.envFiles)
<1>2. DOMAIN s = 0..m
  BY DEF Sources
<1>3. PICK i \in 0..m : /\ env[n] = s[i]
                        /\ \A j \in 0..(i - 1) : s[j] = ""
                        /\ env[n] = "" => i = m
  BY DEF IInv, FirstOf
<1> HIDE DEF s, m
<1>4. CASE env[n] # ""
  BY <1>2, <1>3, <1>4 DEF Given, s
<1>5. CASE env[n] = ""
  <2>1. \A j \in 0..m : j = m \/ j \in 0..(m - 1)
    BY <1>1 DEF m
  <2>2. \A j \in 0..m : s[j] = ""
    BY <1>3, <1>5, <2>1
  <2> QED
    BY <1>2, <1>5, <2>2 DEF Given, s
<1> QED
  BY <1>4, <1>5

(* A manifest of which every entry was accepted has nothing wrong.          *)
LEMMA WholeManifest ==
  ASSUME IInv, Asked, Len(checks) = Len(world.manifest), world.manifest # <<>>
  PROVE  ManifestOk
<1>1. /\ Len(checks) \in Nat /\ Len(world.manifest) \in Nat
      /\ DOMAIN world.manifest = 1..Len(world.manifest)
  BY WorldFacts DEF IInv
<1>2. \A i \in DOMAIN world.manifest :
        EntryOk(world.manifest[i]) /\ checks[i].field = world.manifest[i].field
  BY <1>1 DEF Asked
<1>3. \A i, j \in DOMAIN world.manifest :
        world.manifest[i].field = world.manifest[j].field => i = j
  BY <1>1, <1>2 DEF Asked
<1> QED
  BY <1>2, <1>3 DEF ManifestOk, EntryOk

(* A manifest with an entry that is not accepted has something wrong.       *)
LEMMA BrokenManifest ==
  ASSUME IInv, Asked, Len(checks) < Len(world.manifest),
         ~Accepted(world.manifest[Len(checks) + 1])
  PROVE  ~ManifestOk
<1> DEFINE n == Len(checks) + 1
           e == world.manifest[n]
<1>1. /\ Len(checks) \in Nat /\ DOMAIN checks = 1..Len(checks)
      /\ Len(world.manifest) \in Nat /\ DOMAIN world.manifest = 1..Len(world.manifest)
  BY WorldFacts DEF IInv
<1>2. n \in DOMAIN world.manifest
  BY <1>1
<1>3. CASE ~EntryOk(e)
  BY <1>2, <1>3 DEF ManifestOk, EntryOk
<1>4. CASE EntryOk(e)
  <2>1. PICK i \in DOMAIN checks : checks[i].field = e.field
    BY <1>4, MatchFound DEF Accepted, EntryOk, ValidFieldName
  <2>2. i \in DOMAIN world.manifest /\ world.manifest[i].field = e.field /\ i # n
    BY <1>1, <2>1 DEF Asked
  <2> QED
    BY <1>2, <2>2 DEF ManifestOk
<1> QED
  BY <1>3, <1>4

(* What is wrong is a matter of the world alone.                            *)
LEMMA CausesStay ==
  ASSUME UNCHANGED world
  PROVE  /\ Flawed' <=> Flawed
         /\ Broken' <=> Broken
         /\ UsesNessus' <=> UsesNessus
         /\ NeedsConfig' <=> NeedsConfig
         /\ \A i : FileOk(i)' <=> FileOk(i)
         /\ \A e : EntryOk(e)' <=> EntryOk(e)
<1>1. ManifestOk' <=> ManifestOk
  BY DEF ManifestOk
<1>2. \A n : Given(n)' <=> Given(n)
  BY DEF Given, Sources
<1>3. FlawedFiles' <=> FlawedFiles
  BY <1>1 DEF FlawedFiles, NeedsConfig
<1>4. FlawedSettings' <=> FlawedSettings
  BY <1>2 DEF FlawedSettings, UsesNessus, UsesDrata
<1> QED
  BY <1>3, <1>4 DEF Flawed, Broken, UsesNessus, NeedsConfig, FileOk, EntryOk

LEMMA InitIInv2 == Init => IInv2
<1> SUFFICES ASSUME Init PROVE IInv2
  OBVIOUS
<1>1. pc = "env" /\ Len(checks) = 0 /\ Loaded = 0
  <2>1. Len(world.envFiles) \in Nat
    BY WorldFacts DEF Init
  <2> QED
    BY <2>1 DEF Init, Loaded
<1> QED
  BY <1>1, InitIInv DEF IInv2, Asked, ExitTellsCause

LEMMA LoadAsked == ASSUME IInv2, LoadEnvFile PROVE IInv2'
<1>1. pc = "env" /\ todo # <<>> /\ UNCHANGED <<world, checks>>
  BY DEF LoadEnvFile
<1>2. /\ Len(world.envFiles) \in Nat /\ DOMAIN world.envFiles = 1..Len(world.envFiles)
      /\ Len(todo) \in Nat \ {0} /\ Len(todo) <= Len(world.envFiles)
      /\ Loaded \in Nat /\ Loaded + 1 \in 1..Len(world.envFiles)
      /\ Head(todo) = world.envFiles[Loaded + 1]
  BY <1>1, WorldFacts DEF IInv2, IInv, Loaded
<1>3. CASE /\ Head(todo).kind = "unreadable" \/ (Head(todo).kind = "missing" /\ world.explicit)
           /\ pc' = "over" /\ exit' = 2
  <2>1. Flawed
    BY <1>2, <1>3 DEF Flawed, FlawedFiles
  <2> QED
    BY <1>1, <1>3, <2>1, CausesStay, NextIInv DEF IInv2, ExitTellsCause, Next
<1>4. CASE /\ ~(Head(todo).kind = "unreadable" \/ (Head(todo).kind = "missing" /\ world.explicit))
           /\ todo' = Tail(todo) /\ UNCHANGED pc
  <2>1. Loaded' = Loaded + 1
    BY <1>1, <1>2, <1>4 DEF Loaded, IInv2, IInv
  <2>2. FileOk(Loaded + 1)
    BY <1>2, <1>4 DEF FileOk
  <2>3. \A i \in 1..(Loaded + 1) : FileOk(i)
    BY <1>1, <1>2, <2>2 DEF IInv2, Asked
  <2>4. Asked'
    BY <1>1, <1>4, <2>1, <2>3, CausesStay DEF IInv2, Asked
  <2> QED
    BY <1>1, <1>4, <2>4, NextIInv DEF IInv2, ExitTellsCause, Next
<1> QED
  BY <1>1, <1>3, <1>4 DEF LoadEnvFile, Exit

LEMMA EntryAsked == ASSUME IInv2, ParseEntry PROVE IInv2'
<1> DEFINE entry == world.manifest[Len(checks) + 1]
<1>1. pc = "checks" /\ Len(checks) < Len(world.manifest) /\ UNCHANGED <<world, todo, env>>
  BY DEF ParseEntry
<1>2. /\ Len(checks) \in Nat /\ DOMAIN checks = 1..Len(checks)
      /\ checks \in Seq(Range(checks))
  BY DEF IInv2, IInv
<1>3. IInv'
  BY NextIInv DEF IInv2, Next
<1>4. CASE ~Accepted(entry) /\ pc' = "over" /\ exit' = 2
  <2>1. ~ManifestOk
    BY <1>1, <1>4, BrokenManifest DEF IInv2
  <2>2. Flawed
    BY <1>1, <2>1 DEF IInv2, Asked, Flawed, FlawedFiles
  <2> QED
    BY <1>1, <1>3, <1>4, <2>2, CausesStay DEF IInv2, ExitTellsCause
<1>5. CASE /\ Accepted(entry) /\ UNCHANGED pc
           /\ checks' = Append(checks, [field |-> entry.field, type |-> MatchOf(entry)[1],
                                        value |-> MatchOf(entry)[2]])
  <2>1. /\ Len(checks') = Len(checks) + 1
        /\ checks'[Len(checks) + 1].field = entry.field
        /\ \A i \in 1..Len(checks) : checks'[i] = checks[i]
    BY <1>2, <1>5
  <2>2. EntryOk(entry)
    BY <1>5, MatchFound DEF Accepted, EntryOk, ValidFieldName
  <2>3. \A i \in 1..Len(checks) : checks[i].field # entry.field
    BY <1>2, <1>5 DEF Accepted
  <2>4. Loaded' = Loaded
    BY <1>1 DEF Loaded
  <2>5. \A i \in 1..Len(checks') : /\ checks'[i].field = world.manifest[i].field
                                   /\ EntryOk(world.manifest[i])
    <3> SUFFICES ASSUME NEW i \in 1..Len(checks')
                 PROVE  checks'[i].field = world.manifest[i].field /\ EntryOk(world.manifest[i])
      OBVIOUS
    <3>1. CASE i = Len(checks) + 1
      BY <2>1, <2>2, <3>1
    <3>2. CASE i \in 1..Len(checks)
      BY <1>1, <2>1, <3>2 DEF IInv2, Asked
    <3> QED
      BY <1>2, <2>1, <3>1, <3>2
  <2>6. \A i, j \in 1..Len(checks') : checks'[i].field = checks'[j].field => i = j
    BY <1>1, <1>2, <2>1, <2>3 DEF IInv2, Asked
  <2>7. Asked'
    BY <1>1, <1>5, <2>4, <2>5, <2>6, CausesStay DEF IInv2, Asked
  <2> QED
    BY <1>1, <1>3, <1>5, <2>7 DEF IInv2, ExitTellsCause
<1> QED
  BY <1>1, <1>4, <1>5 DEF ParseEntry, Exit

(* The remaining steps change only the place and the exit code.             *)
LEMMA PhasesAsked ==
  ASSUME IInv2,
         \/ LoadConfig \/ LoadManifest \/ GenSchema \/ LoadSecrets \/ BuildConfig
         \/ ReachNessus \/ LoadAuditFile \/ ReachDrata
  PROVE  IInv2'
<1>1. UNCHANGED <<world, todo, env, checks>> /\ pc # "over"
  BY DEF LoadConfig, LoadManifest, GenSchema, LoadSecrets, BuildConfig, ReachNessus,
         LoadAuditFile, ReachDrata
<1>2. IInv' /\ todo = <<>> /\ Asked
  BY <1>1, NextIInv DEF IInv2, IInv, Next, LoadConfig, LoadManifest, GenSchema, LoadSecrets,
                        BuildConfig, ReachNessus, LoadAuditFile, ReachDrata
<1>3. Loaded = Len(world.envFiles) /\ DOMAIN world.envFiles = 1..Len(world.envFiles)
  BY <1>2, WorldFacts DEF Loaded, IInv2, IInv
<1>4. /\ Loaded' = Loaded /\ (Whole' <=> Whole)
      /\ \A S : HasAll(S)' <=> HasAll(S)
  BY <1>1 DEF Loaded, Whole, HasAll
<1>5. ~\E i \in DOMAIN world.envFiles :
        \/ world.envFiles[i].kind = "unreadable"
        \/ world.explicit /\ world.envFiles[i].kind = "missing"
  BY <1>2, <1>3 DEF Asked, FileOk
<1>6. \A S \in SUBSET Variable : HasAll(S) <=> \A n \in S : Given(n)
  BY <1>1, <1>3, ValueIsGiven DEF HasAll, IInv2
<1> DEFINE Keys == {"NESSUS_ACCESS_KEY", "NESSUS_SECRET_KEY"}
<1>7. /\ HasAll(Keys) <=> Given("NESSUS_ACCESS_KEY") /\ Given("NESSUS_SECRET_KEY")
      /\ HasAll({"DRATA_API_KEY"}) <=> Given("DRATA_API_KEY")
      /\ HasAll(Variable) <=> /\ Given("NESSUS_ACCESS_KEY") /\ Given("NESSUS_SECRET_KEY")
                              /\ Given("DRATA_API_KEY")
  BY <1>6 DEF Variable
<1>8. world.checksFile = "mapping" /\ world.manifest # <<>> /\ Whole => ManifestOk
  BY <1>1, <1>2, WholeManifest DEF IInv2, Whole
<1>9. ASSUME Asked', pc' # "over" PROVE IInv2'
  BY <1>2, <1>9 DEF IInv2, ExitTellsCause
<1>10. ASSUME pc' = "over", exit' = 2, Flawed PROVE IInv2'
  BY <1>1, <1>2, <1>10, CausesStay DEF IInv2, ExitTellsCause
<1>11. ASSUME pc' = "over", exit' = 1, Broken PROVE IInv2'
  BY <1>1, <1>2, <1>11, CausesStay DEF IInv2, ExitTellsCause
<1>12. ASSUME pc' = "over", exit' = 0, ~Flawed, ~Broken PROVE IInv2'
  BY <1>1, <1>2, <1>12, CausesStay DEF IInv2, ExitTellsCause
<1>13. CASE LoadConfig
  <2>1. CASE pc' = "manifest" /\ (NeedsConfig => world.config.file = "mapping")
    <3>1. Asked'
      BY <1>1, <1>2, <1>4, <2>1, CausesStay DEF Asked
    <3> QED
      BY <1>9, <2>1, <3>1
  <2>2. CASE NeedsConfig /\ world.config.file \in Rejected /\ pc' = "over" /\ exit' = 2
    BY <1>10, <2>2 DEF Flawed, FlawedFiles
  <2>3. CASE NeedsConfig /\ world.config.file = "unreadable" /\ pc' = "over" /\ exit' = 1
    BY <1>11, <2>3 DEF Broken
  <2> QED
    BY <1>13, <2>1, <2>2, <2>3 DEF LoadConfig, LoadYaml, Exit, Goto, NeedsConfig, Rejected
<1>14. CASE LoadManifest
  <2>1. CASE pc' = "checks" /\ world.checksFile = "mapping" /\ world.manifest # <<>>
    <3>1. Asked'
      BY <1>1, <1>2, <1>4, <1>14, <2>1, CausesStay DEF Asked, LoadManifest
    <3> QED
      BY <1>9, <2>1, <3>1
  <2>2. CASE world.checksFile = "mapping" /\ world.manifest = <<>> /\ pc' = "over" /\ exit' = 2
    BY <1>10, <2>2 DEF Flawed, FlawedFiles, ManifestOk
  <2>3. CASE world.checksFile \in Rejected /\ pc' = "over" /\ exit' = 2
    BY <1>10, <2>3 DEF Flawed, FlawedFiles
  <2>4. CASE world.checksFile = "unreadable" /\ pc' = "over" /\ exit' = 1
    BY <1>11, <2>4 DEF Broken
  <2> QED
    BY <1>14, <2>1, <2>2, <2>3, <2>4 DEF LoadManifest, LoadYaml, Exit, Goto, Rejected
<1>15. CASE GenSchema
  <2>1. pc = "checks" /\ Whole /\ world.command = "gen-schema" /\ pc' = "over" /\ exit' = 0
    BY <1>15 DEF GenSchema, Exit
  <2>2. world.checksFile = "mapping" /\ ManifestOk /\ ~NeedsConfig
    BY <1>2, <1>8, <2>1 DEF Asked, NeedsConfig
  <2>3. world.command # "run" /\ world.command # "validate-config" /\ ~UsesNessus /\ ~UsesDrata
    BY <2>1 DEF UsesNessus, UsesDrata
  <2>4. ~FlawedFiles
    BY <1>5, <2>2, <2>3 DEF FlawedFiles, Rejected
  <2>5. ~FlawedSettings /\ ~Broken
    BY <2>2, <2>3 DEF FlawedSettings, Broken
  <2> QED
    BY <1>12, <2>1, <2>4, <2>5 DEF Flawed
<1>16. CASE LoadSecrets
  <2>1. pc = "checks" /\ Whole /\ NeedsConfig
    BY <1>16 DEF LoadSecrets, NeedsConfig
  <2>2. CASE /\ world.command = "validate-config" /\ ~HasAll(Variable)
             /\ pc' = "over" /\ exit' = 2
    BY <1>7, <1>10, <2>2 DEF Flawed, FlawedSettings
  <2>3. CASE /\ world.command = "validate-config" => HasAll(Variable)
             /\ pc' = "sections"
    <3>1. Asked'
      BY <1>1, <1>2, <1>4, <2>1, <2>3, CausesStay DEF Asked
    <3> QED
      BY <1>9, <2>3, <3>1
  <2> QED
    BY <1>16, <2>2, <2>3 DEF LoadSecrets, Exit, Goto
<1>17. CASE BuildConfig
  <2>1. /\ pc = "sections" /\ Whole /\ NeedsConfig /\ world.config.file = "mapping"
        /\ world.checksFile = "mapping" /\ ManifestOk
        /\ world.command = "validate-config" => HasAll(Variable)
    BY <1>2, <1>8, <1>17 DEF BuildConfig, Asked
  <2>2. CASE /\ world.config.nessus = "list" \/ ~world.config.rest
             /\ pc' = "over" /\ exit' = 1
    BY <1>11, <2>1, <2>2 DEF Broken
  <2>3. CASE world.config.nessus = "format" /\ pc' = "over" /\ exit' = 2
    BY <1>10, <2>1, <2>3 DEF Flawed, FlawedFiles
  <2>4. CASE /\ world.config.nessus = "ok" /\ world.config.rest
             /\ world.command # "validate-config" /\ pc' = "nessus"
    <3>1. Asked'
      BY <1>1, <1>2, <1>4, <2>1, <2>4, CausesStay DEF Asked
    <3> QED
      BY <1>9, <2>4, <3>1
  <2>5. CASE /\ world.config.nessus = "ok" /\ world.config.rest
             /\ world.command = "validate-config" /\ pc' = "over" /\ exit' = 0
    <3>1. world.command # "run"
      BY <2>5
    <3>2. ~FlawedFiles
      BY <1>5, <2>1, <2>5, <3>1 DEF FlawedFiles, Rejected
    <3>3. ~FlawedSettings
      BY <1>7, <2>1, <2>5, <3>1 DEF FlawedSettings
    <3>4. ~Broken
      BY <2>1, <2>5, <3>1 DEF Broken
    <3> QED
      BY <1>12, <2>5, <3>2, <3>3, <3>4 DEF Flawed
  <2> QED
    BY <1>17, <2>2, <2>3, <2>4, <2>5 DEF BuildConfig, Exit, Goto
<1>18. CASE ReachNessus
  <2>1. pc = "nessus"
    BY <1>18 DEF ReachNessus
  <2>2. CASE /\ UsesNessus
             /\ ~HasAll(Keys) \/ (world.command = "run" /\ ~world.config.selected)
             /\ pc' = "over" /\ exit' = 2
    BY <1>7, <1>10, <2>2 DEF Flawed, FlawedSettings, UsesNessus
  <2>3. CASE /\ UsesNessus =>
                  HasAll(Keys) /\ (world.command = "run" => world.config.selected)
             /\ pc' = "reread"
    <3>1. Asked'
      BY <1>1, <1>2, <1>4, <2>1, <2>3, CausesStay DEF Asked
    <3> QED
      BY <1>9, <2>3, <3>1
  <2> QED
    BY <1>18, <2>2, <2>3 DEF ReachNessus, Exit, Goto
<1>19. CASE LoadAuditFile
  <2>1. pc = "reread"
    BY <1>19 DEF LoadAuditFile
  <2>2. CASE pc' = "drata" /\ (world.command = "run" => world.reread = "mapping")
    <3>1. Asked'
      BY <1>1, <1>2, <1>4, <2>1, <2>2, CausesStay DEF Asked
    <3> QED
      BY <1>9, <2>2, <3>1
  <2>3. CASE world.command = "run" /\ world.reread \in Rejected /\ pc' = "over" /\ exit' = 2
    BY <1>10, <2>3 DEF Flawed, FlawedFiles
  <2>4. CASE world.command = "run" /\ world.reread = "unreadable" /\ pc' = "over" /\ exit' = 1
    BY <1>11, <2>4 DEF Broken
  <2> QED
    BY <1>19, <2>2, <2>3, <2>4 DEF LoadAuditFile, LoadYaml, Exit, Goto, Rejected
<1>20. CASE ReachDrata
  <2>1. /\ pc = "drata" /\ Whole /\ NeedsConfig /\ world.config.file = "mapping"
        /\ world.checksFile = "mapping" /\ ManifestOk
        /\ world.config.nessus = "ok" /\ world.config.rest
        /\ world.command # "validate-config"
        /\ world.command = "run" => world.reread = "mapping"
        /\ UsesNessus => HasAll(Keys) /\ (world.command = "run" => world.config.selected)
    BY <1>2, <1>8, <1>20 DEF ReachDrata, Asked
  <2>2. CASE /\ UsesDrata
             /\ ~HasAll({"DRATA_API_KEY"}) \/ (world.command = "run" /\ ~world.config.ids)
             /\ pc' = "over" /\ exit' = 2
    BY <1>7, <1>10, <2>2 DEF Flawed, FlawedSettings, UsesDrata
  <2>3. CASE /\ UsesDrata =>
                  HasAll({"DRATA_API_KEY"}) /\ (world.command = "run" => world.config.ids)
             /\ pc' = "over" /\ exit' = 0
    <3>1. ~FlawedFiles
      BY <1>5, <2>1 DEF FlawedFiles, Rejected
    <3>2. ~FlawedSettings
      BY <1>7, <2>1, <2>3 DEF FlawedSettings, UsesNessus, UsesDrata
    <3>3. ~Broken
      BY <2>1 DEF Broken
    <3> QED
      BY <1>12, <2>3, <3>1, <3>2, <3>3 DEF Flawed
  <2> QED
    BY <1>20, <2>2, <2>3 DEF ReachDrata, Exit
<1> QED
  BY <1>13, <1>14, <1>15, <1>16, <1>17, <1>18, <1>19, <1>20

LEMMA NextIInv2 == ASSUME IInv2, [Next]_vars PROVE IInv2'
<1>1. CASE LoadEnvFile
  BY <1>1, LoadAsked
<1>2. CASE ParseEntry
  BY <1>2, EntryAsked
<1>3. CASE \/ LoadConfig \/ LoadManifest \/ GenSchema \/ LoadSecrets \/ BuildConfig
            \/ ReachNessus \/ LoadAuditFile \/ ReachDrata
  BY <1>3, PhasesAsked
<1>4. CASE Over \/ UNCHANGED vars
  <2>1. UNCHANGED <<world, pc, todo, env, checks, exit>>
    BY <1>4 DEF Over, vars
  <2>2. IInv'
    BY NextIInv DEF IInv2
  <2>3. Asked' <=> Asked
    BY <2>1, CausesStay DEF Asked, Loaded, Whole, HasAll
  <2> QED
    BY <2>1, <2>2, <2>3, CausesStay DEF IInv2, ExitTellsCause
<1> QED
  BY <1>1, <1>2, <1>3, <1>4 DEF Next

(* Whatever the command, the number of env files and of manifest entries:   *)
(* it goes on to its work if and only if nothing it needs is wrong, exits 2 *)
(* only over a flaw that config.py names, and 1 only over a file it cannot  *)
(* read or a section that is no mapping.                                    *)
THEOREM ExitsHaveCauses == Spec => []ExitTellsCause
<1>1. IInv2 => ExitTellsCause
  BY DEF IInv2
<1> QED
  BY <1>1, InitIInv2, NextIInv2, PTL DEF Spec

=============================================================================
