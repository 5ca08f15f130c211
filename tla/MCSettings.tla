------------------------------ MODULE MCSettings ------------------------------
(***************************************************************************)
(* An instance of Settings for TLC: every command, with all secrets in the  *)
(* environment, some or none, no, one or two env files, broken and sound    *)
(* settings, and manifests with every flaw that load_checks_manifest names. *)
(***************************************************************************)
EXTENDS Settings

Commands ==
  {[command |-> c, dry |-> FALSE, fixtures |-> FALSE] :
     c \in {"validate-config", "gen-schema", "probe-nessus", "probe-drata"}}
  \cup {[command |-> "run", dry |-> d, fixtures |-> f] : d, f \in BOOLEAN}

Env(access, secret, drata) ==
  [n \in Variable |-> CASE n = "NESSUS_ACCESS_KEY" -> access
                        [] n = "NESSUS_SECRET_KEY" -> secret
                        [] n = "DRATA_API_KEY" -> drata]

Text(lines) == [kind |-> "text", lines |-> lines]
Bad(kind)   == [kind |-> kind, lines |-> <<>>]
Line(k, v)  == [key |-> k, value |-> v]

Nessus == <<Line("NESSUS_ACCESS_KEY", "f"), Line("NESSUS_SECRET_KEY", "f")>>

EnvFile ==
  {Bad("missing"), Bad("unreadable"), Text(Nessus),
   Text(<<Line("PATH", "x"), Line("DRATA_API_KEY", "f")>>),
   Text(<<Line("DRATA_API_KEY", "g"), Line("DRATA_API_KEY", ""), Line("NESSUS_ACCESS_KEY", "g")>>)}

EnvChoices ==
  {[explicit |-> TRUE, envFiles |-> <<f>>] : f \in EnvFile}
  \cup {[explicit |-> FALSE, envFiles |-> <<f>>] : f \in EnvFile}
  \cup {[explicit |-> FALSE, envFiles |-> <<f, g>>] : f, g \in EnvFile}

Match(exact, prefix) ==
  [k \in {"check_name_exact", "check_name_prefix", "check_name_contains"} |->
     CASE k = "check_name_exact" -> exact [] k = "check_name_prefix" -> prefix
       [] k = "check_name_contains" -> "absent"]

Entry(field) == [field |-> field, match |-> Match("a", "absent")]

Manifests ==
  {<<>>, <<Entry("firewall")>>,
   <<Entry("firewall"), [field |-> "defender", match |-> Match("absent", "b")]>>,
   <<Entry("firewall"), Entry("defender"), Entry("firewall")>>,
   <<Entry("hostname")>>, <<Entry("x")>>, <<Entry("source_fidelity")>>,
   <<[field |-> "firewall", match |-> Match("", "b")]>>,
   <<[field |-> "firewall", match |-> Match("absent", "absent")]>>}

Sound == [file |-> "mapping", nessus |-> "ok", rest |-> TRUE, selected |-> TRUE, ids |-> TRUE]

Configs ==
  {Sound} \cup {[Sound EXCEPT !.file = f] : f \in {"missing", "malformed", "unreadable"}}
  \cup {[Sound EXCEPT !.nessus = n] : n \in {"format", "list"}}
  \cup {[Sound EXCEPT !.rest = FALSE], [Sound EXCEPT !.selected = FALSE],
         [Sound EXCEPT !.ids = FALSE],
         [Sound EXCEPT !.nessus = "format", !.rest = FALSE]}

World(c, e, env0, config, checks0, manifest, reread) ==
  [command |-> c.command, dry |-> c.dry, fixtures |-> c.fixtures, env |-> env0,
   explicit |-> e.explicit, envFiles |-> e.envFiles, config |-> config,
   checksFile |-> checks0, manifest |-> manifest, reread |-> reread]

YamlFile == {"missing", "malformed", "unreadable", "mapping"}

(* Every environment with a sound manifest, every manifest and every state  *)
(* of its file, at the first and the second reading, with one env file.     *)
MCWorlds ==
  {World(c, e, env0, config, "mapping", <<Entry("firewall")>>, "mapping") :
     c \in Commands, e \in EnvChoices, config \in Configs,
     env0 \in {Env("r", "r", "r"), Env("", "", ""), Env("", "r", "")}}
  \cup
  {World(c, [explicit |-> FALSE, envFiles |-> <<f>>], Env("", "r", "r"), config, "mapping", m, "mapping") :
     c \in Commands, f \in {Bad("missing"), Text(Nessus)}, config \in Configs,
     m \in Manifests}
  \cup
  {World(c, [explicit |-> FALSE, envFiles |-> <<f>>], Env("", "r", "r"), config, y, <<Entry("firewall")>>, z) :
     c \in Commands, f \in {Bad("missing"), Text(Nessus)}, config \in Configs,
     y, z \in YamlFile}

MCWellFormed == {"firewall", "defender", "hostname", "source_fidelity"}

=============================================================================
