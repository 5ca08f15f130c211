----------------------------- MODULE MCTransform -----------------------------
(***************************************************************************)
(* An instance of Transform for TLC.  The names a and a' (another dash or   *)
(* another blank) have one normal form, ab begins with it; hosts web, web_1 *)
(* and web-1.x share slugs in part, and --- has none.                       *)
(***************************************************************************)
EXTENDS Transform

Name == [a |-> [norm |-> <<1>>, form |-> 1], a2 |-> [norm |-> <<1>>, form |-> 2],
         ab |-> [norm |-> <<1, 2>>, form |-> 1], blank |-> [norm |-> <<>>, form |-> 2]]

Check(field, type, name, required) ==
  [field |-> field, type |-> type, value |-> name, required |-> required]

MCManifest ==
  {<<Check("f1", "check_name_exact", Name.a, TRUE),
     Check("f2", "check_name_contains", [norm |-> <<2>>, form |-> 1], FALSE)>>,
   <<Check("f1", "check_name_prefix", Name.a2, TRUE),
     Check("f2", "check_name_exact", Name.ab, TRUE)>>,
   <<Check("f1", "check_name_contains", Name.blank, TRUE)>>}

Item == {[name |-> Name.a, result |-> "PASSED"], [name |-> Name.a2, result |-> "FAILED"],
         [name |-> Name.ab, result |-> "PASSED"]}

ItemLists == {<<>>} \cup {<<i>> : i \in Item} \cup {<<i, j>> : i, j \in Item}

Identities ==
  {[netbios |-> "web_1", fqdn |-> "None", ip |-> "10.0.0.1"],
   [netbios |-> "", fqdn |-> "web-1.x", ip |-> "None"],
   [netbios |-> "None", fqdn |-> "None", ip |-> "10.0.0.2"],
   [netbios |-> "---", fqdn |-> "web-1.x", ip |-> "10.0.0.1"],
   [netbios |-> "None", fqdn |-> "", ip |-> "None"]}

Host ==
  {[netbios |-> d.netbios, fqdn |-> d.fqdn, ip |-> d.ip, items |-> l] :
     d \in Identities, l \in ItemLists}

(* Up to two hosts with any items, and three whose first and last may have  *)
(* the same id.                                                             *)
MCHostList ==
  {<<>>} \cup {<<h>> : h \in Host} \cup {<<g, h>> : g, h \in Host}
  \cup {<<f, g, h>> : f \in {x \in Host : x.netbios = "web_1" /\ Len(x.items) <= 1},
                      g \in {x \in Host : x.netbios = "None" /\ x.fqdn = "None"
                                                             /\ Len(x.items) = 1},
                      h \in {x \in Host : x.fqdn = "web-1.x" /\ Len(x.items) = 1}}

MCUpperOf == [n \in {"web_1", "web-1", "---"} |->
                CASE n = "web_1" -> "WEB_1" [] n = "web-1" -> "WEB-1" [] n = "---" -> "---"]
MCLabelOf == [n \in {"web-1.x"} |-> "web-1"]
MCSlugOf  == [n \in {"WEB_1", "WEB-1", "---", "10.0.0.1", "10.0.0.2"} |->
                CASE n \in {"WEB_1", "WEB-1"} -> "web-1" [] n = "---" -> ""
                  [] n = "10.0.0.1" -> "10-0-0-1" [] n = "10.0.0.2" -> "10-0-0-2"]

=============================================================================
