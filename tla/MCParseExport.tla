---------------------------- MODULE MCParseExport ----------------------------
(* An instance of ParseExport for TLC: up to two hosts with up to two items,*)
(* marked or not, named or not, with and without a result.                  *)
EXTENDS ParseExport

Item ==
  {[marked |-> m, name |-> n, result |-> r] :
     m \in BOOLEAN, n \in {"a", "b"}, r \in {"PASSED", "FAILED", None}}
  \cup {[marked |-> m, name |-> None, result |-> "PASSED"] : m \in BOOLEAN}

ItemLists == {<<>>} \cup {<<i>> : i \in Item} \cup {<<i, j>> : i, j \in Item}

FewLists == {<<>>} \cup {<<i>> : i \in {x \in Item : x.marked}}

MCDocuments == {<<>>} \cup {<<h>> : h \in ItemLists} \cup {<<g, h>> : g \in FewLists, h \in FewLists}

=============================================================================
