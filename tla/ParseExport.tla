----------------------------- MODULE ParseExport -----------------------------
(***************************************************************************)
(* Reading an export: parse_nessus_xml of src/nessus_drata/                 *)
(* parse_nessus_xml.py, one step per host, and its look at the parser's     *)
(* health at the end.  Hosts are yielded before that look; all callers put  *)
(* them into a list first, so that an error leaves nothing behind.          *)
(*                                                                          *)
(* A document is the sequence of its hosts, a host the sequence of its      *)
(* items [marked, name, result]: marked is the compliance element, name and *)
(* result are None if the element is missing or empty.  The XML library is  *)
(* external: with recover=True it closes what is open at the end of a file  *)
(* that was cut short, leaves out what it cannot read, and logs both.       *)
(***************************************************************************)
EXTENDS Integers, Sequences, Functions

CONSTANTS
  Documents,   \* the documents the console may have sent
  None         \* no text

ASSUME ParseAssumption ==
  /\ None # "PASSED"
  /\ \A d \in Documents :
       /\ d \in Seq(Range(d))
       /\ \A k \in DOMAIN d : d[k] \in Seq(Range(d[k]))
       /\ \A k \in DOMAIN d : \A i \in DOMAIN d[k] :
            DOMAIN d[k][i] = {"marked", "name", "result"}

VARIABLES
  doc,      \* the document as it was sent
  damage,   \* what became of it on the way
  seen,     \* the document as the recovering parser delivers it
  hosts,    \* HostResults yielded so far, each the sequence of its items
  outcome   \* "parsing", "accepted", "warned" or "error"

vars == <<doc, damage, seen, hosts, outcome>>

Without(s, i) == SubSeq(s, 1, i - 1) \o SubSeq(s, i + 1, Len(s))

(* An item of which less can be read.                                       *)
Lesser(item) ==
  {item, [item EXCEPT !.result = None], [item EXCEPT !.name = None, !.result = None]}

(* The file ends in host k, in its item i, and both are closed there.       *)
CutIn(d, k, i) ==
  {SubSeq(d, 1, k - 1) \o <<SubSeq(d[k], 1, i - 1) \o <<rest>>>> : rest \in Lesser(d[k][i])}

Cuts(d) ==
  {SubSeq(d, 1, k) : k \in 0..Len(d)}
  \cup UNION {UNION {CutIn(d, k, i) : i \in DOMAIN d[k]} : k \in DOMAIN d}

(* Something in the middle cannot be read: a host, an item or its text.     *)
Holes(d) ==
  {Without(d, k) : k \in DOMAIN d}
  \cup (UNION {{[d EXCEPT ![k] = Without(@, i)] : i \in DOMAIN d[k]} : k \in DOMAIN d})
  \cup (UNION {UNION {{[d EXCEPT ![k][i] = rest] : rest \in Lesser(d[k][i])}
                       : i \in DOMAIN d[k]} : k \in DOMAIN d})

(* Nothing, undeclared prefixes, an early end, garbage inside, another      *)
(* document (an error page), or no document at all.                         *)
Damages == {"none", "prefixes", "cut", "garbage", "foreign", "empty"}

Delivered(d, what) ==
  CASE what \in {"none", "prefixes"} -> {d}
    [] what = "cut" -> Cuts(d)
    [] what = "garbage" -> Holes(d)
    [] what \in {"foreign", "empty"} -> {<<>>}

Init ==
  /\ doc \in Documents
  /\ damage \in Damages
  /\ seen \in Delivered(doc, damage)
  /\ hosts = <<>>
  /\ outcome = "parsing"

ErrorLog ==
  CASE damage \in {"none", "foreign", "empty"} -> {}
    [] damage = "prefixes" -> {"NS_ERR_UNDEFINED_NAMESPACE"}
    [] damage = "cut"      -> {"ERR_TAG_NOT_FINISHED"}
    [] damage = "garbage"  -> {"ERR_INVALID_CHAR"}

IsComplianceItem(item) == item.marked \/ item.name # None

(* A faulty variant of the next definition: no result is a good result.     *)
BuildOptimistic(item) ==
  [name |-> item.name, result |-> IF item.result = None THEN "PASSED" ELSE item.result]

(* A result that is missing is an ERROR.                                    *)
BuildComplianceItem(item) ==
  [name |-> item.name, result |-> IF item.result = None THEN "ERROR" ELSE item.result]

(* A careless variant of the next definition: a name may be missing.        *)
ItemsUnnamed(host) ==
  LET items[n \in 0..Len(host)] ==
        IF n = 0 THEN <<>>
        ELSE IF IsComplianceItem(host[n])
             THEN Append(items[n - 1], BuildComplianceItem(host[n])) ELSE items[n - 1]
  IN  items[Len(host)]

(* The list that the loop over the items of a host has built at its end:    *)
(* items of no check are left out, and so are those without a name.         *)
ComplianceItems(host) ==
  LET items[n \in 0..Len(host)] ==
        IF n = 0 THEN <<>>
        ELSE IF IsComplianceItem(host[n]) /\ host[n].name # None
             THEN Append(items[n - 1], BuildComplianceItem(host[n])) ELSE items[n - 1]
  IN  items[Len(host)]

HostEnds ==
  /\ outcome = "parsing" /\ Len(hosts) < Len(seen)
  /\ hosts' = Append(hosts, ComplianceItems(seen[Len(hosts) + 1]))
  /\ UNCHANGED <<doc, damage, seen, outcome>>

(* A lenient variant of the next definition: an early end is noise as well. *)
HealthLenient ==
  CASE damage = "foreign" -> "error"
    [] ErrorLog \ {"NS_ERR_UNDEFINED_NAMESPACE"} # {} -> "warned"
    [] damage # "foreign" /\ ErrorLog \subseteq {"NS_ERR_UNDEFINED_NAMESPACE"} -> "accepted"

(* A careless variant: other errors are passed over.                        *)
HealthQuiet ==
  IF damage = "foreign" \/ "ERR_TAG_NOT_FINISHED" \in ErrorLog THEN "error" ELSE "accepted"

(* _check_parser_health: the root element is missing, an element was never  *)
(* closed, other errors, or noise about namespaces only.                    *)
Health ==
  LET real == ErrorLog \ {"NS_ERR_UNDEFINED_NAMESPACE"}
  IN  CASE damage = "foreign" \/ "ERR_TAG_NOT_FINISHED" \in real -> "error"
        [] damage # "foreign" /\ "ERR_TAG_NOT_FINISHED" \notin real /\ real # {} -> "warned"
        [] damage # "foreign" /\ real = {} -> "accepted"

CheckHealth ==
  /\ outcome = "parsing" /\ Len(hosts) = Len(seen) /\ damage # "empty"
  /\ outcome' = Health
  /\ UNCHANGED <<doc, damage, seen, hosts>>

(* XMLSyntaxError: there is nothing to recover.                             *)
SyntaxError ==
  /\ outcome = "parsing" /\ damage = "empty"
  /\ outcome' = "error"
  /\ UNCHANGED <<doc, damage, seen, hosts>>

Over == outcome # "parsing" /\ UNCHANGED vars

Next == HostEnds \/ CheckHealth \/ SyntaxError \/ Over

Spec == Init /\ [][Next]_vars

(***************************************************************************)
(* Properties.                                                              *)
(***************************************************************************)

(* Types; only items with a name are handed on.                             *)
TypeOK ==
  /\ outcome \in {"parsing", "accepted", "warned", "error"}
  /\ Len(hosts) <= Len(seen)
  /\ \A k \in DOMAIN hosts : \A i \in DOMAIN hosts[k] : hosts[k][i].name # None

(* The items are those of the first n of a host that have a name, each with *)
(* its result, in the host's order.                                         *)
NamedOf(items, host, n) ==
  \E at \in [DOMAIN items -> 1..n] :
    /\ \A i, j \in DOMAIN items : i < j => at[i] < at[j]
    /\ {at[i] : i \in DOMAIN items} = {m \in 1..n : host[m].name # None}
    /\ \A i \in DOMAIN items :
         LET sent == host[at[i]]
         IN  items[i] = [name   |-> sent.name,
                         result |-> IF sent.result = None THEN "ERROR" ELSE sent.result]

(* What is accepted without a warning is the whole document: every host, in *)
(* order, and every item that has a check name, as it was sent              *)
(* (tests/test_robustness.py, truncated exports and healthy fixtures).      *)
AcceptedIsWhole ==
  outcome = "accepted" =>
    /\ Len(hosts) = Len(doc)
    /\ \A k \in DOMAIN doc : NamedOf(hosts[k], doc[k], Len(doc[k]))

(* Of a document that was cut short nothing is used, wherever it ends, also *)
(* between two hosts, where every host that is there is whole.              *)
CutIsRefused == damage = "cut" => outcome \in {"parsing", "error"}

(* A pass is always a pass that was sent: damage may lose results, never    *)
(* make one (_build_compliance_item).                                       *)
NoInventedPass ==
  \A k \in DOMAIN hosts : \A i \in DOMAIN hosts[k] :
    hosts[k][i].result = "PASSED" =>
      \E h \in DOMAIN doc : \E j \in DOMAIN doc[h] :
        doc[h][j].name = hosts[k][i].name /\ doc[h][j].result = "PASSED"

=============================================================================
