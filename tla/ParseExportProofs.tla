-------------------------- MODULE ParseExportProofs --------------------------
(***************************************************************************)
(* Theorems about ParseExport, for documents of any number of hosts and     *)
(* items and any damage: what is accepted is whole, what was cut short is   *)
(* refused, and no pass is made up.                                         *)
(***************************************************************************)
EXTENDS ParseExport, SequenceTheorems, WellFoundedInduction, TLAPS

(* What holds of 0 and of the successor of each number it holds of, holds   *)
(* of every number: otherwise there is a least one it does not hold of.     *)
LEMMA Induction ==
  ASSUME NEW T, 0 \in T, \A n \in Nat : n \in T => n + 1 \in T
  PROVE  Nat \subseteq T
<1> DEFINE R == OpToRel(<, Nat)
<1>1. \A x, y \in Nat : x < y => <<x, y>> \in R
  BY DEF OpToRel
<1>2. IsWellFoundedOn(R, Nat)
  BY NatLessThanWellFounded
<1> HIDE DEF R
<1>3. ASSUME Nat \ T # {} PROVE FALSE
  <2>1. PICK x \in Nat \ T : \A y \in Nat \ T : ~(<<y, x>> \in R)
    BY <1>2, <1>3, WFMin, Nat \ T \subseteq Nat
  <2>2. x - 1 \in Nat /\ x = (x - 1) + 1 /\ x - 1 < x
    BY <2>1
  <2>3. x - 1 \notin T
    BY <2>1, <2>2
  <2>4. <<x - 1, x>> \in R
    BY <1>1, <2>1, <2>2
  <2> QED
    BY <2>1, <2>2, <2>3, <2>4
<1> QED
  BY <1>3

-----------------------------------------------------------------------------
(***************************************************************************)
(* The loop over the items of one host.                                     *)
(***************************************************************************)

(* The list after n items, from the list before the last of them.           *)
Extended(items, item) ==
  IF IsComplianceItem(item) /\ item.name # None
  THEN Append(items, BuildComplianceItem(item)) ELSE items

Unfolds(items, host, n) ==
  items = [m \in 0..n |-> IF m = 0 THEN <<>> ELSE Extended(items[m - 1], host[m])]

(* For a host of any length the lists of the loop exist.                    *)
LEMMA ListsExist == ASSUME NEW host, NEW n \in Nat PROVE \E items : Unfolds(items, host, n)
<1> DEFINE T == {m \in Nat : \E items : Unfolds(items, host, m)}
<1>1. 0 \in T
  <2>1. Unfolds([m \in 0..0 |-> <<>>], host, 0)
    BY DEF Unfolds
  <2> QED
    BY <2>1
<1>2. ASSUME NEW m \in Nat, m \in T PROVE m + 1 \in T
  <2>1. PICK f : Unfolds(f, host, m)
    BY <1>2
  <2> DEFINE g == [l \in 0..(m + 1) |-> IF l <= m THEN f[l] ELSE Extended(f[m], host[l])]
  <2>2. \A l \in 0..m : g[l] = f[l]
    OBVIOUS
  <2>3. g[m + 1] = Extended(f[m], host[m + 1])
    OBVIOUS
  <2>4. ASSUME NEW l \in 0..(m + 1)
        PROVE  g[l] = IF l = 0 THEN <<>> ELSE Extended(g[l - 1], host[l])
    <3>1. CASE l = m + 1
      BY <2>2, <2>3, <3>1
    <3>2. CASE l \in 0..m
      <4>1. f[l] = IF l = 0 THEN <<>> ELSE Extended(f[l - 1], host[l])
        BY <2>1, <3>2 DEF Unfolds
      <4>2. l # 0 => l - 1 \in 0..m
        BY <3>2
      <4> HIDE DEF g
      <4> QED
        BY <2>2, <3>2, <4>1, <4>2
    <3> QED
      BY <3>1, <3>2
  <2>5. Unfolds(g, host, m + 1)
    BY <2>4 DEF Unfolds
  <2> QED
    BY <2>5
<1> HIDE DEF T
<1>3. n \in T
  BY <1>1, <1>2, Induction
<1> QED
  BY <1>3 DEF T

(* The items stand where at says among the first n of the host.             *)
NamedAt(items, host, n, at) ==
  /\ \A i, j \in DOMAIN items : i < j => at[i] < at[j]
  /\ {at[i] : i \in DOMAIN items} = {m \in 1..n : host[m].name # None}
  /\ \A i \in DOMAIN items :
       items[i] = [name   |-> host[at[i]].name,
                   result |-> IF host[at[i]].result = None THEN "ERROR"
                              ELSE host[at[i]].result]

LEMMA NamedSomewhere ==
  ASSUME NEW items, NEW host, NEW n
  PROVE  NamedOf(items, host, n) <=> \E at \in [DOMAIN items -> 1..n] : NamedAt(items, host, n, at)
  BY Zenon DEF NamedOf, NamedAt

(* One more item keeps a list of the named items one.                       *)
LEMMA OneMoreItem ==
  ASSUME NEW items, items \in Seq(Range(items)), NEW host, NEW n \in Nat,
         NamedOf(items, host, n)
  PROVE  LET more == Extended(items, host[n + 1])
         IN  more \in Seq(Range(more)) /\ NamedOf(more, host, n + 1)
<1> DEFINE item == host[n + 1]
           more == Extended(items, item)
<1>1. PICK at \in [DOMAIN items -> 1..n] : NamedAt(items, host, n, at)
  BY NamedSomewhere
<1>2. Len(items) \in Nat /\ DOMAIN items = 1..Len(items)
  OBVIOUS
<1>0. \A i \in 1..Len(items) : at[i] \in 1..n
  BY <1>1, <1>2
<1>3. CASE item.name = None
  <2>1. more = items
    BY <1>3 DEF Extended
  <2>2. at \in [DOMAIN items -> 1..(n + 1)]
    BY <1>1
  <2>3. {m \in 1..(n + 1) : host[m].name # None} = {m \in 1..n : host[m].name # None}
    BY <1>3
  <2>4. NamedAt(items, host, n + 1, at)
    BY <1>1, <2>3 DEF NamedAt
  <2> QED
    BY <2>1, <2>2, <2>4, NamedSomewhere
<1>4. CASE item.name # None
  <2> DEFINE last == BuildComplianceItem(item)
             l == Len(items) + 1
             to == [i \in 1..l |-> IF i = l THEN n + 1 ELSE at[i]]
  <2>1. more = Append(items, last)
    BY <1>4 DEF Extended, IsComplianceItem
  <2>2. last = [name   |-> item.name,
                result |-> IF item.result = None THEN "ERROR" ELSE item.result]
    BY DEF BuildComplianceItem
  <2> HIDE DEF more, last
  <2>3. /\ more \in Seq(Range(items) \cup {last}) /\ Len(more) = l
        /\ DOMAIN more = 1..l
        /\ more[l] = last /\ \A i \in 1..Len(items) : more[i] = items[i]
    BY <1>2, <2>1
  <2>4. more \in Seq(Range(more))
    BY <2>3, \A i \in 1..Len(more) : more[i] \in Range(more) DEF Range
  <2>5. /\ to \in [1..l -> 1..(n + 1)] /\ to[l] = n + 1
        /\ \A i \in 1..Len(items) : to[i] = at[i] /\ to[i] \in 1..n
    <3>1. l \in 1..l /\ to[l] = n + 1 /\ n + 1 \in 1..(n + 1)
      BY <1>2
    <3>2. \A i \in 1..Len(items) : i \in 1..l /\ i # l /\ to[i] = at[i]
      BY <1>2
    <3>3. \A i \in 1..l : to[i] \in 1..(n + 1)
      BY <1>0, <1>2
    <3> HIDE DEF l
    <3> QED
      BY <1>0, <3>1, <3>2, <3>3
  <2> HIDE DEF to
  <2>6. \A i, j \in 1..l : i < j => to[i] < to[j]
    <3>1. \A i, j \in 1..Len(items) : i < j => at[i] < at[j]
      BY <1>1, <1>2 DEF NamedAt
    <3>2. \A i, j \in 1..l : i < j => i \in 1..Len(items) /\ (j = l \/ j \in 1..Len(items))
      BY <1>2
    <3> HIDE DEF l
    <3> QED
      BY <2>5, <3>1, <3>2
  <2>7. {to[i] : i \in 1..l} = {m \in 1..(n + 1) : host[m].name # None}
    <3>1. {to[i] : i \in 1..l} = {at[i] : i \in 1..Len(items)} \cup {n + 1}
      <4>1. 1..l = 1..Len(items) \cup {l}
        BY <1>2
      <4> HIDE DEF l
      <4> QED
        BY <2>5, <4>1
    <3>2. {m \in 1..(n + 1) : host[m].name # None}
            = {m \in 1..n : host[m].name # None} \cup {n + 1}
      BY <1>4
    <3> QED
      BY <1>1, <1>2, <3>1, <3>2 DEF NamedAt
  <2>8. \A i \in 1..l : more[i] = [name   |-> host[to[i]].name,
                                   result |-> IF host[to[i]].result = None THEN "ERROR"
                                              ELSE host[to[i]].result]
    BY <1>1, <1>2, <2>2, <2>3, <2>5 DEF NamedAt
  <2> HIDE DEF l
  <2>9. NamedAt(more, host, n + 1, to)
    BY <2>3, <2>6, <2>7, <2>8 DEF NamedAt
  <2>10. NamedOf(more, host, n + 1)
    BY <2>3, <2>5, <2>9, NamedSomewhere
  <2> QED
    BY <2>4, <2>10 DEF more
<1> QED
  BY <1>3, <1>4

(* So the list that is built from a host has its named items, all of them   *)
(* and in their order, however many they are.                               *)
LEMMA ItemsAreNamed ==
  ASSUME NEW X, NEW host \in Seq(X)
  PROVE  NamedOf(ComplianceItems(host), host, Len(host))
<1>1. Len(host) \in Nat
  OBVIOUS
<1>2. PICK items : /\ Unfolds(items, host, Len(host))
                   /\ ComplianceItems(host) = items[Len(host)]
  <2>1. ComplianceItems(host)
          = (CHOOSE items : Unfolds(items, host, Len(host)))[Len(host)]
    BY DEF ComplianceItems, Unfolds, Extended
  <2> QED
    BY <1>1, <2>1, ListsExist
<1> DEFINE T == {n \in Nat : n <= Len(host) => /\ items[n] \in Seq(Range(items[n]))
                                               /\ NamedOf(items[n], host, n)}
<1>3. 0 \in T
  <2>1. items[0] = <<>>
    BY <1>1, <1>2 DEF Unfolds
  <2>2. DOMAIN items[0] = {} /\ items[0] \in Seq(Range(items[0]))
    BY <2>1
  <2>3. [i \in {} |-> 0] \in [{} -> 1..0]
    OBVIOUS
  <2>4. NamedAt(items[0], host, 0, [i \in {} |-> 0])
    BY <2>2 DEF NamedAt
  <2>5. NamedOf(items[0], host, 0)
    BY <2>2, <2>3, <2>4, NamedSomewhere
  <2> QED
    BY <2>2, <2>5
<1>4. ASSUME NEW n \in Nat, n \in T PROVE n + 1 \in T
  <2>1. CASE n + 1 <= Len(host)
    <3>1. items[n + 1] = Extended(items[n], host[n + 1])
      BY <1>1, <1>2, <2>1 DEF Unfolds
    <3>2. items[n] \in Seq(Range(items[n])) /\ NamedOf(items[n], host, n)
      BY <1>1, <1>4, <2>1
    <3> QED
      BY <3>1, <3>2, OneMoreItem
  <2>2. CASE ~(n + 1 <= Len(host))
    BY <2>2
  <2> QED
    BY <2>1, <2>2
<1> HIDE DEF T
<1>5. Len(host) \in T
  BY <1>1, <1>3, <1>4, Induction
<1> QED
  BY <1>1, <1>2, <1>5 DEF T

-----------------------------------------------------------------------------
(***************************************************************************)
(* What damage may make of a document, and the steps of the parser.         *)
(***************************************************************************)

(* What can be left of an item of document d.                               *)
Remains(d) == UNION {UNION {Lesser(d[k][i]) : i \in DOMAIN d[k]} : k \in DOMAIN d}

(* Whatever became of a document, its items are remains of items sent.      *)
LEMMA DeliveredRemains ==
  ASSUME NEW d \in Documents, NEW what \in Damages, NEW s \in Delivered(d, what)
  PROVE  s \in Seq(Seq(Remains(d)))
<1> DEFINE X == Remains(d)
<1>1. /\ Len(d) \in Nat /\ DOMAIN d = 1..Len(d)
      /\ \A k \in DOMAIN d : Len(d[k]) \in Nat /\ DOMAIN d[k] = 1..Len(d[k])
  BY ParseAssumption
<1>2. \A k \in DOMAIN d : \A i \in DOMAIN d[k] : Lesser(d[k][i]) \subseteq X
  BY DEF Remains
<1>3. \A k \in DOMAIN d : \A i \in DOMAIN d[k] : d[k][i] \in X
  BY <1>2 DEF Lesser
<1> HIDE DEF X
<1>4. \A k \in DOMAIN d : d[k] \in Seq(X)
  <2> SUFFICES ASSUME NEW k \in DOMAIN d PROVE d[k] \in Seq(X)
    OBVIOUS
  <2>1. d[k] \in Seq(Range(d[k])) /\ \A i \in 1..Len(d[k]) : d[k][i] \in X
    BY <1>1, <1>3, ParseAssumption
  <2> QED
    BY <2>1
<1>5. d \in Seq(Seq(X))
  <2>1. d \in Seq(Range(d)) /\ \A i \in 1..Len(d) : d[i] \in Seq(X)
    BY <1>1, <1>4, ParseAssumption
  <2> QED
    BY <2>1
<1>6. ASSUME NEW Y, NEW t \in Seq(Y), NEW k \in 0..Len(t) PROVE SubSeq(t, 1, k) \in Seq(Y)
  BY SubSeqProperties
<1>7. ASSUME NEW Y, NEW t \in Seq(Y), NEW k \in DOMAIN t PROVE Without(t, k) \in Seq(Y)
  <2>1. SubSeq(t, 1, k - 1) \in Seq(Y) /\ SubSeq(t, k + 1, Len(t)) \in Seq(Y)
    BY SubSeqProperties
  <2> QED
    BY <2>1, ConcatProperties DEF Without
<1>8. ASSUME NEW k \in DOMAIN d, NEW i \in DOMAIN d[k] PROVE CutIn(d, k, i) \subseteq Seq(Seq(X))
  <2> SUFFICES ASSUME NEW rest \in Lesser(d[k][i])
               PROVE  SubSeq(d, 1, k - 1) \o <<SubSeq(d[k], 1, i - 1) \o <<rest>>>> \in Seq(Seq(X))
    BY DEF CutIn
  <2>1. k - 1 \in 0..Len(d) /\ i - 1 \in 0..Len(d[k])
    BY <1>1
  <2>2. SubSeq(d, 1, k - 1) \in Seq(Seq(X)) /\ SubSeq(d[k], 1, i - 1) \in Seq(X)
    BY <1>4, <1>5, <1>6, <2>1
  <2>3. <<rest>> \in Seq(X)
    BY <1>2
  <2>4. SubSeq(d[k], 1, i - 1) \o <<rest>> \in Seq(X)
    BY <2>2, <2>3, ConcatProperties
  <2>5. <<SubSeq(d[k], 1, i - 1) \o <<rest>>>> \in Seq(Seq(X))
    BY <2>4
  <2> QED
    BY <2>2, <2>5, ConcatProperties
<1>9. Cuts(d) \subseteq Seq(Seq(X))
  <2>1. {SubSeq(d, 1, k) : k \in 0..Len(d)} \subseteq Seq(Seq(X))
    BY <1>5, <1>6
  <2> HIDE DEF CutIn
  <2>2. \A k \in DOMAIN d : UNION {CutIn(d, k, i) : i \in DOMAIN d[k]} \subseteq Seq(Seq(X))
    BY <1>8
  <2>3. UNION {UNION {CutIn(d, k, i) : i \in DOMAIN d[k]} : k \in DOMAIN d} \subseteq Seq(Seq(X))
    BY <2>2
  <2> QED
    BY <2>1, <2>3 DEF Cuts
<1>10. ASSUME NEW k \in DOMAIN d, NEW h \in Seq(X) PROVE [d EXCEPT ![k] = h] \in Seq(Seq(X))
  BY <1>1, <1>5, ExceptSeq
<1>11. Holes(d) \subseteq Seq(Seq(X))
  <2>1. \A k \in DOMAIN d : Without(d, k) \in Seq(Seq(X))
    BY <1>5, <1>7
  <2>2. ASSUME NEW k \in DOMAIN d, NEW i \in DOMAIN d[k]
        PROVE  [d EXCEPT ![k] = Without(@, i)] \in Seq(Seq(X))
    <3>1. Without(d[k], i) \in Seq(X)
      BY <1>4, <1>7
    <3> QED
      BY <1>10, <3>1
  <2>3. ASSUME NEW k \in DOMAIN d, NEW i \in DOMAIN d[k], NEW rest \in Lesser(d[k][i])
        PROVE  [d EXCEPT ![k][i] = rest] \in Seq(Seq(X))
    <3>1. [d[k] EXCEPT ![i] = rest] \in Seq(X)
      BY <1>1, <1>2, <1>4, ExceptSeq
    <3> QED
      BY <1>10, <3>1
  <2>4. {Without(d, k) : k \in DOMAIN d} \subseteq Seq(Seq(X))
    BY <2>1
  <2>5. \A k \in DOMAIN d :
          {[d EXCEPT ![k] = Without(@, i)] : i \in DOMAIN d[k]} \subseteq Seq(Seq(X))
    <3> HIDE DEF Without
    <3> QED
      BY <2>2
  <2>6. \A k \in DOMAIN d : \A i \in DOMAIN d[k] :
          {[d EXCEPT ![k][i] = rest] : rest \in Lesser(d[k][i])} \subseteq Seq(Seq(X))
    BY <2>3
  <2>7. \A k \in DOMAIN d :
          UNION {{[d EXCEPT ![k][i] = rest] : rest \in Lesser(d[k][i])} : i \in DOMAIN d[k]}
            \subseteq Seq(Seq(X))
    BY <2>6
  <2>8. UNION {{[d EXCEPT ![k] = Without(@, i)] : i \in DOMAIN d[k]} : k \in DOMAIN d}
          \subseteq Seq(Seq(X))
    BY <2>5
  <2>9. UNION {UNION {{[d EXCEPT ![k][i] = rest] : rest \in Lesser(d[k][i])}
                       : i \in DOMAIN d[k]} : k \in DOMAIN d} \subseteq Seq(Seq(X))
    BY <2>7
  <2> QED
    BY <2>4, <2>8, <2>9, Zenon DEF Holes
<1>12. <<>> \in Seq(Seq(X))
  OBVIOUS
<1> QED
  BY <1>5, <1>9, <1>11, <1>12 DEF Delivered, Damages, X

(* The hosts yielded so far are those delivered so far, and only an export  *)
(* that nothing is wrong with is accepted.                                  *)
IInv ==
  /\ doc \in Documents /\ damage \in Damages /\ seen \in Delivered(doc, damage)
  /\ hosts \in Seq(Range(hosts)) /\ Len(hosts) <= Len(seen)
  /\ \A k \in 1..Len(hosts) : hosts[k] = ComplianceItems(seen[k])
  /\ outcome \in {"parsing", "accepted", "warned", "error"}
  /\ outcome = "accepted" => damage \in {"none", "prefixes"} /\ Len(hosts) = Len(seen)
  /\ damage = "cut" => outcome \in {"parsing", "error"}

LEMMA InitIInv == Init => IInv
<1> SUFFICES ASSUME Init PROVE IInv
  OBVIOUS
<1>1. Len(seen) \in Nat
  BY DeliveredRemains DEF Init
<1> QED
  BY <1>1 DEF Init, IInv

LEMMA NextIInv == ASSUME IInv, [Next]_vars PROVE IInv'
<1>1. Len(seen) \in Nat /\ Len(hosts) \in Nat
  BY DeliveredRemains DEF IInv
<1>2. CASE HostEnds
  <2> DEFINE n == Len(hosts)
             host == ComplianceItems(seen[n + 1])
  <2>1. /\ UNCHANGED <<doc, damage, seen, outcome>> /\ outcome = "parsing"
        /\ hosts' = Append(hosts, host) /\ n < Len(seen)
    BY <1>2 DEF HostEnds
  <2> HIDE DEF host
  <2>2. /\ hosts' \in Seq(Range(hosts) \cup {host}) /\ Len(hosts') = n + 1
        /\ hosts'[n + 1] = host /\ \A k \in 1..n : hosts'[k] = hosts[k]
    BY <2>1 DEF IInv
  <2>3. hosts' \in Seq(Range(hosts'))
    BY <2>2, \A k \in 1..Len(hosts') : hosts'[k] \in Range(hosts') DEF Range
  <2>4. \A k \in 1..(n + 1) : hosts'[k] = ComplianceItems(seen[k])
    BY <1>1, <2>2 DEF IInv, host
  <2> QED
    BY <1>1, <2>1, <2>2, <2>3, <2>4 DEF IInv
<1>3. CASE CheckHealth
  <2>1. /\ UNCHANGED <<doc, damage, seen, hosts>> /\ outcome' = Health
        /\ Len(hosts) = Len(seen) /\ damage # "empty"
    BY <1>3 DEF CheckHealth
  <2>2. /\ Health \in {"accepted", "warned", "error"}
        /\ Health = "accepted" => damage \in {"none", "prefixes"}
        /\ damage = "cut" => Health = "error"
    <3>1. damage \in {"none", "prefixes", "cut", "garbage", "foreign"}
      BY <2>1 DEF IInv, Damages
    <3>2. CASE damage \in {"none", "prefixes"}
      BY <3>2 DEF Health, ErrorLog
    <3>3. CASE damage = "cut"
      BY <3>3 DEF Health, ErrorLog
    <3>4. CASE damage = "garbage"
      BY <3>4 DEF Health, ErrorLog
    <3>5. CASE damage = "foreign"
      BY <3>5 DEF Health, ErrorLog
    <3> QED
      BY <3>1, <3>2, <3>3, <3>4, <3>5
  <2> QED
    BY <2>1, <2>2 DEF IInv
<1>4. CASE SyntaxError
  BY <1>4 DEF SyntaxError, IInv
<1>5. CASE Over \/ UNCHANGED vars
  BY <1>5 DEF Over, vars, IInv
<1> QED
  BY <1>2, <1>3, <1>4, <1>5 DEF Next

LEMMA Invariance == Spec => []IInv
BY InitIInv, NextIInv, PTL DEF Spec

(* Each host that was yielded has the named items of the host delivered.    *)
LEMMA HostsAreNamed ==
  ASSUME IInv
  PROVE  /\ seen \in Seq(Seq(Remains(doc))) /\ DOMAIN hosts = 1..Len(hosts)
         /\ Len(hosts) \in Nat /\ Len(seen) \in Nat
         /\ \A k \in DOMAIN hosts : NamedOf(hosts[k], seen[k], Len(seen[k]))
<1>1. seen \in Seq(Seq(Remains(doc)))
  BY DeliveredRemains DEF IInv
<1>2. Len(hosts) \in Nat /\ DOMAIN hosts = 1..Len(hosts) /\ Len(seen) \in Nat
  BY <1>1 DEF IInv
<1>3. \A k \in DOMAIN hosts : seen[k] \in Seq(Remains(doc))
  BY <1>1, <1>2 DEF IInv
<1> QED
  BY <1>1, <1>2, <1>3, ItemsAreNamed DEF IInv

(* Every item that is handed on names its check (parse_nessus_xml).         *)
THEOREM ParseTypes == Spec => []TypeOK
<1>1. ASSUME IInv PROVE TypeOK
  <2> SUFFICES ASSUME NEW k \in DOMAIN hosts, NEW i \in DOMAIN hosts[k]
               PROVE  hosts[k][i].name # None
    BY <1>1 DEF IInv, TypeOK
  <2>1. PICK at : NamedAt(hosts[k], seen[k], Len(seen[k]), at)
    BY <1>1, HostsAreNamed, NamedSomewhere
  <2>2. seen[k][at[i]].name # None
    BY <2>1 DEF NamedAt
  <2> QED
    BY <2>1, <2>2 DEF NamedAt
<1> QED
  BY <1>1, Invariance, PTL

(* A document that was accepted without a warning is whole, however many    *)
(* hosts and items it has (_check_parser_health after the last host).       *)
THEOREM AcceptedExportIsWhole == Spec => []AcceptedIsWhole
<1>1. ASSUME IInv PROVE AcceptedIsWhole
  <2> SUFFICES ASSUME outcome = "accepted"
               PROVE  /\ Len(hosts) = Len(doc)
                      /\ \A k \in DOMAIN doc : NamedOf(hosts[k], doc[k], Len(doc[k]))
    BY DEF AcceptedIsWhole
  <2>1. seen = doc /\ Len(hosts) = Len(seen)
    BY <1>1 DEF IInv, Delivered
  <2>2. DOMAIN doc = DOMAIN hosts
    BY <1>1, <2>1, HostsAreNamed
  <2> QED
    BY <1>1, <2>1, <2>2, HostsAreNamed
<1> QED
  BY <1>1, Invariance, PTL

(* An export that was cut short is an error wherever it ends                *)
(* (_TRUNCATION_TYPES in parse_nessus_xml.py).                              *)
THEOREM CutExportIsRefused == Spec => []CutIsRefused
<1>1. IInv => CutIsRefused
  BY DEF IInv, CutIsRefused
<1> QED
  BY <1>1, Invariance, PTL

(* A pass that is handed on was sent as a pass of that check, whatever      *)
(* became of the document (_build_compliance_item).                         *)
THEOREM PassesWereSent == Spec => []NoInventedPass
<1>1. ASSUME IInv PROVE NoInventedPass
  <2> SUFFICES ASSUME NEW k \in DOMAIN hosts, NEW i \in DOMAIN hosts[k],
                      hosts[k][i].result = "PASSED"
               PROVE  \E h \in DOMAIN doc : \E j \in DOMAIN doc[h] :
                        doc[h][j].name = hosts[k][i].name /\ doc[h][j].result = "PASSED"
    BY DEF NoInventedPass
  <2>1. PICK at \in [DOMAIN hosts[k] -> 1..Len(seen[k])] :
          hosts[k][i] = [name   |-> seen[k][at[i]].name,
                         result |-> IF seen[k][at[i]].result = None THEN "ERROR"
                                    ELSE seen[k][at[i]].result]
    BY <1>1, HostsAreNamed DEF NamedOf
  <2> DEFINE item == seen[k][at[i]]
  <2>2. item.name = hosts[k][i].name /\ item.result = "PASSED"
    BY <2>1
  <2>3. item \in Remains(doc)
    <3>1. seen[k] \in Seq(Remains(doc)) /\ at[i] \in 1..Len(seen[k])
      BY <1>1, <2>1, HostsAreNamed DEF IInv
    <3> QED
      BY <3>1
  <2>4. PICK h \in DOMAIN doc : \E j \in DOMAIN doc[h] : item \in Lesser(doc[h][j])
    BY <2>3 DEF Remains
  <2>5. PICK j \in DOMAIN doc[h] : item \in Lesser(doc[h][j])
    BY <2>4
  <2>6. item = doc[h][j]
    <3>1. None # "PASSED" /\ DOMAIN doc[h][j] = {"marked", "name", "result"}
      BY <1>1, ParseAssumption DEF IInv
    <3> QED
      BY <2>2, <2>5, <3>1 DEF Lesser
  <2> QED
    BY <2>2, <2>6
<1> QED
  BY <1>1, Invariance, PTL

=============================================================================
