--------------------------- MODULE TransformProofs ---------------------------
(***************************************************************************)
(* Theorems about Transform, for every manifest, every list of hosts and    *)
(* every way of naming them: the counters are those of the records, a claim *)
(* that all required checks passed has its evidence, the diagnosis agrees   *)
(* with the counters, and what the gates let through is evidence.           *)
(***************************************************************************)
EXTENDS Transform, FiniteSetTheorems, FunctionTheorems, TLAPS

(* The pairs of a check and one of the first n hosts that it misses.        *)
Missed(n) == UNION {{<<k, i>> : k \in Unmatched(hosts[i])} : i \in 1..n}

(* The records are those of the hosts so far, and the counters of misses    *)
(* count the checks that found no item, host by host.                       *)
IInv ==
  /\ checks \in Manifest /\ hosts \in HostList
  /\ records \in Seq(Range(records))
  /\ Len(records) <= Len(hosts)
  /\ \A i \in 1..Len(records) : records[i] = RecordOf(hosts[i])
  /\ misses \in Nat /\ ambiguous \in Nat /\ misses + ambiguous <= Attempts
  /\ (\A i \in 1..Len(records) : Unmatched(hosts[i]) = DOMAIN checks) => misses = Attempts
  /\ IsFiniteSet(Missed(Len(records))) /\ misses = Cardinality(Missed(Len(records)))
  /\ missing = {checks[p[1]].field : p \in Missed(Len(records))}
  /\ fallbacks \in 0..Len(records)
  /\ outcome \in {"running", "done", "error"}
  /\ outcome = "done" => Len(records) = Len(hosts)

(* What a manifest and a list of hosts are.                                 *)
LEMMA InputFacts ==
  ASSUME checks \in Manifest, hosts \in HostList
  PROVE  /\ checks # <<>> /\ Len(checks) \in Nat \ {0} /\ DOMAIN checks = 1..Len(checks)
         /\ Len(hosts) \in Nat /\ DOMAIN hosts = 1..Len(hosts)
         /\ \A i \in DOMAIN hosts : /\ Len(hosts[i].items) \in Nat
                                   /\ DOMAIN hosts[i].items = 1..Len(hosts[i].items)
  BY TransformAssumption

LEMMA UpTo ==
  ASSUME NEW n \in Nat
  PROVE  IsFiniteSet(1..n) /\ Cardinality(1..n) = n
  BY FS_Interval

LEMMA InMissed ==
  ASSUME NEW n, NEW p
  PROVE  p \in Missed(n) <=> \E i \in 1..n : \E k \in Unmatched(hosts[i]) : p = <<k, i>>
  BY DEF Missed

(* The places where the items of a host match a check are finitely many.    *)
LEMMA MatchesCount ==
  ASSUME checks \in Manifest, hosts \in HostList, NEW i \in DOMAIN hosts, NEW check
  PROVE  LET matches == MatchCheck(check, hosts[i].items)
         IN  /\ IsFiniteSet(matches) /\ Cardinality(matches) \in Nat
             /\ Cardinality(matches) = 0 <=> matches = {}
<1> DEFINE matches == MatchCheck(check, hosts[i].items)
<1>1. matches \in SUBSET (1..Len(hosts[i].items)) /\ Len(hosts[i].items) \in Nat
  BY InputFacts DEF MatchCheck
<1> HIDE DEF matches
<1>2. IsFiniteSet(matches)
  BY <1>1, UpTo, FS_Subset
<1> QED
  BY <1>2, FS_CardinalityType, FS_EmptySet DEF matches

(* Disjoint finite sets add up.                                             *)
LEMMA DisjointUnion ==
  ASSUME NEW S, NEW T, IsFiniteSet(S), IsFiniteSet(T), S \cap T = {}
  PROVE  IsFiniteSet(S \cup T) /\ Cardinality(S \cup T) = Cardinality(S) + Cardinality(T)
<1>1. /\ IsFiniteSet(S \cup T)
      /\ Cardinality(S \cup T) = Cardinality(S) + Cardinality(T) - Cardinality(S \cap T)
  BY FS_Union
<1>2. Cardinality(S \cap T) = 0 /\ Cardinality(S) \in Nat /\ Cardinality(T) \in Nat
  BY FS_EmptySet, FS_CardinalityType
<1> QED
  BY <1>1, <1>2

(* No check counts twice for a host, and all count when none has a match.   *)
LEMMA CountsOfHost ==
  ASSUME checks \in Manifest, NEW host
  PROVE  /\ IsFiniteSet(Unmatched(host))
         /\ Cardinality(Unmatched(host)) \in Nat /\ Cardinality(Repeated(host)) \in Nat
         /\ Cardinality(Unmatched(host)) + Cardinality(Repeated(host)) <= Len(checks)
         /\ Unmatched(host) = DOMAIN checks => Cardinality(Unmatched(host)) = Len(checks)
<1> DEFINE N == Unmatched(host)
           A == Repeated(host)
<1>1. Len(checks) \in Nat /\ DOMAIN checks = 1..Len(checks)
  BY TransformAssumption
<1>2. IsFiniteSet(1..Len(checks)) /\ Cardinality(1..Len(checks)) = Len(checks)
  BY <1>1, UpTo
<1>3. N \in SUBSET (1..Len(checks)) /\ A \in SUBSET (1..Len(checks)) /\ N \cap A = {}
  BY <1>1 DEF Unmatched, Repeated
<1> HIDE DEF N, A
<1>4. IsFiniteSet(N) /\ IsFiniteSet(A) /\ Cardinality(N) \in Nat /\ Cardinality(A) \in Nat
  BY <1>2, <1>3, FS_Subset, FS_CardinalityType
<1>5. Cardinality(N \cup A) = Cardinality(N) + Cardinality(A)
  BY <1>3, <1>4, DisjointUnion
<1>6. Cardinality(N \cup A) <= Len(checks)
  <2>1. N \cup A \in SUBSET (1..Len(checks))
    BY <1>3
  <2> QED
    BY <1>2, <2>1, FS_Subset
<1> QED
  BY <1>1, <1>2, <1>4, <1>5, <1>6 DEF N, A

(* A column and a row of pairs have as many members as their base.          *)
LEMMA PairsCount ==
  ASSUME NEW S, IsFiniteSet(S), NEW x
  PROVE  /\ IsFiniteSet(S \X {x}) /\ Cardinality(S \X {x}) = Cardinality(S)
         /\ IsFiniteSet({x} \X S) /\ Cardinality({x} \X S) = Cardinality(S)
<1> DEFINE column == [y \in S |-> <<y, x>>]
           row    == [y \in S |-> <<x, y>>]
<1>1. ExistsBijection(S, S \X {x})
  <2>1. /\ column \in [S -> S \X {x}]
        /\ \A a, b \in S : column[a] = column[b] => a = b
        /\ \A t \in S \X {x} : \E a \in S : column[a] = t
    OBVIOUS
  <2> HIDE DEF column
  <2>2. column \in Bijection(S, S \X {x})
    BY <2>1, Fun_IsBij
  <2> QED
    BY <2>2, Fun_ExistsBij
<1>2. ExistsBijection(S, {x} \X S)
  <2>1. /\ row \in [S -> {x} \X S]
        /\ \A a, b \in S : row[a] = row[b] => a = b
        /\ \A t \in {x} \X S : \E a \in S : row[a] = t
    OBVIOUS
  <2> HIDE DEF row
  <2>2. row \in Bijection(S, {x} \X S)
    BY <2>1, Fun_IsBij
  <2> QED
    BY <2>2, Fun_ExistsBij
<1> QED
  BY <1>1, <1>2, FS_Bijection

(* A conjunction of gates that passes although forced has its hard gates    *)
(* satisfied (apply_force_bypass).                                          *)
LEMMA HardGates == ASSUME AllGatesPassed(Forced) PROVE ~NoResults /\ DuplicateIds = {}
<1> DEFINE evaluated ==
      EvaluateGates(Len(records), NoCount, NoResults, DuplicateIds # {}, "unattempted")
<1>1. \A g \in GateName \ ForceBypassable : Forced[g] => evaluated[g]
  BY DEF Forced, ApplyForceBypass
<1>2. \A g \in GateName \ ForceBypassable : evaluated[g]
  BY <1>1 DEF AllGatesPassed
<1>3. {"manifest_coverage", "duplicate_ids"} \subseteq GateName \ ForceBypassable
  BY DEF GateName, ForceBypassable
<1>4. evaluated["manifest_coverage"] = ~NoResults
  BY DEF EvaluateGates, GateName, CoverageGate
<1>5. evaluated["duplicate_ids"] = ~(DuplicateIds # {})
  BY DEF EvaluateGates, GateName, DuplicateGate
<1> HIDE DEF evaluated
<1>6. evaluated["manifest_coverage"] /\ evaluated["duplicate_ids"]
  BY <1>2, <1>3
<1>7. ~NoResults
  BY <1>4, <1>6
<1>8. DuplicateIds = {}
  BY <1>5, <1>6
<1> QED
  BY <1>7, <1>8

(* Without duplicate ids each record has an id of its own, wherever in the  *)
(* list two records are (_count_duplicates by Counter).                     *)
LEMMA UniqueIds ==
  ASSUME records \in Seq(Range(records)), DuplicateIds = {},
         NEW i \in DOMAIN records, NEW j \in DOMAIN records,
         records[i].id = records[j].id
  PROVE  i = j
<1> DEFINE Same == {k \in DOMAIN records : records[k].id = records[i].id}
<1>1. DOMAIN records = 1..Len(records) /\ Len(records) \in Nat
  OBVIOUS
<1>2. IsFiniteSet(Same)
  <2>1. Same \in SUBSET (1..Len(records)) /\ IsFiniteSet(1..Len(records))
    BY <1>1, FS_Interval
  <2> HIDE DEF Same
  <2> QED
    BY <2>1, FS_Subset
<1>3. ~(Cardinality(Same) > 1)
  BY DEF DuplicateIds
<1>4. Cardinality(Same) \in Nat /\ Cardinality(Same) # 0
  <2>1. i \in Same
    OBVIOUS
  <2> HIDE DEF Same
  <2> QED
    BY <2>1, <1>2, FS_CardinalityType, FS_EmptySet
<1>5. Cardinality(Same) = 1
  BY <1>3, <1>4
<1>6. i \in Same /\ j \in Same
  OBVIOUS
<1> HIDE DEF Same
<1>7. \E x : Same = {x}
  BY <1>2, <1>5, FS_Singleton
<1> QED
  BY <1>6, <1>7

(* The invariant holds before the first host.                               *)
LEMMA InitIInv == Init => IInv
<1> SUFFICES ASSUME Init PROVE IInv
  OBVIOUS
<1>1. checks \in Manifest /\ hosts \in HostList /\ records = <<>> /\ Len(records) = 0
  BY DEF Init
<1>2. Len(checks) \in Nat /\ Len(hosts) \in Nat
  BY <1>1, InputFacts
<1>3. Attempts = 0
  BY <1>1, <1>2 DEF Attempts
<1>4. Missed(0) = {} /\ IsFiniteSet({}) /\ Cardinality({}) = 0
  <2>1. 1..0 = {}
    OBVIOUS
  <2> QED
    BY <2>1, InMissed, FS_EmptySet
<1>5. missing = {checks[p[1]].field : p \in Missed(Len(records))}
  BY <1>1, <1>4 DEF Init
<1>6. misses = 0 /\ ambiguous = 0 /\ fallbacks = 0 /\ outcome = "running"
  BY DEF Init
<1>7. \A i \in 1..Len(records) : records[i] = RecordOf(hosts[i])
  BY <1>1
<1>8. records \in Seq(Range(records)) /\ Len(records) <= Len(hosts) /\ fallbacks \in 0..Len(records)
  BY <1>1, <1>2, <1>6
<1>9. misses \in Nat /\ ambiguous \in Nat /\ misses + ambiguous <= Attempts /\ misses = Attempts
  BY <1>3, <1>6
<1>10. IsFiniteSet(Missed(Len(records))) /\ misses = Cardinality(Missed(Len(records)))
  BY <1>1, <1>4, <1>6
<1>11. outcome \in {"running", "done", "error"} /\ outcome # "done"
  BY <1>6
<1> QED
  BY <1>1, <1>5, <1>7, <1>8, <1>9, <1>10, <1>11, Zenon DEF IInv

(* One host adds its record and the checks that it misses.                  *)
LEMMA HostIInv == ASSUME IInv, TransformHost PROVE IInv'
<1> DEFINE n == Len(records)
           host == hosts[n + 1]
           rec == RecordOf(host)
<1>1. /\ UNCHANGED <<checks, hosts, outcome>> /\ outcome = "running"
      /\ records' = Append(records, rec)
      /\ n < Len(hosts)
  BY DEF TransformHost
<1>2. /\ misses' = misses + Cardinality(Unmatched(host))
      /\ ambiguous' = ambiguous + Cardinality(Repeated(host))
      /\ fallbacks' \in {fallbacks, fallbacks + 1}
      /\ missing' = missing \cup {checks[k].field : k \in Unmatched(host)}
  BY DEF TransformHost
<1>3. n \in Nat /\ Len(checks) \in Nat /\ Len(hosts) \in Nat
  BY InputFacts DEF IInv
<1>4. /\ records' \in Seq(Range(records) \cup {rec})
      /\ Len(records') = n + 1
      /\ records'[n + 1] = rec
      /\ \A i \in 1..n : records'[i] = records[i]
  <2> HIDE DEF rec
  <2> QED
    BY <1>1 DEF IInv
<1>5. records' \in Seq(Range(records'))
  <2>1. DOMAIN records' = 1..Len(records')
    BY <1>4
  <2> QED
    BY <1>4, <2>1, \A i \in 1..Len(records') : records'[i] \in Range(records') DEF Range
<1>6. \A i \in 1..Len(records') : records'[i] = RecordOf(hosts[i])'
  <2>1. \A i \in 1..(n + 1) : RecordOf(hosts[i])' = RecordOf(hosts[i])
    BY <1>1 DEF RecordOf
  <2>2. \A i \in 1..n : records'[i] = RecordOf(hosts[i])
    BY <1>4 DEF IInv
  <2>3. records'[n + 1] = RecordOf(hosts[n + 1])
    BY <1>4
  <2> QED
    BY <1>3, <1>4, <2>1, <2>2, <2>3
<1>7. Attempts' = Attempts + Len(checks)
  <2>1. Attempts' = (n + 1) * Len(checks)
    BY <1>1, <1>4 DEF Attempts
  <2> QED
    BY <2>1, <1>3 DEF Attempts
<1>8. /\ IsFiniteSet(Unmatched(host))
      /\ Cardinality(Unmatched(host)) \in Nat /\ Cardinality(Repeated(host)) \in Nat
      /\ Cardinality(Unmatched(host)) + Cardinality(Repeated(host)) <= Len(checks)
      /\ Unmatched(host) = DOMAIN checks => Cardinality(Unmatched(host)) = Len(checks)
  BY CountsOfHost DEF IInv
<1> HIDE DEF rec, host, n
<1>9. misses' \in Nat /\ ambiguous' \in Nat /\ misses' + ambiguous' <= Attempts'
  <2>1. Attempts \in Nat
    BY <1>3 DEF Attempts, n
  <2>2. misses \in Nat /\ ambiguous \in Nat /\ misses + ambiguous <= Attempts
    BY DEF IInv
  <2> QED
    BY <1>2, <1>3, <1>7, <1>8, <2>1, <2>2
<1>10. \A h : Unmatched(h)' = Unmatched(h)
  BY <1>1 DEF Unmatched
<1>11. (\A i \in 1..Len(records') : Unmatched(hosts[i])' = (DOMAIN checks)') => misses' = Attempts'
  <2> SUFFICES ASSUME \A i \in 1..Len(records') : Unmatched(hosts[i])' = (DOMAIN checks)'
               PROVE  misses' = Attempts'
    OBVIOUS
  <2>1. \A i \in 1..(n + 1) : Unmatched(hosts[i]) = DOMAIN checks
    BY <1>1, <1>4 DEF Unmatched
  <2>2. Unmatched(host) = DOMAIN checks /\ \A i \in 1..n : Unmatched(hosts[i]) = DOMAIN checks
    BY <1>3, <2>1 DEF host
  <2>3. misses = Attempts
    BY <2>2 DEF IInv, n
  <2> QED
    BY <2>2, <2>3, <1>2, <1>7, <1>8
<1>12. fallbacks' \in 0..Len(records')
  BY <1>2, <1>3, <1>4 DEF IInv, n
<1> DEFINE new == Unmatched(host) \X {n + 1}
<1>13. Missed(Len(records))' = Missed(n) \cup new
  <2>1. Missed(Len(records))' = Missed(n + 1)
    BY <1>1, <1>4 DEF Missed, Unmatched
  <2>2. \A i : i \in 1..(n + 1) <=> i \in 1..n \/ i = n + 1
    BY <1>3
  <2>3. \A p : p \in new <=> \E k \in Unmatched(hosts[n + 1]) : p = <<k, n + 1>>
    BY DEF host
  <2> HIDE DEF new
  <2>4. \A p : p \in Missed(n + 1) <=> p \in Missed(n) \/ p \in new
    BY <2>2, <2>3, InMissed
  <2> QED
    BY <2>1, <2>4
<1>14. IsFiniteSet(Missed(Len(records)))' /\ misses' = Cardinality(Missed(Len(records)))'
  <2>1. IsFiniteSet(new) /\ Cardinality(new) = Cardinality(Unmatched(host))
    BY <1>8, PairsCount
  <2>2. Missed(n) \cap new = {}
    <3>1. \A p \in Missed(n) : p[2] \in 1..n
      BY InMissed
    <3>2. \A p \in new : p[2] = n + 1
      OBVIOUS
    <3> HIDE DEF new
    <3> QED
      BY <1>3, <3>1, <3>2
  <2> HIDE DEF new
  <2>3. IsFiniteSet(Missed(n)) /\ misses = Cardinality(Missed(n))
    BY DEF IInv, n
  <2> QED
    BY <1>2, <1>13, <2>1, <2>2, <2>3, DisjointUnion
<1>15. missing' = {checks'[p[1]].field : p \in Missed(Len(records))'}
  <2>1. {checks[p[1]].field : p \in new} = {checks[k].field : k \in Unmatched(host)}
    <3>1. \A p \in new : p[1] \in Unmatched(host)
      OBVIOUS
    <3>2. \A k \in Unmatched(host) : <<k, n + 1>> \in new /\ <<k, n + 1>>[1] = k
      OBVIOUS
    <3> HIDE DEF new
    <3> QED
      BY <3>1, <3>2
  <2> HIDE DEF new
  <2>2. missing = {checks[p[1]].field : p \in Missed(n)}
    BY DEF IInv, n
  <2> QED
    BY <1>1, <1>2, <1>13, <2>1, <2>2
<1>16. Len(records') <= Len(hosts)'
  BY <1>1, <1>3, <1>4
<1> QED
  BY <1>1, <1>5, <1>6, <1>9, <1>11, <1>12, <1>14, <1>15, <1>16 DEF IInv

(* The other steps touch neither records nor counters.                      *)
LEMMA NextIInv == ASSUME IInv, [Next]_vars PROVE IInv'
<1>1. CASE TransformHost
  BY <1>1, HostIInv
<1>2. CASE RejectHost \/ Finish \/ Ended \/ UNCHANGED vars
  <2>1. /\ UNCHANGED <<checks, hosts, records, misses, ambiguous, fallbacks, missing>>
        /\ outcome' \in {"running", "done", "error"}
        /\ outcome' = "done" => Len(records) = Len(hosts)
    BY <1>2 DEF RejectHost, Finish, Ended, vars, IInv
  <2>2. Attempts' = Attempts /\ Missed(Len(records))' = Missed(Len(records))
    BY <2>1 DEF Attempts, Missed, Unmatched
  <2>3. \A i : /\ RecordOf(hosts[i])' = RecordOf(hosts[i])
               /\ Unmatched(hosts[i])' = Unmatched(hosts[i])
    BY <2>1 DEF RecordOf, Unmatched
  <2> QED
    BY <2>1, <2>2, <2>3 DEF IInv
<1> QED
  BY <1>1, <1>2 DEF Next

(* So it always holds.                                                      *)
LEMMA Invariance == Spec => []IInv
BY InitIInv, NextIInv, PTL DEF Spec

(* Every record has a verdict for each check, and the counters stay within  *)
(* what the records so far allow: no verdict counts as a miss and as        *)
(* ambiguous (transform_host_results).                                      *)
THEOREM TransformTypes == Spec => []TypeOK
<1>1. ASSUME IInv PROVE TypeOK
  <2>1. /\ Len(records) \in Nat /\ DOMAIN records = 1..Len(records)
        /\ Len(checks) \in Nat /\ DOMAIN checks = 1..Len(checks)
    BY <1>1, InputFacts DEF IInv
  <2>2. Attempts \in Nat
    BY <2>1 DEF Attempts
  <2>3. \A i \in DOMAIN records : DOMAIN records[i].verdicts = DOMAIN checks
    BY <1>1, <2>1 DEF IInv, RecordOf
  <2>4. misses \in 0..Attempts /\ ambiguous \in 0..(Attempts - misses)
    BY <1>1, <2>2 DEF IInv
  <2>5. missing \subseteq {checks[k].field : k \in DOMAIN checks}
    <3>1. \A p \in Missed(Len(records)) : p[1] \in DOMAIN checks
      BY InMissed DEF Unmatched
    <3> QED
      BY <1>1, <3>1 DEF IInv
  <2> QED
    BY <1>1, <2>3, <2>4, <2>5 DEF IInv, TypeOK
<1> QED
  BY <1>1, Invariance, PTL

(* A record claims that all required checks passed only if each of them has *)
(* one result among the items of its host, and that one is PASSED           *)
(* (transform_host_results on the lists that match_check returns).          *)
THEOREM ClaimsHaveEvidence == Spec => []AttestedIsEvidenced
<1>1. ASSUME IInv PROVE AttestedIsEvidenced
  <2> SUFFICES ASSUME NEW i \in DOMAIN records, records[i].allRequired,
                      NEW k \in DOMAIN checks, checks[k].required
               PROVE  LET about == {j \in DOMAIN hosts[i].items :
                                      Satisfies(checks[k], hosts[i].items[j])}
                      IN  /\ Cardinality(about) = 1
                          /\ \A j \in about : hosts[i].items[j].result = "PASSED"
    BY DEF AttestedIsEvidenced
  <2> DEFINE about == MatchCheck(checks[k], hosts[i].items)
             result == hosts[i].items[CHOOSE j \in about : TRUE].result
  <2>1. records[i] = RecordOf(hosts[i]) /\ i \in DOMAIN hosts /\ k \in 1..Len(checks)
    BY <1>1, InputFacts DEF IInv
  <2>2. Verdict(checks[k], hosts[i].items) = "PASSED"
    BY <2>1 DEF RecordOf
  <2>3. IsFiniteSet(about) /\ Cardinality(about) \in Nat
    BY <1>1, <2>1, MatchesCount DEF IInv
  <2>4. CASE Cardinality(about) = 1
    <3>1. result = "PASSED"
      BY <2>2, <2>4 DEF Verdict
    <3>2. PICK x : about = {x}
      <4> HIDE DEF about
      <4> QED
        BY <2>3, <2>4, FS_Singleton
    <3>3. \A j \in about : hosts[i].items[j].result = "PASSED"
      <4> HIDE DEF about
      <4> QED
        BY <3>1, <3>2
    <3> QED
      BY <2>4, <3>3 DEF MatchCheck
  <2>5. CASE Cardinality(about) # 1
    <3>1. Verdict(checks[k], hosts[i].items) \in {"NOT_FOUND", "AMBIGUOUS"}
      <4>1. Cardinality(about) = 0 \/ Cardinality(about) > 1
        BY <2>3, <2>5
      <4> QED
        BY <2>5, <4>1 DEF Verdict
    <3> QED
      BY <2>2, <3>1
  <2> QED
    BY <2>4, <2>5
<1> QED
  BY <1>1, Invariance, PTL

(* What holds of 0 and of the successor of each number it holds of, holds   *)
(* of every number: otherwise there is a least one it does not hold of.     *)
LEMMA Induction ==
  ASSUME NEW T, 0 \in T, \A n \in Nat : n \in T => n + 1 \in T
  PROVE  Nat \subseteq T
<1> DEFINE R == OpToRel(<, Nat)
<1>1. \A x, y \in Nat : x < y => <<x, y>> \in R
  BY DEF OpToRel
<1>2. IsWellFoundedOn(R, Nat)
  BY NatLessThanWellFounded
<1> HIDE DEF R
<1>3. ASSUME Nat \ T # {} PROVE FALSE
  <2>1. PICK x \in Nat \ T : \A y \in Nat \ T : ~(<<y, x>> \in R)
    BY <1>2, <1>3, WFMin, Nat \ T \subseteq Nat
  <2>2. x - 1 \in Nat /\ x = (x - 1) + 1 /\ x - 1 < x
    BY <2>1
  <2>3. x - 1 \notin T
    BY <2>1, <2>2
  <2>4. <<x - 1, x>> \in R
    BY <1>1, <2>1, <2>2
  <2> QED
    BY <2>1, <2>2, <2>3, <2>4
<1> QED
  BY <1>3

-----------------------------------------------------------------------------
(***************************************************************************)
(* The second pass over the hosts counts the pairs of Missed by check, the  *)
(* first one counted them by host.                                          *)
(***************************************************************************)

HostsMissed(k) == {i \in DOMAIN hosts : k \in Unmatched(hosts[i])}

(* The pairs of the first n checks.                                         *)
MissedBy(n) == {p \in Missed(Len(hosts)) : p[1] <= n}

LEMMA MissedByCounts ==
  ASSUME checks \in Manifest, hosts \in HostList, IsFiniteSet(Missed(Len(hosts)))
  PROVE  /\ MissedBy(0) = {} /\ MissedBy(Len(checks)) = Missed(Len(hosts))
         /\ \A n \in 1..Len(checks) : Cardinality(MissedBy(n))
                = Cardinality(MissedBy(n - 1)) + Cardinality(HostsMissed(n))
         /\ \A n : Cardinality(MissedBy(n)) \in Nat
         /\ \A n : IsFiniteSet(HostsMissed(n)) /\ Cardinality(HostsMissed(n)) \in Nat
<1>1. /\ Len(checks) \in Nat /\ DOMAIN checks = 1..Len(checks)
      /\ Len(hosts) \in Nat /\ DOMAIN hosts = 1..Len(hosts)
  BY InputFacts
<1>2. \A h : Unmatched(h) \subseteq 1..Len(checks)
  BY <1>1 DEF Unmatched
<1>3. \A p \in Missed(Len(hosts)) : p[1] \in 1..Len(checks)
  BY <1>2, InMissed
<1>4. MissedBy(0) = {} /\ MissedBy(Len(checks)) = Missed(Len(hosts))
  BY <1>1, <1>3 DEF MissedBy
<1>5. \A n : IsFiniteSet(MissedBy(n)) /\ Cardinality(MissedBy(n)) \in Nat
  <2>1. \A n : MissedBy(n) \in SUBSET Missed(Len(hosts))
    BY DEF MissedBy
  <2> QED
    BY <2>1, FS_Subset, FS_CardinalityType
<1>6. \A n : IsFiniteSet(HostsMissed(n)) /\ Cardinality(HostsMissed(n)) \in Nat
  <2>1. \A n : HostsMissed(n) \in SUBSET (1..Len(hosts))
    BY <1>1 DEF HostsMissed
  <2>2. IsFiniteSet(1..Len(hosts))
    BY <1>1, UpTo
  <2> QED
    BY <2>1, <2>2, FS_Subset, FS_CardinalityType
<1>7. ASSUME NEW n \in 1..Len(checks)
      PROVE  Cardinality(MissedBy(n)) = Cardinality(MissedBy(n - 1)) + Cardinality(HostsMissed(n))
  <2> DEFINE new == {n} \X HostsMissed(n)
  <2>1. \A p : p \in new <=> \E i \in 1..Len(hosts) : n \in Unmatched(hosts[i]) /\ p = <<n, i>>
    BY <1>1 DEF HostsMissed
  <2>2. \A p \in new : p[1] = n
    OBVIOUS
  <2>3. IsFiniteSet(new) /\ Cardinality(new) = Cardinality(HostsMissed(n))
    BY <1>6, PairsCount
  <2> HIDE DEF new
  <2>4. \A p \in Missed(Len(hosts)) : p[1] = n <=> p \in new
    BY <2>1, <2>2, InMissed
  <2>5. \A p \in new : p \in Missed(Len(hosts))
    BY <2>1, InMissed
  <2>6. \A p \in Missed(Len(hosts)) : p[1] <= n <=> p[1] <= n - 1 \/ p[1] = n
    BY <1>3
  <2>7. MissedBy(n) = MissedBy(n - 1) \cup new
    BY <2>4, <2>5, <2>6, <2>2 DEF MissedBy
  <2>8. MissedBy(n - 1) \cap new = {}
    BY <2>2 DEF MissedBy
  <2> QED
    BY <1>5, <2>3, <2>7, <2>8, DisjointUnion
<1> QED
  BY <1>4, <1>5, <1>6, <1>7

(* What analyze_manifest finds for a check is what the first pass found.    *)
LEMMA GapFacts ==
  ASSUME checks \in Manifest, hosts \in HostList, IsFiniteSet(Missed(Len(hosts)))
  PROVE  /\ DOMAIN Gaps = {k \in DOMAIN checks : Cardinality(HostsMissed(k)) # 0}
         /\ \A k \in DOMAIN Gaps : /\ Gaps[k].field = checks[k].field
                                  /\ Gaps[k].hosts_missing = Cardinality(HostsMissed(k))
<1>1. ASSUME NEW k \in DOMAIN checks PROVE HostsMissing(checks[k]) = Cardinality(HostsMissed(k))
  <2>1. \A i \in DOMAIN hosts :
          MatchCheck(checks[k], hosts[i].items) = {} <=> k \in Unmatched(hosts[i])
    BY MatchesCount DEF Unmatched
  <2>2. {i \in DOMAIN hosts : MatchCheck(checks[k], hosts[i].items) = {}} = HostsMissed(k)
    BY <2>1 DEF HostsMissed
  <2> QED
    BY <2>2 DEF HostsMissing
<1>2. \A k \in DOMAIN checks : HostsMissing(checks[k]) > 0 <=> Cardinality(HostsMissed(k)) # 0
  BY <1>1, MissedByCounts
<1> QED
  BY <1>1, <1>2 DEF Gaps

(* The sum over the gaps, of any number of checks.                          *)
LEMMA GapsAddUp ==
  ASSUME checks \in Manifest, hosts \in HostList, IsFiniteSet(Missed(Len(hosts)))
  PROVE  HostsInGaps = Cardinality(Missed(Len(hosts)))
<1> DEFINE Added(before, n) ==
             IF n \in DOMAIN Gaps THEN before + Gaps[n].hosts_missing ELSE before
           Sums(f) == f = [n \in 0..Len(checks) |-> IF n = 0 THEN 0 ELSE Added(f[n - 1], n)]
           counts == [n \in 0..Len(checks) |-> Cardinality(MissedBy(n))]
<1>1. Len(checks) \in Nat /\ DOMAIN checks = 1..Len(checks)
  BY InputFacts
<1>2. \A n \in 1..Len(checks) :
        Added(Cardinality(MissedBy(n - 1)), n) = Cardinality(MissedBy(n))
  <2> SUFFICES ASSUME NEW n \in 1..Len(checks)
               PROVE  Added(Cardinality(MissedBy(n - 1)), n) = Cardinality(MissedBy(n))
    OBVIOUS
  <2>1. /\ Cardinality(MissedBy(n)) = Cardinality(MissedBy(n - 1)) + Cardinality(HostsMissed(n))
        /\ Cardinality(MissedBy(n - 1)) \in Nat
    BY MissedByCounts
  <2>2. n \in DOMAIN Gaps <=> Cardinality(HostsMissed(n)) # 0
    BY <1>1, GapFacts
  <2>3. n \in DOMAIN Gaps => Gaps[n].hosts_missing = Cardinality(HostsMissed(n))
    BY GapFacts
  <2> QED
    BY <2>1, <2>2, <2>3
<1>3. Cardinality(MissedBy(0)) = 0
  BY MissedByCounts, FS_EmptySet
<1> HIDE DEF Added
<1>4. Sums(counts)
  <2>1. \A n \in 0..Len(checks) :
          counts[n] = IF n = 0 THEN 0 ELSE Added(counts[n - 1], n)
    <3> SUFFICES ASSUME NEW n \in 0..Len(checks)
                 PROVE  counts[n] = IF n = 0 THEN 0 ELSE Added(counts[n - 1], n)
      OBVIOUS
    <3>1. n # 0 => n \in 1..Len(checks) /\ n - 1 \in 0..Len(checks)
      BY <1>1
    <3> QED
      BY <1>2, <1>3, <3>1
  <2> QED
    BY <2>1
<1> DEFINE sum == CHOOSE f : Sums(f)
<1>5. HostsInGaps = sum[Len(checks)]
  BY DEF HostsInGaps, Added
<1>6. Sums(sum)
  <2> HIDE DEF Sums
  <2> QED
    BY <1>4
<1>7. sum[0] = 0 /\ \A n \in 1..Len(checks) : sum[n] = Added(sum[n - 1], n)
  <2> HIDE DEF sum
  <2> QED
    BY <1>1, <1>6
<1> HIDE DEF sum
<1> DEFINE T == {n \in Nat : n <= Len(checks) => sum[n] = Cardinality(MissedBy(n))}
<1>8. 0 \in T
  BY <1>3, <1>7
<1>9. ASSUME NEW n \in Nat, n \in T PROVE n + 1 \in T
  <2>1. CASE n + 1 <= Len(checks)
    <3>1. n + 1 \in 1..Len(checks) /\ (n + 1) - 1 = n /\ sum[n] = Cardinality(MissedBy(n))
      BY <1>1, <1>9, <2>1
    <3>2. sum[n + 1] = Added(sum[n], n + 1)
      BY <1>7, <3>1
    <3>3. Added(Cardinality(MissedBy(n)), n + 1) = Cardinality(MissedBy(n + 1))
      BY <1>2, <3>1
    <3> QED
      BY <3>1, <3>2, <3>3
  <2>2. CASE ~(n + 1 <= Len(checks))
    BY <2>2
  <2> QED
    BY <2>1, <2>2
<1> HIDE DEF T
<1>10. Len(checks) \in T
  BY <1>1, <1>8, <1>9, Induction
<1>11. sum[Len(checks)] = Cardinality(MissedBy(Len(checks)))
  BY <1>1, <1>10 DEF T
<1> QED
  BY <1>5, <1>11, MissedByCounts

(* The fields of the diagnosis are those the summary misses, and its hosts  *)
(* add up to the misses, whatever the manifest and however many hosts       *)
(* (analyze_manifest against transform_host_results).                       *)
THEOREM PassesAgree == Spec => []DiagnosisAgrees
<1>1. ASSUME IInv PROVE DiagnosisAgrees
  <2> SUFFICES ASSUME outcome = "done"
               PROVE  {Gaps[k].field : k \in DOMAIN Gaps} = missing /\ HostsInGaps = misses
    BY DEF DiagnosisAgrees
  <2>1. /\ checks \in Manifest /\ hosts \in HostList /\ Len(records) = Len(hosts)
        /\ IsFiniteSet(Missed(Len(hosts))) /\ misses = Cardinality(Missed(Len(hosts)))
        /\ missing = {checks[p[1]].field : p \in Missed(Len(hosts))}
    BY <1>1 DEF IInv
  <2>2. HostsInGaps = misses
    BY <2>1, GapsAddUp
  <2>3. \A k : k \in DOMAIN Gaps <=> \E p \in Missed(Len(hosts)) : p[1] = k
    <3> SUFFICES ASSUME NEW k
                 PROVE  k \in DOMAIN Gaps <=> \E p \in Missed(Len(hosts)) : p[1] = k
      OBVIOUS
    <3>1. k \in DOMAIN Gaps <=> k \in DOMAIN checks /\ HostsMissed(k) # {}
      BY <2>1, GapFacts, MissedByCounts, FS_EmptySet
    <3>2. DOMAIN hosts = 1..Len(hosts) /\ \A h : Unmatched(h) \subseteq DOMAIN checks
      BY <2>1, InputFacts DEF Unmatched
    <3>3. k \in DOMAIN checks /\ HostsMissed(k) # {}
            <=> \E i \in 1..Len(hosts) : k \in Unmatched(hosts[i])
      BY <3>2 DEF HostsMissed
    <3>4. (\E i \in 1..Len(hosts) : k \in Unmatched(hosts[i]))
            <=> \E p \in Missed(Len(hosts)) : p[1] = k
      <4>1. ASSUME NEW i \in 1..Len(hosts), k \in Unmatched(hosts[i])
            PROVE  <<k, i>> \in Missed(Len(hosts)) /\ <<k, i>>[1] = k
        BY <4>1, InMissed
      <4>2. ASSUME NEW p \in Missed(Len(hosts)), p[1] = k
            PROVE  \E i \in 1..Len(hosts) : k \in Unmatched(hosts[i])
        BY <4>2, InMissed
      <4> QED
        BY <4>1, <4>2
    <3> QED
      BY <3>1, <3>3, <3>4
  <2>4. \A k \in DOMAIN Gaps : Gaps[k].field = checks[k].field
    BY <2>1, GapFacts
  <2>5. {Gaps[k].field : k \in DOMAIN Gaps} = missing
    BY <2>1, <2>3, <2>4
  <2> QED
    BY <2>2, <2>5
<1> QED
  BY <1>1, Invariance, PTL

(* Whatever --force overrides, what passes the gates has records, each with *)
(* an id of its own, and a result behind one of them (the gates             *)
(* manifest_coverage and duplicate_ids of safety.py on the summary of       *)
(* transform.py).                                                           *)
THEOREM PushedIsEvidence == Spec => []PushableIsEvidence
<1>1. ASSUME IInv PROVE PushableIsEvidence
  <2> SUFFICES ASSUME outcome = "done", AllGatesPassed(Forced)
               PROVE  /\ records # <<>>
                      /\ \A i, j \in DOMAIN records : records[i].id = records[j].id => i = j
                      /\ \E i \in DOMAIN records, k \in DOMAIN checks :
                           k \notin Unmatched(hosts[i])
    BY DEF PushableIsEvidence
  <2>1. ~NoResults /\ DuplicateIds = {}
    BY HardGates
  <2>2. \A i, j \in DOMAIN records : records[i].id = records[j].id => i = j
    BY <1>1, <2>1, UniqueIds DEF IInv
  <2>3. Len(hosts) # 0 /\ ~(Attempts > 0 /\ misses = Attempts)
    BY <2>1 DEF NoResults, CoverageIsZero
  <2>4. /\ Len(records) = Len(hosts) /\ Len(records) \in Nat /\ Len(checks) \in Nat
        /\ Len(checks) # 0 /\ DOMAIN records = 1..Len(records)
    BY <1>1, InputFacts DEF IInv
  <2>5. Attempts > 0
    BY <2>3, <2>4 DEF Attempts
  <2>6. ~ \A i \in 1..Len(records) : Unmatched(hosts[i]) = DOMAIN checks
    BY <1>1, <2>3, <2>5 DEF IInv
  <2>7. \E i \in DOMAIN records, k \in DOMAIN checks : k \notin Unmatched(hosts[i])
    <3>1. \A h : Unmatched(h) \subseteq DOMAIN checks
      BY DEF Unmatched
    <3> QED
      BY <2>4, <2>6, <3>1
  <2>8. records # <<>>
    BY <2>3, <2>4
  <2> QED
    BY <2>2, <2>7, <2>8
<1> QED
  BY <1>1, Invariance, PTL

=============================================================================
