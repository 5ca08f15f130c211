---------------------------- MODULE DrataService ----------------------------
(***************************************************************************)
(* The part of the Drata public API that src/nessus_drata/drata_client.py   *)
(* calls: the upload sessions of one resource.  The service is not part of  *)
(* the repository; this module says of it only what the client, its tests   *)
(* and its log messages rely on, and is nondeterministic elsewhere.         *)
(*                                                                          *)
(* A session id is a function of (scan id, scan end time), so a session is  *)
(* named by the scan it carries.  The records of a scan are 1..Count[s].    *)
(***************************************************************************)
EXTENDS Integers

CONSTANTS
  Scan,              \* finished scans, hence session ids
  NoScan,            \* a value that is no scan
  Count,             \* Count[s]: number of records the scan yields
  CanceledReusable,  \* may a canceled session id be opened again?
  Delayed,           \* may an unanswered request be applied later?
  NoStatus,          \* sessions listed without a status field
  NoUsableId,        \* sessions listed without a usable id
  Aliased            \* sessions listed without a sessionId, by a uuid or id

ASSUME ServiceAssumption ==
  /\ NoScan \notin Scan
  /\ Count \in [Scan -> Nat]
  /\ CanceledReusable \in BOOLEAN
  /\ Delayed \in BOOLEAN
  /\ NoStatus \subseteq Scan
  /\ NoUsableId \subseteq Scan
  /\ Aliased \subseteq Scan

VARIABLES
  sess,      \* the sessions: status and records received
  current,   \* the session completed last: the data set Drata shows
  inflight   \* unanswered requests that may still reach the service

serviceVars == <<sess, current, inflight>>

RecordsOf(s) == 1..Count[s]

SessionStatus == {"NONE", "IN_PROGRESS", "ACTIVE", "CANCELED"}

Request == [op : {"upload", "cancel", "complete"}, sid : Scan, recs : SUBSET Nat]

ServiceTypeOK ==
  /\ sess \in [Scan -> [status : SessionStatus, recs : SUBSET Nat]]
  /\ \A s \in Scan : sess[s].recs \subseteq RecordsOf(s)
  /\ current \in Scan \cup {NoScan}
  /\ inflight \subseteq Request
  /\ \A q \in inflight : q.recs \subseteq RecordsOf(q.sid)

ServiceInit ==
  /\ sess = [s \in Scan |-> [status |-> "NONE", recs |-> {}]]
  /\ current = NoScan
  /\ inflight = {}

(* Another session of the resource is open: the "session state conflict".   *)
Busy(s) == \E t \in Scan \ {s} : sess[t].status = "IN_PROGRESS"

(* Session states in which uploads to s are taken, a conflict aside.        *)
Open(s) ==
  \/ sess[s].status \in {"NONE", "IN_PROGRESS"}
  \/ sess[s].status = "CANCELED" /\ CanceledReusable

Accepts(q) ==
  IF q.op = "upload" THEN ~Busy(q.sid) /\ Open(q.sid)
                     ELSE sess[q.sid].status = "IN_PROGRESS"

(* The first batch opens the session; a reopened one starts from nothing.   *)
(* Records are upserted by id, so a batch received twice is stored once.    *)
Kept(s) == IF sess[s].status = "CANCELED" THEN {} ELSE sess[s].recs

Outcome(q) ==
  CASE q.op = "upload"   -> [status |-> "IN_PROGRESS",
                             recs   |-> Kept(q.sid) \cup q.recs]
    [] q.op = "cancel"   -> [status |-> "CANCELED", recs |-> sess[q.sid].recs]
    [] q.op = "complete" -> [status |-> "ACTIVE",   recs |-> sess[q.sid].recs]

Apply(q) ==
  /\ sess' = [sess EXCEPT ![q.sid] = Outcome(q)]
  /\ current' = IF q.op = "complete" THEN q.sid ELSE current

Process(q) == IF Accepts(q) THEN Apply(q) ELSE UNCHANGED <<sess, current>>

(* What the client may be told.  An upload that is not taken is a 409; to   *)
(* close a session that is closed that way already may or may not succeed.  *)
Replies(q) ==
  CASE Accepts(q)       -> {"ok"}
    [] ~Accepts(q) /\ q.op = "upload" -> {"conflict"}
    [] ~Accepts(q) /\ q.op = "cancel" ->
         IF sess[q.sid].status = "ACTIVE" THEN {"error"} ELSE {"ok", "error"}
    [] ~Accepts(q) /\ q.op = "complete" ->
         IF sess[q.sid].status = "ACTIVE" THEN {"ok", "error"} ELSE {"error"}

(* A request whose answer never came, or came as a 429 or 5xx: lost,        *)
(* applied all the same, or applied at some later time.                     *)
Unanswered(q) ==
  \/ UNCHANGED serviceVars
  \/ Process(q) /\ UNCHANGED inflight
  \/ Delayed /\ inflight' = inflight \cup {q} /\ UNCHANGED <<sess, current>>

(* A delayed request arrives, long after the client gave up on it.  Two     *)
(* attempts of one call are the same request: it may arrive once more.      *)
Deliver ==
  \E q \in inflight :
    /\ Process(q)
    /\ inflight' \in {inflight, inflight \ {q}}

(* The id a client knows a session by is the one it made up; a listing may  *)
(* have another value in its place, which names the same session.           *)
OwnId(s)   == [sid |-> s, alias |-> FALSE]
ShownId(s) == [sid |-> s, alias |-> s \in Aliased]

(* The entries of a session listing: every open session, and whichever of   *)
(* the others the service includes although the query filters on status.    *)
Entry(s) ==
  [id     |-> ShownId(s),
   status |-> IF s \in NoStatus THEN "absent" ELSE sess[s].status,
   usable |-> s \notin NoUsableId]

Listings ==
  LET open   == {s \in Scan : sess[s].status = "IN_PROGRESS"}
      closed == {s \in Scan : sess[s].status \in {"ACTIVE", "CANCELED"}}
  IN  {{Entry(s) : s \in open \cup extra} : extra \in SUBSET closed}

=============================================================================
