------------------------- MODULE EntityChatRecords -------------------------
(***************************************************************************)
(* integration/entity-chat/verify-evidence.mjs: the checks of single       *)
(* records in verifyRunFromLogs (host, account, census, queries, tick,     *)
(* scenarios 7 to 10), which EntityChatOracle takes as one condition.      *)
(* Here they are added for the first round.                                *)
(*                                                                         *)
(* The replay goes through its scenarios and each leaves one record.  It   *)
(* may deviate from a scenario, and a record may be lost, written twice or *)
(* lack a field.  Process A runs up to the snapshot, process B restores it *)
(* and goes on; each has a file of its own in the server's log directory.  *)
(* Records and chat events are checked apart, so their order is of no      *)
(* interest: the records come first.                                       *)
(*                                                                         *)
(* Left out are the cadence of utteranceTicks, messageType and mappingId,  *)
(* the hash of the snapshot, the scenario number of deferred records and   *)
(* the mvp-host record: checks that only refuse more.                      *)
(***************************************************************************)
EXTENDS EntityChatOracle

CONSTANTS
  Bots,      \* bots of a room (100 in the code)
  None,      \* a field that is missing
  MaxWrong   \* bound: deviations of the replay

ASSUME BotsAssumption == Bots \in Nat \ {0}
ASSUME NoneAssumption ==
  None \notin Nat \cup {"world", "player", "bot", "unauthorized", "invisible", "stale"}
ASSUME WrongAssumption == MaxWrong \in Nat

VARIABLES
  step,     \* scenarios the replay is past
  file,     \* file[f]: records in it
  first,    \* the server file whose name sorts first
  happened, \* what a log without faults would hold
  resnap,   \* process B took a snapshot of its own
  wrong,    \* deviations so far
  lost,     \* records lost
  damaged   \* records written twice or without a field, by kind of fault

recordVars == <<step, file, first, happened, resnap, wrong, lost, damaged>>

Admitted(i) ==
  [kind |-> "admit", id |-> i, type |-> IF i <= Bots THEN "bot" ELSE "player"]
Query(outcome) == [kind |-> "query", outcome |-> outcome]

\* The run as the scenarios want it; entity 1 is expired, Bots + 2 takes its place.
Ideal ==
  <<[kind |-> "host", host |-> "lumio-entity-chat-replay"],
    [kind |-> "account", code |-> "wrong_password"]>>
  \o [i \in 1..(Bots + 1) |-> Admitted(i)]
  \o <<[kind |-> "tick", source |-> "native-kernel/tickFrame"],
       Query("unauthorized"), Query("invisible"), Query("stale"),
       [kind |-> "superseded", connection |-> "old"],
       [kind |-> "rebind", previous |-> Bots, next |-> Bots],
       [kind |-> "snapshot", history |-> 0, pid |-> 1],
       [kind |-> "restore", window |-> 0, pid |-> 2],
       [kind |-> "expire", tombstoned |-> TRUE, a |-> 1, b |-> Bots + 2],
       [kind |-> "deferred", reason |-> "ADR-058"]>>

\* What may happen instead of r: nothing, or r otherwise; one entity too many.
Deviations(r) ==
  {<<>>} \cup
  CASE r.kind = "admit"      -> {<<[r EXCEPT !.type = "world"]>>, <<[r EXCEPT !.type = "bot"]>>,
                                 <<[r EXCEPT !.type = "player"]>>,
                                 <<r, [r EXCEPT !.id = Bots + 3]>>} \ {<<r>>}
    [] r.kind = "superseded" -> {<<[r EXCEPT !.connection = "other"]>>}
    [] r.kind = "rebind"     -> {<<[r EXCEPT !.next = Bots + 3]>>}
    [] r.kind = "snapshot"   -> {<<[r EXCEPT !.history = 1]>>}
    [] r.kind = "restore"    -> {<<[r EXCEPT !.window = 1]>>, <<[r EXCEPT !.pid = 1]>>}
    [] r.kind = "expire"     -> {<<[r EXCEPT !.tombstoned = FALSE]>>, <<[r EXCEPT !.b = r.a]>>}
    [] OTHER -> {<<[f \in DOMAIN r |-> IF f = "kind" THEN r.kind ELSE "other"]>>}

RecordsInit ==
  /\ step = 0
  /\ file = [f \in {"A", "B", "client"} |-> <<>>]
  /\ first \in {"A", "B"}
  /\ happened = <<>>
  /\ resnap = FALSE
  /\ wrong = 0 /\ lost = 0
  /\ damaged = [twice |-> 0, field |-> 0]
-----------------------------------------------------------------------------
(* The oracle *)

\* walkLogFiles, loadRecords: the files of a directory in the order of their names.
Server == IF first = "A" THEN file["A"] \o file["B"] ELSE file["B"] \o file["A"]
Client == file["client"]

OfKind(s, kind) == {i \in DOMAIN s : s[i].kind = kind}

\* findKind(serverEvents) ?? findKind(clientEvents), as a set of at most one.  (For
\* the tick record it is the other way round; only the client writes one.)
Find(kind) ==
  LET s == Server \o Client
      all == OfKind(s, kind)
  IN {s[i] : i \in {j \in all : \A k \in all : j <= k}}

\* parseSenderNetEntityId.
Canonical(id) == id # None

HostOk == \E h \in Find("host") : h.host = "lumio-entity-chat-replay"

AccountOk == \E a \in Find("account") : a.code = "wrong_password"

\* entityRecordFailures.
EntityRecordsOk ==
  \A i \in OfKind(Server, "admit") :
    Canonical(Server[i].id) /\ Server[i].type \in {"world", "player", "bot"}

\* Variant: every record counts.
CensusOfRecords(type) ==
  Cardinality({i \in OfKind(Server, "admit") : Server[i].type = type})

\* censusFromServerLogs: an entity counts once, with the type of its last record.
Census(type) ==
  LET counted == {i \in OfKind(Server, "admit") :
                    Canonical(Server[i].id) /\ Server[i].type \in {"player", "bot"}}
      last == {i \in counted : \A j \in counted : Server[j].id = Server[i].id => j <= i}
  IN Cardinality({Server[i].id : i \in {j \in last : Server[j].type = type}})

CensusOk == Census("bot") = Bots /\ Census("player") = 1

\* runtimeDrainQueries of both logs.
Outcomes ==
  LET s == Server \o Client IN {s[i].outcome : i \in OfKind(s, "query")}

\* Variant: one of the outcomes is enough.
SomeQuery == Outcomes \cap {"unauthorized", "invisible", "stale"} # {}

QueriesOk == {"unauthorized", "invisible", "stale"} \subseteq Outcomes

TickOk == \E t \in Find("tick") : t.source = "native-kernel/tickFrame"

\* Variant: both processes are there, one or two.
AnyProcess(s, r) == s.pid # None /\ r.pid # None

CrossProcess(s, r) == s.pid # None /\ r.pid # None /\ s.pid # r.pid

\* Scenario 7: an empty history, an empty window after it and another process.
SnapshotOk ==
  \E s \in Find("snapshot"), r \in Find("restore") :
    s.history = 0 /\ r.window = 0 /\ CrossProcess(s, r)

\* Scenario 8: the first rebind; whichever connection was superseded.
RebindOk ==
  /\ \E r \in Find("rebind") : Canonical(r.previous) /\ r.previous = r.next
  /\ Find("superseded") # {}

\* Scenario 9: the ids are compared if both are there.
ExpiryOk ==
  \E e \in Find("expire") :
    /\ e.tombstoned = TRUE
    /\ Canonical(e.a) /\ Canonical(e.b) => e.a # e.b

DeferredOk == \E d \in Find("deferred") : d.reason = "ADR-058"

Accepted ==
  /\ HostOk /\ AccountOk /\ EntityRecordsOk /\ CensusOk
  /\ QueriesOk /\ TickOk /\ SnapshotOk /\ RebindOk /\ ExpiryOk /\ DeferredOk
-----------------------------------------------------------------------------
(* The replay and its logs *)

Did(kind) == {happened[i] : i \in {j \in DOMAIN happened : happened[j].kind = kind}}

Restored == \E r \in Did("restore") : r.pid = 2

\* Who writes r: the client its Timer Manager trace, process B from its restore on.
FileOf(r) ==
  IF r.kind = "tick" THEN "client"
  ELSE IF Restored \/ (r.kind = "restore" /\ r.pid = 2) THEN "B" ELSE "A"

Kept(rs) ==
  /\ rs # <<>> => file' = [file EXCEPT ![FileOf(rs[1])] = @ \o rs]
  /\ rs = <<>> => UNCHANGED file

Faults == lost + damaged.twice + damaged.field

\* r is written as it is, or with a fault.
Written(r) ==
  \/ Kept(<<r>>) /\ UNCHANGED <<lost, damaged>>
  \/ /\ Faults < MaxFaults
     /\ \/ lost' = lost + 1 /\ UNCHANGED <<file, damaged>>
        \/ Kept(<<r, r>>) /\ damaged' = [damaged EXCEPT !.twice = @ + 1] /\ UNCHANGED lost
        \/ /\ \E f \in DOMAIN r \ {"kind"} : Kept(<<[r EXCEPT ![f] = None]>>)
           /\ damaged' = [damaged EXCEPT !.field = @ + 1]
           /\ UNCHANGED lost

Scenario ==
  /\ step < Len(Ideal)
  /\ step' = step + 1
  /\ happened' = Append(happened, Ideal[step + 1])
  /\ Written(Ideal[step + 1])
  /\ UNCHANGED <<first, resnap, wrong>>

Deviate ==
  /\ step < Len(Ideal) /\ wrong < MaxWrong
  /\ step' = step + 1
  /\ wrong' = wrong + 1
  /\ \E rs \in Deviations(Ideal[step + 1]) : happened' = happened \o rs /\ Kept(rs)
  /\ UNCHANGED <<first, resnap, lost, damaged>>

\* Process B takes a snapshot as well before it ends.
Resnap ==
  /\ step = Len(Ideal) /\ Restored /\ ~resnap
  /\ resnap' = TRUE
  /\ file' = [file EXCEPT !["B"] = Append(@, [kind |-> "snapshot", history |-> 0, pid |-> 2])]
  /\ UNCHANGED <<step, first, happened, wrong, lost, damaged>>

RecordsNext == Scenario \/ Deviate \/ Resnap

\* The single records pass.
ReadRecords == Accepted /\ RecordFacts(1) /\ UNCHANGED recordVars

\* Bound: the chat follows sound records only, and a second round a faultless one.
Sound == facts[1] /\ wrong = 0 /\ Faults = 0 /\ first = "A" /\ ~resnap

ChatNext ==
  \/ \E r \in Rnd : (r = 2 => faults = 0) /\ Say(r)
  \/ Rounds = 2 /\ Len(said[2]) = Events /\ RecordFacts(2)
  \/ \E r \in Rnd, w \in Writer : Record(r, w)
  \/ \E w \in Writer : (\A r \in Rnd \ {1} : said[r] = <<>>) /\ Fault(1, w)

RunInit == Init /\ RecordsInit

RunNext ==
  \/ ~facts[1] /\ RecordsNext /\ UNCHANGED vars
  \/ ReadRecords
  \/ Sound /\ ChatNext /\ UNCHANGED recordVars

RunSpec == RunInit /\ [][RunNext]_<<vars, recordVars>>
-----------------------------------------------------------------------------
(* Properties *)

\* What the logs show without a fault did happen: the room's entities (two deviations
\* may make up for each other in the census, one cannot), the three refused queries, a
\* snapshot without history that another process restored, an identity kept over a
\* rebind and a new one after an expiry.
AcceptedHappened ==
  Faults = 0 /\ Accepted =>
    /\ wrong <= 1 => Did("admit") = {Admitted(i) : i \in 1..(Bots + 1)}
    /\ Cardinality(Did("query")) = 3
    /\ \E s \in Did("snapshot"), r \in Did("restore") :
         s.history = 0 /\ r.window = 0 /\ s.pid # r.pid
    /\ \A r \in Did("rebind") : r.previous = r.next
    /\ \A e \in Did("expire") : e.tombstoned /\ e.a # e.b

\* A run without a deviation is accepted, also if records of it were written twice,
\* unless process B's own snapshot is the first one found.
CompleteRunIsAccepted ==
  step = Len(Ideal) /\ wrong = 0 /\ lost = 0 /\ damaged.field = 0 /\ ~(resnap /\ first = "B")
    => Accepted

\* A run that ended before its last scenario, or that lost a record, is not
\* accepted: no other record stands in for it, not even process B's snapshot.
LossIsNoticed ==
  wrong = 0 /\ (step < Len(Ideal) \/ lost > 0) => ~Accepted
=============================================================================
