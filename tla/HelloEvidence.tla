--------------------------- MODULE HelloEvidence ---------------------------
(***************************************************************************)
(* integration/hello/verify-evidence.mjs: verifyRound decides from the     *)
(* server's audit, the bot's trace and the two results whether a round was *)
(* good; compareRounds whether two rounds were alike.                      *)
(*                                                                         *)
(* A round writes this evidence: browser and bot each send commands, the   *)
(* server commits them in ticks and routes a delta to the other side.  The *)
(* server may misbehave (answer without a tick, route a delta back to its  *)
(* sender, forget a command) and the evidence may be damaged; each counts  *)
(* as a fault.  The verifier is evaluated on every state.                  *)
(*                                                                         *)
(* Left out are the errors, role and payloadSha fields of the results, the *)
(* contract's vocabulary and its hash example: checks that only refuse     *)
(* more.                                                                   *)
(***************************************************************************)
EXTENDS Integers, Sequences, FiniteSets

CONSTANT
  Scopes  \* bounds of a behaviour: rounds that are run, one or two; commands of
          \* each side (one in the hello scenario); faults, all rounds together

ASSUME ScopesAssumption ==
  Scopes \subseteq [rounds : {1, 2}, commands : Nat \ {0}, faults : Nat]

VARIABLES
  scope,     \* the bounds of this behaviour
  inbox,     \* inbox[r]: commands received by the server, not yet in a tick
  tick,      \* tick[r]: the last committed tick
  committed, \* committed[r]: what the server really committed
  echo,      \* echo[r]: it answered without a tick, or to the sender itself
  wire,      \* wire[r][w]: deltas on their way to w
  sent,      \* sent[r][w]: commands w has sent
  audit,     \* audit[r]: the lines of the server's audit
  trace,     \* trace[r]: the events of the bot's trace
  result,    \* result[r][w]: status and received records of w's result
  faults     \* faults that happened

server == <<inbox, tick, committed, echo, wire>>
vars == <<scope, server, sent, audit, trace, result, faults>>

Rnd == 1..scope.rounds
Role == {"browser", "bot"}
Peer(w) == IF w = "browser" THEN "bot" ELSE "browser"

\* A role is also the name of its session; "stray" is any third session.
Session == Role \cup {"stray"}

\* tickId and revision are handed out together; tick stands for both.
Record(s, n, t) == [sender |-> s, seq |-> n, tick |-> t, sha |-> "hello", late |-> FALSE]
Nothing == Record("nobody", 0, 0)

Line(k, session, rec) == [kind |-> k, session |-> session, rec |-> rec, count |-> 0]
Ingress(w, n) == Line("ingress_received", w, Record(w, n, 0))
TickLine(t, n) == [Line("tick_committed", "stray", Record("nobody", 0, t)) EXCEPT !.count = n]
Delta(session, c, t) == Line("delta_routed", session, Record(c.sender, c.seq, t))

Event(k, rec) == [kind |-> k, ok |-> TRUE, rec |-> rec]

Init ==
  /\ scope \in Scopes
  /\ inbox = [r \in Rnd |-> <<>>]
  /\ tick = [r \in Rnd |-> 0]
  /\ committed = [r \in Rnd |-> {}]
  /\ echo = [r \in Rnd |-> FALSE]
  /\ wire = [r \in Rnd |-> [w \in Role |-> <<>>]]
  /\ sent = [r \in Rnd |-> [w \in Role |-> 0]]
  /\ audit = [r \in Rnd |-> <<Line("server_listening", "stray", Nothing)>>]
  /\ trace = [r \in Rnd |-> <<Event("bot_started", Nothing), Event("connected", Nothing)>>]
  /\ result = [r \in Rnd |-> [w \in Role |-> [status |-> "pending", received |-> <<>>]]]
  /\ faults = 0
-----------------------------------------------------------------------------
(* The verifier *)

At(s, k) == {i \in DOMAIN s : s[i].kind = k}

\* parseNdjson and checkVocabulary: no line is unreadable, of an unknown kind or
\* without a required field.
Readable(s) == At(s, "mangled") = {}

TicksIncrease(a) ==
  /\ \A t \in At(a, "tick_committed") : a[t].count >= 1
  /\ \A s, t \in At(a, "tick_committed") : s < t => a[s].rec.tick < a[t].rec.tick

\* Variant: one numbering for all senders.
SequencesInAll(a) ==
  LET ing == At(a, "ingress_received")
  IN \A i \in ing : a[i].rec.seq = 1 + Cardinality({j \in ing : j < i})

SequencesCount(a) ==
  LET ing == At(a, "ingress_received")
      Before(i) == {j \in ing : j < i /\ a[j].rec.sender = a[i].rec.sender}
  IN \A i \in ing : a[i].rec.seq = 1 + Cardinality(Before(i))

\* The first tick after an ingress carries it, and routes it away from its sender.
IngressAnswered(a, i) ==
  LET ticks == {t \in At(a, "tick_committed") : t > i /\ a[t].count >= 1}
      first == CHOOSE t \in ticks : \A u \in ticks : t <= u
      matched == {d \in At(a, "delta_routed") :
                    d > i /\ a[d].rec = [a[i].rec EXCEPT !.tick = a[first].rec.tick]}
  IN /\ ticks # {}
     /\ matched # {}
     /\ \A d \in matched : a[d].session # a[i].session

\* Variant: the tick may come after its delta.
DeltaHasTick(a, d) ==
  \E t \in At(a, "tick_committed") : a[t].rec.tick = a[d].rec.tick /\ a[t].count >= 1

DeltaCovered(a, d) ==
  \E t \in At(a, "tick_committed") :
    t < d /\ a[t].rec.tick = a[d].rec.tick /\ a[t].count >= 1

AuditChain(a) ==
  /\ TicksIncrease(a)
  /\ SequencesCount(a)
  /\ \A i \in At(a, "ingress_received") : IngressAnswered(a, i)
  /\ \A d \in At(a, "delta_routed") : DeltaCovered(a, d)

InTime(rec, from) == rec.sender = from /\ rec.sha = "hello" /\ ~rec.late

BotTrace(s) ==
  /\ \A k \in {"bot_started", "connected", "command_sent", "delta_received", "bot_finished"} :
       At(s, k) # {}
  /\ \A i \in DOMAIN s : s[i].ok
  /\ \A i \in At(s, "command_sent") : s[i].rec.sender = "bot" /\ s[i].rec.sha = "hello"
  /\ \A i \in At(s, "delta_received") : InTime(s[i].rec, "browser")

\* checkReceivedRecords; sequence, revision and tickId each increase.
ReceivedOk(s, w) ==
  /\ \A i \in DOMAIN s : InTime(s[i], Peer(w))
  /\ \A i \in 2..Len(s) : s[i].seq > s[i - 1].seq /\ s[i].tick > s[i - 1].tick

Results(res) ==
  \A w \in Role :
    /\ res[w].status = "ok"
    /\ ReceivedOk(res[w].received, w)
    /\ \E i \in DOMAIN res[w].received : res[w].received[i].sender = Peer(w)

\* Received records and the deltas they must be found in, latency left out.
Key(rec) == [rec EXCEPT !.late = FALSE]
Received(r) ==
  {Key(result[r]["browser"].received[i]) : i \in DOMAIN result[r]["browser"].received}
    \cup {Key(result[r]["bot"].received[i]) : i \in DOMAIN result[r]["bot"].received}
    \cup {Key(trace[r][i].rec) : i \in At(trace[r], "delta_received")}

\* Variant: sender and sequence identify a delta.
CrossSourceLoose(r) ==
  \A rec \in Received(r) : \E d \in At(audit[r], "delta_routed") :
    audit[r][d].rec.sender = rec.sender /\ audit[r][d].rec.seq = rec.seq

CrossSource(r) ==
  \A rec \in Received(r) : \E d \in At(audit[r], "delta_routed") : audit[r][d].rec = rec

\* verifyRound.
RoundOk(r) ==
  /\ Readable(audit[r]) /\ Readable(trace[r])
  /\ \A k \in {"server_listening", "ingress_received", "tick_committed",
               "delta_routed", "server_shutdown"} : At(audit[r], k) # {}
  /\ AuditChain(audit[r])
  /\ Results(result[r])
  /\ BotTrace(trace[r])
  /\ CrossSource(r)

Senders(s) == {s[i].sender : i \in DOMAIN s}
From(s, who) == {i \in DOMAIN s : s[i].sender = who}

\* Variant: the tick is not compared.
SameButTick(x, y) == x.seq = y.seq /\ x.sha = y.sha

SameFields(x, y) == x.seq = y.seq /\ x.sha = y.sha /\ x.tick = y.tick

\* compareRounds: one record per side and direction, equal but for its latency.
CompareRounds ==
  \A w \in Role :
    LET a == result[1][w].received
        b == result[2][w].received
    IN /\ Senders(a) = Senders(b)
       /\ Len(a) = Len(b)
       /\ \A who \in Senders(a) :
            /\ Cardinality(From(a, who)) = 1 /\ Cardinality(From(b, who)) = 1
            /\ \A i \in From(a, who), j \in From(b, who) :
                 SameFields(a[i], b[j]) /\ ~a[i].late /\ ~b[j].late
-----------------------------------------------------------------------------
(* A round *)

Running(r, w) == result[r][w].status = "pending"
Over(r) == At(audit[r], "server_shutdown") # {}

\* The second round starts when the server of the first is gone.
Turn(r) == \A q \in Rnd : q < r => \A w \in Role : ~Running(q, w)

\* Faults happen in the last round: compareRounds treats both alike.
FaultBudget(r, n) ==
  /\ n > 0 => r = scope.rounds
  /\ faults + n <= scope.faults
  /\ faults' = faults + n

Write(r, lines) == audit' = [audit EXCEPT ![r] = @ \o lines]
Trace(r, w, e) == trace' = IF w = "bot" THEN [trace EXCEPT ![r] = Append(@, e)] ELSE trace

Send(r, w) ==
  /\ Turn(r)
  /\ Running(r, w)
  /\ sent[r][w] < scope.commands
  /\ LET n == sent[r][w] + 1
     IN /\ sent' = [sent EXCEPT ![r][w] = n]
        /\ inbox' = [inbox EXCEPT ![r] = Append(@, [sender |-> w, seq |-> n])]
        /\ Write(r, <<Ingress(w, n)>>)
        /\ Trace(r, w, Event("command_sent", Record(w, n, 0)))
  /\ UNCHANGED <<tick, committed, echo, wire, result, faults>>

\* The records of those deltas that are routed to w.
RoutedTo(deltas, w) ==
  LET routed[i \in 0..Len(deltas)] ==
        IF i = 0 THEN <<>>
        ELSE IF deltas[i].session = w THEN Append(routed[i - 1], deltas[i].rec)
        ELSE routed[i - 1]
  IN routed[Len(deltas)]

\* All commands received go into one tick; to[i] is the session the delta of the
\* i-th is routed to, a fault if it is not the peer's.
Commit(r) ==
  /\ inbox[r] # <<>>
  /\ \E to \in [DOMAIN inbox[r] -> Session] :
       LET t == tick[r] + 1
           wrong == {i \in DOMAIN to : to[i] # Peer(inbox[r][i].sender)}
           deltas == [i \in DOMAIN to |-> Delta(to[i], inbox[r][i], t)]
       IN /\ FaultBudget(r, Cardinality(wrong))
          /\ tick' = [tick EXCEPT ![r] = t]
          /\ committed' = [committed EXCEPT ![r] = @ \cup {deltas[i].rec : i \in DOMAIN deltas}]
          /\ echo' = [echo EXCEPT ![r] = @ \/ \E i \in wrong : to[i] = inbox[r][i].sender]
          /\ Write(r, <<TickLine(t, Len(inbox[r]))>> \o deltas)
          /\ wire' = [wire EXCEPT ![r] = [w \in Role |-> @[w] \o RoutedTo(deltas, w)]]
  /\ inbox' = [inbox EXCEPT ![r] = <<>>]
  /\ UNCHANGED <<sent, trace, result>>

\* A server that answers before the tick, as if it were the next one, and may
\* still commit the command or not.
EgressWithoutTick(r) ==
  /\ inbox[r] # <<>>
  /\ FaultBudget(r, 1)
  /\ LET c == Head(inbox[r])
         d == Delta(Peer(c.sender), c, tick[r] + 1)
     IN /\ Write(r, <<d>>)
        /\ wire' = [wire EXCEPT ![r][Peer(c.sender)] = Append(@, d.rec)]
  /\ echo' = [echo EXCEPT ![r] = TRUE]
  /\ inbox' \in {inbox, [inbox EXCEPT ![r] = Tail(@)]}
  /\ UNCHANGED <<tick, committed, sent, trace, result>>

Forget(r) ==
  /\ inbox[r] # <<>>
  /\ FaultBudget(r, 1)
  /\ inbox' = [inbox EXCEPT ![r] = Tail(@)]
  /\ UNCHANGED <<tick, committed, echo, wire, sent, audit, trace, result>>

Hear(r, w) ==
  /\ Running(r, w)
  /\ wire[r][w] # <<>>
  /\ LET rec == Head(wire[r][w])
     IN /\ result' = [result EXCEPT ![r][w].received = Append(@, rec)]
        /\ Trace(r, w, Event("delta_received", rec))
  /\ wire' = [wire EXCEPT ![r][w] = Tail(@)]
  /\ UNCHANGED <<inbox, tick, committed, echo, sent, audit, faults>>

\* A side is done when it has sent everything and heard something, or gives up.
Finish(r, w) ==
  /\ Turn(r)
  /\ Running(r, w)
  /\ LET ok == sent[r][w] = scope.commands /\ result[r][w].received # <<>>
     IN /\ result' = [result EXCEPT ![r][w].status = IF ok THEN "ok" ELSE "failed"]
        /\ Trace(r, w, [Event("bot_finished", Nothing) EXCEPT !.ok = ok])
  /\ UNCHANGED <<server, sent, audit, faults>>

Shutdown(r) ==
  /\ \A w \in Role : ~Running(r, w)
  /\ ~Over(r)
  /\ Write(r, <<Line("server_shutdown", "stray", Nothing)>>)
  /\ UNCHANGED <<server, sent, trace, result, faults>>

\* Damage to what was written last: lost, repeated, out of order or altered.
Damaged(s, Altered(_)) ==
  LET n == Len(s)
      front == SubSeq(s, 1, n - 1)
  IN {front, Append(s, s[n])}
       \cup {Append(front, x) : x \in Altered(s[n])}
       \cup (IF n = 1 THEN {} ELSE {SubSeq(s, 1, n - 2) \o <<s[n], s[n - 1]>>})

\* Of a record that names no command, only the tick; only what was received is late.
AlteredKey(x) ==
  {[x EXCEPT !.tick = @ + 1]}
    \cup IF x.sender \notin Role THEN {}
         ELSE {[x EXCEPT !.sender = Peer(@)], [x EXCEPT !.seq = @ + 1], [x EXCEPT !.sha = "other"]}

AlteredRecord(x) == AlteredKey(x) \cup {[x EXCEPT !.late = TRUE]}

AlteredLine(x) ==
  {[x EXCEPT !.rec = y] : y \in AlteredKey(x.rec)}
    \cup {[x EXCEPT !.kind = "mangled"], [x EXCEPT !.count = 0], [x EXCEPT !.session = "stray"]}

AlteredEvent(x) ==
  {[x EXCEPT !.rec = y] : y \in IF x.rec = Nothing THEN {} ELSE AlteredRecord(x.rec)}
    \cup {[x EXCEPT !.kind = "mangled"], [x EXCEPT !.ok = FALSE]}

Damage(r) ==
  /\ FaultBudget(r, 1)
  /\ \/ /\ audit[r] # <<>>
        /\ audit' \in {[audit EXCEPT ![r] = s] : s \in Damaged(audit[r], AlteredLine)}
        /\ UNCHANGED <<trace, result>>
     \/ /\ trace[r] # <<>>
        /\ trace' \in {[trace EXCEPT ![r] = s] : s \in Damaged(trace[r], AlteredEvent)}
        /\ UNCHANGED <<audit, result>>
     \/ /\ \E w \in Role :
             /\ result[r][w].received # <<>>
             /\ result' \in {[result EXCEPT ![r][w].received = s] :
                               s \in Damaged(result[r][w].received, AlteredRecord)}
        /\ UNCHANGED <<audit, trace>>
  /\ UNCHANGED <<server, sent>>

Next ==
  /\ \E r \in Rnd :
       \/ Commit(r) \/ EgressWithoutTick(r) \/ Forget(r) \/ Shutdown(r) \/ Damage(r)
       \/ \E w \in Role : Send(r, w) \/ Hear(r, w) \/ Finish(r, w)
  /\ UNCHANGED scope

Spec == Init /\ [][Next]_vars
-----------------------------------------------------------------------------
(* Properties *)

\* A round without faults in which both sides finished well and the server
\* committed all it received is accepted, if no tick held two commands of one
\* side: their records would not increase in tickId.
HonestIsAccepted ==
  \A r \in Rnd :
    /\ faults = 0 /\ Over(r) /\ inbox[r] = <<>>
    /\ \A w \in Role : result[r][w].status = "ok"
    /\ \A c, d \in committed[r] : c.sender = d.sender /\ c.tick = d.tick => c = d
    => RoundOk(r)

\* An Echo chain (a delta without its tick, or back to its sender) is not accepted.
EchoIsRejected ==
  faults <= 1 => \A r \in Rnd : echo[r] => ~RoundOk(r)

\* A command that was sent, is not waiting for a tick and was never committed.
Forgotten(r) ==
  inbox[r] = <<>> /\ \E w \in Role : \E n \in 1..sent[r][w] :
    \A c \in committed[r] : c.sender # w \/ c.seq # n

\* A round is not accepted if a record says something was received that no tick
\* committed, or if a command was forgotten.  Of the last of several commands the
\* server and its audit may both know nothing: with one command a side, two faults.
AcceptedIsCommitted ==
  faults <= 1 \/ (faults = 2 /\ scope.commands = 1) => \A r \in Rnd :
    ~(Received(r) \subseteq committed[r]) \/ Forgotten(r) => ~RoundOk(r)

\* Accepted rounds of one command a side that compare equal committed the same
\* commands in the same ticks.  (Of several, a trace may know one the results lost.)
EqualRoundsCommittedTheSame ==
  /\ scope.rounds = 2 /\ scope.commands = 1 /\ faults <= 1
  /\ RoundOk(2) /\ RoundOk(1) /\ CompareRounds
  =>
    Received(1) = Received(2) /\ Received(1) \subseteq committed[1] \cap committed[2]
=============================================================================
