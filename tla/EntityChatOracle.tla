-------------------------- MODULE EntityChatOracle --------------------------
(***************************************************************************)
(* integration/entity-chat/verify-evidence.mjs, the oracle that decides    *)
(* from logs alone: verifyRunFromLogs for one round, compareRuns for two.  *)
(*                                                                         *)
(* The state is what it reads.  In each round a room says something (said, *)
(* the truth the oracle never sees) and four logs record it independently: *)
(* the server's and the client's Runtime drains, the browser's network     *)
(* frames and the lines of the chat window.  A log entry may be lost,      *)
(* written twice or mangled.  The oracle is evaluated on every state,      *)
(* since a round may end anywhere.                                         *)
(***************************************************************************)
EXTENDS Integers, Sequences, FiniteSets

CONSTANTS
  Events,    \* chat events of a complete round (101 in the code)
  Bot,       \* senders; each has one text of its own
  MaxTick,   \* bound: highest appliedTick
  MaxFaults, \* bound: faults of the logs, both rounds together
  Rounds     \* rounds that are run, one or two

ASSUME EventsAssumption == Events \in Nat \ {0}
ASSUME BotAssumption == "mangled" \notin Bot
ASSUME RoundsAssumption == Rounds \in {1, 2}
ASSUME BoundAssumption == MaxTick \in Nat /\ MaxFaults \in Nat

VARIABLES
  said,    \* said[r]: events of the room, in order
  log,     \* log[r][w]: entries of log w
  done,    \* done[r][w]: how many events log w is past
  facts,   \* facts[r]: the single records of the other checks are all there
  faults   \* faults that happened

vars == <<said, log, done, facts, faults>>

Rnd == 1..Rounds
Writer == {"server", "client", "network", "window"}

\* An event is a record of seq, sender and tick; messageId and roomSequence are
\* handed out together and seq stands for both.  An entry that is no event:
Mangled == [seq |-> 0, sender |-> "mangled", tick |-> 0]

Init ==
  /\ said = [r \in Rnd |-> <<>>]
  /\ log = [r \in Rnd |-> [w \in Writer |-> <<>>]]
  /\ done = [r \in Rnd |-> [w \in Writer |-> 0]]
  /\ facts = [r \in Rnd |-> FALSE]
  /\ faults = 0
-----------------------------------------------------------------------------
(* The oracle *)

WellFormed(s) ==
  LET kept[i \in 0..Len(s)] ==
        IF i = 0 THEN <<>>
        ELSE IF s[i] = Mangled THEN kept[i - 1] ELSE Append(kept[i - 1], s[i])
  IN kept[Len(s)]
Invalid(s) == \E i \in DOMAIN s : s[i] = Mangled

\* Variant: the drains of server and client one after the other.
AllDrains(r) == log[r]["server"] \o log[r]["client"]

\* chatEventsFromRuntimeDrains: the server's drains if there are any.
Runtime(r) == IF log[r]["server"] # <<>> THEN log[r]["server"] ELSE log[r]["client"]

\* Check s6:rpc-roomSequence.
Increasing(s) == \A i \in 2..Len(s) : s[i].seq > s[i - 1].seq

\* Variant: any network record will do.
AnyNetwork(r) == WellFormed(log[r]["network"]) # <<>>

\* Checks s6:playwright-network, -format and -order.
NetworkMatches(r) ==
  /\ WellFormed(log[r]["network"]) # <<>>
  /\ ~Invalid(log[r]["network"])
  /\ WellFormed(log[r]["network"]) = WellFormed(Runtime(r))

\* Check s6:rpc-event-order: identity, text and order of the window's lines.
WindowMatches(r) == log[r]["window"] = WellFormed(Runtime(r))

\* Checks s6:window and s11.
Complete(r) ==
  /\ Len(WellFormed(Runtime(r))) = Events
  /\ Len(log[r]["window"]) = Events

\* verifyRunFromLogs: no check fails.
RunOk(r) ==
  /\ ~Invalid(Runtime(r))
  /\ Increasing(WellFormed(Runtime(r)))
  /\ NetworkMatches(r)
  /\ WindowMatches(r)
  /\ Complete(r)
  /\ facts[r]

EventOrder(r) == WellFormed(Runtime(r))
AppliedTicks(r) == [i \in DOMAIN EventOrder(r) |-> EventOrder(r)[i].tick]

\* How often each bot spoke; since a bot has one text, this is the bag of
\* sender:text pairs.
Speeches(s) ==
  [b \in Bot \cup {"mangled"} |-> Cardinality({i \in DOMAIN s : s[i].sender = b})]

\* canonicalEvents: the window's sender:text pairs, sorted; senders of eventOrder
\* if there is no window.  Sorting forgets the order.
CanonicalEvents(r) ==
  Speeches(IF log[r]["window"] # <<>> THEN log[r]["window"] ELSE EventOrder(r))

\* Variant: only the number of events is compared.
SameNumber == Len(log[1]["window"]) = Len(log[2]["window"])

SameEvents == CanonicalEvents(1) = CanonicalEvents(2)

\* compareRuns.
CompareRuns ==
  /\ RunOk(1) /\ RunOk(2)
  /\ SameEvents
  /\ Len(AppliedTicks(1)) = Len(AppliedTicks(2))
-----------------------------------------------------------------------------
(* The rounds and their logs *)

\* Round 2 starts when nothing of round 1 is left to record, and ends it.
Turn(r) ==
  /\ \A q \in Rnd : q > r => said[q] = <<>>
  /\ \A q \in Rnd, w \in Writer : q < r => done[q][w] = Len(said[q])

\* A room may say more than a round is meant to.
Say(r) ==
  /\ Turn(r)
  /\ Len(said[r]) <= Events
  /\ \E b \in Bot, t \in 1..MaxTick :
       /\ \A i \in DOMAIN said[r] : said[r][i].tick <= t
       /\ said' = [said EXCEPT ![r] =
                     Append(@, [seq |-> Len(@) + 1, sender |-> b, tick |-> t])]
  /\ UNCHANGED <<log, done, facts, faults>>

Record(r, w) ==
  /\ done[r][w] < Len(said[r])
  /\ log' = [log EXCEPT ![r][w] = Append(@, said[r][done[r][w] + 1])]
  /\ done' = [done EXCEPT ![r][w] = @ + 1]
  /\ UNCHANGED <<said, facts, faults>>

\* The next entry is lost, mangled, or (already written) written again.
Fault(r, w) ==
  /\ faults < MaxFaults
  /\ faults' = faults + 1
  /\ \/ /\ done[r][w] < Len(said[r])
        /\ log' \in {log, [log EXCEPT ![r][w] = Append(@, Mangled)]}
        /\ done' = [done EXCEPT ![r][w] = @ + 1]
     \/ /\ done[r][w] > 0
        /\ log' = [log EXCEPT ![r][w] = Append(@, said[r][done[r][w]])]
        /\ UNCHANGED done
  /\ UNCHANGED <<said, facts>>

\* Host, account, census, queries, tick, snapshot, restore, rebind, expiry and
\* deferral records, each read once and independent of the chat events.
RecordFacts(r) ==
  /\ ~facts[r]
  /\ facts' = [facts EXCEPT ![r] = TRUE]
  /\ UNCHANGED <<said, log, done, faults>>

Next ==
  \E r \in Rnd :
    \/ Say(r) \/ RecordFacts(r)
    \/ \E w \in Writer : Record(r, w) \/ Fault(r, w)

Spec == Init /\ [][Next]_vars
-----------------------------------------------------------------------------
(* Properties *)

\* Truth: the first events of the room, as many as a round should have.
Truth(r) == SubSeq(said[r], 1, Events)

\* What is accepted is what the room said: up to two lost, repeated or mangled
\* entries, in the same log or in two of them, never pass for it
\* (verifyRunFromLogs' comparison of three logs).
AcceptedIsTrue ==
  faults <= 2 => \A r \in Rnd : RunOk(r) =>
    /\ Len(said[r]) >= Events
    /\ EventOrder(r) = Truth(r)
    /\ log[r]["network"] = Truth(r)
    /\ log[r]["window"] = Truth(r)

\* A complete round that was recorded without a fault is accepted.
HonestIsAccepted ==
  faults = 0 => \A r \in Rnd :
    (facts[r] /\ Len(said[r]) = Events /\ \A w \in Writer : done[r][w] = Events)
      => RunOk(r)

\* Two rounds that compare equal had the same senders say the same texts.
EqualRunsSaidTheSame ==
  Rounds = 2 /\ faults <= 2 /\ CompareRuns =>
    Speeches(Truth(1)) = Speeches(Truth(2))

\* README of integration/entity-chat: compareRuns compares events and applied
\* ticks value by value; SUCCESS means they are equal in order.
EqualRunsAreIdentical ==
  CompareRuns => EventOrder(1) = EventOrder(2) /\ AppliedTicks(1) = AppliedTicks(2)
=============================================================================
