------------------------------ MODULE ChatRoom ------------------------------
(***************************************************************************)
(* The chat path of LumioGame: ChatSetMessageSystem admits chat inputs from*)
(* network threads and sets messages on the owner thread, the drain        *)
(* consumer hands the committed events to the host, and chat-window.js     *)
(* shows them in a browser.                                                *)
(*                                                                         *)
(* The world itself (WorldManager: inbox, Tick, entities, ChatComponent,   *)
(* outbox) is Runtime code outside this repository; it is modelled from    *)
(* how this repository calls it and from what its tests observe.           *)
(* ChatComponent.SendMessage is two steps, a component write and an event, *)
(* because nothing but the owner-thread rule keeps two callers apart.      *)
(***************************************************************************)
EXTENDS Integers, Sequences

CONSTANTS
  Entity,    \* NetEntityIds with a ChatComponent
  Client,    \* browser pages
  Thread,    \* threads that call into the gameplay assembly
  Owner,     \* manager.OwnerThread
  Text,      \* chat texts
  LongText,  \* texts of more than MaxTextUtf8Bytes bytes
  NoText,    \* LastMessageText before the first message
  MaxCalls,  \* bound: number of calls that reach the world
  MaxSeq,    \* bound: sequence numbers of chat envelopes
  MaxGen,    \* bound: connection generations of an entity
  MaxConn    \* bound: sockets a page opens one after the other

ASSUME OwnerAssumption == Owner \in Thread
ASSUME TextAssumption == LongText \subseteq Text /\ NoText \notin Text
ASSUME BoundAssumption ==
  /\ MaxCalls \in Nat /\ MaxSeq \in Nat
  /\ MaxGen \in Nat \ {0} /\ MaxConn \in Nat \ {0}

VARIABLES
  calls,      \* calls made so far; a call's number identifies its message
  answered,   \* numbers of the calls whose event, result or error the host has
  outbox,     \* ... and of those whose outcome waits for the next DrainOutbox
  inbox,      \* messages enqueued for the next Tick
  batch,      \* messages the running Tick has still to apply
  ticking,    \* the owner thread is inside Tick
  tick,       \* number of the current or last Tick
  live,       \* entities that are not destroyed
  bound,      \* bound[e]: the generation the host's control adapter last answered
  expected,   \* expected[e]: the sequence the world expects of e's next input
  component,  \* component[e]: LastMessageText and LastMessageTick
  lastId,     \* last messageId and roomSequence handed out (they move together)
  events,     \* every OnChatMessage event committed
  drained,    \* how many of them DrainOutbox has returned
  call,       \* call[t]: the SendMessage thread t is executing
  conn,       \* conn[c]: number of the page's newest socket
  up,         \* up[c]: that socket is open
  wire,       \* wire[c][k]: frames in flight on socket k of page c
  window      \* windowState.lines

callVars == <<calls, answered, outbox>>
worldVars == <<inbox, batch, ticking, tick, live, bound, expected>>
chatVars == <<component, lastId, events, call>>
netVars == <<conn, up, wire, window>>
vars == <<callVars, worldVars, chatVars, drained, netVars>>

Fits == Text \ LongText
Idle == [step |-> "idle"]

\* What is said by a call that is no chat input.
NotAnInput == <<0, 0>>

Init ==
  /\ calls = 0
  /\ answered = {}
  /\ outbox = {}
  /\ inbox = <<>>
  /\ batch = <<>>
  /\ ticking = FALSE
  /\ tick = 0
  /\ live = Entity
  /\ bound = [e \in Entity |-> 1]
  /\ expected = [e \in Entity |-> 1]
  /\ component = [e \in Entity |-> [text |-> NoText, tick |-> 0]]
  /\ lastId = 0
  /\ events = <<>>
  /\ drained = 0
  /\ call = [t \in Thread |-> Idle]
  /\ conn = [c \in Client |-> 1]
  /\ up = [c \in Client |-> TRUE]
  /\ wire = [c \in Client |-> [k \in 1..MaxConn |-> <<>>]]
  /\ window = [c \in Client |-> <<>>]

\* Next call number, while the bound lasts.
NewCall(n) == calls < MaxCalls /\ n = calls + 1 /\ calls' = n
-----------------------------------------------------------------------------
(* ChatSetMessageSystem and the enqueueing half of RuntimeDrainConsumer.    *)
(* A call that is rejected or fatal returns an error code and changes       *)
(* nothing: a stutter.                                                      *)

\* The envelopes Admit looks at; text "undecodable" is a payload without UTF-8.
Envelope == [sender : Entity, commands : {0, 1, 2}, chat : BOOLEAN,
             text : Text \cup {"undecodable"}, sequence : 1..MaxSeq]

\* Admit's checks in one conjunction: sender, one chat command, text, length.
Admissible(e, env) ==
  /\ env.sender = e
  /\ env.commands = 1 /\ env.chat
  /\ env.text # "undecodable"
  /\ env.text \notin LongText

\* Variant: Admitted is returned and the message is lost.
EnqueueForgotten(m) == UNCHANGED inbox

\* manager.Enqueue, from any thread.
Enqueue(m) == inbox' = Append(inbox, m)

\* Variant: the generation is looked up at admission, not the host's.
ChatMessageResolved(e, env, g, n) ==
  [kind |-> "chat", entity |-> e, text |-> env.text, n |-> n,
   sequence |-> env.sequence, generation |-> bound[e], said |-> <<g, env.sequence>>]

\* The InputCommandMessage Admit enqueues: the envelope's sequence and the
\* connection and generation the host passed (one number here).  The field said
\* keeps, for the properties, what the sender sent on which generation.
ChatMessage(e, env, g, n) ==
  [kind |-> "chat", entity |-> e, text |-> env.text, n |-> n,
   sequence |-> env.sequence, generation |-> g, said |-> <<g, env.sequence>>]

\* A message that is no chat input.
ControlMessage(kind, e, n) ==
  [kind |-> kind, entity |-> e, text |-> NoText, n |-> n,
   sequence |-> 0, generation |-> 0, said |-> NotAnInput]

Unmoved == <<answered, outbox, batch, ticking, tick, live, bound, expected, chatVars, drained, netVars>>

\* Admit: any thread, at any moment of the owner's Tick; no component write.  The
\* host may call it with an old generation, twice with one envelope, out of order.
Admit(e) ==
  \E n \in 1..MaxCalls :
    /\ NewCall(n)
    /\ \E env \in Envelope, g \in 1..MaxGen :
         /\ Admissible(e, env)
         /\ Enqueue(ChatMessage(e, env, g, n))
    /\ UNCHANGED Unmoved

\* EnqueueExpiry: the entity is destroyed in a later Tick.
EnqueueExpiry(e) ==
  \E n \in 1..MaxCalls :
    /\ NewCall(n)
    /\ Enqueue(ControlMessage("expire", e, n))
    /\ UNCHANGED Unmoved

\* EnqueueBindingResolution and EnqueueAttributeQuery: answered in a later Tick.
EnqueueQuery(e) ==
  \E n \in 1..MaxCalls :
    /\ NewCall(n)
    /\ Enqueue(ControlMessage("query", e, n))
    /\ UNCHANGED Unmoved

\* Variant: the thread is not checked.
AnyThread(t) == TRUE

\* OwnerThread is set and the caller is that thread.
OnOwnerThread(t) == t = Owner

\* Variant: a destroyed entity is not noticed.
AnyEntity(e) == TRUE

IsLive(e) == e \in live

\* SetMessage by thread t up to the call of SendMessage.  The host calls it
\* between Ticks when t is the owner; off the owner thread it returns Fatal.
SetMessage(t, e) ==
  \E text \in Fits, n \in 1..MaxCalls :
    /\ call[t] = Idle
    /\ t = Owner => ~ticking
    /\ OnOwnerThread(t) /\ IsLive(e)
    /\ NewCall(n)
    /\ call' = [call EXCEPT ![t] =
         [step |-> "write", entity |-> e, text |-> text, n |-> n, said |-> NotAnInput]]
    /\ UNCHANGED <<answered, outbox, worldVars, component, lastId, events, drained, netVars>>
-----------------------------------------------------------------------------
(* The world: SendMessage, Tick and DrainOutbox (Runtime, external) *)

\* SendMessage writes the component with the current tick and takes an id ...
WriteComponent(t) ==
  /\ call[t].step = "write"
  /\ component' = [component EXCEPT ![call[t].entity] =
       [text |-> call[t].text, tick |-> tick]]
  /\ call' = [call EXCEPT ![t] = [step |-> "emit", entity |-> call[t].entity,
                text |-> call[t].text, n |-> call[t].n, said |-> call[t].said,
                id |-> lastId + 1, tick |-> tick]]
  /\ UNCHANGED <<callVars, worldVars, lastId, events, drained, netVars>>

\* ... then emits the OnChatMessage event.
EmitEvent(t) ==
  /\ call[t].step = "emit"
  /\ events' = Append(events, [id |-> call[t].id, sender |-> call[t].entity,
                               text |-> call[t].text, tick |-> call[t].tick,
                               said |-> call[t].said])
  /\ lastId' = call[t].id
  /\ outbox' = outbox \cup {call[t].n}
  /\ call' = [call EXCEPT ![t] = Idle]
  /\ UNCHANGED <<calls, answered, worldVars, component, drained, netVars>>

OwnerFree == call[Owner] = Idle

\* Tick takes what is in the inbox.  A Tick with an empty inbox only counts.
TickBegin ==
  /\ OwnerFree /\ ~ticking
  /\ inbox # <<>>
  /\ ticking' = TRUE
  /\ tick' = tick + 1
  /\ batch' = inbox
  /\ inbox' = <<>>
  /\ UNCHANGED <<callVars, live, bound, expected, chatVars, drained, netVars>>

\* The entity has already spoken in this Tick (chat_rate_exceeded).
SpokeThisTick(e) == component[e].tick = tick

\* A chat input.  The host's control adapter answers the generation of the sender's
\* connection, g; on a new one the world may count the inputs from 1 again or go on.
\* The input is sent if its entity is live, its generation is g (else session_closed)
\* and its sequence is next (else bad_envelope), though a second one of a Tick may be
\* rejected; otherwise its error goes to the outbox.
ApplyInput(m) ==
  \E g \in bound[m.entity]..MaxGen, next \in {1, expected[m.entity]} :
    /\ g = bound[m.entity] => next = expected[m.entity]
    /\ bound' = [bound EXCEPT ![m.entity] = g]
    /\ \/ /\ m.entity \in live /\ m.generation = g /\ m.sequence = next
          /\ expected' = [expected EXCEPT ![m.entity] = next + 1]
          /\ call' = [call EXCEPT ![Owner] =
               [step |-> "write", entity |-> m.entity, text |-> m.text, n |-> m.n,
                said |-> m.said]]
          /\ UNCHANGED outbox
       \/ /\ \/ m.entity \notin live \/ m.generation # g \/ m.sequence # next
             \/ SpokeThisTick(m.entity)
          /\ expected' = [expected EXCEPT ![m.entity] = next]
          /\ outbox' = outbox \cup {m.n}
          /\ UNCHANGED call
    /\ UNCHANGED live

\* An expiry destroys its entity, a query only answers.
ApplyControl(m) ==
  /\ live' = IF m.kind = "expire" THEN live \ {m.entity} ELSE live
  /\ outbox' = outbox \cup {m.n}
  /\ UNCHANGED <<call, bound, expected>>

\* The next message of the batch.
TickApply ==
  /\ OwnerFree /\ ticking
  /\ batch # <<>>
  /\ batch' = Tail(batch)
  /\ IF Head(batch).kind = "chat" THEN ApplyInput(Head(batch)) ELSE ApplyControl(Head(batch))
  /\ UNCHANGED <<calls, answered, inbox, ticking, tick, component, lastId, events, drained, netVars>>

TickEnd ==
  /\ OwnerFree /\ ticking
  /\ batch = <<>>
  /\ ticking' = FALSE
  /\ UNCHANGED <<callVars, inbox, batch, tick, live, bound, expected, chatVars, drained, netVars>>

\* Variant: only the newest event leaves the outbox.
NewestFrame == IF events = <<>> THEN <<>> ELSE <<events[Len(events)]>>

\* The frames DrainOutbox returns, in commit order.
Frames == SubSeq(events, drained + 1, Len(events))

\* RuntimeDrainConsumer.Drain by the host: frames go to every open connection;
\* errors and query results reach the host with the same batch.
Drain ==
  /\ OwnerFree /\ ~ticking
  /\ outbox # {}
  /\ wire' = [c \in Client |->
       IF up[c] THEN [wire[c] EXCEPT ![conn[c]] = @ \o Frames] ELSE wire[c]]
  /\ drained' = Len(events)
  /\ answered' = answered \cup outbox
  /\ outbox' = {}
  /\ UNCHANGED <<calls, worldVars, chatVars, conn, up, window>>
-----------------------------------------------------------------------------
(* The browser page *)

\* Variant: every event is appended.
AcceptAll(lines, event) == Append(lines, event)

\* appendAcceptedEvent: only an event newer than the last line is shown.
AppendAccepted(lines, event) ==
  IF lines = <<>> \/ event.id > lines[Len(lines)].id
    THEN Append(lines, event) ELSE lines

\* A frame arrives on socket k.  An old socket still feeds the same window.
Deliver(c, k) ==
  /\ wire[c][k] # <<>>
  /\ window' = [window EXCEPT ![c] = AppendAccepted(@, Head(wire[c][k]))]
  /\ wire' = [wire EXCEPT ![c][k] = Tail(@)]
  /\ UNCHANGED <<callVars, worldVars, chatVars, drained, conn, up>>

\* The page joins again (joinRoom): the new socket supersedes the old one, whose
\* frames already in flight still arrive.
Join(c) ==
  /\ conn[c] < MaxConn
  /\ conn' = [conn EXCEPT ![c] = @ + 1]
  /\ up' = [up EXCEPT ![c] = TRUE]
  /\ UNCHANGED <<callVars, worldVars, chatVars, drained, wire, window>>

\* The newest socket breaks and what was in flight is lost.
SocketLoss(c) ==
  /\ up[c]
  /\ up' = [up EXCEPT ![c] = FALSE]
  /\ wire' = [wire EXCEPT ![c][conn[c]] = <<>>]
  /\ UNCHANGED <<callVars, worldVars, chatVars, drained, conn, window>>
-----------------------------------------------------------------------------
Callers ==
  \E e \in Entity :
    \/ Admit(e) \/ EnqueueExpiry(e) \/ EnqueueQuery(e)
    \/ \E t \in Thread : SetMessage(t, e)

Page(c) == Join(c) \/ SocketLoss(c) \/ \E k \in 1..MaxConn : Deliver(c, k)

Sending(t) == WriteComponent(t) \/ EmitEvent(t)

OwnerLoop == Sending(Owner) \/ TickBegin \/ TickApply \/ TickEnd \/ Drain

Next ==
  \/ Callers
  \/ OwnerLoop
  \/ \E t \in Thread \ {Owner} : Sending(t)
  \/ \E c \in Client : Page(c)

\* The host keeps ticking and draining on the owner thread.
Fairness == WF_vars(OwnerLoop)

Spec == Init /\ [][Next]_vars /\ Fairness
-----------------------------------------------------------------------------
(* Properties *)

Said == Nat \X Nat
MessageOf(s) ==
  {m \in [kind : {"chat"}, entity : Entity, text : Fits, n : s,
          sequence : Nat, generation : Nat, said : Said] : m.said = <<m.generation, m.sequence>>}
    \cup [kind : {"expire", "query"}, entity : Entity, text : {NoText}, n : s,
          sequence : {0}, generation : {0}, said : {NotAnInput}]
CallOf(s) ==
  {Idle} \cup [step : {"write"}, entity : Entity, text : Fits, n : s, said : Said]
    \cup [step : {"emit"}, entity : Entity, text : Fits, n : s, said : Said, id : Nat, tick : Nat]
Event == [id : Nat, sender : Entity, text : Fits, tick : Nat, said : Said]

WorldTypes ==
  /\ calls \in 0..MaxCalls /\ answered \subseteq 1..calls /\ outbox \subseteq 1..calls
  /\ inbox \in Seq(MessageOf(1..calls)) /\ batch \in Seq(MessageOf(1..calls))
  /\ ticking \in BOOLEAN /\ tick \in Nat /\ live \subseteq Entity
  /\ bound \in [Entity -> Nat] /\ expected \in [Entity -> Nat]

ChatTypes ==
  /\ component \in [Entity -> [text : Fits \cup {NoText}, tick : 0..tick]]
  /\ lastId \in Nat /\ events \in Seq(Event) /\ drained \in 0..Len(events)
  /\ call \in [Thread -> CallOf(1..calls)]

PageTypes ==
  /\ conn \in [Client -> 1..MaxConn] /\ up \in [Client -> BOOLEAN]
  /\ wire \in [Client -> [1..MaxConn -> Seq(Event)]]
  /\ window \in [Client -> Seq(Event)]

\* Types; and no text over MaxTextUtf8Bytes is ever queued, sent or committed.
TypeOK == WorldTypes /\ ChatTypes /\ PageTypes

\* The last event of entity e, as the component would record it.
LastOf(e) ==
  LET mine == {i \in 1..Len(events) : events[i].sender = e} IN
    IF mine = {} THEN [text |-> NoText, tick |-> 0]
    ELSE LET i == CHOOSE j \in mine : \A k \in mine : k <= j IN
           [text |-> events[i].text, tick |-> events[i].tick]

\* Component and events agree (EventAndComponentStateCarryTheSameAppliedTick):
\* outside a SendMessage, an entity's component holds its last event.
ComponentMatchesLastEvent ==
  \A e \in Entity :
    (\A t \in Thread : call[t] # Idle => call[t].entity # e)
      => component[e] = LastOf(e)

\* A destroyed entity is never written to again (entity_destroyed): neither a
\* queued input nor a SetMessage that was already accepted gets through.
NoWriteAfterDestroy ==
  [][\A e \in Entity : e \notin live => component'[e] = component[e]]_vars

\* The room is a log with readers: ids only grow, committed events never change,
\* and a window shows only committed events, newest last, also when an old and a
\* new socket of the same page deliver in any order.
Log == INSTANCE RoomLog WITH log <- events
ImplementsRoomLog == Log!RoomSpec

\* A page that stayed on its first socket misses nothing: what it shows and what
\* is in flight to it are exactly the events drained so far.
NothingMissing ==
  \A c \in Client : conn[c] = 1 /\ up[c] =>
    window[c] \o wire[c][1] = SubSeq(events, 1, drained)

\* p was said before q: on an older generation, or earlier on the same one.
Before(p, q) == p[1] < q[1] \/ (p[1] = q[1] /\ p[2] < q[2])

\* However the host admits envelopes, twice, late, out of order, on a connection
\* made again meanwhile and from several threads: the room speaks the inputs of one
\* sender in the order the sender numbered them, each at most once (Admit passes on
\* the envelope's sequence and the host's generation).
SpokenInOrder ==
  \A i, j \in 1..Len(events) :
    /\ i < j /\ events[i].sender = events[j].sender
    /\ events[i].said # NotAnInput /\ events[j].said # NotAnInput
    => Before(events[i].said, events[j].said)

\* Reject, never silent drop (BoundedInputPolicy): every call that was accepted ends
\* in something the host gets, the event of the message or an error or a result in a
\* drained batch, also an admitted input that the Tick then refuses.
AcceptedIsAnswered ==
  \A n \in 1..MaxCalls : (calls >= n) ~> (n \in answered)
=============================================================================
