---------------------------- MODULE ChatRoomProofs ----------------------------
(***************************************************************************)
(* Proofs about ChatRoom for every set of entities, pages and threads, any *)
(* number of calls and of sockets.                                         *)
(***************************************************************************)
EXTENDS ChatRoom, TLAPS, SequenceTheorems

(* Only the owner thread is ever inside SendMessage (SetMessage's thread check). *)
OnlyOwnerSends == \A t \in Thread \ {Owner} : call[t] = Idle

(* It writes to live entities, and has written the component when it emits.     *)
SendsToLive ==
  /\ call[Owner].step = "write" => call[Owner].entity \in live
  /\ call[Owner].step = "emit" =>
       /\ call[Owner].id = lastId + 1
       /\ component[call[Owner].entity] = [text |-> call[Owner].text, tick |-> call[Owner].tick]

(* Events are numbered without a gap.                                           *)
EventsNumbered ==
  /\ lastId = Len(events)
  /\ \A i \in 1..Len(events) : events[i].id = i

(* An entity that has spoken has a last event.                                  *)
EventsOf(e) == {i \in 1..Len(events) : events[i].sender = e}
IsLast(i, e) == \A k \in EventsOf(e) : k <= i
LastExists == \A e \in Entity : EventsOf(e) = {} \/ \E i \in EventsOf(e) : IsLast(i, e)

(* What an entity has said comes before the input the world expects next of it. *)
Awaited(e) == <<bound[e], expected[e]>>
SaidBy(i, e) == events[i].sender = e /\ events[i].said # NotAnInput
SaidBeforeNext ==
  \A e \in Entity : \A i \in 1..Len(events) :
    SaidBy(i, e) => Before(events[i].said, Awaited(e))

(* ... and so does what the owner thread is about to say, after all that was said. *)
SayingInOrder ==
  call[Owner] # Idle /\ call[Owner].said # NotAnInput =>
    /\ Before(call[Owner].said, Awaited(call[Owner].entity))
    /\ \A i \in 1..Len(events) :
         SaidBy(i, call[Owner].entity) => Before(events[i].said, call[Owner].said)

(* What is in flight or shown are committed events.                             *)
EntriesOf(log, s) == \A j \in 1..Len(s) : s[j].id \in 1..Len(log) /\ s[j] = log[s[j].id]
Committed(s) == EntriesOf(events, s)
PagesShowEvents ==
  \A c \in Client :
    /\ Committed(window[c])
    /\ \A k \in 1..MaxConn : Committed(wire[c][k])

(* The last line of a window is its newest.                                     *)
WindowsAscend ==
  \A c \in Client : \A j \in 1..Len(window[c]) : window[c][j].id <= window[c][Len(window[c])].id

(* Nothing is in flight on a socket that was not opened yet.                    *)
NothingOnUnopened == \A c \in Client : \A k \in 1..MaxConn : k > conn[c] => wire[c][k] = <<>>

IInv ==
  /\ TypeOK
  /\ OnlyOwnerSends
  /\ SendsToLive
  /\ EventsNumbered
  /\ LastExists
  /\ ComponentMatchesLastEvent
  /\ SaidBeforeNext
  /\ SayingInOrder
  /\ SpokenInOrder
  /\ PagesShowEvents
  /\ WindowsAscend
  /\ NothingOnUnopened
  /\ NothingMissing
-----------------------------------------------------------------------------
(* Types *)

(* Messages and calls keep their types when more calls are made.                *)
LEMMA Grows ==
  ASSUME NEW m \in Nat, NEW n \in Nat, m <= n
  PROVE  /\ \A s \in Seq(MessageOf(1..m)) : s \in Seq(MessageOf(1..n))
         /\ CallOf(1..m) \subseteq CallOf(1..n)
<1>1. 1..m \subseteq 1..n
  OBVIOUS
<1>2. MessageOf(1..m) \subseteq MessageOf(1..n)
  BY <1>1 DEF MessageOf
<1>3. CallOf(1..m) \subseteq CallOf(1..n)
  BY <1>1 DEF CallOf
<1> QED
  BY <1>2, <1>3, SeqMonotonic

(* The initial states have the right types.                                     *)
LEMMA TypeInit == Init => TypeOK
<1> SUFFICES ASSUME Init PROVE TypeOK
  OBVIOUS
<1>1. \A S : <<>> \in Seq(S) /\ Len(<<>>) = 0
  BY EmptySeq
<1>2. WorldTypes
  <2>1. calls \in 0..MaxCalls /\ answered \subseteq 1..calls /\ outbox \subseteq 1..calls
    BY BoundAssumption DEF Init
  <2>2. inbox \in Seq(MessageOf(1..calls)) /\ batch \in Seq(MessageOf(1..calls))
    BY <1>1 DEF Init
  <2>3. /\ ticking \in BOOLEAN /\ tick \in Nat /\ live \subseteq Entity
        /\ bound \in [Entity -> Nat] /\ expected \in [Entity -> Nat]
    BY DEF Init
  <2> QED
    BY <2>1, <2>2, <2>3 DEF WorldTypes
<1>3. ChatTypes
  <2>1. component \in [Entity -> [text : Fits \cup {NoText}, tick : 0..tick]]
    BY DEF Init
  <2>2. call \in [Thread -> CallOf(1..calls)]
    BY DEF Init, CallOf
  <2>3. lastId \in Nat /\ events \in Seq(Event) /\ drained \in 0..Len(events)
    BY <1>1 DEF Init
  <2> QED
    BY <2>1, <2>2, <2>3 DEF ChatTypes
<1>4. PageTypes
  <2>1. conn \in [Client -> 1..MaxConn] /\ up \in [Client -> BOOLEAN]
    BY BoundAssumption DEF Init
  <2>2. window \in [Client -> Seq(Event)]
    BY <1>1 DEF Init
  <2>3. [k \in 1..MaxConn |-> <<>>] \in [1..MaxConn -> Seq(Event)]
    BY <1>1
  <2>4. wire \in [Client -> [1..MaxConn -> Seq(Event)]]
    BY <2>3 DEF Init
  <2> QED
    BY <2>1, <2>2, <2>4 DEF PageTypes
<1> QED
  BY <1>2, <1>3, <1>4 DEF TypeOK

(* A step keeps the types of calls, queues and entities.                        *)
LEMMA WorldTypesStep == TypeOK /\ [Next]_vars => WorldTypes'
<1> SUFFICES ASSUME TypeOK, [Next]_vars PROVE WorldTypes'
  OBVIOUS
<1>1. WorldTypes /\ call \in [Thread -> CallOf(1..calls)] /\ calls \in Nat
  BY BoundAssumption DEF TypeOK, ChatTypes, WorldTypes
<1>2. ASSUME NEW n \in 1..MaxCalls, NewCall(n)
      PROVE  /\ n \in 1..calls' /\ calls' \in 0..MaxCalls
             /\ answered \subseteq 1..calls' /\ outbox \subseteq 1..calls'
             /\ inbox \in Seq(MessageOf(1..calls')) /\ batch \in Seq(MessageOf(1..calls'))
  <2>1. n = calls + 1 /\ calls' = calls + 1 /\ calls < MaxCalls
    BY <1>2 DEF NewCall
  <2>2. /\ \A s \in Seq(MessageOf(1..calls)) : s \in Seq(MessageOf(1..(calls + 1)))
        /\ answered \subseteq 1..(calls + 1) /\ outbox \subseteq 1..(calls + 1)
    <3>1. \A s \in Seq(MessageOf(1..calls)) : s \in Seq(MessageOf(1..(calls + 1)))
      BY <1>1, Grows
    <3> QED
      BY <1>1, <3>1 DEF WorldTypes
  <2> QED
    BY <1>1, <2>1, <2>2, BoundAssumption DEF WorldTypes
<1>3. ASSUME NEW n \in 1..MaxCalls, NewCall(n), NEW m \in MessageOf(1..calls'), Enqueue(m),
             UNCHANGED Unmoved
      PROVE  WorldTypes'
  <2>1. inbox' \in Seq(MessageOf(1..calls'))
    BY <1>2, <1>3, AppendProperties DEF Enqueue
  <2> QED
    BY <1>1, <1>2, <1>3, <2>1 DEF WorldTypes, Unmoved
<1>4. ASSUME NEW e \in Entity, Admit(e) PROVE WorldTypes'
  <2>1. PICK env \in Envelope, g \in 1..MaxGen, n \in 1..MaxCalls :
          /\ Admissible(e, env) /\ NewCall(n)
          /\ Enqueue(ChatMessage(e, env, g, n))
          /\ UNCHANGED Unmoved
    BY <1>4 DEF Admit
  <2>2. env.text \in Fits /\ env.sequence \in Nat /\ g \in Nat
    BY <2>1, BoundAssumption DEF Admissible, Envelope, Fits
  <2>3. ChatMessage(e, env, g, n) \in MessageOf(1..calls')
    BY <1>2, <2>1, <2>2 DEF MessageOf, ChatMessage, Said
  <2> QED
    BY <1>3, <2>1, <2>3
<1>5. ASSUME NEW e \in Entity, EnqueueExpiry(e) \/ EnqueueQuery(e) PROVE WorldTypes'
  <2>1. PICK n \in 1..MaxCalls, k \in {"expire", "query"} :
          /\ NewCall(n)
          /\ Enqueue(ControlMessage(k, e, n))
          /\ UNCHANGED Unmoved
    BY <1>5 DEF EnqueueExpiry, EnqueueQuery
  <2>2. ControlMessage(k, e, n) \in MessageOf(1..calls')
    BY <1>2, <2>1 DEF MessageOf, ControlMessage
  <2> QED
    BY <1>3, <2>1, <2>2
<1>6. ASSUME NEW t \in Thread, NEW e \in Entity, SetMessage(t, e) PROVE WorldTypes'
  <2>1. PICK n \in 1..MaxCalls : NewCall(n) /\ UNCHANGED <<answered, outbox, worldVars>>
    BY <1>6 DEF SetMessage
  <2> QED
    BY <1>1, <1>2, <2>1 DEF WorldTypes, worldVars
<1>7. ASSUME NEW t \in Thread, Sending(t) PROVE WorldTypes'
  <2>1. CASE WriteComponent(t)
    BY <1>1, <2>1 DEF WriteComponent, WorldTypes, callVars, worldVars
  <2>2. CASE EmitEvent(t)
    <3>1. call[t].n \in 1..calls
      BY <1>1, <2>2 DEF EmitEvent, CallOf, Idle
    <3> QED
      BY <1>1, <2>2, <3>1 DEF EmitEvent, WorldTypes, worldVars
  <2> QED
    BY <1>7, <2>1, <2>2 DEF Sending
<1>8. CASE TickBegin
  <2>1. <<>> \in Seq(MessageOf(1..calls))
    BY EmptySeq
  <2> QED
    BY <1>1, <1>8, <2>1 DEF TickBegin, WorldTypes, callVars
<1>9. CASE TickApply
  <2>1. /\ Tail(batch) \in Seq(MessageOf(1..calls))
        /\ Head(batch) \in MessageOf(1..calls)
    BY <1>1, <1>9, HeadTailProperties DEF TickApply, WorldTypes
  <2>2. Head(batch).n \in 1..calls /\ Head(batch).entity \in Entity
    BY <2>1 DEF MessageOf
  <2>3. /\ live' \subseteq live
        /\ outbox' = outbox \/ outbox' = outbox \cup {Head(batch).n}
        /\ batch' = Tail(batch) /\ UNCHANGED <<calls, answered, inbox, ticking, tick>>
    BY <1>9 DEF TickApply, ApplyInput, ApplyControl
  <2>4. bound' \in [Entity -> Nat] /\ expected' \in [Entity -> Nat]
    <3>1. bound \in [Entity -> Nat] /\ expected \in [Entity -> Nat]
      BY <1>1 DEF WorldTypes
    <3>2. CASE ApplyControl(Head(batch))
      BY <3>1, <3>2 DEF ApplyControl
    <3>3. CASE ApplyInput(Head(batch))
      BY <2>2, <3>1, <3>3, BoundAssumption DEF ApplyInput
    <3> QED
      BY <1>9, <3>2, <3>3 DEF TickApply
  <2> QED
    BY <1>1, <2>1, <2>2, <2>3, <2>4 DEF WorldTypes
<1>10. CASE TickEnd
  BY <1>1, <1>10 DEF TickEnd, WorldTypes, callVars
<1>11. CASE UNCHANGED <<callVars, worldVars>>
  BY <1>1, <1>11 DEF WorldTypes, callVars, worldVars
<1>12. CASE Drain
  BY <1>1, <1>12 DEF Drain, WorldTypes, worldVars
<1>13. CASE (\E c \in Client : Page(c)) \/ UNCHANGED vars
  BY <1>11, <1>13 DEF Page, Join, SocketLoss, Deliver, vars
<1> QED
  BY <1>4, <1>5, <1>6, <1>7, <1>8, <1>9, <1>10, <1>12, <1>13, OwnerAssumption
     DEF Next, Callers, OwnerLoop

(* A step keeps the types of components, events and calls in progress.          *)
LEMMA ChatTypesStep == TypeOK /\ [Next]_vars => ChatTypes'
<1> SUFFICES ASSUME TypeOK, [Next]_vars PROVE ChatTypes'
  OBVIOUS
<1>1. ChatTypes /\ calls \in 0..MaxCalls /\ tick \in Nat
  BY DEF TypeOK, WorldTypes
<1>2. component \in [Entity -> [text : Fits \cup {NoText}, tick : 0..(tick + 1)]]
  <2>1. 0..tick \subseteq 0..(tick + 1)
    BY <1>1
  <2> QED
    BY <1>1, <2>1 DEF ChatTypes
<1>3. ASSUME NEW n \in 1..MaxCalls, NewCall(n)
      PROVE  n \in 1..calls' /\ call \in [Thread -> CallOf(1..calls')]
  <2>1. n = calls + 1 /\ calls' = calls + 1
    BY <1>3 DEF NewCall
  <2>2. CallOf(1..calls) \subseteq CallOf(1..(calls + 1))
    BY <1>1, Grows, BoundAssumption
  <2> QED
    BY <1>1, <2>1, <2>2 DEF ChatTypes
<1>4. ASSUME NEW e \in Entity, Admit(e) \/ EnqueueExpiry(e) \/ EnqueueQuery(e) PROVE ChatTypes'
  <2>1. PICK n \in 1..MaxCalls : NewCall(n) /\ UNCHANGED <<tick, chatVars, drained>>
    BY <1>4 DEF Admit, EnqueueExpiry, EnqueueQuery, Unmoved
  <2> QED
    BY <1>1, <1>3, <2>1 DEF ChatTypes, chatVars
<1>5. ASSUME NEW t \in Thread, NEW e \in Entity, SetMessage(t, e) PROVE ChatTypes'
  <2>1. PICK text \in Fits, n \in 1..MaxCalls :
          /\ NewCall(n)
          /\ call' = [call EXCEPT ![t] =
               [step |-> "write", entity |-> e, text |-> text, n |-> n, said |-> NotAnInput]]
          /\ UNCHANGED <<tick, component, lastId, events, drained>>
    BY <1>5 DEF SetMessage, worldVars
  <2>2. [step |-> "write", entity |-> e, text |-> text, n |-> n, said |-> NotAnInput]
          \in CallOf(1..calls')
    BY <1>3, <2>1 DEF CallOf, Said, NotAnInput
  <2>3. call' \in [Thread -> CallOf(1..calls')]
    BY <1>3, <2>1, <2>2
  <2> QED
    BY <1>1, <2>1, <2>3 DEF ChatTypes
<1>6. ASSUME NEW t \in Thread, WriteComponent(t) PROVE ChatTypes'
  <2>1. call[t] \in [step : {"write"}, entity : Entity, text : Fits, n : 1..calls, said : Said]
    BY <1>1, <1>6 DEF WriteComponent, ChatTypes, CallOf, Idle
  <2>2. component' \in [Entity -> [text : Fits \cup {NoText}, tick : 0..tick]]
    BY <1>1, <1>6, <2>1 DEF WriteComponent, ChatTypes
  <2>3. [step |-> "emit", entity |-> call[t].entity, text |-> call[t].text,
         n |-> call[t].n, said |-> call[t].said, id |-> lastId + 1, tick |-> tick] \in CallOf(1..calls)
    BY <1>1, <2>1 DEF ChatTypes, CallOf
  <2>4. call' \in [Thread -> CallOf(1..calls)]
    BY <1>1, <1>6, <2>3 DEF WriteComponent, ChatTypes
  <2> QED
    BY <1>1, <1>6, <2>2, <2>4 DEF WriteComponent, ChatTypes, callVars, worldVars
<1>7. ASSUME NEW t \in Thread, EmitEvent(t) PROVE ChatTypes'
  <2>1. call[t] \in [step : {"emit"}, entity : Entity, text : Fits, n : 1..calls, said : Said,
                     id : Nat, tick : Nat]
    BY <1>1, <1>7 DEF EmitEvent, ChatTypes, CallOf, Idle
  <2>2. [id |-> call[t].id, sender |-> call[t].entity, text |-> call[t].text,
         tick |-> call[t].tick, said |-> call[t].said] \in Event
    BY <2>1 DEF Event
  <2>3. events' \in Seq(Event) /\ Len(events') = Len(events) + 1 /\ Len(events) \in Nat
    BY <1>1, <1>7, <2>2, AppendProperties, LenProperties DEF EmitEvent, ChatTypes
  <2>4. call' \in [Thread -> CallOf(1..calls)]
    BY <1>1, <1>7 DEF EmitEvent, ChatTypes, CallOf
  <2>5. drained \in 0..Len(events')
    BY <1>1, <2>3 DEF ChatTypes
  <2> QED
    BY <1>1, <1>7, <2>1, <2>3, <2>4, <2>5 DEF EmitEvent, ChatTypes, worldVars
<1>8. CASE TickBegin
  BY <1>1, <1>2, <1>8 DEF TickBegin, ChatTypes, callVars, chatVars
<1>9. CASE TickApply
  <2>1. Head(batch) \in MessageOf(1..calls)
    BY <1>9, HeadTailProperties DEF TickApply, ApplyInput, ApplyControl, TypeOK, WorldTypes
  <2>2. CASE call' = call
    BY <1>1, <1>9, <2>2 DEF TickApply, ApplyInput, ApplyControl, ChatTypes
  <2>3. CASE /\ Head(batch).kind = "chat"
             /\ call' = [call EXCEPT ![Owner] =
                  [step |-> "write", entity |-> Head(batch).entity, text |-> Head(batch).text,
                   n |-> Head(batch).n, said |-> Head(batch).said]]
    <3>1. Head(batch) \in [kind : {"chat"}, entity : Entity, text : Fits, n : 1..calls,
                           sequence : Nat, generation : Nat, said : Said]
      BY <2>1, <2>3 DEF MessageOf
    <3>2. [step |-> "write", entity |-> Head(batch).entity, text |-> Head(batch).text,
           n |-> Head(batch).n, said |-> Head(batch).said] \in CallOf(1..calls)
      BY <3>1 DEF CallOf
    <3> QED
      BY <1>1, <1>9, <2>3, <3>2 DEF TickApply, ApplyInput, ApplyControl, ChatTypes
  <2> QED
    BY <1>9, <2>2, <2>3 DEF TickApply, ApplyInput, ApplyControl
<1>10. CASE TickEnd \/ Drain
  <2>1. Len(events) \in Nat
    BY <1>1, LenProperties DEF ChatTypes
  <2> QED
    BY <1>1, <1>10, <2>1 DEF TickEnd, Drain, ChatTypes, callVars, worldVars, chatVars
<1>11. CASE (\E c \in Client : Page(c)) \/ UNCHANGED vars
  <2>1. UNCHANGED <<calls, tick, chatVars, drained>>
    BY <1>11 DEF Page, Join, SocketLoss, Deliver, vars, callVars, worldVars
  <2> QED
    BY <1>1, <2>1 DEF ChatTypes, chatVars
<1> QED
  BY <1>4, <1>5, <1>6, <1>7, <1>8, <1>9, <1>10, <1>11, OwnerAssumption
     DEF Next, Callers, OwnerLoop, Sending

(* Showing one more event keeps a window a sequence of events.                  *)
LEMMA AppendAcceptedType ==
  ASSUME NEW lines \in Seq(Event), NEW event \in Event
  PROVE  AppendAccepted(lines, event) \in Seq(Event)
  BY AppendProperties DEF AppendAccepted

(* The frames of a Drain are the events after the drained ones.                 *)
LEMMA FramesAreEvents ==
  ASSUME TypeOK
  PROVE  /\ Frames \in Seq(Event)
         /\ Len(Frames) = Len(events) - drained
         /\ \A j \in 1..Len(Frames) : Frames[j] = events[drained + j]
<1>1. events \in Seq(Event) /\ drained \in 0..Len(events) /\ Len(events) \in Nat
  BY LenProperties DEF TypeOK, ChatTypes
<1>2. \A i \in (drained + 1)..Len(events) : events[i] \in Event
  BY <1>1, ElementOfSeq
<1>3. drained + 1 \in Int /\ Len(events) \in Int
  BY <1>1
<1>4. /\ SubSeq(events, drained + 1, Len(events)) \in Seq(Event)
      /\ Len(SubSeq(events, drained + 1, Len(events)))
           = IF drained + 1 <= Len(events) THEN Len(events) - (drained + 1) + 1 ELSE 0
      /\ \A j \in 1..(Len(events) - (drained + 1) + 1) :
           SubSeq(events, drained + 1, Len(events))[j] = events[(drained + 1) + j - 1]
  BY <1>2, <1>3, SubSeqProperties
<1>5. Len(Frames) = Len(events) - drained
  BY <1>1, <1>4 DEF Frames
<1>6. ASSUME NEW j \in 1..Len(Frames) PROVE Frames[j] = events[drained + j]
  <2>1. j \in 1..(Len(events) - (drained + 1) + 1) /\ (drained + 1) + j - 1 = drained + j
    BY <1>1, <1>5
  <2> QED
    BY <1>4, <2>1 DEF Frames
<1> QED
  BY <1>4, <1>5, <1>6 DEF Frames

(* A step keeps the types of pages and sockets.                                 *)
LEMMA PageTypesStep == TypeOK /\ [Next]_vars => PageTypes'
<1> SUFFICES ASSUME TypeOK, [Next]_vars PROVE PageTypes'
  OBVIOUS
<1>1. PageTypes
  BY DEF TypeOK
<1>2. CASE UNCHANGED netVars
  BY <1>1, <1>2 DEF PageTypes, netVars
<1>3. CASE Drain
  <2>1. ASSUME NEW c \in Client PROVE wire[c][conn[c]] \o Frames \in Seq(Event)
    <3>1. wire[c][conn[c]] \in Seq(Event) /\ Frames \in Seq(Event)
      BY <1>1, FramesAreEvents DEF PageTypes
    <3> QED
      BY <3>1, ConcatProperties
  <2>2. ASSUME NEW c \in Client
        PROVE  (IF up[c] THEN [wire[c] EXCEPT ![conn[c]] = @ \o Frames] ELSE wire[c])
                 \in [1..MaxConn -> Seq(Event)]
    <3>1. wire[c] \in [1..MaxConn -> Seq(Event)]
      BY <1>1 DEF PageTypes
    <3>2. [wire[c] EXCEPT ![conn[c]] = @ \o Frames] \in [1..MaxConn -> Seq(Event)]
      BY <2>1, <3>1
    <3> QED
      BY <3>1, <3>2
  <2>3. wire' \in [Client -> [1..MaxConn -> Seq(Event)]]
    BY <1>3, <2>2 DEF Drain
  <2> QED
    BY <1>1, <1>3, <2>3 DEF Drain, PageTypes
<1>4. ASSUME NEW c \in Client, Join(c) PROVE PageTypes'
  <2>1. conn[c] + 1 \in 1..MaxConn
    BY <1>1, <1>4, BoundAssumption DEF Join, PageTypes
  <2> QED
    BY <1>1, <1>4, <2>1 DEF Join, PageTypes
<1>5. ASSUME NEW c \in Client, SocketLoss(c) PROVE PageTypes'
  <2>1. <<>> \in Seq(Event)
    BY EmptySeq
  <2>2. wire' \in [Client -> [1..MaxConn -> Seq(Event)]]
    BY <1>1, <1>5, <2>1 DEF SocketLoss, PageTypes
  <2> QED
    BY <1>1, <1>5, <2>2 DEF SocketLoss, PageTypes
<1>6. ASSUME NEW c \in Client, NEW k \in 1..MaxConn, Deliver(c, k) PROVE PageTypes'
  <2>1. Head(wire[c][k]) \in Event /\ Tail(wire[c][k]) \in Seq(Event)
    BY <1>1, <1>6, HeadTailProperties DEF Deliver, PageTypes
  <2>2. AppendAccepted(window[c], Head(wire[c][k])) \in Seq(Event)
    BY <1>1, <2>1, AppendAcceptedType DEF PageTypes
  <2>3. window' \in [Client -> Seq(Event)]
    BY <1>1, <1>6, <2>2 DEF Deliver, PageTypes
  <2>4. wire' \in [Client -> [1..MaxConn -> Seq(Event)]]
    BY <1>1, <1>6, <2>1 DEF Deliver, PageTypes
  <2> QED
    BY <1>1, <1>6, <2>3, <2>4 DEF Deliver, PageTypes
<1>7. CASE Callers \/ TickBegin \/ TickApply \/ TickEnd \/ (\E t \in Thread : Sending(t)) \/ UNCHANGED vars
  BY <1>2, <1>7 DEF Callers, Admit, EnqueueExpiry, EnqueueQuery, Unmoved, SetMessage, TickBegin,
     TickApply, ApplyInput, ApplyControl, TickEnd, Sending, WriteComponent, EmitEvent, vars
<1> QED
  BY <1>3, <1>4, <1>5, <1>6, <1>7, OwnerAssumption DEF Next, OwnerLoop, Page

(* A step keeps every type.                                                     *)
LEMMA TypeStep == TypeOK /\ [Next]_vars => TypeOK'
  BY WorldTypesStep, ChatTypesStep, PageTypesStep DEF TypeOK
-----------------------------------------------------------------------------
(* The owner thread: components and events *)

(* The steps that leave components, events and calls in progress alone.         *)
Quiet == UNCHANGED <<component, lastId, events, call, live>>

(* A step is quiet, or one of the five that are not.                            *)
LEMMA Steps ==
  ASSUME TypeOK, OnlyOwnerSends, [Next]_vars
  PROVE  \/ Quiet
         \/ /\ \E e \in Entity : SetMessage(Owner, e)
            /\ call[Owner] = Idle
         \/ WriteComponent(Owner)
         \/ EmitEvent(Owner)
         \/ TickApply
<1>1. CASE \E e \in Entity : Admit(e) \/ EnqueueExpiry(e) \/ EnqueueQuery(e)
  BY <1>1 DEF Admit, EnqueueExpiry, EnqueueQuery, Unmoved, Quiet, chatVars
<1>2. ASSUME NEW t \in Thread, NEW e \in Entity, SetMessage(t, e), t # Owner PROVE Quiet
  BY <1>2 DEF SetMessage, OnOwnerThread, Quiet, worldVars
<1>3. ASSUME NEW e \in Entity, SetMessage(Owner, e) PROVE call[Owner] = Idle
  BY <1>3 DEF SetMessage
<1>4. ASSUME NEW t \in Thread, Sending(t), t # Owner PROVE FALSE
  BY <1>4 DEF Sending, WriteComponent, EmitEvent, OnlyOwnerSends, Idle
<1>5. CASE TickBegin \/ TickEnd \/ Drain
  BY <1>5 DEF TickBegin, TickEnd, Drain, Quiet, chatVars, worldVars
<1>6. CASE (\E c \in Client : Page(c)) \/ UNCHANGED vars
  BY <1>6 DEF Page, Join, SocketLoss, Deliver, vars, Quiet, chatVars, worldVars
<1> QED
  BY <1>1, <1>2, <1>3, <1>4, <1>5, <1>6 DEF Next, Callers, OwnerLoop, Sending

(* No other thread ever starts sending.                                         *)
LEMMA OnlyOwnerSendsStep ==
  ASSUME TypeOK, OnlyOwnerSends, [Next]_vars
  PROVE  OnlyOwnerSends'
<1>1. call \in [Thread -> CallOf(1..calls)]
  BY DEF TypeOK, ChatTypes
<1>2. \/ call' = call
      \/ \E x : call' = [call EXCEPT ![Owner] = x]
  BY Steps DEF Quiet, SetMessage, WriteComponent, EmitEvent, TickApply, ApplyInput, ApplyControl
<1> QED
  BY <1>1, <1>2 DEF OnlyOwnerSends

(* The owner sends to live entities, and emits what it has written.             *)
LEMMA SendsToLiveStep ==
  ASSUME TypeOK, OnlyOwnerSends, SendsToLive, [Next]_vars
  PROVE  SendsToLive'
<1>1. call \in [Thread -> CallOf(1..calls)] /\ Owner \in Thread
      /\ component \in [Entity -> [text : Fits \cup {NoText}, tick : 0..tick]]
  BY OwnerAssumption DEF TypeOK, ChatTypes
<1>2. CASE Quiet
  BY <1>2 DEF Quiet, SendsToLive
<1>3. ASSUME NEW e \in Entity, SetMessage(Owner, e) PROVE SendsToLive'
  <2>1. /\ \/ call'[Owner].step = "write" /\ call'[Owner].entity \in live
           \/ call' = call /\ call[Owner] = Idle
        /\ live' = live
    BY <1>1, <1>3 DEF SetMessage, IsLive, worldVars
  <2> QED
    BY <2>1 DEF SendsToLive, Idle
<1>4. CASE WriteComponent(Owner)
  <2>1. call[Owner].entity \in Entity
    BY <1>1, <1>4 DEF WriteComponent, CallOf, Idle
  <2> QED
    BY <1>1, <1>4, <2>1 DEF WriteComponent, SendsToLive, worldVars
<1>5. CASE EmitEvent(Owner)
  BY <1>1, <1>5 DEF EmitEvent, SendsToLive, Idle
<1>6. CASE TickApply
  <2>1. \/ /\ call'[Owner].step = "write" /\ call'[Owner].entity \in live
           /\ live' = live
        \/ call'[Owner] = Idle
    BY <1>1, <1>6 DEF TickApply, ApplyInput, ApplyControl, OwnerFree
  <2> QED
    BY <2>1 DEF SendsToLive, Idle
<1> QED
  BY <1>2, <1>3, <1>4, <1>5, <1>6, Steps

(* EmitEvent adds one event, the message being sent with the next number.       *)
LEMMA Emits ==
  ASSUME TypeOK, SendsToLive, EventsNumbered, EmitEvent(Owner)
  PROVE  /\ Len(events) \in Nat /\ Len(events') = Len(events) + 1
         /\ \A i \in 1..Len(events) : events'[i] = events[i]
         /\ events'[Len(events')] = [id |-> Len(events'), sender |-> call[Owner].entity,
                                    text |-> call[Owner].text, tick |-> call[Owner].tick,
                                    said |-> call[Owner].said]
         /\ call[Owner].entity \in Entity
<1> DEFINE new == [id |-> call[Owner].id, sender |-> call[Owner].entity,
                   text |-> call[Owner].text, tick |-> call[Owner].tick,
                   said |-> call[Owner].said]
<1>1. call[Owner].id = Len(events) + 1 /\ events' = Append(events, new)
  BY DEF EmitEvent, SendsToLive, EventsNumbered
<1>2. new \in Event /\ call[Owner].entity \in Entity
  BY OwnerAssumption DEF EmitEvent, TypeOK, ChatTypes, CallOf, Idle, Event
<1>3. events \in Seq(Event) /\ Len(events) \in Nat
  BY LenProperties DEF TypeOK, ChatTypes
<1>4. /\ Len(events') = Len(events) + 1
      /\ \A i \in 1..Len(events) : events'[i] = events[i]
      /\ events'[Len(events) + 1] = new
  BY <1>1, <1>2, <1>3, AppendProperties
<1> QED
  BY <1>1, <1>2, <1>3, <1>4

(* Every event gets the next number.                                            *)
LEMMA EventsNumberedStep ==
  ASSUME TypeOK, OnlyOwnerSends, SendsToLive, EventsNumbered, [Next]_vars
  PROVE  EventsNumbered'
<1>1. CASE UNCHANGED <<events, lastId>>
  BY <1>1 DEF EventsNumbered
<1>2. CASE EmitEvent(Owner)
  <2>1. lastId' = Len(events) + 1
    BY <1>2 DEF EmitEvent, SendsToLive, EventsNumbered
  <2>2. ASSUME NEW i \in 1..Len(events') PROVE events'[i].id = i
    <3>1. CASE i = Len(events')
      BY <1>2, <3>1, Emits
    <3>2. CASE i # Len(events')
      <4>1. i \in 1..Len(events)
        BY <1>2, <3>2, Emits
      <4> QED
        BY <1>2, <4>1, Emits DEF EventsNumbered
    <3> QED
      BY <3>1, <3>2
  <2> QED
    BY <1>2, <2>1, <2>2, Emits DEF EventsNumbered
<1> QED
  BY <1>1, <1>2, Steps DEF Quiet, SetMessage, WriteComponent, TickApply, ApplyInput, ApplyControl

(* An event adds itself to the events of its sender and to no other's.          *)
LEMMA EventsOfEmit ==
  ASSUME TypeOK, SendsToLive, EventsNumbered, EmitEvent(Owner), NEW e \in Entity
  PROVE  EventsOf(e)' = IF e = call[Owner].entity THEN EventsOf(e) \cup {Len(events')}
                        ELSE EventsOf(e)
<1>1. 1..Len(events') = (1..Len(events)) \cup {Len(events')}
  BY Emits
<1>2. \A i \in 1..Len(events) : i # Len(events') /\ (events'[i].sender = e <=> events[i].sender = e)
  BY Emits
<1>3. events'[Len(events')].sender = e <=> e = call[Owner].entity
  BY Emits
<1> QED
  BY <1>1, <1>2, <1>3 DEF EventsOf

(* An entity that speaks has a last event afterwards.                           *)
LEMMA LastExistsStep ==
  ASSUME TypeOK, OnlyOwnerSends, SendsToLive, EventsNumbered, LastExists, [Next]_vars
  PROVE  LastExists'
<1>1. CASE UNCHANGED events
  BY <1>1 DEF LastExists, EventsOf, IsLast
<1>2. ASSUME EmitEvent(Owner), NEW e \in Entity
      PROVE  EventsOf(e)' = {} \/ \E i \in EventsOf(e)' : \A k \in EventsOf(e)' : k <= i
  <2>1. CASE e = call[Owner].entity
    <3>1. EventsOf(e)' = EventsOf(e) \cup {Len(events')}
      BY <1>2, <2>1, EventsOfEmit
    <3>2. \A k \in EventsOf(e)' : k <= Len(events')
      BY <1>2, <3>1, Emits DEF EventsOf
    <3> QED
      BY <3>1, <3>2
  <2>2. CASE e # call[Owner].entity
    <3>1. EventsOf(e)' = EventsOf(e)
      BY <1>2, <2>2, EventsOfEmit
    <3> QED
      BY <3>1 DEF LastExists, IsLast
  <2> QED
    BY <2>1, <2>2
<1> QED
  BY <1>1, <1>2, Steps DEF Quiet, SetMessage, WriteComponent, TickApply, ApplyInput,
     ApplyControl, LastExists, IsLast

(* The last index of a set of indices, and LastOf written with it.              *)
Last(S) == CHOOSE j \in S : \A k \in S : k <= j

(* LastOf in terms of the indices of an entity.                                 *)
LEMMA LastOfIs ==
  ASSUME NEW e
  PROVE  LastOf(e) = IF EventsOf(e) = {} THEN [text |-> NoText, tick |-> 0]
                     ELSE [text |-> events[Last(EventsOf(e))].text,
                           tick |-> events[Last(EventsOf(e))].tick]
  BY DEF LastOf, EventsOf, Last

(* An event is the last of its sender; the other entities keep theirs.          *)
LEMMA LastOfEmit ==
  ASSUME TypeOK, SendsToLive, EventsNumbered, LastExists, EmitEvent(Owner), NEW e \in Entity
  PROVE  LastOf(e)' = IF e = call[Owner].entity
                      THEN [text |-> call[Owner].text, tick |-> call[Owner].tick] ELSE LastOf(e)
<1>1. LastOf(e)' = IF EventsOf(e)' = {} THEN [text |-> NoText, tick |-> 0]
                   ELSE [text |-> events'[Last(EventsOf(e)')].text,
                         tick |-> events'[Last(EventsOf(e)')].tick]
  BY DEF LastOf, EventsOf, Last
<1>2. CASE e = call[Owner].entity
  <2>1. EventsOf(e)' = EventsOf(e) \cup {Len(events')}
    BY <1>2, EventsOfEmit
  <2>2. EventsOf(e) \subseteq 1..Len(events)
    BY DEF EventsOf
  <2>3. \A j \in EventsOf(e)' : (\A k \in EventsOf(e)' : k <= j) <=> j = Len(events')
    BY <2>1, <2>2, Emits
  <2>4. \E j \in EventsOf(e)' : \A k \in EventsOf(e)' : k <= j
    BY <2>1, <2>3
  <2>5. /\ Last(EventsOf(e)') \in EventsOf(e)'
        /\ \A k \in EventsOf(e)' : k <= Last(EventsOf(e)')
    BY <2>4 DEF Last
  <2>6. Last(EventsOf(e)') = Len(events')
    BY <2>3, <2>5
  <2>7. EventsOf(e)' # {}
    BY <2>1
  <2>8. /\ events'[Len(events')].text = call[Owner].text
        /\ events'[Len(events')].tick = call[Owner].tick
    BY Emits
  <2> QED
    BY <1>1, <1>2, <2>6, <2>7, <2>8
<1>3. CASE e # call[Owner].entity
  <2>1. EventsOf(e)' = EventsOf(e)
    BY <1>3, EventsOfEmit
  <2>2. CASE EventsOf(e) = {}
    BY <1>1, <1>3, <2>1, <2>2, LastOfIs
  <2>3. CASE EventsOf(e) # {}
    <3>1. Last(EventsOf(e)) \in EventsOf(e)
      BY <2>3 DEF LastExists, IsLast, Last
    <3>2. events'[Last(EventsOf(e))] = events[Last(EventsOf(e))]
      BY <3>1, Emits DEF EventsOf
    <3> QED
      BY <1>1, <1>3, <2>1, <2>3, <3>2, LastOfIs
  <2> QED
    BY <2>2, <2>3
<1> QED
  BY <1>2, <1>3

(* Whoever is not being written to shows its last event.                        *)
LEMMA ComponentStep ==
  ASSUME TypeOK, OnlyOwnerSends, SendsToLive, EventsNumbered, LastExists,
         ComponentMatchesLastEvent, [Next]_vars
  PROVE  ComponentMatchesLastEvent'
<1>1. /\ call \in [Thread -> CallOf(1..calls)] /\ Owner \in Thread
      /\ component \in [Entity -> [text : Fits \cup {NoText}, tick : 0..tick]]
  BY OwnerAssumption DEF TypeOK, ChatTypes
<1>2. \A e \in Entity : (call[Owner] # Idle => call[Owner].entity # e) => component[e] = LastOf(e)
  BY DEF ComponentMatchesLastEvent, OnlyOwnerSends
<1>3. SUFFICES ASSUME NEW e \in Entity,
                      call'[Owner] # Idle => call'[Owner].entity # e
               PROVE  component'[e] = LastOf(e)'
  BY <1>1 DEF ComponentMatchesLastEvent
<1>4. CASE UNCHANGED <<component, events>> /\ (call[Owner] = Idle \/ call' = call)
  <2>1. LastOf(e)' = LastOf(e)
    BY <1>4 DEF LastOf
  <2> QED
    BY <1>2, <1>3, <1>4, <2>1
<1>5. CASE WriteComponent(Owner)
  <2>1. call'[Owner].step = "emit" /\ call'[Owner].entity = call[Owner].entity
    BY <1>1, <1>5 DEF WriteComponent
  <2>2. e # call[Owner].entity
    BY <1>3, <2>1 DEF Idle
  <2>3. LastOf(e)' = LastOf(e)
    BY <1>5 DEF LastOf, WriteComponent
  <2>4. component'[e] = component[e]
    BY <1>1, <1>5, <2>2 DEF WriteComponent
  <2> QED
    BY <1>2, <2>2, <2>3, <2>4
<1>6. CASE EmitEvent(Owner)
  <2>1. component' = component /\ call[Owner].step = "emit"
    BY <1>6 DEF EmitEvent
  <2> QED
    BY <1>2, <1>6, <2>1, LastOfEmit DEF SendsToLive
<1> QED
  BY <1>4, <1>5, <1>6, Steps DEF Quiet, SetMessage, TickApply, ApplyInput, ApplyControl, OwnerFree
-----------------------------------------------------------------------------
(* The order of what is said *)

(* Before is an order.                                                          *)
LEMMA BeforeTrans ==
  ASSUME NEW p \in Said, NEW q \in Said, NEW u \in Said, Before(p, q), Before(q, u)
  PROVE  Before(p, u)
  BY DEF Before, Said

(* What the world awaits of an entity only moves on, and a step that starts to
   send an input sends one that comes after what it awaited before.             *)
LEMMA AwaitedMovesOn ==
  ASSUME TypeOK, TickApply, NEW e \in Entity
  PROVE  /\ Awaited(e)' = Awaited(e) \/ Before(Awaited(e), Awaited(e)')
         /\ call' # call /\ call'[Owner].entity = e =>
              /\ call'[Owner].said = Awaited(e) \/ Before(Awaited(e), call'[Owner].said)
              /\ Before(call'[Owner].said, Awaited(e)')
<1> DEFINE m == Head(batch)
<1>1. m \in MessageOf(1..calls)
  BY HeadTailProperties DEF TickApply, TypeOK, WorldTypes
<1>2. bound \in [Entity -> Nat] /\ expected \in [Entity -> Nat] /\ call \in [Thread -> CallOf(1..calls)]
  BY DEF TypeOK, WorldTypes, ChatTypes
<1> HIDE DEF m
<1>3. CASE ApplyControl(m)
  BY <1>3 DEF ApplyControl, Awaited
<1>4. CASE m.kind = "chat" /\ ApplyInput(m)
  <2>1. /\ m.entity \in Entity /\ m.generation \in Nat /\ m.sequence \in Nat
        /\ m.said = <<m.generation, m.sequence>>
    BY <1>1, <1>4 DEF MessageOf
  <2>2. PICK g \in bound[m.entity]..MaxGen, next \in {1, expected[m.entity]} :
          /\ g = bound[m.entity] => next = expected[m.entity]
          /\ bound' = [bound EXCEPT ![m.entity] = g]
          /\ \/ /\ m.generation = g /\ m.sequence = next
                /\ expected' = [expected EXCEPT ![m.entity] = next + 1]
                /\ call' = [call EXCEPT ![Owner] =
                     [step |-> "write", entity |-> m.entity, text |-> m.text, n |-> m.n,
                      said |-> m.said]]
             \/ /\ expected' = [expected EXCEPT ![m.entity] = next]
                /\ call' = call
    BY <1>4 DEF ApplyInput
  <2>3. g \in Nat /\ next \in Nat /\ bound[m.entity] \in Nat /\ expected[m.entity] \in Nat
        /\ g >= bound[m.entity]
    BY <1>2, <2>1, <2>2, BoundAssumption
  <2>4. <<g, next>> = Awaited(m.entity) \/ Before(Awaited(m.entity), <<g, next>>)
    BY <2>2, <2>3 DEF Awaited, Before
  <2>5. CASE e # m.entity
    <3>1. Awaited(e)' = Awaited(e)
      BY <1>2, <2>1, <2>2, <2>5 DEF Awaited
    <3>2. call' # call => call'[Owner].entity # e
      BY <1>2, <2>2, <2>5, OwnerAssumption
    <3> QED
      BY <3>1, <3>2
  <2>6. CASE e = m.entity /\ call' = call
    <3>1. Awaited(e)' = <<g, next>> \/ Awaited(e)' = <<g, next + 1>>
      BY <1>2, <2>1, <2>2, <2>6 DEF Awaited
    <3>2. <<g, next + 1>> = Awaited(e) \/ Before(Awaited(e), <<g, next + 1>>)
      BY <2>2, <2>3, <2>6 DEF Awaited, Before
    <3> QED
      BY <2>4, <2>6, <3>1, <3>2
  <2>7. CASE e = m.entity /\ call' # call
    <3>1. /\ Awaited(e)' = <<g, next + 1>>
          /\ call'[Owner].said = <<g, next>>
      BY <1>2, <2>1, <2>2, <2>7, OwnerAssumption DEF Awaited
    <3>2. Before(<<g, next>>, <<g, next + 1>>) /\ Before(Awaited(e), <<g, next + 1>>)
      BY <2>2, <2>3, <2>7 DEF Awaited, Before
    <3> QED
      BY <2>4, <2>7, <3>1, <3>2
  <2> QED
    BY <2>5, <2>6, <2>7
<1> QED
  BY <1>3, <1>4 DEF TickApply, m

(* Only TickApply moves what is awaited.                                        *)
LEMMA AwaitedKept ==
  ASSUME [Next]_vars, ~TickApply
  PROVE  UNCHANGED <<bound, expected>>
  BY DEF Next, Callers, Admit, EnqueueExpiry, EnqueueQuery, Unmoved, SetMessage, OwnerLoop, TickBegin,
         TickEnd, Drain, Sending, WriteComponent, EmitEvent, Page, Join, SocketLoss, Deliver, vars,
         worldVars

(* Events, calls and what is awaited are pairs of numbers.                      *)
SaidTyped ==
  /\ \A i \in 1..Len(events) : events[i].said \in Said /\ events[i].sender \in Entity
  /\ call[Owner] # Idle => call[Owner].said \in Said /\ call[Owner].entity \in Entity
  /\ \A e \in Entity : Awaited(e) \in Said

LEMMA SaidTypes == TypeOK => SaidTyped
<1> SUFFICES ASSUME TypeOK PROVE SaidTyped
  OBVIOUS
<1>1. \A i \in 1..Len(events) : events[i] \in Event
  BY ElementOfSeq DEF TypeOK, ChatTypes
<1>2. call[Owner] \in CallOf(1..calls)
  BY OwnerAssumption DEF TypeOK, ChatTypes
<1>3. \A e \in Entity : bound[e] \in Nat /\ expected[e] \in Nat
  BY DEF TypeOK, WorldTypes
<1> QED
  BY <1>1, <1>2, <1>3 DEF SaidTyped, Event, CallOf, Awaited, Said

LEMMA SaidTypesNext == TypeOK' => SaidTyped'
  BY SaidTypes, PTL

(* What was said and what is being said stay before what is awaited.            *)
LEMMA SaidStep ==
  ASSUME TypeOK, OnlyOwnerSends, SendsToLive, EventsNumbered, SaidBeforeNext, SayingInOrder,
         [Next]_vars
  PROVE  SaidBeforeNext' /\ SayingInOrder'
<1>0. SaidTyped /\ SaidTyped' /\ call \in [Thread -> CallOf(1..calls)] /\ Owner \in Thread
  BY TypeStep, SaidTypes, SaidTypesNext, OwnerAssumption DEF TypeOK, ChatTypes
<1>1. CASE TickApply
  <2>1. call[Owner] = Idle /\ events' = events
    BY <1>1 DEF TickApply, ApplyInput, ApplyControl, OwnerFree
  <2>2. ASSUME NEW e \in Entity, NEW i \in 1..Len(events), SaidBy(i, e)
        PROVE  /\ Before(events[i].said, Awaited(e)')
               /\ call' # call /\ call'[Owner] # Idle /\ call'[Owner].entity = e =>
                    Before(events[i].said, call'[Owner].said)
    <3>1. Before(events[i].said, Awaited(e)) /\ events[i].said \in Said /\ Awaited(e) \in Said
      BY <1>0, <2>2 DEF SaidBeforeNext, SaidTyped
    <3>2. Awaited(e)' \in Said /\ (call'[Owner] # Idle => call'[Owner].said \in Said)
      BY <1>0 DEF SaidTyped
    <3>3. /\ Awaited(e)' = Awaited(e) \/ Before(Awaited(e), Awaited(e)')
          /\ call' # call /\ call'[Owner].entity = e =>
               call'[Owner].said = Awaited(e) \/ Before(Awaited(e), call'[Owner].said)
      BY <1>1, AwaitedMovesOn
    <3>4. Before(events[i].said, Awaited(e)')
      BY <3>1, <3>2, <3>3, BeforeTrans
    <3>5. ASSUME call' # call, call'[Owner] # Idle, call'[Owner].entity = e
          PROVE  Before(events[i].said, call'[Owner].said)
      BY <3>1, <3>2, <3>3, <3>5, BeforeTrans
    <3> QED
      BY <3>4, <3>5
  <2>3. SaidBeforeNext'
    BY <2>1, <2>2 DEF SaidBeforeNext, SaidBy
  <2>4. ASSUME call'[Owner] # Idle, NEW e \in Entity, e = call'[Owner].entity
        PROVE  /\ Before(call'[Owner].said, Awaited(e)')
               /\ \A i \in 1..Len(events) : SaidBy(i, e) => Before(events[i].said, call'[Owner].said)
    <3>1. call' # call
      BY <2>1, <2>4
    <3> QED
      BY <1>1, <2>2, <2>4, <3>1, AwaitedMovesOn
  <2>5. call'[Owner] # Idle => call'[Owner].entity \in Entity
    BY <1>0 DEF SaidTyped
  <2>6. SayingInOrder'
    BY <2>1, <2>4, <2>5 DEF SayingInOrder, SaidBy, Awaited
  <2> QED
    BY <2>3, <2>6
<1>2. CASE ~TickApply /\ UNCHANGED events
  <2>1. \A e \in Entity : Awaited(e)' = Awaited(e)
    BY <1>2, AwaitedKept DEF Awaited
  <2>2. SaidBeforeNext'
    BY <1>2, <2>1 DEF SaidBeforeNext, SaidBy
  <2>3. \/ call'[Owner] = Idle \/ call'[Owner].said = NotAnInput
        \/ /\ call[Owner] # Idle /\ call'[Owner].said = call[Owner].said
           /\ call'[Owner].entity = call[Owner].entity /\ call[Owner].entity \in Entity
    BY <1>0, <1>2, Steps DEF Quiet, SetMessage, WriteComponent, EmitEvent, Idle, SaidTyped
  <2>4. SayingInOrder'
    BY <1>2, <2>1, <2>3 DEF SayingInOrder, SaidBy
  <2> QED
    BY <2>2, <2>4
<1>3. CASE EmitEvent(Owner)
  <2>1. /\ call[Owner] # Idle /\ call'[Owner] = Idle
        /\ UNCHANGED <<bound, expected>>
    BY <1>0, <1>3 DEF EmitEvent, Idle, worldVars
  <2>2. \A i \in 1..Len(events') : i \in 1..Len(events) \/ i = Len(events')
    BY <1>3, Emits
  <2>3. ASSUME NEW e \in Entity, NEW i \in 1..Len(events'),
               events'[i].sender = e, events'[i].said # NotAnInput
        PROVE  Before(events'[i].said, Awaited(e))
    <3>1. CASE i \in 1..Len(events)
      BY <1>3, <2>3, <3>1, Emits DEF SaidBeforeNext, SaidBy
    <3>2. CASE i = Len(events')
      BY <1>3, <2>1, <2>3, <3>2, Emits DEF SayingInOrder
    <3> QED
      BY <2>2, <3>1, <3>2
  <2> QED
    BY <2>1, <2>3 DEF SaidBeforeNext, SayingInOrder, SaidBy, Awaited
<1> QED
  BY <1>1, <1>2, <1>3, Steps DEF Quiet, SetMessage, WriteComponent

(* Inputs are spoken in the order they were numbered, each at most once.        *)
LEMMA SpokenStep ==
  ASSUME TypeOK, OnlyOwnerSends, SendsToLive, EventsNumbered, SayingInOrder, SpokenInOrder,
         [Next]_vars
  PROVE  SpokenInOrder'
<1>1. CASE UNCHANGED events
  BY <1>1 DEF SpokenInOrder
<1>2. CASE EmitEvent(Owner)
  <2>1. call[Owner] # Idle /\ Len(events) \in Nat
    BY <1>2, Emits DEF EmitEvent, Idle
  <2>2. ASSUME NEW i \in 1..Len(events'), NEW j \in 1..Len(events'), i < j,
               events'[i].sender = events'[j].sender,
               events'[i].said # NotAnInput, events'[j].said # NotAnInput
        PROVE  Before(events'[i].said, events'[j].said)
    <3>1. i \in 1..Len(events) /\ events'[i] = events[i]
      BY <1>2, <2>1, <2>2, Emits
    <3>2. CASE j \in 1..Len(events)
      BY <1>2, <2>2, <3>1, <3>2, Emits DEF SpokenInOrder
    <3>3. CASE j = Len(events')
      <4>1. events'[j].said = call[Owner].said /\ events'[j].sender = call[Owner].entity
        BY <1>2, <3>3, Emits
      <4> QED
        BY <2>1, <2>2, <3>1, <4>1 DEF SayingInOrder, SaidBy
    <3> QED
      BY <1>2, <3>2, <3>3, Emits
  <2> QED
    BY <2>2 DEF SpokenInOrder
<1> QED
  BY <1>1, <1>2, Steps DEF Quiet, SetMessage, WriteComponent, TickApply, ApplyInput, ApplyControl
-----------------------------------------------------------------------------
(* The pages *)

(* Sequences of log entries: the empty one is one.                              *)
LEMMA EntriesOfEmpty == ASSUME NEW log PROVE EntriesOf(log, <<>>)
  BY EmptySeq DEF EntriesOf

(* What is left of them, and the one taken, are entries of the log.             *)
LEMMA EntriesOfTail ==
  ASSUME NEW log, NEW s \in Seq(Event), s # <<>>, EntriesOf(log, s)
  PROVE  /\ EntriesOf(log, Tail(s))
         /\ Head(s).id \in 1..Len(log) /\ Head(s) = log[Head(s).id]
<1>1. /\ Len(s) \in Nat /\ Len(s) # 0 /\ Head(s) = s[1]
      /\ Len(Tail(s)) = Len(s) - 1 /\ \A i \in 1..Len(Tail(s)) : Tail(s)[i] = s[i + 1]
  BY HeadTailProperties, EmptySeq, LenProperties
<1>2. 1 \in 1..Len(s) /\ \A i \in 1..Len(Tail(s)) : i + 1 \in 1..Len(s)
  BY <1>1
<1> QED
  BY <1>1, <1>2 DEF EntriesOf

(* One more entry at the end.                                                   *)
LEMMA EntriesOfAppend ==
  ASSUME NEW log, NEW s \in Seq(Event), EntriesOf(log, s),
         NEW e \in Event, e.id \in 1..Len(log), e = log[e.id]
  PROVE  EntriesOf(log, Append(s, e))
<1>1. /\ Len(s) \in Nat /\ Len(Append(s, e)) = Len(s) + 1
      /\ \A i \in 1..Len(s) : Append(s, e)[i] = s[i]
      /\ Append(s, e)[Len(s) + 1] = e
  BY AppendProperties, LenProperties
<1>2. \A i \in 1..(Len(s) + 1) : i \in 1..Len(s) \/ i = Len(s) + 1
  BY <1>1
<1> QED
  BY <1>1, <1>2 DEF EntriesOf

(* Two in a row.                                                                *)
LEMMA EntriesOfConcat ==
  ASSUME NEW log, NEW s \in Seq(Event), NEW t \in Seq(Event), EntriesOf(log, s), EntriesOf(log, t)
  PROVE  EntriesOf(log, s \o t)
<1>1. /\ Len(s) \in Nat /\ Len(t) \in Nat /\ Len(s \o t) = Len(s) + Len(t)
      /\ \A i \in 1..(Len(s) + Len(t)) : (s \o t)[i] = IF i <= Len(s) THEN s[i] ELSE t[i - Len(s)]
  BY ConcatProperties, LenProperties
<1>2. ASSUME NEW i \in 1..Len(s \o t)
      PROVE  (s \o t)[i].id \in 1..Len(log) /\ (s \o t)[i] = log[(s \o t)[i].id]
  <2>1. CASE i <= Len(s)
    <3>1. i \in 1..Len(s) /\ (s \o t)[i] = s[i]
      BY <1>1, <2>1
    <3> QED
      BY <3>1 DEF EntriesOf
  <2>2. CASE ~(i <= Len(s))
    <3>1. i - Len(s) \in 1..Len(t) /\ (s \o t)[i] = t[i - Len(s)]
      BY <1>1, <2>2
    <3> QED
      BY <3>1 DEF EntriesOf
  <2> QED
    BY <2>1, <2>2
<1> QED
  BY <1>2 DEF EntriesOf

(* Committed events stay committed.                                             *)
LEMMA StaysCommitted ==
  ASSUME TypeOK, OnlyOwnerSends, SendsToLive, EventsNumbered, [Next]_vars,
         NEW s \in Seq(Event), Committed(s)
  PROVE  EntriesOf(events', s)
<1>1. CASE UNCHANGED events
  BY <1>1 DEF Committed
<1>2. CASE EmitEvent(Owner)
  <2>1. 1..Len(events) \subseteq 1..Len(events')
    BY <1>2, Emits
  <2> QED
    BY <1>2, <2>1, Emits DEF Committed, EntriesOf
<1> QED
  BY <1>1, <1>2, Steps DEF Quiet, SetMessage, WriteComponent, TickApply, ApplyInput, ApplyControl

(* The frames of a Drain are committed events.                                  *)
LEMMA FramesCommitted == ASSUME TypeOK, EventsNumbered PROVE EntriesOf(events, Frames)
<1>1. Len(events) \in Nat /\ drained \in 0..Len(events)
  BY LenProperties DEF TypeOK, ChatTypes
<1>2. \A j \in 1..Len(Frames) : drained + j \in 1..Len(events)
  BY <1>1, FramesAreEvents
<1> QED
  BY <1>2, FramesAreEvents DEF EventsNumbered, EntriesOf

(* A page's step, or none of its windows and sockets changes.                   *)
LEMMA PageSteps ==
  ASSUME [Next]_vars
  PROVE  \/ UNCHANGED netVars
         \/ Drain
         \/ \E c \in Client : Join(c) \/ SocketLoss(c)
         \/ \E c \in Client : \E k \in 1..MaxConn : Deliver(c, k)
  BY DEF Next, Callers, Admit, EnqueueExpiry, EnqueueQuery, Unmoved, SetMessage, OwnerLoop, TickBegin,
         TickApply, TickEnd, Sending, WriteComponent, EmitEvent, Page, vars

(* Pages and wires keep holding committed events only.                          *)
LEMMA PagesShowEventsStep ==
  ASSUME TypeOK, OnlyOwnerSends, SendsToLive, EventsNumbered, PagesShowEvents, [Next]_vars
  PROVE  PagesShowEvents'
<1>1. \A c \in Client : /\ window[c] \in Seq(Event) /\ Committed(window[c])
                        /\ \A k \in 1..MaxConn : wire[c][k] \in Seq(Event) /\ Committed(wire[c][k])
  BY DEF TypeOK, PageTypes, PagesShowEvents
<1>2. \A c \in Client : /\ EntriesOf(events', window[c])
                        /\ \A k \in 1..MaxConn : EntriesOf(events', wire[c][k])
  BY <1>1, StaysCommitted
<1>3. SUFFICES ASSUME NEW c \in Client
               PROVE  /\ EntriesOf(events', window'[c])
                      /\ \A k \in 1..MaxConn : EntriesOf(events', wire'[c][k])
  BY DEF PagesShowEvents, Committed
<1>4. conn \in [Client -> 1..MaxConn] /\ wire[c] \in [1..MaxConn -> Seq(Event)]
      /\ wire \in [Client -> [1..MaxConn -> Seq(Event)]] /\ window \in [Client -> Seq(Event)]
  BY DEF TypeOK, PageTypes
<1>5. CASE UNCHANGED netVars
  BY <1>2, <1>5 DEF netVars
<1>6. CASE Drain
  <2>1. EntriesOf(events', Frames)
    BY <1>6, FramesCommitted DEF Drain, chatVars
  <2>2. conn[c] \in 1..MaxConn /\ wire[c][conn[c]] \in Seq(Event)
    BY <1>4
  <2>3. EntriesOf(events', wire[c][conn[c]])
    BY <1>2, <2>2
  <2>4. EntriesOf(events', wire[c][conn[c]] \o Frames)
    BY <2>1, <2>2, <2>3, EntriesOfConcat, FramesAreEvents
  <2>5. wire'[c] = IF up[c] THEN [wire[c] EXCEPT ![conn[c]] = @ \o Frames] ELSE wire[c]
    BY <1>6 DEF Drain
  <2>6. \A k \in 1..MaxConn : wire'[c][k] = wire[c][k] \/ wire'[c][k] = wire[c][conn[c]] \o Frames
    BY <1>4, <2>5
  <2>7. window' = window
    BY <1>6 DEF Drain
  <2> QED
    BY <1>2, <2>4, <2>6, <2>7
<1>7. ASSUME NEW d \in Client, Join(d) \/ SocketLoss(d)
      PROVE  /\ EntriesOf(events', window'[c])
             /\ \A k \in 1..MaxConn : EntriesOf(events', wire'[c][k])
  <2>1. CASE Join(d)
    BY <1>2, <2>1 DEF Join
  <2>2. CASE SocketLoss(d)
    <3>1. window' = window /\ wire' = [wire EXCEPT ![d][conn[d]] = <<>>]
      BY <2>2 DEF SocketLoss
    <3>2. \A k \in 1..MaxConn : wire'[c][k] = wire[c][k] \/ wire'[c][k] = <<>>
      BY <1>4, <3>1
    <3> QED
      BY <1>2, <3>1, <3>2, EntriesOfEmpty
  <2> QED
    BY <1>7, <2>1, <2>2
<1>8. ASSUME NEW d \in Client, NEW k \in 1..MaxConn, Deliver(d, k)
      PROVE  /\ EntriesOf(events', window'[c])
             /\ \A m \in 1..MaxConn : EntriesOf(events', wire'[c][m])
  <2>1. /\ wire[d][k] \in Seq(Event) /\ wire[d][k] # <<>> /\ window[d] \in Seq(Event)
        /\ EntriesOf(events', wire[d][k]) /\ EntriesOf(events', window[d])
    BY <1>1, <1>2, <1>8 DEF Deliver
  <2>2. /\ Head(wire[d][k]).id \in 1..Len(events')
        /\ Head(wire[d][k]) = events'[Head(wire[d][k]).id]
        /\ Head(wire[d][k]) \in Event
        /\ EntriesOf(events', Tail(wire[d][k]))
    BY <2>1, EntriesOfTail, HeadTailProperties
  <2>3. EntriesOf(events', Append(window[d], Head(wire[d][k])))
    BY <2>1, <2>2, EntriesOfAppend
  <2>4. EntriesOf(events', AppendAccepted(window[d], Head(wire[d][k])))
    BY <2>1, <2>3 DEF AppendAccepted
  <2>5. /\ window' = [window EXCEPT ![d] = AppendAccepted(window[d], Head(wire[d][k]))]
        /\ wire' = [wire EXCEPT ![d][k] = Tail(wire[d][k])]
    BY <1>8 DEF Deliver
  <2>6. window'[c] = window[c] \/ window'[c] = AppendAccepted(window[d], Head(wire[d][k]))
    BY <1>4, <2>5
  <2>7. \A m \in 1..MaxConn : wire'[c][m] = wire[c][m] \/ wire'[c][m] = Tail(wire[d][k])
    BY <1>4, <2>5
  <2> QED
    BY <1>2, <2>2, <2>4, <2>6, <2>7
<1> QED
  BY <1>5, <1>6, <1>7, <1>8, PageSteps

(* A window only takes an event newer than its last line.                       *)
LEMMA WindowsAscendStep ==
  ASSUME TypeOK, WindowsAscend, [Next]_vars
  PROVE  WindowsAscend'
<1> DEFINE Ascends(w) == \A j \in 1..Len(w) : w[j].id <= w[Len(w)].id
<1>1. CASE UNCHANGED window
  BY <1>1 DEF WindowsAscend
<1>2. ASSUME NEW w \in Seq(Event), Ascends(w), NEW e \in Event PROVE Ascends(AppendAccepted(w, e))
  <2>1. CASE AppendAccepted(w, e) = w
    BY <1>2, <2>1
  <2>2. CASE w = <<>> \/ e.id > w[Len(w)].id
    <3>1. /\ Len(w) \in Nat /\ (w = <<>> => Len(w) = 0)
          /\ Len(Append(w, e)) = Len(w) + 1
          /\ \A i \in 1..Len(w) : Append(w, e)[i] = w[i] /\ w[i] \in Event
          /\ Append(w, e)[Len(w) + 1] = e
      BY <1>2, AppendProperties, LenProperties, EmptySeq
    <3>2. \A i \in 1..Len(w) : w[i].id <= e.id
      <4>1. ASSUME NEW i \in 1..Len(w) PROVE w[i].id <= e.id
        <5>1. Len(w) \in 1..Len(w) /\ e.id > w[Len(w)].id
          BY <2>2, <3>1
        <5>2. w[i].id \in Nat /\ w[Len(w)].id \in Nat /\ e.id \in Nat /\ w[i].id <= w[Len(w)].id
          BY <1>2, <3>1, <5>1 DEF Event
        <5> QED
          BY <5>1, <5>2
      <4> QED
        BY <4>1
    <3>3. \A i \in 1..(Len(w) + 1) : i \in 1..Len(w) \/ i = Len(w) + 1
      BY <3>1
    <3>4. e.id <= e.id
      BY <1>2 DEF Event
    <3>5. AppendAccepted(w, e) = Append(w, e)
      BY <2>2 DEF AppendAccepted
    <3> QED
      BY <3>1, <3>2, <3>3, <3>4, <3>5
  <2> QED
    BY <2>1, <2>2 DEF AppendAccepted
<1>3. ASSUME NEW c \in Client, NEW k \in 1..MaxConn, Deliver(c, k) PROVE WindowsAscend'
  <2>1. /\ window \in [Client -> Seq(Event)] /\ window[c] \in Seq(Event)
        /\ wire[c][k] \in Seq(Event) /\ wire[c][k] # <<>>
    BY <1>3 DEF Deliver, TypeOK, PageTypes
  <2>2. Head(wire[c][k]) \in Event
    BY <2>1, HeadTailProperties
  <2>3. \A d \in Client : Ascends(window[d])
    BY DEF WindowsAscend
  <2>4. Ascends(AppendAccepted(window[c], Head(wire[c][k])))
    BY <1>2, <2>1, <2>2, <2>3
  <2>5. window' = [window EXCEPT ![c] = AppendAccepted(window[c], Head(wire[c][k]))]
    BY <1>3 DEF Deliver
  <2> HIDE DEF Ascends
  <2>6. \A d \in Client : Ascends(window'[d])
    BY <2>1, <2>3, <2>4, <2>5
  <2> USE DEF Ascends
  <2> QED
    BY <2>6 DEF WindowsAscend
<1> QED
  BY <1>1, <1>3, PageSteps DEF netVars, Drain, Join, SocketLoss

(* Frames are only put on the newest socket.                                    *)
LEMMA NothingOnUnopenedStep ==
  ASSUME TypeOK, NothingOnUnopened, [Next]_vars
  PROVE  NothingOnUnopened'
<1>1. /\ conn \in [Client -> 1..MaxConn]
      /\ wire \in [Client -> [1..MaxConn -> Seq(Event)]]
  BY DEF TypeOK, PageTypes
<1>2. SUFFICES ASSUME NEW c \in Client, NEW k \in 1..MaxConn, k > conn'[c]
               PROVE  wire'[c][k] = <<>>
  BY DEF NothingOnUnopened
<1>3. k > conn[c] => wire[c][k] = <<>>
  BY DEF NothingOnUnopened
<1>4. CASE UNCHANGED netVars
  BY <1>2, <1>3, <1>4 DEF netVars
<1>5. CASE Drain
  <2>1. wire'[c] = IF up[c] THEN [wire[c] EXCEPT ![conn[c]] = @ \o Frames] ELSE wire[c]
    BY <1>5 DEF Drain
  <2>2. conn' = conn /\ k > conn[c] /\ k # conn[c]
    BY <1>1, <1>2, <1>5 DEF Drain
  <2>3. wire[c] \in [1..MaxConn -> Seq(Event)]
    BY <1>1
  <2> QED
    BY <1>3, <2>1, <2>2, <2>3
<1>6. ASSUME NEW d \in Client, Join(d) PROVE wire'[c][k] = <<>>
  <2>1. wire' = wire /\ (conn'[c] = conn[c] \/ conn'[c] = conn[c] + 1)
    BY <1>1, <1>6 DEF Join
  <2>2. k > conn[c]
    BY <1>1, <1>2, <2>1
  <2> QED
    BY <1>3, <2>1, <2>2
<1>7. ASSUME NEW d \in Client, SocketLoss(d) PROVE wire'[c][k] = <<>>
  <2>1. conn' = conn /\ wire' = [wire EXCEPT ![d][conn[d]] = <<>>]
    BY <1>7 DEF SocketLoss
  <2>2. wire'[c][k] = wire[c][k] \/ wire'[c][k] = <<>>
    BY <1>1, <2>1
  <2> QED
    BY <1>2, <1>3, <2>1, <2>2
<1>8. ASSUME NEW d \in Client, NEW m \in 1..MaxConn, Deliver(d, m) PROVE wire'[c][k] = <<>>
  <2>1. conn' = conn /\ wire[d][m] # <<>> /\ wire' = [wire EXCEPT ![d][m] = Tail(wire[d][m])]
    BY <1>8 DEF Deliver
  <2>2. wire[c][k] = <<>>
    BY <1>2, <1>3, <2>1
  <2>3. ~(d = c /\ m = k)
    BY <2>1, <2>2
  <2>4. wire'[c][k] = wire[c][k]
    BY <1>1, <2>1, <2>3
  <2> QED
    BY <2>2, <2>4
<1> QED
  BY <1>4, <1>5, <1>6, <1>7, <1>8, PageSteps

(* Only Drain moves the mark, and what was drained stays as it is.              *)
LEMMA DrainedKept ==
  ASSUME TypeOK, OnlyOwnerSends, SendsToLive, EventsNumbered, [Next]_vars
  PROVE  Drain \/ (drained' = drained /\ SubSeq(events', 1, drained) = SubSeq(events, 1, drained))
<1>1. Drain \/ drained' = drained
  BY DEF Next, Callers, Admit, EnqueueExpiry, EnqueueQuery, Unmoved, SetMessage, OwnerLoop, TickBegin,
     TickApply, TickEnd, Sending, WriteComponent, EmitEvent, Page, Join, SocketLoss, Deliver, vars
<1>2. CASE EmitEvent(Owner)
  <2>1. /\ Len(events) \in Nat /\ drained \in 0..Len(events) /\ 1 \in Int /\ drained \in Int
        /\ \A i \in 1..drained : i \in 1..Len(events)
    BY LenProperties DEF TypeOK, ChatTypes
  <2>2. \A i \in 1..drained : events[i] \in Event /\ events'[i] = events[i]
    BY <1>2, <2>1, Emits, ElementOfSeq DEF TypeOK, ChatTypes
  <2>3. /\ SubSeq(events, 1, drained) \in Seq(Event)
        /\ Len(SubSeq(events, 1, drained)) = IF 1 <= drained THEN drained - 1 + 1 ELSE 0
        /\ \A i \in 1..(drained - 1 + 1) : SubSeq(events, 1, drained)[i] = events[1 + i - 1]
    BY <2>1, <2>2, SubSeqProperties
  <2>4. \A i \in 1..drained : events'[i] \in Event
    BY <2>2
  <2>5. /\ SubSeq(events', 1, drained) \in Seq(Event)
        /\ Len(SubSeq(events', 1, drained)) = IF 1 <= drained THEN drained - 1 + 1 ELSE 0
        /\ \A i \in 1..(drained - 1 + 1) : SubSeq(events', 1, drained)[i] = events'[1 + i - 1]
    BY <2>1, <2>4, SubSeqProperties
  <2> DEFINE old == SubSeq(events, 1, drained)
             new == SubSeq(events', 1, drained)
  <2>6. Len(new) = Len(old) /\ Len(old) = drained
    BY <2>1, <2>3, <2>5
  <2>7. ASSUME NEW i \in 1..Len(new) PROVE new[i] = old[i]
    <3>1. i \in 1..drained /\ i \in 1..(drained - 1 + 1) /\ 1 + i - 1 = i
      BY <2>1, <2>6
    <3>2. new[i] = events'[i]
      BY <2>5, <3>1
    <3>3. old[i] = events[i]
      BY <2>3, <3>1
    <3> QED
      BY <2>2, <3>1, <3>2, <3>3
  <2>8. new = old
    BY <2>3, <2>5, <2>6, <2>7, SeqEqual
  <2> QED
    BY <1>1, <2>8
<1>3. CASE UNCHANGED events
  BY <1>1, <1>3
<1> QED
  BY <1>2, <1>3, Steps DEF Quiet, SetMessage, WriteComponent, TickApply, ApplyInput, ApplyControl

(* The page on its first socket takes the next event, and no other.             *)
LEMMA NothingMissingStep ==
  ASSUME TypeOK, OnlyOwnerSends, SendsToLive, EventsNumbered, NothingOnUnopened,
         NothingMissing, [Next]_vars
  PROVE  NothingMissing'
<1>1. /\ conn \in [Client -> 1..MaxConn] /\ up \in [Client -> BOOLEAN]
      /\ wire \in [Client -> [1..MaxConn -> Seq(Event)]] /\ window \in [Client -> Seq(Event)]
      /\ events \in Seq(Event) /\ Len(events) \in Nat /\ drained \in 0..Len(events)
      /\ 1 \in 1..MaxConn
  BY BoundAssumption, LenProperties DEF TypeOK, PageTypes, ChatTypes
<1>2. SUFFICES ASSUME NEW c \in Client, conn'[c] = 1, up'[c]
               PROVE  window'[c] \o wire'[c][1] = SubSeq(events', 1, drained')
  BY DEF NothingMissing
<1>3. conn[c] = 1 /\ up[c] => window[c] \o wire[c][1] = SubSeq(events, 1, drained)
  BY DEF NothingMissing
<1>4. window[c] \in Seq(Event) /\ wire[c][1] \in Seq(Event) /\ wire[c] \in [1..MaxConn -> Seq(Event)]
  BY <1>1
<1>5. CASE Drain
  <2>0. /\ conn' = conn /\ up' = up /\ window' = window /\ events' = events
        /\ drained' = Len(events)
        /\ wire'[c] = IF up[c] THEN [wire[c] EXCEPT ![conn[c]] = wire[c][conn[c]] \o Frames]
                      ELSE wire[c]
    BY <1>5 DEF Drain, chatVars
  <2>1. /\ conn[c] = 1 /\ up[c] /\ window' = window /\ events' = events
        /\ drained' = Len(events)
        /\ wire'[c] = [wire[c] EXCEPT ![1] = wire[c][1] \o Frames]
    <3>1. conn[c] = 1 /\ up[c]
      BY <1>2, <2>0
    <3> QED
      BY <2>0, <3>1
  <2>2. wire'[c][1] = wire[c][1] \o Frames
    BY <1>1, <1>4, <2>1
  <2>3. window[c] \o (wire[c][1] \o Frames) = (window[c] \o wire[c][1]) \o Frames
    <3>1. Frames \in Seq(Event)
      BY FramesAreEvents
    <3>2. \A s, t, u \in Seq(Event) : s \o (t \o u) = (s \o t) \o u
      <4> TAKE s, t, u \in Seq(Event)
      <4> DEFINE S == Event
      <4> HIDE DEF S
      <4>1. s \in Seq(S) /\ t \in Seq(S) /\ u \in Seq(S)
        BY DEF S
      <4> QED
        BY <4>1, ConcatAssociative
    <3> QED
      BY <1>4, <3>1, <3>2
  <2>4. SubSeq(events, 1, drained) \o SubSeq(events, drained + 1, Len(events))
          = SubSeq(events, 1, Len(events))
    <3>1. /\ 1 \in 1..(Len(events) + 1) /\ drained \in (1 - 1)..Len(events)
          /\ Len(events) \in drained..Len(events)
      BY <1>1
    <3> QED
      BY <1>1, <3>1, ConcatAdjacentSubSeq
  <2> QED
    BY <1>3, <2>1, <2>2, <2>3, <2>4 DEF Frames
<1>6. CASE /\ UNCHANGED <<window, wire>> /\ conn[c] = 1 /\ up[c]
           /\ drained' = drained /\ SubSeq(events', 1, drained) = SubSeq(events, 1, drained)
  BY <1>3, <1>6
<1>7. CASE UNCHANGED netVars
  BY <1>2, <1>5, <1>6, <1>7, DrainedKept DEF netVars
<1>8. ASSUME NEW d \in Client, Join(d) \/ SocketLoss(d)
      PROVE  window'[c] \o wire'[c][1] = SubSeq(events', 1, drained')
  <2>1. d # c
    BY <1>1, <1>2, <1>8 DEF Join, SocketLoss
  <2>2. /\ conn'[c] = conn[c] /\ up'[c] = up[c] /\ window' = window /\ wire'[c] = wire[c]
        /\ events' = events /\ drained' = drained
    BY <1>1, <1>8, <2>1 DEF Join, SocketLoss, chatVars
  <2> QED
    BY <1>2, <1>3, <2>2
<1>9. ASSUME NEW d \in Client, NEW k \in 1..MaxConn, Deliver(d, k)
      PROVE  window'[c] \o wire'[c][1] = SubSeq(events', 1, drained')
  <2>1. /\ conn' = conn /\ up' = up /\ events' = events /\ drained' = drained
        /\ wire[d][k] # <<>>
        /\ window' = [window EXCEPT ![d] = AppendAccepted(window[d], Head(wire[d][k]))]
        /\ wire' = [wire EXCEPT ![d][k] = Tail(wire[d][k])]
    BY <1>9 DEF Deliver, chatVars
  <2>2. window[c] \o wire[c][1] = SubSeq(events, 1, drained)
    BY <1>2, <1>3, <2>1
  <2>3. CASE d # c
    BY <1>1, <2>1, <2>2, <2>3
  <2>4. CASE d = c
    <3>1. k = 1
      <4>1. k > 1 => wire[c][k] = <<>>
        BY <1>2, <2>1 DEF NothingOnUnopened
      <4> QED
        BY <1>1, <2>1, <2>4, <4>1
    <3> DEFINE w == window[c]
               s == wire[c][1]
    <3>2. /\ window'[c] = AppendAccepted(w, Head(s)) /\ wire'[c][1] = Tail(s)
          /\ s # <<>> /\ w \in Seq(Event) /\ s \in Seq(Event)
      BY <1>1, <1>4, <2>1, <2>4, <3>1
    <3>3. /\ Head(s) \in Event /\ Tail(s) \in Seq(Event) /\ Head(s) = s[1]
          /\ Len(s) \in Nat /\ Len(s) # 0 /\ Len(w) \in Nat /\ (w = <<>> <=> Len(w) = 0)
          /\ Len(Tail(s)) = Len(s) - 1 /\ \A i \in 1..Len(Tail(s)) : Tail(s)[i] = s[i + 1]
      BY <3>2, HeadTailProperties, LenProperties, EmptySeq
    <3>4. /\ w \o s \in Seq(Event) /\ Len(w \o s) = Len(w) + Len(s)
          /\ \A i \in 1..(Len(w) + Len(s)) : (w \o s)[i] = IF i <= Len(w) THEN w[i] ELSE s[i - Len(w)]
      BY <3>2, ConcatProperties
    <3>5. Len(w) + Len(s) = drained /\ \A i \in 1..drained : (w \o s)[i] = events[i] /\ events[i].id = i
      <4>1. /\ 1 \in Int /\ drained \in Int /\ \A i \in 1..drained : i \in 1..Len(events)
        BY <1>1
      <4>2. \A i \in 1..drained : events[i] \in Event
        BY <1>1, <4>1, ElementOfSeq
      <4>3. /\ Len(SubSeq(events, 1, drained)) = IF 1 <= drained THEN drained - 1 + 1 ELSE 0
            /\ \A i \in 1..(drained - 1 + 1) : SubSeq(events, 1, drained)[i] = events[1 + i - 1]
        BY <4>1, <4>2, SubSeqProperties
      <4>4. Len(w) + Len(s) = drained
        BY <1>1, <2>2, <3>4, <4>3
      <4>5. ASSUME NEW i \in 1..drained PROVE (w \o s)[i] = events[i]
        <5>1. i \in 1..(drained - 1 + 1) /\ 1 + i - 1 = i
          BY <1>1
        <5>2. SubSeq(events, 1, drained)[i] = events[i]
          BY <4>3, <5>1
        <5> QED
          BY <2>2, <5>2
      <4> QED
        BY <4>1, <4>4, <4>5 DEF EventsNumbered
    <3> HIDE DEF w, s
    <3>6. Head(s) = events[Len(w) + 1] /\ Head(s).id = Len(w) + 1
      <4>1. Len(w) + 1 \in 1..(Len(w) + Len(s)) /\ ~(Len(w) + 1 <= Len(w)) /\ Len(w) + 1 - Len(w) = 1
        BY <3>3
      <4>2. (w \o s)[Len(w) + 1] = s[1]
        BY <3>4, <4>1
      <4> QED
        BY <3>3, <3>5, <4>1, <4>2
    <3>7. w # <<>> => w[Len(w)].id = Len(w)
      <4>1. SUFFICES ASSUME w # <<>> PROVE w[Len(w)].id = Len(w)
        OBVIOUS
      <4>2. Len(w) \in 1..(Len(w) + Len(s)) /\ Len(w) <= Len(w)
        BY <3>3, <4>1
      <4>3. (w \o s)[Len(w)] = w[Len(w)]
        BY <3>4, <4>2
      <4> QED
        BY <3>5, <4>2, <4>3
    <3>8. AppendAccepted(w, Head(s)) = Append(w, Head(s))
      <4>1. Len(w) + 1 > Len(w)
        BY <3>3
      <4> QED
        BY <3>6, <3>7, <4>1 DEF AppendAccepted
    <3>9. Append(w, Head(s)) \o Tail(s) = w \o s
      <4> DEFINE a == Append(w, Head(s))
      <4>1. /\ a \in Seq(Event) /\ Len(a) = Len(w) + 1
            /\ \A i \in 1..Len(w) : a[i] = w[i]
            /\ a[Len(w) + 1] = s[1]
        BY <3>2, <3>3, AppendProperties
      <4>2. /\ a \o Tail(s) \in Seq(Event) /\ Len(a \o Tail(s)) = Len(a) + Len(Tail(s))
            /\ \A i \in 1..(Len(a) + Len(Tail(s))) :
                 (a \o Tail(s))[i] = IF i <= Len(a) THEN a[i] ELSE Tail(s)[i - Len(a)]
        BY <3>3, <4>1, ConcatProperties
      <4> HIDE DEF a
      <4>3. Len(a \o Tail(s)) = Len(w \o s)
        BY <3>3, <3>4, <4>1, <4>2
      <4>4. ASSUME NEW i \in 1..Len(a \o Tail(s)) PROVE (a \o Tail(s))[i] = (w \o s)[i]
        <5>1. i \in 1..(Len(a) + Len(Tail(s))) /\ i \in 1..(Len(w) + Len(s))
          BY <3>4, <4>2, <4>3
        <5>2. CASE i <= Len(w)
          BY <3>3, <3>4, <4>1, <4>2, <5>1, <5>2
        <5>3. CASE i = Len(w) + 1
          BY <3>3, <3>4, <4>1, <4>2, <5>1, <5>3
        <5>4. CASE i > Len(w) + 1
          <6>1. i - Len(a) \in 1..Len(Tail(s)) /\ (i - Len(a)) + 1 = i - Len(w)
                /\ ~(i <= Len(a)) /\ ~(i <= Len(w))
            BY <3>3, <4>1, <5>1, <5>4
          <6> QED
            BY <3>3, <3>4, <4>2, <5>1, <6>1
        <5> QED
          BY <3>3, <5>1, <5>2, <5>3, <5>4
      <4>5. a \o Tail(s) = w \o s
        BY <3>4, <4>2, <4>3, <4>4, SeqEqual
      <4> QED
        BY <4>5 DEF a
    <3> USE DEF w, s
    <3> QED
      BY <2>1, <2>2, <3>2, <3>8, <3>9
  <2> QED
    BY <2>3, <2>4
<1> QED
  BY <1>5, <1>7, <1>8, <1>9, PageSteps
-----------------------------------------------------------------------------
(* The inductive invariant *)

(* The room starts empty.                                                       *)
LEMMA IInvInit == Init => IInv
<1> SUFFICES ASSUME Init PROVE IInv
  OBVIOUS
<1>1. TypeOK
  BY TypeInit
<1>2. /\ Len(<<>>) = 0 /\ \A e : EventsOf(e) = {}
      /\ events = <<>> /\ window = [c \in Client |-> <<>>]
      /\ wire = [c \in Client |-> [k \in 1..MaxConn |-> <<>>]]
  BY EmptySeq DEF Init, EventsOf
<1>3. OnlyOwnerSends /\ SendsToLive
  BY OwnerAssumption DEF Init, OnlyOwnerSends, SendsToLive, Idle
<1>4. EventsNumbered /\ LastExists
  BY <1>2 DEF Init, EventsNumbered, LastExists
<1>5. ComponentMatchesLastEvent
  BY <1>2, LastOfIs DEF Init, ComponentMatchesLastEvent
<1>9. SaidBeforeNext /\ SayingInOrder /\ SpokenInOrder
  BY <1>2, OwnerAssumption DEF Init, SaidBeforeNext, SayingInOrder, SpokenInOrder
<1>6. PagesShowEvents /\ NothingOnUnopened
  BY <1>2, EntriesOfEmpty DEF PagesShowEvents, Committed, NothingOnUnopened
<1>7. WindowsAscend
  BY <1>2 DEF WindowsAscend
<1>8. NothingMissing
  <2>1. <<>> \o <<>> = <<>>
    BY ConcatEmptySeq, EmptySeq
  <2>2. SubSeq(events, 1, drained) = <<>>
    BY SubSeqEmpty DEF Init
  <2>3. 1 \in 1..MaxConn
    BY BoundAssumption
  <2> QED
    BY <1>2, <2>1, <2>2, <2>3 DEF NothingMissing
<1> QED
  BY <1>1, <1>3, <1>4, <1>5, <1>6, <1>7, <1>8, <1>9 DEF IInv

(* ... and every step keeps it.                                                 *)
LEMMA IInvStep == IInv /\ [Next]_vars => IInv'
<1> SUFFICES ASSUME IInv, [Next]_vars PROVE IInv'
  OBVIOUS
<1> USE DEF IInv
<1>1. TypeOK'
  BY TypeStep
<1>2. OnlyOwnerSends' /\ SendsToLive' /\ EventsNumbered' /\ LastExists'
  BY OnlyOwnerSendsStep, SendsToLiveStep, EventsNumberedStep, LastExistsStep
<1>3. ComponentMatchesLastEvent'
  BY ComponentStep
<1>6. SaidBeforeNext' /\ SayingInOrder' /\ SpokenInOrder'
  BY SaidStep, SpokenStep
<1>4. PagesShowEvents' /\ WindowsAscend' /\ NothingOnUnopened'
  BY PagesShowEventsStep, WindowsAscendStep, NothingOnUnopenedStep
<1>5. NothingMissing'
  BY NothingMissingStep
<1> QED
  BY <1>1, <1>2, <1>3, <1>4, <1>5, <1>6

(* Types, numbering, components, the order of inputs, windows and wires are
   right in every state.                                                        *)
THEOREM Inductive == Spec => []IInv
  BY IInvInit, IInvStep, PTL DEF Spec
-----------------------------------------------------------------------------
(* Theorems *)

(* Every state has the types, and no text over the limit is ever stored.        *)
THEOREM TypeCorrect == Spec => []TypeOK
  BY Inductive, PTL DEF IInv

(* Component and last event agree, whoever calls SetMessage from which thread.  *)
THEOREM ComponentMatches == Spec => []ComponentMatchesLastEvent
  BY Inductive, PTL DEF IInv

(* However envelopes are repeated, delayed or reordered and connections made
   again, the inputs of a sender are spoken in its order, each at most once.    *)
THEOREM InputsInOrder == Spec => []SpokenInOrder
  BY Inductive, PTL DEF IInv

(* A page that keeps its first socket misses no drained event.                  *)
THEOREM NothingIsMissing == Spec => []NothingMissing
  BY Inductive, PTL DEF IInv

(* No step writes to the component of a destroyed entity.                       *)
THEOREM DestroyedIsFinal == Spec => NoWriteAfterDestroy
<1>1. ASSUME IInv, [Next]_vars, NEW e \in Entity, e \notin live
      PROVE  component'[e] = component[e]
  <2>1. CASE UNCHANGED component
    BY <2>1
  <2>2. CASE WriteComponent(Owner)
    <3>1. call[Owner].entity \in live
      BY <2>2, <1>1 DEF WriteComponent, IInv, SendsToLive
    <3> QED
      BY <1>1, <2>2, <3>1 DEF WriteComponent, IInv, TypeOK, ChatTypes
  <2> QED
    BY <1>1, <2>1, <2>2, Steps DEF IInv, Quiet, SetMessage, EmitEvent, TickApply, ApplyInput,
       ApplyControl
<1>2. IInv /\ [Next]_vars =>
        [\A e \in Entity : e \notin live => component'[e] = component[e]]_vars
  BY <1>1
<1> QED
  BY <1>2, Inductive, PTL DEF Spec, NoWriteAfterDestroy

(* A window's new line is newer than every line above it.                       *)
LEMMA ShownIsNewer ==
  ASSUME IInv, NEW c \in Client, NEW e \in Event,
         window[c] = <<>> \/ e.id > window[c][Len(window[c])].id
  PROVE  \A i \in 1..Len(window[c]) : e.id > window[c][i].id
<1>1. window[c] \in Seq(Event) /\ Len(window[c]) \in Nat /\ (window[c] = <<>> => Len(window[c]) = 0)
      /\ \A i \in 1..Len(window[c]) : window[c][i].id \in Nat
  <2>1. window[c] \in Seq(Event)
    BY DEF IInv, TypeOK, PageTypes
  <2>2. Len(window[c]) \in Nat /\ (window[c] = <<>> => Len(window[c]) = 0)
    BY <2>1, LenProperties, EmptySeq
  <2>3. \A i \in 1..Len(window[c]) : window[c][i] \in Event
    BY <2>1, ElementOfSeq
  <2> QED
    BY <2>1, <2>2, <2>3 DEF Event
<1>2. ASSUME NEW i \in 1..Len(window[c]) PROVE e.id > window[c][i].id
  <2>0. Len(window[c]) # 0 /\ Len(window[c]) \in 1..Len(window[c])
    BY <1>1
  <2>1. Len(window[c]) \in 1..Len(window[c]) /\ e.id > window[c][Len(window[c])].id
    BY <1>1, <2>0
  <2>2. window[c][i].id <= window[c][Len(window[c])].id
    BY DEF IInv, WindowsAscend
  <2>3. e.id \in Nat /\ window[c][i].id \in Nat /\ window[c][Len(window[c])].id \in Nat
    BY <1>1, <2>1 DEF Event
  <2> QED
    BY <2>1, <2>2, <2>3
<1> QED
  BY <1>2

(* Every step of the room is a step of the log and its readers, or changes
   neither: EmitEvent is Commit, Deliver is Show or shows nothing.              *)
THEOREM Refinement == Spec => ImplementsRoomLog
<1>1. Init => Log!RoomInit
  BY DEF Init, Log!RoomInit
<1>2. IInv /\ [Next]_vars => [Log!RoomNext]_Log!roomVars
  <2> SUFFICES ASSUME IInv, [Next]_vars PROVE [Log!RoomNext]_Log!roomVars
    OBVIOUS
  <2>1. CASE EmitEvent(Owner)
    <3>1. /\ Len(events') = Len(events) + 1 /\ Len(events) \in Nat
          /\ \A i \in 1..Len(events) : events'[i] = events[i]
          /\ events'[Len(events')].id = Len(events')
      BY <2>1, Emits DEF IInv
    <3>2. \A i \in 1..Len(events) : Len(events') > events[i].id
      BY <3>1 DEF IInv, EventsNumbered
    <3>3. window' = window
      BY <2>1 DEF EmitEvent, netVars
    <3>4. Log!Commit
      BY <3>1, <3>2, <3>3 DEF Log!Commit, Log!Newer
    <3> QED
      BY <3>4 DEF Log!RoomNext
  <2>2. ASSUME NEW c \in Client, NEW k \in 1..MaxConn, Deliver(c, k)
        PROVE  [Log!RoomNext]_Log!roomVars
    <3>1. /\ events' = events /\ wire[c][k] # <<>> /\ wire[c][k] \in Seq(Event)
          /\ window' = [window EXCEPT ![c] = AppendAccepted(window[c], Head(wire[c][k]))]
          /\ window \in [Client -> Seq(Event)]
      BY <2>2 DEF Deliver, chatVars, IInv, TypeOK, PageTypes
    <3>2. CASE AppendAccepted(window[c], Head(wire[c][k])) = window[c]
      BY <3>1, <3>2 DEF Log!roomVars
    <3>3. CASE /\ window[c] = <<>> \/ Head(wire[c][k]).id > window[c][Len(window[c])].id
               /\ AppendAccepted(window[c], Head(wire[c][k])) = Append(window[c], Head(wire[c][k]))
      <4> DEFINE e == Head(wire[c][k])
      <4>1. e \in Event /\ e.id \in 1..Len(events) /\ e = events[e.id]
        BY <3>1, HeadTailProperties, EntriesOfTail DEF IInv, PagesShowEvents, Committed
      <4>2. Log!Newer(e, window[c])
        BY <3>3, <4>1, ShownIsNewer DEF Log!Newer
      <4>3. window' = [window EXCEPT ![c] = Append(window[c], e)]
        BY <3>1, <3>3
      <4> HIDE DEF e
      <4>4. Log!Show(c)
        BY <3>1, <4>1, <4>2, <4>3 DEF Log!Show
      <4> QED
        BY <4>4 DEF Log!RoomNext
    <3> QED
      BY <3>2, <3>3 DEF AppendAccepted
  <2>3. CASE UNCHANGED <<events, window>>
    BY <2>3 DEF Log!roomVars
  <2>4. EmitEvent(Owner) \/ UNCHANGED events
    BY Steps DEF IInv, Quiet, SetMessage, WriteComponent, TickApply, ApplyInput, ApplyControl
  <2>5. (\E c \in Client : \E k \in 1..MaxConn : Deliver(c, k)) \/ UNCHANGED window
    BY PageSteps DEF netVars, Drain, Join, SocketLoss
  <2>6. CASE \E c \in Client : \E k \in 1..MaxConn : Deliver(c, k)
    BY <2>2, <2>6
  <2> QED
    BY <2>1, <2>3, <2>4, <2>5, <2>6
<1> QED
  BY <1>1, <1>2, Inductive, PTL DEF Spec, ImplementsRoomLog, Log!RoomSpec
=============================================================================
