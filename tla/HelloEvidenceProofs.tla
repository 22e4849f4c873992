------------------------ MODULE HelloEvidenceProofs ------------------------
(***************************************************************************)
(* Proofs about integration/hello/verify-evidence.mjs for any number of    *)
(* commands: what verifyRound refuses when the server echoed, forgot or    *)
(* invented a command, and that it accepts an honest server.               *)
(*                                                                         *)
(* IInv: a fault has left in the audit what the verifier refuses (Bad,     *)
(* Unanswered), or did no harm.  HonestInv: without faults the audit, the  *)
(* trace and the results say all that happened.  OnceInv: a command is     *)
(* committed at most once.                                                 *)
(***************************************************************************)
EXTENDS HelloEvidence, SequenceTheorems, FiniteSetTheorems, NaturalsInduction, TLAPS
---------------------------------------------------------------------------
(* Sequences *)

(* A set of naturals that is not empty has a least element.                   *)
LEMMA LeastElement ==
  ASSUME NEW T, T \subseteq Nat, T # {}
  PROVE  \E n \in T : \A m \in T : n <= m
<1>1. IsWellFoundedOn(OpToRel(<, Nat), Nat)
  BY NatLessThanWellFounded
<1>2. PICK n \in T : \A m \in T : ~ (<<m, n>> \in OpToRel(<, Nat))
  BY <1>1, WFMin
<1>3. \A m \in T : ~(m < n)
  BY <1>2 DEF OpToRel
<1> QED
  BY <1>3

(* The values of s and t stand in s \o t one after the other.                 *)
Joined(s, t) ==
  /\ Len(s \o t) = Len(s) + Len(t)
  /\ \A i \in 1..Len(s) : (s \o t)[i] = s[i]
  /\ \A i \in 1..Len(t) : (s \o t)[Len(s) + i] = t[i]

(* What is where in the concatenation of two sequences.                       *)
LEMMA ConcatAt ==
  ASSUME NEW S, NEW s \in Seq(S), NEW t \in Seq(S)
  PROVE  s \o t \in Seq(S) /\ Joined(s, t)
<1>1. Len(t) \in Nat /\ Len(s) \in Nat
  BY LenProperties
<1>2. s \o t \in Seq(S) /\ Len(s \o t) = Len(s) + Len(t)
  BY ConcatProperties
<1>3. \A i \in 1..(Len(s) + Len(t)) : (s \o t)[i] = IF i <= Len(s) THEN s[i] ELSE t[i - Len(s)]
  BY ConcatProperties
<1>4. ASSUME NEW i \in 1..Len(t) PROVE (s \o t)[Len(s) + i] = t[i]
  <2>1. Len(s) + i \in 1..(Len(s) + Len(t)) /\ ~(Len(s) + i <= Len(s)) /\ (Len(s) + i) - Len(s) = i
    BY <1>1
  <2> QED BY <2>1, <1>3
<1>5. ASSUME NEW i \in 1..Len(s) PROVE (s \o t)[i] = s[i]
  <2>1. i \in 1..(Len(s) + Len(t)) /\ i <= Len(s)
    BY <1>1
  <2> QED BY <2>1, <1>3
<1> QED BY <1>2, <1>4, <1>5 DEF Joined

(* The records of R are those of deltas of ds for w, in their order: f says   *)
(* where each stands.                                                         *)
InOrder(R, ds, w) ==
  \E f \in [1..Len(R) -> 1..Len(ds)] :
    /\ \A i \in 1..Len(R) : ds[f[i]].session = w /\ R[i] = ds[f[i]].rec
    /\ \A i, j \in 1..Len(R) : i < j => f[i] < f[j]

(* RoutedTo picks the deltas for w in their order.                            *)
LEMMA RoutedInOrder ==
  ASSUME NEW S, NEW ds, Len(ds) \in Nat, \A i \in 1..Len(ds) : ds[i].rec \in S, NEW w
  PROVE  RoutedTo(ds, w) \in Seq(S) /\ InOrder(RoutedTo(ds, w), ds, w)
<1> DEFINE n == Len(ds)
           Next1(s, i) == IF ds[i].session = w THEN Append(s, ds[i].rec) ELSE s
           Body(g) == [i \in 0..n |-> IF i = 0 THEN <<>>
                                      ELSE IF ds[i].session = w THEN Append(g[i - 1], ds[i].rec)
                                      ELSE g[i - 1]]
           Good(m) == \E g \in [0..m -> Seq(S)] :
                        g[0] = <<>> /\ \A i \in 1..m : g[i] = Next1(g[i - 1], i)
<1>1. n \in Nat
  OBVIOUS
<1>2. \A s \in Seq(S), i \in 1..n : Next1(s, i) \in Seq(S)
  BY AppendProperties
<1> HIDE DEF Next1
<1>3. ASSUME NEW m \in 1..n, Good(m - 1) PROVE Good(m)
  <2>1. PICK g \in [0..(m - 1) -> Seq(S)] :
          g[0] = <<>> /\ \A i \in 1..(m - 1) : g[i] = Next1(g[i - 1], i)
    BY <1>3
  <2> DEFINE h == [i \in 0..m |-> IF i = m THEN Next1(g[m - 1], m) ELSE g[i]]
  <2>2. m - 1 \in 0..(m - 1) /\ 0 \in 0..(m - 1) /\ \A i \in 0..m : i = m \/ i \in 0..(m - 1)
    BY <1>1
  <2>3. Next1(g[m - 1], m) \in Seq(S)
    BY <1>2, <2>1, <2>2
  <2>4. h \in [0..m -> Seq(S)]
    BY <2>1, <2>2, <2>3
  <2>5. h[m] = Next1(g[m - 1], m) /\ \A i \in 0..(m - 1) : h[i] = g[i]
    BY <1>1
  <2> HIDE DEF h
  <2>6. ASSUME NEW i \in 1..m PROVE h[i] = Next1(h[i - 1], i)
    <3>1. i - 1 \in 0..(m - 1) /\ (i = m \/ i \in 1..(m - 1))
      BY <1>1
    <3>2. h[i - 1] = g[i - 1]
      BY <2>5, <3>1
    <3>3. CASE i = m
      BY <2>5, <3>2, <3>3
    <3>4. CASE i \in 1..(m - 1)
      <4>1. i \in 0..(m - 1)
        BY <3>4
      <4> QED BY <2>1, <2>5, <3>2, <3>4, <4>1
    <3> QED BY <3>1, <3>3, <3>4
  <2>7. h[0] = <<>>
    BY <2>1, <2>2, <2>5
  <2> QED BY <2>4, <2>6, <2>7
<1>4. Good(0)
  <2> DEFINE g == [i \in 0..0 |-> <<>>]
  <2>1. g \in [0..0 -> Seq(S)] /\ g[0] = <<>>
    OBVIOUS
  <2>2. \A i \in 1..0 : FALSE
    OBVIOUS
  <2> HIDE DEF g
  <2> QED BY <2>1, <2>2
<1>5. Good(n)
  <2> SUFFICES ASSUME ~Good(n) PROVE FALSE
    OBVIOUS
  <2> DEFINE T == {m \in 0..n : ~Good(m)}
  <2> HIDE DEF Good
  <2>1. T \subseteq Nat /\ n \in T
    BY <1>1
  <2>2. PICK m \in T : \A k \in T : m <= k
    <3> HIDE DEF T
    <3> QED BY <2>1, LeastElement
  <2>3. m # 0
    BY <1>4, <2>2
  <2>4. m \in 1..n /\ m - 1 \in 0..n /\ ~(m <= m - 1)
    BY <1>1, <2>2, <2>3
  <2>5. Good(m - 1)
    BY <2>2, <2>4
  <2> QED BY <1>3, <2>2, <2>4, <2>5
<1>6. \E g : g = Body(g)
  <2>1. PICK g \in [0..n -> Seq(S)] :
          g[0] = <<>> /\ \A i \in 1..n : g[i] = Next1(g[i - 1], i)
    BY <1>5
  <2>2. \A i \in 0..n : g[i] = Body(g)[i]
    <3> TAKE i \in 0..n
    <3>1. i = 0 \/ i \in 1..n
      BY <1>1
    <3>2. CASE i = 0
      BY <2>1, <3>2
    <3>3. CASE i \in 1..n
      <4>1. i # 0 /\ g[i] = Next1(g[i - 1], i)
        BY <1>1, <2>1, <3>3
      <4> QED BY <4>1 DEF Next1
    <3> QED BY <3>1, <3>2, <3>3
  <2>3. g = Body(g)
    BY <2>1, <2>2
  <2> QED BY <2>3
<1> DEFINE C == CHOOSE g : g = Body(g)
<1>7. C = Body(C)
  BY <1>6
<1> HIDE DEF C
<1>8. C[0] = <<>> /\ \A i \in 1..n : C[i] = Next1(C[i - 1], i)
  <2>1. Body(C)[0] = <<>>
    BY <1>1
  <2>2. \A i \in 1..n : Body(C)[i] = Next1(C[i - 1], i)
    BY <1>1 DEF Next1
  <2> HIDE DEF Body
  <2> QED BY <1>7, <2>1, <2>2
<1> DEFINE P(R, m) ==
      /\ R \in Seq(S)
      /\ \E f \in [1..Len(R) -> 1..m] :
           /\ \A i \in 1..Len(R) : ds[f[i]].session = w /\ R[i] = ds[f[i]].rec
           /\ \A i, j \in 1..Len(R) : i < j => f[i] < f[j]
<1>9. ASSUME NEW m \in 1..n, NEW R, P(R, m - 1) PROVE P(Next1(R, m), m)
  <2>1. R \in Seq(S) /\ Len(R) \in Nat
    BY <1>9
  <2>2. PICK f \in [1..Len(R) -> 1..(m - 1)] :
           /\ \A i \in 1..Len(R) : ds[f[i]].session = w /\ R[i] = ds[f[i]].rec
           /\ \A i, j \in 1..Len(R) : i < j => f[i] < f[j]
    BY <1>9
  <2>3. CASE ds[m].session # w
    <3>1. Next1(R, m) = R
      BY <2>3 DEF Next1
    <3>2. f \in [1..Len(R) -> 1..m]
      BY <1>1, <2>2
    <3> QED BY <2>1, <2>2, <3>1, <3>2
  <2>4. CASE ds[m].session = w
    <3> DEFINE Q == Append(R, ds[m].rec)
    <3>1. Next1(R, m) = Q
      BY <2>4 DEF Next1
    <3>2. /\ Q \in Seq(S) /\ Len(Q) = Len(R) + 1
          /\ \A i \in 1..Len(R) : Q[i] = R[i]
          /\ Q[Len(R) + 1] = ds[m].rec
      BY <1>1, <2>1, AppendProperties
    <3> HIDE DEF Q
    <3> DEFINE h == [i \in 1..Len(Q) |-> IF i = Len(Q) THEN m ELSE f[i]]
    <3>3. \A i \in 1..Len(Q) : i = Len(Q) \/ i \in 1..Len(R)
      BY <2>1, <3>2
    <3>4. h \in [1..Len(Q) -> 1..m]
      <4>1. \A i \in 1..Len(R) : f[i] \in 1..m
        BY <1>1, <2>2
      <4>2. m \in 1..m
        BY <1>1
      <4> QED BY <3>3, <4>1, <4>2
    <3>5. h[Len(Q)] = m /\ \A i \in 1..Len(R) : h[i] = f[i] /\ i \in 1..Len(Q)
      BY <2>1, <3>2
    <3> HIDE DEF h
    <3>6. \A i \in 1..Len(Q) : ds[h[i]].session = w /\ Q[i] = ds[h[i]].rec
      BY <2>2, <2>4, <3>2, <3>3, <3>5
    <3>7. ASSUME NEW i \in 1..Len(Q), NEW j \in 1..Len(Q), i < j PROVE h[i] < h[j]
      <4>1. i \in 1..Len(R)
        BY <2>1, <3>2, <3>7
      <4>2. CASE j = Len(Q)
        <5>1. h[i] = f[i] /\ f[i] \in 1..(m - 1) /\ h[j] = m
          BY <2>2, <3>5, <4>1, <4>2
        <5> QED BY <1>1, <5>1
      <4>3. CASE j \in 1..Len(R)
        BY <2>2, <3>5, <3>7, <4>1, <4>3
      <4> QED BY <3>3, <4>2, <4>3
    <3> QED BY <3>1, <3>2, <3>4, <3>6, <3>7
  <2> QED BY <2>3, <2>4
<1>10. P(C[0], 0)
  <2>1. Len(<<>>) = 0 /\ <<>> \in Seq(S)
    OBVIOUS
  <2> DEFINE f == [i \in 1..0 |-> 1]
  <2>2. f \in [1..0 -> 1..0] /\ \A i \in 1..0 : FALSE
    OBVIOUS
  <2> HIDE DEF f
  <2> QED BY <1>8, <2>1, <2>2
<1>11. P(C[n], n)
  <2> SUFFICES ASSUME ~P(C[n], n) PROVE FALSE
    OBVIOUS
  <2> DEFINE T == {m \in 0..n : ~P(C[m], m)}
  <2> HIDE DEF P
  <2>1. T \subseteq Nat /\ n \in T
    BY <1>1
  <2>2. PICK m \in T : \A k \in T : m <= k
    <3> HIDE DEF T
    <3> QED BY <2>1, LeastElement
  <2>3. m # 0
    BY <1>10, <2>2
  <2>4. m \in 1..n /\ m - 1 \in 0..n /\ ~(m <= m - 1)
    BY <1>1, <2>2, <2>3
  <2>5. P(C[m - 1], m - 1)
    BY <2>2, <2>4
  <2>6. P(C[m], m)
    BY <1>8, <1>9, <2>4, <2>5
  <2> QED BY <2>2, <2>6
<1>12. RoutedTo(ds, w) = C[n]
  BY DEF RoutedTo, C
<1> QED
  BY <1>11, <1>12 DEF InOrder

-----------------------------------------------------------------------------
(* Types *)

(* A record, a line of the audit, an event of the trace, a result, a command. *)
Rec ==
  [sender : Role \cup {"nobody"}, seq : Nat, tick : Nat, sha : {"hello", "other"}, late : BOOLEAN]
AuditLine ==
  [kind : {"server_listening", "ingress_received", "tick_committed", "delta_routed",
           "server_shutdown", "mangled"},
   session : Session, rec : Rec, count : Nat]
TraceEvent ==
  [kind : {"bot_started", "connected", "command_sent", "delta_received", "bot_finished", "mangled"},
   ok : BOOLEAN, rec : Rec]
Outcome == [status : {"pending", "ok", "failed"}, received : Seq(Rec)]
Command == [sender : Role, seq : Nat]

TypeOK ==
  /\ scope \in Scopes
  /\ inbox \in [Rnd -> Seq(Command)]
  /\ tick \in [Rnd -> Nat]
  /\ committed \in [Rnd -> SUBSET Rec]
  /\ echo \in [Rnd -> BOOLEAN]
  /\ wire \in [Rnd -> [Role -> Seq(Rec)]]
  /\ sent \in [Rnd -> [Role -> Nat]]
  /\ audit \in [Rnd -> Seq(AuditLine)]
  /\ trace \in [Rnd -> Seq(TraceEvent)]
  /\ result \in [Rnd -> [Role -> Outcome]]
  /\ faults \in Nat

(* What a scope bounds: one or two rounds, at least one command of each side. *)
LEMMA ScopeFacts ==
  ASSUME TypeOK
  PROVE  /\ scope.rounds \in {1, 2} /\ scope.commands \in Nat \ {0} /\ scope.faults \in Nat
         /\ Rnd \subseteq {1, 2} /\ 1 \in Rnd
  BY ScopesAssumption DEF TypeOK, Rnd

(* The peer of a role is the other role.                                      *)
LEMMA PeerFacts == \A w \in Role : Peer(w) \in Role /\ Peer(w) # w /\ Peer(Peer(w)) = w
  BY DEF Role, Peer

(* The records and lines that the server and the clients write.               *)
LEMMA Writings ==
  /\ \A w \in Role : w \in Session
  /\ \A w \in Role, n \in Nat, t \in Nat : Record(w, n, t) \in Rec
  /\ Nothing \in Rec
  /\ \A w \in Role, n \in Nat : Ingress(w, n) \in AuditLine
  /\ \A t \in Nat, n \in Nat : TickLine(t, n) \in AuditLine
  /\ \A x \in Session, c \in Command, t \in Nat : Delta(x, c, t) \in AuditLine
  /\ Line("server_listening", "stray", Nothing) \in AuditLine
  /\ Line("server_shutdown", "stray", Nothing) \in AuditLine
  /\ \A w \in Role, n \in Nat : Event("command_sent", Record(w, n, 0)) \in TraceEvent
  /\ \A x \in Rec : Event("delta_received", x) \in TraceEvent
  /\ \A b \in BOOLEAN : [Event("bot_finished", Nothing) EXCEPT !.ok = b] \in TraceEvent
  /\ Event("bot_started", Nothing) \in TraceEvent /\ Event("connected", Nothing) \in TraceEvent
<1>1. \A w \in Role : w \in Session
  BY DEF Session
<1>2. "stray" \in Session
  BY DEF Session
<1>3. \A w \in Role, n \in Nat, t \in Nat : Record(w, n, t) \in Rec
  BY DEF Record, Rec
<1>4. \A t \in Nat : Record("nobody", 0, t) \in Rec
  BY DEF Record, Rec
<1>5. Nothing \in Rec
  BY <1>4 DEF Nothing
<1>6. \A w \in Role, n \in Nat : Ingress(w, n) \in AuditLine
  BY <1>1, <1>3 DEF Ingress, Line, AuditLine
<1>7. \A t \in Nat, n \in Nat : TickLine(t, n) \in AuditLine
  BY <1>2, <1>4 DEF TickLine, Line, AuditLine
<1>8. \A x \in Session, c \in Command, t \in Nat : Delta(x, c, t) \in AuditLine
  BY <1>3 DEF Delta, Line, AuditLine, Command
<1>9. /\ Line("server_listening", "stray", Nothing) \in AuditLine
      /\ Line("server_shutdown", "stray", Nothing) \in AuditLine
  BY <1>2, <1>5 DEF Line, AuditLine
<1>10. \A w \in Role, n \in Nat : Event("command_sent", Record(w, n, 0)) \in TraceEvent
  BY <1>3 DEF Event, TraceEvent
<1>11. \A x \in Rec : Event("delta_received", x) \in TraceEvent
  BY DEF Event, TraceEvent
<1>12. \A b \in BOOLEAN : [Event("bot_finished", Nothing) EXCEPT !.ok = b] \in TraceEvent
  BY <1>5 DEF Event, TraceEvent
<1>13. Event("bot_started", Nothing) \in TraceEvent /\ Event("connected", Nothing) \in TraceEvent
  BY <1>5 DEF Event, TraceEvent
<1> QED
  BY <1>1, <1>3, <1>5, <1>6, <1>7, <1>8, <1>9, <1>10, <1>11, <1>12, <1>13

(* The variables have their types before the first round.                     *)
LEMMA TypeInit == Init => TypeOK
<1> SUFFICES ASSUME Init PROVE TypeOK
  OBVIOUS
<1>1. \A r \in Rnd : audit[r] \in Seq(AuditLine)
  BY Writings DEF Init
<1>2. \A r \in Rnd : trace[r] \in Seq(TraceEvent)
  BY Writings DEF Init
<1>3. audit \in [Rnd -> Seq(AuditLine)] /\ trace \in [Rnd -> Seq(TraceEvent)]
  BY <1>1, <1>2 DEF Init
<1>4. result \in [Rnd -> [Role -> Outcome]]
  <2>1. [status |-> "pending", received |-> <<>>] \in Outcome
    BY DEF Outcome
  <2> QED BY <2>1 DEF Init
<1> QED
  BY <1>3, <1>4 DEF Init, TypeOK

-----------------------------------------------------------------------------
(* What the actions do to their round *)

(* Nothing of round q changes.                                                *)
Same(q) ==
  /\ inbox'[q] = inbox[q] /\ tick'[q] = tick[q] /\ committed'[q] = committed[q]
  /\ echo'[q] = echo[q] /\ wire'[q] = wire[q] /\ sent'[q] = sent[q]
  /\ audit'[q] = audit[q] /\ trace'[q] = trace[q] /\ result'[q] = result[q]

(* A value is replaced in one round.                                          *)
LEMMA InOneRound ==
  ASSUME NEW D, NEW S, NEW f \in [D -> S], NEW r \in D, NEW v \in S,
         NEW g, g = [f EXCEPT ![r] = v]
  PROVE  g \in [D -> S] /\ g[r] = v /\ \A q \in D \ {r} : g[q] = f[q]
  OBVIOUS

(* Write appends lines to the audit of its round.                             *)
LEMMA WriteAppends ==
  ASSUME TypeOK, scope' = scope, NEW r \in Rnd, NEW lines \in Seq(AuditLine), Write(r, lines)
  PROVE  /\ audit' \in [Rnd -> Seq(AuditLine)]
         /\ audit'[r] = audit[r] \o lines
         /\ \A q \in Rnd \ {r} : audit'[q] = audit[q]
<1> DEFINE v == audit[r] \o lines
<1>1. audit \in [Rnd -> Seq(AuditLine)] /\ audit' = [audit EXCEPT ![r] = v]
  BY DEF TypeOK, Write
<1>2. v \in Seq(AuditLine)
  BY <1>1, ConcatProperties
<1> HIDE DEF v
<1>3. /\ audit' \in [Rnd -> Seq(AuditLine)]
      /\ audit'[r] = v
      /\ \A q \in Rnd \ {r} : audit'[q] = audit[q]
  BY <1>1, <1>2, InOneRound
<1> QED BY <1>3 DEF v

(* Trace appends an event to the bot's trace of its round.                    *)
LEMMA TraceAppends ==
  ASSUME TypeOK, scope' = scope, NEW r \in Rnd, NEW w, NEW e \in TraceEvent, Trace(r, w, e)
  PROVE  /\ trace' \in [Rnd -> Seq(TraceEvent)]
         /\ trace'[r] = IF w = "bot" THEN Append(trace[r], e) ELSE trace[r]
         /\ \A q \in Rnd \ {r} : trace'[q] = trace[q]
<1>1. trace \in [Rnd -> Seq(TraceEvent)]
  BY DEF TypeOK
<1>2. CASE w = "bot"
  <2> DEFINE v == Append(trace[r], e)
  <2>1. trace' = [trace EXCEPT ![r] = v]
    BY <1>2 DEF Trace
  <2>2. v \in Seq(TraceEvent)
    BY <1>1, AppendProperties
  <2> HIDE DEF v
  <2>3. /\ trace' \in [Rnd -> Seq(TraceEvent)]
        /\ trace'[r] = v
        /\ \A q \in Rnd \ {r} : trace'[q] = trace[q]
    BY <1>1, <2>1, <2>2, InOneRound
  <2> QED BY <1>2, <2>3 DEF v
<1>3. CASE w # "bot"
  BY <1>1, <1>3 DEF Trace
<1> QED BY <1>2, <1>3

(* A command is sent.                                                         *)
LEMMA SendDoes ==
  ASSUME TypeOK, scope' = scope, NEW r \in Rnd, NEW w \in Role, Send(r, w),
         NEW n, n = sent[r][w] + 1
  PROVE  /\ TypeOK' /\ \A q \in Rnd \ {r} : Same(q)
         /\ n \in Nat /\ n <= scope.commands /\ Running(r, w)
         /\ sent'[r][w] = n /\ \A x \in Role \ {w} : sent'[r][x] = sent[r][x]
         /\ inbox'[r] = Append(inbox[r], [sender |-> w, seq |-> n])
         /\ audit'[r] = audit[r] \o <<Ingress(w, n)>>
         /\ trace'[r] = IF w = "bot" THEN Append(trace[r], Event("command_sent", Record(w, n, 0)))
                        ELSE trace[r]
         /\ UNCHANGED <<tick, committed, echo, wire, result, faults>>
<1>1. /\ inbox \in [Rnd -> Seq(Command)] /\ sent \in [Rnd -> [Role -> Nat]]
      /\ scope.commands \in Nat /\ scope \in Scopes
  BY ScopeFacts DEF TypeOK
<1>2. /\ sent[r][w] < scope.commands /\ Running(r, w)
      /\ sent' = [sent EXCEPT ![r][w] = n]
      /\ inbox' = [inbox EXCEPT ![r] = Append(@, [sender |-> w, seq |-> n])]
      /\ Write(r, <<Ingress(w, n)>>)
      /\ Trace(r, w, Event("command_sent", Record(w, n, 0)))
      /\ UNCHANGED <<tick, committed, echo, wire, result, faults>>
  BY DEF Send
<1>3. sent[r][w] \in Nat /\ n \in Nat /\ n <= scope.commands
  <2>1. sent[r][w] \in Nat
    BY <1>1
  <2> QED BY <1>1, <1>2, <2>1
<1>4. /\ sent' \in [Rnd -> [Role -> Nat]]
      /\ sent'[r][w] = n /\ \A x \in Role \ {w} : sent'[r][x] = sent[r][x]
      /\ \A q \in Rnd \ {r} : sent'[q] = sent[q]
  BY <1>1, <1>2, <1>3
<1>5. /\ inbox' \in [Rnd -> Seq(Command)]
      /\ inbox'[r] = Append(inbox[r], [sender |-> w, seq |-> n])
      /\ \A q \in Rnd \ {r} : inbox'[q] = inbox[q]
  <2> DEFINE c == [sender |-> w, seq |-> n]
             v == Append(inbox[r], c)
  <2>1. c \in Command
    BY <1>3 DEF Command
  <2>2. inbox' = [inbox EXCEPT ![r] = v]
    BY <1>2
  <2> HIDE DEF c
  <2>3. v \in Seq(Command)
    BY <1>1, <2>1, AppendProperties
  <2> HIDE DEF v
  <2>4. /\ inbox' \in [Rnd -> Seq(Command)] /\ inbox'[r] = v
        /\ \A q \in Rnd \ {r} : inbox'[q] = inbox[q]
    BY <1>1, <2>2, <2>3, InOneRound
  <2> QED BY <2>4 DEF v, c
<1>6. <<Ingress(w, n)>> \in Seq(AuditLine)
  <2>1. Ingress(w, n) \in AuditLine
    BY <1>3, Writings
  <2> QED BY <2>1
<1>7. /\ audit' \in [Rnd -> Seq(AuditLine)]
      /\ audit'[r] = audit[r] \o <<Ingress(w, n)>>
      /\ \A q \in Rnd \ {r} : audit'[q] = audit[q]
  BY <1>2, <1>6, WriteAppends
<1>8. /\ trace' \in [Rnd -> Seq(TraceEvent)]
      /\ trace'[r] = IF w = "bot" THEN Append(trace[r], Event("command_sent", Record(w, n, 0)))
                     ELSE trace[r]
      /\ \A q \in Rnd \ {r} : trace'[q] = trace[q]
  BY <1>2, <1>3, Writings, TraceAppends
<1>9. Rnd' = Rnd
  BY DEF Rnd
<1>10. TypeOK'
  <2>1. UNCHANGED <<tick, committed, echo, wire, result, faults>> /\ TypeOK
    BY <1>2
  <2> QED BY ONLY scope' = scope, <1>4, <1>5, <1>7, <1>8, <1>9, <2>1 DEF TypeOK
<1>11. \A q \in Rnd \ {r} : Same(q)
  BY <1>2, <1>4, <1>5, <1>7, <1>8 DEF Same
<1> QED
  BY ONLY <1>2, <1>3, <1>4, <1>5, <1>7, <1>8, <1>10, <1>11

(* The deltas of a tick: to[i] is where the i-th command's is routed.         *)
Deltas(r, to) == [i \in 1..Len(inbox[r]) |-> Delta(to[i], inbox[r][i], tick[r] + 1)]

(* What a tick does to its round, with the commands routed as to says.        *)
CommitEffect(r, to) ==
  LET t == tick[r] + 1
      ds == Deltas(r, to)
  IN /\ to \in [1..Len(inbox[r]) -> Session]
     /\ faults' >= faults
     /\ faults' = faults => \A i \in 1..Len(inbox[r]) : to[i] = Peer(inbox[r][i].sender)
     /\ faults' # faults => r = scope.rounds
     /\ tick'[r] = t
     /\ committed'[r] = committed[r] \cup {ds[i].rec : i \in 1..Len(inbox[r])}
     /\ echo'[r] = (echo[r] \/ \E i \in 1..Len(inbox[r]) : to[i] = inbox[r][i].sender)
     /\ audit'[r] = audit[r] \o (<<TickLine(t, Len(inbox[r]))>> \o ds)
     /\ \A w \in Role : wire'[r][w] = wire[r][w] \o RoutedTo(ds, w)

(* A tick is committed and its deltas are routed.                             *)
LEMMA CommitDoes ==
  ASSUME TypeOK, scope' = scope, NEW r \in Rnd, Commit(r)
  PROVE  /\ TypeOK' /\ \A q \in Rnd \ {r} : Same(q)
         /\ Len(inbox[r]) \in Nat /\ Len(inbox[r]) > 0 /\ inbox'[r] = <<>>
         /\ UNCHANGED <<sent, trace, result>>
         /\ \E to : /\ CommitEffect(r, to)
                    /\ Deltas(r, to) \in Seq(AuditLine) /\ Len(Deltas(r, to)) = Len(inbox[r])
                    /\ \A w \in Role : /\ RoutedTo(Deltas(r, to), w) \in Seq(Rec)
                                       /\ InOrder(RoutedTo(Deltas(r, to), w), Deltas(r, to), w)
<1> DEFINE n == Len(inbox[r])
           t == tick[r] + 1
<1>1. /\ inbox \in [Rnd -> Seq(Command)] /\ tick \in [Rnd -> Nat]
      /\ committed \in [Rnd -> SUBSET Rec] /\ echo \in [Rnd -> BOOLEAN]
      /\ wire \in [Rnd -> [Role -> Seq(Rec)]] /\ faults \in Nat
  BY DEF TypeOK
<1>2. inbox[r] \in Seq(Command) /\ n \in Nat /\ DOMAIN inbox[r] = 1..n /\ n > 0 /\ t \in Nat
  <2>1. inbox[r] # <<>>
    BY DEF Commit
  <2>2. inbox[r] \in Seq(Command)
    BY <1>1
  <2>3. n \in Nat /\ DOMAIN inbox[r] = 1..n
    BY <2>2, LenProperties
  <2>4. n > 0
    BY <2>1, <2>2, <2>3, EmptySeq
  <2>5. tick[r] \in Nat
    BY <1>1
  <2> QED BY <2>2, <2>3, <2>4, <2>5
<1>3. PICK to \in [DOMAIN inbox[r] -> Session] :
        LET wrong == {i \in DOMAIN to : to[i] # Peer(inbox[r][i].sender)}
            deltas == [i \in DOMAIN to |-> Delta(to[i], inbox[r][i], t)]
        IN /\ FaultBudget(r, Cardinality(wrong))
           /\ tick' = [tick EXCEPT ![r] = t]
           /\ committed' = [committed EXCEPT ![r] = @ \cup {deltas[i].rec : i \in DOMAIN deltas}]
           /\ echo' = [echo EXCEPT ![r] = @ \/ \E i \in wrong : to[i] = inbox[r][i].sender]
           /\ Write(r, <<TickLine(t, n)>> \o deltas)
           /\ wire' = [wire EXCEPT ![r] = [w \in Role |-> @[w] \o RoutedTo(deltas, w)]]
  BY Zenon DEF Commit
<1>3a. to \in [1..n -> Session]
  BY <1>2
<1> DEFINE ds == Deltas(r, to)
           wrong == {i \in 1..n : to[i] # Peer(inbox[r][i].sender)}
<1>4. DOMAIN to = 1..n /\ ds = [i \in 1..n |-> Delta(to[i], inbox[r][i], t)]
  BY <1>3a DEF Deltas
<1>5. \A i \in 1..n : inbox[r][i] \in Command /\ to[i] \in Session
  BY <1>3a, <1>2
<1>6. \A i \in 1..n : ds[i] \in AuditLine /\ ds[i].rec \in Rec
  <2> TAKE i \in 1..n
  <2>1. ds[i] = Delta(to[i], inbox[r][i], t)
    BY <1>4
  <2>2. ds[i] \in AuditLine
    BY <1>2, <1>5, <2>1, Writings
  <2> HIDE DEF ds
  <2> QED BY <2>2 DEF AuditLine
<1>7. ds \in Seq(AuditLine) /\ Len(ds) = n
  <2>1. DOMAIN ds = 1..n
    BY <1>4
  <2>2. ds = [i \in 1..n |-> ds[i]]
    BY <1>4
  <2> HIDE DEF ds
  <2>3. ds \in [1..n -> AuditLine]
    BY <1>6, <2>2
  <2> QED BY <1>2, <2>3
<1> HIDE DEF ds
<1>8. /\ FaultBudget(r, Cardinality(wrong))
      /\ tick' = [tick EXCEPT ![r] = t]
      /\ committed' = [committed EXCEPT ![r] = @ \cup {ds[i].rec : i \in 1..n}]
      /\ echo' = [echo EXCEPT ![r] = @ \/ \E i \in wrong : to[i] = inbox[r][i].sender]
      /\ Write(r, <<TickLine(t, n)>> \o ds)
      /\ wire' = [wire EXCEPT ![r] = [w \in Role |-> @[w] \o RoutedTo(ds, w)]]
  <2>1. DOMAIN ds = 1..n /\ ds = [i \in DOMAIN to |-> Delta(to[i], inbox[r][i], t)]
    BY <1>4
  <2>2. wrong = {i \in DOMAIN to : to[i] # Peer(inbox[r][i].sender)}
    BY <1>4
  <2> HIDE DEF wrong, n, t
  <2> QED BY <1>3, <2>1, <2>2
<1>9. \A w \in Role : RoutedTo(ds, w) \in Seq(Rec) /\ InOrder(RoutedTo(ds, w), ds, w)
  BY <1>2, <1>6, <1>7, RoutedInOrder
<1>10. /\ audit' \in [Rnd -> Seq(AuditLine)]
       /\ audit'[r] = audit[r] \o (<<TickLine(t, n)>> \o ds)
       /\ \A q \in Rnd \ {r} : audit'[q] = audit[q]
  <2>1. <<TickLine(t, n)>> \in Seq(AuditLine)
    <3>1. TickLine(t, n) \in AuditLine
      BY <1>2, Writings
    <3> QED BY <3>1
  <2> DEFINE lines == <<TickLine(t, n)>> \o ds
  <2>2. lines \in Seq(AuditLine)
    BY <1>7, <2>1, ConcatProperties
  <2>3. Write(r, lines)
    BY <1>8
  <2> HIDE DEF lines
  <2>4. /\ audit' \in [Rnd -> Seq(AuditLine)]
        /\ audit'[r] = audit[r] \o lines
        /\ \A q \in Rnd \ {r} : audit'[q] = audit[q]
    BY <2>2, <2>3, WriteAppends
  <2> QED BY <2>4 DEF lines
<1>11. /\ tick' \in [Rnd -> Nat] /\ tick'[r] = t
       /\ \A q \in Rnd \ {r} : tick'[q] = tick[q]
  BY <1>1, <1>2, <1>8, InOneRound
<1>12. /\ committed' \in [Rnd -> SUBSET Rec]
       /\ committed'[r] = committed[r] \cup {ds[i].rec : i \in 1..n}
       /\ \A q \in Rnd \ {r} : committed'[q] = committed[q]
  <2> DEFINE v == committed[r] \cup {ds[i].rec : i \in 1..n}
  <2>1. v \in SUBSET Rec
    BY <1>1, <1>6
  <2>2. committed' = [committed EXCEPT ![r] = v]
    BY <1>8
  <2> HIDE DEF v
  <2>3. /\ committed' \in [Rnd -> SUBSET Rec] /\ committed'[r] = v
        /\ \A q \in Rnd \ {r} : committed'[q] = committed[q]
    BY <1>1, <2>1, <2>2, InOneRound
  <2> QED BY <2>3 DEF v
<1>13. /\ echo' \in [Rnd -> BOOLEAN]
       /\ echo'[r] = (echo[r] \/ \E i \in wrong : to[i] = inbox[r][i].sender)
       /\ \A q \in Rnd \ {r} : echo'[q] = echo[q]
  <2> DEFINE v == echo[r] \/ \E i \in wrong : to[i] = inbox[r][i].sender
  <2>1. v \in BOOLEAN
    OBVIOUS
  <2>2. echo' = [echo EXCEPT ![r] = v]
    BY <1>8
  <2> HIDE DEF v
  <2>3. /\ echo' \in [Rnd -> BOOLEAN] /\ echo'[r] = v
        /\ \A q \in Rnd \ {r} : echo'[q] = echo[q]
    BY <1>1, <2>1, <2>2, InOneRound
  <2> QED BY <2>3 DEF v
<1>14. (\E i \in wrong : to[i] = inbox[r][i].sender) <=> \E i \in 1..n : to[i] = inbox[r][i].sender
  <2>1. \A i \in 1..n : inbox[r][i].sender \in Role
    BY <1>5 DEF Command
  <2> QED BY <2>1, PeerFacts
<1>15. /\ wire' \in [Rnd -> [Role -> Seq(Rec)]]
       /\ \A w \in Role : wire'[r][w] = wire[r][w] \o RoutedTo(ds, w)
       /\ \A q \in Rnd \ {r} : wire'[q] = wire[q]
  <2> DEFINE v == [w \in Role |-> wire[r][w] \o RoutedTo(ds, w)]
  <2>1. \A w \in Role : wire[r][w] \o RoutedTo(ds, w) \in Seq(Rec)
    <3> TAKE w \in Role
    <3>1. wire[r][w] \in Seq(Rec)
      BY <1>1
    <3> QED BY <1>9, <3>1, ConcatProperties
  <2>2. v \in [Role -> Seq(Rec)] /\ \A w \in Role : v[w] = wire[r][w] \o RoutedTo(ds, w)
    BY <2>1
  <2>3. wire' = [wire EXCEPT ![r] = v]
    BY <1>8
  <2> HIDE DEF v
  <2>4. /\ wire' \in [Rnd -> [Role -> Seq(Rec)]] /\ wire'[r] = v
        /\ \A q \in Rnd \ {r} : wire'[q] = wire[q]
    BY <1>1, <2>2, <2>3, InOneRound
  <2> QED BY <2>2, <2>4
<1>16. /\ inbox' \in [Rnd -> Seq(Command)] /\ inbox'[r] = <<>>
       /\ \A q \in Rnd \ {r} : inbox'[q] = inbox[q]
  <2>1. inbox' = [inbox EXCEPT ![r] = <<>>] /\ <<>> \in Seq(Command)
    BY DEF Commit
  <2> QED BY <1>1, <2>1, InOneRound
<1>17. UNCHANGED <<sent, trace, result>>
  BY DEF Commit
<1>18. /\ faults' \in Nat /\ faults' >= faults
       /\ faults' = faults => wrong = {}
       /\ faults' # faults => r = scope.rounds
  <2>1. IsFiniteSet(1..n)
    BY <1>2, FS_Interval
  <2>2. wrong \subseteq 1..n
    OBVIOUS
  <2>3. IsFiniteSet(wrong)
    BY <2>1, <2>2, FS_Subset
  <2>4. Cardinality(wrong) \in Nat /\ (Cardinality(wrong) = 0 <=> wrong = {})
    <3> HIDE DEF wrong
    <3> QED BY <2>3, FS_CardinalityType, FS_EmptySet
  <2>5. faults' = faults + Cardinality(wrong) /\ (Cardinality(wrong) > 0 => r = scope.rounds)
    BY <1>8 DEF FaultBudget
  <2> HIDE DEF wrong
  <2> QED BY <1>1, <2>4, <2>5
<1>19. faults' = faults => \A i \in 1..n : to[i] = Peer(inbox[r][i].sender)
  BY <1>18
<1>20. Rnd' = Rnd
  BY DEF Rnd
<1>21. TypeOK'
  <2>1. TypeOK
    OBVIOUS
  <2> QED
    BY ONLY scope' = scope, <1>10, <1>11, <1>12, <1>13, <1>15, <1>16, <1>17, <1>18, <1>20, <2>1
       DEF TypeOK
<1>22. \A q \in Rnd \ {r} : Same(q)
  BY <1>10, <1>11, <1>12, <1>13, <1>15, <1>16, <1>17 DEF Same
<1>23. CommitEffect(r, to)
  <2>1. to \in [1..n -> Session]
    BY <1>3a
  <2> HIDE DEF wrong
  <2> QED
    BY ONLY <1>10, <1>11, <1>12, <1>13, <1>14, <1>15, <1>18, <1>19, <2>1 DEF CommitEffect, ds
<1> QED
  BY ONLY <1>2, <1>7, <1>9, <1>16, <1>17, <1>21, <1>22, <1>23 DEF ds

(* A delta is written and sent without a tick.                                *)
LEMMA EgressDoes ==
  ASSUME TypeOK, scope' = scope, NEW r \in Rnd, EgressWithoutTick(r)
  PROVE  /\ TypeOK' /\ \A q \in Rnd \ {r} : Same(q)
         /\ faults' = faults + 1
         /\ \E c \in Command, x \in Session :
              audit'[r] = audit[r] \o <<Delta(x, c, tick[r] + 1)>>
         /\ inbox[r] # <<>> /\ inbox'[r] \in {inbox[r], Tail(inbox[r])}
         /\ UNCHANGED <<tick, committed, sent, trace, result>>
<1> DEFINE c == Head(inbox[r])
           p == Peer(c.sender)
           d == Delta(p, c, tick[r] + 1)
           v == Append(wire[r][p], d.rec)
<1>1. /\ inbox \in [Rnd -> Seq(Command)] /\ tick \in [Rnd -> Nat] /\ faults \in Nat
      /\ echo \in [Rnd -> BOOLEAN] /\ wire \in [Rnd -> [Role -> Seq(Rec)]]
  BY DEF TypeOK
<1>2. /\ inbox[r] # <<>> /\ faults' = faults + 1
      /\ Write(r, <<d>>)
      /\ wire' = [wire EXCEPT ![r][p] = v]
      /\ echo' = [echo EXCEPT ![r] = TRUE]
      /\ inbox' \in {inbox, [inbox EXCEPT ![r] = Tail(@)]}
      /\ UNCHANGED <<tick, committed, sent, trace, result>>
  BY DEF EgressWithoutTick, FaultBudget
<1>3. inbox[r] \in Seq(Command) /\ c \in Command /\ Tail(inbox[r]) \in Seq(Command)
  <2>1. inbox[r] \in Seq(Command)
    BY <1>1
  <2> QED BY <1>2, <2>1, HeadTailProperties
<1>4. p \in Role /\ p \in Session
  <2>1. c.sender \in Role
    BY <1>3 DEF Command
  <2>2. p \in Role
    BY <2>1, PeerFacts
  <2> QED BY <2>2 DEF Session
<1>5. tick[r] \in Nat /\ tick[r] + 1 \in Nat
  <2>1. tick[r] \in Nat
    BY <1>1
  <2> QED BY <2>1
<1>6. d \in AuditLine /\ d.rec \in Rec
  <2>1. d \in AuditLine
    BY <1>3, <1>4, <1>5, Writings
  <2> HIDE DEF d
  <2> QED BY <2>1 DEF AuditLine
<1>7. /\ audit' \in [Rnd -> Seq(AuditLine)]
      /\ audit'[r] = audit[r] \o <<d>>
      /\ \A q \in Rnd \ {r} : audit'[q] = audit[q]
  <2> HIDE DEF d
  <2>1. <<d>> \in Seq(AuditLine)
    BY <1>6
  <2> QED BY <1>2, <2>1, WriteAppends
<1>8. /\ wire' \in [Rnd -> [Role -> Seq(Rec)]]
      /\ \A q \in Rnd \ {r} : wire'[q] = wire[q]
  <2> HIDE DEF d, p
  <2>1. wire[r][p] \in Seq(Rec)
    BY <1>1, <1>4
  <2>2. v \in Seq(Rec)
    BY <1>6, <2>1, AppendProperties
  <2> HIDE DEF v
  <2> QED BY <1>1, <1>2, <1>4, <2>2
<1>9. /\ echo' \in [Rnd -> BOOLEAN] /\ \A q \in Rnd \ {r} : echo'[q] = echo[q]
  BY <1>1, <1>2
<1>10. /\ inbox' \in [Rnd -> Seq(Command)] /\ \A q \in Rnd \ {r} : inbox'[q] = inbox[q]
  BY <1>1, <1>2, <1>3
<1>11. Rnd' = Rnd
  BY DEF Rnd
<1>12. TypeOK'
  <2>1. TypeOK /\ faults' \in Nat
    BY <1>1, <1>2
  <2> QED
    BY ONLY scope' = scope, <1>2, <1>7, <1>8, <1>9, <1>10, <1>11, <2>1 DEF TypeOK
<1>13. \A q \in Rnd \ {r} : Same(q)
  BY <1>2, <1>7, <1>8, <1>9, <1>10 DEF Same
<1>14. \E e \in Command, x \in Session :
         audit'[r] = audit[r] \o <<Delta(x, e, tick[r] + 1)>>
  BY <1>3, <1>4, <1>7
<1>15. inbox'[r] \in {inbox[r], Tail(inbox[r])}
  BY <1>1, <1>2
<1> QED
  BY ONLY <1>2, <1>12, <1>13, <1>14, <1>15

(* A command is forgotten.                                                    *)
LEMMA ForgetDoes ==
  ASSUME TypeOK, scope' = scope, NEW r \in Rnd, Forget(r)
  PROVE  /\ TypeOK' /\ \A q \in Rnd \ {r} : Same(q)
         /\ faults' = faults + 1
         /\ inbox[r] # <<>> /\ inbox'[r] = Tail(inbox[r])
         /\ UNCHANGED <<tick, committed, echo, wire, sent, audit, trace, result>>
<1> DEFINE v == Tail(inbox[r])
<1>1. inbox \in [Rnd -> Seq(Command)] /\ faults \in Nat
  BY DEF TypeOK
<1>2. /\ inbox[r] # <<>> /\ faults' = faults + 1
      /\ inbox' = [inbox EXCEPT ![r] = v]
      /\ UNCHANGED <<tick, committed, echo, wire, sent, audit, trace, result>>
  BY DEF Forget, FaultBudget
<1>3. v \in Seq(Command)
  <2>1. inbox[r] \in Seq(Command)
    BY <1>1
  <2> QED BY <1>2, <2>1, HeadTailProperties
<1> HIDE DEF v
<1>4. /\ inbox' \in [Rnd -> Seq(Command)] /\ inbox'[r] = v
      /\ \A q \in Rnd \ {r} : inbox'[q] = inbox[q]
  BY <1>1, <1>2, <1>3, InOneRound
<1>5. Rnd' = Rnd
  BY DEF Rnd
<1>6. TypeOK'
  <2>1. TypeOK /\ faults' \in Nat
    BY <1>1, <1>2
  <2> QED BY ONLY scope' = scope, <1>2, <1>4, <1>5, <2>1 DEF TypeOK
<1>7. \A q \in Rnd \ {r} : Same(q)
  BY <1>2, <1>4 DEF Same
<1> QED
  BY <1>2, <1>4, <1>6, <1>7 DEF v

(* A side hears the next record on its wire.                                  *)
LEMMA HearDoes ==
  ASSUME TypeOK, scope' = scope, NEW r \in Rnd, NEW w \in Role, Hear(r, w),
         NEW x, x = Head(wire[r][w])
  PROVE  /\ TypeOK' /\ \A q \in Rnd \ {r} : Same(q)
         /\ Running(r, w) /\ wire[r][w] # <<>> /\ x \in Rec
         /\ result'[r][w].received = Append(result[r][w].received, x)
         /\ result'[r][w].status = result[r][w].status
         /\ wire'[r][w] = Tail(wire[r][w])
         /\ \A u \in Role \ {w} : result'[r][u] = result[r][u] /\ wire'[r][u] = wire[r][u]
         /\ trace'[r] = IF w = "bot" THEN Append(trace[r], Event("delta_received", x))
                        ELSE trace[r]
         /\ UNCHANGED <<inbox, tick, committed, echo, sent, audit, faults>>
<1> DEFINE s == Append(result[r][w].received, x)
           v == Tail(wire[r][w])
<1>1. wire \in [Rnd -> [Role -> Seq(Rec)]] /\ result \in [Rnd -> [Role -> Outcome]]
  BY DEF TypeOK
<1>2. /\ Running(r, w) /\ wire[r][w] # <<>>
      /\ result' = [result EXCEPT ![r][w].received = s]
      /\ Trace(r, w, Event("delta_received", x))
      /\ wire' = [wire EXCEPT ![r][w] = v]
      /\ UNCHANGED <<inbox, tick, committed, echo, sent, audit, faults>>
  BY DEF Hear
<1>3. wire[r][w] \in Seq(Rec) /\ result[r][w] \in Outcome
  BY <1>1
<1>4. x \in Rec /\ v \in Seq(Rec)
  BY <1>2, <1>3, HeadTailProperties
<1>5. s \in Seq(Rec)
  <2>1. result[r][w].received \in Seq(Rec)
    BY <1>3 DEF Outcome
  <2> QED BY <1>4, <2>1, AppendProperties
<1> HIDE DEF s, v
<1>6. /\ wire' \in [Rnd -> [Role -> Seq(Rec)]] /\ wire'[r][w] = v
      /\ \A u \in Role \ {w} : wire'[r][u] = wire[r][u]
      /\ \A q \in Rnd \ {r} : wire'[q] = wire[q]
  BY <1>1, <1>2, <1>4
<1>7. /\ result' \in [Rnd -> [Role -> Outcome]]
      /\ result'[r][w].received = s /\ result'[r][w].status = result[r][w].status
      /\ \A u \in Role \ {w} : result'[r][u] = result[r][u]
      /\ \A q \in Rnd \ {r} : result'[q] = result[q]
  <2> DEFINE o == [result[r][w] EXCEPT !.received = s]
  <2>1. o \in Outcome /\ o.received = s /\ o.status = result[r][w].status
    BY <1>3, <1>5 DEF Outcome
  <2>2. result' = [result EXCEPT ![r][w] = o]
    BY <1>1, <1>2
  <2> HIDE DEF o
  <2> QED BY <1>1, <2>1, <2>2
<1>8. /\ trace' \in [Rnd -> Seq(TraceEvent)]
      /\ trace'[r] = IF w = "bot" THEN Append(trace[r], Event("delta_received", x))
                     ELSE trace[r]
      /\ \A q \in Rnd \ {r} : trace'[q] = trace[q]
  BY <1>2, <1>4, Writings, TraceAppends
<1>9. Rnd' = Rnd
  BY DEF Rnd
<1>10. TypeOK'
  <2>1. TypeOK
    OBVIOUS
  <2> QED BY ONLY scope' = scope, <1>2, <1>6, <1>7, <1>8, <1>9, <2>1 DEF TypeOK
<1>11. \A q \in Rnd \ {r} : Same(q)
  BY <1>2, <1>6, <1>7, <1>8 DEF Same
<1> QED
  BY <1>2, <1>4, <1>6, <1>7, <1>8, <1>10, <1>11 DEF s, v

(* A side is done.                                                            *)
LEMMA FinishDoes ==
  ASSUME TypeOK, scope' = scope, NEW r \in Rnd, NEW w \in Role, Finish(r, w),
         NEW ok, ok = (sent[r][w] = scope.commands /\ result[r][w].received # <<>>)
  PROVE  /\ TypeOK' /\ \A q \in Rnd \ {r} : Same(q)
         /\ Running(r, w)
         /\ result'[r][w].received = result[r][w].received
         /\ result'[r][w].status = IF ok THEN "ok" ELSE "failed"
         /\ \A u \in Role \ {w} : result'[r][u] = result[r][u]
         /\ trace'[r] = IF w = "bot"
                        THEN Append(trace[r], [Event("bot_finished", Nothing) EXCEPT !.ok = ok])
                        ELSE trace[r]
         /\ UNCHANGED <<inbox, tick, committed, echo, wire, sent, audit, faults>>
<1>1. result \in [Rnd -> [Role -> Outcome]]
  BY DEF TypeOK
<1> DEFINE s == IF ok THEN "ok" ELSE "failed"
<1>2. /\ Running(r, w)
      /\ result' = [result EXCEPT ![r][w].status = s]
      /\ Trace(r, w, [Event("bot_finished", Nothing) EXCEPT !.ok = ok])
      /\ UNCHANGED <<inbox, tick, committed, echo, wire, sent, audit, faults>>
  BY DEF Finish, server
<1>3. s \in {"pending", "ok", "failed"}
  OBVIOUS
<1> HIDE DEF s
<1>4. /\ result' \in [Rnd -> [Role -> Outcome]]
      /\ result'[r][w].status = s /\ result'[r][w].received = result[r][w].received
      /\ \A u \in Role \ {w} : result'[r][u] = result[r][u]
      /\ \A q \in Rnd \ {r} : result'[q] = result[q]
  <2> DEFINE o == [result[r][w] EXCEPT !.status = s]
  <2>1. o \in Outcome /\ o.status = s /\ o.received = result[r][w].received
    <3>1. result[r][w] \in Outcome
      BY <1>1
    <3> QED BY <1>3, <3>1 DEF Outcome
  <2>2. result' = [result EXCEPT ![r][w] = o]
    BY <1>1, <1>2
  <2> HIDE DEF o
  <2> QED BY <1>1, <2>1, <2>2
<1>5. /\ trace' \in [Rnd -> Seq(TraceEvent)]
      /\ trace'[r] = IF w = "bot"
                     THEN Append(trace[r], [Event("bot_finished", Nothing) EXCEPT !.ok = ok])
                     ELSE trace[r]
      /\ \A q \in Rnd \ {r} : trace'[q] = trace[q]
  <2>1. ok \in BOOLEAN
    OBVIOUS
  <2> DEFINE e == [Event("bot_finished", Nothing) EXCEPT !.ok = ok]
  <2>2. e \in TraceEvent /\ Trace(r, w, e)
    BY <1>2, <2>1, Writings
  <2> HIDE DEF e
  <2>3. /\ trace' \in [Rnd -> Seq(TraceEvent)]
        /\ trace'[r] = IF w = "bot" THEN Append(trace[r], e) ELSE trace[r]
        /\ \A q \in Rnd \ {r} : trace'[q] = trace[q]
    BY <2>2, TraceAppends
  <2> QED BY <2>3 DEF e
<1>6. Rnd' = Rnd
  BY DEF Rnd
<1>7. TypeOK'
  <2>1. TypeOK
    OBVIOUS
  <2> QED BY ONLY scope' = scope, <1>2, <1>4, <1>5, <1>6, <2>1 DEF TypeOK
<1>8. \A q \in Rnd \ {r} : Same(q)
  BY <1>2, <1>4, <1>5 DEF Same
<1> QED
  BY <1>2, <1>4, <1>5, <1>7, <1>8 DEF s

(* The server ends.                                                           *)
LEMMA ShutdownDoes ==
  ASSUME TypeOK, scope' = scope, NEW r \in Rnd, Shutdown(r)
  PROVE  /\ TypeOK' /\ \A q \in Rnd \ {r} : Same(q)
         /\ audit'[r] = audit[r] \o <<Line("server_shutdown", "stray", Nothing)>>
         /\ UNCHANGED <<inbox, tick, committed, echo, wire, sent, trace, result, faults>>
<1> DEFINE l == Line("server_shutdown", "stray", Nothing)
<1>1. /\ Write(r, <<l>>)
      /\ UNCHANGED <<inbox, tick, committed, echo, wire, sent, trace, result, faults>>
  BY DEF Shutdown, server
<1>2. l \in AuditLine
  BY Writings
<1> HIDE DEF l
<1>3. /\ audit' \in [Rnd -> Seq(AuditLine)]
      /\ audit'[r] = audit[r] \o <<l>>
      /\ \A q \in Rnd \ {r} : audit'[q] = audit[q]
  <2>1. <<l>> \in Seq(AuditLine)
    BY <1>2
  <2> QED BY <1>1, <2>1, WriteAppends
<1>4. Rnd' = Rnd
  BY DEF Rnd
<1>5. TypeOK'
  <2>1. TypeOK
    OBVIOUS
  <2> QED BY ONLY scope' = scope, <1>1, <1>3, <1>4, <2>1 DEF TypeOK
<1>6. \A q \in Rnd \ {r} : Same(q)
  BY <1>1, <1>3 DEF Same
<1> QED
  BY <1>1, <1>3, <1>5, <1>6 DEF l

(* What damage leaves of a sequence whose last value is altered to those of A. *)
Leavings(s, A) ==
  LET n == Len(s)
      front == SubSeq(s, 1, n - 1)
  IN {front, Append(s, s[n])}
       \cup {Append(front, x) : x \in A}
       \cup (IF n = 1 THEN {} ELSE {SubSeq(s, 1, n - 2) \o <<s[n], s[n - 1]>>})

(* The values of what damage leaves are of the same set.                      *)
LEMMA DamagedType ==
  ASSUME NEW S, NEW s \in Seq(S), s # <<>>, NEW A \in SUBSET S
  PROVE  Leavings(s, A) \subseteq Seq(S)
<1> DEFINE n == Len(s)
           front == SubSeq(s, 1, n - 1)
<1>1. n \in Nat /\ n > 0
  BY EmptySeq, LenProperties
<1>2. s[n] \in S
  BY <1>1, ElementOfSeq
<1>3. front \in Seq(S)
  <2>1. \A i \in 1..(n - 1) : s[i] \in S
    BY <1>1, ElementOfSeq
  <2> QED BY <1>1, <2>1, SubSeqProperties
<1>4. Append(s, s[n]) \in Seq(S)
  BY <1>2, AppendProperties
<1>5. \A x \in A : Append(front, x) \in Seq(S)
  BY <1>3, AppendProperties
<1>6. ASSUME n # 1 PROVE SubSeq(s, 1, n - 2) \o <<s[n], s[n - 1]>> \in Seq(S)
  <2>0. n - 2 \in Nat /\ n - 1 \in 1..n
    <3> HIDE DEF n
    <3>1. n >= 2
      BY <1>1, <1>6
    <3> QED BY <1>1, <3>1
  <2>1. \A i \in 1..(n - 2) : s[i] \in S
    <3>1. \A i \in 1..(n - 2) : i \in 1..n
      BY <1>1
    <3> QED BY <3>1, ElementOfSeq
  <2>2. SubSeq(s, 1, n - 2) \in Seq(S)
    <3> HIDE DEF n
    <3> QED BY <2>1, <2>0, SubSeqProperties
  <2>3. s[n - 1] \in S
    BY <2>0, ElementOfSeq
  <2>4. <<s[n], s[n - 1]>> \in Seq(S)
    BY <1>2, <2>3
  <2> QED BY <2>2, <2>4, ConcatProperties
<1> QED
  BY <1>3, <1>4, <1>5, <1>6 DEF Leavings

(* Altering keeps a record a record, a line a line and an event an event.     *)
LEMMA AlteredType ==
  /\ \A x \in Rec : AlteredKey(x) \subseteq Rec /\ AlteredRecord(x) \subseteq Rec
  /\ \A x \in AuditLine : AlteredLine(x) \subseteq AuditLine
  /\ \A x \in TraceEvent : AlteredEvent(x) \subseteq TraceEvent
<1>1. ASSUME NEW x \in Rec PROVE AlteredKey(x) \subseteq Rec
  <2>1. [x EXCEPT !.tick = @ + 1] \in Rec
    BY DEF Rec
  <2>2. ASSUME x.sender \in Role
        PROVE  {[x EXCEPT !.sender = Peer(@)], [x EXCEPT !.seq = @ + 1], [x EXCEPT !.sha = "other"]}
                 \subseteq Rec
    <3>1. Peer(x.sender) \in Role
      BY <2>2, PeerFacts
    <3>2. [x EXCEPT !.sender = Peer(@)] \in Rec
      BY <3>1 DEF Rec
    <3>3. [x EXCEPT !.seq = @ + 1] \in Rec
      BY DEF Rec
    <3>4. [x EXCEPT !.sha = "other"] \in Rec
      BY DEF Rec
    <3> QED BY <3>2, <3>3, <3>4
  <2> QED BY <2>1, <2>2 DEF AlteredKey
<1>2. ASSUME NEW x \in Rec PROVE AlteredRecord(x) \subseteq Rec
  <2>1. [x EXCEPT !.late = TRUE] \in Rec
    BY DEF Rec
  <2> QED BY <1>1, <2>1 DEF AlteredRecord
<1>3. ASSUME NEW x \in AuditLine PROVE AlteredLine(x) \subseteq AuditLine
  <2>1. x.rec \in Rec
    BY DEF AuditLine
  <2>2. \A y \in AlteredKey(x.rec) : y \in Rec
    BY <1>1, <2>1
  <2>3. \A y \in Rec : [x EXCEPT !.rec = y] \in AuditLine
    BY DEF AuditLine
  <2>4. [x EXCEPT !.kind = "mangled"] \in AuditLine
    BY DEF AuditLine
  <2>5. [x EXCEPT !.count = 0] \in AuditLine
    BY DEF AuditLine
  <2>6. [x EXCEPT !.session = "stray"] \in AuditLine
    BY DEF AuditLine, Session
  <2> QED BY <2>2, <2>3, <2>4, <2>5, <2>6 DEF AlteredLine
<1>4. ASSUME NEW x \in TraceEvent PROVE AlteredEvent(x) \subseteq TraceEvent
  <2>1. x.rec \in Rec
    BY DEF TraceEvent
  <2>2. \A y \in AlteredRecord(x.rec) : y \in Rec
    BY <1>2, <2>1
  <2>3. \A y \in Rec : [x EXCEPT !.rec = y] \in TraceEvent
    BY DEF TraceEvent
  <2>4. [x EXCEPT !.kind = "mangled"] \in TraceEvent
    BY DEF TraceEvent
  <2>5. [x EXCEPT !.ok = FALSE] \in TraceEvent
    BY DEF TraceEvent
  <2> QED BY <2>2, <2>3, <2>4, <2>5 DEF AlteredEvent
<1> QED
  BY <1>1, <1>2, <1>3, <1>4

(* Evidence is damaged: the audit, or what the clients kept.                  *)
LEMMA DamageDoes ==
  ASSUME TypeOK, scope' = scope, NEW r \in Rnd, Damage(r)
  PROVE  /\ TypeOK' /\ \A q \in Rnd \ {r} : Same(q)
         /\ faults' = faults + 1
         /\ UNCHANGED <<inbox, tick, committed, echo, wire, sent>>
         /\ audit' = audit \/ UNCHANGED <<trace, result>>
<1>1. /\ audit \in [Rnd -> Seq(AuditLine)] /\ trace \in [Rnd -> Seq(TraceEvent)]
      /\ result \in [Rnd -> [Role -> Outcome]] /\ faults \in Nat
  BY DEF TypeOK
<1>2. /\ faults' = faults + 1
      /\ UNCHANGED <<inbox, tick, committed, echo, wire, sent>>
  BY DEF Damage, FaultBudget, server
<1>3. faults' \in Nat
  BY <1>1, <1>2
<1>4. Rnd' = Rnd
  BY DEF Rnd
<1>5. CASE /\ audit[r] # <<>>
           /\ audit' \in {[audit EXCEPT ![r] = s] : s \in Damaged(audit[r], AlteredLine)}
           /\ UNCHANGED <<trace, result>>
  <2>1. audit[r] \in Seq(AuditLine)
    BY <1>1
  <2>2. PICK n : n = Len(audit[r])
    OBVIOUS
  <2>4. AlteredLine(audit[r][n]) \subseteq AuditLine
    <3>1. n \in 1..Len(audit[r])
      BY <1>5, <2>1, <2>2, EmptySeq, LenProperties
    <3>2. audit[r][n] \in AuditLine
      BY <2>1, <3>1, ElementOfSeq
    <3> QED BY <3>2, AlteredType
  <2>5. Damaged(audit[r], AlteredLine) \subseteq Seq(AuditLine)
    <3>1. Damaged(audit[r], AlteredLine) = Leavings(audit[r], AlteredLine(audit[r][Len(audit[r])]))
      BY DEF Damaged, Leavings
    <3> QED BY <1>5, <2>1, <2>2, <2>4, <3>1, DamagedType
  <2>6. /\ audit' \in [Rnd -> Seq(AuditLine)]
        /\ \A q \in Rnd \ {r} : audit'[q] = audit[q]
    BY <1>1, <1>5, <2>5
  <2>7. TypeOK'
    <3>1. TypeOK /\ UNCHANGED <<trace, result>>
      BY <1>5
    <3> QED BY ONLY scope' = scope, <1>2, <1>3, <1>4, <2>6, <3>1 DEF TypeOK
  <2>8. \A q \in Rnd \ {r} : Same(q)
    BY <1>2, <1>5, <2>6 DEF Same
  <2> QED BY <1>2, <1>5, <2>7, <2>8
<1>6. CASE /\ trace[r] # <<>>
           /\ trace' \in {[trace EXCEPT ![r] = s] : s \in Damaged(trace[r], AlteredEvent)}
           /\ UNCHANGED <<audit, result>>
  <2>1. trace[r] \in Seq(TraceEvent)
    BY <1>1
  <2>2. PICK n : n = Len(trace[r])
    OBVIOUS
  <2>4. AlteredEvent(trace[r][n]) \subseteq TraceEvent
    <3>1. n \in 1..Len(trace[r])
      BY <1>6, <2>1, <2>2, EmptySeq, LenProperties
    <3>2. trace[r][n] \in TraceEvent
      BY <2>1, <3>1, ElementOfSeq
    <3> QED BY <3>2, AlteredType
  <2>5. Damaged(trace[r], AlteredEvent) \subseteq Seq(TraceEvent)
    <3>1. Damaged(trace[r], AlteredEvent) = Leavings(trace[r], AlteredEvent(trace[r][Len(trace[r])]))
      BY DEF Damaged, Leavings
    <3> QED BY <1>6, <2>1, <2>2, <2>4, <3>1, DamagedType
  <2>6. /\ trace' \in [Rnd -> Seq(TraceEvent)]
        /\ \A q \in Rnd \ {r} : trace'[q] = trace[q]
    BY <1>1, <1>6, <2>5
  <2>7. TypeOK'
    <3>1. TypeOK /\ UNCHANGED <<audit, result>>
      BY <1>6
    <3> QED BY ONLY scope' = scope, <1>2, <1>3, <1>4, <2>6, <3>1 DEF TypeOK
  <2>8. \A q \in Rnd \ {r} : Same(q)
    BY <1>2, <1>6, <2>6 DEF Same
  <2> QED BY <1>2, <1>6, <2>7, <2>8
<1>7. CASE /\ \E w \in Role :
                /\ result[r][w].received # <<>>
                /\ result' \in {[result EXCEPT ![r][w].received = s] :
                                  s \in Damaged(result[r][w].received, AlteredRecord)}
           /\ UNCHANGED <<audit, trace>>
  <2>1. PICK w \in Role :
          /\ result[r][w].received # <<>>
          /\ result' \in {[result EXCEPT ![r][w].received = s] :
                            s \in Damaged(result[r][w].received, AlteredRecord)}
    BY <1>7
  <2>2. result[r][w] \in Outcome
    BY <1>1
  <2>3. PICK t : t = result[r][w].received
    OBVIOUS
  <2>4. t \in Seq(Rec) /\ t # <<>>
    BY <2>1, <2>2, <2>3 DEF Outcome
  <2>5. PICK n : n = Len(t)
    OBVIOUS
  <2>7. AlteredRecord(t[n]) \subseteq Rec
    <3>1. n \in 1..Len(t)
      BY <2>4, <2>5, EmptySeq, LenProperties
    <3>2. t[n] \in Rec
      BY <2>4, <3>1, ElementOfSeq
    <3> QED BY <3>2, AlteredType
  <2>8. Damaged(t, AlteredRecord) \subseteq Seq(Rec)
    <3>1. Damaged(t, AlteredRecord) = Leavings(t, AlteredRecord(t[Len(t)]))
      BY DEF Damaged, Leavings
    <3> QED BY <2>4, <2>5, <2>7, <3>1, DamagedType
  <2>9. PICK s \in Seq(Rec) : result' = [result EXCEPT ![r][w].received = s]
    BY <2>1, <2>3, <2>8
  <2>10. /\ result' \in [Rnd -> [Role -> Outcome]]
         /\ \A q \in Rnd \ {r} : result'[q] = result[q]
    <3> DEFINE o == [result[r][w] EXCEPT !.received = s]
    <3>1. o \in Outcome
      BY <2>2 DEF Outcome
    <3>2. result' = [result EXCEPT ![r][w] = o]
      BY <1>1, <2>9
    <3> HIDE DEF o
    <3> QED BY <1>1, <3>1, <3>2
  <2>11. TypeOK'
    <3>1. TypeOK /\ UNCHANGED <<audit, trace>>
      BY <1>7
    <3> QED BY ONLY scope' = scope, <1>2, <1>3, <1>4, <2>10, <3>1 DEF TypeOK
  <2>12. \A q \in Rnd \ {r} : Same(q)
    BY <1>2, <1>7, <2>10 DEF Same
  <2> QED BY <1>2, <1>7, <2>11, <2>12
<1> QED
  BY <1>5, <1>6, <1>7 DEF Damage

-----------------------------------------------------------------------------
(* The inductive invariant for EchoIsRejected and AcceptedIsCommitted          *)

(* A delta without an earlier tick of its number.                             *)
Uncovered(a) ==
  \E d \in At(a, "delta_routed") : \A t \in At(a, "tick_committed") :
    t < d => a[t].rec.tick # a[d].rec.tick

(* A command whose own session gets the delta of the first tick after it.     *)
Echoed(a) ==
  \E i \in At(a, "ingress_received"), t \in At(a, "tick_committed"), d \in At(a, "delta_routed") :
    /\ i < t /\ i < d /\ a[t].count >= 1
    /\ \A u \in At(a, "tick_committed") : i < u /\ a[u].count >= 1 => t <= u
    /\ a[d].rec = [a[i].rec EXCEPT !.tick = a[t].rec.tick]
    /\ a[d].session = a[i].session

(* What the verifier will refuse whatever is written after it.                *)
Bad(a) == Uncovered(a) \/ Echoed(a)

(* The n-th command of w waits for a tick; is committed.                      *)
Waiting(q, w, n) == \E i \in 1..Len(inbox[q]) : inbox[q][i] = [sender |-> w, seq |-> n]
Done(q, w, n) == \E c \in committed[q] : c.sender = w /\ c.seq = n

(* An ingress line that no delta answers.                                     *)
Unanswered(a, w, n) ==
  /\ \E i \in At(a, "ingress_received") : a[i] = Ingress(w, n)
  /\ \A d \in At(a, "delta_routed") : a[d].rec.sender # w \/ a[d].rec.seq # n

(* Every delta of the audit is that of a committed command; so is every record *)
(* that was received or is on its way.                                        *)
DeltasTrue(q) == \A d \in At(audit[q], "delta_routed") : audit[q][d].rec \in committed[q]

ReceivedTrue(q) ==
  /\ Received(q) \subseteq committed[q]
  /\ \A w \in Role : \A i \in 1..Len(wire[q][w]) : Key(wire[q][w][i]) \in committed[q]

(* No tick of the audit is later than the last.                               *)
TicksPast(q) == \A t \in At(audit[q], "tick_committed") : audit[q][t].rec.tick <= tick[q]

(* A waiting command is in the audit, after the last tick, and not answered.  *)
InboxWritten(q) ==
  \A i \in 1..Len(inbox[q]) :
    LET c == inbox[q][i]
    IN /\ c.seq <= sent[q][c.sender]
       /\ \E l \in At(audit[q], "ingress_received") :
            /\ audit[q][l] = Ingress(c.sender, c.seq)
            /\ \A t \in At(audit[q], "tick_committed") : t < l
       /\ \A d \in At(audit[q], "delta_routed") :
            audit[q][d].rec.sender # c.sender \/ audit[q][d].rec.seq # c.seq

(* Only what was sent is committed.                                           *)
CommittedSent(q) ==
  \A c \in committed[q] : c.sender \in Role /\ c.seq <= sent[q][c.sender]

(* As long as nothing went wrong.                                             *)
Sound(q) ==
  /\ ~echo[q] /\ TicksPast(q) /\ InboxWritten(q) /\ CommittedSent(q)
  /\ DeltasTrue(q) /\ ReceivedTrue(q)
  /\ \A w \in Role : \A n \in 1..sent[q][w] : Waiting(q, w, n) \/ Done(q, w, n)

(* After one fault: it has left its mark in the audit, or did no harm.        *)
Marked(q) ==
  /\ echo[q] => Bad(audit[q])
  /\ Bad(audit[q]) \/ DeltasTrue(q) \/ ReceivedTrue(q)
  /\ \A w \in Role : \A n \in 1..sent[q][w] :
       Waiting(q, w, n) \/ Done(q, w, n) \/ Bad(audit[q]) \/ Unanswered(audit[q], w, n)

(* The invariant of a round, and of all: two faults may cover each other.     *)
RoundInv(q) == (faults = 0 => Sound(q)) /\ (faults <= 1 => Marked(q))

IInv == TypeOK /\ \A q \in Rnd : RoundInv(q)

-----------------------------------------------------------------------------
(* What is written after a line *)

(* The lines of kind k of b are those of a and, shifted, those of l.           *)
Spliced(a, l, b, k) ==
  /\ \A i \in At(a, k) : i \in 1..Len(a) /\ i \in At(b, k) /\ b[i] = a[i]
  /\ \A j \in At(l, k) : j \in 1..Len(l) /\ Len(a) + j \in At(b, k) /\ b[Len(a) + j] = l[j]
  /\ \A i \in At(b, k) : i \in At(a, k) \/ \E j \in At(l, k) : i = Len(a) + j

(* The lines of one kind of two audits, one written after the other.          *)
LEMMA AtJoined ==
  ASSUME NEW a \in Seq(AuditLine), NEW l \in Seq(AuditLine), NEW b, b = a \o l
  PROVE  Len(a) \in Nat /\ Len(l) \in Nat /\ \A k : Spliced(a, l, b, k)
<1>1. Len(a) \in Nat /\ Len(l) \in Nat /\ DOMAIN a = 1..Len(a) /\ DOMAIN l = 1..Len(l)
  BY LenProperties
<1>2. b \in Seq(AuditLine) /\ Joined(a, l)
  BY ConcatAt
<1>3. DOMAIN b = 1..(Len(a) + Len(l))
  BY <1>1, <1>2, LenProperties DEF Joined
<1>4. /\ \A i \in 1..Len(a) : b[i] = a[i] /\ i \in DOMAIN b
      /\ \A j \in 1..Len(l) : b[Len(a) + j] = l[j] /\ Len(a) + j \in DOMAIN b
  BY <1>1, <1>2, <1>3 DEF Joined
<1>5. ASSUME NEW i \in DOMAIN b
      PROVE  i \in 1..Len(a) \/ \E j \in 1..Len(l) : i = Len(a) + j
  <2>1. i \in 1..Len(a) \/ (i - Len(a) \in 1..Len(l) /\ i = Len(a) + (i - Len(a)))
    BY <1>1, <1>3
  <2> QED BY <2>1
<1>6. ASSUME NEW k PROVE Spliced(a, l, b, k)
  <2>1. \A i \in At(a, k) : i \in 1..Len(a) /\ i \in At(b, k) /\ b[i] = a[i]
    BY <1>1, <1>4 DEF At
  <2>2. \A j \in At(l, k) : j \in 1..Len(l) /\ Len(a) + j \in At(b, k) /\ b[Len(a) + j] = l[j]
    BY <1>1, <1>4 DEF At
  <2>3. \A i \in At(b, k) : i \in At(a, k) \/ \E j \in At(l, k) : i = Len(a) + j
    <3> TAKE i \in At(b, k)
    <3>1. i \in DOMAIN b /\ b[i].kind = k
      BY DEF At
    <3>2. CASE i \in 1..Len(a)
      BY <1>1, <1>4, <3>1, <3>2 DEF At
    <3>3. CASE \E j \in 1..Len(l) : i = Len(a) + j
      BY <1>1, <1>4, <3>1, <3>3 DEF At
    <3> QED BY <1>5, <3>1, <3>2, <3>3
  <2> QED BY <2>1, <2>2, <2>3 DEF Spliced
<1> QED
  BY <1>1, <1>6

(* What is bad stays bad when lines are written after it.                     *)
LEMMA BadStays ==
  ASSUME NEW a \in Seq(AuditLine), NEW l \in Seq(AuditLine), Bad(a)
  PROVE  Bad(a \o l)
<1> DEFINE b == a \o l
<1>1. Len(a) \in Nat /\ Len(l) \in Nat /\ \A k : Spliced(a, l, b, k)
  BY AtJoined
<1> HIDE DEF b
<1>2. /\ \A k : \A i \in At(a, k) : i \in 1..Len(a) /\ i \in At(b, k) /\ b[i] = a[i]
      /\ \A k : \A i \in At(b, k) : i \in At(a, k) \/ i > Len(a)
  <2>1. \A k : \A i \in At(b, k) : i \in At(a, k) \/ i > Len(a)
    <3> TAKE k
    <3> TAKE i \in At(b, k)
    <3>1. i \in At(a, k) \/ \E j \in At(l, k) : i = Len(a) + j
      BY <1>1 DEF Spliced
    <3>2. \A j \in At(l, k) : j \in 1..Len(l)
      BY <1>1 DEF Spliced
    <3> QED BY <1>1, <3>1, <3>2
  <2> QED BY <1>1, <2>1 DEF Spliced
<1>3. CASE Uncovered(a)
  <2>1. PICK d \in At(a, "delta_routed") : \A t \in At(a, "tick_committed") :
          t < d => a[t].rec.tick # a[d].rec.tick
    BY <1>3 DEF Uncovered
  <2>2. d \in At(b, "delta_routed") /\ b[d] = a[d] /\ d \in 1..Len(a)
    BY <1>2
  <2>3. ASSUME NEW t \in At(b, "tick_committed"), t < d PROVE b[t].rec.tick # b[d].rec.tick
    <3>1. t \in At(a, "tick_committed")
      <4>1. t \in At(a, "tick_committed") \/ t > Len(a)
        BY <1>2
      <4>2. t \in At(a, "tick_committed") => t \in 1..Len(a)
        BY <1>2
      <4>3. ~(t > Len(a))
        <5> SUFFICES ASSUME t > Len(a) PROVE FALSE
          OBVIOUS
        <5>1. t \in Int
          <6>1. t \in At(a, "tick_committed") \/ \E j \in At(l, "tick_committed") : t = Len(a) + j
            BY <1>1 DEF Spliced
          <6>2. \A j \in At(l, "tick_committed") : j \in 1..Len(l)
            BY <1>1 DEF Spliced
          <6> QED BY <1>1, <4>2, <6>1, <6>2
        <5> QED BY <1>1, <2>2, <2>3, <5>1
      <4> QED BY <4>1, <4>3
    <3> QED BY <1>2, <2>1, <2>2, <2>3, <3>1
  <2> QED BY <2>2, <2>3 DEF Uncovered, Bad, b
<1>4. CASE Echoed(a)
  <2>1. PICK i \in At(a, "ingress_received"), t \in At(a, "tick_committed"),
             d \in At(a, "delta_routed") :
          /\ i < t /\ i < d /\ a[t].count >= 1
          /\ \A u \in At(a, "tick_committed") : i < u /\ a[u].count >= 1 => t <= u
          /\ a[d].rec = [a[i].rec EXCEPT !.tick = a[t].rec.tick]
          /\ a[d].session = a[i].session
    BY <1>4 DEF Echoed
  <2>2. /\ i \in At(b, "ingress_received") /\ b[i] = a[i]
        /\ t \in At(b, "tick_committed") /\ b[t] = a[t] /\ t \in 1..Len(a)
        /\ d \in At(b, "delta_routed") /\ b[d] = a[d]
    BY <1>2
  <2>3. ASSUME NEW u \in At(b, "tick_committed"), i < u, b[u].count >= 1 PROVE t <= u
    <3>1. CASE u \in At(a, "tick_committed")
      BY <1>2, <2>1, <2>3, <3>1
    <3>2. CASE u > Len(a)
      <4>1. u \in Int
        <5>1. u \in At(a, "tick_committed") \/ \E j \in At(l, "tick_committed") : u = Len(a) + j
          BY <1>1 DEF Spliced
        <5>2. \A j \in At(l, "tick_committed") : j \in 1..Len(l)
          BY <1>1 DEF Spliced
        <5>3. u \in At(a, "tick_committed") => u \in 1..Len(a)
          BY <1>2
        <5> QED BY <1>1, <5>1, <5>2, <5>3
      <4> QED BY <1>1, <2>2, <3>2, <4>1
    <3> QED BY <1>2, <3>1, <3>2
  <2>4. /\ i < t /\ i < d /\ b[t].count >= 1
        /\ b[d].rec = [b[i].rec EXCEPT !.tick = b[t].rec.tick]
        /\ b[d].session = b[i].session
    BY <2>1, <2>2
  <2>5. Echoed(b)
    BY ONLY <2>2, <2>3, <2>4 DEF Echoed
  <2> QED BY <2>5 DEF Bad, b
<1> QED
  BY <1>3, <1>4 DEF Bad

(* The verifier refuses what is bad, and a command that nothing answers.      *)
LEMMA BadIsRefused ==
  ASSUME NEW a \in Seq(AuditLine)
  PROVE  /\ Bad(a) => ~AuditChain(a)
         /\ \A w, n : Unanswered(a, w, n) => ~AuditChain(a)
<1>0. \A k : \A i \in At(a, k) : i \in Nat
  <2>1. DOMAIN a = 1..Len(a) /\ Len(a) \in Nat
    BY LenProperties
  <2> QED BY <2>1 DEF At
<1>1. ASSUME Uncovered(a) PROVE ~AuditChain(a)
  BY <1>1 DEF Uncovered, AuditChain, DeltaCovered
<1>2. ASSUME Echoed(a) PROVE ~AuditChain(a)
  <2>1. PICK i \in At(a, "ingress_received"), t \in At(a, "tick_committed"),
             d \in At(a, "delta_routed") :
          /\ i < t /\ i < d /\ a[t].count >= 1
          /\ \A u \in At(a, "tick_committed") : i < u /\ a[u].count >= 1 => t <= u
          /\ a[d].rec = [a[i].rec EXCEPT !.tick = a[t].rec.tick]
          /\ a[d].session = a[i].session
    BY <1>2 DEF Echoed
  <2>2. i \in Nat /\ t \in Nat /\ d \in Nat
    BY <1>0
  <2> DEFINE ticks == {u \in At(a, "tick_committed") : u > i /\ a[u].count >= 1}
             first == CHOOSE x \in ticks : \A u \in ticks : x <= u
             matched == {x \in At(a, "delta_routed") :
                           x > i /\ a[x].rec = [a[i].rec EXCEPT !.tick = a[first].rec.tick]}
  <2>3. t \in ticks /\ \A u \in ticks : t <= u
    BY <1>0, <2>1, <2>2
  <2>4. first \in ticks /\ \A u \in ticks : first <= u
    BY <2>3
  <2>5. first \in Nat /\ first <= t /\ t <= first
    <3> HIDE DEF first
    <3> QED BY <1>0, <2>3, <2>4
  <2>6. first = t
    <3> HIDE DEF first
    <3> QED BY <2>2, <2>5
  <2> HIDE DEF first
  <2>7. d \in matched
    BY <2>1, <2>2, <2>6
  <2>8. ~IngressAnswered(a, i)
    BY <2>1, <2>7 DEF IngressAnswered, first
  <2> QED BY <2>8 DEF AuditChain
<1>3. ASSUME NEW w, NEW n, Unanswered(a, w, n) PROVE ~AuditChain(a)
  <2>1. PICK i \in At(a, "ingress_received") : a[i] = Ingress(w, n)
    BY <1>3 DEF Unanswered
  <2>2. \A t : LET x == [a[i].rec EXCEPT !.tick = t] IN x.sender = w /\ x.seq = n
    BY <2>1 DEF Ingress, Line, Record
  <2>3. \A d \in At(a, "delta_routed") : \A t : a[d].rec # [a[i].rec EXCEPT !.tick = t]
    BY <1>3, <2>2 DEF Unanswered
  <2>4. ~IngressAnswered(a, i)
    BY <2>3 DEF IngressAnswered
  <2> QED BY <2>4 DEF AuditChain
<1> QED
  BY <1>1, <1>2, <1>3 DEF Bad

(* Lines that do not answer it leave a command unanswered.                    *)
LEMMA UnansweredStays ==
  ASSUME NEW a \in Seq(AuditLine), NEW l \in Seq(AuditLine), NEW w, NEW n, Unanswered(a, w, n),
         \A j \in At(l, "delta_routed") : l[j].rec.sender # w \/ l[j].rec.seq # n
  PROVE  Unanswered(a \o l, w, n)
<1> DEFINE b == a \o l
<1>1. \A k : Spliced(a, l, b, k)
  BY AtJoined
<1> HIDE DEF b
<1>2. \E i \in At(b, "ingress_received") : b[i] = Ingress(w, n)
  BY <1>1 DEF Unanswered, Spliced
<1>3. \A d \in At(b, "delta_routed") : b[d].rec.sender # w \/ b[d].rec.seq # n
  BY <1>1 DEF Unanswered, Spliced
<1> QED
  BY <1>2, <1>3 DEF Unanswered, b

(* A line that is neither a tick nor a delta leaves the ticks and deltas.     *)
Quiet(a, l, b) ==
  /\ Len(a) \in Nat
  /\ \A k \in {"tick_committed", "delta_routed"} :
       At(b, k) = At(a, k) /\ \A i \in At(a, k) : b[i] = a[i] /\ i \in 1..Len(a)
  /\ \A i \in At(a, "ingress_received") : i \in At(b, "ingress_received") /\ b[i] = a[i]
  /\ l.kind = "ingress_received" =>
       Len(a) + 1 \in At(b, "ingress_received") /\ b[Len(a) + 1] = l
  /\ Bad(a) => Bad(b)
  /\ \A w, n : Unanswered(a, w, n) => Unanswered(b, w, n)

(* A line that is neither a tick nor a delta is quiet.                        *)
LEMMA QuietLine ==
  ASSUME NEW a \in Seq(AuditLine), NEW l \in AuditLine, NEW b, b = a \o <<l>>,
         l.kind # "tick_committed", l.kind # "delta_routed"
  PROVE  Quiet(a, l, b)
<1>1. <<l>> \in Seq(AuditLine) /\ Len(<<l>>) = 1 /\ <<l>>[1] = l /\ DOMAIN <<l>> = {1}
  OBVIOUS
<1>2. Len(a) \in Nat /\ \A k : Spliced(a, <<l>>, b, k)
  BY <1>1, AtJoined
<1>3. \A k : At(<<l>>, k) = IF l.kind = k THEN {1} ELSE {}
  BY <1>1 DEF At
<1>4. ASSUME NEW k \in {"tick_committed", "delta_routed"}
      PROVE  At(b, k) = At(a, k) /\ \A i \in At(a, k) : b[i] = a[i] /\ i \in 1..Len(a)
  <2>1. At(<<l>>, k) = {} /\ Spliced(a, <<l>>, b, k)
    BY <1>2, <1>3
  <2> QED BY <2>1 DEF Spliced
<1>5. \A i \in At(a, "ingress_received") : i \in At(b, "ingress_received") /\ b[i] = a[i]
  BY <1>2 DEF Spliced
<1>6. ASSUME l.kind = "ingress_received"
      PROVE  Len(a) + 1 \in At(b, "ingress_received") /\ b[Len(a) + 1] = l
  <2>1. 1 \in At(<<l>>, "ingress_received")
    BY <1>3, <1>6
  <2> QED BY <1>1, <1>2, <2>1 DEF Spliced
<1>7. Bad(a) => Bad(b)
  BY <1>1, BadStays
<1>8. \A w, n : Unanswered(a, w, n) => Unanswered(b, w, n)
  <2>1. At(<<l>>, "delta_routed") = {}
    BY <1>3
  <2> QED BY <1>1, <2>1, UnansweredStays
<1> QED
  BY ONLY <1>2, <1>4, <1>5, <1>6, <1>7, <1>8 DEF Quiet

(* What a client has received grows by what it is told.                       *)
LEMMA ReceivedGrows ==
  ASSUME TypeOK, NEW r \in Rnd, NEW new,
         \A u \in Role : \/ result'[r][u].received = result[r][u].received
                         \/ \E x \in Rec : /\ Key(x) \in new
                                           /\ result'[r][u].received = Append(result[r][u].received, x),
         \/ trace'[r] = trace[r]
         \/ \E e \in TraceEvent : /\ trace'[r] = Append(trace[r], e)
                                  /\ e.kind = "delta_received" => Key(e.rec) \in new
  PROVE  Received(r)' \subseteq Received(r) \cup new
<1>1. trace[r] \in Seq(TraceEvent) /\ \A u \in Role : result[r][u].received \in Seq(Rec)
  <2>1. \A u \in Role : result[r][u] \in Outcome
    BY DEF TypeOK
  <2> QED BY <2>1 DEF TypeOK, Outcome
<1>2. ASSUME NEW u \in Role, NEW i \in DOMAIN result'[r][u].received
      PROVE  Key(result'[r][u].received[i]) \in new
             \/ \E j \in DOMAIN result[r][u].received :
                  Key(result'[r][u].received[i]) = Key(result[r][u].received[j])
  <2>1. CASE result'[r][u].received = result[r][u].received
    BY <1>2, <2>1
  <2>2. ASSUME NEW x \in Rec, Key(x) \in new,
               result'[r][u].received = Append(result[r][u].received, x)
        PROVE  Key(result'[r][u].received[i]) \in new
               \/ \E j \in DOMAIN result[r][u].received :
                    Key(result'[r][u].received[i]) = Key(result[r][u].received[j])
    <3>1. PICK s \in Seq(Rec) : s = result[r][u].received
      BY <1>1
    <3>2. PICK t : t = Append(s, x)
      OBVIOUS
    <3>3. /\ DOMAIN s = 1..Len(s) /\ Len(s) \in Nat /\ DOMAIN t = 1..(Len(s) + 1)
          /\ t[Len(s) + 1] = x /\ \A j \in 1..Len(s) : t[j] = s[j]
      BY <3>2, AppendProperties, LenProperties
    <3>4. result'[r][u].received = t
      BY <2>2, <3>1, <3>2
    <3>5. i \in 1..(Len(s) + 1)
      BY <1>2, <3>3, <3>4
    <3>6. CASE i = Len(s) + 1
      BY <2>2, <3>3, <3>4, <3>6
    <3>7. CASE i \in 1..Len(s)
      BY <3>1, <3>3, <3>4, <3>7
    <3> QED BY <3>3, <3>5, <3>6, <3>7
  <2> QED BY <2>1, <2>2
<1>3. ASSUME NEW i \in At(trace'[r], "delta_received")
      PROVE  Key(trace'[r][i].rec) \in new
             \/ \E j \in At(trace[r], "delta_received") :
                  Key(trace'[r][i].rec) = Key(trace[r][j].rec)
  <2>1. CASE trace'[r] = trace[r]
    BY <1>3, <2>1
  <2>2. ASSUME NEW e \in TraceEvent, trace'[r] = Append(trace[r], e),
               e.kind = "delta_received" => Key(e.rec) \in new
        PROVE  Key(trace'[r][i].rec) \in new
               \/ \E j \in At(trace[r], "delta_received") :
                    Key(trace'[r][i].rec) = Key(trace[r][j].rec)
    <3>1. PICK s \in Seq(TraceEvent) : s = trace[r]
      BY <1>1
    <3>2. PICK t : t = Append(s, e)
      OBVIOUS
    <3>3. /\ DOMAIN s = 1..Len(s) /\ Len(s) \in Nat /\ DOMAIN t = 1..(Len(s) + 1)
          /\ t[Len(s) + 1] = e /\ \A j \in 1..Len(s) : t[j] = s[j]
      BY <3>2, AppendProperties, LenProperties
    <3>4. trace'[r] = t
      BY <2>2, <3>1, <3>2
    <3>5. i \in 1..(Len(s) + 1) /\ t[i].kind = "delta_received"
      BY <1>3, <3>3, <3>4 DEF At
    <3>6. CASE i = Len(s) + 1
      BY <2>2, <3>3, <3>4, <3>5, <3>6
    <3>7. CASE i \in 1..Len(s)
      <4>1. i \in At(s, "delta_received") /\ t[i] = s[i]
        BY <3>3, <3>5, <3>7 DEF At
      <4> QED BY <3>1, <3>4, <4>1
    <3> QED BY <3>3, <3>5, <3>6, <3>7
  <2> QED BY <2>1, <2>2
<1>4. "browser" \in Role /\ "bot" \in Role
  BY DEF Role
<1> QED
  BY <1>2, <1>3, <1>4 DEF Received

(* The other round is left alone.                                             *)
LEMMA SameKeeps ==
  ASSUME TypeOK, faults' \in Nat, faults' >= faults, NEW q \in Rnd, Same(q), RoundInv(q)
  PROVE  RoundInv(q)'
<1>1. faults \in Nat
  BY DEF TypeOK
<1>2. (faults' = 0 => faults = 0) /\ (faults' <= 1 => faults <= 1)
  BY <1>1
<1>3. Received(q)' = Received(q)
  BY DEF Same, Received
<1>4. Sound(q) => Sound(q)'
  <2>1. DeltasTrue(q) => DeltasTrue(q)'
    BY DEF DeltasTrue, Same
  <2>2. ReceivedTrue(q) => ReceivedTrue(q)'
    BY <1>3 DEF ReceivedTrue, Same
  <2>3. (TicksPast(q) => TicksPast(q)') /\ (CommittedSent(q) => CommittedSent(q)')
    BY DEF TicksPast, CommittedSent, Same
  <2>4. InboxWritten(q) => InboxWritten(q)'
    BY DEF InboxWritten, Same
  <2>5. \A w, n : (Waiting(q, w, n) => Waiting(q, w, n)') /\ (Done(q, w, n) => Done(q, w, n)')
    BY DEF Waiting, Done, Same
  <2> QED BY <2>1, <2>2, <2>3, <2>4, <2>5 DEF Sound, Same
<1>5. Marked(q) => Marked(q)'
  <2>1. DeltasTrue(q) => DeltasTrue(q)'
    BY DEF DeltasTrue, Same
  <2>2. ReceivedTrue(q) => ReceivedTrue(q)'
    BY <1>3 DEF ReceivedTrue, Same
  <2>3. \A w, n : (Waiting(q, w, n) => Waiting(q, w, n)') /\ (Done(q, w, n) => Done(q, w, n)')
    BY DEF Waiting, Done, Same
  <2> QED BY <2>1, <2>2, <2>3 DEF Marked, Same
<1> QED
  BY <1>2, <1>4, <1>5 DEF RoundInv

-----------------------------------------------------------------------------
(* The actions keep the invariant *)

(* Sending keeps the invariant of its round.                                  *)
LEMMA SendKeeps ==
  ASSUME TypeOK, scope' = scope, NEW r \in Rnd, NEW w \in Role, Send(r, w), RoundInv(r)
  PROVE  RoundInv(r)'
<1> DEFINE a == audit[r]
           b == audit'[r]
<1>0. PICK n : n = sent[r][w] + 1
  OBVIOUS
<1>1. /\ n \in Nat /\ sent'[r][w] = n /\ \A x \in Role \ {w} : sent'[r][x] = sent[r][x]
      /\ inbox'[r] = Append(inbox[r], [sender |-> w, seq |-> n])
      /\ b = a \o <<Ingress(w, n)>>
      /\ trace'[r] = IF w = "bot" THEN Append(trace[r], Event("command_sent", Record(w, n, 0)))
                     ELSE trace[r]
      /\ UNCHANGED <<tick, committed, echo, wire, result, faults>>
  BY <1>0, SendDoes
<1>2. /\ inbox[r] \in Seq(Command) /\ a \in Seq(AuditLine) /\ \A x \in Role : sent[r][x] \in Nat
  <2>1. sent[r] \in [Role -> Nat]
    BY DEF TypeOK
  <2> QED BY <2>1 DEF TypeOK
<1>3. PICK l \in AuditLine : l = Ingress(w, n)
  BY <1>1, Writings
<1>4. l.kind = "ingress_received" /\ l.kind # "tick_committed" /\ l.kind # "delta_routed"
  BY <1>3 DEF Ingress, Line
<1>5. /\ Len(a) \in Nat
      /\ \A k \in {"tick_committed", "delta_routed"} :
              At(b, k) = At(a, k) /\ \A i \in At(a, k) : b[i] = a[i] /\ i \in 1..Len(a)
      /\ \A i \in At(a, "ingress_received") : i \in At(b, "ingress_received") /\ b[i] = a[i]
      /\ Len(a) + 1 \in At(b, "ingress_received") /\ b[Len(a) + 1] = l
      /\ Bad(a) => Bad(b)
      /\ \A x, m : Unanswered(a, x, m) => Unanswered(b, x, m)
  <2>1. b = a \o <<l>>
    BY <1>1, <1>3
  <2>2. Quiet(a, l, b)
    BY <1>2, <1>4, <2>1, QuietLine
  <2> HIDE DEF a, b
  <2> QED BY <1>4, <2>2 DEF Quiet
<1>6. Received(r)' \subseteq Received(r)
  <2>1. \/ trace'[r] = trace[r]
        \/ \E e \in TraceEvent : /\ trace'[r] = Append(trace[r], e)
                                 /\ e.kind = "delta_received" => Key(e.rec) \in {}
    <3>1. PICK e \in TraceEvent : e = Event("command_sent", Record(w, n, 0))
      BY <1>1, Writings
    <3>2. e.kind # "delta_received"
      BY <3>1 DEF Event
    <3> QED BY <1>1, <3>1, <3>2
  <2>2. Received(r)' \subseteq Received(r) \cup {}
    BY <1>1, <2>1, ReceivedGrows
  <2> QED BY <2>2
<1>7. /\ \A i \in 1..Len(inbox[r]) : i \in 1..Len(inbox'[r]) /\ inbox'[r][i] = inbox[r][i]
      /\ Len(inbox[r]) + 1 \in 1..Len(inbox'[r])
      /\ inbox'[r][Len(inbox[r]) + 1] = [sender |-> w, seq |-> n]
      /\ \A i \in 1..Len(inbox'[r]) : i \in 1..Len(inbox[r]) \/ i = Len(inbox[r]) + 1
  <2>1. PICK box \in Seq(Command) : box = inbox[r]
    BY <1>2
  <2>2. [sender |-> w, seq |-> n] \in Command
    BY <1>1 DEF Command
  <2>3. PICK c \in Command : c = [sender |-> w, seq |-> n]
    BY <2>2
  <2>4. PICK box2 : box2 = Append(box, c)
    OBVIOUS
  <2>5. /\ Len(box) \in Nat /\ Len(box2) = Len(box) + 1
        /\ \A i \in 1..Len(box) : box2[i] = box[i]
        /\ box2[Len(box) + 1] = c
    BY <2>4, AppendProperties, LenProperties
  <2>6. inbox'[r] = box2
    BY <1>1, <2>1, <2>3, <2>4
  <2> QED BY <2>1, <2>3, <2>5, <2>6
<1>8. \A x \in Role : \A m \in Nat : m <= sent[r][x] => m <= sent'[r][x]
  <2> TAKE x \in Role
  <2>1. x = w => sent'[r][x] = sent[r][x] + 1
    BY <1>0, <1>1
  <2>2. sent[r][x] \in Nat /\ (x # w => sent'[r][x] = sent[r][x])
    BY <1>1, <1>2
  <2> QED BY <2>1, <2>2
<1>9. \A x, m : (Waiting(r, x, m) => Waiting(r, x, m)') /\ (Done(r, x, m) => Done(r, x, m)')
  BY <1>1, <1>7 DEF Waiting, Done
<1>10. Waiting(r, w, n)'
  BY <1>7 DEF Waiting
<1>11. \A x \in Role : \A m \in 1..sent'[r][x] : m \in 1..sent[r][x] \/ (x = w /\ m = n)
  <2> TAKE x \in Role
  <2>1. CASE x = w
    <3>1. sent[r][w] \in Nat
      BY <1>2
    <3> QED BY <1>0, <1>1, <2>1, <3>1
  <2>2. CASE x # w
    BY <1>1, <2>2
  <2> QED BY <2>1, <2>2
<1>12. DeltasTrue(r) => DeltasTrue(r)'
  BY <1>1, <1>5 DEF DeltasTrue
<1>13. ReceivedTrue(r) => ReceivedTrue(r)'
  BY <1>1, <1>6 DEF ReceivedTrue
<1>14. Sound(r) => Sound(r)'
  <2> SUFFICES ASSUME Sound(r) PROVE Sound(r)'
    OBVIOUS
  <2>1. TicksPast(r)'
    BY <1>1, <1>5 DEF Sound, TicksPast
  <2>2. CommittedSent(r)'
    <3>1. committed[r] \subseteq Rec
      BY DEF TypeOK
    <3>2. \A c \in committed[r] : c.seq \in Nat
      BY <3>1 DEF Rec
    <3> QED BY <1>1, <1>8, <3>2 DEF Sound, CommittedSent
  <2>3. InboxWritten(r)'
    <3>1. ASSUME NEW i \in 1..Len(inbox[r]), NEW c, c = inbox[r][i]
          PROVE  /\ c.seq <= sent'[r][c.sender]
                 /\ \E j \in At(b, "ingress_received") :
                      /\ b[j] = Ingress(c.sender, c.seq)
                      /\ \A t \in At(b, "tick_committed") : t < j
                 /\ \A d \in At(b, "delta_routed") :
                      b[d].rec.sender # c.sender \/ b[d].rec.seq # c.seq
      <4>1. c \in Command
        BY <1>2, <3>1, ElementOfSeq
      <4>2. c.sender \in Role /\ c.seq \in Nat
        BY <4>1 DEF Command
      <4>3. c.seq <= sent'[r][c.sender]
        BY <1>8, <3>1, <4>2 DEF Sound, InboxWritten
      <4>4. \E j \in At(a, "ingress_received") :
              /\ a[j] = Ingress(c.sender, c.seq)
              /\ \A t \in At(a, "tick_committed") : t < j
        BY <3>1 DEF Sound, InboxWritten
      <4>5. \A d \in At(a, "delta_routed") : a[d].rec.sender # c.sender \/ a[d].rec.seq # c.seq
        BY <3>1 DEF Sound, InboxWritten
      <4>6. \A d \in At(b, "delta_routed") : b[d].rec.sender # c.sender \/ b[d].rec.seq # c.seq
        BY <1>5, <4>5
      <4>7. \E j \in At(b, "ingress_received") :
              /\ b[j] = Ingress(c.sender, c.seq)
              /\ \A t \in At(b, "tick_committed") : t < j
        <5> HIDE DEF a, b
        <5> QED BY <1>5, <4>4
      <4> QED BY <4>3, <4>6, <4>7
    <3>2. ASSUME NEW c, c = [sender |-> w, seq |-> n]
          PROVE  /\ c.seq <= sent'[r][c.sender]
                 /\ \E j \in At(b, "ingress_received") :
                      /\ b[j] = Ingress(c.sender, c.seq)
                      /\ \A t \in At(b, "tick_committed") : t < j
                 /\ \A d \in At(b, "delta_routed") :
                      b[d].rec.sender # c.sender \/ b[d].rec.seq # c.seq
      <4>1. c.sender = w /\ c.seq = n /\ n <= sent'[r][w]
        BY <1>1, <3>2
      <4>2. \A t \in At(b, "tick_committed") : t < Len(a) + 1
        <5> HIDE DEF a, b
        <5>1. \A t \in At(b, "tick_committed") : t \in 1..Len(a)
          BY <1>5
        <5> QED BY <1>5, <5>1
      <4>3. ASSUME NEW d \in At(b, "delta_routed"), b[d].rec.sender = w, b[d].rec.seq = n
            PROVE  FALSE
        <5>1. d \in At(a, "delta_routed") /\ b[d] = a[d]
          BY <1>5
        <5>2. a[d].rec \in committed[r]
          BY <5>1 DEF Sound, DeltasTrue
        <5>3. a[d].rec.seq <= sent[r][w]
          BY <4>3, <5>1, <5>2 DEF Sound, CommittedSent
        <5>4. n <= sent[r][w] /\ sent[r][w] \in Nat
          BY <1>2, <4>3, <5>1, <5>3
        <5> QED BY <1>0, <5>4
      <4>4. Len(a) + 1 \in At(b, "ingress_received") /\ b[Len(a) + 1] = Ingress(w, n)
        BY <1>3, <1>5
      <4> HIDE DEF a, b
      <4> QED BY <4>1, <4>2, <4>3, <4>4
    <3>3. ASSUME NEW i \in 1..Len(inbox'[r])
          PROVE  LET c == inbox'[r][i]
                 IN /\ c.seq <= sent'[r][c.sender]
                    /\ \E j \in At(b, "ingress_received") :
                         /\ b[j] = Ingress(c.sender, c.seq)
                         /\ \A t \in At(b, "tick_committed") : t < j
                    /\ \A d \in At(b, "delta_routed") :
                         b[d].rec.sender # c.sender \/ b[d].rec.seq # c.seq
      <4> HIDE DEF a, b
      <4>1. CASE i \in 1..Len(inbox[r])
        BY <1>7, <3>1, <4>1
      <4>2. CASE i = Len(inbox[r]) + 1
        BY <1>7, <3>2, <4>2
      <4> QED BY <1>7, <4>1, <4>2
    <3> QED BY <3>3 DEF InboxWritten
  <2>4. ~echo'[r]
    BY <1>1 DEF Sound
  <2>5. \A x \in Role : \A m \in 1..sent'[r][x] : Waiting(r, x, m)' \/ Done(r, x, m)'
    BY <1>9, <1>10, <1>11 DEF Sound
  <2> QED BY <1>12, <1>13, <2>1, <2>2, <2>3, <2>4, <2>5 DEF Sound
<1>15. Marked(r) => Marked(r)'
  <2> SUFFICES ASSUME Marked(r) PROVE Marked(r)'
    OBVIOUS
  <2>1. echo'[r] => Bad(b)
    BY <1>1, <1>5 DEF Marked
  <2>2. Bad(b) \/ DeltasTrue(r)' \/ ReceivedTrue(r)'
    BY <1>5, <1>12, <1>13 DEF Marked
  <2>3. \A x \in Role : \A m \in 1..sent'[r][x] :
          Waiting(r, x, m)' \/ Done(r, x, m)' \/ Bad(b) \/ Unanswered(b, x, m)
    BY <1>5, <1>9, <1>10, <1>11 DEF Marked
  <2> QED BY <2>1, <2>2, <2>3 DEF Marked
<1> QED
  BY <1>1, <1>14, <1>15 DEF RoundInv

(* b is a with a tick's line and its deltas.                                  *)
Ticked(a, tl, ds, b) ==
  /\ Len(a) \in Nat
  /\ At(b, "ingress_received") = At(a, "ingress_received")
  /\ \A k : \A i \in At(a, k) : i \in 1..Len(a) /\ i \in At(b, k) /\ b[i] = a[i]
  /\ \A i \in At(b, "tick_committed") : i \in At(a, "tick_committed") \/ i = Len(a) + 1
  /\ Len(a) + 1 \in At(b, "tick_committed") /\ b[Len(a) + 1] = tl
  /\ \A i \in At(b, "delta_routed") :
       i \in At(a, "delta_routed") \/ \E j \in 1..Len(ds) : i = Len(a) + (1 + j)
  /\ \A j \in 1..Len(ds) :
       Len(a) + (1 + j) \in At(b, "delta_routed") /\ b[Len(a) + (1 + j)] = ds[j]
  /\ Bad(a) => Bad(b)
  /\ \A w, n : /\ Unanswered(a, w, n)
               /\ \A j \in 1..Len(ds) : ds[j].rec.sender # w \/ ds[j].rec.seq # n
               => Unanswered(b, w, n)

(* Where the lines of a tick and of its deltas stand.                         *)
LEMMA TickLines ==
  ASSUME NEW a \in Seq(AuditLine), NEW tl \in AuditLine, tl.kind = "tick_committed",
         NEW ds \in Seq(AuditLine), \A j \in 1..Len(ds) : ds[j].kind = "delta_routed",
         NEW b, b = a \o (<<tl>> \o ds)
  PROVE  Ticked(a, tl, ds, b)
<1> DEFINE l == <<tl>> \o ds
<1>1. <<tl>> \in Seq(AuditLine) /\ Len(<<tl>>) = 1 /\ <<tl>>[1] = tl
  OBVIOUS
<1>2. l \in Seq(AuditLine) /\ Joined(<<tl>>, ds) /\ Len(ds) \in Nat
  BY <1>1, ConcatAt, LenProperties
<1>3. /\ Len(l) = 1 + Len(ds) /\ l[1] = tl /\ \A j \in 1..Len(ds) : l[1 + j] = ds[j]
      /\ DOMAIN l = 1..(1 + Len(ds))
  BY <1>1, <1>2, LenProperties DEF Joined
<1>4. b = a \o l
  OBVIOUS
<1> HIDE DEF l
<1>5. Len(a) \in Nat /\ \A k : Spliced(a, l, b, k)
  BY <1>2, <1>4, AtJoined
<1>6. \A i \in DOMAIN l : i = 1 \/ \E j \in 1..Len(ds) : i = 1 + j
  <2> TAKE i \in DOMAIN l
  <2>1. i = 1 \/ (i - 1 \in 1..Len(ds) /\ i = 1 + (i - 1))
    BY <1>2, <1>3
  <2> QED BY <2>1
<1>7. At(l, "ingress_received") = {}
  <2>1. \A i \in DOMAIN l : l[i].kind # "ingress_received"
    BY <1>3, <1>6
  <2> QED BY <2>1 DEF At
<1>8. At(l, "tick_committed") = {1}
  <2>1. 1 \in DOMAIN l
    BY <1>2, <1>3
  <2>2. \A i \in DOMAIN l : l[i].kind = "tick_committed" => i = 1
    BY <1>3, <1>6
  <2> QED BY <1>3, <2>1, <2>2 DEF At
<1>9. /\ \A i \in At(l, "delta_routed") : \E j \in 1..Len(ds) : i = 1 + j
      /\ \A j \in 1..Len(ds) : 1 + j \in At(l, "delta_routed") /\ l[1 + j] = ds[j]
  <2>1. \A j \in 1..Len(ds) : 1 + j \in DOMAIN l
    BY <1>2, <1>3
  <2> QED BY <1>3, <1>6, <2>1 DEF At
<1>10. /\ \A k : \A i \in At(a, k) : i \in 1..Len(a) /\ i \in At(b, k) /\ b[i] = a[i]
       /\ At(b, "ingress_received") = At(a, "ingress_received")
       /\ \A i \in At(b, "tick_committed") : i \in At(a, "tick_committed") \/ i = Len(a) + 1
       /\ Len(a) + 1 \in At(b, "tick_committed") /\ b[Len(a) + 1] = tl
  <2>1. \A k : \A i \in At(a, k) : i \in 1..Len(a) /\ i \in At(b, k) /\ b[i] = a[i]
    BY <1>5 DEF Spliced
  <2>2. \A i \in At(b, "ingress_received") : i \in At(a, "ingress_received")
    BY <1>5, <1>7 DEF Spliced
  <2>3. At(b, "ingress_received") = At(a, "ingress_received")
    BY <2>1, <2>2
  <2>4. \A i \in At(b, "tick_committed") : i \in At(a, "tick_committed") \/ i = Len(a) + 1
    <3>1. \A i \in At(b, "tick_committed") :
            i \in At(a, "tick_committed") \/ \E j \in {1} : i = Len(a) + j
      BY <1>5, <1>8 DEF Spliced
    <3> QED BY <3>1
  <2>5. Len(a) + 1 \in At(b, "tick_committed") /\ b[Len(a) + 1] = tl
    <3>1. \A j \in {1} : Len(a) + j \in At(b, "tick_committed") /\ b[Len(a) + j] = l[j]
      BY <1>5, <1>8 DEF Spliced
    <3> QED BY <1>3, <3>1
  <2> QED BY <2>1, <2>3, <2>4, <2>5
<1>11. /\ \A i \in At(b, "delta_routed") :
            i \in At(a, "delta_routed") \/ \E j \in 1..Len(ds) : i = Len(a) + (1 + j)
       /\ \A j \in 1..Len(ds) :
            Len(a) + (1 + j) \in At(b, "delta_routed") /\ b[Len(a) + (1 + j)] = ds[j]
  <2>1. /\ \A i \in At(b, "delta_routed") :
             i \in At(a, "delta_routed") \/ \E j \in At(l, "delta_routed") : i = Len(a) + j
        /\ \A j \in At(l, "delta_routed") :
             Len(a) + j \in At(b, "delta_routed") /\ b[Len(a) + j] = l[j]
    BY <1>5 DEF Spliced
  <2>2. ASSUME NEW i \in At(b, "delta_routed")
        PROVE  i \in At(a, "delta_routed") \/ \E j \in 1..Len(ds) : i = Len(a) + (1 + j)
    BY <1>9, <2>1
  <2>3. ASSUME NEW j \in 1..Len(ds)
        PROVE  Len(a) + (1 + j) \in At(b, "delta_routed") /\ b[Len(a) + (1 + j)] = ds[j]
    <3>1. 1 + j \in At(l, "delta_routed") /\ l[1 + j] = ds[j]
      BY <1>9
    <3> QED BY <2>1, <3>1
  <2> QED BY <2>2, <2>3
<1>12. Bad(a) => Bad(b)
  BY <1>2, <1>4, BadStays
<1>13. ASSUME NEW w, NEW n, Unanswered(a, w, n),
              \A j \in 1..Len(ds) : ds[j].rec.sender # w \/ ds[j].rec.seq # n
       PROVE  Unanswered(b, w, n)
  <2>1. \A i \in At(l, "delta_routed") : l[i].rec.sender # w \/ l[i].rec.seq # n
    <3> TAKE i \in At(l, "delta_routed")
    <3>1. PICK j \in 1..Len(ds) : i = 1 + j
      BY <1>9
    <3>2. l[i] = ds[j]
      BY <1>9, <3>1
    <3> QED BY <1>13, <3>2
  <2> QED BY <1>2, <1>4, <1>13, <2>1, UnansweredStays
<1> QED
  BY ONLY <1>5, <1>10, <1>11, <1>12, <1>13 DEF Ticked

(* A record in time is its own key; with another's tick, it may be the other. *)
LEMMA KeyOf ==
  ASSUME NEW x \in Rec, ~x.late
  PROVE  Key(x) = x
  BY DEF Rec, Key

(* An ingress with the tick of its commit is the record of its delta.         *)
LEMMA Retimed ==
  ASSUME NEW w \in Role, NEW n \in Nat, NEW t \in Nat
  PROVE  /\ [Record(w, n, 0) EXCEPT !.tick = t] = Record(w, n, t)
         /\ Key(Record(w, n, t)) = Record(w, n, t)
<1>1. PICK x \in Rec : x = Record(w, n, 0)
  BY Writings
<1>2. PICK y \in Rec : y = Record(w, n, t)
  BY Writings
<1>3. x.sender = y.sender /\ x.seq = y.seq /\ x.sha = y.sha /\ x.late = y.late /\ y.tick = t /\ ~y.late
  BY <1>1, <1>2 DEF Record
<1>4. [x EXCEPT !.tick = y.tick] = y
  BY ONLY <1>1, <1>2, <1>3, x \in Rec, y \in Rec DEF Rec
<1> QED BY <1>1, <1>2, <1>3, <1>4, KeyOf

(* The lines of the deltas of a tick.                                         *)
LEMMA DeltaLines ==
  ASSUME TypeOK, NEW r \in Rnd, NEW to, NEW i \in 1..Len(inbox[r])
  PROVE  LET d == Deltas(r, to)[i]
             c == inbox[r][i]
         IN /\ d.kind = "delta_routed" /\ d.session = to[i]
            /\ d.rec = Record(c.sender, c.seq, tick[r] + 1)
            /\ d.rec.sender = c.sender /\ d.rec.seq = c.seq /\ d.rec.tick = tick[r] + 1
            /\ Key(d.rec) = d.rec
<1> DEFINE c == inbox[r][i]
           d == Deltas(r, to)[i]
<1>1. d = Delta(to[i], c, tick[r] + 1)
  BY DEF Deltas
<1> HIDE DEF d
<1>2. d.kind = "delta_routed" /\ d.session = to[i] /\ d.rec = Record(c.sender, c.seq, tick[r] + 1)
  BY <1>1 DEF Delta, Line
<1>3. c \in Command /\ tick[r] + 1 \in Nat
  <2>1. inbox[r] \in Seq(Command) /\ tick[r] \in Nat
    BY DEF TypeOK
  <2> QED BY <2>1, ElementOfSeq
<1>4. \A w, n, t : LET x == Record(w, n, t) IN x.sender = w /\ x.seq = n /\ x.tick = t
  BY DEF Record
<1>5. Key(d.rec) = d.rec
  BY <1>2, <1>3, Retimed DEF Command
<1> QED BY <1>2, <1>4, <1>5 DEF d

(* A tick keeps the invariant of its round.                                   *)
LEMMA CommitKeeps ==
  ASSUME TypeOK, scope' = scope, NEW r \in Rnd, Commit(r), RoundInv(r)
  PROVE  RoundInv(r)'
<1> DEFINE a == audit[r]
           b == audit'[r]
           m == Len(inbox[r])
           t == tick[r] + 1
<1>1. /\ TypeOK' /\ m \in Nat /\ m > 0 /\ inbox'[r] = <<>>
      /\ UNCHANGED <<sent, trace, result>>
  BY CommitDoes
<1>2. PICK to : /\ CommitEffect(r, to)
                /\ Deltas(r, to) \in Seq(AuditLine) /\ Len(Deltas(r, to)) = Len(inbox[r])
                /\ \A w \in Role : /\ RoutedTo(Deltas(r, to), w) \in Seq(Rec)
                                   /\ InOrder(RoutedTo(Deltas(r, to), w), Deltas(r, to), w)
  BY CommitDoes
<1>3. PICK ds \in Seq(AuditLine) : ds = Deltas(r, to)
  BY <1>2
<1>4. /\ to \in [1..m -> Session] /\ Len(ds) = m
      /\ faults' >= faults
      /\ tick'[r] = t
      /\ committed'[r] = committed[r] \cup {ds[i].rec : i \in 1..m}
      /\ echo'[r] = (echo[r] \/ \E i \in 1..m : to[i] = inbox[r][i].sender)
      /\ b = a \o (<<TickLine(t, m)>> \o ds)
      /\ \A w \in Role : wire'[r][w] = wire[r][w] \o RoutedTo(ds, w)
  BY <1>2, <1>3 DEF CommitEffect
<1>5. faults' = faults => \A i \in 1..m : to[i] = Peer(inbox[r][i].sender)
  BY <1>2 DEF CommitEffect
<1>6. /\ inbox[r] \in Seq(Command) /\ a \in Seq(AuditLine) /\ tick[r] \in Nat /\ t \in Nat
      /\ faults \in Nat /\ faults' \in Nat /\ \A w \in Role : wire[r][w] \in Seq(Rec)
  <2>1. /\ inbox[r] \in Seq(Command) /\ a \in Seq(AuditLine) /\ tick[r] \in Nat
        /\ faults \in Nat /\ \A w \in Role : wire[r][w] \in Seq(Rec)
    BY DEF TypeOK
  <2>2. faults' \in Nat
    BY <1>1 DEF TypeOK
  <2> QED BY <2>1, <2>2
<1>7. \A i \in 1..m : inbox[r][i] \in Command
  BY <1>6, ElementOfSeq
<1>8. \A i \in 1..m :
        /\ ds[i].kind = "delta_routed" /\ ds[i].session = to[i]
        /\ ds[i].rec = Record(inbox[r][i].sender, inbox[r][i].seq, t)
        /\ ds[i].rec.sender = inbox[r][i].sender /\ ds[i].rec.seq = inbox[r][i].seq
        /\ ds[i].rec.tick = t /\ Key(ds[i].rec) = ds[i].rec
  BY <1>3, DeltaLines
<1>9. PICK tl \in AuditLine : tl = TickLine(t, m)
  BY <1>1, <1>6, Writings
<1>10. tl.kind = "tick_committed" /\ tl.count = m /\ tl.rec.tick = t
  BY <1>9 DEF TickLine, Line, Record
<1>11. Ticked(a, tl, ds, b)
  <2>1. b = a \o (<<tl>> \o ds)
    BY <1>4, <1>9
  <2> HIDE DEF a, b, m, t
  <2> QED BY <1>4, <1>6, <1>8, <1>10, <2>1, TickLines
<1> HIDE DEF a, b, t
<1>12. DeltasTrue(r) => DeltasTrue(r)'
  <2>1. ASSUME \A d \in At(a, "delta_routed") : a[d].rec \in committed[r]
        PROVE  \A d \in At(b, "delta_routed") : b[d].rec \in committed'[r]
    <3> TAKE d \in At(b, "delta_routed")
    <3>1. CASE d \in At(a, "delta_routed")
      BY <1>4, <1>11, <2>1, <3>1 DEF Ticked
    <3>2. CASE \E j \in 1..Len(ds) : d = Len(a) + (1 + j)
      <4>1. PICK j \in 1..Len(ds) : d = Len(a) + (1 + j)
        BY <3>2
      <4>2. b[d] = ds[j] /\ j \in 1..m
        BY <1>4, <1>11, <4>1 DEF Ticked
      <4> QED BY <1>4, <4>2
    <3> QED BY <1>11, <3>1, <3>2 DEF Ticked
  <2> QED BY <2>1 DEF DeltasTrue, a, b
<1>13. ReceivedTrue(r) => ReceivedTrue(r)'
  <2> SUFFICES ASSUME ReceivedTrue(r) PROVE ReceivedTrue(r)'
    OBVIOUS
  <2>1. Received(r)' = Received(r)
    BY <1>1 DEF Received
  <2>2. ASSUME NEW w \in Role, NEW i \in 1..Len(wire'[r][w])
        PROVE  Key(wire'[r][w][i]) \in committed'[r]
    <3>1. PICK R \in Seq(Rec) : R = RoutedTo(ds, w) /\ InOrder(R, ds, w)
      BY <1>2, <1>3
    <3>2. PICK s \in Seq(Rec) : s = wire[r][w]
      BY <1>6
    <3>3. PICK v : v = s \o R
      OBVIOUS
    <3>4. wire'[r][w] = v
      BY <1>4, <3>1, <3>2, <3>3
    <3>5. /\ Len(s) \in Nat /\ Len(R) \in Nat /\ Len(v) = Len(s) + Len(R)
          /\ \A j \in 1..Len(s) : v[j] = s[j]
          /\ \A j \in 1..Len(R) : v[Len(s) + j] = R[j]
      BY <3>3, ConcatAt, LenProperties DEF Joined
    <3>6. i \in 1..Len(s) \/ \E j \in 1..Len(R) : i = Len(s) + j
      <4>1. i \in 1..(Len(s) + Len(R))
        BY <2>2, <3>4, <3>5
      <4>2. i \in 1..Len(s) \/ (i - Len(s) \in 1..Len(R) /\ i = Len(s) + (i - Len(s)))
        BY <3>5, <4>1
      <4> QED BY <4>2
    <3>7. CASE i \in 1..Len(s)
      <4>1. Key(s[i]) \in committed[r]
        BY <3>2, <3>7 DEF ReceivedTrue
      <4> QED BY <1>4, <3>4, <3>5, <3>7, <4>1
    <3>8. CASE \E j \in 1..Len(R) : i = Len(s) + j
      <4>1. PICK j \in 1..Len(R) : i = Len(s) + j
        BY <3>8
      <4>2. PICK f \in [1..Len(R) -> 1..Len(ds)] : \A k \in 1..Len(R) : R[k] = ds[f[k]].rec
        BY <3>1 DEF InOrder
      <4>3. PICK k \in 1..m : R[j] = ds[k].rec
        BY <1>4, <4>2
      <4>4. Key(R[j]) = ds[k].rec
        BY <1>8, <4>3
      <4> QED BY <1>4, <3>4, <3>5, <4>1, <4>4
    <3> QED BY <3>6, <3>7, <3>8
  <2> QED BY <1>4, <2>1, <2>2 DEF ReceivedTrue
<1>14. \A w, n : Waiting(r, w, n) \/ Done(r, w, n) => Done(r, w, n)'
  <2> TAKE w, n
  <2>1. ASSUME Waiting(r, w, n) PROVE Done(r, w, n)'
    <3>1. PICK i \in 1..m : inbox[r][i] = [sender |-> w, seq |-> n]
      BY <2>1 DEF Waiting
    <3>2. ds[i].rec.sender = w /\ ds[i].rec.seq = n
      BY <1>8, <3>1
    <3> QED BY <1>4, <3>2 DEF Done
  <2>2. Done(r, w, n) => Done(r, w, n)'
    BY <1>4 DEF Done
  <2> QED BY <2>1, <2>2
<1>15. Sound(r) => TicksPast(r)' /\ CommittedSent(r)' /\ InboxWritten(r)'
  <2> SUFFICES ASSUME Sound(r) PROVE TicksPast(r)' /\ CommittedSent(r)' /\ InboxWritten(r)'
    OBVIOUS
  <2>1. TicksPast(r)'
    <3>1. ASSUME NEW i \in At(b, "tick_committed") PROVE b[i].rec.tick <= t
      <4>1. CASE i \in At(a, "tick_committed")
        <5>1. b[i] = a[i] /\ a[i].rec.tick <= tick[r]
          BY <1>11, <4>1 DEF Ticked, Sound, TicksPast, a
        <5>2. a[i] \in AuditLine
          BY <1>6, <4>1 DEF At
        <5>3. a[i].rec.tick \in Nat
          BY <5>2 DEF AuditLine, Rec
        <5> QED BY <1>6, <5>1, <5>3 DEF t
      <4>2. CASE i = Len(a) + 1
        BY <1>6, <1>10, <1>11, <4>2 DEF Ticked
      <4> QED BY <1>11, <3>1, <4>1, <4>2 DEF Ticked
    <3> QED BY <1>4, <3>1 DEF TicksPast, b
  <2>2. CommittedSent(r)'
    <3>1. ASSUME NEW i \in 1..m
          PROVE  ds[i].rec.sender \in Role /\ ds[i].rec.seq <= sent[r][ds[i].rec.sender]
      BY <1>7, <1>8 DEF Command, Sound, InboxWritten
    <3> QED BY <1>1, <1>4, <3>1 DEF CommittedSent, Sound
  <2>3. InboxWritten(r)'
    BY <1>1 DEF InboxWritten
  <2> QED BY <2>1, <2>2, <2>3
<1>16. ASSUME faults' = 0 PROVE Sound(r)'
  <2>1. faults = 0 /\ faults' = faults
    BY <1>4, <1>6, <1>16
  <2>2. Sound(r)
    BY <2>1 DEF RoundInv
  <2>3. ~echo'[r]
    <3>1. \A i \in 1..m : to[i] # inbox[r][i].sender
      BY <1>5, <1>7, <2>1, PeerFacts DEF Command
    <3> QED BY <1>4, <2>2, <3>1 DEF Sound
  <2>4. \A w \in Role : \A n \in 1..sent'[r][w] : Waiting(r, w, n)' \/ Done(r, w, n)'
    BY <1>1, <1>14, <2>2 DEF Sound
  <2> QED BY <1>12, <1>13, <1>15, <2>2, <2>3, <2>4 DEF Sound
<1>17. ASSUME Sound(r), NEW i \in 1..m, to[i] = inbox[r][i].sender PROVE Bad(b)
  <2> DEFINE c == inbox[r][i]
             d == Len(a) + (1 + i)
  <2>1. PICK l \in At(a, "ingress_received") :
          a[l] = Ingress(c.sender, c.seq) /\ \A u \in At(a, "tick_committed") : u < l
    BY <1>17 DEF Sound, InboxWritten, a
  <2>2. /\ l \in 1..Len(a) /\ l \in At(b, "ingress_received") /\ b[l] = a[l]
        /\ Len(a) + 1 \in At(b, "tick_committed") /\ b[Len(a) + 1] = tl /\ Len(a) \in Nat
        /\ d \in At(b, "delta_routed") /\ b[d] = ds[i]
    BY <1>4, <1>11 DEF Ticked
  <2>3. b[l].rec = Record(c.sender, c.seq, 0) /\ b[l].session = c.sender
    BY <2>1, <2>2 DEF Ingress, Line
  <2>4. b[d].rec = [b[l].rec EXCEPT !.tick = b[Len(a) + 1].rec.tick] /\ b[d].session = b[l].session
    <3>1. b[d].rec = Record(c.sender, c.seq, t) /\ b[d].session = c.sender
      BY <1>8, <1>17, <2>2
    <3>2. b[Len(a) + 1].rec.tick = t
      BY <1>10, <2>2
    <3>3. [Record(c.sender, c.seq, 0) EXCEPT !.tick = t] = Record(c.sender, c.seq, t)
      BY <1>6, <1>7, Retimed DEF Command
    <3> QED BY <2>3, <3>1, <3>2, <3>3
  <2>5. l < Len(a) + 1 /\ l < d /\ b[Len(a) + 1].count >= 1
    BY <1>1, <1>10, <2>2
  <2>6. ASSUME NEW u \in At(b, "tick_committed"), l < u PROVE Len(a) + 1 <= u
    <3>1. CASE u \in At(a, "tick_committed")
      <4>1. u < l /\ u \in 1..Len(a)
        BY <1>11, <2>1, <3>1 DEF Ticked
      <4> QED BY <2>2, <2>6, <4>1
    <3>2. CASE u = Len(a) + 1
      BY <2>2, <3>2
    <3> QED BY <1>11, <3>1, <3>2 DEF Ticked
  <2> HIDE DEF d
  <2>7. Echoed(b)
    BY ONLY <2>2, <2>4, <2>5, <2>6 DEF Echoed
  <2> QED BY <2>7 DEF Bad
<1>18. ASSUME faults' <= 1 PROVE Marked(r)'
  <2>1. faults <= 1
    BY <1>4, <1>6, <1>18
  <2>2. Marked(r)
    BY <2>1 DEF RoundInv
  <2>3. echo'[r] => Bad(b)
    <3>1. echo[r] => Bad(b)
      BY <1>11, <2>2 DEF Marked, Ticked, a
    <3>2. ASSUME NEW i \in 1..m, to[i] = inbox[r][i].sender PROVE Bad(b)
      <4>1. faults' # faults
        BY <1>5, <1>7, <3>2, PeerFacts DEF Command
      <4>2. faults = 0
        BY <1>4, <1>6, <1>18, <4>1
      <4> QED BY <1>17, <3>2, <4>2 DEF RoundInv
    <3> QED BY <1>4, <3>1, <3>2
  <2>4. Bad(b) \/ DeltasTrue(r)' \/ ReceivedTrue(r)'
    BY <1>11, <1>12, <1>13, <2>2 DEF Marked, Ticked, a
  <2>5. ASSUME NEW w \in Role, NEW n \in 1..sent'[r][w]
        PROVE  Waiting(r, w, n)' \/ Done(r, w, n)' \/ Bad(b) \/ Unanswered(b, w, n)
    <3>1. Waiting(r, w, n) \/ Done(r, w, n) \/ Bad(a) \/ Unanswered(a, w, n)
      BY <1>1, <2>2, <2>5 DEF Marked, a
    <3>2. Bad(a) => Bad(b)
      BY <1>11 DEF Ticked
    <3>3. ASSUME Unanswered(a, w, n), ~Waiting(r, w, n) PROVE Unanswered(b, w, n)
      <4>1. ASSUME NEW j \in 1..Len(ds), ds[j].rec.sender = w, ds[j].rec.seq = n PROVE FALSE
        <5>1. j \in 1..m /\ inbox[r][j] \in Command
          BY <1>4, <1>7
        <5>2. inbox[r][j].sender = w /\ inbox[r][j].seq = n
          BY <1>8, <4>1, <5>1
        <5>3. inbox[r][j] = [sender |-> w, seq |-> n]
          BY <5>1, <5>2 DEF Command
        <5> QED BY <3>3, <5>1, <5>3 DEF Waiting
      <4> QED BY <1>11, <3>3, <4>1 DEF Ticked
    <3> QED BY <1>14, <3>1, <3>2, <3>3
  <2> QED BY <2>3, <2>4, <2>5 DEF Marked, b
<1> QED
  BY <1>16, <1>18 DEF RoundInv

(* A delta without its tick is bad: no tick before it has its number.         *)
LEMMA EgressKeeps ==
  ASSUME TypeOK, scope' = scope, NEW r \in Rnd, EgressWithoutTick(r), RoundInv(r)
  PROVE  RoundInv(r)'
<1> DEFINE a == audit[r]
           b == audit'[r]
<1>1. faults \in Nat /\ faults' = faults + 1 /\ sent' = sent
  BY EgressDoes DEF TypeOK
<1>2. PICK c \in Command, x \in Session : b = a \o <<Delta(x, c, tick[r] + 1)>>
  BY EgressDoes
<1>3. a \in Seq(AuditLine) /\ tick[r] \in Nat
  BY DEF TypeOK
<1>4. PICK d \in AuditLine : d = Delta(x, c, tick[r] + 1)
  BY <1>3, Writings
<1>5. d.kind = "delta_routed" /\ d.rec.tick = tick[r] + 1
  BY <1>4 DEF Delta, Line, Record
<1>6. <<d>> \in Seq(AuditLine) /\ b = a \o <<d>> /\ <<d>>[1] = d /\ DOMAIN <<d>> = {1}
  BY <1>2, <1>4
<1> HIDE DEF a, b
<1>7. Len(a) \in Nat /\ \A k : Spliced(a, <<d>>, b, k)
  BY <1>3, <1>6, AtJoined
<1>8. At(<<d>>, "delta_routed") = {1} /\ At(<<d>>, "tick_committed") = {}
  BY <1>5, <1>6 DEF At
<1>9. Len(a) + 1 \in At(b, "delta_routed") /\ b[Len(a) + 1] = d
  <2>1. \A j \in {1} : Len(a) + j \in At(b, "delta_routed") /\ b[Len(a) + j] = <<d>>[j]
    BY <1>7, <1>8 DEF Spliced
  <2> QED BY <1>6, <2>1
<1>10. \A t \in At(b, "tick_committed") : t \in At(a, "tick_committed") /\ b[t] = a[t]
  BY <1>7, <1>8 DEF Spliced
<1>11. ASSUME faults' <= 1 PROVE Bad(b)
  <2>1. Sound(r)
    BY <1>1, <1>11 DEF RoundInv
  <2>2. ASSUME NEW t \in At(b, "tick_committed") PROVE b[t].rec.tick # b[Len(a) + 1].rec.tick
    <3>1. b[t].rec.tick <= tick[r]
      BY <1>10, <2>1 DEF Sound, TicksPast, a
    <3>2. b[t] \in AuditLine
      BY <1>3, <1>10 DEF At
    <3>3. b[t].rec.tick \in Nat
      BY <3>2 DEF AuditLine, Rec
    <3> QED BY <1>3, <1>5, <1>9, <3>1, <3>3
  <2> QED BY <1>9, <2>2 DEF Bad, Uncovered
<1> QED
  BY <1>1, <1>11 DEF RoundInv, Marked, b

(* A forgotten command has an ingress line that nothing answers.              *)
LEMMA ForgetKeeps ==
  ASSUME TypeOK, scope' = scope, NEW r \in Rnd, Forget(r), RoundInv(r)
  PROVE  RoundInv(r)'
<1>1. /\ faults \in Nat /\ faults' = faults + 1
      /\ inbox[r] # <<>> /\ inbox'[r] = Tail(inbox[r]) /\ inbox[r] \in Seq(Command)
      /\ UNCHANGED <<tick, committed, echo, wire, sent, audit, trace, result>>
  BY ForgetDoes DEF TypeOK
<1>2. ASSUME faults' <= 1 PROVE Marked(r)'
  <2>1. Sound(r)
    BY <1>1, <1>2 DEF RoundInv
  <2>2. DeltasTrue(r)' /\ ~echo'[r]
    BY <1>1, <2>1 DEF Sound, DeltasTrue
  <2>3. ASSUME NEW w \in Role, NEW n \in 1..sent'[r][w]
        PROVE  Waiting(r, w, n)' \/ Done(r, w, n)' \/ Unanswered(audit'[r], w, n)
    <3>1. Done(r, w, n) => Done(r, w, n)'
      BY <1>1 DEF Done
    <3>2. ASSUME NEW i \in 1..Len(inbox[r]), inbox[r][i] = [sender |-> w, seq |-> n]
          PROVE  Waiting(r, w, n)' \/ Unanswered(audit'[r], w, n)
      <4>1. CASE i = 1
        <5>1. /\ \E l \in At(audit[r], "ingress_received") : audit[r][l] = Ingress(w, n)
              /\ \A d \in At(audit[r], "delta_routed") :
                   audit[r][d].rec.sender # w \/ audit[r][d].rec.seq # n
          BY <2>1, <3>2 DEF Sound, InboxWritten
        <5> QED BY <1>1, <5>1 DEF Unanswered
      <4>2. CASE i # 1
        <5>1. /\ Len(Tail(inbox[r])) = Len(inbox[r]) - 1 /\ Len(inbox[r]) \in Nat
              /\ \A j \in 1..Len(Tail(inbox[r])) : Tail(inbox[r])[j] = inbox[r][j + 1]
          BY <1>1, HeadTailProperties, LenProperties
        <5>2. i - 1 \in 1..Len(Tail(inbox[r])) /\ (i - 1) + 1 = i
          BY <4>2, <5>1
        <5>3. Tail(inbox[r])[i - 1] = [sender |-> w, seq |-> n]
          BY <3>2, <5>1, <5>2
        <5> QED BY <1>1, <5>2, <5>3 DEF Waiting
      <4> QED BY <4>1, <4>2
    <3> QED BY <1>1, <2>1, <2>3, <3>1, <3>2 DEF Sound, Waiting
  <2> QED BY <2>2, <2>3 DEF Marked
<1> QED
  BY <1>1, <1>2 DEF RoundInv

(* A step that leaves the server and the audit, and lets the clients receive  *)
(* no more than what was committed, keeps the invariant.                      *)
LEMMA ClientKeeps ==
  ASSUME TypeOK, NEW r \in Rnd, RoundInv(r),
         UNCHANGED <<inbox, tick, committed, echo, sent, audit, faults>>,
         ReceivedTrue(r) => ReceivedTrue(r)'
  PROVE  RoundInv(r)'
<1>1. DeltasTrue(r) => DeltasTrue(r)'
  BY DEF DeltasTrue
<1>2. \A w, n : (Waiting(r, w, n) => Waiting(r, w, n)') /\ (Done(r, w, n) => Done(r, w, n)')
  BY DEF Waiting, Done
<1>3. Sound(r) => Sound(r)'
  <2>1. TicksPast(r)' = TicksPast(r)
    BY DEF TicksPast
  <2>2. InboxWritten(r)' = InboxWritten(r)
    BY DEF InboxWritten
  <2>3. CommittedSent(r)' = CommittedSent(r)
    BY DEF CommittedSent
  <2> QED BY <1>1, <1>2, <2>1, <2>2, <2>3 DEF Sound
<1>4. Marked(r) => Marked(r)'
  BY <1>1, <1>2 DEF Marked
<1> QED
  BY <1>3, <1>4 DEF RoundInv

(* Hearing keeps the invariant of its round.                                  *)
LEMMA HearKeeps ==
  ASSUME TypeOK, scope' = scope, NEW r \in Rnd, NEW w \in Role, Hear(r, w), RoundInv(r)
  PROVE  RoundInv(r)'
<1>0. PICK x : x = Head(wire[r][w])
  OBVIOUS
<1>1. /\ wire[r][w] # <<>> /\ x \in Rec
      /\ result'[r][w].received = Append(result[r][w].received, x)
      /\ wire'[r][w] = Tail(wire[r][w])
      /\ \A u \in Role \ {w} : result'[r][u] = result[r][u] /\ wire'[r][u] = wire[r][u]
      /\ trace'[r] = IF w = "bot" THEN Append(trace[r], Event("delta_received", x))
                     ELSE trace[r]
      /\ UNCHANGED <<inbox, tick, committed, echo, sent, audit, faults>>
  BY <1>0, HearDoes
<1>2. wire[r][w] \in Seq(Rec)
  BY DEF TypeOK
<1>3. ASSUME ReceivedTrue(r) PROVE ReceivedTrue(r)'
  <2>1. /\ 1 \in 1..Len(wire[r][w]) /\ x = wire[r][w][1] /\ Len(wire[r][w]) \in Nat
        /\ Len(Tail(wire[r][w])) = Len(wire[r][w]) - 1
        /\ \A j \in 1..Len(Tail(wire[r][w])) : Tail(wire[r][w])[j] = wire[r][w][j + 1]
    BY <1>0, <1>1, <1>2, HeadTailProperties, LenProperties, EmptySeq
  <2>2. Key(x) \in committed[r]
    BY <1>3, <2>1 DEF ReceivedTrue
  <2>3. \A u \in Role : \/ result'[r][u].received = result[r][u].received
                        \/ \E y \in Rec : /\ Key(y) \in {Key(x)}
                                          /\ result'[r][u].received = Append(result[r][u].received, y)
    BY <1>1
  <2>4. \/ trace'[r] = trace[r]
        \/ \E e \in TraceEvent : /\ trace'[r] = Append(trace[r], e)
                                 /\ e.kind = "delta_received" => Key(e.rec) \in {Key(x)}
    <3>1. PICK e \in TraceEvent : e = Event("delta_received", x)
      BY <1>1, Writings
    <3>2. e.rec = x
      BY <3>1 DEF Event
    <3> QED BY <1>1, <3>1, <3>2
  <2>5. Received(r)' \subseteq Received(r) \cup {Key(x)}
    BY <2>3, <2>4, ReceivedGrows
  <2>6. Received(r)' \subseteq committed'[r]
    BY <1>1, <1>3, <2>2, <2>5 DEF ReceivedTrue
  <2>7. ASSUME NEW u \in Role, NEW i \in 1..Len(wire'[r][u])
        PROVE  Key(wire'[r][u][i]) \in committed'[r]
    <3>1. CASE u = w
      <4>1. i \in 1..Len(Tail(wire[r][w])) /\ wire'[r][u][i] = Tail(wire[r][w])[i]
        BY <1>1, <2>7, <3>1
      <4>2. i + 1 \in 1..Len(wire[r][w]) /\ wire'[r][u][i] = wire[r][w][i + 1]
        BY <2>1, <4>1
      <4> QED BY <1>1, <1>3, <4>2 DEF ReceivedTrue
    <3>2. CASE u # w
      BY <1>1, <1>3, <2>7, <3>2 DEF ReceivedTrue
    <3> QED BY <3>1, <3>2
  <2> QED BY <2>6, <2>7 DEF ReceivedTrue
<1> QED
  BY <1>1, <1>3, ClientKeeps

(* Finishing keeps the invariant of its round.                                *)
LEMMA FinishKeeps ==
  ASSUME TypeOK, scope' = scope, NEW r \in Rnd, NEW w \in Role, Finish(r, w), RoundInv(r)
  PROVE  RoundInv(r)'
<1>0. PICK ok \in BOOLEAN : ok = (sent[r][w] = scope.commands /\ result[r][w].received # <<>>)
  OBVIOUS
<1>1. /\ result'[r][w].received = result[r][w].received
      /\ \A u \in Role \ {w} : result'[r][u] = result[r][u]
      /\ trace'[r] = IF w = "bot"
                     THEN Append(trace[r], [Event("bot_finished", Nothing) EXCEPT !.ok = ok])
                     ELSE trace[r]
      /\ UNCHANGED <<inbox, tick, committed, echo, wire, sent, audit, faults>>
  BY <1>0, FinishDoes
<1>2. \A u \in Role : result'[r][u].received = result[r][u].received
  BY <1>1
<1>3. \/ trace'[r] = trace[r]
      \/ \E e \in TraceEvent : /\ trace'[r] = Append(trace[r], e)
                               /\ e.kind = "delta_received" => Key(e.rec) \in {}
  <2>1. PICK e \in TraceEvent : e = [Event("bot_finished", Nothing) EXCEPT !.ok = ok]
    BY Writings
  <2>2. e.kind # "delta_received"
    BY <2>1 DEF Event
  <2> QED BY <1>1, <2>1, <2>2
<1>4. Received(r)' \subseteq Received(r) \cup {}
  BY <1>2, <1>3, ReceivedGrows
<1>5. ReceivedTrue(r) => ReceivedTrue(r)'
  BY <1>1, <1>4 DEF ReceivedTrue
<1> QED
  BY <1>1, <1>5, ClientKeeps

(* The end of the server keeps the invariant of its round.                    *)
LEMMA ShutdownKeeps ==
  ASSUME TypeOK, scope' = scope, NEW r \in Rnd, Shutdown(r), RoundInv(r)
  PROVE  RoundInv(r)'
<1> DEFINE a == audit[r]
           b == audit'[r]
<1>1. /\ b = a \o <<Line("server_shutdown", "stray", Nothing)>>
      /\ UNCHANGED <<inbox, tick, committed, echo, wire, sent, trace, result, faults>>
  BY ShutdownDoes
<1>2. a \in Seq(AuditLine)
  BY DEF TypeOK
<1>3. PICK l \in AuditLine : l = Line("server_shutdown", "stray", Nothing)
  BY Writings
<1>4. l.kind # "tick_committed" /\ l.kind # "delta_routed"
  BY <1>3 DEF Line
<1>5. Quiet(a, l, b)
  BY <1>1, <1>2, <1>3, <1>4, QuietLine
<1>6. DeltasTrue(r) => DeltasTrue(r)'
  BY <1>1, <1>5 DEF DeltasTrue, Quiet
<1>7. \A w, n : (Waiting(r, w, n) => Waiting(r, w, n)') /\ (Done(r, w, n) => Done(r, w, n)')
  BY <1>1 DEF Waiting, Done
<1>8. ReceivedTrue(r) => ReceivedTrue(r)'
  BY <1>1 DEF ReceivedTrue, Received
<1>9. Sound(r) => Sound(r)'
  <2> SUFFICES ASSUME Sound(r) PROVE Sound(r)'
    OBVIOUS
  <2>1. TicksPast(r)'
    BY <1>1, <1>5 DEF Sound, TicksPast, Quiet
  <2>2. CommittedSent(r)'
    BY <1>1 DEF Sound, CommittedSent
  <2>3. InboxWritten(r)'
    <3>1. ASSUME NEW i \in 1..Len(inbox[r]), NEW c, c = inbox[r][i]
          PROVE  /\ c.seq <= sent[r][c.sender]
                 /\ \E j \in At(b, "ingress_received") :
                      /\ b[j] = Ingress(c.sender, c.seq)
                      /\ \A t \in At(b, "tick_committed") : t < j
                 /\ \A d \in At(b, "delta_routed") :
                      b[d].rec.sender # c.sender \/ b[d].rec.seq # c.seq
      <4>1. /\ c.seq <= sent[r][c.sender]
            /\ \E j \in At(a, "ingress_received") :
                 /\ a[j] = Ingress(c.sender, c.seq)
                 /\ \A t \in At(a, "tick_committed") : t < j
            /\ \A d \in At(a, "delta_routed") :
                 a[d].rec.sender # c.sender \/ a[d].rec.seq # c.seq
        BY <3>1 DEF Sound, InboxWritten
      <4> HIDE DEF a, b
      <4> QED BY <1>5, <4>1 DEF Quiet
    <3> QED BY <1>1, <3>1 DEF InboxWritten
  <2> QED BY <1>1, <1>6, <1>7, <1>8, <2>1, <2>2, <2>3 DEF Sound
<1>10. Marked(r) => Marked(r)'
  <2> SUFFICES ASSUME Marked(r) PROVE Marked(r)'
    OBVIOUS
  <2>1. (Bad(a) => Bad(b)) /\ \A w, n : Unanswered(a, w, n) => Unanswered(b, w, n)
    BY <1>5 DEF Quiet
  <2> QED BY <1>1, <1>6, <1>7, <1>8, <2>1 DEF Marked
<1> QED
  BY <1>1, <1>9, <1>10 DEF RoundInv

(* The first damage leaves either the audit or what was received.             *)
LEMMA DamageKeeps ==
  ASSUME TypeOK, scope' = scope, NEW r \in Rnd, Damage(r), RoundInv(r)
  PROVE  RoundInv(r)'
<1>1. /\ faults \in Nat /\ faults' = faults + 1
      /\ UNCHANGED <<inbox, tick, committed, echo, wire, sent>>
      /\ audit' = audit \/ UNCHANGED <<trace, result>>
  BY DamageDoes DEF TypeOK
<1>2. ASSUME faults' <= 1 PROVE Marked(r)'
  <2>1. Sound(r)
    BY <1>1, <1>2 DEF RoundInv
  <2>2. DeltasTrue(r)' \/ ReceivedTrue(r)'
    <3>1. CASE audit' = audit
      BY <1>1, <2>1, <3>1 DEF Sound, DeltasTrue
    <3>2. CASE UNCHANGED <<trace, result>>
      BY <1>1, <2>1, <3>2 DEF Sound, ReceivedTrue, Received
    <3> QED BY <1>1, <3>1, <3>2
  <2>3. \A w, n : (Waiting(r, w, n) => Waiting(r, w, n)') /\ (Done(r, w, n) => Done(r, w, n)')
    BY <1>1 DEF Waiting, Done
  <2> QED BY <1>1, <2>1, <2>2, <2>3 DEF Sound, Marked
<1> QED
  BY <1>1, <1>2 DEF RoundInv

-----------------------------------------------------------------------------
(* The theorems of the invariant *)

(* The invariant holds before the first round, when nothing is written.       *)
LEMMA InvInit == Init => IInv
<1> SUFFICES ASSUME Init PROVE IInv
  OBVIOUS
<1>1. TypeOK
  BY TypeInit
<1>2. ASSUME NEW q \in Rnd PROVE RoundInv(q)
  <2>1. PICK a : a = <<Line("server_listening", "stray", Nothing)>>
    OBVIOUS
  <2>2. /\ audit[q] = a /\ inbox[q] = <<>> /\ committed[q] = {} /\ ~echo[q]
        /\ \A w \in Role : wire[q][w] = <<>> /\ sent[q][w] = 0 /\ result[q][w].received = <<>>
    BY <1>2, <2>1 DEF Init
  <2>3. \A k \in {"tick_committed", "delta_routed"} : At(a, k) = {}
    BY <2>1 DEF At, Line
  <2>4. At(trace[q], "delta_received") = {}
    BY <1>2 DEF Init, At, Event
  <2>5. Received(q) = {}
    <3>1. "browser" \in Role /\ "bot" \in Role /\ DOMAIN <<>> = {}
      BY DEF Role
    <3> QED BY <2>2, <2>4, <3>1 DEF Received
  <2>6. TicksPast(q) /\ DeltasTrue(q)
    BY <2>2, <2>3 DEF TicksPast, DeltasTrue
  <2>7. InboxWritten(q) /\ CommittedSent(q) /\ ReceivedTrue(q)
    BY <2>2, <2>5 DEF InboxWritten, CommittedSent, ReceivedTrue
  <2>8. \A w \in Role : 1..sent[q][w] = {}
    BY <2>2
  <2>9. Sound(q)
    BY <2>2, <2>6, <2>7, <2>8 DEF Sound
  <2>10. Marked(q)
    BY <2>2, <2>6, <2>8 DEF Marked
  <2> QED BY <2>9, <2>10 DEF RoundInv
<1> QED BY <1>1, <1>2 DEF IInv

(* Every action keeps the invariant of its round and leaves the other alone.  *)
LEMMA InvStep == IInv /\ [Next]_vars => IInv'
<1> SUFFICES ASSUME IInv, [Next]_vars PROVE IInv'
  OBVIOUS
<1>1. TypeOK /\ \A q \in Rnd : RoundInv(q)
  BY DEF IInv
<1> DEFINE Keeps(r) ==
      /\ TypeOK' /\ \A q \in Rnd \ {r} : Same(q)
      /\ faults' >= faults /\ RoundInv(r)'
<1>2. ASSUME scope' = scope, NEW r \in Rnd, Keeps(r) PROVE IInv'
  <2>1. Rnd' = Rnd
    BY <1>2 DEF Rnd
  <2>2. faults' \in Nat
    BY <1>2 DEF TypeOK
  <2>3. ASSUME NEW q \in Rnd PROVE RoundInv(q)'
    BY <1>1, <1>2, <2>2, <2>3, SameKeeps
  <2> QED BY <1>2, <2>1, <2>3 DEF IInv
<1>3. faults \in Nat
  BY <1>1 DEF TypeOK
<1>4. ASSUME Next PROVE IInv'
  <2>1. scope' = scope
    BY <1>4 DEF Next
  <2>2. PICK r \in Rnd :
          \/ Commit(r) \/ EgressWithoutTick(r) \/ Forget(r) \/ Shutdown(r) \/ Damage(r)
          \/ \E w \in Role : Send(r, w) \/ Hear(r, w) \/ Finish(r, w)
    BY <1>4 DEF Next
  <2>3. RoundInv(r)
    BY <1>1
  <2>4. CASE Commit(r)
    <3>1. TypeOK' /\ (\A q \in Rnd \ {r} : Same(q)) /\ faults' >= faults
      BY <1>1, <2>1, <2>4, CommitDoes DEF CommitEffect
    <3>2. RoundInv(r)'
      BY <1>1, <2>1, <2>3, <2>4, CommitKeeps
    <3> QED BY <1>2, <2>1, <3>1, <3>2
  <2>5. CASE EgressWithoutTick(r)
    <3>1. TypeOK' /\ (\A q \in Rnd \ {r} : Same(q)) /\ faults' >= faults
      BY <1>1, <1>3, <2>1, <2>5, EgressDoes
    <3>2. RoundInv(r)'
      BY <1>1, <2>1, <2>3, <2>5, EgressKeeps
    <3> QED BY <1>2, <2>1, <3>1, <3>2
  <2>6. CASE Forget(r)
    <3>1. TypeOK' /\ (\A q \in Rnd \ {r} : Same(q)) /\ faults' >= faults
      BY <1>1, <1>3, <2>1, <2>6, ForgetDoes
    <3>2. RoundInv(r)'
      BY <1>1, <2>1, <2>3, <2>6, ForgetKeeps
    <3> QED BY <1>2, <2>1, <3>1, <3>2
  <2>7. CASE Shutdown(r)
    <3>1. TypeOK' /\ (\A q \in Rnd \ {r} : Same(q)) /\ faults' >= faults
      BY <1>1, <1>3, <2>1, <2>7, ShutdownDoes
    <3>2. RoundInv(r)'
      BY <1>1, <2>1, <2>3, <2>7, ShutdownKeeps
    <3> QED BY <1>2, <2>1, <3>1, <3>2
  <2>8. CASE Damage(r)
    <3>1. TypeOK' /\ (\A q \in Rnd \ {r} : Same(q)) /\ faults' >= faults
      BY <1>1, <1>3, <2>1, <2>8, DamageDoes
    <3>2. RoundInv(r)'
      BY <1>1, <2>1, <2>3, <2>8, DamageKeeps
    <3> QED BY <1>2, <2>1, <3>1, <3>2
  <2>9. ASSUME NEW w \in Role, Send(r, w) PROVE IInv'
    <3>0. PICK n : n = sent[r][w] + 1
      OBVIOUS
    <3>1. TypeOK' /\ (\A q \in Rnd \ {r} : Same(q)) /\ faults' >= faults
      <4>1. TypeOK' /\ \A q \in Rnd \ {r} : Same(q)
        BY <1>1, <2>1, <2>9, <3>0, SendDoes
      <4>2. faults' = faults
        BY <2>9 DEF Send
      <4> QED BY <1>3, <4>1, <4>2
    <3>2. RoundInv(r)'
      BY <1>1, <2>1, <2>3, <2>9, SendKeeps
    <3> QED BY <1>2, <2>1, <3>1, <3>2
  <2>10. ASSUME NEW w \in Role, Hear(r, w) PROVE IInv'
    <3>0. PICK x : x = Head(wire[r][w])
      OBVIOUS
    <3>1. TypeOK' /\ (\A q \in Rnd \ {r} : Same(q)) /\ faults' >= faults
      BY <1>1, <1>3, <2>1, <2>10, <3>0, HearDoes
    <3>2. RoundInv(r)'
      BY <1>1, <2>1, <2>3, <2>10, HearKeeps
    <3> QED BY <1>2, <2>1, <3>1, <3>2
  <2>11. ASSUME NEW w \in Role, Finish(r, w) PROVE IInv'
    <3>0. PICK ok : ok = (sent[r][w] = scope.commands /\ result[r][w].received # <<>>)
      OBVIOUS
    <3>1. TypeOK' /\ (\A q \in Rnd \ {r} : Same(q)) /\ faults' >= faults
      <4>1. TypeOK' /\ \A q \in Rnd \ {r} : Same(q)
        BY <1>1, <2>1, <2>11, <3>0, FinishDoes
      <4>2. faults' = faults
        BY <2>11 DEF Finish
      <4> QED BY <1>3, <4>1, <4>2
    <3>2. RoundInv(r)'
      BY <1>1, <2>1, <2>3, <2>11, FinishKeeps
    <3> QED BY <1>2, <2>1, <3>1, <3>2
  <2> HIDE DEF Keeps
  <2> QED BY <2>2, <2>4, <2>5, <2>6, <2>7, <2>8, <2>9, <2>10, <2>11
<1>5. ASSUME UNCHANGED vars PROVE IInv'
  <2>1. /\ UNCHANGED scope /\ UNCHANGED inbox /\ UNCHANGED tick /\ UNCHANGED committed
        /\ UNCHANGED echo /\ UNCHANGED wire /\ UNCHANGED sent /\ UNCHANGED audit
        /\ UNCHANGED trace /\ UNCHANGED result /\ UNCHANGED faults
    BY <1>5 DEF vars, server
  <2>2. Rnd' = Rnd /\ \A q \in Rnd : Same(q)
    BY <2>1 DEF Rnd, Same
  <2>3. TypeOK'
    BY ONLY <1>1, <2>1, <2>2 DEF TypeOK
  <2>4. \A q \in Rnd : RoundInv(q)'
    BY <1>1, <1>3, <2>1, <2>2, SameKeeps
  <2> QED BY <2>2, <2>3, <2>4 DEF IInv
<1> QED BY <1>4, <1>5

(* The evidence of every behaviour, for any number of commands and faults.    *)
THEOREM EvidenceInvariant == Spec => []IInv
<1> QED BY InvInit, InvStep, PTL DEF Spec

(* The variables keep their types, for any number of commands and faults.     *)
THEOREM TypeCorrect == Spec => []TypeOK
<1>1. IInv => TypeOK
  BY DEF IInv
<1> QED BY <1>1, EvidenceInvariant, PTL

(* A round in which the server answered without a tick, or a sender itself,   *)
(* is not accepted, whatever happens after it but a second fault.             *)
THEOREM EchoIsRejectedHolds == Spec => []EchoIsRejected
<1>1. IInv => EchoIsRejected
  <2> SUFFICES ASSUME IInv, faults <= 1, NEW r \in Rnd, echo[r] PROVE ~RoundOk(r)
    BY DEF EchoIsRejected
  <2>1. Bad(audit[r]) /\ audit[r] \in Seq(AuditLine)
    BY DEF IInv, RoundInv, Marked, TypeOK
  <2> QED BY <2>1, BadIsRefused DEF RoundOk
<1> QED BY <1>1, EvidenceInvariant, PTL

(* What an accepted round says was received was committed, and no command was *)
(* forgotten: a fault leaves its mark, or does no harm.                       *)
LEMMA OneFaultIsSeen == IInv => (faults <= 1 => AcceptedIsCommitted)
<1> SUFFICES ASSUME IInv, faults <= 1, NEW r \in Rnd, RoundOk(r)
             PROVE  Received(r) \subseteq committed[r] /\ ~Forgotten(r)
  BY DEF AcceptedIsCommitted
<1>1. Marked(r) /\ audit[r] \in Seq(AuditLine)
  BY DEF IInv, RoundInv, TypeOK
<1>2. AuditChain(audit[r]) /\ CrossSource(r)
  BY DEF RoundOk
<1>3. ~Bad(audit[r]) /\ \A w, n : ~Unanswered(audit[r], w, n)
  BY <1>1, <1>2, BadIsRefused
<1>4. Received(r) \subseteq committed[r]
  <2>1. CASE DeltasTrue(r)
    BY <1>2, <2>1 DEF DeltasTrue, CrossSource
  <2>2. CASE ReceivedTrue(r)
    BY <2>2 DEF ReceivedTrue
  <2> QED BY <1>1, <1>3, <2>1, <2>2 DEF Marked
<1>5. ~Forgotten(r)
  <2> SUFFICES ASSUME inbox[r] = <<>>, NEW w \in Role, NEW n \in 1..sent[r][w], ~Done(r, w, n)
               PROVE  FALSE
    BY DEF Forgotten, Done
  <2>1. ~Waiting(r, w, n)
    BY DEF Waiting
  <2> QED BY <1>1, <1>3, <2>1 DEF Marked
<1> QED BY <1>4, <1>5

(* With one fault at most, a round is not accepted if a record says something *)
(* was received that no tick committed, or if a command was forgotten.        *)
THEOREM AcceptedIsCommittedHolds == Spec => [](faults <= 1 => AcceptedIsCommitted)
  BY OneFaultIsSeen, EvidenceInvariant, PTL

-----------------------------------------------------------------------------
(* The inductive invariant for HonestIsAccepted: a round without faults       *)

(* The audit starts with its first line, and every line is readable.          *)
AuditStart(a) ==
  /\ Len(a) > 0 /\ a[1].kind = "server_listening"
  /\ \A i \in DOMAIN a : a[i].kind # "mangled"

(* The ticks of the audit increase, up to the last one.                       *)
TicksAscend(a, last) ==
  /\ TicksIncrease(a)
  /\ \A t \in At(a, "tick_committed") : a[t].rec.tick <= last

(* The ingress lines of w.                                                    *)
IngressOf(a, w) == {i \in At(a, "ingress_received") : a[i].rec.sender = w}

(* Every command has its ingress line, in the order of its sequence.          *)
IngressCounted(a, snt) ==
  /\ \A i \in At(a, "ingress_received") :
       a[i].rec.sender \in Role /\ a[i] = Ingress(a[i].rec.sender, a[i].rec.seq)
  /\ \A w \in Role : Cardinality(IngressOf(a, w)) = snt[w]
  /\ SequencesCount(a)

(* The first tick after an ingress has a delta for it.                        *)
Answered(a, i) ==
  \E t \in At(a, "tick_committed"), d \in At(a, "delta_routed") :
    /\ i < t /\ i < d
    /\ \A u \in At(a, "tick_committed") : i < u => t <= u
    /\ a[d].rec = [a[i].rec EXCEPT !.tick = a[t].rec.tick]

(* An ingress that no tick follows yet.                                       *)
Open(a, i, box) ==
  /\ \A t \in At(a, "tick_committed") : t < i
  /\ \E k \in 1..Len(box) : box[k] = [sender |-> a[i].rec.sender, seq |-> a[i].rec.seq]

(* Every ingress is answered, or waits in the server's box.                   *)
IngressServed(a, box) ==
  \A i \in At(a, "ingress_received") : Answered(a, i) \/ Open(a, i, box)

(* Every delta goes to its sender's peer and stands after its tick.           *)
DeltasRouted(a) ==
  \A d \in At(a, "delta_routed") :
    a[d].rec.sender \in Role /\ a[d].session = Peer(a[d].rec.sender) /\ DeltaCovered(a, d)

(* Every committed command has its delta in the audit.                        *)
CommittedRouted(a, C) == \A c \in C : \E d \in At(a, "delta_routed") : a[d].rec = c

(* The commands of a side wait in the order they were sent in.                *)
InboxAscends(box) ==
  \A i, j \in 1..Len(box) : i < j /\ box[i].sender = box[j].sender => box[i].seq < box[j].seq

(* What w has received and will receive: the peer's records, in their order.  *)
InStep(s, w, C, last, box) ==
  /\ \A i \in 1..Len(s) :
       /\ InTime(s[i], Peer(w)) /\ s[i] \in C /\ s[i].tick <= last
       /\ \A k \in 1..Len(box) : box[k].sender = Peer(w) => s[i].seq < box[k].seq
  /\ \A i, j \in 1..Len(s) : i < j => s[i].seq < s[j].seq /\ s[i].tick <= s[j].tick

(* What w has received, and what is on its way to it.                         *)
Heard(q, w) == result[q][w].received \o wire[q][w]

(* The trace s tells of n commands and of the result out, and of nothing else. *)
TraceTrue(s, n, out) ==
  /\ Readable(s)
  /\ At(s, "bot_started") # {} /\ At(s, "connected") # {}
  /\ n > 0 => At(s, "command_sent") # {}
  /\ out.received # <<>> => At(s, "delta_received") # {}
  /\ out.status # "pending" => At(s, "bot_finished") # {}
  /\ out.status # "failed" => \A i \in DOMAIN s : s[i].ok
  /\ \A i \in At(s, "command_sent") : s[i].rec.sender = "bot" /\ s[i].rec.sha = "hello"
  /\ \A i \in At(s, "delta_received") : InTime(s[i].rec, "browser")

(* A side ends well when it has sent everything and heard something.          *)
EndedWell(q) ==
  \A w \in Role : result[q][w].status = "ok" =>
    sent[q][w] = scope.commands /\ result[q][w].received # <<>>

(* All of it, for a round without faults; and the invariant.                  *)
Honest(q) ==
  /\ AuditStart(audit[q]) /\ TicksAscend(audit[q], tick[q])
  /\ IngressCounted(audit[q], sent[q]) /\ IngressServed(audit[q], inbox[q])
  /\ DeltasRouted(audit[q]) /\ CommittedRouted(audit[q], committed[q])
  /\ InboxAscends(inbox[q])
  /\ \A w \in Role : InStep(Heard(q, w), w, committed[q], tick[q], inbox[q])
  /\ TraceTrue(trace[q], sent[q]["bot"], result[q]["bot"])
  /\ EndedWell(q)

HonestInv == IInv /\ \A q \in Rnd : faults = 0 => Honest(q)

(* One element more that was not there.                                       *)
LEMMA AddNew ==
  ASSUME NEW D, NEW x, IsFiniteSet(D), x \notin D
  PROVE  IsFiniteSet(D \cup {x}) /\ Cardinality(D \cup {x}) = Cardinality(D) + 1
<1>1. /\ IsFiniteSet(D \cup {x})
      /\ Cardinality(D \cup {x}) = IF x \in D THEN Cardinality(D) ELSE Cardinality(D) + 1
  BY FS_AddElement, Zenon
<1> QED
  BY <1>1

(* u is s with e after it.                                                    *)
Longer(s, e, u) ==
  /\ Len(s) \in Nat /\ DOMAIN s = 1..Len(s) /\ DOMAIN u = 1..(Len(s) + 1)
  /\ u[Len(s) + 1] = e /\ \A i \in 1..Len(s) : u[i] = s[i]
  /\ \A i \in DOMAIN u : i \in 1..Len(s) \/ i = Len(s) + 1
  /\ \A k : At(u, k) = At(s, k) \cup (IF e.kind = k THEN {Len(s) + 1} ELSE {})
  /\ \A k : At(s, k) \subseteq 1..Len(s)

(* A value after a sequence.                                                  *)
LEMMA OneMore ==
  ASSUME NEW S, NEW s \in Seq(S), NEW e \in S
  PROVE  Longer(s, e, Append(s, e))
<1> DEFINE u == Append(s, e)
<1>1. /\ Len(s) \in Nat /\ DOMAIN s = 1..Len(s) /\ DOMAIN u = 1..(Len(s) + 1)
      /\ u[Len(s) + 1] = e /\ \A i \in 1..Len(s) : u[i] = s[i]
  BY AppendProperties, LenProperties
<1> HIDE DEF u
<1>2. \A i \in DOMAIN u : i \in 1..Len(s) \/ i = Len(s) + 1
  BY <1>1
<1>3. \A i \in 1..Len(s) : i \in DOMAIN u
  BY <1>1
<1>4. Len(s) + 1 \in DOMAIN u
  BY <1>1
<1>5. ASSUME NEW k
      PROVE  At(u, k) = At(s, k) \cup (IF e.kind = k THEN {Len(s) + 1} ELSE {})
  BY <1>1, <1>2, <1>3, <1>4 DEF At
<1>6. \A k : At(s, k) \subseteq 1..Len(s)
  BY <1>1 DEF At
<1> QED
  BY ONLY <1>1, <1>2, <1>5, <1>6 DEF Longer, u

(* Lines that are readable after those of an audit.                           *)
LEMMA StartStays ==
  ASSUME NEW a \in Seq(AuditLine), NEW l \in Seq(AuditLine), AuditStart(a),
         \A i \in 1..Len(l) : l[i].kind # "mangled"
  PROVE  AuditStart(a \o l)
<1> DEFINE b == a \o l
<1>1. b \in Seq(AuditLine) /\ Joined(a, l) /\ Len(a) \in Nat /\ Len(l) \in Nat /\ Len(a) > 0
  BY ConcatAt, LenProperties DEF AuditStart
<1> HIDE DEF b
<1>2. /\ Len(b) = Len(a) + Len(l) /\ DOMAIN b = 1..Len(b) /\ DOMAIN a = 1..Len(a)
      /\ \A i \in 1..Len(a) : b[i] = a[i]
      /\ \A i \in 1..Len(l) : b[Len(a) + i] = l[i]
  BY <1>1, LenProperties DEF Joined, b
<1>3. Len(b) > 0 /\ 1 \in 1..Len(a)
  BY <1>1, <1>2
<1>4. b[1].kind = "server_listening"
  BY <1>2, <1>3 DEF AuditStart
<1>5. ASSUME NEW i \in DOMAIN b PROVE b[i].kind # "mangled"
  <2>1. i \in 1..Len(a) \/ (i - Len(a) \in 1..Len(l) /\ i = Len(a) + (i - Len(a)))
    BY <1>1, <1>2
  <2>2. CASE i \in 1..Len(a)
    BY <1>2, <2>2 DEF AuditStart
  <2>3. CASE i - Len(a) \in 1..Len(l) /\ i = Len(a) + (i - Len(a))
    <3>1. PICK j \in 1..Len(l) : i = Len(a) + j
      BY <2>3
    <3> QED BY <1>2, <3>1
  <2> QED BY <2>1, <2>2, <2>3
<1> QED
  BY <1>3, <1>4, <1>5 DEF AuditStart, b

(* A quiet line leaves the ticks, the deltas and what answers an ingress.     *)
LEMMA QuietKeeps ==
  ASSUME NEW a \in Seq(AuditLine), NEW l, NEW b, Quiet(a, l, b)
  PROVE  /\ \A last : TicksAscend(a, last) => TicksAscend(b, last)
         /\ DeltasRouted(a) => DeltasRouted(b)
         /\ \A C : CommittedRouted(a, C) => CommittedRouted(b, C)
         /\ \A i \in At(a, "ingress_received") : Answered(a, i) => Answered(b, i)
         /\ \A i \in At(a, "ingress_received") : \A box : Open(a, i, box) => Open(b, i, box)
<1>1. /\ At(b, "tick_committed") = At(a, "tick_committed")
      /\ At(b, "delta_routed") = At(a, "delta_routed")
      /\ \A i \in At(a, "tick_committed") : b[i] = a[i]
      /\ \A i \in At(a, "delta_routed") : b[i] = a[i]
      /\ \A i \in At(a, "ingress_received") : b[i] = a[i]
  BY DEF Quiet
<1>2. \A last : TicksAscend(a, last) => TicksAscend(b, last)
  BY <1>1 DEF TicksAscend, TicksIncrease
<1>3. \A d \in At(a, "delta_routed") : DeltaCovered(a, d) => DeltaCovered(b, d)
  BY <1>1 DEF DeltaCovered
<1>4. DeltasRouted(a) => DeltasRouted(b)
  BY <1>1, <1>3 DEF DeltasRouted
<1>5. \A C : CommittedRouted(a, C) => CommittedRouted(b, C)
  BY <1>1 DEF CommittedRouted
<1>6. ASSUME NEW i \in At(a, "ingress_received"), Answered(a, i) PROVE Answered(b, i)
  <2>1. PICK t \in At(a, "tick_committed"), d \in At(a, "delta_routed") :
          /\ i < t /\ i < d
          /\ \A u \in At(a, "tick_committed") : i < u => t <= u
          /\ a[d].rec = [a[i].rec EXCEPT !.tick = a[t].rec.tick]
    BY <1>6 DEF Answered
  <2>2. b[d] = a[d] /\ b[i] = a[i] /\ b[t] = a[t]
    BY <1>1
  <2>3. b[d].rec = [b[i].rec EXCEPT !.tick = b[t].rec.tick]
    BY <2>1, <2>2
  <2> QED BY <1>1, <2>1, <2>3 DEF Answered
<1>7. \A i \in At(a, "ingress_received") : \A box : Open(a, i, box) => Open(b, i, box)
  BY <1>1 DEF Open
<1> QED
  BY <1>2, <1>4, <1>5, <1>6, <1>7

(* The ingress of the next command of w.                                      *)
LEMMA IngressLine ==
  ASSUME NEW a \in Seq(AuditLine), NEW w \in Role, NEW n \in Nat,
         NEW snt, n = snt[w] + 1, \A x \in Role : snt[x] \in Nat, IngressCounted(a, snt),
         NEW snt2, snt2[w] = n, \A x \in Role \ {w} : snt2[x] = snt[x]
  PROVE  IngressCounted(Append(a, Ingress(w, n)), snt2)
<1>1. PICK l \in AuditLine : l = Ingress(w, n)
  BY Writings
<1>2. l.kind = "ingress_received" /\ l.rec.sender = w /\ l.rec.seq = n
  BY <1>1 DEF Ingress, Line, Record
<1>3. PICK b : b = Append(a, l)
  OBVIOUS
<1>4. PICK N : N = Len(a)
  OBVIOUS
<1>5. PICK ing : ing = At(a, "ingress_received")
  OBVIOUS
<1>6. Longer(a, l, b)
  BY <1>3, OneMore
<1>7. /\ N \in Nat /\ b[N + 1] = l /\ (\A i \in ing : b[i] = a[i] /\ i \in 1..N)
      /\ At(b, "ingress_received") = ing \cup {N + 1} /\ N + 1 \notin ing
  <2>1. N \in Nat /\ b[N + 1] = l /\ \A i \in 1..N : b[i] = a[i]
    BY <1>4, <1>6 DEF Longer
  <2>2. ing \subseteq 1..N
    BY <1>4, <1>5, <1>6 DEF Longer
  <2>3. At(b, "ingress_received") = ing \cup {N + 1}
    BY <1>2, <1>4, <1>5, <1>6 DEF Longer
  <2>4. N + 1 \notin ing
    BY <2>1, <2>2
  <2> QED BY <2>1, <2>2, <2>3, <2>4
<1>8. \A x \in Role : IsFiniteSet(IngressOf(a, x)) /\ IngressOf(a, x) \subseteq ing
  <2> TAKE x \in Role
  <2>1. IsFiniteSet(1..N)
    BY <1>7, FS_Interval
  <2>2. IngressOf(a, x) \subseteq ing /\ ing \subseteq 1..N
    BY <1>5, <1>7 DEF IngressOf
  <2>3. IngressOf(a, x) \subseteq 1..N
    BY <2>2
  <2>4. IsFiniteSet(IngressOf(a, x))
    BY <2>1, <2>3, FS_Subset
  <2> QED BY <2>2, <2>4
<1>9. /\ IngressOf(b, w) = IngressOf(a, w) \cup {N + 1}
      /\ \A x \in Role \ {w} : IngressOf(b, x) = IngressOf(a, x)
  BY <1>2, <1>5, <1>7 DEF IngressOf
<1>10. \A i \in At(b, "ingress_received") :
         b[i].rec.sender \in Role /\ b[i] = Ingress(b[i].rec.sender, b[i].rec.seq)
  BY <1>1, <1>2, <1>5, <1>7 DEF IngressCounted
<1>11. Cardinality(IngressOf(a, w)) = snt[w]
  BY DEF IngressCounted
<1>12. \A x \in Role : Cardinality(IngressOf(b, x)) = snt2[x]
  <2>1. N + 1 \notin IngressOf(a, w)
    BY <1>7, <1>8
  <2>2. Cardinality(IngressOf(a, w) \cup {N + 1}) = Cardinality(IngressOf(a, w)) + 1
    BY <1>8, <2>1, AddNew
  <2>3. Cardinality(IngressOf(b, w)) = snt2[w]
    BY <1>9, <1>11, <2>2
  <2>4. \A x \in Role \ {w} : Cardinality(IngressOf(b, x)) = snt2[x]
    BY <1>9 DEF IngressCounted
  <2> QED BY <2>3, <2>4
<1>13. ASSUME NEW i \in At(b, "ingress_received")
       PROVE  b[i].rec.seq
              = 1 + Cardinality({j \in At(b, "ingress_received") : j < i /\ b[j].rec.sender = b[i].rec.sender})
  <2>1. CASE i \in ing
    <3>1. \A j \in ing \cup {N + 1} : j < i => j \in ing
      BY <1>7, <2>1
    <3>2. {j \in At(b, "ingress_received") : j < i /\ b[j].rec.sender = b[i].rec.sender}
          = {j \in ing : j < i /\ a[j].rec.sender = a[i].rec.sender}
      BY <1>7, <2>1, <3>1
    <3>3. a[i].rec.seq = 1 + Cardinality({j \in ing : j < i /\ a[j].rec.sender = a[i].rec.sender})
      BY <1>5, <2>1 DEF IngressCounted, SequencesCount
    <3>4. b[i].rec.seq = a[i].rec.seq
      BY <1>7, <2>1
    <3> QED BY <3>2, <3>3, <3>4
  <2>2. CASE i = N + 1
    <3>1. \A j \in ing : j < N + 1
      BY <1>7
    <3>2. ~(N + 1 < N + 1)
      BY <1>7
    <3>3. {j \in At(b, "ingress_received") : j < i /\ b[j].rec.sender = b[i].rec.sender}
          = IngressOf(a, w)
      BY <1>2, <1>5, <1>7, <2>2, <3>1, <3>2 DEF IngressOf
    <3>4. b[i].rec.seq = n
      BY <1>2, <1>7, <2>2
    <3> DEFINE before == {j \in At(b, "ingress_received") :
                            j < i /\ b[j].rec.sender = b[i].rec.sender}
    <3>5. Cardinality(before) = snt[w]
      BY <1>11, <3>3
    <3>6. snt[w] \in Nat /\ n = snt[w] + 1
      OBVIOUS
    <3> HIDE DEF before
    <3>7. b[i].rec.seq = 1 + Cardinality(before)
      BY <3>4, <3>5, <3>6
    <3> QED BY <3>7 DEF before
  <2> QED BY <1>7, <2>1, <2>2
<1>14. SequencesCount(b)
  BY <1>13 DEF SequencesCount
<1> QED
  BY <1>1, <1>3, <1>10, <1>12, <1>14 DEF IngressCounted

(* A line of another kind is no ingress.                                      *)
LEMMA OtherLine ==
  ASSUME NEW a \in Seq(AuditLine), NEW b,
         At(b, "ingress_received") = At(a, "ingress_received"),
         \A i \in At(a, "ingress_received") : b[i] = a[i],
         NEW snt, IngressCounted(a, snt)
  PROVE  IngressCounted(b, snt)
<1>1. PICK ing : ing = At(a, "ingress_received")
  OBVIOUS
<1>2. \A i \in ing : b[i].rec.sender \in Role /\ b[i] = Ingress(b[i].rec.sender, b[i].rec.seq)
  BY <1>1 DEF IngressCounted
<1>3. \A w : IngressOf(b, w) = IngressOf(a, w)
  BY DEF IngressOf
<1>4. \A w \in Role : Cardinality(IngressOf(b, w)) = snt[w]
  BY <1>3 DEF IngressCounted
<1>5. \A i \in ing : {j \in ing : j < i /\ b[j].rec.sender = b[i].rec.sender}
                     = {j \in ing : j < i /\ a[j].rec.sender = a[i].rec.sender}
  BY <1>1
<1>6. \A i \in ing :
        a[i].rec.seq = 1 + Cardinality({j \in ing : j < i /\ a[j].rec.sender = a[i].rec.sender})
  BY <1>1 DEF IngressCounted, SequencesCount
<1>7. \A i \in ing :
        b[i].rec.seq = 1 + Cardinality({j \in ing : j < i /\ b[j].rec.sender = b[i].rec.sender})
  BY <1>1, <1>5, <1>6
<1>8. SequencesCount(b)
  BY <1>1, <1>7 DEF SequencesCount
<1> QED
  BY <1>1, <1>2, <1>4, <1>8 DEF IngressCounted

(* D is C with the records of the deltas ds.                                  *)
Added(C, ds, D) == D = C \cup {ds[j].rec : j \in 1..Len(ds)}

(* A tick and its deltas after the audit of an honest round.                  *)
LEMMA TickKeeps ==
  ASSUME NEW a \in Seq(AuditLine), NEW last \in Nat, NEW box \in Seq(Command), Len(box) > 0,
         NEW tl \in AuditLine, tl.kind = "tick_committed", tl.count = Len(box),
         tl.rec.tick = last + 1,
         NEW ds, Len(ds) = Len(box),
         \A j \in 1..Len(box) :
           /\ ds[j].rec = Record(box[j].sender, box[j].seq, last + 1)
           /\ ds[j].rec.sender = box[j].sender /\ ds[j].rec.tick = last + 1
           /\ ds[j].session = Peer(box[j].sender),
         NEW b, Ticked(a, tl, ds, b),
         NEW C, NEW D, Added(C, ds, D), NEW snt,
         TicksAscend(a, last), IngressCounted(a, snt), IngressServed(a, box),
         DeltasRouted(a), CommittedRouted(a, C)
  PROVE  /\ TicksAscend(b, last + 1) /\ IngressCounted(b, snt) /\ IngressServed(b, <<>>)
         /\ DeltasRouted(b) /\ CommittedRouted(b, D)
<1>1. PICK N : N = Len(a)
  OBVIOUS
<1>2. PICK m \in Nat : m = Len(box) /\ m > 0
  BY LenProperties
<1>3. /\ N \in Nat
      /\ At(b, "ingress_received") = At(a, "ingress_received")
      /\ \A k : \A i \in At(a, k) : i \in 1..N /\ i \in At(b, k) /\ b[i] = a[i]
      /\ N + 1 \in At(b, "tick_committed") /\ b[N + 1] = tl
  BY <1>1 DEF Ticked
<1>4. \A i \in At(b, "tick_committed") : i \in At(a, "tick_committed") \/ i = N + 1
  BY <1>1 DEF Ticked
<1>5. /\ \A i \in At(b, "delta_routed") :
           i \in At(a, "delta_routed") \/ \E j \in 1..m : i = N + (1 + j)
      /\ \A j \in 1..m : N + (1 + j) \in At(b, "delta_routed") /\ b[N + (1 + j)] = ds[j]
  BY <1>1, <1>2 DEF Ticked
<1>6. \A t \in At(a, "tick_committed") :
        a[t].rec.tick \in Nat /\ a[t].rec.tick <= last /\ a[t].count >= 1
  <2> TAKE t \in At(a, "tick_committed")
  <2>1. a[t] \in AuditLine
    BY DEF At
  <2> QED BY <2>1 DEF AuditLine, Rec, TicksAscend, TicksIncrease
<1>7. \A j \in 1..m : box[j] \in Command
  BY <1>2, ElementOfSeq
<1>8. TicksAscend(b, last + 1)
  <2>1. ASSUME NEW t \in At(b, "tick_committed")
        PROVE  b[t].count >= 1 /\ b[t].rec.tick <= last + 1
    <3>1. CASE t \in At(a, "tick_committed")
      BY <1>3, <1>6, <3>1
    <3>2. CASE t = N + 1
      BY <1>2, <1>3, <3>2
    <3> QED BY <1>4, <3>1, <3>2
  <2>2. ASSUME NEW s \in At(b, "tick_committed"), NEW t \in At(b, "tick_committed"), s < t
        PROVE  b[s].rec.tick < b[t].rec.tick
    <3>1. CASE s \in At(a, "tick_committed") /\ t \in At(a, "tick_committed")
      BY <1>3, <2>2, <3>1 DEF TicksAscend, TicksIncrease
    <3>2. CASE s \in At(a, "tick_committed") /\ t = N + 1
      <4>1. b[s].rec.tick = a[s].rec.tick /\ b[t].rec.tick = last + 1
        BY <1>3, <3>2
      <4>2. a[s].rec.tick \in Nat /\ a[s].rec.tick <= last
        BY <1>6, <3>2
      <4>3. a[s].rec.tick < last + 1
        BY <4>2
      <4> QED BY <4>1, <4>3
    <3>3. CASE s = N + 1
      <4>1. t \in 1..N \/ t = N + 1
        BY <1>3, <1>4
      <4> QED BY <1>3, <2>2, <3>3, <4>1
    <3> QED BY <1>4, <3>1, <3>2, <3>3
  <2> QED BY <2>1, <2>2 DEF TicksAscend, TicksIncrease
<1>9. IngressCounted(b, snt)
  <2>1. \A i \in At(a, "ingress_received") : b[i] = a[i]
    BY <1>3
  <2> QED BY <1>3, <2>1, OtherLine
<1>10. IngressServed(b, <<>>)
  <2>1. ASSUME NEW i \in At(a, "ingress_received"), Answered(a, i) PROVE Answered(b, i)
    <3>1. PICK t \in At(a, "tick_committed"), d \in At(a, "delta_routed") :
            /\ i < t /\ i < d
            /\ \A u \in At(a, "tick_committed") : i < u => t <= u
            /\ a[d].rec = [a[i].rec EXCEPT !.tick = a[t].rec.tick]
      BY <2>1 DEF Answered
    <3>2. /\ b[d] = a[d] /\ b[i] = a[i] /\ b[t] = a[t] /\ t \in 1..N
          /\ t \in At(b, "tick_committed") /\ d \in At(b, "delta_routed")
      BY <1>3
    <3>3. b[d].rec = [b[i].rec EXCEPT !.tick = b[t].rec.tick]
      BY <3>1, <3>2
    <3>4. ASSUME NEW u \in At(b, "tick_committed"), i < u PROVE t <= u
      <4>1. CASE u \in At(a, "tick_committed")
        BY <3>1, <3>4, <4>1
      <4>2. CASE u = N + 1
        BY <1>3, <3>2, <4>2
      <4> QED BY <1>4, <4>1, <4>2
    <3> QED BY <3>1, <3>2, <3>3, <3>4 DEF Answered
  <2>2. ASSUME NEW i \in At(a, "ingress_received"), Open(a, i, box) PROVE Answered(b, i)
    <3>1. PICK k \in 1..m : box[k] = [sender |-> a[i].rec.sender, seq |-> a[i].rec.seq]
      BY <1>2, <2>2 DEF Open
    <3>2. PICK d : d = N + (1 + k)
      OBVIOUS
    <3>3. /\ i \in 1..N /\ b[i] = a[i] /\ d \in At(b, "delta_routed") /\ b[d] = ds[k]
          /\ d \in Nat /\ i < d /\ i < N + 1
      <4>1. i \in 1..N /\ b[i] = a[i]
        BY <1>3
      <4>2. d \in At(b, "delta_routed") /\ b[d] = ds[k]
        BY <1>5, <3>2
      <4>3. d \in Nat /\ i < d /\ i < N + 1
        BY <1>3, <3>2, <4>1
      <4> QED BY <4>1, <4>2, <4>3
    <3>4. PICK w \in Role, n \in Nat : box[k] = [sender |-> w, seq |-> n]
      BY <1>7 DEF Command
    <3>5. a[i].rec.sender = w /\ a[i].rec.seq = n
      BY <3>1, <3>4
    <3>6. a[i].rec = Record(w, n, 0)
      <4>1. a[i] = Ingress(w, n)
        BY <3>5 DEF IngressCounted
      <4> QED BY <4>1 DEF Ingress, Line
    <3>7. b[d].rec = Record(w, n, last + 1)
      BY <1>2, <3>3, <3>4
    <3>8. b[d].rec = [b[i].rec EXCEPT !.tick = b[N + 1].rec.tick]
      <4>1. [Record(w, n, 0) EXCEPT !.tick = last + 1] = Record(w, n, last + 1)
        <5>1. last + 1 \in Nat
          OBVIOUS
        <5> QED BY <5>1, Retimed
      <4>2. b[N + 1].rec.tick = last + 1
        BY <1>3
      <4> QED BY <3>3, <3>6, <3>7, <4>1, <4>2
    <3>9. ASSUME NEW u \in At(b, "tick_committed"), i < u PROVE N + 1 <= u
      <4>1. CASE u \in At(a, "tick_committed")
        <5>1. u < i /\ u \in 1..N
          BY <1>3, <2>2, <4>1 DEF Open
        <5> QED BY <3>3, <3>9, <5>1
      <4>2. CASE u = N + 1
        BY <1>3, <4>2
      <4> QED BY <1>4, <4>1, <4>2
    <3> QED BY <1>3, <3>3, <3>8, <3>9 DEF Answered
  <2> QED BY <1>3, <2>1, <2>2 DEF IngressServed
<1>11. DeltasRouted(b)
  <2>1. ASSUME NEW d \in At(a, "delta_routed")
        PROVE  b[d].rec.sender \in Role /\ b[d].session = Peer(b[d].rec.sender) /\ DeltaCovered(b, d)
    <3>1. b[d] = a[d] /\ DeltaCovered(a, d)
      BY <1>3 DEF DeltasRouted
    <3>2. DeltaCovered(b, d)
      BY <1>3, <3>1 DEF DeltaCovered
    <3> QED BY <3>1, <3>2 DEF DeltasRouted
  <2>2. ASSUME NEW j \in 1..m, NEW d, d = N + (1 + j)
        PROVE  b[d].rec.sender \in Role /\ b[d].session = Peer(b[d].rec.sender) /\ DeltaCovered(b, d)
    <3>1. b[d] = ds[j] /\ box[j].sender \in Role
      BY <1>5, <1>7, <2>2 DEF Command
    <3>2. b[d].rec.sender = box[j].sender /\ b[d].rec.tick = last + 1
          /\ b[d].session = Peer(box[j].sender)
      BY <1>2, <3>1
    <3>3. N + 1 < d
      BY <1>3, <2>2
    <3>4. DeltaCovered(b, d)
      BY <1>2, <1>3, <3>2, <3>3 DEF DeltaCovered
    <3> QED BY <3>1, <3>2, <3>4
  <2> QED BY <1>5, <2>1, <2>2 DEF DeltasRouted
<1>12. CommittedRouted(b, D)
  <2>1. \A c \in C : \E d \in At(b, "delta_routed") : b[d].rec = c
    <3> TAKE c \in C
    <3>1. PICK d \in At(a, "delta_routed") : a[d].rec = c
      BY DEF CommittedRouted
    <3> QED BY <1>3, <3>1
  <2>2. \A j \in 1..m : \E d \in At(b, "delta_routed") : b[d].rec = ds[j].rec
    BY <1>5
  <2> QED BY <1>2, <2>1, <2>2 DEF CommittedRouted, Added
<1> QED
  BY <1>8, <1>9, <1>10, <1>11, <1>12

(* What is heard in order, and the deltas of a tick after it.                 *)
LEMMA TickHeard ==
  ASSUME NEW w \in Role, NEW last \in Nat, NEW box \in Seq(Command),
         NEW s \in Seq(Rec), NEW R \in Seq(Rec), NEW C, NEW D,
         NEW ds, Len(ds) = Len(box), InOrder(R, ds, w), Added(C, ds, D),
         \A j \in 1..Len(box) :
           /\ ds[j].rec = Record(box[j].sender, box[j].seq, last + 1)
           /\ ds[j].session = Peer(box[j].sender),
         InboxAscends(box), InStep(s, w, C, last, box)
  PROVE  InStep(s \o R, w, D, last + 1, <<>>)
<1>1. PICK v \in Seq(Rec) : v = s \o R
  BY ConcatProperties
<1>2. PICK m \in Nat : m = Len(box)
  BY LenProperties
<1>3. D = C \cup {ds[j].rec : j \in 1..Len(box)}
  BY DEF Added
<1>4. /\ Len(s) \in Nat /\ Len(R) \in Nat /\ Len(v) = Len(s) + Len(R)
      /\ \A i \in 1..Len(s) : v[i] = s[i]
      /\ \A i \in 1..Len(R) : v[Len(s) + i] = R[i]
  BY <1>1, ConcatAt, LenProperties DEF Joined
<1>5. \A i \in 1..Len(v) : i \in 1..Len(s) \/ \E j \in 1..Len(R) : i = Len(s) + j
  <2> TAKE i \in 1..Len(v)
  <2>1. i \in 1..Len(s) \/ (i - Len(s) \in 1..Len(R) /\ i = Len(s) + (i - Len(s)))
    BY <1>4
  <2> QED BY <2>1
<1>6. PICK f \in [1..Len(R) -> 1..m] :
         /\ \A i \in 1..Len(R) : ds[f[i]].session = w /\ R[i] = ds[f[i]].rec
         /\ \A i, j \in 1..Len(R) : i < j => f[i] < f[j]
  BY <1>2 DEF InOrder
<1>7. \A k \in 1..m : box[k] \in Command /\ box[k].sender \in Role /\ box[k].seq \in Nat
  <2>1. \A k \in 1..m : box[k] \in Command
    BY <1>2, ElementOfSeq
  <2> QED BY <2>1 DEF Command
<1>8. ASSUME NEW i \in 1..Len(R)
      PROVE  /\ f[i] \in 1..m /\ box[f[i]].sender = Peer(w)
             /\ R[i] = Record(Peer(w), box[f[i]].seq, last + 1) /\ R[i] \in D
             /\ R[i].seq = box[f[i]].seq /\ R[i].tick = last + 1 /\ R[i].seq \in Nat
             /\ InTime(R[i], Peer(w))
  <2>1. f[i] \in 1..m /\ Peer(box[f[i]].sender) = w /\ R[i] = ds[f[i]].rec
    BY <1>2, <1>6
  <2>2. box[f[i]].sender = Peer(w)
    BY <1>7, <2>1, PeerFacts
  <2>3. R[i] = Record(Peer(w), box[f[i]].seq, last + 1)
    BY <1>2, <2>1, <2>2
  <2>4. R[i] \in D
    BY <1>2, <1>3, <2>1
  <2>5. R[i].seq = box[f[i]].seq /\ R[i].tick = last + 1 /\ InTime(R[i], Peer(w))
    BY <2>3 DEF Record, InTime
  <2> QED BY <1>7, <2>1, <2>2, <2>3, <2>4, <2>5
<1>9. \A i \in 1..Len(s) :
        /\ InTime(s[i], Peer(w)) /\ s[i] \in C /\ s[i].tick <= last
        /\ s[i].seq \in Nat /\ s[i].tick \in Nat
        /\ \A k \in 1..m : box[k].sender = Peer(w) => s[i].seq < box[k].seq
  <2> TAKE i \in 1..Len(s)
  <2>1. s[i] \in Rec
    BY ElementOfSeq
  <2>2. s[i].seq \in Nat /\ s[i].tick \in Nat
    BY <2>1 DEF Rec
  <2> QED BY <1>2, <2>2 DEF InStep
<1>10. ASSUME NEW i \in 1..Len(v)
       PROVE  InTime(v[i], Peer(w)) /\ v[i] \in D /\ v[i].tick <= last + 1
  <2>1. CASE i \in 1..Len(s)
    <3>1. v[i] = s[i] /\ s[i].tick <= last /\ s[i].tick \in Nat
      BY <1>4, <1>9, <2>1
    <3> QED BY <1>3, <1>9, <2>1, <3>1
  <2>2. CASE \E j \in 1..Len(R) : i = Len(s) + j
    <3>1. PICK j \in 1..Len(R) : v[i] = R[j]
      BY <1>4, <2>2
    <3> QED BY <1>8, <3>1
  <2> QED BY <1>5, <2>1, <2>2
<1>11. ASSUME NEW i \in 1..Len(v), NEW j \in 1..Len(v), i < j
       PROVE  v[i].seq < v[j].seq /\ v[i].tick <= v[j].tick
  <2>1. CASE i \in 1..Len(s) /\ j \in 1..Len(s)
    <3>1. v[i] = s[i] /\ v[j] = s[j]
      BY <1>4, <2>1
    <3> QED BY <1>11, <2>1, <3>1 DEF InStep
  <2>2. ASSUME i \in 1..Len(s), NEW l \in 1..Len(R), j = Len(s) + l
        PROVE  v[i].seq < v[j].seq /\ v[i].tick <= v[j].tick
    <3>1. v[i] = s[i] /\ v[j] = R[l]
      BY <1>4, <2>2
    <3>2. s[i].seq < R[l].seq
      BY <1>8, <1>9, <2>2
    <3>3. s[i].tick <= last /\ s[i].tick \in Nat /\ R[l].tick = last + 1
      BY <1>8, <1>9, <2>2
    <3> QED BY <3>1, <3>2, <3>3
  <2>3. ASSUME NEW k \in 1..Len(R), i = Len(s) + k, NEW l \in 1..Len(R), j = Len(s) + l
        PROVE  v[i].seq < v[j].seq /\ v[i].tick <= v[j].tick
    <3>1. v[i] = R[k] /\ v[j] = R[l] /\ k < l
      BY <1>4, <1>11, <2>3
    <3>2. f[k] < f[l] /\ f[k] \in 1..m /\ f[l] \in 1..m
      BY <1>6, <3>1
    <3>3. box[f[k]].seq < box[f[l]].seq
      <4>1. box[f[k]].sender = box[f[l]].sender
        BY <1>8
      <4> QED BY <1>2, <3>2, <4>1 DEF InboxAscends
    <3>4. R[k].seq = box[f[k]].seq /\ R[l].seq = box[f[l]].seq
      BY <1>8
    <3>5. R[k].tick = last + 1 /\ R[l].tick = last + 1 /\ last + 1 <= last + 1
      BY <1>8
    <3> QED BY <3>1, <3>3, <3>4, <3>5
  <2>4. ASSUME NEW k \in 1..Len(R), i = Len(s) + k, j \in 1..Len(s) PROVE FALSE
    BY <1>4, <1>11, <2>4
  <2> QED BY <1>5, <2>1, <2>2, <2>3, <2>4
<1>12. InStep(v, w, D, last + 1, <<>>)
  <2>1. 1..Len(<<>>) = {}
    OBVIOUS
  <2> QED BY <1>10, <1>11, <2>1 DEF InStep
<1> QED
  BY <1>1, <1>3, <1>12

(* Hearing the next record moves it from what is on its way to what is heard. *)
LEMMA HeardMoves ==
  ASSUME NEW S, NEW s \in Seq(S), NEW t \in Seq(S), t # <<>>
  PROVE  Append(s, Head(t)) \o Tail(t) = s \o t
<1>1. Head(t) \in S /\ Tail(t) \in Seq(S)
  BY HeadTailProperties
<1>2. <<Head(t)>> \in Seq(S)
  BY <1>1
<1>3. Append(s, Head(t)) = s \o <<Head(t)>>
  BY <1>1, AppendIsConcat
<1>4. <<Head(t)>> \o Tail(t) = t
  <2>1. PICK h \in S : h = Head(t)
    BY <1>1
  <2>2. PICK u \in Seq(S) : u = Tail(t)
    BY <1>1
  <2>3. PICK g \in Seq(S) : g = <<h>>
    BY <1>2, <2>1
  <2>4. Len(g) = 1 /\ g[1] = h
    BY <2>3
  <2>5. PICK v \in Seq(S) : v = g \o u
    BY ConcatProperties
  <2>6. /\ Len(v) = 1 + Len(u) /\ v[1] = h /\ \A i \in 1..Len(u) : v[1 + i] = u[i]
        /\ Len(u) \in Nat
    <3>1. Joined(g, u) /\ Len(u) \in Nat
      BY ConcatAt, LenProperties
    <3>2. Len(v) = Len(g) + Len(u) /\ (\A i \in 1..Len(g) : v[i] = g[i])
          /\ \A i \in 1..Len(u) : v[Len(g) + i] = u[i]
      BY <2>5, <3>1 DEF Joined
    <3>3. 1 \in 1..Len(g)
      BY <2>4
    <3> QED BY <2>4, <3>1, <3>2, <3>3
  <2>7. /\ Len(t) = 1 + Len(u) /\ t[1] = h /\ \A i \in 1..Len(u) : t[i + 1] = u[i]
    <3>1. Len(u) = Len(t) - 1 /\ \A i \in 1..Len(u) : u[i] = t[i + 1]
      BY <2>2, HeadTailProperties
    <3>2. Len(t) \in Nat
      BY LenProperties
    <3> QED BY <2>1, <3>1, <3>2
  <2>8. ASSUME NEW i \in 1..Len(t) PROVE v[i] = t[i]
    <3>1. i = 1 \/ (i - 1 \in 1..Len(u) /\ i = 1 + (i - 1) /\ i = (i - 1) + 1)
      BY <2>6, <2>7
    <3>2. CASE i = 1
      BY <2>6, <2>7, <3>2
    <3>3. CASE i - 1 \in 1..Len(u) /\ i = 1 + (i - 1) /\ i = (i - 1) + 1
      <4>1. PICK j \in 1..Len(u) : i = 1 + j /\ i = j + 1
        BY <3>3
      <4> QED BY <2>6, <2>7, <4>1
    <3> QED BY <3>1, <3>2, <3>3
  <2>9. v = t
    BY <2>6, <2>7, <2>8, SeqEqual
  <2> QED BY <2>1, <2>2, <2>3, <2>5, <2>9
<1> QED
  BY <1>1, <1>2, <1>3, <1>4, ConcatAssociative

-----------------------------------------------------------------------------
(* The actions keep a round honest *)

(* An event after a trace that tells what happened.                           *)
LEMMA TraceLonger ==
  ASSUME NEW s \in Seq(TraceEvent), NEW e \in TraceEvent, e.kind # "mangled",
         NEW n, NEW n2, NEW out, NEW out2, TraceTrue(s, n, out),
         n2 = n \/ e.kind = "command_sent",
         out2.received # <<>> => out.received # <<>> \/ e.kind = "delta_received",
         out2.status # "pending" => out.status # "pending" \/ e.kind = "bot_finished",
         out2.status # "failed" => out.status # "failed" /\ e.ok,
         e.kind = "command_sent" => e.rec.sender = "bot" /\ e.rec.sha = "hello",
         e.kind = "delta_received" => InTime(e.rec, "browser")
  PROVE  TraceTrue(Append(s, e), n2, out2)
<1>1. PICK u : u = Append(s, e)
  OBVIOUS
<1>2. PICK N : N = Len(s)
  OBVIOUS
<1>3. Longer(s, e, u)
  BY <1>1, OneMore
<1>4. /\ N \in Nat /\ u[N + 1] = e /\ (\A i \in 1..N : u[i] = s[i]) /\ DOMAIN s = 1..N
      /\ \A i \in DOMAIN u : i \in 1..N \/ i = N + 1
      /\ \A k : At(u, k) = At(s, k) \cup (IF e.kind = k THEN {N + 1} ELSE {})
      /\ \A k : At(s, k) \subseteq 1..N
  BY <1>2, <1>3 DEF Longer
<1>5. \A k : At(s, k) # {} \/ e.kind = k => At(u, k) # {}
  BY <1>4
<1>6. At(u, "mangled") = {}
  BY <1>4 DEF TraceTrue, Readable
<1>7. out2.status # "failed" => \A i \in DOMAIN u : u[i].ok
  BY <1>4 DEF TraceTrue
<1>8. \A i \in At(u, "command_sent") : u[i].rec.sender = "bot" /\ u[i].rec.sha = "hello"
  <2>1. \A i \in At(s, "command_sent") : i \in 1..N /\ s[i].rec.sender = "bot" /\ s[i].rec.sha = "hello"
    BY <1>4 DEF TraceTrue
  <2> QED BY <1>4, <2>1
<1>9. \A i \in At(u, "delta_received") : InTime(u[i].rec, "browser")
  <2>1. \A i \in At(s, "delta_received") : i \in 1..N /\ InTime(s[i].rec, "browser")
    BY <1>4 DEF TraceTrue
  <2> QED BY <1>4, <2>1
<1>10. /\ At(u, "bot_started") # {} /\ At(u, "connected") # {}
       /\ n2 > 0 => At(u, "command_sent") # {}
       /\ out2.received # <<>> => At(u, "delta_received") # {}
       /\ out2.status # "pending" => At(u, "bot_finished") # {}
  BY <1>5 DEF TraceTrue
<1>11. TraceTrue(u, n2, out2)
  BY <1>6, <1>7, <1>8, <1>9, <1>10 DEF TraceTrue, Readable
<1> QED BY <1>1, <1>11

(* Sending keeps a round honest.                                              *)
LEMMA SendHonest ==
  ASSUME TypeOK, scope' = scope, NEW r \in Rnd, NEW w \in Role, Send(r, w), Sound(r), Honest(r)
  PROVE  Honest(r)'
<1> DEFINE a == audit[r]
           b == audit'[r]
           box == inbox[r]
           box2 == inbox'[r]
<1>0. PICK n : n = sent[r][w] + 1
  OBVIOUS
<1>1. /\ n \in Nat /\ n <= scope.commands /\ Running(r, w)
      /\ sent'[r][w] = n /\ \A x \in Role \ {w} : sent'[r][x] = sent[r][x]
      /\ box2 = Append(box, [sender |-> w, seq |-> n])
      /\ b = a \o <<Ingress(w, n)>>
      /\ trace'[r] = IF w = "bot" THEN Append(trace[r], Event("command_sent", Record(w, n, 0)))
                     ELSE trace[r]
      /\ UNCHANGED <<tick, committed, echo, wire, result, faults>>
  BY <1>0, SendDoes
<1>2. /\ box \in Seq(Command) /\ a \in Seq(AuditLine) /\ \A x \in Role : sent[r][x] \in Nat
      /\ trace[r] \in Seq(TraceEvent) /\ \A x \in Role : result[r][x] \in Outcome
  <2>1. sent[r] \in [Role -> Nat]
    BY DEF TypeOK
  <2> QED BY <2>1 DEF TypeOK
<1>3. PICK l \in AuditLine : l = Ingress(w, n)
  BY <1>1, Writings
<1>4. /\ l.kind = "ingress_received" /\ l.kind # "tick_committed" /\ l.kind # "delta_routed"
      /\ l.kind # "mangled" /\ l.rec.sender = w /\ l.rec.seq = n
  BY <1>3 DEF Ingress, Line, Record
<1>5. b = a \o <<l>> /\ b = Append(a, l)
  BY <1>1, <1>2, <1>3, AppendIsConcat
<1>6. Quiet(a, l, b)
  BY <1>2, <1>4, <1>5, QuietLine
<1>7. PICK c \in Command : c = [sender |-> w, seq |-> n]
  BY <1>1 DEF Command
<1>8. PICK m \in Nat : m = Len(box)
  BY <1>2, LenProperties
<1>9. /\ Len(box2) = m + 1 /\ box2[m + 1] = c /\ \A i \in 1..m : box2[i] = box[i]
      /\ \A i \in 1..Len(box2) : i \in 1..m \/ i = m + 1
  <2>1. box2 = Append(box, c)
    BY <1>1, <1>7
  <2>2. Len(box2) = m + 1 /\ box2[m + 1] = c /\ \A i \in 1..m : box2[i] = box[i]
    BY <1>2, <1>8, <2>1, AppendProperties
  <2>3. \A i \in 1..(m + 1) : i \in 1..m \/ i = m + 1
    BY <1>8
  <2> QED BY <2>2, <2>3
<1>10. \A i \in 1..m : box[i] \in Command /\ box[i].seq <= sent[r][box[i].sender]
  <2>1. \A i \in 1..m : box[i] \in Command
    BY <1>2, <1>8, ElementOfSeq
  <2> QED BY <1>8, <2>1 DEF Sound, InboxWritten
<1> HIDE DEF a, b, box, box2
<1>11. /\ AuditStart(a) /\ TicksAscend(a, tick[r]) /\ IngressCounted(a, sent[r])
       /\ IngressServed(a, box) /\ DeltasRouted(a) /\ CommittedRouted(a, committed[r])
       /\ InboxAscends(box)
       /\ \A x \in Role : InStep(Heard(r, x), x, committed[r], tick[r], box)
       /\ TraceTrue(trace[r], sent[r]["bot"], result[r]["bot"]) /\ EndedWell(r)
  BY DEF Honest, a, box
<1>12. AuditStart(b)
  <2>1. <<l>> \in Seq(AuditLine) /\ \A i \in 1..Len(<<l>>) : <<l>>[i].kind # "mangled"
    BY <1>4
  <2> QED BY <1>2, <1>5, <1>11, <2>1, StartStays DEF a
<1>13. TicksAscend(b, tick[r]) /\ DeltasRouted(b) /\ CommittedRouted(b, committed[r])
  BY <1>2, <1>6, <1>11, QuietKeeps DEF a
<1>14. IngressCounted(b, sent'[r])
  <2>1. IngressCounted(Append(a, Ingress(w, n)), sent'[r])
    <3>1. PICK snt : snt = sent[r]
      OBVIOUS
    <3>2. PICK snt2 : snt2 = sent'[r]
      OBVIOUS
    <3>3. PICK a0 \in Seq(AuditLine) : a0 = a
      BY <1>2 DEF a
    <3>4. PICK k \in Nat : k = n
      BY <1>1
    <3>5. k = snt[w] + 1 /\ \A x \in Role : snt[x] \in Nat
      BY <1>0, <1>2, <3>1, <3>4
    <3>6. IngressCounted(a0, snt)
      BY <1>11, <3>1, <3>3
    <3>7. snt2[w] = k /\ \A x \in Role \ {w} : snt2[x] = snt[x]
      BY <1>1, <3>1, <3>2, <3>4
    <3>8. IngressCounted(Append(a0, Ingress(w, k)), snt2)
      BY ONLY w \in Role, <3>5, <3>6, <3>7, IngressLine
    <3> QED BY <3>2, <3>3, <3>4, <3>8
  <2> QED BY <1>3, <1>5, <2>1
<1>15. IngressServed(b, box2)
  <2>1. ASSUME NEW i \in At(a, "ingress_received") PROVE Answered(b, i) \/ Open(b, i, box2)
    <3>1. CASE Answered(a, i)
      BY <1>2, <1>6, <3>1, QuietKeeps DEF a
    <3>2. CASE Open(a, i, box)
      <4>1. Open(b, i, box)
        BY <1>2, <1>6, <3>2, QuietKeeps DEF a
      <4>2. \A k \in 1..Len(box) : k \in 1..Len(box2) /\ box2[k] = box[k]
        BY <1>8, <1>9
      <4>3. Open(b, i, box2)
        BY <4>1, <4>2 DEF Open
      <4> QED BY <4>3
    <3> QED BY <1>11, <3>1, <3>2 DEF IngressServed
  <2>2. PICK N \in Nat : N = Len(a)
    BY <1>2, LenProperties DEF a
  <2>3. Longer(a, l, b)
    BY <1>2, <1>5, OneMore DEF a
  <2>4. /\ At(b, "ingress_received") = At(a, "ingress_received") \cup {N + 1} /\ b[N + 1] = l
        /\ At(b, "tick_committed") \subseteq 1..N
    <3>1. At(b, "tick_committed") = At(a, "tick_committed")
      BY <1>4, <2>3 DEF Longer
    <3> QED BY <1>4, <2>2, <2>3, <3>1 DEF Longer
  <2>5. Open(b, N + 1, box2)
    <3>1. \A t \in At(b, "tick_committed") : t < N + 1
      BY <2>2, <2>4
    <3>2. m + 1 \in 1..Len(box2) /\ box2[m + 1] = [sender |-> b[N + 1].rec.sender, seq |-> b[N + 1].rec.seq]
      BY <1>4, <1>7, <1>8, <1>9, <2>4
    <3> QED BY <3>1, <3>2 DEF Open
  <2> QED BY <2>1, <2>4, <2>5 DEF IngressServed
<1>16. InboxAscends(box2)
  <2>1. ASSUME NEW i \in 1..Len(box2), NEW j \in 1..Len(box2), i < j,
               box2[i].sender = box2[j].sender
        PROVE  box2[i].seq < box2[j].seq
    <3>1. i \in 1..m
      BY <1>8, <1>9, <2>1
    <3>2. CASE j \in 1..m
      BY <1>8, <1>9, <1>11, <2>1, <3>1, <3>2 DEF InboxAscends
    <3>3. CASE j = m + 1
      <4>1. box2[j] = c /\ box2[i] = box[i] /\ c.sender = w /\ c.seq = n
        BY <1>7, <1>9, <3>1, <3>3
      <4>2. box[i].seq <= sent[r][w] /\ box[i].seq \in Nat /\ sent[r][w] \in Nat
        BY <1>2, <1>10, <2>1, <3>1, <4>1 DEF Command
      <4> QED BY <1>0, <4>1, <4>2
    <3> QED BY <1>9, <3>2, <3>3
  <2> QED BY <2>1 DEF InboxAscends
<1>17. ASSUME NEW x \in Role PROVE InStep(Heard(r, x)', x, committed[r], tick[r], box2)
  <2>1. PICK s : s = Heard(r, x)
    OBVIOUS
  <2>2. Heard(r, x)' = s
    BY <1>1, <2>1 DEF Heard
  <2>3. InStep(s, x, committed[r], tick[r], box)
    BY <1>11, <2>1
  <2>4. ASSUME NEW i \in 1..Len(s), NEW k \in 1..Len(box2), box2[k].sender = Peer(x)
        PROVE  s[i].seq < box2[k].seq
    <3>1. CASE k \in 1..m
      BY <1>8, <1>9, <2>3, <2>4, <3>1 DEF InStep
    <3>2. CASE k = m + 1
      <4>1. s[i] \in committed[r] /\ s[i].sender = w /\ box2[k].seq = n
        BY <1>7, <1>9, <2>3, <2>4, <3>2 DEF InStep, InTime
      <4>2. s[i].seq <= sent[r][w]
        BY <4>1 DEF Sound, CommittedSent
      <4>3. s[i].seq \in Nat
        <5>1. committed[r] \subseteq Rec
          BY DEF TypeOK
        <5> QED BY <4>1, <5>1 DEF Rec
      <4> QED BY <1>0, <1>2, <4>1, <4>2, <4>3
    <3> QED BY <1>9, <3>1, <3>2
  <2>5. InStep(s, x, committed[r], tick[r], box2)
    BY <2>3, <2>4 DEF InStep
  <2> QED BY <2>2, <2>5
<1>18. TraceTrue(trace'[r], sent'[r]["bot"], result'[r]["bot"])
  <2>1. CASE w = "bot"
    <3>1. PICK e \in TraceEvent : e = Event("command_sent", Record(w, n, 0))
      BY <1>1, Writings
    <3>2. /\ e.kind = "command_sent" /\ e.kind # "delta_received" /\ e.kind # "mangled"
          /\ e.ok = TRUE /\ e.rec.sender = "bot" /\ e.rec.sha = "hello"
      BY <2>1, <3>1 DEF Event, Record
    <3>3. trace'[r] = Append(trace[r], e) /\ result'[r]["bot"] = result[r]["bot"]
      BY <1>1, <2>1, <3>1
    <3> QED BY <1>2, <1>11, <3>2, <3>3, TraceLonger
  <2>2. CASE w # "bot"
    <3>1. "bot" \in Role \ {w}
      BY <2>2 DEF Role
    <3> QED BY <1>1, <1>11, <2>2, <3>1
  <2> QED BY <2>1, <2>2
<1>19. EndedWell(r)'
  <2>1. ASSUME NEW x \in Role, result[r][x].status = "ok" PROVE sent'[r][x] = sent[r][x]
    <3>1. x # w
      BY <1>1, <2>1 DEF Running
    <3> QED BY <1>1, <3>1
  <2> QED BY <1>1, <1>11, <2>1 DEF EndedWell
<1>20. UNCHANGED <<tick, committed>>
  BY <1>1
<1> QED
  BY ONLY <1>12, <1>13, <1>14, <1>15, <1>16, <1>17, <1>18, <1>19, <1>20 DEF Honest, b, box2

(* Three sequences of records, one after the other.                           *)
LEMMA RecordsConcat ==
  ASSUME NEW u \in Seq(Rec), NEW v \in Seq(Rec), NEW x \in Seq(Rec)
  PROVE  (u \o v) \o x = u \o (v \o x)
  BY ConcatAssociative, SMT

(* A tick without fault keeps a round honest.                                 *)
LEMMA CommitHonest ==
  ASSUME TypeOK, scope' = scope, NEW r \in Rnd, Commit(r), faults' = faults, Honest(r)
  PROVE  Honest(r)'
<1>1. Len(inbox[r]) \in Nat /\ Len(inbox[r]) > 0 /\ inbox'[r] = <<>> /\ UNCHANGED <<sent, trace, result>>
  BY CommitDoes
<1>2. PICK to : /\ CommitEffect(r, to)
                /\ Deltas(r, to) \in Seq(AuditLine) /\ Len(Deltas(r, to)) = Len(inbox[r])
                /\ \A w \in Role : /\ RoutedTo(Deltas(r, to), w) \in Seq(Rec)
                                   /\ InOrder(RoutedTo(Deltas(r, to), w), Deltas(r, to), w)
  BY CommitDoes
<1>3. PICK ds \in Seq(AuditLine) : ds = Deltas(r, to)
  BY <1>2
<1>4. /\ inbox[r] \in Seq(Command) /\ audit[r] \in Seq(AuditLine) /\ tick[r] \in Nat
      /\ \A w \in Role : wire[r][w] \in Seq(Rec) /\ result[r][w].received \in Seq(Rec)
  <2>1. /\ inbox[r] \in Seq(Command) /\ audit[r] \in Seq(AuditLine) /\ tick[r] \in Nat
        /\ \A w \in Role : wire[r][w] \in Seq(Rec) /\ result[r][w] \in Outcome
    BY DEF TypeOK
  <2> QED BY <2>1 DEF Outcome
<1>5. PICK box \in Seq(Command) : box = inbox[r]
  BY <1>4
<1>6. PICK a \in Seq(AuditLine) : a = audit[r]
  BY <1>4
<1>7. PICK last \in Nat : last = tick[r]
  BY <1>4
<1>8. PICK C : C = committed[r]
  OBVIOUS
<1>9. /\ Len(ds) = Len(box) /\ Len(box) \in Nat /\ Len(box) > 0
      /\ tick'[r] = last + 1
      /\ committed'[r] = C \cup {ds[i].rec : i \in 1..Len(box)}
      /\ audit'[r] = a \o (<<TickLine(last + 1, Len(box))>> \o ds)
      /\ \A w \in Role : wire'[r][w] = wire[r][w] \o RoutedTo(ds, w)
      /\ \A i \in 1..Len(box) : to[i] = Peer(box[i].sender)
  BY <1>1, <1>2, <1>3, <1>5, <1>6, <1>7, <1>8 DEF CommitEffect
<1>10. \A i \in 1..Len(box) :
         /\ ds[i].kind = "delta_routed" /\ ds[i].kind # "mangled"
         /\ ds[i].session = Peer(box[i].sender)
         /\ ds[i].rec = Record(box[i].sender, box[i].seq, last + 1)
         /\ ds[i].rec.sender = box[i].sender /\ ds[i].rec.tick = last + 1
  <2>1. ASSUME NEW i \in 1..Len(inbox[r])
        PROVE  /\ Deltas(r, to)[i].kind = "delta_routed" /\ Deltas(r, to)[i].session = to[i]
               /\ Deltas(r, to)[i].rec = Record(inbox[r][i].sender, inbox[r][i].seq, tick[r] + 1)
               /\ Deltas(r, to)[i].rec.sender = inbox[r][i].sender
               /\ Deltas(r, to)[i].rec.tick = tick[r] + 1
    BY DeltaLines
  <2> QED BY <1>3, <1>5, <1>7, <1>9, <2>1
<1>11. PICK tl \in AuditLine : tl = TickLine(last + 1, Len(box))
  <2>1. last + 1 \in Nat
    OBVIOUS
  <2> QED BY <1>9, <2>1, Writings
<1>12. tl.kind = "tick_committed" /\ tl.count = Len(box) /\ tl.rec.tick = last + 1 /\ tl.kind # "mangled"
  BY <1>11 DEF TickLine, Line, Record
<1>13. PICK b : b = audit'[r]
  OBVIOUS
<1>14. PICK D : D = committed'[r]
  OBVIOUS
<1>15. Added(C, ds, D)
  BY <1>9, <1>14 DEF Added
<1>16. /\ AuditStart(a) /\ TicksAscend(a, last) /\ IngressCounted(a, sent[r])
       /\ IngressServed(a, box) /\ DeltasRouted(a) /\ CommittedRouted(a, C)
       /\ InboxAscends(box)
       /\ \A x \in Role : InStep(Heard(r, x), x, C, last, box)
       /\ TraceTrue(trace[r], sent[r]["bot"], result[r]["bot"]) /\ EndedWell(r)
  BY <1>5, <1>6, <1>7, <1>8 DEF Honest
<1>17. b = a \o (<<tl>> \o ds)
  BY <1>9, <1>11, <1>13
<1>18. Ticked(a, tl, ds, b)
  BY <1>9, <1>10, <1>12, <1>17, TickLines
<1>19. AuditStart(b)
  <2>1. <<tl>> \in Seq(AuditLine) /\ Len(<<tl>>) = 1 /\ <<tl>>[1] = tl
    OBVIOUS
  <2>2. PICK l \in Seq(AuditLine) : l = <<tl>> \o ds
    BY <2>1, ConcatProperties
  <2>3. /\ Len(l) = 1 + Len(ds) /\ l[1] = tl /\ \A j \in 1..Len(ds) : l[1 + j] = ds[j]
    <3>1. Joined(<<tl>>, ds)
      BY <2>1, ConcatAt
    <3> QED BY <2>1, <2>2, <3>1 DEF Joined
  <2>4. ASSUME NEW i \in 1..Len(l) PROVE l[i].kind # "mangled"
    <3>1. CASE i = 1
      BY <1>12, <2>3, <3>1
    <3>2. CASE i # 1
      <4>1. i - 1 \in 1..Len(box) /\ i = 1 + (i - 1)
        BY <1>9, <2>3, <3>2
      <4>2. PICK j \in 1..Len(box) : i = 1 + j
        BY <4>1
      <4> QED BY <1>9, <1>10, <2>3, <4>2
    <3> QED BY <3>1, <3>2
  <2> QED BY <1>16, <1>17, <2>2, <2>4, StartStays
<1>20. /\ TicksAscend(b, last + 1) /\ IngressCounted(b, sent[r]) /\ IngressServed(b, <<>>)
       /\ DeltasRouted(b) /\ CommittedRouted(b, D)
  <2>1. PICK snt : snt = sent[r]
    OBVIOUS
  <2>2. IngressCounted(a, snt)
    BY <1>16, <2>1
  <2>3. \A j \in 1..Len(box) :
          /\ ds[j].rec = Record(box[j].sender, box[j].seq, last + 1)
          /\ ds[j].rec.sender = box[j].sender /\ ds[j].rec.tick = last + 1
          /\ ds[j].session = Peer(box[j].sender)
    BY <1>10
  <2>4. Len(ds) = Len(box) /\ Len(box) > 0
    BY <1>9
  <2>5. tl.kind = "tick_committed" /\ tl.count = Len(box) /\ tl.rec.tick = last + 1
    BY <1>12
  <2>6. /\ TicksAscend(a, last) /\ IngressServed(a, box) /\ DeltasRouted(a) /\ CommittedRouted(a, C)
    BY <1>16
  <2>7. /\ TicksAscend(b, last + 1) /\ IngressCounted(b, snt) /\ IngressServed(b, <<>>)
        /\ DeltasRouted(b) /\ CommittedRouted(b, D)
    BY ONLY a \in Seq(AuditLine), last \in Nat, box \in Seq(Command), tl \in AuditLine,
            <1>15, <1>18, <2>2, <2>3, <2>4, <2>5, <2>6, TickKeeps
  <2> QED BY <2>1, <2>7
<1>21. InboxAscends(<<>>)
  BY DEF InboxAscends
<1>22. ASSUME NEW x \in Role PROVE InStep(Heard(r, x)', x, D, last + 1, <<>>)
  <2>1. PICK u \in Seq(Rec) : u = result[r][x].received
    BY <1>4
  <2>2. PICK v \in Seq(Rec) : v = wire[r][x]
    BY <1>4
  <2>3. PICK R \in Seq(Rec) : R = RoutedTo(ds, x) /\ InOrder(R, ds, x)
    BY <1>2, <1>3
  <2>4. PICK s \in Seq(Rec) : s = u \o v
    BY ConcatProperties
  <2>5. InStep(s, x, C, last, box)
    <3>1. Heard(r, x) = s
      BY <2>1, <2>2, <2>4 DEF Heard
    <3> QED BY <1>16, <3>1
  <2>6. InStep(s \o R, x, D, last + 1, <<>>)
    <3>1. \A j \in 1..Len(box) :
            /\ ds[j].rec = Record(box[j].sender, box[j].seq, last + 1)
            /\ ds[j].session = Peer(box[j].sender)
      BY <1>10
    <3>2. Len(ds) = Len(box) /\ InOrder(R, ds, x) /\ InboxAscends(box)
      BY <1>9, <1>16, <2>3
    <3> QED BY ONLY x \in Role, last \in Nat, box \in Seq(Command), s \in Seq(Rec),
                    R \in Seq(Rec), <1>15, <2>5, <3>1, <3>2, TickHeard
  <2>7. Heard(r, x)' = u \o (v \o R)
    <3>1. result'[r][x].received = u
      BY <1>1, <2>1
    <3>2. wire'[r][x] = v \o R
      BY <1>9, <2>2, <2>3
    <3> QED BY <3>1, <3>2 DEF Heard
  <2>8. (u \o v) \o R = u \o (v \o R)
    BY ONLY u \in Seq(Rec), v \in Seq(Rec), R \in Seq(Rec), RecordsConcat
  <2> QED BY <2>4, <2>6, <2>7, <2>8
<1>23. TraceTrue(trace'[r], sent'[r]["bot"], result'[r]["bot"])
  BY <1>1, <1>16
<1>24. EndedWell(r)'
  BY <1>1, <1>16 DEF EndedWell
<1>25. /\ audit'[r] = b /\ tick'[r] = last + 1 /\ committed'[r] = D /\ inbox'[r] = <<>> /\ sent'[r] = sent[r]
  BY <1>1, <1>9, <1>13, <1>14
<1> QED
  BY ONLY <1>19, <1>20, <1>21, <1>22, <1>23, <1>24, <1>25 DEF Honest

(* Hearing keeps a round honest.                                              *)
LEMMA HearHonest ==
  ASSUME TypeOK, scope' = scope, NEW r \in Rnd, NEW w \in Role, Hear(r, w), Honest(r)
  PROVE  Honest(r)'
<1>0. PICK x : x = Head(wire[r][w])
  OBVIOUS
<1>1. /\ Running(r, w) /\ wire[r][w] # <<>> /\ x \in Rec
      /\ result'[r][w].received = Append(result[r][w].received, x)
      /\ result'[r][w].status = result[r][w].status
      /\ wire'[r][w] = Tail(wire[r][w])
      /\ \A u \in Role \ {w} : result'[r][u] = result[r][u] /\ wire'[r][u] = wire[r][u]
      /\ trace'[r] = IF w = "bot" THEN Append(trace[r], Event("delta_received", x))
                     ELSE trace[r]
      /\ UNCHANGED <<inbox, tick, committed, echo, sent, audit, faults>>
  BY <1>0, HearDoes
<1>2. trace[r] \in Seq(TraceEvent) /\ wire[r][w] \in Seq(Rec) /\ result[r][w].received \in Seq(Rec)
  <2>1. trace[r] \in Seq(TraceEvent) /\ wire[r][w] \in Seq(Rec) /\ result[r][w] \in Outcome
    BY DEF TypeOK
  <2> QED BY <2>1 DEF Outcome
<1>3. /\ \A u \in Role : InStep(Heard(r, u), u, committed[r], tick[r], inbox[r])
      /\ TraceTrue(trace[r], sent[r]["bot"], result[r]["bot"]) /\ EndedWell(r)
  BY DEF Honest
<1>4. ASSUME NEW u \in Role PROVE Heard(r, u)' = Heard(r, u)
  <2>1. CASE u = w
    <3>1. PICK s \in Seq(Rec) : s = result[r][w].received
      BY <1>2
    <3>2. PICK t \in Seq(Rec) : t = wire[r][w] /\ t # <<>>
      BY <1>1, <1>2
    <3>3. Append(s, Head(t)) \o Tail(t) = s \o t
      BY <3>2, HeardMoves
    <3> QED BY <1>0, <1>1, <2>1, <3>1, <3>2, <3>3 DEF Heard
  <2>2. CASE u # w
    BY <1>1, <2>2 DEF Heard
  <2> QED BY <2>1, <2>2
<1>5. InTime(x, Peer(w))
  <2>1. PICK s \in Seq(Rec) : s = result[r][w].received
    BY <1>2
  <2>2. PICK t \in Seq(Rec) : t = wire[r][w] /\ t # <<>>
    BY <1>1, <1>2
  <2>3. 1 \in 1..Len(t) /\ x = t[1] /\ Len(t) \in Nat /\ Len(s) \in Nat
    BY <1>0, <2>2, HeadTailProperties, LenProperties, EmptySeq
  <2>4. PICK v : v = s \o t
    OBVIOUS
  <2>5. Len(v) = Len(s) + Len(t) /\ v[Len(s) + 1] = x
    BY <2>3, <2>4, ConcatAt DEF Joined
  <2>6. Len(s) + 1 \in 1..Len(v)
    BY <2>3, <2>5
  <2>7. InStep(v, w, committed[r], tick[r], inbox[r])
    BY <1>3, <2>1, <2>2, <2>4 DEF Heard
  <2> QED BY <2>5, <2>6, <2>7 DEF InStep
<1>6. TraceTrue(trace'[r], sent'[r]["bot"], result'[r]["bot"])
  <2>1. CASE w = "bot"
    <3>1. PICK e \in TraceEvent : e = Event("delta_received", x)
      BY <1>1, Writings
    <3>2. /\ e.kind = "delta_received" /\ e.kind # "command_sent" /\ e.kind # "mangled"
          /\ e.ok = TRUE /\ e.rec = x
      BY <3>1 DEF Event
    <3>3. InTime(e.rec, "browser")
      BY <1>5, <2>1, <3>2 DEF Peer
    <3>4. /\ trace'[r] = Append(trace[r], e) /\ sent'[r]["bot"] = sent[r]["bot"]
          /\ result'[r]["bot"].status = result[r]["bot"].status
      BY <1>1, <2>1, <3>1
    <3> QED BY <1>2, <1>3, <3>2, <3>3, <3>4, TraceLonger
  <2>2. CASE w # "bot"
    <3>1. "bot" \in Role \ {w}
      BY <2>2 DEF Role
    <3> QED BY <1>1, <1>3, <2>2, <3>1
  <2> QED BY <2>1, <2>2
<1>7. EndedWell(r)'
  <2>1. ASSUME NEW u \in Role, result'[r][u].status = "ok" PROVE u # w
    BY <1>1, <2>1 DEF Running
  <2> QED BY <1>1, <1>3, <2>1 DEF EndedWell
<1>8. \A u \in Role : InStep(Heard(r, u)', u, committed'[r], tick'[r], inbox'[r])
  BY <1>1, <1>3, <1>4
<1>9. /\ AuditStart(audit'[r]) /\ TicksAscend(audit'[r], tick'[r])
      /\ IngressCounted(audit'[r], sent'[r]) /\ IngressServed(audit'[r], inbox'[r])
      /\ DeltasRouted(audit'[r]) /\ CommittedRouted(audit'[r], committed'[r])
      /\ InboxAscends(inbox'[r])
  BY <1>1 DEF Honest
<1> QED
  BY ONLY <1>6, <1>7, <1>8, <1>9 DEF Honest

(* Finishing keeps a round honest: well only if all was sent and some heard.  *)
LEMMA FinishHonest ==
  ASSUME TypeOK, scope' = scope, NEW r \in Rnd, NEW w \in Role, Finish(r, w), Honest(r)
  PROVE  Honest(r)'
<1>0. PICK ok \in BOOLEAN : ok = (sent[r][w] = scope.commands /\ result[r][w].received # <<>>)
  OBVIOUS
<1>1. /\ Running(r, w)
      /\ result'[r][w].received = result[r][w].received
      /\ result'[r][w].status = IF ok THEN "ok" ELSE "failed"
      /\ \A u \in Role \ {w} : result'[r][u] = result[r][u]
      /\ trace'[r] = IF w = "bot"
                     THEN Append(trace[r], [Event("bot_finished", Nothing) EXCEPT !.ok = ok])
                     ELSE trace[r]
      /\ UNCHANGED <<inbox, tick, committed, echo, wire, sent, audit, faults>>
  BY <1>0, FinishDoes
<1>2. trace[r] \in Seq(TraceEvent)
  BY DEF TypeOK
<1>3. /\ \A u \in Role : InStep(Heard(r, u), u, committed[r], tick[r], inbox[r])
      /\ TraceTrue(trace[r], sent[r]["bot"], result[r]["bot"]) /\ EndedWell(r)
  BY DEF Honest
<1>4. \A u \in Role : Heard(r, u)' = Heard(r, u)
  BY <1>1 DEF Heard
<1>5. TraceTrue(trace'[r], sent'[r]["bot"], result'[r]["bot"])
  <2>1. CASE w = "bot"
    <3>1. PICK e \in TraceEvent : e = [Event("bot_finished", Nothing) EXCEPT !.ok = ok]
      BY Writings
    <3>2. /\ e.kind = "bot_finished" /\ e.kind # "command_sent" /\ e.kind # "mangled"
          /\ e.kind # "delta_received" /\ e.ok = ok
      BY <3>1 DEF Event
    <3>3. /\ trace'[r] = Append(trace[r], e) /\ sent'[r]["bot"] = sent[r]["bot"]
          /\ result'[r]["bot"].received = result[r]["bot"].received
          /\ result'[r]["bot"].status # "failed" => ok
          /\ result[r]["bot"].status # "failed"
      BY <1>1, <2>1, <3>1 DEF Running
    <3> QED BY <1>2, <1>3, <3>2, <3>3, TraceLonger
  <2>2. CASE w # "bot"
    <3>1. "bot" \in Role \ {w}
      BY <2>2 DEF Role
    <3> QED BY <1>1, <1>3, <2>2, <3>1
  <2> QED BY <2>1, <2>2
<1>6. EndedWell(r)'
  <2> SUFFICES ASSUME NEW u \in Role, result'[r][u].status = "ok"
               PROVE  sent'[r][u] = scope.commands /\ result'[r][u].received # <<>>
    BY DEF EndedWell
  <2>1. CASE u = w
    BY <1>0, <1>1, <2>1
  <2>2. CASE u # w
    BY <1>1, <1>3, <2>2 DEF EndedWell
  <2> QED BY <2>1, <2>2
<1>7. \A u \in Role : InStep(Heard(r, u)', u, committed'[r], tick'[r], inbox'[r])
  BY <1>1, <1>3, <1>4
<1>8. /\ AuditStart(audit'[r]) /\ TicksAscend(audit'[r], tick'[r])
      /\ IngressCounted(audit'[r], sent'[r]) /\ IngressServed(audit'[r], inbox'[r])
      /\ DeltasRouted(audit'[r]) /\ CommittedRouted(audit'[r], committed'[r])
      /\ InboxAscends(inbox'[r])
  BY <1>1 DEF Honest
<1> QED
  BY ONLY <1>5, <1>6, <1>7, <1>8 DEF Honest

(* The last line of the audit keeps a round honest.                           *)
LEMMA ShutdownHonest ==
  ASSUME TypeOK, scope' = scope, NEW r \in Rnd, Shutdown(r), Honest(r)
  PROVE  Honest(r)'
<1>1. PICK l \in AuditLine : l = Line("server_shutdown", "stray", Nothing)
  BY Writings
<1>2. /\ l.kind = "server_shutdown" /\ l.kind # "tick_committed" /\ l.kind # "delta_routed"
      /\ l.kind # "mangled" /\ l.kind # "ingress_received"
  BY <1>1 DEF Line
<1>3. /\ audit'[r] = audit[r] \o <<l>>
      /\ UNCHANGED <<inbox, tick, committed, echo, wire, sent, trace, result, faults>>
  BY <1>1, ShutdownDoes
<1>4. PICK a \in Seq(AuditLine) : a = audit[r]
  BY DEF TypeOK
<1>5. PICK b : b = audit'[r]
  OBVIOUS
<1>6. PICK snt : snt = sent[r]
  OBVIOUS
<1>7. b = a \o <<l>> /\ b = Append(a, l)
  BY <1>3, <1>4, <1>5, AppendIsConcat
<1>8. Quiet(a, l, b)
  BY <1>2, <1>7, QuietLine
<1>9. /\ AuditStart(a) /\ TicksAscend(a, tick[r]) /\ IngressCounted(a, snt)
      /\ IngressServed(a, inbox[r]) /\ DeltasRouted(a) /\ CommittedRouted(a, committed[r])
  BY <1>4, <1>6 DEF Honest
<1>10. AuditStart(b)
  <2>1. <<l>> \in Seq(AuditLine) /\ \A i \in 1..Len(<<l>>) : <<l>>[i].kind # "mangled"
    BY <1>2
  <2> QED BY <1>7, <1>9, <2>1, StartStays
<1>11. /\ TicksAscend(b, tick[r]) /\ DeltasRouted(b) /\ CommittedRouted(b, committed[r])
  BY <1>8, <1>9, QuietKeeps
<1>12. /\ At(b, "ingress_received") = At(a, "ingress_received")
       /\ \A i \in At(a, "ingress_received") : b[i] = a[i]
  <2>1. Longer(a, l, b)
    BY <1>7, OneMore
  <2>2. At(b, "ingress_received") = At(a, "ingress_received")
    <3>1. At(b, "ingress_received") = At(a, "ingress_received")
                   \cup (IF l.kind = "ingress_received" THEN {Len(a) + 1} ELSE {})
      BY <2>1 DEF Longer
    <3> QED BY <1>2, <3>1
  <2>3. \A i \in At(a, "ingress_received") : i \in 1..Len(a)
    BY <2>1 DEF Longer
  <2> QED BY <2>1, <2>2, <2>3 DEF Longer
<1>13. IngressCounted(b, snt)
  BY <1>9, <1>12, OtherLine
<1>14. IngressServed(b, inbox[r])
  <2>1. ASSUME NEW i \in At(a, "ingress_received") PROVE Answered(b, i) \/ Open(b, i, inbox[r])
    <3>1. Answered(a, i) => Answered(b, i)
      BY <1>8, QuietKeeps
    <3>2. Open(a, i, inbox[r]) => Open(b, i, inbox[r])
      BY <1>8, QuietKeeps
    <3> QED BY <1>9, <3>1, <3>2 DEF IngressServed
  <2> QED BY <1>12, <2>1 DEF IngressServed
<1>15. /\ InboxAscends(inbox'[r])
       /\ \A x \in Role : InStep(Heard(r, x)', x, committed'[r], tick'[r], inbox'[r])
       /\ TraceTrue(trace'[r], sent'[r]["bot"], result'[r]["bot"])
  BY <1>3 DEF Honest, Heard
<1>16. EndedWell(r)'
  BY <1>3 DEF Honest, EndedWell
<1>17. audit'[r] = b /\ UNCHANGED <<inbox, tick, committed, sent>> /\ snt = sent[r]
  BY <1>3, <1>5, <1>6
<1> QED
  BY ONLY <1>10, <1>11, <1>13, <1>14, <1>15, <1>16, <1>17 DEF Honest

(* The other round is left alone.                                             *)
LEMMA SameHonest ==
  ASSUME scope' = scope, NEW q \in Rnd, Same(q), Honest(q)
  PROVE  Honest(q)'
<1>1. \A x : Heard(q, x)' = Heard(q, x)
  BY DEF Heard, Same
<1>2. EndedWell(q)'
  BY DEF Honest, EndedWell, Same
<1>3. /\ inbox'[q] = inbox[q] /\ tick'[q] = tick[q] /\ committed'[q] = committed[q]
      /\ sent'[q] = sent[q] /\ audit'[q] = audit[q] /\ trace'[q] = trace[q] /\ result'[q] = result[q]
  BY DEF Same
<1>4. /\ AuditStart(audit'[q]) /\ TicksAscend(audit'[q], tick'[q])
      /\ IngressCounted(audit'[q], sent'[q]) /\ IngressServed(audit'[q], inbox'[q])
      /\ DeltasRouted(audit'[q]) /\ CommittedRouted(audit'[q], committed'[q])
      /\ InboxAscends(inbox'[q])
      /\ \A w \in Role : InStep(Heard(q, w)', w, committed'[q], tick'[q], inbox'[q])
      /\ TraceTrue(trace'[q], sent'[q]["bot"], result'[q]["bot"])
  BY <1>1, <1>3 DEF Honest
<1> QED
  BY ONLY <1>2, <1>4 DEF Honest

(* The evidence of a round that has not begun.                                *)
LEMMA HonestInit == Init => \A q \in Rnd : Honest(q)
<1> SUFFICES ASSUME Init, NEW q \in Rnd PROVE Honest(q)
  OBVIOUS
<1>1. PICK a : a = <<Line("server_listening", "stray", Nothing)>>
  OBVIOUS
<1>2. PICK s : s = <<Event("bot_started", Nothing), Event("connected", Nothing)>>
  OBVIOUS
<1>3. /\ audit[q] = a /\ trace[q] = s /\ inbox[q] = <<>> /\ committed[q] = {} /\ tick[q] = 0
      /\ \A w \in Role : /\ wire[q][w] = <<>> /\ sent[q][w] = 0
                         /\ result[q][w].received = <<>> /\ result[q][w].status = "pending"
  BY <1>1, <1>2 DEF Init
<1>4. Len(a) = 1 /\ DOMAIN a = {1} /\ a[1].kind = "server_listening"
  BY <1>1 DEF Line
<1>5. DOMAIN s = {1, 2} /\ s[1].kind = "bot_started" /\ s[2].kind = "connected" /\ s[1].ok /\ s[2].ok
  BY <1>2 DEF Event
<1>6. \A k \in {"tick_committed", "delta_routed", "ingress_received"} : At(a, k) = {}
  BY <1>4 DEF At
<1>7. AuditStart(a) /\ TicksAscend(a, 0) /\ IngressServed(a, <<>>) /\ DeltasRouted(a)
  BY <1>4, <1>6 DEF AuditStart, TicksAscend, TicksIncrease, IngressServed, DeltasRouted
<1>8. CommittedRouted(a, {}) /\ InboxAscends(<<>>)
  BY DEF CommittedRouted, InboxAscends
<1>9. IngressCounted(a, sent[q])
  <2>1. \A w \in Role : IngressOf(a, w) = {}
    BY <1>6 DEF IngressOf
  <2>2. Cardinality({}) = 0
    BY FS_EmptySet
  <2>3. SequencesCount(a)
    BY <1>6 DEF SequencesCount
  <2> QED BY <1>3, <1>6, <2>1, <2>2, <2>3 DEF IngressCounted
<1>10. ASSUME NEW w \in Role PROVE InStep(Heard(q, w), w, {}, 0, <<>>)
  <2>1. Heard(q, w) = <<>>
    BY <1>3 DEF Heard
  <2>2. 1..Len(<<>>) = {}
    OBVIOUS
  <2> QED BY <2>1, <2>2 DEF InStep
<1>11. /\ "bot" \in Role /\ sent[q]["bot"] = 0 /\ result[q]["bot"].received = <<>>
       /\ result[q]["bot"].status = "pending"
  BY <1>3 DEF Role
<1>12. TraceTrue(s, sent[q]["bot"], result[q]["bot"])
  <2>1. /\ 1 \in At(s, "bot_started") /\ 2 \in At(s, "connected") /\ At(s, "mangled") = {}
        /\ At(s, "command_sent") = {} /\ At(s, "delta_received") = {}
    BY <1>5 DEF At
  <2>2. ~(sent[q]["bot"] > 0)
    BY <1>11
  <2> QED BY <1>5, <1>11, <2>1, <2>2 DEF TraceTrue, Readable
<1>13. EndedWell(q)
  BY <1>3 DEF EndedWell
<1> QED
  BY <1>3, <1>7, <1>8, <1>9, <1>10, <1>12, <1>13 DEF Honest

-----------------------------------------------------------------------------
(* The verifier accepts an honest round *)

(* The audit of an honest round in which nothing waits is a good chain.       *)
LEMMA HonestChain ==
  ASSUME NEW a \in Seq(AuditLine), NEW last, NEW snt, TicksAscend(a, last),
         IngressCounted(a, snt), IngressServed(a, <<>>), DeltasRouted(a)
  PROVE  AuditChain(a)
<1>1. TicksIncrease(a) /\ SequencesCount(a)
  BY DEF TicksAscend, IngressCounted
<1>2. \A d \in At(a, "delta_routed") : DeltaCovered(a, d)
  BY DEF DeltasRouted
<1>3. ASSUME NEW i \in At(a, "ingress_received") PROVE IngressAnswered(a, i)
  <2> DEFINE ticks == {t \in At(a, "tick_committed") : t > i /\ a[t].count >= 1}
             first == CHOOSE t \in ticks : \A u \in ticks : t <= u
             matched == {d \in At(a, "delta_routed") :
                           d > i /\ a[d].rec = [a[i].rec EXCEPT !.tick = a[first].rec.tick]}
  <2>1. Answered(a, i)
    <3>1. ~Open(a, i, <<>>)
      BY DEF Open
    <3> QED BY <3>1 DEF IngressServed
  <2>2. PICK t \in At(a, "tick_committed"), d \in At(a, "delta_routed") :
          /\ i < t /\ i < d
          /\ \A u \in At(a, "tick_committed") : i < u => t <= u
          /\ a[d].rec = [a[i].rec EXCEPT !.tick = a[t].rec.tick]
    BY <2>1 DEF Answered
  <2>3. DOMAIN a \subseteq Nat /\ i \in Nat /\ \A k : At(a, k) \subseteq Nat
    <3>1. DOMAIN a \subseteq Nat
      BY LenProperties
    <3> QED BY <3>1 DEF At
  <2>4. t > i /\ d > i /\ \A u \in At(a, "tick_committed") : u > i => t <= u
    <3>1. At(a, "tick_committed") \subseteq Nat /\ At(a, "delta_routed") \subseteq Nat
      BY <2>3
    <3> QED BY <2>2, <2>3, <3>1
  <2>5. t \in ticks /\ \A u \in ticks : t <= u
    BY <1>1, <2>4 DEF TicksIncrease
  <2>6. first = t
    <3>1. first \in ticks /\ \A u \in ticks : first <= u
      BY <2>5
    <3>2. ticks \subseteq Nat
      BY <2>3
    <3> HIDE DEF first, ticks
    <3>3. first <= t /\ t <= first /\ first \in Nat /\ t \in Nat
      BY <2>5, <3>1, <3>2
    <3> QED BY <3>3
  <2> HIDE DEF first
  <2>7. d \in matched
    BY <2>2, <2>4, <2>6
  <2>8. ASSUME NEW e \in matched PROVE a[e].session # a[i].session
    <3>1. a[i].rec \in Rec
      <4>1. a[i] \in AuditLine
        BY <1>3 DEF At
      <4> QED BY <4>1 DEF AuditLine
    <3>2. a[e].rec.sender = a[i].rec.sender
      BY <3>1 DEF Rec
    <3>3. a[i].rec.sender \in Role /\ a[i] = Ingress(a[i].rec.sender, a[i].rec.seq)
      BY <1>3 DEF IngressCounted
    <3>4. a[i].session = a[i].rec.sender
      BY <3>3 DEF Ingress, Line
    <3>5. a[e].session = Peer(a[i].rec.sender)
      BY <3>2 DEF DeltasRouted
    <3> QED BY <3>3, <3>4, <3>5, PeerFacts
  <2>9. ticks # {} /\ matched # {} /\ \A e \in matched : a[e].session # a[i].session
    BY <2>5, <2>7, <2>8
  <2> QED BY <2>9 DEF IngressAnswered, first
<1> QED
  BY <1>1, <1>2, <1>3 DEF AuditChain

(* An honest round in which all was committed, no tick held two commands of   *)
(* one side and both sides finished well is accepted.                         *)
LEMMA HonestAccepted ==
  ASSUME TypeOK, NEW r \in Rnd, Sound(r), Honest(r), Over(r), inbox[r] = <<>>,
         \A w \in Role : result[r][w].status = "ok",
         \A c, d \in committed[r] : c.sender = d.sender /\ c.tick = d.tick => c = d
  PROVE  RoundOk(r)
<1>1. PICK a \in Seq(AuditLine) : a = audit[r]
  BY DEF TypeOK
<1>2. PICK C : C = committed[r] /\ C \subseteq Rec
  BY DEF TypeOK
<1>3. /\ AuditStart(a) /\ TicksAscend(a, tick[r]) /\ IngressCounted(a, sent[r])
      /\ IngressServed(a, <<>>) /\ DeltasRouted(a) /\ CommittedRouted(a, C)
      /\ \A w \in Role : InStep(Heard(r, w), w, C, tick[r], <<>>)
      /\ TraceTrue(trace[r], sent[r]["bot"], result[r]["bot"]) /\ EndedWell(r)
  BY <1>1, <1>2 DEF Honest
<1>4. scope.commands \in Nat /\ scope.commands > 0
  BY ScopeFacts
<1>5. \A w \in Role : sent[r][w] = scope.commands /\ result[r][w].received # <<>>
  BY <1>3 DEF EndedWell
<1>6. "bot" \in Role
  BY DEF Role
<1>7. AuditChain(a)
  BY <1>3, HonestChain
<1>8. ASSUME NEW w \in Role
      PROVE  /\ result[r][w].received \in Seq(Rec) /\ 1 \in 1..Len(result[r][w].received)
             /\ \A i \in 1..Len(result[r][w].received) :
                  InTime(result[r][w].received[i], Peer(w)) /\ result[r][w].received[i] \in C
             /\ ReceivedOk(result[r][w].received, w)
  <2>1. result[r][w] \in Outcome /\ wire[r][w] \in Seq(Rec)
    BY DEF TypeOK
  <2>2. PICK s \in Seq(Rec) : s = result[r][w].received
    BY <2>1 DEF Outcome
  <2>3. PICK t \in Seq(Rec) : t = wire[r][w]
    BY <2>1
  <2>4. PICK v : v = s \o t
    OBVIOUS
  <2>5. /\ Len(s) \in Nat /\ Len(t) \in Nat /\ Len(v) = Len(s) + Len(t) /\ DOMAIN s = 1..Len(s)
        /\ \A i \in 1..Len(s) : v[i] = s[i]
    BY <2>4, ConcatAt, LenProperties DEF Joined
  <2>6. InStep(v, w, C, tick[r], <<>>)
    <3>1. Heard(r, w) = v
      BY <2>2, <2>3, <2>4 DEF Heard
    <3> QED BY <1>3, <3>1
  <2>7. \A i \in 1..Len(s) : i \in 1..Len(v)
    BY <2>5
  <2>8. \A i \in 1..Len(s) : InTime(s[i], Peer(w)) /\ s[i] \in C
    BY <2>5, <2>6, <2>7 DEF InStep
  <2>9. 1 \in 1..Len(s)
    <3>1. s # <<>>
      BY <1>5, <2>2
    <3> QED BY <2>5, <3>1, EmptySeq
  <2>10. ASSUME NEW i \in 2..Len(s)
         PROVE  s[i].seq > s[i - 1].seq /\ s[i].tick > s[i - 1].tick
    <3>1. PICK x \in Rec, y \in Rec : x = s[i] /\ y = s[i - 1]
      <4>1. i \in 1..Len(s) /\ i - 1 \in 1..Len(s)
        BY <2>5, <2>10
      <4> QED BY <4>1, ElementOfSeq
    <3>2. i \in 1..Len(s) /\ i - 1 \in 1..Len(s) /\ i - 1 < i
      BY <2>5, <2>10
    <3>3. y.seq < x.seq /\ y.tick <= x.tick
      BY <2>5, <2>6, <2>7, <3>1, <3>2 DEF InStep
    <3>4. x.seq \in Nat /\ y.seq \in Nat /\ x.tick \in Nat /\ y.tick \in Nat
      BY DEF Rec
    <3>5. x # y
      BY <3>3, <3>4
    <3>6. x \in C /\ y \in C /\ x.sender = Peer(w) /\ y.sender = Peer(w)
      BY <2>8, <3>1, <3>2 DEF InTime
    <3>7. x.tick # y.tick
      BY <1>2, <3>5, <3>6
    <3>8. x.seq > y.seq /\ x.tick > y.tick
      BY <3>3, <3>4, <3>7
    <3> QED BY <3>1, <3>8
  <2>11. ReceivedOk(s, w)
    BY <2>5, <2>8, <2>10 DEF ReceivedOk
  <2> QED BY <2>2, <2>8, <2>9, <2>11
<1>9. Results(result[r])
  <2> SUFFICES ASSUME NEW w \in Role
               PROVE  /\ result[r][w].status = "ok"
                      /\ ReceivedOk(result[r][w].received, w)
                      /\ \E i \in DOMAIN result[r][w].received :
                           result[r][w].received[i].sender = Peer(w)
    BY DEF Results
  <2>1. PICK s \in Seq(Rec) : s = result[r][w].received /\ 1 \in 1..Len(s)
    BY <1>8
  <2>2. 1 \in DOMAIN s /\ s[1].sender = Peer(w)
    <3>1. DOMAIN s = 1..Len(s)
      BY LenProperties
    <3> QED BY <1>8, <2>1, <3>1 DEF InTime
  <2> QED BY <1>8, <2>1, <2>2
<1>10. DOMAIN a = 1..Len(a) /\ Len(a) \in Nat
  BY LenProperties
<1>11. At(a, "mangled") = {}
  BY <1>3 DEF At, AuditStart
<1>12. 1 \in At(a, "server_listening")
  <2>1. 1 \in 1..Len(a)
    BY <1>3, <1>10 DEF AuditStart
  <2> QED BY <1>3, <1>10, <2>1 DEF At, AuditStart
<1>13. At(a, "ingress_received") # {}
  <2>1. Cardinality(IngressOf(a, "bot")) = scope.commands
    BY <1>3, <1>5, <1>6 DEF IngressCounted
  <2>2. IngressOf(a, "bot") # {}
    <3>1. Cardinality({}) = 0
      BY FS_EmptySet
    <3>2. PICK D : D = IngressOf(a, "bot")
      OBVIOUS
    <3>3. Cardinality(D) # 0
      BY <1>4, <2>1, <3>2
    <3>4. D # {}
      BY <3>1, <3>3
    <3> QED BY <3>2, <3>4
  <2> QED BY <2>2 DEF IngressOf
<1>14. At(a, "delta_routed") # {}
  <2>1. result[r]["bot"].received[1] \in C
    BY <1>6, <1>8
  <2> QED BY <1>3, <2>1 DEF CommittedRouted
<1>15. At(a, "tick_committed") # {}
  BY <1>3, <1>14 DEF DeltasRouted, DeltaCovered
<1>16. At(a, "server_shutdown") # {}
  BY <1>1 DEF Over
<1>17. BotTrace(trace[r])
  <2>1. sent[r]["bot"] > 0 /\ result[r]["bot"].received # <<>> /\ result[r]["bot"].status = "ok"
    BY <1>4, <1>5, <1>6
  <2> QED BY <1>3, <2>1 DEF TraceTrue, BotTrace
<1>18. CrossSource(r)
  <2>1. Received(r) \subseteq C
    BY <1>2 DEF Sound, ReceivedTrue
  <2> QED BY <1>1, <1>3, <2>1 DEF CommittedRouted, CrossSource
<1>19. Readable(trace[r])
  BY <1>3 DEF TraceTrue
<1>20. /\ Readable(a)
       /\ \A k \in {"server_listening", "ingress_received", "tick_committed",
                    "delta_routed", "server_shutdown"} : At(a, k) # {}
  BY <1>11, <1>12, <1>13, <1>14, <1>15, <1>16 DEF Readable
<1> QED
  BY <1>1, <1>7, <1>9, <1>17, <1>18, <1>19, <1>20 DEF RoundOk

(* Every step keeps the invariant of honest rounds: what is no fault keeps    *)
(* its round honest, and after a fault there is nothing to show.              *)
LEMMA HonestStep == HonestInv /\ [Next]_vars => HonestInv'
<1> SUFFICES ASSUME HonestInv, [Next]_vars PROVE HonestInv'
  OBVIOUS
<1>1. IInv /\ TypeOK /\ faults \in Nat /\ \A q \in Rnd : faults = 0 => Honest(q) /\ Sound(q)
  BY DEF HonestInv, IInv, RoundInv, TypeOK
<1>2. IInv'
  BY <1>1, InvStep
<1> SUFFICES ASSUME faults' = 0 PROVE \A q \in Rnd' : Honest(q)'
  BY <1>2 DEF HonestInv
<1> DEFINE Keeps(r) == faults = 0 /\ Honest(r)' /\ \A q \in Rnd \ {r} : Same(q)
<1>3. ASSUME scope' = scope, NEW r \in Rnd, Keeps(r) PROVE \A q \in Rnd' : Honest(q)'
  <2>1. Rnd' = Rnd
    BY <1>3 DEF Rnd
  <2>2. \A q \in Rnd \ {r} : Honest(q)'
    BY <1>1, <1>3, SameHonest
  <2> QED BY <1>3, <2>1, <2>2
<1>4. ASSUME Next PROVE \A q \in Rnd' : Honest(q)'
  <2>1. scope' = scope
    BY <1>4 DEF Next
  <2>2. PICK r \in Rnd :
          \/ Commit(r) \/ EgressWithoutTick(r) \/ Forget(r) \/ Shutdown(r) \/ Damage(r)
          \/ \E w \in Role : Send(r, w) \/ Hear(r, w) \/ Finish(r, w)
    BY <1>4 DEF Next
  <2>3. CASE Commit(r)
    <3>1. faults' >= faults /\ \A q \in Rnd \ {r} : Same(q)
      BY <1>1, <2>1, <2>3, CommitDoes DEF CommitEffect
    <3>2. faults = 0 /\ faults' = faults
      BY <1>1, <3>1
    <3>3. Honest(r)'
      BY <1>1, <2>1, <2>3, <3>2, CommitHonest
    <3> QED BY <1>3, <2>1, <3>1, <3>2, <3>3
  <2>4. CASE EgressWithoutTick(r) \/ Forget(r) \/ Damage(r)
    <3>1. faults' = faults + 1
      BY <1>1, <2>1, <2>4, EgressDoes, ForgetDoes, DamageDoes
    <3> QED BY <1>1, <3>1
  <2>5. CASE Shutdown(r)
    <3>1. faults' = faults /\ \A q \in Rnd \ {r} : Same(q)
      BY <1>1, <2>1, <2>5, ShutdownDoes
    <3>2. Honest(r)'
      BY <1>1, <2>1, <2>5, <3>1, ShutdownHonest
    <3> QED BY <1>3, <2>1, <3>1, <3>2
  <2>6. ASSUME NEW w \in Role, Send(r, w) PROVE Keeps(r)
    <3>1. PICK n : n = sent[r][w] + 1
      OBVIOUS
    <3>2. faults' = faults /\ \A q \in Rnd \ {r} : Same(q)
      BY <1>1, <2>1, <2>6, <3>1, SendDoes
    <3>3. Honest(r)'
      BY <1>1, <2>1, <2>6, <3>2, SendHonest
    <3> QED BY <3>2, <3>3
  <2>7. ASSUME NEW w \in Role, Hear(r, w) PROVE Keeps(r)
    <3>1. PICK x : x = Head(wire[r][w])
      OBVIOUS
    <3>2. faults' = faults /\ \A q \in Rnd \ {r} : Same(q)
      BY <1>1, <2>1, <2>7, <3>1, HearDoes
    <3>3. Honest(r)'
      BY <1>1, <2>1, <2>7, <3>2, HearHonest
    <3> QED BY <3>2, <3>3
  <2>8. ASSUME NEW w \in Role, Finish(r, w) PROVE Keeps(r)
    <3>1. PICK ok : ok = (sent[r][w] = scope.commands /\ result[r][w].received # <<>>)
      OBVIOUS
    <3>2. faults' = faults /\ \A q \in Rnd \ {r} : Same(q)
      BY <1>1, <2>1, <2>8, <3>1, FinishDoes
    <3>3. Honest(r)'
      BY <1>1, <2>1, <2>8, <3>2, FinishHonest
    <3> QED BY <3>2, <3>3
  <2> HIDE DEF Keeps
  <2> QED BY <1>3, <2>1, <2>2, <2>3, <2>4, <2>5, <2>6, <2>7, <2>8
<1>5. ASSUME UNCHANGED vars PROVE \A q \in Rnd' : Honest(q)'
  <2>1. /\ UNCHANGED scope /\ UNCHANGED inbox /\ UNCHANGED tick /\ UNCHANGED committed
        /\ UNCHANGED echo /\ UNCHANGED wire /\ UNCHANGED sent /\ UNCHANGED audit
        /\ UNCHANGED trace /\ UNCHANGED result /\ UNCHANGED faults
    BY <1>5 DEF vars, server
  <2>2. Rnd' = Rnd /\ \A q \in Rnd : Same(q)
    BY <2>1 DEF Rnd, Same
  <2> QED BY <1>1, <2>1, <2>2, SameHonest
<1> QED BY <1>4, <1>5

(* The evidence of a round without faults says all that happened in it, for   *)
(* any number of commands.                                                    *)
THEOREM HonestInvariant == Spec => []HonestInv
<1>1. Init => HonestInv
  BY InvInit, HonestInit DEF HonestInv
<1> QED BY <1>1, HonestStep, PTL DEF Spec

(* A round without faults in which both sides finished well and the server    *)
(* committed all it received is accepted, if no tick held two commands of one *)
(* side: no check of the verifier refuses an honest server.                   *)
THEOREM HonestIsAcceptedHolds == Spec => []HonestIsAccepted
<1>1. HonestInv => HonestIsAccepted
  <2> SUFFICES ASSUME HonestInv, NEW r \in Rnd, faults = 0, Over(r), inbox[r] = <<>>,
                      \A w \in Role : result[r][w].status = "ok",
                      \A c, d \in committed[r] : c.sender = d.sender /\ c.tick = d.tick => c = d
               PROVE  RoundOk(r)
    BY DEF HonestIsAccepted
  <2>1. TypeOK /\ Sound(r) /\ Honest(r)
    BY DEF HonestInv, IInv, RoundInv
  <2> QED BY <2>1, HonestAccepted
<1> QED BY <1>1, HonestInvariant, PTL

-----------------------------------------------------------------------------
(* A command is committed at most once *)

(* A command waits once or was committed once, or was forgotten: box is what  *)
(* waits, C what was committed, snt how many commands a side has sent.        *)
Once(box, C, snt) ==
  /\ \A i \in 1..Len(box) : box[i].seq \in 1..snt[box[i].sender]
  /\ \A i, j \in 1..Len(box) : box[i] = box[j] => i = j
  /\ \A c \in C : c.sender \in Role /\ c.seq \in 1..snt[c.sender]
  /\ \A c \in C, i \in 1..Len(box) : c.sender # box[i].sender \/ c.seq # box[i].seq
  /\ \A c, d \in C : c.sender = d.sender /\ c.seq = d.seq => c = d

(* The invariant for EqualRoundsCommittedTheSame, whatever the faults.        *)
OnceInv ==
  /\ TypeOK
  /\ \A q \in Rnd :
       /\ \A w \in Role : sent[q][w] <= scope.commands
       /\ Once(inbox[q], committed[q], sent[q])

(* The next command of w is new.                                              *)
LEMMA SendOnce ==
  ASSUME NEW box \in Seq(Command), NEW C, NEW snt, \A w \in Role : snt[w] \in Nat,
         Once(box, C, snt), NEW w \in Role, NEW c \in Command, c = [sender |-> w, seq |-> snt[w] + 1],
         NEW snt2, snt2[w] = snt[w] + 1, \A x \in Role \ {w} : snt2[x] = snt[x]
  PROVE  Once(Append(box, c), C, snt2)
<1>1. PICK m \in Nat : m = Len(box)
  BY LenProperties
<1>2. PICK box2 : box2 = Append(box, c)
  OBVIOUS
<1>3. /\ Len(box2) = m + 1 /\ box2[m + 1] = c /\ \A i \in 1..m : box2[i] = box[i]
      /\ \A i \in 1..Len(box2) : i \in 1..m \/ i = m + 1
  <2>1. Len(box2) = m + 1 /\ box2[m + 1] = c /\ \A i \in 1..m : box2[i] = box[i]
    BY <1>1, <1>2, AppendProperties
  <2>2. \A i \in 1..(m + 1) : i \in 1..m \/ i = m + 1
    BY <1>1
  <2> QED BY <2>1, <2>2
<1>4. c.sender = w /\ c.seq = snt[w] + 1
  OBVIOUS
<1>5. ASSUME NEW x \in Role, NEW n \in 1..snt[x]
      PROVE  n \in 1..snt2[x] /\ (x # w \/ n # snt[w] + 1)
  <2>1. CASE x = w
    <3>1. snt[w] \in Nat /\ n \in 1..snt[w] /\ snt2[w] = snt[w] + 1
      BY <1>5, <2>1
    <3>2. n \in 1..(snt[w] + 1) /\ n # snt[w] + 1
      BY <3>1
    <3> QED BY <2>1, <3>1, <3>2
  <2>2. CASE x # w
    BY <1>5, <2>2
  <2> QED BY <2>1, <2>2
<1>6. \A i \in 1..m : /\ box[i].sender \in Role /\ box[i].seq \in 1..snt[box[i].sender]
                      /\ box[i].seq \in 1..snt2[box[i].sender] /\ box[i] # c
  <2> TAKE i \in 1..m
  <2>1. box[i] \in Command
    BY <1>1, ElementOfSeq
  <2>2. box[i].sender \in Role /\ box[i].seq \in 1..snt[box[i].sender]
    BY <1>1, <2>1 DEF Command, Once
  <2> QED BY <1>4, <1>5, <2>2
<1>7. \A d \in C : /\ d.sender \in Role /\ d.seq \in 1..snt2[d.sender]
                   /\ d.sender # c.sender \/ d.seq # c.seq
  BY <1>4, <1>5 DEF Once
<1>8. c.seq \in 1..snt2[c.sender]
  <2>1. snt[w] \in Nat
    OBVIOUS
  <2>2. snt[w] + 1 \in 1..(snt[w] + 1)
    BY <2>1
  <2> QED BY <1>4, <2>2
<1>9. \A i \in 1..Len(box2) : box2[i].seq \in 1..snt2[box2[i].sender]
  BY <1>3, <1>6, <1>8
<1>10. ASSUME NEW i \in 1..Len(box2), NEW j \in 1..Len(box2), box2[i] = box2[j] PROVE i = j
  <2>1. CASE i \in 1..m /\ j \in 1..m
    BY <1>1, <1>3, <1>10, <2>1 DEF Once
  <2>2. CASE i = m + 1 \/ j = m + 1
    BY <1>3, <1>6, <1>10, <2>2
  <2> QED BY <1>3, <2>1, <2>2
<1>11. \A d \in C, i \in 1..Len(box2) : d.sender # box2[i].sender \/ d.seq # box2[i].seq
  <2> TAKE d \in C, i \in 1..Len(box2)
  <2>1. CASE i \in 1..m
    BY <1>1, <1>3, <2>1 DEF Once
  <2>2. CASE i = m + 1
    BY <1>3, <1>7, <2>2
  <2> QED BY <1>3, <2>1, <2>2
<1>12. \A d, e \in C : d.sender = e.sender /\ d.seq = e.seq => d = e
  BY DEF Once
<1> QED
  BY <1>2, <1>7, <1>9, <1>10, <1>11, <1>12 DEF Once

(* A tick commits what waits.                                                 *)
LEMMA CommitOnce ==
  ASSUME NEW box \in Seq(Command), NEW C, NEW snt, Once(box, C, snt),
         NEW ds, Len(ds) = Len(box), NEW D, Added(C, ds, D),
         \A i \in 1..Len(box) :
           ds[i].rec.sender = box[i].sender /\ ds[i].rec.seq = box[i].seq
  PROVE  Once(<<>>, D, snt)
<1>1. PICK m \in Nat : m = Len(box)
  BY LenProperties
<1>2. \A i \in 1..m : /\ box[i] \in Command /\ box[i].sender \in Role
                      /\ box[i].seq \in 1..snt[box[i].sender]
  <2> TAKE i \in 1..m
  <2>1. box[i] \in Command
    BY <1>1, ElementOfSeq
  <2> QED BY <1>1, <2>1 DEF Command, Once
<1>3. \A c \in D : c \in C \/ \E i \in 1..m : c = ds[i].rec
  BY <1>1 DEF Added
<1>4. \A c \in D : c.sender \in Role /\ c.seq \in 1..snt[c.sender]
  BY <1>1, <1>2, <1>3 DEF Once
<1>5. ASSUME NEW c \in D, NEW d \in D, c.sender = d.sender, c.seq = d.seq PROVE c = d
  <2>1. CASE c \in C /\ d \in C
    BY <1>5, <2>1 DEF Once
  <2>2. ASSUME NEW i \in 1..m, c = ds[i].rec \/ d = ds[i].rec, c \in C \/ d \in C PROVE FALSE
    BY <1>1, <1>5, <2>2 DEF Once
  <2>3. ASSUME NEW i \in 1..m, c = ds[i].rec, NEW j \in 1..m, d = ds[j].rec PROVE c = d
    <3>1. box[i].sender = box[j].sender /\ box[i].seq = box[j].seq
      BY <1>1, <1>5, <2>3
    <3>2. box[i] = box[j]
      BY <1>2, <3>1 DEF Command
    <3>3. i = j
      BY <1>1, <3>2 DEF Once
    <3> QED BY <2>3, <3>3
  <2> QED BY <1>3, <2>1, <2>2, <2>3
<1>6. 1..Len(<<>>) = {}
  OBVIOUS
<1> QED
  BY <1>4, <1>5, <1>6 DEF Once

(* The first command that waits is dropped.                                   *)
LEMMA TailOnce ==
  ASSUME NEW box \in Seq(Command), box # <<>>, NEW C, NEW snt, Once(box, C, snt)
  PROVE  Once(Tail(box), C, snt)
<1>1. PICK t \in Seq(Command) : t = Tail(box)
  BY HeadTailProperties
<1>2. /\ Len(box) \in Nat /\ Len(t) = Len(box) - 1
      /\ \A i \in 1..Len(t) : t[i] = box[i + 1]
  BY <1>1, HeadTailProperties, LenProperties
<1>3. \A i \in 1..Len(t) : i + 1 \in 1..Len(box)
  BY <1>2
<1>4. \A i \in 1..Len(t) : t[i].seq \in 1..snt[t[i].sender]
  BY <1>2, <1>3 DEF Once
<1>5. ASSUME NEW i \in 1..Len(t), NEW j \in 1..Len(t), t[i] = t[j] PROVE i = j
  <2>1. i + 1 = j + 1
    BY <1>2, <1>3, <1>5 DEF Once
  <2> QED BY <2>1
<1>6. ASSUME NEW c \in C, NEW i \in 1..Len(t)
      PROVE  c.sender # t[i].sender \/ c.seq # t[i].seq
  <2>1. PICK j \in 1..Len(box) : t[i] = box[j]
    BY <1>2, <1>3
  <2> QED BY <2>1 DEF Once
<1> QED
  BY <1>1, <1>4, <1>5, <1>6 DEF Once

(* Whatever happens, a command is committed at most once.                     *)
LEMMA OnceInit == Init => OnceInv
<1> SUFFICES ASSUME Init PROVE OnceInv
  OBVIOUS
<1>1. TypeOK
  BY TypeInit
<1>2. ASSUME NEW q \in Rnd
      PROVE  (\A w \in Role : sent[q][w] <= scope.commands) /\ Once(inbox[q], committed[q], sent[q])
  <2>1. inbox[q] = <<>> /\ committed[q] = {} /\ \A w \in Role : sent[q][w] = 0
    BY <1>2 DEF Init
  <2>2. scope.commands \in Nat /\ 1..Len(<<>>) = {}
    BY <1>1, ScopeFacts
  <2>3. \A w \in Role : sent[q][w] <= scope.commands
    BY <2>1, <2>2
  <2>4. Once(<<>>, {}, sent[q])
    BY <2>2 DEF Once
  <2> QED BY <2>1, <2>3, <2>4
<1> QED BY <1>1, <1>2 DEF OnceInv

(* Sending a command does so.                                                 *)
LEMMA SendKeepsOnce ==
  ASSUME TypeOK, scope' = scope, NEW r \in Rnd, NEW w \in Role, Send(r, w),
         \A x \in Role : sent[r][x] <= scope.commands,
         Once(inbox[r], committed[r], sent[r])
  PROVE  /\ \A x \in Role : sent'[r][x] <= scope'.commands
         /\ Once(inbox'[r], committed'[r], sent'[r])
<1>1. PICK n : n = sent[r][w] + 1
  OBVIOUS
<1>2. /\ n \in Nat /\ n <= scope.commands /\ Running(r, w)
      /\ sent'[r][w] = n /\ \A x \in Role \ {w} : sent'[r][x] = sent[r][x]
      /\ inbox'[r] = Append(inbox[r], [sender |-> w, seq |-> n])
      /\ audit'[r] = audit[r] \o <<Ingress(w, n)>>
      /\ trace'[r] = IF w = "bot" THEN Append(trace[r], Event("command_sent", Record(w, n, 0)))
                     ELSE trace[r]
      /\ UNCHANGED <<tick, committed, echo, wire, result, faults>>
  BY <1>1, SendDoes
<1>3. committed' = committed
  BY DEF Send
<1>4. PICK c \in Command : c = [sender |-> w, seq |-> n]
  BY <1>2 DEF Command
<1>5. PICK box \in Seq(Command) : box = inbox[r]
  BY DEF TypeOK
<1>6. PICK snt : snt = sent[r] /\ \A x \in Role : snt[x] \in Nat
  <2>1. sent[r] \in [Role -> Nat]
    BY DEF TypeOK
  <2> QED BY <2>1
<1>7. PICK snt2 : snt2 = sent'[r]
  OBVIOUS
<1>8. Once(Append(box, c), committed[r], snt2)
  <2>1. PICK C : C = committed[r]
    OBVIOUS
  <2>2. c = [sender |-> w, seq |-> snt[w] + 1]
    BY <1>1, <1>4, <1>6
  <2>3. snt2[w] = snt[w] + 1 /\ \A x \in Role \ {w} : snt2[x] = snt[x]
    BY <1>1, <1>2, <1>6, <1>7
  <2>4. Once(box, C, snt)
    BY <1>5, <1>6, <2>1
  <2>5. Once(Append(box, c), C, snt2)
    BY <1>6, <2>2, <2>3, <2>4, SendOnce
  <2> QED BY <2>1, <2>5
<1>9. Once(inbox'[r], committed'[r], sent'[r])
  BY <1>2, <1>3, <1>4, <1>5, <1>7, <1>8
<1>10. \A x \in Role : sent'[r][x] <= scope'.commands
  BY <1>2
<1> QED BY <1>9, <1>10

(* Every action keeps it in its round and leaves the other alone.             *)
LEMMA OnceStep == OnceInv /\ [Next]_vars => OnceInv'
<1> SUFFICES ASSUME OnceInv, [Next]_vars PROVE OnceInv'
  OBVIOUS
<1> DEFINE Bounded(q) == \A w \in Role : sent[q][w] <= scope.commands
           OnceIn(q) == Once(inbox[q], committed[q], sent[q])
           Keeps(r) == /\ TypeOK' /\ \A q \in Rnd \ {r} : Same(q)
                       /\ Bounded(r)' /\ OnceIn(r)'
<1>1. TypeOK /\ \A q \in Rnd : Bounded(q) /\ OnceIn(q)
  BY DEF OnceInv
<1>2. ASSUME scope' = scope, NEW q \in Rnd, Same(q) PROVE Bounded(q)' /\ OnceIn(q)'
  <2>1. inbox'[q] = inbox[q] /\ committed'[q] = committed[q] /\ sent'[q] = sent[q]
    BY <1>2 DEF Same
  <2> QED BY <1>1, <1>2, <2>1
<1>3. ASSUME scope' = scope, NEW r \in Rnd, Keeps(r) PROVE OnceInv'
  <2>1. Rnd' = Rnd
    BY <1>3 DEF Rnd
  <2>2. \A q \in Rnd \ {r} : Bounded(q)' /\ OnceIn(q)'
    BY <1>2, <1>3
  <2>3. \A q \in Rnd' : Bounded(q)' /\ OnceIn(q)'
    BY <1>3, <2>1, <2>2
  <2> QED BY <1>3, <2>3 DEF OnceInv
<1>4. ASSUME Next PROVE OnceInv'
  <2>1. scope' = scope
    BY <1>4 DEF Next
  <2>2. PICK r \in Rnd :
          \/ Commit(r) \/ EgressWithoutTick(r) \/ Forget(r) \/ Shutdown(r) \/ Damage(r)
          \/ \E w \in Role : Send(r, w) \/ Hear(r, w) \/ Finish(r, w)
    BY <1>4 DEF Next
  <2>3. PICK box \in Seq(Command) : box = inbox[r]
    BY <1>1 DEF TypeOK
  <2>4. PICK C : C = committed[r]
    OBVIOUS
  <2>5. PICK snt : snt = sent[r] /\ \A w \in Role : snt[w] \in Nat
    <3>1. sent[r] \in [Role -> Nat]
      BY <1>1 DEF TypeOK
    <3> QED BY <3>1
  <2>6. Once(box, C, snt) /\ Bounded(r)
    BY <1>1, <2>3, <2>4, <2>5
  <2>7. ASSUME TypeOK', \A q \in Rnd \ {r} : Same(q), sent'[r] = sent[r], committed'[r] = committed[r],
               inbox'[r] = inbox[r]
        PROVE  Keeps(r)
    BY <1>1, <2>1, <2>7
  <2>8. ASSUME TypeOK', \A q \in Rnd \ {r} : Same(q), sent'[r] = sent[r], committed'[r] = committed[r],
               inbox[r] # <<>>, inbox'[r] = Tail(inbox[r])
        PROVE  Keeps(r)
    <3>1. Once(Tail(box), C, snt)
      BY <2>3, <2>6, <2>8, TailOnce
    <3> QED BY <1>1, <2>1, <2>3, <2>4, <2>5, <2>8, <3>1
  <2>9. CASE Commit(r)
    <3>1. /\ TypeOK' /\ (\A q \in Rnd \ {r} : Same(q)) /\ inbox'[r] = <<>> /\ sent' = sent
      BY <1>1, <2>1, <2>9, CommitDoes
    <3>2. PICK to : CommitEffect(r, to) /\ Len(Deltas(r, to)) = Len(inbox[r])
      BY <1>1, <2>1, <2>9, CommitDoes
    <3>3. PICK ds : ds = Deltas(r, to)
      OBVIOUS
    <3>4. PICK D : D = committed'[r]
      OBVIOUS
    <3>5. Added(C, ds, D)
      BY <2>4, <3>2, <3>3, <3>4 DEF Added, CommitEffect
    <3>6. \A i \in 1..Len(box) : ds[i].rec.sender = box[i].sender /\ ds[i].rec.seq = box[i].seq
      <4>1. ASSUME NEW i \in 1..Len(inbox[r])
            PROVE  /\ Deltas(r, to)[i].rec.sender = inbox[r][i].sender
                   /\ Deltas(r, to)[i].rec.seq = inbox[r][i].seq
        BY <1>1, DeltaLines
      <4> QED BY <2>3, <3>3, <4>1
    <3>7. Len(ds) = Len(box)
      BY <2>3, <3>2, <3>3
    <3>8. Once(<<>>, D, snt)
      BY <2>6, <3>5, <3>6, <3>7, CommitOnce
    <3>9. Bounded(r)' /\ OnceIn(r)'
      BY <2>1, <2>5, <2>6, <3>1, <3>4, <3>8
    <3> QED BY <1>3, <2>1, <3>1, <3>9
  <2>10. CASE EgressWithoutTick(r)
    <3>1. /\ TypeOK' /\ (\A q \in Rnd \ {r} : Same(q)) /\ sent' = sent /\ committed' = committed
          /\ inbox[r] # <<>> /\ inbox'[r] \in {inbox[r], Tail(inbox[r])}
      BY <1>1, <2>1, <2>10, EgressDoes
    <3> HIDE DEF Keeps
    <3> QED BY <1>3, <2>1, <2>7, <2>8, <3>1
  <2>11. CASE Forget(r)
    <3>1. /\ TypeOK' /\ (\A q \in Rnd \ {r} : Same(q)) /\ sent' = sent /\ committed' = committed
          /\ inbox[r] # <<>> /\ inbox'[r] = Tail(inbox[r])
      BY <1>1, <2>1, <2>11, ForgetDoes
    <3> HIDE DEF Keeps
    <3> QED BY <1>3, <2>1, <2>8, <3>1
  <2>12. CASE Shutdown(r) \/ Damage(r)
    <3>1. /\ TypeOK' /\ (\A q \in Rnd \ {r} : Same(q)) /\ sent' = sent /\ committed' = committed
          /\ inbox' = inbox
      BY <1>1, <2>1, <2>12, ShutdownDoes, DamageDoes
    <3> HIDE DEF Keeps
    <3> QED BY <1>3, <2>1, <2>7, <3>1
  <2>13. ASSUME NEW w \in Role, Send(r, w) PROVE OnceInv'
    <3>1. TypeOK' /\ \A q \in Rnd \ {r} : Same(q)
      <4>1. PICK n : n = sent[r][w] + 1
        OBVIOUS
      <4> QED BY <1>1, <2>1, <2>13, <4>1, SendDoes
    <3>2. Bounded(r)' /\ OnceIn(r)'
      BY <1>1, <2>1, <2>13, SendKeepsOnce
    <3> QED BY <1>3, <2>1, <3>1, <3>2
  <2>14. ASSUME NEW w \in Role, Hear(r, w) PROVE OnceInv'
    <3>1. PICK x : x = Head(wire[r][w])
      OBVIOUS
    <3>2. /\ TypeOK' /\ (\A q \in Rnd \ {r} : Same(q)) /\ sent' = sent /\ committed' = committed
          /\ inbox' = inbox
      BY <1>1, <2>1, <2>14, <3>1, HearDoes
    <3> HIDE DEF Keeps
    <3> QED BY <1>3, <2>1, <2>7, <3>2
  <2>15. ASSUME NEW w \in Role, Finish(r, w) PROVE OnceInv'
    <3>1. PICK ok : ok = (sent[r][w] = scope.commands /\ result[r][w].received # <<>>)
      OBVIOUS
    <3>2. /\ TypeOK' /\ (\A q \in Rnd \ {r} : Same(q)) /\ sent' = sent /\ committed' = committed
          /\ inbox' = inbox
      BY <1>1, <2>1, <2>15, <3>1, FinishDoes
    <3> HIDE DEF Keeps
    <3> QED BY <1>3, <2>1, <2>7, <3>2
  <2> HIDE DEF Keeps
  <2> QED BY <2>2, <2>9, <2>10, <2>11, <2>12, <2>13, <2>14, <2>15
<1>5. ASSUME UNCHANGED vars PROVE OnceInv'
  <2>1. /\ UNCHANGED scope /\ UNCHANGED inbox /\ UNCHANGED tick /\ UNCHANGED committed
        /\ UNCHANGED echo /\ UNCHANGED wire /\ UNCHANGED sent /\ UNCHANGED audit
        /\ UNCHANGED trace /\ UNCHANGED result /\ UNCHANGED faults
    BY <1>5 DEF vars, server
  <2>2. Rnd' = Rnd /\ \A q \in Rnd : Same(q)
    BY <2>1 DEF Rnd, Same
  <2>3. TypeOK'
    BY ONLY <1>1, <2>1, <2>2 DEF TypeOK
  <2>4. \A q \in Rnd' : Bounded(q)' /\ OnceIn(q)'
    BY <1>2, <2>1, <2>2
  <2> QED BY <2>3, <2>4 DEF OnceInv
<1> QED BY <1>4, <1>5

(* A command is committed in one tick at most, whatever the faults.           *)
THEOREM CommittedOnce == Spec => []OnceInv
<1> QED BY OnceInit, OnceStep, PTL DEF Spec

(* With one command of each side, an accepted round whose records were        *)
(* committed received just what the two results say, each from its peer.      *)
LEMMA ResultsTell ==
  ASSUME TypeOK, NEW q \in Rnd, RoundOk(q), Received(q) \subseteq committed[q],
         scope.commands = 1, \A w \in Role : sent[q][w] <= 1,
         Once(inbox[q], committed[q], sent[q])
  PROVE  \A z : z \in Received(q) <=>
           \E w \in Role : \E i \in DOMAIN result[q][w].received : z = result[q][w].received[i]
<1>1. PICK C : C = committed[q] /\ C \subseteq Rec
  BY DEF TypeOK
<1>2. ASSUME NEW c \in C, NEW d \in C, c.sender = d.sender PROVE c = d
  <2>1. /\ c.sender \in Role /\ c.seq \in 1..sent[q][c.sender]
        /\ d.sender \in Role /\ d.seq \in 1..sent[q][d.sender]
        /\ c.sender = d.sender /\ c.seq = d.seq => c = d
    BY <1>1 DEF Once
  <2>2. PICK n \in Nat : n = sent[q][c.sender]
    <3>1. sent[q] \in [Role -> Nat]
      BY DEF TypeOK
    <3> QED BY <2>1, <3>1
  <2>3. c.seq \in 1..n /\ d.seq \in 1..n /\ n <= 1
    BY <1>2, <2>1, <2>2
  <2>4. c.seq = d.seq
    BY <2>3
  <2> QED BY <1>2, <2>1, <2>4
<1>3. \A w \in Role : /\ result[q][w].received \in Seq(Rec)
                      /\ ReceivedOk(result[q][w].received, w)
                      /\ \E i \in DOMAIN result[q][w].received :
                           result[q][w].received[i].sender = Peer(w)
  <2> TAKE w \in Role
  <2>1. result[q][w] \in Outcome
    BY DEF TypeOK
  <2>2. Results(result[q]) /\ result[q][w].received \in Seq(Rec)
    BY <2>1 DEF RoundOk, Outcome
  <2> QED BY <2>2 DEF Results
<1>4. ASSUME NEW w \in Role, NEW i \in DOMAIN result[q][w].received
      PROVE  Key(result[q][w].received[i]) = result[q][w].received[i]
  <2>1. PICK s \in Seq(Rec) : s = result[q][w].received
    BY <1>3
  <2>2. s[i] \in Rec
    <3>1. i \in 1..Len(s)
      BY <2>1, LenProperties
    <3> QED BY <3>1, ElementOfSeq
  <2>3. ~s[i].late
    BY <1>3, <2>1 DEF ReceivedOk, InTime
  <2> QED BY <2>1, <2>2, <2>3, KeyOf
<1>5. "browser" \in Role /\ "bot" \in Role /\ Peer("bot") = "browser"
      /\ \A w \in Role : w = "browser" \/ w = "bot"
  BY DEF Role, Peer
<1>6. ASSUME NEW w \in Role, NEW i \in DOMAIN result[q][w].received
      PROVE  result[q][w].received[i] \in Received(q)
  <2>1. Key(result[q][w].received[i]) \in Received(q)
    BY <1>5 DEF Received
  <2> QED BY <1>4, <2>1
<1>7. ASSUME NEW z \in Received(q)
      PROVE  \E w \in Role : \E i \in DOMAIN result[q][w].received : z = result[q][w].received[i]
  <2>1. ASSUME NEW w \in Role, NEW i \in DOMAIN result[q][w].received,
               z = Key(result[q][w].received[i])
        PROVE  z = result[q][w].received[i]
    BY <1>4, <2>1
  <2>2. ASSUME NEW j \in At(trace[q], "delta_received"), z = Key(trace[q][j].rec)
        PROVE  \E i \in DOMAIN result[q]["bot"].received : z = result[q]["bot"].received[i]
    <3>1. PICK i \in DOMAIN result[q]["bot"].received :
            result[q]["bot"].received[i].sender = "browser"
      BY <1>3, <1>5
    <3>2. result[q]["bot"].received[i] \in C /\ z \in C
      BY <1>1, <1>5, <1>6, <1>7
    <3>3. z.sender = "browser"
      <4>1. InTime(trace[q][j].rec, "browser")
        BY DEF RoundOk, BotTrace
      <4>2. trace[q][j].rec \in Rec
        <5>1. trace[q] \in Seq(TraceEvent)
          BY DEF TypeOK
        <5>2. trace[q][j] \in TraceEvent
          BY <5>1 DEF At
        <5> QED BY <5>2 DEF TraceEvent
      <4>3. Key(trace[q][j].rec) = trace[q][j].rec
        BY <4>1, <4>2, KeyOf DEF InTime
      <4> QED BY <2>2, <4>1, <4>3 DEF InTime
    <3>4. z = result[q]["bot"].received[i]
      BY <1>2, <3>1, <3>2, <3>3
    <3> QED BY <3>4
  <2>3. \/ \E i \in DOMAIN result[q]["browser"].received : z = Key(result[q]["browser"].received[i])
        \/ \E i \in DOMAIN result[q]["bot"].received : z = Key(result[q]["bot"].received[i])
        \/ \E j \in At(trace[q], "delta_received") : z = Key(trace[q][j].rec)
    BY <1>7 DEF Received
  <2> QED BY <1>5, <2>1, <2>2, <2>3
<1> QED BY <1>6, <1>7

(* A record of a good result has its like in one that compares equal to it.   *)
LEMMA ComparedRecord ==
  ASSUME NEW w \in Role, NEW a \in Seq(Rec), NEW b \in Seq(Rec), ReceivedOk(a, w), ReceivedOk(b, w),
         Senders(a) \subseteq Senders(b),
         \A who \in Senders(a) : \A i \in From(a, who), j \in From(b, who) :
           SameFields(a[i], b[j]) \/ SameFields(b[j], a[i]),
         NEW i \in DOMAIN a
  PROVE  \E j \in DOMAIN b : a[i] = b[j]
<1>1. PICK who : who = a[i].sender /\ who \in Senders(a) /\ i \in From(a, who)
  BY DEF Senders, From
<1>2. PICK j \in DOMAIN b : b[j].sender = who
  BY <1>1 DEF Senders
<1>3. PICK x \in Rec, y \in Rec : x = a[i] /\ y = b[j]
  <2>1. i \in 1..Len(a) /\ j \in 1..Len(b)
    BY LenProperties
  <2> QED BY <2>1, ElementOfSeq
<1>4. x.seq = y.seq /\ x.sha = y.sha /\ x.tick = y.tick
  <2>1. j \in From(b, who)
    BY <1>2 DEF From
  <2> QED BY <1>1, <1>3, <2>1 DEF SameFields
<1>5. x.sender = y.sender /\ ~x.late /\ ~y.late
  BY <1>1, <1>2, <1>3 DEF ReceivedOk, InTime
<1>6. x = y
  <2>1. \A z \in Rec : z = [sender |-> z.sender, seq |-> z.seq, tick |-> z.tick,
                            sha |-> z.sha, late |-> z.late] /\ z.late \in BOOLEAN
    BY DEF Rec
  <2>2. x.late = y.late
    BY <1>5, <2>1
  <2> QED BY <1>4, <1>5, <2>1, <2>2
<1> QED BY <1>3, <1>6

(* Accepted rounds of one command of each side that compare equal committed   *)
(* the same commands in the same ticks, whatever the one fault was.           *)
THEOREM EqualRoundsCommittedTheSameHolds == Spec => []EqualRoundsCommittedTheSame
<1>1. IInv /\ OnceInv => EqualRoundsCommittedTheSame
  <2> SUFFICES ASSUME IInv, OnceInv, scope.rounds = 2, scope.commands = 1, faults <= 1,
                      RoundOk(1), RoundOk(2), CompareRounds
               PROVE  Received(1) = Received(2) /\ Received(1) \subseteq committed[1] \cap committed[2]
    BY DEF EqualRoundsCommittedTheSame
  <2>1. TypeOK /\ 1 \in Rnd /\ 2 \in Rnd
    BY DEF IInv, Rnd
  <2>2. Received(1) \subseteq committed[1] /\ Received(2) \subseteq committed[2]
    BY <2>1, OneFaultIsSeen DEF AcceptedIsCommitted
  <2>3. \A q \in {1, 2} : \A z : z \in Received(q) <=>
          \E w \in Role : \E i \in DOMAIN result[q][w].received : z = result[q][w].received[i]
    <3> TAKE q \in {1, 2}
    <3>1. q \in Rnd /\ RoundOk(q) /\ Received(q) \subseteq committed[q]
      BY <2>1, <2>2
    <3>2. /\ \A w \in Role : sent[q][w] <= 1
          /\ Once(inbox[q], committed[q], sent[q])
      BY <3>1 DEF OnceInv
    <3> QED BY <2>1, <3>1, <3>2, ResultsTell
  <2>4. ASSUME NEW w \in Role
        PROVE  /\ \A i \in DOMAIN result[1][w].received : \E j \in DOMAIN result[2][w].received :
                    result[1][w].received[i] = result[2][w].received[j]
               /\ \A i \in DOMAIN result[2][w].received : \E j \in DOMAIN result[1][w].received :
                    result[2][w].received[i] = result[1][w].received[j]
    <3>1. result[1][w] \in Outcome /\ result[2][w] \in Outcome
      BY <2>1 DEF TypeOK
    <3>2. PICK a \in Seq(Rec) : a = result[1][w].received
      BY <3>1 DEF Outcome
    <3>3. PICK b \in Seq(Rec) : b = result[2][w].received
      BY <3>1 DEF Outcome
    <3>4. ReceivedOk(a, w) /\ ReceivedOk(b, w)
      BY <3>2, <3>3 DEF RoundOk, Results
    <3>5. /\ Senders(a) = Senders(b)
          /\ \A who \in Senders(a) : \A i \in From(a, who), j \in From(b, who) : SameFields(a[i], b[j])
      BY <3>2, <3>3 DEF CompareRounds
    <3>6. \A i \in DOMAIN a : \E j \in DOMAIN b : a[i] = b[j]
      BY <3>4, <3>5, ComparedRecord
    <3>7. \A i \in DOMAIN b : \E j \in DOMAIN a : b[i] = a[j]
      BY <3>4, <3>5, ComparedRecord
    <3> QED BY <3>2, <3>3, <3>6, <3>7
  <2>5. \A z : z \in Received(1) <=> z \in Received(2)
    BY <2>3, <2>4
  <2> QED BY <2>2, <2>5
<1> QED BY <1>1, EvidenceInvariant, CommittedOnce, PTL
=============================================================================
