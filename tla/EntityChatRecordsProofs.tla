----------------------- MODULE EntityChatRecordsProofs -----------------------
(***************************************************************************)
(* Proofs about the oracle of integration/entity-chat for every number of  *)
(* events, bots, ticks, faults and deviations: what verifyRunFromLogs      *)
(* accepts, what it must accept, and what compareRuns concludes.           *)
(*                                                                         *)
(* The chat: IInv (what a log holds, and how many are off for how many     *)
(* faults).  The single records: d of Told says which records each         *)
(* scenario left; the logs hold these, less what was lost.                 *)
(***************************************************************************)
EXTENDS EntityChatRecords, SequenceTheorems, FiniteSetTheorems, NaturalsInduction, TLAPS
-----------------------------------------------------------------------------
(* Numbers, sequences and sets *)

(* A set of naturals that is not empty has a least element.                   *)
LEMMA LeastElement ==
  ASSUME NEW T, T \subseteq Nat, T # {}
  PROVE  \E n \in T : \A m \in T : n <= m
<1>1. IsWellFoundedOn(OpToRel(<, Nat), Nat)
  BY NatLessThanWellFounded
<1>2. PICK n \in T : \A m \in T : ~ (<<m, n>> \in OpToRel(<, Nat))
  BY <1>1, WFMin
<1>3. \A m \in T : ~(m < n)
  BY <1>2 DEF OpToRel
<1> QED
  BY <1>3

(* parseJsonLines drops nothing from a log that has no mangled line.          *)
LEMMA AllWellFormed ==
  ASSUME NEW S, NEW s \in Seq(S), ~Invalid(s)
  PROVE  WellFormed(s) = s
<1> DEFINE Dropping(k) ==
      [i \in 0..Len(s) |->
         IF i = 0 THEN <<>> ELSE IF s[i] = Mangled THEN k[i - 1] ELSE Append(k[i - 1], s[i])]
<1>1. \A i \in 1..Len(s) : s[i] \in S /\ s[i] # Mangled
  BY DEF Invalid
<1>2. Len(s) \in Nat
  OBVIOUS
<1>3. \A i \in 1..Len(s) : SubSeq(s, 1, i) = Append(SubSeq(s, 1, i - 1), s[i])
  <2> TAKE i \in 1..Len(s)
  <2>1. SubSeq(s, 1, i) = SubSeq(s, 1, i - 1) \o <<s[i]>>
    BY SubSeqRecursiveSecond
  <2>2. SubSeq(s, 1, i - 1) \in Seq(S)
    BY <1>1, <1>2, SubSeqProperties, i - 1 \in Int
  <2> QED BY <2>1, <2>2, <1>1, AppendIsConcat
<1>4. SubSeq(s, 1, 0) = <<>>
  BY SubSeqEmpty
<1> DEFINE K == [i \in 0..Len(s) |-> SubSeq(s, 1, i)]
<1>5. K = Dropping(K)
  <2> SUFFICES ASSUME NEW i \in 0..Len(s) PROVE K[i] = Dropping(K)[i]
    OBVIOUS
  <2>1. CASE i = 0
    BY <2>1, <1>4, <1>2
  <2>2. CASE i # 0
    <3>1. i \in 1..Len(s) /\ i - 1 \in 0..Len(s)
      BY <2>2, <1>2
    <3> QED BY <3>1, <2>2, <1>3, <1>1
  <2> QED BY <2>1, <2>2
<1>6. ASSUME NEW k, k = Dropping(k)
      PROVE  k[Len(s)] = s
  <2> DEFINE Bad == {i \in 0..Len(s) : k[i] # SubSeq(s, 1, i)}
  <2>1. Bad = {}
    <3> SUFFICES ASSUME Bad # {} PROVE FALSE
      OBVIOUS
    <3>1. PICK n \in Bad : \A m \in Bad : n <= m
      <4>1. Bad \subseteq Nat
        BY <1>2
      <4> HIDE DEF Bad
      <4> QED BY <4>1, LeastElement
    <3>2. n # 0
      BY <1>6, <1>4, <1>2
    <3>3. n \in 1..Len(s) /\ n - 1 \in 0..Len(s) /\ ~(n <= n - 1)
      BY <3>2, <1>2
    <3>4. k[n - 1] = SubSeq(s, 1, n - 1)
      BY <3>1, <3>3
    <3>5. k[n] = Append(k[n - 1], s[n])
      <4>1. Dropping(k)[n] = Append(k[n - 1], s[n])
        BY <3>3, <1>1
      <4> HIDE DEF Dropping
      <4> QED BY <4>1, <1>6
    <3> QED BY <3>1, <3>3, <3>4, <3>5, <1>3
  <2>2. Len(s) \in 0..Len(s)
    BY <1>2
  <2>3. k[Len(s)] = SubSeq(s, 1, Len(s))
    BY <2>1, <2>2
  <2> QED BY <2>3, SubSeqFull
<1>7. \E k : k = Dropping(k)
  BY <1>5
<1> DEFINE C == CHOOSE k : k = Dropping(k)
<1>8. C = Dropping(C)
  BY <1>7
<1>9. C[Len(s)] = s
  BY <1>6, <1>8
<1> QED BY <1>9 DEF WellFormed
(* One element more.                                                          *)
LEMMA AddAny ==
  ASSUME NEW D, NEW x, IsFiniteSet(D)
  PROVE  IsFiniteSet(D \cup {x}) /\ Cardinality(D \cup {x}) <= Cardinality(D) + 1
<1>1. Cardinality(D) \in Nat
  BY FS_CardinalityType
<1>2. /\ IsFiniteSet(D \cup {x})
      /\ Cardinality(D \cup {x}) = IF x \in D THEN Cardinality(D) ELSE Cardinality(D) + 1
  BY FS_AddElement, Zenon
<1> QED
  BY <1>1, <1>2

(* One element more that was not there.                                       *)
LEMMA AddNew ==
  ASSUME NEW D, NEW x, IsFiniteSet(D), x \notin D
  PROVE  IsFiniteSet(D \cup {x}) /\ Cardinality(D \cup {x}) = Cardinality(D) + 1
<1>1. /\ IsFiniteSet(D \cup {x})
      /\ Cardinality(D \cup {x}) = IF x \in D THEN Cardinality(D) ELSE Cardinality(D) + 1
  BY FS_AddElement, Zenon
<1> QED
  BY <1>1
-----------------------------------------------------------------------------
(* The chat: what is recorded, and how often it is disturbed *)

ChatEvent == [seq : Nat, sender : Bot, tick : Nat]
Entry == ChatEvent \cup {Mangled}

TypeOK ==
  /\ said \in [Rnd -> Seq(ChatEvent)]
  /\ log \in [Rnd -> [Writer -> Seq(Entry)]]
  /\ done \in [Rnd -> [Writer -> Nat]]
  /\ facts \in [Rnd -> BOOLEAN]
  /\ faults \in Nat

(* The events of a room are numbered, and a log is never past its room.       *)
Ordered ==
  \A r \in Rnd :
    /\ \A i \in DOMAIN said[r] : said[r][i].seq = i
    /\ \A w \in Writer : done[r][w] <= Len(said[r])

(* Log w of round r holds exactly the events it is past.                      *)
Faithful(r, w) ==
  /\ Len(log[r][w]) = done[r][w]
  /\ \A i \in 1..done[r][w] : log[r][w][i] = said[r][i]

Disturbed == {p \in Rnd \X Writer : ~Faithful(p[1], p[2])}

(* Every disturbed log took a fault of its own.                               *)
FaultsCounted == IsFiniteSet(Disturbed) /\ Cardinality(Disturbed) <= faults

IInv == TypeOK /\ Ordered /\ FaultsCounted

(* The initial states satisfy the invariant.                                  *)
LEMMA OracleInit == Init => IInv
<1> SUFFICES ASSUME Init PROVE IInv
  OBVIOUS
<1>1. TypeOK
  BY DEF Init, TypeOK
<1>2. Ordered
  BY DEF Init, Ordered
<1>3. Disturbed = {}
  BY DEF Init, Disturbed, Faithful
<1>4. FaultsCounted
  BY <1>3, FS_EmptySet DEF Init, FaultsCounted
<1> QED
  BY <1>1, <1>2, <1>4 DEF IInv

(* Adding to one entry of a function of functions.                            *)
LEMMA NestedType ==
  ASSUME NEW A, NEW B, NEW C, NEW f \in [A -> [B -> C]], NEW a \in A, NEW b \in B, NEW c \in C
  PROVE  [f EXCEPT ![a][b] = c] \in [A -> [B -> C]]
  OBVIOUS

(* Every step of the chat and its logs keeps their types.                     *)
LEMMA OracleType == TypeOK /\ Ordered /\ [Next]_vars => TypeOK'
<1> SUFFICES ASSUME TypeOK, Ordered, [Next]_vars PROVE TypeOK'
  OBVIOUS
<1> USE DEF TypeOK
<1>1. ASSUME NEW r \in Rnd, Say(r) PROVE TypeOK'
  <2>1. PICK b \in Bot, t \in 1..MaxTick :
          said' = [said EXCEPT ![r] = Append(@, [seq |-> Len(@) + 1, sender |-> b, tick |-> t])]
    BY <1>1 DEF Say
  <2>2. [seq |-> Len(said[r]) + 1, sender |-> b, tick |-> t] \in ChatEvent
    BY LenProperties, BoundAssumption DEF ChatEvent
  <2>3. Append(said[r], [seq |-> Len(said[r]) + 1, sender |-> b, tick |-> t]) \in Seq(ChatEvent)
    BY <2>2, AppendProperties
  <2>4. said' \in [Rnd -> Seq(ChatEvent)]
    BY <2>1, <2>3
  <2> QED
    BY <2>4, <1>1 DEF Say
<1>2. ASSUME NEW r \in Rnd, RecordFacts(r) PROVE TypeOK'
  BY <1>2 DEF RecordFacts
<1>3. ASSUME NEW r \in Rnd, NEW w \in Writer, NEW e \in Entry
      PROVE  Append(log[r][w], e) \in Seq(Entry)
  BY AppendProperties
<1>4. ASSUME NEW r \in Rnd, NEW i \in 1..Len(said[r]) PROVE said[r][i] \in Entry
  BY ElementOfSeq DEF Entry
<1>5. Mangled \in Entry
  BY DEF Entry
<1>6. ASSUME NEW r \in Rnd, NEW w \in Writer, Record(r, w) PROVE TypeOK'
  <2>1. done[r][w] + 1 \in 1..Len(said[r])
    BY <1>6, LenProperties DEF Record
  <2>2. Append(log[r][w], said[r][done[r][w] + 1]) \in Seq(Entry)
    BY <2>1, <1>3, <1>4
  <2>3. log' = [log EXCEPT ![r][w] = Append(log[r][w], said[r][done[r][w] + 1])]
    BY <1>6 DEF Record
  <2>4. log' \in [Rnd -> [Writer -> Seq(Entry)]]
    BY <2>2, <2>3, NestedType
  <2>5. done' \in [Rnd -> [Writer -> Nat]]
    BY <1>6 DEF Record
  <2> QED
    BY <2>4, <2>5, <1>6 DEF Record
<1>7. ASSUME NEW r \in Rnd, NEW w \in Writer, Fault(r, w) PROVE TypeOK'
  <2>1. log' \in [Rnd -> [Writer -> Seq(Entry)]]
    <3>1. ASSUME NEW e \in Entry PROVE [log EXCEPT ![r][w] = Append(@, e)] \in [Rnd -> [Writer -> Seq(Entry)]]
      <4>1. [log EXCEPT ![r][w] = Append(log[r][w], e)] \in [Rnd -> [Writer -> Seq(Entry)]]
        BY <1>3, NestedType
      <4> QED BY <4>1
    <3>2. CASE done[r][w] > 0 /\ log' = [log EXCEPT ![r][w] = Append(@, said[r][done[r][w]])]
      <4>1. done[r][w] \in 1..Len(said[r])
        BY <3>2, LenProperties DEF Ordered
      <4> QED BY <3>1, <3>2, <4>1, <1>4
    <3>3. CASE log' \in {log, [log EXCEPT ![r][w] = Append(@, Mangled)]}
      BY <3>1, <3>3, <1>5
    <3> QED BY <1>7, <3>2, <3>3 DEF Fault
  <2>2. done' \in [Rnd -> [Writer -> Nat]]
    <3>1. done' = done \/ done' = [done EXCEPT ![r][w] = @ + 1]
      BY <1>7 DEF Fault
    <3>2. [done EXCEPT ![r][w] = @ + 1] \in [Rnd -> [Writer -> Nat]]
      OBVIOUS
    <3> QED BY <3>1, <3>2
  <2> QED
    BY <2>1, <2>2, <1>7 DEF Fault
<1>8. CASE UNCHANGED vars
  BY <1>8 DEF vars
<1> QED
  BY <1>1, <1>2, <1>6, <1>7, <1>8 DEF Next

(* Numbers and lengths: a log may fall behind its room but never overtake it. *)
LEMMA OracleOrder == TypeOK /\ Ordered /\ [Next]_vars => Ordered'
<1> SUFFICES ASSUME TypeOK, Ordered, [Next]_vars PROVE Ordered'
  OBVIOUS
<1> USE DEF TypeOK
<1>0. \A r \in Rnd : Len(said[r]) \in Nat /\ DOMAIN said[r] = 1..Len(said[r])
  BY LenProperties
<1>1. ASSUME NEW r \in Rnd, Say(r) PROVE Ordered'
  <2>1. PICK b \in Bot, t \in 1..MaxTick :
          said' = [said EXCEPT ![r] = Append(@, [seq |-> Len(@) + 1, sender |-> b, tick |-> t])]
    BY <1>1 DEF Say
  <2> DEFINE e == [seq |-> Len(said[r]) + 1, sender |-> b, tick |-> t]
  <2>2. e \in ChatEvent
    BY LenProperties, BoundAssumption DEF ChatEvent
  <2>3. /\ Len(Append(said[r], e)) = Len(said[r]) + 1
        /\ \A i \in 1..Len(said[r]) : Append(said[r], e)[i] = said[r][i]
        /\ Append(said[r], e)[Len(said[r]) + 1] = e
        /\ DOMAIN Append(said[r], e) = 1..(Len(said[r]) + 1)
    BY <2>2, AppendProperties, LenProperties
  <2>4. e.seq = Len(said[r]) + 1
    OBVIOUS
  <2>5. said' = [said EXCEPT ![r] = Append(said[r], e)] /\ done' = done
    BY <2>1, <1>1 DEF Say
  <2> HIDE DEF e
  <2>6. \A i \in DOMAIN said'[r] : said'[r][i].seq = i
    BY <2>3, <2>4, <2>5, <1>0 DEF Ordered
  <2>7. \A w \in Writer : done'[r][w] <= Len(said'[r])
    BY <2>3, <2>5, <1>0 DEF Ordered
  <2>8. \A q \in Rnd \ {r} : said'[q] = said[q]
    BY <2>5
  <2> QED
    BY <2>5, <2>6, <2>7, <2>8 DEF Ordered
<1>2. ASSUME NEW r \in Rnd, RecordFacts(r) PROVE Ordered'
  BY <1>2 DEF RecordFacts, Ordered
<1>3. ASSUME NEW r \in Rnd, NEW w \in Writer, done[r][w] < Len(said[r]), said' = said,
             done' = [done EXCEPT ![r][w] = @ + 1]
      PROVE  Ordered'
  <2>1. \A q \in Rnd, v \in Writer : done'[q][v] <= Len(said[q])
    BY <1>3, <1>0 DEF Ordered
  <2> QED
    BY <2>1, <1>3 DEF Ordered
<1>4. ASSUME NEW r \in Rnd, NEW w \in Writer, Record(r, w) PROVE Ordered'
  BY <1>3, <1>4 DEF Record
<1>5. ASSUME NEW r \in Rnd, NEW w \in Writer, Fault(r, w) PROVE Ordered'
  <2>1. CASE done' = done
    BY <1>5, <2>1 DEF Fault, Ordered
  <2> QED
    BY <1>3, <1>5, <2>1 DEF Fault
<1>6. CASE UNCHANGED vars
  BY <1>6 DEF vars, Ordered
<1> QED
  BY <1>1, <1>2, <1>4, <1>5, <1>6 DEF Next

(* A fault disturbs no other log.                                             *)
LEMMA FaithfulElsewhere ==
  ASSUME TypeOK, NEW q \in Rnd, NEW v \in Writer, Faithful(q, v),
         NEW r \in Rnd, NEW w \in Writer, Fault(r, w), ~(q = r /\ v = w)
  PROVE  Faithful(q, v)'
<1> USE DEF TypeOK
<1>1. log'[q][v] = log[q][v]
  BY DEF Fault
<1>2. done'[q][v] = done[q][v] /\ said' = said
  BY DEF Fault
<1> QED BY <1>1, <1>2 DEF Faithful

(* No step but a fault disturbs a log.                                        *)
LEMMA FaithfulStep ==
  ASSUME TypeOK, Ordered, [Next]_vars, NEW q \in Rnd, NEW v \in Writer, Faithful(q, v),
         \A r \in Rnd, w \in Writer : ~Fault(r, w)
  PROVE  Faithful(q, v)'
<1> USE DEF TypeOK
<1>0. \A r \in Rnd : Len(said[r]) \in Nat
  BY LenProperties
<1>1. ASSUME NEW r \in Rnd, Say(r) PROVE Faithful(q, v)'
  <2>1. PICK b \in Bot, t \in 1..MaxTick :
          said' = [said EXCEPT ![r] = Append(@, [seq |-> Len(@) + 1, sender |-> b, tick |-> t])]
    BY <1>1 DEF Say
  <2> DEFINE e == [seq |-> Len(said[r]) + 1, sender |-> b, tick |-> t]
  <2>2. e \in ChatEvent
    BY LenProperties, BoundAssumption DEF ChatEvent
  <2>3. \A i \in 1..Len(said[r]) : Append(said[r], e)[i] = said[r][i]
    BY <2>2, AppendProperties
  <2>4. \A i \in 1..done[q][v] : said'[q][i] = said[q][i]
    <3>1. said' = [said EXCEPT ![r] = Append(said[r], e)]
      BY <2>1
    <3> HIDE DEF e
    <3> QED BY <3>1, <2>3, <1>0 DEF Ordered
  <2> QED
    BY <2>4, <1>1 DEF Say, Faithful
<1>2. ASSUME NEW r \in Rnd, RecordFacts(r) PROVE Faithful(q, v)'
  BY <1>2 DEF RecordFacts, Faithful
<1>3. ASSUME NEW r \in Rnd, NEW w \in Writer, Record(r, w) PROVE Faithful(q, v)'
  <2>1. CASE q = r /\ v = w
    <3> DEFINE e == said[q][done[q][v] + 1]
    <3>1. done[q][v] + 1 \in 1..Len(said[q])
      BY <1>3, <2>1, <1>0 DEF Record
    <3>2. e \in Entry
      BY <3>1, ElementOfSeq DEF Entry
    <3>3. /\ Len(Append(log[q][v], e)) = Len(log[q][v]) + 1
          /\ \A i \in 1..Len(log[q][v]) : Append(log[q][v], e)[i] = log[q][v][i]
          /\ Append(log[q][v], e)[Len(log[q][v]) + 1] = e
      BY <3>2, AppendProperties
    <3>4. log'[q][v] = Append(log[q][v], e) /\ done'[q][v] = done[q][v] + 1 /\ said' = said
      BY <1>3, <2>1 DEF Record
    <3> QED
      BY <3>3, <3>4 DEF Faithful
  <2>2. CASE ~(q = r /\ v = w)
    <3>1. log'[q][v] = log[q][v] /\ done'[q][v] = done[q][v] /\ said' = said
      BY <1>3, <2>2 DEF Record
    <3> QED BY <3>1 DEF Faithful
  <2> QED BY <2>1, <2>2
<1>4. CASE UNCHANGED vars
  BY <1>4 DEF vars, Faithful
<1> QED
  BY <1>1, <1>2, <1>3, <1>4 DEF Next

(* A step disturbs at most one log more, and then it was a fault.             *)
LEMMA OracleFaults == IInv /\ [Next]_vars => FaultsCounted'
<1> SUFFICES ASSUME TypeOK, Ordered, FaultsCounted, [Next]_vars PROVE FaultsCounted'
  BY DEF IInv
<1>0. faults \in Nat /\ Cardinality(Disturbed) \in Nat
  BY FS_CardinalityType DEF FaultsCounted, TypeOK
<1>1. CASE \E r \in Rnd, w \in Writer : Fault(r, w)
  <2>1. PICK r \in Rnd, w \in Writer : Fault(r, w)
    BY <1>1
  <2>2. faults' = faults + 1
    BY <2>1 DEF Fault
  <2>3. Disturbed' \subseteq Disturbed \cup {<<r, w>>}
    <3> SUFFICES ASSUME NEW q \in Rnd, NEW v \in Writer, ~Faithful(q, v)', Faithful(q, v)
                 PROVE  q = r /\ v = w
      BY DEF Disturbed, Rnd
    <3> QED BY <2>1, FaithfulElsewhere
  <2>4. IsFiniteSet(Disturbed \cup {<<r, w>>})
        /\ Cardinality(Disturbed \cup {<<r, w>>}) <= Cardinality(Disturbed) + 1
    BY AddAny DEF FaultsCounted
  <2>5. IsFiniteSet(Disturbed') /\ Cardinality(Disturbed') <= Cardinality(Disturbed \cup {<<r, w>>})
    BY <2>3, <2>4, FS_Subset
  <2>6. Cardinality(Disturbed') \in Nat /\ Cardinality(Disturbed \cup {<<r, w>>}) \in Nat
    BY <2>4, <2>5, FS_CardinalityType
  <2> QED
    BY <1>0, <2>2, <2>4, <2>5, <2>6 DEF FaultsCounted
<1>2. CASE \A r \in Rnd, w \in Writer : ~Fault(r, w)
  <2>1. Disturbed' \subseteq Disturbed
    <3> SUFFICES ASSUME NEW q \in Rnd, NEW v \in Writer, ~Faithful(q, v)', Faithful(q, v)
                 PROVE  FALSE
      BY DEF Disturbed, Rnd
    <3> QED BY <1>2, FaithfulStep
  <2>2. faults' = faults
    BY <1>2 DEF Next, Say, RecordFacts, Record, vars
  <2>3. IsFiniteSet(Disturbed') /\ Cardinality(Disturbed') <= Cardinality(Disturbed)
    BY <2>1, FS_Subset DEF FaultsCounted
  <2>4. Cardinality(Disturbed') \in Nat
    BY <2>3, FS_CardinalityType
  <2> QED
    BY <1>0, <2>2, <2>3, <2>4 DEF FaultsCounted
<1> QED BY <1>1, <1>2

(* The types, the order of the events and the count of the disturbed logs are *)
(* kept.                                                                      *)
THEOREM OracleInvariant == Spec => []IInv
<1>1. IInv /\ [Next]_vars => IInv'
  BY OracleType, OracleOrder, OracleFaults DEF IInv
<1> QED
  BY OracleInit, <1>1, PTL DEF Spec
-----------------------------------------------------------------------------
(* What the oracle concludes *)

(* Three different elements are too many for a set of two.                    *)
LEMMA ThreeOfTwo ==
  ASSUME NEW D, IsFiniteSet(D), Cardinality(D) <= 2, NEW a, NEW b, NEW c,
         a \in D, b \in D, c \in D, a # b, a # c, b # c
  PROVE  FALSE
<1>1. IsFiniteSet({a}) /\ Cardinality({a}) = 1
  BY FS_Singleton
<1>2. IsFiniteSet({a} \cup {b}) /\ Cardinality({a} \cup {b}) = 2
  BY <1>1, AddNew
<1>3. Cardinality(({a} \cup {b}) \cup {c}) = 3
  <2> DEFINE AB == {a} \cup {b}
  <2>1. c \notin AB
    OBVIOUS
  <2>2. IsFiniteSet(AB) /\ Cardinality(AB) = 2
    BY <1>2
  <2> HIDE DEF AB
  <2>3. Cardinality(AB \cup {c}) = 3
    BY <2>1, <2>2, AddNew
  <2> QED BY <2>3 DEF AB
<1>4. ({a} \cup {b}) \cup {c} \subseteq D
  OBVIOUS
<1>5. Cardinality(({a} \cup {b}) \cup {c}) <= Cardinality(D) /\ Cardinality(D) \in Nat
  BY <1>4, FS_Subset, FS_CardinalityType
<1> QED
  BY <1>3, <1>5

(* A faithful log of a round's length is what the room said.                  *)
LEMMA FaithfulIsTruth ==
  ASSUME TypeOK, Ordered, NEW r \in Rnd, NEW w \in Writer, Faithful(r, w),
         Len(log[r][w]) = Events
  PROVE  Len(said[r]) >= Events /\ log[r][w] = Truth(r)
<1>1. log[r][w] \in Seq(Entry) /\ said[r] \in Seq(ChatEvent) /\ Len(said[r]) \in Nat
  BY LenProperties DEF TypeOK
<1>2. done[r][w] = Events /\ Len(said[r]) >= Events
  BY <1>1, EventsAssumption DEF Faithful, Ordered
<1>3. \A i \in 1..Events : said[r][i] \in ChatEvent
  BY <1>1, <1>2, ElementOfSeq, EventsAssumption
<1>4. /\ Truth(r) \in Seq(ChatEvent)
      /\ Len(Truth(r)) = Events
      /\ \A i \in 1..Events : Truth(r)[i] = said[r][i]
  BY <1>3, SubSeqProperties, EventsAssumption DEF Truth
<1>5. Truth(r) \in Seq(Entry)
  BY <1>4, SeqMonotonic DEF Entry
<1>6. log[r][w] = Truth(r)
  BY <1>1, <1>2, <1>4, <1>5, SeqEqual DEF Faithful
<1> QED BY <1>2, <1>6

(* The log that Runtime reads.                                                *)
LEMMA RuntimeIsALog ==
  ASSUME NEW r \in Rnd
  PROVE  \E w \in {"server", "client"} : Runtime(r) = log[r][w]
  BY DEF Runtime

(* An accepted round's three logs are equal and as long as a round.           *)
LEMMA AcceptedAgree ==
  ASSUME TypeOK, NEW r \in Rnd, RunOk(r)
  PROVE  /\ EventOrder(r) = Runtime(r)
         /\ log[r]["network"] = Runtime(r)
         /\ log[r]["window"] = Runtime(r)
         /\ Len(Runtime(r)) = Events
<1>1. PICK w \in {"server", "client"} : Runtime(r) = log[r][w]
  BY RuntimeIsALog
<1>2. Runtime(r) \in Seq(Entry) /\ log[r]["network"] \in Seq(Entry)
  BY <1>1 DEF TypeOK, Writer
<1>3. ~Invalid(Runtime(r)) /\ ~Invalid(log[r]["network"])
  BY DEF RunOk, NetworkMatches
<1>4. WellFormed(Runtime(r)) = Runtime(r) /\ WellFormed(log[r]["network"]) = log[r]["network"]
  BY <1>2, <1>3, AllWellFormed
<1> QED
  BY <1>4 DEF RunOk, NetworkMatches, WindowMatches, Complete, EventOrder

(* Two faults are too few for three logs to agree on something else.          *)
LEMMA AcceptedTrue == IInv => AcceptedIsTrue
<1> SUFFICES ASSUME IInv, faults <= 2, NEW r \in Rnd, RunOk(r)
             PROVE  /\ Len(said[r]) >= Events
                    /\ EventOrder(r) = Truth(r)
                    /\ log[r]["network"] = Truth(r)
                    /\ log[r]["window"] = Truth(r)
  BY DEF AcceptedIsTrue
<1>0. TypeOK /\ Ordered /\ FaultsCounted
  BY DEF IInv
<1>1. PICK w \in {"server", "client"} : Runtime(r) = log[r][w]
  BY RuntimeIsALog
<1>2. \E v \in {w, "network", "window"} : Faithful(r, v)
  <2> SUFFICES ASSUME ~Faithful(r, w), ~Faithful(r, "network"), ~Faithful(r, "window")
               PROVE  FALSE
    OBVIOUS
  <2>1. <<r, w>> \in Disturbed /\ <<r, "network">> \in Disturbed /\ <<r, "window">> \in Disturbed
    BY DEF Disturbed, Writer
  <2>2. <<r, w>> # <<r, "network">> /\ <<r, w>> # <<r, "window">>
        /\ <<r, "network">> # <<r, "window">>
    OBVIOUS
  <2>3. IsFiniteSet(Disturbed) /\ Cardinality(Disturbed) <= 2
    BY <1>0, FS_CardinalityType DEF FaultsCounted, TypeOK
  <2> QED BY <2>1, <2>2, <2>3, ThreeOfTwo
<1>3. PICK v \in {w, "network", "window"} : Faithful(r, v)
  BY <1>2
<1>4. log[r][v] = Runtime(r) /\ Len(log[r][v]) = Events
  BY <1>0, <1>1, AcceptedAgree
<1>5. Len(said[r]) >= Events /\ log[r][v] = Truth(r)
  BY <1>0, <1>3, <1>4, FaithfulIsTruth DEF Writer
<1> QED
  BY <1>0, <1>4, <1>5, AcceptedAgree

(* Logs without a fault agree, and on the whole round.                        *)
LEMMA HonestAccepted == IInv => HonestIsAccepted
<1> SUFFICES ASSUME IInv, faults = 0, NEW r \in Rnd, facts[r], Len(said[r]) = Events,
                    \A w \in Writer : done[r][w] = Events
             PROVE  RunOk(r)
  BY DEF HonestIsAccepted
<1>0. TypeOK /\ Ordered /\ FaultsCounted
  BY DEF IInv
<1>1. \A w \in Writer : Faithful(r, w)
  <2>1. Disturbed = {}
    BY <1>0, FS_EmptySet, FS_CardinalityType DEF FaultsCounted
  <2> TAKE w \in Writer
  <2>2. <<r, w>> \notin Disturbed
    BY <2>1
  <2> QED BY <2>2 DEF Disturbed
<1>2. \A w \in Writer : log[r][w] = Truth(r) /\ Len(log[r][w]) = Events
  BY <1>0, <1>1, FaithfulIsTruth DEF Faithful
<1>3. Truth(r) \in Seq(Entry) /\ Len(Truth(r)) = Events
  BY <1>0, <1>2 DEF TypeOK, Writer
<1>4. \A i \in 1..Events : Truth(r)[i] = said[r][i]
  BY <1>1, <1>2, <1>3 DEF Faithful, Writer
<1>5. said[r] \in Seq(ChatEvent)
  BY <1>0 DEF TypeOK
<1>6. \A i \in 1..Events : Truth(r)[i].seq = i /\ Truth(r)[i].sender \in Bot
  <2>1. \A i \in 1..Events : said[r][i] \in ChatEvent
    BY <1>5, ElementOfSeq
  <2>2. \A i \in 1..Events : said[r][i].seq = i
    BY <1>0, <1>5, LenProperties DEF Ordered
  <2> QED BY <2>1, <2>2, <1>4 DEF ChatEvent
<1>7. ~Invalid(Truth(r))
  <2>1. Mangled.sender = "mangled"
    BY DEF Mangled
  <2> QED BY <2>1, <1>3, <1>6, LenProperties, BotAssumption DEF Invalid
<1>8. Runtime(r) = Truth(r)
  BY <1>2, RuntimeIsALog DEF Writer
<1>9. WellFormed(Truth(r)) = Truth(r)
  BY <1>3, <1>7, AllWellFormed
<1>10. Increasing(Truth(r))
  BY <1>3, <1>6, EventsAssumption DEF Increasing
<1>11. Truth(r) # <<>>
  BY <1>3, EventsAssumption
<1> QED
  BY <1>2, <1>3, <1>7, <1>8, <1>9, <1>10, <1>11
     DEF RunOk, NetworkMatches, WindowMatches, Complete, Writer

(* Equal canonical events come from rooms that said the same.                 *)
LEMMA EqualSaidTheSame == IInv => EqualRunsSaidTheSame
<1> SUFFICES ASSUME IInv, Rounds = 2, faults <= 2, CompareRuns
             PROVE  Speeches(Truth(1)) = Speeches(Truth(2))
  BY DEF EqualRunsSaidTheSame
<1>1. \A r \in {1, 2} : r \in Rnd /\ RunOk(r)
  BY DEF CompareRuns, Rnd
<1>2. \A r \in {1, 2} : log[r]["window"] = Truth(r)
  BY <1>1, AcceptedTrue DEF AcceptedIsTrue
<1>3. \A r \in {1, 2} : log[r]["window"] # <<>>
  <2>1. \A r \in {1, 2} : Len(log[r]["window"]) = Events
    BY <1>1 DEF RunOk, Complete
  <2> QED BY <2>1, EventsAssumption
<1>4. CanonicalEvents(1) = CanonicalEvents(2)
  BY DEF CompareRuns, SameEvents
<1> QED
  BY <1>2, <1>3, <1>4 DEF CanonicalEvents

(* verifyRunFromLogs: two faults of the logs never pass for what was said.    *)
THEOREM AcceptedIsTrueHolds == Spec => []AcceptedIsTrue
  BY OracleInvariant, AcceptedTrue, PTL

(* verifyRunFromLogs: a complete round recorded without a fault is accepted.  *)
THEOREM HonestIsAcceptedHolds == Spec => []HonestIsAccepted
  BY OracleInvariant, HonestAccepted, PTL

(* compareRuns: two rounds that compare equal had the same texts from the     *)
(* same senders.                                                              *)
THEOREM EqualRunsSaidTheSameHolds == Spec => []EqualRunsSaidTheSame
  BY OracleInvariant, EqualSaidTheSame, PTL

(* The replay with its single records: a run of it is a run of the oracle's   *)
(* rounds, so what is shown of these holds of it too.                         *)
THEOREM RunsAreRounds == RunSpec => Spec
<1>1. RunInit => Init
  BY DEF RunInit
<1>2. [RunNext]_<<vars, recordVars>> => [Next]_vars
  <2> SUFFICES ASSUME RunNext \/ UNCHANGED <<vars, recordVars>> PROVE [Next]_vars
    OBVIOUS
  <2>0. 1 \in Rnd /\ (Rounds = 2 => 2 \in Rnd)
    BY RoundsAssumption DEF Rnd
  <2>1. CASE UNCHANGED vars
    BY <2>1
  <2>2. CASE ReadRecords
    BY <2>0, <2>2 DEF ReadRecords, Next
  <2>3. CASE ChatNext
    BY <2>0, <2>3 DEF ChatNext, Next
  <2> QED
    BY <2>1, <2>2, <2>3 DEF RunNext
<1> QED
  BY <1>1, <1>2, PTL DEF RunSpec, Spec
-----------------------------------------------------------------------------
(* The ideal run *)

HostRecord == [kind |-> "host", host |-> "lumio-entity-chat-replay"]
AccountRecord == [kind |-> "account", code |-> "wrong_password"]
TickRecord == [kind |-> "tick", source |-> "native-kernel/tickFrame"]
SupersededRecord == [kind |-> "superseded", connection |-> "old"]
RebindRecord == [kind |-> "rebind", previous |-> Bots, next |-> Bots]
SnapshotRecord == [kind |-> "snapshot", history |-> 0, pid |-> 1]
RestoreRecord == [kind |-> "restore", window |-> 0, pid |-> 2]
ExpireRecord == [kind |-> "expire", tombstoned |-> TRUE, a |-> 1, b |-> Bots + 2]
DeferredRecord == [kind |-> "deferred", reason |-> "ADR-058"]

Opening == <<HostRecord, AccountRecord>>
Entering == [i \in 1..(Bots + 1) |-> Admitted(i)]
Closing ==
  <<TickRecord, Query("unauthorized"), Query("invisible"), Query("stale"), SupersededRecord,
    RebindRecord, SnapshotRecord, RestoreRecord, ExpireRecord, DeferredRecord>>

(* The ideal run in three parts.                                              *)
LEMMA IdealParts == Ideal = (Opening \o Entering) \o Closing
  BY DEF Ideal, Opening, Entering, Closing, HostRecord, AccountRecord, TickRecord,
         SupersededRecord, RebindRecord, SnapshotRecord, RestoreRecord, ExpireRecord,
         DeferredRecord

Joined(s, t) ==
  /\ Len(s \o t) = Len(s) + Len(t)
  /\ \A i \in 1..Len(s) : (s \o t)[i] = s[i]
  /\ \A i \in 1..Len(t) : (s \o t)[Len(s) + i] = t[i]

(* What is where in the concatenation of two sequences.                       *)
LEMMA ConcatAt ==
  ASSUME NEW S, NEW s \in Seq(S), NEW t \in Seq(S)
  PROVE  s \o t \in Seq(S) /\ Joined(s, t)
<1>1. Len(t) \in Nat /\ Len(s) \in Nat
  BY LenProperties
<1>2. s \o t \in Seq(S) /\ Len(s \o t) = Len(s) + Len(t)
  BY ConcatProperties
<1>3. \A i \in 1..(Len(s) + Len(t)) : (s \o t)[i] = IF i <= Len(s) THEN s[i] ELSE t[i - Len(s)]
  BY ConcatProperties
<1>4. ASSUME NEW i \in 1..Len(t) PROVE (s \o t)[Len(s) + i] = t[i]
  <2>1. Len(s) + i \in 1..(Len(s) + Len(t)) /\ ~(Len(s) + i <= Len(s)) /\ (Len(s) + i) - Len(s) = i
    BY <1>1
  <2> QED BY <2>1, <1>3
<1>5. ASSUME NEW i \in 1..Len(s) PROVE (s \o t)[i] = s[i]
  <2>1. i \in 1..(Len(s) + Len(t)) /\ i <= Len(s)
    BY <1>1
  <2> QED BY <2>1, <1>3
<1> QED BY <1>2, <1>4, <1>5 DEF Joined

(* The length of the ideal run and what each of its parts holds.              *)
LEMMA IdealAt ==
  /\ Len(Ideal) = Bots + 13
  /\ Ideal[1] = HostRecord /\ Ideal[2] = AccountRecord
  /\ \A i \in 1..(Bots + 1) : Ideal[2 + i] = Admitted(i)
  /\ \A i \in 1..10 : Ideal[(Bots + 3) + i] = Closing[i]
<1> DEFINE S == {Opening[i] : i \in 1..2} \cup {Entering[i] : i \in 1..(Bots + 1)}
                  \cup {Closing[i] : i \in 1..10}
<1>0. Bots \in Nat /\ Bots > 0
  BY BotsAssumption
<1>1. Opening \in Seq(S) /\ Len(Opening) = 2 /\ Opening[1] = HostRecord /\ Opening[2] = AccountRecord
  <2>1. \A i \in 1..2 : Opening[i] \in S
    OBVIOUS
  <2> HIDE DEF S
  <2> QED BY <2>1 DEF Opening
<1>2. Entering \in Seq(S) /\ Len(Entering) = Bots + 1
  <2>1. \A i \in 1..(Bots + 1) : Entering[i] \in S
    OBVIOUS
  <2> HIDE DEF S
  <2> QED BY <2>1, <1>0 DEF Entering
<1>3. Closing \in Seq(S) /\ Len(Closing) = 10
  <2>1. \A i \in 1..10 : Closing[i] \in S
    OBVIOUS
  <2> HIDE DEF S
  <2> QED BY <2>1 DEF Closing
<1> HIDE DEF S
<1> DEFINE Front == Opening \o Entering
<1>4. Front \in Seq(S) /\ Joined(Opening, Entering)
  BY <1>1, <1>2, ConcatAt
<1>5. /\ Len(Front) = Bots + 3
      /\ \A i \in 1..2 : Front[i] = Opening[i]
      /\ \A i \in 1..(Bots + 1) : Front[2 + i] = Entering[i]
  <2>1. Len(Opening) = 2 /\ Len(Entering) = Bots + 1
    BY <1>1, <1>2
  <2> QED BY <1>0, <1>4, <2>1 DEF Joined
<1> HIDE DEF Front
<1>6a. Joined(Front, Closing)
  BY <1>3, <1>4, ConcatAt
<1>6. /\ Len(Front \o Closing) = (Bots + 3) + 10
      /\ \A i \in 1..(Bots + 3) : (Front \o Closing)[i] = Front[i]
      /\ \A i \in 1..10 : (Front \o Closing)[(Bots + 3) + i] = Closing[i]
  BY <1>3, <1>5, <1>6a DEF Joined
<1>7. Ideal = Front \o Closing
  BY IdealParts DEF Front
<1>8. ASSUME NEW i \in 1..(Bots + 1) PROVE Ideal[2 + i] = Admitted(i)
  <2>1. 2 + i \in 1..(Bots + 3)
    BY <1>0
  <2>2. Entering[i] = Admitted(i)
    BY DEF Entering
  <2>3. Front[2 + i] = Entering[i]
    BY <1>5
  <2> QED BY <2>1, <2>2, <2>3, <1>6, <1>7
<1>9. Ideal[1] = HostRecord /\ Ideal[2] = AccountRecord
  <2>1. 1 \in 1..(Bots + 3) /\ 2 \in 1..(Bots + 3)
    BY <1>0
  <2>2. Front[1] = HostRecord /\ Front[2] = AccountRecord
    BY <1>1, <1>5
  <2> QED BY <2>1, <2>2, <1>6, <1>7
<1>10. Len(Ideal) = Bots + 13
  BY <1>0, <1>6, <1>7
<1>11. \A i \in 1..10 : Ideal[(Bots + 3) + i] = Closing[i]
  BY <1>6, <1>7
<1> QED
  BY <1>8, <1>9, <1>10, <1>11

(* Every place of the ideal run and what is there.                            *)
LEMMA IdealCases ==
  ASSUME NEW j \in 1..Len(Ideal)
  PROVE  \/ j = 1 /\ Ideal[j] = HostRecord
         \/ j = 2 /\ Ideal[j] = AccountRecord
         \/ \E i \in 1..(Bots + 1) : j = i + 2 /\ Ideal[j] = Admitted(i)
         \/ j = Bots + 4 /\ Ideal[j] = TickRecord
         \/ j = Bots + 5 /\ Ideal[j] = Query("unauthorized")
         \/ j = Bots + 6 /\ Ideal[j] = Query("invisible")
         \/ j = Bots + 7 /\ Ideal[j] = Query("stale")
         \/ j = Bots + 8 /\ Ideal[j] = SupersededRecord
         \/ j = Bots + 9 /\ Ideal[j] = RebindRecord
         \/ j = Bots + 10 /\ Ideal[j] = SnapshotRecord
         \/ j = Bots + 11 /\ Ideal[j] = RestoreRecord
         \/ j = Bots + 12 /\ Ideal[j] = ExpireRecord
         \/ j = Bots + 13 /\ Ideal[j] = DeferredRecord
<1>0. Bots \in Nat /\ Len(Ideal) = Bots + 13
  BY IdealAt, BotsAssumption
<1>1. CASE j <= 2
  BY <1>1, <1>0, IdealAt
<1>2. CASE j > 2 /\ j <= Bots + 3
  <2>1. j - 2 \in 1..(Bots + 1) /\ 2 + (j - 2) = j /\ (j - 2) + 2 = j
    BY <1>0, <1>2
  <2>2. Ideal[2 + (j - 2)] = Admitted(j - 2)
    BY <2>1, IdealAt
  <2> QED BY <2>1, <2>2
<1>3. CASE j > Bots + 3
  <2> DEFINE i == j - (Bots + 3)
  <2>1. i \in 1..10 /\ (Bots + 3) + i = j
    BY <1>0, <1>3
  <2>2. Ideal[j] = Closing[i]
    BY <2>1, IdealAt
  <2>3. /\ i = 1 => j = Bots + 4 /\ Closing[i] = TickRecord
        /\ i = 2 => j = Bots + 5 /\ Closing[i] = Query("unauthorized")
        /\ i = 3 => j = Bots + 6 /\ Closing[i] = Query("invisible")
        /\ i = 4 => j = Bots + 7 /\ Closing[i] = Query("stale")
        /\ i = 5 => j = Bots + 8 /\ Closing[i] = SupersededRecord
        /\ i = 6 => j = Bots + 9 /\ Closing[i] = RebindRecord
        /\ i = 7 => j = Bots + 10 /\ Closing[i] = SnapshotRecord
        /\ i = 8 => j = Bots + 11 /\ Closing[i] = RestoreRecord
        /\ i = 9 => j = Bots + 12 /\ Closing[i] = ExpireRecord
        /\ i = 10 => j = Bots + 13 /\ Closing[i] = DeferredRecord
    <3>1. j = Bots + 3 + i /\ Bots \in Int
      BY <2>1, <1>0
    <3> HIDE DEF i
    <3>2. /\ Closing[1] = TickRecord /\ Closing[2] = Query("unauthorized")
          /\ Closing[3] = Query("invisible") /\ Closing[4] = Query("stale")
          /\ Closing[5] = SupersededRecord /\ Closing[6] = RebindRecord
          /\ Closing[7] = SnapshotRecord /\ Closing[8] = RestoreRecord
          /\ Closing[9] = ExpireRecord /\ Closing[10] = DeferredRecord
      BY DEF Closing
    <3>3. /\ Bots + 3 + 1 = Bots + 4 /\ Bots + 3 + 2 = Bots + 5 /\ Bots + 3 + 3 = Bots + 6
          /\ Bots + 3 + 4 = Bots + 7 /\ Bots + 3 + 5 = Bots + 8 /\ Bots + 3 + 6 = Bots + 9
          /\ Bots + 3 + 7 = Bots + 10 /\ Bots + 3 + 8 = Bots + 11 /\ Bots + 3 + 9 = Bots + 12
          /\ Bots + 3 + 10 = Bots + 13
      BY ONLY <3>1
    <3> QED BY ONLY <3>1, <3>2, <3>3, Zenon
  <2>4. i = 1 \/ i = 2 \/ i = 3 \/ i = 4 \/ i = 5 \/ i = 6 \/ i = 7 \/ i = 8 \/ i = 9 \/ i = 10
    BY <2>1
  <2> HIDE DEF i
  <2> QED BY <2>2, <2>3, <2>4
<1> QED
  BY <1>0, <1>1, <1>2, <1>3

(* The places of the records that the arguments below single out.             *)
LEMMA IdealPlaces ==
  /\ Len(Ideal) = Bots + 13
  /\ Ideal[1] = HostRecord /\ Ideal[2] = AccountRecord
  /\ \A i \in 1..(Bots + 1) : Ideal[i + 2] = Admitted(i)
  /\ Ideal[Bots + 4] = TickRecord
  /\ Ideal[Bots + 5] = Query("unauthorized")
  /\ Ideal[Bots + 6] = Query("invisible")
  /\ Ideal[Bots + 7] = Query("stale")
  /\ Ideal[Bots + 8] = SupersededRecord
  /\ Ideal[Bots + 9] = RebindRecord
  /\ Ideal[Bots + 10] = SnapshotRecord
  /\ Ideal[Bots + 11] = RestoreRecord
  /\ Ideal[Bots + 12] = ExpireRecord
  /\ Ideal[Bots + 13] = DeferredRecord
<1>0. Bots \in Nat /\ Len(Ideal) = Bots + 13
  BY IdealAt, BotsAssumption
<1>1. ASSUME NEW i \in 1..10 PROVE (Bots + 3) + i \in 1..Len(Ideal) /\ (Bots + 3) + i = Bots + (3 + i)
  BY <1>0
<1>2. \A i \in 1..(Bots + 1) : Ideal[i + 2] = Admitted(i)
  <2> TAKE i \in 1..(Bots + 1)
  <2>1. i + 2 = 2 + i
    BY <1>0
  <2> QED BY <2>1, IdealAt
<1>3. /\ Ideal[(Bots + 3) + 1] = TickRecord
      /\ Ideal[(Bots + 3) + 2] = Query("unauthorized")
      /\ Ideal[(Bots + 3) + 3] = Query("invisible")
      /\ Ideal[(Bots + 3) + 4] = Query("stale")
      /\ Ideal[(Bots + 3) + 5] = SupersededRecord
      /\ Ideal[(Bots + 3) + 6] = RebindRecord
      /\ Ideal[(Bots + 3) + 7] = SnapshotRecord
      /\ Ideal[(Bots + 3) + 8] = RestoreRecord
      /\ Ideal[(Bots + 3) + 9] = ExpireRecord
      /\ Ideal[(Bots + 3) + 10] = DeferredRecord
  BY IdealAt DEF Closing
<1>4. /\ (Bots + 3) + 1 = Bots + 4 /\ (Bots + 3) + 2 = Bots + 5 /\ (Bots + 3) + 3 = Bots + 6
      /\ (Bots + 3) + 4 = Bots + 7 /\ (Bots + 3) + 5 = Bots + 8 /\ (Bots + 3) + 6 = Bots + 9
      /\ (Bots + 3) + 7 = Bots + 10 /\ (Bots + 3) + 8 = Bots + 11 /\ (Bots + 3) + 9 = Bots + 12
      /\ (Bots + 3) + 10 = Bots + 13
  BY <1>0
<1> QED
  BY <1>0, <1>2, <1>3, <1>4, IdealAt

Kinds == {"host", "account", "admit", "tick", "query", "superseded", "rebind", "snapshot",
          "restore", "expire", "deferred"}

(* The kind of every record of the ideal run.                                 *)
LEMMA IdealKinds ==
  /\ HostRecord.kind = "host" /\ AccountRecord.kind = "account"
  /\ \A i : Admitted(i).kind = "admit"
  /\ TickRecord.kind = "tick"
  /\ \A o : Query(o).kind = "query"
  /\ SupersededRecord.kind = "superseded" /\ RebindRecord.kind = "rebind"
  /\ SnapshotRecord.kind = "snapshot" /\ RestoreRecord.kind = "restore"
  /\ ExpireRecord.kind = "expire" /\ DeferredRecord.kind = "deferred"
  BY DEF HostRecord, AccountRecord, TickRecord, SupersededRecord, RebindRecord, SnapshotRecord,
         RestoreRecord, ExpireRecord, DeferredRecord, Admitted, Query

(* Only admissions and queries are there more than once.                      *)
LEMMA OneOfAKind ==
  ASSUME NEW i \in 1..Len(Ideal), NEW j \in 1..Len(Ideal), Ideal[i].kind = Ideal[j].kind
  PROVE  i = j \/ Ideal[i].kind \in {"admit", "query"}
  BY IdealCases, IdealKinds

(* There are no other kinds.                                                  *)
LEMMA KindsOfIdeal == \A j \in 1..Len(Ideal) : Ideal[j].kind \in Kinds
  BY IdealCases, IdealKinds DEF Kinds

(* No record is there twice.                                                  *)
LEMMA IdealIsInjective ==
  ASSUME NEW i \in 1..Len(Ideal), NEW j \in 1..Len(Ideal), Ideal[i] = Ideal[j]
  PROVE  i = j
<1>1. i = j \/ Ideal[i].kind = "admit" \/ Ideal[i].kind = "query"
  BY OneOfAKind
<1>2. CASE Ideal[i].kind = "admit"
  <2>1. PICK a \in 1..(Bots + 1) : i = a + 2 /\ Ideal[i] = Admitted(a)
    BY <1>2, IdealCases, IdealKinds
  <2>2. PICK b \in 1..(Bots + 1) : j = b + 2 /\ Ideal[j] = Admitted(b)
    BY <1>2, IdealCases, IdealKinds
  <2>3. a = b
    BY <2>1, <2>2 DEF Admitted
  <2> QED BY <2>1, <2>2, <2>3
<1>3. CASE Ideal[i].kind = "query"
  <2>1. \A o : Query(o).outcome = o
    BY DEF Query
  <2> QED BY <1>3, <2>1, IdealCases, IdealKinds
<1> QED BY <1>1, <1>2, <1>3
-----------------------------------------------------------------------------
(* The logs of the single records *)

Files == {"A", "B", "client"}

(* What a faulty write may leave of a record.                                 *)
Copies(r) == {r} \cup {[r EXCEPT ![f] = None] : f \in DOMAIN r \ {"kind"}}

(* Process B's own snapshot.                                                  *)
Own == [kind |-> "snapshot", history |-> 0, pid |-> 2]

(* What the replay may do instead of a record.                                *)
Deviant(r) == UNION {Range(rs) : rs \in Deviations(r)}

LogRecord ==
  {Own} \cup UNION {Copies(Ideal[j]) \cup Deviant(Ideal[j]) : j \in 1..Len(Ideal)}

RecordsTypeOK ==
  /\ step \in 0..Len(Ideal)
  /\ file \in [Files -> Seq(LogRecord)]
  /\ first \in {"A", "B"}
  /\ happened \in Seq(LogRecord)
  /\ resnap \in BOOLEAN
  /\ wrong \in Nat
  /\ lost \in Nat
  /\ damaged \in [twice : Nat, field : Nat]

RecordsStep == RecordsNext \/ UNCHANGED recordVars

(* A step writes rs, all of it into one file.                                 *)
Added(rs) ==
  \A f \in Files :
    Range(file'[f]) = IF rs # <<>> /\ f = FileOf(rs[1]) THEN Range(file[f]) \cup Range(rs)
                      ELSE Range(file[f])

(* Every record has a file.                                                   *)
LEMMA FileOfIsFile == \A r : FileOf(r) \in Files
  BY DEF FileOf, Files

(* Kept appends to one file and leaves the others alone.                      *)
LEMMA KeptIsAdded ==
  ASSUME RecordsTypeOK, NEW rs \in Seq(LogRecord), Kept(rs)
  PROVE  file' \in [Files -> Seq(LogRecord)] /\ Added(rs)
<1>1. CASE rs = <<>>
  BY <1>1 DEF Kept, Added, RecordsTypeOK
<1>2. CASE rs # <<>>
  <2> DEFINE g == FileOf(rs[1])
  <2>1. g \in Files /\ file' = [file EXCEPT ![g] = file[g] \o rs]
    BY <1>2, FileOfIsFile DEF Kept
  <2>2. file \in [Files -> Seq(LogRecord)]
    BY DEF RecordsTypeOK
  <2> HIDE DEF g
  <2>3. file[g] \in Seq(LogRecord)
    BY <2>1, <2>2
  <2>4. file[g] \o rs \in Seq(LogRecord)
    BY <2>3, ConcatProperties
  <2>5. Range(file[g] \o rs) = Range(file[g]) \cup Range(rs)
    BY <2>3, RangeConcatenation
  <2> DEFINE joined == file[g] \o rs
  <2>6. joined \in Seq(LogRecord) /\ file' = [file EXCEPT ![g] = joined]
    BY <2>1, <2>4
  <2>7. Range(joined) = Range(file[g]) \cup Range(rs)
    BY <2>5
  <2> HIDE DEF joined
  <2>8. file' \in [Files -> Seq(LogRecord)]
    BY <2>2, <2>6
  <2>9. \A f \in Files : file'[f] = IF f = g THEN joined ELSE file[f]
    BY <2>2, <2>6
  <2>10. \A f \in Files : Range(file'[f]) = IF f = g THEN Range(file[f]) \cup Range(rs)
                                            ELSE Range(file[f])
    BY <2>7, <2>9
  <2> QED
    BY <1>2, <2>8, <2>10 DEF g, Added
<1> QED BY <1>1, <1>2

(* The sequences of one record, once or twice.                                *)
LEMMA OneOrTwo ==
  ASSUME NEW S, NEW r \in S
  PROVE  /\ <<r>> \in Seq(S) /\ Range(<<r>>) = {r} /\ <<r>> # <<>> /\ <<r>>[1] = r
         /\ <<r, r>> \in Seq(S) /\ Range(<<r, r>>) = {r} /\ <<r, r>> # <<>> /\ <<r, r>>[1] = r
<1>1. <<r>> \in Seq(S) /\ <<r, r>> \in Seq(S)
  OBVIOUS
<1>2. Range(<<r>>) = {r}
  BY DEF Range
<1>3. Range(<<r, r>>) = {r}
  BY DEF Range
<1> QED BY <1>1, <1>2, <1>3

(* A step writes r, once or twice.                                            *)
AddedOne(r) ==
  \A f \in Files :
    Range(file'[f]) = IF f = FileOf(r) THEN Range(file[f]) \cup {r} ELSE Range(file[f])

(* A record kept once or twice is added to the records of its file.           *)
LEMMA KeptOne ==
  ASSUME RecordsTypeOK, NEW r \in LogRecord, Kept(<<r>>) \/ Kept(<<r, r>>)
  PROVE  file' \in [Files -> Seq(LogRecord)] /\ AddedOne(r)
<1>1. CASE Kept(<<r>>)
  <2>1. file' \in [Files -> Seq(LogRecord)] /\ Added(<<r>>)
    BY <1>1, OneOrTwo, KeptIsAdded
  <2> QED BY <2>1, OneOrTwo DEF Added, AddedOne
<1>2. CASE Kept(<<r, r>>)
  <2>1. file' \in [Files -> Seq(LogRecord)] /\ Added(<<r, r>>)
    BY <1>2, OneOrTwo, KeptIsAdded
  <2> QED BY <2>1, OneOrTwo DEF Added, AddedOne
<1> QED BY <1>1, <1>2

(* A scenario: its record is lost, or a copy of it is written, and a copy that *)
(* lacks a field is counted.                                                  *)
LEMMA ScenarioWrites ==
  ASSUME RecordsTypeOK, Scenario, NEW x, x = Ideal[step + 1]
  PROVE  /\ file' \in [Files -> Seq(LogRecord)]
         /\ lost' \in Nat
         /\ damaged' \in [twice : Nat, field : Nat]
         /\ damaged'.field >= damaged.field
         /\ \/ lost' = lost + 1 /\ file' = file
            \/ lost' = lost /\ \E c \in Copies(x) : AddedOne(c) /\ (c = x \/ damaged'.field > 0)
<1>1. step + 1 \in 1..Len(Ideal)
  BY DEF Scenario, RecordsTypeOK
<1>2. Copies(x) \subseteq LogRecord /\ x \in Copies(x)
  <2>1. x \in Copies(x)
    BY DEF Copies
  <2> QED BY <1>1, <2>1 DEF LogRecord
<1>3. Written(x)
  BY DEF Scenario
<1>4. lost \in Nat /\ damaged \in [twice : Nat, field : Nat] /\ file \in [Files -> Seq(LogRecord)]
  BY DEF RecordsTypeOK
<1>5. CASE Kept(<<x>>) /\ UNCHANGED <<lost, damaged>>
  <2>1. file' \in [Files -> Seq(LogRecord)] /\ AddedOne(x)
    BY <1>2, <1>5, KeptOne
  <2> QED BY <2>1, <1>2, <1>4, <1>5
<1>6. CASE lost' = lost + 1 /\ UNCHANGED <<file, damaged>>
  BY <1>4, <1>6
<1>7. CASE Kept(<<x, x>>) /\ damaged' = [damaged EXCEPT !.twice = @ + 1] /\ UNCHANGED lost
  <2>1. file' \in [Files -> Seq(LogRecord)] /\ AddedOne(x)
    BY <1>2, <1>7, KeptOne
  <2>2. damaged' \in [twice : Nat, field : Nat] /\ damaged'.field = damaged.field
    BY <1>4, <1>7
  <2> QED BY <2>1, <2>2, <1>2, <1>4, <1>7
<1>8. CASE /\ \E f \in DOMAIN x \ {"kind"} : Kept(<<[x EXCEPT ![f] = None]>>)
           /\ damaged' = [damaged EXCEPT !.field = @ + 1]
           /\ UNCHANGED lost
  <2>1. PICK f \in DOMAIN x \ {"kind"} : Kept(<<[x EXCEPT ![f] = None]>>)
    BY <1>8
  <2> DEFINE c == [x EXCEPT ![f] = None]
  <2>2. c \in Copies(x)
    BY DEF Copies
  <2>3. Kept(<<c>>)
    BY <2>1
  <2> HIDE DEF c
  <2>4. file' \in [Files -> Seq(LogRecord)] /\ AddedOne(c)
    BY <1>2, <2>2, <2>3, KeptOne
  <2>5. damaged' \in [twice : Nat, field : Nat] /\ damaged'.field = damaged.field + 1
        /\ damaged.field \in Nat
    BY <1>4, <1>8
  <2> QED BY <2>2, <2>4, <2>5, <1>4, <1>8
<1> QED
  BY <1>3, <1>5, <1>6, <1>7, <1>8 DEF Written

(* The deviations of each scenario.                                           *)
LEMMA DeviationsFromRecord ==
  ASSUME NEW r, r.kind \notin {"admit", "superseded", "rebind", "snapshot", "restore", "expire"},
         NEW rs \in Deviations(r)
  PROVE  rs = <<>> \/ rs = <<[f \in DOMAIN r |-> IF f = "kind" THEN r.kind ELSE "other"]>>
  BY DEF Deviations

(* Nobody, somebody of another type, or one entity too many.                  *)
LEMMA DeviationsFromAdmission ==
  ASSUME NEW i, NEW rs \in Deviations(Admitted(i))
  PROVE  \/ rs = <<>>
         \/ \E t \in {"world", "player", "bot"} \ {Admitted(i).type} :
              rs = <<[Admitted(i) EXCEPT !.type = t]>>
         \/ rs = <<Admitted(i), [Admitted(i) EXCEPT !.id = Bots + 3]>>
<1> DEFINE r == Admitted(i)
<1>1. r.kind = "admit"
  BY DEF Admitted
<1>2. rs \in {<<>>} \cup
        ({<<[r EXCEPT !.type = "world"]>>, <<[r EXCEPT !.type = "bot"]>>,
          <<[r EXCEPT !.type = "player"]>>, <<r, [r EXCEPT !.id = Bots + 3]>>} \ {<<r>>})
  <2> HIDE DEF r
  <2> QED BY <1>1 DEF Deviations, r
<1>3. [r EXCEPT !.type = r.type] = r
  BY DEF Admitted
<1> QED
  BY <1>2, <1>3

OtherConnection == [SupersededRecord EXCEPT !.connection = "other"]
OtherIdentity == [RebindRecord EXCEPT !.next = Bots + 3]
KeptHistory == [SnapshotRecord EXCEPT !.history = 1]
KeptWindow == [RestoreRecord EXCEPT !.window = 1]
SameProcess == [RestoreRecord EXCEPT !.pid = 1]
NotTombstoned == [ExpireRecord EXCEPT !.tombstoned = FALSE]
SameId == [ExpireRecord EXCEPT !.b = 1]

(* What may happen instead of the records of scenarios 7 to 9.                *)
LEMMA DeviationsFromLater ==
  /\ \A rs \in Deviations(SupersededRecord) : rs = <<>> \/ rs = <<OtherConnection>>
  /\ \A rs \in Deviations(RebindRecord) : rs = <<>> \/ rs = <<OtherIdentity>>
  /\ \A rs \in Deviations(SnapshotRecord) : rs = <<>> \/ rs = <<KeptHistory>>
  /\ \A rs \in Deviations(RestoreRecord) : rs = <<>> \/ rs = <<KeptWindow>> \/ rs = <<SameProcess>>
  /\ \A rs \in Deviations(ExpireRecord) : rs = <<>> \/ rs = <<NotTombstoned>> \/ rs = <<SameId>>
<1>1. ExpireRecord.a = 1
  BY DEF ExpireRecord
<1> QED
  BY <1>1, IdealKinds
     DEF Deviations, OtherConnection, OtherIdentity, KeptHistory, KeptWindow, SameProcess,
         NotTombstoned, SameId

(* Whatever the kind, a deviation leaves at most two records of that kind.    *)
LEMMA DeviationShape ==
  ASSUME NEW j \in 1..Len(Ideal), NEW rs \in Deviations(Ideal[j])
  PROVE  \/ rs = <<>>
         \/ \E y : rs = <<y>> /\ y.kind = Ideal[j].kind
         \/ \E y, z : rs = <<y, z>> /\ y.kind = Ideal[j].kind /\ z.kind = Ideal[j].kind
                       /\ Ideal[j].kind = "admit"
<1>1. CASE \E i \in 1..(Bots + 1) : j = i + 2 /\ Ideal[j] = Admitted(i)
  <2>1. PICK i \in 1..(Bots + 1) : Ideal[j] = Admitted(i)
    BY <1>1
  <2>2. \A t : [Admitted(i) EXCEPT !.type = t].kind = "admit"
    BY DEF Admitted
  <2>3. [Admitted(i) EXCEPT !.id = Bots + 3].kind = "admit"
    BY DEF Admitted
  <2>4. /\ Admitted(i).kind = "admit" /\ Ideal[j].kind = "admit" /\ rs \in Deviations(Admitted(i))
    BY <2>1, IdealKinds
  <2>5. CASE rs = <<Admitted(i), [Admitted(i) EXCEPT !.id = Bots + 3]>>
    BY <2>3, <2>4, <2>5
  <2>6. CASE \E t : rs = <<[Admitted(i) EXCEPT !.type = t]>>
    BY <2>2, <2>4, <2>6
  <2> QED BY <2>4, <2>5, <2>6, DeviationsFromAdmission
<1>2. CASE Ideal[j] \in {SupersededRecord, RebindRecord, SnapshotRecord, RestoreRecord, ExpireRecord}
  <2>1. /\ OtherConnection.kind = "superseded" /\ OtherIdentity.kind = "rebind"
        /\ KeptHistory.kind = "snapshot" /\ KeptWindow.kind = "restore"
        /\ SameProcess.kind = "restore" /\ NotTombstoned.kind = "expire"
        /\ SameId.kind = "expire"
    BY DEF SupersededRecord, RebindRecord, SnapshotRecord, RestoreRecord, ExpireRecord,
           OtherConnection, OtherIdentity, KeptHistory, KeptWindow, SameProcess, NotTombstoned,
           SameId
  <2>2. CASE Ideal[j] = SupersededRecord
    BY <2>1, <2>2, IdealKinds, DeviationsFromLater
  <2>3. CASE Ideal[j] = RebindRecord
    BY <2>1, <2>3, IdealKinds, DeviationsFromLater
  <2>4. CASE Ideal[j] = SnapshotRecord
    BY <2>1, <2>4, IdealKinds, DeviationsFromLater
  <2>5. CASE Ideal[j] = RestoreRecord
    BY <2>1, <2>5, IdealKinds, DeviationsFromLater
  <2>6. CASE Ideal[j] = ExpireRecord
    BY <2>1, <2>6, IdealKinds, DeviationsFromLater
  <2> QED BY <1>2, <2>2, <2>3, <2>4, <2>5, <2>6
<1>3. CASE \/ \E o : Ideal[j] = Query(o)
           \/ Ideal[j] \in {HostRecord, AccountRecord, TickRecord, DeferredRecord}
  <2>1. "kind" \in DOMAIN Ideal[j]
    <3>1. /\ "kind" \in DOMAIN HostRecord /\ "kind" \in DOMAIN AccountRecord
          /\ "kind" \in DOMAIN TickRecord /\ "kind" \in DOMAIN DeferredRecord
      BY DEF HostRecord, AccountRecord, TickRecord, DeferredRecord
    <3>2. \A o : "kind" \in DOMAIN Query(o)
      BY DEF Query
    <3> QED BY <1>3, <3>1, <3>2
  <2>2. [f \in DOMAIN Ideal[j] |-> IF f = "kind" THEN Ideal[j].kind ELSE "other"].kind = Ideal[j].kind
    BY <2>1
  <2>3. Ideal[j].kind \notin {"admit", "superseded", "rebind", "snapshot", "restore", "expire"}
    BY <1>3, IdealKinds
  <2> QED BY <2>2, <2>3, DeviationsFromRecord
<1> QED
  BY <1>1, <1>2, <1>3, IdealCases

(* Whatever a scenario leaves is a log record.                                *)
LEMMA Logged ==
  ASSUME NEW j \in 1..Len(Ideal)
  PROVE  /\ Copies(Ideal[j]) \subseteq LogRecord
         /\ Ideal[j] \in LogRecord
         /\ \A rs \in Deviations(Ideal[j]) : Range(rs) \subseteq LogRecord
<1>1. Ideal[j] \in Copies(Ideal[j])
  BY DEF Copies
<1>2. Copies(Ideal[j]) \subseteq LogRecord
  BY DEF LogRecord
<1>3. ASSUME NEW rs \in Deviations(Ideal[j]), NEW y \in Range(rs) PROVE y \in LogRecord
  <2>1. y \in Deviant(Ideal[j])
    BY <1>3 DEF Deviant
  <2> QED BY <2>1 DEF LogRecord
<1> QED BY <1>1, <1>2, <1>3

(* A deviation: what it leaves, once, in one file.                            *)
LEMMA DeviationWrites ==
  ASSUME RecordsTypeOK, Deviate
  PROVE  \E rs \in Deviations(Ideal[step + 1]) :
           /\ happened' = happened \o rs
           /\ rs \in Seq(LogRecord)
           /\ file' \in [Files -> Seq(LogRecord)]
           /\ Added(rs)
<1>1. step + 1 \in 1..Len(Ideal)
  BY DEF Deviate, RecordsTypeOK
<1>2. PICK rs \in Deviations(Ideal[step + 1]) : happened' = happened \o rs /\ Kept(rs)
  BY DEF Deviate
<1>3. Range(rs) \subseteq LogRecord
  BY <1>1, Logged
<1>4. rs \in Seq(LogRecord)
  <2>1. CASE rs = <<>>
    BY <2>1
  <2>2. CASE \E y : rs = <<y>>
    <3>1. PICK y : rs = <<y>>
      BY <2>2
    <3>2. y \in Range(<<y>>)
      BY DEF Range
    <3> QED BY <1>3, <3>1, <3>2
  <2>3. CASE \E y, z : rs = <<y, z>>
    <3>1. PICK y, z : rs = <<y, z>>
      BY <2>3
    <3>2. y \in Range(<<y, z>>) /\ z \in Range(<<y, z>>)
      BY DEF Range
    <3> QED BY <1>3, <3>1, <3>2
  <2> QED BY <1>1, <2>1, <2>2, <2>3, DeviationShape
<1>5. file' \in [Files -> Seq(LogRecord)] /\ Added(rs)
  BY <1>2, <1>4, KeptIsAdded
<1> QED
  BY <1>2, <1>4, <1>5

(* Append adds one record.                                                    *)
LEMMA RangeOfAppend ==
  ASSUME NEW S, NEW s \in Seq(S), NEW e \in S
  PROVE  Append(s, e) \in Seq(S) /\ Range(Append(s, e)) = Range(s) \cup {e}
<1> DEFINE t == <<e>>
<1>1. t \in Seq(S) /\ Range(t) = {e}
  BY OneOrTwo
<1>2. Append(s, e) = s \o t /\ Append(s, e) \in Seq(S)
  BY AppendIsConcat, AppendProperties
<1> HIDE DEF t
<1>3. Range(s \o t) = Range(s) \cup Range(t)
  BY <1>1, RangeConcatenation
<1> QED BY <1>1, <1>2, <1>3

(* Process B's snapshot goes into its own file.                               *)
LEMMA ResnapWrites ==
  ASSUME RecordsTypeOK, Resnap
  PROVE  /\ file' \in [Files -> Seq(LogRecord)]
         /\ \A f \in Files : Range(file'[f]) = IF f = "B" THEN Range(file[f]) \cup {Own}
                                                ELSE Range(file[f])
<1>1. Own \in LogRecord
  BY DEF LogRecord
<1> DEFINE s == file["B"]
<1>2. s \in Seq(LogRecord)
  BY DEF RecordsTypeOK, Files
<1>3. file' = [file EXCEPT !["B"] = Append(s, Own)]
  BY DEF Resnap, Own
<1> HIDE DEF s
<1>4. Append(s, Own) \in Seq(LogRecord) /\ Range(Append(s, Own)) = Range(s) \cup {Own}
  BY <1>1, <1>2, RangeOfAppend
<1> DEFINE joined == Append(s, Own)
<1>7. joined \in Seq(LogRecord) /\ Range(joined) = Range(s) \cup {Own}
      /\ file' = [file EXCEPT !["B"] = joined]
  BY <1>3, <1>4
<1> HIDE DEF joined
<1>8. file' \in [Files -> Seq(LogRecord)]
  BY <1>7 DEF RecordsTypeOK
<1>9. \A f \in Files : file'[f] = IF f = "B" THEN joined ELSE file[f]
  BY <1>7 DEF RecordsTypeOK
<1> QED
  BY <1>7, <1>8, <1>9 DEF s

(* The types hold before the first scenario.                                  *)
LEMMA RecordsTypeInit == RecordsInit => RecordsTypeOK
<1>1. Len(Ideal) \in Nat
  BY IdealAt, BotsAssumption
<1> SUFFICES ASSUME RecordsInit PROVE RecordsTypeOK
  OBVIOUS
<1>2. <<>> \in Seq(LogRecord)
  OBVIOUS
<1>3. file \in [Files -> Seq(LogRecord)] /\ happened \in Seq(LogRecord)
  BY <1>2 DEF RecordsInit, Files
<1>4. damaged \in [twice : Nat, field : Nat]
  BY DEF RecordsInit
<1>5. step \in 0..Len(Ideal)
  BY <1>1 DEF RecordsInit
<1> QED
  BY <1>3, <1>4, <1>5 DEF RecordsInit, RecordsTypeOK

(* Every scenario, deviation and snapshot keeps the types.                    *)
LEMMA RecordsTypeStep == RecordsTypeOK /\ RecordsStep => RecordsTypeOK'
<1> SUFFICES ASSUME RecordsTypeOK, RecordsStep PROVE RecordsTypeOK'
  OBVIOUS
<1>0. Len(Ideal) \in Nat
  BY IdealAt, BotsAssumption
<1>1. CASE Scenario
  <2>1. step + 1 \in 1..Len(Ideal) /\ step' = step + 1
    BY <1>1 DEF Scenario, RecordsTypeOK
  <2>2. Ideal[step + 1] \in LogRecord
    BY <2>1, Logged
  <2>3. happened' \in Seq(LogRecord)
    BY <1>1, <2>2, AppendProperties DEF Scenario, RecordsTypeOK
  <2>4. /\ file' \in [Files -> Seq(LogRecord)]
        /\ lost' \in Nat
        /\ damaged' \in [twice : Nat, field : Nat]
    BY <1>1, ScenarioWrites
  <2>5. UNCHANGED <<first, resnap, wrong>>
    BY <1>1 DEF Scenario
  <2>6. step' \in 0..Len(Ideal)
    BY <2>1, <1>0
  <2> QED BY ONLY RecordsTypeOK, <2>3, <2>4, <2>5, <2>6 DEF RecordsTypeOK
<1>2. CASE Deviate
  <2>1. step' \in 0..Len(Ideal) /\ wrong' \in Nat /\ UNCHANGED <<first, resnap, lost, damaged>>
    BY <1>0, <1>2 DEF Deviate, RecordsTypeOK
  <2>2. PICK rs \in Deviations(Ideal[step + 1]) :
           /\ happened' = happened \o rs
           /\ rs \in Seq(LogRecord)
           /\ file' \in [Files -> Seq(LogRecord)]
    BY <1>2, DeviationWrites
  <2>3. happened' \in Seq(LogRecord)
    BY <2>2, ConcatProperties DEF RecordsTypeOK
  <2>4. file' \in [Files -> Seq(LogRecord)]
    BY <2>2
  <2> QED BY ONLY RecordsTypeOK, <2>1, <2>3, <2>4 DEF RecordsTypeOK
<1>3. CASE Resnap
  <2>1. UNCHANGED <<step, first, happened, wrong, lost, damaged>> /\ resnap' = TRUE
    BY <1>3 DEF Resnap
  <2>2. file' \in [Files -> Seq(LogRecord)]
    BY <1>3, ResnapWrites
  <2> QED BY ONLY RecordsTypeOK, <2>1, <2>2 DEF RecordsTypeOK
<1>4. CASE UNCHANGED recordVars
  BY <1>4 DEF recordVars, RecordsTypeOK
<1> QED
  BY <1>1, <1>2, <1>3, <1>4 DEF RecordsStep, RecordsNext
-----------------------------------------------------------------------------
(* What the oracle reads *)

Recorded == Range(file["A"]) \cup Range(file["B"]) \cup Range(file["client"])

(* The order of the server's files does not matter to what is read.           *)
LEMMA ReadAsSets ==
  ASSUME RecordsTypeOK
  PROVE  /\ Server \in Seq(LogRecord)
         /\ Range(Server) = Range(file["A"]) \cup Range(file["B"])
         /\ Server \o Client \in Seq(LogRecord)
         /\ Range(Server \o Client) = Recorded
<1> DEFINE a == file["A"]
           b == file["B"]
           c == file["client"]
<1>1. a \in Seq(LogRecord) /\ b \in Seq(LogRecord) /\ c \in Seq(LogRecord)
  BY DEF RecordsTypeOK, Files
<1>2. (Server = a \o b \/ Server = b \o a) /\ Client = c
  BY DEF Server, Client
<1>3. Recorded = (Range(a) \cup Range(b)) \cup Range(c)
  BY DEF Recorded
<1> HIDE DEF a, b, c
<1>4. /\ a \o b \in Seq(LogRecord) /\ b \o a \in Seq(LogRecord)
      /\ Range(a \o b) = Range(a) \cup Range(b)
      /\ Range(b \o a) = Range(b) \cup Range(a)
  BY <1>1, ConcatProperties, RangeConcatenation
<1>5. Server \in Seq(LogRecord) /\ Range(Server) = Range(a) \cup Range(b)
  BY <1>2, <1>4
<1>6. Server \o c \in Seq(LogRecord) /\ Range(Server \o c) = Range(Server) \cup Range(c)
  BY <1>1, <1>5, ConcatProperties, RangeConcatenation
<1> QED
  BY <1>2, <1>3, <1>5, <1>6 DEF a, b

(* findKind returns a record of that kind, and one if there is any.           *)
LEMMA FindIsRecorded ==
  ASSUME RecordsTypeOK, NEW k, NEW r \in Find(k)
  PROVE  r \in Recorded /\ r.kind = k
<1>1. r \in Range(Server \o Client) /\ r.kind = k
  BY DEF Find, OfKind, Range
<1> QED
  BY <1>1, ReadAsSets

(* A kind that was recorded is found.                                         *)
LEMMA FindFinds ==
  ASSUME RecordsTypeOK, NEW r \in Recorded
  PROVE  Find(r.kind) # {}
<1> DEFINE s == Server \o Client
           all == OfKind(s, r.kind)
<1>1. s \in Seq(LogRecord) /\ r \in Range(s)
  BY ReadAsSets
<1>2. PICK i \in DOMAIN s : s[i] = r
  BY <1>1 DEF Range
<1>3. all \subseteq Nat /\ i \in all
  <2>1. DOMAIN s \subseteq Nat
    BY <1>1, LenProperties
  <2> QED BY <1>2, <2>1 DEF OfKind
<1>4. PICK n \in all : \A m \in all : n <= m
  <2> HIDE DEF all
  <2> QED BY <1>3, LeastElement
<1>5. s[n] \in Find(r.kind)
  <2> HIDE DEF s
  <2> QED BY <1>4 DEF Find, s
<1> QED
  BY <1>5

(* The ids that censusFromServerLogs counts.                                  *)
Counted(type) ==
  LET counted == {i \in OfKind(Server, "admit") :
                    Canonical(Server[i].id) /\ Server[i].type \in {"player", "bot"}}
      last == {i \in counted : \A j \in counted : Server[j].id = Server[i].id => j <= i}
  IN {Server[i].id : i \in {j \in last : Server[j].type = type}}

(* The census is the number of these ids.                                     *)
LEMMA CensusCounts == \A type : Census(type) = Cardinality(Counted(type))
  BY DEF Census, Counted

(* An id that counts was recorded with that type.                             *)
LEMMA CountedIsRecorded ==
  ASSUME RecordsTypeOK, NEW type, NEW id \in Counted(type)
  PROVE  \E r \in Range(Server) : r.kind = "admit" /\ r.id = id /\ r.type = type
  BY DEF Counted, OfKind, Range

(* One number less.                                                           *)
LEMMA OneLess ==
  ASSUME NEW n \in Nat, NEW k \in 1..n, NEW T, T \subseteq (1..n) \ {k}
  PROVE  Cardinality(T) # n
<1>1. IsFiniteSet(1..n) /\ Cardinality(1..n) = n
  BY FS_Interval
<1>2. T \subseteq 1..n /\ T # 1..n
  OBVIOUS
<1>3. Cardinality(1..n) = Cardinality(T) => 1..n = T
  BY <1>1, <1>2, FS_Subset
<1> QED
  BY <1>1, <1>2, <1>3
-----------------------------------------------------------------------------
(* A record that is missing is noticed *)

(* A faulty copy keeps the kind, and every field is its own or missing.       *)
LEMMA CopyFacts ==
  /\ \A j \in 1..Len(Ideal) : \A c \in Copies(Ideal[j]) : c.kind = Ideal[j].kind
  /\ \A o : \A c \in Copies(Query(o)) : c.outcome \in {o, None}
  /\ \A c \in Copies(RestoreRecord) : c.pid \in {2, None}
  /\ \A i : \A c \in Copies(Admitted(i)) : c.id # None /\ c.type # None => c = Admitted(i)
<1>1. ASSUME NEW j \in 1..Len(Ideal), NEW c \in Copies(Ideal[j]) PROVE c.kind = Ideal[j].kind
  <2>1. /\ "kind" \in DOMAIN HostRecord /\ "kind" \in DOMAIN AccountRecord
        /\ "kind" \in DOMAIN TickRecord /\ "kind" \in DOMAIN DeferredRecord
        /\ "kind" \in DOMAIN SupersededRecord /\ "kind" \in DOMAIN RebindRecord
        /\ "kind" \in DOMAIN SnapshotRecord /\ "kind" \in DOMAIN RestoreRecord
        /\ "kind" \in DOMAIN ExpireRecord
    BY DEF HostRecord, AccountRecord, TickRecord, DeferredRecord, SupersededRecord, RebindRecord,
           SnapshotRecord, RestoreRecord, ExpireRecord
  <2>2. \A o : "kind" \in DOMAIN Query(o)
    BY DEF Query
  <2>3. \A i : "kind" \in DOMAIN Admitted(i)
    BY DEF Admitted
  <2>4. "kind" \in DOMAIN Ideal[j]
    BY <2>1, <2>2, <2>3, IdealCases
  <2> QED BY <1>1, <2>4 DEF Copies
<1>2. ASSUME NEW o, NEW c \in Copies(Query(o)) PROVE c.outcome \in {o, None}
  BY <1>2 DEF Copies, Query
<1>3. ASSUME NEW c \in Copies(RestoreRecord) PROVE c.pid \in {2, None}
  BY <1>3 DEF Copies, RestoreRecord
<1>4. ASSUME NEW i, NEW c \in Copies(Admitted(i)), c.id # None, c.type # None
      PROVE  c = Admitted(i)
  BY <1>4 DEF Copies, Admitted
<1> QED BY <1>1, <1>2, <1>3, <1>4

(* Every record was left by one of the scenarios J or is process B's own.     *)
StemsFrom(J) == \A x \in Recorded : x = Own \/ \E j \in J : x \in Copies(Ideal[j])

LossInv ==
  wrong = 0 =>
    /\ StemsFrom(1..step)
    /\ lost > 0 => \E k \in 1..step : StemsFrom((1..step) \ {k})

(* Nothing is recorded before the first scenario.                             *)
LEMMA LossInvInit == RecordsInit => LossInv
  BY DEF RecordsInit, LossInv, StemsFrom, Recorded, Range

(* A record that is written is one more in the logs.                          *)
LEMMA RecordedGrows ==
  ASSUME NEW r, AddedOne(r)
  PROVE  Recorded' = Recorded \cup {r}
<1>1. FileOf(r) = "A" \/ FileOf(r) = "B" \/ FileOf(r) = "client"
  BY DEF FileOf
<1> QED
  BY <1>1 DEF AddedOne, Recorded, Files

(* A lost record has a scenario that left nothing.                            *)
LEMMA LossInvStep == RecordsTypeOK /\ LossInv /\ RecordsStep => LossInv'
<1> SUFFICES ASSUME RecordsTypeOK, LossInv, RecordsStep, wrong' = 0
             PROVE  /\ StemsFrom(1..step)'
                    /\ lost' > 0 => \E k \in (1..step)' : StemsFrom((1..step) \ {k})'
  BY DEF LossInv
<1>0. step \in Nat /\ lost \in Nat /\ wrong \in Nat
  BY IdealAt, BotsAssumption DEF RecordsTypeOK
<1>1. CASE Scenario
  <2> DEFINE n == step + 1
  <2>1. wrong = 0 /\ step' = n
    BY <1>1 DEF Scenario
  <2>2. StemsFrom(1..step) /\ (lost > 0 => \E k \in 1..step : StemsFrom((1..step) \ {k}))
    BY <2>1 DEF LossInv
  <2>3. \/ lost' = lost + 1 /\ file' = file
        \/ lost' = lost /\ \E c \in Copies(Ideal[n]) : AddedOne(c)
    BY <1>1, ScenarioWrites
  <2>4. 1..n = (1..step) \cup {n} /\ n \notin 1..step
    BY <1>0
  <2> HIDE DEF n
  <2>5. CASE lost' = lost + 1 /\ file' = file
    <3>1. Recorded' = Recorded
      BY <2>5 DEF Recorded
    <3>2. \A x \in Recorded' : x = Own \/ \E j \in (1..n) \ {n} : x \in Copies(Ideal[j])
      BY <2>2, <2>4, <3>1 DEF StemsFrom
    <3> QED BY <2>1, <2>4, <3>2 DEF StemsFrom
  <2>6. CASE lost' = lost /\ \E c \in Copies(Ideal[n]) : AddedOne(c)
    <3>1. PICK c \in Copies(Ideal[n]) : AddedOne(c)
      BY <2>6
    <3>2. Recorded' = Recorded \cup {c}
      BY <3>1, RecordedGrows
    <3>3. ASSUME NEW J, StemsFrom(J)
          PROVE  \A x \in Recorded' : x = Own \/ \E j \in J \cup {n} : x \in Copies(Ideal[j])
      BY <3>1, <3>2, <3>3 DEF StemsFrom
    <3>4. \A k \in 1..step : ((1..step) \ {k}) \cup {n} = (1..n) \ {k}
      BY <2>4
    <3>5. StemsFrom(1..step)'
      BY <2>1, <2>2, <2>4, <3>3 DEF StemsFrom
    <3>6. ASSUME NEW k \in 1..step, StemsFrom((1..step) \ {k})
          PROVE  k \in (1..step)' /\ StemsFrom((1..step) \ {k})'
      <4>1. \A x \in Recorded' : x = Own \/ \E j \in (1..n) \ {k} : x \in Copies(Ideal[j])
        BY <3>3, <3>4, <3>6
      <4> QED BY <2>1, <2>4, <4>1 DEF StemsFrom
    <3> QED BY <2>2, <2>6, <3>5, <3>6
  <2> QED BY <2>3, <2>5, <2>6
<1>2. CASE Deviate
  BY <1>0, <1>2 DEF Deviate
<1>3. CASE Resnap
  <2>1. wrong = 0 /\ step' = step /\ lost' = lost
    BY <1>3 DEF Resnap
  <2>2. Recorded' = Recorded \cup {Own}
    BY <1>3, ResnapWrites DEF Recorded, Files
  <2>3. \A J : StemsFrom(J) => \A x \in Recorded' : x = Own \/ \E j \in J : x \in Copies(Ideal[j])
    BY <2>2 DEF StemsFrom
  <2> QED BY <2>1, <2>3 DEF LossInv, StemsFrom
<1>4. CASE UNCHANGED recordVars
  BY <1>4 DEF recordVars, LossInv, StemsFrom, Recorded
<1> QED
  BY <1>1, <1>2, <1>3, <1>4 DEF RecordsStep, RecordsNext

(* What the accepting oracle saw: an unspoiled record of every scenario.      *)
LEMMA MissingIsRefused ==
  ASSUME RecordsTypeOK, NEW k \in 1..Len(Ideal), StemsFrom((1..Len(Ideal)) \ {k})
  PROVE  ~Accepted
<1> SUFFICES ASSUME Accepted PROVE FALSE
  OBVIOUS
<1>0. Own.kind = "snapshot" /\ Own.pid = 2
  BY DEF Own
<1>1. ASSUME NEW x \in Recorded, x.kind # "snapshot"
      PROVE  \E j \in (1..Len(Ideal)) \ {k} : x \in Copies(Ideal[j]) /\ Ideal[j].kind = x.kind
  BY <1>0, <1>1, CopyFacts DEF StemsFrom
<1>2. ASSUME Ideal[k].kind \notin {"admit", "query", "snapshot"}
      PROVE  Find(Ideal[k].kind) = {}
  <2> SUFFICES ASSUME NEW x \in Find(Ideal[k].kind) PROVE FALSE
    OBVIOUS
  <2>1. x \in Recorded /\ x.kind = Ideal[k].kind
    BY FindIsRecorded
  <2>2. PICK j \in (1..Len(Ideal)) \ {k} : Ideal[j].kind = Ideal[k].kind
    BY <1>1, <1>2, <2>1
  <2> QED BY <1>2, <2>2, OneOfAKind
<1>3. CASE Ideal[k].kind \notin {"admit", "query", "snapshot"}
  <2>1. Ideal[k].kind \in {"host", "account", "tick", "superseded", "rebind", "restore", "expire",
                           "deferred"}
    BY <1>3, KindsOfIdeal DEF Kinds
  <2>2. Find(Ideal[k].kind) # {}
    BY <2>1 DEF Accepted, HostOk, AccountOk, TickOk, SnapshotOk, RebindOk, ExpiryOk, DeferredOk
  <2> QED BY <1>2, <1>3, <2>2
<1>4. CASE Ideal[k].kind = "snapshot"
  <2>1. Ideal[k] = SnapshotRecord
    BY <1>4, IdealCases, IdealKinds
  <2>2. PICK s \in Find("snapshot"), r \in Find("restore") : CrossProcess(s, r)
    BY DEF Accepted, SnapshotOk
  <2>3. s = Own
    <3>1. s \in Recorded /\ s.kind = "snapshot"
      BY FindIsRecorded
    <3>2. ASSUME NEW j \in (1..Len(Ideal)) \ {k}, s \in Copies(Ideal[j]) PROVE FALSE
      <4>1. Ideal[j].kind = Ideal[k].kind
        BY <1>4, <3>1, <3>2, CopyFacts
      <4> QED BY <1>4, <4>1, OneOfAKind
    <3> QED BY <3>1, <3>2 DEF StemsFrom
  <2>4. r.pid \in {2, None}
    <3>1. r \in Recorded /\ r.kind = "restore"
      BY FindIsRecorded
    <3>2. PICK j \in (1..Len(Ideal)) \ {k} : r \in Copies(Ideal[j]) /\ Ideal[j].kind = "restore"
      BY <1>1, <3>1
    <3>3. Ideal[j] = RestoreRecord
      BY <3>2, IdealCases, IdealKinds
    <3> QED BY <3>2, <3>3, CopyFacts
  <2> QED BY <1>0, <2>2, <2>3, <2>4 DEF CrossProcess
<1>5. CASE Ideal[k].kind = "query"
  <2>1. PICK o \in {"unauthorized", "invisible", "stale"} : Ideal[k] = Query(o)
    BY <1>5, IdealCases, IdealKinds
  <2>2. PICK x \in Range(Server \o Client) : x.kind = "query" /\ x.outcome = o
    BY DEF Accepted, QueriesOk, Outcomes, OfKind, Range
  <2>3. x \in Recorded
    BY <2>2, ReadAsSets
  <2>4. PICK j \in (1..Len(Ideal)) \ {k} : x \in Copies(Ideal[j]) /\ Ideal[j].kind = "query"
    BY <1>1, <2>2, <2>3
  <2>5. PICK p \in {"unauthorized", "invisible", "stale"} : Ideal[j] = Query(p)
    BY <2>4, IdealCases, IdealKinds
  <2>6. x.outcome \in {p, None}
    BY <2>4, <2>5, CopyFacts
  <2>7. o = p
    <3>1. o # None
      BY NoneAssumption
    <3> QED BY <2>2, <2>6, <3>1
  <2> QED BY <2>1, <2>4, <2>5, <2>7, IdealIsInjective
<1>6. CASE Ideal[k].kind = "admit"
  <2>0. Bots \in Nat
    BY BotsAssumption
  <2>1. PICK i \in 1..(Bots + 1) : Ideal[k] = Admitted(i)
    BY <1>6, IdealCases, IdealKinds
  <2>2. ASSUME NEW x \in Range(Server), x.kind = "admit"
        PROVE  \E h \in (1..(Bots + 1)) \ {i} : x = Admitted(h)
    <3>1. x \in Recorded
      BY ReadAsSets DEF Recorded
    <3>2. x.id # None /\ x.type # None
      <4>1. Canonical(x.id) /\ x.type \in {"world", "player", "bot"}
        BY <2>2 DEF Accepted, EntityRecordsOk, OfKind, Range
      <4> QED BY <4>1, NoneAssumption DEF Canonical
    <3>3. PICK j \in (1..Len(Ideal)) \ {k} : x \in Copies(Ideal[j]) /\ Ideal[j].kind = "admit"
      BY <1>1, <2>2, <3>1
    <3>4. PICK h \in 1..(Bots + 1) : Ideal[j] = Admitted(h)
      BY <3>3, IdealCases, IdealKinds
    <3>5. x = Admitted(h)
      BY <3>2, <3>3, <3>4, CopyFacts
    <3>6. h # i
      BY <2>1, <3>3, <3>4, IdealIsInjective
    <3> QED BY <3>5, <3>6
  <2>3. \A type, id : id \in Counted(type) =>
          id \in (1..(Bots + 1)) \ {i} /\ type = (IF id <= Bots THEN "bot" ELSE "player")
    <3> TAKE type, id
    <3> HAVE id \in Counted(type)
    <3>1. PICK x \in Range(Server) : x.kind = "admit" /\ x.id = id /\ x.type = type
      BY CountedIsRecorded
    <3>2. PICK h \in (1..(Bots + 1)) \ {i} : x = Admitted(h)
      BY <2>2, <3>1
    <3> QED BY <3>1, <3>2 DEF Admitted
  <2>4. Cardinality(Counted("bot")) = Bots /\ Cardinality(Counted("player")) = 1
    BY CensusCounts DEF Accepted, CensusOk
  <2>5. CASE i <= Bots
    <3>1. Counted("bot") \subseteq (1..Bots) \ {i} /\ i \in 1..Bots
      BY <2>0, <2>3, <2>5
    <3> QED BY <2>0, <2>4, <3>1, OneLess
  <2>6. CASE i = Bots + 1
    <3>1. Counted("player") = {}
      BY <2>0, <2>3, <2>6
    <3> QED BY <2>4, <3>1, FS_EmptySet
  <2> QED BY <2>0, <2>5, <2>6
<1> QED BY <1>3, <1>4, <1>5, <1>6

(* A run that broke off, or lost a record, misses a scenario.                 *)
LEMMA LossNoticed == RecordsTypeOK /\ LossInv => LossIsNoticed
<1> SUFFICES ASSUME RecordsTypeOK, LossInv, wrong = 0, step < Len(Ideal) \/ lost > 0
             PROVE  ~Accepted
  BY DEF LossIsNoticed
<1>0. step \in 0..Len(Ideal) /\ Len(Ideal) \in Nat
  BY IdealAt, BotsAssumption DEF RecordsTypeOK
<1>1. ASSUME NEW k \in 1..Len(Ideal), NEW J, StemsFrom(J), J \subseteq (1..Len(Ideal)) \ {k}
      PROVE  ~Accepted
  <2>1. StemsFrom((1..Len(Ideal)) \ {k})
    BY <1>1 DEF StemsFrom
  <2> QED BY <2>1, MissingIsRefused
<1>2. CASE step < Len(Ideal)
  <2>1. step + 1 \in 1..Len(Ideal) /\ 1..step \subseteq (1..Len(Ideal)) \ {step + 1}
    BY <1>0, <1>2
  <2> QED BY <1>1, <2>1 DEF LossInv
<1>3. CASE lost > 0
  <2>1. PICK k \in 1..step : StemsFrom((1..step) \ {k})
    BY <1>3 DEF LossInv
  <2>2. k \in 1..Len(Ideal) /\ (1..step) \ {k} \subseteq (1..Len(Ideal)) \ {k}
    BY <1>0
  <2> QED BY <1>1, <2>1, <2>2
<1> QED BY <1>2, <1>3
-----------------------------------------------------------------------------
(* A complete run is accepted *)

(* A bounded set of naturals that is not empty has a greatest element.        *)
LEMMA GreatestElement ==
  ASSUME NEW n \in Nat, NEW T, T \subseteq 0..n, T # {}
  PROVE  \E g \in T : \A m \in T : m <= g
<1> DEFINE U == {i \in 0..n : n - i \in T}
<1>1. PICK t \in T : TRUE
  OBVIOUS
<1>2. n - t \in U
  BY <1>1
<1>3. U \subseteq Nat /\ U # {}
  BY <1>2
<1>4. PICK u \in U : \A i \in U : u <= i
  <2> HIDE DEF U
  <2> QED BY <1>3, LeastElement
<1>5. n - u \in T
  BY <1>4
<1>6. ASSUME NEW m \in T PROVE m <= n - u
  <2>1. n - m \in U
    BY <1>6
  <2>2. u <= n - m
    BY <1>4, <2>1
  <2> QED BY <1>4, <2>2
<1> QED BY <1>5, <1>6

(* If no id has two types, an id counts under the type of its records.        *)
LEMMA CountedIfOneType ==
  ASSUME RecordsTypeOK, NEW r \in Range(Server), r.kind = "admit", r.id # None,
         r.type \in {"player", "bot"},
         \A x, y \in Range(Server) :
           x.kind = "admit" /\ y.kind = "admit" /\ x.id = y.id => x.type = y.type
  PROVE  r.id \in Counted(r.type)
<1> DEFINE s == Server
           counted == {i \in OfKind(s, "admit") : Canonical(s[i].id) /\ s[i].type \in {"player", "bot"}}
           T == {i \in counted : s[i].id = r.id}
<1>1. s \in Seq(LogRecord) /\ Len(s) \in Nat
  BY ReadAsSets, LenProperties
<1>2. PICK i \in DOMAIN s : s[i] = r
  BY DEF Range
<1>3. i \in T
  BY <1>2 DEF OfKind, Canonical
<1>4. T \subseteq 0..Len(s)
  <2>1. DOMAIN s = 1..Len(s)
    BY <1>1, LenProperties
  <2> QED BY <1>1, <2>1 DEF OfKind
<1>5. PICK g \in T : \A m \in T : m <= g
  <2> HIDE DEF T, s
  <2> QED BY <1>1, <1>3, <1>4, GreatestElement
<1>6. /\ g \in counted /\ s[g].id = r.id
      /\ \A j \in counted : s[j].id = s[g].id => j <= g
  BY <1>5
<1>7. s[g].type = r.type
  <2>1. s[g] \in Range(s) /\ s[g].kind = "admit"
    BY <1>6 DEF OfKind, Range
  <2> QED BY <1>6, <2>1
<1> QED
  BY <1>6, <1>7 DEF Counted

(* What is in front is found first.                                           *)
LEMMA FindInFront ==
  ASSUME RecordsTypeOK, NEW s \in Seq(LogRecord), NEW t \in Seq(LogRecord),
         Server \o Client = s \o t, NEW k, NEW r \in Range(s), r.kind = k, NEW x \in Find(k)
  PROVE  x \in Range(s)
<1> DEFINE u == s \o t
<1>1. Joined(s, t) /\ u \in Seq(LogRecord)
  BY ConcatAt
<1>2. PICK i \in DOMAIN u : x = u[i] /\ \A m \in DOMAIN u : u[m].kind = k => i <= m
  BY DEF Find, OfKind
<1>3. DOMAIN s = 1..Len(s) /\ Len(s) \in Nat /\ DOMAIN u = 1..Len(u) /\ Len(u) \in Nat
      /\ Len(t) \in Nat
  BY <1>1, LenProperties
<1>4. PICK m \in 1..Len(s) : s[m] = r
  BY <1>3 DEF Range
<1>5. m \in DOMAIN u /\ u[m] = r
  BY <1>1, <1>3, <1>4 DEF Joined
<1>6. i \in 1..Len(s)
  <2> HIDE DEF u
  <2>1. i <= m /\ i \in 1..Len(u)
    BY <1>2, <1>3, <1>4, <1>5
  <2> QED BY <1>3, <1>4, <2>1
<1>7. u[i] = s[i]
  BY <1>1, <1>6 DEF Joined
<1> QED
  BY <1>2, <1>3, <1>6, <1>7 DEF Range

(* What happened, as a set.                                                   *)
LEMMA DidIsRange == \A k : Did(k) = {x \in Range(happened) : x.kind = k}
  BY DEF Did, Range

CompleteInv ==
  wrong = 0 /\ lost = 0 /\ damaged.field = 0 =>
    /\ \A j \in 1..step : Ideal[j] \in Recorded
    /\ \A j \in 1..step : Ideal[j].kind # "tick" => Ideal[j] \in Range(file["A"]) \cup Range(file["B"])
    /\ \A x \in Recorded : x = Own \/ \E j \in 1..step : x = Ideal[j]
    /\ \A x \in Range(happened) : \E j \in 1..step : x = Ideal[j]
    /\ step >= Bots + 10 => SnapshotRecord \in Range(file["A"])
    /\ Own \notin Range(file["A"])
    /\ ~resnap => Own \notin Recorded

(* Nothing is recorded and nothing happened before the first scenario.        *)
LEMMA CompleteInvInit == RecordsInit => CompleteInv
<1>1. Range(<<>>) = {}
  BY DEF Range
<1> QED
  BY <1>1, BotsAssumption DEF RecordsInit, CompleteInv, Recorded

(* Process B's own snapshot is none of the run's.                             *)
LEMMA OwnIsNotIdeal == \A j \in 1..Len(Ideal) : Ideal[j] # Own
<1>1. Own.kind = "snapshot" /\ Own.pid = 2 /\ SnapshotRecord.pid = 1
  BY DEF Own, SnapshotRecord
<1> QED
  BY <1>1, IdealCases, IdealKinds

(* A run without deviation, loss or missing field logs what it should.        *)
LEMMA CompleteInvStep == RecordsTypeOK /\ CompleteInv /\ RecordsStep => CompleteInv'
<1> SUFFICES ASSUME RecordsTypeOK, CompleteInv, RecordsStep, wrong' = 0, lost' = 0, damaged'.field = 0
             PROVE  /\ \A j \in 1..step' : Ideal[j] \in Recorded'
                    /\ \A j \in 1..step' : Ideal[j].kind # "tick" =>
                         Ideal[j] \in Range(file'["A"]) \cup Range(file'["B"])
                    /\ \A x \in Recorded' : x = Own \/ \E j \in 1..step' : x = Ideal[j]
                    /\ \A x \in Range(happened') : \E j \in 1..step' : x = Ideal[j]
                    /\ step' >= Bots + 10 => SnapshotRecord \in Range(file'["A"])
                    /\ Own \notin Range(file'["A"])
                    /\ ~resnap' => Own \notin Recorded'
  BY DEF CompleteInv
<1>0. /\ step \in Nat /\ lost \in Nat /\ wrong \in Nat /\ damaged.field \in Nat /\ Bots \in Nat
      /\ step \in 0..Len(Ideal) /\ Len(Ideal) = Bots + 13
  BY IdealAt, BotsAssumption DEF RecordsTypeOK
<1>1. CASE Scenario
  <2> DEFINE n == step + 1
             x == Ideal[n]
  <2>1. n \in 1..Len(Ideal) /\ step' = n /\ wrong = 0 /\ resnap' = resnap /\ 1..n = (1..step) \cup {n}
    BY <1>0, <1>1 DEF Scenario
  <2>2. lost = 0 /\ damaged.field = 0 /\ AddedOne(x)
    <3>1. \/ lost' = lost + 1
          \/ lost' = lost /\ \E c \in Copies(x) : AddedOne(c) /\ (c = x \/ damaged'.field > 0)
      BY <1>1, ScenarioWrites
    <3>2. damaged'.field >= damaged.field
      BY <1>1, ScenarioWrites
    <3> QED BY <1>0, <3>1, <3>2
  <2>3. /\ \A j \in 1..step : Ideal[j] \in Recorded
        /\ \A j \in 1..step : Ideal[j].kind # "tick" => Ideal[j] \in Range(file["A"]) \cup Range(file["B"])
        /\ \A y \in Recorded : y = Own \/ \E j \in 1..step : y = Ideal[j]
        /\ \A y \in Range(happened) : \E j \in 1..step : y = Ideal[j]
        /\ step >= Bots + 10 => SnapshotRecord \in Range(file["A"])
        /\ Own \notin Range(file["A"])
        /\ ~resnap => Own \notin Recorded
    BY <2>1, <2>2 DEF CompleteInv
  <2>4. Recorded' = Recorded \cup {x}
    BY <2>2, RecordedGrows
  <2>5. Range(happened') = Range(happened) \cup {x}
    <3>1. happened' = Append(happened, x)
      BY <1>1 DEF Scenario
    <3>2. happened \in Seq(LogRecord) /\ x \in LogRecord
      BY <2>1, Logged DEF RecordsTypeOK
    <3> HIDE DEF x
    <3> QED BY <3>1, <3>2, RangeOfAppend
  <2>6. x # Own
    BY <2>1, OwnIsNotIdeal
  <2> HIDE DEF n
  <2>7. /\ Range(file["A"]) \subseteq Range(file'["A"]) /\ Range(file["B"]) \subseteq Range(file'["B"])
        /\ Range(file'["A"]) \subseteq Range(file["A"]) \cup {x}
        /\ FileOf(x) = "A" => x \in Range(file'["A"])
        /\ FileOf(x) = "B" => x \in Range(file'["B"])
    BY <2>2 DEF AddedOne, Files
  <2>8. n = Bots + 10 => SnapshotRecord \in Range(file'["A"])
    <3> HAVE n = Bots + 10
    <3>1. x = SnapshotRecord
      BY IdealPlaces
    <3>2. ~Restored
      <4> SUFFICES ASSUME NEW r \in Did("restore") PROVE FALSE
        BY DEF Restored
      <4>1. PICK j \in 1..step : r = Ideal[j] /\ r.kind = "restore"
        BY <2>3, DidIsRange
      <4>2. j = Bots + 11
        <5>1. j \in 1..Len(Ideal)
          BY <1>0
        <5> QED BY <4>1, <5>1, IdealCases, IdealKinds
      <4> QED BY <1>0, <4>2 DEF n
    <3>3. FileOf(x) = "A"
      BY <3>1, <3>2, IdealKinds DEF FileOf
    <3> QED BY <2>7, <3>1, <3>3
  <2>9. x.kind # "tick" => x \in Range(file'["A"]) \cup Range(file'["B"])
    <3>1. x.kind # "tick" => FileOf(x) \in {"A", "B"}
      BY DEF FileOf
    <3> QED BY <2>7, <3>1
  <2>10. \A j \in 1..step' : j \in 1..step \/ Ideal[j] = x
    BY <2>1
  <2>11. 1..step \subseteq 1..step' /\ n \in 1..step' /\ x = Ideal[n]
    BY <2>1
  <2>12. step' >= Bots + 10 => SnapshotRecord \in Range(file'["A"])
    <3>1. step' >= Bots + 10 => step >= Bots + 10 \/ n = Bots + 10
      BY <1>0, <2>1 DEF n
    <3> QED BY <2>3, <2>7, <2>8, <3>1
  <2> HIDE DEF x
  <2>13. \A j \in 1..step' : Ideal[j].kind # "tick" =>
             Ideal[j] \in Range(file'["A"]) \cup Range(file'["B"])
    BY <2>3, <2>7, <2>9, <2>10
  <2> QED
    BY <2>1, <2>3, <2>4, <2>5, <2>6, <2>7, <2>10, <2>11, <2>12, <2>13
<1>2. CASE Deviate
  BY <1>0, <1>2 DEF Deviate
<1>3. CASE Resnap
  <2>1. UNCHANGED <<step, happened, wrong, lost, damaged>> /\ resnap'
    BY <1>3 DEF Resnap
  <2>2. \A f \in Files : Range(file'[f]) = IF f = "B" THEN Range(file[f]) \cup {Own} ELSE Range(file[f])
    BY <1>3, ResnapWrites
  <2>3. Range(file'["A"]) = Range(file["A"]) /\ Range(file'["B"]) = Range(file["B"]) \cup {Own}
    BY <2>2 DEF Files
  <2>4. Recorded' = Recorded \cup {Own}
    BY <2>2 DEF Recorded, Files
  <2>5. step' = step /\ happened' = happened
    BY <2>1
  <2>6. /\ \A j \in 1..step : Ideal[j] \in Recorded
        /\ \A j \in 1..step : Ideal[j].kind # "tick" => Ideal[j] \in Range(file["A"]) \cup Range(file["B"])
        /\ \A y \in Recorded : y = Own \/ \E j \in 1..step : y = Ideal[j]
        /\ \A y \in Range(happened) : \E j \in 1..step : y = Ideal[j]
        /\ step >= Bots + 10 => SnapshotRecord \in Range(file["A"])
        /\ Own \notin Range(file["A"])
    BY <2>1 DEF CompleteInv
  <2> QED BY <2>1, <2>3, <2>4, <2>5, <2>6
<1>4. CASE UNCHANGED recordVars
  BY <1>4 DEF recordVars, CompleteInv, Recorded
<1> QED
  BY <1>1, <1>2, <1>3, <1>4 DEF RecordsStep, RecordsNext
(* Every check finds its record in the logs of a complete run.                *)
LEMMA CompleteAccepted == RecordsTypeOK /\ CompleteInv => CompleteRunIsAccepted
<1> SUFFICES ASSUME RecordsTypeOK, CompleteInv, step = Len(Ideal), wrong = 0, lost = 0,
                    damaged.field = 0, ~(resnap /\ first = "B")
             PROVE  Accepted
  BY DEF CompleteRunIsAccepted
<1>0. Bots \in Nat /\ Bots > 0 /\ Len(Ideal) = Bots + 13 /\ Len(Ideal) \in Nat
  BY IdealAt, BotsAssumption
<1>1. /\ \A j \in 1..Len(Ideal) : Ideal[j] \in Recorded
      /\ \A j \in 1..Len(Ideal) : Ideal[j].kind # "tick" =>
           Ideal[j] \in Range(file["A"]) \cup Range(file["B"])
      /\ \A x \in Recorded : x = Own \/ \E j \in 1..Len(Ideal) : x = Ideal[j]
      /\ SnapshotRecord \in Range(file["A"])
      /\ Own \notin Range(file["A"])
      /\ ~resnap => Own \notin Recorded
  BY <1>0 DEF CompleteInv
<1>2. ASSUME NEW j \in 1..Len(Ideal), Ideal[j].kind \notin {"admit", "query", "snapshot"}
      PROVE  Ideal[j] \in Find(Ideal[j].kind)
  <2>1. PICK x \in Find(Ideal[j].kind) : TRUE
    BY <1>1, FindFinds
  <2>2. x \in Recorded /\ x.kind = Ideal[j].kind
    BY FindIsRecorded
  <2>3. x # Own
    BY <1>2, <2>2 DEF Own
  <2>4. PICK i \in 1..Len(Ideal) : x = Ideal[i]
    BY <1>1, <2>2, <2>3
  <2>5. i = j
    BY <1>2, <2>2, <2>4, OneOfAKind
  <2> QED BY <2>1, <2>4, <2>5
<1>3. /\ HostRecord \in Find("host") /\ AccountRecord \in Find("account")
      /\ TickRecord \in Find("tick") /\ SupersededRecord \in Find("superseded")
      /\ RebindRecord \in Find("rebind") /\ RestoreRecord \in Find("restore")
      /\ ExpireRecord \in Find("expire") /\ DeferredRecord \in Find("deferred")
  <2>1. /\ 1 \in 1..Len(Ideal) /\ 2 \in 1..Len(Ideal) /\ Bots + 4 \in 1..Len(Ideal)
        /\ Bots + 8 \in 1..Len(Ideal) /\ Bots + 9 \in 1..Len(Ideal) /\ Bots + 11 \in 1..Len(Ideal)
        /\ Bots + 12 \in 1..Len(Ideal) /\ Bots + 13 \in 1..Len(Ideal)
    BY <1>0
  <2>2. /\ Ideal[1] = HostRecord /\ Ideal[2] = AccountRecord /\ Ideal[Bots + 4] = TickRecord
        /\ Ideal[Bots + 8] = SupersededRecord /\ Ideal[Bots + 9] = RebindRecord
        /\ Ideal[Bots + 11] = RestoreRecord /\ Ideal[Bots + 12] = ExpireRecord
        /\ Ideal[Bots + 13] = DeferredRecord
    BY IdealPlaces
  <2> QED BY <1>2, <2>1, <2>2, IdealKinds
<1>4. SnapshotRecord \in Find("snapshot")
  <2>1. SnapshotRecord \in Recorded /\ SnapshotRecord.kind = "snapshot"
    BY <1>1, IdealKinds DEF Recorded
  <2>2. PICK x \in Find("snapshot") : TRUE
    BY <2>1, FindFinds
  <2>3. x \in Recorded /\ x.kind = "snapshot"
    BY FindIsRecorded
  <2>4. x # Own
    <3>1. CASE ~resnap
      BY <1>1, <2>3, <3>1
    <3>2. CASE resnap
      <4> DEFINE a == file["A"]
                 b == file["B"]
                 c == file["client"]
      <4>1. a \in Seq(LogRecord) /\ b \in Seq(LogRecord) /\ c \in Seq(LogRecord)
        BY DEF RecordsTypeOK, Files
      <4>2. first = "A"
        BY <3>2 DEF RecordsTypeOK
      <4>3. Server \o Client = (a \o b) \o c
        BY <4>2 DEF Server, Client
      <4>4. SnapshotRecord \in Range(a) /\ Own \notin Range(a)
        BY <1>1
      <4> HIDE DEF a, b, c
      <4>5. (a \o b) \o c = a \o (b \o c) /\ b \o c \in Seq(LogRecord)
        BY <4>1, ConcatAssociative, ConcatProperties
      <4> DEFINE t == b \o c
      <4>6. t \in Seq(LogRecord) /\ Server \o Client = a \o t
        BY <4>3, <4>5
      <4> HIDE DEF t
      <4>7. x \in Range(a)
        BY <2>1, <2>2, <4>1, <4>4, <4>6, FindInFront
      <4> QED BY <4>4, <4>7
    <3> QED BY <3>1, <3>2
  <2>5. PICK j \in 1..Len(Ideal) : x = Ideal[j]
    BY <1>1, <2>3, <2>4
  <2>6. x = SnapshotRecord
    BY <2>3, <2>5, IdealCases, IdealKinds
  <2> QED BY <2>2, <2>6
<1>5. QueriesOk
  <2>1. ASSUME NEW j \in 1..Len(Ideal), NEW o, Ideal[j] = Query(o) PROVE o \in Outcomes
    <3>1. Query(o) \in Range(Server \o Client)
      BY <1>1, <2>1, ReadAsSets
    <3> QED BY <3>1 DEF Outcomes, OfKind, Range, Query
  <2>2. Bots + 5 \in 1..Len(Ideal) /\ Bots + 6 \in 1..Len(Ideal) /\ Bots + 7 \in 1..Len(Ideal)
    BY <1>0
  <2> QED BY <2>1, <2>2, IdealPlaces DEF QueriesOk
<1>6. \A x \in Range(Server) : x.kind = "admit" => \E i \in 1..(Bots + 1) : x = Admitted(i)
  <2> TAKE x \in Range(Server)
  <2> HAVE x.kind = "admit"
  <2>1. x \in Recorded /\ x # Own
    BY ReadAsSets DEF Recorded, Own
  <2>2. PICK j \in 1..Len(Ideal) : x = Ideal[j]
    BY <1>1, <2>1
  <2> QED BY <2>2, IdealCases, IdealKinds
<1>7. \A i \in 1..(Bots + 1) : Admitted(i) \in Range(Server)
  <2> TAKE i \in 1..(Bots + 1)
  <2>1. i + 2 \in 1..Len(Ideal) /\ Ideal[i + 2] = Admitted(i)
    BY <1>0, IdealPlaces
  <2> QED BY <1>1, <2>1, ReadAsSets, IdealKinds
<1>8. EntityRecordsOk
  <2>1. \A x \in Range(Server) : x.kind = "admit" =>
          Canonical(x.id) /\ x.type \in {"world", "player", "bot"}
    <3> TAKE x \in Range(Server)
    <3> HAVE x.kind = "admit"
    <3>1. PICK i \in 1..(Bots + 1) : x = Admitted(i)
      BY <1>6
    <3> QED BY <1>0, <3>1, NoneAssumption DEF Canonical, Admitted
  <2> QED BY <2>1 DEF EntityRecordsOk, OfKind, Range
<1>9. \A i : Admitted(i).id = i /\ Admitted(i).type = (IF i <= Bots THEN "bot" ELSE "player")
  BY DEF Admitted
<1>10. \A i \in 1..(Bots + 1) : i \in Counted(Admitted(i).type)
  <2> TAKE i \in 1..(Bots + 1)
  <2>1. \A x, y \in Range(Server) :
          x.kind = "admit" /\ y.kind = "admit" /\ x.id = y.id => x.type = y.type
    BY <1>6, <1>9
  <2>2. Admitted(i).id # None
    BY <1>0, <1>9, NoneAssumption
  <2> QED BY <1>7, <1>9, <2>1, <2>2, IdealKinds, CountedIfOneType
<1>11. \A type : \A id \in Counted(type) : id \in 1..(Bots + 1) /\ type = Admitted(id).type
  BY <1>6, <1>9, CountedIsRecorded
<1>12. CensusOk
  <2>1. Counted("bot") = 1..Bots
    <3>1. ASSUME NEW i \in 1..Bots PROVE i \in Counted("bot")
      <4>1. i \in 1..(Bots + 1) /\ i <= Bots
        BY <1>0
      <4> QED BY <1>9, <1>10, <4>1
    <3>2. ASSUME NEW id \in Counted("bot") PROVE id \in 1..Bots
      <4>1. id \in 1..(Bots + 1) /\ id <= Bots
        BY <1>9, <1>11, <3>2
      <4> QED BY <1>0, <4>1
    <3> QED BY <3>1, <3>2
  <2>2. Counted("player") = {Bots + 1}
    BY <1>0, <1>9, <1>10, <1>11
  <2>3. Cardinality(1..Bots) = Bots
    BY <1>0, FS_Interval
  <2>4. Cardinality({Bots + 1}) = 1
    BY FS_Singleton
  <2> QED BY <2>1, <2>2, <2>3, <2>4, CensusCounts DEF CensusOk
<1>13. None \notin Nat
  BY NoneAssumption
<1>14. SnapshotOk
  BY <1>3, <1>4, <1>13 DEF SnapshotOk, CrossProcess, SnapshotRecord, RestoreRecord
<1>15. RebindOk
  <2>1. Canonical(Bots)
    BY <1>0, <1>13 DEF Canonical
  <2> QED BY <1>3, <2>1 DEF RebindOk, RebindRecord
<1>16. ExpiryOk
  BY <1>0, <1>3 DEF ExpiryOk, ExpireRecord
<1>17. HostOk /\ AccountOk /\ TickOk /\ DeferredOk
  BY <1>3 DEF HostOk, AccountOk, TickOk, DeferredOk, HostRecord, AccountRecord, TickRecord,
              DeferredRecord
<1> QED
  BY <1>5, <1>8, <1>12, <1>14, <1>15, <1>16, <1>17 DEF Accepted
-----------------------------------------------------------------------------
(* What was accepted happened *)

(* No records.                                                                *)
LEMMA RangeOfNone == Range(<<>>) = {}
  BY DEF Range

(* A deviation leaves records of its scenario's kind only.                    *)
LEMMA RangesOfDeviations ==
  ASSUME NEW j \in 1..Len(Ideal), NEW rs \in Deviations(Ideal[j])
  PROVE  \A x \in Range(rs) : x.kind = Ideal[j].kind
<1>1. \A y, z : Range(<<y>>) = {y} /\ Range(<<y, z>>) = {y, z}
  BY DEF Range
<1> QED
  BY <1>1, RangeOfNone, DeviationShape

(* d tells which records each scenario left.                                  *)
Told(d) ==
  /\ \A j \in 1..step : d[j] = {Ideal[j]} \/ \E rs \in Deviations(Ideal[j]) : d[j] = Range(rs)
  /\ \A x : x \in Range(happened) <=> \E j \in 1..step : x \in d[j]
  /\ wrong = 0 => \A j \in 1..step : d[j] = {Ideal[j]}
  /\ wrong = 1 => \E k \in 1..step : \A j \in (1..step) \ {k} : d[j] = {Ideal[j]}

(* If nothing was lost, the logs hold what happened and process B's snapshot; *)
(* only the tick records are the client's.                                    *)
HappenedInv ==
  /\ \E d : Told(d)
  /\ resnap => Restored
  /\ lost = 0 /\ damaged.field = 0 =>
       /\ \A x \in Recorded : x \in Range(happened) \/ (resnap /\ x = Own)
       /\ Range(happened) \subseteq Recorded
       /\ \A x \in Range(happened) :
            x.kind # "tick" => x \in Range(file["A"]) \cup Range(file["B"])

(* There is nothing to tell before the first scenario.                        *)
LEMMA HappenedInvInit == RecordsInit => HappenedInv
<1> SUFFICES ASSUME RecordsInit PROVE HappenedInv
  OBVIOUS
<1>1. Told(<<>>)
  BY RangeOfNone DEF RecordsInit, Told
<1>2. /\ Recorded = {} /\ Range(happened) = {} /\ ~resnap
  BY RangeOfNone DEF RecordsInit, Recorded
<1> QED
  BY <1>1, <1>2 DEF HappenedInv

(* The story goes on with what the next scenario left.                        *)
LEMMA ToldStep ==
  ASSUME RecordsTypeOK, NEW d, Told(d), step' = step + 1, NEW D,
         Range(happened') = Range(happened) \cup D,
         D = {Ideal[step + 1]} \/ \E rs \in Deviations(Ideal[step + 1]) : D = Range(rs),
         (wrong' = wrong /\ D = {Ideal[step + 1]}) \/ wrong' = wrong + 1
  PROVE  \E e : Told(e)'
<1> DEFINE n == step + 1
<1>0. PICK e : e = [j \in 1..n |-> IF j = n THEN D ELSE d[j]]
  OBVIOUS
<1>1. step \in Nat /\ wrong \in Nat /\ n \notin 1..step /\ 1..n = (1..step) \cup {n}
  <2>1. step \in Nat /\ wrong \in Nat
    BY IdealAt, BotsAssumption DEF RecordsTypeOK
  <2> QED BY <2>1
<1>2. e[n] = D /\ \A j \in 1..step : e[j] = d[j]
  BY <1>0, <1>1
<1>3. step' = n
  OBVIOUS
<1>4. /\ \A j \in 1..step : d[j] = {Ideal[j]} \/ \E rs \in Deviations(Ideal[j]) : d[j] = Range(rs)
      /\ \A x : x \in Range(happened) <=> \E j \in 1..step : x \in d[j]
      /\ wrong = 0 => \A j \in 1..step : d[j] = {Ideal[j]}
      /\ wrong = 1 => \E k \in 1..step : \A j \in (1..step) \ {k} : d[j] = {Ideal[j]}
  BY DEF Told
<1>5. D = {Ideal[n]} \/ \E rs \in Deviations(Ideal[n]) : D = Range(rs)
  OBVIOUS
<1>6. (wrong' = wrong /\ D = {Ideal[n]}) \/ wrong' = wrong + 1
  OBVIOUS
<1> HIDE DEF n
<1>7. \A j \in 1..n : e[j] = {Ideal[j]} \/ \E rs \in Deviations(Ideal[j]) : e[j] = Range(rs)
  BY <1>1, <1>2, <1>4, <1>5
<1>8. \A x : x \in Range(happened') <=> \E j \in 1..n : x \in e[j]
  BY <1>1, <1>2, <1>4
<1>9. wrong' = 0 => \A j \in 1..n : e[j] = {Ideal[j]}
  <2> HAVE wrong' = 0
  <2>1. wrong = 0 /\ D = {Ideal[n]}
    BY <1>1, <1>6
  <2> QED BY <2>1, <1>1, <1>2, <1>4
<1>10. wrong' = 1 => \E k \in 1..n : \A j \in (1..n) \ {k} : e[j] = {Ideal[j]}
  <2> HAVE wrong' = 1
  <2>1. CASE wrong = 0
    BY <2>1, <1>1, <1>2, <1>4
  <2>2. CASE wrong # 0
    <3>1. wrong = 1 /\ D = {Ideal[n]}
      BY <2>2, <1>1, <1>6
    <3>2. PICK k \in 1..step : \A j \in (1..step) \ {k} : d[j] = {Ideal[j]}
      BY <3>1, <1>4
    <3> QED BY <3>1, <3>2, <1>1, <1>2
  <2> QED BY <2>1, <2>2
<1>11. Told(e)'
  BY ONLY <1>3, <1>7, <1>8, <1>9, <1>10 DEF Told
<1> QED
  BY <1>11

(* What was restored stays restored.                                          *)
LEMMA RestoredStays ==
  ASSUME Restored, Range(happened) \subseteq Range(happened')
  PROVE  Restored'
<1>1. \A k : Did(k)' = {x \in Range(happened') : x.kind = k}
  BY DEF Did, Range
<1> QED
  BY <1>1, DidIsRange DEF Restored

(* Every step goes into the story, and into the logs if none is lost.         *)
LEMMA HappenedInvStep == RecordsTypeOK /\ HappenedInv /\ RecordsStep => HappenedInv'
<1> SUFFICES ASSUME RecordsTypeOK, HappenedInv, RecordsStep PROVE HappenedInv'
  OBVIOUS
<1>0. lost \in Nat /\ damaged.field \in Nat /\ happened \in Seq(LogRecord)
  BY DEF RecordsTypeOK
<1>1. PICK d : Told(d)
  BY DEF HappenedInv
<1>2. CASE Scenario
  <2> DEFINE x == Ideal[step + 1]
  <2>1. step' = step + 1 /\ wrong' = wrong /\ resnap' = resnap /\ happened' = Append(happened, x)
    BY <1>2 DEF Scenario
  <2>2. x \in LogRecord
    BY <1>2, Logged DEF Scenario, RecordsTypeOK
  <2>3. \/ lost' = lost + 1
        \/ lost' = lost /\ \E c \in Copies(x) : AddedOne(c) /\ (c = x \/ damaged'.field > 0)
    BY <1>2, ScenarioWrites
  <2>4. damaged'.field >= damaged.field /\ damaged'.field \in Nat
    BY <1>2, ScenarioWrites
  <2>5. Range(happened') = Range(happened) \cup {x}
    <3> HIDE DEF x
    <3> QED BY <1>0, <2>1, <2>2, RangeOfAppend
  <2>6. \E e : Told(e)'
    BY <1>1, <2>1, <2>5, ToldStep
  <2> HIDE DEF x
  <2>7. resnap' => Restored'
    BY <2>1, <2>5, RestoredStays DEF HappenedInv
  <2>8. ASSUME lost' = 0, damaged'.field = 0
        PROVE  /\ \A y \in Recorded' : y \in Range(happened') \/ (resnap' /\ y = Own)
               /\ Range(happened') \subseteq Recorded'
               /\ \A y \in Range(happened') :
                    y.kind # "tick" => y \in Range(file'["A"]) \cup Range(file'["B"])
    <3>1. lost = 0 /\ damaged.field = 0 /\ AddedOne(x)
      BY <1>0, <2>3, <2>4, <2>8
    <3>2. Recorded' = Recorded \cup {x}
      BY <3>1, RecordedGrows
    <3>3. /\ Range(file["A"]) \subseteq Range(file'["A"]) /\ Range(file["B"]) \subseteq Range(file'["B"])
          /\ x.kind # "tick" => x \in Range(file'["A"]) \cup Range(file'["B"])
      <4>1. x.kind # "tick" => FileOf(x) \in {"A", "B"}
        BY DEF FileOf
      <4> QED BY <3>1, <4>1 DEF AddedOne, Files
    <3> QED BY <2>1, <2>5, <3>1, <3>2, <3>3 DEF HappenedInv
  <2> QED BY <2>6, <2>7, <2>8 DEF HappenedInv
<1>3. CASE Deviate
  <2>1. step' = step + 1 /\ wrong' = wrong + 1 /\ UNCHANGED <<resnap, lost, damaged>>
        /\ step + 1 \in 1..Len(Ideal)
    BY <1>3 DEF Deviate, RecordsTypeOK
  <2>2. PICK rs \in Deviations(Ideal[step + 1]) :
          happened' = happened \o rs /\ rs \in Seq(LogRecord) /\ Added(rs)
    BY <1>3, DeviationWrites
  <2>3. Range(happened') = Range(happened) \cup Range(rs)
    BY <1>0, <2>2, RangeConcatenation
  <2>4. \E e : Told(e)'
    <3> DEFINE D == Range(rs)
    <3>1. Range(happened') = Range(happened) \cup D
          /\ \E q \in Deviations(Ideal[step + 1]) : D = Range(q)
      BY <2>2, <2>3
    <3> HIDE DEF D
    <3> QED BY <1>1, <2>1, <3>1, ToldStep
  <2>5. resnap' => Restored'
    BY <2>1, <2>3, RestoredStays DEF HappenedInv
  <2>6. ASSUME lost' = 0, damaged'.field = 0
        PROVE  /\ \A y \in Recorded' : y \in Range(happened') \/ (resnap' /\ y = Own)
               /\ Range(happened') \subseteq Recorded'
               /\ \A y \in Range(happened') :
                    y.kind # "tick" => y \in Range(file'["A"]) \cup Range(file'["B"])
    <3>1. lost = 0 /\ damaged.field = 0
      BY <2>1, <2>6
    <3>2. CASE rs = <<>>
      <4>1. Range(happened') = Range(happened) /\ \A f \in Files : Range(file'[f]) = Range(file[f])
        BY <2>2, <2>3, <3>2, RangeOfNone DEF Added
      <4>2. Recorded' = Recorded
        BY <4>1 DEF Recorded, Files
      <4> QED BY <2>1, <3>1, <4>1, <4>2 DEF HappenedInv, Files
    <3>3. CASE rs # <<>>
      <4> DEFINE g == FileOf(rs[1])
      <4>1. \A f \in Files : Range(file'[f]) = IF f = g THEN Range(file[f]) \cup Range(rs)
                                               ELSE Range(file[f])
        BY <2>2, <3>3 DEF Added
      <4>2. g \in Files
        BY FileOfIsFile
      <4>3. \A y \in Range(rs) : y.kind # "tick" => g \in {"A", "B"}
        <5>1. rs[1] \in Range(rs)
          BY <2>2, <3>3 DEF Range
        <5>2. \A y \in Range(rs) : y.kind = rs[1].kind
          BY <2>1, <2>2, <5>1, RangesOfDeviations
        <5> QED BY <5>2 DEF FileOf
      <4> HIDE DEF g
      <4>4. Recorded' = Recorded \cup Range(rs)
        BY <4>1, <4>2 DEF Recorded, Files
      <4>5. /\ Range(file["A"]) \subseteq Range(file'["A"]) /\ Range(file["B"]) \subseteq Range(file'["B"])
            /\ \A y \in Range(rs) : y.kind # "tick" => y \in Range(file'["A"]) \cup Range(file'["B"])
        BY <4>1, <4>3 DEF Files
      <4> QED BY <2>1, <2>3, <3>1, <4>4, <4>5 DEF HappenedInv
    <3> QED BY <3>2, <3>3
  <2> QED BY <2>4, <2>5, <2>6 DEF HappenedInv
<1>4. CASE Resnap
  <2>1. UNCHANGED <<step, happened, wrong, lost, damaged>> /\ resnap' /\ Restored
    BY <1>4 DEF Resnap
  <2>2. \A f \in Files : Range(file'[f]) = IF f = "B" THEN Range(file[f]) \cup {Own} ELSE Range(file[f])
    BY <1>4, ResnapWrites
  <2>3. Recorded' = Recorded \cup {Own} /\ Range(file'["A"]) = Range(file["A"])
        /\ Range(file'["B"]) = Range(file["B"]) \cup {Own}
    BY <2>2 DEF Recorded, Files
  <2>4. Told(d)'
    BY <1>1, <2>1 DEF Told
  <2>5. Restored'
    BY <2>1, RestoredStays
  <2>6. ASSUME lost' = 0, damaged'.field = 0
        PROVE  /\ \A y \in Recorded' : y \in Range(happened') \/ (resnap' /\ y = Own)
               /\ Range(happened') \subseteq Recorded'
               /\ \A y \in Range(happened') :
                    y.kind # "tick" => y \in Range(file'["A"]) \cup Range(file'["B"])
    <3>1. /\ \A y \in Recorded : y \in Range(happened) \/ (resnap /\ y = Own)
          /\ Range(happened) \subseteq Recorded
          /\ \A y \in Range(happened) :
               y.kind # "tick" => y \in Range(file["A"]) \cup Range(file["B"])
      BY <2>1, <2>6 DEF HappenedInv
    <3>2. happened' = happened
      BY <2>1
    <3> QED BY <2>1, <2>3, <3>1, <3>2
  <2> QED BY <2>4, <2>5, <2>6 DEF HappenedInv
<1>5. CASE UNCHANGED recordVars
  <2>1. Told(d)'
    BY <1>1, <1>5 DEF recordVars, Told
  <2>2. resnap' => Restored'
    BY <1>5, RestoredStays DEF recordVars, HappenedInv
  <2> QED BY <1>5, <2>1, <2>2 DEF recordVars, HappenedInv, Recorded
<1> QED
  BY <1>2, <1>3, <1>4, <1>5 DEF RecordsStep, RecordsNext
(* Whatever the deviations, only admissions and queries are there twice.      *)
LEMMA HappenedOnce ==
  ASSUME RecordsTypeOK, NEW d, Told(d), NEW x \in Range(happened), NEW y \in Range(happened),
         x.kind = y.kind, x.kind \notin {"admit", "query"}
  PROVE  x = y
<1>0. 1..step \subseteq 1..Len(Ideal)
  <2>1. step \in 0..Len(Ideal) /\ Len(Ideal) \in Nat
    BY IdealAt, BotsAssumption DEF RecordsTypeOK
  <2> QED BY <2>1
<1>1. PICK i \in 1..step : x \in d[i]
  BY DEF Told
<1>2. PICK j \in 1..step : y \in d[j]
  BY DEF Told
<1>3. ASSUME NEW h \in 1..step, NEW z \in d[h] PROVE z.kind = Ideal[h].kind
  BY <1>0, <1>3, RangesOfDeviations DEF Told
<1>4. i = j
  BY <1>0, <1>1, <1>2, <1>3, OneOfAKind
<1>5. CASE d[i] = {Ideal[i]}
  BY <1>1, <1>2, <1>4, <1>5
<1>6. CASE \E rs \in Deviations(Ideal[i]) : d[i] = Range(rs)
  <2>1. PICK rs \in Deviations(Ideal[i]) : d[i] = Range(rs)
    BY <1>6
  <2>2. Ideal[i].kind # "admit"
    BY <1>1, <1>3
  <2>3. rs = <<>> \/ \E z : rs = <<z>>
    BY <1>0, <2>1, <2>2, DeviationShape
  <2>4. \A z : Range(<<z>>) = {z}
    BY DEF Range
  <2> QED BY <1>1, <1>2, <1>4, <2>1, <2>3, <2>4, RangeOfNone
<1> QED BY <1>5, <1>6 DEF Told

(* A query that deviates has none of the three outcomes.                      *)
LEMMA OtherQuery ==
  ASSUME NEW o, NEW rs \in Deviations(Query(o)), NEW x \in Range(rs)
  PROVE  x.outcome = "other"
<1>1. Query(o).kind \notin {"admit", "superseded", "rebind", "snapshot", "restore", "expire"}
  BY IdealKinds
<1>2. rs = <<>> \/ rs = <<[f \in DOMAIN Query(o) |-> IF f = "kind" THEN Query(o).kind ELSE "other"]>>
  BY <1>1, DeviationsFromRecord
<1>3. [f \in DOMAIN Query(o) |-> IF f = "kind" THEN Query(o).kind ELSE "other"].outcome = "other"
  BY DEF Query
<1>4. \A z : Range(<<z>>) = {z}
  BY DEF Range
<1> QED BY <1>2, <1>3, <1>4, RangeOfNone

(* The accepted admissions are the room's, if at most one scenario deviated.  *)
LEMMA AdmittedAsMeant ==
  ASSUME RecordsTypeOK, NEW d, Told(d), step = Len(Ideal), wrong <= 1, Accepted,
         \A x \in Range(Server) : x.kind = "admit" => x \in Range(happened),
         \A x \in Range(happened) : x.kind = "admit" => x \in Range(Server)
  PROVE  Did("admit") = {Admitted(i) : i \in 1..(Bots + 1)}
<1>0. Bots \in Nat /\ Bots > 0 /\ Len(Ideal) = Bots + 13 /\ wrong \in Nat
  BY IdealAt, BotsAssumption DEF RecordsTypeOK
<1>1. ASSUME NEW j \in 1..Len(Ideal), NEW x \in d[j] PROVE x.kind = Ideal[j].kind
  BY <1>1, RangesOfDeviations DEF Told
<1>2. \A i \in 1..(Bots + 1) : i + 2 \in 1..Len(Ideal) /\ Ideal[i + 2] = Admitted(i)
  BY <1>0, IdealPlaces
<1>3. ASSUME NEW x \in Range(happened), x.kind = "admit"
      PROVE  \E i \in 1..(Bots + 1) : x \in d[i + 2]
  <2>1. PICK j \in 1..Len(Ideal) : x \in d[j]
    BY DEF Told
  <2> QED BY <1>1, <1>3, <2>1, IdealCases, IdealKinds
<1>4. ASSUME NEW i \in 1..(Bots + 1), NEW x \in d[i + 2]
      PROVE  x \in Range(happened) /\ x.kind = "admit"
  BY <1>1, <1>2, <1>4, IdealKinds DEF Told
<1>5. CASE \A i \in 1..(Bots + 1) : d[i + 2] = {Admitted(i)}
  <2>1. \A x : x \in Did("admit") <=> \E i \in 1..(Bots + 1) : x = Admitted(i)
    BY <1>3, <1>4, <1>5, DidIsRange
  <2> QED BY <2>1
<1>6. CASE \E i \in 1..(Bots + 1) : d[i + 2] # {Admitted(i)}
  <2>1. PICK i \in 1..(Bots + 1) : d[i + 2] # {Admitted(i)}
    BY <1>6
  <2>2. \A h \in (1..(Bots + 1)) \ {i} : d[h + 2] = {Admitted(h)}
    <3>1. PICK k \in 1..Len(Ideal) : \A j \in (1..Len(Ideal)) \ {k} : d[j] = {Ideal[j]}
      <4>1. i + 2 \in 1..Len(Ideal) /\ d[i + 2] # {Ideal[i + 2]}
        BY <1>2, <2>1
      <4>2. wrong = 1
        <5>1. wrong # 0
          BY <4>1 DEF Told
        <5> QED BY <1>0, <5>1
      <4> QED BY <4>2 DEF Told
    <3>2. k = i + 2
      BY <1>2, <2>1, <3>1
    <3>3. \A h \in (1..(Bots + 1)) \ {i} : h + 2 # i + 2
      BY <1>0
    <3> QED BY <1>2, <3>1, <3>2, <3>3
  <2>3. \A h : Admitted(h).id = h /\ Admitted(h).type = (IF h <= Bots THEN "bot" ELSE "player")
    BY DEF Admitted
  <2>4. Cardinality(Counted("bot")) = Bots /\ Cardinality(Counted("player")) = 1
    BY CensusCounts DEF Accepted, CensusOk
  <2> DEFINE t == Admitted(i).type
             extra == [Admitted(i) EXCEPT !.id = Bots + 3]
  <2>5. \/ \A x \in d[i + 2] : x.id = i /\ x.type # t
        \/ d[i + 2] = {Admitted(i), extra}
    <3>1. PICK rs \in Deviations(Admitted(i)) : d[i + 2] = Range(rs)
      <4>1. i + 2 \in 1..Len(Ideal) /\ d[i + 2] # {Ideal[i + 2]} /\ Ideal[i + 2] = Admitted(i)
        BY <1>2, <2>1
      <4> QED BY <4>1 DEF Told
    <3>2. \A y, z : Range(<<y>>) = {y} /\ Range(<<y, z>>) = {y, z}
      BY DEF Range
    <3>3. \A u : [Admitted(i) EXCEPT !.type = u].id = i /\ [Admitted(i) EXCEPT !.type = u].type = u
      BY DEF Admitted
    <3>4. CASE rs = <<>>
      BY <3>1, <3>4, RangeOfNone
    <3>5. CASE \E u \in {"world", "player", "bot"} \ {t} : rs = <<[Admitted(i) EXCEPT !.type = u]>>
      <4>1. PICK u \in {"world", "player", "bot"} \ {t} : rs = <<[Admitted(i) EXCEPT !.type = u]>>
        BY <3>5
      <4>2. d[i + 2] = {[Admitted(i) EXCEPT !.type = u]}
        BY <3>1, <3>2, <4>1
      <4> QED BY <3>3, <4>1, <4>2
    <3>6. CASE rs = <<Admitted(i), extra>>
      <4> HIDE DEF extra
      <4> QED BY <3>1, <3>2, <3>6
    <3> QED BY <3>1, <3>4, <3>5, <3>6, DeviationsFromAdmission
  <2>6. CASE \A x \in d[i + 2] : x.id = i /\ x.type # t
    <3>1. \A type : \A id \in Counted(type) :
            \/ id \in (1..(Bots + 1)) \ {i} /\ type = Admitted(id).type
            \/ id = i /\ type # t
      <4> TAKE type
      <4> TAKE id \in Counted(type)
      <4>1. PICK x \in Range(Server) : x.kind = "admit" /\ x.id = id /\ x.type = type
        BY CountedIsRecorded
      <4>2. PICK h \in 1..(Bots + 1) : x \in d[h + 2]
        BY <1>3, <4>1
      <4>3. CASE h = i
        BY <2>6, <4>1, <4>2, <4>3
      <4>4. CASE h # i
        <5>1. x = Admitted(h)
          BY <2>2, <4>2, <4>4
        <5> QED BY <2>3, <4>1, <4>4, <5>1
      <4> QED BY <4>3, <4>4
    <3>2. CASE i <= Bots
      <4>1. t = "bot" /\ i \in 1..Bots
        BY <1>0, <2>3, <3>2
      <4>2. Counted("bot") \subseteq (1..Bots) \ {i}
        <5> SUFFICES ASSUME NEW id \in Counted("bot") PROVE id \in (1..Bots) \ {i}
          OBVIOUS
        <5>1. id \in (1..(Bots + 1)) \ {i} /\ Admitted(id).type = "bot"
          BY <3>1, <4>1
        <5>2. id <= Bots
          BY <2>3, <5>1
        <5> QED BY <1>0, <5>1, <5>2
      <4>3. Cardinality(Counted("bot")) # Bots
        BY <1>0, <4>1, <4>2, OneLess
      <4> QED BY <2>4, <4>3
    <3>3. CASE i = Bots + 1
      <4>1. t = "player"
        BY <1>0, <2>3, <3>3
      <4>2. Counted("player") = {}
        <5> SUFFICES ASSUME NEW id \in Counted("player") PROVE FALSE
          OBVIOUS
        <5>1. id \in (1..(Bots + 1)) \ {i} /\ Admitted(id).type = "player"
          BY <3>1, <4>1
        <5>2. ~(id <= Bots)
          BY <2>3, <5>1
        <5> QED BY <1>0, <3>3, <5>1, <5>2
      <4>3. Cardinality(Counted("player")) = 0
        <5>1. Cardinality({}) = 0
          BY FS_EmptySet
        <5> QED BY ONLY <4>2, <5>1
      <4> QED BY <2>4, <4>3
    <3> QED BY <1>0, <3>2, <3>3
  <2>7. CASE d[i + 2] = {Admitted(i), extra}
    <3>1. extra.id = Bots + 3 /\ extra.type = t /\ extra.kind = "admit"
      BY DEF Admitted
    <3> HIDE DEF extra
    <3>2. \A h \in 1..(Bots + 1) : Admitted(h) \in d[h + 2]
      BY <2>2, <2>7
    <3>3. \A h \in 1..(Bots + 1) : Admitted(h) \in Range(Server)
      BY <1>4, <3>2
    <3>4. extra \in Range(Server)
      BY <1>4, <2>7
    <3>5. \A x \in Range(Server) : x.kind = "admit" =>
            x = extra \/ \E h \in 1..(Bots + 1) : x = Admitted(h)
      BY <1>3, <2>2, <2>7
    <3>6. \A h \in 1..(Bots + 1) : h # Bots + 3
      BY <1>0
    <3>7. \A x, y \in Range(Server) :
            x.kind = "admit" /\ y.kind = "admit" /\ x.id = y.id => x.type = y.type
      BY <2>3, <3>1, <3>5, <3>6
    <3>8. t \in {"bot", "player"} /\ Bots + 3 # None
      BY <1>0, <2>3, NoneAssumption
    <3>9. Bots + 3 \in Counted(t)
      BY <3>1, <3>4, <3>7, <3>8, CountedIfOneType
    <3>10. \A h \in 1..(Bots + 1) : h \in Counted(Admitted(h).type)
      <4> TAKE h \in 1..(Bots + 1)
      <4>1. Admitted(h).id # None /\ Admitted(h).type \in {"player", "bot"}
        BY <1>0, <2>3, NoneAssumption
      <4> QED BY <2>3, <3>3, <3>7, <4>1, IdealKinds, CountedIfOneType
    <3>11. \A type : \A id \in Counted(type) :
             \/ id = Bots + 3 /\ type = t
             \/ id \in 1..(Bots + 1) /\ type = Admitted(id).type
      BY <2>3, <3>1, <3>5, CountedIsRecorded
    <3>12. CASE i <= Bots
      <4>1. t = "bot"
        BY <2>3, <3>12
      <4>2. Counted("bot") = (1..Bots) \cup {Bots + 3}
        <5>1. ASSUME NEW id \in Counted("bot") PROVE id \in (1..Bots) \cup {Bots + 3}
          <6>1. CASE id \in 1..(Bots + 1) /\ Admitted(id).type = "bot"
            <7>1. id <= Bots
              BY <2>3, <6>1
            <7> QED BY <1>0, <6>1, <7>1
          <6> QED BY <3>11, <5>1, <6>1
        <5>2. ASSUME NEW id \in 1..Bots PROVE id \in Counted("bot")
          <6>1. id \in 1..(Bots + 1) /\ id <= Bots
            BY <1>0
          <6> QED BY <2>3, <3>10, <6>1
        <5> QED BY <3>9, <4>1, <5>1, <5>2
      <4>3. Cardinality(1..Bots) = Bots
        BY <1>0, FS_Interval
      <4>3a. IsFiniteSet(1..Bots)
        BY <1>0, FS_Interval
      <4>4. Bots + 3 \notin 1..Bots
        BY <1>0
      <4> DEFINE bots == 1..Bots
      <4>5. IsFiniteSet(bots) /\ Bots + 3 \notin bots /\ Cardinality(bots) = Bots
        BY <4>3, <4>3a, <4>4
      <4> HIDE DEF bots
      <4>6. Cardinality(bots \cup {Bots + 3}) = Bots + 1
        BY <4>5, AddNew
      <4>7. Counted("bot") = bots \cup {Bots + 3}
        BY <4>2 DEF bots
      <4>8. Cardinality(Counted("bot")) = Bots + 1
        BY <4>6, <4>7
      <4> QED BY <1>0, <2>4, <4>8
    <3>13. CASE i = Bots + 1
      <4>1. t = "player" /\ Admitted(i).type = "player"
        BY <1>0, <2>3, <3>13
      <4>2. Bots + 1 \in Counted("player") /\ Bots + 3 \in Counted("player")
        BY <3>9, <3>10, <3>13, <4>1
      <4>3. ASSUME NEW id \in Counted("player") PROVE id \in {Bots + 1, Bots + 3}
        <5>1. CASE id \in 1..(Bots + 1) /\ Admitted(id).type = "player"
          <6>1. ~(id <= Bots)
            BY <2>3, <5>1
          <6> QED BY <1>0, <5>1, <6>1
        <5> QED BY <3>11, <4>3, <5>1
      <4>4. Counted("player") = {Bots + 1} \cup {Bots + 3}
        BY <4>2, <4>3
      <4>5. IsFiniteSet({Bots + 1}) /\ Cardinality({Bots + 1}) = 1
        BY FS_Singleton
      <4>6. Bots + 3 \notin {Bots + 1}
        BY <1>0
      <4> DEFINE one == {Bots + 1}
      <4>7. IsFiniteSet(one) /\ Bots + 3 \notin one /\ Cardinality(one) = 1
        BY <4>5, <4>6
      <4> HIDE DEF one
      <4>8. Cardinality(one \cup {Bots + 3}) = 1 + 1
        BY <4>7, AddNew
      <4>9. Counted("player") = one \cup {Bots + 3}
        BY <4>4 DEF one
      <4>10. Cardinality(Counted("player")) = 1 + 1
        BY <4>8, <4>9
      <4> QED BY <2>4, <4>10
    <3> QED BY <1>0, <3>12, <3>13
  <2> QED BY <2>5, <2>6, <2>7
<1> QED BY <1>5, <1>6

(* Every record an accepting oracle read is one of the story.                 *)
LEMMA AcceptedDidHappen == RecordsTypeOK /\ HappenedInv => AcceptedHappened
<1> SUFFICES ASSUME RecordsTypeOK, HappenedInv, Faults = 0, Accepted
             PROVE  /\ wrong <= 1 => Did("admit") = {Admitted(i) : i \in 1..(Bots + 1)}
                    /\ Cardinality(Did("query")) = 3
                    /\ \E s \in Did("snapshot"), r \in Did("restore") :
                         s.history = 0 /\ r.window = 0 /\ s.pid # r.pid
                    /\ \A r \in Did("rebind") : r.previous = r.next
                    /\ \A e \in Did("expire") : e.tombstoned /\ e.a # e.b
  BY DEF AcceptedHappened
<1>0. /\ Bots \in Nat /\ Bots > 0 /\ Len(Ideal) = Bots + 13 /\ step \in 0..Len(Ideal)
  BY IdealAt, BotsAssumption DEF RecordsTypeOK
<1>1. lost = 0 /\ damaged.field = 0
  <2>1. lost \in Nat /\ damaged.twice \in Nat /\ damaged.field \in Nat
    BY DEF RecordsTypeOK
  <2> QED BY <2>1 DEF Faults
<1>2. /\ \A x \in Recorded : x \in Range(happened) \/ (resnap /\ x = Own)
      /\ Range(happened) \subseteq Recorded
      /\ \A x \in Range(happened) :
           x.kind # "tick" => x \in Range(file["A"]) \cup Range(file["B"])
      /\ resnap => Restored
  BY <1>1 DEF HappenedInv
<1>3. PICK d : Told(d)
  BY DEF HappenedInv
<1>4. Own.kind = "snapshot" /\ Own.pid = 2 /\ Own.history = 0
  BY DEF Own
<1>5. \A k : k # "snapshot" => Find(k) \subseteq Did(k)
  BY <1>2, <1>4, FindIsRecorded, DidIsRange
<1>6. \A k : k \notin {"admit", "query"} => \A x, y \in Did(k) : x = y
  BY <1>3, DidIsRange, HappenedOnce
<1>7. ASSUME NEW j \in 1..step, NEW x \in d[j] PROVE x.kind = Ideal[j].kind
  <2>1. j \in 1..Len(Ideal)
    BY <1>0
  <2> QED BY <1>3, <1>7, <2>1, RangesOfDeviations DEF Told
<1>8. step = Len(Ideal)
  <2>1. PICK x \in Did("deferred") : TRUE
    BY <1>5 DEF Accepted, DeferredOk
  <2>2. PICK j \in 1..step : x \in d[j]
    BY <1>3, DidIsRange DEF Told
  <2>3. j \in 1..Len(Ideal) /\ Ideal[j].kind = "deferred"
    BY <1>0, <1>7, <2>1, <2>2, DidIsRange
  <2>4. j = Bots + 13
    BY <2>3, IdealCases, IdealKinds
  <2> QED BY <1>0, <2>4
<1>9. wrong <= 1 => Did("admit") = {Admitted(i) : i \in 1..(Bots + 1)}
  <2>1. \A x \in Range(Server) : x.kind = "admit" => x \in Range(happened)
    BY <1>2, <1>4, ReadAsSets DEF Recorded
  <2>2. \A x \in Range(happened) : x.kind = "admit" => x \in Range(Server)
    BY <1>2, ReadAsSets
  <2> QED BY <1>3, <1>8, <2>1, <2>2, AdmittedAsMeant
<1>10. Cardinality(Did("query")) = 3
  <2> DEFINE asked == {"unauthorized", "invisible", "stale"}
  <2>1. ASSUME NEW j \in 1..Len(Ideal), NEW o \in asked, Ideal[j] = Query(o), NEW x \in d[j]
        PROVE  (x = Query(o) /\ d[j] = {Query(o)}) \/ x.outcome = "other"
    BY <1>3, <1>8, <2>1, OtherQuery DEF Told
  <2>2. \A o : Query(o).outcome = o /\ Query(o).kind = "query"
    BY DEF Query
  <2>3. ASSUME NEW x \in Did("query")
        PROVE  \E j \in 1..Len(Ideal), o \in asked : Ideal[j] = Query(o) /\ x \in d[j]
    <3>1. PICK j \in 1..Len(Ideal) : x \in d[j] /\ Ideal[j].kind = "query"
      BY <1>3, <1>7, <1>8, DidIsRange DEF Told
    <3> QED BY <3>1, IdealCases, IdealKinds
  <2>4. ASSUME NEW o \in asked PROVE \E j \in 1..Len(Ideal) : Ideal[j] = Query(o) /\ d[j] = {Query(o)}
    <3>1. PICK x \in Range(Server \o Client) : x.kind = "query" /\ x.outcome = o
      BY DEF Accepted, QueriesOk, Outcomes, OfKind, Range
    <3>2. x \in Did("query")
      BY <1>2, <1>4, <3>1, ReadAsSets, DidIsRange
    <3>3. PICK j \in 1..Len(Ideal), p \in asked : Ideal[j] = Query(p) /\ x \in d[j]
      BY <2>3, <3>2
    <3>4. x = Query(p) /\ d[j] = {Query(p)}
      BY <2>1, <3>1, <3>3
    <3> QED BY <2>2, <3>1, <3>3, <3>4
  <2>5. \A o \in asked : Query(o) \in Did("query")
    <3> TAKE o \in asked
    <3>1. PICK j \in 1..Len(Ideal) : d[j] = {Query(o)}
      BY <2>4
    <3> QED BY <1>3, <1>8, <2>2, <3>1, DidIsRange DEF Told
  <2>6. \A x \in Did("query") : \E o \in asked : x = Query(o)
    <3> TAKE x \in Did("query")
    <3>1. PICK j \in 1..Len(Ideal), o \in asked : Ideal[j] = Query(o) /\ x \in d[j]
      BY <2>3
    <3>2. PICK i \in 1..Len(Ideal) : Ideal[i] = Query(o) /\ d[i] = {Query(o)}
      BY <2>4
    <3>3. i = j
      BY <3>1, <3>2, IdealIsInjective
    <3> QED BY <3>1, <3>2, <3>3
  <2> DEFINE a == Query("unauthorized")
             b == Query("invisible")
             c == Query("stale")
  <2>7. a # b /\ a # c /\ b # c
    BY <2>2
  <2>8. Did("query") = {a, b} \cup {c}
    BY <2>5, <2>6
  <2> HIDE DEF a, b, c
  <2>9. IsFiniteSet({a}) /\ Cardinality({a}) = 1
    BY FS_Singleton
  <2>10. IsFiniteSet({a} \cup {b}) /\ Cardinality({a} \cup {b}) = 1 + 1
    BY <2>7, <2>9, AddNew, AddAny
  <2> DEFINE two == {a, b}
  <2>11. two = {a} \cup {b} /\ c \notin two
    BY <2>7
  <2>12. IsFiniteSet(two) /\ Cardinality(two) = 2
    BY <2>10, <2>11
  <2>13. Did("query") = two \cup {c}
    BY <2>8
  <2> HIDE DEF two
  <2> QED BY <2>11, <2>12, <2>13, AddNew
<1>11. \E s \in Did("snapshot"), r \in Did("restore") : s.history = 0 /\ r.window = 0 /\ s.pid # r.pid
  <2>1. PICK s \in Find("snapshot"), r \in Find("restore") :
          s.history = 0 /\ r.window = 0 /\ s.pid # r.pid
    BY DEF Accepted, SnapshotOk, CrossProcess
  <2>2. r \in Did("restore")
    BY <1>5
  <2>3. s \in Did("snapshot")
    <3> SUFFICES ASSUME s \notin Did("snapshot") PROVE FALSE
      OBVIOUS
    <3>1. resnap /\ s = Own
      BY <1>2, FindIsRecorded, DidIsRange
    <3>2. r.pid = 2
      BY <1>2, <1>6, <2>2, <3>1 DEF Restored
    <3> QED BY <1>4, <2>1, <3>1, <3>2
  <2> QED BY <2>1, <2>2, <2>3
<1>12. \A r \in Did("rebind") : r.previous = r.next
  <2>1. PICK r \in Find("rebind") : r.previous = r.next
    BY DEF Accepted, RebindOk
  <2> QED BY <1>5, <1>6, <2>1
<1>13. \A e \in Did("expire") : e.tombstoned /\ e.a # e.b
  <2>1. PICK e \in Find("expire") :
          e.tombstoned = TRUE /\ (Canonical(e.a) /\ Canonical(e.b) => e.a # e.b)
    BY DEF Accepted, ExpiryOk
  <2>2. e \in Did("expire")
    BY <1>5
  <2>3. PICK j \in 1..Len(Ideal) : e \in d[j] /\ Ideal[j].kind = "expire"
    BY <1>3, <1>7, <1>8, <2>2, DidIsRange DEF Told
  <2>4. Ideal[j] = ExpireRecord
    BY <2>3, IdealCases, IdealKinds
  <2>5. e = ExpireRecord \/ e = NotTombstoned \/ e = SameId
    <3>1. \A z : Range(<<z>>) = {z}
      BY DEF Range
    <3> QED BY <1>3, <1>8, <2>3, <2>4, <3>1, RangeOfNone, DeviationsFromLater DEF Told
  <2>6. 1 # None /\ Bots + 2 # None /\ Bots + 2 # 1
    BY <1>0, NoneAssumption
  <2>7. e.a = 1 /\ e.b \in {1, Bots + 2}
    BY <2>5 DEF ExpireRecord, NotTombstoned, SameId
  <2>8. e.a # e.b
    BY <2>1, <2>6, <2>7 DEF Canonical
  <2> QED BY <1>6, <2>1, <2>2, <2>8
<1> QED
  BY <1>9, <1>10, <1>11, <1>12, <1>13
-----------------------------------------------------------------------------
(* The replay with its logs *)

RecordsInv == RecordsTypeOK /\ LossInv /\ CompleteInv /\ HappenedInv

(* Every step of a run writes records as RecordsNext does or leaves them.     *)
THEOREM RecordsInvariant == RunSpec => []RecordsInv
<1>1. RunInit => RecordsInv
  BY RecordsTypeInit, LossInvInit, CompleteInvInit, HappenedInvInit DEF RunInit, RecordsInv
<1>2. RecordsInv /\ [RunNext]_<<vars, recordVars>> => RecordsInv'
  <2> SUFFICES ASSUME RecordsInv, RunNext \/ UNCHANGED <<vars, recordVars>> PROVE RecordsInv'
    OBVIOUS
  <2>1. RecordsStep
    BY DEF RunNext, ReadRecords, RecordsStep
  <2> QED
    BY <2>1, RecordsTypeStep, LossInvStep, CompleteInvStep, HappenedInvStep DEF RecordsInv
<1> QED
  BY <1>1, <1>2, PTL DEF RunSpec

(* verifyRunFromLogs: what it accepts from logs without a fault took place:   *)
(* the room's entities (if at most one scenario deviated), the three refused  *)
(* queries, a restore by another process, a kept and a new identity.          *)
THEOREM AcceptedHappenedHolds == RunSpec => []AcceptedHappened
  BY RecordsInvariant, AcceptedDidHappen, PTL DEF RecordsInv

(* verifyRunFromLogs: a complete run passes, also with records written twice, *)
(* unless process B's own snapshot is the first one found.                    *)
THEOREM CompleteRunIsAcceptedHolds == RunSpec => []CompleteRunIsAccepted
  BY RecordsInvariant, CompleteAccepted, PTL DEF RecordsInv

(* verifyRunFromLogs: a run that broke off, or that lost a record, is refused.*)
THEOREM LossIsNoticedHolds == RunSpec => []LossIsNoticed
  BY RecordsInvariant, LossNoticed, PTL DEF RecordsInv

(* The rounds of a replay with its single records: accepted chats were said,  *)
(* honest ones are accepted, equal ones said the same.                        *)
THEOREM RunsKeepTheOracle ==
  RunSpec => [](AcceptedIsTrue /\ HonestIsAccepted /\ EqualRunsSaidTheSame)
  BY RunsAreRounds, AcceptedIsTrueHolds, HonestIsAcceptedHolds, EqualRunsSaidTheSameHolds, PTL
=============================================================================
