------------------------- MODULE BomberPersistProofs -------------------------
(***************************************************************************)
(* Proofs about BomberPersist for every set of values and every number of  *)
(* writes, snapshots and restarts.                                         *)
(***************************************************************************)
EXTENDS BomberPersist, TLAPS

(* The captured fields are the ulong fields, all of them and no other.          *)
LEMMA KeysAreUlong == Keys = Ulong
  BY DEF Keys, Ulong, BombKeys, PlayerKeys, MatchKeys, PileKeys, PickupKeys,
         BombUlong, PlayerUlong, MatchUlong

(* Nothing but fields is captured.                                              *)
LEMMA KeysAreFields == Keys \subseteq Field
  BY KeysAreUlong DEF Field

(* A snapshot is that of the default world, empty, or holds every captured      *)
(* field as it was when it was taken.                                           *)
SnapshotOfTaken ==
  \/ DOMAIN snap = {} /\ taken = Default
  \/ DOMAIN snap = Keys /\ \A f \in Keys : snap[f] = taken[f]

(* A world that was just created has default fields.                            *)
FreshIsDefault == phase = "fresh" => world = Default

IInv ==
  /\ TypeOK
  /\ SnapshotOfTaken
  /\ FreshIsDefault
  /\ UlongFieldsSurvive

(* A new world has a value in every field.                                      *)
LEMMA DefaultType == Default \in [Field -> Value]
  BY ValueAssumption DEF Default

(* The initial states satisfy the invariant.                                    *)
LEMMA InvInit == Init => IInv
<1> SUFFICES ASSUME Init PROVE IInv
  OBVIOUS
<1>1. TypeOK
  BY DefaultType, MaxWritesAssumption DEF Init, TypeOK
<1> QED
  BY <1>1 DEF Init, IInv, SnapshotOfTaken, FreshIsDefault, UlongFieldsSurvive

(* A step keeps the types.                                                      *)
LEMMA TypeStep == TypeOK /\ [Next]_vars => TypeOK'
<1> SUFFICES ASSUME TypeOK, [Next]_vars PROVE TypeOK'
  OBVIOUS
<1> USE DEF TypeOK
<1>1. ASSUME NEW f \in Field, NEW v \in Value, WriteField(f, v) PROVE TypeOK'
  <2>1. world' \in [Field -> Value]
    BY <1>1 DEF WriteField
  <2>2. writes' \in 0..MaxWrites
    BY <1>1, MaxWritesAssumption DEF WriteField
  <2> QED
    BY <1>1, <2>1, <2>2 DEF WriteField
<1>2. CASE Capture
  BY <1>2, KeysAreFields DEF Capture, ValueUnder
<1>3. CASE Restart
  BY <1>3, DefaultType DEF Restart
<1>4. CASE Restore
  BY <1>4 DEF Restore
<1>5. CASE UNCHANGED vars
  BY <1>5 DEF vars
<1> QED
  BY <1>1, <1>2, <1>3, <1>4, <1>5 DEF Next

(* A step keeps snapshot and world in step with what was taken.                 *)
LEMMA SnapshotStep == IInv /\ [Next]_vars => SnapshotOfTaken' /\ FreshIsDefault'
<1> SUFFICES ASSUME IInv, [Next]_vars PROVE SnapshotOfTaken' /\ FreshIsDefault'
  OBVIOUS
<1> USE DEF IInv, SnapshotOfTaken, FreshIsDefault
<1>1. ASSUME NEW f \in Field, NEW v \in Value, WriteField(f, v)
      PROVE  SnapshotOfTaken' /\ FreshIsDefault'
  BY <1>1 DEF WriteField
<1>2. CASE Capture
  BY <1>2 DEF Capture, ValueUnder
<1>3. CASE Restart
  BY <1>3 DEF Restart
<1>4. CASE Restore
  BY <1>4 DEF Restore
<1>5. CASE UNCHANGED vars
  BY <1>5 DEF vars
<1> QED
  BY <1>1, <1>2, <1>3, <1>4, <1>5 DEF Next

(* A step keeps what was promised of the ulong fields.                          *)
LEMMA UlongStep == IInv /\ [Next]_vars => UlongFieldsSurvive'
<1> SUFFICES ASSUME IInv, [Next]_vars PROVE UlongFieldsSurvive'
  OBVIOUS
<1> USE DEF IInv, UlongFieldsSurvive
<1>1. CASE Restore
  <2>1. ASSUME NEW f \in Ulong PROVE world'[f] = taken[f]
    <3>1. f \in Field /\ f \in Keys
      BY KeysAreUlong DEF Field
    <3>2. CASE DOMAIN snap = {} /\ taken = Default
      BY <1>1, <3>1, <3>2 DEF Restore, FreshIsDefault
    <3>3. CASE DOMAIN snap = Keys /\ \A g \in Keys : snap[g] = taken[g]
      BY <1>1, <3>1, <3>3 DEF Restore
    <3> QED
      BY <3>2, <3>3 DEF SnapshotOfTaken
  <2> QED
    BY <1>1, <2>1 DEF Restore
<1>2. CASE Capture
  <2>1. phase = "restored" => taken' = world /\ UNCHANGED <<world, phase>>
    BY <1>2 DEF Capture
  <2> QED
    BY <1>2, <2>1 DEF Capture
<1>3. ASSUME NEW f \in Field, NEW v \in Value, WriteField(f, v) PROVE UlongFieldsSurvive'
  BY <1>3 DEF WriteField
<1>4. CASE Restart
  BY <1>4 DEF Restart
<1>5. CASE UNCHANGED vars
  BY <1>5 DEF vars
<1> QED
  BY <1>1, <1>2, <1>3, <1>4, <1>5 DEF Next

(* The invariant holds in every state.                                          *)
THEOREM Inductive == Spec => []IInv
<1>1. IInv /\ [Next]_vars => IInv'
  BY TypeStep, SnapshotStep, UlongStep DEF IInv
<1> QED
  BY InvInit, <1>1, PTL DEF Spec

(* Every field keeps its type and a snapshot carries declared fields only.      *)
THEOREM TypeCorrect == Spec => []TypeOK
<1>1. IInv => TypeOK
  BY DEF IInv
<1> QED
  BY <1>1, Inductive, PTL

(* Whatever was written, captured and lost before: a restore brings every ulong *)
(* field back as it was when the snapshot was taken (CapturePersist,            *)
(* RestorePersist).                                                             *)
THEOREM UlongsSurvive == Spec => []UlongFieldsSurvive
<1>1. IInv => UlongFieldsSurvive
  BY DEF IInv
<1> QED
  BY <1>1, Inductive, PTL
=============================================================================
