--------------------------- MODULE BomberPersist ----------------------------
(***************************************************************************)
(* Snapshot and restore of the Bomber components.  Every Sync field of the *)
(* five components is declared [Persist]; the generated CapturePersist and *)
(* RestorePersist decide what a snapshot carries.  The world that calls    *)
(* them (WorldManager) is external: a crash loses it, a new one is built   *)
(* with default fields and restored from the last snapshot.                *)
(***************************************************************************)
EXTENDS Integers, FiniteSets

CONSTANTS
  Value,     \* field values, 0 (the default) among them
  MaxWrites  \* bound: field writes in all

ASSUME ValueAssumption == 0 \in Value
ASSUME MaxWritesAssumption == MaxWrites \in Nat

(* The declared fields, by type. *)
BombUlong == {"bomb.ownerNetEntityIdRaw", "bomb.fuseEndTick", "bomb.chainId",
              "bomb.explodedAtTick", "bomb.dangerUntilTick", "bomb.burnUntilTick"}
BombInt == {"bomb.power", "bomb.bombKind", "bomb.pierceLayers",
            "bomb.reachUp", "bomb.reachDown", "bomb.reachLeft", "bomb.reachRight"}
PlayerUlong == {"player.respawnAtTick", "player.protectedUntilTick"}
MatchUlong == {"match.matchTick", "match.startTick", "match.endTick",
               "match.hatKingNetEntityIdRaw"}

Ulong == BombUlong \cup PlayerUlong \cup MatchUlong \cup {"pile.expireAtTick"}
Int32 == BombInt \cup {"player.hatCount", "match.phase", "pile.count", "pickup.kind"}
Field == Ulong \cup Int32

VARIABLES
  world,    \* world[f]: value of the field in the running world
  snap,     \* the last snapshot: a function on the field ids it carries
  taken,    \* what the world was when that snapshot was taken
  phase,    \* "running", "fresh" (restarted) or "restored" (nothing written since)
  writes    \* field writes so far

vars == <<world, snap, taken, phase, writes>>

Default == [f \in Field |-> 0]

Init ==
  /\ world = Default
  /\ snap = [f \in {} |-> 0]
  /\ taken = Default
  /\ phase = "running"
  /\ writes = 0

(* CapturePersist writes, and RestorePersist reads, WriteUInt64 fields only. *)
BombKeys == {"bomb.ownerNetEntityIdRaw", "bomb.fuseEndTick", "bomb.chainId",
             "bomb.explodedAtTick", "bomb.dangerUntilTick", "bomb.burnUntilTick"}
PlayerKeys == {"player.respawnAtTick", "player.protectedUntilTick"}

\* Variant: a captured field is missing.
MatchKeysNoEnd == {"match.matchTick", "match.startTick", "match.hatKingNetEntityIdRaw"}

MatchKeys == {"match.matchTick", "match.startTick", "match.endTick",
              "match.hatKingNetEntityIdRaw"}
PileKeys == {"pile.expireAtTick"}
PickupKeys == {}
Keys == BombKeys \cup PlayerKeys \cup MatchKeys \cup PileKeys \cup PickupKeys

\* The value CapturePersist writes under a field's id.
ValueUnder(f) == world[f]

\* WriteField, or the field's own setter.
WriteField(f, v) ==
  /\ phase # "fresh"
  /\ writes < MaxWrites
  /\ world[f] # v
  /\ world' = [world EXCEPT ![f] = v]
  /\ writes' = writes + 1
  /\ phase' = "running"
  /\ UNCHANGED <<snap, taken>>

\* CaptureSnapshot: CapturePersist of every component.
Capture ==
  /\ phase # "fresh"
  /\ snap' = [f \in Keys |-> ValueUnder(f)]
  /\ taken' = world
  /\ UNCHANGED <<world, phase, writes>>

\* The world is lost; a new one starts with default fields.
Restart ==
  /\ world' = Default
  /\ phase' = "fresh"
  /\ UNCHANGED <<snap, taken, writes>>

\* RestorePersist of every component: TryReadUInt64, then SetSilent.
Restore ==
  /\ phase = "fresh"
  /\ world' = [f \in Field |-> IF f \in DOMAIN snap \cap Keys THEN snap[f] ELSE world[f]]
  /\ phase' = "restored"
  /\ UNCHANGED <<snap, taken, writes>>

Next ==
  \/ \E f \in Field, v \in Value : WriteField(f, v)
  \/ Capture \/ Restart \/ Restore

Spec == Init /\ [][Next]_vars
-----------------------------------------------------------------------------
(* Properties *)

\* Types; and a snapshot carries no field id that no component declares.
TypeOK ==
  /\ world \in [Field -> Value]
  /\ DOMAIN snap \subseteq Field /\ \A f \in DOMAIN snap : snap[f] \in Value
  /\ taken \in [Field -> Value]
  /\ phase \in {"running", "fresh", "restored"}
  /\ writes \in 0..MaxWrites

\* Deadlines, ids and the hat king come back from a restart as they were when
\* the snapshot was taken: no ulong field is lost or swapped.
UlongFieldsSurvive ==
  phase = "restored" => \A f \in Ulong : world[f] = taken[f]

\* [Persist] on every field (and "persistent" in the generated registry): what
\* was captured is what is restored, so a match comes back in the phase it was in.
PersistFieldsSurvive ==
  phase = "restored" => \A f \in Field : world[f] = taken[f]
=============================================================================
