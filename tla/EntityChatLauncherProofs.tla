----------------------- MODULE EntityChatLauncherProofs -----------------------
(***************************************************************************)
(* Proofs about EntityChatLauncher for every number of packs and events    *)
(* and every set of chats.                                                 *)
(***************************************************************************)
EXTENDS EntityChatLauncher, TLAPS

(* The arithmetic of rounds and packs: two rounds make a pack.                  *)
LEMMA Slots ==
  /\ 1 \in Slot
  /\ \A s \in Slot : s \in Nat /\ PackOf(s) \in 1..Packs
  /\ \A s \in Slot : s % 2 = 1 => s + 1 \in Slot /\ (s + 1) % 2 = 0 /\ PackOf(s + 1) = PackOf(s)
  /\ \A s \in Slot : s % 2 # 1 => s - 1 \in Slot /\ s = 2 * PackOf(s)
  /\ \A p \in 1..Packs : 2 * p - 1 \in Slot /\ 2 * p \in Slot
  /\ \A s \in Slot : s = 2 * PackOf(s) - 1 \/ s = 2 * PackOf(s)
  BY PacksAssumption DEF Slot, PackOf

(* Rounds are numbers.                                                          *)
LEMMA SlotIsNat == \A s \in Slot : s \in Nat
  BY DEF Slot

(* From one pack to the next.                                                   *)
LEMMA NextPack ==
  ASSUME NEW s \in Slot, s % 2 # 1
  PROVE  IF PackOf(s) < Packs
           THEN s + 1 \in Slot /\ (s + 1) % 2 = 1 /\ PackOf(s + 1) = PackOf(s) + 1
           ELSE s = 2 * Packs
  BY PacksAssumption DEF Slot, PackOf

(* A pack's directory holds no round before the pack's first one.               *)
LEMMA PackBegins ==
  ASSUME NEW s \in Slot, NEW t \in Slot, t % 2 = 1, PackOf(s) = PackOf(t)
  PROVE  s >= t
  BY Slots DEF Slot, PackOf

(* The oracle's answer is "bad" or what was said.                               *)
LEMMA OracleType ==
  ASSUME NEW l \in LogType
  PROVE  Oracle(l) \in {"bad"} \cup Speech
  BY DEF Oracle, LogType

(* The logs handed to the oracle are logs.                                      *)
LEMMA LogsToVerifyType ==
  ASSUME TypeOK
  PROVE  LogsToVerify \in LogType
  BY DEF TypeOK, MainTypes, RoundTypes, WorldTypes, LogsToVerify, LogType

(* The initial states have the right types.                                     *)
LEMMA TypeInit == Init => TypeOK
<1> SUFFICES ASSUME Init PROVE TypeOK
  OBVIOUS
<1>1. MainTypes
  BY Slots DEF Init, MainTypes
<1>2. RoundTypes
  BY DEF Init, RoundTypes
<1>3. logs \in [Slot -> LogType]
  <2>1. NoLogs \in LogType
    BY EventsAssumption DEF NoLogs, LogType
  <2>2. ASSUME NEW w \in Speech PROVE OldLogs(w) \in LogType
    BY EventsAssumption DEF OldLogs, LogType
  <2> QED
    BY <2>1, <2>2 DEF Init
<1>4. heard \in [Slot -> [first : 0..Events, last : 0..Events]]
  BY EventsAssumption DEF Init, Silence
<1>5. /\ replay \in [Slot -> {"none", "running", "reaped"} \cup Ended]
      /\ static \in [Slot -> {"none", "running", "gone", "survivor"}]
  BY DEF Init
<1>6. spoken \in 0..Events
  BY EventsAssumption DEF Init
<1>7. room \in BOOLEAN /\ report \in {"absent", "plain", "blocked"}
  BY DEF Init
<1> QED
  BY <1>1, <1>2, <1>3, <1>4, <1>5, <1>6, <1>7 DEF TypeOK, WorldTypes

(* A step keeps the types of main's variables.                                  *)
LEMMA MainTypesStep == TypeOK /\ [Next]_vars => MainTypes'
<1> SUFFICES ASSUME TypeOK, [Next]_vars PROVE MainTypes'
  OBVIOUS
<1> USE DEF MainTypes
<1>1. MainTypes
  BY DEF TypeOK
<1>2. CASE Prepare
  BY <1>1, <1>2 DEF Prepare, Crash
<1>3. CASE Spawn
  BY <1>1, <1>3 DEF Spawn, Crash
<1>4. CASE Score
  <2>1. Oracle(LogsToVerify) \in {"bad"} \cup Speech
    BY OracleType, LogsToVerifyType
  <2>2. slot % 2 = 1 => slot + 1 \in Slot
    BY <1>1, Slots
  <2>3. verify' \in [Slot -> {"none", "bad"} \cup Speech]
    BY <1>1, <1>4, <2>1 DEF Score
  <2>4. blocked' \in BOOLEAN
    BY <1>1, <1>4 DEF Score
  <2> QED
    BY <1>1, <1>4, <2>2, <2>3, <2>4 DEF Score, Crash
<1>5. CASE WritePack
  <2>1. MorePacks => slot + 1 \in Slot
    BY <1>1, PacksAssumption DEF MorePacks, Slot, PackOf
  <2>2. pack' \in [1..Packs -> {"none", "SUCCESS", "BLOCKED", "FAILED"}]
    BY <1>1, <1>5 DEF WritePack
  <2> QED
    BY <1>1, <1>5, <2>1, <2>2 DEF WritePack, Crash
<1>6. CASE Conclude
  BY <1>1, <1>6 DEF Conclude, Crash
<1>7. CASE UNCHANGED <<main, slot, endVars>>
  BY <1>1, <1>7 DEF endVars
<1>8. CASE NoticeExit \/ Observer \/ Clock \/ World \/ UNCHANGED vars
  BY <1>7, <1>8
     DEF NoticeExit, Observer, WaitForRoom, Probe, ConnectOld, AwaitStatic, OpenPage,
         BrowserEnd, Clock, World, OpenRoom, Speak, Deliver, Serve, StaticExit, WriteLogs,
         ReplayExit, observerOnly, worldOnly, vars
<1> QED
  BY <1>2, <1>3, <1>4, <1>5, <1>6, <1>8 DEF Next, Main

(* A step keeps the types of the round's variables.                             *)
LEMMA RoundTypesStep == TypeOK /\ [Next]_vars => RoundTypes'
<1> SUFFICES ASSUME TypeOK, [Next]_vars PROVE RoundTypes'
  OBVIOUS
<1> USE DEF RoundTypes
<1>1. RoundTypes /\ slot \in Slot
  BY DEF TypeOK, MainTypes
<1>2. CASE Main
  BY <1>1, <1>2 DEF Main, Prepare, Spawn, Score, WritePack, Conclude, obsVars
<1>3. CASE NoticeExit
  BY <1>1, <1>3 DEF NoticeExit, obsVars
<1>4. CASE BrowserEnd
  <2>1. Interval(heard[slot]) \in SUBSET (1..Events)
    BY <1>1, EventsAssumption DEF TypeOK, WorldTypes, Interval
  <2> QED
    BY <1>1, <1>4, <2>1 DEF BrowserEnd, observerOnly
<1>5. CASE WaitForRoom \/ Probe \/ ConnectOld \/ AwaitStatic \/ OpenPage \/ Clock
  BY <1>1, <1>5
     DEF WaitForRoom, Probe, ConnectOld, AwaitStatic, OpenPage, Clock, observerOnly
<1>6. CASE World
  BY <1>1, <1>6
     DEF World, OpenRoom, Speak, Deliver, Serve, StaticExit, WriteLogs, ReplayExit, worldOnly
<1>7. CASE UNCHANGED vars
  BY <1>1, <1>7 DEF vars, obsVars
<1> QED
  BY <1>2, <1>3, <1>4, <1>5, <1>6, <1>7 DEF Next, Observer

(* A step keeps the types of the world's variables, its logs and what was heard. *)
LEMMA LogsTypeStep == TypeOK /\ [Next]_vars => logs' \in [Slot -> LogType]
<1> SUFFICES ASSUME TypeOK, [Next]_vars PROVE logs' \in [Slot -> LogType]
  OBVIOUS
<1>1. logs \in [Slot -> LogType] /\ slot \in Slot /\ spoken \in 0..Events
  BY DEF TypeOK, MainTypes, WorldTypes
<1>2. NoLogs \in LogType
  BY EventsAssumption DEF NoLogs, LogType
<1>3. ASSUME NEW S, RemoveDir(S) PROVE logs' \in [Slot -> LogType]
  BY <1>1, <1>2, <1>3 DEF RemoveDir
<1>4. CASE Prepare \/ Spawn
  BY <1>1, <1>3, <1>4 DEF Prepare, Spawn
<1>5. CASE Score
  <2>1. frames \in SUBSET (1..Events)
    BY DEF TypeOK, RoundTypes
  <2>2. CASE logs' = [logs EXCEPT ![slot].network = IF frames = {} THEN @ ELSE frames]
    BY <1>1, <2>1, <2>2 DEF LogType
  <2> QED
    BY <1>1, <1>5, <2>2 DEF Score
<1>6. ASSUME NEW s \in Slot, WriteLogs(s) PROVE logs' \in [Slot -> LogType]
  <2>1. CASE logs[s].runtime < spoken /\ logs' = [logs EXCEPT ![s].runtime = @ + 1]
    BY <1>1, <2>1, EventsAssumption DEF LogType
  <2>2. ASSUME NEW w \in Speech, logs' = [logs EXCEPT ![s].rest = w]
        PROVE  logs' \in [Slot -> LogType]
    BY <1>1, <2>2 DEF LogType
  <2> QED
    BY <1>6, <2>1, <2>2 DEF WriteLogs
<1>7. CASE UNCHANGED logs
  BY <1>1, <1>7
<1>8. CASE \/ WritePack \/ Conclude \/ NoticeExit \/ Observer \/ Clock \/ UNCHANGED vars
           \/ OpenRoom \/ Speak \/ Deliver \/ Serve \/ StaticExit \/ \E s \in Slot : ReplayExit(s)
  BY <1>7, <1>8
     DEF WritePack, Conclude, NoticeExit, Observer, WaitForRoom, Probe, ConnectOld, AwaitStatic,
         OpenPage, BrowserEnd, Clock, OpenRoom, Speak, Deliver, Serve, StaticExit,
         ReplayExit, observerOnly, vars
<1> QED
  BY <1>4, <1>5, <1>6, <1>8 DEF Next, Main, World

(* A step keeps the types of what was spoken and heard.                         *)
LEMMA HeardTypeStep ==
  TypeOK /\ [Next]_vars =>
    spoken' \in 0..Events /\ heard' \in [Slot -> [first : 0..Events, last : 0..Events]]
<1> SUFFICES ASSUME TypeOK, [Next]_vars
             PROVE  /\ spoken' \in 0..Events
                    /\ heard' \in [Slot -> [first : 0..Events, last : 0..Events]]
  OBVIOUS
<1>1. /\ spoken \in 0..Events /\ slot \in Slot
      /\ heard \in [Slot -> [first : 0..Events, last : 0..Events]]
  BY DEF TypeOK, MainTypes, WorldTypes
<1>2. CASE OpenPage
  BY <1>1, <1>2 DEF OpenPage, observerOnly, replayVars
<1>3. CASE Deliver
  BY <1>1, <1>3, EventsAssumption DEF Deliver, replayVars
<1>4. CASE Speak
  BY <1>1, <1>4, EventsAssumption DEF Speak
<1>5. CASE UNCHANGED heard /\ (UNCHANGED spoken \/ spoken' = 0)
  BY <1>1, <1>5, EventsAssumption
<1>6. CASE \/ Main \/ NoticeExit \/ Clock \/ UNCHANGED vars
           \/ WaitForRoom \/ Probe \/ ConnectOld \/ AwaitStatic \/ BrowserEnd
           \/ OpenRoom \/ Serve \/ StaticExit \/ \E s \in Slot : WriteLogs(s) \/ ReplayExit(s)
  BY <1>5, <1>6
     DEF Main, Prepare, Spawn, Score, WritePack, Conclude, NoticeExit, Clock, WaitForRoom,
         Probe, ConnectOld, AwaitStatic, BrowserEnd, OpenRoom, Serve, StaticExit, WriteLogs,
         ReplayExit, observerOnly, replayVars, vars
<1> QED
  BY <1>2, <1>3, <1>4, <1>6 DEF Next, Observer, World

(* A step keeps the types of the processes.                                     *)
LEMMA ProcessTypesStep ==
  TypeOK /\ [Next]_vars =>
    /\ replay' \in [Slot -> {"none", "running", "reaped"} \cup Ended]
    /\ room' \in BOOLEAN
    /\ report' \in {"absent", "plain", "blocked"}
    /\ static' \in [Slot -> {"none", "running", "gone", "survivor"}]
<1> DEFINE ReplayType == replay \in [Slot -> {"none", "running", "reaped"} \cup Ended]
           StaticType == static \in [Slot -> {"none", "running", "gone", "survivor"}]
           ReportType == room \in BOOLEAN /\ report \in {"absent", "plain", "blocked"}
<1> SUFFICES ASSUME TypeOK, [Next]_vars PROVE ReplayType' /\ StaticType' /\ ReportType'
  OBVIOUS
<1>1. ReplayType /\ StaticType /\ ReportType /\ slot \in Slot
  BY DEF TypeOK, MainTypes, WorldTypes
<1>2. CASE Main
  <2>1. StaticType'
    BY <1>1, <1>2 DEF Main, Prepare, Spawn, Score, WritePack, Conclude, obsVars
  <2>2. ReplayType'
    BY <1>1, <1>2 DEF Main, Prepare, Spawn, Score, WritePack, Conclude, replayVars, Ended
  <2>3. ReportType'
    BY <1>1, <1>2 DEF Main, Prepare, Spawn, Score, WritePack, Conclude, replayVars
  <2> QED
    BY <2>1, <2>2, <2>3
<1>3. CASE NoticeExit
  BY <1>1, <1>3 DEF NoticeExit, obsVars
<1>4. CASE Observer \/ Clock
  <2>1. ReplayType' /\ ReportType'
    BY <1>1, <1>4
       DEF Observer, WaitForRoom, Probe, ConnectOld, AwaitStatic, OpenPage, BrowserEnd, Clock,
           observerOnly, replayVars
  <2>2. KillStatic => StaticType'
    BY <1>1 DEF KillStatic
  <2>3. StaticType'
    BY <1>1, <1>4, <2>2
       DEF Observer, WaitForRoom, Probe, ConnectOld, AwaitStatic, OpenPage, BrowserEnd, Clock
  <2> QED
    BY <2>1, <2>3
<1>5. ASSUME NEW s \in Slot, ReplayExit(s) PROVE ReplayType' /\ StaticType' /\ ReportType'
  BY <1>1, <1>5 DEF ReplayExit, Ended
<1>6. CASE \/ OpenRoom \/ Speak \/ Deliver \/ Serve \/ StaticExit \/ UNCHANGED vars
           \/ \E s \in Slot : WriteLogs(s)
  BY <1>1, <1>6
     DEF OpenRoom, Speak, Deliver, Serve, StaticExit, WriteLogs, replayVars, obsVars, vars
<1> QED
  BY <1>2, <1>3, <1>4, <1>5, <1>6 DEF Next, World

(* Types are kept for every number of packs and events.                         *)
THEOREM TypeCorrect == Spec => []TypeOK
<1>1. TypeOK /\ [Next]_vars => TypeOK'
  BY MainTypesStep, RoundTypesStep, LogsTypeStep, HeardTypeStep, ProcessTypesStep
     DEF TypeOK, WorldTypes
<1> QED
  BY TypeInit, <1>1, PTL DEF Spec
-----------------------------------------------------------------------------
(* The inductive invariant *)

(* Rounds are judged in order, each once; a pack is written after its second    *)
(* round (runPack, main).                                                       *)
RoundsInOrder ==
  /\ main = "prepare" => slot = 1
  /\ main \in {"prepare", "spawn", "round"} => \A s \in Slot : verify[s] = "none" <=> s >= slot
  /\ main = "pack" => slot % 2 # 1 /\ \A s \in Slot : verify[s] = "none" <=> s > slot
  /\ main = "conclude" => \A s \in Slot : verify[s] # "none"

(* Nothing is decided before the end; exit code 0 needs a good answer for every *)
(* round.                                                                       *)
Undecided ==
  /\ status = "none" <=> ~Over
  /\ main # "exited" => verdict = "none"
  /\ status = "zero" => \A s \in Slot : verify[s] \notin {"none", "bad"}

(* The replay of a round has gone before the round is judged (Promise.all).     *)
ReplayGone ==
  /\ ReplayStaysInItsRound
  /\ main \in {"prepare", "spawn", "pack", "conclude"} => exitSeen = "pending"
  /\ main = "round" /\ exitSeen # "pending" => replay[slot] = "reaped"
  /\ \A s \in Slot : verify[s] # "none" => replay[s] = "reaped"

(* The observer works during its round only, and hands over frames at its end.  *)
ObserverInRound ==
  /\ obs \notin {"idle", "done"} => main = "round"
  /\ StaticServerIsReleased
  /\ page = "open" => obs = "browser"
  /\ frames # {} => obs = "done" /\ frames = Interval(heard[slot])
  /\ main \in {"prepare", "spawn", "pack", "conclude"} => frames = {}

(* No directory of a round still to come holds network records, so those that   *)
(* are judged are the browser's.                                                *)
NetworkIsHeard ==
  /\ main \in {"spawn", "round"} => \A s \in Slot : s >= slot => logs[s].network = {}
  /\ main = "pack" => \A s \in Slot : s > slot => logs[s].network = {}
  /\ \A s \in Slot : verify[s] \notin {"none", "bad"} => Interval(heard[s]) = 1..Events

(* The pack manifests written so far say what their rounds' answers say.        *)
PacksWritten ==
  /\ main \in {"spawn", "round", "pack", "conclude"} =>
       \A p \in 1..Packs : p < PackOf(slot) \/ main = "conclude" =>
         (pack[p] = "SUCCESS" <=> CompareRuns(verify[2 * p - 1], verify[2 * p]))
  /\ ManifestsAgree

IInv ==
  /\ TypeOK
  /\ RoundsInOrder
  /\ Undecided
  /\ ReplayGone
  /\ ObserverInRound
  /\ JudgedLogsAreFinal
  /\ NetworkIsHeard
  /\ PacksWritten
-----------------------------------------------------------------------------
(* The invariant is kept *)

(* Only main's own steps change what main decides on.                           *)
LEMMA MainDecides == [Next]_vars => Main \/ UNCHANGED <<main, slot, endVars>>
  BY DEF Next, NoticeExit, Observer, WaitForRoom, Probe, ConnectOld, AwaitStatic, OpenPage,
         BrowserEnd, Clock, World, OpenRoom, Speak, Deliver, Serve, StaticExit, WriteLogs,
         ReplayExit, observerOnly, worldOnly, vars

(* A round that is judged gets the oracle's answer on the logs that are kept.   *)
LEMMA Judgement ==
  ASSUME TypeOK, Score, main' # "crashed"
  PROVE  /\ verify' = [verify EXCEPT ![slot] = Oracle(LogsToVerify)]
         /\ logs' = [logs EXCEPT ![slot] = LogsToVerify]
         /\ Oracle(LogsToVerify) # "none"
<1>1. verify' = [verify EXCEPT ![slot] = Oracle(LogsToVerify)]
  BY DEF Score, Crash
<1>2. logs' = [logs EXCEPT ![slot] = LogsToVerify]
  BY DEF Score, Crash, LogsToVerify
<1>3. Oracle(LogsToVerify) # "none"
  BY OracleType, LogsToVerifyType, SpeechAssumption
<1> QED
  BY <1>1, <1>2, <1>3

(* The rounds are still judged in order after a step.                           *)
LEMMA OrderStep == IInv /\ [Next]_vars => RoundsInOrder'
<1> SUFFICES ASSUME IInv, [Next]_vars PROVE RoundsInOrder'
  OBVIOUS
<1> USE DEF RoundsInOrder
<1>1. TypeOK /\ RoundsInOrder /\ slot \in Slot /\ verify \in [Slot -> {"none", "bad"} \cup Speech]
  BY DEF IInv, TypeOK, MainTypes
<1>2. CASE Prepare
  BY <1>1, <1>2 DEF Prepare, Crash
<1>3. CASE Spawn
  BY <1>1, <1>3 DEF Spawn, Crash
<1>4. CASE Score
  <2>1. CASE main' = "crashed"
    BY <2>1
  <2>2. CASE main' # "crashed"
    <3>1. \A s \in Slot : verify'[s] = "none" <=> s > slot
      <4>1. \A s \in Slot : verify[s] = "none" <=> s >= slot
        BY <1>1, <1>4 DEF Score
      <4> QED
        BY <1>1, <1>4, <2>2, <4>1, Judgement, SlotIsNat
    <3>2. CASE slot % 2 = 1
      <4>1. slot' = slot + 1 /\ main' = "spawn"
        BY <1>4, <2>2, <3>2 DEF Score, Crash
      <4> QED
        BY <1>1, <3>1, <4>1, SlotIsNat
    <3>3. CASE slot % 2 # 1
      BY <1>4, <2>2, <3>1, <3>3 DEF Score, Crash
    <3> QED
      BY <3>2, <3>3
  <2> QED
    BY <2>1, <2>2
<1>5. CASE WritePack
  <2>1. CASE main' = "spawn"
    BY <1>1, <1>5, <2>1, Slots DEF WritePack, Crash
  <2>2. CASE main' = "conclude"
    <3>1. ~(PackOf(slot) < Packs) /\ UNCHANGED verify
      BY <1>5, <2>2 DEF WritePack, Crash, MorePacks
    <3>2. slot = 2 * Packs
      BY <1>1, <1>5, <3>1, NextPack DEF WritePack
    <3> QED
      BY <1>1, <1>5, <2>2, <3>1, <3>2 DEF WritePack, Slot
  <2> QED
    BY <1>5, <2>1, <2>2 DEF WritePack, Crash
<1>6. CASE Conclude
  BY <1>1, <1>6 DEF Conclude, Crash
<1>7. CASE UNCHANGED <<main, slot, endVars>>
  BY <1>1, <1>7 DEF endVars
<1> QED
  BY <1>2, <1>3, <1>4, <1>5, <1>6, <1>7, MainDecides DEF Main

(* Only main decides, when every round has its answer.                          *)
LEMMA UndecidedStep == IInv /\ [Next]_vars => Undecided'
<1> SUFFICES ASSUME IInv, [Next]_vars PROVE Undecided'
  OBVIOUS
<1> USE DEF Undecided, Over
<1>1. Undecided /\ RoundsInOrder /\ slot \in Slot
  BY DEF IInv, TypeOK, MainTypes
<1>2. CASE Conclude
  <2>1. CASE AllPacksOk
    <3>1. ASSUME NEW s \in Slot PROVE verify[s] \notin {"none", "bad"}
      <4>1. PackOf(s) \in 1..Packs /\ (s = 2 * PackOf(s) - 1 \/ s = 2 * PackOf(s))
        BY Slots
      <4>2. CompareRuns(verify[2 * PackOf(s) - 1], verify[2 * PackOf(s)])
        BY <2>1, <4>1 DEF AllPacksOk
      <4>3. verify[s] # "none"
        BY <1>1, <1>2 DEF RoundsInOrder, Conclude
      <4> QED
        BY <4>1, <4>2, <4>3 DEF CompareRuns
    <3> QED
      BY <1>1, <1>2, <2>1, <3>1 DEF Conclude, Crash
  <2>2. CASE ~AllPacksOk
    BY <1>1, <1>2, <2>2 DEF Conclude, Crash
  <2> QED
    BY <2>1, <2>2
<1>3. CASE Prepare \/ Spawn \/ Score \/ WritePack
  BY <1>1, <1>3 DEF Prepare, Spawn, Score, WritePack, Crash
<1>4. CASE UNCHANGED <<main, slot, endVars>>
  BY <1>1, <1>4 DEF endVars
<1> QED
  BY <1>2, <1>3, <1>4, MainDecides DEF Main

(* A round is only left when its replay has exited.                             *)
LEMMA ReplayStep == IInv /\ [Next]_vars => ReplayGone'
<1> SUFFICES ASSUME IInv, [Next]_vars PROVE ReplayGone'
  OBVIOUS
<1> USE DEF ReplayGone, ReplayStaysInItsRound
<1>1. /\ TypeOK /\ ReplayGone /\ RoundsInOrder /\ slot \in Slot
      /\ verify \in [Slot -> {"none", "bad"} \cup Speech]
      /\ replay \in [Slot -> {"none", "running", "reaped"} \cup Ended]
  BY DEF IInv, TypeOK, MainTypes, WorldTypes
<1>2. CASE Spawn
  <2>1. /\ verify[slot] = "none" /\ exitSeen = "pending"
        /\ \A s \in Slot : replay[s] # "running"
    BY <1>1, <1>2, SlotIsNat DEF Spawn, RoundsInOrder
  <2>2. UNCHANGED <<slot, exitSeen, verify>>
    BY <1>2 DEF Spawn
  <2>3. CASE main' = "crashed" /\ UNCHANGED replay
    BY <1>1, <2>1, <2>2, <2>3
  <2>4. ASSUME NEW r \in {"running", "unspawned"}, main' = "round",
               replay' = [replay EXCEPT ![slot] = r]
        PROVE  ReplayGone'
    BY <1>1, <2>1, <2>2, <2>4
  <2> QED
    BY <1>2, <2>3, <2>4 DEF Spawn, Crash
<1>3. CASE Score
  <2>1. CASE main' = "crashed"
    BY <1>1, <1>3, <2>1 DEF Score, RoundOver
  <2>2. CASE main' # "crashed"
    <3>1. replay[slot] = "reaped" /\ UNCHANGED replay /\ exitSeen' = "pending"
      BY <1>1, <1>3, <2>2 DEF Score, RoundOver, Crash
    <3>2. \A s \in Slot : verify'[s] # "none" => replay[s] = "reaped"
      BY <1>1, <1>3, <2>2, <3>1, Judgement
    <3>3. \A s \in Slot : replay[s] # "running"
      BY <1>1, <1>3, <3>1 DEF Score
    <3> QED
      BY <1>3, <2>2, <3>1, <3>2, <3>3 DEF Score, Crash
  <2> QED
    BY <2>1, <2>2
<1>4. CASE Prepare \/ WritePack \/ Conclude
  BY <1>1, <1>4 DEF Prepare, WritePack, Conclude, Crash, replayVars
<1>5. CASE NoticeExit
  <2>1. /\ main = "round" /\ replay' = [replay EXCEPT ![slot] = "reaped"]
        /\ UNCHANGED <<main, slot, verify>>
    BY <1>5 DEF NoticeExit, endVars
  <2> QED
    BY <1>1, <2>1
<1>6. ASSUME NEW s \in Slot, ReplayExit(s) PROVE ReplayGone'
  <2>1. /\ replay[s] = "running" /\ main = "round" /\ slot = s
        /\ UNCHANGED <<main, slot, exitSeen, verify>>
    BY <1>1, <1>6 DEF ReplayExit, worldOnly, endVars
  <2>2. PICK code \in {"zero", "nonzero"} : replay' = [replay EXCEPT ![s] = code]
    BY <1>6 DEF ReplayExit
  <2>3. exitSeen = "pending" /\ verify[s] = "none"
    BY <1>1, <2>1
  <2> QED
    BY <1>1, <2>1, <2>2, <2>3
<1>7. CASE UNCHANGED <<main, slot, exitSeen, replay, verify>>
  BY <1>1, <1>7
<1>8. CASE \/ Observer \/ Clock \/ UNCHANGED vars
           \/ OpenRoom \/ Speak \/ Deliver \/ Serve \/ StaticExit \/ \E s \in Slot : WriteLogs(s)
  BY <1>7, <1>8
     DEF Observer, WaitForRoom, Probe, ConnectOld, AwaitStatic, OpenPage, BrowserEnd, Clock,
         OpenRoom, Speak, Deliver, Serve, StaticExit, WriteLogs, observerOnly, worldOnly,
         replayVars, endVars, vars
<1> QED
  BY <1>2, <1>3, <1>4, <1>5, <1>6, <1>8 DEF Next, Main, World

(* The observer ends with its round, its static server and page with it.        *)
LEMMA ObserverStep == IInv /\ [Next]_vars => ObserverInRound'
<1> SUFFICES ASSUME IInv, [Next]_vars PROVE ObserverInRound'
  OBVIOUS
<1> USE DEF ObserverInRound, StaticServerIsReleased
<1>1. /\ ObserverInRound /\ ReplayGone /\ slot \in Slot
      /\ obs \in {"idle", "wait", "probe", "old", "static", "browser", "done"}
      /\ static \in [Slot -> {"none", "running", "gone", "survivor"}]
      /\ heard \in [Slot -> [first : 0..Events, last : 0..Events]]
  BY DEF IInv, TypeOK, MainTypes, RoundTypes, WorldTypes
<1>2. CASE Prepare \/ WritePack \/ Conclude
  <2>1. UNCHANGED <<obs, static, page, frames, heard>> /\ main # "round"
    BY <1>2 DEF Prepare, WritePack, Conclude, obsVars
  <2>2. frames = {}
    BY <1>1, <1>2 DEF Prepare, WritePack, Conclude
  <2> QED
    BY <1>1, <2>1, <2>2
<1>3. CASE Spawn
  BY <1>1, <1>3 DEF Spawn, Crash
<1>4. CASE Score
  BY <1>1, <1>4 DEF Score, RoundOver, Crash, obsVars
<1>5. CASE NoticeExit
  BY <1>1, <1>5 DEF NoticeExit, obsVars
<1>6. CASE BrowserEnd
  <2>1. /\ main = "round" /\ obs' = "done" /\ page' = "closed"
        /\ frames' # {} => frames' = Interval(heard[slot])
        /\ UNCHANGED <<main, slot, heard>>
    BY <1>1, <1>6 DEF BrowserEnd, observerOnly
  <2>2. \A s \in Slot : static'[s] # "running"
    BY <1>1, <1>6 DEF BrowserEnd, KillStatic
  <2> QED
    BY <2>1, <2>2
<1>7. CASE AwaitStatic
  <2>1. /\ main = "round" /\ frames = {} /\ page # "open"
        /\ UNCHANGED <<main, slot, heard, page, frames>>
    BY <1>1, <1>7 DEF AwaitStatic, observerOnly
  <2>2. CASE obs' = "browser" /\ UNCHANGED static
    BY <1>1, <1>7, <2>1, <2>2 DEF AwaitStatic
  <2>3. CASE obs' = "done" /\ KillStatic
    <3>1. \A s \in Slot : static'[s] # "running"
      BY <1>1, <1>7, <2>3 DEF AwaitStatic, KillStatic
    <3> QED
      BY <2>1, <2>3, <3>1
  <2> QED
    BY <1>7, <2>2, <2>3 DEF AwaitStatic
<1>8. CASE WaitForRoom \/ Probe \/ ConnectOld \/ OpenPage \/ Clock
  <2>1. frames = {} /\ main = "round"
    BY <1>1, <1>8 DEF WaitForRoom, Probe, ConnectOld, OpenPage, Clock
  <2> QED
    BY <1>1, <1>8, <2>1
       DEF WaitForRoom, Probe, ConnectOld, OpenPage, Clock, observerOnly
<1>9. CASE Deliver
  <2>1. obs = "browser" /\ frames = {} /\ UNCHANGED <<main, slot, obs, static, page, frames>>
    BY <1>1, <1>9 DEF Deliver, worldOnly
  <2> QED
    BY <1>1, <2>1
<1>10. CASE StaticExit
  BY <1>1, <1>10 DEF StaticExit, worldOnly
<1>11. CASE \/ OpenRoom \/ Speak \/ Serve \/ UNCHANGED vars
            \/ \E s \in Slot : WriteLogs(s) \/ ReplayExit(s)
  <2>1. UNCHANGED <<main, slot, obs, static, page, frames, heard>>
    BY <1>11 DEF OpenRoom, Speak, Serve, WriteLogs, ReplayExit, worldOnly, obsVars, vars
  <2> QED
    BY <1>1, <2>1
<1> QED
  BY <1>2, <1>3, <1>4, <1>5, <1>6, <1>7, <1>8, <1>9, <1>10, <1>11 DEF Next, Main, Observer, World

(* Only logs of the round being run change, and those of judged rounds stay.    *)
LEMMA JudgedStep == IInv /\ [Next]_vars => JudgedLogsAreFinal'
<1> SUFFICES ASSUME IInv, [Next]_vars PROVE JudgedLogsAreFinal'
  OBVIOUS
<1> USE DEF JudgedLogsAreFinal
<1>1. /\ TypeOK /\ JudgedLogsAreFinal /\ RoundsInOrder /\ ReplayGone /\ slot \in Slot
      /\ verify \in [Slot -> {"none", "bad"} \cup Speech]
      /\ logs \in [Slot -> LogType]
  BY DEF IInv, TypeOK, MainTypes, WorldTypes
<1>2. CASE Prepare
  <2>1. UNCHANGED verify /\ \A s \in Slot : verify[s] = "none"
    BY <1>1, <1>2, SlotIsNat DEF Prepare, RoundsInOrder, Slot
  <2> QED
    BY <2>1
<1>3. CASE Spawn
  <2>1. \A s \in Slot : verify[s] # "none" => logs'[s] = logs[s]
    <3>1. \A s \in Slot : verify[s] # "none" => ~(s >= slot)
      BY <1>1, <1>3 DEF Spawn, RoundsInOrder
    <3>2. \A s \in Slot : s \in {t \in Slot : PackOf(t) = PackOf(slot)} /\ slot % 2 = 1 => s >= slot
      BY <1>1, PackBegins
    <3> QED
      BY <1>1, <1>3, <3>1, <3>2 DEF Spawn, RemoveDir
  <2> QED
    BY <1>1, <1>3, <2>1 DEF Spawn
<1>4. CASE Score
  <2>1. CASE main' = "crashed"
    BY <1>1, <1>4, <2>1 DEF Score
  <2>2. CASE main' # "crashed"
    BY <1>1, <1>4, <2>2, Judgement
  <2> QED
    BY <2>1, <2>2
<1>5. ASSUME NEW s \in Slot, WriteLogs(s) PROVE JudgedLogsAreFinal'
  <2>1. verify[s] = "none" /\ UNCHANGED verify
    BY <1>1, <1>5 DEF WriteLogs, worldOnly, endVars, ReplayGone
  <2>2. \A t \in Slot : t # s => logs'[t] = logs[t]
    BY <1>1, <1>5 DEF WriteLogs
  <2> QED
    BY <1>1, <2>1, <2>2
<1>6. CASE UNCHANGED <<logs, verify>>
  BY <1>1, <1>6
<1>7. CASE \/ WritePack \/ Conclude \/ NoticeExit \/ Observer \/ Clock \/ UNCHANGED vars
           \/ OpenRoom \/ Speak \/ Deliver \/ Serve \/ StaticExit \/ \E s \in Slot : ReplayExit(s)
  BY <1>6, <1>7
     DEF WritePack, Conclude, NoticeExit, Observer, WaitForRoom, Probe, ConnectOld, AwaitStatic,
         OpenPage, BrowserEnd, Clock, OpenRoom, Speak, Deliver, Serve, StaticExit,
         ReplayExit, observerOnly, worldOnly, endVars, vars
<1> QED
  BY <1>2, <1>3, <1>4, <1>5, <1>7 DEF Next, Main, World

(* Only the observer of a round writes network records, to its own logs.        *)
LEMMA NetworkStep == IInv /\ [Next]_vars => NetworkIsHeard'
<1> SUFFICES ASSUME IInv, [Next]_vars PROVE NetworkIsHeard'
  OBVIOUS
<1> USE DEF NetworkIsHeard
<1>1. /\ TypeOK /\ NetworkIsHeard /\ RoundsInOrder /\ ReplayGone /\ ObserverInRound
      /\ slot \in Slot
      /\ verify \in [Slot -> {"none", "bad"} \cup Speech]
      /\ logs \in [Slot -> LogType]
      /\ heard \in [Slot -> [first : 0..Events, last : 0..Events]]
  BY DEF IInv, TypeOK, MainTypes, WorldTypes
<1>2. NoLogs.network = {}
  BY DEF NoLogs
<1>3. CASE Prepare
  BY <1>1, <1>2, <1>3 DEF Prepare, RemoveDir, Crash
<1>4. CASE Spawn
  <2>1. \A s \in Slot : s >= slot => logs'[s].network = {}
    BY <1>1, <1>2, <1>4 DEF Spawn, RemoveDir
  <2> QED
    BY <1>1, <1>4, <2>1 DEF Spawn, Crash
<1>5. CASE Score
  <2>1. CASE main' = "crashed"
    BY <1>1, <1>5, <2>1 DEF Score
  <2>2. CASE main' # "crashed"
    <3>1. /\ verify' = [verify EXCEPT ![slot] = Oracle(LogsToVerify)]
          /\ logs' = [logs EXCEPT ![slot] = LogsToVerify]
          /\ UNCHANGED heard
      BY <1>1, <1>5, <2>2, Judgement DEF Score
    <3>2. Oracle(LogsToVerify) # "bad" => Interval(heard[slot]) = 1..Events
      <4>1. logs[slot].network = {}
        BY <1>1, <1>5, SlotIsNat DEF Score
      <4>2. 1 \in 1..Events
        BY EventsAssumption
      <4>3. LogsToVerify.network = frames
        BY <1>1, <4>1 DEF LogsToVerify, LogType
      <4>4. Oracle(LogsToVerify) # "bad" => frames = 1..Events
        BY <4>3 DEF Oracle
      <4> QED
        BY <1>1, <4>2, <4>4 DEF ObserverInRound
    <3>3. \A s \in Slot : s > slot => logs'[s].network = {}
      <4>1. \A s \in Slot : s > slot => s >= slot /\ s # slot
        BY <1>1, SlotIsNat
      <4>2. \A s \in Slot : s # slot => logs'[s] = logs[s]
        BY <1>1, <3>1
      <4> QED
        BY <1>1, <1>5, <4>1, <4>2 DEF Score
    <3>4. (slot' = slot + 1 /\ main' = "spawn") \/ (slot' = slot /\ main' = "pack")
      BY <1>5, <2>2 DEF Score, Crash
    <3>5. \A s \in Slot : verify'[s] \notin {"none", "bad"} => Interval(heard'[s]) = 1..Events
      BY <1>1, <3>1, <3>2
    <3> QED
      BY <1>1, <3>3, <3>4, <3>5, SlotIsNat
  <2> QED
    BY <2>1, <2>2
<1>6. CASE WritePack
  <2>1. UNCHANGED <<logs, verify, heard>> /\ main = "pack"
    BY <1>6 DEF WritePack
  <2>2. (slot' = slot + 1 /\ main' = "spawn") \/ main' \in {"conclude", "crashed"}
    BY <1>6 DEF WritePack, Crash
  <2>3. \A s \in Slot : s >= slot + 1 => s > slot
    BY <1>1, SlotIsNat
  <2> QED
    BY <1>1, <2>1, <2>2, <2>3
<1>7. CASE Conclude
  BY <1>1, <1>7 DEF Conclude, Crash
<1>8. CASE OpenPage \/ Deliver
  <2>1. main = "round" /\ verify[slot] = "none" /\ UNCHANGED <<main, slot, verify, logs>>
    BY <1>1, <1>8, SlotIsNat
       DEF OpenPage, Deliver, ObserverInRound, RoundsInOrder, observerOnly, worldOnly, endVars
  <2>2. \A s \in Slot : s # slot => heard'[s] = heard[s]
    BY <1>1, <1>8 DEF OpenPage, Deliver
  <2> QED
    BY <1>1, <2>1, <2>2
<1>9. ASSUME NEW s \in Slot, WriteLogs(s) PROVE NetworkIsHeard'
  <2>1. \A t \in Slot : logs'[t].network = logs[t].network
    <3>1. CASE logs' = [logs EXCEPT ![s].runtime = @ + 1]
      BY <1>1, <3>1 DEF LogType
    <3>2. ASSUME NEW w \in Speech, logs' = [logs EXCEPT ![s].rest = w]
          PROVE  \A t \in Slot : logs'[t].network = logs[t].network
      BY <1>1, <3>2 DEF LogType
    <3> QED
      BY <1>9, <3>1, <3>2 DEF WriteLogs
  <2> QED
    BY <1>1, <1>9, <2>1 DEF WriteLogs, worldOnly, endVars
<1>10. CASE UNCHANGED <<main, slot, logs, verify, heard>>
  BY <1>1, <1>10
<1>11. CASE \/ NoticeExit \/ Clock \/ UNCHANGED vars
            \/ WaitForRoom \/ Probe \/ ConnectOld \/ AwaitStatic \/ BrowserEnd
            \/ OpenRoom \/ Speak \/ Serve \/ StaticExit \/ \E s \in Slot : ReplayExit(s)
  BY <1>10, <1>11
     DEF NoticeExit, Clock, WaitForRoom, Probe, ConnectOld, AwaitStatic, BrowserEnd, OpenRoom,
         Speak, Serve, StaticExit, ReplayExit, observerOnly, worldOnly, endVars, vars
<1> QED
  BY <1>3, <1>4, <1>5, <1>6, <1>7, <1>8, <1>9, <1>11 DEF Next, Main, Observer, World

(* A pack is written once, from the answers of its two rounds.                  *)
LEMMA PacksStep == IInv /\ [Next]_vars => PacksWritten'
<1> SUFFICES ASSUME IInv, [Next]_vars PROVE PacksWritten'
  OBVIOUS
<1> DEFINE Says(p) == pack[p] = "SUCCESS" <=> CompareRuns(verify[2 * p - 1], verify[2 * p])
<1> USE DEF PacksWritten
<1>1. /\ TypeOK /\ PacksWritten /\ RoundsInOrder /\ Undecided /\ JudgedLogsAreFinal
      /\ slot \in Slot
      /\ verify \in [Slot -> {"none", "bad"} \cup Speech]
      /\ pack \in [1..Packs -> {"none", "SUCCESS", "BLOCKED", "FAILED"}]
  BY DEF IInv, TypeOK, MainTypes
<1>2. CASE Prepare \/ Spawn
  <2>1. /\ UNCHANGED <<slot, pack, verify>> /\ main # "conclude" /\ main' # "conclude"
        /\ verdict' \in {"none", "BLOCKED"}
    BY <1>1, <1>2 DEF Prepare, Spawn, Undecided, Crash
  <2>2. CASE Prepare
    <3>1. PackOf(slot) = 1
      BY <1>1, <2>2 DEF Prepare, RoundsInOrder, PackOf
    <3> QED
      BY <2>1, <3>1, PacksAssumption DEF ManifestsAgree
  <2>3. CASE Spawn
    BY <1>1, <2>1, <2>3 DEF Spawn, ManifestsAgree
  <2> QED
    BY <1>2, <2>2, <2>3
<1>3. CASE Score
  <2>1. /\ UNCHANGED <<pack, verdict>> /\ verdict = "none"
        /\ main = "round" /\ main' \in {"crashed", "spawn", "pack"}
    BY <1>1, <1>3 DEF Score, Crash, Undecided
  <2>2. CASE main' = "crashed"
    BY <2>1, <2>2 DEF ManifestsAgree
  <2>3. CASE main' # "crashed"
    <3>1. PackOf(slot') = PackOf(slot)
      BY <1>1, <1>3, <2>3, Slots DEF Score, Crash
    <3>2. ASSUME NEW p \in 1..Packs, p < PackOf(slot) PROVE Says(p)'
      <4>1. 2 * p - 1 # slot /\ 2 * p # slot
        BY <1>1, <3>2 DEF PackOf, Slot
      <4>2. verify'[2 * p - 1] = verify[2 * p - 1] /\ verify'[2 * p] = verify[2 * p]
        BY <1>1, <1>3, <2>3, <4>1, Judgement, Slots
      <4> QED
        BY <1>1, <2>1, <3>2, <4>2
    <3> QED
      BY <2>1, <2>3, <3>1, <3>2 DEF ManifestsAgree
  <2> QED
    BY <2>2, <2>3
<1>4. CASE WritePack
  <2>1. /\ UNCHANGED <<verify, verdict>> /\ verdict = "none" /\ main = "pack" /\ slot % 2 # 1
        /\ main' \in {"crashed", "spawn", "conclude"}
    BY <1>1, <1>4 DEF WritePack, Crash, Undecided, RoundsInOrder
  <2>2. CASE main' = "crashed"
    BY <2>1, <2>2 DEF ManifestsAgree
  <2>3. CASE main' # "crashed"
    <3> DEFINE conclusion == IF CompareRuns(verify[slot - 1], verify[slot]) THEN "SUCCESS"
                             ELSE IF blocked THEN "BLOCKED" ELSE "FAILED"
    <3>1. PackOf(slot) \in 1..Packs /\ slot = 2 * PackOf(slot)
      BY <1>1, <2>1, Slots
    <3>2. pack' = [pack EXCEPT ![PackOf(slot)] = conclusion]
      BY <1>4, <2>3 DEF WritePack, Crash
    <3>3. conclusion = "SUCCESS" <=> CompareRuns(verify[slot - 1], verify[slot])
      OBVIOUS
    <3>4. ASSUME NEW p \in 1..Packs, p = PackOf(slot) PROVE Says(p)'
      <4>1. pack'[p] = conclusion
        BY <1>1, <3>1, <3>2, <3>4
      <4>2. verify'[2 * p - 1] = verify[slot - 1] /\ verify'[2 * p] = verify[slot]
        BY <2>1, <3>1, <3>4
      <4> HIDE DEF conclusion
      <4> QED
        BY <3>3, <4>1, <4>2
    <3>5. ASSUME NEW p \in 1..Packs, p < PackOf(slot) PROVE Says(p)'
      BY <1>1, <2>1, <3>1, <3>2, <3>5
    <3>6. \A p \in 1..Packs : p < PackOf(slot') \/ main' = "conclude" => p <= PackOf(slot)
      <4>1. CASE main' = "spawn"
        <5>1. PackOf(slot) < Packs /\ slot' = slot + 1
          BY <1>4, <2>3, <4>1 DEF WritePack, Crash, MorePacks
        <5>2. PackOf(slot') = PackOf(slot) + 1
          BY <1>1, <2>1, <5>1, NextPack
        <5> QED
          BY <3>1, <4>1, <5>2
      <4>2. CASE main' = "conclude"
        <5>1. ~(PackOf(slot) < Packs)
          BY <1>4, <2>3, <4>2 DEF WritePack, Crash, MorePacks
        <5> QED
          BY <3>1, <5>1, PacksAssumption
      <4> QED
        BY <2>1, <2>3, <4>1, <4>2
    <3>7. \A p \in 1..Packs : p <= PackOf(slot) => p < PackOf(slot) \/ p = PackOf(slot)
      BY <3>1
    <3>8. \A p \in 1..Packs : p < PackOf(slot') \/ main' = "conclude" => Says(p)'
      <4> HIDE DEF Says
      <4> QED
        BY <3>4, <3>5, <3>6, <3>7
    <3> QED
      BY <2>1, <2>3, <3>8 DEF ManifestsAgree
  <2> QED
    BY <2>2, <2>3
<1>5. CASE Conclude
  <2>1. UNCHANGED <<slot, pack, verify, logs>> /\ main' \in {"exited", "crashed"}
    BY <1>5 DEF Conclude, Crash
  <2>2. AllPacksOk <=> \A p \in 1..Packs : pack[p] = "SUCCESS"
    <3>1. \A s \in Slot : verify[s] = Oracle(logs[s])
      BY <1>1, <1>5 DEF Conclude, RoundsInOrder, JudgedLogsAreFinal
    <3>2. \A p \in 1..Packs :
            /\ VerifyEvidenceDir(p) <=> CompareRuns(verify[2 * p - 1], verify[2 * p])
            /\ Says(p)
      BY <1>1, <1>5, <3>1, Slots DEF VerifyEvidenceDir, Conclude
    <3> QED
      BY <3>2 DEF AllPacksOk
  <2>3. verdict' = "none" \/ verdict' = IF AllPacksOk THEN "SUCCESS" ELSE "FAILED"
    BY <1>1, <1>5 DEF Conclude, Undecided
  <2> QED
    BY <2>1, <2>2, <2>3 DEF ManifestsAgree
<1>6. CASE UNCHANGED <<main, slot, endVars>>
  BY <1>1, <1>6 DEF ManifestsAgree, endVars
<1> QED
  BY <1>2, <1>3, <1>4, <1>5, <1>6, MainDecides DEF Main

(* The initial states satisfy the invariant.                                    *)
LEMMA InvInit == Init => IInv
<1> SUFFICES ASSUME Init PROVE IInv
  OBVIOUS
<1>1. RoundsInOrder /\ Undecided
  BY SlotIsNat DEF Init, RoundsInOrder, Undecided, Over, Slot
<1>2. ReplayGone /\ ObserverInRound
  BY DEF Init, ReplayGone, ReplayStaysInItsRound, ObserverInRound, StaticServerIsReleased
<1>3. JudgedLogsAreFinal /\ NetworkIsHeard
  BY DEF Init, JudgedLogsAreFinal, NetworkIsHeard
<1>4. PacksWritten
  BY DEF Init, PacksWritten, ManifestsAgree
<1> QED
  BY <1>1, <1>2, <1>3, <1>4, TypeInit DEF IInv

(* The invariant holds in every state, for every number of packs and events.    *)
THEOREM Inductive == Spec => []IInv
<1>1. IInv /\ [Next]_vars => IInv'
  <2> SUFFICES ASSUME IInv, [Next]_vars PROVE IInv'
    OBVIOUS
  <2>1. TypeOK'
    BY MainTypesStep, RoundTypesStep, LogsTypeStep, HeardTypeStep, ProcessTypesStep
       DEF IInv, TypeOK, WorldTypes
  <2> QED
    BY <2>1, OrderStep, UndecidedStep, ReplayStep, ObserverStep, JudgedStep, NetworkStep, PacksStep
       DEF IInv
<1> QED
  BY InvInit, <1>1, PTL DEF Spec
-----------------------------------------------------------------------------
(* What follows *)

(* Exit code 0 means that every round's replay has come and gone and its chat   *)
(* was heard by the browser in full (runOneRound, verifyRunFromLogs).           *)
THEOREM Witnessed == Spec => []SuccessIsWitnessed
<1>1. IInv => SuccessIsWitnessed
  BY DEF IInv, Undecided, ReplayGone, NetworkIsHeard, SuccessIsWitnessed
<1> QED
  BY <1>1, Inductive, PTL

(* A replay only lives during its own round (Promise.all in runOneRound).       *)
THEOREM ReplayInRound == Spec => []ReplayStaysInItsRound
<1>1. IInv => ReplayStaysInItsRound
  BY DEF IInv, ReplayGone
<1> QED
  BY <1>1, Inductive, PTL

(* No static server runs on after its observation has ended (finally).          *)
THEOREM StaticReleased == Spec => []StaticServerIsReleased
<1>1. IInv => StaticServerIsReleased
  BY DEF IInv, ObserverInRound
<1> QED
  BY <1>1, Inductive, PTL

(* The logs a round was judged by are the logs kept (runOneRound).              *)
THEOREM LogsAreFinal == Spec => []JudgedLogsAreFinal
<1>1. IInv => JudgedLogsAreFinal
  BY DEF IInv
<1> QED
  BY <1>1, Inductive, PTL

(* The top-level manifest and those of the packs agree (main).                  *)
THEOREM AllManifestsAgree == Spec => []ManifestsAgree
<1>1. IInv => ManifestsAgree
  BY DEF IInv, PacksWritten
<1> QED
  BY <1>1, Inductive, PTL

(* The launcher implements its gate, for every number of packs.                 *)
THEOREM Refinement == Spec => ImplementsGate
<1> DEFINE judged == [s \in Slot |-> CASE verify[s] = "none" -> "pending"
                                     [] verify[s] = "bad"  -> "bad"
                                     [] OTHER              -> "good"]
<1>1. Init => Gate!GateInit
  BY DEF Init, Gate!GateInit, Slot
<1>2. ASSUME IInv, [Next]_vars
      PROVE  [Gate!GateNext]_Gate!gateVars
  <2>1. /\ TypeOK /\ RoundsInOrder /\ Undecided /\ slot \in Slot
        /\ verify \in [Slot -> {"none", "bad"} \cup Speech]
        /\ status \in {"none", "zero", "one"}
    BY <1>2 DEF IInv, TypeOK, MainTypes
  <2>2. CASE UNCHANGED <<verify, status>>
    BY <2>2 DEF Gate!gateVars
  <2>3. CASE UNCHANGED verify /\ status = "none" /\ status' = "one"
    <3>1. Gate!Fail
      BY <2>3 DEF Gate!Fail
    <3> QED
      BY <3>1 DEF Gate!GateNext
  <2>4. CASE Score /\ main' # "crashed"
    <3>1. /\ verify' = [verify EXCEPT ![slot] = Oracle(LogsToVerify)]
          /\ Oracle(LogsToVerify) # "none"
      BY <2>1, <2>4, Judgement
    <3>2. UNCHANGED status /\ status = "none" /\ main = "round"
      BY <2>1, <2>4 DEF Score, Crash, Undecided, Over
    <3>3. \A t \in Slot : judged[t] = "pending" <=> t >= slot
      BY <2>1, <3>2 DEF RoundsInOrder
    <3>4. \E j \in {"good", "bad"} : judged' = [judged EXCEPT ![slot] = j]
      <4>1. CASE Oracle(LogsToVerify) = "bad"
        <5>1. judged' = [judged EXCEPT ![slot] = "bad"]
          BY <2>1, <3>1, <4>1
        <5> QED
          BY <5>1
      <4>2. CASE Oracle(LogsToVerify) # "bad"
        <5>1. judged' = [judged EXCEPT ![slot] = "good"]
          BY <2>1, <3>1, <4>2
        <5> QED
          BY <5>1
      <4> QED
        BY <4>1, <4>2
    <3>5. ASSUME NEW s \in 1..(2 * Packs), s = slot
          PROVE  Gate!JudgeNext(s)
      BY <3>2, <3>3, <3>4, <3>5 DEF Gate!JudgeNext, Slot
    <3>6. slot \in 1..(2 * Packs)
      BY <2>1 DEF Slot
    <3>7. \E s \in 1..(2 * Packs) : Gate!JudgeNext(s)
      BY <3>5, <3>6
    <3> QED
      BY <3>7 DEF Gate!GateNext
  <2>5. CASE Conclude /\ status' = "zero"
    <3>1. Undecided' /\ UNCHANGED verify /\ status = "none"
      BY <1>2, <2>1, <2>5, UndecidedStep DEF Conclude, Undecided, Over
    <3>2. \A s \in Slot : judged[s] = "good"
      BY <2>5, <3>1 DEF Undecided
    <3>3. Gate!Succeed
      BY <2>5, <3>1, <3>2 DEF Gate!Succeed, Slot
    <3> QED
      BY <3>3 DEF Gate!GateNext
  <2>6. CASE Prepare \/ Spawn \/ Score \/ WritePack \/ Conclude
    BY <2>1, <2>2, <2>3, <2>4, <2>5, <2>6
       DEF Prepare, Spawn, Score, WritePack, Conclude, Crash, Undecided, Over
  <2>7. CASE UNCHANGED <<main, slot, endVars>>
    BY <2>2, <2>7 DEF endVars
  <2> QED
    BY <1>2, <2>6, <2>7, MainDecides DEF Main
<1> QED
  BY <1>1, <1>2, Inductive, PTL DEF Spec, ImplementsGate, Gate!GateSpec
=============================================================================
