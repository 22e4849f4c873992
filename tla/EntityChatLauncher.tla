------------------------- MODULE EntityChatLauncher -------------------------
(***************************************************************************)
(* integration/entity-chat/launcher.mjs: packs of two rounds.  A round     *)
(* spawns the replay process and, beside it, the observer: it looks for    *)
(* the room of the replay, starts a static server and lets a browser watch *)
(* the chat.  The round is over when both have ended; then the observer's  *)
(* frames join the logs of the replay and the oracle reads them.           *)
(*                                                                         *)
(* Two tasks share the event loop, so there are two program counters: main *)
(* (runOneRound, runPack, main) and obs (observeRound).  The replay and    *)
(* the room it opens are external: an event spoken in the room is logged   *)
(* by the replay, and a page that has joined receives it, each in its own  *)
(* time.                                                                   *)
(***************************************************************************)
EXTENDS Integers

CONSTANTS
  Packs,   \* number of packs (pack-a and pack-b in the code)
  Events,  \* chat events of a round (101 in the code)
  Speech   \* who said what: the sorted sender:text list compareRuns sees

ASSUME PacksAssumption == Packs \in Nat \ {0}
ASSUME EventsAssumption == Events \in Nat \ {0}
ASSUME SpeechAssumption == "bad" \notin Speech /\ "none" \notin Speech

VARIABLES
  main,      \* where main is
  slot,      \* round being run, counted over all packs
  replay,    \* replay[s]: the replay process as the operating system sees it
  exitSeen,  \* what spawnReplay's exit promise resolved with (abort.done)
  room,      \* the replay listens for room connections
  spoken,    \* events of this round's room
  obs,       \* the await observeRound is in
  late,      \* waitForRoom's deadline has passed
  static,    \* static[s]: static server of round s
  serving,   \* STATIC_READY was printed
  page,      \* the browser page's room connection
  heard,     \* heard[s]: the page got the events first+1 .. last of its room
  frames,    \* the events observeRound returns as network frames
  logs,      \* logs[s]: what is in the round's server and client directories
  report,    \* evidence.json as the replay leaves it
  verify,    \* verify[s]: result of verifyRunFromLogs
  blocked,   \* rounds of the current pack whose evidence.json says blocked
  pack,      \* pack[p]: conclusion in the manifest of pack p
  verdict,   \* conclusion in the top-level manifest
  status     \* exit code of the launcher

replayVars == <<replay, room, spoken, report>>
obsVars == <<obs, late, static, serving, page, frames>>
endVars == <<verify, blocked, pack, verdict, status>>
vars == <<main, slot, exitSeen, replayVars, obsVars, heard, logs, endVars>>

Slot == 1..(2 * Packs)
PackOf(s) == (s + 1) \div 2

Over == main \in {"exited", "crashed"}
Ended == {"zero", "nonzero", "unspawned"}  \* gone, its exit event not yet handled

NoLogs == [runtime |-> 0, network |-> {}, rest |-> "bad"]
OldLogs(w) == [runtime |-> Events, network |-> 1..Events, rest |-> w]
Interval(h) == (h.first + 1)..h.last
Silence == [first |-> 0, last |-> 0]

\* The evidence directory may hold an accepted run from before.
Init ==
  /\ main = "prepare"
  /\ slot = 1
  /\ replay = [s \in Slot |-> "none"]
  /\ exitSeen = "pending"
  /\ room = FALSE
  /\ spoken = 0
  /\ obs = "idle"
  /\ late = FALSE
  /\ static = [s \in Slot |-> "none"]
  /\ serving = FALSE
  /\ page = "none"
  /\ heard = [s \in Slot |-> Silence]
  /\ frames = {}
  /\ \/ logs = [s \in Slot |-> NoLogs]
     \/ \E w \in Speech : logs = [s \in Slot |-> OldLogs(w)]
  /\ report = "absent"
  /\ verify = [s \in Slot |-> "none"]
  /\ blocked = FALSE
  /\ pack = [p \in 1..Packs |-> "none"]
  /\ verdict = "none"
  /\ status = "none"
-----------------------------------------------------------------------------
(* The oracle, as far as the launcher's data goes *)

\* Variant: network records need not match the Runtime's.
OracleAnyNetwork(l) ==
  IF l.runtime = Events /\ l.network # {} THEN l.rest ELSE "bad"

\* verifyRunFromLogs: all events are in the Runtime's log, the browser's network
\* records match them exactly, and every other check passes (rest).
Oracle(l) ==
  IF l.runtime = Events /\ l.network = 1..Events THEN l.rest ELSE "bad"

\* Variant: only the second round is looked at.
SecondRoundOnly(a, b) == b # "bad"

\* compareRuns: both rounds are ok and their canonical events are the same.
CompareRuns(a, b) == a # "bad" /\ a = b

\* verifyEvidenceDir reads the kept logs of both rounds of pack p again.
VerifyEvidenceDir(p) == CompareRuns(Oracle(logs[2 * p - 1]), Oracle(logs[2 * p]))
-----------------------------------------------------------------------------
(* main, runPack and runOneRound *)

\* A file operation throws; main().catch exits with code 1.
Crash ==
  /\ main' = "crashed"
  /\ status' = "one"

\* rmSync(dir, recursive) of a directory that holds the rounds slots.
RemoveDir(slots) ==
  logs' = [s \in Slot |-> IF s \in slots THEN NoLogs ELSE logs[s]]

\* main up to the first pack: without an admissible replay binary it is BLOCKED.
Prepare ==
  /\ main = "prepare"
  /\ \/ /\ RemoveDir(Slot)
        /\ main' = "spawn"
        /\ UNCHANGED <<verdict, status>>
     \/ /\ RemoveDir(Slot)
        /\ verdict' = "BLOCKED"
        /\ status' = "one"
        /\ main' = "exited"
     \/ Crash /\ UNCHANGED <<logs, verdict>>
  /\ UNCHANGED <<slot, exitSeen, replayVars, obsVars, heard, verify, blocked, pack>>

\* runPack empties the pack's directory before its first round.  spawnReplay and
\* the call of observeRound follow; a failed spawn is an 'error' event to come.
Spawn ==
  /\ main = "spawn"
  /\ IF slot % 2 = 1
       THEN RemoveDir({s \in Slot : PackOf(s) = PackOf(slot)})
       ELSE UNCHANGED logs
  /\ \/ /\ \E r \in {"running", "unspawned"} : replay' = [replay EXCEPT ![slot] = r]
        /\ main' = "round"
        /\ obs' = "wait"
        /\ UNCHANGED status
     \/ Crash /\ UNCHANGED <<replay, obs>>
  /\ UNCHANGED <<slot, exitSeen, room, spoken, report, late, static, serving, page, frames,
                 heard, verify, blocked, pack, verdict>>

\* Variant: the round does not wait for the replay.
ObservationOver == obs = "done"

\* Promise.all([observation, replay.exit]).
RoundOver == obs = "done" /\ exitSeen # "pending"

\* Variant: the logs are verified before the network log is written.
LogsBeforeNetwork == logs[slot]

\* The round's logs once writePlaywrightNetworkLog has run: no frames, no file.
LogsToVerify ==
  [logs[slot] EXCEPT !.network = IF frames = {} THEN @ ELSE frames]

\* blockedFromReplay: evidence.json is missing or says so, or a non-zero exit.
RoundBlocked == report # "plain" \/ exitSeen = "nonzero"

\* runOneRound after Promise.all; with it the locals of the round are gone.
Score ==
  /\ main = "round" /\ RoundOver
  /\ \/ /\ verify' = [verify EXCEPT ![slot] = Oracle(LogsToVerify)]
        /\ logs' = [logs EXCEPT ![slot].network = IF frames = {} THEN @ ELSE frames]
        /\ blocked' = (blocked \/ RoundBlocked)
        /\ IF slot % 2 = 1
             THEN slot' = slot + 1 /\ main' = "spawn"
             ELSE main' = "pack" /\ UNCHANGED slot
        /\ obs' = "idle" /\ exitSeen' = "pending" /\ report' = "absent"
        /\ late' = FALSE /\ serving' = FALSE /\ page' = "none"
        /\ frames' = {} /\ spoken' = 0
        /\ UNCHANGED status
     \/ /\ Crash
        /\ UNCHANGED <<slot, exitSeen, spoken, report, obsVars, logs, verify, blocked>>
  /\ UNCHANGED <<replay, room, static, heard, pack, verdict>>

\* main calls runPack for every pack in turn.
MorePacks == PackOf(slot) < Packs

\* runPack after its second round: the manifest of the pack.
WritePack ==
  /\ main = "pack"
  /\ \/ /\ pack' = [pack EXCEPT ![PackOf(slot)] =
                      IF CompareRuns(verify[slot - 1], verify[slot]) THEN "SUCCESS"
                      ELSE IF blocked THEN "BLOCKED" ELSE "FAILED"]
        /\ blocked' = FALSE
        /\ IF MorePacks
             THEN slot' = slot + 1 /\ main' = "spawn"
             ELSE main' = "conclude" /\ UNCHANGED slot
        /\ UNCHANGED status
     \/ Crash /\ UNCHANGED <<slot, pack, blocked>>
  /\ UNCHANGED <<exitSeen, replayVars, obsVars, heard, logs, verify, verdict>>

\* Variant: each round for itself, not the two of a pack against each other.
EveryRoundOk == \A s \in Slot : verify[s] # "bad" /\ Oracle(logs[s]) # "bad"

\* main's end: every pack as compared by runPack and as read back from its logs.
AllPacksOk ==
  \A p \in 1..Packs :
    CompareRuns(verify[2 * p - 1], verify[2 * p]) /\ VerifyEvidenceDir(p)

Conclude ==
  /\ main = "conclude"
  /\ \/ /\ verdict' = IF AllPacksOk THEN "SUCCESS" ELSE "FAILED"
        /\ status' = IF AllPacksOk THEN "zero" ELSE "one"
        /\ main' = "exited"
     \/ Crash /\ UNCHANGED verdict
  /\ UNCHANGED <<slot, exitSeen, replayVars, obsVars, heard, logs, verify, blocked, pack>>

\* Variant: the 'error' event of a failed spawn does not resolve the promise.
ResolvingExit == {"zero", "nonzero"}

\* What makes spawnReplay's promise resolve: 'exit', or 'error' (code 1).
Resolving == Ended

NoticeExit ==
  /\ main = "round"
  /\ replay[slot] \in Resolving
  /\ exitSeen' = IF replay[slot] = "zero" THEN "zero" ELSE "nonzero"
  /\ replay' = [replay EXCEPT ![slot] = "reaped"]
  /\ UNCHANGED <<main, slot, room, spoken, report, obsVars, heard, logs, endVars>>
-----------------------------------------------------------------------------
(* observeRound *)

observerOnly == <<main, slot, exitSeen, replayVars, logs, endVars>>

\* Variant: only the exit of the replay ends the search.
GiveUpOnExit == exitSeen # "pending"

\* The head of waitForRoom's loop: the deadline, then abort.done.
GiveUp == late \/ exitSeen # "pending"

\* One turn of the loop: give up, or probe a port netstat lists for the replay.
WaitForRoom ==
  /\ obs = "wait"
  /\ \/ GiveUp /\ obs' = "done"
     \/ ~GiveUp /\ room /\ obs' = "probe"
  /\ UNCHANGED <<observerOnly, late, static, serving, page, frames, heard>>

\* probeRoom: the socket opened (maybe just before the replay died), an error, or
\* 1.5 s; after a miss the loop goes on.
Probe ==
  /\ obs = "probe"
  /\ obs' \in {"old", "wait"}
  /\ UNCHANGED <<observerOnly, late, static, serving, page, frames, heard>>

\* The second connection may fail; then startStaticServer, which may too.
ConnectOld ==
  /\ obs = "old"
  /\ \/ static' = [static EXCEPT ![slot] = "running"] /\ obs' = "static"
     \/ obs' = "done" /\ UNCHANGED static
  /\ UNCHANGED <<observerOnly, late, serving, page, frames, heard>>

\* Variant: the static server is killed only after the browser has run.
KillAfterBrowser ==
  static' = IF obs = "browser" THEN [static EXCEPT ![slot] = "gone"] ELSE static

\* observeRound's finally: killTree is best effort.
KillStatic ==
  IF static[slot] = "running"
    THEN \E o \in {"gone", "survivor"} : static' = [static EXCEPT ![slot] = o]
    ELSE UNCHANGED static

\* staticProc.ready: the STATIC_READY line, or a timeout, an error, a bad exit.
AwaitStatic ==
  /\ obs = "static"
  /\ \/ serving /\ obs' = "browser" /\ UNCHANGED static
     \/ obs' = "done" /\ KillStatic
  /\ UNCHANGED <<observerOnly, late, serving, page, frames, heard>>

\* The page joins the room and hears what is spoken from now on.
OpenPage ==
  /\ obs = "browser" /\ page = "none" /\ room
  /\ page' = "open"
  /\ heard' = [heard EXCEPT ![slot] = [first |-> spoken, last |-> spoken]]
  /\ UNCHANGED <<observerOnly, obs, late, static, serving, frames>>

\* runPlaywrightBrowser returns the frames received so far, after a failed or
\* missed step too; only an error outside its own try loses them.
BrowserEnd ==
  /\ obs = "browser"
  /\ frames' \in {{}, Interval(heard[slot])}
  /\ page' = "closed"
  /\ obs' = "done"
  /\ KillStatic
  /\ UNCHANGED <<observerOnly, late, serving, heard>>

\* ROOM_WAIT_MS have passed.
Clock ==
  /\ obs \in {"wait", "probe"} /\ ~late
  /\ late' = TRUE
  /\ UNCHANGED <<observerOnly, obs, static, serving, page, frames, heard>>
-----------------------------------------------------------------------------
(* The replay, its room and the static server *)

worldOnly == <<main, slot, exitSeen, obs, late, page, frames, endVars>>

OpenRoom ==
  /\ replay[slot] = "running" /\ ~room
  /\ room' = TRUE
  /\ UNCHANGED <<worldOnly, replay, spoken, report, static, serving, heard, logs>>

Speak ==
  /\ room /\ spoken < Events
  /\ spoken' = spoken + 1
  /\ UNCHANGED <<worldOnly, replay, room, report, static, serving, heard, logs>>

\* The replay appends to its server and client logs.
WriteLogs(s) ==
  /\ replay[s] = "running"
  /\ \/ /\ s = slot /\ logs[s].runtime < spoken
        /\ logs' = [logs EXCEPT ![s].runtime = @ + 1]
     \/ /\ logs[s].rest = "bad"
        /\ \E w \in Speech : logs' = [logs EXCEPT ![s].rest = w]
  /\ UNCHANGED <<worldOnly, replayVars, static, serving, heard>>

ReplayExit(s) ==
  /\ replay[s] = "running"
  /\ \E code \in {"zero", "nonzero"} : replay' = [replay EXCEPT ![s] = code]
  /\ report' \in {"absent", "plain", "blocked"}
  /\ room' = FALSE
  /\ UNCHANGED <<worldOnly, spoken, static, serving, heard, logs>>

\* The next event reaches the page, in order.  (The frames the launcher records are
\* the page's own: observedFrames.)
Deliver ==
  /\ page = "open" /\ heard[slot].last < spoken
  /\ heard' = [heard EXCEPT ![slot].last = @ + 1]
  /\ UNCHANGED <<worldOnly, replayVars, static, serving, logs>>

\* static-server: the listening socket is open.
Serve ==
  /\ static[slot] = "running" /\ ~serving
  /\ serving' = TRUE
  /\ UNCHANGED <<worldOnly, replayVars, static, heard, logs>>

\* It ends only by an error: its stdin is closed, so nobody can ask it to stop.  (When a
\* survivor of killTree ends is of no interest.)
StaticExit ==
  /\ static[slot] = "running"
  /\ static' = [static EXCEPT ![slot] = "gone"]
  /\ UNCHANGED <<worldOnly, replayVars, serving, heard, logs>>
-----------------------------------------------------------------------------
Main == Prepare \/ Spawn \/ Score \/ WritePack \/ Conclude

Observer ==
  WaitForRoom \/ Probe \/ ConnectOld \/ AwaitStatic \/ OpenPage \/ BrowserEnd

World ==
  \/ OpenRoom \/ Speak \/ Deliver \/ Serve \/ StaticExit
  \/ \E s \in Slot : WriteLogs(s) \/ ReplayExit(s)

Next == Main \/ NoticeExit \/ Observer \/ Clock \/ World

\* The event loop serves both tasks and every exit event, and time passes: each
\* await of observeRound has a timeout.  Nothing is assumed of the replay.
Fairness ==
  WF_vars(Main) /\ WF_vars(NoticeExit) /\ WF_vars(Observer) /\ WF_vars(Clock)

Spec == Init /\ [][Next]_vars /\ Fairness
-----------------------------------------------------------------------------
(* Properties *)

LogType == [runtime : 0..Events, network : SUBSET (1..Events), rest : {"bad"} \cup Speech]

MainTypes ==
  /\ main \in {"prepare", "spawn", "round", "pack", "conclude", "exited", "crashed"}
  /\ slot \in Slot
  /\ verify \in [Slot -> {"none", "bad"} \cup Speech]
  /\ blocked \in BOOLEAN
  /\ pack \in [1..Packs -> {"none", "SUCCESS", "BLOCKED", "FAILED"}]
  /\ verdict \in {"none", "SUCCESS", "BLOCKED", "FAILED"}
  /\ status \in {"none", "zero", "one"}

RoundTypes ==
  /\ obs \in {"idle", "wait", "probe", "old", "static", "browser", "done"}
  /\ exitSeen \in {"pending", "zero", "nonzero"}
  /\ late \in BOOLEAN
  /\ serving \in BOOLEAN
  /\ page \in {"none", "open", "closed"}
  /\ frames \in SUBSET (1..Events)

WorldTypes ==
  /\ replay \in [Slot -> {"none", "running", "reaped"} \cup Ended]
  /\ room \in BOOLEAN
  /\ spoken \in 0..Events
  /\ report \in {"absent", "plain", "blocked"}
  /\ static \in [Slot -> {"none", "running", "gone", "survivor"}]
  /\ heard \in [Slot -> [first : 0..Events, last : 0..Events]]
  /\ logs \in [Slot -> LogType]

\* Types of every variable; the rounds stay within the packs (runPack, main).
TypeOK == MainTypes /\ RoundTypes /\ WorldTypes

\* Exit code 0 means that in every round a replay of this run has come and gone
\* and its room's chat was heard by the browser from the first event to the last:
\* no directory of an earlier run, no late join and no lost frame can stand in
\* for that (verifyRunFromLogs on what runOneRound left).
SuccessIsWitnessed ==
  status = "zero" =>
    \A s \in Slot : replay[s] = "reaped" /\ Interval(heard[s]) = 1..Events

\* A replay only lives during its own round: two never share the machine, and
\* none outlives the launcher (Promise.all in runOneRound).
ReplayStaysInItsRound ==
  \A s \in Slot : replay[s] = "running" => main = "round" /\ slot = s

\* Whichever way observeRound ends, its static server is gone or was killed as
\* far as killTree could (finally).
StaticServerIsReleased ==
  \A s \in Slot : static[s] = "running" =>
    main = "round" /\ slot = s /\ obs \in {"static", "browser"}

\* What a round was judged by is what its directories hold from then on, so a
\* later verify-evidence --dir gives the same answer (runOneRound, verifyEvidenceDir).
JudgedLogsAreFinal ==
  \A s \in Slot : verify[s] # "none" => verify[s] = Oracle(logs[s])

\* The top-level manifest says SUCCESS exactly when every pack's manifest does,
\* although it is computed again from the files (main).
ManifestsAgree ==
  verdict \in {"SUCCESS", "FAILED"} =>
    (verdict = "SUCCESS" <=> \A p \in 1..Packs : pack[p] = "SUCCESS")

\* The launcher implements its gate: rounds are judged in order, each once, and
\* exit code 0 needs all of them.
Gate == INSTANCE EvidenceGate WITH
  Slots <- 2 * Packs,
  judged <- [s \in Slot |-> CASE verify[s] = "none" -> "pending"
                              [] verify[s] = "bad"  -> "bad"
                              [] OTHER              -> "good"],
  exit <- status
ImplementsGate == Gate!GateSpec

\* Whatever the replay does, the observation of a round ends (ROOM_WAIT_MS and
\* the timeouts of observeRound's steps).
ObservationEnds == main = "round" ~> obs = "done"

\* The launcher ends if the replay does: its exit is the one thing runOneRound
\* waits for without a deadline.
LauncherEnds ==
  (\A s \in Slot : replay[s] = "running" ~> replay[s] # "running") => <>Over
=============================================================================
