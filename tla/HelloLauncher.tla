--------------------------- MODULE HelloLauncher ----------------------------
(***************************************************************************)
(* integration/hello/launcher.mjs: one acceptance run.  Each round starts  *)
(* server, static-server and bot, drives a browser, asks the processes to  *)
(* stop, waits for them, judges the evidence they left, and the last step  *)
(* writes the manifest and the exit code.                                  *)
(*                                                                         *)
(* The launcher is one event loop: `pc` names the await it is in, and      *)
(* everything between two awaits is one action.  The processes run beside  *)
(* it: what the operating system knows (os) and what the launcher knows    *)
(* (exitCode, set by the 'exit' event) are separate variables.  A spawn    *)
(* that throws at once (runRound catches it) is left out.                  *)
(***************************************************************************)
EXTENDS Integers

CONSTANTS
  Rounds,    \* ROUNDS, launcher.mjs:30 (2 in the code)
  MaxWrites  \* bound: audit and trace appends of a round's running processes

ASSUME RoundsAssumption == Rounds \in Nat \ {0}
ASSUME MaxWritesAssumption == MaxWrites \in Nat

VARIABLES
  pc,         \* the await the launcher is in
  round,      \* round being run
  os,         \* os[r][p]: the process as the operating system sees it
  exitCode,   \* rec.exitCode: "null" until the 'exit' event is handled
  killed,     \* rec.killed: the launcher called killTree
  asked,      \* 'shutdown' line written to the process's stdin
  ready,      \* ready file of the round: "absent", "stale" (earlier run) or "fresh"
  port,       \* R.serverPort, R.staticPort: the ready file the port came from
  evidence,   \* number of writes to the round's audit, trace and result files
  botResult,  \* bot-result.json of the round says ok
  judged,     \* value of evidence[r] when the authoritative verification read it
  outcome,    \* R.ok, "pending" until the round is over
  failure,    \* ctx.failure is set (prepare failed)
  logLines,   \* lines in launcher.ndjson
  hashedLog,  \* logLines when launcher.ndjson was hashed for the manifest
  verdict,    \* conclusion computed by finalize
  manifest,   \* conclusion in manifest.json
  status      \* exit code of the launcher

procVars == <<os, exitCode, killed, asked>>
fileVars == <<ready, evidence, botResult>>
verdictVars == <<judged, outcome>>
endVars == <<hashedLog, verdict, manifest, status>>
vars == <<pc, round, procVars, fileVars, port, verdictVars, failure, logLines, endVars>>

Rnd == 1..Rounds
Proc == {"server", "static", "bot"}
Listener == {"server", "static"}   \* the processes with a ready file
Exited == {"zero", "nonzero"}      \* exit codes; Windows reports no signal

Tracked(r, p) == os[r][p] # "none"                 \* in ctx.procs
Alive(r, p) == os[r][p] = "running"                \* pidAlive(rec.pid)
Unseen(r, p) == Tracked(r, p) /\ exitCode[r][p] = "null"
UnseenSlots == {s \in Rnd \X Proc : Unseen(s[1], s[2])}
Over == pc \in {"exited", "crashed"}

Each(v) == [r \in Rnd |-> [p \in Proc |-> v]]

\* An evidence directory may be reused: ready files of an earlier run are there.
Init ==
  /\ pc = "prepare"
  /\ round = 1
  /\ os = Each("none")
  /\ exitCode = Each("null")
  /\ killed = Each(FALSE)
  /\ asked = Each(FALSE)
  /\ ready \in {Each("absent"), Each("stale")}
  /\ port = Each("none")
  /\ evidence = [r \in Rnd |-> 0]
  /\ botResult \in {[r \in Rnd |-> FALSE], [r \in Rnd |-> TRUE]}
  /\ judged = [r \in Rnd |-> 0]
  /\ outcome = [r \in Rnd |-> "pending"]
  /\ failure = FALSE
  /\ logLines = 0
  /\ hashedLog = 0
  /\ verdict = "none"
  /\ manifest = "none"
  /\ status = "none"
-----------------------------------------------------------------------------
(* How the launcher leaves a step *)

\* An 'error' event nobody listens to, or a rejection main().catch turns into
\* process.exit(1): the event loop is gone, and with it every cleanup.
Crash ==
  /\ pc' = "crashed"
  /\ status' = "one"
  /\ UNCHANGED <<hashedLog, verdict, manifest>>

\* The catch block of runRound up to gracefulKillAll's first await.
RoundError ==
  /\ pc' = "catchWrite"
  /\ outcome' = [outcome EXCEPT ![round] = "failed"]
  /\ logLines' = logLines + 1
  /\ UNCHANGED judged

\* spawn() and track(): the process runs, or spawn fails and its 'error' event,
\* which track does not listen to, ends the launcher.
Spawn(p, next) ==
  \/ /\ os' = [os EXCEPT ![round][p] = "running"]
     /\ pc' = next
     /\ UNCHANGED endVars
  \/ /\ UNCHANGED os
     /\ Crash

\* Writing 'shutdown' to the stdin of targets: the living get the line.  One that
\* is dead while its exit is unseen may answer EPIPE, an unhandled 'error' event
\* (once the exit is seen, node has destroyed stdin and the write is dropped).
Ask(targets, next) ==
  \/ /\ asked' = [r \in Rnd |-> [p \in Proc |->
                    asked[r][p] \/ (<<r, p>> \in targets /\ Alive(r, p))]]
     /\ pc' = next
     /\ UNCHANGED endVars
  \/ /\ \E s \in targets \cap UnseenSlots : os[s[1]][s[2]] \in Exited
     /\ UNCHANGED asked
     /\ Crash
-----------------------------------------------------------------------------
(* prepare and one round *)

\* prepare: every artifact is found and the release manifest written, or the
\* first missing one ends the run (through gracefulKillAll, with no process yet).
Prepare ==
  /\ pc = "prepare"
  /\ \/ pc' = "roundStart" /\ UNCHANGED failure
     \/ pc' = "mainWrite" /\ failure' = TRUE
  /\ logLines' = logLines + 1
  /\ UNCHANGED <<round, procVars, fileVars, port, verdictVars, endVars>>

\* Variant: the previous contents of the round directory are kept.
KeepRoundDir == UNCHANGED fileVars

\* rmSync(roundDir): the round starts on an empty directory.
ClearRoundDir ==
  /\ ready' = [ready EXCEPT ![round] = [p \in Proc |-> "absent"]]
  /\ evidence' = [evidence EXCEPT ![round] = 0]
  /\ botResult' = [botResult EXCEPT ![round] = FALSE]

\* rmSync may throw outside the try block (a file of the directory is in use).
RoundStart ==
  /\ pc = "roundStart"
  /\ \/ /\ ClearRoundDir
        /\ logLines' = logLines + 1
        /\ Spawn("server", "awaitServer")
     \/ /\ Crash
        /\ UNCHANGED <<fileVars, logLines, os>>
  /\ UNCHANGED <<round, exitCode, killed, asked, port, verdictVars, failure>>

\* Variant: polling without a deadline.
DeadlineNever == FALSE

\* No clock is modelled: at any poll the deadline may have passed.
DeadlinePassed == TRUE

\* waitForReadyFile: the file wins over the exit event, which wins over the
\* deadline; once it is there the next process of the round is spawned.
AwaitReady(p, at, q, next) ==
  /\ pc = at
  /\ \/ /\ ready[round][p] # "absent"
        /\ port' = [port EXCEPT ![round][p] = ready[round][p]]
        /\ Spawn(q, next)
        /\ UNCHANGED <<verdictVars, logLines>>
     \/ /\ ready[round][p] = "absent"
        /\ exitCode[round][p] # "null" \/ DeadlinePassed
        /\ RoundError
        /\ UNCHANGED <<port, os, endVars>>
  /\ UNCHANGED <<round, exitCode, killed, asked, fileVars, failure>>

\* waitBotConnected never fails: a trace with 'connected', or 12 s, is enough.
AwaitBotConnected ==
  /\ pc = "awaitBot"
  /\ pc' = "browser"
  /\ UNCHANGED <<round, procVars, fileVars, port, verdictVars, failure, logLines, endVars>>

\* runBrowserScenario writes browser-result.json if the page had a result at all.
Browser ==
  /\ pc = "browser"
  /\ \/ /\ pc' = "awaitResult"
        /\ evidence' = [evidence EXCEPT ![round] = @ + 1]
        /\ UNCHANGED <<verdictVars, logLines>>
     \/ /\ RoundError
        /\ evidence' \in {evidence, [evidence EXCEPT ![round] = @ + 1]}
  /\ UNCHANGED <<round, procVars, ready, botResult, port, failure, endVars>>

AwaitBotResult ==
  /\ pc = "awaitResult"
  /\ \/ /\ botResult[round]
        /\ pc' = "preVerify"
        /\ UNCHANGED <<verdictVars, logLines>>
     \/ /\ ~botResult[round]
        /\ exitCode[round]["bot"] # "null" \/ DeadlinePassed
        /\ RoundError
  /\ UNCHANGED <<round, procVars, fileVars, port, failure, endVars>>

\* Verification before shutdown is only logged; then 'shutdown' is written to
\* static-server and server, not to the bot.
PreVerifyAndShutdown ==
  /\ pc = "preVerify"
  /\ \/ /\ Ask({round} \X Listener, "draining")
        /\ logLines' = logLines + 1
        /\ UNCHANGED verdictVars
     \/ RoundError /\ UNCHANGED <<asked, endVars>>
  /\ UNCHANGED <<round, os, exitCode, killed, fileVars, port, failure>>

\* waitExit's timer: killTree is best effort, so the process may survive it.
DrainTimeout(r, p) ==
  /\ pc = "draining"
  /\ Unseen(r, p) /\ ~killed[r][p]
  /\ killed' = [killed EXCEPT ![r][p] = TRUE]
  /\ \/ UNCHANGED os
     \/ Alive(r, p) /\ os' = [os EXCEPT ![r][p] = "nonzero"]
  /\ UNCHANGED <<pc, round, exitCode, asked, fileVars, port, verdictVars, failure, logLines, endVars>>

\* waitAllExits resolves when waitExit has for every process of ctx.procs.
DrainDone ==
  /\ pc = "draining"
  /\ \A r \in Rnd, p \in Proc : Unseen(r, p) => killed[r][p]
  /\ pc' = "verify"
  /\ UNCHANGED <<round, procVars, fileVars, port, verdictVars, failure, logLines, endVars>>

\* Variants: exit codes are not looked at; a missing exit code (null) passes.
UnkilledExits == \A p \in Proc : ~killed[round][p]
NullPassesExits == \A p \in Proc : exitCode[round][p] # "nonzero"

\* badExit is empty: every process of the round ended with code 0, unkilled.
CleanExits == \A p \in Proc : exitCode[round][p] = "zero" /\ ~killed[round][p]

\* Variant: the loop condition is off by one.
MoreRoundsOffByOne == round <= Rounds

\* n <= ROUNDS after n++, at the head of main's loop.
MoreRounds == round < Rounds

\* The authoritative verification of the round and main's loop head.
Verify ==
  /\ pc = "verify"
  /\ \/ \E report \in BOOLEAN :
          /\ judged' = [judged EXCEPT ![round] = evidence[round]]
          /\ IF report /\ CleanExits
               THEN /\ outcome' = [outcome EXCEPT ![round] = "ok"]
                    /\ IF MoreRounds
                         THEN round' = round + 1 /\ pc' = "roundStart"
                         ELSE pc' = "mainWrite" /\ UNCHANGED round
               ELSE /\ outcome' = [outcome EXCEPT ![round] = "failed"]
                    /\ pc' = "mainWrite"
                    /\ UNCHANGED round
          /\ logLines' = logLines + 1
     \/ RoundError /\ UNCHANGED round
  /\ UNCHANGED <<procVars, fileVars, port, failure, endVars>>
-----------------------------------------------------------------------------
(* gracefulKillAll and finalize *)

\* 'shutdown' to every process not seen to exit, then a sleep of two seconds.
GracefulWrite(at, next) ==
  /\ pc = at
  /\ Ask(UnseenSlots, next)
  /\ UNCHANGED <<round, os, exitCode, killed, fileVars, port, verdictVars, failure, logLines>>

\* Variant: only the processes the round's own shutdown asks are killed.
KillListeners == {s \in UnseenSlots : s[2] \in Listener}

\* killTree is for every process still not seen to exit.
KillTargets == UnseenSlots

\* The second half of gracefulKillAll; any of the kills may fail.
GracefulKill(at, next) ==
  /\ pc = at
  /\ killed' = [r \in Rnd |-> [p \in Proc |-> killed[r][p] \/ <<r, p>> \in KillTargets]]
  /\ \E dead \in SUBSET {s \in KillTargets : Alive(s[1], s[2])} :
       os' = [r \in Rnd |-> [p \in Proc |->
                   IF <<r, p>> \in dead THEN "nonzero" ELSE os[r][p]]]
  /\ logLines' = IF at = "catchKill" THEN logLines + 1 ELSE logLines  \* round-end
  /\ pc' = next
  /\ UNCHANGED <<round, exitCode, asked, fileVars, port, verdictVars, failure, endVars>>

\* checkResiduals: a tracked process is alive, or the process scan (sound or not,
\* it also sees other runs) reports one.
Residuals(scan) == scan \/ \E r \in Rnd, p \in Proc : Tracked(r, p) /\ Alive(r, p)

\* Variant: one accepted round is enough.
SomeRoundOk == \E r \in Rnd : outcome[r] = "ok"

\* ctx.rounds has ROUNDS entries and every one is ok.
AllRoundsOk == \A r \in Rnd : outcome[r] = "ok"

\* finalize up to its own log line.
Conclude ==
  /\ pc = "conclude"
  /\ \E same \in BOOLEAN, scan \in BOOLEAN :
       verdict' = IF /\ ~failure
                     /\ AllRoundsOk
                     /\ same                             \* compareRounds
                     /\ ~Residuals(scan)
                    THEN "SUCCESS" ELSE "FAILED"
  /\ logLines' = logLines + 1
  /\ pc' = "hash"
  /\ UNCHANGED <<round, procVars, fileVars, port, verdictVars, failure, hashedLog, manifest, status>>

\* Variant: the evidence is hashed before finalize's log line is appended.
LinesBeforeFinalize == logLines - 1

\* What launcher.ndjson holds when finalize hashes it.
LinesHashed == logLines

\* Every evidence file is hashed; one that is locked makes finalize reject.
HashEvidence ==
  /\ pc = "hash"
  /\ \/ /\ hashedLog' = LinesHashed
        /\ pc' = "manifest"
        /\ UNCHANGED <<verdict, manifest, status>>
     \/ Crash
  /\ UNCHANGED <<round, procVars, fileVars, port, verdictVars, failure, logLines>>

WriteManifest ==
  /\ pc = "manifest"
  /\ manifest' = verdict
  /\ status' = IF verdict = "SUCCESS" THEN "zero" ELSE "one"
  /\ pc' = "exited"
  /\ UNCHANGED <<round, procVars, fileVars, port, verdictVars, failure, logLines, hashedLog, verdict>>
-----------------------------------------------------------------------------
(* The processes *)

\* The listening socket is open and its port is in the ready file.
Listen(r, p) ==
  /\ p \in Listener
  /\ Alive(r, p)
  /\ ready[r][p] # "fresh"
  /\ ready' = [ready EXCEPT ![r][p] = "fresh"]
  /\ UNCHANGED <<pc, round, procVars, evidence, botResult, port, verdictVars, failure, logLines, endVars>>

\* server appends to server-audit.ndjson, bot to bot-trace.ndjson.
Append(r, p) ==
  /\ p \in {"server", "bot"}
  /\ Alive(r, p)
  /\ evidence[r] < MaxWrites
  /\ evidence' = [evidence EXCEPT ![r] = @ + 1]
  /\ UNCHANGED <<pc, round, procVars, ready, botResult, port, verdictVars, failure, logLines, endVars>>

WriteBotResult(r) ==
  /\ Alive(r, "bot")
  /\ ~botResult[r]
  /\ botResult' = [botResult EXCEPT ![r] = TRUE]
  /\ evidence' = [evidence EXCEPT ![r] = @ + 1]
  /\ UNCHANGED <<pc, round, procVars, ready, port, verdictVars, failure, logLines, endVars>>

\* An error exit is always possible (bad arguments, a failed listen, a crash).
\* Code 0 is for a process that was asked to stop, or a bot that is done; the
\* server flushes its audit on that path.
ProcessExit(r, p) ==
  /\ Alive(r, p)
  /\ \E code \in Exited :
       /\ code = "zero" => asked[r][p] \/ (p = "bot" /\ botResult[r])
       /\ os' = [os EXCEPT ![r][p] = code]
       /\ evidence' = IF p = "server" /\ code = "zero"
                        THEN [evidence EXCEPT ![r] = @ + 1] ELSE evidence
  /\ UNCHANGED <<pc, round, exitCode, killed, asked, ready, botResult, port, verdictVars, failure, logLines, endVars>>

\* The 'exit' event reaches the launcher's event loop.
NoticeExit(r, p) ==
  /\ ~Over
  /\ Unseen(r, p) /\ os[r][p] \in Exited
  /\ exitCode' = [exitCode EXCEPT ![r][p] = os[r][p]]
  /\ UNCHANGED <<pc, round, os, killed, asked, fileVars, port, verdictVars, failure, logLines, endVars>>
-----------------------------------------------------------------------------
Launcher ==
  \/ Prepare
  \/ RoundStart
  \/ AwaitReady("server", "awaitServer", "static", "awaitStatic")
  \/ AwaitReady("static", "awaitStatic", "bot", "awaitBot")
  \/ AwaitBotConnected
  \/ Browser
  \/ AwaitBotResult
  \/ PreVerifyAndShutdown
  \/ \E r \in Rnd, p \in Proc : DrainTimeout(r, p)
  \/ DrainDone
  \/ Verify
  \/ GracefulWrite("catchWrite", "catchKill")
  \/ GracefulKill("catchKill", "mainWrite")
  \/ GracefulWrite("mainWrite", "mainKill")
  \/ GracefulKill("mainKill", "conclude")
  \/ Conclude
  \/ HashEvidence
  \/ WriteManifest

Processes ==
  \E r \in Rnd :
    \/ WriteBotResult(r)
    \/ \E p \in Proc :
         Listen(r, p) \/ Append(r, p) \/ ProcessExit(r, p) \/ NoticeExit(r, p)

Next == Launcher \/ Processes

\* Every wait on a process has a deadline (StepError, killTree or a fixed sleep)
\* and Playwright has its own, so the launcher always takes its next step.  Only
\* the powershell scan of checkResiduals is assumed to answer; nothing is assumed
\* of server, static-server and bot.
Fairness == WF_vars(Launcher)

Spec == Init /\ [][Next]_vars /\ Fairness
-----------------------------------------------------------------------------
(* Properties *)

PCs == {"prepare", "roundStart", "awaitServer", "awaitStatic", "awaitBot", "browser",
        "awaitResult", "preVerify", "draining", "verify", "catchWrite", "catchKill",
        "mainWrite", "mainKill", "conclude", "hash", "manifest", "exited", "crashed"}

ProcTypes ==
  /\ os \in [Rnd -> [Proc -> {"none", "running"} \cup Exited]]
  /\ exitCode \in [Rnd -> [Proc -> {"null"} \cup Exited]]
  /\ killed \in [Rnd -> [Proc -> BOOLEAN]]
  /\ asked \in [Rnd -> [Proc -> BOOLEAN]]

FileTypes ==
  /\ ready \in [Rnd -> [Proc -> {"absent", "stale", "fresh"}]]
  /\ port \in [Rnd -> [Proc -> {"none", "absent", "stale", "fresh"}]]
  /\ evidence \in [Rnd -> Nat]
  /\ botResult \in [Rnd -> BOOLEAN]

RoundTypes ==
  /\ pc \in PCs
  /\ round \in Rnd
  /\ judged \in [Rnd -> Nat]
  /\ outcome \in [Rnd -> {"pending", "ok", "failed"}]

EndTypes ==
  /\ failure \in BOOLEAN
  /\ logLines \in Nat
  /\ hashedLog \in Nat
  /\ verdict \in {"none", "SUCCESS", "FAILED"}
  /\ manifest \in {"none", "SUCCESS", "FAILED"}
  /\ status \in {"none", "zero", "one"}

\* Types of every variable; round never passes ROUNDS (the loop of main).
TypeOK == ProcTypes /\ FileTypes /\ RoundTypes /\ EndTypes

\* A round is accepted only on evidence that is final: its three processes have
\* all exited with code 0, none had to be killed, and nothing was written to the
\* evidence after the authoritative verification read it (runRound 7 and 8).
AcceptedRoundIsFinal ==
  \A r \in Rnd : outcome[r] = "ok" =>
    /\ judged[r] = evidence[r]
    /\ \A p \in Proc : os[r][p] = "zero" /\ ~killed[r][p]

\* No process of a round lives while another round is run, so two servers never
\* compete and a bot never talks to the other round's server (runRound, main).
RoundsDoNotOverlap ==
  \A r \in Rnd, p \in Proc : Alive(r, p) => r = round

\* A port comes from a ready file this round's process wrote, never from one an
\* earlier run left in a reused evidence directory (runRound's rmSync).
PortsAreFresh ==
  \A r \in Rnd, p \in Proc : port[r][p] \in {"none", "fresh"}

\* When the launcher exits after finalize, every process that is still alive was
\* a target of killTree: none is forgotten (gracefulKillAll).
NoProcessForgotten ==
  pc = "exited" => \A r \in Rnd, p \in Proc : Alive(r, p) => killed[r][p]

\* The hash of launcher.ndjson in the manifest is that of its final contents.
ManifestSealsLog == manifest # "none" => hashedLog = logLines

\* The launcher implements the acceptance gate: rounds in order, none after a
\* failed one, SUCCESS and exit code 0 only when every round was accepted.
Gate == INSTANCE AcceptanceGate
ImplementsGate == Gate!GateSpec

\* Whatever the processes do (hang, ignore 'shutdown', survive killTree), every
\* run of the launcher ends.
LauncherEnds == <>Over

\* launcher.mjs:19 and README: whichever step fails, the processes are cleaned
\* up (kill tree) before the launcher exits with code 1.
CleanupOnAnyFailure ==
  status = "one" => \A r \in Rnd, p \in Proc : Alive(r, p) => killed[r][p]
=============================================================================
