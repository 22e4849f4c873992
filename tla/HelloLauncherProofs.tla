------------------------- MODULE HelloLauncherProofs -------------------------
(***************************************************************************)
(* Proofs about HelloLauncher for every number of rounds and every bound   *)
(* on the processes' writes.                                               *)
(***************************************************************************)
EXTENDS HelloLauncher, TLAPS

(* The process names and the first round, so that Proc and Rnd stay folded. *)
LEMMA Names ==
  /\ "server" \in Proc /\ "static" \in Proc /\ "bot" \in Proc
  /\ Listener \subseteq Proc
  /\ 1 \in Rnd
  /\ \A r \in Rnd : r \in Nat /\ (r < Rounds => r + 1 \in Rnd)
  BY RoundsAssumption DEF Proc, Listener, Rnd

(* The initial states have the right types. *)
LEMMA TypeInit == Init => TypeOK
<1> SUFFICES ASSUME Init PROVE TypeOK
  OBVIOUS
<1>1. ProcTypes
  BY DEF Init, ProcTypes, Each
<1>2. FileTypes
  <2>1. ready \in [Rnd -> [Proc -> {"absent", "stale", "fresh"}]]
    <3>1. CASE ready = Each("absent")
      BY <3>1 DEF Each
    <3>2. CASE ready = Each("stale")
      BY <3>2 DEF Each
    <3> QED
      BY <3>1, <3>2 DEF Init
  <2>2. /\ port \in [Rnd -> [Proc -> {"none", "absent", "stale", "fresh"}]]
        /\ evidence \in [Rnd -> Nat]
    BY DEF Init, Each
  <2>3. botResult \in [Rnd -> BOOLEAN]
    BY DEF Init
  <2> QED
    BY <2>1, <2>2, <2>3 DEF FileTypes
<1>3. RoundTypes
  BY Names DEF Init, RoundTypes, PCs
<1>4. EndTypes
  BY DEF Init, EndTypes
<1> QED
  BY <1>1, <1>2, <1>3, <1>4 DEF TypeOK

(* Starting a process keeps the types of the process table. *)
LEMMA SpawnTypes ==
  ASSUME ProcTypes, round \in Rnd, NEW p \in Proc, NEW next, Spawn(p, next),
         UNCHANGED <<exitCode, killed, asked>>
  PROVE  ProcTypes'
<1>1. os \in [Rnd -> [Proc -> {"none", "running"} \cup Exited]]
  BY DEF ProcTypes
<1>2. os' \in [Rnd -> [Proc -> {"none", "running"} \cup Exited]]
  BY <1>1 DEF Spawn
<1> QED
  BY <1>2 DEF ProcTypes

(* Asking processes to stop keeps the types of the process table. *)
LEMMA AskTypes ==
  ASSUME ProcTypes, NEW targets, NEW next, Ask(targets, next),
         UNCHANGED <<os, exitCode, killed>>
  PROVE  ProcTypes'
<1>1. asked \in [Rnd -> [Proc -> BOOLEAN]]
  BY DEF ProcTypes
<1>2. asked' \in [Rnd -> [Proc -> BOOLEAN]]
  BY <1>1 DEF Ask
<1> QED
  BY <1>2 DEF ProcTypes

(* The second half of gracefulKillAll keeps the types of the process table. *)
LEMMA KillTypes ==
  ASSUME ProcTypes, NEW at, NEW next, GracefulKill(at, next)
  PROVE  ProcTypes'
<1>1. os \in [Rnd -> [Proc -> {"none", "running"} \cup Exited]]
  BY DEF ProcTypes
<1>2. PICK dead : os' = [r \in Rnd |-> [p \in Proc |->
                           IF <<r, p>> \in dead THEN "nonzero" ELSE os[r][p]]]
  BY DEF GracefulKill
<1>3. os' \in [Rnd -> [Proc -> {"none", "running"} \cup Exited]]
  BY <1>1, <1>2 DEF Exited
<1>4. killed' \in [Rnd -> [Proc -> BOOLEAN]]
  BY DEF GracefulKill
<1> QED
  BY <1>3, <1>4 DEF GracefulKill, ProcTypes

(* A step keeps the types of the process table. *)
LEMMA ProcTypesStep == TypeOK /\ [Next]_vars => ProcTypes'
<1> SUFFICES ASSUME TypeOK, [Next]_vars PROVE ProcTypes'
  OBVIOUS
<1>1. ProcTypes /\ round \in Rnd
  BY DEF TypeOK, RoundTypes
<1>2. /\ os \in [Rnd -> [Proc -> {"none", "running"} \cup Exited]]
      /\ exitCode \in [Rnd -> [Proc -> {"null"} \cup Exited]]
      /\ killed \in [Rnd -> [Proc -> BOOLEAN]]
  BY <1>1 DEF ProcTypes
<1>3. CASE RoundStart
  BY <1>1, <1>3, SpawnTypes, Names DEF RoundStart, ProcTypes
<1>4. CASE \/ AwaitReady("server", "awaitServer", "static", "awaitStatic")
           \/ AwaitReady("static", "awaitStatic", "bot", "awaitBot")
  BY <1>1, <1>4, SpawnTypes, Names DEF AwaitReady, ProcTypes
<1>5. CASE PreVerifyAndShutdown
  BY <1>1, <1>5, AskTypes DEF PreVerifyAndShutdown, ProcTypes
<1>6. ASSUME NEW r \in Rnd, NEW p \in Proc, DrainTimeout(r, p)
      PROVE  ProcTypes'
  <2>1. killed' \in [Rnd -> [Proc -> BOOLEAN]]
    BY <1>2, <1>6 DEF DrainTimeout
  <2>2. os' \in [Rnd -> [Proc -> {"none", "running"} \cup Exited]]
    <3>1. UNCHANGED os \/ os' = [os EXCEPT ![r][p] = "nonzero"]
      BY <1>6 DEF DrainTimeout
    <3>2. "nonzero" \in Exited
      BY DEF Exited
    <3>3. CASE os' = [os EXCEPT ![r][p] = "nonzero"]
      BY <1>2, <3>2, <3>3
    <3> QED
      BY <1>2, <3>1, <3>3
  <2> QED
    BY <1>1, <1>6, <2>1, <2>2 DEF DrainTimeout, ProcTypes
<1>7. CASE GracefulWrite("catchWrite", "catchKill") \/ GracefulWrite("mainWrite", "mainKill")
  BY <1>1, <1>7, AskTypes DEF GracefulWrite
<1>8. CASE GracefulKill("catchKill", "mainWrite") \/ GracefulKill("mainKill", "conclude")
  BY <1>1, <1>8, KillTypes
<1>9. ASSUME NEW r \in Rnd, NEW p \in Proc, ProcessExit(r, p)
      PROVE  ProcTypes'
  <2>1. os' \in [Rnd -> [Proc -> {"none", "running"} \cup Exited]]
    BY <1>2, <1>9 DEF ProcessExit
  <2> QED
    BY <1>1, <1>9, <2>1 DEF ProcessExit, ProcTypes
<1>10. ASSUME NEW r \in Rnd, NEW p \in Proc, NoticeExit(r, p)
       PROVE  ProcTypes'
  <2>1. exitCode' \in [Rnd -> [Proc -> {"null"} \cup Exited]]
    BY <1>2, <1>10 DEF NoticeExit
  <2> QED
    BY <1>1, <1>10, <2>1 DEF NoticeExit, ProcTypes
<1>11. CASE UNCHANGED procVars
  BY <1>1, <1>11 DEF procVars, ProcTypes
<1> QED
  BY <1>3, <1>4, <1>5, <1>6, <1>7, <1>8, <1>9, <1>10, <1>11
     DEF Next, Launcher, Processes, Prepare, AwaitBotConnected, Browser, AwaitBotResult,
         DrainDone, Verify, Conclude, HashEvidence, WriteManifest, WriteBotResult,
         Listen, Append, vars, procVars

(* A step keeps the types of ports and files. *)
LEMMA FileTypesStep == TypeOK /\ [Next]_vars => FileTypes'
<1> SUFFICES ASSUME TypeOK, [Next]_vars PROVE FileTypes'
  OBVIOUS
<1>1. /\ round \in Rnd
      /\ ready \in [Rnd -> [Proc -> {"absent", "stale", "fresh"}]]
      /\ port \in [Rnd -> [Proc -> {"none", "absent", "stale", "fresh"}]]
      /\ evidence \in [Rnd -> Nat]
      /\ botResult \in [Rnd -> BOOLEAN]
  BY DEF TypeOK, RoundTypes, FileTypes
<1>2. CASE RoundStart
  <2>1. CASE ClearRoundDir
    <3>1. ready' \in [Rnd -> [Proc -> {"absent", "stale", "fresh"}]]
      BY <1>1, <2>1 DEF ClearRoundDir
    <3>2. evidence' \in [Rnd -> Nat] /\ botResult' \in [Rnd -> BOOLEAN]
      BY <1>1, <2>1 DEF ClearRoundDir
    <3> QED
      BY <1>1, <1>2, <3>1, <3>2 DEF RoundStart, FileTypes
  <2>2. CASE UNCHANGED fileVars
    BY <1>1, <1>2, <2>2 DEF RoundStart, FileTypes, fileVars
  <2> QED
    BY <1>2, <2>1, <2>2 DEF RoundStart
<1>3. ASSUME NEW p \in Proc, NEW at, NEW q, NEW next, AwaitReady(p, at, q, next)
      PROVE  FileTypes'
  <2>1. UNCHANGED port \/ port' = [port EXCEPT ![round][p] = ready[round][p]]
    BY <1>3 DEF AwaitReady
  <2>2. ready[round][p] \in {"none", "absent", "stale", "fresh"}
    BY <1>1
  <2>3. port' \in [Rnd -> [Proc -> {"none", "absent", "stale", "fresh"}]]
    <3>1. CASE port' = [port EXCEPT ![round][p] = ready[round][p]]
      BY <1>1, <2>2, <3>1
    <3> QED
      BY <1>1, <2>1, <3>1
  <2> QED
    BY <1>1, <1>3, <2>3 DEF AwaitReady, FileTypes, fileVars
<1>4. CASE Browser
  BY <1>1, <1>4 DEF Browser, FileTypes
<1>5. ASSUME NEW r \in Rnd, NEW p \in Proc, Listen(r, p)
      PROVE  FileTypes'
  <2>1. ready' \in [Rnd -> [Proc -> {"absent", "stale", "fresh"}]]
    BY <1>1, <1>5 DEF Listen
  <2> QED
    BY <1>1, <1>5, <2>1 DEF Listen, FileTypes
<1>6. CASE \E r \in Rnd, p \in Proc : Append(r, p)
  BY <1>1, <1>6 DEF Append, FileTypes
<1>7. CASE \E r \in Rnd : WriteBotResult(r)
  BY <1>1, <1>7 DEF WriteBotResult, FileTypes
<1>8. CASE \E r \in Rnd, p \in Proc : ProcessExit(r, p)
  BY <1>1, <1>8 DEF ProcessExit, FileTypes
<1>9. CASE UNCHANGED <<fileVars, port>>
  BY <1>1, <1>9 DEF fileVars, FileTypes
<1> QED
  BY <1>2, <1>3, <1>4, <1>5, <1>6, <1>7, <1>8, <1>9, Names
     DEF Next, Launcher, Processes, Prepare, AwaitBotConnected, AwaitBotResult,
         PreVerifyAndShutdown, DrainTimeout, DrainDone, Verify, GracefulWrite, GracefulKill,
         Conclude, HashEvidence, WriteManifest, NoticeExit, vars

(* A step keeps the types of pc, the round counter and the rounds' results. *)
LEMMA RoundTypesStep == TypeOK /\ [Next]_vars => RoundTypes'
<1> SUFFICES ASSUME TypeOK, [Next]_vars PROVE RoundTypes'
  OBVIOUS
<1>1. /\ pc \in PCs
      /\ round \in Rnd
      /\ judged \in [Rnd -> Nat]
      /\ outcome \in [Rnd -> {"pending", "ok", "failed"}]
      /\ evidence \in [Rnd -> Nat]
  BY DEF TypeOK, RoundTypes, FileTypes
<1>2. pc' \in PCs
  BY <1>1 DEF Next, Launcher, Processes, Prepare, RoundStart, AwaitReady, AwaitBotConnected,
              Browser, AwaitBotResult, PreVerifyAndShutdown, DrainTimeout, DrainDone, Verify,
              GracefulWrite, GracefulKill, Conclude, HashEvidence, WriteManifest, Listen,
              Append, WriteBotResult, ProcessExit, NoticeExit, Spawn, Ask, Crash, RoundError,
              PCs, vars
<1>3. CASE Verify
  BY <1>1, <1>2, <1>3, Names, RoundsAssumption DEF Verify, MoreRounds, RoundError, RoundTypes, Rnd
<1>4. CASE RoundError /\ UNCHANGED round
  BY <1>1, <1>2, <1>4 DEF RoundError, RoundTypes
<1>5. CASE UNCHANGED <<round, verdictVars>>
  BY <1>1, <1>2, <1>5 DEF verdictVars, RoundTypes
<1> QED
  BY <1>3, <1>4, <1>5
     DEF Next, Launcher, Processes, Prepare, RoundStart, AwaitReady, AwaitBotConnected,
         Browser, AwaitBotResult, PreVerifyAndShutdown, DrainTimeout, DrainDone, GracefulWrite,
         GracefulKill, Conclude, HashEvidence, WriteManifest, Listen, Append, WriteBotResult,
         ProcessExit, NoticeExit, vars

(* A step keeps the types of the log counters and of the results of the run. *)
LEMMA EndTypesStep == TypeOK /\ [Next]_vars => EndTypes'
<1> SUFFICES ASSUME TypeOK, [Next]_vars PROVE EndTypes'
  OBVIOUS
<1>1. EndTypes
  BY DEF TypeOK
<1>2. failure' \in BOOLEAN
  BY <1>1 DEF EndTypes, Next, Launcher, Processes, Prepare, RoundStart, AwaitReady,
              AwaitBotConnected, Browser, AwaitBotResult, PreVerifyAndShutdown, DrainTimeout,
              DrainDone, Verify, GracefulWrite, GracefulKill, Conclude, HashEvidence,
              WriteManifest, Listen, Append, WriteBotResult, ProcessExit, NoticeExit, vars
<1>3. logLines' \in Nat
  BY <1>1 DEF EndTypes, Next, Launcher, Processes, Prepare, RoundStart, AwaitReady,
              AwaitBotConnected, Browser, AwaitBotResult, PreVerifyAndShutdown, DrainTimeout,
              DrainDone, Verify, GracefulWrite, GracefulKill, Conclude, HashEvidence,
              WriteManifest, Listen, Append, WriteBotResult, ProcessExit, NoticeExit,
              RoundError, vars
<1>4. /\ hashedLog' \in Nat
      /\ verdict' \in {"none", "SUCCESS", "FAILED"}
      /\ manifest' \in {"none", "SUCCESS", "FAILED"}
      /\ status' \in {"none", "zero", "one"}
  BY <1>1 DEF EndTypes, Next, Launcher, Processes, Prepare, RoundStart, AwaitReady,
              AwaitBotConnected, Browser, AwaitBotResult, PreVerifyAndShutdown, DrainTimeout,
              DrainDone, Verify, GracefulWrite, GracefulKill, Conclude, HashEvidence,
              WriteManifest, Listen, Append, WriteBotResult, ProcessExit, NoticeExit,
              Spawn, Ask, Crash, LinesHashed, endVars, vars
<1> QED
  BY <1>2, <1>3, <1>4 DEF EndTypes

(* A step of the launcher or of a process keeps every type. *)
LEMMA TypeStep == TypeOK /\ [Next]_vars => TypeOK'
  BY ProcTypesStep, FileTypesStep, RoundTypesStep, EndTypesStep DEF TypeOK

(* Every variable of the launcher and its processes stays in its type, and the  *)
(* round counter never passes ROUNDS (main's loop).                             *)
THEOREM TypeCorrect == Spec => []TypeOK
  BY TypeInit, TypeStep, PTL DEF Spec
-----------------------------------------------------------------------------
(* The inductive invariant *)

\* What the launcher knows of an exit is what happened.
ExitsSeen ==
  \A r \in Rnd, p \in Proc : exitCode[r][p] # "null" => os[r][p] = exitCode[r][p]

\* Rounds after the current one have not begun, those before it were accepted.
RoundsInOrder ==
  \A r \in Rnd :
    /\ r > round => outcome[r] = "pending" /\ \A p \in Proc : os[r][p] = "none"
    /\ r < round => outcome[r] = "ok"

InRound == {"prepare", "roundStart", "awaitServer", "awaitStatic", "awaitBot", "browser",
            "awaitResult", "preVerify", "draining", "verify"}

\* The current round has no result before its verification or its error.
Undecided == pc \in InRound => outcome[round] = "pending"

\* server, static-server and bot are started in this order, each once a round.
StartOrder ==
  /\ pc \in {"prepare", "roundStart"} => os[round]["server"] = "none"
  /\ pc \in {"prepare", "roundStart", "awaitServer"} => os[round]["static"] = "none"
  /\ pc \in {"prepare", "roundStart", "awaitServer", "awaitStatic"} => os[round]["bot"] = "none"

\* AcceptedRoundIsFinal, in terms of what the launcher has seen.
Settled ==
  \A r \in Rnd : outcome[r] = "ok" =>
    /\ judged[r] = evidence[r]
    /\ \A p \in Proc : exitCode[r][p] = "zero" /\ ~killed[r][p]

\* Once a round has begun, or been accepted, none of its ready files is a stale one.
NoStaleReady ==
  /\ pc \in InRound \ {"prepare", "roundStart"} => \A p \in Proc : ready[round][p] # "stale"
  /\ \A r \in Rnd, p \in Proc : outcome[r] = "ok" => ready[r][p] # "stale"

\* After gracefulKillAll whatever lives has been a target of killTree.
SurvivorsWereKilled ==
  pc \in {"conclude", "hash", "manifest", "exited"} =>
    \A r \in Rnd, p \in Proc : Alive(r, p) => killed[r][p]

\* Nothing is logged between the hash and the end; the manifest is the last act.
Sealed ==
  /\ pc \in {"manifest", "exited"} => hashedLog = logLines
  /\ manifest # "none" => pc = "exited"
  /\ ~Over => status = "none"

SuccessIsEarned == verdict = "SUCCESS" => AllRoundsOk

IInv ==
  /\ TypeOK
  /\ ExitsSeen
  /\ RoundsInOrder
  /\ Undecided
  /\ StartOrder
  /\ Settled
  /\ NoStaleReady
  /\ PortsAreFresh
  /\ SurvivorsWereKilled
  /\ Sealed
  /\ SuccessIsEarned
-----------------------------------------------------------------------------
(* It holds initially *)

(* No process, no result and no manifest: the invariant holds at the start. *)
LEMMA IInvInit == Init => IInv
<1> SUFFICES ASSUME Init PROVE IInv
  OBVIOUS
<1>1. TypeOK
  BY TypeInit
<1>2. \A r \in Rnd, p \in Proc : /\ os[r][p] = "none" /\ exitCode[r][p] = "null"
                                 /\ port[r][p] = "none"
  BY DEF Init, Each
<1>3. round \in Rnd /\ \A r \in Rnd : outcome[r] = "pending" /\ r >= round
  BY Names, RoundsAssumption DEF Init, Rnd
<1>4. ExitsSeen /\ StartOrder /\ PortsAreFresh
  BY <1>2, <1>3, Names DEF ExitsSeen, StartOrder, PortsAreFresh
<1>5. RoundsInOrder /\ Undecided /\ Settled
  BY <1>2, <1>3, Names DEF Init, RoundsInOrder, Undecided, Settled
<1>6. NoStaleReady /\ SurvivorsWereKilled /\ Sealed /\ SuccessIsEarned
  BY <1>3 DEF Init, NoStaleReady, SurvivorsWereKilled, Sealed, SuccessIsEarned, Over
<1> QED
  BY <1>1, <1>4, <1>5, <1>6 DEF IInv
-----------------------------------------------------------------------------
(* Each part is preserved *)

(* A process that has not exited has not been seen to exit. *)
LEMMA LivingIsUnseen ==
  ASSUME TypeOK, ExitsSeen, NEW r \in Rnd, NEW p \in Proc, os[r][p] \in {"none", "running"}
  PROVE  exitCode[r][p] = "null"
<1>1. exitCode[r][p] \in {"null", "zero", "nonzero"}
  BY DEF TypeOK, ProcTypes, Exited
<1> QED
  BY <1>1 DEF ExitsSeen

(* Where the process table changes, and how. *)
LEMMA StartStep ==
  ASSUME TypeOK, StartOrder,
         \/ RoundStart
         \/ AwaitReady("server", "awaitServer", "static", "awaitStatic")
         \/ AwaitReady("static", "awaitStatic", "bot", "awaitBot")
  PROVE  /\ UNCHANGED <<exitCode, killed, asked, round>>
         /\ \/ UNCHANGED os
            \/ \E p \in Proc : os[round][p] = "none" /\ os' = [os EXCEPT ![round][p] = "running"]
<1>1. CASE RoundStart
  BY <1>1, Names DEF RoundStart, Spawn, Crash, StartOrder
<1>2. CASE AwaitReady("server", "awaitServer", "static", "awaitStatic")
  BY <1>2, Names DEF AwaitReady, Spawn, Crash, RoundError, StartOrder
<1>3. CASE AwaitReady("static", "awaitStatic", "bot", "awaitBot")
  BY <1>3, Names DEF AwaitReady, Spawn, Crash, RoundError, StartOrder
<1> QED
  BY <1>1, <1>2, <1>3

(* The second half of gracefulKillAll: the living that die, and nobody else. *)
LEMMA KillStep ==
  ASSUME TypeOK, ExitsSeen,
         GracefulKill("catchKill", "mainWrite") \/ GracefulKill("mainKill", "conclude")
  PROVE  /\ UNCHANGED <<round, exitCode, judged, outcome, evidence, verdict>>
         /\ \A r \in Rnd, p \in Proc :
              /\ os'[r][p] = os[r][p] \/ (Alive(r, p) /\ os'[r][p] = "nonzero")
              /\ exitCode[r][p] # "null" => os'[r][p] = os[r][p]
              /\ killed'[r][p] = (killed[r][p] \/ Unseen(r, p))
<1>1. /\ UNCHANGED <<round, exitCode, judged, outcome, evidence, verdict>>
      /\ killed' = [r \in Rnd |-> [p \in Proc |-> killed[r][p] \/ <<r, p>> \in KillTargets]]
  BY DEF GracefulKill, verdictVars, fileVars, endVars
<1>2. \A r \in Rnd, p \in Proc : <<r, p>> \in KillTargets <=> Unseen(r, p)
  BY DEF KillTargets, UnseenSlots
<1>3. PICK dead \in SUBSET {s \in KillTargets : Alive(s[1], s[2])} :
        os' = [r \in Rnd |-> [p \in Proc |-> IF <<r, p>> \in dead THEN "nonzero" ELSE os[r][p]]]
  BY DEF GracefulKill
<1>4. \A r \in Rnd, p \in Proc : <<r, p>> \in dead => Alive(r, p) /\ Unseen(r, p)
  BY <1>2, <1>3
<1>5. ASSUME NEW r \in Rnd, NEW p \in Proc
      PROVE  /\ os'[r][p] = os[r][p] \/ (Alive(r, p) /\ os'[r][p] = "nonzero")
             /\ exitCode[r][p] # "null" => os'[r][p] = os[r][p]
             /\ killed'[r][p] = (killed[r][p] \/ Unseen(r, p))
  <2>1. killed'[r][p] = (killed[r][p] \/ <<r, p>> \in KillTargets)
    BY <1>1
  <2>2. os'[r][p] = IF <<r, p>> \in dead THEN "nonzero" ELSE os[r][p]
    BY <1>3
  <2> QED
    BY <1>2, <1>4, <2>1, <2>2 DEF Unseen
<1> QED
  BY <1>1, <1>5

(* Starting, stopping, killing and noticing an exit keep ExitsSeen. *)
LEMMA ExitsSeenStep == IInv /\ [Next]_vars => ExitsSeen'
<1> SUFFICES ASSUME IInv, [Next]_vars PROVE ExitsSeen'
  OBVIOUS
<1>1. TypeOK /\ ExitsSeen /\ StartOrder
  BY DEF IInv
<1>2. /\ os \in [Rnd -> [Proc -> {"none", "running"} \cup Exited]]
      /\ exitCode \in [Rnd -> [Proc -> {"null"} \cup Exited]]
      /\ round \in Rnd
  BY <1>1 DEF TypeOK, ProcTypes, RoundTypes
<1>3. CASE \/ RoundStart
           \/ AwaitReady("server", "awaitServer", "static", "awaitStatic")
           \/ AwaitReady("static", "awaitStatic", "bot", "awaitBot")
  BY <1>1, <1>2, <1>3, StartStep, LivingIsUnseen DEF ExitsSeen
<1>4. ASSUME NEW r \in Rnd, NEW p \in Proc, DrainTimeout(r, p)
      PROVE  ExitsSeen'
  <2>1. UNCHANGED exitCode /\ (UNCHANGED os \/ os' = [os EXCEPT ![r][p] = "nonzero"])
    BY <1>4 DEF DrainTimeout
  <2>2. exitCode[r][p] = "null"
    BY <1>4 DEF DrainTimeout, Unseen
  <2> QED
    BY <1>1, <1>2, <2>1, <2>2 DEF ExitsSeen
<1>5. CASE GracefulKill("catchKill", "mainWrite") \/ GracefulKill("mainKill", "conclude")
  BY <1>1, <1>5, KillStep DEF ExitsSeen
<1>6. ASSUME NEW r \in Rnd, NEW p \in Proc, ProcessExit(r, p)
      PROVE  ExitsSeen'
  <2>1. UNCHANGED exitCode /\ \E code : os' = [os EXCEPT ![r][p] = code]
    BY <1>6 DEF ProcessExit
  <2>2. exitCode[r][p] = "null"
    BY <1>1, <1>6, LivingIsUnseen DEF ProcessExit, Alive
  <2> QED
    BY <1>1, <1>2, <2>1, <2>2 DEF ExitsSeen
<1>7. CASE \E r \in Rnd, p \in Proc : NoticeExit(r, p)
  BY <1>1, <1>2, <1>7 DEF NoticeExit, ExitsSeen
<1>8. CASE UNCHANGED <<os, exitCode>>
  BY <1>1, <1>8 DEF ExitsSeen
<1> QED
  BY <1>3, <1>4, <1>5, <1>6, <1>7, <1>8
     DEF Next, Launcher, Processes, Prepare, AwaitBotConnected, Browser, AwaitBotResult,
         PreVerifyAndShutdown, DrainDone, Verify, GracefulWrite, Conclude, HashEvidence,
         WriteManifest, Listen, Append, WriteBotResult, procVars, vars

(* Where a round's result changes: the round is the current one, still undecided. *)
LEMMA DecideStep ==
  ASSUME TypeOK, Undecided, [Next]_vars
  PROVE  \/ UNCHANGED <<round, outcome>>
         \/ /\ outcome[round] = "pending"
            /\ outcome' = [outcome EXCEPT ![round] = "failed"]
            /\ UNCHANGED <<round, os>>
            /\ pc' \notin InRound
         \/ /\ outcome[round] = "pending"
            /\ pc = "verify" /\ CleanExits
            /\ outcome' = [outcome EXCEPT ![round] = "ok"]
            /\ judged' = [judged EXCEPT ![round] = evidence[round]]
            /\ UNCHANGED <<os, exitCode, killed, evidence>>
            /\ \/ UNCHANGED round /\ pc' \notin InRound
               \/ round < Rounds /\ round' = round + 1 /\ pc' = "roundStart"
<1>1. CASE Verify
  BY <1>1 DEF Verify, MoreRounds, RoundError, Undecided, InRound, procVars, fileVars
<1>2. CASE RoundError /\ UNCHANGED <<round, os>> /\ pc \in InRound
  BY <1>2 DEF RoundError, Undecided, InRound
<1>3. CASE UNCHANGED <<round, outcome>>
  BY <1>3
<1>4. CASE \/ AwaitReady("server", "awaitServer", "static", "awaitStatic")
           \/ AwaitReady("static", "awaitStatic", "bot", "awaitBot")
  BY <1>2, <1>3, <1>4 DEF AwaitReady, verdictVars, InRound
<1>5. CASE Browser \/ AwaitBotResult
  BY <1>2, <1>3, <1>5 DEF Browser, AwaitBotResult, verdictVars, procVars, InRound
<1>6. CASE PreVerifyAndShutdown
  BY <1>2, <1>3, <1>6 DEF PreVerifyAndShutdown, verdictVars, InRound
<1> QED
  BY <1>1, <1>3, <1>4, <1>5, <1>6
     DEF Next, Launcher, Processes, Prepare, RoundStart, AwaitBotConnected, DrainTimeout,
         DrainDone, GracefulWrite, GracefulKill, Conclude, HashEvidence, WriteManifest,
         Listen, Append, WriteBotResult, ProcessExit, NoticeExit, verdictVars, vars

(* A process that has not been started is started in the current round only. *)
LEMMA UnstartedStep ==
  ASSUME IInv, [Next]_vars, NEW r \in Rnd, r # round, NEW p \in Proc, os[r][p] = "none"
  PROVE  os'[r][p] = "none"
<1>1. TypeOK /\ ExitsSeen /\ StartOrder
  BY DEF IInv
<1>2. /\ os \in [Rnd -> [Proc -> {"none", "running"} \cup Exited]]
      /\ round \in Rnd
  BY <1>1 DEF TypeOK, ProcTypes, RoundTypes
<1>3. CASE \/ RoundStart
           \/ AwaitReady("server", "awaitServer", "static", "awaitStatic")
           \/ AwaitReady("static", "awaitStatic", "bot", "awaitBot")
  BY <1>1, <1>2, <1>3, StartStep
<1>4. ASSUME NEW s \in Rnd, NEW q \in Proc, DrainTimeout(s, q)
      PROVE  os'[r][p] = "none"
  BY <1>2, <1>4 DEF DrainTimeout, Unseen, Tracked, Alive
<1>5. CASE GracefulKill("catchKill", "mainWrite") \/ GracefulKill("mainKill", "conclude")
  BY <1>1, <1>5, KillStep DEF Alive
<1>6. ASSUME NEW s \in Rnd, NEW q \in Proc, ProcessExit(s, q)
      PROVE  os'[r][p] = "none"
  BY <1>2, <1>6 DEF ProcessExit, Alive
<1>7. CASE UNCHANGED os
  BY <1>7
<1> QED
  BY <1>3, <1>4, <1>5, <1>6, <1>7
     DEF Next, Launcher, Processes, Prepare, AwaitBotConnected, Browser, AwaitBotResult,
         PreVerifyAndShutdown, DrainDone, Verify, GracefulWrite, Conclude, HashEvidence,
         WriteManifest, Listen, Append, WriteBotResult, NoticeExit, procVars, vars

(* A round begins only when the one before it was accepted (main's loop). *)
LEMMA RoundsInOrderStep == IInv /\ [Next]_vars => RoundsInOrder'
<1> SUFFICES ASSUME IInv, [Next]_vars, NEW r \in Rnd
             PROVE  /\ r > round' => outcome'[r] = "pending" /\ \A p \in Proc : os'[r][p] = "none"
                    /\ r < round' => outcome'[r] = "ok"
  BY DEF RoundsInOrder
<1>1. TypeOK /\ RoundsInOrder /\ Undecided
  BY DEF IInv
<1>2. /\ outcome \in [Rnd -> {"pending", "ok", "failed"}]
      /\ round \in Nat /\ round \in Rnd /\ r \in Nat
  BY <1>1, Names DEF TypeOK, RoundTypes
<1>3. round' \in {round, round + 1}
  BY <1>1, DecideStep
<1>4. r > round' => outcome'[r] = "pending"
  BY <1>1, <1>2, <1>3, DecideStep DEF RoundsInOrder
<1>5. r < round' => outcome'[r] = "ok"
  BY <1>1, <1>2, <1>3, DecideStep DEF RoundsInOrder
<1>6. ASSUME r > round', NEW p \in Proc
      PROVE  os'[r][p] = "none"
  <2>1. r > round
    BY <1>2, <1>3, <1>6
  <2>2. os[r][p] = "none" /\ r # round
    BY <1>1, <1>2, <2>1 DEF RoundsInOrder
  <2> QED
    BY <2>2, UnstartedStep
<1> QED
  BY <1>4, <1>5, <1>6

(* The launcher leaves the round as soon as it has a result. *)
LEMMA UndecidedStep == IInv /\ [Next]_vars => Undecided'
<1> SUFFICES ASSUME IInv, [Next]_vars, pc' \in InRound PROVE outcome'[round'] = "pending"
  BY DEF Undecided
<1>1. TypeOK /\ RoundsInOrder /\ Undecided
  BY DEF IInv
<1>2. round \in Nat /\ round \in Rnd /\ outcome \in [Rnd -> {"pending", "ok", "failed"}]
  BY <1>1, Names DEF TypeOK, RoundTypes
<1>3. CASE UNCHANGED <<round, outcome>>
  <2>1. pc \in InRound
    BY <1>1, <1>2, <1>3
       DEF Undecided, Next, Launcher, Processes, Prepare, RoundStart, AwaitReady,
           AwaitBotConnected, Browser, AwaitBotResult, PreVerifyAndShutdown, DrainTimeout,
           DrainDone, Verify, GracefulWrite, GracefulKill, Conclude, HashEvidence,
           WriteManifest, Listen, Append, WriteBotResult, ProcessExit, NoticeExit, Spawn, Ask,
           Crash, RoundError, InRound, vars
  <2> QED
    BY <1>1, <1>3, <2>1 DEF Undecided
<1>4. CASE round' = round + 1 /\ round < Rounds /\ outcome' = [outcome EXCEPT ![round] = "ok"]
  <2>1. round + 1 \in Rnd /\ round + 1 > round
    BY <1>2, <1>4, Names
  <2> QED
    BY <1>1, <1>2, <1>4, <2>1 DEF RoundsInOrder
<1> QED
  BY <1>1, <1>3, <1>4, DecideStep

(* No process is started before its turn in the round. *)
LEMMA StartOrderStep == IInv /\ [Next]_vars => StartOrder'
<1> SUFFICES ASSUME IInv, [Next]_vars PROVE StartOrder'
  OBVIOUS
<1>1. TypeOK /\ StartOrder /\ RoundsInOrder /\ Undecided
  BY DEF IInv
<1>2. /\ os \in [Rnd -> [Proc -> {"none", "running"} \cup Exited]]
      /\ round \in Nat /\ round \in Rnd
  BY <1>1, Names DEF TypeOK, ProcTypes, RoundTypes
<1>3. CASE RoundStart
  BY <1>1, <1>2, <1>3, Names DEF RoundStart, Spawn, Crash, StartOrder
<1>4. CASE AwaitReady("server", "awaitServer", "static", "awaitStatic")
  BY <1>1, <1>2, <1>4, Names DEF AwaitReady, Spawn, Crash, RoundError, StartOrder
<1>5. CASE AwaitReady("static", "awaitStatic", "bot", "awaitBot")
  BY <1>1, <1>2, <1>5, Names DEF AwaitReady, Spawn, Crash, RoundError, StartOrder
<1>6. CASE Verify
  <2>1. CASE round' = round + 1 /\ round < Rounds /\ pc' = "roundStart" /\ UNCHANGED os
    <3>1. round + 1 \in Rnd /\ round + 1 > round
      BY <1>2, <2>1, Names
    <3> QED
      BY <1>1, <2>1, <3>1, Names DEF RoundsInOrder, StartOrder
  <2>2. CASE pc' \in {"mainWrite", "catchWrite"}
    BY <2>2 DEF StartOrder
  <2> QED
    BY <1>6, <2>1, <2>2 DEF Verify, MoreRounds, RoundError, procVars
<1>7. CASE Prepare
  BY <1>1, <1>7 DEF Prepare, StartOrder, procVars
<1>8. CASE Processes \/ UNCHANGED vars
  <2>1. UNCHANGED <<pc, round>>
    BY <1>8 DEF Processes, Listen, Append, WriteBotResult, ProcessExit, NoticeExit, vars
  <2>2. \A p \in Proc : os[round][p] = "none" => os'[round][p] = "none"
    BY <1>2, <1>8 DEF Processes, Listen, Append, WriteBotResult, ProcessExit, NoticeExit,
                      Alive, procVars, vars
  <2> QED
    BY <1>1, <2>1, <2>2, Names DEF StartOrder
<1>9. CASE pc' \notin {"prepare", "roundStart", "awaitServer", "awaitStatic"}
  BY <1>9 DEF StartOrder
<1> QED
  BY <1>3, <1>4, <1>5, <1>6, <1>7, <1>8, <1>9
     DEF Next, Launcher, AwaitBotConnected, Browser, AwaitBotResult,
         PreVerifyAndShutdown, DrainTimeout, DrainDone, GracefulWrite, GracefulKill,
         Conclude, HashEvidence, WriteManifest, Ask, Crash, RoundError

(* An accepted round is left alone: its processes have all been seen to exit. *)
LEMMA SettledStep == IInv /\ [Next]_vars => Settled'
<1> SUFFICES ASSUME IInv, [Next]_vars, NEW r \in Rnd, outcome'[r] = "ok"
             PROVE  /\ judged'[r] = evidence'[r]
                    /\ \A p \in Proc : exitCode'[r][p] = "zero" /\ ~killed'[r][p]
  BY DEF Settled
<1>1. TypeOK /\ ExitsSeen /\ RoundsInOrder /\ Undecided /\ Settled
  BY DEF IInv
<1>2. /\ outcome \in [Rnd -> {"pending", "ok", "failed"}]
      /\ judged \in [Rnd -> Nat] /\ evidence \in [Rnd -> Nat]
      /\ round \in Rnd
  BY <1>1 DEF TypeOK, RoundTypes, FileTypes
<1>3. CASE outcome[r] # "ok"
  <2>1. /\ r = round /\ CleanExits
        /\ judged' = [judged EXCEPT ![round] = evidence[round]]
        /\ UNCHANGED <<exitCode, killed, evidence>>
    BY <1>1, <1>2, <1>3, DecideStep
  <2> QED
    BY <1>2, <2>1 DEF CleanExits
<1>4. CASE outcome[r] = "ok"
  <2>1. /\ judged[r] = evidence[r]
        /\ \A p \in Proc : exitCode[r][p] = "zero" /\ ~killed[r][p]
    BY <1>1, <1>4 DEF Settled
  <2>2. \A p \in Proc : ~Unseen(r, p) /\ ~Alive(r, p)
    BY <1>1, <2>1 DEF Unseen, Alive, ExitsSeen
  <2>3. pc \in InRound => r # round
    BY <1>1, <1>4 DEF Undecided
  <2>4. /\ exitCode \in [Rnd -> [Proc -> {"null"} \cup Exited]]
        /\ killed \in [Rnd -> [Proc -> BOOLEAN]]
    BY <1>1 DEF TypeOK, ProcTypes
  <2>5. judged'[r] = judged[r]
    BY <1>2, <2>3 DEF Next, Launcher, Processes, Prepare, RoundStart, AwaitReady,
         AwaitBotConnected, Browser, AwaitBotResult, PreVerifyAndShutdown, DrainTimeout,
         DrainDone, Verify, GracefulWrite, GracefulKill, Conclude, HashEvidence, WriteManifest,
         Listen, Append, WriteBotResult, ProcessExit, NoticeExit, RoundError, InRound,
         verdictVars, vars
  <2>6. evidence'[r] = evidence[r]
    <3>1. CASE RoundStart
      BY <1>2, <2>3, <3>1 DEF RoundStart, ClearRoundDir, InRound, fileVars
    <3>2. CASE Browser
      BY <1>2, <2>3, <3>2 DEF Browser, InRound
    <3>3. ASSUME NEW s \in Rnd, NEW p \in Proc, Append(s, p) \/ ProcessExit(s, p)
          PROVE  evidence'[r] = evidence[r]
      BY <1>2, <2>2, <3>3 DEF Append, ProcessExit
    <3>4. ASSUME NEW s \in Rnd, WriteBotResult(s)
          PROVE  evidence'[r] = evidence[r]
      BY <1>2, <2>2, <3>4, Names DEF WriteBotResult
    <3>5. CASE UNCHANGED evidence
      BY <3>5
    <3> QED
      BY <3>1, <3>2, <3>3, <3>4, <3>5
         DEF Next, Launcher, Processes, Prepare, AwaitReady, AwaitBotConnected,
             AwaitBotResult, PreVerifyAndShutdown, DrainTimeout, DrainDone, Verify,
             GracefulWrite, GracefulKill, Conclude, HashEvidence, WriteManifest, Listen,
             NoticeExit, fileVars, vars
  <2>7. ASSUME NEW p \in Proc
        PROVE  exitCode'[r][p] = exitCode[r][p]
    <3>1. ASSUME NEW s \in Rnd, NEW q \in Proc, NoticeExit(s, q)
          PROVE  exitCode'[r][p] = exitCode[r][p]
      BY <2>2, <2>4, <3>1 DEF NoticeExit
    <3>2. CASE UNCHANGED exitCode
      BY <3>2
    <3> QED
      BY <3>1, <3>2
         DEF Next, Launcher, Processes, Prepare, RoundStart, AwaitReady, AwaitBotConnected,
             Browser, AwaitBotResult, PreVerifyAndShutdown, DrainTimeout, DrainDone, Verify,
             GracefulWrite, GracefulKill, Conclude, HashEvidence, WriteManifest, Listen, Append,
             WriteBotResult, ProcessExit, procVars, vars
  <2>8. ASSUME NEW p \in Proc
        PROVE  killed'[r][p] = killed[r][p]
    <3>1. ASSUME NEW s \in Rnd, NEW q \in Proc, DrainTimeout(s, q)
          PROVE  killed'[r][p] = killed[r][p]
      BY <2>2, <2>4, <3>1 DEF DrainTimeout
    <3>2. CASE GracefulKill("catchKill", "mainWrite") \/ GracefulKill("mainKill", "conclude")
      <4>1. killed[r][p] \in BOOLEAN /\ killed'[r][p] = (killed[r][p] \/ Unseen(r, p))
        BY <1>1, <2>4, <3>2, KillStep
      <4> QED
        BY <2>2, <4>1
    <3>3. CASE UNCHANGED killed
      BY <3>3
    <3> QED
      BY <3>1, <3>2, <3>3
         DEF Next, Launcher, Processes, Prepare, RoundStart, AwaitReady, AwaitBotConnected,
             Browser, AwaitBotResult, PreVerifyAndShutdown, DrainDone, Verify, GracefulWrite,
             Conclude, HashEvidence, WriteManifest, Listen, Append, WriteBotResult, ProcessExit,
             NoticeExit, procVars, vars
  <2> QED
    BY <2>1, <2>5, <2>6, <2>7, <2>8
<1> QED
  BY <1>3, <1>4

(* The round directory is emptied before the first ready file is awaited. *)
LEMMA NoStaleReadyStep == IInv /\ [Next]_vars => NoStaleReady'
<1> SUFFICES ASSUME IInv, [Next]_vars PROVE NoStaleReady'
  OBVIOUS
<1>1. NoStaleReady /\ TypeOK /\ Undecided
  BY DEF IInv
<1>2. /\ ready \in [Rnd -> [Proc -> {"absent", "stale", "fresh"}]]
      /\ outcome \in [Rnd -> {"pending", "ok", "failed"}] /\ round \in Rnd
  BY <1>1 DEF TypeOK, FileTypes, RoundTypes
<1>3. ASSUME NEW r \in Rnd, NEW p \in Proc, ready'[r][p] = "stale"
      PROVE  ready[r][p] = "stale"
  <2>1. CASE RoundStart
    BY <1>2, <1>3, <2>1 DEF RoundStart, ClearRoundDir, fileVars
  <2>2. ASSUME NEW s \in Rnd, NEW q \in Proc, Listen(s, q)
        PROVE  ready[r][p] = "stale"
    BY <1>2, <1>3, <2>2 DEF Listen
  <2>3. CASE UNCHANGED ready
    BY <1>3, <2>3
  <2> QED
    BY <2>1, <2>2, <2>3
       DEF Next, Launcher, Processes, Prepare, AwaitReady, AwaitBotConnected, Browser,
           AwaitBotResult, PreVerifyAndShutdown, DrainTimeout, DrainDone, Verify,
           GracefulWrite, GracefulKill, Conclude, HashEvidence, WriteManifest, Append,
           WriteBotResult, ProcessExit, NoticeExit, fileVars, vars
<1>4. ASSUME pc' \in InRound \ {"prepare", "roundStart"}, NEW p \in Proc
      PROVE  ready'[round'][p] # "stale"
  <2>1. CASE RoundStart
    BY <1>2, <1>4, <2>1 DEF RoundStart, ClearRoundDir, Crash, InRound
  <2>2. CASE pc \in InRound \ {"prepare", "roundStart"} /\ UNCHANGED round
    BY <1>1, <1>2, <1>3, <2>2 DEF NoStaleReady
  <2> QED
    BY <1>4, <2>1, <2>2
       DEF Next, Launcher, Processes, Prepare, AwaitReady, AwaitBotConnected, Browser,
           AwaitBotResult, PreVerifyAndShutdown, DrainTimeout, DrainDone, Verify,
           GracefulWrite, GracefulKill, Conclude, HashEvidence, WriteManifest, Listen, Append,
           WriteBotResult, ProcessExit, NoticeExit, Spawn, Ask, Crash, RoundError, InRound,
           vars
<1>5. ASSUME NEW r \in Rnd, NEW p \in Proc, outcome'[r] = "ok"
      PROVE  ready'[r][p] # "stale"
  <2>1. CASE outcome[r] = "ok"
    BY <1>1, <1>3, <2>1 DEF NoStaleReady
  <2>2. CASE outcome[r] # "ok"
    <3>1. r = round /\ pc = "verify"
      BY <1>1, <1>2, <1>5, <2>2, DecideStep
    <3> QED
      BY <1>1, <1>3, <3>1 DEF NoStaleReady, InRound
  <2> QED
    BY <2>1, <2>2
<1> QED
  BY <1>4, <1>5 DEF NoStaleReady

(* A port is taken from a ready file of the round's own process. *)
LEMMA PortsAreFreshStep == IInv /\ [Next]_vars => PortsAreFresh'
<1> SUFFICES ASSUME IInv, [Next]_vars PROVE PortsAreFresh'
  OBVIOUS
<1>1. NoStaleReady /\ PortsAreFresh /\ TypeOK
  BY DEF IInv
<1>2. /\ ready \in [Rnd -> [Proc -> {"absent", "stale", "fresh"}]]
      /\ port \in [Rnd -> [Proc -> {"none", "absent", "stale", "fresh"}]]
      /\ round \in Rnd
  BY <1>1 DEF TypeOK, FileTypes, RoundTypes
<1>3. ASSUME NEW p \in Proc, NEW q, NEW next,
             \/ AwaitReady(p, "awaitServer", q, next)
             \/ AwaitReady(p, "awaitStatic", q, next)
      PROVE  PortsAreFresh'
  <2>1. CASE ready[round][p] # "absent" /\ port' = [port EXCEPT ![round][p] = ready[round][p]]
    <3>1. ready[round][p] = "fresh"
      BY <1>1, <1>2, <1>3, <2>1 DEF AwaitReady, NoStaleReady, InRound
    <3> QED
      BY <1>1, <1>2, <2>1, <3>1 DEF PortsAreFresh
  <2> QED
    BY <1>1, <1>3, <2>1 DEF AwaitReady, PortsAreFresh
<1>4. CASE UNCHANGED port
  BY <1>1, <1>4 DEF PortsAreFresh
<1> QED
  BY <1>3, <1>4, Names
     DEF Next, Launcher, Processes, Prepare, RoundStart, AwaitBotConnected, Browser,
         AwaitBotResult, PreVerifyAndShutdown, DrainTimeout, DrainDone, Verify, GracefulWrite,
         GracefulKill, Conclude, HashEvidence, WriteManifest, Listen, Append, WriteBotResult,
         ProcessExit, NoticeExit, vars

(* gracefulKillAll leaves no living process out, and none is started later. *)
LEMMA SurvivorsStep == IInv /\ [Next]_vars => SurvivorsWereKilled'
<1> SUFFICES ASSUME IInv, [Next]_vars,
                    pc' \in {"conclude", "hash", "manifest", "exited"},
                    NEW r \in Rnd, NEW p \in Proc, os'[r][p] = "running"
             PROVE  killed'[r][p]
  BY DEF SurvivorsWereKilled, Alive
<1>1. TypeOK /\ ExitsSeen /\ SurvivorsWereKilled
  BY DEF IInv
<1>2. /\ os \in [Rnd -> [Proc -> {"none", "running"} \cup Exited]]
      /\ killed \in [Rnd -> [Proc -> BOOLEAN]]
  BY <1>1 DEF TypeOK, ProcTypes
<1>3. CASE GracefulKill("mainKill", "conclude")
  <2>1. os[r][p] = "running"
    BY <1>1, <1>3, KillStep
  <2>2. Unseen(r, p)
    BY <1>1, <2>1, LivingIsUnseen DEF Unseen, Tracked
  <2> QED
    BY <1>1, <1>3, <2>2, KillStep
<1>4. CASE Conclude \/ HashEvidence \/ WriteManifest
  BY <1>1, <1>4 DEF Conclude, HashEvidence, WriteManifest, Crash, SurvivorsWereKilled,
                    Alive, procVars
<1>5. CASE Processes \/ UNCHANGED vars
  <2>1. UNCHANGED <<pc, killed>>
    BY <1>5 DEF Processes, Listen, Append, WriteBotResult, ProcessExit, NoticeExit, procVars, vars
  <2>2. os[r][p] = "running"
    BY <1>2, <1>5 DEF Processes, Listen, Append, WriteBotResult, ProcessExit, NoticeExit,
                      Exited, procVars, vars
  <2> QED
    BY <1>1, <2>1, <2>2 DEF SurvivorsWereKilled, Alive
<1> QED
  BY <1>3, <1>4, <1>5
     DEF Next, Launcher, Prepare, RoundStart, AwaitReady, AwaitBotConnected, Browser,
         AwaitBotResult, PreVerifyAndShutdown, DrainTimeout, DrainDone, Verify, GracefulWrite,
         GracefulKill, Spawn, Ask, Crash, RoundError

(* finalize's log line comes before the hash, and the manifest last. *)
LEMMA SealedStep == IInv /\ [Next]_vars => Sealed'
<1> SUFFICES ASSUME IInv, [Next]_vars PROVE Sealed'
  OBVIOUS
<1>1. Sealed
  BY DEF IInv
<1>2. CASE WriteManifest
  BY <1>1, <1>2 DEF WriteManifest, Sealed, Over
<1>3. CASE HashEvidence
  BY <1>1, <1>3 DEF HashEvidence, LinesHashed, Crash, Sealed, Over
<1>4. CASE pc' = "crashed" /\ UNCHANGED manifest /\ pc # "exited"
  BY <1>1, <1>4 DEF Sealed, Over
<1>5. CASE /\ UNCHANGED <<manifest, status>>
           /\ pc \notin {"exited", "crashed"}
           /\ pc' \notin {"manifest", "exited", "crashed"}
  BY <1>1, <1>5 DEF Sealed, Over
<1>6. CASE UNCHANGED <<pc, logLines, endVars>>
  BY <1>1, <1>6 DEF Sealed, Over, endVars
<1>7. CASE Launcher
  BY <1>2, <1>3, <1>4, <1>5, <1>6, <1>7
     DEF Launcher, Prepare, RoundStart, AwaitReady, AwaitBotConnected, Browser,
         AwaitBotResult, PreVerifyAndShutdown, DrainTimeout, DrainDone, Verify, GracefulWrite,
         GracefulKill, Conclude, Spawn, Ask, Crash, RoundError, endVars
<1>8. CASE Processes \/ UNCHANGED vars
  BY <1>6, <1>8 DEF Processes, Listen, Append, WriteBotResult, ProcessExit, NoticeExit, vars
<1> QED
  BY <1>7, <1>8 DEF Next

(* A round that was accepted stays accepted once the conclusion is drawn. *)
LEMMA SuccessIsEarnedStep == IInv /\ [Next]_vars => SuccessIsEarned'
<1> SUFFICES ASSUME IInv, [Next]_vars, verdict' = "SUCCESS" PROVE AllRoundsOk'
  BY DEF SuccessIsEarned
<1>1. TypeOK /\ Undecided /\ SuccessIsEarned
  BY DEF IInv
<1>2. round \in Rnd /\ outcome \in [Rnd -> {"pending", "ok", "failed"}]
  BY <1>1 DEF TypeOK, RoundTypes
<1>3. AllRoundsOk
  <2>1. CASE Conclude
    BY <2>1 DEF Conclude
  <2>2. CASE UNCHANGED verdict
    BY <1>1, <2>2 DEF SuccessIsEarned
  <2> QED
    BY <2>1, <2>2
       DEF Next, Launcher, Processes, Prepare, RoundStart, AwaitReady, AwaitBotConnected,
           Browser, AwaitBotResult, PreVerifyAndShutdown, DrainTimeout, DrainDone, Verify,
           GracefulWrite, GracefulKill, HashEvidence, WriteManifest, Listen, Append,
           WriteBotResult, ProcessExit, NoticeExit, Spawn, Ask, Crash, endVars, vars
<1>4. UNCHANGED outcome
  BY <1>1, <1>2, <1>3, DecideStep DEF AllRoundsOk
<1> QED
  BY <1>3, <1>4 DEF AllRoundsOk

(* The invariant is inductive: a step preserves all of its parts. *)
LEMMA IInvStep == IInv /\ [Next]_vars => IInv'
  BY TypeStep, ExitsSeenStep, RoundsInOrderStep, UndecidedStep, StartOrderStep, SettledStep,
     NoStaleReadyStep, PortsAreFreshStep, SurvivorsStep, SealedStep, SuccessIsEarnedStep
     DEF IInv

(* The inductive invariant holds in every reachable state of the launcher. *)
THEOREM Inductive == Spec => []IInv
  BY IInvInit, IInvStep, PTL DEF Spec
-----------------------------------------------------------------------------
(* What follows *)

(* An accepted round rests on final evidence: its processes all exited with     *)
(* code 0 by themselves and wrote nothing after the verification (runRound).    *)
THEOREM AcceptedFinal == Spec => []AcceptedRoundIsFinal
<1>1. IInv => AcceptedRoundIsFinal
  BY DEF IInv, Settled, ExitsSeen, AcceptedRoundIsFinal
<1> QED
  BY <1>1, Inductive, PTL

(* No process of one round is alive during another, however many rounds there   *)
(* are and however the processes behave (main, runRound's badExit).             *)
THEOREM NoOverlap == Spec => []RoundsDoNotOverlap
<1>1. ASSUME IInv, NEW r \in Rnd, NEW p \in Proc, os[r][p] = "running"
      PROVE  r = round
  <2>1. r \in Nat /\ round \in Nat
    BY <1>1, Names DEF IInv, TypeOK, RoundTypes
  <2>2. ~(r > round)
    BY <1>1 DEF IInv, RoundsInOrder
  <2>3. ~(r < round)
    BY <1>1 DEF IInv, RoundsInOrder, Settled, ExitsSeen
  <2> QED
    BY <2>1, <2>2, <2>3
<1>2. IInv => RoundsDoNotOverlap
  BY <1>1 DEF RoundsDoNotOverlap, Alive
<1> QED
  BY <1>2, Inductive, PTL

(* Every port the launcher uses was written by this round's process.            *)
THEOREM FreshPorts == Spec => []PortsAreFresh
<1>1. IInv => PortsAreFresh
  BY DEF IInv
<1> QED
  BY <1>1, Inductive, PTL

(* After finalize, whatever is still alive was a target of killTree.            *)
THEOREM NoneForgotten == Spec => []NoProcessForgotten
<1>1. IInv => NoProcessForgotten
  BY DEF IInv, SurvivorsWereKilled, NoProcessForgotten
<1> QED
  BY <1>1, Inductive, PTL

(* The manifest's hash of launcher.ndjson is that of its final contents.        *)
THEOREM LogIsSealed == Spec => []ManifestSealsLog
<1>1. IInv => ManifestSealsLog
  BY DEF IInv, Sealed, ManifestSealsLog
<1> QED
  BY <1>1, Inductive, PTL

(* The launcher implements the acceptance gate: no verdict but the gate's can   *)
(* come out of it, for every number of rounds.                                  *)
THEOREM Refinement == Spec => ImplementsGate
<1>1. Init => Gate!GateInit
  BY DEF Init, Gate!GateInit, Rnd, Gate!Rnd
<1>2. ASSUME IInv, [Next]_vars
      PROVE  [Gate!GateNext]_Gate!gateVars
  <2> USE DEF Gate!gateVars
  <2>1. TypeOK /\ RoundsInOrder /\ Undecided /\ Sealed /\ SuccessIsEarned
    BY <1>2 DEF IInv
  <2>2. /\ round \in Rnd /\ Gate!Rnd = Rnd
        /\ verdict \in {"none", "SUCCESS", "FAILED"} /\ manifest \in {"none", "SUCCESS", "FAILED"}
    BY <2>1 DEF TypeOK, RoundTypes, EndTypes, Rnd, Gate!Rnd
  <2>3. CASE WriteManifest
    <3>1. status = "none" /\ UNCHANGED outcome
      BY <2>1, <2>3 DEF WriteManifest, Sealed, Over, verdictVars
    <3>2. CASE verdict = "SUCCESS"
      <4>1. Gate!Accept
        BY <2>1, <2>2, <2>3, <3>1, <3>2
           DEF WriteManifest, SuccessIsEarned, AllRoundsOk, Gate!Accept
      <4> QED
        BY <4>1 DEF Gate!GateNext
    <3>3. CASE verdict # "SUCCESS"
      <4>1. Gate!Reject
        BY <2>2, <2>3, <3>1, <3>3 DEF WriteManifest, Gate!Reject
      <4> QED
        BY <4>1 DEF Gate!GateNext
    <3> QED
      BY <3>2, <3>3
  <2>4. CASE Crash /\ pc \notin {"exited", "crashed"} /\ UNCHANGED outcome
    <3>1. Gate!Reject
      BY <2>1, <2>2, <2>4 DEF Crash, Sealed, Over, Gate!Reject
    <3> QED
      BY <3>1 DEF Gate!GateNext
  <2>5. ASSUME NEW o \in {"ok", "failed"}, outcome[round] = "pending",
               pc \notin {"exited", "crashed"}, outcome' = [outcome EXCEPT ![round] = o], UNCHANGED <<manifest, status>>
        PROVE  Gate!GateNext
    <3>1. Gate!Judge(round)
      BY <2>1, <2>2, <2>5 DEF RoundsInOrder, Sealed, Over, Gate!Judge
    <3> QED
      BY <2>2, <3>1 DEF Gate!GateNext
  <2>6. CASE UNCHANGED <<outcome, manifest, status>>
    BY <2>6
  <2>7. CASE UNCHANGED outcome
    BY <1>2, <2>3, <2>4, <2>6, <2>7
       DEF Next, Launcher, Processes, Prepare, RoundStart, AwaitReady, AwaitBotConnected,
           Browser, AwaitBotResult, PreVerifyAndShutdown, DrainTimeout, DrainDone, Verify,
           GracefulWrite, GracefulKill, Conclude, HashEvidence, Listen, Append,
           WriteBotResult, ProcessExit, NoticeExit, Spawn, Ask, endVars, vars
  <2>8. CASE outcome' # outcome
    <3>1. UNCHANGED <<manifest, status>>
      BY <1>2, <2>8
         DEF Next, Launcher, Processes, Prepare, RoundStart, AwaitReady, AwaitBotConnected,
             Browser, AwaitBotResult, PreVerifyAndShutdown, DrainTimeout, DrainDone, Verify,
             GracefulWrite, GracefulKill, Conclude, HashEvidence, WriteManifest, Listen, Append,
             WriteBotResult, ProcessExit, NoticeExit, verdictVars, endVars, vars
    <3>2. pc \notin {"exited", "crashed"}
      BY <1>2, <2>8
         DEF Next, Launcher, Processes, Prepare, RoundStart, AwaitReady, AwaitBotConnected,
             Browser, AwaitBotResult, PreVerifyAndShutdown, DrainTimeout, DrainDone, Verify,
             GracefulWrite, GracefulKill, Conclude, HashEvidence, WriteManifest, Listen, Append,
             WriteBotResult, ProcessExit, NoticeExit, verdictVars, vars
    <3> QED
      BY <1>2, <2>1, <2>5, <2>8, <3>1, <3>2, DecideStep
  <2> QED
    BY <2>7, <2>8
<1> QED
  BY <1>1, <1>2, Inductive, PTL DEF Spec, ImplementsGate, Gate!GateSpec
=============================================================================
