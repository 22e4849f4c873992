---------------------------- MODULE AccountSuite ----------------------------
(***************************************************************************)
(* Lumio.Game.EntityChat.Suite and .Protocol: one run of the account       *)
(* suite.  It starts the account server, waits for its ready line, logs in *)
(* three times, writes evidence and disposes of the server.                *)
(*                                                                         *)
(* pc is the await the run is in.  The account server is external: it may  *)
(* say anything, fall silent, crash or block on a pipe nobody reads; only  *)
(* killing it is certain to end it, unless the kill itself fails.          *)
(***************************************************************************)
EXTENDS Integers, Sequences

CONSTANTS
  Account,  \* account ids
  PipeSize  \* bound: lines a pipe holds before its writer blocks

ASSUME PipeAssumption == PipeSize \in Nat \ {0}

VARIABLES
  pc,         \* "start", "ready", "stderr", "login", "evidence", "exit", "done"
  server,     \* "none", "up", "closed" (its stdout), "mute" (stderr too), "gone"
  pipe,       \* pipe.out, pipe.err: lines written to it and not yet read
  stuckOn,    \* the pipe the server blocks on, or "none"
  killed,     \* a kill reached the server
  killFailed, \* Kill threw
  late,       \* the 30 s for the ready line are over
  cancelled,  \* the 10 min of Program.Main are over
  answers,    \* what the logins returned
  pending,    \* how RunAsync is being left: "none", "return", "throw"
  evidence,   \* evidence.json: "none", "old", "passed", "failed", "blocked"
  blockedTxt, \* blocked.txt: "none", "old", "new"
  exit        \* exit code, 0 while running

clocks == <<late, cancelled>>
osvars == <<server, pipe, stuckOn>>
files == <<evidence, blockedTxt>>
vars == <<pc, osvars, killed, killFailed, clocks, answers, pending, files, exit>>

\* Lines on stdout: anything else, a ready line, a ready line without its fields
\* and one that is no JSON.
LineKind == {"noise", "ready", "badShape", "badJson"}
Accepted(id) == [accepted |-> TRUE, account |-> id, code |-> "none"]
Rejected(code) == [accepted |-> FALSE, account |-> "none", code |-> code]
Answer == {Accepted(id) : id \in Account} \cup {Rejected("wrong_password"), Rejected("other")}

SuiteTypes ==
  /\ pc \in {"start", "ready", "stderr", "login", "evidence", "exit", "done"}
  /\ server \in {"none", "up", "closed", "mute", "gone"}
  /\ stuckOn \in {"none", "out", "err"}
  /\ {killed, killFailed, late, cancelled} \subseteq BOOLEAN
  /\ pending \in {"none", "return", "throw"}
  /\ evidence \in {"none", "old", "passed", "failed", "blocked"}
  /\ blockedTxt \in {"none", "old", "new"}
  /\ exit \in 0..3

DataTypes ==
  /\ pipe \in [out : Seq(LineKind), err : 0..PipeSize] /\ Len(pipe.out) <= PipeSize
  /\ answers \in Seq(Answer) /\ Len(answers) <= 3

TypeOK == SuiteTypes /\ DataTypes

\* The evidence directory may be that of an earlier run.
Init ==
  /\ pc = "start" /\ pending = "none" /\ exit = 0
  /\ server = "none" /\ pipe = [out |-> <<>>, err |-> 0] /\ stuckOn = "none"
  /\ killed = FALSE /\ killFailed = FALSE /\ late = FALSE /\ cancelled = FALSE
  /\ answers = <<>>
  /\ evidence \in {"none", "old"}
  /\ blockedTxt \in IF evidence = "old" THEN {"none", "old"} ELSE {"none"}
-----------------------------------------------------------------------------
(* The suite *)

Alive == server \in {"up", "closed", "mute"}

\* TryKill.  Kill may throw what its callers do not catch; what it throws for a
\* server that has just ended is caught.
TryKill ==
  IF ~Alive THEN UNCHANGED <<killed, killFailed>>
  ELSE \/ killed' = TRUE /\ UNCHANGED killFailed
       \/ killFailed' = TRUE /\ UNCHANGED killed

\* WriteBlockedAsync.
Blocked ==
  /\ evidence' = "blocked"
  /\ blockedTxt' = "new"

\* Variant: only the exit code tells.
LeaveSilently ==
  /\ UNCHANGED files
  /\ exit' = 2
  /\ pc' = "done"

\* The catch of RunAsync.
LeaveBlocked ==
  /\ Blocked
  /\ exit' = 2
  /\ pc' = "done"

\* Variant: the server is left to itself.
StartFailsAlone ==
  /\ LeaveBlocked
  /\ UNCHANGED <<osvars, killed, killFailed, clocks, answers, pending>>

\* The catch of StartAsync: the server is killed, not waited for.
StartFails ==
  /\ TryKill
  /\ LeaveBlocked
  /\ UNCHANGED <<osvars, clocks, answers, pending>>

\* Program.Main without --out.
NoOutDir ==
  /\ pc = "start"
  /\ pc' = "done"
  /\ exit' = 3
  /\ UNCHANGED <<osvars, killed, killFailed, clocks, answers, pending, files>>

\* No account server dll, or it cannot be started.
CannotStart ==
  /\ pc = "start"
  /\ LeaveBlocked
  /\ UNCHANGED <<osvars, killed, killFailed, clocks, answers, pending>>

Start ==
  /\ pc = "start"
  /\ server' = "up"
  /\ pc' = "ready"
  /\ UNCHANGED <<pipe, stuckOn, killed, killFailed, clocks, answers, pending, files, exit>>

Unblock(p) == IF stuckOn = p THEN "none" ELSE stuckOn

\* One line of stdout is read.  The deadline counts between lines only.
ReadLine ==
  /\ pc = "ready"
  /\ pipe.out # <<>>
  /\ LET line == Head(pipe.out)
     IN \/ /\ line = "ready"
           /\ pc' = "login"
           /\ UNCHANGED <<killed, killFailed, files, exit>>
        \/ /\ line \in {"noise", "badJson"} /\ ~late /\ ~cancelled
           /\ UNCHANGED <<pc, killed, killFailed, files, exit>>
        \/ /\ line = "badShape" \/ (line # "ready" /\ (late \/ cancelled))
           /\ TryKill
           /\ LeaveBlocked
  /\ pipe' = [pipe EXCEPT !.out = Tail(@)]
  /\ stuckOn' = Unblock("out")
  /\ UNCHANGED <<server, clocks, answers, pending>>

\* stdout ends before the ready line; what is on stderr is read to its end.
StdoutEnds ==
  /\ pc = "ready"
  /\ pipe.out = <<>> /\ server \in {"closed", "mute", "gone"}
  /\ pc' = "stderr"
  /\ UNCHANGED <<osvars, killed, killFailed, clocks, answers, pending, files, exit>>

DrainStderr ==
  /\ pc = "stderr"
  /\ pipe.err > 0
  /\ pipe' = [pipe EXCEPT !.err = 0]
  /\ stuckOn' = Unblock("err")
  /\ UNCHANGED <<pc, server, killed, killFailed, clocks, answers, pending, files, exit>>

\* The server has ended, or closed stderr and lives: then ExitCode throws.
StderrEnds ==
  /\ pc = "stderr"
  /\ server \in {"mute", "gone"} /\ pipe.err = 0
  /\ StartFails

\* Variant: ReadLineAsync without the token.
CancelStderr ==
  /\ pc = "stderr"
  /\ cancelled
  /\ StartFails

\* Every read takes the token.
CancelStart ==
  /\ pc \in {"ready", "stderr"}
  /\ cancelled
  /\ StartFails

\* Variant: what Process throws for an exited process is not caught.
DisposeUncaught(how) ==
  /\ TryKill
  /\ pending' = IF killFailed' \/ ~Alive THEN "throw" ELSE how
  /\ pc' = "exit"

\* The account is disposed of while RunAsync is being left: with its result or
\* with an exception.
Dispose(how) ==
  /\ TryKill
  /\ pending' = IF killFailed' THEN "throw" ELSE how
  /\ pc' = "exit"

Logins == 3

\* LoginOrRegisterAsync, which throws if the server is gone, closes the socket or
\* answers no JSON, or at the token: Bot01 twice, then with a wrong password.
Login ==
  /\ pc = "login"
  /\ \/ /\ Alive /\ stuckOn = "none"
        /\ \E a \in Answer : answers' = Append(answers, a)
        /\ pc' = IF Len(answers') = Logins THEN "evidence" ELSE "login"
        /\ UNCHANGED <<killed, killFailed, pending>>
     \/ /\ cancelled \/ stuckOn = "none"
        /\ UNCHANGED answers
        /\ Dispose("throw")
  /\ UNCHANGED <<osvars, clocks, files, exit>>

Scenario1 ==
  /\ answers[1].accepted /\ answers[2].accepted
  /\ answers[1].account = answers[2].account
  /\ answers[3] = Rejected("wrong_password")

\* The write may be cancelled or fail.
WriteEvidence ==
  /\ pc = "evidence"
  /\ \/ /\ evidence' = IF Scenario1 THEN "passed" ELSE "failed"
        /\ Dispose("return")
     \/ /\ UNCHANGED evidence
        /\ Dispose("throw")
  /\ UNCHANGED <<osvars, clocks, answers, blockedTxt, exit>>

\* WaitForExitAsync returns, or is not reached because Kill threw.
ServerEnded == ~Alive \/ killFailed

\* DisposeAsync waits for a server it killed, without the token.
WaitForExit ==
  /\ pc = "exit"
  /\ ServerEnded
  /\ \/ /\ pending = "return"
        /\ exit' = IF Scenario1 THEN 2 ELSE 1
        /\ pc' = "done"
        /\ UNCHANGED files
     \/ /\ pending = "throw"
        /\ LeaveBlocked
  /\ UNCHANGED <<osvars, killed, killFailed, clocks, answers, pending>>

Deadline ==
  /\ pc # "done" /\ ~late
  /\ late' = TRUE
  /\ UNCHANGED <<pc, osvars, killed, killFailed, cancelled, answers, pending, files, exit>>

Cancel ==
  /\ pc # "done" /\ ~cancelled
  /\ cancelled' = TRUE
  /\ UNCHANGED <<pc, osvars, killed, killFailed, late, answers, pending, files, exit>>
-----------------------------------------------------------------------------
(* The account server *)

\* A write to a full pipe blocks.
Say(line) ==
  /\ server = "up" /\ stuckOn = "none"
  /\ IF Len(pipe.out) < PipeSize
     THEN pipe' = [pipe EXCEPT !.out = Append(@, line)] /\ UNCHANGED stuckOn
     ELSE stuckOn' = "out" /\ UNCHANGED pipe
  /\ UNCHANGED <<pc, server, killed, killFailed, clocks, answers, pending, files, exit>>

Complain ==
  /\ server \in {"up", "closed"} /\ stuckOn = "none"
  /\ IF pipe.err < PipeSize
     THEN pipe' = [pipe EXCEPT !.err = @ + 1] /\ UNCHANGED stuckOn
     ELSE stuckOn' = "err" /\ UNCHANGED pipe
  /\ UNCHANGED <<pc, server, killed, killFailed, clocks, answers, pending, files, exit>>

CloseStdout ==
  /\ server = "up" /\ stuckOn = "none"
  /\ server' = "closed"
  /\ UNCHANGED <<pc, pipe, stuckOn, killed, killFailed, clocks, answers, pending, files, exit>>

\* Whoever reads stderr has seen stdout end before.
CloseStderr ==
  /\ server = "closed" /\ stuckOn = "none"
  /\ server' = "mute"
  /\ UNCHANGED <<pc, pipe, stuckOn, killed, killFailed, clocks, answers, pending, files, exit>>

\* A killed server dies; it may also crash at any time.
Die ==
  /\ Alive
  /\ server' = "gone"
  /\ stuckOn' = "none"
  /\ UNCHANGED <<pc, pipe, killed, killFailed, clocks, answers, pending, files, exit>>

Suite ==
  \/ NoOutDir \/ CannotStart \/ Start \/ ReadLine \/ StdoutEnds \/ DrainStderr
  \/ StderrEnds \/ CancelStart \/ Login \/ WriteEvidence \/ WaitForExit

AccountServer ==
  (\E line \in LineKind : Say(line)) \/ Complain \/ CloseStdout \/ CloseStderr \/ Die

Next == Suite \/ Deadline \/ Cancel \/ AccountServer

\* The suite goes on when it can and sees the token, the 10 min pass, a killed
\* process dies.  No login has to be answered before the token.
Fairness ==
  /\ WF_vars(pc # "login" /\ Suite)
  /\ WF_vars(CancelStart) /\ WF_vars(cancelled /\ Login)
  /\ WF_vars(Cancel)
  /\ WF_vars(killed /\ Die)

Spec == Init /\ [][Next]_vars /\ Fairness
-----------------------------------------------------------------------------
(* Properties *)

\* Exit code and evidence say the same, and both are of this run: 1 is a login
\* scenario that failed, 2 one that passed or a run that was blocked.
ExitMatchesEvidence ==
  /\ exit = 1 => evidence = "failed"
  /\ exit = 2 => evidence \in {"passed", "blocked"}
  /\ exit = 2 => (evidence = "blocked" <=> blockedTxt = "new")

\* A verdict that was written stands, also when the server has ended by itself
\* in the meantime: only disposing of a running server can replace it.
VerdictStands ==
  [][(evidence \in {"passed", "failed"}) /\ evidence' # evidence => killFailed]_vars

\* When the suite is done the account server is gone or about to die, whatever
\* step failed, unless killing it failed; a suite that has logged in has seen it
\* end, so its port is free again.
NoServerLeft ==
  pc = "done" /\ Alive => killFailed \/ (killed /\ answers = <<>>)

\* Every run ends, even if the server is silent, blocks on a pipe or never
\* answers; only the 10 min of Program.Main guarantee it.
SuiteEnds == <>(pc = "done")
=============================================================================
