-------------------------- MODULE AccountSuiteProofs --------------------------
(***************************************************************************)
(* Proofs about AccountSuite for every set of accounts and every size of   *)
(* the pipes.                                                              *)
(***************************************************************************)
EXTENDS AccountSuite, TLAPS

(* No server runs before it is started.                                         *)
NotStarted == pc = "start" => server = "none"

(* Before the logins there are no answers, and no more than three afterwards.   *)
AnswersInTurn ==
  /\ pc \in {"start", "ready", "stderr"} => answers = <<>>
  /\ pc = "login" => Len(answers) < Logins

(* A run that goes on has no exit code, and no verdict before its evidence.     *)
Undecided ==
  /\ pc # "done" => exit = 0 /\ blockedTxt # "new"
  /\ pc \in {"start", "ready", "stderr", "login", "evidence"} => evidence \in {"none", "old"}

(* RunAsync returns with the verdict it wrote; an exception replaces it only if *)
(* Kill threw.                                                                  *)
LeavesWithVerdict ==
  pc = "exit" =>
    \/ pending = "return" /\ evidence = IF Scenario1 THEN "passed" ELSE "failed"
    \/ pending = "throw" /\ (evidence \in {"passed", "failed"} => killFailed)

IInv ==
  /\ TypeOK
  /\ NotStarted
  /\ AnswersInTurn
  /\ Undecided
  /\ LeavesWithVerdict
  /\ ExitMatchesEvidence
  /\ NoServerLeft

(* The initial states satisfy the invariant.                                    *)
LEMMA InvInit == Init => IInv
<1> SUFFICES ASSUME Init PROVE IInv
  OBVIOUS
<1>1. TypeOK
  <2>1. pipe \in [out : Seq(LineKind), err : 0..PipeSize] /\ Len(pipe.out) <= PipeSize
    <3>1. <<>> \in Seq(LineKind) /\ Len(<<>>) = 0 /\ 0 \in 0..PipeSize
      BY PipeAssumption
    <3>2. pipe.out = <<>>
      BY DEF Init
    <3> QED
      BY <3>1, <3>2, PipeAssumption DEF Init
  <2>2. answers \in Seq(Answer) /\ Len(answers) <= 3
    <3>1. <<>> \in Seq(Answer) /\ Len(<<>>) = 0
      OBVIOUS
    <3> QED
      BY <3>1 DEF Init
  <2>3. /\ evidence \in {"none", "old", "passed", "failed", "blocked"}
        /\ blockedTxt \in {"none", "old", "new"}
    BY DEF Init
  <2>4. {killed, killFailed, late, cancelled} \subseteq BOOLEAN
    BY DEF Init
  <2>5. /\ pc = "start" /\ pending = "none" /\ exit = 0
        /\ server = "none" /\ stuckOn = "none"
    BY DEF Init
  <2> QED
    BY <2>1, <2>2, <2>3, <2>4, <2>5 DEF TypeOK, SuiteTypes, DataTypes
<1> QED
  BY <1>1 DEF Init, IInv, NotStarted, AnswersInTurn, Undecided, LeavesWithVerdict,
              ExitMatchesEvidence, NoServerLeft, Logins, Alive
-----------------------------------------------------------------------------
(* Types *)

(* A step keeps the types of everything but the pipes and the answers.          *)
LEMMA SuiteTypesStep == TypeOK /\ [Next]_vars => SuiteTypes'
<1> SUFFICES ASSUME TypeOK, [Next]_vars PROVE SuiteTypes'
  OBVIOUS
<1> USE DEF SuiteTypes
<1>1. SuiteTypes
  BY DEF TypeOK
<1> DEFINE killTypes == killed \in BOOLEAN /\ killFailed \in BOOLEAN
           endTypes == /\ pc \in {"start", "ready", "stderr", "login", "evidence", "exit", "done"}
                       /\ evidence \in {"none", "old", "passed", "failed", "blocked"}
                       /\ blockedTxt \in {"none", "old", "new"}
                       /\ exit \in 0..3
           stuckType == stuckOn \in {"none", "out", "err"}
<1>2. TryKill => killTypes'
  BY <1>1 DEF TryKill
<1>3. LeaveBlocked => endTypes'
  BY DEF LeaveBlocked, Blocked
<1>4. ASSUME NEW q, stuckOn' = Unblock(q) PROVE stuckType'
  BY <1>1, <1>4 DEF Unblock
<1>5. CASE NoOutDir \/ Start \/ StdoutEnds
  BY <1>1, <1>5 DEF NoOutDir, Start, StdoutEnds, osvars, clocks, files
<1>6. CASE DrainStderr
  BY <1>1, <1>4, <1>6 DEF DrainStderr, clocks, files
<1>7. CASE CannotStart
  BY <1>1, <1>3, <1>7 DEF CannotStart, osvars, clocks
<1>8. CASE StderrEnds \/ CancelStart
  <2>1. StartFails
    BY <1>8 DEF StderrEnds, CancelStart
  <2>2. killTypes' /\ endTypes' /\ UNCHANGED <<osvars, clocks, pending>>
    BY <1>2, <1>3, <2>1 DEF StartFails
  <2> QED
    BY <1>1, <2>2 DEF osvars, clocks
<1>9. CASE ReadLine
  <2>1. stuckType' /\ UNCHANGED <<server, clocks, pending>>
    BY <1>9, <1>4 DEF ReadLine
  <2>2. endTypes' /\ killTypes'
    BY <1>1, <1>9, <1>2, <1>3 DEF ReadLine, files
  <2> QED
    BY <1>1, <2>1, <2>2 DEF clocks
<1>10. ASSUME NEW how \in {"return", "throw"}, Dispose(how)
      PROVE  /\ {killed', killFailed'} \subseteq BOOLEAN
             /\ pending' \in {"none", "return", "throw"} /\ pc' = "exit"
  BY <1>1, <1>10 DEF Dispose, TryKill
<1>11. CASE Login
  BY <1>1, <1>10, <1>11 DEF Login, osvars, clocks, files
<1>12. CASE WriteEvidence
  BY <1>1, <1>10, <1>12 DEF WriteEvidence, osvars, clocks
<1>13. CASE WaitForExit
  BY <1>1, <1>13 DEF WaitForExit, LeaveBlocked, Blocked, osvars, clocks, files
<1>14. CASE Deadline \/ Cancel
  BY <1>1, <1>14 DEF Deadline, Cancel, osvars, files
<1>15. CASE AccountServer
  BY <1>1, <1>15 DEF AccountServer, Say, Complain, CloseStdout, CloseStderr, Die, clocks, files
<1>16. CASE UNCHANGED vars
  BY <1>1, <1>16 DEF vars, osvars, clocks, files
<1> QED
  BY <1>5, <1>6, <1>7, <1>8, <1>9, <1>11, <1>12, <1>13, <1>14, <1>15, <1>16 DEF Next, Suite

(* Lines enter a pipe one at a time, only while it has room, and leave it first *)
(* come first served.                                                           *)
LEMMA PipeStep ==
  TypeOK /\ [Next]_vars =>
    pipe' \in [out : Seq(LineKind), err : 0..PipeSize] /\ Len(pipe'.out) <= PipeSize
<1> DEFINE PipeType == pipe \in [out : Seq(LineKind), err : 0..PipeSize] /\ Len(pipe.out) <= PipeSize
<1> SUFFICES ASSUME TypeOK, [Next]_vars PROVE PipeType'
  OBVIOUS
<1>1. PipeType
  BY DEF TypeOK, DataTypes
<1>2. CASE ReadLine
  <2>1. pipe' = [pipe EXCEPT !.out = Tail(@)] /\ pipe.out # <<>>
    BY <1>2 DEF ReadLine
  <2>2. Tail(pipe.out) \in Seq(LineKind) /\ Len(Tail(pipe.out)) <= PipeSize
    BY <1>1, <2>1, PipeAssumption
  <2> QED
    BY <1>1, <2>1, <2>2
<1>3. CASE DrainStderr
  BY <1>1, <1>3, PipeAssumption DEF DrainStderr
<1>4. ASSUME NEW line \in LineKind, Say(line) PROVE PipeType'
  BY <1>1, <1>4, PipeAssumption DEF Say
<1>5. CASE Complain
  BY <1>1, <1>5, PipeAssumption DEF Complain
<1>6. CASE UNCHANGED pipe
  BY <1>1, <1>6
<1>7. CASE \/ NoOutDir \/ CannotStart \/ Start \/ StdoutEnds \/ StderrEnds \/ CancelStart \/ Login
           \/ WriteEvidence \/ WaitForExit \/ Deadline \/ Cancel \/ CloseStdout \/ CloseStderr
           \/ Die \/ UNCHANGED vars
  BY <1>6, <1>7
     DEF NoOutDir, CannotStart, Start, StdoutEnds, StderrEnds, StartFails, CancelStart, Login,
         WriteEvidence, WaitForExit, Deadline, Cancel, CloseStdout, CloseStderr, Die, osvars, vars
<1> QED
  BY <1>2, <1>3, <1>4, <1>5, <1>7 DEF Next, Suite, AccountServer

(* The suite logs in three times at most.                                       *)
LEMMA AnswersStep ==
  TypeOK /\ AnswersInTurn /\ [Next]_vars =>
    answers' \in Seq(Answer) /\ Len(answers') <= 3 /\ AnswersInTurn'
<1> SUFFICES ASSUME TypeOK, AnswersInTurn, [Next]_vars
             PROVE  answers' \in Seq(Answer) /\ Len(answers') <= 3 /\ AnswersInTurn'
  OBVIOUS
<1> USE DEF AnswersInTurn, Logins
<1>1. answers \in Seq(Answer) /\ Len(answers) <= 3
  BY DEF TypeOK, DataTypes
<1>2. CASE Login
  <2>1. ASSUME NEW a \in Answer, answers' = Append(answers, a),
               pc' = IF Len(answers') = Logins THEN "evidence" ELSE "login"
        PROVE  answers' \in Seq(Answer) /\ Len(answers') <= 3 /\ AnswersInTurn'
    BY <1>1, <1>2, <2>1 DEF Login
  <2>2. CASE UNCHANGED answers /\ pc' = "exit"
    BY <1>1, <2>2
  <2> QED
    BY <1>2, <2>1, <2>2 DEF Login, Dispose
<1>3. CASE ReadLine
  <2>1. UNCHANGED answers /\ answers = <<>>
    BY <1>3 DEF ReadLine
  <2> QED
    BY <2>1
<1>4. CASE \/ NoOutDir \/ CannotStart \/ Start \/ StdoutEnds \/ DrainStderr \/ StderrEnds
           \/ CancelStart \/ WriteEvidence \/ WaitForExit \/ Deadline \/ Cancel
           \/ AccountServer \/ UNCHANGED vars
  <2>1. UNCHANGED answers
    BY <1>4
       DEF NoOutDir, CannotStart, Start, StdoutEnds, DrainStderr, StderrEnds, CancelStart,
           StartFails, WriteEvidence, WaitForExit, Deadline, Cancel, AccountServer, Say,
           Complain, CloseStdout, CloseStderr, Die, vars
  <2>2. /\ pc' \in {"start", "ready", "stderr"} => pc \in {"start", "ready", "stderr"}
        /\ pc' = "login" => pc = "login"
    BY <1>4
       DEF NoOutDir, CannotStart, Start, StdoutEnds, DrainStderr, StderrEnds, CancelStart,
           StartFails, LeaveBlocked, WriteEvidence, Dispose, WaitForExit, Deadline, Cancel,
           AccountServer, Say, Complain, CloseStdout, CloseStderr, Die, vars
  <2> QED
    BY <1>1, <2>1, <2>2
<1> QED
  BY <1>2, <1>3, <1>4 DEF Next, Suite

(* A step keeps every type; answers are those of the logins so far.             *)
LEMMA TypeStep == TypeOK /\ AnswersInTurn /\ [Next]_vars => TypeOK'
  BY SuiteTypesStep, PipeStep, AnswersStep DEF TypeOK, DataTypes
-----------------------------------------------------------------------------
(* The verdict *)

(* An exit code and blocked.txt appear together with the end of the run.        *)
LEMMA UndecidedStep == IInv /\ [Next]_vars => Undecided'
<1> SUFFICES ASSUME IInv, [Next]_vars PROVE Undecided'
  OBVIOUS
<1> USE DEF Undecided
<1>1. Undecided
  BY DEF IInv
<1>2. CASE NoOutDir \/ CannotStart \/ StderrEnds \/ CancelStart \/ WaitForExit
  BY <1>2 DEF NoOutDir, CannotStart, StderrEnds, CancelStart, StartFails, WaitForExit, LeaveBlocked
<1>3. CASE ReadLine
  BY <1>1, <1>3 DEF ReadLine, LeaveBlocked, files
<1>4. CASE WriteEvidence
  BY <1>1, <1>4 DEF WriteEvidence, Dispose
<1>5. CASE Start \/ StdoutEnds \/ DrainStderr \/ Login
  BY <1>1, <1>5 DEF Start, StdoutEnds, DrainStderr, Login, Dispose, files
<1>6. CASE Deadline \/ Cancel \/ AccountServer
  BY <1>1, <1>6 DEF Deadline, Cancel, AccountServer, Say, Complain, CloseStdout, CloseStderr, Die, files
<1>7. CASE UNCHANGED vars
  BY <1>1, <1>7 DEF vars, files
<1> QED
  BY <1>2, <1>3, <1>4, <1>5, <1>6, <1>7 DEF Next, Suite

(* What the suite leaves with is what it wrote.                                 *)
LEMMA LeavesStep == IInv /\ [Next]_vars => LeavesWithVerdict'
<1> SUFFICES ASSUME IInv, [Next]_vars PROVE LeavesWithVerdict'
  OBVIOUS
<1> USE DEF LeavesWithVerdict
<1>1. LeavesWithVerdict /\ Undecided
  BY DEF IInv
<1>2. CASE Login
  BY <1>1, <1>2 DEF Login, Dispose, Undecided, files
<1>3. CASE WriteEvidence
  <2>1. pc = "evidence" /\ UNCHANGED answers
    BY <1>3 DEF WriteEvidence
  <2>2. Scenario1' <=> Scenario1
    BY <2>1 DEF Scenario1
  <2>3. CASE evidence' = (IF Scenario1 THEN "passed" ELSE "failed") /\ Dispose("return")
    BY <2>2, <2>3 DEF Dispose
  <2>4. CASE UNCHANGED evidence /\ Dispose("throw")
    BY <1>1, <2>1, <2>4 DEF Dispose, Undecided
  <2> QED
    BY <1>3, <2>3, <2>4 DEF WriteEvidence
<1>4. CASE NoOutDir \/ CannotStart \/ StderrEnds \/ CancelStart \/ WaitForExit
  BY <1>4 DEF NoOutDir, CannotStart, StderrEnds, CancelStart, StartFails, WaitForExit, LeaveBlocked
<1>5. CASE ReadLine
  BY <1>5 DEF ReadLine, LeaveBlocked
<1>6. CASE Start \/ StdoutEnds \/ DrainStderr
  BY <1>6 DEF Start, StdoutEnds, DrainStderr
<1>7. CASE UNCHANGED <<pc, pending, evidence, killFailed, answers>>
  <2>1. Scenario1' <=> Scenario1
    BY <1>7 DEF Scenario1
  <2> QED
    BY <1>1, <1>7, <2>1
<1>8. CASE Deadline \/ Cancel \/ AccountServer \/ UNCHANGED vars
  BY <1>7, <1>8
     DEF Deadline, Cancel, AccountServer, Say, Complain, CloseStdout, CloseStderr, Die, files, vars
<1> QED
  BY <1>2, <1>3, <1>4, <1>5, <1>6, <1>8 DEF Next, Suite

(* The exit code says what the evidence says.                                   *)
LEMMA ExitStep == IInv /\ [Next]_vars => ExitMatchesEvidence'
<1> SUFFICES ASSUME IInv, [Next]_vars PROVE ExitMatchesEvidence'
  OBVIOUS
<1> USE DEF ExitMatchesEvidence
<1>1. ExitMatchesEvidence /\ Undecided /\ LeavesWithVerdict
  BY DEF IInv
<1>2. ASSUME LeaveBlocked PROVE ExitMatchesEvidence'
  BY <1>2 DEF LeaveBlocked, Blocked
<1>3. CASE WaitForExit
  BY <1>1, <1>2, <1>3 DEF WaitForExit, LeavesWithVerdict, Undecided, files
<1>4. CASE CannotStart \/ StderrEnds \/ CancelStart
  BY <1>2, <1>4 DEF CannotStart, StderrEnds, CancelStart, StartFails
<1>5. CASE ReadLine
  BY <1>1, <1>2, <1>5 DEF ReadLine, files
<1>6. CASE NoOutDir
  BY <1>6 DEF NoOutDir
<1>7. CASE pc # "done" /\ UNCHANGED exit
  BY <1>1, <1>7 DEF Undecided
<1>8. CASE Start \/ StdoutEnds \/ DrainStderr \/ Login \/ WriteEvidence \/ Deadline \/ Cancel
  BY <1>7, <1>8
     DEF Start, StdoutEnds, DrainStderr, Login, WriteEvidence, Deadline, Cancel, files
<1>9. CASE AccountServer \/ UNCHANGED vars
  BY <1>1, <1>9 DEF AccountServer, Say, Complain, CloseStdout, CloseStderr, Die, files, vars
<1> QED
  BY <1>3, <1>4, <1>5, <1>6, <1>8, <1>9 DEF Next, Suite

(* A run without a server has not started one.                                  *)
LEMMA NotStartedStep == IInv /\ [Next]_vars => NotStarted'
<1> SUFFICES ASSUME IInv, [Next]_vars, pc' = "start" PROVE server' = "none"
  BY DEF NotStarted
<1>1. NotStarted
  BY DEF IInv
<1>2. ~Suite
  BY DEF Suite, NoOutDir, CannotStart, Start, ReadLine, StdoutEnds, DrainStderr, StderrEnds,
         CancelStart, StartFails, LeaveBlocked, Login, WriteEvidence, Dispose, WaitForExit
<1>3. pc = "start"
  BY <1>2 DEF Next, Deadline, Cancel, AccountServer, Say, Complain, CloseStdout, CloseStderr, Die, vars
<1> QED
  BY <1>1, <1>2, <1>3
     DEF NotStarted, Alive, Next, Deadline, Cancel, AccountServer, Say, Complain, CloseStdout,
         CloseStderr, Die, osvars, vars

(* A step never leaves a server behind.                                         *)
LEMMA ServerStep == IInv /\ [Next]_vars => NoServerLeft'
<1> SUFFICES ASSUME IInv, [Next]_vars PROVE NoServerLeft'
  OBVIOUS
<1> USE DEF NoServerLeft, Alive
<1>1. /\ NoServerLeft /\ AnswersInTurn /\ NotStarted
      /\ killed \in BOOLEAN /\ killFailed \in BOOLEAN
  BY DEF IInv, TypeOK, SuiteTypes
<1> HIDE DEF NoServerLeft
<1>2. ASSUME TryKill, answers = <<>>, UNCHANGED <<server, answers>>
      PROVE  NoServerLeft'
  BY <1>2 DEF TryKill, NoServerLeft
<1>3. CASE StderrEnds \/ CancelStart
  BY <1>1, <1>2, <1>3 DEF StderrEnds, CancelStart, StartFails, AnswersInTurn, osvars
<1>4. CASE ReadLine
  <2>1. CASE TryKill
    BY <1>1, <1>2, <1>4, <2>1 DEF ReadLine, AnswersInTurn
  <2>2. CASE pc' # "done"
    BY <2>2 DEF NoServerLeft
  <2> QED
    BY <1>4, <2>1, <2>2 DEF ReadLine
<1>5. CASE WaitForExit
  BY <1>5 DEF WaitForExit, ServerEnded, NoServerLeft, osvars
<1>6. CASE NoOutDir \/ CannotStart
  <2>1. server' = "none"
    BY <1>1, <1>6 DEF NoOutDir, CannotStart, NotStarted, osvars
  <2> QED
    BY <2>1 DEF NoServerLeft
<1>7. CASE Start \/ StdoutEnds \/ DrainStderr \/ Login \/ WriteEvidence
  <2>1. pc' # "done"
    BY <1>7 DEF Start, StdoutEnds, DrainStderr, Login, WriteEvidence, Dispose
  <2> QED
    BY <2>1 DEF NoServerLeft
<1>8. CASE Deadline \/ Cancel \/ AccountServer \/ UNCHANGED vars
  BY <1>1, <1>8
     DEF Deadline, Cancel, AccountServer, Say, Complain, CloseStdout, CloseStderr, Die, osvars,
         vars, NoServerLeft
<1> QED
  BY <1>3, <1>4, <1>5, <1>6, <1>7, <1>8 DEF Next, Suite

(* The invariant holds in every state.                                          *)
THEOREM Inductive == Spec => []IInv
<1>1. IInv /\ [Next]_vars => IInv'
  BY TypeStep, AnswersStep, UndecidedStep, LeavesStep, ExitStep, NotStartedStep, ServerStep
     DEF IInv
<1> QED
  BY InvInit, <1>1, PTL DEF Spec
-----------------------------------------------------------------------------
(* What follows *)

(* Types; a pipe never holds more than its size and there are at most three     *)
(* answers.                                                                     *)
THEOREM TypeCorrect == Spec => []TypeOK
<1>1. IInv => TypeOK
  BY DEF IInv
<1> QED
  BY <1>1, Inductive, PTL

(* Exit code, evidence.json and blocked.txt say the same (RunAsync).            *)
THEOREM ExitIsEvidence == Spec => []ExitMatchesEvidence
<1>1. IInv => ExitMatchesEvidence
  BY DEF IInv
<1> QED
  BY <1>1, Inductive, PTL

(* However the server behaves and whichever step fails, it was killed or has    *)
(* ended when the suite is done, unless Kill threw (StartAsync, DisposeAsync).  *)
THEOREM NobodyLeft == Spec => []NoServerLeft
<1>1. IInv => NoServerLeft
  BY DEF IInv
<1> QED
  BY <1>1, Inductive, PTL

(* A verdict that was written is only replaced if Kill threw (RunAsync).        *)
THEOREM VerdictIsFinal == Spec => VerdictStands
<1>1. ASSUME IInv, [Next]_vars, evidence \in {"passed", "failed"}, evidence' # evidence
      PROVE  killFailed
  <2>1. pc \in {"exit", "done"}
    BY <1>1 DEF IInv, TypeOK, SuiteTypes, Undecided
  <2>2. CASE WaitForExit
    BY <1>1, <2>2 DEF IInv, LeavesWithVerdict, WaitForExit, files
  <2>3. ~WaitForExit => UNCHANGED evidence
    BY <1>1, <2>1
       DEF Next, Suite, NoOutDir, CannotStart, Start, ReadLine, StdoutEnds, DrainStderr, StderrEnds,
           CancelStart, Login, WriteEvidence, Deadline, Cancel, AccountServer, Say, Complain,
           CloseStdout, CloseStderr, Die, files, vars
  <2> QED
    BY <1>1, <2>2, <2>3
<1>2. IInv /\ [Next]_vars =>
        [(evidence \in {"passed", "failed"}) /\ evidence' # evidence => killFailed]_vars
  BY <1>1
<1> QED
  BY <1>2, Inductive, PTL DEF Spec, VerdictStands
=============================================================================
