---------------------------- MODULE EvidenceGate ----------------------------
(***************************************************************************)
(* What integration/entity-chat/launcher.mjs promises about its verdict.   *)
(* Every round is run and judged once, in order, whatever the rounds       *)
(* before it gave; the logs judged are the logs kept, so nothing changes   *)
(* a judgement; SUCCESS and exit code 0 need every round, while any other  *)
(* end is possible at any time.                                            *)
(***************************************************************************)
EXTENDS Integers

CONSTANT Slots  \* number of rounds of a run, all packs together

VARIABLES
  judged,  \* judged[s]: "pending", "good" or "bad"
  exit     \* exit code of the launcher, "none" while it runs

gateVars == <<judged, exit>>

GateInit ==
  /\ judged = [s \in 1..Slots |-> "pending"]
  /\ exit = "none"

\* Every round before s was judged, s itself was not.
JudgeNext(s) ==
  /\ exit = "none"
  /\ \A t \in 1..Slots : judged[t] = "pending" <=> t >= s
  /\ \E j \in {"good", "bad"} : judged' = [judged EXCEPT ![s] = j]
  /\ UNCHANGED exit

Succeed ==
  /\ exit = "none"
  /\ \A s \in 1..Slots : judged[s] = "good"
  /\ exit' = "zero"
  /\ UNCHANGED judged

Fail ==
  /\ exit = "none"
  /\ exit' = "one"
  /\ UNCHANGED judged

GateNext == Succeed \/ Fail \/ \E s \in 1..Slots : JudgeNext(s)

GateSpec == GateInit /\ [][GateNext]_gateVars
=============================================================================
