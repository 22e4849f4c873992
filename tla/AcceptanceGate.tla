--------------------------- MODULE AcceptanceGate ---------------------------
(***************************************************************************)
(* What integration/hello/launcher.mjs promises about its verdict, without *)
(* processes, files or time.  Rounds are judged one after the other, a     *)
(* failed round is the last one, and SUCCESS with exit code 0 is reported  *)
(* exactly when every round was accepted (the run may still be FAILED then *)
(* for other reasons, and it may end with exit code 1 and no manifest).    *)
(***************************************************************************)
EXTENDS Integers

CONSTANT Rounds  \* number of rounds of one acceptance run (ROUNDS in the code)

VARIABLES
  outcome,   \* outcome[r]: "pending", "ok" or "failed"
  manifest,  \* conclusion in manifest.json, "none" while it is not written
  status     \* exit code of the launcher: "none" while it runs, "zero", "one"

gateVars == <<outcome, manifest, status>>

Rnd == 1..Rounds

GateInit ==
  /\ outcome = [r \in Rnd |-> "pending"]
  /\ manifest = "none"
  /\ status = "none"

\* Round r is judged: every earlier round was accepted, the run is not over.
Judge(r) ==
  /\ status = "none"
  /\ outcome[r] = "pending"
  /\ \A q \in Rnd : q < r => outcome[q] = "ok"
  /\ \E o \in {"ok", "failed"} : outcome' = [outcome EXCEPT ![r] = o]
  /\ UNCHANGED <<manifest, status>>

Accept ==
  /\ status = "none"
  /\ \A r \in Rnd : outcome[r] = "ok"
  /\ manifest' = "SUCCESS"
  /\ status' = "zero"
  /\ UNCHANGED outcome

Reject ==
  /\ status = "none"
  /\ manifest' \in {"none", "FAILED"}
  /\ status' = "one"
  /\ UNCHANGED outcome

GateNext == Accept \/ Reject \/ \E r \in Rnd : Judge(r)

GateSpec == GateInit /\ [][GateNext]_gateVars
=============================================================================
