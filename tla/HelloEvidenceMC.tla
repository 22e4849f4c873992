-------------------------- MODULE HelloEvidenceMC --------------------------
(***************************************************************************)
(* TLC instance of HelloEvidence: one round as it is run, with two faults; *)
(* two commands of each side, so that a tick may hold several; two rounds  *)
(* to compare.                                                             *)
(***************************************************************************)
EXTENDS HelloEvidence

Scope(r, c, f) == [rounds |-> r, commands |-> c, faults |-> f]
MCScopes == {Scope(1, 1, 2), Scope(1, 2, 1), Scope(2, 1, 1)}
=============================================================================
