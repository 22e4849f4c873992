-------------------------- MODULE HelloLauncherMC ---------------------------
(***************************************************************************)
(* TLC instance of HelloLauncher: the two rounds of the code.              *)
(***************************************************************************)
EXTENDS HelloLauncher
=============================================================================
