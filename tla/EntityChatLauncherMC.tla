------------------------ MODULE EntityChatLauncherMC ------------------------
(***************************************************************************)
(* TLC instance of EntityChatLauncher: one pack of two rounds.  What is    *)
(* said matters only as far as the two rounds agree on it.                 *)
(***************************************************************************)
EXTENDS EntityChatLauncher, TLC

SpeechSymmetry == Permutations(Speech)
=============================================================================
