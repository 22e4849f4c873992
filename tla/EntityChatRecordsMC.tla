------------------------ MODULE EntityChatRecordsMC ------------------------
(***************************************************************************)
(* TLC instance of EntityChatRecords.  A sender stands for itself and its  *)
(* text, and the oracle only ever compares two of them, so senders may     *)
(* change places.                                                          *)
(***************************************************************************)
EXTENDS EntityChatRecords, TLC

BotSymmetry == Permutations(Bot)
=============================================================================
