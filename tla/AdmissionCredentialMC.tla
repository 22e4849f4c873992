----------------------- MODULE AdmissionCredentialMC -----------------------
(* Names for TLC: empty, a browser's, a bot's, one that is only "Bot". *)
EXTENDS AdmissionCredential

MCName == {<<>>, <<2>>, <<Prefix>>, <<Prefix, Digit>>}
=============================================================================
