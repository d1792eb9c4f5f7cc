-------------------------- MODULE MCExternalDecryptor --------------------------
(* Small instances of ExternalDecryptor for TLC. *)
EXTENDS ExternalDecryptor, TLC

CONSTANTS c1, c2
=============================================================================
