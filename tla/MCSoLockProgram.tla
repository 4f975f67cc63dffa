-------------------------- MODULE MCSoLockProgram --------------------------
(* Three slots and group indices, room for two freed slots, one payload    *)
(* besides the empty and the oversized one.                                *)
EXTENDS SoLockProgram

CONSTANTS blob, longBlob

MCData     == {blob, longBlob, EmptyData}
MCTooLarge == {longBlob}
=============================================================================
