--------------------------- MODULE MCControllerPak ---------------------------
(* ControllerPak for TLC: two blocks of storage, a formatted image whose   *)
(* blocks are neither zero nor anything the game writes.                   *)
EXTENDS ControllerPak

CONSTANTS zero, fmt, v1, b1, b2

MCValues == {zero, fmt, v1}
MCBlocks == {b1, b2}
MCFormatted == [b \in MCBlocks |-> fmt]
=============================================================================
