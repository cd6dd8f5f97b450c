----------------------------- MODULE GameMemory ------------------------------
(* The game's memory (RDRAM) as the developer tools see it: words and what   *)
(* they may hold, as signed numbers.                                        *)
EXTENDS Integers

CONSTANTS Words, Values
=============================================================================
