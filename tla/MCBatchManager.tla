--------------------------- MODULE MCBatchManager ---------------------------
(***************************************************************************)
(* TLC instances of BatchManager: a long plan, and a short one that        *)
(* competes with it for the slot.                                          *)
(***************************************************************************)
EXTENDS BatchManager

CONSTANTS long, short

MCSize == [b \in Batches |-> IF b = long THEN 3 ELSE 1]

MCUnsupported == [b \in Batches |-> IF b = long THEN {3} ELSE {1}]
=============================================================================
