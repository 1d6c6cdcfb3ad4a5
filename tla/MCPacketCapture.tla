--------------------------- MODULE MCPacketCapture --------------------------
(* One probe, one other lane and one other process that connect to the     *)
(* same target; two observations fill a capture.                         *)
EXTENDS PacketCapture

MCLanes  == {2}
MCAliens == {3}
=============================================================================
