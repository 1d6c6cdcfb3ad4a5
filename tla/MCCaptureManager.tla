-------------------------- MODULE MCCaptureManager --------------------------
(***************************************************************************)
(* TLC instances of CaptureManager.                                        *)
(***************************************************************************)
EXTENDS CaptureManager, TLC

\* Start calls are interchangeable.
Symmetry == Permutations(Captures)
=============================================================================
