--------------------------- MODULE MCCaptureProxy ---------------------------
(***************************************************************************)
(* TLC instances of CaptureProxy.                                          *)
(***************************************************************************)
EXTENDS CaptureProxy, TLC

\* Requests are interchangeable, and so are destinations.
Symmetry == Permutations(Requests) \cup Permutations(Destinations)
=============================================================================
