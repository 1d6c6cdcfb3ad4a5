-------------------------- MODULE MCSessionManager --------------------------
(***************************************************************************)
(* TLC instances of SessionManager.                                        *)
(***************************************************************************)
EXTENDS SessionManager, TLC

\* Create calls, and clients, are interchangeable.
Symmetry == Permutations(Sessions) \cup Permutations(Clients)
=============================================================================
