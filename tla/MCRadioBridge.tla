--------------------------- MODULE MCRadioBridge ---------------------------
(***************************************************************************)
(* Small instances of RadioBridge.                                         *)
(***************************************************************************)
EXTENDS RadioBridge, TLC

\* Connections are interchangeable; users are when they use the same keys.
ConnSymmetry == Permutations(Conns)
=============================================================================
