--------------------------- MODULE MCRelayWrites ---------------------------
(* RelayWrites for TLC.                                                     *)
EXTENDS RelayWrites, TLC

CONSTANTS c1, c2
ConnSymmetry == Permutations(Conn)
=============================================================================
