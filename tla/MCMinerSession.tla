--------------------------- MODULE MCMinerSession ---------------------------
(***************************************************************************)
(* Small instances of MinerSession.                                        *)
(***************************************************************************)
EXTENDS MinerSession, TLC

\* calls are interchangeable and so are squares
MCSymmetry == Permutations(Calls) \cup Permutations(Squares)
=============================================================================
