-------------------------- MODULE MCRuSharedMutex --------------------------
(***************************************************************************)
(* Instances of RuSharedMutex for TLC.                                     *)
(***************************************************************************)
EXTENDS RuSharedMutex, TLC

CONSTANTS a, b, c, d

ThreadSymmetry == Permutations(Thread)
=============================================================================
