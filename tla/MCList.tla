------------------------------- MODULE MCList -------------------------------
(* A small instance of List.                                                 *)
EXTENDS List, TLC

CONSTANTS w, x, y, z, l1, l2

ElemSymmetry == Permutations(Elem)
=============================================================================
