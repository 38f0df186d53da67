----------------------------- MODULE MCHashTable ----------------------------
(* A small instance of HashTable: three buckets, the middle one never used,  *)
(* and two keys that share a bucket.                                         *)
EXTENDS HashTable, TLC

CONSTANTS x, y, z, k1, k2, k3

Buckets == 0..2
HashOf == (k1 :> 0) @@ (k2 :> 0) @@ (k3 :> 2)

ElemSymmetry == Permutations(Elem)
=============================================================================
