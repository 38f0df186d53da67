---------------------------- MODULE MCBidirList -----------------------------
(* A small instance of BidirList.                                            *)
EXTENDS BidirList, TLC

CONSTANTS x, y, z, l1, l2

ListSymmetry == Permutations({x, y, z}) \union Permutations({l1, l2})
=============================================================================
