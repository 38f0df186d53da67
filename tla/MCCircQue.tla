----------------------------- MODULE MCCircQue -----------------------------
(***************************************************************************)
(* A small instance of CircQue, with either abstractor.                    *)
(***************************************************************************)
EXTENDS CircQue, TLC

CONSTANTS x, y
=============================================================================
