----------------------------- MODULE MCLibrary -----------------------------
(* Instances of Library for TLC.                                           *)
EXTENDS Library

CONSTANTS p1, p2, w1, w2

=============================================================================
