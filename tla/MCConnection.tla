---------------------------- MODULE MCConnection -----------------------------
(* Instances of Connection for TLC.                                        *)
EXTENDS Connection, TLC

CONSTANTS u1, u2

TwoUsers == {u1, u2}
TwoRows  == 1 .. 2
Three    == 1 .. 3

(* Nothing tells the users apart.                                          *)
Symmetry == Permutations(TwoUsers)
===============================================================================
