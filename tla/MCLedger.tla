------------------------------ MODULE MCLedger ------------------------------
(* Instances of Ledger for TLC.                                            *)
EXTENDS Ledger, TLC

CONSTANTS c1, c2, y1, y2

TwoClients == {c1, c2}
TwoYears   == {y1, y2}
Four       == 1 .. 4

(* Nothing tells the clients apart, nor the years.                         *)
Symmetry == Permutations(TwoClients) \cup Permutations(TwoYears)
=============================================================================
