------------------------------ MODULE MCInvoices ------------------------------
(* Instances of Invoices for TLC.                                          *)
EXTENDS Invoices, TLC

CONSTANTS u1, u2

TwoUsers == {u1, u2}
Two      == 1 .. 2
Fourth   == 3 .. 4

(* Nothing tells the users apart.                                          *)
Symmetry == Permutations(TwoUsers)
===============================================================================
