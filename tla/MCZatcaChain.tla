---------------------------- MODULE MCZatcaChain -----------------------------
(* TLC instance of ZatcaChain: two invoices, two users that are alike.     *)
EXTENDS ZatcaChain, TLC

CONSTANTS u1, u2

TwoUsers == {u1, u2}
Alike    == Permutations(TwoUsers)
All      == {"submit", "view", "edit", "delete"}
==============================================================================
