----------------------------- MODULE MCSnapshot ------------------------------
(* Instances of Snapshot for TLC.                                          *)
EXTENDS Snapshot, TLC

CONSTANTS u1, u2, w1, w2

OneUser    == {u1}
TwoUsers   == {u1, u2}
OneWorker  == {w1}
TwoWorkers == {w1, w2}

(* Accounts in two pages of two, invoices in two windows, an optional      *)
(* resource of one page, and two attachments of which one fits.            *)
FourResources == <<"accounts", "invoices", "preferences", "attachments">>
FourWindows   == [accounts |-> <<2>>, invoices |-> <<3, 1>>, preferences |-> <<1>>,
                  attachments |-> <<2>>]
TwoSizes      == <<2, 2>>

(* Three records, a page each, a page a step.                              *)
OneResource == <<"accounts">>
OneWindow   == [accounts |-> <<3>>]
NoSizes     == <<>>

Symmetry == Permutations(TwoUsers) \cup Permutations(TwoWorkers)
==============================================================================
