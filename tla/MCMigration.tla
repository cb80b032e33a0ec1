----------------------------- MODULE MCMigration -----------------------------
(* Instances of Migration for TLC.                                         *)
EXTENDS Migration, TLC

CONSTANTS u1, u2, w1, w2, s1, s2

TwoUsers    == {u1, u2}
TwoWorkers  == {w1, w2}
TwoSessions == {s1, s2}

(* The accounts wait for the preferences, the customers for the accounts.  *)
ThreeModules == <<"preferences", "accounts", "customers">>
ThreeDepend  == [preferences |-> {}, accounts |-> {"preferences"},
                 customers |-> {"accounts"}]

(* Nothing tells the users apart, nor the workers, nor the sessions.       *)
Symmetry == Permutations(TwoUsers) \cup Permutations(TwoWorkers)
              \cup Permutations(TwoSessions)
==============================================================================
