----------------------------- MODULE MCJobQueue -----------------------------
(* TLC instance of JobQueue: an urgent row that two workers contend for,   *)
(* and an ordinary one whose job_type has no handler and which only one of *)
(* them serves.                                                            *)
EXTENDS JobQueue

CONSTANTS j1, j2, w1, w2

OneJob           == {j1}
TwoJobs          == {j1, j2}
TwoWorkers       == {w1, w2}
TwoJobsPriority  == [j \in TwoJobs |-> IF j = j1 THEN 2 ELSE 1]
TwoJobsServes    == [w \in TwoWorkers |-> IF w = w1 THEN TwoJobs ELSE OneJob]
=============================================================================
