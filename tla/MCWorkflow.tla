----------------------------- MODULE MCWorkflow -----------------------------
(* Instances of Workflow for TLC.                                          *)
EXTENDS Workflow

Step(mode, n, escalates) == [mode |-> mode, assignees |-> n, escalates |-> escalates]

(* Every mode, with a step before and a step after each.                   *)
OneOfEach == <<Step("SEQUENTIAL", 2, TRUE), Step("ALL", 2, TRUE), Step("ANY", 2, FALSE)>>

(* The smallest template whose second step can be passed over.             *)
AllThenAll == <<Step("ALL", 2, FALSE), Step("ALL", 2, FALSE)>>
=============================================================================
