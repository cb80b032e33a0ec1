------------------------------ MODULE JobLease ------------------------------
(***************************************************************************)
(* What the job queue promises its users: a queued job is leased to one    *)
(* worker at a time, only the worker that holds the lease ends it or hands *)
(* the job back, and a lease that is taken away returns to the queue       *)
(* before anybody else gets it.  JobQueue implements this with rows, an    *)
(* attempt number and a timeout.                                           *)
(***************************************************************************)
EXTENDS Naturals

CONSTANTS Jobs, Workers

VARIABLES
  state,   (* of each job *)
  holders  (* the workers whose lease on the job is good *)

leaseVars == <<state, holders>>

LInit ==
  /\ state = [j \in Jobs |-> "ABSENT"]
  /\ holders = [j \in Jobs |-> {}]

Move(j, from, to) == state[j] = from /\ state' = [state EXCEPT ![j] = to]

Submit(j) == Move(j, "ABSENT", "PENDING") /\ UNCHANGED holders

Withdraw(j) == Move(j, "PENDING", "CANCELLED") /\ UNCHANGED holders

(* The reply to a grant may be lost: then nobody holds the lease.          *)
Grant(j, h) ==
  /\ Move(j, "PENDING", "RUNNING")
  /\ h = {} \/ \E w \in Workers : h = {w}
  /\ holders' = [holders EXCEPT ![j] = h]

(* The holder crashes or walks away.                                       *)
Drop(j) ==
  /\ holders[j] # {}
  /\ holders' = [holders EXCEPT ![j] = {}]
  /\ UNCHANGED state

(* Only a lease that somebody holds is ended by its worker.                *)
End(j, to) ==
  /\ holders[j] # {}
  /\ Move(j, "RUNNING", to)
  /\ holders' = [holders EXCEPT ![j] = {}]

(* Leases that timed out go back to the queue together.                    *)
Revoke(S) ==
  /\ \A j \in S : state[j] = "RUNNING"
  /\ state' = [j \in Jobs |-> IF j \in S THEN "PENDING" ELSE state[j]]
  /\ holders' = [j \in Jobs |-> IF j \in S THEN {} ELSE holders[j]]

LNext ==
  \/ \E j \in Jobs :
       \/ Submit(j) \/ Withdraw(j) \/ Drop(j)
       \/ \E h \in SUBSET Workers : Grant(j, h)
       \/ \E to \in {"PENDING", "COMPLETED", "FAILED"} : End(j, to)
  \/ \E S \in SUBSET Jobs : Revoke(S)

LSpec == LInit /\ [][LNext]_leaseVars
=============================================================================
