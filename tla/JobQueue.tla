------------------------------ MODULE JobQueue ------------------------------
(***************************************************************************)
(* The platform job queue: rows of job_queue (037_platform_services.sql),  *)
(* the requests of src/lib/platform/jobs/queue.ts that read and write them *)
(* and the worker loop of workers.ts that issues the requests one at a     *)
(* time.  Every request is one step, because other workers, timers, users  *)
(* and crashes come between two awaits.                                    *)
(*                                                                         *)
(* A worker is any caller of processJobBatch: the long-running worker      *)
(* process, or one POST /api/platform/jobs invocation.                     *)
(***************************************************************************)
EXTENDS Naturals, FiniteSets

CONSTANTS
  Jobs,         (* ids of queue rows                                       *)
  Workers,
  NoJob,
  MaxAttempts,  (* job_queue.max_attempts                                  *)
  Priority,     (* job_queue.priority of each row                          *)
  Serves,       (* rows whose job_type each worker asks claimNextJob for   *)
  Handled,      (* rows whose job_type has a registered handler            *)
  PromptClaims, (* no claimer waits between its SELECT and its UPDATE for  *)
                (* as long as STALE_JOB_TIMEOUT_MS                         *)
  MaxTroubles   (* bound: requests that fail or whose reply is lost,       *)
                (* crashes and redeployments of workers, and leases that   *)
                (* expire while their worker lives                         *)

ASSUME JobsAssumption     == IsFiniteSet(Jobs) /\ NoJob \notin Jobs
ASSUME AttemptsAssumption == MaxAttempts \in Nat \ {0}
ASSUME RoutingAssumption  ==
  /\ Priority \in [Jobs -> Nat]
  /\ Serves \in [Workers -> SUBSET Jobs]
  /\ Handled \subseteq Jobs
ASSUME TimingAssumption   == PromptClaims \in BOOLEAN
ASSUME BoundsAssumption   == MaxTroubles \in Nat

VARIABLES
  status,      (* job_queue.status, or ABSENT before the insert            *)
  attempts,    (* job_queue.attempts                                       *)
  due,         (* scheduled_at <= now                                      *)
  stale,       (* updated_at < now - STALE_JOB_TIMEOUT_MS                  *)
  completed,   (* job_history rows with status COMPLETED                   *)
  deadLetters, (* dead_letter_queue rows                                   *)
  claims,      (* history: claim UPDATEs that matched the row              *)
  pc,          (* the request the worker issues next                       *)
  held,        (* the row the worker selected or holds                     *)
  attempt,     (* while claiming: attempts as read; then the lease number  *)
  lost,        (* JobOwnership.lost                                        *)
  faults,      (* requests that failed or whose reply was lost, crashes    *)
  stalls       (* leases that expired while their worker lived             *)

rows    == <<status, attempts, due, stale, completed, deadLetters, claims>>
leases  == <<pc, held, attempt, lost>>
counted == <<faults, stalls>>
vars    == <<status, attempts, due, stale, completed, deadLetters, claims,
             pc, held, attempt, lost, faults, stalls>>

Statuses == {"ABSENT", "PENDING", "RUNNING", "COMPLETED", "FAILED", "CANCELLED"}
Terminal == {"COMPLETED", "FAILED", "CANCELLED"}

(* Between the claim and the write that gives the row up, a worker acts as *)
(* the owner of its row; its interval heartbeats run in Beating.           *)
Beating == {"run", "verify", "complete"}
Leased  == Beating \cup {"start", "assert", "beat", "fail", "retry", "bury"}
PCs     == Leased \cup {"idle", "select", "claim", "log", "deadletter"}

(* The guard of every write a worker makes: id, RUNNING and the attempt.   *)
Matches(w) ==
  /\ status[held[w]] = "RUNNING"
  /\ attempts[held[w]] = attempt[w]

Owns(w, j) == pc[w] \in Leased /\ held[w] = j /\ Matches(w)

Goto(w, l) == pc' = [pc EXCEPT ![w] = l]

Release(w) ==
  /\ Goto(w, "idle")
  /\ held' = [held EXCEPT ![w] = NoJob]
  /\ attempt' = [attempt EXCEPT ![w] = 0]
  /\ lost' = [lost EXCEPT ![w] = FALSE]

Troublesome == faults + stalls < MaxTroubles

Fault ==
  /\ Troublesome
  /\ faults' = faults + 1
  /\ UNCHANGED stalls

Init ==
  /\ status = [j \in Jobs |-> "ABSENT"]
  /\ attempts = [j \in Jobs |-> 0]
  /\ due = [j \in Jobs |-> FALSE]
  /\ stale = [j \in Jobs |-> FALSE]
  /\ completed = [j \in Jobs |-> 0]
  /\ deadLetters = [j \in Jobs |-> 0]
  /\ claims = [j \in Jobs |-> 0]
  /\ pc = [w \in Workers |-> "idle"]
  /\ held = [w \in Workers |-> NoJob]
  /\ attempt = [w \in Workers |-> 0]
  /\ lost = [w \in Workers |-> FALSE]
  /\ faults = 0 /\ stalls = 0

-----------------------------------------------------------------------------
(* Producers.                                                              *)

(* enqueueJob: PENDING, attempts 0, scheduled now unless the caller says   *)
(* otherwise.                                                              *)
Enqueue(j) ==
  /\ status[j] = "ABSENT"
  /\ status' = [status EXCEPT ![j] = "PENDING"]
  /\ due' = [due EXCEPT ![j] = TRUE]
  /\ UNCHANGED <<attempts, stale, completed, deadLetters, claims, leases, counted>>

(* cancelPendingContinuationJobs: PENDING rows only.                       *)
CancelPending(j) ==
  /\ status[j] = "PENDING"
  /\ status' = [status EXCEPT ![j] = "CANCELLED"]
  /\ UNCHANGED <<attempts, due, stale, completed, deadLetters, claims, leases, counted>>

-----------------------------------------------------------------------------
(* claimNextJob: three requests.                                           *)

(* Mutant: rows that used up their attempts are not brought back.          *)
RecoverStale_Budgeted(w) ==
  LET abandoned == {j \in Jobs : status[j] = "RUNNING" /\ stale[j] /\ attempts[j] < MaxAttempts} IN
  /\ pc[w] = "idle"
  /\ status' = [j \in Jobs |-> IF j \in abandoned THEN "PENDING" ELSE status[j]]
  /\ due' = [j \in Jobs |-> due[j] \/ j \in abandoned]
  /\ stale' = [j \in Jobs |-> stale[j] /\ j \notin abandoned]
  /\ Goto(w, "select")
  /\ UNCHANGED <<attempts, completed, deadLetters, claims, held, attempt, lost, counted>>

(* Every RUNNING row without a heartbeat for the timeout is PENDING again, *)
(* whatever its type and however many attempts it has had.                 *)
RecoverStale(w) ==
  LET abandoned == {j \in Jobs : status[j] = "RUNNING" /\ stale[j]} IN
  /\ pc[w] = "idle"
  /\ status' = [j \in Jobs |-> IF j \in abandoned THEN "PENDING" ELSE status[j]]
  /\ due' = [j \in Jobs |-> due[j] \/ j \in abandoned]
  /\ stale' = [j \in Jobs |-> stale[j] /\ j \notin abandoned]
  /\ Goto(w, "select")
  /\ UNCHANGED <<attempts, completed, deadLetters, claims, held, attempt, lost, counted>>

Eligible(w) == {j \in Serves[w] : status[j] = "PENDING" /\ due[j]}

(* The best-priority due row; rows of one priority are served by           *)
(* scheduled_at, whose order the model leaves open.  The row is read here  *)
(* and written only by the next request.                                   *)
Select(w) ==
  /\ pc[w] = "select"
  /\ \/ \E j \in Eligible(w) :
          /\ \A k \in Eligible(w) : Priority[k] <= Priority[j]
          /\ Goto(w, "claim")
          /\ held' = [held EXCEPT ![w] = j]
          /\ attempt' = [attempt EXCEPT ![w] = attempts[j]]
          /\ UNCHANGED lost
     \/ Eligible(w) = {} /\ Release(w)
  /\ UNCHANGED <<rows, counted>>

(* Mutants: a claim that does not check the status, one that counts down.  *)
TakeRow_Unguarded(w) ==
  LET j == held[w] IN
  /\ status' = [status EXCEPT ![j] = "RUNNING"]
  /\ attempts' = [attempts EXCEPT ![j] = attempt[w] + 1]
  /\ stale' = [stale EXCEPT ![j] = FALSE]
  /\ claims' = [claims EXCEPT ![j] = @ + 1]
  /\ UNCHANGED <<due, completed, deadLetters>>

TakeRow_Down(w) ==
  LET j == held[w] IN
  /\ status[j] = "PENDING"
  /\ status' = [status EXCEPT ![j] = "RUNNING"]
  /\ attempts' = [attempts EXCEPT ![j] = attempt[w] - 1]
  /\ stale' = [stale EXCEPT ![j] = FALSE]
  /\ claims' = [claims EXCEPT ![j] = @ + 1]
  /\ UNCHANGED <<due, completed, deadLetters>>

(* UPDATE ... SET attempts = <attempts as selected> + 1 WHERE id AND       *)
(* status = 'PENDING'.                                                     *)
TakeRow(w) ==
  LET j == held[w] IN
  /\ status[j] = "PENDING"
  /\ status' = [status EXCEPT ![j] = "RUNNING"]
  /\ attempts' = [attempts EXCEPT ![j] = attempt[w] + 1]
  /\ stale' = [stale EXCEPT ![j] = FALSE]
  /\ claims' = [claims EXCEPT ![j] = @ + 1]
  /\ UNCHANGED <<due, completed, deadLetters>>

(* Mutant: a claim that keeps the attempt it read.                         *)
Claim_Unnumbered(w) ==
  /\ pc[w] = "claim"
  /\ \/ /\ status[held[w]] = "PENDING"
        /\ status' = [status EXCEPT ![held[w]] = "RUNNING"]
        /\ stale' = [stale EXCEPT ![held[w]] = FALSE]
        /\ claims' = [claims EXCEPT ![held[w]] = @ + 1]
        /\ Goto(w, "start")
        /\ UNCHANGED <<attempts, due, completed, deadLetters, held, attempt, lost, counted>>
     \/ /\ status[held[w]] # "PENDING"
        /\ Release(w)
        /\ UNCHANGED <<rows, counted>>

Claim(w) ==
  /\ pc[w] = "claim"
  /\ \/ /\ TakeRow(w)
        /\ Goto(w, "start")
        /\ attempt' = [attempt EXCEPT ![w] = @ + 1]
        /\ UNCHANGED <<held, lost, counted>>
     \/ /\ status[held[w]] # "PENDING"
        /\ Release(w)
        /\ UNCHANGED <<rows, counted>>

(* The request fails, or it took the row and only the reply is lost: the   *)
(* caller sees an error either way and returns null.                       *)
ClaimFails(w) ==
  /\ pc[w] = "claim"
  /\ Fault
  /\ TakeRow(w) \/ UNCHANGED rows
  /\ Release(w)

-----------------------------------------------------------------------------
(* processJob.                                                             *)

(* updateJobProgress('Starting') for a job type with a handler, failJob    *)
(* otherwise.                                                              *)
Start(w) ==
  /\ pc[w] = "start"
  /\ Goto(w, IF held[w] \in Handled THEN "assert" ELSE "fail")
  /\ stale' = [stale EXCEPT ![held[w]] = @ /\ ~(held[w] \in Handled /\ Matches(w))]
  /\ UNCHANGED <<status, attempts, due, completed, deadLetters, claims,
                 held, attempt, lost, counted>>

(* assertOwned before the first heartbeat ("assert") and after the handler *)
(* ("verify").  An owner goes on; any other worker abandons silently.      *)
AssertOwned(w) ==
  /\ pc[w] \in {"assert", "verify"}
  /\ \/ /\ Matches(w) /\ ~lost[w]
        /\ Goto(w, IF pc[w] = "assert" THEN "beat" ELSE "complete")
        /\ UNCHANGED <<held, attempt, lost>>
     \/ (lost[w] \/ ~Matches(w)) /\ Release(w)
  /\ UNCHANGED <<rows, counted>>

(* The ownership query itself fails: an error, but not a lost lease.       *)
AssertFails(w) ==
  /\ pc[w] \in {"assert", "verify"} /\ ~lost[w]
  /\ Fault
  /\ Goto(w, "fail")
  /\ UNCHANGED <<rows, held, attempt, lost>>

Refresh(w) ==
  /\ stale' = [stale EXCEPT ![held[w]] = FALSE]
  /\ UNCHANGED <<status, attempts, due, completed, deadLetters, claims>>

(* The immediate heartbeat: only an owner reaches the handler.             *)
FirstHeartbeat(w) ==
  /\ pc[w] = "beat"
  /\ \/ Matches(w) /\ Refresh(w) /\ Goto(w, "run") /\ UNCHANGED <<held, attempt, lost>>
     \/ ~Matches(w) /\ Release(w) /\ UNCHANGED rows
  /\ UNCHANGED counted

(* The interval heartbeat, concurrent with everything up to completeJob.   *)
Heartbeat(w) ==
  /\ pc[w] \in Beating
  /\ \/ Matches(w) /\ Refresh(w) /\ UNCHANGED lost
     \/ ~Matches(w) /\ lost' = [lost EXCEPT ![w] = TRUE] /\ UNCHANGED rows
  /\ UNCHANGED <<pc, held, attempt, counted>>

(* A heartbeat request that fails marks the lease lost although the row    *)
(* still names this attempt.                                               *)
HeartbeatFails(w) ==
  /\ pc[w] \in Beating \cup {"beat"}
  /\ Fault
  /\ IF pc[w] = "beat"
       THEN Release(w)
       ELSE lost' = [lost EXCEPT ![w] = TRUE] /\ UNCHANGED <<pc, held, attempt>>
  /\ UNCHANGED rows

(* The handler returns, throws, or finds the lease lost and gives up.      *)
HandlerEnds(w) ==
  /\ pc[w] = "run"
  /\ \/ lost[w] /\ Release(w)
     \/ ~lost[w] /\ \E next \in {"verify", "fail"} : Goto(w, next)
                 /\ UNCHANGED <<held, attempt, lost>>
  /\ UNCHANGED <<rows, counted>>

(* Mutant: completion without the attempt guard.                           *)
CompleteRow_Unguarded(w) ==
  /\ status' = [status EXCEPT ![held[w]] = "COMPLETED"]
  /\ stale' = [stale EXCEPT ![held[w]] = FALSE]
  /\ UNCHANGED <<attempts, due, completed, deadLetters, claims>>

CompleteRow(w) ==
  /\ Matches(w)
  /\ status' = [status EXCEPT ![held[w]] = "COMPLETED"]
  /\ stale' = [stale EXCEPT ![held[w]] = FALSE]
  /\ UNCHANGED <<attempts, due, completed, deadLetters, claims>>

(* completeJob: the guarded UPDATE; a miss returns without a history row.  *)
Complete(w) ==
  /\ pc[w] = "complete"
  /\ \/ CompleteRow(w) /\ Goto(w, "log") /\ UNCHANGED <<held, attempt, lost>>
     \/ ~Matches(w) /\ Release(w) /\ UNCHANGED rows
  /\ UNCHANGED counted

CompleteFails(w) ==
  /\ pc[w] = "complete"
  /\ Fault
  /\ CompleteRow(w) \/ UNCHANGED rows
  /\ Release(w)

(* completeJob: the job_history insert, whose error is ignored.            *)
LogCompletion(w) ==
  /\ pc[w] = "log"
  /\ \/ completed' = [completed EXCEPT ![held[w]] = @ + 1] /\ UNCHANGED counted
     \/ Fault /\ UNCHANGED completed
  /\ Release(w)
  /\ UNCHANGED <<status, attempts, due, stale, deadLetters, claims>>

-----------------------------------------------------------------------------
(* failJob.                                                                *)

(* Mutant: the last attempt is not made.                                   *)
FailRead_Early(w) ==
  /\ pc[w] = "fail"
  /\ Goto(w, IF attempts[held[w]] + 1 >= MaxAttempts THEN "bury" ELSE "retry")
  /\ UNCHANGED <<rows, held, attempt, lost, counted>>

(* Reads the row as it is now, which may be a later worker's lease.        *)
FailRead(w) ==
  /\ pc[w] = "fail"
  /\ Goto(w, IF attempts[held[w]] >= MaxAttempts THEN "bury" ELSE "retry")
  /\ UNCHANGED <<rows, held, attempt, lost, counted>>

(* Mutant: the retry UPDATE without the attempt guard.                     *)
Retry_Unguarded(w) ==
  /\ pc[w] = "retry"
  /\ status' = [status EXCEPT ![held[w]] = "PENDING"]
  /\ due' = [due EXCEPT ![held[w]] = FALSE]
  /\ stale' = [stale EXCEPT ![held[w]] = FALSE]
  /\ UNCHANGED <<attempts, completed, deadLetters, claims, counted>>
  /\ Release(w)

(* Back to PENDING, due after a back-off of 2^attempts seconds.            *)
Retry(w) ==
  /\ pc[w] = "retry"
  /\ \/ /\ Matches(w)
        /\ status' = [status EXCEPT ![held[w]] = "PENDING"]
        /\ due' = [due EXCEPT ![held[w]] = FALSE]
        /\ stale' = [stale EXCEPT ![held[w]] = FALSE]
        /\ UNCHANGED <<attempts, completed, deadLetters, claims, counted>>
     \/ ~Matches(w) /\ UNCHANGED <<rows, counted>>
     \/ Fault /\ UNCHANGED rows
  /\ Release(w)

(* The last attempt: FAILED if the lease still matches ...                 *)
Bury(w) ==
  /\ pc[w] = "bury"
  /\ \/ /\ Matches(w)
        /\ status' = [status EXCEPT ![held[w]] = "FAILED"]
        /\ stale' = [stale EXCEPT ![held[w]] = FALSE]
        /\ UNCHANGED <<attempts, due, completed, deadLetters, claims, counted>>
     \/ ~Matches(w) /\ UNCHANGED <<rows, counted>>
     \/ Fault /\ UNCHANGED rows
  /\ Goto(w, "deadletter")
  /\ UNCHANGED <<held, attempt, lost>>

(* ... and a dead letter whether it matched or not.                        *)
DeadLetter(w) ==
  /\ pc[w] = "deadletter"
  /\ \/ deadLetters' = [deadLetters EXCEPT ![held[w]] = @ + 1] /\ UNCHANGED counted
     \/ Fault /\ UNCHANGED deadLetters
  /\ Release(w)
  /\ UNCHANGED <<status, attempts, due, stale, completed, claims>>

(* A failed recovery UPDATE is ignored; a failed SELECT of claimNextJob or *)
(* failJob reads as "no row", and failJob then changes nothing.            *)
ReadFails(w) ==
  /\ pc[w] \in {"idle", "select", "fail"}
  /\ Fault
  /\ IF pc[w] = "idle"
       THEN Goto(w, "select") /\ UNCHANGED <<held, attempt, lost>>
       ELSE Release(w)
  /\ UNCHANGED rows

-----------------------------------------------------------------------------
(* Time and crashes.                                                       *)

BecomeDue(j) ==
  /\ status[j] = "PENDING" /\ ~due[j]
  /\ due' = [due EXCEPT ![j] = TRUE]
  /\ UNCHANGED <<status, attempts, stale, completed, deadLetters, claims, leases, counted>>

Claimers(j) == {w \in Workers : pc[w] = "claim" /\ held[w] = j}

(* The timeout passes without a heartbeat.  A row was PENDING when a       *)
(* claimer selected it, so a claimer of a RUNNING row has been waiting at  *)
(* least since the row's claim.                                            *)
Expire(j) ==
  /\ status[j] = "RUNNING" /\ ~stale[j]
  /\ PromptClaims => Claimers(j) = {}
  /\ stale' = [stale EXCEPT ![j] = TRUE]
  /\ UNCHANGED <<status, attempts, due, completed, deadLetters, claims, leases,
                 faults>>

(* Nobody heartbeats the row: its worker crashed or abandoned it.          *)
ExpireAbandoned(j) ==
  Expire(j) /\ (\A w \in Workers : ~Owns(w, j)) /\ UNCHANGED stalls

(* Its worker lives but its heartbeats did not arrive for the timeout.     *)
ExpireHeld(j) ==
  Expire(j) /\ (\E w \in Workers : Owns(w, j)) /\ Troublesome /\ stalls' = stalls + 1

Crash(w) ==
  /\ pc[w] # "idle"
  /\ Fault
  /\ Release(w)
  /\ UNCHANGED rows

-----------------------------------------------------------------------------

(* What a live worker does when its requests are answered.                 *)
Advance(w) ==
  \/ RecoverStale(w) \/ Select(w) \/ Claim(w)
  \/ Start(w) \/ AssertOwned(w) \/ FirstHeartbeat(w)
  \/ HandlerEnds(w) \/ Complete(w) \/ LogCompletion(w)
  \/ FailRead(w) \/ Retry(w) \/ Bury(w) \/ DeadLetter(w)

Disturb(w) ==
  ClaimFails(w) \/ AssertFails(w) \/ Heartbeat(w) \/ HeartbeatFails(w)
    \/ CompleteFails(w) \/ ReadFails(w) \/ Crash(w)

RowNext(j) ==
  Enqueue(j) \/ CancelPending(j) \/ BecomeDue(j) \/ ExpireAbandoned(j) \/ ExpireHeld(j)

Next ==
  \/ \E w \in Workers : Advance(w)
  \/ \E w \in Workers : Disturb(w)
  \/ \E j \in Jobs : RowNext(j)

Spec == Init /\ [][Next]_vars

(* The worker loop polls for ever and every request it makes ends within   *)
(* its 30 s timeout (diagnosticFetch), a back-off and a lease end by the   *)
(* clock.  Nothing obliges a user, a fault or a crash.                     *)
Fairness ==
  /\ \A w \in Workers : WF_vars(Advance(w))
  /\ \A j \in Jobs : WF_vars(BecomeDue(j)) /\ WF_vars(ExpireAbandoned(j))

FairSpec == Spec /\ Fairness

-----------------------------------------------------------------------------
(* Properties.                                                             *)

RowsOK ==
  /\ status \in [Jobs -> Statuses]
  /\ attempts \in [Jobs -> Nat]
  /\ due \in [Jobs -> BOOLEAN]
  /\ stale \in [Jobs -> BOOLEAN]
  /\ completed \in [Jobs -> Nat]
  /\ deadLetters \in [Jobs -> Nat]
  /\ claims \in [Jobs -> Nat]

LeasesOK ==
  /\ pc \in [Workers -> PCs]
  /\ held \in [Workers -> Jobs \cup {NoJob}]
  /\ attempt \in [Workers -> Nat]
  /\ lost \in [Workers -> BOOLEAN]
  /\ \A w \in Workers : pc[w] \notin {"idle", "select"} => held[w] \in Jobs

CountsOK == faults \in Nat /\ stalls \in Nat

TypeOK == RowsOK /\ LeasesOK /\ CountsOK

(* Fencing: two live workers never both hold a lease that the attempt      *)
(* guard accepts, so a reclaimed row is closed to the worker that lost it  *)
(* (queue.ts heartbeatJob, completeJob, failJob; ownership.ts).            *)
AtMostOneOwner ==
  \A j \in Jobs : \A v, w \in Workers : Owns(v, j) /\ Owns(w, j) => v = w

(* A row that is COMPLETED, FAILED or CANCELLED is never taken up again,   *)
(* whatever a claimer, the stale recovery or a late failJob still holds    *)
(* (the status guards of claimNextJob, completeJob and failJob).           *)
TerminalIsFinal ==
  [][\A j \in Jobs : status[j] \in Terminal => status'[j] = status[j]]_vars

(* failJob gives a job up only after it was claimed max_attempts times:    *)
(* attempts, which several workers overwrite, never runs ahead of the      *)
(* claims it counts.                                                       *)
NeverGivenUpEarly ==
  \A j \in Jobs :
    status[j] = "FAILED" \/ deadLetters[j] > 0 => claims[j] >= MaxAttempts

(* What a row leaves behind is what it came to: one completion is logged   *)
(* at most, and only for a COMPLETED row, however many workers report one  *)
(* (the guarded UPDATE of completeJob decides who writes job_history); and *)
(* a FAILED row has its dead letter, or the worker that failed it is about *)
(* to write it, unless a crash or a failed request came between the two    *)
(* writes of failJob.                                                      *)
EndsAreRecorded ==
  \A j \in Jobs :
    /\ completed[j] <= 1
    /\ completed[j] = 1 => status[j] = "COMPLETED"
    /\ status[j] = "FAILED" /\ faults = 0 =>
         \/ deadLetters[j] > 0
         \/ \E w \in Workers : pc[w] = "deadletter" /\ held[w] = j

(* Every queued row ends: crashes, lost requests and expired leases delay  *)
(* it and the stale recovery brings it back (claimNextJob).                *)
EveryJobEnds ==
  \A j \in Jobs : status[j] = "PENDING" ~> status[j] \in Terminal

(* The leases the attempt guard accepts implement the abstract lease.      *)
Lease == INSTANCE JobLease WITH
  state <- status,
  holders <- [j \in Jobs |-> {w \in Workers : Owns(w, j)}]

(* A worker's lease begins with its own claim and is the only one that can *)
(* end the job; it never passes to another worker except through PENDING.  *)
ImplementsLease == Lease!LSpec

(* QUICKBOOKS_MIGRATION_RETRY_ROOTCAUSE.md says of attempts that it is     *)
(* incremented once per claim.                                             *)
(* Not kept: section 7 of the README has the trace.                        *)
AttemptsCountClaims == \A j \in Jobs : attempts[j] = claims[j]

=============================================================================
