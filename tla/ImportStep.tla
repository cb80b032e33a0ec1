----------------------------- MODULE ImportStep -----------------------------
(***************************************************************************)
(* One QuickBooks import job, a page per queue row: runImportJobStep and   *)
(* handleImport of api/import-export/[module]/import/route.ts, the import  *)
(* processor they call, the page cursor (source-registry.ts for a live     *)
(* company, snapshot-source.ts for a snapshot), the post-complete hook and *)
(* recovery sweep that chain one page to the next, and the user's pause,   *)
(* resume, cancel, retry, run and recover requests.                        *)
(*                                                                         *)
(* The job queue appears as what JobLease promises of it: at most one      *)
(* active row for the job (unique index of migration 067), leased to one   *)
(* worker at a time.                                                       *)
(***************************************************************************)
EXTENDS Naturals, FiniteSets

CONSTANTS
  Workers, NoWorker,
  NPages,      (* pages the source holds                                   *)
  Size,        (* rows of each page that pass filters and validation; a    *)
               (* live resource starts at its earliest transaction         *)
  Live,        (* TRUE: live checkpoint; FALSE: snapshot read cursor       *)
  Batched,     (* TRUE: master data, guarded once a page; FALSE: per row   *)
  MaxAttempts, (* job_queue.max_attempts                                   *)
  PromptWrites,(* a lease does not expire between an ownership check and   *)
               (* the write it guards                                      *)
  Requests,    (* the requests users make in this instance                 *)
  MaxRequests, MaxFaults, MaxCrashes, MaxStalls (* bounds on how often     *)

Kinds == {"pause", "resume", "cancel", "retry", "run", "recover", "cancelSession"}

ASSUME WorkersAssumption == NoWorker \notin Workers
ASSUME SourceAssumption  ==
  /\ NPages \in Nat \ {0} /\ Size \in [1..NPages -> Nat] /\ Live \in BOOLEAN
  /\ Batched \in BOOLEAN
  /\ Live => Size[1] > 0 \/ NPages = 1
ASSUME QueueAssumption   == MaxAttempts \in Nat \ {0} /\ PromptWrites \in BOOLEAN
ASSUME RequestAssumption == Requests \subseteq Kinds
ASSUME BoundAssumption   ==
  /\ MaxRequests \in Nat /\ MaxFaults \in Nat
  /\ MaxCrashes \in Nat /\ MaxStalls \in Nat

VARIABLES
  status,     (* import_jobs.status                                        *)
  processed,  (* import_jobs.processed_rows                                *)
  counted,    (* sum of the four outcome counts of import_jobs             *)
  total,      (* import_jobs.total_rows                                    *)
  cursor,     (* next page to read; NPages + 1 when the source is done     *)
  handled,    (* rows that were materialised, skipped or failed on record  *)
  made,       (* native records created for each row                       *)
  queue,      (* the active job_queue row of this import job, if any       *)
  owner,      (* worker whose lease on that row is good                    *)
  tries,      (* its attempts                                              *)
  session,    (* the migration session that owns the import job            *)
  late,       (* history: pages committed after the session was cancelled  *)
  pc, my,     (* per worker: next step, and what it read and decided       *)
  sweep,      (* recoverOrphanedContinuations is about to insert a row     *)
  asking,     (* a resume or retry request is about to insert a row        *)
  requests, faults, crashes, stalls

jobVars    == <<status, processed, counted, total>>
dataVars   == <<cursor, handled, made>>
queueVars  == <<queue, owner, tries>>
workerVars == <<pc, my>>
envVars    == <<session, late, sweep, asking, requests>>
counters   == <<faults, crashes, stalls>>
vars == <<status, processed, counted, total, cursor, handled, made, queue, owner,
          tries, session, late, pc, my, sweep, asking, requests, faults, crashes,
          stalls>>

Statuses == {"pending", "processing", "paused", "completed", "failed", "cancelled"}
Terminal == {"completed", "failed", "cancelled"}

Pages  == 1..NPages
SizeOf == [p \in 0..NPages + 1 |-> IF p \in Pages THEN Size[p] ELSE 0]
RowsOf(p) == {p} \X (1..SizeOf[p])
Rows   == UNION {RowsOf(p) : p \in Pages}

(* Rows of the first p pages: checkpoint.fetched after p pages.            *)
Fetched == [p \in 0..NPages + 1 |-> Cardinality({r \in Rows : r[1] <= p})]

(* Mutant: the last page is not read.                                      *)
HasMore_Early(p) == p + 1 < NPages

(* A live page that is empty with nothing fetched so far ends the resource.*)
HasMore(p) == p < NPages /\ ~(Live /\ Fetched[p] = 0)
Greatest(a, b) == IF a >= b THEN a ELSE b

(* What one run of the step remembers: the page, the next row, the rows    *)
(* found to exist already, the job's numbers as read, whether it saw the   *)
(* job paused, and how the run is to end.                                  *)
Plans == {"", "stop", "next", "last"}
Ends  == {"", "processing", "other"}
Fresh == [page |-> 0, row |-> 1, dups |-> {}, processed |-> 0, counted |-> 0,
          total |-> 0, paused |-> FALSE, plan |-> "", end |-> ""]

Guards  == {"open", "load", "row", "progress", "decide", "check", "verify",
            "settle", "error"}
Guarded == {"write", "commit", "yield", "finish", "fail", "complete"}
PCs     == Guards \cup Guarded \cup {"idle", "mark", "tally", "requeue", "hook"}

(* JobOwnership.assertOwned.                                               *)
Owns(w) == queue = "RUNNING" /\ owner = w

Goto(w, l) == pc' = [pc EXCEPT ![w] = l]
Release(w) == Goto(w, "idle") /\ my' = [my EXCEPT ![w] = Fresh]

(* The worker's run returned; its result decides what the hook does.       *)
EndWith(w, end) ==
  /\ Goto(w, "settle")
  /\ my' = [my EXCEPT ![w].end = end]

Counted(w) == my[w].counted + my[w].row - 1

(* Mutant: the session counts as cancelled only once the queue is cleared. *)
IsMigrationCancelled_Late == session = "cancelled"

(* isImportJobMigrationCancelled.                                          *)
IsMigrationCancelled == session # "running"

Interrupted(w) == my[w].paused \/ status = "cancelled" \/ IsMigrationCancelled

Init ==
  /\ status = "pending" /\ processed = 0 /\ counted = 0 /\ total = 0
  /\ cursor = 1 /\ handled = {} /\ made = [r \in Rows |-> 0]
  /\ queue = "PENDING" /\ owner = NoWorker /\ tries = 0
  /\ session = "running" /\ late = 0
  /\ pc = [w \in Workers |-> "idle"] /\ my = [w \in Workers |-> Fresh]
  /\ sweep = FALSE /\ asking = FALSE
  /\ requests = 0 /\ faults = 0 /\ crashes = 0 /\ stalls = 0

-----------------------------------------------------------------------------
(* The queue, as JobLease promises it.                                     *)

(* Every insert of a continuation row, by the hook, the sweep, a request   *)
(* or the step itself: a second active row is refused (23505).             *)
EnqueueOnce ==
  IF queue = "NONE"
    THEN queue' = "PENDING" /\ tries' = 0 /\ UNCHANGED owner
    ELSE UNCHANGED queueVars

Claim(w) ==
  /\ pc[w] = "idle" /\ queue = "PENDING"
  /\ queue' = "RUNNING" /\ owner' = w /\ tries' = tries + 1
  /\ Goto(w, "open")
  /\ UNCHANGED <<jobVars, dataVars, envVars, my, counters>>

(* The lease of a worker that crashed or gave up expires.                  *)
ExpireAbandoned ==
  /\ queue = "RUNNING" /\ owner = NoWorker
  /\ queue' = "PENDING"
  /\ UNCHANGED <<jobVars, dataVars, owner, tries, workerVars, envVars, counters>>

(* The lease of a live worker whose heartbeats did not arrive expires.     *)
ExpireHeld ==
  /\ queue = "RUNNING" /\ owner # NoWorker
  /\ PromptWrites => pc[owner] \notin Guarded
  /\ stalls < MaxStalls /\ stalls' = stalls + 1
  /\ queue' = "PENDING" /\ owner' = NoWorker
  /\ UNCHANGED <<jobVars, dataVars, tries, workerVars, envVars, faults, crashes>>

Drop(w) == owner' = (IF owner = w THEN NoWorker ELSE owner) /\ UNCHANGED <<queue, tries>>

Crash(w) ==
  /\ pc[w] # "idle" /\ crashes < MaxCrashes
  /\ crashes' = crashes + 1
  /\ Release(w) /\ Drop(w)
  /\ UNCHANGED <<jobVars, dataVars, envVars, faults, stalls>>

(* assertOwned throws: the run is abandoned without another write.  The    *)
(* decision to commit the last page asks for no ownership.                 *)
Abandon(w) ==
  /\ pc[w] \in Guards /\ ~Owns(w)
  /\ pc[w] = "decide" => Interrupted(w) \/ HasMore(my[w].page)
  /\ Release(w)
  /\ UNCHANGED <<jobVars, dataVars, queueVars, envVars, counters>>

-----------------------------------------------------------------------------
(* The writes of import-job.service.ts.                                    *)

(* Mutant: a terminal status is overwritten.                               *)
SetStatus_Any(to) ==
  /\ status' = to
  /\ UNCHANGED <<processed, counted, total>>

(* setImportJobStatus: terminal statuses stay.                             *)
SetStatus(to) ==
  /\ status' = IF status \in Terminal THEN status ELSE to
  /\ UNCHANGED <<processed, counted, total>>

(* updateImportJobProgress after mergeImportJobProgress: numbers never go  *)
(* down, a completed job is left alone, the status is not written.         *)
WriteProgress(proc, cnt, tot) ==
  IF status = "completed" THEN UNCHANGED jobVars ELSE
  /\ counted' = Greatest(counted, cnt)
  /\ processed' = Greatest(Greatest(processed, proc), counted')
  /\ total' = Greatest(Greatest(total, tot), processed')
  /\ UNCHANGED status

(* finalizeImportJob: a job that is terminal already is left alone.        *)
Finalize(to, cnt, tot) ==
  IF status \in Terminal THEN UNCHANGED jobVars ELSE
  status' = to /\ counted' = cnt /\ processed' = cnt /\ total' = tot

-----------------------------------------------------------------------------
(* runImportJobStep up to the page.                                        *)

(* A terminal job is answered at once; a cancelled session ends the job.   *)
Open(w) ==
  /\ pc[w] = "open" /\ Owns(w)
  /\ \/ status \in Terminal /\ EndWith(w, "other")
     \/ /\ status \notin Terminal /\ IsMigrationCancelled
        /\ Goto(w, "finish")
        /\ my' = [my EXCEPT ![w].plan = "stop", ![w].counted = counted, ![w].total = total]
     \/ status \notin Terminal /\ ~IsMigrationCancelled /\ Goto(w, "mark") /\ UNCHANGED my
  /\ UNCHANGED <<jobVars, dataVars, queueVars, envVars, counters>>

Mark(w) ==
  /\ pc[w] = "mark"
  /\ SetStatus("processing")
  /\ Goto(w, "load")
  /\ UNCHANGED <<dataVars, queueVars, my, envVars, counters>>

(* fetchSourceResourcePage starts a completed live resource over;          *)
(* fetchSnapshotResourcePage serves an empty page after the last.          *)
PageToRead == IF Live /\ cursor > NPages THEN 1 ELSE cursor

(* The page is fetched, then looked up: detectDuplicates finds the rows    *)
(* that exist in the company's tables.                                     *)
Load(w) ==
  /\ pc[w] = "load" /\ Owns(w)
  /\ \/ status \in Terminal /\ EndWith(w, "other")
     \/ /\ status \notin Terminal
        /\ Goto(w, IF RowsOf(PageToRead) = {} THEN "decide" ELSE "row")
        /\ my' = [my EXCEPT ![w] =
             [Fresh EXCEPT !.page = PageToRead,
                           !.dups = {r \in RowsOf(PageToRead) : made[r] > 0},
                           !.processed = processed, !.counted = counted, !.total = total]]
  /\ UNCHANGED <<jobVars, dataVars, queueVars, envVars, counters>>

-----------------------------------------------------------------------------
(* processImport: one batch, a guard before every row.                     *)

(* Mutants: the last row of a page is left out; rows are written by a      *)
(* worker that lost its lease.                                             *)
RowGuard_Short(w) ==
  /\ pc[w] = "row" /\ Owns(w)
  /\ Goto(w, IF my[w].row < SizeOf[my[w].page] THEN "write" ELSE "progress")
  /\ UNCHANGED <<jobVars, dataVars, queueVars, my, envVars, counters>>

RowGuard_Unfenced(w) ==
  /\ pc[w] = "row"
  /\ Goto(w, IF my[w].row <= SizeOf[my[w].page] THEN "write" ELSE "progress")
  /\ UNCHANGED <<jobVars, dataVars, queueVars, my, envVars, counters>>

(* A cancelled or paused job breaks off; only the pause is remembered.     *)
(* The checks before the first row may be those of the batch, the only     *)
(* ones that master data has; a batch they stop skips onProgress.          *)
RowGuard(w) ==
  /\ pc[w] = "row" /\ Owns(w)
  /\ \/ my[w].row > SizeOf[my[w].page] /\ Goto(w, "progress") /\ UNCHANGED my
     \/ /\ my[w].row <= SizeOf[my[w].page] /\ status \notin {"cancelled", "paused"}
        /\ Goto(w, "write") /\ UNCHANGED my
     \/ /\ my[w].row <= SizeOf[my[w].page] /\ status \in {"cancelled", "paused"}
        /\ my' = [my EXCEPT ![w].paused = status = "paused"]
        /\ (~Batched /\ Goto(w, "progress")) \/ (my[w].row = 1 /\ Goto(w, "decide"))
  /\ UNCHANGED <<jobVars, dataVars, queueVars, envVars, counters>>

(* A row that was found to exist is skipped; a row that fails is rolled    *)
(* back and recorded; any other is created.  Master data goes on to the    *)
(* next row without another check.                                         *)
RowWrite(w) ==
  LET r == <<my[w].page, my[w].row>> IN
  /\ pc[w] = "write"
  /\ handled' = handled \cup {r}
  /\ \/ UNCHANGED made
     \/ r \notin my[w].dups /\ made' = [made EXCEPT ![r] = @ + 1]
  /\ Goto(w, IF Batched /\ my[w].row < SizeOf[my[w].page] THEN "write" ELSE "row")
  /\ my' = [my EXCEPT ![w].row = @ + 1]
  /\ UNCHANGED <<jobVars, cursor, queueVars, envVars, counters>>

(* onProgress: the whole batch is reported as processed, also after a      *)
(* break.                                                                  *)
Progress(w) ==
  LET proc == my[w].processed + SizeOf[my[w].page] IN
  /\ pc[w] = "progress" /\ Owns(w)
  /\ WriteProgress(proc, Counted(w),
        Greatest(Greatest(Fetched[my[w].page], my[w].total), proc))
  /\ Goto(w, "decide")
  /\ UNCHANGED <<dataVars, queueVars, my, envVars, counters>>

-----------------------------------------------------------------------------
(* After the batch.                                                        *)

(* A break for a cancel is not remembered: only the status and the session *)
(* as they are now decide, with the pause flag.  The last page is          *)
(* committed without another ownership check.                              *)
Decide(w) ==
  LET p == my[w].page IN
  /\ pc[w] = "decide"
  /\ \/ /\ Interrupted(w) /\ Owns(w)
        /\ \/ /\ ~my[w].paused /\ status # "cancelled"
              /\ Goto(w, "commit") /\ my' = [my EXCEPT ![w].plan = "stop"]
           \/ (my[w].paused \/ status = "cancelled") /\ Goto(w, "yield") /\ UNCHANGED my
     \/ /\ ~Interrupted(w) /\ HasMore(p) /\ Owns(w)
        /\ Goto(w, "commit") /\ my' = [my EXCEPT ![w].plan = "next"]
     \/ /\ ~Interrupted(w) /\ ~HasMore(p)
        /\ Goto(w, "commit") /\ my' = [my EXCEPT ![w].plan = "last"]
  /\ UNCHANGED <<jobVars, dataVars, queueVars, envVars, counters>>

(* Mutant: the page number is added to the cursor instead of replacing it.  *)
Commit_Adds(w) ==
  LET p == my[w].page IN
  /\ pc[w] = "commit"
  /\ cursor' = IF p > NPages THEN cursor ELSE cursor + p
  /\ late' = IF session # "running" THEN late + 1 ELSE late
  /\ Goto(w, IF my[w].plan = "last" THEN "verify" ELSE "tally")
  /\ UNCHANGED <<jobVars, handled, made, queueVars, my, session, sweep, asking,
                 requests, counters>>

(* sourcePage.commit: the page cursor is overwritten with this page's      *)
(* successor, whoever wrote it last.                                       *)
Commit(w) ==
  LET p == my[w].page IN
  /\ pc[w] = "commit"
  /\ cursor' = IF p > NPages THEN cursor ELSE p + 1
  /\ late' = IF session # "running" THEN late + 1 ELSE late
  /\ Goto(w, IF my[w].plan = "last" THEN "verify" ELSE "tally")
  /\ UNCHANGED <<jobVars, handled, made, queueVars, my, session, sweep, asking,
                 requests, counters>>

(* Mutant: the total is what was fetched.                                  *)
Tally_Exact(w) ==
  LET f == Fetched[my[w].page] IN
  /\ pc[w] = "tally"
  /\ WriteProgress(f, Counted(w), f)
  /\ Goto(w, IF my[w].plan = "next" THEN "check" ELSE "finish")
  /\ UNCHANGED <<dataVars, queueVars, my, envVars, counters>>

(* The progress write after a commit: while more pages remain the total is *)
(* kept above the rows fetched.                                            *)
Tally(w) ==
  LET f == Fetched[my[w].page] IN
  /\ pc[w] = "tally"
  /\ WriteProgress(f, Counted(w), IF my[w].plan = "next" THEN Greatest(my[w].total, f + 1) ELSE f)
  /\ Goto(w, IF my[w].plan = "next" THEN "check" ELSE "finish")
  /\ UNCHANGED <<dataVars, queueVars, my, envVars, counters>>

(* The session is asked once more.  The continuation the step tries to     *)
(* enqueue is refused as long as its own row is RUNNING.                   *)
Check(w) ==
  /\ pc[w] = "check" /\ Owns(w)
  /\ \/ /\ IsMigrationCancelled
        /\ Goto(w, "finish") /\ my' = [my EXCEPT ![w].plan = "stop"]
     \/ ~IsMigrationCancelled /\ EndWith(w, "processing")
  /\ UNCHANGED <<jobVars, dataVars, queueVars, envVars, counters>>

Verify(w) ==
  /\ pc[w] = "verify" /\ Owns(w)
  /\ Goto(w, "finish")
  /\ UNCHANGED <<jobVars, dataVars, queueVars, my, envVars, counters>>

(* finalizeImportJob.  Whether a finished import counts as completed or as *)
(* failed depends on its rows (computeImportJobStatus).                    *)
Finish(w) ==
  LET tot == IF my[w].page = 0 THEN my[w].total ELSE Fetched[my[w].page] IN
  /\ pc[w] = "finish"
  /\ \/ my[w].plan = "stop" /\ Finalize("cancelled", Counted(w), tot)
     \/ my[w].plan = "last" /\ \E to \in {"completed", "failed"} : Finalize(to, Counted(w), tot)
  /\ EndWith(w, "other")
  /\ UNCHANGED <<dataVars, queueVars, envVars, counters>>

Yield(w) ==
  /\ pc[w] = "yield"
  /\ SetStatus(IF my[w].paused THEN "paused" ELSE "pending")
  /\ EndWith(w, "other")
  /\ UNCHANGED <<dataVars, queueVars, envVars, counters>>

-----------------------------------------------------------------------------
(* The end of the queue row.                                               *)

(* The assertOwned calls after the handler.                                *)
Settle(w) ==
  /\ pc[w] = "settle" /\ Owns(w)
  /\ Goto(w, "complete")
  /\ UNCHANGED <<jobVars, dataVars, queueVars, my, envVars, counters>>

CompleteRow(w) ==
  IF Owns(w) THEN queue' = "NONE" /\ owner' = NoWorker /\ tries' = 0
             ELSE UNCHANGED queueVars

(* completeJob reports neither a miss nor an error, so the hook runs       *)
(* whatever became of the row.                                             *)
Complete(w) ==
  /\ pc[w] = "complete"
  /\ \/ CompleteRow(w) /\ UNCHANGED counters
     \/ /\ faults < MaxFaults /\ faults' = faults + 1 /\ UNCHANGED <<crashes, stalls>>
        /\ CompleteRow(w) \/ UNCHANGED queueVars
  /\ Goto(w, "hook")
  /\ UNCHANGED <<jobVars, dataVars, my, envVars>>

(* ensureContinuationForImportJob, for a run that left more pages.         *)
Hook(w) ==
  /\ pc[w] = "hook"
  /\ IF my[w].end = "processing" /\ queue = "NONE" THEN EnqueueOnce ELSE Drop(w)
  /\ Release(w)
  /\ UNCHANGED <<jobVars, dataVars, envVars, counters>>

(* A request of the step fails.  Before and during the fetch the import    *)
(* job is not touched, and the handler throws; later the catch of          *)
(* handleImport ends it.  A row's own error never gets here.               *)
Fails(w) ==
  /\ pc[w] \notin {"idle", "write", "complete", "hook", "fail", "requeue"}
  /\ faults < MaxFaults /\ faults' = faults + 1
  /\ Goto(w, IF pc[w] \in {"open", "mark", "load", "settle", "error"} \/ my[w].page = 0
               THEN "requeue" ELSE "error")
  /\ UNCHANGED <<jobVars, dataVars, queueVars, my, envVars, crashes, stalls>>

Error(w) ==
  /\ pc[w] = "error" /\ Owns(w)
  /\ Goto(w, "fail")
  /\ UNCHANGED <<jobVars, dataVars, queueVars, my, envVars, counters>>

(* Best effort: a second failure leaves the import job as it is.           *)
FailImport(w) ==
  /\ pc[w] = "fail"
  /\ \/ Finalize("failed", counted, total) /\ UNCHANGED counters
     \/ /\ faults < MaxFaults /\ faults' = faults + 1
        /\ UNCHANGED <<jobVars, crashes, stalls>>
  /\ Goto(w, "requeue")
  /\ UNCHANGED <<dataVars, queueVars, my, envVars>>

(* failJob: another attempt, or FAILED with a dead letter after the last.  *)
Requeue(w) ==
  /\ pc[w] = "requeue"
  /\ IF ~Owns(w) THEN UNCHANGED queueVars ELSE
     /\ owner' = NoWorker
     /\ queue' = IF tries >= MaxAttempts THEN "NONE" ELSE "PENDING"
     /\ tries' = IF tries >= MaxAttempts THEN 0 ELSE tries
  /\ Release(w)
  /\ UNCHANGED <<jobVars, dataVars, envVars, counters>>

-----------------------------------------------------------------------------
(* Users, and the sweep of the worker process.                             *)

Request(kind) ==
  /\ kind \in Requests /\ requests < MaxRequests
  /\ requests' = requests + 1
  /\ UNCHANGED <<late, sweep, dataVars, workerVars, counters>>

Pause == Request("pause") /\ SetStatus("paused") /\ UNCHANGED <<session, asking, queueVars>>

(* Resume sets the status, then inserts a row: also for a terminal job,    *)
(* and in vain while a row is active.                                      *)
Resume ==
  /\ Request("resume") /\ ~asking
  /\ SetStatus("pending") /\ asking' = TRUE
  /\ UNCHANGED <<session, queueVars>>

(* incrementImportJobRetry takes a failed or cancelled job back as well.   *)
Retry ==
  /\ Request("retry") /\ ~asking
  /\ status' = IF status = "completed" THEN status ELSE "pending"
  /\ asking' = TRUE
  /\ UNCHANGED <<processed, counted, total, session, queueVars>>

EnqueueAsked ==
  /\ asking /\ asking' = FALSE
  /\ EnqueueOnce
  /\ UNCHANGED <<jobVars, dataVars, workerVars, session, late, sweep, requests, counters>>

Run ==
  /\ Request("run") /\ status \notin Terminal
  /\ EnqueueOnce
  /\ UNCHANGED <<jobVars, session, asking>>

Cancel ==
  /\ Request("cancel") /\ Finalize("cancelled", counted, total)
  /\ UNCHANGED <<session, asking, queueVars>>

(* recoverStaleImportJobs: a job without a heartbeat for five minutes.     *)
RecoverStaleJob ==
  /\ Request("recover") /\ status = "processing"
  /\ status' = "pending"
  /\ UNCHANGED <<processed, counted, total, session, asking, queueVars>>

(* cancelQuickBooksMigrationSession plans from the job as it is and marks  *)
(* the session cancelled; an import job that is being processed is left to *)
(* finish its batch, any other is cancelled ...                            *)
CancelSession ==
  /\ Request("cancelSession") /\ session = "running"
  /\ session' = IF status = "processing" THEN "preserving" ELSE "dropping"
  /\ UNCHANGED <<jobVars, queueVars, asking>>

(* ... and then its PENDING queue row is cancelled too.                    *)
Withdraw ==
  /\ session \in {"preserving", "dropping"}
  /\ session' = "cancelled"
  /\ IF session = "dropping" THEN Finalize("cancelled", counted, total) ELSE UNCHANGED jobVars
  /\ IF queue = "PENDING" THEN queue' = "NONE" /\ tries' = 0 /\ UNCHANGED owner
                          ELSE UNCHANGED queueVars
  /\ UNCHANGED <<dataVars, workerVars, late, sweep, asking, requests, counters>>

(* recoverOrphanedContinuations: a job in processing, quiet for 5 s, that  *)
(* seems to have committed a page and to have more, without an active row. *)
SweepWants ==
  /\ status = "processing" /\ 0 < processed /\ processed < total
  /\ ~IsMigrationCancelled /\ queue = "NONE"

SweepRead ==
  /\ ~sweep /\ SweepWants
  /\ sweep' = TRUE
  /\ UNCHANGED <<jobVars, dataVars, queueVars, workerVars, session, late, asking, requests, counters>>

SweepInsert ==
  /\ sweep /\ sweep' = FALSE
  /\ EnqueueOnce
  /\ UNCHANGED <<jobVars, dataVars, workerVars, session, late, asking, requests, counters>>

-----------------------------------------------------------------------------

Advance(w) ==
  \/ Claim(w) \/ Abandon(w) \/ Open(w) \/ Mark(w) \/ Load(w)
  \/ RowGuard(w) \/ RowWrite(w) \/ Progress(w) \/ Decide(w) \/ Commit(w)
  \/ Tally(w) \/ Check(w) \/ Verify(w) \/ Finish(w) \/ Yield(w)
  \/ Settle(w) \/ Complete(w) \/ Hook(w)
  \/ Error(w) \/ FailImport(w) \/ Requeue(w)

Sweep == SweepRead \/ SweepInsert

UserNext ==
  \/ Pause \/ Resume \/ Retry \/ Run \/ Cancel \/ RecoverStaleJob \/ CancelSession
  \/ EnqueueAsked \/ Withdraw

Next ==
  \/ \E w \in Workers : Advance(w) \/ Fails(w) \/ Crash(w)
  \/ ExpireAbandoned \/ ExpireHeld \/ Sweep \/ UserNext

Spec == Init /\ [][Next]_vars

(* The worker loop and the recovery timer run for ever and every request   *)
(* ends; a request that was begun is carried through.  Nothing obliges a   *)
(* user to begin one.                                                      *)
Fairness ==
  /\ \A w \in Workers : WF_vars(Advance(w))
  /\ WF_vars(ExpireAbandoned) /\ WF_vars(Sweep)
  /\ WF_vars(EnqueueAsked) /\ WF_vars(Withdraw)

FairSpec == Spec /\ Fairness

-----------------------------------------------------------------------------
(* Properties.                                                             *)

JobOK ==
  /\ status \in Statuses
  /\ processed \in Nat /\ counted \in Nat /\ total \in Nat
  /\ cursor \in 1..NPages + 1
  /\ handled \subseteq Rows /\ made \in [Rows -> Nat]

QueueOK ==
  /\ queue \in {"NONE", "PENDING", "RUNNING"}
  /\ owner \in Workers \cup {NoWorker}
  /\ tries \in Nat
  /\ queue # "RUNNING" => owner = NoWorker

Memory == [page : 0..NPages + 1, row : Nat \ {0}, dups : SUBSET Rows,
           processed : Nat, counted : Nat, total : Nat,
           paused : BOOLEAN, plan : Plans, end : Ends]

WorkersOK == pc \in [Workers -> PCs] /\ my \in [Workers -> Memory]

EnvironmentOK ==
  /\ session \in {"running", "preserving", "dropping", "cancelled"}
  /\ late \in Nat /\ sweep \in BOOLEAN /\ asking \in BOOLEAN
  /\ requests \in Nat /\ faults \in Nat /\ crashes \in Nat /\ stalls \in Nat

TypeOK == JobOK /\ QueueOK /\ WorkersOK /\ EnvironmentOK

(* A page behind the cursor was handled to its last row: a crash, a lost   *)
(* lease, a pause or a failure may replay rows but never skips them, since *)
(* the cursor is committed only after the batch (source-registry.ts).      *)
CommittedIsHandled == \A p \in Pages : p < cursor => RowsOf(p) \subseteq handled

(* An import that ends as completed has handled every row of its source.   *)
CompletedIsWhole == status = "completed" => handled = Rows

(* No row is created twice, however often its page is replayed: the new    *)
(* owner of the job looks for duplicates after the old one made its last   *)
(* write (assertActive before each row, detectDuplicates after the fetch). *)
MadeOnce == \A r \in Rows : made[r] <= 1

(* A completed import is never taken up again, by a retry, a late worker   *)
(* or a sweep (the status guards of import-job.service.ts).                *)
CompletedIsFinal == [][status = "completed" => status' = "completed"]_vars

(* After its session is cancelled an import commits the batch under way    *)
(* and no further one.                                                     *)
OneBatchAfterCancel == late <= 1

(* Without requests from users, an import ends: crashes, lost leases and   *)
(* a post-complete hook that never ran delay it, the stale recovery of the *)
(* queue and the sweep bring it back.                                      *)
ImportEnds == <>(status \in Terminal)

(* What documents and comments promise, and the code does not keep: the    *)
(* traces are in section 7 of the README.                                  *)

(* The hook of workers.ts says that a paused import gets no continuation:  *)
(* it stays paused until somebody resumes it.                              *)
PausedStays == [][status = "paused" => status' # "processing"]_vars

(* MIGRATION_CANCEL_CONFIRMATION: a module that is being processed when    *)
(* its migration is cancelled finishes its batch and stops.                *)
CancelledImportStops == [](session # "running" => <>(status \in Terminal))

(* The sweep is the fallback if the hook throws or never runs: an import   *)
(* with a page committed, whose row was completed and which nobody is      *)
(* about to continue, is one the sweep picks up.                           *)
SweepCatchesLostHook ==
  /\ status = "processing" /\ queue = "NONE" /\ ~IsMigrationCancelled
  /\ 1 < cursor /\ cursor <= NPages
  /\ \A w \in Workers : pc[w] = "idle"
  => SweepWants
=============================================================================
