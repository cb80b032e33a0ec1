------------------------------ MODULE Migration ------------------------------
(***************************************************************************)
(* One QuickBooks migration of a company: the wizard session with a card   *)
(* per module, the import job of each module, and the queue row that lets  *)
(* a worker run it.  Requests create, poll, cancel and retry a session;    *)
(* the worker that ends a module's import closes the session or starts the *)
(* next module.  A step is one request to the database with what the code  *)
(* computes from it; the session is written back whole and without a guard *)
(* on what it was read as.  An import job is named by its session and its  *)
(* module, which the database keeps unique.  A module is imported in one   *)
(* step: ImportStep has its pages, its pauses and its continuations.       *)
(***************************************************************************)
EXTENDS Naturals, Sequences, FiniteSets, FiniteSetsExt, Functions

CONSTANTS
  Users, Workers, Sessions,
  Roster,      (* the selected modules in the order of orderedModules      *)
  DependsOn,   (* the modules a module waits for                           *)
  Requests,    (* the requests the users make                              *)
  None,
  MaxAttempts, (* job_queue.max_attempts                                   *)
  MaxRequests, (* bound: requests                                          *)
  MaxFaults    (* bound: imports that fail, crashes, failed requests, and  *)
               (* leases lost by a worker that is still at it              *)

Modules == Range(Roster)
Actors  == Users \cup Workers

(* orderQuickBooksMigrationResources puts a module after those it waits    *)
(* for.                                                                    *)
ASSUME RosterAssumption ==
  /\ Roster \in Seq(Modules) /\ Roster # <<>>
  /\ \A i, j \in DOMAIN Roster : Roster[i] = Roster[j] => i = j
  /\ DependsOn \in [Modules -> SUBSET Modules]
  /\ \A i, j \in DOMAIN Roster : Roster[j] \in DependsOn[Roster[i]] => j < i
ASSUME BoundAssumption ==
  /\ MaxAttempts \in Nat \ {0}
  /\ Users \cap Workers = {} /\ None \notin Actors \cup Sessions \cup Modules
  /\ MaxRequests \in Nat /\ MaxFaults \in Nat

VARIABLES
  session,  (* migration_wizard_sessions: status, config.state, the cards, *)
            (* and whether its last write is older than the stale limit    *)
  job,      (* import_jobs.status of a session's module                    *)
  queue,    (* the active job_queue row of an import job and its holder    *)
  jobsOld,  (* the session's import jobs were last written that long ago   *)
  pc, my,   (* per actor: its next request, and what it holds              *)
  requests, asked,  (* the requests made, and of what kinds                *)
  failures, crashes, overtaken,
  doubled   (* the sessions in which two handlers wrote the same start of  *)
            (* a module                                                    *)

tables == <<session, job, queue, jobsOld>>
bounds == <<requests, asked, failures, crashes, overtaken, doubled>>
vars   == <<tables, pc, my, bounds>>

Terminal == {"completed", "failed", "cancelled"}
Phases   == {"ready", "queued", "active"} \cup Terminal
Cards    == [Modules -> [phase : Phases, job : BOOLEAN]]
Rows     == [status : {"NONE", "IN_PROGRESS", "COMPLETED", "CANCELLED"},
             state  : {"none", "running"} \cup Terminal,
             cards  : Cards, old : BOOLEAN]
Jobs     == {"none", "pending", "processing"} \cup Terminal
PCs == {"idle", "find", "facts", "close", "insert", "writeCancel", "cancelJobs",
        "withdraw", "retryJobs", "reread", "writeRetry", "createJob",
        "setPending", "readStatus", "write", "enqueue", "start", "gate",
        "stop", "process", "finish", "hook", "reconcile", "advance", "complete"}
Ops == {"none", "poll", "create", "cancel", "retry", "resume", "begin",
        "step", "reconcile", "advance"}

AllReady == [m \in Modules |-> [phase |-> "ready", job |-> FALSE]]
Faults   == failures + crashes + overtaken
NoRow    == [status |-> "NONE", state |-> "none", cards |-> AllReady, old |-> FALSE]
NoQueue  == [status |-> "NONE", holder |-> None, attempts |-> 0]

(* What an actor holds: why it reads the session, the session and its row  *)
(* as read, a worker's module, the module to start, the jobs left to       *)
(* cancel or retry, the state to close with, and whether its step failed.  *)
Fresh == [op |-> "none", sess |-> None, row |-> NoRow, mod |-> None, plan |-> None,
          todo |-> {}, verdict |-> "none", failed |-> FALSE]

Goto(a, l)   == pc' = [pc EXCEPT ![a] = l]
Become(a, r) == my' = [my EXCEPT ![a] = r]
Return(a)    == Goto(a, "idle") /\ Become(a, Fresh)
Done(a)      == IF a \in Users THEN Return(a) ELSE Goto(a, "complete") /\ UNCHANGED my

(* A request fails: a user's is answered with the error, a worker's row    *)
(* goes back to the queue.                                                 *)
Refused(a) ==
  IF a \in Users THEN Return(a)
  ELSE Goto(a, "complete") /\ Become(a, [my[a] EXCEPT !.failed = TRUE])

Open(s)    == session[s].status = "IN_PROGRESS"
Running(s) == Open(s) /\ session[s].state = "running"
Known(cards) == {m \in Modules : cards[m].job}
Active(s)  == {m \in Modules : queue[s][m].status # "NONE"}

WriteSession(s, status, state, cards) ==
  session' = [session EXCEPT ![s] =
                [status |-> status, state |-> state, cards |-> cards, old |-> FALSE]]

WriteJob(s, m, status) ==
  /\ job' = [job EXCEPT ![s][m] = status]
  /\ jobsOld' = [jobsOld EXCEPT ![s] = FALSE]

(* The guard of setImportJobStatus and of finalizeImportJob.               *)
WriteUnlessTerminal(s, m, status) ==
  IF job[s][m] \in Terminal THEN UNCHANGED <<job, jobsOld>> ELSE WriteJob(s, m, status)

Init ==
  /\ session = [s \in Sessions |-> NoRow]
  /\ job     = [s \in Sessions |-> [m \in Modules |-> "none"]]
  /\ queue   = [s \in Sessions |-> [m \in Modules |-> NoQueue]]
  /\ jobsOld = [s \in Sessions |-> FALSE]
  /\ pc = [a \in Actors |-> "idle"] /\ my = [a \in Actors |-> Fresh]
  /\ requests = 0 /\ asked = {} /\ failures = 0 /\ crashes = 0 /\ overtaken = 0
  /\ doubled = {}

-----------------------------------------------------------------------------
(* Reading a session.                                                      *)

(* Mutant: the card takes the status as it is.                             *)
PhaseOf_Raw(status) == status

PhaseOf(status) ==
  CASE status = "pending" -> "queued"
    [] status = "processing" -> "active"
    [] OTHER -> status

(* hydrateSession: the cards as the import jobs they name say, except that *)
(* a terminal card is not taken back.                                      *)
Hydrate(s, cards) ==
  [m \in Modules |->
     IF m \notin Known(cards) \/ (cards[m].phase \in Terminal /\ job[s][m] \notin Terminal)
     THEN cards[m] ELSE [cards[m] EXCEPT !.phase = PhaseOf(job[s][m])]]

AllIn(cards, phases) == \A m \in Modules : cards[m].phase \in phases

(* Mutant: one completed module completes the session.                     *)
Resolve_Some(s, row, cards, rows) ==
  IF \/ row.state # "running" \/ rows # {}
     \/ \E m \in Known(cards) : job[s][m] = "processing" THEN "none"
  ELSE IF \E m \in Modules : cards[m].phase = "completed" THEN "completed"
  ELSE IF AllIn(cards, Terminal) \/ (row.old /\ jobsOld[s]) THEN "failed"
  ELSE "none"

(* resolveMigrationSessionReconciliation: a running session that no queue  *)
(* row and no import job works for is completed, failed, or abandoned.     *)
Resolve(s, row, cards, rows) ==
  IF \/ row.state # "running" \/ rows # {}
     \/ \E m \in Known(cards) : job[s][m] = "processing" THEN "none"
  ELSE IF AllIn(cards, {"completed"}) THEN "completed"
  ELSE IF AllIn(cards, Terminal) \/ (row.old /\ jobsOld[s]) THEN "failed"
  ELSE "none"

Ready(cards) ==
  {i \in DOMAIN Roster :
     /\ cards[Roster[i]].phase # "completed"
     /\ \A d \in DependsOn[Roster[i]] : cards[d].phase = "completed"}

(* nextCoordinationAction: the first unfinished module whose dependencies  *)
(* completed, unless a module failed; None when there is nothing to start, *)
(* or its import job is already at work.                                   *)
NextModule(s, row, cards) ==
  IF \/ row.state # "running" \/ Ready(cards) = {}
     \/ \E m \in Modules : cards[m].phase \in {"failed", "cancelled"} THEN None
  ELSE LET m == Roster[Min(Ready(cards))] IN
       IF m \notin Known(cards) \/ job[s][m] = "pending" THEN m ELSE None

(* The import jobs and queue rows of the session in hand are read: the     *)
(* cards and the rows it then has, and what is held from there on.         *)
Seen(a)   == Hydrate(my[a].sess, my[a].row.cards)
Queued(a) == Active(my[a].sess) \cap Known(my[a].row.cards)
Held(a)   == [my[a] EXCEPT !.row.cards = Seen(a)]

Decide(a, op) ==
  /\ pc[a] = "facts" /\ my[a].op = op
  /\ UNCHANGED <<tables, bounds>>

Started(a) == NextModule(my[a].sess, my[a].row, Seen(a))

(* bootstrapQuickBooksMigrationQueue: an import job and its queue row for  *)
(* the planned module, or only the queue row.                              *)
Bootstrap(a) ==
  /\ Become(a, [Held(a) EXCEPT !.plan = Started(a)])
  /\ Goto(a, IF Started(a) \in Known(my[a].row.cards) THEN "enqueue" ELSE "createJob")

(* reconcileQuickBooksMigrationSession closes the session, or the request  *)
(* goes on.                                                                *)
Settle(a, rows, next) ==
  LET verdict == Resolve(my[a].sess, my[a].row, Seen(a), rows) IN
  \/ verdict = "none" /\ next
  \/ verdict # "none" /\ Goto(a, "close") /\ Become(a, [Held(a) EXCEPT !.verdict = verdict])

Look(u)      == \E op \in {"poll", "create"} : Decide(u, op) /\ Settle(u, Queued(u), Return(u))
Conclude(w)  == Decide(w, "reconcile")
                /\ Settle(w, Queued(w) \ {my[w].mod}, Goto(w, "advance") /\ UNCHANGED my)
Begin(u)     == /\ Decide(u, "begin")
                /\ \/ Started(u) = None /\ Return(u)
                   \/ Started(u) # None /\ Bootstrap(u)

(* The module whose import completed makes way for the next; the queue     *)
(* rows are not read here.                                                 *)
MoveOn(w) ==
  LET ended == job[my[w].sess][my[w].mod]
      done  == Goto(w, "complete") /\ UNCHANGED my IN
  /\ Decide(w, "advance")
  /\ \/ ended \notin Terminal /\ done
     \/ ended = "completed" /\ Started(w) # None /\ Bootstrap(w)
     \/ /\ ended \in Terminal /\ (ended # "completed" \/ Started(w) = None)
        /\ Settle(w, {}, done)

(* planGracefulMigrationCancel: the jobs that are not at work are to be    *)
(* cancelled.                                                              *)
PlanCancel(u) ==
  /\ Decide(u, "cancel")
  /\ \/ my[u].row.state # "running" /\ Return(u)
     \/ /\ my[u].row.state = "running" /\ Goto(u, "writeCancel")
        /\ Become(u, [Held(u) EXCEPT !.todo =
             {m \in Known(my[u].row.cards) : job[my[u].sess][m] = "pending"}])

(* A retry is refused when nothing failed and nothing was cancelled.       *)
PlanRetry(u) ==
  LET resumable == {m \in Known(my[u].row.cards) : job[my[u].sess][m] \in {"failed", "cancelled"}}
      nothing   == /\ resumable = {} /\ my[u].row.state # "cancelled"
                   /\ \A m \in Modules : Seen(u)[m].phase # "cancelled"
  IN
  /\ Decide(u, "retry")
  /\ \/ nothing /\ Return(u)
     \/ /\ ~nothing /\ Become(u, [Held(u) EXCEPT !.todo = resumable])
        /\ Goto(u, IF resumable = {} THEN "reread" ELSE "retryJobs")

Resume(u) == Decide(u, "resume") /\ Goto(u, "writeRetry") /\ Become(u, Held(u))

(* updateQuickBooksMigrationSession with a state that fixes the status.    *)
CloseSession(a) ==
  /\ pc[a] = "close"
  /\ WriteSession(my[a].sess, "COMPLETED", my[a].verdict, my[a].row.cards)
  /\ CASE my[a].op = "create"    -> Goto(a, "insert") /\ UNCHANGED my
       [] my[a].op = "reconcile" -> Goto(a, "advance") /\ UNCHANGED my
       [] my[a].op = "advance"   -> Goto(a, "complete") /\ UNCHANGED my
       [] my[a].op = "poll"      -> Return(a)
  /\ UNCHANGED <<job, queue, jobsOld, bounds>>

-----------------------------------------------------------------------------
(* Starting a module.                                                      *)

(* createImportJob; a job that exists already is adopted.  applyJobCreated *)
(* puts it on the card.                                                    *)
CreateJob(a) ==
  LET s == my[a].sess
      m == my[a].plan IN
  /\ pc[a] = "createJob"
  /\ IF job[s][m] = "none" THEN WriteJob(s, m, "processing") ELSE UNCHANGED <<job, jobsOld>>
  /\ Become(a, [my[a] EXCEPT !.row.cards[m] = [phase |-> "queued", job |-> TRUE]])
  /\ Goto(a, "setPending")
  /\ UNCHANGED <<session, queue, bounds>>

(* Mutant: an adopted job is put back whatever it is.                      *)
SetPending_Any(a) ==
  /\ pc[a] = "setPending"
  /\ WriteJob(my[a].sess, my[a].plan, "pending")
  /\ Goto(a, "readStatus")
  /\ UNCHANGED <<session, queue, my, bounds>>

SetPending(a) ==
  /\ pc[a] = "setPending"
  /\ WriteUnlessTerminal(my[a].sess, my[a].plan, "pending")
  /\ Goto(a, "readStatus")
  /\ UNCHANGED <<session, queue, my, bounds>>

(* The session's status is read again, to be written back with the cards.  *)
ReadStatus(a) ==
  /\ pc[a] = "readStatus"
  /\ Become(a, [my[a] EXCEPT !.row.status = session[my[a].sess].status])
  /\ Goto(a, "write")
  /\ UNCHANGED <<tables, bounds>>

(* A company has one session IN_PROGRESS: a write that makes another is    *)
(* refused.  A card that names the job already was written by another      *)
(* handler that started the module: what was read is older than that.      *)
Taken(s) == \E other \in Sessions \ {s} : Open(other)

Write(a) ==
  LET s == my[a].sess IN
  /\ pc[a] = "write"
  /\ IF my[a].row.status = "IN_PROGRESS" /\ Taken(s)
     THEN Refused(a) /\ UNCHANGED session
     ELSE /\ WriteSession(s, my[a].row.status, "running", my[a].row.cards)
          /\ Goto(a, "enqueue") /\ UNCHANGED my
  /\ doubled' = IF my[a].plan \in Known(session[s].cards) THEN doubled \cup {s} ELSE doubled
  /\ UNCHANGED <<job, queue, jobsOld, requests, asked, failures, crashes, overtaken>>

(* An import job has one active queue row: a second is not inserted.       *)
Enqueue(a) ==
  LET s == my[a].sess
      m == my[a].plan IN
  /\ pc[a] = "enqueue"
  /\ queue' = [queue EXCEPT ![s][m].status = IF @ = "NONE" THEN "PENDING" ELSE @]
  /\ Done(a)
  /\ UNCHANGED <<session, job, jobsOld, bounds>>

-----------------------------------------------------------------------------
(* The users' requests.                                                    *)

Request(u, kind) ==
  /\ pc[u] = "idle" /\ kind \in Requests /\ requests < MaxRequests
  /\ requests' = requests + 1 /\ asked' = asked \cup {kind}
  /\ UNCHANGED <<tables, failures, crashes, overtaken, doubled>>

(* A request on a session reads its row.                                   *)
Read(u, kind, s) ==
  /\ session[s].status # "NONE" /\ Request(u, kind)
  /\ Goto(u, "facts")
  /\ Become(u, [Fresh EXCEPT !.op = kind, !.sess = s, !.row = session[s]])

Create(u) ==
  Request(u, "create") /\ Goto(u, "find") /\ Become(u, [Fresh EXCEPT !.op = "create"])

(* findActiveQuickBooksMigrationSession.  A request to create is refused   *)
(* when the session it finds stays open.                                   *)
Find(u) ==
  /\ pc[u] = "find"
  /\ \/ \E s \in Sessions : Running(s) /\ Goto(u, "facts")
                            /\ Become(u, [my[u] EXCEPT !.sess = s, !.row = session[s]])
     \/ /\ \A s \in Sessions : ~Running(s)
        /\ \/ my[u].op = "create" /\ Goto(u, "insert") /\ UNCHANGED my
           \/ my[u].op = "poll" /\ Return(u)
  /\ UNCHANGED <<tables, bounds>>

(* A concurrent request may have won: its session is the answer.           *)
Insert(u) ==
  /\ pc[u] = "insert"
  /\ \/ \E s \in Sessions : Open(s) /\ Goto(u, "find")
                            /\ Become(u, [Fresh EXCEPT !.op = "poll"]) /\ UNCHANGED session
     \/ \E s \in Sessions :
          /\ session[s].status = "NONE" /\ \A other \in Sessions : ~Open(other)
          /\ WriteSession(s, "IN_PROGRESS", "running", AllReady)
          /\ Goto(u, "facts")
          /\ Become(u, [Fresh EXCEPT !.op = "begin", !.sess = s, !.row = session'[s]])
     \/ /\ \A s \in Sessions : ~Open(s) /\ session[s].status # "NONE"
        /\ Return(u) /\ UNCHANGED session
  /\ UNCHANGED <<job, queue, jobsOld, bounds>>

(* cancelPendingModules on the cards that were read.                       *)
WriteCancel(u) ==
  LET cards == [m \in Modules |->
        [my[u].row.cards[m] EXCEPT !.phase = IF @ \in {"queued", "ready"} THEN "cancelled" ELSE @]]
  IN
  /\ pc[u] = "writeCancel"
  /\ WriteSession(my[u].sess, "CANCELLED", "cancelled", cards)
  /\ Goto(u, IF my[u].todo = {} THEN "withdraw" ELSE "cancelJobs")
  /\ UNCHANGED <<job, queue, jobsOld, my, bounds>>

(* The next of the jobs in hand is written.                                *)
TakeJob(u, m, here, there) ==
  /\ pc[u] = here /\ m \in my[u].todo
  /\ Become(u, [my[u] EXCEPT !.todo = @ \ {m}])
  /\ Goto(u, IF my[u].todo = {m} THEN there ELSE here)
  /\ UNCHANGED <<session, queue, bounds>>

CancelJob(u, m) ==
  /\ TakeJob(u, m, "cancelJobs", "withdraw")
  /\ WriteUnlessTerminal(my[u].sess, m, "cancelled")

(* incrementImportJobRetry leaves a job that completed meanwhile.          *)
RetryJob(u, m) ==
  /\ TakeJob(u, m, "retryJobs", "reread")
  /\ IF job[my[u].sess][m] = "completed" THEN UNCHANGED <<job, jobsOld>>
     ELSE WriteJob(my[u].sess, m, "pending")

(* cancelPendingContinuationJobs: claimed rows are left.                   *)
Withdraw(u) ==
  LET s == my[u].sess IN
  /\ pc[u] = "withdraw"
  /\ queue' = [queue EXCEPT ![s] = [m \in Modules |->
       IF m \in Known(my[u].row.cards) /\ queue[s][m].status = "PENDING" THEN NoQueue
       ELSE queue[s][m]]]
  /\ Return(u)
  /\ UNCHANGED <<session, job, jobsOld, bounds>>

Reread(u) ==
  /\ pc[u] = "reread"
  /\ Become(u, [my[u] EXCEPT !.op = "resume", !.row = session[my[u].sess]])
  /\ Goto(u, "facts")
  /\ UNCHANGED <<tables, bounds>>

(* planResumeAfterCancellation; the session is open and running again, and *)
(* what was stopped is started.                                            *)
WriteRetry(u) ==
  LET s == my[u].sess
      requeued(card) ==
        CASE card.phase = "failed"    -> [card EXCEPT !.phase = "queued"]
          [] card.phase = "cancelled" -> [card EXCEPT !.phase = IF card.job THEN "queued" ELSE "ready"]
          [] OTHER -> card
      cards == [m \in Modules |-> requeued(my[u].row.cards[m])]
  IN
  /\ pc[u] = "writeRetry"
  /\ IF Taken(s) THEN Return(u) /\ UNCHANGED session
     ELSE /\ WriteSession(s, "IN_PROGRESS", "running", cards)
          /\ Become(u, [my[u] EXCEPT !.op = "begin", !.row = session'[s]])
          /\ Goto(u, "facts")
  /\ UNCHANGED <<job, queue, jobsOld, bounds>>

-----------------------------------------------------------------------------
(* The workers.                                                            *)

Working(w, s, m) == pc[w] # "idle" /\ my[w].sess = s /\ my[w].mod = m
Owner(w) ==
  LET row == queue[my[w].sess][my[w].mod] IN row.status = "RUNNING" /\ row.holder = w

(* A pending row, or one whose lease ran out: of a worker that died, or of *)
(* one that is still at it.                                                *)
Claim(w, s, m) ==
  /\ pc[w] = "idle"
  /\ \/ queue[s][m].status = "PENDING" /\ UNCHANGED overtaken
     \/ /\ queue[s][m].status = "RUNNING"
        /\ \/ ~Working(queue[s][m].holder, s, m) /\ UNCHANGED overtaken
           \/ Working(queue[s][m].holder, s, m) /\ Faults < MaxFaults
              /\ overtaken' = overtaken + 1
  /\ queue' = [queue EXCEPT ![s][m] =
       [status |-> "RUNNING", holder |-> w, attempts |-> Min({@.attempts + 1, MaxAttempts})]]
  /\ Goto(w, "start")
  /\ Become(w, [Fresh EXCEPT !.op = "step", !.sess = s, !.mod = m])
  /\ UNCHANGED <<session, job, jobsOld, requests, asked, failures, crashes, doubled>>

(* Mutant: there is nothing left to do for an import job that ended.       *)
Start_Ends(w) ==
  /\ pc[w] = "start"
  /\ CASE ~Owner(w) -> Return(w)
       [] Owner(w) /\ job[my[w].sess][my[w].mod] \in Terminal -> Goto(w, "complete") /\ UNCHANGED my
       [] OTHER -> Goto(w, "gate") /\ UNCHANGED my
  /\ UNCHANGED <<tables, bounds>>

(* runImportJobStep skips an import job that ended; its hook runs again.   *)
Start(w) ==
  /\ pc[w] = "start"
  /\ CASE ~Owner(w) -> Return(w)
       [] Owner(w) /\ job[my[w].sess][my[w].mod] \in Terminal -> Goto(w, "hook") /\ UNCHANGED my
       [] OTHER -> Goto(w, "gate") /\ UNCHANGED my
  /\ UNCHANGED <<tables, bounds>>

(* isImportJobMigrationCancelled.                                          *)
Gate(w) ==
  LET row == session[my[w].sess] IN
  /\ pc[w] = "gate"
  /\ Goto(w, IF my[w].mod \in Known(row.cards)
                /\ (row.state = "cancelled" \/ row.status = "CANCELLED")
             THEN "stop" ELSE "process")
  /\ UNCHANGED <<tables, my, bounds>>

(* The writes of a step: each is skipped when the job ended meanwhile, and *)
(* the step goes on.                                                       *)
StepWrites(w, here, status, there) ==
  /\ pc[w] = here
  /\ WriteUnlessTerminal(my[w].sess, my[w].mod, status)
  /\ Goto(w, there)
  /\ UNCHANGED <<session, queue, requests, asked, crashes, overtaken, doubled>>

Stop(w)    == StepWrites(w, "stop", "cancelled", "hook") /\ UNCHANGED <<my, failures>>
Process(w) == StepWrites(w, "process", "processing", "finish") /\ UNCHANGED <<my, failures>>

Finish(w) ==
  \/ StepWrites(w, "finish", "completed", "hook") /\ UNCHANGED <<my, failures>>
  \/ /\ Faults < MaxFaults /\ failures' = failures + 1
     /\ StepWrites(w, "finish", "failed", "hook")
     /\ Become(w, [my[w] EXCEPT !.failed = TRUE])

(* coordinateQuickBooksMigrationAfterStep, whether the step failed or not: *)
(* nothing while the import job is not over.                               *)
Hook(w) ==
  /\ pc[w] = "hook"
  /\ Goto(w, IF job[my[w].sess][my[w].mod] \in Terminal THEN "reconcile" ELSE "complete")
  /\ UNCHANGED <<tables, my, bounds>>

(* Both look for the session IN_PROGRESS that names the import job.        *)
FindOwning(w, op, otherwise) ==
  LET s == my[w].sess IN
  /\ pc[w] = op
  /\ IF Open(s) /\ my[w].mod \in Known(session[s].cards)
     THEN Goto(w, "facts") /\ Become(w, [my[w] EXCEPT !.op = op, !.row = session[s]])
     ELSE Goto(w, otherwise) /\ UNCHANGED my
  /\ UNCHANGED <<tables, bounds>>

Reconcile(w) == FindOwning(w, "reconcile", "advance")
Advance(w)   == FindOwning(w, "advance", "complete")

(* A failed attempt is put back unless it was the last; a worker that lost *)
(* its lease changes nothing.                                              *)
Complete(w) ==
  LET s == my[w].sess
      m == my[w].mod IN
  /\ pc[w] = "complete"
  /\ \/ ~Owner(w) /\ UNCHANGED queue
     \/ /\ Owner(w)
        /\ queue' = [queue EXCEPT ![s][m] =
             IF my[w].failed /\ @.attempts < MaxAttempts
             THEN [@ EXCEPT !.status = "PENDING", !.holder = None] ELSE NoQueue]
  /\ Return(w)
  /\ UNCHANGED <<session, job, jobsOld, bounds>>

-----------------------------------------------------------------------------
(* An actor stops between two of its requests.                             *)
Crash(a) ==
  /\ pc[a] # "idle" /\ Faults < MaxFaults
  /\ crashes' = crashes + 1
  /\ Return(a)
  /\ UNCHANGED <<tables, requests, asked, failures, overtaken, doubled>>

(* The stale limit passes.  A request takes less than that.                *)
Age(s) ==
  /\ Running(s) /\ \A a \in Actors : pc[a] = "idle"
  /\ session' = [session EXCEPT ![s].old = TRUE]
  /\ jobsOld' = [jobsOld EXCEPT ![s] = TRUE]
  /\ UNCHANGED <<job, queue, pc, my, bounds>>

Coordinate(a) ==
  \/ CloseSession(a) \/ CreateJob(a) \/ SetPending(a)
  \/ ReadStatus(a) \/ Write(a) \/ Enqueue(a)

User(u) ==
  \/ Create(u) \/ Find(u) \/ Insert(u) \/ Coordinate(u)
  \/ \E kind \in {"poll", "cancel", "retry"}, s \in Sessions : Read(u, kind, s)
  \/ Look(u) \/ Begin(u) \/ PlanCancel(u) \/ PlanRetry(u) \/ Resume(u)
  \/ WriteCancel(u) \/ Withdraw(u) \/ Reread(u) \/ WriteRetry(u)
  \/ \E m \in Modules : CancelJob(u, m) \/ RetryJob(u, m)

Worker(w) ==
  \/ \E s \in Sessions, m \in Modules : Claim(w, s, m)
  \/ Start(w) \/ Gate(w) \/ Stop(w) \/ Process(w) \/ Finish(w)
  \/ Hook(w) \/ Reconcile(w) \/ Conclude(w) \/ Advance(w) \/ MoveOn(w)
  \/ Complete(w) \/ Coordinate(w)

Next ==
  \/ \E u \in Users : User(u)
  \/ \E w \in Workers : Worker(w)
  \/ \E a \in Actors : Crash(a)
  \/ \E s \in Sessions : Age(s)

Spec == Init /\ [][Next]_vars

-----------------------------------------------------------------------------
TypeOK ==
  /\ session \in [Sessions -> Rows]
  /\ job \in [Sessions -> [Modules -> Jobs]]
  /\ queue \in [Sessions -> [Modules ->
       [status : {"NONE", "PENDING", "RUNNING"}, holder : Workers \cup {None},
        attempts : 0 .. MaxAttempts]]]
  /\ jobsOld \in [Sessions -> BOOLEAN]
  /\ pc \in [Actors -> PCs]
  /\ my \in [Actors -> [op : Ops, sess : Sessions \cup {None}, row : Rows,
       mod : Modules \cup {None}, plan : Modules \cup {None},
       todo : SUBSET Modules, verdict : {"none", "completed", "failed"}, failed : BOOLEAN]]
  /\ requests \in 0 .. MaxRequests /\ asked \subseteq Requests /\ failures \in 0 .. MaxFaults
  /\ crashes \in 0 .. MaxFaults /\ overtaken \in 0 .. MaxFaults /\ doubled \subseteq Sessions

(* A module is not started before the modules it waits for are imported,   *)
(* and of a session's import jobs at most one has not ended, whatever      *)
(* retries, lost leases and replayed hooks came before; so no module that  *)
(* another was started on is taken back for a second import.  And a        *)
(* session that says it is completed has imported every module: no poll,   *)
(* completion hook or stale write closes it as completed early.            *)
ImportedInOrder ==
  \A s \in Sessions : \A m, n \in Modules :
    /\ job[s][m] # "none" /\ n \in DependsOn[m] => job[s][n] = "completed"
    /\ job[s][m] \in {"pending", "processing"} /\ job[s][n] \in {"pending", "processing"} => m = n
    /\ session[s].state = "completed" => job[s][m] = "completed"

(* A running migration that has got past a module is not left behind: when *)
(* nobody is at work on it and no import failed, a queue row remains, so   *)
(* that the workers finish it with no browser to poll it, though a worker  *)
(* crashed anywhere in its hook.  Not so when a session was cancelled or   *)
(* retried, when a worker still at it lost its lease, or when two workers  *)
(* started the same module, one of them in a replayed hook: the later      *)
(* write then takes a job from its card or reopens the session.            *)
NotStranded ==
  \A s \in Sessions :
    /\ Running(s) /\ \A a \in Actors : pc[a] = "idle"
    /\ \E m \in Modules : job[s][m] = "completed"
    /\ \A m \in Modules : job[s][m] # "failed"
    /\ asked \cap {"cancel", "retry"} = {} /\ overtaken = 0 /\ s \notin doubled
    => Active(s) # {}

(* The comment of cancelQuickBooksMigrationSession: persisting the         *)
(* cancellation stops coordination at once.  A cancelled session runs      *)
(* again only when it is retried.                                          *)
(* Not kept: section 7 of the README has the trace.                        *)
CancelSticks ==
  [][\A s \in Sessions :
       session[s].status = "CANCELLED" /\ session'[s].status = "IN_PROGRESS"
         => \E u \in Users : pc[u] = "writeRetry"]_vars
==============================================================================
