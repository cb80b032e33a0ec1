------------------------------ MODULE Snapshot -------------------------------
(***************************************************************************)
(* The raw snapshot of a company's QuickBooks data: a row, a checkpoint    *)
(* per resource, the page files and attachment binaries in Storage, the    *)
(* ledger of the attachments, and the queue row that lets a worker run the *)
(* next step.  A request creates the snapshot or opens it again; a worker  *)
(* extracts a step's worth of pages of the first resource that is not over *)
(* and, when none is left, validates what is stored.  A step here is one   *)
(* request to the database, to Storage or to QuickBooks with what the code *)
(* computes from it.  The records of a resource are the positions of its   *)
(* windows: ten years of a partitioned resource, else one.  What           *)
(* QuickBooks holds does not change while the snapshot is taken.           *)
(***************************************************************************)
EXTENDS Naturals, Sequences, FiniteSets, FiniteSetsExt, Functions

CONSTANTS
  Users, Workers,
  Order,        (* the requested resources, as in RESOURCE_ORDER           *)
  Required,     (* those of a tier other than optional                     *)
  Partitioned,  (* mode query-partitioned                                  *)
  Single,       (* mode preferences: one page, saved once                  *)
  Att,          (* the attachments resource                                *)
  Windows,      (* per resource, the records in each of its windows        *)
  Size,         (* the bytes of each attachable                            *)
  Budgets,      (* what computeAttachmentBudget may come to                *)
  None,
  PageSize, PagesPerStep,
  MaxAttempts,  (* job_queue.max_attempts                                  *)
  MaxRetries,   (* bound: requests to retry                                *)
  MaxFailures,  (* bound: requests that fail                               *)
  MaxCrashes,   (* bound: actors that stop between two requests            *)
  MaxOvertaken  (* bound: leases lost by a worker that is still at it      *)

Resources == Range(Order)
Actors    == Users \cup Workers
Items     == DOMAIN Size

(* The attachments come last and are one window, without end date.         *)
ASSUME OrderAssumption ==
  /\ Order \in Seq(Resources) /\ Order # <<>>
  /\ \A i, j \in DOMAIN Order : Order[i] = Order[j] => i = j
  /\ Att \in Resources => Att = Order[Len(Order)]
  /\ Required \subseteq Resources \ {Att}
  /\ Partitioned \cup Single \subseteq Resources \ {Att} /\ Partitioned \cap Single = {}
  /\ Windows \in [Resources -> Seq(Nat)]
  /\ \A r \in Resources \ Partitioned : Len(Windows[r]) = 1
  /\ Att \in Resources => Items = 1 .. Windows[Att][1]
  /\ Size \in [Items -> Nat \ {0}]
ASSUME BoundAssumption ==
  /\ Users \cap Workers = {} /\ None \notin Actors \cup Resources \cup Nat
  /\ Budgets \subseteq Nat /\ Budgets # {} /\ IsFiniteSet(Items)
  /\ PageSize \in Nat \ {0} /\ PagesPerStep \in Nat \ {0} /\ MaxAttempts \in Nat \ {0}
  /\ {MaxRetries, MaxFailures, MaxCrashes, MaxOvertaken} \subseteq Nat

VARIABLES
  snap,     (* quickbooks_migration_snapshots: status, validation, budget  *)
  cp,       (* quickbooks_snapshot_checkpoints                             *)
  files,    (* the page files in Storage                                   *)
  objects,  (* the attachables whose binary is in Storage                  *)
  ledger,   (* quickbooks_snapshot_attachments                             *)
  queue,    (* the active job_queue row of the snapshot and its holder     *)
  pc, my,   (* per actor: its next request, and what it holds              *)
  retries, failures, crashes, overtaken,
  raced,    (* history: a retry and another actor were at work together   *)
  lost      (* history: a request was cut short, a hook was, or the queue  *)
            (* row used up its attempts                                    *)

store  == <<cp, files, objects, ledger>>
tables == <<snap, store, queue>>
bounds == <<retries, failures, crashes, overtaken, raced, lost>>
vars   == <<tables, pc, my, bounds>>

Terminal == {"completed", "failed", "unsupported"}
Entity   == {"absent", "pending", "running"} \cup Terminal
Statuses == {"NONE", "RUNNING", "PARTIAL", "COMPLETE", "FAILED"}
Final    == {"captured", "skipped_budget"}
Outcomes == {"none", "failed"} \cup Final
PCs == {"idle", "checkpoints", "find", "insert", "list", "reset", "reopen",
        "begin", "pick", "read", "mark", "budget", "setBudget", "page", "item",
        "record", "save", "window", "finish", "giveUp", "summary", "write",
        "remaining", "intend", "validate", "report", "manifest",
        "refinalize", "complete"}

NoCheckpoint == [status |-> "absent", win |-> 1, next |-> 1, pages |-> 0,
                 records |-> 0, tally |-> {}]
NoQueue  == [status |-> "NONE", holder |-> None, attempts |-> 0]
NoLedger == [i \in Items |-> "none"]

(* What an actor holds: the resource and its checkpoint as read, the pages *)
(* asked for, the rows of the page at hand and the attachables among them  *)
(* still to do, the attachment ledger and the budget as read, the status   *)
(* to write, the phase of the step, the status finalizeSnapshot intends    *)
(* and the report, the checkpoints to reset, whether nothing is left,      *)
(* whether the step failed, and whether it runs with a refreshed token.    *)
Fresh == [res |-> None, cp |-> NoCheckpoint, asked |-> 0, rows |-> {}, items |-> {},
          ledger |-> NoLedger, budget |-> 0, verdict |-> "none", phase |-> "step",
          intended |-> "none", report |-> "none", todo |-> {}, done |-> TRUE,
          failed |-> FALSE, replayed |-> FALSE]

Goto(a, l)   == pc' = [pc EXCEPT ![a] = l]
Become(a, r) == my' = [my EXCEPT ![a] = r]
Return(a)    == Goto(a, "idle") /\ Become(a, Fresh)

(* saveCheckpoint patches the row, guarded by nothing but its key.         *)
SaveCheckpoint(r, row) == cp' = [cp EXCEPT ![r] = row]

Init ==
  /\ snap = [status |-> "NONE", report |-> "none", budget |-> None]
  /\ cp = [r \in Resources |-> NoCheckpoint]
  /\ files = {} /\ objects = {} /\ ledger = NoLedger
  /\ queue = NoQueue
  /\ pc = [a \in Actors |-> "idle"] /\ my = [a \in Actors |-> Fresh]
  /\ retries = 0 /\ failures = 0 /\ crashes = 0 /\ overtaken = 0
  /\ raced = FALSE /\ lost = FALSE

-----------------------------------------------------------------------------
(* What the checkpoints amount to.                                         *)

OpenResources == {i \in DOMAIN Order : cp[Order[i]].status \in {"pending", "running"}}

(* A failed optional resource shows; an unsupported one does not.          *)
ComputeStatus ==
  LET In(rs, statuses) == \A r \in rs : cp[r].status \in statuses IN
  CASE \/ \E r \in Resources : cp[r].status \in {"pending", "running"}
       \/ \E r \in Required : cp[r].status = "absent"       -> "RUNNING"
    [] OTHER ->
       CASE Required = {}                                   -> "PARTIAL"
         [] Required # {} /\ In(Required, {"completed"})    ->
              IF In(Resources \ Required, Entity \ {"failed"}) THEN "COMPLETE" ELSE "PARTIAL"
         [] Required # {} /\ In(Required, Terminal \ {"completed"}) -> "FAILED"
         [] OTHER                                           -> "PARTIAL"

(* A COMPLETE or PARTIAL row without a report is to be finalized again.    *)
Finalized ==
  \/ snap.status = "FAILED"
  \/ snap.status \in {"COMPLETE", "PARTIAL"} /\ snap.report # "none"

-----------------------------------------------------------------------------
(* What validateSnapshot finds in a completed resource.                    *)
FilesOf(r) == {f \in files : f.res = r}
PageNos(r) == {f.page : f \in FilesOf(r)}

Contiguous(S) == \A n \in S : n > Min(S) => n - 1 \in S

PagesSound(r) ==
  /\ PageNos(r) = 1 .. Cardinality(PageNos(r))
  /\ Cardinality(PageNos(r)) >= cp[r].pages

WindowsSound(r) == Contiguous(cp[r].tally)

(* The records are read back, except those of the preferences.             *)
RecordsSound(r) ==
  r \notin Single =>
    /\ \A f, g \in FilesOf(r) : f # g => f.rows \cap g.rows = {}
    /\ cp[r].records > 0 =>
         MapThenSumSet(LAMBDA f : Cardinality(f.rows), FilesOf(r)) = cp[r].records

LedgerSound == \A i \in Items : ledger[i] = "captured" => i \in objects

Validation ==
  IF /\ \A r \in Resources : cp[r].status \in Terminal
     /\ \A r \in Required : cp[r].status = "completed"
     /\ \A r \in Resources : cp[r].status = "completed" =>
          PagesSound(r) /\ WindowsSound(r) /\ RecordsSound(r)
     /\ Att \in Resources => LedgerSound
  THEN "ok" ELSE "issues"

-----------------------------------------------------------------------------
(* The queue row of the snapshot.                                          *)

Reopening  == {"list", "reset", "reopen"}
Working(w) == pc[w] \notin {"idle", "find", "insert"}
Owner(w)   == queue.status = "RUNNING" /\ queue.holder = w

(* A pending row, or one whose lease ran out: of a worker that died, or of *)
(* one that is still at it.                                                *)
Claim(w) ==
  /\ pc[w] = "idle"
  /\ \/ queue.status = "PENDING" /\ UNCHANGED overtaken
     \/ queue.status = "RUNNING" /\ ~Working(queue.holder) /\ UNCHANGED overtaken
     \/ /\ queue.status = "RUNNING" /\ Working(queue.holder)
        /\ overtaken < MaxOvertaken /\ overtaken' = overtaken + 1
  /\ queue' = [status |-> "RUNNING", holder |-> w,
               attempts |-> IF queue.attempts < MaxAttempts THEN queue.attempts + 1
                            ELSE queue.attempts]
  /\ raced' = (raced \/ \E u \in Users : pc[u] \in Reopening)
  /\ Goto(w, "begin") /\ Become(w, Fresh)
  /\ UNCHANGED <<snap, store, retries, failures, crashes, lost>>

(* completeJob and failJob, guarded by the attempt.  The hook runs when a  *)
(* step that left something to do is completed.                            *)
Complete(w) ==
  /\ pc[w] = "complete"
  /\ CASE ~Owner(w) -> Return(w) /\ UNCHANGED <<queue, lost>>
       [] Owner(w) /\ my[w].failed ->
            /\ queue' = IF queue.attempts < MaxAttempts
                        THEN [queue EXCEPT !.status = "PENDING", !.holder = None]
                        ELSE NoQueue
            /\ lost' = (lost \/ queue.attempts = MaxAttempts)
            /\ Return(w)
       [] OTHER ->
            /\ queue' = NoQueue
            /\ Goto(w, IF my[w].done THEN "idle" ELSE "find") /\ Become(w, Fresh)
            /\ UNCHANGED lost
  /\ UNCHANGED <<snap, store, retries, failures, crashes, overtaken, raced>>

(* ensureSnapshotContinuation: nothing when a row is active.               *)
Find(a) ==
  /\ pc[a] = "find"
  /\ IF queue.status = "NONE" THEN Goto(a, "insert") /\ UNCHANGED my ELSE Return(a)
  /\ UNCHANGED <<tables, bounds>>

(* A snapshot has one active row: a second is refused, and tolerated.      *)
Insert(a) ==
  /\ pc[a] = "insert"
  /\ queue' = IF queue.status = "NONE" THEN [queue EXCEPT !.status = "PENDING"] ELSE queue
  /\ Return(a)
  /\ UNCHANGED <<snap, store, bounds>>

-----------------------------------------------------------------------------
(* The users' requests.                                                    *)

(* createSnapshot; the checkpoints are inserted by a later request.        *)
Create(u) ==
  /\ pc[u] = "idle" /\ snap.status = "NONE"
  /\ snap' = [snap EXCEPT !.status = "RUNNING"]
  /\ Goto(u, "checkpoints")
  /\ UNCHANGED <<store, queue, my, bounds>>

InsertCheckpoints(u) ==
  /\ pc[u] = "checkpoints"
  /\ cp' = [r \in Resources |-> [NoCheckpoint EXCEPT !.status = "pending"]]
  /\ Goto(u, "find")
  /\ UNCHANGED <<snap, files, objects, ledger, queue, my, bounds>>

Meets(u) == raced' = (raced \/ \E a \in Actors \ {u} : pc[a] # "idle")

(* The retry route refuses a COMPLETE snapshot.                            *)
Retry(u) ==
  /\ pc[u] = "idle" /\ retries < MaxRetries
  /\ snap.status \notin {"NONE", "COMPLETE"}
  /\ retries' = retries + 1
  /\ Meets(u)
  /\ Goto(u, "list")
  /\ UNCHANGED <<tables, my, failures, crashes, overtaken, lost>>

List(u) ==
  /\ pc[u] = "list"
  /\ Become(u, [Fresh EXCEPT !.todo = {r \in Resources : cp[r].status \in {"failed", "running"}}])
  /\ Goto(u, IF my'[u].todo = {} THEN "reopen" ELSE "reset")
  /\ Meets(u)
  /\ UNCHANGED <<tables, retries, failures, crashes, overtaken, lost>>

(* Mutant: the resource starts again.                                      *)
Reset_FromStart(u, r) ==
  /\ pc[u] = "reset" /\ r \in my[u].todo
  /\ SaveCheckpoint(r, [NoCheckpoint EXCEPT !.status = "pending"])
  /\ Become(u, [my[u] EXCEPT !.todo = @ \ {r}])
  /\ Goto(u, IF my[u].todo = {r} THEN "reopen" ELSE "reset")
  /\ Meets(u)
  /\ UNCHANGED <<snap, files, objects, ledger, queue, retries, failures, crashes, overtaken, lost>>

(* Only the status: the resource goes on from its checkpoint.              *)
Reset(u, r) ==
  /\ pc[u] = "reset" /\ r \in my[u].todo
  /\ SaveCheckpoint(r, [cp[r] EXCEPT !.status = "pending"])
  /\ Become(u, [my[u] EXCEPT !.todo = @ \ {r}])
  /\ Goto(u, IF my[u].todo = {r} THEN "reopen" ELSE "reset")
  /\ Meets(u)
  /\ UNCHANGED <<snap, files, objects, ledger, queue, retries, failures, crashes, overtaken, lost>>

(* Mutant: the status is spelled as a checkpoint's.                        *)
Reopen_Lower(u) ==
  /\ pc[u] = "reopen"
  /\ snap' = [snap EXCEPT !.status = "running", !.report = "none"]
  /\ Goto(u, "find")
  /\ Meets(u)
  /\ UNCHANGED <<store, queue, my, retries, failures, crashes, overtaken, lost>>

Reopen(u) ==
  /\ pc[u] = "reopen"
  /\ snap' = [snap EXCEPT !.status = "RUNNING", !.report = "none"]
  /\ Goto(u, "find")
  /\ Meets(u)
  /\ UNCHANGED <<store, queue, my, retries, failures, crashes, overtaken, lost>>

(* Whether these writes succeed is not asked.                              *)
Overlook(u) ==
  /\ pc[u] \in {"reset", "reopen"}
  /\ failures < MaxFailures /\ failures' = failures + 1
  /\ \/ pc[u] = "reopen" /\ Goto(u, "find") /\ UNCHANGED my
     \/ \E r \in my[u].todo :
          /\ pc[u] = "reset"
          /\ Become(u, [my[u] EXCEPT !.todo = @ \ {r}])
          /\ Goto(u, IF my[u].todo = {r} THEN "reopen" ELSE "reset")
  /\ Meets(u)
  /\ UNCHANGED <<tables, retries, crashes, overtaken, lost>>

-----------------------------------------------------------------------------
(* A worker's step: which resource.                                        *)

Begin(w) ==
  /\ pc[w] = "begin"
  /\ IF Owner(w) THEN Goto(w, "pick") /\ UNCHANGED my ELSE Return(w)
  /\ UNCHANGED <<tables, bounds>>

(* runSnapshotOrchestratorStep reads the row and the checkpoints.          *)
Pick(w) ==
  /\ pc[w] = "pick"
  /\ CASE Finalized -> Goto(w, "complete") /\ UNCHANGED my
       [] ~Finalized /\ OpenResources = {} ->
            Goto(w, "summary") /\ Become(w, [my[w] EXCEPT !.phase = "finalize"])
       [] OTHER ->
            Goto(w, "read") /\ Become(w, [my[w] EXCEPT !.res = Order[Min(OpenResources)]])
  /\ UNCHANGED <<tables, bounds>>

ReadCheckpoint(w) ==
  /\ pc[w] = "read"
  /\ CASE ~Owner(w) -> Return(w)
       [] Owner(w) /\ cp[my[w].res].status \in {"completed", "unsupported"} ->
            Goto(w, "summary") /\ UNCHANGED my
       [] OTHER -> Goto(w, "mark") /\ Become(w, [my[w] EXCEPT !.cp = cp[my[w].res]])
  /\ UNCHANGED <<tables, bounds>>

MarkRunning(w) ==
  /\ pc[w] = "mark"
  /\ SaveCheckpoint(my[w].res, [cp[my[w].res] EXCEPT !.status = "running"])
  /\ Goto(w, IF my[w].res = Att THEN "budget" ELSE "page")
  /\ UNCHANGED <<snap, files, objects, ledger, queue, my, bounds>>

(* ensureAttachmentBudget measures once for a snapshot, after the other    *)
(* resources; the ledger is read with the budget.                          *)
TakeBudget(w, b) == Become(w, [my[w] EXCEPT !.budget = b, !.ledger = ledger])

ReadBudget(w) ==
  /\ pc[w] = "budget"
  /\ \/ snap.budget # None /\ Goto(w, "page") /\ TakeBudget(w, snap.budget)
     \/ /\ snap.budget = None
        /\ \E r \in Resources \ {Att} : cp[r].status \notin Terminal
        /\ Goto(w, "giveUp") /\ Become(w, [my[w] EXCEPT !.verdict = "failed"])
     \/ /\ snap.budget = None
        /\ \A r \in Resources \ {Att} : cp[r].status \in Terminal
        /\ Goto(w, "setBudget") /\ \E b \in Budgets : TakeBudget(w, b)
  /\ UNCHANGED <<tables, bounds>>

SetBudget(w) ==
  /\ pc[w] = "setBudget"
  /\ snap' = IF snap.budget = None THEN [snap EXCEPT !.budget = my[w].budget] ELSE snap
  /\ Goto(w, "page")
  /\ UNCHANGED <<store, queue, my, bounds>>

-----------------------------------------------------------------------------
(* The pages of the resource in hand.                                      *)

WindowOf(w) == Windows[my[w].res]
Rows(w) ==
  LET c == my[w].cp IN
  IF c.win \notin DOMAIN WindowOf(w) THEN {}
  ELSE {c.win} \X {n \in c.next .. c.next + PageSize - 1 : n <= WindowOf(w)[c.win]}

(* The attachables of a page without a final entry in the ledger.          *)
Todo(r, rows, entries) ==
  IF r = Att THEN {i \in {row[2] : row \in rows} : entries[i] \notin Final} ELSE {}

Stored(r, page, rows) ==
  {f \in files : f.res # r \/ f.page # page} \cup {[res |-> r, page |-> page, rows |-> rows]}

(* A page is asked for and its file written, over one of that number.      *)
WritePage(w) ==
  LET r == my[w].res
      todo == Todo(r, Rows(w), my[w].ledger) IN
  /\ pc[w] = "page" /\ r \notin Single /\ Rows(w) # {}
  /\ files' = Stored(r, my[w].cp.pages + 1, Rows(w))
  /\ Become(w, [my[w] EXCEPT !.rows = Rows(w), !.items = todo, !.asked = @ + 1])
  /\ Goto(w, IF todo = {} THEN "save" ELSE "item")
  /\ UNCHANGED <<snap, cp, objects, ledger, queue, bounds>>

(* No rows: the end of a window that ended with a full page, or of all.    *)
EmptyPage(w) ==
  LET c == my[w].cp IN
  /\ pc[w] = "page" /\ my[w].res \notin Single /\ Rows(w) = {}
  /\ IF my[w].res \in Partitioned /\ c.win \in DOMAIN WindowOf(w)
     THEN /\ Become(w, [my[w] EXCEPT !.cp.tally = @ \cup {c.win}])
          /\ SaveCheckpoint(my[w].res, [cp[my[w].res] EXCEPT
               !.win = c.win, !.next = c.next, !.tally = c.tally \cup {c.win}])
          /\ Goto(w, "window")
     ELSE /\ Become(w, [my[w] EXCEPT !.verdict = "completed"])
          /\ Goto(w, "finish") /\ UNCHANGED cp
  /\ UNCHANGED <<snap, files, objects, ledger, queue, bounds>>

(* extractPreferences: page 1, whatever was there.                         *)
WriteSingle(w) ==
  LET r == my[w].res
      n == Windows[r][1]
      rows == {1} \X (1 .. n) IN
  /\ pc[w] = "page" /\ r \in Single
  /\ files' = IF n = 0 THEN files ELSE Stored(r, 1, rows)
  /\ Become(w, [my[w] EXCEPT !.verdict = "completed", !.cp.records = n,
                             !.cp.pages = IF n = 0 THEN 0 ELSE 1])
  /\ Goto(w, "finish")
  /\ UNCHANGED <<snap, cp, objects, ledger, queue, bounds>>

(* captureOneAttachment, in the order of the page.                         *)
Captured(entries) == {i \in Items : entries[i] = "captured"}
Bytes(S) == Cardinality(UNION {{i} \X (1 .. Size[i]) : i \in S})

Fits(w, i) == Bytes(Captured(my[w].ledger)) + Size[i] <= my[w].budget

AtItem(w, i) == pc[w] = "item" /\ i \in my[w].items /\ i = Min(my[w].items)

Enter(w, i, outcome) ==
  /\ ledger' = [ledger EXCEPT ![i] = outcome]
  /\ Become(w, [my[w] EXCEPT !.ledger[i] = outcome, !.items = @ \ {i}])
  /\ Goto(w, IF my[w].items = {i} THEN "save" ELSE "item")

(* Mutant: the upload is not waited for, and fails.                        *)
StoreBinary_Unawaited(w, i) ==
  /\ AtItem(w, i) /\ Fits(w, i)
  /\ Goto(w, "record")
  /\ UNCHANGED <<tables, my, bounds>>

StoreBinary(w, i) ==
  /\ AtItem(w, i) /\ Fits(w, i)
  /\ objects' = objects \cup {i}
  /\ Goto(w, "record")
  /\ UNCHANGED <<snap, cp, files, ledger, queue, my, bounds>>

RecordCaptured(w, i) ==
  /\ pc[w] = "record" /\ i \in my[w].items /\ i = Min(my[w].items)
  /\ Enter(w, i, "captured")
  /\ UNCHANGED <<snap, cp, files, objects, queue, bounds>>

SkipBinary(w, i) ==
  /\ AtItem(w, i) /\ ~Fits(w, i)
  /\ Enter(w, i, "skipped_budget")
  /\ UNCHANGED <<snap, cp, files, objects, queue, bounds>>

(* The download or the upload failed; the page goes on.                    *)
MissBinary(w, i) ==
  /\ AtItem(w, i) /\ failures < MaxFailures /\ failures' = failures + 1
  /\ Enter(w, i, "failed")
  /\ UNCHANGED <<snap, cp, files, objects, queue, retries, crashes, overtaken, raced, lost>>

(* The page is stored: the checkpoint moves past it.  A short page is the  *)
(* last of its window; a full one is followed by the next, or by the next  *)
(* step.                                                                   *)
SavePage(w) ==
  LET r == my[w].res
      n == Cardinality(my[w].rows)
      held == [my[w].cp EXCEPT !.next = @ + n, !.pages = @ + 1, !.records = @ + n,
                 !.tally = IF r \in Partitioned THEN @ \cup {my[w].cp.win} ELSE @]
      to(l, v) == Goto(w, l) /\ Become(w, [my[w] EXCEPT !.cp = held, !.rows = {}, !.verdict = v])
  IN
  /\ pc[w] = "save"
  /\ SaveCheckpoint(r, [held EXCEPT !.status = cp[r].status])
  /\ CASE n = PageSize /\ my[w].asked < PagesPerStep -> to("page", "none")
       [] n = PageSize /\ my[w].asked >= PagesPerStep -> to("finish", "running")
       [] n < PageSize /\ r \in Partitioned -> to("window", "none")
       [] OTHER -> to("finish", "completed")
  /\ UNCHANGED <<snap, files, objects, ledger, queue, bounds>>

(* Mutant: the position in the last window is kept.                        *)
NextWindow_KeepsPosition(c) == [c EXCEPT !.win = @ + 1]

NextWindow(c) == [c EXCEPT !.win = @ + 1, !.next = 1]

(* A window is over, and with it the step.                                 *)
SaveWindow(w) ==
  LET r == my[w].res
      held == NextWindow(my[w].cp) IN
  /\ pc[w] = "window"
  /\ SaveCheckpoint(r, [cp[r] EXCEPT !.win = held.win, !.next = held.next, !.tally = held.tally])
  /\ Become(w, [my[w] EXCEPT !.cp = held,
       !.verdict = IF held.win \in DOMAIN WindowOf(w) THEN "running" ELSE "completed"])
  /\ Goto(w, "finish")
  /\ UNCHANGED <<snap, files, objects, ledger, queue, bounds>>

(* The counts are written again, from memory; the position is not.         *)
Finish(w) ==
  LET r == my[w].res
      c == my[w].cp IN
  /\ pc[w] = "finish"
  /\ SaveCheckpoint(r, [cp[r] EXCEPT !.status = my[w].verdict, !.pages = c.pages,
                                     !.records = c.records, !.tally = c.tally])
  /\ Goto(w, "summary") /\ Become(w, [Fresh EXCEPT !.replayed = my[w].replayed])
  /\ UNCHANGED <<snap, files, objects, ledger, queue, bounds>>

-----------------------------------------------------------------------------
(* A request of the step fails.                                            *)
Fail(w) ==
  /\ failures < MaxFailures /\ failures' = failures + 1
  /\ UNCHANGED <<tables, retries, crashes, overtaken, raced, lost>>

(* QuickBooks refuses the entity, or anything else goes wrong: the         *)
(* resource is given up, not the step.                                     *)
ExtractionFails(w) ==
  /\ pc[w] \in {"budget", "page", "record", "save", "window", "finish"} /\ Fail(w)
  /\ \E v \in {"failed"} \cup IF pc[w] = "page" THEN {"unsupported"} ELSE {} :
       Become(w, [my[w] EXCEPT !.verdict = v])
  /\ Goto(w, "giveUp")

GiveUp(w) ==
  LET r == my[w].res IN
  /\ pc[w] = "giveUp"
  /\ SaveCheckpoint(r, [cp[r] EXCEPT !.status = my[w].verdict])
  /\ Goto(w, "summary") /\ Become(w, [Fresh EXCEPT !.replayed = my[w].replayed])
  /\ UNCHANGED <<snap, files, objects, ledger, queue, bounds>>

(* executeWithAccessToken runs the step a second time with a new token.    *)
TokenExpires(w) ==
  /\ pc[w] \in {"page", "item"} /\ Fail(w)
  /\ \/ ~my[w].replayed /\ Goto(w, "pick") /\ Become(w, [Fresh EXCEPT !.replayed = TRUE])
     \/ my[w].replayed /\ Goto(w, "complete") /\ Become(w, [Fresh EXCEPT !.failed = TRUE])

(* The step throws, and is an attempt of the queue row that failed.        *)
StepFails(w) ==
  /\ \/ pc[w] \in {"begin", "pick", "read", "mark", "giveUp", "remaining", "intend"}
     \/ pc[w] \in {"summary", "write"} /\ my[w].phase # "reconcile"
  /\ Fail(w)
  /\ Goto(w, "complete") /\ Become(w, [Fresh EXCEPT !.failed = TRUE])

-----------------------------------------------------------------------------
(* refreshSnapshotSummary, after a resource and twice in finalizeSnapshot. *)

ReadSummary(w) ==
  /\ pc[w] = "summary"
  /\ Become(w, [my[w] EXCEPT !.verdict = ComputeStatus])
  /\ Goto(w, "write")
  /\ UNCHANGED <<tables, bounds>>

Capped(status) == IF status = "COMPLETE" THEN "PARTIAL" ELSE status

WriteSummary(w) ==
  /\ pc[w] = "write"
  /\ snap' = [snap EXCEPT !.status = Capped(my[w].verdict)]
  /\ Goto(w, CASE my[w].phase = "step"     -> "remaining"
               [] my[w].phase = "finalize" -> "intend"
               [] OTHER                    -> "validate")
  /\ UNCHANGED <<store, queue, my, bounds>>

(* Mutant: only a resource at work counts as left.                         *)
Remaining_Running(w) ==
  LET left == \E r \in Resources : cp[r].status = "running" IN
  /\ pc[w] = "remaining"
  /\ \/ left /\ Goto(w, "complete") /\ Become(w, [my[w] EXCEPT !.done = FALSE])
     \/ ~left /\ Goto(w, "summary") /\ Become(w, [my[w] EXCEPT !.phase = "finalize"])
  /\ UNCHANGED <<tables, bounds>>

(* Something is left for the next step, or the snapshot is finalized.      *)
Remaining(w) ==
  /\ pc[w] = "remaining"
  /\ \/ OpenResources # {} /\ Goto(w, "complete") /\ Become(w, [my[w] EXCEPT !.done = FALSE])
     \/ OpenResources = {} /\ Goto(w, "summary") /\ Become(w, [my[w] EXCEPT !.phase = "finalize"])
  /\ UNCHANGED <<tables, bounds>>

(* finalizeSnapshot reads the status the checkpoints call for, and sets    *)
(* the attachments right from the ledger.                                  *)
Intend(w) ==
  /\ pc[w] = "intend"
  /\ Become(w, [my[w] EXCEPT !.intended = ComputeStatus, !.phase = "reconcile"])
  /\ Goto(w, IF Att \in Resources THEN "summary" ELSE "validate")
  /\ UNCHANGED <<tables, bounds>>

Validate(w) ==
  /\ pc[w] = "validate"
  /\ Become(w, [my[w] EXCEPT !.report = Validation])
  /\ Goto(w, "report")
  /\ UNCHANGED <<tables, bounds>>

FinalStatus(intended, report) ==
  IF intended = "COMPLETE" /\ report # "ok" THEN "PARTIAL" ELSE intended

SaveReport(w) ==
  /\ pc[w] = "report"
  /\ snap' = [snap EXCEPT !.status = FinalStatus(my[w].intended, my[w].report),
                          !.report = my[w].report]
  /\ Goto(w, "manifest")
  /\ UNCHANGED <<store, queue, my, bounds>>

Manifest(w) ==
  /\ pc[w] = "manifest"
  /\ Goto(w, "complete") /\ Become(w, Fresh)
  /\ UNCHANGED <<tables, bounds>>

(* finalizeSnapshot fails, at the latest when it writes the manifest.      *)
FinalizeFails(w) ==
  /\ \/ pc[w] \in {"validate", "report", "manifest"}
     \/ pc[w] \in {"summary", "write"} /\ my[w].phase = "reconcile"
  /\ Fail(w)
  /\ Goto(w, "refinalize") /\ Become(w, [Fresh EXCEPT !.failed = TRUE])

(* markSnapshotRefinalizing.                                               *)
MarkRefinalizing(w) ==
  /\ pc[w] = "refinalize"
  /\ snap' = IF snap.status = "RUNNING" THEN snap
             ELSE [snap EXCEPT !.status = "RUNNING", !.report = "none"]
  /\ Goto(w, "complete")
  /\ UNCHANGED <<store, queue, my, bounds>>

-----------------------------------------------------------------------------
(* An actor stops between two of its requests.  A claimed row is found     *)
(* again; what a user or the hook was about to do is lost.                 *)
Crash(a) ==
  /\ pc[a] # "idle" /\ crashes < MaxCrashes
  /\ crashes' = crashes + 1
  /\ lost' = (lost \/ a \in Users \/ pc[a] \in {"find", "insert"})
  /\ Return(a)
  /\ UNCHANGED <<tables, retries, failures, overtaken, raced>>

User(u) ==
  \/ Create(u) \/ InsertCheckpoints(u) \/ Find(u) \/ Insert(u)
  \/ Retry(u) \/ List(u) \/ Reopen(u) \/ Overlook(u)
  \/ \E r \in Resources : Reset(u, r)

Extract(w) ==
  \/ ReadCheckpoint(w) \/ MarkRunning(w) \/ ReadBudget(w) \/ SetBudget(w)
  \/ WritePage(w) \/ EmptyPage(w) \/ WriteSingle(w)
  \/ SavePage(w) \/ SaveWindow(w) \/ Finish(w) \/ GiveUp(w)
  \/ ExtractionFails(w) \/ TokenExpires(w)
  \/ \E i \in Items : StoreBinary(w, i) \/ RecordCaptured(w, i)
                      \/ SkipBinary(w, i) \/ MissBinary(w, i)

Finalize(w) ==
  \/ ReadSummary(w) \/ WriteSummary(w) \/ Remaining(w) \/ Intend(w) \/ Validate(w)
  \/ SaveReport(w) \/ Manifest(w) \/ FinalizeFails(w) \/ MarkRefinalizing(w)

Worker(w) ==
  \/ Claim(w) \/ Begin(w) \/ Pick(w) \/ Extract(w) \/ Finalize(w) \/ StepFails(w)
  \/ Complete(w) \/ Find(w) \/ Insert(w)

Next ==
  \/ \E u \in Users : User(u)
  \/ \E w \in Workers : Worker(w)
  \/ \E a \in Actors : Crash(a)

Spec == Init /\ [][Next]_vars

-----------------------------------------------------------------------------
Records(r) == UNION {{k} \X (1 .. Windows[r][k]) : k \in DOMAIN Windows[r]}

Checkpoints ==
  [status : Entity, win : Nat, next : Nat, pages : Nat, records : Nat, tally : SUBSET Nat]

Holdings ==
  [res : Resources \cup {None}, cp : Checkpoints, asked : Nat, rows : SUBSET (Nat \X Nat),
   items : SUBSET Items, ledger : [Items -> Outcomes], budget : Nat,
   verdict : Entity \cup Statuses \cup {"none"}, phase : {"step", "finalize", "reconcile"},
   intended : Statuses \cup {"none"}, report : {"none", "ok", "issues"},
   todo : SUBSET Resources, done : BOOLEAN, failed : BOOLEAN, replayed : BOOLEAN]

TypeOK ==
  /\ snap \in [status : Statuses, report : {"none", "ok", "issues"}, budget : Nat \cup {None}]
  /\ cp \in [Resources -> Checkpoints]
  /\ files \subseteq [res : Resources, page : Nat, rows : SUBSET (Nat \X Nat)]
  /\ objects \subseteq Items
  /\ ledger \in [Items -> Outcomes]
  /\ queue \in [status : {"NONE", "PENDING", "RUNNING"}, holder : Workers \cup {None},
                attempts : 0 .. MaxAttempts]
  /\ pc \in [Actors -> PCs]
  /\ my \in [Actors -> Holdings]
  /\ retries \in 0 .. MaxRetries /\ failures \in 0 .. MaxFailures
  /\ crashes \in 0 .. MaxCrashes /\ overtaken \in 0 .. MaxOvertaken
  /\ raced \in BOOLEAN /\ lost \in BOOLEAN

(* A COMPLETE snapshot can stand in for QuickBooks: what it holds of each  *)
(* required or completed resource is every record, once, however often its *)
(* steps were cut short, given up, replayed with a new token or retried.   *)
(* And its validation passed, whichever of the summary, the validation, a  *)
(* failed finalization and a retry wrote the row last.                     *)
CompleteHoldsEveryRecord ==
  snap.status = "COMPLETE" =>
    /\ snap.report = "ok"
    /\ \A r \in Resources : r \in Required \/ cp[r].status = "completed" =>
         /\ UNION {f.rows : f \in FilesOf(r)} = Records(r)
         /\ \A f, g \in FilesOf(r) : f # g => f.rows \cap g.rows = {}

(* What the ledger says is captured is in Storage, at every moment: the    *)
(* documents of an import point at it.  And it fits the budget that was    *)
(* measured once, over all steps, replays and retries.                     *)
CapturedIsAccounted ==
  /\ Captured(ledger) \subseteq objects
  /\ snap.budget = None => Captured(ledger) = {}
  /\ snap.budget # None => Bytes(Captured(ledger)) <= snap.budget

(* While no worker is overtaken, nothing takes progress back: no crash,    *)
(* replay or retry sets a resource's count of pages or its position back,  *)
(* or changes the fate of an attachment that was captured or skipped; and  *)
(* only a retry that met a worker reopens a completed or unsupported       *)
(* resource.                                                               *)
ProgressKept ==
  [][overtaken' = 0 =>
     /\ \A r \in Resources :
          /\ cp'[r].pages >= cp[r].pages /\ cp'[r].win >= cp[r].win
          /\ cp[r].status \in {"completed", "unsupported"} /\ ~raced' =>
               cp'[r].status = cp[r].status
     /\ \A i \in Items : ledger[i] \in Final => ledger'[i] = ledger[i]]_vars

(* A snapshot is not left behind: when nobody is at work on it, it is      *)
(* finalized or a queue row will take it on, though workers stopped in the *)
(* middle of their steps.  Not so when a request or a completion hook was  *)
(* cut short, the attempts were used up, a retry met another actor at      *)
(* work, or a worker was overtaken: it then takes another retry.           *)
Abandoned ==
  /\ snap.status # "NONE" /\ ~Finalized /\ queue.status = "NONE"
  /\ \A a \in Actors : pc[a] = "idle"
NotStranded == ~lost /\ ~raced /\ overtaken = 0 => ~Abandoned

(* The retry endpoint is the fallback that gets a snapshot going again: it *)
(* does so whenever it answered.                                           *)
(* Not kept: section 7 of the README has the trace.                        *)
RetryRestarts == ~lost => ~Abandoned
==============================================================================
