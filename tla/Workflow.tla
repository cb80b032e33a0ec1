------------------------------ MODULE Workflow ------------------------------
(***************************************************************************)
(* The approval of one bill by lib/workflow/engine.ts: its instance, the   *)
(* tasks of its steps, and the requests that submit, approve, reject,      *)
(* delegate and escalate.  A handler is one HTTP request or job; each of   *)
(* its steps is one request to the database, and no write of the engine    *)
(* carries a guard on the status it was decided from.                      *)
(***************************************************************************)
EXTENDS Naturals, Sequences, FiniteSets

CONSTANTS
  Handlers,
  Steps,       (* the template's steps that apply to the bill, in order    *)
  MaxHandOvers (* bound: delegations and escalating sweeps                 *)

Modes == {"SEQUENTIAL", "ANY", "ALL"}

(* How many assignees resolveStepAssignees finds for a step (it falls back *)
(* to an administrator), and whether the step has escalation hours and an  *)
(* escalation user.                                                        *)
ASSUME StepsAssumption ==
  /\ Steps # <<>>
  /\ Steps \in Seq([mode : Modes, assignees : Nat \ {0}, escalates : BOOLEAN])
ASSUME BoundAssumption == MaxHandOvers \in Nat

VARIABLES
  instance,  (* workflow_instances.status, NONE before the insert          *)
  current,   (* workflow_instances.current_step_order                      *)
  tasks,     (* workflow_tasks, in the order of their inserts              *)
  approval,  (* bills.approval_status, NONE before the bill exists         *)
  posted,    (* the bill is in the ledger                                  *)
  pc, my,    (* per handler: its next request, and what it read            *)
  handOvers  (* delegations and escalating sweeps so far                   *)

rowVars == <<instance, current, tasks>>
vars    == <<instance, current, tasks, approval, posted, pc, my, handOvers>>

StepIds      == DOMAIN Steps
Instances    == {"NONE", "PENDING", "IN_PROGRESS", "APPROVED", "REJECTED"}
TaskStatuses == {"PENDING", "APPROVED", "REJECTED", "DELEGATED", "ESCALATED", "CANCELLED"}
Tasks        == [step : StepIds, status : TaskStatuses, due : BOOLEAN]
PCs == {"idle", "lookup", "insert", "activate", "start", "approve", "review",
        "cancelStep", "advance", "move", "finish", "receive", "post", "reject",
        "rejectInstance", "cancelAll", "syncRead", "syncWrite", "delegate",
        "delegateTo", "escalate", "escalateTo"}

(* What a handler holds: the task it acts on, the step it activates and    *)
(* the tasks it has inserted for it, the instance status it read, the      *)
(* tasks still to escalate, and what follows the sync of the bill.         *)
Fresh == [task |-> 0, step |-> 0, inserted |-> 0, saw |-> "NONE", todo |-> {},
          then |-> "idle"]

Goto(h, l) == pc' = [pc EXCEPT ![h] = l]
Return(h)  == Goto(h, "idle") /\ my' = [my EXCEPT ![h] = Fresh]

TasksOf(s)     == {t \in DOMAIN tasks : tasks[t].step = s}
InStatus(T, x) == {t \in T : tasks[t].status = x}

Mark(T, x) ==
  tasks' = [t \in DOMAIN tasks |->
              IF t \in T THEN [tasks[t] EXCEPT !.status = x] ELSE tasks[t]]

InsertTask(s, due) ==
  tasks' = Append(tasks, [step |-> s, status |-> "PENDING", due |-> due])

Init ==
  /\ instance = "NONE" /\ current = 1 /\ tasks = <<>>
  /\ approval = "NONE" /\ posted = FALSE
  /\ pc = [h \in Handlers |-> "idle"] /\ my = [h \in Handlers |-> Fresh]
  /\ handOvers = 0

-----------------------------------------------------------------------------
(* submitWorkflow and activateStep.                                        *)

(* The bills route inserts the bill and starts its workflow; a user may    *)
(* submit an existing bill.                                                *)
Submit(h) ==
  /\ pc[h] = "idle"
  /\ approval' = IF approval = "NONE" THEN "PENDING" ELSE approval
  /\ Goto(h, "lookup")
  /\ UNCHANGED <<rowVars, posted, my, handOvers>>

(* An instance that was not rejected is returned as it is.                 *)
Lookup(h) ==
  /\ pc[h] = "lookup"
  /\ Goto(h, IF instance \in {"NONE", "REJECTED"} THEN "insert" ELSE "idle")
  /\ UNCHANGED <<rowVars, approval, posted, my, handOvers>>

(* The table has one instance per document: the insert for a bill whose    *)
(* instance was rejected is refused, and the request fails.                *)
Insert(h) ==
  /\ pc[h] = "insert"
  /\ \/ /\ instance = "NONE"
        /\ instance' = "PENDING" /\ current' = 1
        /\ Goto(h, "activate")
        /\ my' = [my EXCEPT ![h].step = 1]
     \/ instance # "NONE" /\ Return(h) /\ UNCHANGED <<instance, current>>
  /\ UNCHANGED <<tasks, approval, posted, handOvers>>

(* A sequential step has a task for its first assignee only.               *)
Wanted(s) == IF Steps[s].mode = "SEQUENTIAL" THEN 1 ELSE Steps[s].assignees

(* One insert per assignee; the step is announced after the last.          *)
Activate(h) ==
  LET s == my[h].step IN
  /\ pc[h] = "activate"
  /\ InsertTask(s, Steps[s].escalates)
  /\ my' = [my EXCEPT ![h].inserted = @ + 1]
  /\ Goto(h, IF my[h].inserted + 1 < Wanted(s) THEN "activate" ELSE "start")
  /\ UNCHANGED <<instance, current, approval, posted, handOvers>>

(* The instance becomes IN_PROGRESS whatever it is by now.  A submission   *)
(* ends here; an approval goes on to the bill.                             *)
Start(h) ==
  /\ pc[h] = "start"
  /\ instance' = "IN_PROGRESS" /\ current' = my[h].step
  /\ (my[h].task = 0 /\ Return(h)) \/ (my[h].task # 0 /\ Goto(h, "syncRead") /\ UNCHANGED my)
  /\ UNCHANGED <<tasks, approval, posted, handOvers>>

-----------------------------------------------------------------------------
(* approveWorkflowTask and advanceWorkflow.                                *)

(* The assignee's request finds the task PENDING.                          *)
Approve(h, t) ==
  /\ pc[h] = "idle" /\ tasks[t].status = "PENDING"
  /\ my' = [my EXCEPT ![h].task = t]
  /\ Goto(h, "approve")
  /\ UNCHANGED <<rowVars, approval, posted, handOvers>>

ApproveTask(h) ==
  /\ pc[h] = "approve"
  /\ Mark({my[h].task}, "APPROVED")
  /\ Goto(h, "review")
  /\ UNCHANGED <<instance, current, approval, posted, my, handOvers>>

(* Mutants: any step completes on its first approval; every step needs all *)
(* of its tasks approved.                                                  *)
IsStepComplete_First(s) == InStatus(TasksOf(s), "APPROVED") # {}

IsStepComplete_Whole(s) ==
  InStatus(TasksOf(s), "APPROVED") = TasksOf(s)

(* A delegated or escalated task is not approved: it holds an ALL step     *)
(* open for ever.                                                          *)
IsStepComplete(s) ==
  LET approved == InStatus(TasksOf(s), "APPROVED") IN
  /\ approved # {}
  /\ Steps[s].mode = "SEQUENTIAL" => InStatus(TasksOf(s), "PENDING") = {}
  /\ Steps[s].mode = "ALL" => approved = TasksOf(s)

Review(h) ==
  /\ pc[h] = "review"
  /\ Goto(h, IF IsStepComplete(tasks[my[h].task].step) THEN "cancelStep" ELSE "syncRead")
  /\ UNCHANGED <<rowVars, approval, posted, my, handOvers>>

CancelStep(h) ==
  /\ pc[h] = "cancelStep"
  /\ Mark(InStatus(TasksOf(tasks[my[h].task].step), "PENDING"), "CANCELLED")
  /\ Goto(h, "advance")
  /\ UNCHANGED <<instance, current, approval, posted, my, handOvers>>

(* Mutant: the end of the template is not noticed.                         *)
Advance_NoEnd(h) ==
  /\ pc[h] = "advance"
  /\ my' = [my EXCEPT ![h].step = current + 1, ![h].inserted = 0]
  /\ Goto(h, "move")
  /\ UNCHANGED <<rowVars, approval, posted, handOvers>>

(* The instance is read again: the next step is the one after the step it  *)
(* names now, not the one after the step just completed.                   *)
Advance(h) ==
  /\ pc[h] = "advance"
  /\ my' = [my EXCEPT ![h].step = current + 1, ![h].inserted = 0]
  /\ Goto(h, IF current + 1 \in StepIds THEN "move" ELSE "finish")
  /\ UNCHANGED <<rowVars, approval, posted, handOvers>>

Move(h) ==
  /\ pc[h] = "move"
  /\ current' = my[h].step
  /\ Goto(h, "activate")
  /\ UNCHANGED <<instance, tasks, approval, posted, my, handOvers>>

Finish(h) ==
  /\ pc[h] = "finish"
  /\ instance' = "APPROVED"
  /\ my' = [my EXCEPT ![h].then = "receive"]
  /\ Goto(h, "syncRead")
  /\ UNCHANGED <<current, tasks, approval, posted, handOvers>>

(* onWorkflowApproved, after its sync: the bill is RECEIVED and posted.    *)
Receive(h) ==
  /\ pc[h] = "receive"
  /\ approval' = "APPROVED"
  /\ Goto(h, "post")
  /\ UNCHANGED <<rowVars, posted, my, handOvers>>

(* postBillToLedger posts a bill once; it fails when its period is closed, *)
(* and with it the request.                                                *)
Post(h) ==
  /\ pc[h] = "post"
  /\ \/ /\ posted' = TRUE
        /\ Goto(h, "syncRead")
        /\ my' = [my EXCEPT ![h].then = "idle"]
     \/ UNCHANGED posted /\ Return(h)
  /\ UNCHANGED <<rowVars, approval, handOvers>>

-----------------------------------------------------------------------------
(* syncDocumentApprovalStatus: a read and a write.                         *)

SyncRead(h) ==
  /\ pc[h] = "syncRead"
  /\ my' = [my EXCEPT ![h].saw = instance]
  /\ Goto(h, "syncWrite")
  /\ UNCHANGED <<rowVars, approval, posted, handOvers>>

(* Mutant: only an approval reaches the bill.                              *)
Shown_ApprovedOnly(s) == IF s = "APPROVED" THEN s ELSE "PENDING"

Shown(s) == IF s \in {"APPROVED", "REJECTED"} THEN s ELSE "PENDING"

SyncWrite(h) ==
  /\ pc[h] = "syncWrite"
  /\ approval' = Shown(my[h].saw)
  /\ (my[h].then = "idle" /\ Return(h)) \/ (my[h].then # "idle" /\ Goto(h, my[h].then) /\ UNCHANGED my)
  /\ UNCHANGED <<rowVars, posted, handOvers>>

-----------------------------------------------------------------------------
(* rejectWorkflowTask: the status of the task is not looked at.            *)

Reject(h, t) ==
  /\ pc[h] = "idle"
  /\ my' = [my EXCEPT ![h].task = t]
  /\ Goto(h, "reject")
  /\ UNCHANGED <<rowVars, approval, posted, handOvers>>

RejectTask(h) ==
  /\ pc[h] = "reject"
  /\ Mark({my[h].task}, "REJECTED")
  /\ Goto(h, "rejectInstance")
  /\ UNCHANGED <<instance, current, approval, posted, my, handOvers>>

RejectInstance(h) ==
  /\ pc[h] = "rejectInstance"
  /\ instance' = "REJECTED"
  /\ Goto(h, "cancelAll")
  /\ UNCHANGED <<current, tasks, approval, posted, my, handOvers>>

CancelAll(h) ==
  /\ pc[h] = "cancelAll"
  /\ Mark(InStatus(DOMAIN tasks, "PENDING"), "CANCELLED")
  /\ Goto(h, "syncRead")
  /\ UNCHANGED <<instance, current, approval, posted, my, handOvers>>

-----------------------------------------------------------------------------
(* Tasks that change hands.                                                *)

(* delegateWorkflowTask: the task is closed and a new one inserted.        *)
Delegate(h, t) ==
  /\ pc[h] = "idle" /\ tasks[t].status = "PENDING"
  /\ handOvers < MaxHandOvers /\ handOvers' = handOvers + 1
  /\ my' = [my EXCEPT ![h].task = t]
  /\ Goto(h, "delegate")
  /\ UNCHANGED <<rowVars, approval, posted>>

DelegateTask(h) ==
  /\ pc[h] = "delegate"
  /\ Mark({my[h].task}, "DELEGATED")
  /\ Goto(h, "delegateTo")
  /\ UNCHANGED <<instance, current, approval, posted, my, handOvers>>

DelegateTo(h) ==
  /\ pc[h] = "delegateTo"
  /\ InsertTask(tasks[my[h].task].step, tasks[my[h].task].due)
  /\ Return(h)
  /\ UNCHANGED <<instance, current, approval, posted, handOvers>>

(* processWorkflowEscalationsAndReminders, on every look at the dashboard  *)
(* and as a job: the pending tasks are read once, those overdue are        *)
(* escalated one by one.  The model leaves open when a task is overdue.    *)
Escalate(h) ==
  /\ pc[h] = "idle" /\ handOvers < MaxHandOvers /\ handOvers' = handOvers + 1
  /\ \E overdue \in SUBSET {t \in InStatus(DOMAIN tasks, "PENDING") : tasks[t].due} \ {{}} :
        my' = [my EXCEPT ![h].todo = overdue]
  /\ Goto(h, "escalate")
  /\ UNCHANGED <<rowVars, approval, posted>>

EscalateTask(h) ==
  /\ pc[h] = "escalate"
  /\ \E t \in my[h].todo :
        /\ Mark({t}, "ESCALATED")
        /\ my' = [my EXCEPT ![h].task = t, ![h].todo = @ \ {t}]
  /\ Goto(h, "escalateTo")
  /\ UNCHANGED <<instance, current, approval, posted, handOvers>>

(* The escalated copy has no due date.                                     *)
EscalateTo(h) ==
  /\ pc[h] = "escalateTo"
  /\ InsertTask(tasks[my[h].task].step, FALSE)
  /\ (my[h].todo = {} /\ Return(h)) \/ (my[h].todo # {} /\ Goto(h, "escalate") /\ UNCHANGED my)
  /\ UNCHANGED <<instance, current, approval, posted, handOvers>>

-----------------------------------------------------------------------------
Continue(h) ==
  \/ Lookup(h) \/ Insert(h) \/ Activate(h) \/ Start(h)
  \/ ApproveTask(h) \/ Review(h) \/ CancelStep(h) \/ Advance(h) \/ Move(h)
  \/ Finish(h) \/ Receive(h) \/ Post(h) \/ SyncRead(h) \/ SyncWrite(h)
  \/ RejectTask(h) \/ RejectInstance(h) \/ CancelAll(h)
  \/ DelegateTask(h) \/ DelegateTo(h) \/ EscalateTask(h) \/ EscalateTo(h)

Request(h) ==
  \/ Submit(h) \/ Escalate(h)
  \/ \E t \in DOMAIN tasks : Approve(h, t) \/ Reject(h, t) \/ Delegate(h, t)

Next == \E h \in Handlers : Request(h) \/ Continue(h)

Spec == Init /\ [][Next]_vars

(* A request under way runs to its end; assignees who keep finding a task  *)
(* in their list approve one in the end.                                   *)
SomeoneApproves == \E h \in Handlers, t \in DOMAIN tasks : Approve(h, t)

FairSpec ==
  /\ Spec
  /\ \A h \in Handlers : WF_vars(Continue(h))
  /\ SF_vars(SomeoneApproves)

-----------------------------------------------------------------------------
TypeOK ==
  /\ instance \in Instances /\ current \in StepIds
  /\ tasks \in Seq(Tasks)
  /\ approval \in {"NONE", "PENDING", "APPROVED", "REJECTED"} /\ posted \in BOOLEAN
  /\ pc \in [Handlers -> PCs]
  /\ \A h \in Handlers :
       /\ my[h].task \in 0..Len(tasks) /\ my[h].todo \subseteq DOMAIN tasks
       /\ my[h].step \in 0..Len(Steps) + 1 /\ my[h].inserted \in Nat
       /\ my[h].saw \in Instances /\ my[h].then \in {"idle", "receive"}
  /\ handOvers \in 0..MaxHandOvers

(* A step is signed when its policy is met by the assignees it was given:  *)
(* one approval, or for ALL the approval of each of them.                  *)
Signed(s) ==
  LET approved == InStatus(TasksOf(s), "APPROVED") IN
  /\ approved # {}
  /\ Steps[s].mode = "ALL" =>
       approved = TasksOf(s) /\ Cardinality(approved) >= Steps[s].assignees

(* The engine approves a document only when every step of its template is  *)
(* signed (isStepComplete: "parallel ALL requires every task approved").   *)
(* And a rejected document stays rejected: no task of it is left to        *)
(* approve, and the one instance a document may have is not replaced.      *)
DecisionsStand ==
  [][/\ instance # "APPROVED" /\ instance' = "APPROVED" => \A s \in StepIds : Signed(s)
     /\ instance = "REJECTED" => instance' = "REJECTED"]_vars

Quiet == \A h \in Handlers : pc[h] = "idle"

(* Between requests the three tables agree, though each request writes     *)
(* them one at a time: only the step the instance names has open tasks,    *)
(* and only while the instance is in progress, and the bill shows the      *)
(* decision of its workflow.                                               *)
RowsAgree ==
  Quiet /\ instance # "NONE" =>
    /\ \A t \in InStatus(DOMAIN tasks, "PENDING") :
         instance = "IN_PROGRESS" /\ tasks[t].step = current
    /\ approval = IF instance \in {"APPROVED", "REJECTED"} THEN instance ELSE "PENDING"

(* An open document is decided, if assignees act: unless a task of an ALL  *)
(* step changed hands, which isStepComplete counts as unapproved for ever. *)
HandedOnUnderAll ==
  \E t \in DOMAIN tasks : /\ Steps[tasks[t].step].mode = "ALL"
                          /\ tasks[t].status \in {"DELEGATED", "ESCALATED"}
Decided ==
  instance = "IN_PROGRESS" ~> instance \in {"APPROVED", "REJECTED"} \/ HandedOnUnderAll
=============================================================================
