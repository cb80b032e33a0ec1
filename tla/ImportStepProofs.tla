-------------------------- MODULE ImportStepProofs --------------------------
(* TLAPS proofs about ImportStep, for every source, every set of workers   *)
(* and every bound.                                                        *)
EXTENDS ImportStep, FiniteSetTheorems, TLAPS

-----------------------------------------------------------------------------
(* Counting rows.                                                          *)

LEMMA SizeType == SizeOf \in [0..NPages + 1 -> Nat]
BY SourceAssumption DEF SizeOf, Pages

LEMMA RowsFinite == IsFiniteSet(Rows)
<1> DEFINE T == {RowsOf(p) : p \in Pages}
           f == [p \in Pages |-> RowsOf(p)]
<1>1. IsFiniteSet(Pages)
  BY FS_Interval, SourceAssumption DEF Pages
<1>2. f \in Surjection(Pages, T)
  BY DEF Surjection
<1>3. IsFiniteSet(T)
  <2> HIDE DEF f, T
  <2> QED BY <1>1, <1>2, FS_Surjection
<1>4. \A S \in T : IsFiniteSet(S)
  <2> SUFFICES ASSUME NEW p \in Pages PROVE IsFiniteSet(RowsOf(p))
    OBVIOUS
  <2>1. p \in 0..NPages + 1
    BY SourceAssumption DEF Pages
  <2>2. SizeOf[p] \in Nat
    BY <2>1, SizeType
  <2>3. IsFiniteSet({p})
    BY FS_Singleton
  <2>4. IsFiniteSet(1..SizeOf[p])
    BY <2>2, FS_Interval
  <2> QED BY <2>3, <2>4, FS_Product DEF RowsOf
<1>5. IsFiniteSet(UNION T)
  <2> HIDE DEF T
  <2> QED BY <1>3, <1>4, FS_UNION
<1> QED BY <1>5 DEF Rows

LEMMA FetchedType == Fetched \in [0..NPages + 1 -> Nat]
<1> SUFFICES ASSUME NEW p \in 0..NPages + 1
             PROVE  Cardinality({r \in Rows : r[1] <= p}) \in Nat
  BY DEF Fetched
<1> DEFINE S == {r \in Rows : r[1] <= p}
<1>1. S \in SUBSET Rows
  OBVIOUS
<1>2. IsFiniteSet(S)
  BY <1>1, RowsFinite, FS_Subset
<1> QED BY <1>2, FS_CardinalityType

LEMMA RowOfPage ==
  ASSUME NEW p \in 0..NPages + 1, NEW i \in Nat \ {0}, i <= SizeOf[p]
  PROVE  <<p, i>> \in Rows /\ p \in Pages /\ i \in 1..SizeOf[p]
<1>1. SizeOf[p] \in Nat
  BY SizeType
<1>2. p \in Pages
  BY <1>1 DEF SizeOf
<1>3. i \in 1..SizeOf[p]
  BY <1>1
<1> QED BY <1>2, <1>3 DEF Rows, RowsOf

-----------------------------------------------------------------------------
(* The writes of import-job.service.ts keep the import job's types.        *)

NumbersOK == status \in Statuses /\ processed \in Nat /\ counted \in Nat /\ total \in Nat

LEMMA SetStatusType ==
  ASSUME NumbersOK, NEW to \in Statuses, SetStatus(to) PROVE NumbersOK'
BY DEF NumbersOK, SetStatus

LEMMA ProgressType ==
  ASSUME NumbersOK, NEW p \in Nat, NEW c \in Nat, NEW t \in Nat, WriteProgress(p, c, t)
  PROVE  NumbersOK'
<1>1. CASE status = "completed" BY <1>1 DEF NumbersOK, WriteProgress, jobVars
<1>2. CASE status # "completed"
  <2>1. counted' \in Nat
    BY <1>2 DEF NumbersOK, WriteProgress, Greatest
  <2>2. processed' \in Nat
    BY <1>2, <2>1 DEF NumbersOK, WriteProgress, Greatest
  <2>3. total' \in Nat
    BY <1>2, <2>2 DEF NumbersOK, WriteProgress, Greatest
  <2> QED BY <1>2, <2>1, <2>2, <2>3 DEF NumbersOK, WriteProgress
<1> QED BY <1>1, <1>2

LEMMA FinalizeType ==
  ASSUME NumbersOK, NEW to \in Statuses, NEW c \in Nat, NEW t \in Nat, Finalize(to, c, t)
  PROVE  NumbersOK'
BY DEF NumbersOK, Finalize, jobVars

-----------------------------------------------------------------------------
(* Types.  A worker about to write a row is inside its page.               *)

WriteOK == \A w \in Workers : pc[w] = "write" => my[w].row <= SizeOf[my[w].page]

TypeInv == TypeOK /\ WriteOK

LEMMA WorkerNumbers ==
  ASSUME TypeOK, NEW w \in Workers
  PROVE  /\ Counted(w) \in Nat /\ my[w].page \in 0..NPages + 1
         /\ my[w].processed \in Nat /\ my[w].total \in Nat /\ my[w].row \in Nat \ {0}
         /\ Fetched[my[w].page] \in Nat /\ SizeOf[my[w].page] \in Nat
<1>1. my[w] \in Memory
  BY DEF TypeOK, WorkersOK
<1>2. /\ my[w].page \in 0..NPages + 1 /\ my[w].row \in Nat \ {0}
      /\ my[w].processed \in Nat /\ my[w].counted \in Nat /\ my[w].total \in Nat
  BY <1>1 DEF Memory
<1>3. Counted(w) \in Nat
  <2>1. my[w].counted \in Nat /\ my[w].row \in Nat /\ my[w].row >= 1
    BY <1>2
  <2> QED BY <2>1 DEF Counted
<1>4. Fetched[my[w].page] \in Nat /\ SizeOf[my[w].page] \in Nat
  BY <1>2, FetchedType, SizeType
<1> QED BY <1>2, <1>3, <1>4

LEMMA FreshType == Fresh \in Memory
BY SourceAssumption DEF Fresh, Memory, Plans, Ends

LEMMA InitType == Init => TypeInv
<1> SUFFICES ASSUME Init PROVE TypeInv
  OBVIOUS
<1> USE SourceAssumption DEF Init
<1>1. JobOK BY DEF JobOK, Statuses
<1>2. QueueOK BY DEF QueueOK
<1>3. WorkersOK BY FreshType DEF WorkersOK, PCs
<1>4. EnvironmentOK BY DEF EnvironmentOK
<1>5. WriteOK BY DEF WriteOK
<1> QED BY <1>1, <1>2, <1>3, <1>4, <1>5 DEF TypeInv, TypeOK
-----------------------------------------------------------------------------
(* Each worker step, by what it does to the import job and its rows.       *)

LEMMA WorkerReads ==
  ASSUME NEW w \in Workers,
         Claim(w) \/ Abandon(w) \/ Open(w) \/ Load(w) \/ RowGuard(w) \/ Decide(w)
           \/ Check(w) \/ Verify(w) \/ Settle(w) \/ Complete(w) \/ Hook(w) \/ Error(w)
           \/ Requeue(w) \/ Fails(w) \/ Crash(w)
  PROVE  UNCHANGED <<jobVars, dataVars>>
BY DEF Claim, Abandon, Open, Load, RowGuard, Decide, Check, Verify, Settle, Complete,
       Hook, Error, Requeue, Fails, Crash

LEMMA WorkerJobWrites ==
  ASSUME TypeOK, NEW w \in Workers,
         Mark(w) \/ Progress(w) \/ Tally(w) \/ Finish(w) \/ Yield(w) \/ FailImport(w)
  PROVE  NumbersOK' /\ UNCHANGED dataVars
<1>1. NumbersOK
  BY DEF TypeOK, JobOK, NumbersOK
<1> USE WorkerNumbers
<1>2. CASE Mark(w)
  BY <1>1, <1>2, SetStatusType DEF Mark, Statuses
<1>3. CASE Progress(w)
  <2> DEFINE proc == my[w].processed + SizeOf[my[w].page]
             tot == Greatest(Greatest(Fetched[my[w].page], my[w].total), proc)
  <2>1. proc \in Nat /\ tot \in Nat
    BY DEF Greatest
  <2>2. WriteProgress(proc, Counted(w), tot) /\ UNCHANGED dataVars
    BY <1>3 DEF Progress
  <2> HIDE DEF proc, tot
  <2> QED BY <1>1, <2>1, <2>2, ProgressType
<1>4. CASE Tally(w)
  <2> DEFINE f == Fetched[my[w].page]
             tot == IF my[w].plan = "next" THEN Greatest(my[w].total, f + 1) ELSE f
  <2>1. f \in Nat /\ tot \in Nat
    BY DEF Greatest
  <2>2. WriteProgress(f, Counted(w), tot) /\ UNCHANGED dataVars
    BY <1>4 DEF Tally
  <2> HIDE DEF f, tot
  <2> QED BY <1>1, <2>1, <2>2, ProgressType
<1>5. CASE Finish(w)
  <2> DEFINE tot == IF my[w].page = 0 THEN my[w].total ELSE Fetched[my[w].page]
  <2>1. tot \in Nat
    OBVIOUS
  <2>2. UNCHANGED dataVars /\ \E to \in {"cancelled", "completed", "failed"} :
          Finalize(to, Counted(w), tot)
    BY <1>5 DEF Finish
  <2> HIDE DEF tot
  <2> QED BY <1>1, <2>1, <2>2, FinalizeType DEF Statuses
<1>6. CASE Yield(w)
  BY <1>1, <1>6, SetStatusType DEF Yield, Statuses
<1>7. CASE FailImport(w)
  <2>1. counted \in Nat /\ total \in Nat
    BY <1>1 DEF NumbersOK
  <2>2. CASE Finalize("failed", counted, total)
    BY <1>1, <1>7, <2>1, <2>2, FinalizeType DEF FailImport, Statuses
  <2>3. CASE UNCHANGED jobVars
    BY <1>1, <1>7, <2>3 DEF FailImport, NumbersOK, jobVars
  <2> QED BY <1>7, <2>2, <2>3 DEF FailImport
<1> QED BY <1>2, <1>3, <1>4, <1>5, <1>6, <1>7

(* What users, the clock and the sweep do to it.                           *)
LEMMA OutsideQuiet ==
  ASSUME ExpireAbandoned \/ ExpireHeld \/ Sweep \/ Run \/ EnqueueAsked \/ CancelSession
  PROVE  UNCHANGED <<jobVars, dataVars, workerVars>>
BY DEF ExpireAbandoned, ExpireHeld, Sweep, SweepRead, SweepInsert, Run, Request,
       EnqueueAsked, CancelSession

LEMMA OutsideWrites ==
  ASSUME TypeOK,
         Pause \/ Resume \/ Retry \/ Cancel \/ RecoverStaleJob \/ Withdraw
  PROVE  NumbersOK' /\ UNCHANGED <<dataVars, workerVars>>
<1>1. NumbersOK /\ counted \in Nat /\ total \in Nat
  BY DEF TypeOK, JobOK, NumbersOK
<1>2. CASE Pause
  BY <1>1, <1>2, SetStatusType DEF Pause, Request, Statuses
<1>3. CASE Resume
  BY <1>1, <1>3, SetStatusType DEF Resume, Request, Statuses
<1>4. CASE Retry
  BY <1>1, <1>4 DEF Retry, Request, NumbersOK, Statuses
<1>5. CASE Cancel
  BY <1>1, <1>5, FinalizeType DEF Cancel, Request, Statuses
<1>6. CASE RecoverStaleJob
  BY <1>1, <1>6 DEF RecoverStaleJob, Request, NumbersOK, Statuses
<1>7. CASE Withdraw
  <2>1. CASE Finalize("cancelled", counted, total)
    BY <1>1, <1>7, <2>1, FinalizeType DEF Withdraw, Statuses
  <2>2. CASE UNCHANGED jobVars
    BY <1>1, <1>7, <2>2 DEF Withdraw, NumbersOK, jobVars
  <2> QED BY <1>7, <2>1, <2>2 DEF Withdraw
<1> QED BY <1>2, <1>3, <1>4, <1>5, <1>6, <1>7

LEMMA StepJobType == TypeInv /\ [Next]_vars => JobOK'
<1> SUFFICES ASSUME TypeInv, [Next]_vars PROVE JobOK'
  OBVIOUS
<1>1. TypeOK /\ JobOK /\ NumbersOK
  BY DEF TypeInv, TypeOK, JobOK, NumbersOK
<1>2. ASSUME UNCHANGED <<jobVars, dataVars>> PROVE JobOK'
  BY <1>1, <1>2 DEF JobOK, jobVars, dataVars
<1>3. ASSUME NumbersOK', UNCHANGED dataVars PROVE JobOK'
  BY <1>1, <1>3 DEF JobOK, NumbersOK, dataVars
<1>4. ASSUME NEW w \in Workers, RowWrite(w) PROVE JobOK'
  <2> DEFINE r == <<my[w].page, my[w].row>>
  <2>1. r \in Rows
    <3>1. my[w].row <= SizeOf[my[w].page]
      BY <1>4 DEF RowWrite, TypeInv, WriteOK
    <3> QED BY <1>1, <3>1, WorkerNumbers, RowOfPage
  <2>2. handled' = handled \cup {r} /\ UNCHANGED <<jobVars, cursor>>
    BY <1>4 DEF RowWrite
  <2>3. made' \in [Rows -> Nat]
    <3>1. made' = made \/ made' = [made EXCEPT ![r] = made[r] + 1]
      BY <1>4 DEF RowWrite
    <3> QED BY <1>1, <2>1, <3>1 DEF JobOK
  <2> HIDE DEF r
  <2> QED BY <1>1, <2>1, <2>2, <2>3 DEF JobOK, jobVars
<1>5. ASSUME NEW w \in Workers, Commit(w) PROVE JobOK'
  <2>1. my[w].page \in 0..NPages + 1 /\ cursor \in 1..NPages + 1
    BY <1>1, WorkerNumbers DEF JobOK
  <2>2. cursor' = (IF my[w].page > NPages THEN cursor ELSE my[w].page + 1)
        /\ UNCHANGED <<jobVars, handled, made>>
    BY <1>5 DEF Commit
  <2>3. cursor' \in 1..NPages + 1
    BY <2>1, <2>2, SourceAssumption
  <2> QED BY <1>1, <2>2, <2>3 DEF JobOK, jobVars
<1>6. ASSUME NEW w \in Workers, Advance(w) PROVE JobOK'
  BY <1>1, <1>2, <1>3, <1>4, <1>5, <1>6, WorkerReads, WorkerJobWrites DEF Advance
<1>7. ASSUME NEW w \in Workers, Fails(w) \/ Crash(w) PROVE JobOK'
  BY <1>2, <1>7, WorkerReads
<1>8. ASSUME UserNext \/ ExpireAbandoned \/ ExpireHeld \/ Sweep PROVE JobOK'
  BY <1>1, <1>2, <1>3, <1>8, OutsideQuiet, OutsideWrites DEF UserNext
<1>9. CASE UNCHANGED vars
  BY <1>2, <1>9 DEF vars, jobVars, dataVars
<1> QED BY <1>6, <1>7, <1>8, <1>9 DEF Next

(* The queue row is RUNNING whenever somebody owns it.                     *)
LEMMA StepQueueType == TypeInv /\ [Next]_vars => QueueOK'
<1> SUFFICES ASSUME QueueOK, [Next]_vars PROVE QueueOK'
  BY DEF TypeInv, TypeOK
<1> USE DEF QueueOK
<1>1. ASSUME UNCHANGED queueVars PROVE QueueOK'
  BY <1>1 DEF queueVars
<1>2. ASSUME EnqueueOnce PROVE QueueOK'
  BY <1>2 DEF EnqueueOnce, queueVars
<1>3. ASSUME NEW w \in Workers, Drop(w) PROVE QueueOK'
  BY <1>3 DEF Drop
<1>4. ASSUME NEW w \in Workers, Advance(w) \/ Fails(w) \/ Crash(w) PROVE QueueOK'
  <2>1. CASE Claim(w) BY <2>1 DEF Claim
  <2>2. CASE Complete(w) BY <1>1, <2>2 DEF Complete, CompleteRow
  <2>3. CASE Hook(w) BY <1>2, <1>3, <2>3 DEF Hook
  <2>4. CASE Requeue(w) BY <1>1, <2>4 DEF Requeue
  <2>5. CASE Crash(w) BY <1>3, <2>5 DEF Crash
  <2>6. CASE Abandon(w) \/ Open(w) \/ Mark(w) \/ Load(w) \/ RowGuard(w) \/ RowWrite(w)
               \/ Progress(w) \/ Decide(w) \/ Commit(w) \/ Tally(w)
    BY <1>1, <2>6 DEF Abandon, Open, Mark, Load, RowGuard, RowWrite, Progress, Decide,
       Commit, Tally
  <2>7. CASE Check(w) \/ Verify(w) \/ Finish(w) \/ Yield(w) \/ Settle(w) \/ Error(w)
               \/ FailImport(w) \/ Fails(w)
    BY <1>1, <2>7 DEF Check, Verify, Finish, Yield, Settle, Error, FailImport, Fails
  <2> QED BY <1>4, <2>1, <2>2, <2>3, <2>4, <2>5, <2>6, <2>7 DEF Advance
<1>5. CASE ExpireAbandoned BY <1>5 DEF ExpireAbandoned
<1>6. CASE ExpireHeld BY <1>6 DEF ExpireHeld
<1>7. CASE Sweep BY <1>1, <1>2, <1>7 DEF Sweep, SweepRead, SweepInsert
<1>8. CASE Pause \/ Resume \/ Retry \/ Cancel \/ RecoverStaleJob \/ CancelSession
  BY <1>1, <1>8 DEF Pause, Resume, Retry, Cancel, RecoverStaleJob, CancelSession, queueVars
<1>9. CASE Run \/ EnqueueAsked BY <1>2, <1>9 DEF Run, EnqueueAsked
<1>10. CASE Withdraw BY <1>1, <1>10 DEF Withdraw
<1>11. CASE UNCHANGED vars BY <1>1, <1>11 DEF vars, queueVars
<1> QED BY <1>4, <1>5, <1>6, <1>7, <1>8, <1>9, <1>10, <1>11 DEF Next, UserNext

(* A worker's step as it looks from outside: its next request and what it  *)
(* remembers.                                                              *)
Moves(w, l, m) == pc' = [pc EXCEPT ![w] = l] /\ my' = [my EXCEPT ![w] = m]

LEMMA MoveType ==
  ASSUME TypeInv, NEW w \in Workers, NEW l \in PCs, NEW m \in Memory, Moves(w, l, m),
         l = "write" => m.row <= SizeOf[m.page]
  PROVE  WorkersOK' /\ WriteOK'
<1>1. WorkersOK /\ WriteOK
  BY DEF TypeInv, TypeOK
<1>2. WorkersOK'
  BY <1>1 DEF WorkersOK, Moves
<1>3. WriteOK'
  <2> SUFFICES ASSUME NEW v \in Workers, pc'[v] = "write"
               PROVE  my'[v].row <= SizeOf[my'[v].page]
    BY DEF WriteOK
  <2>1. CASE v = w
    BY <1>1, <2>1 DEF WorkersOK, Moves
  <2>2. CASE v # w
    BY <1>1, <2>2 DEF WorkersOK, WriteOK, Moves
  <2> QED BY <2>1, <2>2
<1> QED BY <1>2, <1>3

LEMMA MemoryOf ==
  ASSUME TypeOK, NEW w \in Workers
  PROVE  my[w] \in Memory /\ [my EXCEPT ![w] = my[w]] = my
BY DEF TypeOK, WorkersOK

(* Moving on with the same memory, letting go, ending the run.             *)
LEMMA GotoMoves ==
  ASSUME TypeOK, NEW w \in Workers, NEW l, Goto(w, l), UNCHANGED my
  PROVE  Moves(w, l, my[w])
BY MemoryOf DEF Moves, Goto

LEMMA ReleaseMoves ==
  ASSUME NEW w \in Workers, Release(w) PROVE Moves(w, "idle", Fresh)
BY DEF Moves, Release, Goto

LEMMA EndMoves ==
  ASSUME TypeOK, NEW w \in Workers, NEW end \in Ends, EndWith(w, end)
  PROVE  \E m \in Memory : Moves(w, "settle", m) /\ m = [my[w] EXCEPT !.end = end]
<1>1. [my[w] EXCEPT !.end = end] \in Memory
  BY MemoryOf DEF Memory
<1> QED BY <1>1 DEF Moves, EndWith, Goto

LEMMA WorkerMoves ==
  ASSUME TypeInv, NEW w \in Workers, Advance(w) \/ Fails(w) \/ Crash(w)
  PROVE  \E l \in PCs, m \in Memory :
           Moves(w, l, m) /\ (l = "write" => m.row <= SizeOf[m.page])
<1>1. TypeOK /\ my[w] \in Memory /\ Fresh \in Memory
  BY MemoryOf, FreshType DEF TypeInv
<1> DEFINE Good(l, m) == /\ l \in PCs /\ m \in Memory /\ Moves(w, l, m)
                         /\ l = "write" => m.row <= SizeOf[m.page]
<1> SUFFICES \E l, m : Good(l, m)
  OBVIOUS
<1>2. ASSUME NEW l \in PCs \ {"write"}, Goto(w, l), UNCHANGED my PROVE Good(l, my[w])
  BY <1>1, <1>2, GotoMoves
<1>3. ASSUME Release(w) PROVE Good("idle", Fresh)
  BY <1>1, <1>3, ReleaseMoves DEF PCs
<1>4. ASSUME NEW end \in Ends, EndWith(w, end) PROVE \E m : Good("settle", m)
  BY <1>1, <1>4, EndMoves DEF PCs, Guards
<1>5. CASE Claim(w)
  BY <1>2, <1>5 DEF Claim, PCs, Guards
<1>6. CASE Abandon(w) \/ Hook(w) \/ Requeue(w) \/ Crash(w)
  BY <1>3, <1>6 DEF Abandon, Hook, Requeue, Crash
<1>7. CASE Mark(w) \/ Progress(w) \/ Verify(w) \/ Settle(w) \/ Error(w) \/ FailImport(w)
             \/ Complete(w)
  BY <1>2, <1>7 DEF Mark, Progress, Verify, Settle, Error, FailImport, Complete, PCs,
     Guards, Guarded
<1>8. CASE Commit(w) \/ Tally(w) \/ Fails(w)
  BY <1>2, <1>8 DEF Commit, Tally, Fails, PCs, Guards, Guarded
<1>9. CASE Open(w)
  <2>1. CASE EndWith(w, "other") BY <1>4, <2>1 DEF Ends
  <2>2. CASE Goto(w, "mark") /\ UNCHANGED my BY <1>2, <2>2 DEF PCs
  <2>3. CASE /\ Goto(w, "finish")
             /\ my' = [my EXCEPT ![w].plan = "stop", ![w].counted = counted, ![w].total = total]
    <3> DEFINE m == [my[w] EXCEPT !.plan = "stop", !.counted = counted, !.total = total]
    <3>1. m \in Memory
      BY <1>1 DEF Memory, Plans, TypeOK, JobOK
    <3>2. my' = [my EXCEPT ![w] = m]
      BY <1>1, <2>3 DEF TypeOK, WorkersOK, Memory
    <3>3. Good("finish", m)
      BY <2>3, <3>1, <3>2 DEF Moves, Goto, PCs, Guarded
    <3> QED BY <3>3
  <2> QED BY <1>9, <2>1, <2>2, <2>3 DEF Open
<1>10. CASE Load(w)
  <2>1. CASE EndWith(w, "other") BY <1>4, <2>1 DEF Ends
  <2>2. CASE status \notin Terminal
    <3> DEFINE m == [Fresh EXCEPT !.page = PageToRead,
                                  !.dups = {r \in RowsOf(PageToRead) : made[r] > 0},
                                  !.processed = processed, !.counted = counted, !.total = total]
               l == IF RowsOf(PageToRead) = {} THEN "decide" ELSE "row"
    <3>1. PageToRead \in 0..NPages + 1
      BY <1>1, SourceAssumption DEF PageToRead, TypeOK, JobOK
    <3>2. RowsOf(PageToRead) \subseteq Rows
      <4>1. CASE PageToRead \in Pages BY <4>1 DEF Rows
      <4>2. CASE PageToRead \notin Pages BY <3>1, <4>2 DEF RowsOf, SizeOf
      <4> QED BY <4>1, <4>2
    <3>3. m \in Memory
      <4>1. processed \in Nat /\ counted \in Nat /\ total \in Nat
        BY <1>1 DEF TypeOK, JobOK
      <4>2. {r \in RowsOf(PageToRead) : made[r] > 0} \in SUBSET Rows
        BY <3>2
      <4> QED BY <1>1, <3>1, <4>1, <4>2 DEF Memory
    <3>4. Good(l, m)
      BY <1>10, <2>2, <3>3 DEF Load, EndWith, Moves, Goto, PCs, Guards
    <3> QED BY <3>4
  <2> QED BY <1>10, <2>1, <2>2 DEF Load
<1>11. CASE RowGuard(w)
  <2> DEFINE m == [my[w] EXCEPT !.paused = status = "paused"]
  <2>1. CASE UNCHANGED my /\ Goto(w, "progress")
    BY <1>2, <2>1 DEF PCs, Guards
  <2>2. CASE UNCHANGED my /\ Goto(w, "write") /\ my[w].row <= SizeOf[my[w].page]
    BY <1>1, <2>2, GotoMoves DEF PCs, Guarded
  <2>3. CASE /\ my' = [my EXCEPT ![w].paused = status = "paused"]
             /\ Goto(w, "progress") \/ Goto(w, "decide")
    <3>1. m \in Memory
      BY <1>1 DEF Memory
    <3>2. my' = [my EXCEPT ![w] = m]
      BY <1>1, <2>3 DEF TypeOK, WorkersOK, Memory
    <3> HIDE DEF m
    <3>3. Good("progress", m) \/ Good("decide", m)
      BY <2>3, <3>1, <3>2 DEF Moves, Goto, PCs, Guards
    <3> QED BY <3>3
  <2>4. \/ UNCHANGED my /\ Goto(w, "progress")
        \/ UNCHANGED my /\ Goto(w, "write") /\ my[w].row <= SizeOf[my[w].page]
        \/ /\ my' = [my EXCEPT ![w].paused = status = "paused"]
           /\ Goto(w, "progress") \/ Goto(w, "decide")
    BY <1>11, Zenon DEF RowGuard
  <2> QED BY <2>1, <2>2, <2>3, <2>4
<1>12. CASE RowWrite(w)
  <2> DEFINE m == [my[w] EXCEPT !.row = my[w].row + 1]
             l == IF Batched /\ my[w].row < SizeOf[my[w].page] THEN "write" ELSE "row"
  <2>1. m \in Memory /\ m.page = my[w].page /\ m.row = my[w].row + 1
    BY <1>1 DEF Memory
  <2>2. my' = [my EXCEPT ![w] = m] /\ Goto(w, l)
    BY <1>1, <1>12 DEF TypeOK, WorkersOK, Memory, RowWrite
  <2>3. l = "write" => m.row <= SizeOf[m.page]
    BY <1>1, <2>1, WorkerNumbers
  <2>4. l \in PCs
    BY DEF PCs, Guards, Guarded
  <2> HIDE DEF l, m
  <2>5. Good(l, m)
    BY <2>1, <2>2, <2>3, <2>4 DEF Moves, Goto
  <2> QED BY <2>5
<1>13. CASE Decide(w)
  <2>1. CASE UNCHANGED my /\ Goto(w, "yield")
    BY <1>2, <2>1 DEF PCs, Guarded
  <2>2. ASSUME NEW p \in Plans, my' = [my EXCEPT ![w].plan = p], Goto(w, "commit")
        PROVE  \E l, m : Good(l, m)
    <3> DEFINE m == [my[w] EXCEPT !.plan = p]
    <3>1. m \in Memory
      BY <1>1 DEF Memory
    <3>2. my' = [my EXCEPT ![w] = m]
      BY <1>1, <2>2 DEF TypeOK, WorkersOK, Memory
    <3> HIDE DEF m
    <3>3. Good("commit", m)
      BY <2>2, <3>1, <3>2 DEF Moves, Goto, PCs, Guarded
    <3> QED BY <3>3
  <2>3. \/ UNCHANGED my /\ Goto(w, "yield")
        \/ \E p \in Plans : my' = [my EXCEPT ![w].plan = p] /\ Goto(w, "commit")
    BY <1>13 DEF Decide, Plans
  <2> QED BY <2>1, <2>2, <2>3
<1>14. CASE Check(w)
  <2> DEFINE m == [my[w] EXCEPT !.plan = "stop"]
  <2>1. CASE EndWith(w, "processing") BY <1>4, <2>1 DEF Ends
  <2>2. CASE Goto(w, "finish") /\ my' = [my EXCEPT ![w].plan = "stop"]
    <3>1. m \in Memory
      BY <1>1 DEF Memory, Plans
    <3>2. my' = [my EXCEPT ![w] = m]
      BY <1>1, <2>2 DEF TypeOK, WorkersOK, Memory
    <3> HIDE DEF m
    <3>3. Good("finish", m)
      BY <2>2, <3>1, <3>2 DEF Moves, Goto, PCs, Guarded
    <3> QED BY <3>3
  <2> QED BY <1>14, <2>1, <2>2 DEF Check
<1>15. CASE Finish(w) \/ Yield(w)
  BY <1>4, <1>15 DEF Finish, Yield, Ends
<1> QED
  <2> HIDE DEF Good
  <2> QED BY <1>5, <1>6, <1>7, <1>8, <1>9, <1>10, <1>11, <1>12, <1>13, <1>14, <1>15 DEF Advance

LEMMA OutsideKeepsWorkers ==
  ASSUME TypeOK, ExpireAbandoned \/ ExpireHeld \/ Sweep \/ UserNext PROVE UNCHANGED workerVars
BY OutsideQuiet, OutsideWrites DEF UserNext

LEMMA StepWorkersType == TypeInv /\ [Next]_vars => WorkersOK' /\ WriteOK'
<1> SUFFICES ASSUME TypeInv, [Next]_vars PROVE WorkersOK' /\ WriteOK'
  OBVIOUS
<1>1. ASSUME NEW w \in Workers, Advance(w) \/ Fails(w) \/ Crash(w) PROVE WorkersOK' /\ WriteOK'
  BY <1>1, WorkerMoves, MoveType
<1>2. ASSUME UNCHANGED workerVars PROVE WorkersOK' /\ WriteOK'
  BY <1>2 DEF TypeInv, TypeOK, WorkersOK, WriteOK, workerVars
<1>3. ASSUME ExpireAbandoned \/ ExpireHeld \/ Sweep \/ UserNext PROVE UNCHANGED workerVars
  BY <1>3, OutsideKeepsWorkers DEF TypeInv
<1>4. CASE UNCHANGED vars
  BY <1>2, <1>4 DEF vars, workerVars
<1> QED BY <1>1, <1>2, <1>3, <1>4 DEF Next

(* Only a commit counts pages after a cancel, only faults, crashes and     *)
(* stalls spend their budgets.                                             *)
LEMMA StepEnvironmentType == TypeInv /\ [Next]_vars => EnvironmentOK'
<1> SUFFICES ASSUME EnvironmentOK, [Next]_vars PROVE EnvironmentOK'
  BY DEF TypeInv, TypeOK
<1> USE DEF EnvironmentOK
<1>1. ASSUME UNCHANGED <<envVars, counters>> PROVE EnvironmentOK'
  BY <1>1 DEF envVars, counters
<1>2. ASSUME NEW w \in Workers, Advance(w) PROVE EnvironmentOK'
  <2>1. CASE Commit(w) BY <2>1 DEF Commit, counters
  <2>2. CASE Complete(w) BY <2>2 DEF Complete, envVars, counters
  <2>3. CASE FailImport(w) BY <2>3 DEF FailImport, envVars, counters
  <2>4. CASE Claim(w) \/ Abandon(w) \/ Open(w) \/ Mark(w) \/ Load(w) \/ RowGuard(w)
               \/ RowWrite(w) \/ Progress(w) \/ Decide(w)
    BY <1>1, <2>4 DEF Claim, Abandon, Open, Mark, Load, RowGuard, RowWrite, Progress, Decide
  <2>5. CASE Tally(w) \/ Check(w) \/ Verify(w) \/ Finish(w) \/ Yield(w) \/ Settle(w)
               \/ Hook(w) \/ Error(w) \/ Requeue(w)
    BY <1>1, <2>5 DEF Tally, Check, Verify, Finish, Yield, Settle, Hook, Error, Requeue
  <2> QED BY <1>2, <2>1, <2>2, <2>3, <2>4, <2>5 DEF Advance
<1>3. ASSUME NEW w \in Workers, Fails(w) \/ Crash(w) PROVE EnvironmentOK'
  BY <1>3 DEF Fails, Crash, envVars
<1>4. CASE ExpireAbandoned BY <1>1, <1>4 DEF ExpireAbandoned
<1>5. CASE ExpireHeld BY <1>5 DEF ExpireHeld, envVars
<1>6. CASE Sweep BY <1>6 DEF Sweep, SweepRead, SweepInsert, counters
<1>7. CASE Pause \/ Resume \/ Retry \/ Run \/ Cancel \/ RecoverStaleJob \/ CancelSession
  <2>1. ASSUME NEW kind, Request(kind), asking' \in BOOLEAN,
               session' \in {"running", "preserving", "dropping", "cancelled"}
        PROVE  EnvironmentOK'
    BY <2>1 DEF Request, counters
  <2>2. CASE Pause \/ Run \/ Cancel \/ RecoverStaleJob
    BY <2>1, <2>2 DEF Pause, Run, Cancel, RecoverStaleJob
  <2>3. CASE Resume \/ Retry
    <3>1. asking' \in BOOLEAN /\ UNCHANGED session
      BY <2>3 DEF Resume, Retry
    <3> QED BY <2>1, <2>3, <3>1 DEF Resume, Retry
  <2>4. CASE CancelSession
    BY <2>1, <2>4 DEF CancelSession
  <2> QED BY <1>7, <2>2, <2>3, <2>4
<1>8. CASE EnqueueAsked \/ Withdraw
  BY <1>8 DEF EnqueueAsked, Withdraw, counters
<1>9. CASE UNCHANGED vars BY <1>1, <1>9 DEF vars, envVars, counters
<1> QED BY <1>2, <1>3, <1>4, <1>5, <1>6, <1>7, <1>8, <1>9 DEF Next, UserNext

LEMMA StepType == TypeInv /\ [Next]_vars => TypeInv'
BY StepJobType, StepQueueType, StepWorkersType, StepEnvironmentType DEF TypeInv, TypeOK

LEMMA TypeInvariant == Spec => []TypeInv
BY InitType, StepType, PTL DEF Spec

(* Type correctness of the import job, its queue row, every worker's       *)
(* memory and the environment.  It rests on the fact that a worker about   *)
(* to write a row is inside its page.                                      *)
THEOREM ImportTypeCorrect == Spec => []TypeOK
<1>1. TypeInv => TypeOK
  BY DEF TypeInv
<1> QED BY <1>1, TypeInvariant, PTL

-----------------------------------------------------------------------------
(* A completed import stays completed: every write of the status that is   *)
(* not a retry goes through setImportJobStatus or finalizeImportJob, and   *)
(* the retry spares a completed job.                                       *)

LEMMA CompletedStep == [Next]_vars => (status = "completed" => status' = "completed")
<1> SUFFICES ASSUME [Next]_vars, status = "completed" PROVE status' = "completed"
  OBVIOUS
<1> USE DEF Terminal
<1>1. ASSUME UNCHANGED jobVars PROVE status' = "completed"
  BY <1>1 DEF jobVars
<1>2. ASSUME NEW to, SetStatus(to) PROVE status' = "completed"
  BY <1>2 DEF SetStatus
<1>3. ASSUME NEW to, NEW c, NEW t, Finalize(to, c, t) PROVE status' = "completed"
  BY <1>1, <1>3 DEF Finalize
<1>4. ASSUME NEW p, NEW c, NEW t, WriteProgress(p, c, t) PROVE status' = "completed"
  BY <1>1, <1>4 DEF WriteProgress
<1>5. ASSUME NEW w \in Workers, Advance(w) \/ Fails(w) \/ Crash(w) PROVE status' = "completed"
  <2>1. CASE Mark(w) \/ Yield(w) BY <1>2, <2>1 DEF Mark, Yield
  <2>2. CASE Progress(w) \/ Tally(w) BY <1>4, <2>2 DEF Progress, Tally
  <2>3. CASE Finish(w) \/ FailImport(w) BY <1>1, <1>3, <2>3 DEF Finish, FailImport
  <2>4. CASE RowWrite(w) \/ Commit(w) BY <1>1, <2>4 DEF RowWrite, Commit
  <2>5. ASSUME UNCHANGED <<jobVars, dataVars>> PROVE status' = "completed"
    BY <1>1, <2>5
  <2> QED BY <1>5, <2>1, <2>2, <2>3, <2>4, <2>5, WorkerReads DEF Advance
<1>6. CASE ExpireAbandoned \/ ExpireHeld \/ Sweep \/ Run \/ EnqueueAsked \/ CancelSession
  BY <1>1, <1>6, OutsideQuiet
<1>7. CASE Pause \/ Resume BY <1>2, <1>7 DEF Pause, Resume
<1>8. CASE Retry BY <1>8 DEF Retry
<1>9. CASE Cancel \/ Withdraw BY <1>1, <1>3, <1>9 DEF Cancel, Withdraw
<1>10. CASE RecoverStaleJob BY <1>10 DEF RecoverStaleJob
<1>11. CASE UNCHANGED vars BY <1>1, <1>11 DEF vars, jobVars
<1> QED BY <1>5, <1>6, <1>7, <1>8, <1>9, <1>10, <1>11 DEF Next, UserNext

(* No step of a worker, a user or the sweep takes a completed import up    *)
(* again.                                                                  *)
THEOREM CompletedImportIsFinal == Spec => CompletedIsFinal
BY CompletedStep, PTL DEF Spec, CompletedIsFinal

-----------------------------------------------------------------------------
(* Nothing is skipped.                                                     *)

(* A cancelled job is not reopened while the step that saw the cancel may  *)
(* still be running.  Without this the step commits a page it broke off.   *)
NoReopening == "retry" \in Requests => Requests \cap {"cancel", "cancelSession"} = {}

Uncancelled ==
  session = "running" /\ status # "cancelled" /\ \A w \in Workers : my[w].plan # "stop"

CancelInv == "retry" \in Requests => Uncancelled

LEMMA StatusOfReads ==
  ASSUME NEW w \in Workers,
         Advance(w) \/ Fails(w) \/ Crash(w)
  PROVE  \/ UNCHANGED status
         \/ status \notin Terminal /\ status' \in {"processing", "paused", "pending", "failed"}
         \/ /\ status \notin Terminal /\ my[w].plan = "stop"
            /\ status' = "cancelled"
         \/ /\ status \notin Terminal /\ my[w].plan = "last"
            /\ status' \in {"completed", "failed"} /\ UNCHANGED handled
<1>1. CASE Mark(w) \/ Yield(w) BY <1>1 DEF Mark, Yield, SetStatus
<1>2. CASE Progress(w) \/ Tally(w) BY <1>2 DEF Progress, Tally, WriteProgress, jobVars
<1>3. CASE FailImport(w) BY <1>3 DEF FailImport, Finalize, jobVars
<1>4. CASE Finish(w) BY <1>4 DEF Finish, Finalize, jobVars, dataVars
<1>5. CASE RowWrite(w) \/ Commit(w) BY <1>5 DEF RowWrite, Commit, jobVars
<1>6. CASE UNCHANGED <<jobVars, dataVars>> BY <1>6 DEF jobVars
<1> QED BY <1>1, <1>2, <1>3, <1>4, <1>5, <1>6, WorkerReads DEF Advance

LEMMA StatusOfOthers ==
  ASSUME ExpireAbandoned \/ ExpireHeld \/ Sweep \/ UserNext
  PROVE  \/ UNCHANGED status
         \/ status' \in {"processing", "paused", "pending", "failed"}
              /\ (status \notin Terminal \/ "retry" \in Requests)
         \/ status' = "cancelled" /\ status \notin Terminal
              /\ ("cancel" \in Requests \/ session = "dropping")
<1>1. CASE Pause \/ Resume BY <1>1 DEF Pause, Resume, SetStatus
<1>2. CASE Retry BY <1>2 DEF Retry, Request
<1>3. CASE Cancel BY <1>3 DEF Cancel, Request, Finalize, jobVars
<1>4. CASE RecoverStaleJob BY <1>4 DEF RecoverStaleJob, Terminal
<1>5. CASE Withdraw BY <1>5 DEF Withdraw, Finalize, jobVars
<1>6. CASE ExpireAbandoned \/ ExpireHeld \/ Sweep \/ Run \/ EnqueueAsked \/ CancelSession
  BY <1>6, OutsideQuiet DEF jobVars
<1> QED BY <1>1, <1>2, <1>3, <1>4, <1>5, <1>6 DEF UserNext

LEMMA PlanOfStep ==
  ASSUME TypeInv, NEW w \in Workers, Advance(w) \/ Fails(w) \/ Crash(w)
  PROVE  /\ \A v \in Workers \ {w} : my'[v] = my[v] /\ pc'[v] = pc[v]
         /\ my'[w].plan = "stop" => my[w].plan = "stop" \/ session # "running"
         /\ my'[w].plan = "last" => my[w].plan = "last" \/ Decide(w)
<1>1. PICK l \in PCs, m \in Memory : Moves(w, l, m)
  BY WorkerMoves
<1>2. my \in [Workers -> Memory] /\ pc \in [Workers -> PCs]
  BY DEF TypeInv, TypeOK, WorkersOK
<1>3. \A v \in Workers \ {w} : my'[v] = my[v] /\ pc'[v] = pc[v]
  BY <1>1, <1>2 DEF Moves
<1>4. ASSUME UNCHANGED my \/ my'[w].plan = my[w].plan
      PROVE  /\ my'[w].plan = "stop" => my[w].plan = "stop"
             /\ my'[w].plan = "last" => my[w].plan = "last"
  BY <1>4
<1>5. ASSUME Release(w) PROVE my'[w].plan = ""
  BY <1>2, <1>5 DEF Release, Fresh
<1>6. ASSUME NEW end, EndWith(w, end) PROVE my'[w].plan = my[w].plan
  BY <1>2, <1>6 DEF EndWith, Memory
<1>7. CASE Abandon(w) \/ Hook(w) \/ Requeue(w) \/ Crash(w)
  BY <1>3, <1>5, <1>7 DEF Abandon, Hook, Requeue, Crash
<1>8. CASE Claim(w) \/ Mark(w) \/ Progress(w) \/ Verify(w) \/ Settle(w) \/ Error(w)
            \/ FailImport(w) \/ Complete(w) \/ Commit(w) \/ Tally(w) \/ Fails(w)
  <2>1. UNCHANGED my
    BY <1>8 DEF Claim, Mark, Progress, Verify, Settle, Error, FailImport, Complete, Commit,
       Tally, Fails, workerVars
  <2> QED BY <1>3, <2>1
<1>9. CASE Finish(w) \/ Yield(w)
  BY <1>3, <1>4, <1>6, <1>9 DEF Finish, Yield
<1>10. CASE Open(w)
  <2>1. CASE IsMigrationCancelled
    <3>1. my'[w].plan # "last" \/ my'[w].plan = my[w].plan
      BY <1>2, <1>6, <1>10 DEF Open, Memory
    <3> QED BY <1>3, <2>1, <3>1 DEF IsMigrationCancelled
  <2>2. CASE ~IsMigrationCancelled
    BY <1>3, <1>4, <1>6, <1>10, <2>2 DEF Open
  <2> QED BY <2>1, <2>2
<1>11. CASE Load(w)
  <2>1. CASE EndWith(w, "other") BY <1>3, <1>4, <1>6, <2>1
  <2>2. CASE my' = [my EXCEPT ![w] =
             [Fresh EXCEPT !.page = PageToRead,
                           !.dups = {r \in RowsOf(PageToRead) : made[r] > 0},
                           !.processed = processed, !.counted = counted, !.total = total]]
    <3>1. my'[w].plan = ""
      BY <1>2, <2>2 DEF Fresh
    <3> QED BY <1>3, <3>1
  <2> QED BY <1>11, <2>1, <2>2 DEF Load
<1>12. CASE RowGuard(w) \/ RowWrite(w)
  <2>1. my'[w].plan = my[w].plan
    BY <1>2, <1>12 DEF RowGuard, RowWrite, Memory
  <2> QED BY <1>3, <1>4, <2>1
<1>13. CASE Decide(w)
  <2>1. my'[w].plan = "stop" => my[w].plan = "stop" \/ session # "running"
    BY <1>2, <1>13 DEF Decide, Interrupted, IsMigrationCancelled, Memory
  <2> QED BY <1>3, <1>13, <2>1
<1>14. CASE Check(w)
  <2>1. CASE EndWith(w, "processing") BY <1>3, <1>4, <1>6, <2>1
  <2>2. CASE IsMigrationCancelled /\ my' = [my EXCEPT ![w].plan = "stop"]
    <3>1. my'[w].plan = "stop"
      BY <1>2, <2>2 DEF Memory
    <3> QED BY <1>3, <2>2, <3>1 DEF IsMigrationCancelled
  <2> QED BY <1>14, <2>1, <2>2 DEF Check
<1> QED BY <1>7, <1>8, <1>9, <1>10, <1>11, <1>12, <1>13, <1>14 DEF Advance
LEMMA WorkerSession ==
  ASSUME NEW w \in Workers, Advance(w) \/ Fails(w) \/ Crash(w) PROVE UNCHANGED session
<1>1. CASE Claim(w) \/ Abandon(w) \/ Open(w) \/ Mark(w) \/ Load(w) \/ RowGuard(w)
            \/ RowWrite(w) \/ Progress(w) \/ Decide(w) \/ Commit(w) \/ Tally(w)
  BY <1>1 DEF Claim, Abandon, Open, Mark, Load, RowGuard, RowWrite, Progress, Decide,
     Commit, Tally, envVars
<1>2. CASE Check(w) \/ Verify(w) \/ Finish(w) \/ Yield(w) \/ Settle(w) \/ Complete(w)
            \/ Hook(w) \/ Error(w) \/ FailImport(w) \/ Requeue(w) \/ Fails(w) \/ Crash(w)
  BY <1>2 DEF Check, Verify, Finish, Yield, Settle, Complete, Hook, Error, FailImport,
     Requeue, Fails, Crash, envVars
<1> QED BY <1>1, <1>2 DEF Advance

LEMMA OutsideSession ==
  ASSUME ExpireAbandoned \/ ExpireHeld \/ Sweep \/ UserNext
  PROVE  UNCHANGED session \/ "cancelSession" \in Requests \/ session # "running"
<1>1. CASE Pause \/ Resume \/ Retry \/ Run \/ Cancel \/ RecoverStaleJob
  BY <1>1 DEF Pause, Resume, Retry, Run, Cancel, RecoverStaleJob
<1>2. CASE CancelSession \/ Withdraw BY <1>2 DEF CancelSession, Request, Withdraw
<1>3. CASE ExpireAbandoned \/ ExpireHeld \/ Sweep \/ EnqueueAsked
  BY <1>3 DEF ExpireAbandoned, ExpireHeld, Sweep, SweepRead, SweepInsert, EnqueueAsked, envVars
<1> QED BY <1>1, <1>2, <1>3 DEF UserNext

LEMMA CancelStep ==
  ASSUME NoReopening, TypeInv, CancelInv, [Next]_vars
  PROVE  CancelInv' /\ (status = "cancelled" => status' = "cancelled")
<1>1. ASSUME NEW w \in Workers, Advance(w) \/ Fails(w) \/ Crash(w)
      PROVE  CancelInv' /\ (status = "cancelled" => status' = "cancelled")
  <2>1. UNCHANGED session
    BY <1>1, WorkerSession
  <2>2. status = "cancelled" => status' = "cancelled"
    BY <1>1, StatusOfReads DEF Terminal
  <2>3. ASSUME Uncancelled PROVE Uncancelled'
    <3>1. status' # "cancelled"
      BY <1>1, <2>3, StatusOfReads DEF Uncancelled
    <3>2. \A v \in Workers : my'[v].plan # "stop"
      BY <1>1, <2>3, PlanOfStep DEF Uncancelled
    <3> QED BY <2>1, <2>3, <3>1, <3>2 DEF Uncancelled
  <2> QED BY <2>2, <2>3 DEF CancelInv
<1>2. ASSUME ExpireAbandoned \/ ExpireHeld \/ Sweep \/ UserNext
      PROVE  CancelInv' /\ (status = "cancelled" => status' = "cancelled")
  <2>1. UNCHANGED workerVars
    BY <1>2, OutsideKeepsWorkers DEF TypeInv
  <2>2. UNCHANGED session \/ "cancelSession" \in Requests \/ session # "running"
    BY <1>2, OutsideSession
  <2>3. status = "cancelled" => status' = "cancelled"
    BY <1>2, StatusOfOthers DEF CancelInv, Uncancelled, Terminal
  <2>4. ASSUME "retry" \in Requests, Uncancelled PROVE Uncancelled'
    <3>1. "cancel" \notin Requests /\ "cancelSession" \notin Requests
      BY <2>4 DEF NoReopening
    <3>2. status' # "cancelled"
      BY <1>2, <2>4, <3>1, StatusOfOthers DEF Uncancelled
    <3> QED BY <2>1, <2>2, <2>4, <3>1, <3>2 DEF Uncancelled, workerVars
  <2> QED BY <2>3, <2>4 DEF CancelInv
<1>3. CASE UNCHANGED vars
  BY <1>3 DEF vars, CancelInv, Uncancelled
<1> QED BY <1>1, <1>2, <1>3 DEF Next


(* What a batch under way has handled: every page before its own, and its  *)
(* own up to the next row.                                                 *)
InBatch == {"row", "write", "progress", "decide", "commit"}

HandledBelow(p) == \A q \in Pages : q < p => RowsOf(q) \subseteq handled
HandledTo(p, n) == \A i \in Nat \ {0} : i < n /\ i <= SizeOf[p] => <<p, i>> \in handled

BatchOf(l, m) ==
  /\ l \in InBatch => m.page >= 1 /\ HandledBelow(m.page) /\ HandledTo(m.page, m.row)
  /\ l \in {"progress", "decide"} =>
       m.row > SizeOf[m.page] \/ m.paused \/ status = "cancelled"
  /\ l = "commit" => m.row > SizeOf[m.page]
  /\ m.plan = "last" => handled = Rows

BatchOK == \A w \in Workers : BatchOf(pc[w], my[w])

ProgressInv ==
  /\ TypeInv /\ CancelInv
  /\ CommittedIsHandled /\ CompletedIsWhole /\ BatchOK

LEMMA InitProgress == NoReopening /\ Init => ProgressInv
<1> SUFFICES ASSUME Init PROVE ProgressInv
  OBVIOUS
<1>1. CancelInv
  BY DEF Init, CancelInv, Uncancelled, Fresh
<1>2. CommittedIsHandled /\ CompletedIsWhole
  BY SourceAssumption DEF Init, CommittedIsHandled, CompletedIsWhole, Pages
<1>3. BatchOK
  BY DEF Init, BatchOK, BatchOf, InBatch, Fresh
<1> QED BY <1>1, <1>2, <1>3, InitType DEF ProgressInv

(* Rows are only ever added, and a cancel stays.                           *)
Grows == /\ handled \subseteq handled' /\ handled' \subseteq Rows
         /\ status = "cancelled" => status' = "cancelled"

LEMMA BatchFrame ==
  ASSUME Grows, NEW l, NEW m, BatchOf(l, m) PROVE BatchOf(l, m)'
BY DEF Grows, BatchOf, HandledBelow, HandledTo

LEMMA HandledGrows ==
  ASSUME TypeInv, [Next]_vars
  PROVE  handled \subseteq handled' /\ handled' \subseteq Rows
<1>1. handled' \subseteq Rows
  BY StepJobType DEF JobOK
<1>2. ASSUME UNCHANGED dataVars PROVE handled \subseteq handled'
  BY <1>2 DEF dataVars
<1>3. ASSUME NEW w \in Workers, Advance(w) \/ Fails(w) \/ Crash(w)
      PROVE  handled \subseteq handled'
  <2>1. CASE RowWrite(w) BY <2>1 DEF RowWrite
  <2>2. CASE Commit(w) BY <2>2 DEF Commit
  <2> QED BY <1>2, <1>3, <2>1, <2>2, WorkerReads, WorkerJobWrites DEF Advance, TypeInv
<1>4. ASSUME ExpireAbandoned \/ ExpireHeld \/ Sweep \/ UserNext
      PROVE  handled \subseteq handled'
  BY <1>2, <1>4, OutsideQuiet, OutsideWrites DEF UserNext, TypeInv
<1>5. UNCHANGED vars => handled \subseteq handled'
  BY DEF vars
<1> QED BY <1>1, <1>3, <1>4, <1>5 DEF Next

(* Only these steps lead to a point inside a batch.                        *)
LEMMA OutOfBatch ==
  ASSUME TypeInv, NEW w \in Workers, Advance(w) \/ Fails(w) \/ Crash(w),
         pc'[w] \in InBatch
  PROVE  Load(w) \/ RowGuard(w) \/ RowWrite(w) \/ Progress(w) \/ Decide(w)
<1>1. ASSUME NEW l, Goto(w, l) PROVE l \in InBatch
  BY <1>1 DEF Goto, TypeInv, TypeOK, WorkersOK
<1> USE DEF InBatch
<1>2. CASE Claim(w) \/ Open(w) \/ Mark(w) \/ Commit(w) \/ Tally(w) \/ Check(w)
  BY <1>1, <1>2 DEF Claim, Open, Mark, Commit, Tally, Check, EndWith
<1>3. CASE Verify(w) \/ Finish(w) \/ Yield(w) \/ Settle(w) \/ Complete(w) \/ Error(w)
            \/ FailImport(w)
  BY <1>1, <1>3 DEF Verify, Finish, Yield, Settle, Complete, Error, FailImport, EndWith
<1>4. CASE Abandon(w) \/ Hook(w) \/ Requeue(w) \/ Crash(w)
  BY <1>1, <1>4 DEF Abandon, Hook, Requeue, Crash, Release
<1>5. CASE Fails(w) BY <1>1, <1>5 DEF Fails
<1> QED BY <1>2, <1>3, <1>4, <1>5 DEF Advance


LEMMA MoreToRead ==
  ASSUME NEW p \in 0..NPages + 1, p >= 1, ~HasMore(p) PROVE p >= NPages
<1> SUFFICES ASSUME p < NPages, Live, Fetched[p] = 0 PROVE FALSE
  BY SourceAssumption DEF HasMore
<1> DEFINE S == {r \in Rows : r[1] <= p}
<1>1. Size[1] > 0 /\ 1 \in Pages /\ 1 \in 0..NPages + 1
  BY SourceAssumption DEF Pages
<1>2. SizeOf[1] >= 1
  BY <1>1, SourceAssumption DEF SizeOf, Pages
<1>3. <<1, 1>> \in S
  BY <1>1, <1>2, RowOfPage
<1>4. S \in SUBSET Rows
  OBVIOUS
<1>5. IsFiniteSet(S)
  BY <1>4, RowsFinite, FS_Subset
<1>6. Cardinality(S) = 0
  BY DEF Fetched
<1>7. S = {}
  <2> HIDE DEF S
  <2> QED BY <1>5, <1>6, FS_EmptySet
<1> QED BY <1>3, <1>7

(* A page handled up to beyond its last row is handled.                    *)
LEMMA WholePage ==
  ASSUME NEW p \in Pages, NEW n \in Nat, HandledTo(p, n), n > SizeOf[p]
  PROVE  RowsOf(p) \subseteq handled
<1> SUFFICES ASSUME NEW i \in 1..SizeOf[p] PROVE <<p, i>> \in handled
  BY DEF RowsOf
<1>1. SizeOf[p] \in Nat
  BY SizeType, SourceAssumption DEF Pages
<1>2. i \in Nat \ {0} /\ i < n /\ i <= SizeOf[p]
  BY <1>1
<1> QED BY <1>2 DEF HandledTo

LEMMA LoadBatch ==
  ASSUME ProgressInv, NEW w \in Workers, Load(w), pc'[w] \in InBatch
  PROVE  BatchOf(pc[w], my[w])'
<1>1. TypeOK /\ CommittedIsHandled /\ my \in [Workers -> Memory] /\ pc \in [Workers -> PCs]
  BY DEF ProgressInv, TypeInv, TypeOK, WorkersOK
<1>2. UNCHANGED <<status, handled>>
  BY DEF Load, jobVars, dataVars
<1> DEFINE p == PageToRead
           m == [Fresh EXCEPT !.page = p,
                              !.dups = {r \in RowsOf(p) : made[r] > 0},
                              !.processed = processed, !.counted = counted, !.total = total]
           l == IF RowsOf(p) = {} THEN "decide" ELSE "row"
<1>3. my'[w] = m /\ pc'[w] = l
  <2>1. ~EndWith(w, "other")
    BY <1>1 DEF EndWith, Goto, InBatch
  <2> QED BY <1>1, <2>1 DEF Load, Goto
<1>4. p \in 0..NPages + 1 /\ p >= 1 /\ HandledBelow(p)
  BY <1>1, SourceAssumption DEF PageToRead, TypeOK, JobOK, CommittedIsHandled,
     HandledBelow, Pages
<1>5. HandledTo(p, 1)
  BY DEF HandledTo
<1>6. RowsOf(p) = {} => 1 > SizeOf[p]
  <2>1. SizeOf[p] \in Nat
    BY <1>4, SizeType
  <2>2. SizeOf[p] >= 1 => <<p, 1>> \in RowsOf(p)
    BY <2>1 DEF RowsOf
  <2> QED BY <2>1, <2>2
<1>7. my'[w].page = p /\ my'[w].row = 1 /\ my'[w].plan = ""
  BY <1>3 DEF Fresh
<1>8. BatchOf(l, my'[w])
  <2> HIDE DEF p, m
  <2> QED BY <1>4, <1>5, <1>6, <1>7 DEF BatchOf
<1> HIDE DEF p, m, l
<1> QED BY <1>2, <1>3, <1>8 DEF BatchOf, HandledBelow, HandledTo

LEMMA RowGuardBatch ==
  ASSUME ProgressInv, NEW w \in Workers, RowGuard(w) PROVE BatchOf(pc[w], my[w])'
<1>1. /\ my \in [Workers -> Memory] /\ pc \in [Workers -> PCs]
      /\ my[w] \in Memory /\ BatchOf("row", my[w])
  BY DEF ProgressInv, TypeInv, TypeOK, WorkersOK, BatchOK, RowGuard
<1>2. UNCHANGED <<status, handled>>
  BY DEF RowGuard, jobVars, dataVars
<1>3. /\ my'[w].page = my[w].page /\ my'[w].row = my[w].row /\ my'[w].plan = my[w].plan
      /\ my'[w].paused = my[w].paused \/ my'[w].paused = (status = "paused")
  BY <1>1 DEF RowGuard, Memory
<1>4. /\ pc'[w] \in {"progress", "write", "decide"}
      /\ pc'[w] # "write" => \/ my[w].row > SizeOf[my[w].page]
                             \/ my'[w].paused \/ status = "cancelled"
  BY <1>1 DEF RowGuard, Goto, Memory
<1> QED BY <1>1, <1>2, <1>3, <1>4 DEF BatchOf, InBatch, HandledBelow, HandledTo

LEMMA RowWriteBatch ==
  ASSUME ProgressInv, NEW w \in Workers, RowWrite(w), Grows
  PROVE  BatchOf(pc[w], my[w])'
<1> DEFINE p == my[w].page
           n == my[w].row
<1>1. /\ my \in [Workers -> Memory] /\ pc \in [Workers -> PCs]
      /\ my[w] \in Memory /\ n \in Nat \ {0} /\ BatchOf("write", my[w])
  BY DEF ProgressInv, TypeInv, TypeOK, WorkersOK, BatchOK, RowWrite, Memory
<1>2. handled' = handled \cup {<<p, n>>}
  BY DEF RowWrite
<1>3. my'[w].page = p /\ my'[w].row = n + 1 /\ my'[w].plan = my[w].plan
  BY <1>1 DEF RowWrite, Memory
<1>4. pc'[w] \in {"write", "row"}
  BY <1>1 DEF RowWrite, Goto
<1>5. p >= 1 /\ HandledBelow(p) /\ HandledTo(p, n) /\ (my[w].plan = "last" => handled = Rows)
  BY <1>1 DEF BatchOf, InBatch
<1> HIDE DEF p, n
<1>6. \A i \in Nat \ {0} : i < n + 1 /\ i <= SizeOf[p] => <<p, i>> \in handled'
  BY <1>1, <1>2, <1>5 DEF HandledTo
<1>7. \A q \in Pages : q < p => RowsOf(q) \subseteq handled'
  BY <1>2, <1>5 DEF HandledBelow
<1>8. my[w].plan = "last" => handled' = Rows
  BY <1>5 DEF Grows
<1> QED BY <1>3, <1>4, <1>5, <1>6, <1>7, <1>8 DEF BatchOf, HandledBelow, HandledTo

LEMMA ProgressBatch ==
  ASSUME ProgressInv, NEW w \in Workers, Progress(w) PROVE BatchOf(pc[w], my[w])'
<1>1. pc \in [Workers -> PCs] /\ BatchOf("progress", my[w])
  BY DEF ProgressInv, TypeInv, TypeOK, WorkersOK, BatchOK, Progress
<1>2. UNCHANGED <<status, handled, my>> /\ pc'[w] = "decide"
  BY <1>1 DEF Progress, WriteProgress, Goto, jobVars, dataVars
<1> QED BY <1>1, <1>2 DEF BatchOf, InBatch, HandledBelow, HandledTo

LEMMA DecideBatch ==
  ASSUME ProgressInv, NEW w \in Workers, Decide(w) PROVE BatchOf(pc[w], my[w])'
<1>1. /\ my \in [Workers -> Memory] /\ pc \in [Workers -> PCs]
      /\ my[w] \in Memory /\ BatchOf("decide", my[w]) /\ handled \subseteq Rows
      /\ my[w].page \in 0..NPages + 1 /\ my[w].row \in Nat
  BY DEF ProgressInv, TypeInv, TypeOK, JobOK, WorkersOK, BatchOK, Decide, Memory
<1>2. UNCHANGED <<status, handled>>
  BY DEF Decide, jobVars, dataVars
<1>3. CASE Goto(w, "yield") /\ UNCHANGED my
  BY <1>1, <1>2, <1>3 DEF Goto, BatchOf, InBatch
<1>4. CASE \E plan \in Plans : Goto(w, "commit") /\ my' = [my EXCEPT ![w].plan = plan]
  <2>1. ~my[w].paused /\ status # "cancelled"
    BY <1>1, <1>4 DEF Decide, Interrupted, Goto
  <2>2. my[w].row > SizeOf[my[w].page]
    BY <1>1, <2>1 DEF BatchOf
  <2>3. my'[w].page = my[w].page /\ my'[w].row = my[w].row /\ pc'[w] = "commit"
    BY <1>1, <1>4 DEF Goto, Memory
  <2>4. my'[w].plan = "last" => handled = Rows
    <3> SUFFICES ASSUME my'[w].plan = "last" PROVE Rows \subseteq handled
      BY <1>1
    <3>1. ~HasMore(my[w].page)
      BY <1>1, <1>4 DEF Decide, Goto, Memory
    <3>2. my[w].page >= 1 /\ HandledBelow(my[w].page) /\ HandledTo(my[w].page, my[w].row)
      BY <1>1 DEF BatchOf, InBatch
    <3>3. my[w].page >= NPages
      BY <1>1, <3>1, <3>2, MoreToRead
    <3>4. \A q \in Pages : RowsOf(q) \subseteq handled
      <4> SUFFICES ASSUME NEW q \in Pages PROVE RowsOf(q) \subseteq handled
        OBVIOUS
      <4>1. CASE q = my[w].page
        BY <1>1, <2>2, <3>2, <4>1, WholePage
      <4>2. CASE q # my[w].page
        <5>1. q < my[w].page
          BY <1>1, <3>3, <4>2, SourceAssumption DEF Pages
        <5> QED BY <3>2, <5>1 DEF HandledBelow
      <4> QED BY <4>1, <4>2
    <3> QED BY <3>4 DEF Rows
  <2> QED BY <1>1, <1>2, <2>2, <2>3, <2>4 DEF BatchOf, InBatch, HandledBelow, HandledTo
<1> QED
  <2>1. \/ Goto(w, "yield") /\ UNCHANGED my
        \/ \E plan \in Plans : Goto(w, "commit") /\ my' = [my EXCEPT ![w].plan = plan]
    BY DEF Decide, Plans
  <2> QED BY <1>3, <1>4, <2>1


LEMMA StepGrows == NoReopening /\ ProgressInv /\ [Next]_vars => Grows
BY HandledGrows, CancelStep DEF ProgressInv, Grows

LEMMA BatchKept ==
  ASSUME ProgressInv, Grows, NEW v \in Workers, pc'[v] = pc[v], my'[v] = my[v]
  PROVE  BatchOf(pc[v], my[v])'
<1>1. BatchOf(pc[v], my[v])
  BY DEF ProgressInv, BatchOK
<1> QED BY <1>1 DEF Grows, BatchOf, HandledBelow, HandledTo

LEMMA WorkerBatch ==
  ASSUME ProgressInv, Grows, NEW w \in Workers, Advance(w) \/ Fails(w) \/ Crash(w)
  PROVE  BatchOK'
<1> SUFFICES ASSUME NEW v \in Workers PROVE BatchOf(pc[v], my[v])'
  BY DEF BatchOK
<1>1. TypeInv
  BY DEF ProgressInv
<1>2. CASE v # w
  BY <1>1, <1>2, PlanOfStep, BatchKept
<1>3. CASE v = w /\ pc'[w] \in InBatch
  BY <1>1, <1>3, OutOfBatch, LoadBatch, RowGuardBatch, RowWriteBatch, ProgressBatch,
     DecideBatch
<1>4. CASE v = w /\ pc'[w] \notin InBatch
  <2>1. CASE Decide(w)
    BY <1>4, <2>1, DecideBatch
  <2>2. CASE ~Decide(w)
    <3>1. my'[w].plan = "last" => my[w].plan = "last"
      BY <1>1, <2>2, PlanOfStep
    <3>2. my[w].plan = "last" => handled = Rows
      BY DEF ProgressInv, BatchOK, BatchOf
    <3> QED BY <1>4, <3>1, <3>2 DEF BatchOf, InBatch, Grows
  <2> QED BY <2>1, <2>2
<1> QED BY <1>2, <1>3, <1>4

LEMMA StepBatch == NoReopening /\ ProgressInv /\ [Next]_vars => BatchOK'
<1> SUFFICES ASSUME NoReopening, ProgressInv, [Next]_vars PROVE BatchOK'
  OBVIOUS
<1>1. Grows
  BY StepGrows
<1>2. ASSUME UNCHANGED workerVars PROVE BatchOK'
  BY <1>1, <1>2, BatchKept DEF BatchOK, workerVars
<1>3. ASSUME ExpireAbandoned \/ ExpireHeld \/ Sweep \/ UserNext PROVE UNCHANGED workerVars
  BY <1>3, OutsideKeepsWorkers DEF ProgressInv, TypeInv
<1>4. CASE UNCHANGED vars
  BY <1>2, <1>4 DEF vars, workerVars
<1> QED BY <1>1, <1>2, <1>3, <1>4, WorkerBatch DEF Next

(* The cursor moves only over a page that was handled.                     *)
LEMMA StepCommitted == NoReopening /\ ProgressInv /\ [Next]_vars => CommittedIsHandled'
<1> SUFFICES ASSUME NoReopening, ProgressInv, [Next]_vars PROVE CommittedIsHandled'
  OBVIOUS
<1>1. Grows /\ TypeInv /\ CommittedIsHandled
  BY StepGrows DEF ProgressInv
<1>2. ASSUME UNCHANGED cursor PROVE CommittedIsHandled'
  BY <1>1, <1>2 DEF CommittedIsHandled, Grows
<1>3. ASSUME NEW w \in Workers, Commit(w) PROVE CommittedIsHandled'
  <2> DEFINE p == my[w].page
  <2>1. p \in 0..NPages + 1 /\ my[w].row \in Nat
    BY <1>1, WorkerNumbers DEF TypeInv
  <2>2. HandledBelow(p) /\ HandledTo(p, my[w].row) /\ my[w].row > SizeOf[p]
    BY <1>3 DEF Commit, ProgressInv, BatchOK, BatchOf, InBatch
  <2>3. UNCHANGED handled /\ cursor' = (IF p > NPages THEN cursor ELSE p + 1)
    BY <1>3 DEF Commit
  <2>4. CASE p > NPages
    BY <1>2, <2>3, <2>4
  <2>5. CASE p <= NPages
    <3>0. cursor' = p + 1 /\ handled' = handled
      BY <2>1, <2>3, <2>5, SourceAssumption
    <3> HIDE DEF p
    <3> SUFFICES ASSUME NEW q \in Pages, q < p + 1 PROVE RowsOf(q) \subseteq handled
      BY <3>0 DEF CommittedIsHandled
    <3>1. CASE q = p
      BY <2>1, <2>2, <3>1, WholePage
    <3>2. CASE q # p
      <4>1. q < p
        BY <2>1, <3>2 DEF Pages
      <4> QED BY <2>2, <4>1 DEF HandledBelow
    <3> QED BY <3>1, <3>2
  <2> QED BY <2>1, <2>4, <2>5, SourceAssumption
<1>4. ASSUME NEW w \in Workers, Advance(w) \/ Fails(w) \/ Crash(w) PROVE CommittedIsHandled'
  <2>1. CASE RowWrite(w)
    BY <1>2, <2>1 DEF RowWrite
  <2>2. ASSUME UNCHANGED dataVars PROVE CommittedIsHandled'
    BY <1>2, <2>2 DEF dataVars
  <2> QED BY <1>1, <1>3, <1>4, <2>1, <2>2, WorkerReads, WorkerJobWrites DEF Advance, TypeInv
<1>5. ASSUME ExpireAbandoned \/ ExpireHeld \/ Sweep \/ UserNext PROVE UNCHANGED cursor
  BY <1>1, <1>5, OutsideQuiet, OutsideWrites DEF UserNext, TypeInv, dataVars
<1>6. CASE UNCHANGED vars
  BY <1>2, <1>6 DEF vars
<1> QED BY <1>2, <1>4, <1>5, <1>6 DEF Next

LEMMA StepCompleted == NoReopening /\ ProgressInv /\ [Next]_vars => CompletedIsWhole'
<1> SUFFICES ASSUME NoReopening, ProgressInv, [Next]_vars, status' = "completed"
             PROVE  handled' = Rows
  BY DEF CompletedIsWhole
<1>1. Grows /\ handled' \subseteq Rows
  BY StepGrows DEF Grows
<1>2. SUFFICES handled = Rows
  BY <1>1 DEF Grows
<1>3. status = "completed" => handled = Rows
  BY DEF ProgressInv, CompletedIsWhole
<1>4. ASSUME NEW w \in Workers, Advance(w) \/ Fails(w) \/ Crash(w) PROVE handled = Rows
  BY <1>3, <1>4, StatusOfReads DEF ProgressInv, BatchOK, BatchOf
<1>5. ASSUME ExpireAbandoned \/ ExpireHeld \/ Sweep \/ UserNext PROVE handled = Rows
  BY <1>3, <1>5, StatusOfOthers
<1>6. CASE UNCHANGED vars
  BY <1>3, <1>6 DEF vars
<1> QED BY <1>4, <1>5, <1>6 DEF Next

LEMMA ProgressInvariant == ASSUME NoReopening PROVE Spec => []ProgressInv
<1>1. Init => ProgressInv
  BY InitProgress
<1>2. ProgressInv /\ [Next]_vars => ProgressInv'
  BY StepType, CancelStep, StepCommitted, StepCompleted, StepBatch DEF ProgressInv
<1> QED BY <1>1, <1>2, PTL DEF Spec

(* No crash, lost lease, stalled worker, pause or retry moves the page     *)
(* cursor over a row that was not handled, whatever the source.            *)
THEOREM NothingSkipped == ASSUME NoReopening PROVE Spec => []CommittedIsHandled
<1>1. ProgressInv => CommittedIsHandled
  BY DEF ProgressInv
<1> QED BY <1>1, ProgressInvariant, PTL

(* An import that is recorded as completed has handled every row of every  *)
(* page of its source.                                                     *)
THEOREM CompletedImportIsWhole == ASSUME NoReopening PROVE Spec => []CompletedIsWhole
<1>1. ProgressInv => CompletedIsWhole
  BY DEF ProgressInv
<1> QED BY <1>1, ProgressInvariant, PTL

-----------------------------------------------------------------------------
(* Nothing is created twice.  A row is written only by the worker whose    *)
(* lease is good, and that worker knows which rows of its page exist: it   *)
(* looked after its claim, and since then only it has written.             *)
Looking == {"row", "write"}

Fenced == \A w \in Workers : pc[w] = "write" => Owns(w)

LooksRight(w) ==
  \A i \in Nat \ {0} :
    LET r == <<my[w].page, i>> IN
    my[w].row <= i /\ i <= SizeOf[my[w].page] /\ made[r] > 0 => r \in my[w].dups

Looked == \A w \in Workers : pc[w] \in Looking /\ owner = w => LooksRight(w)

OnceInv == TypeInv /\ Fenced /\ Looked /\ MadeOnce

(* The queue row keeps its owner, or loses one that is not writing, or is  *)
(* claimed when nobody owns it.                                            *)
QueueStep ==
  \/ UNCHANGED <<queue, owner>>
  \/ /\ owner' = NoWorker
     /\ owner = NoWorker \/ pc[owner] # "write" \/ pc'[owner] # "write"
  \/ owner = NoWorker /\ \E w \in Workers : Claim(w)

LEMMA StepQueue == PromptWrites /\ OnceInv /\ [Next]_vars => QueueStep
<1> SUFFICES ASSUME PromptWrites, OnceInv, [Next]_vars PROVE QueueStep
  OBVIOUS
<1>1. /\ QueueOK /\ pc \in [Workers -> PCs]
      /\ \A w \in Workers : w # NoWorker
  BY WorkersAssumption DEF OnceInv, TypeInv, TypeOK, WorkersOK
<1>2. ASSUME UNCHANGED queueVars PROVE QueueStep
  BY <1>2 DEF queueVars, QueueStep
<1>3. ASSUME EnqueueOnce PROVE QueueStep
  BY <1>1, <1>3 DEF EnqueueOnce, queueVars, QueueStep, QueueOK
<1>4. ASSUME NEW w \in Workers, Drop(w), pc[w] # "write" \/ pc'[w] # "write" PROVE QueueStep
  BY <1>4 DEF Drop, QueueStep
<1>5. ASSUME NEW w \in Workers, Advance(w) \/ Fails(w) \/ Crash(w) PROVE QueueStep
  <2>1. CASE Claim(w) BY <1>1, <2>1 DEF Claim, QueueOK, QueueStep
  <2>2. CASE Complete(w) BY <1>1, <1>2, <2>2 DEF Complete, CompleteRow, Owns, QueueStep
  <2>3. CASE Hook(w) BY <1>3, <1>4, <2>3 DEF Hook
  <2>4. CASE Requeue(w) BY <1>1, <1>2, <2>4 DEF Requeue, Owns, QueueStep
  <2>5. CASE Crash(w)
    <3>1. pc'[w] = "idle"
      BY <1>1, <2>5 DEF Crash, Release, Goto
    <3> QED BY <1>4, <2>5, <3>1 DEF Crash
  <2>6. CASE Abandon(w) \/ Open(w) \/ Mark(w) \/ Load(w) \/ RowGuard(w) \/ RowWrite(w)
               \/ Progress(w) \/ Decide(w) \/ Commit(w) \/ Tally(w)
    BY <1>2, <2>6 DEF Abandon, Open, Mark, Load, RowGuard, RowWrite, Progress, Decide,
       Commit, Tally
  <2>7. CASE Check(w) \/ Verify(w) \/ Finish(w) \/ Yield(w) \/ Settle(w) \/ Error(w)
               \/ FailImport(w) \/ Fails(w)
    BY <1>2, <2>7 DEF Check, Verify, Finish, Yield, Settle, Error, FailImport, Fails
  <2> QED BY <1>5, <2>1, <2>2, <2>3, <2>4, <2>5, <2>6, <2>7 DEF Advance
<1>6. CASE ExpireAbandoned BY <1>6 DEF ExpireAbandoned, QueueStep
<1>7. CASE ExpireHeld BY <1>7 DEF ExpireHeld, QueueStep, Guarded
<1>8. CASE Sweep BY <1>2, <1>3, <1>8 DEF Sweep, SweepRead, SweepInsert
<1>9. CASE Pause \/ Resume \/ Retry \/ Cancel \/ RecoverStaleJob \/ CancelSession
  BY <1>2, <1>9 DEF Pause, Resume, Retry, Cancel, RecoverStaleJob, CancelSession, queueVars
<1>10. CASE Run \/ EnqueueAsked BY <1>3, <1>10 DEF Run, EnqueueAsked
<1>11. CASE Withdraw BY <1>1, <1>2, <1>11 DEF Withdraw, QueueOK, QueueStep
<1>12. CASE UNCHANGED vars BY <1>2, <1>12 DEF vars, queueVars
<1> QED BY <1>5, <1>6, <1>7, <1>8, <1>9, <1>10, <1>11, <1>12 DEF Next, UserNext

(* What the owner keeps knowing when the step is not its own, and when it  *)
(* stays where it is.                                                      *)
LEMMA MadeByWrite ==
  ASSUME TypeInv, [Next]_vars
  PROVE  UNCHANGED made \/ \E w \in Workers : RowWrite(w)
<1>1. ASSUME NEW w \in Workers, Advance(w) \/ Fails(w) \/ Crash(w)
      PROVE  UNCHANGED made \/ RowWrite(w)
  <2>1. CASE Commit(w) BY <2>1 DEF Commit
  <2> QED BY <1>1, <2>1, WorkerReads, WorkerJobWrites DEF Advance, TypeInv, dataVars
<1>2. ASSUME ExpireAbandoned \/ ExpireHeld \/ Sweep \/ UserNext PROVE UNCHANGED made
  BY <1>2, OutsideQuiet, OutsideWrites DEF UserNext, TypeInv, dataVars
<1>3. UNCHANGED vars => UNCHANGED made
  BY DEF vars
<1> QED BY <1>1, <1>2, <1>3 DEF Next

(* Only two steps lead to the write of a row, three into the row loop.     *)
LEMMA IntoRows ==
  ASSUME TypeInv, [Next]_vars, NEW w \in Workers, pc'[w] \in Looking
  PROVE  \/ pc'[w] = pc[w] /\ my'[w] = my[w]
         \/ Load(w) /\ pc'[w] = "row"
         \/ RowGuard(w) \/ RowWrite(w)
<1>1. pc \in [Workers -> PCs]
  BY DEF TypeInv, TypeOK, WorkersOK
<1>2. ASSUME NEW v \in Workers, Advance(v) \/ Fails(v) \/ Crash(v), v # w
      PROVE  pc'[w] = pc[w] /\ my'[w] = my[w]
  BY <1>2, PlanOfStep
<1>3. ASSUME Advance(w) \/ Fails(w) \/ Crash(w)
      PROVE  (Load(w) /\ pc'[w] = "row") \/ RowGuard(w) \/ RowWrite(w)
  <2>1. Load(w) \/ RowGuard(w) \/ RowWrite(w) \/ Progress(w) \/ Decide(w)
    BY <1>3, OutOfBatch DEF Looking, InBatch
  <2>2. ~Progress(w) /\ ~Decide(w)
    BY <1>1 DEF Progress, Decide, Goto, Looking
  <2>3. Load(w) => pc'[w] # "write"
    BY <1>1 DEF Load, EndWith, Goto
  <2> QED BY <2>1, <2>2, <2>3 DEF Looking
<1>4. CASE ExpireAbandoned \/ ExpireHeld \/ Sweep \/ UserNext
  BY <1>4, OutsideKeepsWorkers DEF TypeInv, workerVars
<1>5. CASE UNCHANGED vars BY <1>5 DEF vars
<1> QED BY <1>2, <1>3, <1>4, <1>5 DEF Next

LEMMA StepFenced == PromptWrites /\ OnceInv /\ [Next]_vars => Fenced'
<1> SUFFICES ASSUME PromptWrites, OnceInv, [Next]_vars, NEW w \in Workers, pc'[w] = "write"
             PROVE  Owns(w)'
  BY DEF Fenced
<1>1. TypeInv /\ QueueOK /\ w # NoWorker /\ pc \in [Workers -> PCs]
  BY WorkersAssumption DEF OnceInv, TypeInv, TypeOK, WorkersOK
<1>2. CASE RowGuard(w)
  BY <1>1, <1>2 DEF RowGuard, Goto, Owns, queueVars
<1>3. CASE RowWrite(w)
  BY <1>3 DEF RowWrite, OnceInv, Fenced, Owns, queueVars
<1>4. CASE pc[w] = "write"
  <2>1. owner = w /\ queue = "RUNNING"
    BY <1>4 DEF OnceInv, Fenced, Owns
  <2>2. UNCHANGED <<queue, owner>>
    BY <1>1, <1>4, <2>1, StepQueue DEF QueueStep
  <2> QED BY <2>1, <2>2 DEF Owns
<1> QED BY <1>1, <1>2, <1>3, <1>4, IntoRows DEF Looking

(* The one place where a record is made: the row is the owner's next one,  *)
(* and it was not there.                                                   *)
LEMMA WriteMakes ==
  ASSUME OnceInv, NEW w \in Workers, RowWrite(w)
  PROVE  /\ MadeOnce'
         /\ Owns(w) /\ UNCHANGED <<queue, owner>>
         /\ LooksRight(w)'
<1> DEFINE p == my[w].page
           n == my[w].row
           r == <<p, n>>
<1>1. /\ my \in [Workers -> Memory] /\ made \in [Rows -> Nat] /\ pc[w] = "write"
      /\ Owns(w) /\ UNCHANGED <<queue, owner>> /\ LooksRight(w)
      /\ p \in 0..NPages + 1 /\ n \in Nat \ {0} /\ n <= SizeOf[p]
  BY WorkerNumbers DEF OnceInv, TypeInv, TypeOK, WorkersOK, JobOK, RowWrite, Fenced, Looked,
                       Looking, Owns, WriteOK, queueVars
<1>2. r \in Rows
  BY <1>1, RowOfPage
<1>3. my'[w].page = p /\ my'[w].row = n + 1 /\ my'[w].dups = my[w].dups
  BY <1>1 DEF RowWrite, Memory
<1>4. \/ made' = made
      \/ /\ made' = [made EXCEPT ![r] = made[r] + 1]
         /\ r \notin my[w].dups
  BY DEF RowWrite
<1>5. made[r] > 0 => r \in my[w].dups
  BY <1>1 DEF LooksRight
<1>6. MadeOnce'
  BY <1>1, <1>2, <1>4, <1>5 DEF OnceInv, MadeOnce
<1>7. ASSUME NEW i \in Nat \ {0}, n + 1 <= i, i <= SizeOf[p], made'[<<p, i>>] > 0
      PROVE  <<p, i>> \in my[w].dups
  <2>1. n <= i /\ i # n
    BY <1>1, <1>7
  <2>2. <<p, i>> \in Rows /\ <<p, i>> # r
    BY <1>1, <1>7, <2>1, RowOfPage
  <2>3. made'[<<p, i>>] = made[<<p, i>>]
    BY <1>1, <1>2, <1>4, <2>2
  <2> QED BY <1>1, <1>7, <2>1, <2>3 DEF LooksRight
<1> HIDE DEF p, n, r
<1>8. LooksRight(w)'
  BY <1>3, <1>7 DEF LooksRight
<1> QED BY <1>1, <1>6, <1>8

LEMMA LoadLooks ==
  ASSUME TypeInv, NEW w \in Workers, Load(w), pc'[w] = "row"
  PROVE  LooksRight(w)'
<1>1. my \in [Workers -> Memory] /\ pc \in [Workers -> PCs] /\ UNCHANGED made
  BY DEF TypeInv, TypeOK, WorkersOK, Load, dataVars
<1> DEFINE p == PageToRead
           m == [Fresh EXCEPT !.page = p,
                              !.dups = {r \in RowsOf(p) : made[r] > 0},
                              !.processed = processed, !.counted = counted, !.total = total]
<1>2. my'[w] = m
  BY <1>1 DEF Load, EndWith, Goto
<1>3. m.page = p /\ m.dups = {r \in RowsOf(p) : made[r] > 0} /\ p \in 0..NPages + 1
  BY SourceAssumption DEF Fresh, PageToRead, TypeInv, TypeOK, JobOK
<1>4. SizeOf[p] \in Nat
  BY <1>3, SizeType
<1>5. ASSUME NEW i \in Nat \ {0}, i <= SizeOf[p], made[<<p, i>>] > 0
      PROVE  <<p, i>> \in m.dups
  BY <1>3, <1>4, <1>5 DEF RowsOf
<1> HIDE DEF m, p
<1> QED BY <1>1, <1>2, <1>3, <1>5 DEF LooksRight

LEMMA StepOnce == PromptWrites /\ OnceInv /\ [Next]_vars => OnceInv'
<1> SUFFICES ASSUME PromptWrites, OnceInv, [Next]_vars PROVE OnceInv'
  OBVIOUS
<1>1. /\ TypeInv /\ TypeInv' /\ Fenced' /\ QueueStep /\ pc \in [Workers -> PCs]
      /\ my \in [Workers -> Memory] /\ \A w \in Workers : w # NoWorker
  BY StepType, StepFenced, StepQueue, WorkersAssumption DEF OnceInv, TypeInv, TypeOK, WorkersOK
<1>2. MadeOnce'
  BY <1>1, MadeByWrite, WriteMakes DEF OnceInv, MadeOnce
<1>3. ASSUME NEW w \in Workers, pc'[w] \in Looking, owner' = w PROVE LooksRight(w)'
  <2>1. CASE Load(w) /\ pc'[w] = "row" BY <1>1, <2>1, LoadLooks
  <2>2. CASE RowWrite(w) BY <2>2, WriteMakes
  <2>3. CASE RowGuard(w)
    <3>1. /\ my'[w].page = my[w].page /\ my'[w].row = my[w].row /\ my'[w].dups = my[w].dups
          /\ UNCHANGED made /\ owner = w /\ pc[w] \in Looking
      BY <1>1, <2>3 DEF RowGuard, Memory, Owns, Looking, dataVars
    <3>2. LooksRight(w)
      BY <3>1 DEF OnceInv, Looked
    <3> QED BY <3>1, <3>2 DEF LooksRight
  <2>4. CASE pc'[w] = pc[w] /\ my'[w] = my[w] /\ ~RowWrite(w)
    <3>1. owner = w
      <4>1. ~Claim(w)
        BY <1>1, <1>3 DEF Claim, Goto, Looking
      <4>2. ASSUME NEW v \in Workers, Claim(v) PROVE owner' = v
        BY <4>2 DEF Claim
      <4> QED BY <1>1, <1>3, <4>1, <4>2 DEF QueueStep
    <3>2. LooksRight(w)
      BY <1>3, <2>4, <3>1 DEF OnceInv, Looked
    <3>3. UNCHANGED made
      <4>1. ASSUME NEW v \in Workers, RowWrite(v) PROVE FALSE
        <5>1. Owns(v)
          BY <4>1, WriteMakes
        <5> QED BY <2>4, <3>1, <4>1, <5>1 DEF Owns
      <4> QED BY <1>1, <4>1, MadeByWrite
    <3> QED BY <2>4, <3>2, <3>3 DEF LooksRight
  <2> QED BY <1>1, <1>3, <2>1, <2>2, <2>3, <2>4, IntoRows
<1> QED BY <1>1, <1>2, <1>3 DEF OnceInv, Looked

(* However often crashes, lost leases, failures and retries replay a page, *)
(* no row of it is created twice, as long as no lease expires between an   *)
(* ownership check and the write it guards.                                *)
THEOREM RowsAreMadeOnce == ASSUME PromptWrites PROVE Spec => []MadeOnce
<1>1. Init => OnceInv
  BY InitType DEF Init, OnceInv, Fenced, Looked, Looking, MadeOnce
<1>2. OnceInv /\ [Next]_vars => OnceInv'
  BY StepOnce
<1>3. OnceInv => MadeOnce
  BY DEF OnceInv
<1> QED BY <1>1, <1>2, <1>3, PTL DEF Spec

-----------------------------------------------------------------------------
(* One batch after a cancel.  As long as no live worker loses its lease, a *)
(* worker that is past its claim owns the row, so only one can be on its   *)
(* way to a commit, and nobody sets out for one once the session is        *)
(* cancelled.                                                              *)
Inactive == {"idle", "hook"}

ActiveOwns == \A w \in Workers : pc[w] \notin Inactive => Owns(w)

BeforeCommit == InBatch \cup {"mark", "load"}

CommitInv ==
  /\ TypeInv /\ stalls = 0 /\ ActiveOwns
  /\ late <= 1
  /\ session = "running" => late = 0
  /\ late = 1 => \A w \in Workers : pc[w] \notin BeforeCommit

LEMMA StallsStep == MaxStalls = 0 /\ TypeInv /\ stalls = 0 /\ [Next]_vars => UNCHANGED stalls
<1> SUFFICES ASSUME MaxStalls = 0, stalls = 0, [Next]_vars PROVE UNCHANGED stalls
  OBVIOUS
<1>1. ASSUME NEW w \in Workers, Advance(w) PROVE UNCHANGED stalls
  <2>1. CASE Commit(w) \/ Complete(w) \/ FailImport(w)
    BY <2>1 DEF Commit, Complete, FailImport, counters
  <2>2. CASE Claim(w) \/ Abandon(w) \/ Open(w) \/ Mark(w) \/ Load(w) \/ RowGuard(w)
               \/ RowWrite(w) \/ Progress(w) \/ Decide(w)
    BY <2>2 DEF Claim, Abandon, Open, Mark, Load, RowGuard, RowWrite, Progress, Decide, counters
  <2>3. CASE Tally(w) \/ Check(w) \/ Verify(w) \/ Finish(w) \/ Yield(w) \/ Settle(w)
               \/ Hook(w) \/ Error(w) \/ Requeue(w)
    BY <2>3 DEF Tally, Check, Verify, Finish, Yield, Settle, Hook, Error, Requeue, counters
  <2> QED BY <1>1, <2>1, <2>2, <2>3 DEF Advance
<1>2. ASSUME NEW w \in Workers, Fails(w) \/ Crash(w) PROVE UNCHANGED stalls
  BY <1>2 DEF Fails, Crash
<1>3. CASE ExpireAbandoned \/ Sweep
  BY <1>3 DEF ExpireAbandoned, Sweep, SweepRead, SweepInsert, counters
<1>4. ~ExpireHeld
  BY DEF ExpireHeld
<1>5. CASE UserNext
  BY <1>5 DEF UserNext, Pause, Resume, Retry, Run, Cancel, RecoverStaleJob, CancelSession,
     Request, EnqueueAsked, Withdraw, counters
<1>6. CASE UNCHANGED vars BY <1>6 DEF vars
<1> QED BY <1>1, <1>2, <1>3, <1>4, <1>5, <1>6 DEF Next

(* Only a worker that lets go of its row takes it from its owner.          *)
LEMMA ActiveStep ==
  ASSUME TypeInv, ActiveOwns, stalls = 0, MaxStalls = 0, [Next]_vars
  PROVE  ActiveOwns'
<1>1. /\ QueueOK /\ pc \in [Workers -> PCs]
      /\ \A w \in Workers : w # NoWorker
  BY WorkersAssumption DEF TypeInv, TypeOK, WorkersOK
<1>2. ASSUME NEW w \in Workers, pc[w] \notin Inactive, UNCHANGED queueVars,
             \A v \in Workers \ {w} : pc'[v] = pc[v]
      PROVE  ActiveOwns'
  BY <1>2 DEF queueVars, ActiveOwns, Owns
<1>3. ASSUME NEW w \in Workers, pc[w] \notin Inactive, pc'[w] \in Inactive,
             \A v \in Workers \ {w} : pc'[v] = pc[v]
      PROVE  ActiveOwns'
  BY <1>3 DEF ActiveOwns, Owns
<1>4. ASSUME UNCHANGED pc, UNCHANGED <<queue, owner>> \/ owner = NoWorker PROVE ActiveOwns'
  BY <1>1, <1>4 DEF ActiveOwns, Owns
<1>5. ASSUME EnqueueOnce PROVE UNCHANGED <<queue, owner>> \/ owner = NoWorker
  BY <1>1, <1>5 DEF EnqueueOnce, queueVars, QueueOK
<1>6. ASSUME NEW w \in Workers, Advance(w) \/ Fails(w) \/ Crash(w) PROVE ActiveOwns'
  <2>0. \A v \in Workers \ {w} : pc'[v] = pc[v]
    BY <1>6, PlanOfStep
  <2>1. CASE Claim(w)
    <3>1. queue = "PENDING" /\ owner = NoWorker /\ queue' = "RUNNING" /\ owner' = w
      BY <1>1, <2>1 DEF Claim, QueueOK
    <3>2. \A v \in Workers \ {w} : pc'[v] \in Inactive
      BY <1>1, <2>0, <3>1 DEF ActiveOwns, Owns
    <3> QED BY <3>1, <3>2 DEF ActiveOwns, Owns
  <2>2. CASE Complete(w)
    <3>1. pc[w] \notin Inactive /\ pc'[w] \in Inactive
      BY <1>1, <2>2 DEF Complete, Goto, Inactive
    <3> QED BY <1>3, <2>0, <3>1
  <2>3. CASE Hook(w)
    <3>1. pc'[w] \in Inactive
      BY <1>1, <2>3 DEF Hook, Release, Goto, Inactive
    <3>2. \A v \in Workers \ {w} : Owns(v) => Owns(v)'
      BY <1>1, <1>5, <2>3 DEF Hook, Drop, Owns
    <3> QED BY <2>0, <3>1, <3>2 DEF ActiveOwns
  <2>4. CASE Requeue(w)
    <3>1. pc[w] \notin Inactive /\ pc'[w] \in Inactive
      BY <1>1, <2>4 DEF Requeue, Release, Goto, Inactive
    <3> QED BY <1>3, <2>0, <3>1
  <2>5. CASE Crash(w)
    <3>1. pc'[w] \in Inactive
      BY <1>1, <2>5 DEF Crash, Release, Goto, Inactive
    <3>2. \A v \in Workers \ {w} : Owns(v) => Owns(v)'
      BY <1>1, <2>5 DEF Crash, Drop, Owns
    <3> QED BY <2>0, <3>1, <3>2 DEF ActiveOwns
  <2>6. CASE Abandon(w) \/ Open(w) \/ Mark(w) \/ Load(w) \/ RowGuard(w) \/ RowWrite(w)
               \/ Progress(w) \/ Decide(w) \/ Commit(w) \/ Tally(w)
    <3>1. pc[w] \notin Inactive /\ UNCHANGED queueVars
      BY <2>6 DEF Abandon, Open, Mark, Load, RowGuard, RowWrite, Progress, Decide,
         Commit, Tally, Inactive, Guards
    <3> QED BY <1>2, <2>0, <3>1
  <2>7. CASE Check(w) \/ Verify(w) \/ Finish(w) \/ Yield(w) \/ Settle(w) \/ Error(w)
               \/ FailImport(w) \/ Fails(w)
    <3>1. pc[w] \notin Inactive /\ UNCHANGED queueVars
      BY <2>7 DEF Check, Verify, Finish, Yield, Settle, Error, FailImport, Fails, Inactive
    <3> QED BY <1>2, <2>0, <3>1
  <2> QED BY <1>6, <2>1, <2>2, <2>3, <2>4, <2>5, <2>6, <2>7 DEF Advance
<1>7. CASE ExpireAbandoned BY <1>4, <1>7 DEF ExpireAbandoned, workerVars
<1>8. ~ExpireHeld BY DEF ExpireHeld
<1>9. CASE Sweep BY <1>4, <1>5, <1>9 DEF Sweep, SweepRead, SweepInsert, queueVars, workerVars
<1>10. CASE Pause \/ Resume \/ Retry \/ Cancel \/ RecoverStaleJob \/ CancelSession
  BY <1>4, <1>10 DEF Pause, Resume, Retry, Cancel, RecoverStaleJob, CancelSession, queueVars,
     Request, workerVars
<1>11. CASE Run \/ EnqueueAsked
  BY <1>4, <1>5, <1>11 DEF Run, EnqueueAsked, Request, workerVars
<1>12. CASE Withdraw
  BY <1>1, <1>4, <1>12 DEF Withdraw, QueueOK, queueVars, workerVars
<1>13. CASE UNCHANGED vars BY <1>4, <1>13 DEF vars
<1> QED BY <1>6, <1>7, <1>8, <1>9, <1>10, <1>11, <1>12, <1>13 DEF Next, UserNext

(* A worker sets out for a commit only while its session is running.       *)
LEMMA SetsOut ==
  ASSUME TypeInv, [Next]_vars, NEW w \in Workers, pc'[w] \in BeforeCommit,
         session # "running"
  PROVE  pc[w] \in BeforeCommit
<1>1. pc \in [Workers -> PCs]
  BY DEF TypeInv, TypeOK, WorkersOK
<1>2. ASSUME NEW v \in Workers, Advance(v) \/ Fails(v) \/ Crash(v), v # w
      PROVE  pc'[w] = pc[w]
  BY <1>2, PlanOfStep
<1>3. ASSUME Advance(w) \/ Fails(w) \/ Crash(w) PROVE pc[w] \in BeforeCommit
  <2>1. CASE pc'[w] \in InBatch
    BY <1>3, <2>1, OutOfBatch DEF Load, RowGuard, RowWrite, Progress, Decide, BeforeCommit, InBatch
  <2>2. CASE pc'[w] \in {"mark", "load"}
    <3>1. ASSUME NEW l, Goto(w, l) PROVE l \in {"mark", "load"}
      BY <1>1, <2>2, <3>1 DEF Goto
    <3>2. ~Open(w)
      BY <3>1 DEF Open, EndWith, IsMigrationCancelled
    <3>3. ~(Claim(w) \/ Load(w) \/ RowGuard(w) \/ RowWrite(w) \/ Progress(w) \/ Decide(w))
      BY <1>1, <2>2 DEF Claim, Load, RowGuard, RowWrite, Progress, Decide, EndWith, Goto
    <3>4. ~(Commit(w) \/ Tally(w) \/ Check(w) \/ Verify(w) \/ Finish(w) \/ Yield(w))
      BY <3>1 DEF Commit, Tally, Check, Verify, Finish, Yield, EndWith
    <3>5. ~(Settle(w) \/ Complete(w) \/ Error(w) \/ FailImport(w) \/ Abandon(w) \/ Hook(w)
              \/ Requeue(w) \/ Crash(w) \/ Fails(w))
      BY <3>1 DEF Settle, Complete, Error, FailImport, Abandon, Hook, Requeue, Crash, Fails, Release
    <3>6. Mark(w)
      BY <1>3, <3>2, <3>3, <3>4, <3>5 DEF Advance
    <3> QED BY <3>6 DEF Mark, BeforeCommit
  <2> QED BY <2>1, <2>2 DEF BeforeCommit
<1>4. CASE ExpireAbandoned \/ ExpireHeld \/ Sweep \/ UserNext
  BY <1>4, OutsideKeepsWorkers DEF TypeInv, workerVars
<1>5. CASE UNCHANGED vars BY <1>5 DEF vars
<1> QED BY <1>2, <1>3, <1>4, <1>5 DEF Next

LEMMA LateStep ==
  ASSUME TypeInv, [Next]_vars
  PROVE  /\ UNCHANGED late \/ \E w \in Workers : Commit(w)
         /\ session # "running" => session' # "running"
<1>1. ASSUME NEW w \in Workers, Advance(w) PROVE UNCHANGED late \/ Commit(w)
  <2>1. CASE Claim(w) \/ Abandon(w) \/ Open(w) \/ Mark(w) \/ Load(w) \/ RowGuard(w)
               \/ RowWrite(w) \/ Progress(w) \/ Decide(w) \/ Complete(w) \/ FailImport(w)
    BY <2>1 DEF Claim, Abandon, Open, Mark, Load, RowGuard, RowWrite, Progress, Decide,
       Complete, FailImport, envVars
  <2>2. CASE Tally(w) \/ Check(w) \/ Verify(w) \/ Finish(w) \/ Yield(w) \/ Settle(w)
               \/ Hook(w) \/ Error(w) \/ Requeue(w)
    BY <2>2 DEF Tally, Check, Verify, Finish, Yield, Settle, Hook, Error, Requeue, envVars
  <2> QED BY <1>1, <2>1, <2>2 DEF Advance
<1>2. ASSUME NEW w \in Workers, Fails(w) \/ Crash(w) PROVE UNCHANGED late
  BY <1>2 DEF Fails, Crash, envVars
<1>3. ASSUME ExpireAbandoned \/ ExpireHeld \/ Sweep \/ UserNext
      PROVE  UNCHANGED late /\ (session # "running" => session' # "running")
  BY <1>3 DEF UserNext, Pause, Resume, Retry, Run, Cancel, RecoverStaleJob, CancelSession,
     Request, EnqueueAsked, Withdraw, ExpireAbandoned, ExpireHeld, Sweep, SweepRead,
     SweepInsert, envVars
<1>4. CASE UNCHANGED vars BY <1>4 DEF vars
<1> QED BY <1>1, <1>2, <1>3, <1>4, WorkerSession DEF Next

LEMMA StepCommit == MaxStalls = 0 /\ CommitInv /\ [Next]_vars => CommitInv'
<1> SUFFICES ASSUME MaxStalls = 0, CommitInv, [Next]_vars PROVE CommitInv'
  OBVIOUS
<1>1. /\ TypeInv /\ TypeInv' /\ stalls' = 0 /\ ActiveOwns' /\ pc \in [Workers -> PCs]
      /\ late \in Nat
  BY StepType, StallsStep, ActiveStep DEF CommitInv, TypeInv, TypeOK, WorkersOK, EnvironmentOK
<1>2. CASE UNCHANGED late
  BY <1>1, <1>2, LateStep, SetsOut DEF CommitInv
<1>3. ASSUME NEW w \in Workers, Commit(w) PROVE CommitInv'
  <2>1. /\ pc[w] = "commit" /\ UNCHANGED session
        /\ late' = IF session # "running" THEN late + 1 ELSE late
        /\ pc'[w] \in {"verify", "tally"}
    BY <1>1, <1>3 DEF Commit, Goto
  <2>2. late = 0
    BY <1>1, <2>1 DEF CommitInv, BeforeCommit, InBatch
  <2>3. \A v \in Workers \ {w} : pc'[v] = pc[v] /\ pc[v] \in Inactive
    BY <1>1, <1>3, <2>1 DEF Commit, Goto, CommitInv, ActiveOwns, Owns, Inactive
  <2> QED BY <1>1, <2>1, <2>2, <2>3 DEF CommitInv, BeforeCommit, InBatch, Inactive
<1> QED BY <1>1, <1>2, <1>3, LateStep

(* A cancelled session's import commits the batch under way and no other,  *)
(* whatever crashes, fails or is retried, as long as every live worker's   *)
(* heartbeats arrive in time.                                              *)
THEOREM OneBatchIsCommitted == ASSUME MaxStalls = 0 PROVE Spec => []OneBatchAfterCancel
<1>1. Init => CommitInv
  BY InitType DEF Init, CommitInv, ActiveOwns, Inactive
<1>2. CommitInv /\ [Next]_vars => CommitInv'
  BY StepCommit
<1>3. CommitInv => OneBatchAfterCancel
  BY DEF CommitInv, OneBatchAfterCancel
<1> QED BY <1>1, <1>2, <1>3, PTL DEF Spec
=============================================================================
