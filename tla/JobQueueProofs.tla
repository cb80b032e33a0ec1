--------------------------- MODULE JobQueueProofs ---------------------------
(* TLAPS proofs about JobQueue, for every set of rows and workers, every   *)
(* routing and every bound.                                                *)
EXTENDS JobQueue, TLAPS

(* Giving a lease up, or moving on with it, keeps the workers' types.      *)
LEMMA ReleaseType ==
  ASSUME LeasesOK, NEW w \in Workers, Release(w)
  PROVE  LeasesOK'
BY JobsAssumption DEF LeasesOK, Release, Goto, PCs

LEMMA GotoType ==
  ASSUME LeasesOK, NEW w \in Workers, NEW l \in PCs, l = "select" \/ held[w] \in Jobs,
         Goto(w, l), UNCHANGED <<held, attempt, lost>>
  PROVE  LeasesOK'
BY DEF LeasesOK, Goto

LEMMA TakeRowType ==
  ASSUME RowsOK, LeasesOK, NEW w \in Workers, pc[w] = "claim", TakeRow(w)
  PROVE  RowsOK'
<1> DEFINE j == held[w]
<1>1. j \in Jobs /\ attempt[w] \in Nat /\ claims[j] \in Nat
  BY DEF LeasesOK, RowsOK
<1>2. /\ status' = [status EXCEPT ![j] = "RUNNING"]
      /\ attempts' = [attempts EXCEPT ![j] = attempt[w] + 1]
      /\ stale' = [stale EXCEPT ![j] = FALSE]
      /\ claims' = [claims EXCEPT ![j] = claims[j] + 1]
      /\ UNCHANGED <<due, completed, deadLetters>>
  BY DEF TakeRow
<1> QED BY <1>1, <1>2 DEF RowsOK, Statuses

(* Type correctness of the queue and of every worker's program counter.    *)
LEMMA InitType == Init => TypeOK
  BY DEF Init, TypeOK, RowsOK, LeasesOK, CountsOK, Statuses, PCs

LEMMA StepRowsType == TypeOK /\ [Next]_vars => RowsOK'
<1> SUFFICES ASSUME RowsOK, LeasesOK, [Next]_vars PROVE RowsOK'
  BY DEF TypeOK
<1> USE DEF RowsOK, Statuses
<1>1. ASSUME NEW w \in Workers, Advance(w) PROVE RowsOK'
  <2>1. CASE RecoverStale(w) BY <2>1 DEF RecoverStale
  <2>2. CASE Select(w) BY <2>2 DEF Select, rows
  <2>3. CASE Claim(w) BY <2>3, TakeRowType DEF Claim, rows
  <2>4. CASE Start(w) BY <2>4 DEF Start, Matches
  <2>5. CASE AssertOwned(w) BY <2>5 DEF AssertOwned, rows
  <2>6. CASE FirstHeartbeat(w) BY <2>6 DEF FirstHeartbeat, Refresh, rows
  <2>7. CASE HandlerEnds(w) BY <2>7 DEF HandlerEnds, rows
  <2>8. CASE Complete(w) BY <2>8 DEF Complete, CompleteRow, rows
  <2>9. CASE LogCompletion(w) BY <2>9 DEF LogCompletion
  <2>10. CASE FailRead(w) BY <2>10 DEF FailRead, rows
  <2>11. CASE Retry(w) BY <2>11 DEF Retry, rows
  <2>12. CASE Bury(w) BY <2>12 DEF Bury, rows
  <2>13. CASE DeadLetter(w) BY <2>13 DEF DeadLetter
  <2> QED BY <1>1, <2>1, <2>2, <2>3, <2>4, <2>5, <2>6, <2>7, <2>8, <2>9, <2>10, <2>11,
             <2>12, <2>13 DEF Advance
<1>2. ASSUME NEW w \in Workers, Disturb(w) PROVE RowsOK'
  <2>1. CASE ClaimFails(w) BY <2>1, TakeRowType DEF ClaimFails, rows
  <2>2. CASE AssertFails(w) BY <2>2 DEF AssertFails, rows
  <2>3. CASE Heartbeat(w) BY <2>3 DEF Heartbeat, Refresh, rows
  <2>4. CASE HeartbeatFails(w) BY <2>4 DEF HeartbeatFails, rows
  <2>5. CASE CompleteFails(w) BY <2>5 DEF CompleteFails, CompleteRow, rows
  <2>6. CASE ReadFails(w) BY <2>6 DEF ReadFails, rows
  <2>7. CASE Crash(w) BY <2>7 DEF Crash, rows
  <2> QED BY <1>2, <2>1, <2>2, <2>3, <2>4, <2>5, <2>6, <2>7 DEF Disturb
<1>3. ASSUME NEW j \in Jobs, RowNext(j) PROVE RowsOK'
  BY <1>3 DEF RowNext, Enqueue, CancelPending, BecomeDue, ExpireAbandoned, ExpireHeld, Expire
<1>4. CASE UNCHANGED vars
  BY <1>4 DEF vars
<1> QED BY <1>1, <1>2, <1>3, <1>4 DEF Next

LEMMA StepLeasesType == TypeOK /\ [Next]_vars => LeasesOK'
<1> SUFFICES ASSUME RowsOK, LeasesOK, [Next]_vars PROVE LeasesOK'
  BY DEF TypeOK
<1>1. ASSUME NEW w \in Workers, pc[w] \notin {"idle", "select"} PROVE held[w] \in Jobs
  BY <1>1 DEF LeasesOK
<1>2. ASSUME NEW w \in Workers, UNCHANGED <<pc, held, attempt>>,
             lost' = [lost EXCEPT ![w] = TRUE] \/ UNCHANGED lost
      PROVE  LeasesOK'
  BY <1>2 DEF LeasesOK
<1>3. ASSUME NEW w \in Workers, Advance(w) PROVE LeasesOK'
  <2> USE <1>1, ReleaseType, GotoType DEF PCs, Leased, Beating
  <2>1. CASE RecoverStale(w) BY <2>1 DEF RecoverStale
  <2>2. CASE Select(w)
    <3>1. CASE Release(w) BY <3>1
    <3>2. CASE ~Release(w)
      <4>1. PICK j \in Jobs : /\ pc' = [pc EXCEPT ![w] = "claim"]
                              /\ held' = [held EXCEPT ![w] = j]
                              /\ attempt' = [attempt EXCEPT ![w] = attempts[j]]
                              /\ UNCHANGED lost
        BY <2>2, <3>2, RoutingAssumption DEF Select, Eligible, Goto
      <4>2. attempts[j] \in Nat
        BY <4>1 DEF RowsOK
      <4> QED BY <4>1, <4>2 DEF LeasesOK
    <3> QED BY <3>1, <3>2
  <2>3. CASE Claim(w)
    <3>1. CASE Release(w) BY <3>1
    <3>2. CASE ~Release(w)
      <4>1. /\ pc' = [pc EXCEPT ![w] = "start"]
            /\ attempt' = [attempt EXCEPT ![w] = attempt[w] + 1]
            /\ UNCHANGED <<held, lost>>
            /\ pc[w] = "claim"
        BY <2>3, <3>2 DEF Claim, Goto
      <4>2. attempt[w] + 1 \in Nat /\ held[w] \in Jobs
        BY <4>1 DEF LeasesOK
      <4> QED BY <4>1, <4>2 DEF LeasesOK
    <3> QED BY <3>1, <3>2
  <2>4. CASE Start(w) BY <2>4 DEF Start
  <2>5. CASE AssertOwned(w) BY <2>5 DEF AssertOwned
  <2>6. CASE FirstHeartbeat(w) BY <2>6 DEF FirstHeartbeat
  <2>7. CASE HandlerEnds(w) BY <2>7 DEF HandlerEnds
  <2>8. CASE Complete(w) BY <2>8 DEF Complete
  <2>9. CASE LogCompletion(w) BY <2>9 DEF LogCompletion
  <2>10. CASE FailRead(w) BY <2>10 DEF FailRead
  <2>11. CASE Retry(w) BY <2>11 DEF Retry
  <2>12. CASE Bury(w) BY <2>12 DEF Bury
  <2>13. CASE DeadLetter(w) BY <2>13 DEF DeadLetter
  <2> QED BY <1>3, <2>1, <2>2, <2>3, <2>4, <2>5, <2>6, <2>7, <2>8, <2>9, <2>10, <2>11,
             <2>12, <2>13 DEF Advance
<1>4. ASSUME NEW w \in Workers, Disturb(w) PROVE LeasesOK'
  <2> USE <1>1, <1>2, ReleaseType, GotoType DEF PCs, Leased, Beating
  <2>1. CASE ClaimFails(w) BY <2>1 DEF ClaimFails
  <2>2. CASE AssertFails(w) BY <2>2 DEF AssertFails
  <2>3. CASE Heartbeat(w) BY <2>3 DEF Heartbeat
  <2>4. CASE HeartbeatFails(w) BY <2>4 DEF HeartbeatFails
  <2>5. CASE CompleteFails(w) BY <2>5 DEF CompleteFails
  <2>6. CASE ReadFails(w) BY <2>6 DEF ReadFails
  <2>7. CASE Crash(w) BY <2>7 DEF Crash
  <2> QED BY <1>4, <2>1, <2>2, <2>3, <2>4, <2>5, <2>6, <2>7 DEF Disturb
<1>5. ASSUME NEW j \in Jobs, RowNext(j) PROVE LeasesOK'
  BY <1>5 DEF RowNext, Enqueue, CancelPending, BecomeDue, ExpireAbandoned, ExpireHeld, Expire,
              leases, LeasesOK
<1>6. CASE UNCHANGED vars
  BY <1>6 DEF vars, LeasesOK
<1> QED BY <1>3, <1>4, <1>5, <1>6 DEF Next

LEMMA StepCountsType == TypeOK /\ [Next]_vars => CountsOK'
<1> SUFFICES ASSUME CountsOK, [Next]_vars PROVE CountsOK'
  BY DEF TypeOK
<1> USE DEF CountsOK, Fault, counted
<1>1. ASSUME NEW w \in Workers, Advance(w) PROVE CountsOK'
  BY <1>1 DEF Advance, RecoverStale, Select, Claim, Start, AssertOwned, FirstHeartbeat,
              HandlerEnds, Complete, LogCompletion, FailRead, Retry, Bury, DeadLetter
<1>2. ASSUME NEW w \in Workers, Disturb(w) PROVE CountsOK'
  BY <1>2 DEF Disturb, ClaimFails, AssertFails, Heartbeat, HeartbeatFails, CompleteFails,
              ReadFails, Crash
<1>3. ASSUME NEW j \in Jobs, RowNext(j) PROVE CountsOK'
  BY <1>3 DEF RowNext, Enqueue, CancelPending, BecomeDue, ExpireAbandoned, ExpireHeld, Expire
<1>4. CASE UNCHANGED vars
  BY <1>4 DEF vars
<1> QED BY <1>1, <1>2, <1>3, <1>4 DEF Next

(* The rows and the workers' locals keep their types, however claims,      *)
(* failures, crashes and time-outs interleave.                             *)
THEOREM TypeCorrect == Spec => []TypeOK
<1>1. TypeOK /\ [Next]_vars => TypeOK'
  BY StepRowsType, StepLeasesType, StepCountsType DEF TypeOK
<1> QED BY <1>1, InitType, PTL DEF Spec

-----------------------------------------------------------------------------
(* Fencing.  A worker that lost its row is superseded: the row's attempts  *)
(* cannot match its own again, because the row has moved on to a larger    *)
(* number, or will at the next claim.                                      *)

Superseded(w) ==
  /\ attempts[held[w]] >= attempt[w]
  /\ status[held[w]] = "RUNNING" => attempts[held[w]] > attempt[w]
  /\ \A c \in Claimers(held[w]) : attempt[c] >= attempt[w]

LeaseInv == \A w \in Workers : pc[w] \in Leased => Matches(w) \/ Superseded(w)

StaleInv == \A j \in Jobs : status[j] = "RUNNING" /\ stale[j] => Claimers(j) = {}

FenceInv == LeaseInv /\ StaleInv /\ AtMostOneOwner

(* A step that starts no lease and no claim keeps the fence if a lease     *)
(* that matched goes on matching, ends, or loses a row nobody is claiming. *)
LEMMA QuietStep ==
  ASSUME TypeOK, TypeOK', FenceInv, UNCHANGED attempts,
         \A j \in Jobs : stale'[j] => stale[j],
         \A j \in Jobs : status'[j] = "RUNNING" => status[j] = "RUNNING",
         \A v \in Workers : pc'[v] \in Leased \/ pc'[v] = "claim" =>
           /\ pc'[v] = "claim" <=> pc[v] = "claim"
           /\ pc'[v] \in Leased <=> pc[v] \in Leased
           /\ held'[v] = held[v] /\ attempt'[v] = attempt[v],
         \A v \in Workers : pc'[v] \in Leased /\ Matches(v) =>
           status'[held[v]] = "RUNNING" \/ Claimers(held[v]) = {}
  PROVE  FenceInv'
<1> \A v \in Workers : pc[v] \in Leased => held[v] \in Jobs
  BY DEF TypeOK, LeasesOK, Leased, Beating
<1>1. ASSUME NEW j \in Jobs PROVE Claimers(j)' \subseteq Claimers(j)
  BY DEF Claimers
<1>2. LeaseInv'
  <2> SUFFICES ASSUME NEW w \in Workers, (pc[w] \in Leased)' PROVE (Matches(w) \/ Superseded(w))'
    BY DEF LeaseInv
  <2>1. pc[w] \in Leased /\ held'[w] = held[w] /\ attempt'[w] = attempt[w] /\ held[w] \in Jobs
    OBVIOUS
  <2>2. attempts[held[w]] \in Nat /\ attempt[w] \in Nat
    BY <2>1 DEF TypeOK, RowsOK, LeasesOK
  <2>3. CASE Matches(w) /\ status'[held[w]] = "RUNNING"
    BY <2>1, <2>3 DEF Matches
  <2>4. CASE Matches(w) /\ status'[held[w]] # "RUNNING"
    <3>1. Claimers(held[w])' = {}
      BY <1>1, <2>1, <2>4
    <3> QED BY <2>1, <2>2, <2>4, <3>1 DEF Superseded, Matches
  <2>5. CASE Superseded(w)
    <3>1. \A c \in Claimers(held[w])' : attempt'[c] >= attempt[w]
      BY <2>1, <2>5 DEF Superseded, Claimers
    <3> QED BY <2>1, <2>2, <2>5, <3>1 DEF Superseded
  <2> QED BY <2>1, <2>3, <2>4, <2>5 DEF FenceInv, LeaseInv
<1>3. StaleInv'
  BY <1>1 DEF FenceInv, StaleInv
<1>4. ASSUME NEW j \in Jobs, NEW w \in Workers, Owns(w, j)' PROVE Owns(w, j)
  BY <1>4 DEF Owns, Matches
<1>5. AtMostOneOwner'
  BY <1>4 DEF FenceInv, AtMostOneOwner
<1> QED BY <1>2, <1>3, <1>5 DEF FenceInv

(* A claim supersedes whoever held the row before: it was superseded while *)
(* the row was PENDING, so its number is at most the one this claimer read.*)
LEMMA TakeStep ==
  ASSUME TypeOK, TypeOK', FenceInv, NEW c \in Workers, pc[c] = "claim", TakeRow(c),
         \A v \in Workers \ {c} :
           pc'[v] = pc[v] /\ held'[v] = held[v] /\ attempt'[v] = attempt[v],
         \/ pc'[c] = "start" /\ held'[c] = held[c] /\ attempt'[c] = attempt[c] + 1
         \/ pc'[c] = "idle"
  PROVE  FenceInv'
<1>0. PICK j \in Jobs : j = held[c]
  BY DEF TypeOK, LeasesOK
<1>1. /\ j = held[c] /\ status[j] = "PENDING" /\ attempt[c] \in Nat
      /\ c \in Claimers(j)
      /\ pc'[c] # "claim" /\ (pc'[c] \in Leased => pc'[c] = "start")
  BY <1>0 DEF TypeOK, LeasesOK, TakeRow, Claimers, Leased, Beating
<1>2. /\ status' = [status EXCEPT ![j] = "RUNNING"]
      /\ attempts' = [attempts EXCEPT ![j] = attempt[c] + 1]
      /\ stale' = [stale EXCEPT ![j] = FALSE]
  BY <1>0 DEF TakeRow
<1>3. /\ status'[j] = "RUNNING" /\ attempts'[j] = attempt[c] + 1 /\ ~stale'[j]
      /\ \A i \in Jobs \ {j} :
           status'[i] = status[i] /\ attempts'[i] = attempts[i] /\ stale'[i] = stale[i]
  BY <1>1, <1>2 DEF TypeOK, RowsOK
<1>4. ASSUME NEW i \in Jobs PROVE Claimers(i)' \subseteq Claimers(i) \ {c}
  BY <1>1 DEF Claimers
<1>5. ASSUME NEW w \in Workers \ {c}, (pc[w] \in Leased)'
      PROVE  /\ pc[w] \in Leased /\ held'[w] = held[w] /\ attempt'[w] = attempt[w]
             /\ held[w] \in Jobs /\ attempt[w] \in Nat /\ attempts[held[w]] \in Nat
             /\ Matches(w) \/ Superseded(w)
  BY <1>5 DEF FenceInv, LeaseInv, TypeOK, LeasesOK, RowsOK, Leased, Beating
<1>6. ASSUME NEW w \in Workers \ {c}, (pc[w] \in Leased)', held[w] = j
      PROVE  attempt[c] + 1 > attempt[w]
  <2>1. Superseded(w)
    BY <1>1, <1>5, <1>6 DEF Matches
  <2> QED BY <1>1, <1>5, <1>6, <2>1 DEF Superseded
<1>7. ASSUME NEW w \in Workers, (pc[w] \in Leased)' PROVE (Matches(w) \/ Superseded(w))'
  <2>1. CASE w = c
    BY <1>1, <1>3, <1>7, <2>1 DEF Matches
  <2>2. CASE w # c /\ held[w] = j
    <3>1. \A d \in Claimers(j)' : attempt'[d] >= attempt[w]
      <4>1. Superseded(w)
        BY <1>1, <1>5, <1>7, <2>2 DEF Matches
      <4> QED BY <1>1, <1>4, <1>5, <1>7, <2>2, <4>1 DEF Superseded, Claimers
    <3> QED BY <1>1, <1>3, <1>5, <1>6, <1>7, <2>2, <3>1 DEF Superseded
  <2>3. CASE w # c /\ held[w] # j
    <3>1. \A d \in Claimers(held[w])' : d \in Claimers(held[w]) /\ attempt'[d] = attempt[d]
      BY <1>4, <1>5, <1>7, <2>3 DEF Claimers
    <3> QED BY <1>3, <1>5, <1>7, <2>3, <3>1 DEF Superseded, Matches
  <2> QED BY <2>1, <2>2, <2>3
<1>8. LeaseInv'
  BY <1>7 DEF LeaseInv
<1>9. StaleInv'
  BY <1>3, <1>4 DEF FenceInv, StaleInv
<1>10. ASSUME NEW i \in Jobs, NEW w \in Workers, Owns(w, i)'
       PROVE  IF i = j THEN w = c ELSE Owns(w, i)
  <2>1. (pc[w] \in Leased)' /\ held'[w] = i /\ status'[i] = "RUNNING" /\ attempts'[i] = attempt'[w]
    BY <1>10 DEF Owns, Matches
  <2>2. CASE w = c BY <1>1, <2>1, <2>2
  <2>3. CASE w # c /\ i = j BY <1>1, <1>3, <1>5, <1>6, <2>1, <2>3
  <2>4. CASE w # c /\ i # j BY <1>3, <1>5, <2>1, <2>4 DEF Owns, Matches
  <2> QED BY <2>2, <2>3, <2>4
<1>11. AtMostOneOwner'
  BY <1>10 DEF FenceInv, AtMostOneOwner
<1> QED BY <1>8, <1>9, <1>11 DEF FenceInv

(* A claimer that selects a PENDING row reads a number no superseded lease *)
(* exceeds.                                                                *)
LEMMA SelectStep ==
  ASSUME TypeOK, FenceInv, NEW c \in Workers, NEW j \in Jobs, status[j] = "PENDING",
         UNCHANGED rows,
         pc' = [pc EXCEPT ![c] = "claim"],
         held' = [held EXCEPT ![c] = j],
         attempt' = [attempt EXCEPT ![c] = attempts[j]]
  PROVE  FenceInv'
<1>1. /\ pc'[c] = "claim" /\ held'[c] = j /\ attempt'[c] = attempts[j]
      /\ \A v \in Workers \ {c} :
           pc'[v] = pc[v] /\ held'[v] = held[v] /\ attempt'[v] = attempt[v]
  BY DEF TypeOK, LeasesOK
<1>2. UNCHANGED <<status, attempts, stale>>
  BY DEF rows
<1>3. ASSUME NEW i \in Jobs PROVE Claimers(i)' \subseteq Claimers(i) \cup (IF i = j THEN {c} ELSE {})
  BY <1>1 DEF Claimers
<1>4. ASSUME NEW w \in Workers, (pc[w] \in Leased)' PROVE (Matches(w) \/ Superseded(w))'
  <2>1. w # c /\ pc[w] \in Leased /\ held[w] \in Jobs
    BY <1>1, <1>4 DEF TypeOK, LeasesOK, Leased, Beating
  <2>2. CASE Matches(w)
    BY <1>1, <1>2, <2>1, <2>2 DEF Matches
  <2>3. CASE Superseded(w)
    <3>1. \A d \in Claimers(held[w])' : attempt'[d] >= attempt[w]
      BY <1>1, <1>3, <2>1, <2>3 DEF Superseded, Claimers
    <3> QED BY <1>1, <1>2, <2>1, <2>3, <3>1 DEF Superseded
  <2> QED BY <2>1, <2>2, <2>3 DEF FenceInv, LeaseInv
<1>5. LeaseInv'
  BY <1>4 DEF LeaseInv
<1>6. StaleInv'
  BY <1>2, <1>3 DEF FenceInv, StaleInv
<1>7. ASSUME NEW i \in Jobs, NEW w \in Workers, Owns(w, i)' PROVE Owns(w, i)
  BY <1>1, <1>2, <1>7 DEF Owns, Matches, Leased, Beating
<1>8. AtMostOneOwner'
  BY <1>7 DEF FenceInv, AtMostOneOwner
<1> QED BY <1>5, <1>6, <1>8 DEF FenceInv

(* A lease times out only when no claimer has been waiting since before it.*)
LEMMA ExpireStep ==
  ASSUME TypeOK, FenceInv, PromptClaims, NEW j \in Jobs, Expire(j)
  PROVE  FenceInv'
<1>1. /\ UNCHANGED <<status, attempts, pc, held, attempt>>
      /\ stale' = [stale EXCEPT ![j] = TRUE] /\ Claimers(j) = {}
  BY DEF Expire, leases
<1>2. \A i \in Jobs : Claimers(i)' = Claimers(i)
  BY <1>1 DEF Claimers
<1>3. StaleInv'
  BY <1>1, <1>2 DEF FenceInv, StaleInv, TypeOK, RowsOK
<1>4. LeaseInv'
  BY <1>1 DEF FenceInv, LeaseInv, Matches, Superseded, Claimers
<1>5. AtMostOneOwner'
  BY <1>1 DEF FenceInv, AtMostOneOwner, Owns, Matches
<1> QED BY <1>3, <1>4, <1>5 DEF FenceInv

(* A worker that only moves on, gives up, or ends the row it owns.         *)
Withdraws(w) == pc'[w] \notin Leased \cup {"claim"}

Proceeds(w) ==
  pc[w] \in Leased /\ pc'[w] \in Leased /\ held'[w] = held[w] /\ attempt'[w] = attempt[w]

EndsRow(w) ==
  /\ pc[w] \in Leased /\ Matches(w)
  /\ \E x \in {"PENDING", "COMPLETED", "FAILED"} : status' = [status EXCEPT ![held[w]] = x]

OthersKeep(w) ==
  \A v \in Workers \ {w} : pc'[v] = pc[v] /\ held'[v] = held[v] /\ attempt'[v] = attempt[v]

LEMMA WorkerStep ==
  ASSUME TypeOK, TypeOK', FenceInv, NEW w \in Workers, OthersKeep(w),
         UNCHANGED attempts, \A j \in Jobs : stale'[j] => stale[j],
         \/ UNCHANGED status /\ (Withdraws(w) \/ Proceeds(w))
         \/ EndsRow(w) /\ Withdraws(w)
  PROVE  FenceInv'
<1>1. \A v \in Workers : pc'[v] \in Leased \/ pc'[v] = "claim" =>
           /\ pc'[v] = "claim" <=> pc[v] = "claim"
           /\ pc'[v] \in Leased <=> pc[v] \in Leased
           /\ held'[v] = held[v] /\ attempt'[v] = attempt[v]
  BY DEF OthersKeep, Withdraws, Proceeds, Leased, Beating
<1>2. \A j \in Jobs : status'[j] = "RUNNING" => status[j] = "RUNNING"
  BY DEF EndsRow, TypeOK, RowsOK
<1>3. ASSUME NEW v \in Workers, pc'[v] \in Leased, Matches(v)
      PROVE  status'[held[v]] = "RUNNING"
  <2>1. CASE UNCHANGED status
    BY <1>3, <2>1 DEF Matches
  <2>2. CASE EndsRow(w) /\ Withdraws(w)
    <3>1. v # w /\ pc[v] \in Leased /\ held[v] \in Jobs /\ held[w] \in Jobs
      BY <1>3, <2>2 DEF Withdraws, OthersKeep, EndsRow, TypeOK, LeasesOK, Leased, Beating
    <3>2. held[v] # held[w]
      BY <1>3, <2>2, <3>1 DEF EndsRow, FenceInv, AtMostOneOwner, Owns
    <3> QED BY <1>3, <2>2, <3>1, <3>2 DEF EndsRow, Matches, TypeOK, RowsOK
  <2> QED BY <2>1, <2>2
<1> QED BY <1>1, <1>2, <1>3, QuietStep

LEMMA ReleaseEffect ==
  ASSUME TypeOK, NEW w \in Workers, Release(w)
  PROVE  Withdraws(w) /\ OthersKeep(w)
BY DEF TypeOK, LeasesOK, Release, Goto, Withdraws, OthersKeep, Leased, Beating

LEMMA GotoEffect ==
  ASSUME TypeOK, NEW w \in Workers, NEW l, Goto(w, l), UNCHANGED <<held, attempt>>
  PROVE  OthersKeep(w) /\ pc'[w] = l
BY DEF TypeOK, LeasesOK, Goto, OthersKeep

(* RecoverStale takes rows from their owners, but only stale ones.         *)
LEMMA RecoverStep ==
  ASSUME TypeOK, TypeOK', FenceInv, NEW w \in Workers, RecoverStale(w)
  PROVE  FenceInv'
<1>1. /\ pc[w] = "idle" /\ pc' = [pc EXCEPT ![w] = "select"]
      /\ UNCHANGED <<attempts, held, attempt>>
      /\ \A j \in Jobs : stale'[j] => stale[j]
      /\ \A j \in Jobs : status'[j] = IF status[j] = "RUNNING" /\ stale[j]
                                       THEN "PENDING" ELSE status[j]
  BY DEF RecoverStale, Goto, TypeOK, RowsOK
<1>2. \A v \in Workers : pc'[v] \in Leased \/ pc'[v] = "claim" =>
           /\ pc'[v] = pc[v] /\ held'[v] = held[v] /\ attempt'[v] = attempt[v]
  BY <1>1 DEF TypeOK, LeasesOK, Leased, Beating
<1>3. ASSUME NEW v \in Workers, pc'[v] \in Leased, Matches(v)
      PROVE  status'[held[v]] = "RUNNING" \/ Claimers(held[v]) = {}
  <2>1. held[v] \in Jobs
    BY <1>2, <1>3 DEF TypeOK, LeasesOK, Leased, Beating
  <2> QED BY <1>1, <1>3, <2>1 DEF FenceInv, StaleInv, Matches
<1> QED BY <1>1, <1>2, <1>3, QuietStep

LEMMA FenceStep ==
  ASSUME PromptClaims, TypeOK, TypeOK', FenceInv, [Next]_vars
  PROVE  FenceInv'
<1>1. ASSUME NEW w \in Workers, Advance(w) PROVE FenceInv'
  <2> USE ReleaseEffect, GotoEffect, WorkerStep DEF rows
  <2> USE DEF Proceeds, Withdraws, Leased, Beating
  <2>1. CASE RecoverStale(w) BY <2>1, RecoverStep
  <2>2. CASE Select(w)
    <3>1. CASE Release(w)
      BY <2>2, <3>1 DEF Select
    <3>2. CASE ~Release(w)
      <4>1. PICK j \in Jobs : /\ status[j] = "PENDING"
                              /\ pc' = [pc EXCEPT ![w] = "claim"]
                              /\ held' = [held EXCEPT ![w] = j]
                              /\ attempt' = [attempt EXCEPT ![w] = attempts[j]]
        BY <2>2, <3>2, RoutingAssumption DEF Select, Eligible, Goto
      <4> QED BY <2>2, <4>1, SelectStep DEF Select
    <3> QED BY <3>1, <3>2
  <2>3. CASE Claim(w)
    <3>1. CASE Release(w) /\ UNCHANGED rows
      BY <3>1
    <3>2. CASE TakeRow(w) /\ Goto(w, "start")
      <4>1. /\ pc[w] = "claim" /\ pc' = [pc EXCEPT ![w] = "start"]
            /\ held' = held /\ attempt' = [attempt EXCEPT ![w] = attempt[w] + 1]
        BY <2>3, <3>2 DEF Claim, Goto, Release, TypeOK, LeasesOK, TakeRow
      <4> QED BY <3>2, <4>1, TakeStep DEF TypeOK, LeasesOK
    <3> QED BY <2>3, <3>1, <3>2 DEF Claim
  <2>4. CASE Start(w)
    <3>1. \A j \in Jobs : stale'[j] => stale[j]
      BY <2>4 DEF Start, TypeOK, RowsOK
    <3> QED BY <2>4, <3>1 DEF Start
  <2>5. CASE AssertOwned(w) BY <2>5 DEF AssertOwned
  <2>6. CASE FirstHeartbeat(w)
    <3>1. \A j \in Jobs : stale'[j] => stale[j]
      BY <2>6 DEF FirstHeartbeat, Refresh, TypeOK, RowsOK
    <3> QED BY <2>6, <3>1 DEF FirstHeartbeat, Refresh
  <2>7. CASE HandlerEnds(w) BY <2>7 DEF HandlerEnds
  <2>8. CASE Complete(w)
    <3>1. CASE CompleteRow(w)
      <4>1. \A j \in Jobs : stale'[j] => stale[j]
        BY <3>1 DEF CompleteRow, TypeOK, RowsOK
      <4>2. pc[w] = "complete" /\ Goto(w, "log") /\ UNCHANGED <<held, attempt>>
        BY <2>8, <3>1 DEF Complete, CompleteRow
      <4>3. Withdraws(w) /\ OthersKeep(w)
        BY <4>2
      <4>4. EndsRow(w)
        BY <3>1, <4>2 DEF CompleteRow, EndsRow, Statuses
      <4> QED BY <3>1, <4>1, <4>3, <4>4 DEF CompleteRow
    <3>2. CASE ~CompleteRow(w) BY <2>8, <3>2 DEF Complete
    <3> QED BY <3>1, <3>2
  <2>9. CASE LogCompletion(w) BY <2>9 DEF LogCompletion
  <2>10. CASE FailRead(w) BY <2>10 DEF FailRead
  <2>11. CASE Retry(w)
    <3>1. Withdraws(w) /\ OthersKeep(w) /\ UNCHANGED attempts
      BY <2>11 DEF Retry
    <3>2. \A j \in Jobs : stale'[j] => stale[j]
      BY <2>11 DEF Retry, TypeOK, RowsOK
    <3>3. UNCHANGED status \/ EndsRow(w)
      BY <2>11 DEF Retry, EndsRow, Statuses
    <3> QED BY <3>1, <3>2, <3>3
  <2>12. CASE Bury(w)
    <3>1. Withdraws(w) /\ OthersKeep(w) /\ UNCHANGED attempts
      BY <2>12 DEF Bury
    <3>2. \A j \in Jobs : stale'[j] => stale[j]
      BY <2>12 DEF Bury, TypeOK, RowsOK
    <3>3. UNCHANGED status \/ EndsRow(w)
      BY <2>12 DEF Bury, EndsRow, Statuses
    <3> QED BY <3>1, <3>2, <3>3
  <2>13. CASE DeadLetter(w) BY <2>13 DEF DeadLetter
  <2> QED BY <1>1, <2>1, <2>2, <2>3, <2>4, <2>5, <2>6, <2>7, <2>8, <2>9, <2>10, <2>11,
             <2>12, <2>13 DEF Advance
<1>2. ASSUME NEW w \in Workers, Disturb(w) PROVE FenceInv'
  <2> USE ReleaseEffect, GotoEffect, WorkerStep DEF rows
  <2> USE DEF Proceeds, Withdraws, Leased, Beating
  <2>1. CASE ClaimFails(w)
    <3>1. CASE TakeRow(w)
      <4>1. pc[w] = "claim" /\ OthersKeep(w) /\ pc'[w] = "idle"
        BY <2>1 DEF ClaimFails, Release, Goto, TypeOK, LeasesOK
      <4> QED BY <3>1, <4>1, TakeStep DEF OthersKeep
    <3>2. CASE UNCHANGED rows BY <2>1, <3>2 DEF ClaimFails
    <3> QED BY <2>1, <3>1, <3>2 DEF ClaimFails
  <2>2. CASE AssertFails(w) BY <2>2 DEF AssertFails
  <2>3. CASE Heartbeat(w)
    <3>1. \A j \in Jobs : stale'[j] => stale[j]
      BY <2>3 DEF Heartbeat, Refresh, TypeOK, RowsOK
    <3> QED BY <2>3, <3>1 DEF Heartbeat, Refresh, OthersKeep
  <2>4. CASE HeartbeatFails(w)
    <3>1. CASE pc[w] = "beat" BY <2>4, <3>1 DEF HeartbeatFails
    <3>2. CASE pc[w] # "beat" BY <2>4, <3>2 DEF HeartbeatFails, OthersKeep
    <3> QED BY <3>1, <3>2
  <2>5. CASE CompleteFails(w)
    <3>1. CASE CompleteRow(w)
      <4>1. \A j \in Jobs : stale'[j] => stale[j]
        BY <3>1 DEF CompleteRow, TypeOK, RowsOK
      <4>2. EndsRow(w) /\ Withdraws(w) /\ OthersKeep(w)
        BY <2>5, <3>1 DEF CompleteFails, CompleteRow, EndsRow, Statuses
      <4> QED BY <3>1, <4>1, <4>2 DEF CompleteRow
    <3>2. CASE ~CompleteRow(w) BY <2>5, <3>2 DEF CompleteFails
    <3> QED BY <3>1, <3>2
  <2>6. CASE ReadFails(w)
    <3>1. CASE pc[w] = "idle" BY <2>6, <3>1 DEF ReadFails
    <3>2. CASE pc[w] # "idle" BY <2>6, <3>2 DEF ReadFails
    <3> QED BY <3>1, <3>2
  <2>7. CASE Crash(w) BY <2>7 DEF Crash
  <2> QED BY <1>2, <2>1, <2>2, <2>3, <2>4, <2>5, <2>6, <2>7 DEF Disturb
<1>3. ASSUME NEW j \in Jobs, RowNext(j) PROVE FenceInv'
  <2>1. CASE Expire(j) BY <2>1, ExpireStep
  <2>2. CASE ~Expire(j)
    <3>1. UNCHANGED <<attempts, stale, pc, held, attempt>>
      BY <1>3, <2>2 DEF RowNext, Enqueue, CancelPending, BecomeDue, ExpireAbandoned,
                        ExpireHeld, leases
    <3>2. \A i \in Jobs : (status'[i] = "RUNNING") = (status[i] = "RUNNING")
      BY <1>3, <2>2 DEF RowNext, Enqueue, CancelPending, BecomeDue, ExpireAbandoned,
                        ExpireHeld, TypeOK, RowsOK
    <3>3. \A v \in Workers : pc[v] \in Leased /\ Matches(v) => status'[held[v]] = "RUNNING"
      BY <3>2 DEF Matches, TypeOK, LeasesOK, Leased, Beating
    <3> QED BY <3>1, <3>2, <3>3, QuietStep
  <2> QED BY <2>1, <2>2
<1>4. CASE UNCHANGED vars
  BY <1>4, QuietStep DEF vars, Matches
<1> QED BY <1>1, <1>2, <1>3, <1>4 DEF Next

(* If every claim is prompt, no two workers ever hold the same lease: the  *)
(* attempt guard of queue.ts fences a stale worker off.                    *)
THEOREM Fencing ==
  ASSUME PromptClaims
  PROVE  Spec => []AtMostOneOwner
<1>1. Init => FenceInv
  BY DEF Init, FenceInv, LeaseInv, StaleInv, AtMostOneOwner, Owns, Leased, Beating
<1>2. TypeOK /\ TypeOK' /\ FenceInv /\ [Next]_vars => FenceInv'
  BY FenceStep
<1>3. FenceInv => AtMostOneOwner
  BY DEF FenceInv
<1> QED BY <1>1, <1>2, <1>3, TypeCorrect, PTL DEF Spec

-----------------------------------------------------------------------------
(* No request of any worker takes up a row that has ended: each write that *)
(* changes a status has the status it expects in its WHERE clause.         *)
THEOREM TerminalRowsAreFinal == Spec => TerminalIsFinal
<1>1. ASSUME TypeOK, [Next]_vars, NEW j \in Jobs, status[j] \in Terminal
      PROVE  status'[j] = status[j]
  <2> USE <1>1 DEF Terminal, TypeOK, RowsOK, rows
  <2>1. ASSUME NEW w \in Workers, Advance(w) PROVE status'[j] = status[j]
    BY <2>1 DEF Advance, RecoverStale, Select, Claim, TakeRow, Start, AssertOwned,
                FirstHeartbeat, Refresh, HandlerEnds, Complete, CompleteRow, LogCompletion,
                FailRead, Retry, Bury, DeadLetter, Matches
  <2>2. ASSUME NEW w \in Workers, Disturb(w) PROVE status'[j] = status[j]
    BY <2>2 DEF Disturb, ClaimFails, TakeRow, AssertFails, Heartbeat, Refresh,
                HeartbeatFails, CompleteFails, CompleteRow, ReadFails, Crash, Matches
  <2>3. ASSUME NEW i \in Jobs, RowNext(i) PROVE status'[j] = status[j]
    BY <2>3 DEF RowNext, Enqueue, CancelPending, BecomeDue, ExpireAbandoned, ExpireHeld, Expire
  <2>4. CASE UNCHANGED vars
    BY <2>4 DEF vars
  <2> QED BY <2>1, <2>2, <2>3, <2>4 DEF Next
<1>2. TypeOK /\ [Next]_vars =>
        [\A j \in Jobs : status[j] \in Terminal => status'[j] = status[j]]_vars
  BY <1>1
<1> QED BY <1>2, TypeCorrect, PTL DEF Spec, TerminalIsFinal

-----------------------------------------------------------------------------
(* attempts is overwritten from stale reads, but every write adds one to a *)
(* number that earlier claims accounted for.                               *)
CountInv ==
  /\ \A j \in Jobs : attempts[j] <= claims[j]
  /\ \A w \in Workers :
       /\ pc[w] = "claim" => attempt[w] <= claims[held[w]]
       /\ pc[w] \in {"bury", "deadletter"} => claims[held[w]] >= MaxAttempts
  /\ NeverGivenUpEarly

Doomed == {"bury", "deadletter"}

(* A step that makes no claim: a claimer reads the row's own attempts, and *)
(* a job is given up by a worker that read enough of them.                 *)
LEMMA CountQuiet ==
  ASSUME TypeOK, TypeOK', CountInv, UNCHANGED <<attempts, claims>>,
         \A w \in Workers : pc'[w] = "claim" =>
           \/ pc[w] = "claim" /\ held'[w] = held[w] /\ attempt'[w] = attempt[w]
           \/ attempt'[w] = attempts[held'[w]],
         \A w \in Workers : pc'[w] \in Doomed =>
           held'[w] = held[w] /\ (pc[w] \in Doomed \/ attempts[held[w]] >= MaxAttempts),
         \A j \in Jobs : status'[j] = "FAILED" \/ deadLetters'[j] > 0 =>
           \/ status[j] = "FAILED" \/ deadLetters[j] > 0
           \/ \E w \in Workers : pc[w] \in Doomed /\ held[w] = j
  PROVE  CountInv'
<1>1. ASSUME NEW w \in Workers, pc'[w] = "claim" PROVE attempt'[w] <= claims[held'[w]]
  <2>1. held'[w] \in Jobs /\ attempts[held'[w]] <= claims[held'[w]]
    BY <1>1 DEF TypeOK, LeasesOK, CountInv
  <2> QED BY <1>1, <2>1 DEF CountInv
<1>2. ASSUME NEW w \in Workers, pc'[w] \in Doomed PROVE claims[held'[w]] >= MaxAttempts
  <2>1. /\ held'[w] \in Jobs /\ held'[w] = held[w]
        /\ attempts[held[w]] \in Nat /\ claims[held[w]] \in Nat
        /\ attempts[held[w]] <= claims[held[w]]
    BY <1>2 DEF TypeOK, LeasesOK, RowsOK, CountInv, Doomed
  <2> QED BY <1>2, <2>1, AttemptsAssumption DEF CountInv, Doomed
<1>3. NeverGivenUpEarly'
  BY DEF CountInv, NeverGivenUpEarly, Doomed
<1> QED BY <1>1, <1>2, <1>3 DEF CountInv, Doomed

LEMMA CountWorker ==
  ASSUME TypeOK, TypeOK', CountInv, UNCHANGED <<attempts, claims>>,
         NEW w \in Workers, OthersKeep(w), pc'[w] # "claim",
         pc'[w] \in Doomed =>
           held'[w] = held[w] /\ (pc[w] \in Doomed \/ attempts[held[w]] >= MaxAttempts),
         \A j \in Jobs : (status'[j] = "FAILED" => status[j] = "FAILED")
                          \/ (pc[w] \in Doomed /\ held[w] = j),
         \A j \in Jobs : deadLetters'[j] = deadLetters[j]
                          \/ (pc[w] \in Doomed /\ held[w] = j)
  PROVE  CountInv'
BY CountQuiet DEF OthersKeep

LEMMA CountTake ==
  ASSUME TypeOK, TypeOK', CountInv, NEW c \in Workers, pc[c] = "claim", TakeRow(c),
         \A v \in Workers \ {c} :
           pc'[v] = pc[v] /\ held'[v] = held[v] /\ attempt'[v] = attempt[v],
         pc'[c] \in {"start", "idle"}
  PROVE  CountInv'
<1>0. PICK j \in Jobs : j = held[c]
  BY DEF TypeOK, LeasesOK
<1>1. /\ attempts' = [attempts EXCEPT ![j] = attempt[c] + 1]
      /\ claims' = [claims EXCEPT ![j] = claims[j] + 1]
      /\ status' = [status EXCEPT ![j] = "RUNNING"]
      /\ UNCHANGED deadLetters
      /\ attempt[c] <= claims[j] /\ attempt[c] \in Nat /\ claims[j] \in Nat
  BY <1>0 DEF TakeRow, CountInv, TypeOK, LeasesOK, RowsOK
<1>2. ASSUME NEW i \in Jobs
      PROVE  /\ claims[i] \in Nat /\ claims'[i] \in Nat /\ claims'[i] >= claims[i]
             /\ attempts'[i] <= claims'[i]
  BY <1>1 DEF TypeOK, RowsOK, CountInv
<1>3. ASSUME NEW w \in Workers
      PROVE  /\ pc'[w] = "claim" => attempt'[w] <= claims'[held'[w]]
             /\ pc'[w] \in Doomed => claims'[held'[w]] >= MaxAttempts
  <2>1. CASE w = c BY <2>1 DEF Doomed
  <2>2. CASE w # c /\ pc[w] \in Doomed \cup {"claim"}
    <3>1. held[w] \in Jobs /\ attempt[w] \in Nat
      BY <2>2 DEF TypeOK, LeasesOK, Doomed
    <3> QED BY <1>2, <2>2, <3>1, AttemptsAssumption DEF CountInv, Doomed
  <2>3. CASE w # c /\ pc[w] \notin Doomed \cup {"claim"} BY <2>3
  <2> QED BY <2>1, <2>2, <2>3
<1>4. NeverGivenUpEarly'
  <2> SUFFICES ASSUME NEW i \in Jobs, status'[i] = "FAILED" \/ deadLetters'[i] > 0
               PROVE  claims'[i] >= MaxAttempts
    BY DEF NeverGivenUpEarly
  <2>1. claims[i] >= MaxAttempts
    BY <1>1 DEF CountInv, NeverGivenUpEarly, TypeOK, RowsOK
  <2> QED BY <1>2, <2>1, AttemptsAssumption
<1> QED BY <1>2, <1>3, <1>4 DEF CountInv, Doomed

LEMMA CountStep ==
  ASSUME TypeOK, TypeOK', CountInv, [Next]_vars
  PROVE  CountInv'
<1>1. CASE \E w \in Workers : Claim(w) \/ ClaimFails(w)
  <2>1. PICK w \in Workers : Claim(w) \/ ClaimFails(w)
    BY <1>1
  <2>2. CASE TakeRow(w)
    BY <2>1, <2>2, CountTake DEF Claim, ClaimFails, Release, Goto, TypeOK, LeasesOK
  <2>3. CASE ~TakeRow(w)
    BY <2>1, <2>3, CountQuiet DEF Claim, ClaimFails, Release, Goto, rows, TypeOK, LeasesOK, Doomed
  <2> QED BY <2>2, <2>3
<1>2. ASSUME NEW w \in Workers, Release(w) PROVE OthersKeep(w) /\ pc'[w] = "idle"
  BY <1>2, ReleaseEffect DEF Release, Goto, TypeOK, LeasesOK
<1>3. ASSUME NEW w \in Workers, Advance(w), ~Claim(w) PROVE CountInv'
  <2> USE <1>2, GotoEffect, CountWorker DEF rows, Doomed
  <2>1. CASE RecoverStale(w)
    BY <2>1 DEF RecoverStale
  <2>2. CASE Select(w)
    <3>1. CASE Release(w) BY <2>2, <3>1 DEF Select
    <3>2. CASE ~Release(w)
      <4>1. PICK j \in Jobs : /\ pc' = [pc EXCEPT ![w] = "claim"]
                              /\ held' = [held EXCEPT ![w] = j]
                              /\ attempt' = [attempt EXCEPT ![w] = attempts[j]]
        BY <2>2, <3>2, RoutingAssumption DEF Select, Eligible, Goto
      <4> QED BY <2>2, <4>1, CountQuiet DEF Select, TypeOK, LeasesOK
    <3> QED BY <3>1, <3>2
  <2>3. CASE Start(w) BY <2>3 DEF Start
  <2>4. CASE AssertOwned(w) BY <2>4 DEF AssertOwned
  <2>5. CASE FirstHeartbeat(w) BY <2>5 DEF FirstHeartbeat, Refresh
  <2>6. CASE HandlerEnds(w) BY <2>6 DEF HandlerEnds
  <2>7. CASE Complete(w) BY <2>7 DEF Complete, CompleteRow, TypeOK, RowsOK
  <2>8. CASE LogCompletion(w) BY <2>8 DEF LogCompletion
  <2>9. CASE FailRead(w) BY <2>9 DEF FailRead
  <2>10. CASE Retry(w) BY <2>10 DEF Retry, TypeOK, RowsOK
  <2>11. CASE Bury(w) BY <2>11 DEF Bury, TypeOK, RowsOK
  <2>12. CASE DeadLetter(w) BY <2>12 DEF DeadLetter, TypeOK, RowsOK
  <2> QED BY <1>3, <2>1, <2>2, <2>3, <2>4, <2>5, <2>6, <2>7, <2>8, <2>9, <2>10, <2>11,
             <2>12 DEF Advance
<1>4. ASSUME NEW w \in Workers, Disturb(w), ~ClaimFails(w) PROVE CountInv'
  <2> USE <1>2, GotoEffect, CountWorker DEF rows, Doomed
  <2>1. CASE AssertFails(w) BY <2>1 DEF AssertFails
  <2>2. CASE Heartbeat(w)
    BY <2>2, CountQuiet DEF Heartbeat, Refresh
  <2>3. CASE HeartbeatFails(w)
    <3>1. CASE pc[w] = "beat" BY <2>3, <3>1 DEF HeartbeatFails
    <3>2. CASE pc[w] # "beat" BY <2>3, <3>2, CountQuiet DEF HeartbeatFails
    <3> QED BY <3>1, <3>2
  <2>4. CASE CompleteFails(w) BY <2>4 DEF CompleteFails, CompleteRow, TypeOK, RowsOK
  <2>5. CASE ReadFails(w)
    <3>1. CASE pc[w] = "idle" BY <2>5, <3>1 DEF ReadFails
    <3>2. CASE pc[w] # "idle" BY <2>5, <3>2 DEF ReadFails
    <3> QED BY <3>1, <3>2
  <2>6. CASE Crash(w) BY <2>6 DEF Crash
  <2> QED BY <1>4, <2>1, <2>2, <2>3, <2>4, <2>5, <2>6 DEF Disturb
<1>5. ASSUME NEW j \in Jobs, RowNext(j) PROVE CountInv'
  BY <1>5, CountQuiet DEF RowNext, Enqueue, CancelPending, BecomeDue, ExpireAbandoned,
                          ExpireHeld, Expire, leases, TypeOK, RowsOK, LeasesOK
<1>6. CASE UNCHANGED vars
  BY <1>6, CountQuiet DEF vars
<1> QED BY <1>1, <1>3, <1>4, <1>5, <1>6 DEF Next

(* No interleaving of claims makes failJob bury a job that was not claimed *)
(* max_attempts times.                                                     *)
THEOREM RetryBudgetIsSpent == Spec => []NeverGivenUpEarly
<1>1. Init => CountInv
  BY AttemptsAssumption DEF Init, CountInv, NeverGivenUpEarly
<1>2. TypeOK /\ TypeOK' /\ CountInv /\ [Next]_vars => CountInv'
  BY CountStep
<1>3. CountInv => NeverGivenUpEarly
  BY DEF CountInv
<1> QED BY <1>1, <1>2, <1>3, TypeCorrect, PTL DEF Spec

-----------------------------------------------------------------------------
(* What a row leaves behind.  The guarded UPDATE that makes a row          *)
(* COMPLETED also decides who logs it, so a worker at its log insert is    *)
(* the only one there, for a row that is COMPLETED and not yet logged.     *)
Logging(w, j) == pc[w] = "log" /\ held[w] = j

RecordInv ==
  /\ EndsAreRecorded
  /\ \A j \in Jobs, w \in Workers : Logging(w, j) =>
       /\ status[j] = "COMPLETED" /\ completed[j] = 0
       /\ \A v \in Workers : Logging(v, j) => v = w

(* A step that completes, fails and logs nothing keeps the records, if the *)
(* workers at the end of their row stay there.                             *)
LEMMA RecordQuiet ==
  ASSUME TypeOK, TypeOK', RecordInv, UNCHANGED completed, faults' >= faults,
         \A j \in Jobs : deadLetters'[j] >= deadLetters[j],
         \A j \in Jobs : status[j] = "COMPLETED" => status'[j] = "COMPLETED",
         \A j \in Jobs : status'[j] = "FAILED" => status[j] = "FAILED",
         \A v \in Workers : pc'[v] = "log" => pc[v] = "log" /\ held'[v] = held[v],
         faults' = faults => \A v \in Workers :
           pc[v] = "deadletter" => pc'[v] = "deadletter" /\ held'[v] = held[v]
  PROVE  RecordInv'
<1>1. faults \in Nat /\ faults' \in Nat
  BY DEF TypeOK, CountsOK
<1>2. ASSUME NEW j \in Jobs PROVE deadLetters[j] \in Nat /\ deadLetters'[j] \in Nat
  BY DEF TypeOK, RowsOK
<1>3. EndsAreRecorded'
  <2> SUFFICES ASSUME NEW j \in Jobs
               PROVE  /\ completed'[j] <= 1
                      /\ completed'[j] = 1 => status'[j] = "COMPLETED"
                      /\ status'[j] = "FAILED" /\ faults' = 0 =>
                           \/ deadLetters'[j] > 0
                           \/ \E w \in Workers : pc'[w] = "deadletter" /\ held'[w] = j
    BY DEF EndsAreRecorded
  <2>1. completed'[j] <= 1 /\ (completed'[j] = 1 => status'[j] = "COMPLETED")
    BY DEF RecordInv, EndsAreRecorded
  <2>2. ASSUME status'[j] = "FAILED", faults' = 0
        PROVE  \/ deadLetters'[j] > 0
               \/ \E w \in Workers : pc'[w] = "deadletter" /\ held'[w] = j
    <3>1. faults = 0 /\ faults' = faults /\ status[j] = "FAILED"
      BY <1>1, <2>2
    <3>2. CASE deadLetters[j] > 0 BY <1>2, <3>2
    <3>3. CASE \E w \in Workers : pc[w] = "deadletter" /\ held[w] = j BY <3>1, <3>3
    <3> QED BY <3>1, <3>2, <3>3 DEF RecordInv, EndsAreRecorded
  <2> QED BY <2>1, <2>2
<1>4. ASSUME NEW j \in Jobs, NEW w \in Workers, Logging(w, j)'
      PROVE  /\ status'[j] = "COMPLETED" /\ completed'[j] = 0
             /\ \A v \in Workers : Logging(v, j)' => v = w
  BY <1>4 DEF RecordInv, Logging
<1> QED BY <1>3, <1>4 DEF RecordInv

(* The same for a step of one worker.                                      *)
LEMMA RecordWorker ==
  ASSUME TypeOK, TypeOK', RecordInv, UNCHANGED <<completed, deadLetters>>,
         NEW w \in Workers, OthersKeep(w), pc'[w] # "log",
         (UNCHANGED faults /\ pc[w] # "deadletter") \/ Fault,
         \A j \in Jobs : status[j] = "COMPLETED" => status'[j] = "COMPLETED",
         \A j \in Jobs : status'[j] = "FAILED" => status[j] = "FAILED"
  PROVE  RecordInv'
<1>1. faults' >= faults /\ (faults' = faults => pc[w] # "deadletter")
  BY DEF Fault, TypeOK, CountsOK
<1>2. \A j \in Jobs : deadLetters'[j] >= deadLetters[j]
  BY DEF TypeOK, RowsOK
<1> QED BY <1>1, <1>2, RecordQuiet DEF OthersKeep

LEMMA RecordComplete ==
  ASSUME TypeOK, TypeOK', RecordInv, NEW w \in Workers, pc[w] = "complete", CompleteRow(w),
         OthersKeep(w), pc'[w] \in {"log", "idle"}, pc'[w] = "log" => held'[w] = held[w],
         UNCHANGED faults \/ Fault
  PROVE  RecordInv'
<1> DEFINE j == held[w]
<1>1. /\ j \in Jobs /\ status[j] = "RUNNING"
      /\ status' = [status EXCEPT ![j] = "COMPLETED"]
      /\ UNCHANGED <<completed, deadLetters>>
  BY DEF TypeOK, LeasesOK, CompleteRow, Matches
<1>2. completed[j] = 0 /\ \A v \in Workers : ~Logging(v, j)
  <2>1. completed[j] \in Nat /\ completed[j] <= 1 /\ completed[j] # 1
    BY <1>1 DEF TypeOK, RowsOK, RecordInv, EndsAreRecorded
  <2> QED BY <1>1, <2>1 DEF RecordInv
<1>3. faults \in Nat /\ faults' \in Nat /\ faults' >= faults
  BY DEF TypeOK, CountsOK, Fault
<1>4. EndsAreRecorded'
  <2> SUFFICES ASSUME NEW i \in Jobs
               PROVE  /\ completed'[i] <= 1
                      /\ completed'[i] = 1 => status'[i] = "COMPLETED"
                      /\ status'[i] = "FAILED" /\ faults' = 0 =>
                           \/ deadLetters'[i] > 0
                           \/ \E v \in Workers : pc'[v] = "deadletter" /\ held'[v] = i
    BY DEF EndsAreRecorded
  <2>1. status' \in [Jobs -> Statuses] /\ status \in [Jobs -> Statuses]
    BY DEF TypeOK, RowsOK
  <2>2. CASE i = j BY <1>1, <1>2, <2>1, <2>2
  <2>3. CASE i # j
    <3>1. status'[i] = status[i]
      BY <1>1, <2>1, <2>3
    <3>2. faults' = 0 => faults = 0
      BY <1>3
    <3>3. \A v \in Workers : pc[v] = "deadletter" => pc'[v] = "deadletter" /\ held'[v] = held[v]
      BY DEF OthersKeep
    <3> QED BY <1>1, <3>1, <3>2, <3>3 DEF RecordInv, EndsAreRecorded
  <2> QED BY <2>2, <2>3
<1>5. ASSUME NEW i \in Jobs, NEW v \in Workers, Logging(v, i)'
      PROVE  /\ status'[i] = "COMPLETED" /\ completed'[i] = 0
             /\ \A x \in Workers : Logging(x, i)' => x = v
  <2>1. CASE i = j
    <3>1. \A x \in Workers : Logging(x, i)' => x = w
      BY <1>2, <2>1 DEF Logging, OthersKeep
    <3> QED BY <1>1, <1>2, <1>5, <2>1, <3>1 DEF TypeOK, RowsOK
  <2>2. CASE i # j
    <3>1. \A x \in Workers : Logging(x, i)' => Logging(x, i)
      BY <2>2 DEF Logging, OthersKeep
    <3>2. status'[i] = status[i] /\ completed'[i] = completed[i]
      BY <1>1, <2>2 DEF TypeOK, RowsOK
    <3> QED BY <1>5, <3>1, <3>2 DEF RecordInv
  <2> QED BY <2>1, <2>2
<1> QED BY <1>4, <1>5 DEF RecordInv

LEMMA RecordLog ==
  ASSUME TypeOK, TypeOK', RecordInv, NEW w \in Workers, LogCompletion(w)
  PROVE  RecordInv'
<1> DEFINE j == held[w]
<1>1. /\ j \in Jobs /\ pc[w] = "log" /\ Logging(w, j)
      /\ UNCHANGED <<status, deadLetters>> /\ OthersKeep(w) /\ pc'[w] = "idle"
  BY ReleaseEffect DEF TypeOK, LeasesOK, LogCompletion, Logging, Release, Goto
<1>2. CASE UNCHANGED completed
  BY <1>1, <1>2, RecordWorker DEF LogCompletion, counted
<1>3. CASE completed' = [completed EXCEPT ![j] = completed[j] + 1] /\ UNCHANGED counted
  <2>1. completed[j] = 0 /\ status[j] = "COMPLETED"
    BY <1>1 DEF RecordInv
  <2>2. \A i \in Jobs : completed'[i] = IF i = j THEN 1 ELSE completed[i]
    BY <1>3, <2>1 DEF TypeOK, RowsOK
  <2>3. \A i \in Jobs, v \in Workers : Logging(v, i)' => Logging(v, i) /\ i # j
    BY <1>1 DEF RecordInv, Logging, OthersKeep
  <2>4. \A v \in Workers : pc[v] = "deadletter" => pc'[v] = "deadletter" /\ held'[v] = held[v]
    BY <1>1 DEF OthersKeep
  <2>5. EndsAreRecorded'
    BY <1>1, <1>3, <2>1, <2>2, <2>4 DEF RecordInv, EndsAreRecorded, counted
  <2> QED BY <1>1, <2>2, <2>3, <2>5 DEF RecordInv
<1> QED BY <1>2, <1>3 DEF LogCompletion, Fault

LEMMA RecordBury ==
  ASSUME TypeOK, TypeOK', RecordInv, NEW w \in Workers, Bury(w) \/ DeadLetter(w)
  PROVE  RecordInv'
<1> DEFINE j == held[w]
<1>1. /\ j \in Jobs /\ UNCHANGED completed /\ OthersKeep(w) /\ pc'[w] # "log"
      /\ \A v \in Workers : pc'[v] = "log" => pc[v] = "log" /\ held'[v] = held[v]
  BY ReleaseEffect, GotoEffect DEF TypeOK, LeasesOK, Bury, DeadLetter, rows, OthersKeep, Withdraws,
                                   Release, Goto
<1>2. faults \in Nat /\ faults' \in Nat
  BY DEF TypeOK, CountsOK
<1>3. CASE Bury(w) /\ (UNCHANGED rows \/ Fault)
  BY <1>1, <1>3, <1>2, RecordQuiet DEF Bury, rows, Fault, counted, TypeOK, RowsOK, LeasesOK, OthersKeep, Goto
<1>4. CASE Bury(w) /\ Matches(w) /\ status' = [status EXCEPT ![j] = "FAILED"]
           /\ UNCHANGED <<deadLetters, counted>>
  <2>1. status[j] = "RUNNING" /\ pc' = [pc EXCEPT ![w] = "deadletter"] /\ UNCHANGED held
    BY <1>4 DEF Bury, Matches, Goto
  <2>2. pc'[w] = "deadletter" /\ held'[w] = j
    BY <2>1 DEF TypeOK, LeasesOK
  <2>3. \A i \in Jobs : status'[i] = IF i = j THEN "FAILED" ELSE status[i]
    BY <1>4 DEF TypeOK, RowsOK
  <2>4. completed[j] = 0 /\ \A v \in Workers : ~Logging(v, j)
    <3>1. completed[j] \in Nat /\ completed[j] <= 1 /\ completed[j] # 1
      BY <1>1, <2>1 DEF TypeOK, RowsOK, RecordInv, EndsAreRecorded
    <3> QED BY <1>1, <2>1, <3>1 DEF RecordInv
  <2>5. \A v \in Workers : pc[v] = "deadletter" => pc'[v] = "deadletter" /\ held'[v] = held[v]
    BY <1>1, <2>2, <2>1 DEF OthersKeep
  <2>6. EndsAreRecorded'
    BY <1>1, <1>4, <2>2, <2>3, <2>4, <2>5 DEF RecordInv, EndsAreRecorded, counted
  <2>7. \A i \in Jobs, v \in Workers : Logging(v, i)' => Logging(v, i) /\ i # j
    BY <1>1, <2>4 DEF Logging
  <2> QED BY <1>1, <2>3, <2>6, <2>7 DEF RecordInv
<1>5. CASE DeadLetter(w)
  <2>1. status' = status /\ pc[w] = "deadletter" /\ pc'[w] = "idle"
    BY <1>5 DEF DeadLetter, Release, Goto, TypeOK, LeasesOK
  <2>2. CASE Fault /\ UNCHANGED deadLetters
    BY <1>1, <2>1, <2>2, RecordWorker
  <2>3. CASE deadLetters' = [deadLetters EXCEPT ![j] = deadLetters[j] + 1] /\ UNCHANGED counted
    <3>1. \A i \in Jobs : deadLetters[i] \in Nat /\ deadLetters'[i] >= deadLetters[i]
      BY <2>3 DEF TypeOK, RowsOK
    <3>2. deadLetters'[j] > 0
      BY <1>1, <2>3 DEF TypeOK, RowsOK
    <3>3. \A v \in Workers \ {w} : pc'[v] = pc[v] /\ held'[v] = held[v]
      BY <1>1 DEF OthersKeep
    <3>4. EndsAreRecorded'
      <4> SUFFICES ASSUME NEW i \in Jobs
                   PROVE  /\ completed'[i] <= 1
                          /\ completed'[i] = 1 => status'[i] = "COMPLETED"
                          /\ status'[i] = "FAILED" /\ faults' = 0 =>
                               \/ deadLetters'[i] > 0
                               \/ \E v \in Workers : pc'[v] = "deadletter" /\ held'[v] = i
        BY DEF EndsAreRecorded
      <4>1. deadLetters[i] > 0 => deadLetters'[i] > 0
        BY <3>1, <1>1, <2>3 DEF TypeOK, RowsOK
      <4>2. ASSUME NEW v \in Workers, pc[v] = "deadletter", held[v] = i
            PROVE  deadLetters'[i] > 0 \/ (pc'[v] = "deadletter" /\ held'[v] = i)
        BY <3>2, <3>3, <4>2
      <4> QED BY <1>1, <2>1, <2>3, <4>1, <4>2 DEF RecordInv, EndsAreRecorded, counted
    <3> QED BY <1>1, <2>1, <3>4 DEF RecordInv, Logging
  <2> QED BY <1>5, <2>2, <2>3 DEF DeadLetter
<1> QED BY <1>3, <1>4, <1>5 DEF Bury

LEMMA RecordStep ==
  ASSUME TypeOK, TypeOK', RecordInv, [Next]_vars
  PROVE  RecordInv'
<1>1. ASSUME NEW w \in Workers, Release(w) PROVE OthersKeep(w) /\ pc'[w] = "idle"
  BY <1>1, ReleaseEffect DEF Release, Goto, TypeOK, LeasesOK
<1>2. ASSUME NEW w \in Workers, TakeRow(w), pc[w] = "claim"
      PROVE  /\ UNCHANGED <<completed, deadLetters>>
             /\ \A j \in Jobs : status[j] = "COMPLETED" => status'[j] = "COMPLETED"
             /\ \A j \in Jobs : status'[j] = "FAILED" => status[j] = "FAILED"
  BY <1>2 DEF TakeRow, TypeOK, LeasesOK, RowsOK
<1>3. ASSUME NEW w \in Workers, Advance(w) PROVE RecordInv'
  <2> USE <1>1, GotoEffect, RecordWorker DEF rows, counted
  <2>1. CASE RecoverStale(w)
    BY <2>1 DEF RecoverStale, TypeOK, RowsOK
  <2>2. CASE Select(w)
    <3>1. CASE Release(w) BY <2>2, <3>1 DEF Select
    <3>2. CASE ~Release(w)
      <4>1. /\ UNCHANGED <<rows, counted>> /\ pc[w] = "select"
            /\ \A v \in Workers \ {w} : pc'[v] = pc[v] /\ held'[v] = held[v]
            /\ pc'[w] = "claim"
        BY <2>2, <3>2 DEF Select, Goto, TypeOK, LeasesOK
      <4> QED BY <4>1, RecordQuiet DEF TypeOK, RowsOK, CountsOK
    <3> QED BY <3>1, <3>2
  <2>3. CASE Claim(w)
    <3>1. CASE Release(w) /\ UNCHANGED <<rows, counted>> BY <2>3, <3>1 DEF Claim
    <3>2. CASE TakeRow(w) /\ Goto(w, "start") /\ UNCHANGED <<held, counted>>
      <4>1. \A v \in Workers \ {w} : pc'[v] = pc[v] /\ held'[v] = held[v]
        BY <3>2 DEF Goto, TypeOK, LeasesOK
      <4>2. pc'[w] = "start" /\ pc[w] = "claim"
        BY <2>3, <3>2 DEF Claim, Goto, TypeOK, LeasesOK
      <4> QED BY <1>2, <3>2, <4>1, <4>2, RecordQuiet DEF TypeOK, RowsOK, CountsOK
    <3> QED BY <2>3, <3>1, <3>2 DEF Claim
  <2>4. CASE Start(w) BY <2>4 DEF Start
  <2>5. CASE AssertOwned(w) BY <2>5 DEF AssertOwned
  <2>6. CASE FirstHeartbeat(w) BY <2>6 DEF FirstHeartbeat, Refresh
  <2>7. CASE HandlerEnds(w) BY <2>7 DEF HandlerEnds
  <2>8. CASE Complete(w)
    <3>1. CASE CompleteRow(w) BY <2>8, <3>1, RecordComplete DEF Complete, Goto, TypeOK, LeasesOK
    <3>2. CASE ~CompleteRow(w) BY <2>8, <3>2 DEF Complete
    <3> QED BY <3>1, <3>2
  <2>9. CASE LogCompletion(w) BY <2>9, RecordLog
  <2>10. CASE FailRead(w) BY <2>10 DEF FailRead
  <2>11. CASE Retry(w)
    <3>1. \A j \in Jobs : /\ status[j] = "COMPLETED" => status'[j] = "COMPLETED"
                          /\ status'[j] = "FAILED" => status[j] = "FAILED"
      BY <2>11 DEF Retry, Matches, TypeOK, RowsOK
    <3> QED BY <2>11, <3>1 DEF Retry
  <2>12. CASE Bury(w) \/ DeadLetter(w) BY <2>12, RecordBury
  <2> QED BY <1>3, <2>1, <2>2, <2>3, <2>4, <2>5, <2>6, <2>7, <2>8, <2>9, <2>10, <2>11,
             <2>12 DEF Advance
<1>4. ASSUME NEW w \in Workers, Disturb(w) PROVE RecordInv'
  <2> USE <1>1, GotoEffect, RecordWorker DEF rows
  <2>1. CASE ClaimFails(w) BY <1>2, <2>1 DEF ClaimFails
  <2>2. CASE AssertFails(w) BY <2>2 DEF AssertFails
  <2>3. CASE Heartbeat(w)
    BY <2>3, RecordQuiet DEF Heartbeat, Refresh, counted, TypeOK, RowsOK, CountsOK
  <2>4. CASE HeartbeatFails(w)
    <3>1. CASE pc[w] = "beat" BY <2>4, <3>1 DEF HeartbeatFails
    <3>2. CASE pc[w] # "beat" BY <2>4, <3>2 DEF HeartbeatFails, OthersKeep, Beating
    <3> QED BY <3>1, <3>2
  <2>5. CASE CompleteFails(w)
    <3>1. CASE CompleteRow(w) BY <2>5, <3>1, RecordComplete DEF CompleteFails
    <3>2. CASE ~CompleteRow(w) BY <2>5, <3>2 DEF CompleteFails
    <3> QED BY <3>1, <3>2
  <2>6. CASE ReadFails(w)
    <3>1. CASE pc[w] = "idle" BY <2>6, <3>1 DEF ReadFails
    <3>2. CASE pc[w] # "idle" BY <2>6, <3>2 DEF ReadFails
    <3> QED BY <3>1, <3>2
  <2>7. CASE Crash(w) BY <2>7 DEF Crash
  <2> QED BY <1>4, <2>1, <2>2, <2>3, <2>4, <2>5, <2>6, <2>7 DEF Disturb
<1>5. ASSUME NEW j \in Jobs, RowNext(j) PROVE RecordInv'
  BY <1>5, RecordQuiet DEF RowNext, Enqueue, CancelPending, BecomeDue, ExpireAbandoned,
                           ExpireHeld, Expire, leases, counted, TypeOK, RowsOK, LeasesOK, CountsOK
<1>6. CASE UNCHANGED vars
  BY <1>6, RecordQuiet DEF vars, TypeOK, RowsOK, CountsOK
<1> QED BY <1>3, <1>4, <1>5, <1>6 DEF Next

(* However many workers report a job done or failed, one completion is     *)
(* logged at most, for a COMPLETED row, and a FAILED row gets its dead     *)
(* letter unless a request failed or a worker crashed.  No timing is       *)
(* assumed: the guarded UPDATEs of completeJob and failJob suffice.        *)
THEOREM RecordsAreTrue == Spec => []EndsAreRecorded
<1>1. Init => RecordInv
  BY DEF Init, RecordInv, EndsAreRecorded, Logging
<1>2. TypeOK /\ TypeOK' /\ RecordInv /\ [Next]_vars => RecordInv'
  BY RecordStep
<1>3. RecordInv => EndsAreRecorded
  BY DEF RecordInv
<1> QED BY <1>1, <1>2, <1>3, TypeCorrect, PTL DEF Spec

-----------------------------------------------------------------------------
(* Refinement.  The holders of a job are the workers that own its row, and *)
(* every request of a worker, a producer or the clock is one step of       *)
(* JobLease or leaves status and holders alone.                            *)
LeaseStep == [Lease!LNext]_(Lease!leaseVars)

Holders == [j \in Jobs |-> {w \in Workers : Owns(w, j)}]

LEMMA KeepLeases ==
  ASSUME UNCHANGED status,
         \A j \in Jobs, w \in Workers : Owns(w, j)' <=> Owns(w, j)
  PROVE  LeaseStep
<1>1. Holders' = Holders
  BY DEF Holders
<1> QED BY <1>1 DEF Holders, LeaseStep, Lease!leaseVars

(* What becomes of the leases when one worker acts on its own row.         *)
LEMMA HoldersAfter ==
  ASSUME NEW S \in SUBSET Jobs,
         \A j \in Jobs, w \in Workers : Owns(w, j)' <=> Owns(w, j) /\ j \notin S
  PROVE  Holders' = [j \in Jobs |-> IF j \in S THEN {} ELSE Holders[j]]
BY DEF Holders

LEMMA WorkerLease ==
  ASSUME TypeOK, TypeOK', FenceInv, NEW w \in Workers, OthersKeep(w), UNCHANGED attempts,
         \/ UNCHANGED status /\ (pc'[w] \notin Leased \/ Proceeds(w))
         \/ EndsRow(w) /\ Withdraws(w)
  PROVE  LeaseStep
<1> DEFINE i == held[w]
<1>1. CASE UNCHANGED status /\ (Proceeds(w) \/ pc[w] \notin Leased \/ ~Matches(w))
  <2>1. ASSUME NEW j \in Jobs, NEW v \in Workers PROVE Owns(v, j)' <=> Owns(v, j)
    <3>1. CASE v = w BY <1>1, <3>1 DEF Owns, Matches, Proceeds, Withdraws
    <3>2. CASE v # w BY <1>1, <3>2 DEF Owns, Matches, OthersKeep
    <3> QED BY <3>1, <3>2
  <2> QED BY <1>1, <2>1, KeepLeases
<1>2. CASE pc[w] \in Leased /\ Matches(w) /\ pc'[w] \notin Leased
  <2>1. i \in Jobs /\ Owns(w, i) /\ status[i] = "RUNNING"
    BY <1>2 DEF Owns, Matches, TypeOK, LeasesOK, Leased, Beating
  <2>2. \A j \in Jobs \ {i} : status'[j] = status[j]
    BY <1>2 DEF EndsRow, Proceeds, TypeOK, RowsOK
  <2>3. ASSUME NEW j \in Jobs, NEW v \in Workers
        PROVE  Owns(v, j)' <=> Owns(v, j) /\ j \notin {i}
    <3>1. CASE v = w BY <1>2, <3>1 DEF Owns
    <3>2. CASE v # w /\ j = i
      <4>1. ~Owns(v, j)
        BY <2>1, <3>2 DEF FenceInv, AtMostOneOwner
      <4>2. status'[j] = "RUNNING" => status[j] = "RUNNING"
        BY <2>1, <3>2
      <4> QED BY <3>2, <4>1, <4>2 DEF Owns, Matches, OthersKeep
    <3>3. CASE v # w /\ j # i BY <2>2, <3>3 DEF Owns, Matches, OthersKeep
    <3> QED BY <3>1, <3>2, <3>3
  <2>4. Holders' = [j \in Jobs |-> IF j \in {i} THEN {} ELSE Holders[j]]
    BY <2>3 DEF Holders
  <2>5. Holders' = [Holders EXCEPT ![i] = {}] /\ Holders[i] # {}
    BY <2>1, <2>4 DEF Holders
  <2>6. CASE UNCHANGED status
    <3>1. Lease!Drop(i)
      BY <2>5, <2>6 DEF Lease!Drop, Holders
    <3> QED BY <2>1, <3>1 DEF LeaseStep, Lease!LNext
  <2>7. CASE EndsRow(w)
    <3>1. PICK x \in {"PENDING", "COMPLETED", "FAILED"} : status' = [status EXCEPT ![i] = x]
      BY <2>7 DEF EndsRow
    <3>2. Lease!End(i, x)
      BY <2>1, <2>5, <3>1 DEF Lease!End, Lease!Move, Holders
    <3> QED BY <2>1, <3>2 DEF LeaseStep, Lease!LNext
  <2> QED BY <2>6, <2>7
<1> QED BY <1>1, <1>2 DEF EndsRow, Withdraws

(* A claim grants the lease of a PENDING row, which nobody holds.          *)
LEMMA ClaimLease ==
  ASSUME TypeOK, TypeOK', FenceInv', NEW c \in Workers, pc[c] = "claim", TakeRow(c),
         OthersKeep(c) \/ \A v \in Workers \ {c} :
           pc'[v] = pc[v] /\ held'[v] = held[v] /\ attempt'[v] = attempt[v],
         pc'[c] = "idle" \/ held'[c] = held[c]
  PROVE  LeaseStep
<1>0. PICK i \in Jobs : i = held[c]
  BY DEF TypeOK, LeasesOK
<1>1. /\ status[i] = "PENDING" /\ status' = [status EXCEPT ![i] = "RUNNING"]
      /\ \A j \in Jobs \ {i} : status'[j] = status[j] /\ attempts'[j] = attempts[j]
  BY <1>0 DEF TakeRow, TypeOK, RowsOK
<1>2. ASSUME NEW j \in Jobs \ {i}, NEW v \in Workers PROVE Owns(v, j)' <=> Owns(v, j)
  <2>1. CASE v = c
    <3>1. ~Owns(c, j) /\ ~Owns(c, j)'
      BY <1>0 DEF Owns, Leased, Beating
    <3> QED BY <2>1, <3>1
  <2>2. CASE v # c BY <1>1, <2>2 DEF Owns, Matches, OthersKeep
  <2> QED BY <2>1, <2>2
<1> DEFINE h == {v \in Workers : Owns(v, i)'}
<1>3. Holders' = [Holders EXCEPT ![i] = h]
  BY <1>2 DEF Holders
<1>4. h = {} \/ \E v \in Workers : h = {v}
  BY DEF FenceInv, AtMostOneOwner
<1>5. Lease!Grant(i, h)
  BY <1>1, <1>3, <1>4 DEF Lease!Grant, Lease!Move, Holders
<1> QED BY <1>5 DEF LeaseStep, Lease!LNext

LEMMA RecoverLease ==
  ASSUME TypeOK, NEW w \in Workers, RecoverStale(w)
  PROVE  LeaseStep
<1> DEFINE S == {j \in Jobs : status[j] = "RUNNING" /\ stale[j]}
<1>1. /\ status' = [j \in Jobs |-> IF j \in S THEN "PENDING" ELSE status[j]]
      /\ UNCHANGED <<attempts, held, attempt>>
      /\ pc[w] = "idle" /\ pc' = [pc EXCEPT ![w] = "select"]
  BY DEF RecoverStale, Goto
<1>2. \A v \in Workers : pc'[v] \in Leased <=> pc[v] \in Leased
  BY <1>1 DEF TypeOK, LeasesOK, Leased, Beating
<1>3. ASSUME NEW j \in Jobs, NEW v \in Workers
      PROVE  Owns(v, j)' <=> Owns(v, j) /\ j \notin S
  BY <1>1, <1>2 DEF Owns, Matches
<1>4. Holders' = [j \in Jobs |-> IF j \in S THEN {} ELSE Holders[j]]
  BY <1>3, HoldersAfter
<1>5. Lease!Revoke(S)
  BY <1>1, <1>4 DEF Lease!Revoke, Holders
<1> QED BY <1>5 DEF LeaseStep, Lease!LNext

LEMMA RowLease ==
  ASSUME TypeOK, NEW j \in Jobs, RowNext(j)
  PROVE  LeaseStep
<1>1. CASE BecomeDue(j) \/ Expire(j)
  <2>1. UNCHANGED <<status, attempts, pc, held, attempt>>
    BY <1>1 DEF BecomeDue, Expire, leases
  <2> QED BY <2>1, KeepLeases DEF Owns, Matches
<1>2. CASE Enqueue(j) \/ CancelPending(j)
  <2>1. /\ UNCHANGED <<attempts, pc, held, attempt>> /\ status[j] \in {"ABSENT", "PENDING"}
        /\ \E x \in {"PENDING", "CANCELLED"} : status' = [status EXCEPT ![j] = x]
    BY <1>2 DEF Enqueue, CancelPending, leases
  <2>2. \A i \in Jobs : status'[i] = "RUNNING" <=> status[i] = "RUNNING"
    BY <2>1 DEF TypeOK, RowsOK
  <2>3. ASSUME NEW i \in Jobs, NEW v \in Workers PROVE Owns(v, i)' <=> Owns(v, i)
    BY <2>1, <2>2 DEF Owns, Matches
  <2>4. Holders' = Holders
    BY <2>3 DEF Holders
  <2>5. Lease!Submit(j) \/ Lease!Withdraw(j)
    BY <1>2, <2>4 DEF Enqueue, CancelPending, Lease!Submit, Lease!Withdraw, Lease!Move, Holders
  <2> QED BY <2>5 DEF LeaseStep, Lease!LNext
<1> QED BY <1>1, <1>2 DEF RowNext, ExpireAbandoned, ExpireHeld

LEMMA LeaseStepTaken ==
  ASSUME TypeOK, TypeOK', FenceInv, FenceInv', [Next]_vars
  PROVE  LeaseStep
<1>1. ASSUME NEW w \in Workers, Release(w) PROVE pc'[w] \notin Leased /\ OthersKeep(w) /\ Withdraws(w)
  BY <1>1, ReleaseEffect DEF Withdraws
<1>2. ASSUME NEW w \in Workers, Advance(w) PROVE LeaseStep
  <2> USE <1>1, GotoEffect, WorkerLease DEF rows
  <2> USE DEF Proceeds, Withdraws, Leased, Beating
  <2>1. CASE RecoverStale(w) BY <2>1, RecoverLease
  <2>2. CASE Select(w)
    <3>1. CASE Release(w) BY <2>2, <3>1 DEF Select
    <3>2. CASE ~Release(w)
      <4>1. OthersKeep(w) /\ pc'[w] = "claim" /\ UNCHANGED rows
        BY <2>2, <3>2 DEF Select, Goto, OthersKeep, TypeOK, LeasesOK
      <4> QED BY <4>1
    <3> QED BY <3>1, <3>2
  <2>3. CASE Claim(w)
    <3>1. CASE Release(w) /\ UNCHANGED rows BY <3>1
    <3>2. CASE TakeRow(w) /\ Goto(w, "start") /\ UNCHANGED held
      <4>1. /\ pc[w] = "claim"
            /\ \A v \in Workers \ {w} :
                 pc'[v] = pc[v] /\ held'[v] = held[v] /\ attempt'[v] = attempt[v]
        BY <2>3, <3>2 DEF Claim, Goto, Release, TypeOK, LeasesOK, TakeRow
      <4> QED BY <3>2, <4>1, ClaimLease
    <3> QED BY <2>3, <3>1, <3>2 DEF Claim
  <2>4. CASE Start(w) BY <2>4 DEF Start
  <2>5. CASE AssertOwned(w) BY <2>5 DEF AssertOwned
  <2>6. CASE FirstHeartbeat(w) BY <2>6 DEF FirstHeartbeat, Refresh
  <2>7. CASE HandlerEnds(w) BY <2>7 DEF HandlerEnds
  <2>8. CASE Complete(w)
    <3>1. CASE CompleteRow(w)
      <4>1. pc[w] = "complete" /\ Goto(w, "log") /\ UNCHANGED <<held, attempt>>
        BY <2>8, <3>1 DEF Complete, CompleteRow
      <4>2. Withdraws(w) /\ OthersKeep(w)
        BY <4>1
      <4>3. EndsRow(w)
        BY <3>1, <4>1 DEF CompleteRow, EndsRow
      <4> QED BY <3>1, <4>2, <4>3 DEF CompleteRow
    <3>2. CASE ~CompleteRow(w) BY <2>8, <3>2 DEF Complete
    <3> QED BY <3>1, <3>2
  <2>9. CASE LogCompletion(w) BY <2>9 DEF LogCompletion
  <2>10. CASE FailRead(w) BY <2>10 DEF FailRead
  <2>11. CASE Retry(w)
    <3>1. Withdraws(w) /\ OthersKeep(w) /\ UNCHANGED attempts
      BY <2>11 DEF Retry
    <3>2. UNCHANGED status \/ EndsRow(w)
      BY <2>11 DEF Retry, EndsRow
    <3> QED BY <3>1, <3>2
  <2>12. CASE Bury(w)
    <3>1. Withdraws(w) /\ OthersKeep(w) /\ UNCHANGED attempts
      BY <2>12 DEF Bury
    <3>2. UNCHANGED status \/ EndsRow(w)
      BY <2>12 DEF Bury, EndsRow
    <3> QED BY <3>1, <3>2
  <2>13. CASE DeadLetter(w) BY <2>13 DEF DeadLetter
  <2> QED BY <1>2, <2>1, <2>2, <2>3, <2>4, <2>5, <2>6, <2>7, <2>8, <2>9, <2>10, <2>11,
             <2>12, <2>13 DEF Advance
<1>3. ASSUME NEW w \in Workers, Disturb(w) PROVE LeaseStep
  <2> USE <1>1, GotoEffect, WorkerLease DEF rows
  <2> USE DEF Proceeds, Withdraws, Leased, Beating
  <2>1. CASE ClaimFails(w)
    <3>1. CASE TakeRow(w)
      <4>1. pc[w] = "claim" /\ OthersKeep(w) /\ pc'[w] = "idle"
        BY <2>1 DEF ClaimFails, Release, Goto, TypeOK, LeasesOK
      <4> QED BY <3>1, <4>1, ClaimLease
    <3>2. CASE UNCHANGED rows BY <2>1, <3>2 DEF ClaimFails
    <3> QED BY <2>1, <3>1, <3>2 DEF ClaimFails
  <2>2. CASE AssertFails(w) BY <2>2 DEF AssertFails
  <2>3. CASE Heartbeat(w)
    BY <2>3 DEF Heartbeat, Refresh, OthersKeep
  <2>4. CASE HeartbeatFails(w)
    <3>1. CASE pc[w] = "beat" BY <2>4, <3>1 DEF HeartbeatFails
    <3>2. CASE pc[w] # "beat" BY <2>4, <3>2 DEF HeartbeatFails, OthersKeep
    <3> QED BY <3>1, <3>2
  <2>5. CASE CompleteFails(w)
    <3>1. CASE CompleteRow(w)
      <4>1. EndsRow(w) /\ Withdraws(w) /\ OthersKeep(w)
        BY <2>5, <3>1 DEF CompleteFails, CompleteRow, EndsRow
      <4> QED BY <3>1, <4>1 DEF CompleteRow
    <3>2. CASE ~CompleteRow(w) BY <2>5, <3>2 DEF CompleteFails
    <3> QED BY <3>1, <3>2
  <2>6. CASE ReadFails(w)
    <3>1. CASE pc[w] = "idle" BY <2>6, <3>1 DEF ReadFails
    <3>2. CASE pc[w] # "idle" BY <2>6, <3>2 DEF ReadFails
    <3> QED BY <3>1, <3>2
  <2>7. CASE Crash(w) BY <2>7 DEF Crash
  <2> QED BY <1>3, <2>1, <2>2, <2>3, <2>4, <2>5, <2>6, <2>7 DEF Disturb
<1>4. ASSUME NEW j \in Jobs, RowNext(j) PROVE LeaseStep
  BY <1>4, RowLease
<1>5. CASE UNCHANGED vars
  BY <1>5, KeepLeases DEF vars, Owns, Matches
<1> QED BY <1>2, <1>3, <1>4, <1>5 DEF Next

(* If every claim is prompt, the rows, the attempt guard and the timeout   *)
(* implement the abstract lease: granted to one worker, only from PENDING, *)
(* ended only by the worker whose lease is good, and passed on only        *)
(* through the queue.                                                      *)
THEOREM LeaseRefinement ==
  ASSUME PromptClaims
  PROVE  Spec => ImplementsLease
<1>1. Init => FenceInv
  BY DEF Init, FenceInv, LeaseInv, StaleInv, AtMostOneOwner, Owns, Leased, Beating
<1>2. TypeOK /\ TypeOK' /\ FenceInv /\ [Next]_vars => FenceInv'
  BY FenceStep
<1>3. Init => Lease!LInit
  BY DEF Init, Lease!LInit, Owns, Leased, Beating
<1>4. TypeOK /\ TypeOK' /\ FenceInv /\ FenceInv' /\ [Next]_vars
        => [Lease!LNext]_(Lease!leaseVars)
  BY LeaseStepTaken DEF LeaseStep
<1> QED BY <1>1, <1>2, <1>3, <1>4, TypeCorrect, PTL DEF Spec, ImplementsLease, Lease!LSpec
=============================================================================
