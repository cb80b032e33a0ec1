---------------------------- MODULE SnapshotProofs ----------------------------
(* TLAPS proofs about Snapshot, for every set of users, workers, resources *)
(* and attachments, every number of records and pages, and every bound.    *)
EXTENDS Snapshot, FiniteSetTheorems, WellFoundedInduction, TLAPS

(* Where a worker has a resource in hand, and where it is to work on it.   *)
Asking     == {"read", "mark", "budget", "setBudget", "page", "item", "record", "save",
               "window", "finish", "giveUp"}
Extracting == Asking \ {"read", "giveUp"}
UserPCs    == {"idle", "checkpoints", "find", "insert", "list", "reset", "reopen"}
WorkerPCs  == PCs \ {"checkpoints", "list", "reset", "reopen"}
Begun      == Statuses \ {"NONE"}

(* Types, and what a handler at l that holds m is about to write.          *)
Holding(a, l, m) ==
  /\ a \in Users => l \in UserPCs
  /\ a \in Workers => l \in WorkerPCs
  /\ m.cp.next # 0 /\ IsFiniteSet(m.rows)
  /\ l \in Asking => m.res \in Resources
  /\ l \in {"begin", "pick"} \cup Asking => m.phase = "step"
  /\ l = "finish" => m.verdict \in {"running", "completed"}
  /\ l = "giveUp" => m.verdict \in {"failed", "unsupported"}
  /\ l = "write" => m.verdict \in Begun
  /\ l = "report" => m.report # "none"
  /\ l \in {"validate", "report"} => m.intended \in Begun
  /\ l \in {"summary", "write"} /\ m.phase = "reconcile" => m.intended \in Begun
HeldOK(a) == Holding(a, pc[a], my[a])
PlacesOK == \A r \in Resources : cp[r].next # 0
RowOK    == queue.status = "RUNNING" => queue.holder \in Workers
TypeInv  == TypeOK /\ PlacesOK /\ RowOK /\ \A a \in Actors : HeldOK(a)

RowsTyped ==
  /\ snap \in [status : Statuses, report : {"none", "ok", "issues"}, budget : Nat \cup {None}]
  /\ cp \in [Resources -> Checkpoints]
  /\ files \subseteq [res : Resources, page : Nat, rows : SUBSET (Nat \X Nat)]
  /\ objects \subseteq Items /\ ledger \in [Items -> Outcomes]
QueueTyped ==
  /\ queue \in [status : {"NONE", "PENDING", "RUNNING"}, holder : Workers \cup {None},
                attempts : 0 .. MaxAttempts]
  /\ RowOK
BoundsTyped ==
  /\ retries \in 0 .. MaxRetries /\ failures \in 0 .. MaxFailures
  /\ crashes \in 0 .. MaxCrashes /\ overtaken \in 0 .. MaxOvertaken
  /\ raced \in BOOLEAN /\ lost \in BOOLEAN
ActorsTyped == pc \in [Actors -> PCs] /\ my \in [Actors -> Holdings]

(* A step of a takes it to l, holding m.                                   *)
Went(a, l, m) ==
  /\ ActorsTyped' /\ pc'[a] = l /\ my'[a] = m
  /\ \A b \in Actors \ {a} : pc'[b] = pc[b] /\ my'[b] = my[b]

-----------------------------------------------------------------------------
(* The least of a set of numbers.                                          *)
LEMMA Least ==
  ASSUME NEW T \in SUBSET Nat, T # {}
  PROVE  \E x \in T : \A y \in T : x <= y
<1> DEFINE R == {ss \in Nat \X Nat : ss[1] < ss[2]}
<1>1. IsWellFoundedOn(R, Nat)
  BY NatLessThanWellFounded DEF OpToRel
<1> HIDE DEF R
<1>2. PICK x \in T : \A y \in T : ~(<<y, x>> \in R)
  BY <1>1, WFMin
<1>3. ASSUME NEW y \in T PROVE x <= y
  <2>1. ~(y < x)
    BY <1>2 DEF R
  <2> QED BY <2>1
<1> QED BY <1>3

LEMMA MinIsLeast ==
  ASSUME NEW T \in SUBSET Nat, T # {}
  PROVE  Min(T) \in T /\ \A y \in T : Min(T) <= y
BY Least DEF Min

LEMMA OrderFacts ==
  /\ Order \in Seq(Resources) /\ DOMAIN Order = 1 .. Len(Order) /\ Len(Order) \in Nat
  /\ DOMAIN Order \subseteq Nat
  /\ \A r \in Resources : \E i \in DOMAIN Order : Order[i] = r
  /\ \A i \in DOMAIN Order : Order[i] \in Resources
  /\ None \notin Resources /\ None \notin Actors /\ None \notin Nat
  /\ \A a \in Actors : a \notin Users => a \in Workers
  /\ \A a \in Actors : a \notin Workers => a \in Users
  /\ \A w \in Workers : w \in Actors /\ w \notin Users
  /\ \A u \in Users : u \in Actors /\ u \notin Workers
  /\ Windows \in [Resources -> Seq(Nat)]
BY OrderAssumption, BoundAssumption DEF Resources, Range, Actors

-----------------------------------------------------------------------------
(* What is left of what a handler holds when part of it is set anew.       *)
SameData(r, m) ==
  /\ r.res = m.res /\ r.cp = m.cp /\ r.rows = m.rows /\ r.items = m.items
  /\ r.ledger = m.ledger /\ r.budget = m.budget
SameEnd(r, m) ==
  /\ r.phase = m.phase /\ r.intended = m.intended /\ r.report = m.report
  /\ r.done = m.done /\ r.failed = m.failed /\ r.todo = m.todo

LEMMA FreshFacts ==
  /\ NoCheckpoint \in Checkpoints /\ NoLedger \in [Items -> Outcomes] /\ Fresh \in Holdings
  /\ Fresh.res = None /\ Fresh.cp = NoCheckpoint /\ Fresh.rows = {} /\ Fresh.items = {}
  /\ Fresh.ledger = NoLedger /\ Fresh.budget = 0 /\ Fresh.verdict = "none" /\ Fresh.phase = "step"
  /\ Fresh.intended = "none" /\ Fresh.report = "none" /\ Fresh.todo = {}
  /\ Fresh.done = TRUE /\ Fresh.failed = FALSE /\ NoCheckpoint.next = 1 /\ NoCheckpoint.win = 1
  /\ NoCheckpoint.pages = 0 /\ NoCheckpoint.status = "absent"
  /\ IsFiniteSet(Fresh.rows)
<1>1. NoCheckpoint \in Checkpoints
  BY DEF NoCheckpoint, Checkpoints, Entity, Terminal
<1>2. NoLedger \in [Items -> Outcomes]
  BY DEF NoLedger, Outcomes, Final
<1>3. Fresh \in Holdings
  BY <1>1, <1>2 DEF Fresh, Holdings
<1>4. IsFiniteSet({})
  BY FS_EmptySet
<1> QED BY <1>1, <1>2, <1>3, <1>4 DEF Fresh, NoCheckpoint

LEMMA WithTodo ==
  ASSUME NEW m \in Holdings, NEW T \in SUBSET Resources
  PROVE  LET r == [m EXCEPT !.todo = T] IN
         r \in Holdings /\ r.todo = T /\ SameData(r, m) /\ r.verdict = m.verdict
BY DEF Holdings, SameData

LEMMA WithReplayed ==
  ASSUME NEW m \in Holdings, NEW b \in BOOLEAN
  PROVE  LET r == [m EXCEPT !.replayed = b] IN
         r \in Holdings /\ SameData(r, m) /\ SameEnd(r, m) /\ r.verdict = m.verdict
BY DEF Holdings, SameData, SameEnd

LEMMA WithFailed ==
  ASSUME NEW m \in Holdings
  PROVE  LET r == [m EXCEPT !.failed = TRUE] IN
         r \in Holdings /\ r.failed /\ SameData(r, m) /\ r.verdict = m.verdict
         /\ r.intended = m.intended
BY DEF Holdings, SameData

LEMMA WithDone ==
  ASSUME NEW m \in Holdings
  PROVE  LET r == [m EXCEPT !.done = FALSE] IN
         r \in Holdings /\ ~r.done /\ SameData(r, m) /\ r.verdict = m.verdict
         /\ r.intended = m.intended
BY DEF Holdings, SameData

LEMMA WithPhase ==
  ASSUME NEW m \in Holdings
  PROVE  LET r == [m EXCEPT !.phase = "finalize"] IN
         /\ r \in Holdings /\ r.phase = "finalize"
         /\ SameData(r, m) /\ r.verdict = m.verdict
         /\ r.intended = m.intended /\ r.failed = m.failed /\ r.done = m.done
BY DEF Holdings, SameData

LEMMA WithRes ==
  ASSUME NEW m \in Holdings, NEW q \in Resources
  PROVE  LET r == [m EXCEPT !.res = q] IN
         /\ r \in Holdings /\ r.res = q /\ r.cp = m.cp /\ r.rows = m.rows
         /\ SameEnd(r, m)
BY DEF Holdings, SameEnd

LEMMA WithCp ==
  ASSUME NEW m \in Holdings, NEW c \in Checkpoints
  PROVE  LET r == [m EXCEPT !.cp = c] IN
         /\ r \in Holdings /\ r.cp = c /\ r.res = m.res /\ r.rows = m.rows
         /\ SameEnd(r, m)
BY DEF Holdings, SameEnd

ReadsOf(m, b, l) == [m EXCEPT !.budget = b, !.ledger = l]

LEMMA WithBudget ==
  ASSUME NEW m \in Holdings, NEW b \in Nat, NEW l \in [Items -> Outcomes]
  PROVE  LET r == ReadsOf(m, b, l) IN
         /\ r \in Holdings /\ r.budget = b /\ r.ledger = l
         /\ r.res = m.res /\ r.cp = m.cp /\ r.rows = m.rows /\ SameEnd(r, m)
<1> DEFINE r == [m EXCEPT !.budget = b, !.ledger = l]
<1>1. ReadsOf(m, b, l) = r
  BY DEF ReadsOf
<1>2. /\ r \in Holdings /\ r.budget = b /\ r.ledger = l
      /\ r.res = m.res /\ r.cp = m.cp /\ r.rows = m.rows /\ SameEnd(r, m)
  BY DEF Holdings, SameEnd
<1> HIDE DEF r
<1> QED BY <1>1, <1>2

LEMMA WithVerdict ==
  ASSUME NEW m \in Holdings, NEW v \in Entity \cup Statuses \cup {"none"}
  PROVE  LET r == [m EXCEPT !.verdict = v] IN
         r \in Holdings /\ r.verdict = v /\ SameData(r, m) /\ SameEnd(r, m)
BY DEF Holdings, SameData, SameEnd

PageOf(m, R, I) == [m EXCEPT !.rows = R, !.items = I, !.asked = @ + 1]

LEMMA WithRows ==
  ASSUME NEW m \in Holdings, NEW R \in SUBSET (Nat \X Nat), NEW I \in SUBSET Items
  PROVE  LET r == PageOf(m, R, I) IN
         /\ r \in Holdings
         /\ r.rows = R /\ r.items = I /\ r.res = m.res /\ r.cp = m.cp
         /\ r.ledger = m.ledger /\ r.budget = m.budget /\ SameEnd(r, m)
<1> DEFINE k == m.asked + 1
           r == [m EXCEPT !.rows = R, !.items = I, !.asked = k]
<1>0. k \in Nat
  BY DEF Holdings
<1>1. PageOf(m, R, I) = r
  BY DEF PageOf
<1> HIDE DEF k
<1>2. /\ r.rows = R /\ r.items = I /\ r.res = m.res /\ r.cp = m.cp
      /\ r.ledger = m.ledger /\ r.budget = m.budget /\ SameEnd(r, m)
  BY DEF Holdings, SameEnd
<1>3. r \in Holdings
  BY <1>0 DEF Holdings
<1> HIDE DEF r
<1> QED BY <1>1, <1>2, <1>3

TallyOf(m, n) == [m EXCEPT !.cp.tally = @ \cup {n}]

LEMMA WithTally ==
  ASSUME NEW m \in Holdings, NEW n \in Nat
  PROVE  LET r == TallyOf(m, n) IN
         /\ r \in Holdings
         /\ r.cp.win = m.cp.win /\ r.cp.next = m.cp.next /\ r.cp.pages = m.cp.pages
         /\ r.res = m.res /\ r.rows = m.rows /\ SameEnd(r, m)
<1> DEFINE r == [m EXCEPT !.cp.tally = @ \cup {n}]
<1>1. TallyOf(m, n) = r
  BY DEF TallyOf
<1>2. /\ r \in Holdings
      /\ r.cp.win = m.cp.win /\ r.cp.next = m.cp.next /\ r.cp.pages = m.cp.pages
      /\ r.res = m.res /\ r.rows = m.rows /\ SameEnd(r, m)
  BY DEF Holdings, Checkpoints, SameEnd
<1> HIDE DEF r
<1> QED BY <1>1, <1>2

SingleOf(m, n, p) == [m EXCEPT !.verdict = "completed", !.cp.records = n, !.cp.pages = p]

LEMMA WithSingle ==
  ASSUME NEW m \in Holdings, NEW n \in Nat, NEW p \in Nat
  PROVE  LET r == SingleOf(m, n, p) IN
         /\ r \in Holdings
         /\ r.cp.next = m.cp.next /\ r.cp.pages = p /\ r.verdict = "completed"
         /\ r.res = m.res /\ r.rows = m.rows /\ SameEnd(r, m)
<1> DEFINE r == [m EXCEPT !.verdict = "completed", !.cp.records = n, !.cp.pages = p]
<1>1. SingleOf(m, n, p) = r
  BY DEF SingleOf
<1>2. /\ r \in Holdings
      /\ r.cp.next = m.cp.next /\ r.cp.pages = p /\ r.verdict = "completed"
      /\ r.res = m.res /\ r.rows = m.rows /\ SameEnd(r, m)
  BY DEF Holdings, Checkpoints, SameEnd, Entity, Terminal
<1> HIDE DEF r
<1> QED BY <1>1, <1>2

EntryOf(m, i, o) == [m EXCEPT !.ledger[i] = o, !.items = @ \ {i}]

LEMMA WithEntry ==
  ASSUME NEW m \in Holdings, NEW i \in Items, NEW o \in Outcomes
  PROVE  LET r == EntryOf(m, i, o) IN
         /\ r \in Holdings
         /\ r.ledger = [m.ledger EXCEPT ![i] = o] /\ r.items = m.items \ {i}
         /\ r.res = m.res /\ r.rows = m.rows /\ r.cp = m.cp /\ r.budget = m.budget
         /\ SameEnd(r, m)
<1> DEFINE r == [m EXCEPT !.ledger[i] = o, !.items = @ \ {i}]
<1>1. EntryOf(m, i, o) = r
  BY DEF EntryOf
<1>2. /\ r \in Holdings
      /\ r.ledger = [m.ledger EXCEPT ![i] = o] /\ r.items = m.items \ {i}
      /\ r.res = m.res /\ r.rows = m.rows /\ r.cp = m.cp /\ r.budget = m.budget
      /\ SameEnd(r, m)
  BY DEF Holdings, SameEnd
<1> HIDE DEF r
<1> QED BY <1>1, <1>2

SavedOf(m, c, v) == [m EXCEPT !.cp = c, !.rows = {}, !.verdict = v]

LEMMA WithPage ==
  ASSUME NEW m \in Holdings, NEW c \in Checkpoints, NEW v \in Entity \cup Statuses \cup {"none"}
  PROVE  LET r == SavedOf(m, c, v) IN
         /\ r \in Holdings
         /\ r.cp = c /\ r.rows = {} /\ r.verdict = v /\ r.items = m.items
         /\ r.res = m.res /\ r.ledger = m.ledger /\ r.budget = m.budget /\ SameEnd(r, m)
<1> DEFINE r == [m EXCEPT !.cp = c, !.rows = {}, !.verdict = v]
<1>1. SavedOf(m, c, v) = r
  BY DEF SavedOf
<1>2. /\ r \in Holdings
      /\ r.cp = c /\ r.rows = {} /\ r.verdict = v /\ r.items = m.items
      /\ r.res = m.res /\ r.ledger = m.ledger /\ r.budget = m.budget /\ SameEnd(r, m)
  BY DEF Holdings, SameEnd, Entity, Terminal
<1> HIDE DEF r
<1> QED BY <1>1, <1>2

WindowedOf(m, c, v) == [m EXCEPT !.cp = c, !.verdict = v]

LEMMA WithWindow ==
  ASSUME NEW m \in Holdings, NEW c \in Checkpoints, NEW v \in Entity \cup Statuses \cup {"none"}
  PROVE  LET r == WindowedOf(m, c, v) IN
         /\ r \in Holdings
         /\ r.cp = c /\ r.verdict = v /\ r.res = m.res /\ r.rows = m.rows /\ SameEnd(r, m)
<1> DEFINE r == [m EXCEPT !.cp = c, !.verdict = v]
<1>1. WindowedOf(m, c, v) = r
  BY DEF WindowedOf
<1>2. /\ r \in Holdings
      /\ r.cp = c /\ r.verdict = v /\ r.res = m.res /\ r.rows = m.rows /\ SameEnd(r, m)
  BY DEF Holdings, SameEnd, Entity, Terminal
<1> HIDE DEF r
<1> QED BY <1>1, <1>2

IntendOf(m, s) == [m EXCEPT !.intended = s, !.phase = "reconcile"]

LEMMA WithIntended ==
  ASSUME NEW m \in Holdings, NEW s \in Statuses
  PROVE  LET r == IntendOf(m, s) IN
         /\ r \in Holdings
         /\ r.intended = s /\ r.phase = "reconcile" /\ SameData(r, m)
         /\ r.verdict = m.verdict /\ r.report = m.report
<1> DEFINE r == [m EXCEPT !.intended = s, !.phase = "reconcile"]
<1>1. IntendOf(m, s) = r
  BY DEF IntendOf
<1>2. /\ r \in Holdings
      /\ r.intended = s /\ r.phase = "reconcile" /\ SameData(r, m)
      /\ r.verdict = m.verdict /\ r.report = m.report
  BY DEF Holdings, SameData
<1> HIDE DEF r
<1> QED BY <1>1, <1>2

LEMMA WithReport ==
  ASSUME NEW m \in Holdings, NEW v \in {"ok", "issues"}
  PROVE  LET r == [m EXCEPT !.report = v] IN
         /\ r \in Holdings /\ r.report = v
         /\ SameData(r, m) /\ r.intended = m.intended /\ r.phase = m.phase
BY DEF Holdings, SameData
-----------------------------------------------------------------------------
(* Types.                                                                  *)
LEMMA TypeParts ==
  TypeOK <=> RowsTyped /\ BoundsTyped /\ ActorsTyped
             /\ queue \in [status : {"NONE", "PENDING", "RUNNING"}, holder : Workers \cup {None},
                           attempts : 0 .. MaxAttempts]
BY DEF TypeOK, RowsTyped, BoundsTyped, ActorsTyped

LEMMA HoldsNew ==
  ASSUME TypeInv, NEW a \in Actors, NEW l \in PCs, NEW m \in Holdings, Goto(a, l), Become(a, m)
  PROVE  Went(a, l, m)
BY DEF TypeInv, TypeOK, Goto, Become, Went, ActorsTyped

LEMMA HoldsOn ==
  ASSUME TypeInv, NEW a \in Actors, NEW l \in PCs, Goto(a, l), UNCHANGED my
  PROVE  Went(a, l, my[a])
BY DEF TypeInv, TypeOK, Goto, Went, ActorsTyped

LEMMA Held ==
  ASSUME TypeInv, NEW a \in Actors
  PROVE  /\ my[a] \in Holdings /\ pc[a] \in PCs /\ Holding(a, pc[a], my[a])
         /\ my[a].cp \in Checkpoints /\ my[a].verdict \in Entity \cup Statuses \cup {"none"}
         /\ my[a].intended \in Statuses \cup {"none"} /\ my[a].report \in {"none", "ok", "issues"}
         /\ my[a].rows \in SUBSET (Nat \X Nat) /\ my[a].items \in SUBSET Items
         /\ my[a].ledger \in [Items -> Outcomes] /\ my[a].budget \in Nat /\ my[a].todo \in SUBSET Resources
         /\ my[a].done \in BOOLEAN /\ my[a].failed \in BOOLEAN
         /\ my[a].phase \in {"step", "finalize", "reconcile"}
BY DEF TypeInv, TypeOK, HeldOK, Holdings

LEMMA TypeStep ==
  ASSUME TypeInv, NEW a \in Actors, NEW l, NEW m, Went(a, l, m), Holding(a, l, m),
         RowsTyped', PlacesOK', QueueTyped', BoundsTyped'
  PROVE  TypeInv'
<1>1. TypeOK'
  BY TypeParts DEF Went, QueueTyped, TypeOK, RowsTyped, BoundsTyped, ActorsTyped
<1>2. ASSUME NEW b \in Actors PROVE HeldOK(b)'
  <2>1. CASE b = a
    BY <2>1 DEF Went, HeldOK
  <2>2. CASE b # a
    BY <2>2 DEF Went, HeldOK, TypeInv
  <2> QED BY <2>1, <2>2
<1> QED BY <1>1, <1>2 DEF TypeInv, QueueTyped

LEMMA SameTyped ==
  ASSUME TypeInv
  PROVE  /\ UNCHANGED <<snap, store>> => RowsTyped'
         /\ UNCHANGED cp => PlacesOK'
         /\ UNCHANGED queue => QueueTyped'
         /\ UNCHANGED bounds => BoundsTyped'
         /\ RowsTyped /\ PlacesOK /\ QueueTyped /\ BoundsTyped
BY DEF TypeInv, TypeOK, RowsTyped, PlacesOK, QueueTyped, BoundsTyped, store, bounds, RowOK

LEMMA ToFresh ==
  ASSUME TypeInv, NEW a \in Actors, NEW l \in PCs, Goto(a, l), Become(a, Fresh)
  PROVE  Went(a, l, Fresh)
BY HoldsNew, FreshFacts

LEMMA ToIdle ==
  ASSUME TypeInv, NEW a \in Actors, Return(a)
  PROVE  Went(a, "idle", Fresh)
BY ToFresh DEF Return, PCs

LEMMA FreshHeld ==
  ASSUME NEW a \in Actors, NEW l, a \in Users => l \in UserPCs, a \in Workers => l \in WorkerPCs,
         l \notin Asking \cup {"write", "validate", "report"}
  PROVE  Holding(a, l, Fresh)
BY FreshFacts DEF Holding, Asking

(* The users' requests.                                                    *)
LEMMA CreateEffect ==
  ASSUME TypeInv, NEW u \in Users, Create(u)
  PROVE  TypeInv' /\ Went(u, "checkpoints", my[u])
<1>1. u \in Actors /\ u \notin Workers /\ "checkpoints" \in PCs
  BY OrderFacts DEF PCs
<1>2. Went(u, "checkpoints", my[u])
  BY <1>1, HoldsOn DEF Create
<1>3. Holding(u, "checkpoints", my[u])
  BY <1>1, Held DEF Holding, UserPCs, Asking
<1>4. snap' = [snap EXCEPT !.status = "RUNNING"] /\ UNCHANGED <<store, queue, bounds>>
  BY DEF Create
<1>5. RowsTyped'
  BY <1>4 DEF store, RowsTyped, TypeInv, TypeOK, Statuses
<1>6. UNCHANGED cp
  BY <1>4 DEF store
<1> QED BY <1>1, <1>2, <1>3, <1>4, <1>5, <1>6, SameTyped, TypeStep

LEMMA InsertCheckpointsEffect ==
  ASSUME TypeInv, NEW u \in Users, InsertCheckpoints(u)
  PROVE  /\ TypeInv' /\ Went(u, "find", my[u])
         /\ \A r \in Resources : cp'[r].status = "pending" /\ cp'[r].win = 1 /\ cp'[r].next = 1 /\ cp'[r].pages = 0
<1>1. u \in Actors /\ u \notin Workers /\ "find" \in PCs
  BY OrderFacts DEF PCs
<1>2. Went(u, "find", my[u])
  BY <1>1, HoldsOn DEF InsertCheckpoints
<1>3. Holding(u, "find", my[u])
  BY <1>1, Held DEF Holding, UserPCs, Asking
<1> DEFINE c == [NoCheckpoint EXCEPT !.status = "pending"]
<1>4. cp' = [r \in Resources |-> c] /\ UNCHANGED <<snap, files, objects, ledger, queue, bounds>>
  BY DEF InsertCheckpoints
<1>5. c \in Checkpoints /\ c.status = "pending" /\ c.win = 1 /\ c.next = 1 /\ c.pages = 0
  BY FreshFacts DEF Checkpoints, Entity
<1> HIDE DEF c
<1>6. RowsTyped' /\ PlacesOK'
  BY <1>4, <1>5 DEF RowsTyped, PlacesOK, TypeInv, TypeOK
<1>7. QueueTyped' /\ BoundsTyped'
  BY <1>4, SameTyped
<1>8. \A r \in Resources : cp'[r].status = "pending" /\ cp'[r].win = 1 /\ cp'[r].next = 1 /\ cp'[r].pages = 0
  BY <1>4, <1>5
<1> QED BY <1>1, <1>2, <1>3, <1>6, <1>7, <1>8, TypeStep

LEMMA FindEffect ==
  ASSUME TypeInv, NEW a \in Actors, Find(a)
  PROVE  /\ TypeInv' /\ UNCHANGED <<tables, bounds>>
         /\ \/ queue.status = "NONE" /\ Went(a, "insert", my[a])
            \/ queue.status # "NONE" /\ Went(a, "idle", Fresh)
<1>1. UNCHANGED <<tables, bounds>> /\ "insert" \in PCs
  BY DEF Find, PCs
<1>2. RowsTyped' /\ PlacesOK' /\ QueueTyped' /\ BoundsTyped'
  BY <1>1, SameTyped DEF tables, store
<1>3. CASE queue.status = "NONE"
  <2>1. Went(a, "insert", my[a])
    BY <1>1, <1>3, HoldsOn DEF Find
  <2>2. Holding(a, "insert", my[a])
    BY Held DEF Holding, UserPCs, WorkerPCs, Asking, PCs
  <2> QED BY <1>1, <1>2, <1>3, <2>1, <2>2, TypeStep
<1>4. CASE queue.status # "NONE"
  <2>1. Went(a, "idle", Fresh)
    BY <1>4, ToIdle DEF Find
  <2>2. Holding(a, "idle", Fresh)
    BY FreshHeld DEF UserPCs, WorkerPCs, Asking, PCs
  <2> QED BY <1>1, <1>2, <1>4, <2>1, <2>2, TypeStep
<1> QED BY <1>3, <1>4

LEMMA IdleHeld ==
  ASSUME NEW a \in Actors
  PROVE  Holding(a, "idle", Fresh)
BY FreshHeld DEF UserPCs, WorkerPCs, Asking, PCs

LEMMA InsertEffect ==
  ASSUME TypeInv, NEW a \in Actors, Insert(a)
  PROVE  /\ TypeInv' /\ Went(a, "idle", Fresh) /\ UNCHANGED <<snap, store, bounds>>
         /\ queue.status = "NONE" => queue'.status = "PENDING"
         /\ queue.status # "NONE" => UNCHANGED queue
<1>1. Went(a, "idle", Fresh) /\ UNCHANGED <<snap, store, bounds>>
  BY ToIdle DEF Insert
<1>2. RowsTyped' /\ PlacesOK' /\ BoundsTyped'
  BY <1>1, SameTyped DEF store
<1>3. /\ queue.status = "NONE" => queue' = [queue EXCEPT !.status = "PENDING"]
      /\ queue.status # "NONE" => UNCHANGED queue
  BY DEF Insert
<1>4. QueueTyped' /\ (queue.status = "NONE" => queue'.status = "PENDING")
  BY <1>3, SameTyped DEF QueueTyped, RowOK
<1> QED BY <1>1, <1>2, <1>3, <1>4, IdleHeld, TypeStep

LEMMA MeetsTyped ==
  ASSUME TypeInv, NEW u, Meets(u), UNCHANGED <<failures, crashes, overtaken, lost>>,
         retries' \in 0 .. MaxRetries
  PROVE  BoundsTyped'
<1>1. raced' \in BOOLEAN
  BY DEF Meets
<1> QED BY <1>1, SameTyped DEF BoundsTyped

LEMMA RetryEffect ==
  ASSUME TypeInv, NEW u \in Users, Retry(u)
  PROVE  TypeInv' /\ Went(u, "list", my[u])
<1>1. u \in Actors /\ u \notin Workers /\ "list" \in PCs
  BY OrderFacts DEF PCs
<1>2. Went(u, "list", my[u]) /\ UNCHANGED tables
  BY <1>1, HoldsOn DEF Retry
<1>3. Holding(u, "list", my[u])
  BY <1>1, Held DEF Holding, UserPCs, Asking
<1>4. retries' \in 0 .. MaxRetries
  BY BoundAssumption DEF Retry, TypeInv, TypeOK
<1>5. BoundsTyped'
  BY <1>4, MeetsTyped DEF Retry
<1>6. RowsTyped' /\ PlacesOK' /\ QueueTyped'
  BY <1>2, SameTyped DEF tables, store
<1> QED BY <1>1, <1>2, <1>3, <1>5, <1>6, TypeStep

LEMMA ListEffect ==
  ASSUME TypeInv, NEW u \in Users, List(u)
  PROVE  /\ TypeInv'
         /\ \E m \in Holdings : /\ m.todo = {r \in Resources : cp[r].status \in {"failed", "running"}}
                                /\ m.intended = "none"
                                /\ \/ m.todo = {} /\ Went(u, "reopen", m)
                                   \/ m.todo # {} /\ Went(u, "reset", m)
<1>1. u \in Actors /\ u \notin Workers /\ "reset" \in PCs /\ "reopen" \in PCs
  BY OrderFacts DEF PCs
<1> DEFINE T == {r \in Resources : cp[r].status \in {"failed", "running"}}
           m == [Fresh EXCEPT !.todo = T]
           l == IF T = {} THEN "reopen" ELSE "reset"
<1>2. m \in Holdings /\ m.todo = T /\ SameData(m, Fresh) /\ m.intended = "none"
  BY FreshFacts, WithTodo DEF Fresh
<1>3. Become(u, m) /\ UNCHANGED <<tables, retries, failures, crashes, overtaken, lost>> /\ Meets(u)
  BY DEF List
<1>4. my'[u] = m
  BY <1>1, <1>3 DEF Become, TypeInv, TypeOK
<1>5. Goto(u, l)
  BY <1>2, <1>4 DEF List
<1>6. Holding(u, l, m)
  BY <1>1, <1>2, FreshFacts DEF Holding, UserPCs, Asking, SameData
<1> HIDE DEF m
<1>7. Went(u, l, m)
  BY <1>1, <1>2, <1>3, <1>5, HoldsNew
<1>8. RowsTyped' /\ PlacesOK' /\ QueueTyped'
  BY <1>3, SameTyped DEF tables, store
<1>9. BoundsTyped'
  BY <1>3, MeetsTyped, SameTyped DEF BoundsTyped
<1>10. TypeInv'
  BY <1>1, <1>6, <1>7, <1>8, <1>9, TypeStep
<1> QED BY <1>2, <1>7, <1>10

(* Writes of a checkpoint.                                                 *)
LEMMA SaveTyped ==
  ASSUME TypeInv, NEW r \in Resources, NEW c \in Checkpoints, c.next # 0, SaveCheckpoint(r, c),
         UNCHANGED <<snap, files, objects, ledger>>
  PROVE  /\ RowsTyped' /\ PlacesOK' /\ cp'[r] = c
         /\ \A q \in Resources \ {r} : cp'[q] = cp[q]
BY DEF SaveCheckpoint, TypeInv, TypeOK, RowsTyped, PlacesOK

LEMMA StatusOnly ==
  ASSUME TypeInv, NEW r \in Resources, NEW s \in Entity
  PROVE  LET c == [cp[r] EXCEPT !.status = s] IN
         /\ c \in Checkpoints /\ c.status = s /\ c.win = cp[r].win /\ c.next = cp[r].next
         /\ c.pages = cp[r].pages /\ c.next # 0
<1>1. cp[r] \in Checkpoints /\ cp[r].next # 0
  BY DEF TypeInv, TypeOK, PlacesOK
<1> QED BY <1>1 DEF Checkpoints

LEMMA ResetEffect ==
  ASSUME TypeInv, NEW u \in Users, NEW r \in Resources, Reset(u, r)
  PROVE  /\ TypeInv' /\ UNCHANGED <<snap, files, objects, ledger, queue>>
         /\ cp'[r].status = "pending" /\ cp'[r].win = cp[r].win /\ cp'[r].next = cp[r].next
         /\ cp'[r].pages = cp[r].pages
         /\ \A q \in Resources \ {r} : cp'[q] = cp[q]
         /\ \E m \in Holdings : /\ m.todo = my[u].todo \ {r}
                                /\ Went(u, "reopen", m) \/ Went(u, "reset", m)
<1>1. u \in Actors /\ u \notin Workers /\ "reset" \in PCs /\ "reopen" \in PCs
  BY OrderFacts DEF PCs
<1> DEFINE m == [my[u] EXCEPT !.todo = @ \ {r}]
           l == IF my[u].todo = {r} THEN "reopen" ELSE "reset"
           c == [cp[r] EXCEPT !.status = "pending"]
<1>2. my[u].todo \ {r} \in SUBSET Resources /\ my[u] \in Holdings
  BY <1>1, Held
<1>3. m \in Holdings /\ m.todo = my[u].todo \ {r} /\ SameData(m, my[u])
  BY <1>2, WithTodo
<1>4. Become(u, m) /\ Goto(u, l) /\ UNCHANGED <<snap, files, objects, ledger, queue>> /\ SaveCheckpoint(r, c)
  BY DEF Reset
<1>5. Holding(u, l, m)
  BY <1>1, <1>3, Held DEF Holding, UserPCs, Asking, SameData
<1> HIDE DEF m
<1>6. Went(u, l, m)
  BY <1>1, <1>3, <1>4, HoldsNew
<1>7. c \in Checkpoints /\ c.status = "pending" /\ c.win = cp[r].win /\ c.next = cp[r].next
      /\ c.pages = cp[r].pages /\ c.next # 0
  BY StatusOnly DEF Entity
<1> HIDE DEF c
<1>8. RowsTyped' /\ PlacesOK' /\ cp'[r] = c /\ \A q \in Resources \ {r} : cp'[q] = cp[q]
  BY <1>4, <1>7, SaveTyped
<1>9. BoundsTyped'
  BY MeetsTyped, SameTyped DEF Reset, BoundsTyped
<1>10. QueueTyped'
  BY <1>4, SameTyped
<1>11. TypeInv'
  BY <1>1, <1>5, <1>6, <1>8, <1>9, <1>10, TypeStep
<1> QED BY <1>3, <1>4, <1>6, <1>7, <1>8, <1>11

LEMMA ReopenEffect ==
  ASSUME TypeInv, NEW u \in Users, Reopen(u)
  PROVE  /\ TypeInv' /\ Went(u, "find", my[u]) /\ UNCHANGED <<store, queue>>
         /\ snap'.status = "RUNNING" /\ snap'.budget = snap.budget
<1>1. u \in Actors /\ u \notin Workers /\ "find" \in PCs
  BY OrderFacts DEF PCs
<1>2. Went(u, "find", my[u]) /\ UNCHANGED <<store, queue>>
  BY <1>1, HoldsOn DEF Reopen
<1>3. Holding(u, "find", my[u])
  BY <1>1, Held DEF Holding, UserPCs, Asking
<1>4. snap' = [snap EXCEPT !.status = "RUNNING", !.report = "none"]
  BY DEF Reopen
<1>5. RowsTyped' /\ snap'.status = "RUNNING" /\ snap'.budget = snap.budget
  BY <1>2, <1>4 DEF store, RowsTyped, TypeInv, TypeOK, Statuses
<1>6. BoundsTyped'
  BY MeetsTyped, SameTyped DEF Reopen, BoundsTyped
<1>7. QueueTyped' /\ PlacesOK'
  BY <1>2, SameTyped DEF store
<1> QED BY <1>1, <1>2, <1>3, <1>5, <1>6, <1>7, TypeStep

LEMMA OverlookEffect ==
  ASSUME TypeInv, NEW u \in Users, Overlook(u)
  PROVE  /\ TypeInv' /\ UNCHANGED tables
         /\ \E m \in Holdings : /\ m.todo \subseteq my[u].todo
                                /\ \/ Went(u, "find", m) \/ Went(u, "reopen", m)
                                   \/ pc[u] = "reset" /\ Went(u, "reset", m)
<1>1. /\ u \in Actors /\ u \notin Workers /\ {"find", "reset", "reopen"} \subseteq PCs
      /\ my[u] \in Holdings /\ UNCHANGED tables
  BY OrderFacts, Held DEF PCs, Overlook
<1>2. failures' \in 0 .. MaxFailures /\ raced' \in BOOLEAN
  BY BoundAssumption DEF Overlook, Meets, TypeInv, TypeOK
<1>3. BoundsTyped' /\ RowsTyped' /\ PlacesOK' /\ QueueTyped'
  <2>1. RowsTyped' /\ PlacesOK' /\ QueueTyped'
    BY <1>1, SameTyped DEF tables, store
  <2>2. UNCHANGED <<retries, crashes, overtaken, lost>>
    BY DEF Overlook
  <2>3. BoundsTyped'
    BY <1>2, <2>2, SameTyped DEF BoundsTyped
  <2> QED BY <2>1, <2>3
<1>4. ASSUME pc[u] = "reopen"
      PROVE  Went(u, "find", my[u]) /\ Holding(u, "find", my[u])
  <2>1. Went(u, "find", my[u])
    BY <1>1, <1>4, HoldsOn DEF Overlook
  <2> QED BY <1>1, <2>1, Held DEF Holding, UserPCs, Asking
<1>5. ASSUME NEW r \in my[u].todo, NEW l \in {"reset", "reopen"}, Goto(u, l),
             Become(u, [my[u] EXCEPT !.todo = @ \ {r}])
      PROVE  \E m \in Holdings : m.todo \subseteq my[u].todo /\ Went(u, l, m) /\ Holding(u, l, m)
  <2> DEFINE m == [my[u] EXCEPT !.todo = @ \ {r}]
  <2>1. my[u].todo \ {r} \in SUBSET Resources
    BY <1>1, Held
  <2>2. m \in Holdings /\ m.todo = my[u].todo \ {r} /\ SameData(m, my[u])
    BY <1>1, <2>1, WithTodo
  <2>3. Become(u, m)
    BY <1>5
  <2>4. Holding(u, l, m)
    BY <1>1, <2>2, Held DEF Holding, UserPCs, Asking, SameData
  <2> HIDE DEF m
  <2>5. Went(u, l, m)
    BY <1>1, <1>5, <2>2, <2>3, HoldsNew
  <2> QED BY <2>2, <2>4, <2>5
<1>6. CASE pc[u] = "reopen"
  BY <1>1, <1>3, <1>4, <1>6, TypeStep
<1>7. CASE pc[u] # "reopen"
  <2>1. pc[u] = "reset"
    BY <1>7 DEF Overlook
  <2>2. PICK r \in my[u].todo : /\ Become(u, [my[u] EXCEPT !.todo = @ \ {r}])
                               /\ Goto(u, IF my[u].todo = {r} THEN "reopen" ELSE "reset")
    BY <1>7 DEF Overlook
  <2>3. PICK l \in {"reset", "reopen"} : Goto(u, l)
    BY <2>2
  <2>4. PICK m \in Holdings : m.todo \subseteq my[u].todo /\ Went(u, l, m) /\ Holding(u, l, m)
    BY <1>5, <2>2, <2>3
  <2>5. TypeInv'
    BY <1>1, <1>3, <2>4, TypeStep
  <2> QED BY <1>1, <2>1, <2>3, <2>4, <2>5
<1> QED BY <1>6, <1>7

(* The queue row.                                                          *)
LEMMA WorkerHeld ==
  ASSUME NEW w \in Workers, NEW l \in WorkerPCs, l \notin Asking \cup {"write", "validate", "report"}
  PROVE  w \in Actors /\ w \notin Users /\ Holding(w, l, Fresh) /\ l \in PCs
BY OrderFacts, FreshHeld DEF WorkerPCs

LEMMA ClaimEffect ==
  ASSUME TypeInv, NEW w \in Workers, Claim(w)
  PROVE  /\ TypeInv' /\ pc[w] = "idle" /\ Went(w, "begin", Fresh) /\ UNCHANGED <<snap, store, lost>>
         /\ queue.status \in {"PENDING", "RUNNING"} /\ queue'.status = "RUNNING" /\ queue'.holder = w
         /\ overtaken' = 0 => /\ overtaken = 0
                              /\ queue.status = "RUNNING" => ~Working(queue.holder)
         /\ ~raced' => ~raced /\ \A u \in Users : pc[u] \notin Reopening
<1>1. "begin" \in WorkerPCs /\ "begin" \notin Asking \cup {"write", "validate", "report"}
  BY DEF WorkerPCs, PCs, Asking
<1>2. w \in Actors /\ Holding(w, "begin", Fresh) /\ "begin" \in PCs
  BY <1>1, WorkerHeld
<1>3. Went(w, "begin", Fresh) /\ UNCHANGED <<snap, store, retries, failures, crashes, lost>> /\ pc[w] = "idle"
  BY <1>2, ToFresh DEF Claim
<1> DEFINE k == IF queue.attempts < MaxAttempts THEN queue.attempts + 1 ELSE queue.attempts
<1>4. queue' = [status |-> "RUNNING", holder |-> w, attempts |-> k]
  BY DEF Claim
<1>5. k \in 0 .. MaxAttempts
  BY BoundAssumption DEF TypeInv, TypeOK
<1> HIDE DEF k
<1>6. QueueTyped' /\ queue'.status = "RUNNING" /\ queue'.holder = w
  BY <1>4, <1>5 DEF QueueTyped, RowOK
<1>7. /\ queue.status \in {"PENDING", "RUNNING"}
      /\ \/ UNCHANGED overtaken /\ (queue.status = "RUNNING" => ~Working(queue.holder))
         \/ overtaken < MaxOvertaken /\ overtaken' = overtaken + 1
      /\ raced' = (raced \/ \E u \in Users : pc[u] \in Reopening)
  BY DEF Claim
<1>8. BoundsTyped' /\ (overtaken' = 0 => overtaken = 0 /\ (queue.status = "RUNNING" => ~Working(queue.holder)))
  <2>1. overtaken' \in 0 .. MaxOvertaken /\ overtaken \in Nat /\ raced' \in BOOLEAN
    BY <1>7, BoundAssumption DEF TypeInv, TypeOK
  <2> QED BY <1>3, <1>7, <2>1, SameTyped DEF BoundsTyped
<1>9. RowsTyped' /\ PlacesOK'
  BY <1>3, SameTyped DEF store
<1> QED BY <1>2, <1>3, <1>6, <1>7, <1>8, <1>9, TypeStep

LEMMA CompleteEffect ==
  ASSUME TypeInv, NEW w \in Workers, Complete(w)
  PROVE  /\ TypeInv' /\ UNCHANGED <<snap, store, overtaken, raced>> /\ pc[w] = "complete"
         /\ \/ ~Owner(w) /\ Went(w, "idle", Fresh) /\ UNCHANGED <<queue, lost>>
            \/ /\ Owner(w) /\ Went(w, "idle", Fresh)
               /\ queue'.status = "PENDING" \/ (queue'.status = "NONE" /\ lost')
               /\ lost => lost'
            \/ /\ Owner(w) /\ ~my[w].failed /\ queue'.status = "NONE" /\ UNCHANGED lost
               /\ (my[w].done /\ Went(w, "idle", Fresh)) \/ (~my[w].done /\ Went(w, "find", Fresh))
<1>1. "find" \in WorkerPCs /\ "find" \notin Asking \cup {"write", "validate", "report"}
  BY DEF WorkerPCs, PCs, Asking
<1>2. w \in Actors /\ Holding(w, "find", Fresh) /\ "find" \in PCs /\ Holding(w, "idle", Fresh)
  BY <1>1, WorkerHeld, IdleHeld, OrderFacts
<1>3. UNCHANGED <<snap, store, retries, failures, crashes, overtaken, raced>> /\ pc[w] = "complete"
  BY DEF Complete
<1>4. RowsTyped' /\ PlacesOK'
  BY <1>3, SameTyped DEF store
<1>5. CASE ~Owner(w)
  <2>1. Went(w, "idle", Fresh) /\ UNCHANGED <<queue, lost>>
    BY <1>2, <1>5, ToIdle DEF Complete
  <2>2. QueueTyped' /\ BoundsTyped'
    BY <1>3, <2>1, SameTyped DEF bounds
  <2> QED BY <1>2, <1>3, <1>4, <1>5, <2>1, <2>2, TypeStep
<1>6. CASE Owner(w) /\ my[w].failed
  <2>1. /\ queue' = IF queue.attempts < MaxAttempts THEN [queue EXCEPT !.status = "PENDING", !.holder = None]
                    ELSE NoQueue
        /\ lost' = (lost \/ queue.attempts = MaxAttempts) /\ Return(w)
    BY <1>6 DEF Complete
  <2>2. Went(w, "idle", Fresh)
    BY <1>2, <2>1, ToIdle
  <2>3. queue.attempts \in 0 .. MaxAttempts /\ MaxAttempts \in Nat
    BY BoundAssumption DEF TypeInv, TypeOK
  <2>4. QueueTyped' /\ (queue'.status = "PENDING" \/ (queue'.status = "NONE" /\ lost'))
    <3>1. CASE queue.attempts < MaxAttempts
      <4> DEFINE q == [queue EXCEPT !.status = "PENDING", !.holder = None]
      <4>1. q.status = "PENDING" /\ q \in [status : {"NONE", "PENDING", "RUNNING"},
                                           holder : Workers \cup {None}, attempts : 0 .. MaxAttempts]
        BY DEF TypeInv, TypeOK
      <4>2. queue' = q
        BY <2>1, <3>1
      <4> HIDE DEF q
      <4> QED BY <4>1, <4>2 DEF QueueTyped, RowOK
    <3>2. CASE ~(queue.attempts < MaxAttempts)
      <4>1. queue' = NoQueue /\ queue.attempts = MaxAttempts
        BY <2>1, <2>3, <3>2
      <4>2. NoQueue.status = "NONE" /\ NoQueue \in [status : {"NONE", "PENDING", "RUNNING"},
                                     holder : Workers \cup {None}, attempts : 0 .. MaxAttempts]
        BY <2>3 DEF NoQueue
      <4>3. lost'
        BY <2>1, <4>1
      <4> QED BY <4>1, <4>2, <4>3 DEF QueueTyped, RowOK
    <3> QED BY <3>1, <3>2
  <2>5. BoundsTyped'
    BY <1>3, <2>1, SameTyped DEF BoundsTyped
  <2> QED BY <1>2, <1>3, <1>4, <1>6, <2>1, <2>2, <2>4, <2>5, TypeStep
<1>7. CASE Owner(w) /\ ~my[w].failed
  <2> DEFINE l == IF my[w].done THEN "idle" ELSE "find"
  <2>1. queue' = NoQueue /\ Goto(w, l) /\ Become(w, Fresh) /\ UNCHANGED lost
    BY <1>7 DEF Complete
  <2>2. Went(w, l, Fresh) /\ Holding(w, l, Fresh)
    BY <1>2, <2>1, ToFresh DEF PCs
  <2>3. QueueTyped' /\ queue'.status = "NONE"
    BY <2>1, BoundAssumption DEF QueueTyped, RowOK, NoQueue
  <2>4. BoundsTyped'
    BY <1>3, <2>1, SameTyped DEF BoundsTyped
  <2> QED BY <1>2, <1>3, <1>4, <1>7, <2>1, <2>2, <2>3, <2>4, TypeStep
<1> QED BY <1>5, <1>6, <1>7

(* What a worker reads.                                                    *)
LEMMA ReadTyped ==
  ASSUME TypeInv, UNCHANGED tables
  PROVE  RowsTyped' /\ PlacesOK' /\ QueueTyped'
BY SameTyped DEF tables, store

LEMMA LookTyped ==
  ASSUME TypeInv, NEW w \in Workers, NEW l, NEW m, Went(w, l, m), Holding(w, l, m), UNCHANGED tables,
         BoundsTyped'
  PROVE  TypeInv'
BY ReadTyped, TypeStep, OrderFacts

LEMMA BeginEffect ==
  ASSUME TypeInv, NEW w \in Workers, Begin(w)
  PROVE  /\ TypeInv' /\ UNCHANGED <<tables, bounds>> /\ pc[w] = "begin"
         /\ Went(w, "idle", Fresh) \/ (Owner(w) /\ Went(w, "pick", my[w]))
<1>1. w \in Actors /\ w \notin Users /\ "pick" \in PCs /\ UNCHANGED <<tables, bounds>> /\ pc[w] = "begin"
  BY OrderFacts DEF Begin, PCs
<1>2. BoundsTyped'
  BY <1>1, SameTyped
<1>3. CASE ~Owner(w)
  <2>1. Went(w, "idle", Fresh)
    BY <1>1, <1>3, ToIdle DEF Begin
  <2> QED BY <1>1, <1>2, <2>1, IdleHeld, LookTyped
<1>4. CASE Owner(w)
  <2>1. Went(w, "pick", my[w])
    BY <1>1, <1>4, HoldsOn DEF Begin
  <2>2. Holding(w, "pick", my[w])
    BY <1>1, Held DEF Holding, WorkerPCs, PCs, Asking
  <2> QED BY <1>1, <1>2, <1>4, <2>1, <2>2, LookTyped
<1> QED BY <1>3, <1>4

LEMMA PickEffect ==
  ASSUME TypeInv, NEW w \in Workers, Pick(w)
  PROVE  /\ TypeInv' /\ UNCHANGED <<tables, bounds>> /\ pc[w] = "pick"
         /\ \E m \in Holdings :
              /\ m.done = my[w].done /\ m.failed = my[w].failed /\ m.intended = my[w].intended
              /\ \/ Finalized /\ Went(w, "complete", m)
                 \/ OpenResources = {} /\ m.phase = "finalize" /\ Went(w, "summary", m)
                 \/ m.res \in Resources /\ cp[m.res].status \in {"pending", "running"} /\ Went(w, "read", m)
<1>1. w \in Actors /\ w \notin Users /\ {"complete", "summary", "read"} \subseteq PCs /\ UNCHANGED <<tables, bounds>>
      /\ pc[w] = "pick"
  BY OrderFacts DEF Pick, PCs
<1>2. BoundsTyped'
  BY <1>1, SameTyped
<1>3. my[w] \in Holdings /\ Holding(w, "pick", my[w])
  BY <1>1, Held
<1>4. CASE Finalized
  <2>1. Went(w, "complete", my[w])
    BY <1>1, <1>4, HoldsOn DEF Pick
  <2>2. Holding(w, "complete", my[w])
    BY <1>1, <1>3 DEF Holding, WorkerPCs, PCs, Asking
  <2>3. TypeInv'
    BY <1>1, <1>2, <2>1, <2>2, LookTyped
  <2> QED BY <1>1, <1>3, <1>4, <2>1, <2>3
<1>5. CASE ~Finalized /\ OpenResources = {}
  <2> DEFINE m == [my[w] EXCEPT !.phase = "finalize"]
  <2>1. /\ m \in Holdings /\ m.phase = "finalize" /\ SameData(m, my[w])
        /\ m.intended = my[w].intended /\ m.failed = my[w].failed /\ m.done = my[w].done
    BY <1>3, WithPhase
  <2>2. Goto(w, "summary") /\ Become(w, m)
    BY <1>5 DEF Pick
  <2>3. Holding(w, "summary", m)
    BY <1>1, <1>3, <2>1 DEF Holding, WorkerPCs, PCs, Asking, SameData
  <2> HIDE DEF m
  <2>4. Went(w, "summary", m)
    BY <1>1, <2>1, <2>2, HoldsNew
  <2>5. TypeInv'
    BY <1>1, <1>2, <2>3, <2>4, LookTyped
  <2> QED BY <1>1, <1>5, <2>1, <2>4, <2>5
<1>6. CASE ~Finalized /\ OpenResources # {}
  <2> DEFINE q == Order[Min(OpenResources)]
             m == [my[w] EXCEPT !.res = q]
  <2>1. OpenResources \in SUBSET Nat
    BY OrderFacts DEF OpenResources
  <2>2. Min(OpenResources) \in OpenResources
    BY <1>6, <2>1, MinIsLeast
  <2>3. q \in Resources /\ cp[q].status \in {"pending", "running"}
    BY <2>2, OrderFacts DEF OpenResources
  <2>4. Goto(w, "read") /\ Become(w, m)
    BY <1>6 DEF Pick
  <2> HIDE DEF q
  <2>5. m \in Holdings /\ m.res = q /\ m.cp = my[w].cp /\ m.rows = my[w].rows /\ SameEnd(m, my[w])
    BY <1>3, <2>3, WithRes
  <2>6. Holding(w, "read", m)
    BY <1>1, <1>3, <2>3, <2>5 DEF Holding, WorkerPCs, PCs, Asking
  <2> HIDE DEF m
  <2>7. Went(w, "read", m)
    BY <1>1, <2>4, <2>5, HoldsNew
  <2>8. TypeInv'
    BY <1>1, <1>2, <2>6, <2>7, LookTyped
  <2> QED BY <1>1, <2>3, <2>5, <2>7, <2>8 DEF SameEnd
<1> QED BY <1>4, <1>5, <1>6

(* The page of a resource that its checkpoint points at.                   *)
PageAt(r, c) ==
  IF c.win \notin DOMAIN Windows[r] THEN {}
  ELSE {c.win} \X {n \in c.next .. c.next + PageSize - 1 : n <= Windows[r][c.win]}

LEMMA WindowFacts ==
  ASSUME NEW r \in Resources
  PROVE  /\ Windows[r] \in Seq(Nat) /\ DOMAIN Windows[r] = 1 .. Len(Windows[r]) /\ Len(Windows[r]) \in Nat
         /\ \A k \in DOMAIN Windows[r] : k \in Nat /\ k # 0 /\ Windows[r][k] \in Nat
         /\ r \notin Partitioned => Len(Windows[r]) = 1 /\ DOMAIN Windows[r] = {1}
         /\ r \in Single => r \notin Partitioned /\ r # Att
         /\ r \in Partitioned => r # Att
         /\ r = Att => Items = 1 .. Windows[r][1]
<1>1. /\ Windows \in [Resources -> Seq(Nat)]
      /\ \A q \in Resources \ Partitioned : Len(Windows[q]) = 1
      /\ Att \in Resources => Items = 1 .. Windows[Att][1]
      /\ Partitioned \cup Single \subseteq Resources \ {Att} /\ Partitioned \cap Single = {}
  BY OrderAssumption
<1>2. Windows[r] \in Seq(Nat)
  BY <1>1
<1>3. /\ DOMAIN Windows[r] = 1 .. Len(Windows[r]) /\ Len(Windows[r]) \in Nat
      /\ \A k \in DOMAIN Windows[r] : Windows[r][k] \in Nat
  BY <1>2
<1>4. 1 .. 1 = {1}
  OBVIOUS
<1>5. \A k \in DOMAIN Windows[r] : k \in Nat /\ k # 0 /\ Windows[r][k] \in Nat
  BY <1>3
<1>6. r \notin Partitioned => Len(Windows[r]) = 1 /\ DOMAIN Windows[r] = {1}
  BY <1>1, <1>3, <1>4
<1>7. (r \in Single => r \notin Partitioned /\ r # Att) /\ (r \in Partitioned => r # Att)
  BY <1>1
<1> QED BY <1>1, <1>2, <1>3, <1>5, <1>6, <1>7

LEMMA PageFacts ==
  ASSUME NEW r \in Resources, NEW c \in Checkpoints, c.next # 0
  PROVE  /\ PageAt(r, c) \in SUBSET (Nat \X Nat) /\ IsFiniteSet(PageAt(r, c))
         /\ PageAt(r, c) \subseteq Records(r)
         /\ r = Att => \A row \in PageAt(r, c) : row[2] \in Items
<1> DEFINE S == {n \in c.next .. c.next + PageSize - 1 : n <= Windows[r][c.win]}
<1>1. c.win \in Nat /\ c.next \in Nat /\ PageSize \in Nat /\ c.next + PageSize - 1 \in Nat
  BY BoundAssumption DEF Checkpoints
<1>2. CASE c.win \notin DOMAIN Windows[r]
  <2>1. PageAt(r, c) = {}
    BY <1>2 DEF PageAt
  <2> QED BY <2>1, FS_EmptySet
<1>3. CASE c.win \in DOMAIN Windows[r]
  <2>1. PageAt(r, c) = {c.win} \X S
    BY <1>3 DEF PageAt
  <2>2. c.next \in Int /\ c.next + PageSize - 1 \in Int
    BY <1>1
  <2>12. IsFiniteSet(c.next .. c.next + PageSize - 1)
    BY <2>2, FS_Interval
  <2>13. S \subseteq c.next .. c.next + PageSize - 1
    OBVIOUS
  <2>14. IsFiniteSet(S)
    BY <2>12, <2>13, FS_Subset
  <2>3. IsFiniteSet(S) /\ IsFiniteSet({c.win})
    BY <2>14, FS_Singleton
  <2>4. IsFiniteSet(PageAt(r, c))
    BY <2>1, <2>3, FS_Product
  <2>5. Windows[r][c.win] \in Nat
    BY <1>3, WindowFacts
  <2>6. \A n \in S : n \in 1 .. Windows[r][c.win]
    BY <1>1, <2>5
  <2>7. S \subseteq Nat
    BY <1>1
  <2> HIDE DEF S
  <2>8. PageAt(r, c) \in SUBSET (Nat \X Nat)
    BY <1>1, <2>1, <2>7
  <2>9. PageAt(r, c) \subseteq {c.win} \X (1 .. Windows[r][c.win])
    BY <2>1, <2>6
  <2>10. PageAt(r, c) \subseteq Records(r)
    BY <1>3, <2>9 DEF Records
  <2>11. ASSUME r = Att, NEW row \in PageAt(r, c) PROVE row[2] \in Items
    <3>1. c.win = 1 /\ Items = 1 .. Windows[r][1]
      BY <1>3, <2>11, WindowFacts
    <3>2. row[2] \in 1 .. Windows[r][c.win]
      BY <2>9, <2>11
    <3> QED BY <3>1, <3>2
  <2> QED BY <2>4, <2>8, <2>10, <2>11
<1> QED BY <1>2, <1>3

LEMMA RowsArePage ==
  ASSUME NEW w
  PROVE  Rows(w) = PageAt(my[w].res, my[w].cp)
BY DEF Rows, PageAt, WindowOf

-----------------------------------------------------------------------------
LEMMA ReadCheckpointEffect ==
  ASSUME TypeInv, NEW w \in Workers, ReadCheckpoint(w)
  PROVE  /\ TypeInv' /\ UNCHANGED <<tables, bounds>> /\ pc[w] = "read"
         /\ \/ ~Owner(w) /\ Went(w, "idle", Fresh)
            \/ Went(w, "summary", my[w])
            \/ \E m \in Holdings : /\ Went(w, "mark", m) /\ m.res = my[w].res /\ m.cp = cp[m.res]
                                   /\ cp[m.res].status \notin {"completed", "unsupported"}
                                   /\ SameEnd(m, my[w])
<1>1. w \in Actors /\ w \notin Users /\ {"mark", "summary"} \subseteq PCs /\ UNCHANGED <<tables, bounds>>
      /\ pc[w] = "read"
  BY OrderFacts DEF ReadCheckpoint, PCs
<1>2. BoundsTyped'
  BY <1>1, SameTyped
<1>3. my[w] \in Holdings /\ Holding(w, "read", my[w])
  BY <1>1, Held
<1>4. my[w].res \in Resources /\ cp[my[w].res] \in Checkpoints /\ cp[my[w].res].next # 0
  BY <1>3 DEF Holding, Asking, TypeInv, TypeOK, PlacesOK
<1>5. CASE ~Owner(w)
  <2>1. Went(w, "idle", Fresh)
    BY <1>1, <1>5, ToIdle DEF ReadCheckpoint
  <2> QED BY <1>1, <1>2, <1>5, <2>1, IdleHeld, LookTyped
<1>6. CASE Owner(w) /\ cp[my[w].res].status \in {"completed", "unsupported"}
  <2>1. Went(w, "summary", my[w])
    BY <1>1, <1>6, HoldsOn DEF ReadCheckpoint
  <2>2. Holding(w, "summary", my[w])
    BY <1>1, <1>3, Held DEF Holding, WorkerPCs, PCs, Asking
  <2>3. Holding(w, "summary", my[w]) => TypeInv'
    BY <1>1, <1>2, <2>1, LookTyped
  <2> QED BY <1>1, <2>1, <2>2, <2>3
<1>7. CASE Owner(w) /\ cp[my[w].res].status \notin {"completed", "unsupported"}
  <2> DEFINE m == [my[w] EXCEPT !.cp = cp[my[w].res]]
  <2>1. m \in Holdings /\ m.cp = cp[my[w].res] /\ m.res = my[w].res /\ m.rows = my[w].rows /\ SameEnd(m, my[w])
    BY <1>3, <1>4, WithCp
  <2>2. Goto(w, "mark") /\ Become(w, m)
    BY <1>7 DEF ReadCheckpoint
  <2>3. Holding(w, "mark", m)
    BY <1>1, <1>3, <1>4, <2>1 DEF Holding, WorkerPCs, PCs, Asking
  <2> HIDE DEF m
  <2>4. Went(w, "mark", m)
    BY <1>1, <2>1, <2>2, HoldsNew
  <2>5. TypeInv'
    BY <1>1, <1>2, <2>3, <2>4, LookTyped
  <2> QED BY <1>1, <1>7, <2>1, <2>4, <2>5
<1> QED BY <1>5, <1>6, <1>7

LEMMA MarkRunningEffect ==
  ASSUME TypeInv, NEW w \in Workers, MarkRunning(w)
  PROVE  /\ TypeInv' /\ UNCHANGED <<snap, files, objects, ledger, queue, bounds>> /\ pc[w] = "mark"
         /\ LET r == my[w].res IN
            /\ r \in Resources
            /\ cp'[r].status = "running" /\ cp'[r].win = cp[r].win /\ cp'[r].next = cp[r].next
            /\ cp'[r].pages = cp[r].pages
            /\ \A q \in Resources \ {r} : cp'[q] = cp[q]
            /\ (r = Att /\ Went(w, "budget", my[w])) \/ (r # Att /\ Went(w, "page", my[w]))
<1> DEFINE r == my[w].res
           l == IF r = Att THEN "budget" ELSE "page"
           c == [cp[r] EXCEPT !.status = "running"]
<1>1. w \in Actors /\ w \notin Users /\ {"budget", "page"} \subseteq PCs /\ pc[w] = "mark"
      /\ UNCHANGED <<snap, files, objects, ledger, queue, bounds>>
  BY OrderFacts DEF MarkRunning, PCs
<1>2. my[w] \in Holdings /\ Holding(w, "mark", my[w])
  BY <1>1, Held
<1>3. r \in Resources
  BY <1>2 DEF Holding, Asking
<1>4. Goto(w, l) /\ UNCHANGED my /\ SaveCheckpoint(r, c)
  BY DEF MarkRunning
<1>5. Went(w, l, my[w])
  BY <1>1, <1>4, HoldsOn
<1>6. Holding(w, l, my[w])
  BY <1>1, <1>2 DEF Holding, WorkerPCs, PCs, Asking
<1>7. c \in Checkpoints /\ c.status = "running" /\ c.win = cp[r].win /\ c.next = cp[r].next
      /\ c.pages = cp[r].pages /\ c.next # 0
  BY <1>3, StatusOnly DEF Entity
<1> HIDE DEF c
<1>8. RowsTyped' /\ PlacesOK' /\ cp'[r] = c /\ \A q \in Resources \ {r} : cp'[q] = cp[q]
  BY <1>1, <1>3, <1>4, <1>7, SaveTyped
<1>9. BoundsTyped' /\ QueueTyped'
  BY <1>1, SameTyped
<1>10. TypeInv'
  BY <1>1, <1>5, <1>6, <1>8, <1>9, TypeStep
<1> QED BY <1>1, <1>3, <1>5, <1>7, <1>8, <1>10

LEMMA ReadBudgetEffect ==
  ASSUME TypeInv, NEW w \in Workers, ReadBudget(w)
  PROVE  /\ TypeInv' /\ UNCHANGED <<tables, bounds>> /\ pc[w] = "budget"
         /\ \E m \in Holdings : /\ m.res = my[w].res /\ m.cp = my[w].cp /\ SameEnd(m, my[w])
                                /\ \/ /\ snap.budget # None /\ m.budget = snap.budget /\ m.ledger = ledger
                                      /\ Went(w, "page", m)
                                   \/ Went(w, "giveUp", m)
                                   \/ snap.budget = None /\ m.ledger = ledger /\ Went(w, "setBudget", m)
<1>1. w \in Actors /\ w \notin Users /\ {"page", "giveUp", "setBudget"} \subseteq PCs
      /\ UNCHANGED <<tables, bounds>> /\ pc[w] = "budget"
  BY OrderFacts DEF ReadBudget, PCs
<1>2. BoundsTyped'
  BY <1>1, SameTyped
<1>3. my[w] \in Holdings /\ Holding(w, "budget", my[w])
  BY <1>1, Held
<1>4. ledger \in [Items -> Outcomes] /\ snap.budget \in Nat \cup {None}
  BY DEF TypeInv, TypeOK
<1>5. ASSUME NEW l \in {"page", "setBudget"}, NEW b \in Nat, Goto(w, l),
             Become(w, ReadsOf(my[w], b, ledger))
      PROVE  /\ TypeInv'
             /\ \E m \in Holdings : /\ m.res = my[w].res /\ m.cp = my[w].cp /\ SameEnd(m, my[w])
                                    /\ m.budget = b /\ m.ledger = ledger /\ Went(w, l, m)
  <2> DEFINE m == ReadsOf(my[w], b, ledger)
  <2>1. m \in Holdings /\ m.budget = b /\ m.ledger = ledger /\ m.res = my[w].res /\ m.cp = my[w].cp
        /\ m.rows = my[w].rows /\ SameEnd(m, my[w])
    BY <1>3, <1>4, WithBudget
  <2>2. Become(w, m) /\ l \in PCs
    BY <1>1, <1>5
  <2>3. Holding(w, l, m)
    BY <1>1, <1>3, <1>5, <2>1 DEF Holding, WorkerPCs, PCs, Asking, SameEnd
  <2> HIDE DEF m
  <2>4. Went(w, l, m)
    BY <1>1, <1>5, <2>1, <2>2, HoldsNew
  <2>5. TypeInv'
    BY <1>1, <1>2, <2>3, <2>4, LookTyped
  <2> QED BY <2>1, <2>4, <2>5
<1>6. CASE snap.budget # None /\ Goto(w, "page")
           /\ Become(w, ReadsOf(my[w], snap.budget, ledger))
  <2>1. snap.budget \in Nat
    BY <1>4, <1>6
  <2> QED BY <1>1, <1>5, <1>6, <2>1
<1>7. CASE Goto(w, "giveUp") /\ Become(w, [my[w] EXCEPT !.verdict = "failed"])
  <2> DEFINE m == [my[w] EXCEPT !.verdict = "failed"]
  <2>1. m \in Holdings /\ m.verdict = "failed" /\ SameData(m, my[w]) /\ SameEnd(m, my[w])
    BY <1>3, WithVerdict DEF Entity, Terminal
  <2>2. Holding(w, "giveUp", m)
    BY <1>1, <1>3, <2>1 DEF Holding, WorkerPCs, PCs, Asking, SameData, SameEnd
  <2>3. Become(w, m)
    BY <1>7
  <2> HIDE DEF m
  <2>4. Went(w, "giveUp", m)
    BY <1>1, <1>7, <2>1, <2>3, HoldsNew
  <2>5. TypeInv'
    BY <1>1, <1>2, <2>2, <2>4, LookTyped
  <2> QED BY <1>1, <2>1, <2>4, <2>5 DEF SameData
<1>8. CASE snap.budget = None /\ Goto(w, "setBudget") /\ \E b \in Budgets : TakeBudget(w, b)
  <2>1. PICK b \in Nat : TakeBudget(w, b)
    BY <1>8, BoundAssumption
  <2>2. Become(w, ReadsOf(my[w], b, ledger))
    BY <2>1 DEF TakeBudget, ReadsOf
  <2> QED BY <1>1, <1>5, <1>8, <2>2
<1>9. CASE snap.budget # None
  <2>1. Goto(w, "page") /\ Become(w, ReadsOf(my[w], snap.budget, ledger))
    BY <1>9 DEF ReadBudget, TakeBudget, ReadsOf
  <2> QED BY <1>6, <1>9, <2>1
<1>10. CASE snap.budget = None
  <2>1. \/ Goto(w, "giveUp") /\ Become(w, [my[w] EXCEPT !.verdict = "failed"])
        \/ snap.budget = None /\ Goto(w, "setBudget") /\ \E b \in Budgets : TakeBudget(w, b)
    BY <1>10 DEF ReadBudget
  <2> QED BY <1>7, <1>8, <2>1
<1> QED BY <1>9, <1>10

LEMMA SetBudgetEffect ==
  ASSUME TypeInv, NEW w \in Workers, SetBudget(w)
  PROVE  /\ TypeInv' /\ UNCHANGED <<store, queue, bounds>> /\ pc[w] = "setBudget" /\ Went(w, "page", my[w])
         /\ snap'.status = snap.status /\ snap'.report = snap.report
         /\ snap.budget # None => UNCHANGED snap
         /\ snap.budget = None => snap'.budget = my[w].budget
<1>1. w \in Actors /\ w \notin Users /\ "page" \in PCs /\ pc[w] = "setBudget"
      /\ UNCHANGED <<store, queue, my, bounds>>
  BY OrderFacts DEF SetBudget, PCs
<1>2. Went(w, "page", my[w])
  BY <1>1, HoldsOn DEF SetBudget
<1>3. Holding(w, "page", my[w])
  BY <1>1, Held DEF Holding, WorkerPCs, PCs, Asking
<1>4. /\ snap.budget # None => UNCHANGED snap
      /\ snap.budget = None => snap' = [snap EXCEPT !.budget = my[w].budget]
  BY DEF SetBudget
<1>5. my[w].budget \in Nat
  BY <1>1, Held
<1>6. /\ snap.budget = None => snap'.budget = my[w].budget
      /\ snap'.status = snap.status /\ snap'.report = snap.report
      /\ snap' \in [status : Statuses, report : {"none", "ok", "issues"}, budget : Nat \cup {None}]
  BY <1>4, <1>5 DEF TypeInv, TypeOK
<1>7. RowsTyped' /\ PlacesOK' /\ QueueTyped' /\ BoundsTyped'
  BY <1>1, <1>6, SameTyped DEF store, RowsTyped
<1>8. TypeInv'
  BY <1>1, <1>2, <1>3, <1>7, TypeStep
<1> QED BY <1>1, <1>2, <1>4, <1>6, <1>8

LEMMA StoredTyped ==
  ASSUME TypeInv, NEW r \in Resources, NEW n \in Nat, NEW R \in SUBSET (Nat \X Nat),
         files' \in {files, Stored(r, n, R)}, UNCHANGED <<snap, cp, objects, ledger>>
  PROVE  RowsTyped' /\ PlacesOK'
<1>1. [res |-> r, page |-> n, rows |-> R] \in [res : Resources, page : Nat, rows : SUBSET (Nat \X Nat)]
  OBVIOUS
<1>2. files' \subseteq files \cup {[res |-> r, page |-> n, rows |-> R]}
  BY DEF Stored
<1> QED BY <1>1, <1>2 DEF RowsTyped, PlacesOK, TypeInv, TypeOK

LEMMA WritePageEffect ==
  ASSUME TypeInv, NEW w \in Workers, WritePage(w)
  PROVE  /\ TypeInv' /\ UNCHANGED <<snap, cp, objects, ledger, queue, bounds>> /\ pc[w] = "page"
         /\ LET r == my[w].res
                page == PageAt(r, my[w].cp) IN
            /\ r \in Resources \ Single /\ page # {} /\ files' = Stored(r, my[w].cp.pages + 1, page)
            /\ \E m \in Holdings : /\ m.rows = page /\ m.res = r /\ m.cp = my[w].cp /\ m.ledger = my[w].ledger
                                   /\ m.budget = my[w].budget /\ SameEnd(m, my[w])
                                   /\ \A i \in m.items : my[w].ledger[i] \notin Final
                                   /\ \/ Went(w, "save", m)
                                      \/ r = Att /\ m.items # {} /\ Went(w, "item", m)
<1> DEFINE r == my[w].res
           page == PageAt(r, my[w].cp)
           todo == Todo(r, page, my[w].ledger)
           l == IF todo = {} THEN "save" ELSE "item"
           m == PageOf(my[w], page, todo)
<1>1. w \in Actors /\ w \notin Users /\ {"save", "item"} \subseteq PCs /\ pc[w] = "page"
      /\ UNCHANGED <<snap, cp, objects, ledger, queue, bounds>>
  BY OrderFacts DEF WritePage, PCs
<1>2. my[w] \in Holdings /\ Holding(w, "page", my[w]) /\ my[w].cp \in Checkpoints
  BY <1>1, Held
<1>3. r \in Resources /\ my[w].cp.next # 0
  BY <1>2 DEF Holding, Asking
<1>4. page \in SUBSET (Nat \X Nat) /\ IsFiniteSet(page) /\ (r = Att => \A row \in page : row[2] \in Items)
  BY <1>2, <1>3, PageFacts
<1>5. /\ r \notin Single /\ page # {} /\ files' = Stored(r, my[w].cp.pages + 1, page)
      /\ Become(w, m) /\ Goto(w, l)
  BY RowsArePage DEF WritePage, PageOf
<1> HIDE DEF page
<1>6. /\ todo \in SUBSET Items /\ (todo # {} => r = Att)
      /\ \A i \in todo : my[w].ledger[i] \notin Final
  BY <1>4 DEF Todo
<1> HIDE DEF todo
<1>7. /\ m \in Holdings /\ m.rows = page /\ m.items = todo /\ m.res = r /\ m.cp = my[w].cp
      /\ m.ledger = my[w].ledger /\ m.budget = my[w].budget /\ SameEnd(m, my[w])
  BY <1>2, <1>4, <1>6, WithRows
<1> HIDE DEF m
<1>8. Holding(w, l, m)
  BY <1>1, <1>2, <1>3, <1>4, <1>7 DEF Holding, WorkerPCs, PCs, Asking, SameEnd
<1>9. Went(w, l, m)
  BY <1>1, <1>5, <1>7, HoldsNew
<1>10. my[w].cp.pages + 1 \in Nat
  BY <1>2 DEF Checkpoints
<1>11. RowsTyped' /\ PlacesOK'
  BY <1>1, <1>3, <1>4, <1>5, <1>10, StoredTyped
<1>12. QueueTyped' /\ BoundsTyped'
  BY <1>1, SameTyped
<1>13. TypeInv'
  BY <1>1, <1>8, <1>9, <1>11, <1>12, TypeStep
<1>14. \/ Went(w, "save", m)
       \/ r = Att /\ m.items # {} /\ Went(w, "item", m)
  BY <1>6, <1>7, <1>9
<1> QED BY <1>1, <1>3, <1>5, <1>6, <1>7, <1>13, <1>14 DEF page

LEMMA EmptyPageEffect ==
  ASSUME TypeInv, NEW w \in Workers, EmptyPage(w)
  PROVE  /\ TypeInv' /\ UNCHANGED <<snap, files, objects, ledger, queue, bounds>> /\ pc[w] = "page"
         /\ LET r == my[w].res
                c == my[w].cp IN
            /\ r \in Resources \ Single /\ PageAt(r, c) = {}
            /\ \A q \in Resources \ {r} : cp'[q] = cp[q]
            /\ cp'[r].status = cp[r].status /\ cp'[r].pages = cp[r].pages
            /\ \E m \in Holdings :
                 /\ m.res = r /\ m.cp.win = c.win /\ m.cp.next = c.next /\ m.cp.pages = c.pages /\ SameEnd(m, my[w])
                 /\ \/ /\ r \in Partitioned /\ c.win \in DOMAIN Windows[r] /\ Went(w, "window", m)
                       /\ cp'[r].win = c.win /\ cp'[r].next = c.next
                    \/ /\ r \notin Partitioned \/ c.win \notin DOMAIN Windows[r]
                       /\ m.verdict = "completed" /\ Went(w, "finish", m) /\ UNCHANGED cp
<1> DEFINE r == my[w].res
           c == my[w].cp
<1>1. w \in Actors /\ w \notin Users /\ {"window", "finish"} \subseteq PCs /\ pc[w] = "page"
      /\ UNCHANGED <<snap, files, objects, ledger, queue, bounds>>
  BY OrderFacts DEF EmptyPage, PCs
<1>2. my[w] \in Holdings /\ Holding(w, "page", my[w]) /\ c \in Checkpoints
  BY <1>1, Held
<1>3. r \in Resources /\ c.next # 0 /\ c.win \in Nat /\ c.next \in Nat /\ c.tally \in SUBSET Nat
      /\ my[w].phase = "step" /\ IsFiniteSet(my[w].rows)
  BY <1>2 DEF Holding, Asking, Checkpoints
<1>4. r \notin Single /\ PageAt(r, c) = {}
  BY RowsArePage DEF EmptyPage
<1>5. QueueTyped' /\ BoundsTyped'
  BY <1>1, SameTyped
<1>6. CASE r \in Partitioned /\ c.win \in DOMAIN Windows[r]
  <2> DEFINE m == TallyOf(my[w], c.win)
             k == c.tally \cup {c.win}
             d == [cp[r] EXCEPT !.win = c.win, !.next = c.next, !.tally = k]
  <2>1. Become(w, m) /\ SaveCheckpoint(r, d) /\ Goto(w, "window")
    BY <1>6 DEF EmptyPage, WindowOf, TallyOf
  <2>2. /\ m \in Holdings /\ m.cp.win = c.win /\ m.cp.next = c.next /\ m.cp.pages = c.pages
        /\ m.res = r /\ m.rows = my[w].rows /\ SameEnd(m, my[w])
    BY <1>2, <1>3, WithTally
  <2> HIDE DEF m
  <2>3. Holding(w, "window", m)
    BY <1>1, <1>3, <2>2 DEF Holding, WorkerPCs, PCs, Asking, SameEnd
  <2>4. Went(w, "window", m)
    BY <1>1, <2>1, <2>2, HoldsNew
  <2>5. k \in SUBSET Nat /\ cp[r] \in Checkpoints
    BY <1>3 DEF TypeInv, TypeOK
  <2> HIDE DEF k
  <2>6. d \in Checkpoints /\ d.win = c.win /\ d.next = c.next /\ d.status = cp[r].status /\ d.pages = cp[r].pages
    BY <1>3, <2>5 DEF Checkpoints
  <2> HIDE DEF d
  <2>7. RowsTyped' /\ PlacesOK' /\ cp'[r] = d /\ \A q \in Resources \ {r} : cp'[q] = cp[q]
    BY <1>1, <1>3, <2>1, <2>6, SaveTyped
  <2>8. TypeInv'
    BY <1>1, <1>5, <2>3, <2>4, <2>7, TypeStep
  <2> QED BY <1>1, <1>3, <1>4, <1>6, <2>2, <2>4, <2>6, <2>7, <2>8
<1>7. CASE ~(r \in Partitioned /\ c.win \in DOMAIN Windows[r])
  <2> DEFINE m == [my[w] EXCEPT !.verdict = "completed"]
  <2>1. Become(w, m) /\ Goto(w, "finish") /\ UNCHANGED cp
    BY <1>7 DEF EmptyPage, WindowOf
  <2>2. m \in Holdings /\ m.verdict = "completed" /\ SameData(m, my[w]) /\ SameEnd(m, my[w])
    BY <1>2, WithVerdict DEF Entity, Terminal
  <2> HIDE DEF m
  <2>3. Holding(w, "finish", m)
    BY <1>1, <1>2, <1>3, <2>2 DEF Holding, WorkerPCs, PCs, Asking, SameEnd, SameData
  <2>4. Went(w, "finish", m)
    BY <1>1, <2>1, <2>2, HoldsNew
  <2>5. RowsTyped' /\ PlacesOK'
    BY <1>1, <2>1, SameTyped DEF store
  <2>6. TypeInv'
    BY <1>1, <1>5, <2>3, <2>4, <2>5, TypeStep
  <2>7. m.res = r /\ m.cp = c
    BY <2>2 DEF SameData
  <2> QED BY <1>1, <1>3, <1>4, <1>7, <2>1, <2>2, <2>4, <2>6, <2>7
<1> QED BY <1>6, <1>7

(* The one file of a resource that is saved once.                          *)
OnlyRows(r) == {1} \X (1 .. Windows[r][1])
OnlyNo(r)   == IF Windows[r][1] = 0 THEN 0 ELSE 1

LEMMA WriteSingleEffect ==
  ASSUME TypeInv, NEW w \in Workers, WriteSingle(w)
  PROVE  /\ TypeInv' /\ UNCHANGED <<snap, cp, objects, ledger, queue, bounds>> /\ pc[w] = "page"
         /\ LET r == my[w].res IN
            /\ r \in Resources \cap Single
            /\ Windows[r][1] = 0 => UNCHANGED files
            /\ Windows[r][1] # 0 => files' = Stored(r, 1, OnlyRows(r))
            /\ \E m \in Holdings : /\ m.res = r /\ m.cp.pages = OnlyNo(r) /\ m.verdict = "completed"
                                   /\ SameEnd(m, my[w]) /\ Went(w, "finish", m)
<1> DEFINE r == my[w].res
           n == Windows[r][1]
           p == IF n = 0 THEN 0 ELSE 1
           m == SingleOf(my[w], n, p)
<1>1. w \in Actors /\ w \notin Users /\ "finish" \in PCs /\ pc[w] = "page"
      /\ UNCHANGED <<snap, cp, objects, ledger, queue, bounds>>
  BY OrderFacts DEF WriteSingle, PCs
<1>2. my[w] \in Holdings /\ Holding(w, "page", my[w])
  BY <1>1, Held
<1>3. r \in Resources /\ my[w].phase = "step" /\ IsFiniteSet(my[w].rows) /\ my[w].cp.next # 0
  BY <1>2 DEF Holding, Asking
<1>4. /\ r \in Single /\ Become(w, m) /\ Goto(w, "finish")
      /\ files' = IF n = 0 THEN files ELSE Stored(r, 1, OnlyRows(r))
  BY DEF WriteSingle, SingleOf, OnlyRows
<1>5. n \in Nat /\ p \in Nat /\ p = OnlyNo(r)
  <2>1. 1 \in DOMAIN Windows[r]
    BY <1>3, <1>4, WindowFacts
  <2> QED BY <1>3, <2>1, WindowFacts DEF OnlyNo
<1> HIDE DEF n, p
<1>6. /\ m \in Holdings /\ m.cp.next = my[w].cp.next /\ m.cp.pages = p /\ m.verdict = "completed"
      /\ m.res = r /\ m.rows = my[w].rows /\ SameEnd(m, my[w])
  BY <1>2, <1>5, WithSingle
<1> HIDE DEF m
<1>7. Holding(w, "finish", m)
  BY <1>1, <1>3, <1>6 DEF Holding, WorkerPCs, PCs, Asking, SameEnd
<1>8. Went(w, "finish", m)
  BY <1>1, <1>4, <1>6, HoldsNew
<1>9. OnlyRows(r) \in SUBSET (Nat \X Nat)
  BY DEF OnlyRows
<1>10. RowsTyped' /\ PlacesOK'
  BY <1>1, <1>3, <1>4, <1>9, StoredTyped
<1>11. QueueTyped' /\ BoundsTyped'
  BY <1>1, SameTyped
<1>12. TypeInv'
  BY <1>1, <1>7, <1>8, <1>10, <1>11, TypeStep
<1> QED BY <1>1, <1>3, <1>4, <1>5, <1>6, <1>8, <1>12 DEF n

(* The attachments of a page.                                              *)
LEMMA StoreBinaryEffect ==
  ASSUME TypeInv, NEW w \in Workers, NEW i \in Items, StoreBinary(w, i)
  PROVE  /\ TypeInv' /\ UNCHANGED <<snap, cp, files, ledger, queue, bounds>> /\ pc[w] = "item"
         /\ i \in my[w].items /\ i = Min(my[w].items) /\ Fits(w, i)
         /\ objects' = objects \cup {i} /\ Went(w, "record", my[w])
<1>1. w \in Actors /\ w \notin Users /\ "record" \in PCs /\ pc[w] = "item"
      /\ UNCHANGED <<snap, cp, files, ledger, queue, my, bounds>>
      /\ objects' = objects \cup {i}
      /\ i \in my[w].items /\ i = Min(my[w].items) /\ Fits(w, i)
  BY OrderFacts DEF StoreBinary, PCs, AtItem
<1>2. Went(w, "record", my[w])
  BY <1>1, HoldsOn DEF StoreBinary
<1>3. Holding(w, "record", my[w])
  BY <1>1, Held DEF Holding, WorkerPCs, PCs, Asking
<1>4. RowsTyped' /\ PlacesOK' /\ QueueTyped' /\ BoundsTyped'
  BY <1>1, SameTyped DEF RowsTyped
<1>5. TypeInv'
  BY <1>1, <1>2, <1>3, <1>4, TypeStep
<1> QED BY <1>1, <1>2, <1>5

LEMMA EnterEffect ==
  ASSUME TypeInv, NEW w \in Workers, NEW i \in Items, NEW o \in Outcomes, pc[w] \in {"item", "record"},
         Enter(w, i, o), UNCHANGED <<snap, cp, files, objects, queue>>, BoundsTyped'
  PROVE  /\ TypeInv' /\ ledger' = [ledger EXCEPT ![i] = o]
         /\ \E m \in Holdings : /\ m.ledger = [my[w].ledger EXCEPT ![i] = o] /\ m.items = my[w].items \ {i}
                                /\ m.res = my[w].res /\ m.rows = my[w].rows /\ m.cp = my[w].cp
                                /\ m.budget = my[w].budget /\ SameEnd(m, my[w])
                                /\ Went(w, "save", m) \/ Went(w, "item", m)
<1> DEFINE l == IF my[w].items = {i} THEN "save" ELSE "item"
           m == EntryOf(my[w], i, o)
<1>1. w \in Actors /\ w \notin Users /\ {"save", "item"} \subseteq PCs
      /\ ledger' = [ledger EXCEPT ![i] = o] /\ Goto(w, l) /\ Become(w, m)
  BY OrderFacts DEF Enter, PCs, EntryOf
<1>2. my[w] \in Holdings /\ Holding(w, pc[w], my[w])
  BY <1>1, Held
<1>3. /\ m \in Holdings /\ m.ledger = [my[w].ledger EXCEPT ![i] = o] /\ m.items = my[w].items \ {i}
      /\ m.res = my[w].res /\ m.rows = my[w].rows /\ m.cp = my[w].cp
      /\ m.budget = my[w].budget /\ SameEnd(m, my[w])
  BY <1>2, WithEntry
<1> HIDE DEF m
<1>4. Holding(w, l, m)
  BY <1>1, <1>2, <1>3 DEF Holding, WorkerPCs, PCs, Asking, SameEnd
<1>5. Went(w, l, m)
  BY <1>1, <1>3, HoldsNew
<1>6. ledger' \in [Items -> Outcomes]
  BY <1>1 DEF TypeInv, TypeOK
<1>7. RowsTyped' /\ PlacesOK' /\ QueueTyped'
  BY <1>6, SameTyped DEF RowsTyped
<1>8. TypeInv'
  BY <1>1, <1>4, <1>5, <1>7, TypeStep
<1> QED BY <1>1, <1>3, <1>5, <1>8

LEMMA OutcomeFacts == {"captured", "skipped_budget", "failed", "none"} = Outcomes
                      /\ Final = {"captured", "skipped_budget"}
BY DEF Outcomes, Final

(* A page is stored.                                                       *)
LEMMA CountFacts ==
  ASSUME TypeInv, NEW w \in Workers, pc[w] \in Asking
  PROVE  /\ w \in Actors /\ w \notin Users /\ my[w] \in Holdings /\ Holding(w, pc[w], my[w])
         /\ my[w].res \in Resources /\ my[w].cp \in Checkpoints /\ my[w].phase = "step"
         /\ my[w].cp.win \in Nat /\ my[w].cp.next \in Nat /\ my[w].cp.next # 0 /\ my[w].cp.pages \in Nat
         /\ my[w].cp.records \in Nat /\ my[w].cp.tally \in SUBSET Nat
         /\ Cardinality(my[w].rows) \in Nat /\ cp[my[w].res] \in Checkpoints /\ cp[my[w].res].status \in Entity
         /\ cp[my[w].res].next # 0
<1>1. w \in Actors /\ w \notin Users /\ my[w] \in Holdings /\ Holding(w, pc[w], my[w]) /\ my[w].cp \in Checkpoints
  BY OrderFacts, Held
<1>2. my[w].res \in Resources /\ IsFiniteSet(my[w].rows) /\ my[w].cp.next # 0 /\ my[w].phase = "step"
  BY <1>1 DEF Holding
<1>3. Cardinality(my[w].rows) \in Nat
  BY <1>2, FS_CardinalityType
<1>4. cp[my[w].res] \in Checkpoints /\ cp[my[w].res].next # 0
  BY <1>2 DEF TypeInv, TypeOK, PlacesOK
<1> QED BY <1>1, <1>2, <1>3, <1>4 DEF Checkpoints

PagedOf(c, n, t) == [c EXCEPT !.next = @ + n, !.pages = @ + 1, !.records = @ + n, !.tally = t]
StatusOf(c, s)   == [c EXCEPT !.status = s]

LEMMA WithPaged ==
  ASSUME NEW c \in Checkpoints, NEW n \in Nat, NEW t \in SUBSET Nat
  PROVE  LET d == PagedOf(c, n, t) IN
         d \in Checkpoints /\ d.next = c.next + n /\ d.pages = c.pages + 1 /\ d.win = c.win
<1> DEFINE x == c.next + n
           y == c.pages + 1
           z == c.records + n
           d == [c EXCEPT !.next = x, !.pages = y, !.records = z, !.tally = t]
<1>1. x \in Nat /\ y \in Nat /\ z \in Nat
  BY DEF Checkpoints
<1>2. PagedOf(c, n, t) = d
  BY DEF PagedOf
<1> HIDE DEF x, y, z
<1>3. d \in Checkpoints /\ d.next = x /\ d.pages = y /\ d.win = c.win
  BY <1>1 DEF Checkpoints
<1> HIDE DEF d
<1>4. d.next = c.next + n /\ d.pages = c.pages + 1
  BY <1>3 DEF x, y
<1> QED BY <1>2, <1>3, <1>4

LEMMA WithStatus ==
  ASSUME NEW c \in Checkpoints, NEW s \in Entity
  PROVE  LET d == StatusOf(c, s) IN
         d \in Checkpoints /\ d.status = s /\ d.next = c.next /\ d.pages = c.pages /\ d.win = c.win
BY DEF Checkpoints, StatusOf

LEMMA SavePageEffect ==
  ASSUME TypeInv, NEW w \in Workers, SavePage(w)
  PROVE  /\ TypeInv' /\ UNCHANGED <<snap, files, objects, ledger, queue, bounds>> /\ pc[w] = "save"
         /\ LET r == my[w].res
                n == Cardinality(my[w].rows) IN
            /\ r \in Resources /\ n \in Nat
            /\ \A q \in Resources \ {r} : cp'[q] = cp[q]
            /\ cp'[r].status = cp[r].status /\ cp'[r].win = my[w].cp.win
            /\ cp'[r].next = my[w].cp.next + n /\ cp'[r].pages = my[w].cp.pages + 1
            /\ \E m \in Holdings : /\ m.res = r /\ SameEnd(m, my[w])
                                   /\ m.cp.win = my[w].cp.win /\ m.cp.next = cp'[r].next
                                   /\ m.cp.pages = cp'[r].pages /\ m.ledger = my[w].ledger
                                   /\ m.budget = my[w].budget
                                   /\ \/ n = PageSize /\ Went(w, "page", m)
                                      \/ n = PageSize /\ m.verdict = "running" /\ Went(w, "finish", m)
                                      \/ n # PageSize /\ r \in Partitioned /\ Went(w, "window", m)
                                      \/ /\ ~(n <= PageSize /\ n # PageSize /\ r \in Partitioned)
                                         /\ n # PageSize
                                         /\ m.verdict = "completed" /\ Went(w, "finish", m)
<1> DEFINE r == my[w].res
           n == Cardinality(my[w].rows)
           t == IF r \in Partitioned THEN my[w].cp.tally \cup {my[w].cp.win} ELSE my[w].cp.tally
           held == PagedOf(my[w].cp, n, t)
           row  == StatusOf(held, cp[r].status)
<1>1. {"page", "window", "finish"} \subseteq PCs /\ pc[w] = "save" /\ pc[w] \in Asking
      /\ UNCHANGED <<snap, files, objects, ledger, queue, bounds>>
  BY DEF SavePage, PCs, Asking
<1>2. /\ w \in Actors /\ w \notin Users /\ my[w] \in Holdings /\ my[w].cp \in Checkpoints
      /\ r \in Resources /\ n \in Nat /\ my[w].cp.win \in Nat /\ my[w].cp.tally \in SUBSET Nat
      /\ my[w].cp.next \in Nat /\ my[w].cp.next # 0 /\ cp[r].status \in Entity /\ my[w].phase = "step"
  BY <1>1, CountFacts
<1> HIDE DEF n
<1>3. t \in SUBSET Nat
  BY <1>2
<1> DEFINE H == [my[w].cp EXCEPT !.next = @ + n, !.pages = @ + 1, !.records = @ + n,
                   !.tally = IF r \in Partitioned THEN @ \cup {my[w].cp.win} ELSE @]
<1>16. H = held
  <2>1. CASE r \in Partitioned
    BY <2>1 DEF PagedOf
  <2>2. CASE r \notin Partitioned
    BY <2>2 DEF PagedOf
  <2> QED BY <2>1, <2>2
<1>17. /\ SaveCheckpoint(r, [H EXCEPT !.status = cp[r].status])
       /\ CASE n = PageSize /\ my[w].asked < PagesPerStep ->
                  Goto(w, "page") /\ Become(w, [my[w] EXCEPT !.cp = H, !.rows = {}, !.verdict = "none"])
            [] n = PageSize /\ my[w].asked >= PagesPerStep ->
                  Goto(w, "finish") /\ Become(w, [my[w] EXCEPT !.cp = H, !.rows = {}, !.verdict = "running"])
            [] n < PageSize /\ r \in Partitioned ->
                  Goto(w, "window") /\ Become(w, [my[w] EXCEPT !.cp = H, !.rows = {}, !.verdict = "none"])
            [] OTHER ->
                  Goto(w, "finish") /\ Become(w, [my[w] EXCEPT !.cp = H, !.rows = {}, !.verdict = "completed"])
  BY DEF SavePage, n
<1> HIDE DEF H
<1>18. SaveCheckpoint(r, row)
  BY <1>16, <1>17 DEF StatusOf
<1>19. PageSize \in Nat /\ PagesPerStep \in Nat /\ my[w].asked \in Nat
  BY <1>2, BoundAssumption DEF Holdings
<1> DEFINE None1 == [my[w] EXCEPT !.cp = H, !.rows = {}, !.verdict = "none"]
           Run1  == [my[w] EXCEPT !.cp = H, !.rows = {}, !.verdict = "running"]
           Done1 == [my[w] EXCEPT !.cp = H, !.rows = {}, !.verdict = "completed"]
<1>20. /\ None1 = SavedOf(my[w], held, "none") /\ Run1 = SavedOf(my[w], held, "running")
       /\ Done1 = SavedOf(my[w], held, "completed")
  BY <1>16 DEF SavedOf
<1>21. /\ n = PageSize /\ my[w].asked < PagesPerStep => Goto(w, "page") /\ Become(w, None1)
       /\ n = PageSize /\ ~(my[w].asked < PagesPerStep) => Goto(w, "finish") /\ Become(w, Run1)
       /\ n < PageSize /\ r \in Partitioned => Goto(w, "window") /\ Become(w, None1)
       /\ n # PageSize /\ ~(n < PageSize /\ r \in Partitioned) => Goto(w, "finish") /\ Become(w, Done1)
  BY <1>2, <1>17, <1>19
<1> HIDE DEF None1, Run1, Done1
<1>4. \/ n = PageSize /\ Goto(w, "page") /\ Become(w, SavedOf(my[w], held, "none"))
      \/ n = PageSize /\ Goto(w, "finish") /\ Become(w, SavedOf(my[w], held, "running"))
      \/ n # PageSize /\ r \in Partitioned /\ Goto(w, "window") /\ Become(w, SavedOf(my[w], held, "none"))
      \/ /\ ~(n <= PageSize /\ n # PageSize /\ r \in Partitioned)
         /\ n # PageSize
         /\ Goto(w, "finish") /\ Become(w, SavedOf(my[w], held, "completed"))
  BY <1>2, <1>19, <1>20, <1>21
<1> HIDE DEF t
<1>5. held \in Checkpoints /\ held.next = my[w].cp.next + n /\ held.pages = my[w].cp.pages + 1
      /\ held.win = my[w].cp.win
  BY <1>2, <1>3, WithPaged
<1> HIDE DEF held
<1>6. /\ row \in Checkpoints /\ row.status = cp[r].status /\ row.next = held.next
      /\ row.pages = held.pages /\ row.win = held.win
  BY <1>2, <1>5, WithStatus
<1> HIDE DEF row
<1>7. held.next # 0
  BY <1>2, <1>5
<1>8. RowsTyped' /\ PlacesOK' /\ cp'[r] = row /\ \A q \in Resources \ {r} : cp'[q] = cp[q]
  BY <1>1, <1>2, <1>18, <1>6, <1>7, SaveTyped
<1>9. QueueTyped' /\ BoundsTyped'
  BY <1>1, SameTyped
<1>10. ASSUME NEW l \in {"page", "window", "finish"}, NEW v \in {"none", "running", "completed"},
              l = "finish" => v # "none", Goto(w, l), Become(w, SavedOf(my[w], held, v))
       PROVE  /\ TypeInv'
              /\ \E m \in Holdings : /\ m.res = r /\ m.cp = held /\ m.ledger = my[w].ledger
                                     /\ m.budget = my[w].budget /\ SameEnd(m, my[w]) /\ m.verdict = v
                                     /\ Went(w, l, m)
  <2> DEFINE m == SavedOf(my[w], held, v)
  <2>6. v \in Entity \cup Statuses \cup {"none"}
    BY DEF Entity, Terminal
  <2>1. /\ m \in Holdings /\ m.res = r /\ m.cp = held /\ m.ledger = my[w].ledger /\ m.rows = {}
        /\ m.budget = my[w].budget /\ SameEnd(m, my[w]) /\ m.verdict = v
    BY <1>2, <1>5, <2>6, WithPage
  <2>5. Become(w, m)
    BY <1>10
  <2> HIDE DEF m
  <2>2. Holding(w, l, m)
    BY <1>2, <1>7, <1>10, <2>1, FS_EmptySet DEF Holding, WorkerPCs, PCs, Asking, SameEnd
  <2>3. Went(w, l, m)
    BY <1>1, <1>2, <1>10, <2>1, <2>5, HoldsNew
  <2>4. TypeInv'
    BY <1>2, <1>8, <1>9, <2>2, <2>3, TypeStep
  <2> QED BY <2>1, <2>3, <2>4
<1>11. cp'[r].status = cp[r].status /\ cp'[r].win = my[w].cp.win
       /\ cp'[r].next = my[w].cp.next + n /\ cp'[r].pages = my[w].cp.pages + 1
  BY <1>5, <1>6, <1>8
<1>12. CASE n = PageSize /\ Goto(w, "page") /\ Become(w, SavedOf(my[w], held, "none"))
  <2>1. TypeInv' /\ \E m \in Holdings : m.res = r /\ m.cp = held /\ m.ledger = my[w].ledger
           /\ m.budget = my[w].budget /\ SameEnd(m, my[w]) /\ m.verdict = "none" /\ Went(w, "page", m)
    BY <1>10, <1>12
  <2> QED BY <1>1, <1>2, <1>5, <1>8, <1>11, <1>12, <2>1 DEF n
<1>13. CASE n = PageSize /\ Goto(w, "finish") /\ Become(w, SavedOf(my[w], held, "running"))
  <2>1. TypeInv' /\ \E m \in Holdings : m.res = r /\ m.cp = held /\ m.ledger = my[w].ledger
           /\ m.budget = my[w].budget /\ SameEnd(m, my[w]) /\ m.verdict = "running" /\ Went(w, "finish", m)
    BY <1>10, <1>13
  <2> QED BY <1>1, <1>2, <1>5, <1>8, <1>11, <1>13, <2>1 DEF n
<1>14. CASE n # PageSize /\ r \in Partitioned /\ Goto(w, "window") /\ Become(w, SavedOf(my[w], held, "none"))
  <2>1. TypeInv' /\ \E m \in Holdings : m.res = r /\ m.cp = held /\ m.ledger = my[w].ledger
           /\ m.budget = my[w].budget /\ SameEnd(m, my[w]) /\ m.verdict = "none" /\ Went(w, "window", m)
    BY <1>10, <1>14
  <2> QED BY <1>1, <1>2, <1>5, <1>8, <1>11, <1>14, <2>1 DEF n
<1>15. CASE ~(n <= PageSize /\ n # PageSize /\ r \in Partitioned) /\ n # PageSize
            /\ Goto(w, "finish") /\ Become(w, SavedOf(my[w], held, "completed"))
  <2>1. TypeInv' /\ \E m \in Holdings : m.res = r /\ m.cp = held /\ m.ledger = my[w].ledger
           /\ m.budget = my[w].budget /\ SameEnd(m, my[w]) /\ m.verdict = "completed" /\ Went(w, "finish", m)
    BY <1>10, <1>15
  <2> QED BY <1>1, <1>2, <1>5, <1>8, <1>11, <1>15, <2>1 DEF n
<1> QED BY <1>4, <1>12, <1>13, <1>14, <1>15

MovedOf(c, d) == [c EXCEPT !.win = d.win, !.next = d.next, !.tally = d.tally]

LEMMA WithMoved ==
  ASSUME NEW c \in Checkpoints, NEW d \in Checkpoints
  PROVE  LET e == MovedOf(c, d) IN
         /\ e \in Checkpoints /\ e.win = d.win /\ e.next = d.next /\ e.pages = c.pages
         /\ e.status = c.status
<1> DEFINE e == [c EXCEPT !.win = d.win, !.next = d.next, !.tally = d.tally]
<1>1. MovedOf(c, d) = e
  BY DEF MovedOf
<1>2. e \in Checkpoints /\ e.win = d.win /\ e.next = d.next /\ e.pages = c.pages /\ e.status = c.status
  BY DEF Checkpoints
<1> HIDE DEF e
<1> QED BY <1>1, <1>2

LEMMA WithNextWindow ==
  ASSUME NEW c \in Checkpoints
  PROVE  LET d == NextWindow(c) IN
         d \in Checkpoints /\ d.win = c.win + 1 /\ d.next = 1 /\ d.pages = c.pages
<1> DEFINE x == c.win + 1
           d == [c EXCEPT !.win = x, !.next = 1]
<1>1. x \in Nat
  BY DEF Checkpoints
<1>2. NextWindow(c) = d
  BY DEF NextWindow
<1> HIDE DEF x
<1>3. d \in Checkpoints /\ d.win = x /\ d.next = 1 /\ d.pages = c.pages
  BY <1>1 DEF Checkpoints
<1> HIDE DEF d
<1> QED BY <1>2, <1>3 DEF x

LEMMA SaveWindowEffect ==
  ASSUME TypeInv, NEW w \in Workers, SaveWindow(w)
  PROVE  /\ TypeInv' /\ UNCHANGED <<snap, files, objects, ledger, queue, bounds>> /\ pc[w] = "window"
         /\ LET r == my[w].res IN
            /\ r \in Resources
            /\ \A q \in Resources \ {r} : cp'[q] = cp[q]
            /\ cp'[r].status = cp[r].status /\ cp'[r].win = my[w].cp.win + 1
            /\ cp'[r].next = 1 /\ cp'[r].pages = cp[r].pages
            /\ \E m \in Holdings : /\ m.res = r /\ SameEnd(m, my[w])
                                   /\ m.cp.win = my[w].cp.win + 1 /\ m.cp.next = 1
                                   /\ m.cp.pages = my[w].cp.pages
                                   /\ m.verdict \in {"running", "completed"}
                                   /\ m.verdict = "completed" => m.cp.win \notin DOMAIN Windows[r]
                                   /\ Went(w, "finish", m)
<1> DEFINE r == my[w].res
           held == NextWindow(my[w].cp)
           row  == MovedOf(cp[r], held)
           v == IF held.win \in DOMAIN WindowOf(w) THEN "running" ELSE "completed"
           m == WindowedOf(my[w], held, v)
<1>1. "finish" \in PCs /\ pc[w] = "window" /\ pc[w] \in Asking
      /\ UNCHANGED <<snap, files, objects, ledger, queue, bounds>>
  BY DEF SaveWindow, PCs, Asking
<1>2. /\ w \in Actors /\ w \notin Users /\ my[w] \in Holdings /\ my[w].cp \in Checkpoints
      /\ r \in Resources /\ my[w].phase = "step" /\ cp[r] \in Checkpoints
      /\ IsFiniteSet(my[w].rows)
  BY <1>1, CountFacts DEF Holding
<1>3. SaveCheckpoint(r, row) /\ Become(w, m) /\ Goto(w, "finish")
  BY DEF SaveWindow, MovedOf, WindowedOf
<1>4. held \in Checkpoints /\ held.win = my[w].cp.win + 1 /\ held.next = 1 /\ held.pages = my[w].cp.pages
  BY <1>2, WithNextWindow
<1>5. v \in {"running", "completed"} /\ (v = "completed" => held.win \notin DOMAIN Windows[r])
  BY DEF WindowOf
<1> HIDE DEF held, v
<1>6. v \in Entity \cup Statuses \cup {"none"}
  BY <1>5 DEF Entity, Terminal
<1>7. /\ row \in Checkpoints /\ row.win = held.win /\ row.next = held.next
      /\ row.pages = cp[r].pages /\ row.status = cp[r].status /\ row.next # 0
  BY <1>2, <1>4, WithMoved
<1>8. m \in Holdings /\ m.cp = held /\ m.verdict = v /\ m.res = r /\ m.rows = my[w].rows /\ SameEnd(m, my[w])
  BY <1>2, <1>4, <1>6, WithWindow
<1> HIDE DEF m, row
<1>9. RowsTyped' /\ PlacesOK' /\ cp'[r] = row /\ \A q \in Resources \ {r} : cp'[q] = cp[q]
  BY <1>1, <1>2, <1>3, <1>7, SaveTyped
<1>10. QueueTyped' /\ BoundsTyped'
  BY <1>1, SameTyped
<1>11. Holding(w, "finish", m)
  BY <1>2, <1>4, <1>5, <1>8 DEF Holding, WorkerPCs, PCs, Asking, SameEnd
<1>12. Went(w, "finish", m)
  BY <1>1, <1>2, <1>3, <1>8, HoldsNew
<1>13. TypeInv'
  BY <1>2, <1>9, <1>10, <1>11, <1>12, TypeStep
<1> QED BY <1>1, <1>2, <1>4, <1>5, <1>7, <1>8, <1>9, <1>12, <1>13

CountedOf(c, s, d) == [c EXCEPT !.status = s, !.pages = d.pages, !.records = d.records, !.tally = d.tally]

LEMMA WithCounts ==
  ASSUME NEW c \in Checkpoints, NEW d \in Checkpoints, NEW s \in Entity
  PROVE  LET e == CountedOf(c, s, d) IN
         /\ e \in Checkpoints /\ e.win = c.win /\ e.next = c.next /\ e.pages = d.pages
         /\ e.status = s
<1> DEFINE e == [c EXCEPT !.status = s, !.pages = d.pages, !.records = d.records, !.tally = d.tally]
<1>1. CountedOf(c, s, d) = e
  BY DEF CountedOf
<1>2. e \in Checkpoints /\ e.win = c.win /\ e.next = c.next /\ e.pages = d.pages /\ e.status = s
  BY DEF Checkpoints
<1> HIDE DEF e
<1> QED BY <1>1, <1>2

(* What a handler holds when its resource is dealt with.                   *)
Dealt(m) == [Fresh EXCEPT !.replayed = m.replayed]

LEMMA WithDealt ==
  ASSUME NEW m \in Holdings
  PROVE  LET r == Dealt(m) IN
         /\ r \in Holdings /\ r.cp = NoCheckpoint /\ r.rows = {} /\ r.verdict = "none"
         /\ r.phase = "step" /\ r.intended = "none" /\ r.done = TRUE /\ r.failed = FALSE
<1>1. m.replayed \in BOOLEAN
  BY DEF Holdings
<1> DEFINE r == [Fresh EXCEPT !.replayed = m.replayed]
<1>2. r \in Holdings /\ SameData(r, Fresh) /\ SameEnd(r, Fresh) /\ r.verdict = Fresh.verdict
  BY <1>1, FreshFacts, WithReplayed
<1>3. Dealt(m) = r
  BY DEF Dealt
<1> HIDE DEF r
<1> QED BY <1>2, <1>3, FreshFacts DEF SameData, SameEnd

LEMMA DealtHeld ==
  ASSUME TypeInv, NEW w \in Workers, NEW l \in {"summary", "pick"}, Goto(w, l), Become(w, Dealt(my[w]))
  PROVE  Holding(w, l, Dealt(my[w])) /\ Went(w, l, Dealt(my[w]))
<1> DEFINE m == Dealt(my[w])
<1>1. w \in Actors /\ w \notin Users /\ my[w] \in Holdings /\ l \in PCs
  BY OrderFacts, Held DEF PCs
<1>2. m \in Holdings /\ m.cp = NoCheckpoint /\ m.rows = {} /\ m.phase = "step"
  BY <1>1, WithDealt
<1> HIDE DEF m
<1>3. Holding(w, l, m)
  BY <1>1, <1>2, FreshFacts, FS_EmptySet DEF Holding, WorkerPCs, PCs, Asking
<1> QED BY <1>1, <1>2, <1>3, HoldsNew DEF m

LEMMA FinishEffect ==
  ASSUME TypeInv, NEW w \in Workers, Finish(w)
  PROVE  /\ TypeInv' /\ UNCHANGED <<snap, files, objects, ledger, queue, bounds>> /\ pc[w] = "finish"
         /\ LET r == my[w].res IN
            /\ r \in Resources
            /\ \A q \in Resources \ {r} : cp'[q] = cp[q]
            /\ cp'[r].status = my[w].verdict /\ cp'[r].win = cp[r].win
            /\ cp'[r].next = cp[r].next /\ cp'[r].pages = my[w].cp.pages
         /\ Went(w, "summary", Dealt(my[w]))
<1> DEFINE r == my[w].res
           row  == CountedOf(cp[r], my[w].verdict, my[w].cp)
<1>1. pc[w] = "finish" /\ pc[w] \in Asking /\ UNCHANGED <<snap, files, objects, ledger, queue, bounds>>
  BY DEF Finish, Asking
<1>2. /\ w \in Actors /\ my[w].cp \in Checkpoints /\ r \in Resources /\ cp[r] \in Checkpoints
      /\ Holding(w, pc[w], my[w]) /\ cp[r].next # 0
  BY <1>1, CountFacts
<1>3. my[w].verdict \in Entity
  BY <1>1, <1>2 DEF Holding, Entity, Terminal
<1>4. SaveCheckpoint(r, row) /\ Become(w, Dealt(my[w])) /\ Goto(w, "summary")
  BY DEF Finish, CountedOf, Dealt
<1>5. /\ row \in Checkpoints /\ row.win = cp[r].win /\ row.next = cp[r].next /\ row.pages = my[w].cp.pages
      /\ row.status = my[w].verdict /\ row.next # 0
  BY <1>2, <1>3, WithCounts
<1> HIDE DEF row
<1>6. RowsTyped' /\ PlacesOK' /\ cp'[r] = row /\ \A q \in Resources \ {r} : cp'[q] = cp[q]
  BY <1>1, <1>2, <1>4, <1>5, SaveTyped
<1>7. QueueTyped' /\ BoundsTyped'
  BY <1>1, SameTyped
<1>8. Holding(w, "summary", Dealt(my[w])) /\ Went(w, "summary", Dealt(my[w]))
  BY <1>4, DealtHeld
<1>9. TypeInv'
  BY <1>2, <1>6, <1>7, <1>8, TypeStep
<1> QED BY <1>1, <1>2, <1>5, <1>6, <1>8, <1>9

LEMMA GiveUpEffect ==
  ASSUME TypeInv, NEW w \in Workers, GiveUp(w)
  PROVE  /\ TypeInv' /\ UNCHANGED <<snap, files, objects, ledger, queue, bounds>> /\ pc[w] = "giveUp"
         /\ LET r == my[w].res IN
            /\ r \in Resources
            /\ \A q \in Resources \ {r} : cp'[q] = cp[q]
            /\ cp'[r].status \in {"failed", "unsupported"} /\ cp'[r].win = cp[r].win
            /\ cp'[r].next = cp[r].next /\ cp'[r].pages = cp[r].pages
         /\ Went(w, "summary", Dealt(my[w]))
<1> DEFINE r == my[w].res
           row  == StatusOf(cp[r], my[w].verdict)
<1>1. pc[w] = "giveUp" /\ pc[w] \in Asking /\ UNCHANGED <<snap, files, objects, ledger, queue, bounds>>
  BY DEF GiveUp, Asking
<1>2. /\ w \in Actors /\ r \in Resources /\ cp[r] \in Checkpoints
      /\ Holding(w, pc[w], my[w]) /\ cp[r].next # 0
  BY <1>1, CountFacts
<1>3. my[w].verdict \in {"failed", "unsupported"}
  BY <1>1, <1>2 DEF Holding
<1>4. SaveCheckpoint(r, row) /\ Become(w, Dealt(my[w])) /\ Goto(w, "summary")
  BY DEF GiveUp, StatusOf, Dealt
<1>10. my[w].verdict \in Entity
  BY <1>3 DEF Entity, Terminal
<1>5. /\ row \in Checkpoints /\ row.win = cp[r].win /\ row.next = cp[r].next /\ row.pages = cp[r].pages
      /\ row.status = my[w].verdict /\ row.next # 0
  BY <1>2, <1>10, WithStatus
<1> HIDE DEF row
<1>6. RowsTyped' /\ PlacesOK' /\ cp'[r] = row /\ \A q \in Resources \ {r} : cp'[q] = cp[q]
  BY <1>1, <1>2, <1>4, <1>5, SaveTyped
<1>7. QueueTyped' /\ BoundsTyped'
  BY <1>1, SameTyped
<1>8. Holding(w, "summary", Dealt(my[w])) /\ Went(w, "summary", Dealt(my[w]))
  BY <1>4, DealtHeld
<1>9. TypeInv'
  BY <1>2, <1>6, <1>7, <1>8, TypeStep
<1> QED BY <1>1, <1>2, <1>3, <1>5, <1>6, <1>8, <1>9

LEMMA FailFacts ==
  ASSUME TypeInv, NEW w, Fail(w)
  PROVE  /\ UNCHANGED tables /\ UNCHANGED <<retries, crashes, overtaken, raced, lost>>
         /\ BoundsTyped'
<1>1. failures' \in 0 .. MaxFailures
  BY BoundAssumption DEF Fail, TypeInv, TypeOK
<1>2. UNCHANGED tables /\ UNCHANGED <<retries, crashes, overtaken, raced, lost>>
  BY DEF Fail
<1> QED BY <1>1, <1>2, SameTyped DEF BoundsTyped

LEMMA ExtractionFailsEffect ==
  ASSUME TypeInv, NEW w \in Workers, ExtractionFails(w)
  PROVE  /\ TypeInv' /\ UNCHANGED <<tables, retries, crashes, overtaken, raced, lost>>
         /\ pc[w] \in Extracting \ {"mark", "setBudget", "item"}
         /\ \E m \in Holdings : SameData(m, my[w]) /\ SameEnd(m, my[w]) /\ Went(w, "giveUp", m)
<1>1. /\ pc[w] \in Extracting \ {"mark", "setBudget", "item"} /\ pc[w] \in Asking
      /\ "giveUp" \in PCs /\ Goto(w, "giveUp") /\ Fail(w)
  BY DEF ExtractionFails, Extracting, Asking, PCs
<1>2. PICK v \in {"failed", "unsupported"} : Become(w, [my[w] EXCEPT !.verdict = v])
  BY DEF ExtractionFails
<1>3. w \in Actors /\ w \notin Users /\ my[w] \in Holdings /\ Holding(w, pc[w], my[w]) /\ my[w].res \in Resources
      /\ my[w].phase = "step"
  BY <1>1, CountFacts
<1> DEFINE m == [my[w] EXCEPT !.verdict = v]
<1>4. v \in Entity \cup Statuses \cup {"none"}
  BY DEF Entity, Terminal
<1>5. m \in Holdings /\ m.verdict = v /\ SameData(m, my[w]) /\ SameEnd(m, my[w]) /\ Become(w, m)
  BY <1>2, <1>3, <1>4, WithVerdict
<1> HIDE DEF m
<1>6. Holding(w, "giveUp", m)
  BY <1>3, <1>5 DEF Holding, WorkerPCs, PCs, Asking, SameData, SameEnd
<1>7. Went(w, "giveUp", m)
  BY <1>1, <1>3, <1>5, HoldsNew
<1>8. UNCHANGED tables /\ UNCHANGED <<retries, crashes, overtaken, raced, lost>> /\ BoundsTyped'
  BY <1>1, FailFacts
<1>9. TypeInv'
  BY <1>6, <1>7, <1>8, LookTyped
<1> QED BY <1>1, <1>5, <1>7, <1>8, <1>9

Failing == [Fresh EXCEPT !.failed = TRUE]

LEMMA FailingFacts ==
  /\ Failing \in Holdings /\ Failing.failed = TRUE /\ Failing.cp = NoCheckpoint /\ Failing.rows = {}
  /\ Failing.intended = "none"
<1> DEFINE r == [Fresh EXCEPT !.failed = TRUE]
<1>1. r \in Holdings /\ r.failed /\ SameData(r, Fresh) /\ r.intended = Fresh.intended
  BY FreshFacts, WithFailed
<1>2. r = Failing
  BY DEF Failing
<1> HIDE DEF r
<1> QED BY <1>1, <1>2, FreshFacts DEF SameData, Holdings

LEMMA FailingHeld ==
  ASSUME TypeInv, NEW w \in Workers, NEW l \in {"complete", "refinalize"}, Goto(w, l), Become(w, Failing)
  PROVE  Holding(w, l, Failing) /\ Went(w, l, Failing)
<1>1. w \in Actors /\ w \notin Users /\ l \in PCs
  BY OrderFacts DEF PCs
<1>2. Holding(w, l, Failing)
  BY <1>1, FailingFacts, FreshFacts, FS_EmptySet DEF Holding, WorkerPCs, PCs, Asking
<1> QED BY <1>1, <1>2, FailingFacts, HoldsNew

LEMMA TokenExpiresEffect ==
  ASSUME TypeInv, NEW w \in Workers, TokenExpires(w)
  PROVE  /\ TypeInv' /\ UNCHANGED <<tables, retries, crashes, overtaken, raced, lost>>
         /\ pc[w] \in {"page", "item"}
         /\ Went(w, "complete", Failing)
            \/ \E m \in Holdings : Went(w, "pick", m) /\ m.intended = "none" /\ m.done = TRUE /\ m.failed = FALSE
<1>1. pc[w] \in {"page", "item"} /\ Fail(w)
  BY DEF TokenExpires
<1>2. UNCHANGED tables /\ UNCHANGED <<retries, crashes, overtaken, raced, lost>> /\ BoundsTyped'
  BY <1>1, FailFacts
<1>3. CASE my[w].replayed
  <2>1. Goto(w, "complete") /\ Become(w, Failing)
    BY <1>3 DEF TokenExpires, Failing
  <2>2. Holding(w, "complete", Failing) /\ Went(w, "complete", Failing)
    BY <2>1, FailingHeld
  <2>3. TypeInv'
    BY <1>2, <2>2, LookTyped
  <2> QED BY <1>1, <1>2, <2>2, <2>3
<1>4. CASE ~my[w].replayed
  <2> DEFINE m == [Fresh EXCEPT !.replayed = TRUE]
  <2>1. Goto(w, "pick") /\ Become(w, m)
    BY <1>4 DEF TokenExpires
  <2>2. m \in Holdings /\ SameData(m, Fresh) /\ SameEnd(m, Fresh)
    BY FreshFacts, WithReplayed
  <2> HIDE DEF m
  <2>3. w \in Actors /\ w \notin Users /\ "pick" \in PCs
    BY OrderFacts DEF PCs
  <2>4. m.phase = "step" /\ m.cp.next = 1 /\ m.rows = {} /\ m.intended = "none" /\ m.done = TRUE /\ m.failed = FALSE
    BY <2>2, FreshFacts DEF SameData, SameEnd
  <2>5. Holding(w, "pick", m)
    BY <2>3, <2>4, FS_EmptySet DEF Holding, WorkerPCs, PCs, Asking
  <2>6. Went(w, "pick", m)
    BY <2>1, <2>2, <2>3, HoldsNew
  <2>7. TypeInv'
    BY <1>2, <2>5, <2>6, LookTyped
  <2> QED BY <1>1, <1>2, <2>2, <2>4, <2>6, <2>7
<1> QED BY <1>3, <1>4

LEMMA StepFailsEffect ==
  ASSUME TypeInv, NEW w \in Workers, StepFails(w)
  PROVE  /\ TypeInv' /\ UNCHANGED <<tables, retries, crashes, overtaken, raced, lost>>
         /\ pc[w] \in {"begin", "pick", "read", "mark", "giveUp", "remaining", "intend", "summary", "write"}
         /\ Went(w, "complete", Failing)
<1>1. Fail(w) /\ Goto(w, "complete") /\ Become(w, Failing)
      /\ pc[w] \in {"begin", "pick", "read", "mark", "giveUp", "remaining", "intend", "summary", "write"}
  BY DEF StepFails, Failing
<1>2. UNCHANGED tables /\ UNCHANGED <<retries, crashes, overtaken, raced, lost>> /\ BoundsTyped'
  BY <1>1, FailFacts
<1>3. Holding(w, "complete", Failing) /\ Went(w, "complete", Failing)
  BY <1>1, FailingHeld
<1>4. TypeInv'
  BY <1>2, <1>3, LookTyped
<1> QED BY <1>1, <1>2, <1>3, <1>4

LEMMA FinalizeFailsEffect ==
  ASSUME TypeInv, NEW w \in Workers, FinalizeFails(w)
  PROVE  /\ TypeInv' /\ UNCHANGED <<tables, retries, crashes, overtaken, raced, lost>>
         /\ pc[w] \in {"validate", "report", "manifest", "summary", "write"}
         /\ Went(w, "refinalize", Failing)
<1>1. Fail(w) /\ Goto(w, "refinalize") /\ Become(w, Failing)
      /\ pc[w] \in {"validate", "report", "manifest", "summary", "write"}
  BY DEF FinalizeFails, Failing
<1>2. UNCHANGED tables /\ UNCHANGED <<retries, crashes, overtaken, raced, lost>> /\ BoundsTyped'
  BY <1>1, FailFacts
<1>3. Holding(w, "refinalize", Failing) /\ Went(w, "refinalize", Failing)
  BY <1>1, FailingHeld
<1>4. TypeInv'
  BY <1>2, <1>3, LookTyped
<1> QED BY <1>1, <1>2, <1>3, <1>4

LEMMA StatusFacts ==
  /\ ComputeStatus \in Begun
  /\ ComputeStatus = "COMPLETE" => \A r \in Required : cp[r].status = "completed"
  /\ ComputeStatus = "RUNNING" =>
       \/ \E r \in Resources : cp[r].status \in {"pending", "running"}
       \/ \E r \in Required : cp[r].status = "absent"
<1> DEFINE open == \/ \E r \in Resources : cp[r].status \in {"pending", "running"}
                   \/ \E r \in Required : cp[r].status = "absent"
           good == \A r \in Required : cp[r].status = "completed"
           bad  == \A r \in Required : cp[r].status \in Terminal \ {"completed"}
           rest == \A r \in Resources \ Required : cp[r].status \in Entity \ {"failed"}
<1>1. CASE open
  BY <1>1 DEF ComputeStatus, Begun, Statuses
<1>2. CASE ~open /\ Required = {}
  BY <1>2 DEF ComputeStatus, Begun, Statuses
<1>3. CASE ~open /\ Required # {} /\ good
  <2>1. ~bad
    BY <1>3
  <2>2. ComputeStatus = IF rest THEN "COMPLETE" ELSE "PARTIAL"
    BY <1>3, <2>1 DEF ComputeStatus
  <2> QED BY <1>3, <2>2 DEF Begun, Statuses
<1>4. CASE ~open /\ Required # {} /\ ~good /\ bad
  <2>1. ComputeStatus = "FAILED"
    BY <1>4 DEF ComputeStatus
  <2> QED BY <2>1 DEF Begun, Statuses
<1>5. CASE ~open /\ Required # {} /\ ~good /\ ~bad
  <2>1. ComputeStatus = "PARTIAL"
    BY <1>5 DEF ComputeStatus
  <2> QED BY <2>1 DEF Begun, Statuses
<1> QED BY <1>1, <1>2, <1>3, <1>4, <1>5

LEMMA ReadSummaryEffect ==
  ASSUME TypeInv, NEW w \in Workers, ReadSummary(w)
  PROVE  /\ TypeInv' /\ UNCHANGED <<tables, bounds>> /\ pc[w] = "summary"
         /\ \E m \in Holdings : SameData(m, my[w]) /\ SameEnd(m, my[w]) /\ m.verdict = ComputeStatus
                                /\ Went(w, "write", m)
<1> DEFINE v == ComputeStatus
           m == [my[w] EXCEPT !.verdict = v]
<1>1. w \in Actors /\ w \notin Users /\ "write" \in PCs /\ pc[w] = "summary" /\ UNCHANGED <<tables, bounds>>
      /\ Goto(w, "write") /\ Become(w, m)
  BY OrderFacts DEF ReadSummary, PCs
<1>2. my[w] \in Holdings /\ Holding(w, "summary", my[w])
  BY <1>1, Held
<1>3. v \in Begun
  BY StatusFacts
<1> HIDE DEF v
<1>4. v \in Entity \cup Statuses \cup {"none"}
  BY <1>3 DEF Begun
<1>5. m \in Holdings /\ m.verdict = v /\ SameData(m, my[w]) /\ SameEnd(m, my[w])
  BY <1>2, <1>4, WithVerdict
<1> HIDE DEF m
<1>6. Holding(w, "write", m)
  BY <1>1, <1>2, <1>3, <1>5 DEF Holding, WorkerPCs, PCs, Asking, SameData, SameEnd
<1>7. Went(w, "write", m)
  BY <1>1, <1>5, HoldsNew
<1>8. TypeInv'
  BY <1>1, <1>6, <1>7, SameTyped, LookTyped
<1> QED BY <1>1, <1>5, <1>7, <1>8 DEF v

LEMMA WriteSummaryEffect ==
  ASSUME TypeInv, NEW w \in Workers, WriteSummary(w)
  PROVE  /\ TypeInv' /\ UNCHANGED <<store, queue, bounds>> /\ pc[w] = "write"
         /\ my[w].verdict \in Begun
         /\ snap'.status = Capped(my[w].verdict) /\ snap'.report = snap.report /\ snap'.budget = snap.budget
         /\ \/ my[w].phase = "step" /\ Went(w, "remaining", my[w])
            \/ my[w].phase = "finalize" /\ Went(w, "intend", my[w])
            \/ my[w].phase = "reconcile" /\ Went(w, "validate", my[w])
<1> DEFINE l == CASE my[w].phase = "step"     -> "remaining"
                  [] my[w].phase = "finalize" -> "intend"
                  [] OTHER                    -> "validate"
           s == Capped(my[w].verdict)
<1>1. w \in Actors /\ w \notin Users /\ pc[w] = "write" /\ UNCHANGED <<store, queue, my, bounds>>
      /\ Goto(w, l) /\ snap' = [snap EXCEPT !.status = s]
  BY OrderFacts DEF WriteSummary
<1>2. my[w] \in Holdings /\ Holding(w, "write", my[w]) /\ my[w].phase \in {"step", "finalize", "reconcile"}
  BY <1>1, Held
<1>3. my[w].verdict \in Begun /\ s \in Statuses
  BY <1>2 DEF Holding, Capped, Begun, Statuses
<1> HIDE DEF s
<1>4. /\ my[w].phase = "step" => l = "remaining"
      /\ my[w].phase = "finalize" => l = "intend"
      /\ my[w].phase = "reconcile" => l = "validate"
      /\ my[w].phase # "step" /\ my[w].phase # "finalize" => l = "validate"
  OBVIOUS
<1> HIDE DEF l
<1>5. l \in {"remaining", "intend", "validate"} /\ (l = "validate" => my[w].phase = "reconcile")
  BY <1>2, <1>4
<1>6. l \in PCs /\ Holding(w, l, my[w])
  BY <1>1, <1>2, <1>5 DEF Holding, WorkerPCs, PCs, Asking
<1>7. Went(w, l, my[w])
  BY <1>1, <1>6, HoldsOn
<1>8. snap'.status = s /\ snap'.report = snap.report /\ snap'.budget = snap.budget /\ RowsTyped'
  BY <1>1, <1>3 DEF store, RowsTyped, TypeInv, TypeOK
<1>9. PlacesOK' /\ QueueTyped' /\ BoundsTyped'
  BY <1>1, SameTyped DEF store
<1>10. TypeInv'
  BY <1>1, <1>6, <1>7, <1>8, <1>9, TypeStep
<1> QED BY <1>1, <1>2, <1>3, <1>4, <1>7, <1>8, <1>10 DEF s

LEMMA RemainingEffect ==
  ASSUME TypeInv, NEW w \in Workers, Remaining(w)
  PROVE  /\ TypeInv' /\ UNCHANGED <<tables, bounds>> /\ pc[w] = "remaining"
         /\ \E m \in Holdings :
              /\ m.intended = my[w].intended
              /\ \/ ~m.done /\ Went(w, "complete", m)
                 \/ OpenResources = {} /\ m.phase = "finalize" /\ Went(w, "summary", m)
<1>1. w \in Actors /\ w \notin Users /\ {"complete", "summary"} \subseteq PCs /\ UNCHANGED <<tables, bounds>>
      /\ pc[w] = "remaining"
  BY OrderFacts DEF Remaining, PCs
<1>2. BoundsTyped'
  BY <1>1, SameTyped
<1>3. my[w] \in Holdings /\ Holding(w, "remaining", my[w])
  BY <1>1, Held
<1>4. CASE OpenResources # {}
  <2> DEFINE m == [my[w] EXCEPT !.done = FALSE]
  <2>1. m \in Holdings /\ ~m.done /\ SameData(m, my[w]) /\ m.intended = my[w].intended
    BY <1>3, WithDone
  <2>2. Goto(w, "complete") /\ Become(w, m)
    BY <1>4 DEF Remaining
  <2> HIDE DEF m
  <2>3. Holding(w, "complete", m)
    BY <1>1, <1>3, <2>1 DEF Holding, WorkerPCs, PCs, Asking, SameData
  <2>4. Went(w, "complete", m)
    BY <1>1, <2>1, <2>2, HoldsNew
  <2>5. TypeInv'
    BY <1>1, <1>2, <2>3, <2>4, LookTyped
  <2> QED BY <1>1, <2>1, <2>4, <2>5
<1>5. CASE OpenResources = {}
  <2> DEFINE m == [my[w] EXCEPT !.phase = "finalize"]
  <2>1. m \in Holdings /\ m.phase = "finalize" /\ SameData(m, my[w]) /\ m.intended = my[w].intended
    BY <1>3, WithPhase
  <2>2. Goto(w, "summary") /\ Become(w, m)
    BY <1>5 DEF Remaining
  <2> HIDE DEF m
  <2>3. Holding(w, "summary", m)
    BY <1>1, <1>3, <2>1 DEF Holding, WorkerPCs, PCs, Asking, SameData
  <2>4. Went(w, "summary", m)
    BY <1>1, <2>1, <2>2, HoldsNew
  <2>5. TypeInv'
    BY <1>1, <1>2, <2>3, <2>4, LookTyped
  <2> QED BY <1>1, <1>5, <2>1, <2>4, <2>5
<1> QED BY <1>4, <1>5

LEMMA IntendEffect ==
  ASSUME TypeInv, NEW w \in Workers, Intend(w)
  PROVE  /\ TypeInv' /\ UNCHANGED <<tables, bounds>> /\ pc[w] = "intend"
         /\ \E m \in Holdings : /\ m.intended = ComputeStatus /\ m.phase = "reconcile"
                                /\ SameData(m, my[w])
                                /\ Went(w, "summary", m) \/ Went(w, "validate", m)
<1> DEFINE v == ComputeStatus
           l == IF Att \in Resources THEN "summary" ELSE "validate"
           m == IntendOf(my[w], v)
<1>1. w \in Actors /\ w \notin Users /\ l \in PCs /\ l \in {"summary", "validate"} /\ pc[w] = "intend"
      /\ UNCHANGED <<tables, bounds>> /\ Goto(w, l) /\ Become(w, m)
  BY OrderFacts DEF Intend, PCs, IntendOf
<1>2. my[w] \in Holdings /\ Holding(w, "intend", my[w])
  BY <1>1, Held
<1>3. v \in Begun
  BY StatusFacts
<1> HIDE DEF v, l
<1>4. v \in Statuses
  BY <1>3 DEF Begun
<1>5. m \in Holdings /\ m.intended = v /\ m.phase = "reconcile" /\ SameData(m, my[w])
  BY <1>2, <1>4, WithIntended
<1> HIDE DEF m
<1>6. Holding(w, l, m)
  BY <1>1, <1>2, <1>3, <1>5 DEF Holding, WorkerPCs, PCs, Asking, SameData
<1>7. Went(w, l, m)
  BY <1>1, <1>5, HoldsNew
<1>8. TypeInv'
  BY <1>1, <1>6, <1>7, SameTyped, LookTyped
<1> QED BY <1>1, <1>5, <1>7, <1>8 DEF v

LEMMA ValidateEffect ==
  ASSUME TypeInv, NEW w \in Workers, Validate(w)
  PROVE  /\ TypeInv' /\ UNCHANGED <<tables, bounds>> /\ pc[w] = "validate"
         /\ \E m \in Holdings : /\ m.intended = my[w].intended /\ m.report = Validation
                                /\ SameData(m, my[w]) /\ Went(w, "report", m)
<1> DEFINE v == Validation
           m == [my[w] EXCEPT !.report = v]
<1>1. w \in Actors /\ w \notin Users /\ "report" \in PCs /\ pc[w] = "validate"
      /\ UNCHANGED <<tables, bounds>> /\ Goto(w, "report") /\ Become(w, m)
  BY OrderFacts DEF Validate, PCs
<1>2. my[w] \in Holdings /\ Holding(w, "validate", my[w])
  BY <1>1, Held
<1>3. v \in {"ok", "issues"}
  BY DEF Validation
<1> HIDE DEF v
<1>5. m \in Holdings /\ m.report = v /\ SameData(m, my[w]) /\ m.intended = my[w].intended
  BY <1>2, <1>3, WithReport
<1> HIDE DEF m
<1>6. Holding(w, "report", m)
  BY <1>1, <1>2, <1>3, <1>5 DEF Holding, WorkerPCs, PCs, Asking, SameData
<1>7. Went(w, "report", m)
  BY <1>1, <1>5, HoldsNew
<1>8. TypeInv'
  BY <1>1, <1>6, <1>7, SameTyped, LookTyped
<1> QED BY <1>1, <1>5, <1>7, <1>8 DEF v

LEMMA SaveReportEffect ==
  ASSUME TypeInv, NEW w \in Workers, SaveReport(w)
  PROVE  /\ TypeInv' /\ UNCHANGED <<store, queue, bounds>> /\ pc[w] = "report" /\ Went(w, "manifest", my[w])
         /\ my[w].intended \in Begun /\ my[w].report \in {"ok", "issues"}
         /\ snap'.status = FinalStatus(my[w].intended, my[w].report) /\ snap'.report = my[w].report
         /\ snap'.budget = snap.budget
<1> DEFINE s == FinalStatus(my[w].intended, my[w].report)
           v == my[w].report
<1>1. w \in Actors /\ w \notin Users /\ pc[w] = "report" /\ "manifest" \in PCs
      /\ UNCHANGED <<store, queue, my, bounds>>
      /\ Goto(w, "manifest") /\ snap' = [snap EXCEPT !.status = s, !.report = v]
  BY OrderFacts DEF SaveReport, PCs
<1>2. Holding(w, "report", my[w]) /\ v \in {"none", "ok", "issues"}
  BY <1>1, Held
<1>3. my[w].intended \in Begun /\ v \in {"ok", "issues"}
  BY <1>2 DEF Holding
<1>4. s \in Statuses
  BY <1>3 DEF FinalStatus, Begun, Statuses
<1> HIDE DEF s, v
<1>5. snap'.status = s /\ snap'.report = v /\ snap'.budget = snap.budget
      /\ snap' \in [status : Statuses, report : {"none", "ok", "issues"}, budget : Nat \cup {None}]
  BY <1>1, <1>3, <1>4 DEF TypeInv, TypeOK
<1>6. Holding(w, "manifest", my[w])
  BY <1>1, <1>2 DEF Holding, WorkerPCs, PCs, Asking
<1>7. Went(w, "manifest", my[w])
  BY <1>1, HoldsOn
<1>8. RowsTyped' /\ PlacesOK' /\ QueueTyped' /\ BoundsTyped'
  BY <1>1, <1>5, SameTyped DEF store, RowsTyped
<1>9. TypeInv'
  BY <1>1, <1>6, <1>7, <1>8, TypeStep
<1> QED BY <1>1, <1>3, <1>5, <1>7, <1>9 DEF s, v

LEMMA ManifestEffect ==
  ASSUME TypeInv, NEW w \in Workers, Manifest(w)
  PROVE  TypeInv' /\ UNCHANGED <<tables, bounds>> /\ pc[w] = "manifest" /\ Went(w, "complete", Fresh)
<1>1. "complete" \in WorkerPCs /\ "complete" \notin Asking \cup {"write", "validate", "report"}
  BY DEF WorkerPCs, PCs, Asking
<1>2. w \in Actors /\ Holding(w, "complete", Fresh) /\ "complete" \in PCs
  BY <1>1, WorkerHeld
<1>3. Went(w, "complete", Fresh) /\ UNCHANGED <<tables, bounds>> /\ pc[w] = "manifest"
  BY <1>2, ToFresh DEF Manifest
<1> QED BY <1>2, <1>3, SameTyped, LookTyped

LEMMA MarkRefinalizingEffect ==
  ASSUME TypeInv, NEW w \in Workers, MarkRefinalizing(w)
  PROVE  /\ TypeInv' /\ UNCHANGED <<store, queue, bounds>> /\ pc[w] = "refinalize"
         /\ Went(w, "complete", my[w]) /\ snap'.status = "RUNNING" /\ snap'.budget = snap.budget
<1>1. w \in Actors /\ w \notin Users /\ pc[w] = "refinalize" /\ "complete" \in PCs
      /\ UNCHANGED <<store, queue, my, bounds>> /\ Goto(w, "complete")
      /\ snap' = IF snap.status = "RUNNING" THEN snap
                 ELSE [snap EXCEPT !.status = "RUNNING", !.report = "none"]
  BY OrderFacts DEF MarkRefinalizing, PCs
<1>2. snap'.status = "RUNNING" /\ snap'.budget = snap.budget
      /\ snap' \in [status : Statuses, report : {"none", "ok", "issues"}, budget : Nat \cup {None}]
  <2>1. CASE snap.status = "RUNNING"
    BY <1>1, <2>1 DEF TypeInv, TypeOK
  <2>2. CASE snap.status # "RUNNING"
    <3>1. snap' = [snap EXCEPT !.status = "RUNNING", !.report = "none"]
      BY <1>1, <2>2
    <3> QED BY <3>1 DEF TypeInv, TypeOK, Statuses
  <2> QED BY <2>1, <2>2
<1>3. Holding(w, "complete", my[w])
  BY <1>1, Held DEF Holding, WorkerPCs, PCs, Asking
<1>4. Went(w, "complete", my[w])
  BY <1>1, HoldsOn
<1>5. RowsTyped' /\ PlacesOK' /\ QueueTyped' /\ BoundsTyped'
  BY <1>1, <1>2, SameTyped DEF store, RowsTyped
<1>6. TypeInv'
  BY <1>1, <1>3, <1>4, <1>5, TypeStep
<1> QED BY <1>1, <1>2, <1>4, <1>6

LEMMA CrashEffect ==
  ASSUME TypeInv, NEW a \in Actors, Crash(a)
  PROVE  /\ TypeInv' /\ UNCHANGED <<tables, retries, failures, overtaken, raced>> /\ Went(a, "idle", Fresh)
         /\ ~lost' => ~lost /\ a \notin Users /\ pc[a] \notin {"find", "insert"}
         /\ pc[a] # "idle"
<1>1. /\ UNCHANGED <<tables, retries, failures, overtaken, raced>>
      /\ crashes < MaxCrashes /\ crashes' = crashes + 1 /\ pc[a] # "idle"
      /\ lost' = (lost \/ a \in Users \/ pc[a] \in {"find", "insert"})
  BY DEF Crash
<1>2. Went(a, "idle", Fresh)
  BY ToIdle DEF Crash
<1>3. crashes' \in 0 .. MaxCrashes /\ lost' \in BOOLEAN
  BY <1>1, BoundAssumption DEF TypeInv, TypeOK
<1>4. BoundsTyped'
  BY <1>1, <1>3, SameTyped DEF BoundsTyped
<1>5. RowsTyped' /\ PlacesOK' /\ QueueTyped'
  BY <1>1, ReadTyped
<1>6. TypeInv'
  BY <1>2, <1>4, <1>5, IdleHeld, TypeStep
<1> QED BY <1>1, <1>2, <1>6

LEMMA InitTyped == Init => TypeInv
<1> SUFFICES ASSUME Init PROVE TypeInv
  OBVIOUS
<1>1. RowsTyped /\ PlacesOK
  BY FreshFacts DEF Init, RowsTyped, PlacesOK, Statuses
<1>2. queue \in [status : {"NONE", "PENDING", "RUNNING"}, holder : Workers \cup {None}, attempts : 0 .. MaxAttempts]
      /\ RowOK
  BY BoundAssumption DEF Init, NoQueue, RowOK
<1>3. BoundsTyped
  <2>1. MaxRetries \in Nat /\ MaxFailures \in Nat /\ MaxCrashes \in Nat /\ MaxOvertaken \in Nat
    BY BoundAssumption
  <2>2. retries = 0 /\ failures = 0 /\ crashes = 0 /\ overtaken = 0
    BY DEF Init
  <2>3. raced \in BOOLEAN /\ lost \in BOOLEAN
    BY DEF Init
  <2> QED BY <2>1, <2>2, <2>3 DEF BoundsTyped
<1>4. ActorsTyped
  BY FreshFacts DEF Init, ActorsTyped, PCs
<1>5. ASSUME NEW a \in Actors PROVE HeldOK(a)
  <2>1. pc[a] = "idle" /\ my[a] = Fresh
    BY <1>5 DEF Init
  <2> QED BY <1>5, <2>1, IdleHeld DEF HeldOK
<1> QED BY <1>1, <1>2, <1>3, <1>4, <1>5, TypeParts DEF TypeInv

(* An outcome is entered in the ledger, and in what the handler holds of it. *)
Entered(w, i, o) ==
  /\ ledger' = [ledger EXCEPT ![i] = o]
  /\ \E m \in Holdings : /\ m.ledger = [my[w].ledger EXCEPT ![i] = o] /\ m.items = my[w].items \ {i}
                         /\ m.res = my[w].res /\ m.rows = my[w].rows /\ m.cp = my[w].cp
                         /\ m.budget = my[w].budget /\ SameEnd(m, my[w])
                         /\ Went(w, "save", m) \/ Went(w, "item", m)

LEMMA EnteredTyped ==
  ASSUME TypeInv, NEW w \in Workers, NEW i \in Items,
         RecordCaptured(w, i) \/ SkipBinary(w, i) \/ MissBinary(w, i)
  PROVE  /\ TypeInv' /\ pc[w] \in {"item", "record"} /\ i \in my[w].items /\ i = Min(my[w].items)
         /\ UNCHANGED <<snap, cp, files, objects, queue, retries, crashes, overtaken, raced, lost>>
         /\ \E o \in Outcomes \ {"none"} : (o = "captured" <=> pc[w] = "record") /\ Entered(w, i, o)
<1>1. UNCHANGED <<snap, cp, files, objects, queue, retries, crashes, overtaken, raced, lost>>
      /\ i \in my[w].items /\ i = Min(my[w].items)
  BY DEF RecordCaptured, SkipBinary, MissBinary, AtItem, bounds
<1>2. {"captured", "skipped_budget", "failed"} \subseteq Outcomes \ {"none"}
  BY OutcomeFacts
<1>3. CASE RecordCaptured(w, i)
  <2>1. pc[w] = "record" /\ Enter(w, i, "captured") /\ UNCHANGED bounds
    BY <1>3 DEF RecordCaptured
  <2>2. BoundsTyped'
    BY <2>1, SameTyped
  <2>3. TypeInv' /\ Entered(w, i, "captured")
    BY <1>1, <1>2, <2>1, <2>2, EnterEffect DEF Entered
  <2> QED BY <1>1, <1>2, <2>1, <2>3
<1>4. CASE SkipBinary(w, i)
  <2>1. pc[w] = "item" /\ Enter(w, i, "skipped_budget") /\ UNCHANGED bounds
    BY <1>4 DEF SkipBinary, AtItem
  <2>2. BoundsTyped'
    BY <2>1, SameTyped
  <2>3. TypeInv' /\ Entered(w, i, "skipped_budget")
    BY <1>1, <1>2, <2>1, <2>2, EnterEffect DEF Entered
  <2> QED BY <1>1, <1>2, <2>1, <2>3
<1>5. CASE MissBinary(w, i)
  <2>1. pc[w] = "item" /\ Enter(w, i, "failed") /\ failures < MaxFailures /\ failures' = failures + 1
        /\ UNCHANGED <<retries, crashes, overtaken, raced, lost>>
    BY <1>5 DEF MissBinary, AtItem
  <2>2. failures' \in 0 .. MaxFailures
    BY <2>1, BoundAssumption DEF TypeInv, TypeOK
  <2>3. BoundsTyped'
    BY <2>1, <2>2, SameTyped DEF BoundsTyped
  <2>4. TypeInv' /\ Entered(w, i, "failed")
    BY <1>1, <1>2, <2>1, <2>3, EnterEffect DEF Entered
  <2> QED BY <1>1, <1>2, <2>1, <2>4
<1> QED BY <1>3, <1>4, <1>5

LEMMA UserTyped ==
  ASSUME TypeInv, NEW u \in Users, User(u)
  PROVE  TypeInv'
<1>1. u \in Actors
  BY OrderFacts
<1>2. CASE Create(u) \/ InsertCheckpoints(u) \/ Find(u) \/ Insert(u)
  BY <1>1, <1>2, CreateEffect, InsertCheckpointsEffect, FindEffect, InsertEffect
<1>3. CASE Retry(u) \/ List(u) \/ Reopen(u) \/ Overlook(u)
  BY <1>3, RetryEffect, ListEffect, ReopenEffect, OverlookEffect
<1>4. CASE \E r \in Resources : Reset(u, r)
  BY <1>4, ResetEffect
<1> QED BY <1>2, <1>3, <1>4 DEF User

LEMMA WorkerTyped ==
  ASSUME TypeInv, NEW w \in Workers, Worker(w)
  PROVE  TypeInv'
<1>1. w \in Actors
  BY OrderFacts
<1>2. CASE Claim(w) \/ Begin(w) \/ Pick(w) \/ Complete(w) \/ Find(w) \/ Insert(w) \/ StepFails(w)
  BY <1>1, <1>2, ClaimEffect, BeginEffect, PickEffect, CompleteEffect, FindEffect, InsertEffect, StepFailsEffect
<1>3. CASE Extract(w)
  <2>1. CASE ReadCheckpoint(w) \/ MarkRunning(w) \/ ReadBudget(w) \/ SetBudget(w)
    BY <2>1, ReadCheckpointEffect, MarkRunningEffect, ReadBudgetEffect, SetBudgetEffect
  <2>2. CASE WritePage(w) \/ EmptyPage(w) \/ WriteSingle(w) \/ SavePage(w) \/ SaveWindow(w)
    BY <2>2, WritePageEffect, EmptyPageEffect, WriteSingleEffect, SavePageEffect, SaveWindowEffect
  <2>3. CASE Finish(w) \/ GiveUp(w) \/ ExtractionFails(w) \/ TokenExpires(w)
    BY <2>3, FinishEffect, GiveUpEffect, ExtractionFailsEffect, TokenExpiresEffect
  <2>4. CASE \E i \in Items : StoreBinary(w, i) \/ RecordCaptured(w, i) \/ SkipBinary(w, i) \/ MissBinary(w, i)
    BY <2>4, StoreBinaryEffect, EnteredTyped
  <2> QED BY <1>3, <2>1, <2>2, <2>3, <2>4 DEF Extract
<1>4. CASE Finalize(w)
  <2>1. CASE ReadSummary(w) \/ WriteSummary(w) \/ Remaining(w) \/ Intend(w) \/ Validate(w)
    BY <2>1, ReadSummaryEffect, WriteSummaryEffect, RemainingEffect, IntendEffect, ValidateEffect
  <2>2. CASE SaveReport(w) \/ Manifest(w) \/ FinalizeFails(w) \/ MarkRefinalizing(w)
    BY <2>2, SaveReportEffect, ManifestEffect, FinalizeFailsEffect, MarkRefinalizingEffect
  <2> QED BY <1>4, <2>1, <2>2 DEF Finalize
<1> QED BY <1>2, <1>3, <1>4 DEF Worker

LEMMA TypeKept == TypeInv /\ [Next]_vars => TypeInv'
<1> SUFFICES ASSUME TypeInv, [Next]_vars PROVE TypeInv'
  OBVIOUS
<1>1. ASSUME NEW u \in Users, User(u) PROVE TypeInv'
  BY <1>1, UserTyped
<1>2. ASSUME NEW w \in Workers, Worker(w) PROVE TypeInv'
  BY <1>2, WorkerTyped
<1>3. ASSUME NEW a \in Actors, Crash(a) PROVE TypeInv'
  BY <1>3, CrashEffect
<1>4. CASE UNCHANGED vars
  BY <1>4 DEF vars, tables, store, bounds, TypeInv, TypeOK, PlacesOK, RowOK, HeldOK
<1> QED BY <1>1, <1>2, <1>3, <1>4 DEF Next

LEMMA TypesHold == Spec => []TypeInv
<1> QED BY InitTyped, TypeKept, PTL DEF Spec

(* The variables of Snapshot keep their types.                             *)
THEOREM SnapshotTypeCorrect == Spec => []TypeOK
<1>1. TypeInv => TypeOK
  BY DEF TypeInv
<1> QED BY <1>1, TypesHold, PTL

-----------------------------------------------------------------------------
(* What a step leaves alone.                                               *)
Steps(a) == (a \in Users /\ User(a)) \/ (a \in Workers /\ Worker(a)) \/ (a \in Actors /\ Crash(a))
Others(a) == \A b \in Actors \ {a} : pc'[b] = pc[b] /\ my'[b] = my[b]
Forward ==
  /\ snap.budget # None => snap'.budget = snap.budget
  /\ objects \subseteq objects'
  /\ overtaken' = 0 => overtaken = 0
  /\ ~raced' => ~raced
  /\ ~lost' => ~lost

LEMMA NextSteps == Next => \E a \in Actors : Steps(a)
BY OrderFacts DEF Next, Steps

LEMMA SameForward ==
  /\ UNCHANGED <<snap, objects, overtaken, raced, lost>> => Forward
  /\ UNCHANGED <<tables, bounds>> => Forward
BY DEF Forward, tables, store, bounds

LEMMA WentOthers ==
  ASSUME NEW a, NEW l, NEW m, Went(a, l, m)
  PROVE  Others(a) /\ pc'[a] = l /\ my'[a] = m
BY DEF Went, Others

LEMMA UserForward ==
  ASSUME TypeInv, NEW u \in Users, User(u)
  PROVE  /\ Forward /\ Others(u) /\ UNCHANGED <<files, objects, ledger, overtaken, lost>>
         /\ snap'.budget = snap.budget
         /\ Insert(u) \/ UNCHANGED queue
<1>1. u \in Actors
  BY OrderFacts
<1>2. CASE Create(u) \/ InsertCheckpoints(u)
  <2>1. UNCHANGED bounds /\ snap'.budget = snap.budget /\ UNCHANGED <<files, objects, ledger, queue>>
    BY <1>2 DEF Create, InsertCheckpoints, store, TypeInv, TypeOK
  <2>2. Others(u)
    BY <1>1, <1>2, CreateEffect, InsertCheckpointsEffect, WentOthers
  <2> QED BY <2>1, <2>2 DEF Forward, bounds
<1>3. CASE Find(u)
  <2>1. Others(u) /\ UNCHANGED <<tables, bounds>>
    BY <1>1, <1>3, FindEffect, WentOthers
  <2> QED BY <2>1, SameForward DEF tables, store, bounds
<1>4. CASE Insert(u)
  <2>1. Others(u) /\ UNCHANGED <<snap, store, bounds>>
    BY <1>1, <1>4, InsertEffect, WentOthers
  <2> QED BY <1>4, <2>1, SameForward DEF store, bounds
<1>5. CASE Retry(u)
  <2>1. Others(u) /\ UNCHANGED tables /\ UNCHANGED <<overtaken, lost>> /\ (~raced' => ~raced)
    BY <1>5, RetryEffect, WentOthers DEF Retry, Meets
  <2> QED BY <2>1 DEF tables, store, Forward
<1>6. CASE List(u)
  <2>1. Others(u)
    BY <1>6, ListEffect, WentOthers
  <2>2. UNCHANGED tables /\ UNCHANGED <<overtaken, lost>> /\ (~raced' => ~raced)
    BY <1>6 DEF List, Meets
  <2> QED BY <2>1, <2>2 DEF tables, store, Forward
<1>7. CASE Reopen(u)
  <2>1. Others(u) /\ snap'.budget = snap.budget /\ UNCHANGED <<store, queue>>
    BY <1>7, ReopenEffect, WentOthers
  <2>2. UNCHANGED <<overtaken, lost>> /\ (~raced' => ~raced)
    BY <1>7 DEF Reopen, Meets
  <2> QED BY <2>1, <2>2 DEF store, Forward
<1>8. ASSUME NEW r \in Resources, Reset(u, r)
      PROVE  /\ Forward /\ Others(u) /\ UNCHANGED <<files, objects, ledger, overtaken, lost>>
             /\ snap'.budget = snap.budget /\ UNCHANGED queue
  <2>1. Others(u) /\ UNCHANGED <<snap, files, objects, ledger, queue>>
    BY <1>8, ResetEffect, WentOthers
  <2>2. UNCHANGED <<overtaken, lost>> /\ (~raced' => ~raced)
    BY <1>8 DEF Reset, Meets
  <2> QED BY <2>1, <2>2 DEF Forward
<1>9. CASE Overlook(u)
  <2>1. Others(u)
    BY <1>9, OverlookEffect, WentOthers
  <2>2. UNCHANGED tables /\ UNCHANGED <<overtaken, lost>> /\ (~raced' => ~raced)
    BY <1>9 DEF Overlook, Meets
  <2> QED BY <2>1, <2>2 DEF tables, store, Forward
<1> QED BY <1>2, <1>3, <1>4, <1>5, <1>6, <1>7, <1>8, <1>9 DEF User

(* Where the ledger, the budget and the binaries are touched.              *)
Quiet(w) ==
  /\ UNCHANGED <<objects, ledger>> /\ snap'.budget = snap.budget
  /\ pc'[w] \in {"page", "item", "record", "save", "setBudget"} => pc'[w] = "page" /\ my'[w].res # Att
Capturing(w) ==
  \/ ReadBudget(w) \/ SetBudget(w) \/ WritePage(w) \/ SavePage(w)
  \/ \E i \in Items : StoreBinary(w, i) \/ RecordCaptured(w, i) \/ SkipBinary(w, i) \/ MissBinary(w, i)

LEMMA CapturingForward ==
  ASSUME TypeInv, NEW w \in Workers, Capturing(w)
  PROVE  /\ Forward /\ Others(w) /\ UNCHANGED <<queue, overtaken, raced, lost>>
         /\ Working(w)
<1>1. CASE ReadBudget(w) \/ WritePage(w) \/ SavePage(w)
  <2>1. UNCHANGED <<queue, bounds>> /\ UNCHANGED <<snap, objects>> /\ pc[w] \in {"budget", "page", "save"}
    BY <1>1, ReadBudgetEffect, WritePageEffect, SavePageEffect DEF tables, store
  <2>2. Others(w)
    BY <1>1, ReadBudgetEffect, WritePageEffect, SavePageEffect, WentOthers
  <2> QED BY <2>1, <2>2, SameForward DEF bounds, Working
<1>2. CASE SetBudget(w)
  <2>1. /\ UNCHANGED <<store, queue, bounds>> /\ pc[w] = "setBudget" /\ Others(w)
        /\ snap.budget # None => UNCHANGED snap
    BY <1>2, SetBudgetEffect, WentOthers
  <2> QED BY <2>1 DEF bounds, Working, Forward, store
<1>3. ASSUME NEW i \in Items, StoreBinary(w, i)
      PROVE  /\ Forward /\ Others(w) /\ UNCHANGED <<queue, overtaken, raced, lost>> /\ Working(w)
  <2>1. UNCHANGED <<snap, queue, bounds>> /\ pc[w] = "item" /\ Others(w) /\ objects' = objects \cup {i}
    BY <1>3, StoreBinaryEffect, WentOthers
  <2> QED BY <2>1 DEF bounds, Working, Forward
<1>4. ASSUME NEW i \in Items, RecordCaptured(w, i) \/ SkipBinary(w, i) \/ MissBinary(w, i)
      PROVE  /\ Forward /\ Others(w) /\ UNCHANGED <<queue, overtaken, raced, lost>> /\ Working(w)
  <2>1. UNCHANGED <<snap, objects, queue, overtaken, raced, lost>> /\ pc[w] \in {"item", "record"}
    BY <1>4, EnteredTyped
  <2>2. Others(w)
    <3>1. PICK o \in Outcomes \ {"none"} : Entered(w, i, o)
      BY <1>4, EnteredTyped
    <3> QED BY <3>1, WentOthers DEF Entered
  <2> QED BY <2>1, <2>2, SameForward DEF Working
<1> QED BY <1>1, <1>2, <1>3, <1>4 DEF Capturing

Plain(w) ==
  \/ Begin(w) \/ Pick(w) \/ StepFails(w)
  \/ ReadCheckpoint(w) \/ MarkRunning(w) \/ EmptyPage(w) \/ WriteSingle(w)
  \/ SaveWindow(w) \/ Finish(w) \/ GiveUp(w) \/ ExtractionFails(w) \/ TokenExpires(w)
  \/ Finalize(w)

LEMMA WorkerKinds ==
  ASSUME NEW w, Worker(w)
  PROVE  Claim(w) \/ Complete(w) \/ Find(w) \/ Insert(w) \/ Capturing(w) \/ Plain(w)
BY DEF Worker, Extract, Capturing, Plain

LEMMA PlainForward ==
  ASSUME TypeInv, NEW w \in Workers, Plain(w)
  PROVE  /\ Forward /\ Others(w) /\ Quiet(w) /\ UNCHANGED <<queue, overtaken, raced, lost>>
         /\ Working(w)
<1>0. ASSUME UNCHANGED <<snap, objects, ledger, queue, overtaken, raced, lost>>,
             pc[w] \notin {"idle", "find", "insert"}, Others(w),
             pc'[w] \in {"page", "item", "record", "save", "setBudget"} => pc'[w] = "page" /\ my'[w].res # Att
      PROVE  /\ Forward /\ Others(w) /\ Quiet(w) /\ UNCHANGED <<queue, overtaken, raced, lost>> /\ Working(w)
  BY <1>0, SameForward DEF Quiet, Working
<1>1. CASE Begin(w) \/ Pick(w) \/ StepFails(w)
  <2>1. UNCHANGED tables /\ UNCHANGED <<overtaken, raced, lost>>
    BY <1>1, BeginEffect, PickEffect, StepFailsEffect DEF bounds
  <2>2. pc[w] \notin {"idle", "find", "insert"}
    BY <1>1, BeginEffect, PickEffect, StepFailsEffect
  <2>3. Others(w) /\ pc'[w] \in {"idle", "pick", "complete", "summary", "read"}
    <3>1. CASE Begin(w)
      BY <3>1, BeginEffect, WentOthers
    <3>2. CASE Pick(w)
      BY <3>2, PickEffect, WentOthers
    <3>3. CASE StepFails(w)
      BY <3>3, StepFailsEffect, WentOthers
    <3> QED BY <1>1, <3>1, <3>2, <3>3
  <2> QED BY <1>0, <2>1, <2>2, <2>3 DEF tables, store
<1>2. CASE ReadCheckpoint(w)
  <2>1. UNCHANGED <<tables, bounds>> /\ pc[w] = "read"
    BY <1>2, ReadCheckpointEffect
  <2>2. Others(w) /\ pc'[w] \in {"idle", "mark", "summary"}
    BY <1>2, ReadCheckpointEffect, WentOthers
  <2> QED BY <1>0, <2>1, <2>2 DEF tables, store, bounds
<1>3. CASE MarkRunning(w)
  <2>1. UNCHANGED <<snap, files, objects, ledger, queue, bounds>> /\ pc[w] = "mark"
    BY <1>3, MarkRunningEffect
  <2>2. Others(w) /\ (pc'[w] = "budget" \/ (pc'[w] = "page" /\ my'[w].res # Att))
    BY <1>3, MarkRunningEffect, WentOthers
  <2> QED BY <1>0, <2>1, <2>2 DEF bounds
<1>4. CASE EmptyPage(w)
  <2>1. UNCHANGED <<snap, files, objects, ledger, queue, bounds>> /\ pc[w] = "page"
    BY <1>4, EmptyPageEffect
  <2>2. Others(w) /\ pc'[w] \in {"window", "finish"}
    BY <1>4, EmptyPageEffect, WentOthers
  <2> QED BY <1>0, <2>1, <2>2 DEF bounds
<1>5. CASE WriteSingle(w)
  <2>1. UNCHANGED <<snap, cp, objects, ledger, queue, bounds>> /\ pc[w] = "page"
    BY <1>5, WriteSingleEffect
  <2>2. Others(w) /\ pc'[w] = "finish"
    BY <1>5, WriteSingleEffect, WentOthers
  <2> QED BY <1>0, <2>1, <2>2 DEF bounds
<1>6. CASE SaveWindow(w)
  <2>1. UNCHANGED <<snap, files, objects, ledger, queue, bounds>> /\ pc[w] = "window"
    BY <1>6, SaveWindowEffect
  <2>2. Others(w) /\ pc'[w] = "finish"
    BY <1>6, SaveWindowEffect, WentOthers
  <2> QED BY <1>0, <2>1, <2>2 DEF bounds
<1>7. CASE Finish(w) \/ GiveUp(w)
  <2>1. UNCHANGED <<snap, files, objects, ledger, queue, bounds>> /\ pc[w] \in {"finish", "giveUp"}
    BY <1>7, FinishEffect, GiveUpEffect
  <2>2. Others(w) /\ pc'[w] = "summary"
    BY <1>7, FinishEffect, GiveUpEffect, WentOthers
  <2> QED BY <1>0, <2>1, <2>2 DEF bounds
<1>8. CASE ExtractionFails(w)
  <2>1. /\ UNCHANGED tables /\ UNCHANGED <<overtaken, raced, lost>>
        /\ pc[w] \in Extracting
    BY <1>8, ExtractionFailsEffect
  <2>2. Others(w) /\ pc'[w] = "giveUp"
    BY <1>8, ExtractionFailsEffect, WentOthers
  <2> QED BY <1>0, <2>1, <2>2 DEF tables, store, Extracting, Asking
<1>9. CASE TokenExpires(w)
  <2>1. /\ UNCHANGED tables /\ UNCHANGED <<overtaken, raced, lost>> /\ pc[w] \in {"page", "item"}
    BY <1>9, TokenExpiresEffect
  <2>2. Others(w) /\ pc'[w] \in {"complete", "pick"}
    BY <1>9, TokenExpiresEffect, WentOthers
  <2> QED BY <1>0, <2>1, <2>2 DEF tables, store
<1>10. CASE ReadSummary(w) \/ Remaining(w) \/ Intend(w) \/ Validate(w) \/ Manifest(w)
  <2>1. UNCHANGED <<tables, bounds>> /\ pc[w] \in {"summary", "remaining", "intend", "validate", "manifest"}
    BY <1>10, ReadSummaryEffect, RemainingEffect, IntendEffect, ValidateEffect, ManifestEffect
  <2>2. Others(w) /\ pc'[w] \in {"write", "complete", "summary", "validate", "report"}
    <3>1. CASE ReadSummary(w)
      BY <3>1, ReadSummaryEffect, WentOthers
    <3>2. CASE Remaining(w)
      BY <3>2, RemainingEffect, WentOthers
    <3>3. CASE Intend(w)
      BY <3>3, IntendEffect, WentOthers
    <3>4. CASE Validate(w)
      BY <3>4, ValidateEffect, WentOthers
    <3>5. CASE Manifest(w)
      BY <3>5, ManifestEffect, WentOthers
    <3> QED BY <1>10, <3>1, <3>2, <3>3, <3>4, <3>5
  <2> QED BY <1>0, <2>1, <2>2 DEF tables, store, bounds
<1>11. CASE WriteSummary(w) \/ SaveReport(w) \/ MarkRefinalizing(w)
  <2>1. /\ UNCHANGED <<store, queue, bounds>> /\ pc[w] \in {"write", "report", "refinalize"}
        /\ snap'.budget = snap.budget
    BY <1>11, WriteSummaryEffect, SaveReportEffect, MarkRefinalizingEffect
  <2>2. Others(w) /\ pc'[w] \in {"remaining", "intend", "validate", "manifest", "complete"}
    BY <1>11, WriteSummaryEffect, SaveReportEffect, MarkRefinalizingEffect, WentOthers
  <2> QED BY <2>1, <2>2 DEF store, bounds, Forward, Quiet, Working
<1>12. CASE FinalizeFails(w)
  <2>1. /\ UNCHANGED tables /\ UNCHANGED <<overtaken, raced, lost>>
        /\ pc[w] \in {"validate", "report", "manifest", "summary", "write"}
    BY <1>12, FinalizeFailsEffect
  <2>2. Others(w) /\ pc'[w] = "refinalize"
    BY <1>12, FinalizeFailsEffect, WentOthers
  <2> QED BY <1>0, <2>1, <2>2 DEF tables, store
<1> QED BY <1>1, <1>2, <1>3, <1>4, <1>5, <1>6, <1>7, <1>8, <1>9, <1>10, <1>11, <1>12 DEF Plain, Finalize

LEMMA QueueForward ==
  ASSUME TypeInv, NEW w \in Workers, Claim(w) \/ Complete(w) \/ Find(w) \/ Insert(w)
  PROVE  /\ Forward /\ Others(w) /\ UNCHANGED <<snap, store>>
         /\ pc'[w] \in {"idle", "find", "insert", "begin"} /\ Quiet(w)
<1>0. w \in Actors
  BY OrderFacts
<1>1. UNCHANGED <<snap, store>>
  BY DEF Claim, Complete, Find, Insert, tables
<1>2. overtaken' = 0 => overtaken = 0
  <2>1. CASE Claim(w)
    BY <2>1, ClaimEffect
  <2>2. CASE Complete(w) \/ Find(w) \/ Insert(w)
    BY <2>2 DEF Complete, Find, Insert, bounds
  <2> QED BY <2>1, <2>2
<1>3. (~raced' => ~raced) /\ (~lost' => ~lost)
  <2>1. CASE Claim(w)
    BY <2>1 DEF Claim
  <2>2. CASE Complete(w)
    <3>1. UNCHANGED raced
      BY <2>2 DEF Complete
    <3>2. ~lost' => ~lost
      BY <2>2, CompleteEffect
    <3> QED BY <3>1, <3>2
  <2>3. CASE Find(w) \/ Insert(w)
    BY <2>3 DEF Find, Insert, bounds
  <2> QED BY <2>1, <2>2, <2>3
<1>4. Others(w) /\ pc'[w] \in {"idle", "find", "insert", "begin"}
  <2>1. CASE Claim(w)
    BY <2>1, ClaimEffect, WentOthers
  <2>2. CASE Complete(w)
    BY <2>2, CompleteEffect, WentOthers
  <2>3. CASE Find(w)
    BY <1>0, <2>3, FindEffect, WentOthers
  <2>4. CASE Insert(w)
    BY <1>0, <2>4, InsertEffect, WentOthers
  <2> QED BY <2>1, <2>2, <2>3, <2>4
<1> QED BY <1>1, <1>2, <1>3, <1>4 DEF Forward, store, Quiet

LEMMA CrashForward ==
  ASSUME TypeInv, NEW a \in Actors, Crash(a)
  PROVE  Forward /\ Others(a) /\ UNCHANGED <<tables, overtaken, raced>> /\ pc'[a] = "idle" /\ my'[a] = Fresh
<1>1. UNCHANGED <<tables, overtaken, raced>> /\ Went(a, "idle", Fresh) /\ (~lost' => ~lost)
  BY CrashEffect
<1> QED BY <1>1, WentOthers DEF Forward, tables, store

LEMMA StepForward ==
  ASSUME TypeInv, NEW a \in Actors, Steps(a)
  PROVE  Forward /\ Others(a)
<1>1. CASE a \in Users /\ User(a)
  BY <1>1, UserForward
<1>2. CASE a \in Workers /\ Worker(a)
  BY <1>2, WorkerKinds, CapturingForward, PlainForward, QueueForward
<1>3. CASE Crash(a)
  BY <1>3, CrashForward
<1> QED BY <1>1, <1>2, <1>3 DEF Steps

-----------------------------------------------------------------------------
(* While none is overtaken, a worker at work has the row.                  *)
Fenced == \A w \in Workers : Working(w) => Owner(w)

LEMMA FencedAlone ==
  ASSUME Fenced, NEW v \in Workers, NEW w \in Workers, Working(v), v # w
  PROVE  ~Working(w)
BY DEF Fenced, Owner

LEMMA FencedSame ==
  ASSUME Fenced, UNCHANGED queue, NEW a \in Actors, Others(a), a \in Workers => (Working(a)' => Working(a))
  PROVE  Fenced'
<1>1. ASSUME NEW v \in Workers, Working(v)' PROVE Owner(v)'
  <2>1. Working(v)
    BY <1>1, OrderFacts DEF Others, Working
  <2> QED BY <2>1 DEF Fenced, Owner
<1> QED BY <1>1 DEF Fenced

LEMMA FencedStep ==
  ASSUME TypeInv, overtaken = 0 => Fenced, NEW a \in Actors, Steps(a), overtaken' = 0
  PROVE  Fenced'
<1>1. Fenced /\ Others(a)
  BY StepForward DEF Forward
<1>2. CASE a \in Users /\ User(a)
  <2>1. CASE UNCHANGED queue
    <3>1. a \notin Workers
      BY <1>2, OrderFacts
    <3> QED BY <1>1, <2>1, <3>1, FencedSame
  <2>2. CASE Insert(a)
    <3>1. queue.status = "NONE" \/ UNCHANGED queue
      BY <2>2, InsertEffect
    <3>2. CASE queue.status = "NONE"
      <4>1. \A v \in Workers : ~Working(v)
        BY <1>1, <3>2 DEF Fenced, Owner
      <4>2. \A v \in Workers : ~Working(v)'
        BY <1>1, <1>2, <4>1, OrderFacts DEF Others, Working
      <4> QED BY <4>2 DEF Fenced
    <3> QED BY <2>1, <3>1, <3>2
  <2> QED BY <1>2, <2>1, <2>2, UserForward
<1>3. CASE a \in Workers /\ Worker(a)
  <2>1. CASE Capturing(a) \/ Plain(a)
    <3>1. UNCHANGED queue /\ Working(a)
      BY <1>3, <2>1, CapturingForward, PlainForward
    <3> QED BY <1>1, <3>1, FencedSame
  <2>2. CASE Claim(a)
    <3>1. /\ queue.status \in {"PENDING", "RUNNING"} /\ queue'.status = "RUNNING" /\ queue'.holder = a
          /\ queue.status = "RUNNING" => ~Working(queue.holder)
      BY <1>3, <2>2, ClaimEffect
    <3>2. \A v \in Workers : ~Working(v)
      BY <1>1, <3>1 DEF Fenced, Owner
    <3>3. \A v \in Workers \ {a} : ~Working(v)'
      BY <1>1, <3>2, OrderFacts DEF Others, Working
    <3> QED BY <3>1, <3>3 DEF Fenced, Owner
  <2>3. CASE Complete(a)
    <3>1. pc[a] = "complete" /\ pc'[a] \in {"idle", "find"}
      BY <1>3, <2>3, CompleteEffect, WentOthers
    <3>2. Working(a)
      BY <3>1 DEF Working
    <3>3. \A v \in Workers \ {a} : ~Working(v)
      BY <1>1, <1>3, <3>2, FencedAlone
    <3>4. \A v \in Workers \ {a} : ~Working(v)'
      BY <1>1, <3>3, OrderFacts DEF Others, Working
    <3>5. ~Working(a)'
      BY <3>1 DEF Working
    <3> QED BY <3>4, <3>5 DEF Fenced
  <2>4. CASE Find(a)
    <3>1. UNCHANGED queue /\ pc'[a] \in {"idle", "insert"}
      BY <1>3, <2>4, FindEffect, WentOthers DEF tables
    <3>2. ~Working(a)'
      BY <3>1 DEF Working
    <3> QED BY <1>1, <3>1, <3>2, FencedSame
  <2>5. CASE Insert(a)
    <3>1. pc'[a] = "idle" /\ (queue.status = "NONE" \/ UNCHANGED queue)
      BY <1>3, <2>5, InsertEffect, WentOthers
    <3>2. ~Working(a)'
      BY <3>1 DEF Working
    <3>3. CASE UNCHANGED queue
      BY <1>1, <3>2, <3>3, FencedSame
    <3>4. CASE queue.status = "NONE"
      <4>1. \A v \in Workers : ~Working(v)
        BY <1>1, <3>4 DEF Fenced, Owner
      <4>2. \A v \in Workers : ~Working(v)'
        BY <1>1, <3>2, <4>1, OrderFacts DEF Others, Working
      <4> QED BY <4>2 DEF Fenced
    <3> QED BY <3>1, <3>3, <3>4
  <2> QED BY <1>3, <2>1, <2>2, <2>3, <2>4, <2>5, WorkerKinds
<1>4. CASE Crash(a)
  <2>1. UNCHANGED queue /\ pc'[a] = "idle"
    BY <1>4, CrashForward DEF tables
  <2>2. ~Working(a)'
    BY <2>1 DEF Working
  <2> QED BY <1>1, <2>1, <2>2, FencedSame
<1> QED BY <1>2, <1>3, <1>4 DEF Steps

LEMMA FencedHolds == Spec => [](TypeInv /\ (overtaken = 0 => Fenced))
<1> DEFINE Inv == TypeInv /\ (overtaken = 0 => Fenced)
<1>1. Init => Inv
  <2>1. Init => Fenced
    BY OrderFacts DEF Init, Fenced, Working
  <2> QED BY <2>1, InitTyped
<1>2. Inv /\ [Next]_vars => Inv'
  <2> SUFFICES ASSUME Inv, [Next]_vars PROVE Inv'
    OBVIOUS
  <2>1. TypeInv'
    BY TypeKept
  <2>2. CASE Next
    <3>1. PICK a \in Actors : Steps(a)
      BY <2>2, NextSteps
    <3> QED BY <2>1, <3>1, FencedStep
  <2>3. CASE UNCHANGED vars
    BY <2>1, <2>3 DEF vars, tables, bounds, Fenced, Working, Owner
  <2> QED BY <2>2, <2>3
<1> QED BY <1>1, <1>2, PTL DEF Spec

-----------------------------------------------------------------------------
(* The bytes of a set of attachables.                                      *)
Octets(S) == UNION {{i} \X (1 .. Size[i]) : i \in S}

LEMMA OctetsOfOne ==
  ASSUME NEW i \in Items
  PROVE  /\ IsFiniteSet({i} \X (1 .. Size[i])) /\ Cardinality({i} \X (1 .. Size[i])) = Size[i]
         /\ Size[i] \in Nat
<1>1. Size[i] \in Nat
  BY OrderAssumption
<1>2. 1 \in Int /\ Size[i] \in Int
  BY <1>1
<1>3. IsFiniteSet(1 .. Size[i]) /\ Cardinality(1 .. Size[i]) = IF 1 > Size[i] THEN 0 ELSE Size[i] - 1 + 1
  BY <1>2, FS_Interval
<1>4. Cardinality(1 .. Size[i]) = Size[i]
  BY <1>1, <1>3
<1>5. IsFiniteSet({i}) /\ Cardinality({i}) = 1
  BY FS_Singleton
<1>6. /\ IsFiniteSet({i} \X (1 .. Size[i]))
      /\ Cardinality({i} \X (1 .. Size[i])) = Cardinality({i}) * Cardinality(1 .. Size[i])
  BY <1>3, <1>5, FS_Product
<1>7. 1 * Size[i] = Size[i]
  BY <1>1
<1> QED BY <1>1, <1>4, <1>5, <1>6, <1>7

LEMMA OctetsFinite ==
  ASSUME NEW S \in SUBSET Items
  PROVE  IsFiniteSet(Octets(S)) /\ Bytes(S) = Cardinality(Octets(S)) /\ Bytes(S) \in Nat
<1> DEFINE T == {{i} \X (1 .. Size[i]) : i \in S}
           f == [i \in S |-> {i} \X (1 .. Size[i])]
<1>1. IsFiniteSet(S)
  BY BoundAssumption, FS_Subset
<1>2. f \in Surjection(S, T)
  BY DEF Surjection
<1>3. IsFiniteSet(T)
  BY <1>1, <1>2, FS_Surjection
<1>4. ASSUME NEW U \in T PROVE IsFiniteSet(U)
  <2>1. PICK i \in S : U = {i} \X (1 .. Size[i])
    BY <1>4
  <2> QED BY <2>1, OctetsOfOne
<1>5. IsFiniteSet(UNION T)
  BY <1>3, <1>4, FS_UNION
<1> QED BY <1>5, FS_CardinalityType DEF Octets, Bytes

LEMMA BytesFacts ==
  /\ Bytes({}) = 0
  /\ \A S, T \in SUBSET Items : S \subseteq T => Bytes(S) <= Bytes(T)
  /\ \A S \in SUBSET Items : \A i \in Items : Bytes(S \cup {i}) <= Bytes(S) + Size[i]
<1>1. Bytes({}) = 0
  <2>1. Octets({}) = {}
    BY DEF Octets
  <2>2. {} \in SUBSET Items
    OBVIOUS
  <2> QED BY <2>1, <2>2, OctetsFinite, FS_EmptySet
<1>2. ASSUME NEW S \in SUBSET Items, NEW T \in SUBSET Items, S \subseteq T PROVE Bytes(S) <= Bytes(T)
  <2>1. Octets(S) \subseteq Octets(T)
    BY <1>2 DEF Octets
  <2>2. IsFiniteSet(Octets(T)) /\ Bytes(T) = Cardinality(Octets(T)) /\ Bytes(S) = Cardinality(Octets(S))
    BY OctetsFinite
  <2>3. Cardinality(Octets(S)) <= Cardinality(Octets(T))
    BY <2>1, <2>2, FS_Subset
  <2> QED BY <2>2, <2>3
<1>3. ASSUME NEW S \in SUBSET Items, NEW i \in Items PROVE Bytes(S \cup {i}) <= Bytes(S) + Size[i]
  <2> DEFINE O == {i} \X (1 .. Size[i])
  <2>1. Octets(S \cup {i}) = Octets(S) \cup O
    BY DEF Octets
  <2>2. IsFiniteSet(O) /\ Cardinality(O) = Size[i] /\ Size[i] \in Nat
    BY OctetsOfOne
  <2> HIDE DEF O
  <2>3. IsFiniteSet(Octets(S)) /\ Bytes(S) = Cardinality(Octets(S)) /\ Bytes(S) \in Nat
    BY OctetsFinite
  <2>4. Cardinality(Octets(S) \cup O) = Cardinality(Octets(S)) + Cardinality(O) - Cardinality(Octets(S) \cap O)
    BY <2>2, <2>3, FS_Union
  <2>5. Cardinality(Octets(S) \cap O) \in Nat
    BY <2>3, FS_Intersection, FS_CardinalityType
  <2>6. S \cup {i} \in SUBSET Items
    OBVIOUS
  <2>7. Bytes(S \cup {i}) = Cardinality(Octets(S \cup {i}))
    BY <2>6, OctetsFinite
  <2>8. Bytes(S \cup {i}) = Bytes(S) + Size[i] - Cardinality(Octets(S) \cap O)
    BY <2>1, <2>2, <2>3, <2>4, <2>7
  <2>9. ASSUME NEW x \in Nat, NEW y \in Nat, NEW z \in Nat PROVE x + y - z <= x + y
    OBVIOUS
  <2> QED BY <2>2, <2>3, <2>5, <2>8, <2>9
<1> QED BY <1>1, <1>2, <1>3

LEMMA CapturedSet ==
  ASSUME NEW e \in [Items -> Outcomes]
  PROVE  /\ Captured(e) \in SUBSET Items
         /\ \A i \in Items : \A o \in Outcomes :
              LET f == [e EXCEPT ![i] = o] IN
              /\ o = "captured" => Captured(f) = Captured(e) \cup {i}
              /\ o # "captured" => Captured(f) \subseteq Captured(e)
<1>1. ASSUME NEW i \in Items, NEW o \in Outcomes, o = "captured"
      PROVE  Captured([e EXCEPT ![i] = o]) = Captured(e) \cup {i}
  BY <1>1 DEF Captured
<1>2. ASSUME NEW i \in Items, NEW o \in Outcomes, o # "captured"
      PROVE  Captured([e EXCEPT ![i] = o]) \subseteq Captured(e)
  BY <1>2 DEF Captured
<1> QED BY <1>1, <1>2 DEF Captured

-----------------------------------------------------------------------------
(* The ledger, the budget and Storage.                                     *)
Budgeted(l, m) ==
  /\ l \in {"item", "record"} => m.res = Att
  /\ l \in {"item", "record"} \/ (l \in {"page", "save"} /\ m.res = Att) => snap.budget # None
  /\ l = "record" => Min(m.items) \in objects
Spends(l, m) ==
  m.res = Att =>
  /\ l \in {"page", "item", "record", "save"} => m.ledger = ledger /\ m.budget = snap.budget
  /\ l = "setBudget" => m.ledger = ledger /\ snap.budget = None
  /\ l \in {"item", "record"} => \A i \in m.items : ledger[i] \notin Final
  /\ l = "record" => Bytes(Captured(m.ledger)) + Size[Min(m.items)] <= m.budget
StoredInv ==
  /\ Captured(ledger) \subseteq objects
  /\ snap.budget = None => Captured(ledger) = {}
  /\ \A w \in Workers : Budgeted(pc[w], my[w])
SpentInv ==
  /\ snap.budget # None => Bytes(Captured(ledger)) <= snap.budget
  /\ \A w \in Workers : Spends(pc[w], my[w])
SpendInv == StoredInv /\ (overtaken = 0 => Fenced /\ SpentInv)

LEMMA SpendRest ==
  ASSUME TypeInv, SpendInv, NEW a \in Actors, Steps(a),
         UNCHANGED <<ledger, objects>>, snap'.budget = snap.budget,
         a \in Workers => Budgeted(pc[a], my[a])',
         a \in Workers /\ overtaken' = 0 => Spends(pc[a], my[a])'
  PROVE  SpendInv'
<1>1. Others(a) /\ Forward
  BY StepForward
<1>2. ASSUME NEW v \in Workers PROVE Budgeted(pc[v], my[v])'
  <2>1. CASE v # a
    BY <1>1, <2>1, OrderFacts DEF Others, SpendInv, StoredInv, Budgeted
  <2> QED BY <2>1
<1>3. StoredInv'
  <2>1. Captured(ledger)' = Captured(ledger)
    BY DEF Captured
  <2> QED BY <1>2, <2>1 DEF SpendInv, StoredInv
<1>4. ASSUME overtaken' = 0, NEW v \in Workers PROVE Spends(pc[v], my[v])'
  <2>1. overtaken = 0
    BY <1>1, <1>4 DEF Forward
  <2>2. CASE v # a
    BY <1>1, <2>1, <2>2, OrderFacts DEF Others, SpendInv, SpentInv, Spends
  <2> QED BY <1>4, <2>2
<1>5. ASSUME overtaken' = 0 PROVE SpentInv' /\ Fenced'
  <2>1. overtaken = 0
    BY <1>1, <1>5 DEF Forward
  <2>2. Fenced'
    BY <1>5, FencedStep DEF SpendInv
  <2>3. Captured(ledger)' = Captured(ledger)
    BY DEF Captured
  <2> QED BY <1>4, <1>5, <2>1, <2>2, <2>3 DEF SpendInv, SpentInv
<1> QED BY <1>3, <1>5 DEF SpendInv

LEMMA QuietSpends ==
  ASSUME NEW w, Quiet(w)
  PROVE  Budgeted(pc[w], my[w])' /\ Spends(pc[w], my[w])'
BY DEF Quiet, Budgeted, Spends

(* No other worker holds anything while one is at work.                    *)
LEMMA OthersRest ==
  ASSUME TypeInv, Fenced, NEW w \in Workers, Working(w), Others(w), NEW v \in Workers, v # w
  PROVE  pc'[v] \in {"idle", "find", "insert"}
BY FencedAlone, OrderFacts DEF Working, Others

LEMMA CapturingSteps ==
  ASSUME NEW w \in Workers, Capturing(w)
  PROVE  Steps(w)
BY DEF Capturing, Steps, Worker, Extract

LEMMA ReadBudgetSpends ==
  ASSUME TypeInv, SpendInv, NEW w \in Workers, ReadBudget(w)
  PROVE  SpendInv'
<1>1. UNCHANGED <<tables, bounds>> /\ Steps(w)
  BY ReadBudgetEffect, CapturingSteps DEF Capturing
<1>2. PICK m \in Holdings : /\ m.res = my[w].res
                            /\ \/ /\ snap.budget # None /\ m.budget = snap.budget /\ m.ledger = ledger
                                  /\ Went(w, "page", m)
                               \/ Went(w, "giveUp", m)
                               \/ snap.budget = None /\ m.ledger = ledger /\ Went(w, "setBudget", m)
  BY ReadBudgetEffect
<1>3. UNCHANGED <<ledger, objects>> /\ snap' = snap
  BY <1>1 DEF tables, store
<1>4. my'[w] = m /\ pc'[w] \in {"page", "giveUp", "setBudget"}
      /\ (pc'[w] = "page" => snap.budget # None /\ m.budget = snap.budget /\ m.ledger = ledger)
      /\ (pc'[w] = "setBudget" => snap.budget = None /\ m.ledger = ledger)
  BY <1>2, WentOthers
<1>5. Budgeted(pc[w], my[w])' /\ Spends(pc[w], my[w])'
  BY <1>3, <1>4 DEF Budgeted, Spends
<1> QED BY <1>1, <1>3, <1>5, SpendRest, OrderFacts

LEMMA SavePageSpends ==
  ASSUME TypeInv, SpendInv, NEW w \in Workers, SavePage(w)
  PROVE  SpendInv'
<1>1. UNCHANGED <<snap, objects, ledger>> /\ Steps(w) /\ pc[w] = "save"
  BY SavePageEffect, CapturingSteps DEF Capturing
<1>2. PICK m \in Holdings : /\ m.res = my[w].res /\ m.ledger = my[w].ledger /\ m.budget = my[w].budget
                            /\ Went(w, "page", m) \/ Went(w, "finish", m) \/ Went(w, "window", m)
  BY SavePageEffect
<1>3. my'[w] = m /\ pc'[w] \in {"page", "finish", "window"}
  BY <1>2, WentOthers
<1>4. Forward
  BY <1>1, StepForward, OrderFacts
<1>5. overtaken' = 0 => Spends(pc[w], my[w])'
  <2>1. overtaken' = 0 => Spends("save", my[w])
    BY <1>1, <1>4 DEF Forward, SpendInv, SpentInv
  <2> QED BY <1>1, <1>2, <1>3, <2>1 DEF Spends
<1>6. Budgeted(pc[w], my[w])'
  <2>1. Budgeted("save", my[w])
    BY <1>1 DEF SpendInv, StoredInv
  <2> QED BY <1>1, <1>2, <1>3, <2>1 DEF Budgeted
<1> QED BY <1>1, <1>5, <1>6, SpendRest, OrderFacts

LEMMA WritePageSpends ==
  ASSUME TypeInv, SpendInv, NEW w \in Workers, WritePage(w)
  PROVE  SpendInv'
<1>1. UNCHANGED <<snap, objects, ledger>> /\ Steps(w) /\ pc[w] = "page"
  BY WritePageEffect, CapturingSteps DEF Capturing
<1>2. PICK m \in Holdings : /\ m.res = my[w].res /\ m.ledger = my[w].ledger /\ m.budget = my[w].budget
                            /\ \A i \in m.items : my[w].ledger[i] \notin Final
                            /\ \/ Went(w, "save", m)
                               \/ my[w].res = Att /\ Went(w, "item", m)
  BY WritePageEffect
<1>3. my'[w] = m /\ pc'[w] \in {"save", "item"} /\ (pc'[w] = "item" => my[w].res = Att)
  BY <1>2, WentOthers
<1>4. Forward
  BY <1>1, StepForward, OrderFacts
<1>5. overtaken' = 0 => Spends(pc[w], my[w])'
  <2>1. overtaken' = 0 => Spends("page", my[w])
    BY <1>1, <1>4 DEF Forward, SpendInv, SpentInv
  <2> QED BY <1>1, <1>2, <1>3, <2>1 DEF Spends
<1>6. Budgeted(pc[w], my[w])'
  <2>1. Budgeted("page", my[w])
    BY <1>1 DEF SpendInv, StoredInv
  <2> QED BY <1>1, <1>2, <1>3, <2>1 DEF Budgeted
<1> QED BY <1>1, <1>5, <1>6, SpendRest, OrderFacts

LEMMA StoreBinarySpends ==
  ASSUME TypeInv, SpendInv, NEW w \in Workers, NEW i \in Items, StoreBinary(w, i)
  PROVE  SpendInv'
<1>1. /\ UNCHANGED <<snap, ledger, queue, bounds>> /\ pc[w] = "item" /\ i = Min(my[w].items) /\ Fits(w, i)
      /\ objects' = objects \cup {i} /\ pc'[w] = "record" /\ my'[w] = my[w] /\ Others(w)
  BY StoreBinaryEffect, WentOthers
<1>2. Capturing(w)
  BY DEF Capturing
<1>3. Steps(w) /\ w \in Actors
  BY <1>2, CapturingSteps, OrderFacts
<1>4. Budgeted("item", my[w])
  BY <1>1 DEF SpendInv, StoredInv
<1>5. ASSUME NEW v \in Workers PROVE Budgeted(pc[v], my[v])'
  <2>1. CASE v = w
    BY <1>1, <1>4, <2>1 DEF Budgeted
  <2>2. CASE v # w
    BY <1>1, <2>2, OrderFacts DEF Others, SpendInv, StoredInv, Budgeted
  <2> QED BY <2>1, <2>2
<1>6. StoredInv'
  <2>1. Captured(ledger)' = Captured(ledger)
    BY <1>1 DEF Captured
  <2> QED BY <1>1, <1>5, <2>1 DEF SpendInv, StoredInv
<1>7. ASSUME overtaken' = 0 PROVE Fenced' /\ SpentInv'
  <2>1. overtaken = 0 /\ Fenced'
    BY <1>1, <1>3, <1>7, FencedStep DEF SpendInv, bounds
  <2>2. SpentInv /\ Spends("item", my[w])
    BY <1>1, <2>1 DEF SpendInv, SpentInv
  <2>3. ASSUME NEW v \in Workers PROVE Spends(pc[v], my[v])'
    <3>1. CASE v = w
      BY <1>1, <2>2, <3>1 DEF Spends, Fits
    <3>2. CASE v # w
      BY <1>1, <2>2, <3>2, OrderFacts DEF Others, SpentInv, Spends
    <3> QED BY <3>1, <3>2
  <2>4. Captured(ledger)' = Captured(ledger)
    BY <1>1 DEF Captured
  <2> QED BY <1>1, <2>1, <2>2, <2>3, <2>4 DEF SpentInv
<1> QED BY <1>6, <1>7 DEF SpendInv

LEMMA SetBudgetSpends ==
  ASSUME TypeInv, SpendInv, NEW w \in Workers, SetBudget(w)
  PROVE  SpendInv'
<1>1. /\ UNCHANGED <<objects, ledger, bounds>> /\ pc[w] = "setBudget" /\ Others(w) /\ Working(w)
      /\ pc'[w] = "page" /\ my'[w] = my[w]
      /\ snap.budget # None => snap'.budget = snap.budget
      /\ snap.budget = None => snap'.budget = my[w].budget
  BY SetBudgetEffect, WentOthers DEF store, Working
<1>2. Steps(w) /\ w \in Actors /\ my[w].budget \in Nat /\ ledger \in [Items -> Outcomes]
  BY CapturingSteps, OrderFacts, Held DEF Capturing, TypeInv, TypeOK
<1>3. snap'.budget # None
  BY <1>1, <1>2, OrderFacts
<1>4. ASSUME NEW v \in Workers PROVE Budgeted(pc[v], my[v])'
  <2>1. CASE v = w
    BY <1>1, <1>3, <2>1 DEF Budgeted
  <2>2. CASE v # w
    BY <1>1, <1>3, <2>2, OrderFacts DEF Others, SpendInv, StoredInv, Budgeted
  <2> QED BY <2>1, <2>2
<1>5. Captured(ledger)' = Captured(ledger)
  BY <1>1 DEF Captured
<1>6. StoredInv'
  BY <1>1, <1>3, <1>4, <1>5 DEF SpendInv, StoredInv
<1>7. ASSUME overtaken' = 0 PROVE Fenced' /\ SpentInv'
  <2>1. overtaken = 0 /\ Fenced'
    BY <1>1, <1>2, <1>7, FencedStep DEF SpendInv, bounds
  <2>2. SpentInv /\ Spends("setBudget", my[w]) /\ Fenced
    BY <1>1, <2>1 DEF SpendInv, SpentInv
  <2>3. ASSUME NEW v \in Workers PROVE Spends(pc[v], my[v])'
    <3>1. CASE v = w
      BY <1>1, <2>2, <3>1 DEF Spends
    <3>2. CASE v # w
      BY <1>1, <2>2, <3>2, OthersRest DEF Spends
    <3> QED BY <3>1, <3>2
  <2>4. Bytes(Captured(ledger)) <= snap'.budget
    <3>1. CASE snap.budget # None
      BY <1>1, <2>2, <3>1 DEF SpentInv
    <3>2. CASE snap.budget = None
      <4>1. Captured(ledger) = {}
        BY <3>2 DEF SpendInv, StoredInv
      <4> QED BY <1>1, <1>2, <3>2, <4>1, BytesFacts
    <3> QED BY <3>1, <3>2
  <2> QED BY <1>5, <2>1, <2>3, <2>4 DEF SpentInv
<1> QED BY <1>6, <1>7 DEF SpendInv

LEMMA EnterSpends ==
  ASSUME TypeInv, SpendInv, NEW w \in Workers, NEW i \in Items,
         RecordCaptured(w, i) \/ SkipBinary(w, i) \/ MissBinary(w, i)
  PROVE  SpendInv'
<1>1. /\ pc[w] \in {"item", "record"} /\ i \in my[w].items /\ i = Min(my[w].items)
      /\ UNCHANGED <<snap, objects, queue, overtaken>>
  BY EnteredTyped
<1>2. PICK o \in Outcomes \ {"none"} : (o = "captured" <=> pc[w] = "record") /\ Entered(w, i, o)
  BY EnteredTyped
<1>11. ledger' = [ledger EXCEPT ![i] = o]
  BY <1>2 DEF Entered
<1>3. PICK m \in Holdings : /\ m.ledger = [my[w].ledger EXCEPT ![i] = o] /\ m.items = my[w].items \ {i}
                            /\ m.res = my[w].res /\ m.rows = my[w].rows /\ m.cp = my[w].cp
                            /\ m.budget = my[w].budget /\ SameEnd(m, my[w])
                            /\ Went(w, "save", m) \/ Went(w, "item", m)
  BY <1>2 DEF Entered
<1>4. my'[w] = m /\ pc'[w] \in {"save", "item"} /\ Others(w)
  BY <1>3, WentOthers
<1>5. Steps(w) /\ w \in Actors /\ ledger \in [Items -> Outcomes] /\ Working(w)
  BY <1>1, CapturingSteps, OrderFacts DEF Capturing, TypeInv, TypeOK, Working
<1>6. Budgeted("item", my[w]) /\ (pc[w] = "record" => i \in objects) /\ snap.budget # None
  BY <1>1 DEF SpendInv, StoredInv, Budgeted
<1>7. Captured(ledger) \in SUBSET Items
      /\ (o = "captured" => Captured(ledger)' = Captured(ledger) \cup {i})
      /\ (o # "captured" => Captured(ledger)' \subseteq Captured(ledger))
  <2>1. o \in Outcomes
    BY <1>2
  <2> QED BY <1>5, <1>11, <2>1, CapturedSet
<1>8. ASSUME NEW v \in Workers PROVE Budgeted(pc[v], my[v])'
  <2>1. CASE v = w
    BY <1>1, <1>3, <1>4, <1>6, <2>1 DEF Budgeted
  <2>2. CASE v # w
    BY <1>1, <1>4, <2>2, OrderFacts DEF Others, SpendInv, StoredInv, Budgeted
  <2> QED BY <2>1, <2>2
<1>9. StoredInv'
  <2>1. Captured(ledger)' \subseteq objects
    BY <1>2, <1>6, <1>7 DEF SpendInv, StoredInv
  <2> QED BY <1>1, <1>6, <1>8, <2>1 DEF StoredInv
<1>10. ASSUME overtaken' = 0 PROVE Fenced' /\ SpentInv'
  <2>1. overtaken = 0 /\ Fenced'
    BY <1>1, <1>5, <1>10, FencedStep DEF SpendInv
  <2>2. SpentInv /\ Spends(pc[w], my[w]) /\ Fenced /\ my[w].res = Att
    BY <1>1, <1>6, <2>1 DEF SpendInv, SpentInv, Budgeted
  <2>3. my[w].ledger = ledger /\ my[w].budget = snap.budget /\ (\A j \in my[w].items : ledger[j] \notin Final)
        /\ (pc[w] = "record" => Bytes(Captured(ledger)) + Size[i] <= snap.budget)
    BY <1>1, <2>2 DEF Spends
  <2>4. m.items \in SUBSET Items
    BY <1>3 DEF Holdings
  <2>5. \A j \in m.items : ledger'[j] \notin Final
    BY <1>11, <1>3, <1>5, <2>3, <2>4
  <2>6. m.ledger = ledger' /\ m.budget = snap'.budget
    BY <1>1, <1>11, <1>3, <2>3
  <2>7. ASSUME NEW v \in Workers PROVE Spends(pc[v], my[v])'
    <3>1. CASE v = w
      BY <1>4, <2>5, <2>6, <3>1 DEF Spends
    <3>2. CASE v # w
      BY <1>4, <1>5, <2>2, <3>2, OthersRest DEF Spends
    <3> QED BY <3>1, <3>2
  <2>8. Bytes(Captured(ledger)') <= snap.budget
    <3> DEFINE C == Captured(ledger)
               D == Captured(ledger)'
    <3>1. C \in SUBSET Items /\ Bytes(C) \in Nat /\ snap.budget \in Nat /\ Size[i] \in Nat /\ Bytes(C) <= snap.budget
      BY <1>6, <1>7, <2>2, OctetsFinite, OctetsOfOne DEF TypeInv, TypeOK, SpentInv
    <3>2. D \in SUBSET Items
      BY <1>7
    <3>3. Bytes(D) \in Nat
      BY <3>2, OctetsFinite
    <3>6. ASSUME NEW x \in Nat, NEW y \in Nat, NEW z \in Nat, x <= y, y <= z PROVE x <= z
      BY <3>6
    <3>4. CASE o = "captured"
      <4>1. D = C \cup {i} /\ Bytes(C) + Size[i] <= snap.budget
        BY <1>2, <1>7, <2>3, <3>4
      <4>2. Bytes(C \cup {i}) <= Bytes(C) + Size[i]
        BY <3>1, BytesFacts
      <4>3. Bytes(D) <= Bytes(C) + Size[i]
        BY <4>1, <4>2
      <4>4. Bytes(C) + Size[i] \in Nat
        BY <3>1
      <4> QED BY <3>1, <3>3, <3>6, <4>1, <4>3, <4>4
    <3>5. CASE o # "captured"
      <4>1. Bytes(D) <= Bytes(C)
        BY <1>7, <3>1, <3>2, <3>5, BytesFacts
      <4> QED BY <3>1, <3>3, <3>6, <4>1
    <3> QED BY <3>4, <3>5
  <2>9. Bytes(Captured(ledger))' = Bytes(Captured(ledger)')
    BY DEF Bytes
  <2> QED BY <1>1, <2>1, <2>7, <2>8, <2>9 DEF SpentInv
<1> QED BY <1>9, <1>10 DEF SpendInv

LEMMA SpendStep ==
  ASSUME TypeInv, SpendInv, NEW a \in Actors, Steps(a)
  PROVE  SpendInv'
<1>1. CASE a \in Users /\ User(a)
  <2>1. UNCHANGED <<objects, ledger>> /\ snap'.budget = snap.budget /\ a \notin Workers
    BY <1>1, UserForward, OrderFacts
  <2> QED BY <2>1, SpendRest
<1>2. CASE a \in Workers /\ (Plain(a) \/ Claim(a) \/ Complete(a) \/ Find(a) \/ Insert(a))
  <2>1. Quiet(a)
    BY <1>2, PlainForward, QueueForward
  <2>2. Budgeted(pc[a], my[a])' /\ Spends(pc[a], my[a])'
    BY <2>1, QuietSpends
  <2> QED BY <2>1, <2>2, SpendRest DEF Quiet
<1>3. CASE a \in Workers /\ Capturing(a)
  BY <1>3, ReadBudgetSpends, SetBudgetSpends, WritePageSpends, SavePageSpends, StoreBinarySpends, EnterSpends
     DEF Capturing
<1>4. CASE Crash(a)
  <2>1. UNCHANGED <<objects, ledger>> /\ snap'.budget = snap.budget /\ pc'[a] = "idle"
    BY <1>4, CrashForward DEF tables, store
  <2>2. Budgeted(pc[a], my[a])' /\ Spends(pc[a], my[a])'
    BY <2>1 DEF Budgeted, Spends
  <2> QED BY <2>1, <2>2, SpendRest
<1> QED BY <1>1, <1>2, <1>3, <1>4, WorkerKinds DEF Steps

LEMMA SpendHolds == Spec => [](TypeInv /\ SpendInv)
<1> DEFINE Inv == TypeInv /\ SpendInv
<1>1. Init => Inv
  <2> SUFFICES ASSUME Init PROVE Inv
    OBVIOUS
  <2>1. \A w \in Workers : pc[w] = "idle"
    BY OrderFacts DEF Init
  <2>2. Captured(ledger) = {} /\ snap.budget = None
    BY DEF Init, Captured, NoLedger
  <2>3. StoredInv
    BY <2>1, <2>2 DEF StoredInv, Budgeted
  <2>4. Fenced /\ SpentInv
    BY <2>1, <2>2 DEF Fenced, Working, SpentInv, Spends
  <2> QED BY <2>3, <2>4, InitTyped DEF SpendInv
<1>2. Inv /\ [Next]_vars => Inv'
  <2> SUFFICES ASSUME Inv, [Next]_vars PROVE Inv'
    OBVIOUS
  <2>1. TypeInv'
    BY TypeKept
  <2>2. CASE Next
    <3>1. PICK a \in Actors : Steps(a)
      BY <2>2, NextSteps
    <3> QED BY <2>1, <3>1, SpendStep
  <2>3. CASE UNCHANGED vars
    <3>1. UNCHANGED <<snap, objects, ledger, queue, pc, my, overtaken>>
      BY <2>3 DEF vars, tables, store, bounds
    <3>2. Captured(ledger)' = Captured(ledger)
      BY <3>1 DEF Captured
    <3>3. StoredInv'
      BY <3>1, <3>2 DEF SpendInv, StoredInv, Budgeted
    <3>4. overtaken = 0 => Fenced' /\ SpentInv'
      BY <3>1, <3>2 DEF SpendInv, SpentInv, Spends, Fenced, Working, Owner
    <3> QED BY <2>1, <3>1, <3>3, <3>4 DEF SpendInv
  <2> QED BY <2>2, <2>3
<1> QED BY <1>1, <1>2, PTL DEF Spec

(* While no worker was overtaken, what the ledger says is captured is in   *)
(* Storage and fits the budget measured once, over all steps, replays and  *)
(* retries.                                                                *)
THEOREM CaptureIsAccounted == Spec => [](overtaken = 0 => CapturedIsAccounted)
<1>1. TypeInv /\ SpendInv => (overtaken = 0 => CapturedIsAccounted)
  BY DEF SpendInv, StoredInv, SpentInv, CapturedIsAccounted
<1> QED BY <1>1, SpendHolds, PTL

(* Even when one was: the binary is stored before its entry, and nothing   *)
(* is captured before the budget is measured.                              *)
THEOREM CaptureIsStored ==
  Spec => [](Captured(ledger) \subseteq objects /\ (snap.budget = None => Captured(ledger) = {}))
<1>1. SpendInv => Captured(ledger) \subseteq objects /\ (snap.budget = None => Captured(ledger) = {})
  BY DEF SpendInv, StoredInv
<1> QED BY <1>1, SpendHolds, PTL

-----------------------------------------------------------------------------
(* The records of a resource and the pages they come in.                   *)
LEMMA RecordFacts ==
  ASSUME NEW r \in Resources
  PROVE  \A x : x \in Records(r) <=> /\ x \in Nat \X Nat /\ x[1] \in DOMAIN Windows[r]
                                     /\ x[2] \in 1 .. Windows[r][x[1]]
<1>1. \A k \in DOMAIN Windows[r] : k \in Nat
  BY WindowFacts
<1>2. ASSUME NEW x, x \in Records(r)
      PROVE  x \in Nat \X Nat /\ x[1] \in DOMAIN Windows[r] /\ x[2] \in 1 .. Windows[r][x[1]]
  <2>1. PICK k \in DOMAIN Windows[r] : x \in {k} \X (1 .. Windows[r][k])
    BY <1>2 DEF Records
  <2>2. x[1] = k /\ x[2] \in 1 .. Windows[r][k] /\ x = <<x[1], x[2]>>
    BY <2>1
  <2>3. x[2] \in Nat /\ x[1] \in Nat
    BY <1>1, <2>2
  <2> QED BY <2>2, <2>3
<1>3. ASSUME NEW x, x \in Nat \X Nat, x[1] \in DOMAIN Windows[r], x[2] \in 1 .. Windows[r][x[1]]
      PROVE  x \in Records(r)
  <2>1. x = <<x[1], x[2]>>
    BY <1>3
  <2>2. x \in {x[1]} \X (1 .. Windows[r][x[1]])
    BY <1>3, <2>1
  <2> QED BY <1>3, <2>2 DEF Records
<1> QED BY <1>2, <1>3

(* The records before the place of a checkpoint.                           *)
Upto(r, c) == {x \in Records(r) : x[1] < c.win \/ (x[1] = c.win /\ x[2] < c.next)}
SamePlace(c, d) == c.win = d.win /\ c.next = d.next /\ c.pages = d.pages

LEMMA SamePage ==
  ASSUME NEW r, NEW c, NEW d, SamePlace(c, d)
  PROVE  PageAt(r, c) = PageAt(r, d) /\ Upto(r, c) = Upto(r, d)
BY DEF SamePlace, PageAt, Upto

LEMMA PlaceNumbers ==
  ASSUME NEW r \in Resources, NEW c \in Checkpoints, c.next # 0, c.win \in DOMAIN Windows[r]
  PROVE  /\ c.win \in Nat /\ c.next \in Nat /\ c.next >= 1 /\ PageSize \in Nat /\ PageSize >= 1
         /\ Windows[r][c.win] \in Nat
         /\ \A x \in PageAt(r, c) : /\ x \in Nat \X Nat /\ x[1] = c.win
                                    /\ c.next <= x[2] /\ x[2] <= c.next + PageSize - 1
                                    /\ x[2] <= Windows[r][c.win]
         /\ \A n \in Nat : /\ c.next <= n /\ n <= c.next + PageSize - 1 /\ n <= Windows[r][c.win]
                           => <<c.win, n>> \in PageAt(r, c)
<1>1. /\ c.win \in Nat /\ c.next \in Nat /\ c.next >= 1 /\ PageSize \in Nat /\ PageSize >= 1
      /\ Windows[r][c.win] \in Nat
  BY BoundAssumption, WindowFacts DEF Checkpoints
<1>2. PageAt(r, c) = {c.win} \X {n \in c.next .. c.next + PageSize - 1 : n <= Windows[r][c.win]}
  BY DEF PageAt
<1>3. \A n \in Nat : /\ c.next <= n /\ n <= c.next + PageSize - 1 /\ n <= Windows[r][c.win]
                     => <<c.win, n>> \in PageAt(r, c)
  BY <1>1, <1>2
<1>4. ASSUME NEW x \in PageAt(r, c)
      PROVE  /\ x \in Nat \X Nat /\ x[1] = c.win
             /\ c.next <= x[2] /\ x[2] <= c.next + PageSize - 1 /\ x[2] <= Windows[r][c.win]
  <2>1. x[1] = c.win /\ x[2] \in c.next .. c.next + PageSize - 1 /\ x[2] <= Windows[r][c.win] /\ x = <<x[1], x[2]>>
    BY <1>2
  <2>2. x[2] \in Nat
    BY <1>1, <2>1
  <2> QED BY <1>1, <2>1, <2>2
<1> QED BY <1>1, <1>3, <1>4

(* An empty page is past the end of its window.                            *)
LEMMA EmptyPast ==
  ASSUME NEW r \in Resources, NEW c \in Checkpoints, c.next # 0, c.win \in DOMAIN Windows[r]
  PROVE  PageAt(r, c) = {} <=> c.next > Windows[r][c.win]
<1>1. /\ c.next \in Nat /\ PageSize \in Nat /\ PageSize >= 1 /\ Windows[r][c.win] \in Nat
      /\ \A x \in PageAt(r, c) : /\ x \in Nat \X Nat /\ c.next <= x[2] /\ x[2] <= Windows[r][c.win]
      /\ \A n \in Nat : /\ c.next <= n /\ n <= c.next + PageSize - 1 /\ n <= Windows[r][c.win]
                        => <<c.win, n>> \in PageAt(r, c)
  BY PlaceNumbers
<1>2. CASE c.next > Windows[r][c.win]
  <2>1. ASSUME NEW x \in PageAt(r, c) PROVE FALSE
    <3>1. x[2] \in Nat /\ c.next <= x[2] /\ x[2] <= Windows[r][c.win]
      BY <1>1
    <3> QED BY <1>1, <1>2, <3>1
  <2> QED BY <1>2, <2>1
<1>3. CASE ~(c.next > Windows[r][c.win])
  <2>1. c.next <= Windows[r][c.win] /\ c.next <= c.next + PageSize - 1 /\ c.next <= c.next
    BY <1>1, <1>3
  <2>2. <<c.win, c.next>> \in PageAt(r, c)
    BY <1>1, <2>1
  <2> QED BY <1>3, <2>2
<1> QED BY <1>2, <1>3

(* The last position of a page that has rows, and how many it has.         *)
LEMMA PageCount ==
  ASSUME NEW r \in Resources, NEW c \in Checkpoints, c.next # 0, PageAt(r, c) # {}
  PROVE  /\ c.win \in DOMAIN Windows[r]
         /\ \E h \in Nat : /\ h >= c.next /\ Cardinality(PageAt(r, c)) = h - c.next + 1
                           /\ h = Windows[r][c.win] \/ (h = c.next + PageSize - 1 /\ h < Windows[r][c.win])
                           /\ h <= c.next + PageSize - 1
                           /\ \A x : x \in PageAt(r, c) <=> /\ x \in Nat \X Nat /\ x[1] = c.win
                                                            /\ c.next <= x[2] /\ x[2] <= h
<1>1. c.win \in DOMAIN Windows[r]
  BY DEF PageAt
<1>2. /\ c.win \in Nat /\ c.next \in Nat /\ c.next >= 1 /\ PageSize \in Nat /\ PageSize >= 1
      /\ Windows[r][c.win] \in Nat
  BY <1>1, PlaceNumbers
<1>3. c.next <= Windows[r][c.win]
  BY <1>1, <1>2, EmptyPast
<1> DEFINE W == Windows[r][c.win]
           e == c.next + PageSize - 1
           h == IF W <= e THEN W ELSE e
<1>4. e \in Nat /\ e >= c.next /\ W \in Nat
  BY <1>2
<1>5. h \in Nat /\ h >= c.next /\ (h = W \/ (h = e /\ h < W)) /\ h <= e /\ h <= W
  BY <1>3, <1>4
<1>6. PageAt(r, c) = {c.win} \X {n \in c.next .. e : n <= W}
  BY <1>1 DEF PageAt
<1>7. {n \in c.next .. e : n <= W} = c.next .. h
  <2> HIDE DEF W, e
  <2>1. ASSUME NEW n \in Int PROVE (n \in c.next .. e /\ n <= W) <=> n \in c.next .. h
    BY <1>2, <1>4
  <2> QED BY <2>1
<1>8. PageAt(r, c) = {c.win} \X (c.next .. h)
  BY <1>6, <1>7
<1> HIDE DEF W, e, h
<1>9. c.next \in Int /\ h \in Int
  BY <1>2, <1>5
<1>10. IsFiniteSet(c.next .. h) /\ Cardinality(c.next .. h) = IF c.next > h THEN 0 ELSE h - c.next + 1
  BY <1>9, FS_Interval
<1>11. Cardinality(c.next .. h) = h - c.next + 1 /\ h - c.next + 1 \in Nat
  BY <1>2, <1>5, <1>10
<1>12. Cardinality(PageAt(r, c)) = Cardinality({c.win}) * Cardinality(c.next .. h)
  BY <1>8, <1>10, FS_Product, FS_Singleton
<1>13. Cardinality({c.win}) = 1
  BY FS_Singleton
<1>14. Cardinality(PageAt(r, c)) = h - c.next + 1
  BY <1>11, <1>12, <1>13
<1>15. \A x : x \in PageAt(r, c) <=> /\ x \in Nat \X Nat /\ x[1] = c.win
                                     /\ c.next <= x[2] /\ x[2] <= h
  <2>1. ASSUME NEW x \in PageAt(r, c) PROVE x \in Nat \X Nat /\ x[1] = c.win /\ c.next <= x[2] /\ x[2] <= h
    <3>1. x = <<x[1], x[2]>> /\ x[1] = c.win /\ x[2] \in c.next .. h
      BY <1>8
    <3>2. x[2] \in Nat /\ c.next <= x[2] /\ x[2] <= h
      BY <1>2, <1>5, <3>1
    <3> QED BY <1>2, <3>1, <3>2
  <2>2. ASSUME NEW x, x \in Nat \X Nat, x[1] = c.win, c.next <= x[2], x[2] <= h PROVE x \in PageAt(r, c)
    <3>1. x = <<x[1], x[2]>> /\ x[2] \in c.next .. h
      BY <1>2, <1>5, <2>2
    <3> QED BY <1>8, <2>2, <3>1
  <2> QED BY <2>1, <2>2
<1> QED BY <1>1, <1>5, <1>14, <1>15 DEF W, e

(* A page that was saved is among the records before the place, and none   *)
(* of it was there already.                                                *)
LEMMA UptoSaved ==
  ASSUME NEW r \in Resources, NEW c \in Checkpoints, c.next # 0, PageAt(r, c) # {},
         NEW d \in Checkpoints, d.win = c.win, d.next = c.next + Cardinality(PageAt(r, c))
  PROVE  /\ \A x : x \in Upto(r, d) <=> x \in Upto(r, c) \/ x \in PageAt(r, c)
         /\ \A x \in PageAt(r, c) : x \notin Upto(r, c) /\ x \in Records(r)
         /\ d.next # 0 /\ Cardinality(PageAt(r, c)) <= PageSize
         /\ Cardinality(PageAt(r, c)) # PageSize => PageAt(r, d) = {}
<1>1. c.win \in DOMAIN Windows[r]
  BY PageCount
<1> DEFINE W == Windows[r][c.win]
           n == Cardinality(PageAt(r, c))
<1>2. /\ c.win \in Nat /\ c.next \in Nat /\ c.next >= 1 /\ PageSize \in Nat /\ PageSize >= 1 /\ W \in Nat
  BY <1>1, PlaceNumbers
<1>3. PICK h \in Nat : /\ h >= c.next /\ n = h - c.next + 1
                       /\ h = W \/ (h = c.next + PageSize - 1 /\ h < W)
                       /\ h <= c.next + PageSize - 1
                       /\ \A x : x \in PageAt(r, c) <=> /\ x \in Nat \X Nat /\ x[1] = c.win
                                                        /\ c.next <= x[2] /\ x[2] <= h
  BY PageCount
<1> HIDE DEF n, W
<1>4. h <= W /\ d.next = h + 1 /\ d.next \in Nat
  BY <1>2, <1>3 DEF n
<1>5. ASSUME NEW x, x \in Nat \X Nat, x[1] = c.win
      PROVE  x \in Records(r) <=> 1 <= x[2] /\ x[2] <= W
  <2>1. x[2] \in Nat
    BY <1>5
  <2> QED BY <1>1, <1>2, <1>5, <2>1, RecordFacts DEF W
<1>6. ASSUME NEW x \in PageAt(r, c) PROVE x \notin Upto(r, c) /\ x \in Records(r) /\ x \in Upto(r, d)
  <2>1. x \in Nat \X Nat /\ x[1] = c.win /\ c.next <= x[2] /\ x[2] <= h /\ x[2] \in Nat
    BY <1>3
  <2>2. x \in Records(r)
    BY <1>2, <1>4, <1>5, <2>1
  <2> QED BY <1>2, <1>4, <2>1, <2>2 DEF Upto
<1>7. ASSUME NEW x \in Upto(r, c) PROVE x \in Upto(r, d)
  <2>1. x \in Nat \X Nat /\ x[2] \in Nat
    BY RecordFacts DEF Upto
  <2> QED BY <1>2, <1>3, <1>4, <2>1 DEF Upto
<1>8. ASSUME NEW x \in Upto(r, d), x \notin PageAt(r, c) PROVE x \in Upto(r, c)
  <2>1. x \in Nat \X Nat /\ x[2] \in Nat /\ x \in Records(r)
    BY RecordFacts DEF Upto
  <2>2. CASE x[1] = c.win
    <3>1. x[2] < h + 1
      BY <1>2, <1>4, <2>2 DEF Upto
    <3>2. x[2] < c.next
      BY <1>2, <1>3, <1>8, <2>1, <2>2, <3>1
    <3> QED BY <2>1, <2>2, <3>2 DEF Upto
  <2>3. CASE x[1] # c.win
    BY <2>1, <2>3 DEF Upto
  <2> QED BY <2>2, <2>3
<1>9. n <= PageSize
  BY <1>2, <1>3
<1>10. ASSUME n # PageSize PROVE PageAt(r, d) = {}
  <2>1. h = W
    BY <1>2, <1>3, <1>10
  <2>2. d.next > Windows[r][d.win] /\ d.next # 0
    BY <1>2, <1>4, <2>1 DEF W
  <2> QED BY <1>1, <2>2, EmptyPast
<1> QED BY <1>4, <1>6, <1>7, <1>8, <1>9, <1>10 DEF n

(* Nothing is between the end of a window and the start of the next.       *)
LEMMA UptoMoved ==
  ASSUME NEW r \in Resources, NEW c \in Checkpoints, c.next # 0, c.win \in DOMAIN Windows[r],
         PageAt(r, c) = {}, NEW d \in Checkpoints, d.win = c.win + 1, d.next = 1
  PROVE  Upto(r, d) = Upto(r, c)
<1>1. c.win \in Nat /\ c.next \in Nat /\ c.next >= 1 /\ Windows[r][c.win] \in Nat
  BY PlaceNumbers
<1>2. c.next > Windows[r][c.win]
  BY EmptyPast
<1>3. ASSUME NEW x \in Records(r)
      PROVE  (x[1] < d.win \/ (x[1] = d.win /\ x[2] < d.next))
             <=> (x[1] < c.win \/ (x[1] = c.win /\ x[2] < c.next))
  <2>1. x[1] \in Nat /\ x[2] \in Nat /\ x[2] >= 1
    BY RecordFacts
  <2>2. x[1] = c.win => x[2] <= Windows[r][c.win]
    BY RecordFacts, <1>1, <2>1
  <2> QED BY <1>1, <1>2, <2>1, <2>2
<1> QED BY <1>3 DEF Upto

(* Where there is no further page the place is past all records.           *)
LEMMA UptoAll ==
  ASSUME NEW r \in Resources, NEW c \in Checkpoints, c.next # 0, c.win # 0, PageAt(r, c) = {},
         (r \notin Partitioned /\ c.win = 1) \/ c.win \notin DOMAIN Windows[r]
  PROVE  Upto(r, c) = Records(r)
<1>1. c.win \in Nat /\ DOMAIN Windows[r] = 1 .. Len(Windows[r]) /\ Len(Windows[r]) \in Nat
  BY OrderFacts DEF Checkpoints
<1>2. CASE c.win \notin DOMAIN Windows[r]
  <2>1. c.win > Len(Windows[r])
    BY <1>1, <1>2
  <2>2. ASSUME NEW x \in Records(r) PROVE x[1] < c.win
    <3>1. x[1] \in 1 .. Len(Windows[r])
      BY <1>1, RecordFacts
    <3> QED BY <1>1, <2>1, <3>1
  <2> QED BY <2>2 DEF Upto
<1>3. CASE c.win \in DOMAIN Windows[r]
  <2>1. r \notin Partitioned /\ c.win = 1 /\ Len(Windows[r]) = 1
    BY <1>3, OrderAssumption
  <2>2. c.next > Windows[r][c.win] /\ Windows[r][c.win] \in Nat /\ c.next \in Nat
    BY <1>3, EmptyPast, PlaceNumbers
  <2>3. ASSUME NEW x \in Records(r) PROVE x[1] = c.win /\ x[2] < c.next
    <3>1. x[1] \in 1 .. 1 /\ x[2] \in 1 .. Windows[r][x[1]]
      BY <1>1, <2>1, RecordFacts
    <3>2. x[1] = 1
      BY <3>1
    <3> QED BY <2>1, <2>2, <3>1, <3>2
  <2> QED BY <2>3 DEF Upto
<1> QED BY <1>2, <1>3

LEMMA UptoNone ==
  ASSUME NEW r \in Resources, NEW c \in Checkpoints, c.win = 1, c.next = 1
  PROVE  Upto(r, c) = {}
<1>1. ASSUME NEW x \in Records(r) PROVE ~(x[1] < 1) /\ ~(x[2] < 1)
  <2>1. x[1] \in DOMAIN Windows[r] /\ x[2] \in 1 .. Windows[r][x[1]]
    BY RecordFacts
  <2>2. x[1] \in 1 .. Len(Windows[r])
    BY <2>1, OrderFacts
  <2> QED BY <2>1, <2>2
<1> QED BY <1>1 DEF Upto

-----------------------------------------------------------------------------
(* What the files F of a resource r at the place of c are to be: those of  *)
(* pages that are counted hold what is before the place, once; one more    *)
(* may hold the page at it.  Of a resource that is one page there is no    *)
(* other.                                                                  *)
FileType       == [res : Resources, page : Nat, rows : SUBSET (Nat \X Nat)]
PageFile(r, c) == [res |-> r, page |-> c.pages + 1, rows |-> PageAt(r, c)]
OnlyPage(r)    == [res |-> r, page |-> 1, rows |-> OnlyRows(r)]

Paged(F, r, c) ==
  /\ c.win # 0 /\ (r \notin Partitioned => c.win = 1)
  /\ \A f \in F : f.res = r =>
       \/ f.page <= c.pages /\ f.rows \subseteq Upto(r, c)
       \/ f = PageFile(r, c) /\ f.rows # {}
  /\ \A x \in Upto(r, c) : \E f \in F : f.res = r /\ f.page <= c.pages /\ x \in f.rows
  /\ \A f, g \in F : /\ f.res = r /\ f.page <= c.pages /\ g.res = r /\ g.page <= c.pages
                     /\ f # g
                     => f.rows \cap g.rows = {}
Sound(F, r, c) ==
  IF r \in Single THEN c.pages <= OnlyNo(r) /\ \A f \in F : f.res = r => f = OnlyPage(r)
  ELSE Paged(F, r, c)

CoveredBy(F, r) ==
  /\ \A f \in F : f.res = r => f.rows \subseteq Records(r)
  /\ \A x \in Records(r) : \E f \in F : f.res = r /\ x \in f.rows

LEMMA OneWindow ==
  ASSUME NEW r \in Resources, r \notin Partitioned
  PROVE  DOMAIN Windows[r] = {1} /\ Windows[r][1] \in Nat /\ Records(r) = OnlyRows(r)
<1>1. DOMAIN Windows[r] = {1} /\ Windows[r][1] \in Nat
  BY WindowFacts
<1>2. Records(r) = OnlyRows(r)
  BY <1>1 DEF Records, OnlyRows
<1> QED BY <1>1, <1>2

LEMMA SoundThere ==
  ASSUME NEW F, NEW r, NEW c, NEW d, Sound(F, r, c), SamePlace(c, d)
  PROVE  Sound(F, r, d)
<1>1. PageAt(r, c) = PageAt(r, d) /\ Upto(r, c) = Upto(r, d) /\ c.pages = d.pages /\ c.win = d.win
  BY SamePage DEF SamePlace
<1>2. PageFile(r, c) = PageFile(r, d)
  BY <1>1 DEF PageFile
<1> QED BY <1>1, <1>2 DEF Sound, Paged

LEMMA SoundCounted ==
  ASSUME NEW F, NEW r \in Single, NEW c, NEW d, Sound(F, r, c), d.pages <= OnlyNo(r)
  PROVE  Sound(F, r, d)
BY DEF Sound

LEMMA SoundFirst ==
  ASSUME NEW r \in Resources, NEW c \in Checkpoints, c.win = 1, c.next = 1, c.pages = 0
  PROVE  Sound({}, r, c)
<1>1. Upto(r, c) = {}
  BY UptoNone
<1>2. OnlyNo(r) \in Nat
  BY DEF OnlyNo
<1>3. r \in Single => 0 <= OnlyNo(r)
  BY <1>2
<1> QED BY <1>1, <1>3 DEF Sound, Paged

(* The same files, another page counted.                                   *)
LEMMA SoundSaved ==
  ASSUME NEW F \in SUBSET FileType, NEW r \in Resources \ Single, NEW c \in Checkpoints, c.next # 0,
         Sound(F, r, c), PageAt(r, c) # {}, PageFile(r, c) \in F,
         NEW d \in Checkpoints, d.win = c.win, d.next = c.next + Cardinality(PageAt(r, c)),
         d.pages = c.pages + 1
  PROVE  Sound(F, r, d)
<1> DEFINE p == PageFile(r, c)
<1>1. /\ \A x : x \in Upto(r, d) <=> x \in Upto(r, c) \/ x \in PageAt(r, c)
      /\ \A x \in PageAt(r, c) : x \notin Upto(r, c)
  BY UptoSaved
<1>2. p.res = r /\ p.page = d.pages /\ p.rows = PageAt(r, c) /\ p \in F
  BY DEF PageFile
<1> HIDE DEF p
<1>3. /\ c.win # 0 /\ (r \notin Partitioned => c.win = 1)
      /\ \A f \in F : f.res = r => (f.page <= c.pages /\ f.rows \subseteq Upto(r, c)) \/ f = p
      /\ \A x \in Upto(r, c) : \E f \in F : f.res = r /\ f.page <= c.pages /\ x \in f.rows
      /\ \A f, g \in F : /\ f.res = r /\ f.page <= c.pages /\ g.res = r /\ g.page <= c.pages
                         /\ f # g
                         => f.rows \cap g.rows = {}
  BY DEF Sound, Paged, p
<1>4. c.pages \in Nat /\ \A f \in F : f.page \in Nat
  BY DEF Checkpoints, FileType
<1>5. ASSUME NEW f \in F, f.res = r PROVE f.page <= d.pages /\ f.rows \subseteq Upto(r, d)
  <2>1. CASE f.page <= c.pages /\ f.rows \subseteq Upto(r, c)
    BY <1>1, <1>4, <2>1
  <2>2. CASE f = p
    BY <1>1, <1>2, <1>4, <2>2
  <2> QED BY <1>3, <1>5, <2>1, <2>2
<1>6. ASSUME NEW x \in Upto(r, d)
      PROVE  \E f \in F : f.res = r /\ f.page <= d.pages /\ x \in f.rows
  <2>1. CASE x \in Upto(r, c)
    BY <1>3, <1>4, <2>1
  <2>2. CASE x \in PageAt(r, c)
    BY <1>2, <1>4, <2>2
  <2> QED BY <1>1, <2>1, <2>2
<1>7. ASSUME NEW f \in F, NEW g \in F, f.res = r, g.res = r, f # g
      PROVE  f.rows \cap g.rows = {}
  <2>1. CASE f # p /\ g # p
    BY <1>3, <1>7, <2>1
  <2>2. CASE f = p
    BY <1>1, <1>2, <1>3, <1>7, <2>2
  <2>3. CASE g = p
    BY <1>1, <1>2, <1>3, <1>7, <2>3
  <2> QED BY <2>1, <2>2, <2>3
<1>8. Paged(F, r, d)
  BY <1>3, <1>5, <1>6, <1>7 DEF Paged
<1> QED BY <1>8 DEF Sound

LEMMA SoundMoved ==
  ASSUME NEW F \in SUBSET FileType, NEW r \in Partitioned, NEW c \in Checkpoints, c.next # 0,
         Sound(F, r, c), c.win \in DOMAIN Windows[r], PageAt(r, c) = {},
         NEW d \in Checkpoints, d.win = c.win + 1, d.next = 1, d.pages = c.pages
  PROVE  Sound(F, r, d)
<1>1. r \in Resources /\ r \notin Single
  BY OrderAssumption
<1>2. Upto(r, d) = Upto(r, c)
  BY <1>1, UptoMoved
<1>3. d.win # 0
  BY DEF Checkpoints
<1>4. \A f \in F : f = PageFile(r, c) => f.rows = {}
  BY DEF PageFile
<1>5. Paged(F, r, c)
  BY <1>1 DEF Sound
<1>6. Paged(F, r, d)
  BY <1>2, <1>3, <1>4, <1>5 DEF Paged
<1> QED BY <1>1, <1>6 DEF Sound

(* A page is written over at most itself.                                  *)
LEMMA SoundWritten ==
  ASSUME NEW F \in SUBSET FileType, NEW r \in Resources \ Single, NEW c \in Checkpoints, c.next # 0,
         Sound(F, r, c), PageAt(r, c) # {}
  PROVE  /\ {f \in F : f.res # r \/ f.page # c.pages + 1} \cup {PageFile(r, c)}
              = F \cup {PageFile(r, c)}
         /\ Sound(F \cup {PageFile(r, c)}, r, c)
         /\ PageAt(r, c) \subseteq Records(r)
<1> DEFINE p == PageFile(r, c)
<1>1. p.res = r /\ p.page = c.pages + 1 /\ p.rows = PageAt(r, c)
  BY DEF PageFile
<1>2. Paged(F, r, c)
  BY DEF Sound
<1>3. c.pages \in Nat /\ \A f \in F : f.page \in Nat
  BY DEF Checkpoints, FileType
<1>4. ASSUME NEW f \in F, f.res = r, f.page = c.pages + 1 PROVE f = p
  BY <1>2, <1>3, <1>4 DEF Paged
<1>5. ~(p.page <= c.pages)
  BY <1>1, <1>3
<1>6. {f \in F : f.res # r \/ f.page # c.pages + 1} \cup {p} = F \cup {p}
  BY <1>4
<1>7. Paged(F \cup {p}, r, c)
  <2> HIDE DEF p
  <2>1. c.win # 0 /\ (r \notin Partitioned => c.win = 1)
    BY <1>2 DEF Paged
  <2>2. ASSUME NEW f \in F \cup {p}, f.res = r
        PROVE  \/ f.page <= c.pages /\ f.rows \subseteq Upto(r, c)
               \/ f = PageFile(r, c) /\ f.rows # {}
    BY <1>1, <1>2, <2>2 DEF Paged, p
  <2>3. ASSUME NEW x \in Upto(r, c)
        PROVE  \E f \in F \cup {p} : f.res = r /\ f.page <= c.pages /\ x \in f.rows
    BY <1>2 DEF Paged
  <2>4. ASSUME NEW f \in F \cup {p}, NEW g \in F \cup {p}, f.res = r, f.page <= c.pages,
               g.res = r, g.page <= c.pages, f # g
        PROVE  f.rows \cap g.rows = {}
    <3>1. f \in F /\ g \in F
      BY <1>5, <2>4
    <3> QED BY <1>2, <2>4, <3>1 DEF Paged
  <2> QED BY <2>1, <2>2, <2>3, <2>4 DEF Paged
<1>8. PageAt(r, c) \subseteq Records(r)
  BY PageFacts
<1> QED BY <1>6, <1>7, <1>8 DEF Sound

LEMMA SoundOnly ==
  ASSUME NEW F \in SUBSET FileType, NEW r \in Resources \cap Single, NEW c, Sound(F, r, c)
  PROVE  /\ {f \in F : f.res # r \/ f.page # 1} \cup {OnlyPage(r)} = F \cup {OnlyPage(r)}
         /\ Sound(F \cup {OnlyPage(r)}, r, c)
         /\ CoveredBy(F \cup {OnlyPage(r)}, r)
         /\ Windows[r][1] = 0 => CoveredBy(F, r)
<1>1. r \notin Partitioned
  BY OrderAssumption
<1>2. Records(r) = OnlyRows(r)
  BY <1>1, OneWindow
<1>3. \A f \in F : f.res = r => f = OnlyPage(r)
  BY DEF Sound
<1>4. OnlyPage(r).res = r /\ OnlyPage(r).rows = OnlyRows(r) /\ OnlyPage(r).page = 1
  BY DEF OnlyPage
<1>5. {f \in F : f.res # r \/ f.page # 1} \cup {OnlyPage(r)} = F \cup {OnlyPage(r)}
  BY <1>3
<1>6. Sound(F \cup {OnlyPage(r)}, r, c)
  BY <1>3 DEF Sound
<1>7. CoveredBy(F \cup {OnlyPage(r)}, r)
  BY <1>2, <1>3, <1>4 DEF CoveredBy
<1>8. ASSUME Windows[r][1] = 0 PROVE CoveredBy(F, r)
  <2>1. 1 .. 0 = {}
    OBVIOUS
  <2>2. Records(r) = {}
    BY <1>2, <1>8, <2>1 DEF OnlyRows
  <2> QED BY <1>2, <1>3, <1>4, <2>2 DEF CoveredBy
<1> QED BY <1>5, <1>6, <1>7, <1>8

LEMMA SoundElse ==
  ASSUME NEW F, NEW r, NEW c, Sound(F, r, c), NEW p, p.res # r
  PROVE  Sound(F \cup {p}, r, c)
<1>1. CASE r \in Single
  BY <1>1 DEF Sound
<1>2. CASE r \notin Single
  BY <1>2 DEF Sound, Paged
<1> QED BY <1>1, <1>2

LEMMA CoveredMore ==
  ASSUME NEW F, NEW r, CoveredBy(F, r), NEW p, p.res = r => p.rows \subseteq Records(r)
  PROVE  CoveredBy(F \cup {p}, r)
BY DEF CoveredBy

(* No page is left: every record is in a file.                             *)
LEMMA SoundCovered ==
  ASSUME NEW F, NEW r \in Resources \ Single, NEW c \in Checkpoints, c.next # 0,
         Sound(F, r, c), PageAt(r, c) = {},
         r \notin Partitioned \/ c.win \notin DOMAIN Windows[r]
  PROVE  CoveredBy(F, r)
<1>1. Paged(F, r, c)
  BY DEF Sound
<1>2. Upto(r, c) = Records(r)
  BY <1>1, UptoAll DEF Paged
<1>3. \A f \in F : f = PageFile(r, c) => f.rows = {}
  BY DEF PageFile
<1> QED BY <1>1, <1>2, <1>3 DEF Paged, CoveredBy

(* No record is in two files.                                              *)
LEMMA SoundOnce ==
  ASSUME NEW F, NEW r \in Resources, NEW c \in Checkpoints, c.next # 0, Sound(F, r, c)
  PROVE  \A f, g \in F : f.res = r /\ g.res = r /\ f # g => f.rows \cap g.rows = {}
<1>1. CASE r \in Single
  BY <1>1 DEF Sound
<1>2. CASE r \notin Single
  <2> DEFINE p == PageFile(r, c)
  <2>1. Paged(F, r, c)
    BY <1>2 DEF Sound
  <2>2. p.rows = PageAt(r, c)
    BY DEF PageFile
  <2>3. \A x \in p.rows : x \notin Upto(r, c)
    <3>1. CASE PageAt(r, c) = {}
      BY <2>2, <3>1
    <3>2. CASE PageAt(r, c) # {}
      <4>1. PICK h \in Nat : /\ h >= c.next
                             /\ \A x : x \in PageAt(r, c) <=> /\ x \in Nat \X Nat /\ x[1] = c.win
                                                              /\ c.next <= x[2] /\ x[2] <= h
        BY <3>2, PageCount
      <4>2. c.next \in Nat /\ c.win \in Nat
        BY DEF Checkpoints
      <4>3. ASSUME NEW x \in PageAt(r, c) PROVE x \notin Upto(r, c)
        <5>1. x[1] = c.win /\ c.next <= x[2] /\ x[2] \in Nat
          BY <4>1
        <5> QED BY <4>2, <5>1 DEF Upto
      <4> QED BY <2>2, <4>3
    <3> QED BY <3>1, <3>2
  <2> HIDE DEF p
  <2>4. ASSUME NEW f \in F, NEW g \in F, f.res = r, g.res = r, f # g
        PROVE  f.rows \cap g.rows = {}
    <3>1. /\ (f.page <= c.pages /\ f.rows \subseteq Upto(r, c)) \/ f = p
          /\ (g.page <= c.pages /\ g.rows \subseteq Upto(r, c)) \/ g = p
      BY <2>1, <2>4 DEF Paged, p
    <3>2. CASE f = p
      BY <2>3, <2>4, <3>1, <3>2
    <3>3. CASE g = p
      BY <2>3, <2>4, <3>1, <3>3
    <3>4. CASE f # p /\ g # p
      BY <2>1, <2>4, <3>1, <3>4 DEF Paged
    <3> QED BY <3>2, <3>3, <3>4
  <2> QED BY <2>4
<1> QED BY <1>1, <1>2

-----------------------------------------------------------------------------
(* The checkpoints are inserted once, by the request that created the      *)
(* snapshot, and before any of them is worked on.                          *)
Opened   == \A r \in Resources : cp[r].status # "absent"
Unopened == files = {} /\ \A r \in Resources : cp[r].status = "absent" /\ SamePlace(cp[r], NoCheckpoint)
OpenInv ==
  /\ Unopened \/ Opened
  /\ snap.status = "NONE" => Unopened /\ \A u \in Users : pc[u] # "checkpoints"
  /\ \A u \in Users : pc[u] = "checkpoints" => Unopened /\ \A v \in Users : pc[v] = "checkpoints" => v = u
  /\ \A w \in Workers : pc[w] \in Asking => Opened
  /\ \A u \in Users : pc[u] = "reset" /\ my[u].todo # {} => Opened

(* How a worker's step touches checkpoints, files and the status.          *)
Opens(w) ==
  /\ \/ UNCHANGED <<cp, files>>
     \/ pc[w] \in Asking /\ \A q \in Resources : cp[q].status # "absent" => cp'[q].status # "absent"
  /\ snap'.status = "NONE" => snap.status = "NONE"
  /\ pc'[w] \in Asking =>
       pc[w] \in Asking \/ (UNCHANGED <<cp, files>> /\ \E q \in Resources : cp[q].status # "absent")

LEMMA RowOpens ==
  ASSUME TypeInv, NEW w \in Workers, Claim(w) \/ Complete(w) \/ Find(w) \/ Insert(w)
  PROVE  Opens(w)
<1>1. UNCHANGED <<snap, cp, files>> /\ pc'[w] \in {"idle", "find", "insert", "begin"}
  BY QueueForward DEF store
<1> QED BY <1>1 DEF Opens, Asking

LEMMA PickOpens ==
  ASSUME TypeInv, NEW w \in Workers, Begin(w) \/ Pick(w) \/ StepFails(w) \/ ReadCheckpoint(w)
                                     \/ ExtractionFails(w) \/ TokenExpires(w)
  PROVE  Opens(w)
<1>1. CASE Begin(w)
  <2>1. UNCHANGED <<snap, cp, files>> /\ pc'[w] \in {"idle", "pick"}
    BY <1>1, BeginEffect, WentOthers DEF tables, store
  <2> QED BY <2>1 DEF Opens, Asking
<1>2. CASE Pick(w)
  <2>1. UNCHANGED <<snap, cp, files>>
    BY <1>2, PickEffect DEF tables, store
  <2>2. pc'[w] \in {"complete", "summary"} \/ \E q \in Resources : cp[q].status \in {"pending", "running"}
    BY <1>2, PickEffect, WentOthers
  <2> QED BY <2>1, <2>2 DEF Opens, Asking
<1>3. CASE StepFails(w)
  <2>1. UNCHANGED <<snap, cp, files>> /\ pc'[w] = "complete"
    BY <1>3, StepFailsEffect, WentOthers DEF tables, store
  <2> QED BY <2>1 DEF Opens, Asking
<1>4. CASE ReadCheckpoint(w)
  <2>1. UNCHANGED <<snap, cp, files>> /\ pc[w] = "read"
    BY <1>4, ReadCheckpointEffect DEF tables, store
  <2> QED BY <2>1 DEF Opens, Asking
<1>5. CASE ExtractionFails(w)
  <2>1. UNCHANGED <<snap, cp, files>> /\ pc[w] \in Asking
    BY <1>5, ExtractionFailsEffect DEF tables, store, Extracting
  <2> QED BY <2>1 DEF Opens
<1>6. CASE TokenExpires(w)
  <2>1. UNCHANGED <<snap, cp, files>> /\ pc[w] \in Asking
    BY <1>6, TokenExpiresEffect DEF tables, store, Asking
  <2> QED BY <2>1 DEF Opens
<1> QED BY <1>1, <1>2, <1>3, <1>4, <1>5, <1>6

LEMMA ExtractOpens ==
  ASSUME TypeInv, NEW w \in Workers,
         \/ MarkRunning(w) \/ ReadBudget(w) \/ SetBudget(w) \/ WritePage(w) \/ EmptyPage(w)
         \/ WriteSingle(w) \/ SavePage(w) \/ SaveWindow(w) \/ Finish(w) \/ GiveUp(w)
         \/ \E i \in Items : StoreBinary(w, i) \/ RecordCaptured(w, i) \/ SkipBinary(w, i) \/ MissBinary(w, i)
  PROVE  Opens(w)
<1>1. CASE MarkRunning(w)
  <2>1. UNCHANGED snap /\ pc[w] = "mark" /\ \A q \in Resources : q # my[w].res => cp'[q] = cp[q]
    BY <1>1, MarkRunningEffect
  <2>2. cp'[my[w].res].status = "running"
    BY <1>1, MarkRunningEffect
  <2> QED BY <2>1, <2>2 DEF Opens, Asking
<1>2. CASE ReadBudget(w)
  <2>1. UNCHANGED <<snap, cp, files>> /\ pc[w] = "budget"
    BY <1>2, ReadBudgetEffect DEF tables, store
  <2> QED BY <2>1 DEF Opens, Asking
<1>3. CASE SetBudget(w)
  <2>1. UNCHANGED <<cp, files>> /\ pc[w] = "setBudget" /\ snap'.status = snap.status
    BY <1>3, SetBudgetEffect DEF store
  <2> QED BY <2>1 DEF Opens, Asking
<1>4. CASE WritePage(w)
  <2>1. UNCHANGED <<snap, cp>> /\ pc[w] = "page"
    BY <1>4, WritePageEffect
  <2> QED BY <2>1 DEF Opens, Asking
<1>5. CASE EmptyPage(w)
  <2>1. /\ UNCHANGED snap /\ pc[w] = "page" /\ \A q \in Resources : q # my[w].res => cp'[q] = cp[q]
        /\ cp'[my[w].res].status = cp[my[w].res].status
    BY <1>5, EmptyPageEffect
  <2> QED BY <2>1 DEF Opens, Asking
<1>6. CASE WriteSingle(w)
  <2>1. UNCHANGED <<snap, cp>> /\ pc[w] = "page"
    BY <1>6, WriteSingleEffect
  <2> QED BY <2>1 DEF Opens, Asking
<1>7. CASE SavePage(w)
  <2>1. /\ UNCHANGED snap /\ pc[w] = "save" /\ \A q \in Resources : q # my[w].res => cp'[q] = cp[q]
        /\ cp'[my[w].res].status = cp[my[w].res].status
    BY <1>7, SavePageEffect
  <2> QED BY <2>1 DEF Opens, Asking
<1>8. CASE SaveWindow(w)
  <2>1. /\ UNCHANGED snap /\ pc[w] = "window" /\ \A q \in Resources : q # my[w].res => cp'[q] = cp[q]
        /\ cp'[my[w].res].status = cp[my[w].res].status
    BY <1>8, SaveWindowEffect
  <2> QED BY <2>1 DEF Opens, Asking
<1>9. CASE Finish(w)
  <2>1. /\ UNCHANGED snap /\ pc[w] = "finish" /\ \A q \in Resources : q # my[w].res => cp'[q] = cp[q]
        /\ cp'[my[w].res].status = my[w].verdict
    BY <1>9, FinishEffect
  <2>2. my[w].verdict \in {"running", "completed"}
    BY <2>1, Held, OrderFacts DEF Holding
  <2> QED BY <2>1, <2>2 DEF Opens, Asking
<1>10. CASE GiveUp(w)
  <2>1. /\ UNCHANGED snap /\ pc[w] = "giveUp" /\ \A q \in Resources : q # my[w].res => cp'[q] = cp[q]
        /\ cp'[my[w].res].status \in {"failed", "unsupported"}
    BY <1>10, GiveUpEffect
  <2> QED BY <2>1 DEF Opens, Asking
<1>11. ASSUME NEW i \in Items, StoreBinary(w, i) PROVE Opens(w)
  <2>1. UNCHANGED <<snap, cp, files>> /\ pc[w] = "item"
    BY <1>11, StoreBinaryEffect
  <2> QED BY <2>1 DEF Opens, Asking
<1>12. ASSUME NEW i \in Items, RecordCaptured(w, i) \/ SkipBinary(w, i) \/ MissBinary(w, i) PROVE Opens(w)
  <2>1. UNCHANGED <<snap, cp, files>> /\ pc[w] \in {"item", "record"}
    BY <1>12, EnteredTyped
  <2> QED BY <2>1 DEF Opens, Asking
<1> QED BY <1>1, <1>2, <1>3, <1>4, <1>5, <1>6, <1>7, <1>8, <1>9, <1>10, <1>11, <1>12

LEMMA FinalizeOpens ==
  ASSUME TypeInv, NEW w \in Workers, Finalize(w)
  PROVE  Opens(w)
<1>1. CASE ReadSummary(w)
  <2>1. UNCHANGED <<snap, cp, files>> /\ pc'[w] = "write"
    BY <1>1, ReadSummaryEffect, WentOthers DEF tables, store
  <2> QED BY <2>1 DEF Opens, Asking
<1>2. CASE WriteSummary(w)
  <2>1. UNCHANGED <<cp, files>> /\ pc'[w] \in {"remaining", "intend", "validate"}
    BY <1>2, WriteSummaryEffect, WentOthers DEF store
  <2>2. snap'.status # "NONE"
    BY <1>2, WriteSummaryEffect DEF Capped, Begun
  <2> QED BY <2>1, <2>2 DEF Opens, Asking
<1>3. CASE Remaining(w)
  <2>1. UNCHANGED <<snap, cp, files>> /\ pc'[w] \in {"complete", "summary"}
    BY <1>3, RemainingEffect, WentOthers DEF tables, store
  <2> QED BY <2>1 DEF Opens, Asking
<1>4. CASE Intend(w)
  <2>1. UNCHANGED <<snap, cp, files>> /\ pc'[w] \in {"validate", "summary"}
    BY <1>4, IntendEffect, WentOthers DEF tables, store
  <2> QED BY <2>1 DEF Opens, Asking
<1>5. CASE Validate(w)
  <2>1. UNCHANGED <<snap, cp, files>> /\ pc'[w] = "report"
    BY <1>5, ValidateEffect, WentOthers DEF tables, store
  <2> QED BY <2>1 DEF Opens, Asking
<1>6. CASE SaveReport(w)
  <2>1. UNCHANGED <<cp, files>> /\ pc'[w] = "manifest"
    BY <1>6, SaveReportEffect, WentOthers DEF store
  <2>2. snap'.status # "NONE"
    BY <1>6, SaveReportEffect DEF FinalStatus, Begun
  <2> QED BY <2>1, <2>2 DEF Opens, Asking
<1>7. CASE Manifest(w)
  <2>1. UNCHANGED <<snap, cp, files>> /\ pc'[w] = "complete"
    BY <1>7, ManifestEffect, WentOthers DEF tables, store
  <2> QED BY <2>1 DEF Opens, Asking
<1>8. CASE FinalizeFails(w)
  <2>1. UNCHANGED <<snap, cp, files>> /\ pc'[w] = "refinalize"
    BY <1>8, FinalizeFailsEffect, WentOthers DEF tables, store
  <2> QED BY <2>1 DEF Opens, Asking
<1>9. CASE MarkRefinalizing(w)
  <2>1. UNCHANGED <<cp, files>> /\ pc'[w] = "complete" /\ snap'.status = "RUNNING"
    BY <1>9, MarkRefinalizingEffect, WentOthers DEF store
  <2> QED BY <2>1 DEF Opens, Asking
<1> QED BY <1>1, <1>2, <1>3, <1>4, <1>5, <1>6, <1>7, <1>8, <1>9 DEF Finalize

LEMMA WorkerOpens ==
  ASSUME TypeInv, NEW w \in Workers, Worker(w)
  PROVE  Opens(w)
BY RowOpens, PickOpens, ExtractOpens, FinalizeOpens DEF Worker, Extract

LEMMA ResourcesExist == Resources # {}
<1>1. Order \in Seq(Resources) /\ Order # <<>>
  BY OrderAssumption
<1>2. Len(Order) # 0 /\ Len(Order) \in Nat
  BY <1>1
<1>3. 1 \in DOMAIN Order
  BY <1>1, <1>2
<1> QED BY <1>3, OrderFacts

LEMMA OpenOnce == ~(Unopened /\ Opened)
BY ResourcesExist DEF Unopened, Opened

LEMMA OpenRest ==
  ASSUME OpenInv, NEW a \in Actors, Others(a), UNCHANGED <<cp, files>>,
         snap'.status = "NONE" => snap.status = "NONE",
         a \in Users => /\ pc'[a] # "checkpoints"
                        /\ pc'[a] = "reset" /\ my'[a].todo # {} => Opened,
         a \in Workers /\ pc'[a] \in Asking => Opened
  PROVE  OpenInv'
<1>1. (Unopened' <=> Unopened) /\ (Opened' <=> Opened)
  BY DEF Unopened, Opened
<1>2. snap'.status = "NONE" => Unopened' /\ \A u \in Users : pc'[u] # "checkpoints"
  BY <1>1, OrderFacts DEF OpenInv, Others
<1>3. \A u \in Users : pc'[u] = "checkpoints" => Unopened' /\ \A v \in Users : pc'[v] = "checkpoints" => v = u
  BY <1>1, OrderFacts DEF OpenInv, Others
<1>4. ASSUME NEW w \in Workers, pc'[w] \in Asking PROVE Opened'
  BY <1>1, <1>4, OrderFacts DEF OpenInv, Others
<1>5. ASSUME NEW u \in Users, pc'[u] = "reset", my'[u].todo # {} PROVE Opened'
  BY <1>1, <1>5, OrderFacts DEF OpenInv, Others
<1> QED BY <1>1, <1>2, <1>3, <1>4, <1>5 DEF OpenInv

LEMMA OpenUser ==
  ASSUME TypeInv, OpenInv, NEW u \in Users, User(u)
  PROVE  OpenInv'
<1>1. u \in Actors /\ u \notin Workers /\ Others(u)
  BY UserForward, OrderFacts
<1>2. CASE Create(u)
  <2>1. UNCHANGED <<cp, files>> /\ pc'[u] = "checkpoints" /\ snap.status = "NONE"
    BY <1>2, CreateEffect, WentOthers DEF Create, store
  <2>2. snap'.status = "RUNNING"
    BY <1>2 DEF Create, TypeInv, TypeOK
  <2>3. Unopened' /\ \A v \in Users \ {u} : pc'[v] # "checkpoints"
    BY <1>1, <2>1, OrderFacts DEF OpenInv, Others, Unopened
  <2>4. ~Opened
    BY <2>1, OpenOnce DEF OpenInv
  <2>5. \A w \in Workers : pc'[w] \notin Asking
    BY <1>1, <2>4, OrderFacts DEF OpenInv, Others
  <2>6. \A v \in Users : ~(pc'[v] = "reset" /\ my'[v].todo # {})
    BY <1>1, <2>1, <2>4, OrderFacts DEF OpenInv, Others
  <2> QED BY <2>1, <2>2, <2>3, <2>5, <2>6 DEF OpenInv
<1>3. CASE InsertCheckpoints(u)
  <2>1. /\ UNCHANGED snap /\ pc'[u] = "find" /\ pc[u] = "checkpoints"
        /\ \A r \in Resources : cp'[r].status = "pending"
    BY <1>3, InsertCheckpointsEffect, WentOthers DEF InsertCheckpoints
  <2>2. Opened'
    BY <2>1 DEF Opened
  <2>3. \A v \in Users : pc'[v] # "checkpoints"
    BY <1>1, <2>1, OrderFacts DEF OpenInv, Others
  <2>4. snap'.status # "NONE"
    BY <2>1 DEF OpenInv
  <2> QED BY <2>2, <2>3, <2>4 DEF OpenInv
<1>4. CASE Find(u)
  <2>1. UNCHANGED <<snap, cp, files>> /\ pc'[u] \in {"insert", "idle"}
    BY <1>1, <1>4, FindEffect, WentOthers DEF tables, store
  <2> QED BY <1>1, <2>1, OpenRest
<1>5. CASE Insert(u)
  <2>1. UNCHANGED <<snap, cp, files>> /\ pc'[u] = "idle"
    BY <1>1, <1>5, InsertEffect, WentOthers DEF store
  <2> QED BY <1>1, <2>1, OpenRest
<1>6. CASE Retry(u)
  <2>1. UNCHANGED <<snap, cp, files>> /\ pc'[u] = "list"
    BY <1>6, RetryEffect, WentOthers DEF Retry, tables, store
  <2> QED BY <1>1, <2>1, OpenRest
<1>7. CASE List(u)
  <2>1. UNCHANGED <<snap, cp, files>>
    BY <1>7 DEF List, tables, store
  <2>2. PICK m \in Holdings : /\ m.todo = {r \in Resources : cp[r].status \in {"failed", "running"}}
                              /\ Went(u, "reopen", m) \/ Went(u, "reset", m)
    BY <1>7, ListEffect
  <2>3. pc'[u] \in {"reopen", "reset"} /\ my'[u] = m
    BY <2>2, WentOthers
  <2>4. m.todo # {} => Opened
    BY <2>2 DEF OpenInv, Unopened
  <2> QED BY <1>1, <2>1, <2>3, <2>4, OpenRest
<1>8. CASE Reopen(u)
  <2>1. UNCHANGED <<cp, files>> /\ pc'[u] = "find" /\ snap'.status = "RUNNING"
    BY <1>8, ReopenEffect, WentOthers DEF store
  <2> QED BY <1>1, <2>1, OpenRest
<1>9. ASSUME NEW r \in Resources, Reset(u, r) PROVE OpenInv'
  <2>1. UNCHANGED <<snap, files>> /\ cp'[r].status = "pending" /\ \A q \in Resources \ {r} : cp'[q] = cp[q]
    BY <1>9, ResetEffect
  <2>2. pc'[u] \in {"reopen", "reset"}
    BY <1>9, ResetEffect, WentOthers
  <2>3. pc[u] = "reset" /\ my[u].todo # {}
    BY <1>9 DEF Reset
  <2>4. Opened /\ Opened'
    <3>1. Opened
      BY <2>3 DEF OpenInv
    <3> QED BY <2>1, <3>1 DEF Opened
  <2>5. ~Unopened
    BY <2>4, OpenOnce
  <2>6. snap'.status # "NONE" /\ \A v \in Users : pc'[v] # "checkpoints"
    BY <1>1, <2>1, <2>2, <2>5, OrderFacts DEF OpenInv, Others
  <2> QED BY <2>4, <2>6 DEF OpenInv
<1>10. CASE Overlook(u)
  <2>1. UNCHANGED <<snap, cp, files>>
    BY <1>10, OverlookEffect DEF tables, store
  <2>2. PICK m \in Holdings : /\ m.todo \subseteq my[u].todo
                             /\ \/ Went(u, "find", m) \/ Went(u, "reopen", m)
                                \/ pc[u] = "reset" /\ Went(u, "reset", m)
    BY <1>10, OverlookEffect
  <2>3. /\ pc'[u] \in {"find", "reopen", "reset"} /\ my'[u] = m
        /\ pc'[u] = "reset" => pc[u] = "reset"
    BY <2>2, WentOthers
  <2>4. pc'[u] = "reset" /\ m.todo # {} => Opened
    BY <2>2, <2>3 DEF OpenInv
  <2> QED BY <1>1, <2>1, <2>3, <2>4, OpenRest
<1> QED BY <1>2, <1>3, <1>4, <1>5, <1>6, <1>7, <1>8, <1>9, <1>10 DEF User

LEMMA OpenWorker ==
  ASSUME TypeInv, OpenInv, NEW w \in Workers, Worker(w)
  PROVE  OpenInv'
<1>1. w \in Actors /\ w \notin Users /\ Others(w) /\ Opens(w)
  BY WorkerOpens, StepForward, OrderFacts DEF Steps
<1>2. CASE UNCHANGED <<cp, files>>
  <2>1. pc'[w] \in Asking => Opened
    BY <1>1 DEF Opens, OpenInv, Unopened
  <2> QED BY <1>1, <1>2, <2>1, OpenRest DEF Opens
<1>3. CASE pc[w] \in Asking /\ \A q \in Resources : cp[q].status # "absent" => cp'[q].status # "absent"
  <2>1. Opened
    BY <1>3 DEF OpenInv
  <2>2. Opened' /\ ~Unopened
    BY <1>3, <2>1, OpenOnce DEF Opened
  <2>3. snap'.status # "NONE" /\ \A v \in Users : pc'[v] # "checkpoints"
    BY <1>1, <2>2, OrderFacts DEF OpenInv, Others, Opens
  <2> QED BY <2>2, <2>3 DEF OpenInv
<1> QED BY <1>1, <1>2, <1>3 DEF Opens

LEMMA OpenStep ==
  ASSUME TypeInv, OpenInv, NEW a \in Actors, Steps(a)
  PROVE  OpenInv'
<1>1. CASE Crash(a)
  <2>1. UNCHANGED <<snap, cp, files>> /\ pc'[a] = "idle" /\ Others(a)
    BY <1>1, CrashForward DEF tables, store
  <2>2. "idle" \notin Asking
    BY DEF Asking
  <2> QED BY <2>1, <2>2, OpenRest
<1> QED BY <1>1, OpenUser, OpenWorker DEF Steps

LEMMA OpenHolds == Spec => [](TypeInv /\ OpenInv)
<1> DEFINE Inv == TypeInv /\ OpenInv
<1>1. Init => Inv
  <2> SUFFICES ASSUME Init PROVE Inv
    OBVIOUS
  <2>1. /\ \A a \in Actors : pc[a] = "idle" /\ my[a] = Fresh
        /\ \A r \in Resources : cp[r] = NoCheckpoint /\ cp[r].status = "absent"
        /\ files = {}
    BY FreshFacts DEF Init
  <2>2. Unopened
    BY <2>1 DEF Unopened, SamePlace
  <2> QED BY <2>1, <2>2, InitTyped, OrderFacts DEF OpenInv, Asking
<1>2. Inv /\ [Next]_vars => Inv'
  <2> SUFFICES ASSUME Inv, [Next]_vars PROVE Inv'
    OBVIOUS
  <2>1. TypeInv'
    BY TypeKept
  <2>2. CASE Next
    <3>1. PICK a \in Actors : Steps(a)
      BY <2>2, NextSteps
    <3> QED BY <2>1, <3>1, OpenStep
  <2>3. CASE UNCHANGED vars
    <3>1. UNCHANGED <<snap, cp, files, pc, my>>
      BY <2>3 DEF vars, tables, store
    <3> QED BY <2>1, <3>1 DEF OpenInv, Unopened, Opened
  <2> QED BY <2>2, <2>3
<1> QED BY <1>1, <1>2, PTL DEF Spec

-----------------------------------------------------------------------------
(* While no worker is overtaken: what the files F and the checkpoints C    *)
(* say of one another, and of a worker at l that holds m.                  *)
Covers(F)    == \A q \in Required : CoveredBy(F, q)
Filed(F, C)  == \A r \in Resources : Sound(F, r, C[r]) /\ (C[r].status = "completed" => CoveredBy(F, r))
Grows(F, G)  == \A q \in Resources : CoveredBy(F, q) => CoveredBy(G, q)

AtPlace(F, C, l, m) ==
  LET r == m.res IN
  /\ l \in Extracting => SamePlace(m.cp, C[r]) \/ (l = "finish" /\ r \in Single)
  /\ l \in {"item", "record", "save"} =>
       /\ r \notin Single /\ m.rows = PageAt(r, C[r]) /\ PageAt(r, C[r]) # {}
       /\ PageFile(r, C[r]) \in F
  /\ l = "window" => r \in Partitioned /\ C[r].win \in DOMAIN Windows[r] /\ PageAt(r, C[r]) = {}
  /\ l = "finish" /\ m.verdict = "completed" => CoveredBy(F, r)
  /\ l = "finish" /\ r \in Single => m.cp.pages = OnlyNo(r)
  /\ l \in Extracting \cup {"giveUp"} => C[r].status \notin {"completed", "unsupported"}
AtWork(F, C, l, m) ==
  /\ AtPlace(F, C, l, m)
  /\ m.intended = "COMPLETE" => Covers(F)

RowTrue(s, F) == s.status = "COMPLETE" => s.report = "ok" /\ Covers(F)
StoreInv ==
  /\ Filed(files, cp)
  /\ \A w \in Workers : AtWork(files, cp, pc[w], my[w])
  /\ RowTrue(snap, files)

LEMMA AtRest ==
  ASSUME NEW F, NEW C, NEW l, NEW m, l \notin Extracting \cup {"giveUp"}, m.intended = "COMPLETE" => Covers(F)
  PROVE  AtWork(F, C, l, m)
BY DEF AtWork, AtPlace, Extracting, Asking

LEMMA CoversMore ==
  ASSUME NEW F, NEW G, Grows(F, G), Covers(F)
  PROVE  Covers(G)
BY OrderAssumption DEF Covers, Grows

(* A step that leaves files and checkpoints as they are.                   *)
LEMMA StoreRest ==
  ASSUME StoreInv, NEW a \in Actors, Others(a), UNCHANGED <<cp, files>>, RowTrue(snap', files),
         a \in Workers => AtWork(files, cp, pc'[a], my'[a])
  PROVE  StoreInv'
<1>1. \A w \in Workers : AtWork(files, cp, pc'[w], my'[w])
  BY OrderFacts DEF StoreInv, Others
<1>2. Filed(files, cp)' /\ RowTrue(snap', files')
  BY DEF StoreInv
<1>3. \A w \in Workers : AtWork(files', cp', pc'[w], my'[w])
  BY <1>1
<1> QED BY <1>2, <1>3 DEF StoreInv

(* One that the worker makes who alone is at work.                         *)
LEMMA StoreMoves ==
  ASSUME TypeInv, Fenced, StoreInv, NEW w \in Workers, Working(w), Others(w), UNCHANGED snap,
         Grows(files, files'), Filed(files', cp'), AtWork(files', cp', pc'[w], my'[w])
  PROVE  StoreInv'
<1>1. Covers(files) => Covers(files')
  BY CoversMore
<1>2. ASSUME NEW v \in Workers, v # w PROVE AtWork(files', cp', pc'[v], my'[v])
  <2>1. pc'[v] \in {"idle", "find", "insert"} /\ my'[v] = my[v]
    BY <1>2, OthersRest, OrderFacts DEF Others
  <2>2. pc'[v] \notin Extracting \cup {"giveUp"}
    BY <2>1 DEF Extracting, Asking
  <2>3. my[v].intended = "COMPLETE" => Covers(files')
    BY <1>1 DEF StoreInv, AtWork
  <2> QED BY <2>1, <2>2, <2>3, AtRest
<1>3. RowTrue(snap', files')
  BY <1>1 DEF StoreInv, RowTrue
<1> QED BY <1>2, <1>3 DEF StoreInv

-----------------------------------------------------------------------------
(* The steps that only read, or write the row of the snapshot.             *)
LEMMA StoreQueue ==
  ASSUME TypeInv, StoreInv, NEW w \in Workers, Claim(w) \/ Complete(w) \/ Find(w) \/ Insert(w)
  PROVE  StoreInv'
<1>1. UNCHANGED <<snap, cp, files>> /\ Others(w) /\ w \in Actors /\ pc'[w] \in {"idle", "find", "insert", "begin"}
  BY QueueForward, OrderFacts DEF store
<1>2. my'[w] = Fresh \/ my'[w] = my[w]
  BY <1>1, ClaimEffect, CompleteEffect, FindEffect, InsertEffect, WentOthers
<1>3. my'[w].intended = "COMPLETE" => Covers(files)
  BY <1>2, FreshFacts DEF StoreInv, AtWork
<1>4. AtWork(files, cp, pc'[w], my'[w])
  <2>1. pc'[w] \notin Extracting \cup {"giveUp"}
    BY <1>1 DEF Extracting, Asking
  <2> QED BY <1>3, <2>1, AtRest
<1> QED BY <1>1, <1>4, StoreRest DEF StoreInv

LEMMA StorePlain ==
  ASSUME TypeInv, StoreInv, NEW w \in Workers,
         \/ Begin(w) \/ Pick(w) \/ StepFails(w) \/ TokenExpires(w)
         \/ ReadSummary(w) \/ Remaining(w) \/ Validate(w) \/ Manifest(w) \/ FinalizeFails(w)
  PROVE  StoreInv'
<1>1. Others(w) /\ w \in Actors
  BY PlainForward, OrderFacts DEF Plain, Finalize
<1>2. UNCHANGED <<snap, cp, files>>
  BY BeginEffect, PickEffect, StepFailsEffect, TokenExpiresEffect, ReadSummaryEffect, RemainingEffect,
     ValidateEffect, ManifestEffect, FinalizeFailsEffect DEF tables, store
<1>3. my[w].intended = "COMPLETE" => Covers(files)
  BY DEF StoreInv, AtWork
<1> DEFINE Calm(l, m) == l \notin Extracting \cup {"giveUp"} /\ (m.intended = my[w].intended \/ m.intended = "none")
<1>4. \A l : l \in {"idle", "pick", "complete", "summary", "read", "write", "report", "refinalize"}
              => l \notin Extracting \cup {"giveUp"}
  BY DEF Extracting, Asking
<1>5. Calm(pc'[w], my'[w])
  <2>1. CASE Begin(w)
    BY <1>4, <2>1, BeginEffect, WentOthers, FreshFacts
  <2>2. CASE Pick(w)
    BY <1>4, <2>2, PickEffect, WentOthers
  <2>3. CASE StepFails(w)
    BY <1>4, <2>3, StepFailsEffect, WentOthers, FailingFacts
  <2>4. CASE TokenExpires(w)
    <3>1. CASE Went(w, "complete", Failing)
      BY <1>4, <3>1, WentOthers, FailingFacts
    <3>2. ASSUME NEW m \in Holdings, Went(w, "pick", m), m.intended = "none"
          PROVE  Calm(pc'[w], my'[w])
      BY <1>4, <3>2, WentOthers
    <3> QED BY <2>4, <3>1, <3>2, TokenExpiresEffect
  <2>5. CASE ReadSummary(w)
    BY <1>4, <2>5, ReadSummaryEffect, WentOthers DEF SameEnd
  <2>6. CASE Remaining(w)
    BY <1>4, <2>6, RemainingEffect, WentOthers
  <2>7. CASE Validate(w)
    BY <1>4, <2>7, ValidateEffect, WentOthers
  <2>8. CASE Manifest(w)
    BY <1>4, <2>8, ManifestEffect, WentOthers, FreshFacts
  <2>9. CASE FinalizeFails(w)
    BY <1>4, <2>9, FinalizeFailsEffect, WentOthers, FailingFacts
  <2> QED BY <2>1, <2>2, <2>3, <2>4, <2>5, <2>6, <2>7, <2>8, <2>9
<1>6. AtWork(files, cp, pc'[w], my'[w])
  BY <1>3, <1>5, AtRest
<1> QED BY <1>1, <1>2, <1>6, StoreRest DEF StoreInv

LEMMA StoreIntend ==
  ASSUME TypeInv, StoreInv, NEW w \in Workers, Intend(w)
  PROVE  StoreInv'
<1>1. Others(w) /\ w \in Actors /\ UNCHANGED <<snap, cp, files>>
  BY IntendEffect, PlainForward, OrderFacts DEF Plain, Finalize, tables, store
<1>2. PICK m \in Holdings : m.intended = ComputeStatus /\ (Went(w, "summary", m) \/ Went(w, "validate", m))
  BY IntendEffect
<1>3. pc'[w] \in {"summary", "validate"} /\ my'[w] = m
  BY <1>2, WentOthers
<1>4. m.intended = "COMPLETE" => Covers(files)
  BY <1>2, StatusFacts, OrderAssumption DEF StoreInv, Filed, Covers
<1>5. AtWork(files, cp, pc'[w], my'[w])
  <2>1. pc'[w] \notin Extracting \cup {"giveUp"}
    BY <1>3 DEF Extracting, Asking
  <2> QED BY <1>3, <1>4, <2>1, AtRest
<1> QED BY <1>1, <1>5, StoreRest DEF StoreInv

LEMMA StoreRow ==
  ASSUME TypeInv, StoreInv, NEW w \in Workers, WriteSummary(w) \/ SaveReport(w) \/ MarkRefinalizing(w)
  PROVE  StoreInv'
<1>1. Others(w) /\ w \in Actors
  BY PlainForward, OrderFacts DEF Plain, Finalize
<1>2. UNCHANGED <<cp, files>> /\ my'[w] = my[w]
  BY WriteSummaryEffect, SaveReportEffect, MarkRefinalizingEffect, WentOthers DEF store
<1>3. pc'[w] \in {"remaining", "intend", "validate", "manifest", "complete"}
  BY WriteSummaryEffect, SaveReportEffect, MarkRefinalizingEffect, WentOthers
<1>4. my[w].intended = "COMPLETE" => Covers(files)
  BY DEF StoreInv, AtWork
<1>5. RowTrue(snap', files)
  <2>1. CASE WriteSummary(w)
    BY <2>1, WriteSummaryEffect DEF Capped, RowTrue
  <2>2. CASE SaveReport(w)
    BY <1>4, <2>2, SaveReportEffect DEF FinalStatus, RowTrue
  <2>3. CASE MarkRefinalizing(w)
    BY <2>3, MarkRefinalizingEffect DEF RowTrue
  <2> QED BY <2>1, <2>2, <2>3
<1>6. AtWork(files, cp, pc'[w], my'[w])
  <2>1. pc'[w] \notin Extracting \cup {"giveUp"}
    BY <1>3 DEF Extracting, Asking
  <2> QED BY <1>2, <1>4, <2>1, AtRest
<1> QED BY <1>1, <1>2, <1>5, <1>6, StoreRest

LEMMA StoreReads ==
  ASSUME TypeInv, StoreInv, NEW w \in Workers,
         \/ ReadCheckpoint(w) \/ ReadBudget(w) \/ SetBudget(w) \/ ExtractionFails(w)
         \/ \E i \in Items : StoreBinary(w, i) \/ RecordCaptured(w, i) \/ SkipBinary(w, i) \/ MissBinary(w, i)
  PROVE  StoreInv'
<1>1. Others(w) /\ w \in Actors
  BY PlainForward, CapturingForward, OrderFacts DEF Plain, Capturing
<1>2. UNCHANGED <<cp, files>> /\ snap'.status = snap.status /\ snap'.report = snap.report
  BY ReadCheckpointEffect, ReadBudgetEffect, SetBudgetEffect, ExtractionFailsEffect, StoreBinaryEffect, EnteredTyped
     DEF tables, store
<1>3. AtPlace(files, cp, pc[w], my[w]) /\ (my[w].intended = "COMPLETE" => Covers(files))
  BY DEF StoreInv, AtWork
<1>4. AtWork(files, cp, pc'[w], my'[w])
  <2>1. CASE ReadCheckpoint(w)
    <3>1. CASE Went(w, "idle", Fresh)
      BY <1>3, <3>1, WentOthers, AtRest, FreshFacts DEF Extracting, Asking
    <3>2. CASE Went(w, "summary", my[w])
      BY <1>3, <3>2, WentOthers, AtRest DEF Extracting, Asking
    <3>3. ASSUME NEW m \in Holdings, Went(w, "mark", m), m.res = my[w].res, m.cp = cp[m.res],
                 cp[m.res].status \notin {"completed", "unsupported"}, SameEnd(m, my[w])
          PROVE  AtWork(files, cp, pc'[w], my'[w])
      <4>1. pc'[w] = "mark" /\ my'[w] = m /\ m.intended = my[w].intended
        BY <3>3, WentOthers DEF SameEnd
      <4> QED BY <1>3, <3>3, <4>1 DEF AtWork, AtPlace, SamePlace
    <3> QED BY <2>1, <3>1, <3>2, <3>3, ReadCheckpointEffect
  <2>2. CASE ReadBudget(w)
    <3>1. PICK m \in Holdings : /\ m.res = my[w].res /\ m.cp = my[w].cp /\ SameEnd(m, my[w])
                                /\ Went(w, "page", m) \/ Went(w, "giveUp", m) \/ Went(w, "setBudget", m)
      BY <2>2, ReadBudgetEffect
    <3>2. pc'[w] \in {"page", "giveUp", "setBudget"} /\ my'[w] = m /\ m.intended = my[w].intended /\ pc[w] = "budget"
      BY <2>2, <3>1, WentOthers, ReadBudgetEffect DEF SameEnd
    <3> QED BY <1>3, <3>1, <3>2 DEF AtWork, AtPlace, Extracting, Asking
  <2>3. CASE SetBudget(w)
    <3>1. pc'[w] = "page" /\ my'[w] = my[w] /\ pc[w] = "setBudget"
      BY <2>3, SetBudgetEffect, WentOthers
    <3> QED BY <1>3, <3>1 DEF AtWork, AtPlace, Extracting, Asking
  <2>4. CASE ExtractionFails(w)
    <3>1. PICK m \in Holdings : SameData(m, my[w]) /\ SameEnd(m, my[w]) /\ Went(w, "giveUp", m)
      BY <2>4, ExtractionFailsEffect
    <3>2. /\ pc'[w] = "giveUp" /\ my'[w] = m /\ m.intended = my[w].intended /\ m.res = my[w].res
          /\ pc[w] \in Extracting
      BY <2>4, <3>1, WentOthers, ExtractionFailsEffect DEF SameEnd, SameData
    <3> QED BY <1>3, <3>1, <3>2 DEF AtWork, AtPlace, Extracting, Asking
  <2>5. ASSUME NEW i \in Items, StoreBinary(w, i) PROVE AtWork(files, cp, pc'[w], my'[w])
    <3>1. pc'[w] = "record" /\ my'[w] = my[w] /\ pc[w] = "item"
      BY <2>5, StoreBinaryEffect, WentOthers
    <3> QED BY <1>3, <3>1 DEF AtWork, AtPlace, Extracting, Asking
  <2>6. ASSUME NEW i \in Items, RecordCaptured(w, i) \/ SkipBinary(w, i) \/ MissBinary(w, i)
        PROVE  AtWork(files, cp, pc'[w], my'[w])
    <3>1. PICK o \in Outcomes \ {"none"} : Entered(w, i, o)
      BY <2>6, EnteredTyped
    <3>2. PICK m \in Holdings : /\ m.res = my[w].res /\ m.rows = my[w].rows /\ m.cp = my[w].cp
                                /\ SameEnd(m, my[w])
                                /\ Went(w, "save", m) \/ Went(w, "item", m)
      BY <3>1 DEF Entered
    <3>3. /\ pc'[w] \in {"save", "item"} /\ my'[w] = m /\ m.intended = my[w].intended
          /\ pc[w] \in {"item", "record"}
      BY <2>6, <3>2, WentOthers, EnteredTyped DEF SameEnd
    <3> QED BY <1>3, <3>2, <3>3 DEF AtWork, AtPlace, Extracting, Asking
  <2> QED BY <2>1, <2>2, <2>3, <2>4, <2>5, <2>6
<1>5. RowTrue(snap', files)
  BY <1>2 DEF StoreInv, RowTrue
<1> QED BY <1>1, <1>2, <1>4, <1>5, StoreRest

(* The steps that write checkpoints or files.                              *)
LEMMA FiledStep ==
  ASSUME NEW F, NEW C, Filed(F, C), NEW r \in Resources, NEW D, \A q \in Resources \ {r} : D[q] = C[q],
         NEW G, G = F \/ \E p : p.res = r /\ p.rows \subseteq Records(r) /\ G = F \cup {p},
         Sound(G, r, D[r]), D[r].status = "completed" => CoveredBy(G, r)
  PROVE  Filed(G, D) /\ Grows(F, G)
<1>1. ASSUME NEW q \in Resources, CoveredBy(F, q) PROVE CoveredBy(G, q)
  <2>1. ASSUME NEW p, p.res = r, p.rows \subseteq Records(r), G = F \cup {p} PROVE CoveredBy(G, q)
    BY <1>1, <2>1, CoveredMore
  <2> QED BY <1>1, <2>1
<1>2. ASSUME NEW q \in Resources \ {r} PROVE Sound(G, q, D[q])
  <2>1. Sound(F, q, D[q])
    BY DEF Filed
  <2>2. ASSUME NEW p, p.res = r, G = F \cup {p} PROVE Sound(G, q, D[q])
    BY <2>1, <2>2, SoundElse
  <2> QED BY <2>1, <2>2
<1>3. ASSUME NEW q \in Resources PROVE Sound(G, q, D[q]) /\ (D[q].status = "completed" => CoveredBy(G, q))
  BY <1>1, <1>2 DEF Filed
<1> QED BY <1>1, <1>3 DEF Filed, Grows

LEMMA InHand ==
  ASSUME TypeInv, StoreInv, NEW w \in Workers, pc[w] \in Asking
  PROVE  LET r == my[w].res IN
         /\ w \in Actors /\ r \in Resources /\ cp[r] \in Checkpoints /\ cp[r].next # 0
         /\ files \in SUBSET FileType
         /\ Sound(files, r, cp[r]) /\ (cp[r].status = "completed" => CoveredBy(files, r))
         /\ Filed(files, cp)
         /\ AtPlace(files, cp, pc[w], my[w]) /\ (my[w].intended = "COMPLETE" => Covers(files))
         /\ my[w].cp \in Checkpoints /\ my[w].cp.next # 0
<1>1. my[w].res \in Resources /\ w \in Actors /\ cp[my[w].res] \in Checkpoints /\ cp[my[w].res].next # 0
      /\ my[w].cp \in Checkpoints /\ my[w].cp.next # 0
  BY CountFacts
<1>2. files \in SUBSET FileType
  BY DEF TypeInv, TypeOK, FileType
<1> QED BY <1>1, <1>2 DEF StoreInv, Filed, AtWork

LEMMA DealtRest ==
  ASSUME TypeInv, NEW w \in Workers, NEW F, NEW C
  PROVE  AtWork(F, C, "summary", Dealt(my[w]))
<1>1. my[w] \in Holdings
  BY Held, OrderFacts
<1>2. Dealt(my[w]).intended = "none"
  BY <1>1, WithDealt
<1>3. "summary" \notin Extracting \cup {"giveUp"}
  BY DEF Extracting, Asking
<1> QED BY <1>2, <1>3, AtRest

LEMMA StoreMark ==
  ASSUME TypeInv, Fenced, StoreInv, NEW w \in Workers, MarkRunning(w)
  PROVE  StoreInv'
<1> DEFINE r == my[w].res
<1>1. pc[w] = "mark" /\ UNCHANGED <<snap, files>> /\ \A q \in Resources \ {r} : cp'[q] = cp[q]
  BY MarkRunningEffect
<1>2. cp'[r].status = "running" /\ cp'[r].win = cp[r].win /\ cp'[r].next = cp[r].next /\ cp'[r].pages = cp[r].pages
  BY MarkRunningEffect
<1>3. pc'[w] \in {"budget", "page"} /\ my'[w] = my[w]
  BY MarkRunningEffect, WentOthers
<1>4. Working(w) /\ Others(w)
  BY PlainForward DEF Plain
<1>5. /\ r \in Resources /\ Sound(files, r, cp[r]) /\ Filed(files, cp)
      /\ AtPlace(files, cp, pc[w], my[w]) /\ (my[w].intended = "COMPLETE" => Covers(files))
  BY <1>1, InHand DEF Asking
<1>6. SamePlace(cp[r], cp'[r]) /\ SamePlace(my[w].cp, cp[r])
  BY <1>1, <1>2, <1>5 DEF SamePlace, AtPlace, Extracting, Asking
<1>7. Sound(files', r, cp'[r])
  BY <1>1, <1>5, <1>6, SoundThere
<1>8. Filed(files', cp') /\ Grows(files, files')
  BY <1>1, <1>2, <1>5, <1>7, FiledStep
<1>9. AtWork(files', cp', pc'[w], my'[w])
  <2>1. SamePlace(my[w].cp, cp'[r])
    BY <1>6 DEF SamePlace
  <2>2. AtPlace(files', cp', pc'[w], my'[w])
    BY <1>2, <1>3, <2>1 DEF AtPlace
  <2> QED BY <1>1, <1>3, <1>5, <2>2 DEF AtWork
<1> QED BY <1>1, <1>4, <1>8, <1>9, StoreMoves

LEMMA StoreGiveUp ==
  ASSUME TypeInv, Fenced, StoreInv, NEW w \in Workers, GiveUp(w)
  PROVE  StoreInv'
<1> DEFINE r == my[w].res
<1>1. pc[w] = "giveUp" /\ UNCHANGED <<snap, files>> /\ \A q \in Resources \ {r} : cp'[q] = cp[q]
  BY GiveUpEffect
<1>2. /\ cp'[r].status \in {"failed", "unsupported"} /\ cp'[r].win = cp[r].win /\ cp'[r].next = cp[r].next
      /\ cp'[r].pages = cp[r].pages
  BY GiveUpEffect
<1>3. pc'[w] = "summary" /\ my'[w] = Dealt(my[w])
  BY GiveUpEffect, WentOthers
<1>4. Working(w) /\ Others(w)
  BY PlainForward DEF Plain
<1>5. r \in Resources /\ Sound(files, r, cp[r]) /\ Filed(files, cp)
  BY <1>1, InHand DEF Asking
<1>6. SamePlace(cp[r], cp'[r])
  BY <1>2 DEF SamePlace
<1>7. Sound(files', r, cp'[r])
  BY <1>1, <1>5, <1>6, SoundThere
<1>8. Filed(files', cp') /\ Grows(files, files')
  BY <1>1, <1>2, <1>5, <1>7, FiledStep
<1>9. AtWork(files', cp', pc'[w], my'[w])
  BY <1>3, DealtRest
<1> QED BY <1>1, <1>4, <1>8, <1>9, StoreMoves

LEMMA StoreFinish ==
  ASSUME TypeInv, Fenced, StoreInv, NEW w \in Workers, Finish(w)
  PROVE  StoreInv'
<1> DEFINE r == my[w].res
<1>1. pc[w] = "finish" /\ UNCHANGED <<snap, files>> /\ \A q \in Resources \ {r} : cp'[q] = cp[q]
  BY FinishEffect
<1>2. /\ cp'[r].status = my[w].verdict /\ cp'[r].win = cp[r].win /\ cp'[r].next = cp[r].next
      /\ cp'[r].pages = my[w].cp.pages
  BY FinishEffect
<1>3. pc'[w] = "summary" /\ my'[w] = Dealt(my[w])
  BY FinishEffect, WentOthers
<1>4. Working(w) /\ Others(w)
  BY PlainForward DEF Plain
<1>5. /\ r \in Resources /\ Sound(files, r, cp[r]) /\ Filed(files, cp)
      /\ AtPlace(files, cp, pc[w], my[w])
  BY <1>1, InHand DEF Asking
<1>6. /\ SamePlace(my[w].cp, cp[r]) \/ r \in Single
      /\ r \in Single => my[w].cp.pages = OnlyNo(r)
      /\ my[w].verdict = "completed" => CoveredBy(files, r)
  BY <1>1, <1>5 DEF AtPlace, Extracting, Asking
<1>7. Sound(files', r, cp'[r])
  <2>1. CASE r \in Single
    <3>1. OnlyNo(r) <= OnlyNo(r)
      BY DEF OnlyNo
    <3> QED BY <1>1, <1>2, <1>5, <1>6, <2>1, <3>1, SoundCounted
  <2>2. CASE r \notin Single
    <3>1. SamePlace(cp[r], cp'[r])
      BY <1>2, <1>6, <2>2 DEF SamePlace
    <3> QED BY <1>1, <1>5, <3>1, SoundThere
  <2> QED BY <2>1, <2>2
<1>8. Filed(files', cp') /\ Grows(files, files')
  BY <1>1, <1>2, <1>5, <1>6, <1>7, FiledStep
<1>9. AtWork(files', cp', pc'[w], my'[w])
  BY <1>3, DealtRest
<1> QED BY <1>1, <1>4, <1>8, <1>9, StoreMoves

LEMMA StoreEmpty ==
  ASSUME TypeInv, Fenced, StoreInv, NEW w \in Workers, EmptyPage(w)
  PROVE  StoreInv'
<1> DEFINE r == my[w].res
           c == my[w].cp
<1>1. /\ pc[w] = "page" /\ UNCHANGED <<snap, files>> /\ \A q \in Resources \ {r} : cp'[q] = cp[q]
      /\ r \notin Single /\ PageAt(r, c) = {} /\ cp'[r].status = cp[r].status /\ cp'[r].pages = cp[r].pages
  BY EmptyPageEffect
<1>2. Working(w) /\ Others(w)
  BY PlainForward DEF Plain
<1>3. /\ r \in Resources /\ Sound(files, r, cp[r]) /\ Filed(files, cp) /\ cp[r] \in Checkpoints /\ cp[r].next # 0
      /\ AtPlace(files, cp, pc[w], my[w]) /\ (my[w].intended = "COMPLETE" => Covers(files))
      /\ (cp[r].status = "completed" => CoveredBy(files, r))
  BY <1>1, InHand DEF Asking
<1>4. SamePlace(c, cp[r]) /\ PageAt(r, cp[r]) = {} /\ cp[r].status \notin {"completed", "unsupported"}
  BY <1>1, <1>3, SamePage DEF AtPlace, Extracting, Asking
<1>5. PICK m \in Holdings :
        /\ m.res = r /\ m.cp.win = c.win /\ m.cp.next = c.next /\ m.cp.pages = c.pages /\ SameEnd(m, my[w])
        /\ \/ /\ r \in Partitioned /\ c.win \in DOMAIN Windows[r] /\ Went(w, "window", m)
              /\ cp'[r].win = c.win /\ cp'[r].next = c.next
           \/ /\ r \notin Partitioned \/ c.win \notin DOMAIN Windows[r]
              /\ m.verdict = "completed" /\ Went(w, "finish", m) /\ UNCHANGED cp
  BY EmptyPageEffect
<1>6. my'[w] = m /\ m.intended = my[w].intended
  BY <1>5, WentOthers DEF SameEnd
<1>7. SamePlace(cp[r], cp'[r])
  BY <1>1, <1>4, <1>5 DEF SamePlace
<1>8. Sound(files', r, cp'[r]) /\ PageAt(r, cp'[r]) = {}
  BY <1>1, <1>3, <1>4, <1>7, SoundThere, SamePage
<1>9. Filed(files', cp') /\ Grows(files, files')
  BY <1>1, <1>3, <1>8, FiledStep
<1>10. SamePlace(m.cp, cp'[r])
  BY <1>4, <1>5, <1>7 DEF SamePlace
<1>11. AtPlace(files', cp', pc'[w], my'[w])
  <2>1. CASE r \in Partitioned /\ c.win \in DOMAIN Windows[r] /\ Went(w, "window", m) /\ cp'[r].win = c.win
    <3>1. pc'[w] = "window"
      BY <2>1, WentOthers
    <3> QED BY <1>1, <1>4, <1>5, <1>6, <1>8, <1>10, <2>1, <3>1 DEF AtPlace
  <2>2. CASE (r \notin Partitioned \/ c.win \notin DOMAIN Windows[r]) /\ Went(w, "finish", m) /\ UNCHANGED cp
    <3>1. pc'[w] = "finish" /\ c.win = cp[r].win
      BY <1>4, <2>2, WentOthers DEF SamePlace
    <3>2. CoveredBy(files', r)
      BY <1>1, <1>3, <1>4, <2>2, <3>1, SoundCovered
    <3> QED BY <1>1, <1>4, <1>5, <1>6, <1>10, <3>1, <3>2 DEF AtPlace
  <2> QED BY <1>5, <2>1, <2>2
<1>12. AtWork(files', cp', pc'[w], my'[w])
  BY <1>1, <1>3, <1>6, <1>11 DEF AtWork
<1> QED BY <1>1, <1>2, <1>9, <1>12, StoreMoves

LEMMA StoreWrite ==
  ASSUME TypeInv, Fenced, StoreInv, NEW w \in Workers, WritePage(w)
  PROVE  StoreInv'
<1> DEFINE r == my[w].res
           c == my[w].cp
           p == PageFile(r, cp[r])
<1>1. /\ pc[w] = "page" /\ UNCHANGED <<snap, cp>> /\ r \notin Single /\ PageAt(r, c) # {}
      /\ files' = Stored(r, c.pages + 1, PageAt(r, c))
  BY WritePageEffect
<1>2. Working(w) /\ Others(w)
  BY CapturingForward DEF Capturing
<1>3. /\ r \in Resources /\ Sound(files, r, cp[r]) /\ Filed(files, cp) /\ cp[r] \in Checkpoints /\ cp[r].next # 0
      /\ AtPlace(files, cp, pc[w], my[w]) /\ (my[w].intended = "COMPLETE" => Covers(files))
      /\ (cp[r].status = "completed" => CoveredBy(files, r)) /\ files \in SUBSET FileType
  BY <1>1, InHand DEF Asking
<1>4. SamePlace(c, cp[r]) /\ cp[r].status \notin {"completed", "unsupported"}
  BY <1>1, <1>3 DEF AtPlace, Extracting, Asking
<1>5. PageAt(r, c) = PageAt(r, cp[r]) /\ c.pages = cp[r].pages
  BY <1>4, SamePage DEF SamePlace
<1>6. PICK m \in Holdings : /\ m.rows = PageAt(r, c) /\ m.res = r /\ m.cp = c /\ SameEnd(m, my[w])
                            /\ Went(w, "save", m) \/ Went(w, "item", m)
  BY WritePageEffect
<1>7. pc'[w] \in {"save", "item"} /\ my'[w] = m /\ m.intended = my[w].intended
  BY <1>6, WentOthers DEF SameEnd
<1>8. /\ {f \in files : f.res # r \/ f.page # cp[r].pages + 1} \cup {p} = files \cup {p}
      /\ Sound(files \cup {p}, r, cp[r])
      /\ PageAt(r, cp[r]) \subseteq Records(r)
  BY <1>1, <1>3, <1>5, SoundWritten
<1>9. p.res = r /\ p.rows = PageAt(r, cp[r]) /\ files' = files \cup {p}
  BY <1>1, <1>5, <1>8 DEF Stored, PageFile
<1> HIDE DEF p
<1>10. Sound(files', r, cp'[r])
  BY <1>1, <1>8, <1>9
<1>11. Filed(files', cp') /\ Grows(files, files')
  <2>1. files' = files \/ \E q : q.res = r /\ q.rows \subseteq Records(r) /\ files' = files \cup {q}
    BY <1>8, <1>9
  <2>2. cp'[r].status = "completed" => CoveredBy(files', r)
    BY <1>1, <1>4
  <2> QED BY <1>1, <1>3, <1>10, <2>1, <2>2, FiledStep
<1>12. AtPlace(files', cp', pc'[w], my'[w])
  <2>1. PageFile(r, cp[r]) \in files'
    BY <1>9 DEF p
  <2> QED BY <1>1, <1>4, <1>5, <1>6, <1>7, <2>1 DEF AtPlace
<1>13. my'[w].intended = "COMPLETE" => Covers(files')
  BY <1>3, <1>7, <1>11, CoversMore
<1> QED BY <1>1, <1>2, <1>11, <1>12, <1>13, StoreMoves DEF AtWork

LEMMA StoreSingle ==
  ASSUME TypeInv, Fenced, StoreInv, NEW w \in Workers, WriteSingle(w)
  PROVE  StoreInv'
<1> DEFINE r == my[w].res
           p == OnlyPage(r)
<1>1. /\ pc[w] = "page" /\ UNCHANGED <<snap, cp>> /\ r \in Resources \cap Single
      /\ Windows[r][1] = 0 => UNCHANGED files
      /\ Windows[r][1] # 0 => files' = Stored(r, 1, OnlyRows(r))
  BY WriteSingleEffect
<1>2. Working(w) /\ Others(w)
  BY PlainForward DEF Plain
<1>3. /\ Sound(files, r, cp[r]) /\ Filed(files, cp) /\ AtPlace(files, cp, pc[w], my[w])
      /\ (my[w].intended = "COMPLETE" => Covers(files)) /\ files \in SUBSET FileType
      /\ (cp[r].status = "completed" => CoveredBy(files, r))
  BY <1>1, InHand DEF Asking
<1>4. cp[r].status \notin {"completed", "unsupported"}
  BY <1>1, <1>3 DEF AtPlace, Extracting, Asking
<1>5. PICK m \in Holdings : /\ m.res = r /\ m.cp.pages = OnlyNo(r) /\ m.verdict = "completed"
                            /\ SameEnd(m, my[w]) /\ Went(w, "finish", m)
  BY WriteSingleEffect
<1>6. pc'[w] = "finish" /\ my'[w] = m /\ m.intended = my[w].intended
  BY <1>5, WentOthers DEF SameEnd
<1>7. /\ {f \in files : f.res # r \/ f.page # 1} \cup {p} = files \cup {p}
      /\ Sound(files \cup {p}, r, cp[r]) /\ CoveredBy(files \cup {p}, r)
      /\ Windows[r][1] = 0 => CoveredBy(files, r)
  BY <1>1, <1>3, SoundOnly
<1>8. p.res = r /\ p.rows = OnlyRows(r) /\ OnlyRows(r) = Records(r)
  BY <1>1, OneWindow, OrderAssumption DEF OnlyPage
<1>9. files' = files \/ files' = files \cup {p}
  BY <1>1, <1>7 DEF Stored, OnlyPage
<1>10. Sound(files', r, cp'[r]) /\ CoveredBy(files', r)
  <2>1. CASE Windows[r][1] = 0
    BY <1>1, <1>3, <1>7, <2>1
  <2>2. CASE Windows[r][1] # 0
    <3>1. files' = files \cup {p}
      BY <1>1, <1>7, <2>2 DEF Stored, OnlyPage
    <3> QED BY <1>1, <1>7, <3>1
  <2> QED BY <2>1, <2>2
<1> HIDE DEF p
<1>11. Filed(files', cp') /\ Grows(files, files')
  <2>1. files' = files \/ \E q : q.res = r /\ q.rows \subseteq Records(r) /\ files' = files \cup {q}
    BY <1>8, <1>9
  <2> QED BY <1>1, <1>3, <1>10, <2>1, FiledStep
<1>12. AtPlace(files', cp', pc'[w], my'[w])
  BY <1>1, <1>4, <1>5, <1>6, <1>10 DEF AtPlace
<1>13. my'[w].intended = "COMPLETE" => Covers(files')
  BY <1>3, <1>6, <1>11, CoversMore
<1> QED BY <1>1, <1>2, <1>11, <1>12, <1>13, StoreMoves DEF AtWork

LEMMA StoreSave ==
  ASSUME TypeInv, Fenced, StoreInv, NEW w \in Workers, SavePage(w)
  PROVE  StoreInv'
<1> DEFINE r == my[w].res
           n == Cardinality(my[w].rows)
<1>1. /\ pc[w] = "save" /\ UNCHANGED <<snap, files>> /\ \A q \in Resources \ {r} : cp'[q] = cp[q]
      /\ cp'[r].status = cp[r].status /\ cp'[r].win = my[w].cp.win
      /\ cp'[r].next = my[w].cp.next + n /\ cp'[r].pages = my[w].cp.pages + 1
  BY SavePageEffect
<1>2. Working(w) /\ Others(w)
  BY CapturingForward DEF Capturing
<1>3. /\ r \in Resources /\ Sound(files, r, cp[r]) /\ Filed(files, cp) /\ cp[r] \in Checkpoints /\ cp[r].next # 0
      /\ AtPlace(files, cp, pc[w], my[w]) /\ (my[w].intended = "COMPLETE" => Covers(files))
      /\ (cp[r].status = "completed" => CoveredBy(files, r)) /\ files \in SUBSET FileType
  BY <1>1, InHand DEF Asking
<1>4. /\ SamePlace(my[w].cp, cp[r]) /\ cp[r].status \notin {"completed", "unsupported"}
      /\ r \notin Single /\ my[w].rows = PageAt(r, cp[r]) /\ PageAt(r, cp[r]) # {}
      /\ PageFile(r, cp[r]) \in files
  BY <1>1, <1>3 DEF AtPlace, Extracting, Asking
<1>5. /\ cp'[r].win = cp[r].win /\ cp'[r].next = cp[r].next + Cardinality(PageAt(r, cp[r]))
      /\ cp'[r].pages = cp[r].pages + 1
  BY <1>1, <1>4 DEF SamePlace
<1>6. cp'[r] \in Checkpoints
  BY <1>3, SavePageEffect DEF TypeInv, TypeOK
<1>7. PICK d \in Checkpoints : d = cp'[r]
  BY <1>6
<1>8. Sound(files', r, cp'[r])
  BY <1>1, <1>3, <1>4, <1>5, <1>7, SoundSaved
<1>9. d.next # 0 /\ n <= PageSize /\ (n # PageSize => PageAt(r, d) = {})
  BY <1>3, <1>4, <1>5, <1>7, UptoSaved
<1>10. cp[r].win \in DOMAIN Windows[r]
  BY <1>3, <1>4, PageCount
<1>11. Filed(files', cp') /\ Grows(files, files')
  BY <1>1, <1>3, <1>8, FiledStep
<1>12. PICK m \in Holdings :
         /\ m.res = r /\ SameEnd(m, my[w])
         /\ m.cp.win = my[w].cp.win /\ m.cp.next = cp'[r].next /\ m.cp.pages = cp'[r].pages
         /\ \/ n = PageSize /\ Went(w, "page", m)
            \/ n = PageSize /\ m.verdict = "running" /\ Went(w, "finish", m)
            \/ n # PageSize /\ r \in Partitioned /\ Went(w, "window", m)
            \/ /\ ~(n <= PageSize /\ n # PageSize /\ r \in Partitioned)
               /\ n # PageSize /\ m.verdict = "completed" /\ Went(w, "finish", m)
  BY SavePageEffect
<1>13. my'[w] = m /\ m.intended = my[w].intended
  BY <1>12, WentOthers DEF SameEnd
<1>14. SamePlace(m.cp, cp'[r])
  BY <1>1, <1>12 DEF SamePlace
<1> HIDE DEF n
<1>15. AtPlace(files', cp', pc'[w], my'[w])
  <2>1. CASE n = PageSize /\ Went(w, "page", m)
    <3>1. pc'[w] = "page"
      BY <2>1, WentOthers
    <3> QED BY <1>1, <1>4, <1>12, <1>13, <1>14, <3>1 DEF AtPlace
  <2>2. CASE n = PageSize /\ m.verdict = "running" /\ Went(w, "finish", m)
    <3>1. pc'[w] = "finish"
      BY <2>2, WentOthers
    <3> QED BY <1>1, <1>4, <1>12, <1>13, <1>14, <2>2, <3>1 DEF AtPlace
  <2>3. CASE n # PageSize /\ r \in Partitioned /\ Went(w, "window", m)
    <3>1. pc'[w] = "window"
      BY <2>3, WentOthers
    <3> QED BY <1>1, <1>4, <1>5, <1>7, <1>9, <1>10, <1>12, <1>13, <1>14, <2>3, <3>1 DEF AtPlace
  <2>4. CASE r \notin Partitioned /\ n # PageSize /\ m.verdict = "completed" /\ Went(w, "finish", m)
    <3>1. pc'[w] = "finish"
      BY <2>4, WentOthers
    <3>2. CoveredBy(files', r)
      BY <1>1, <1>3, <1>4, <1>7, <1>8, <1>9, <2>4, SoundCovered
    <3> QED BY <1>1, <1>4, <1>12, <1>13, <1>14, <3>1, <3>2 DEF AtPlace
  <2> QED BY <1>9, <1>12, <2>1, <2>2, <2>3, <2>4
<1>16. AtWork(files', cp', pc'[w], my'[w])
  BY <1>1, <1>3, <1>13, <1>15 DEF AtWork
<1> QED BY <1>1, <1>2, <1>11, <1>16, StoreMoves

LEMMA StoreWindow ==
  ASSUME TypeInv, Fenced, StoreInv, NEW w \in Workers, SaveWindow(w)
  PROVE  StoreInv'
<1> DEFINE r == my[w].res
<1>1. /\ pc[w] = "window" /\ UNCHANGED <<snap, files>> /\ \A q \in Resources \ {r} : cp'[q] = cp[q]
      /\ cp'[r].status = cp[r].status /\ cp'[r].win = my[w].cp.win + 1 /\ cp'[r].next = 1
      /\ cp'[r].pages = cp[r].pages
  BY SaveWindowEffect
<1>2. Working(w) /\ Others(w)
  BY PlainForward DEF Plain
<1>3. /\ r \in Resources /\ Sound(files, r, cp[r]) /\ Filed(files, cp) /\ cp[r] \in Checkpoints /\ cp[r].next # 0
      /\ AtPlace(files, cp, pc[w], my[w]) /\ (my[w].intended = "COMPLETE" => Covers(files))
      /\ (cp[r].status = "completed" => CoveredBy(files, r)) /\ files \in SUBSET FileType
  BY <1>1, InHand DEF Asking
<1>4. /\ SamePlace(my[w].cp, cp[r]) /\ cp[r].status \notin {"completed", "unsupported"}
      /\ r \in Partitioned /\ cp[r].win \in DOMAIN Windows[r] /\ PageAt(r, cp[r]) = {}
  BY <1>1, <1>3 DEF AtPlace, Extracting, Asking
<1>5. cp'[r] \in Checkpoints
  BY <1>3, SaveWindowEffect DEF TypeInv, TypeOK
<1>6. PICK d \in Checkpoints : d = cp'[r]
  BY <1>5
<1>7. d.win = cp[r].win + 1 /\ d.next = 1 /\ d.pages = cp[r].pages
  BY <1>1, <1>4, <1>6 DEF SamePlace
<1>8. Sound(files', r, d)
  BY <1>1, <1>3, <1>4, <1>7, SoundMoved
<1>9. Filed(files', cp') /\ Grows(files, files')
  BY <1>1, <1>3, <1>6, <1>8, FiledStep
<1>10. PICK m \in Holdings : /\ m.res = r /\ SameEnd(m, my[w])
                             /\ m.cp.win = my[w].cp.win + 1 /\ m.cp.next = 1
                             /\ m.cp.pages = my[w].cp.pages
                             /\ m.verdict \in {"running", "completed"}
                             /\ m.verdict = "completed" => m.cp.win \notin DOMAIN Windows[r]
                             /\ Went(w, "finish", m)
  BY SaveWindowEffect
<1>11. pc'[w] = "finish" /\ my'[w] = m /\ m.intended = my[w].intended
  BY <1>10, WentOthers DEF SameEnd
<1>12. SamePlace(m.cp, cp'[r])
  BY <1>1, <1>4, <1>10 DEF SamePlace
<1>13. ASSUME m.verdict = "completed" PROVE CoveredBy(files', r)
  <2>1. d.win \notin DOMAIN Windows[r] /\ r \notin Single
    BY <1>3, <1>6, <1>10, <1>12, <1>13, <1>4, OrderAssumption DEF SamePlace
  <2>2. PageAt(r, d) = {} /\ d.next # 0
    BY <1>7, <2>1 DEF PageAt
  <2> QED BY <1>1, <1>3, <1>8, <2>1, <2>2, SoundCovered
<1>14. AtPlace(files', cp', pc'[w], my'[w])
  <2>1. r \notin Single
    BY <1>4, OrderAssumption
  <2> QED BY <1>1, <1>4, <1>10, <1>11, <1>12, <1>13, <2>1 DEF AtPlace
<1>15. AtWork(files', cp', pc'[w], my'[w])
  BY <1>1, <1>3, <1>11, <1>14 DEF AtWork
<1> QED BY <1>1, <1>2, <1>9, <1>15, StoreMoves

(* A checkpoint may be set to pending at any time.                         *)
LEMMA FiledReset ==
  ASSUME NEW F, NEW C, NEW D,
         \A q \in Resources : SamePlace(C[q], D[q]) /\ (D[q].status = C[q].status \/ D[q].status = "pending")
  PROVE  /\ Filed(F, C) => Filed(F, D)
         /\ \A l, m : AtPlace(F, C, l, m) /\ (l \in Asking => m.res \in Resources) => AtPlace(F, D, l, m)
<1>1. ASSUME NEW q \in Resources
      PROVE  /\ PageAt(q, C[q]) = PageAt(q, D[q]) /\ PageFile(q, C[q]) = PageFile(q, D[q])
             /\ C[q].win = D[q].win
             /\ \A c : SamePlace(c, C[q]) => SamePlace(c, D[q])
             /\ \A G : Sound(G, q, C[q]) => Sound(G, q, D[q])
  <2>1. PageAt(q, C[q]) = PageAt(q, D[q])
    BY SamePage
  <2>2. \A G : Sound(G, q, C[q]) => Sound(G, q, D[q])
    BY SoundThere
  <2> QED BY <2>1, <2>2 DEF PageFile, SamePlace
<1>2. ASSUME Filed(F, C) PROVE Filed(F, D)
  BY <1>1, <1>2 DEF Filed
<1>3. ASSUME NEW l, NEW m, AtPlace(F, C, l, m), l \in Asking => m.res \in Resources
      PROVE  AtPlace(F, D, l, m)
  <2>1. CASE l \in Asking
    BY <1>1, <1>3, <2>1 DEF AtPlace
  <2>2. CASE l \notin Asking
    BY <2>2 DEF AtPlace, Extracting, Asking
  <2> QED BY <2>1, <2>2
<1> QED BY <1>2, <1>3

LEMMA StoreUser ==
  ASSUME TypeInv, OpenInv, StoreInv, NEW u \in Users, User(u)
  PROVE  StoreInv'
<1>1. u \in Actors /\ u \notin Workers /\ Others(u) /\ UNCHANGED files
  BY UserForward, OrderFacts
<1>2. \A w \in Workers : pc'[w] = pc[w] /\ my'[w] = my[w]
  BY <1>1, OrderFacts DEF Others
<1>3. CASE Create(u) \/ Reopen(u)
  <2>1. UNCHANGED cp /\ snap'.status = "RUNNING"
    BY <1>3, ReopenEffect DEF Create, store, TypeInv, TypeOK
  <2> QED BY <1>1, <2>1, StoreRest DEF RowTrue
<1>4. CASE Find(u) \/ Insert(u) \/ Retry(u) \/ List(u) \/ Overlook(u)
  <2>1. UNCHANGED <<snap, cp>>
    BY <1>4 DEF Find, Insert, Retry, List, Overlook, tables, store
  <2> QED BY <1>1, <2>1, StoreRest DEF StoreInv
<1>5. CASE InsertCheckpoints(u)
  <2>1. UNCHANGED snap /\ pc[u] = "checkpoints" /\ TypeInv'
        /\ \A r \in Resources : cp'[r].status = "pending" /\ cp'[r].win = 1 /\ cp'[r].next = 1 /\ cp'[r].pages = 0
    BY <1>5, InsertCheckpointsEffect DEF InsertCheckpoints
  <2>2. Unopened /\ \A w \in Workers : pc[w] \notin Asking
    BY <2>1, OpenOnce DEF OpenInv
  <2>3. files' = {}
    BY <1>1, <2>2 DEF Unopened
  <2>4. ASSUME NEW r \in Resources PROVE Sound(files', r, cp'[r]) /\ cp'[r].status # "completed"
    <3>1. cp'[r] \in Checkpoints
      BY <2>1 DEF TypeInv, TypeOK
    <3> QED BY <2>1, <2>3, <3>1, SoundFirst
  <2>5. Filed(files', cp')
    BY <2>4 DEF Filed
  <2>6. ASSUME NEW w \in Workers PROVE AtWork(files', cp', pc'[w], my'[w])
    <3>1. pc'[w] \notin Extracting \cup {"giveUp"}
      BY <1>2, <2>2 DEF Extracting, Asking
    <3>2. my'[w].intended = "COMPLETE" => Covers(files')
      BY <1>1, <1>2 DEF StoreInv, AtWork
    <3> QED BY <3>1, <3>2, AtRest
  <2> QED BY <1>1, <2>1, <2>5, <2>6 DEF StoreInv
<1>6. ASSUME NEW r \in Resources, Reset(u, r) PROVE StoreInv'
  <2>1. /\ UNCHANGED snap /\ cp'[r].status = "pending" /\ cp'[r].win = cp[r].win /\ cp'[r].next = cp[r].next
        /\ cp'[r].pages = cp[r].pages /\ \A q \in Resources \ {r} : cp'[q] = cp[q]
    BY <1>6, ResetEffect
  <2>2. \A q \in Resources : SamePlace(cp[q], cp'[q])
                             /\ (cp'[q].status = cp[q].status \/ cp'[q].status = "pending")
    BY <2>1 DEF SamePlace
  <2>3. Filed(files', cp')
    BY <1>1, <2>2, FiledReset DEF StoreInv
  <2>4. ASSUME NEW w \in Workers PROVE AtWork(files', cp', pc'[w], my'[w])
    <3>1. pc[w] \in Asking => my[w].res \in Resources
      BY CountFacts
    <3>2. AtPlace(files, cp', pc[w], my[w])
      BY <2>2, <3>1, FiledReset DEF StoreInv, AtWork
    <3> QED BY <1>1, <1>2, <3>2 DEF StoreInv, AtWork
  <2> QED BY <1>1, <2>1, <2>3, <2>4 DEF StoreInv
<1> QED BY <1>3, <1>4, <1>5, <1>6 DEF User

LEMMA StoreStep ==
  ASSUME TypeInv, OpenInv, Fenced, StoreInv, NEW a \in Actors, Steps(a)
  PROVE  StoreInv'
<1>1. CASE a \in Workers /\ Worker(a)
  BY <1>1, StoreQueue, StorePlain, StoreIntend, StoreRow, StoreReads, StoreMark, StoreGiveUp, StoreFinish,
     StoreEmpty, StoreWrite, StoreSingle, StoreSave, StoreWindow DEF Worker, Extract, Finalize
<1>2. CASE Crash(a)
  <2>1. UNCHANGED <<snap, cp, files>> /\ Others(a) /\ pc'[a] = "idle" /\ my'[a] = Fresh
    BY <1>2, CrashForward DEF tables, store
  <2>2. AtWork(files, cp, pc'[a], my'[a])
    BY <2>1, AtRest, FreshFacts DEF Extracting, Asking
  <2> QED BY <2>1, <2>2, StoreRest DEF StoreInv
<1> QED BY <1>1, <1>2, StoreUser DEF Steps

KeptInv == TypeInv /\ OpenInv /\ (overtaken = 0 => Fenced /\ StoreInv)

LEMMA KeptStep ==
  ASSUME KeptInv, NEW a \in Actors, Steps(a)
  PROVE  OpenInv' /\ (overtaken' = 0 => Fenced' /\ StoreInv')
<1>1. OpenInv'
  BY OpenStep DEF KeptInv
<1>2. ASSUME overtaken' = 0 PROVE Fenced' /\ StoreInv'
  <2>1. overtaken = 0
    BY <1>2, StepForward DEF Forward, KeptInv
  <2> QED BY <1>2, <2>1, FencedStep, StoreStep DEF KeptInv
<1> QED BY <1>1, <1>2

LEMMA KeptHolds == Spec => []KeptInv
<1>1. Init => KeptInv
  <2> SUFFICES ASSUME Init PROVE KeptInv
    OBVIOUS
  <2>1. /\ \A a \in Actors : pc[a] = "idle" /\ my[a] = Fresh
        /\ \A r \in Resources : cp[r] = NoCheckpoint /\ cp[r].status = "absent"
        /\ files = {} /\ snap.status = "NONE"
    BY FreshFacts DEF Init
  <2>2. OpenInv
    BY <2>1, OrderFacts DEF OpenInv, Asking, Unopened, SamePlace
  <2>3. Fenced
    BY <2>1, OrderFacts DEF Fenced, Working
  <2>4. Filed(files, cp)
    BY <2>1, FreshFacts, SoundFirst DEF Filed
  <2>5. \A w \in Workers : AtWork(files, cp, pc[w], my[w])
    BY <2>1, AtRest, FreshFacts, OrderFacts DEF Extracting, Asking
  <2>6. StoreInv
    BY <2>1, <2>4, <2>5 DEF StoreInv, RowTrue
  <2> QED BY <2>2, <2>3, <2>6, InitTyped DEF KeptInv
<1>2. KeptInv /\ [Next]_vars => KeptInv'
  <2> SUFFICES ASSUME KeptInv, [Next]_vars PROVE KeptInv'
    OBVIOUS
  <2>1. TypeInv'
    BY TypeKept DEF KeptInv
  <2>2. CASE Next
    <3>1. PICK a \in Actors : Steps(a)
      BY <2>2, NextSteps
    <3> QED BY <2>1, <3>1, KeptStep DEF KeptInv
  <2>3. CASE UNCHANGED vars
    <3>1. UNCHANGED <<snap, cp, files, queue, pc, my, overtaken>>
      BY <2>3 DEF vars, tables, store, bounds
    <3>2. OpenInv'
      BY <3>1 DEF KeptInv, OpenInv, Unopened, Opened
    <3>3. overtaken = 0 => Fenced' /\ StoreInv'
      BY <3>1 DEF KeptInv, Fenced, Working, Owner, StoreInv
    <3> QED BY <2>1, <3>1, <3>2, <3>3 DEF KeptInv
  <2> QED BY <2>2, <2>3
<1> QED BY <1>1, <1>2, PTL DEF Spec

(* As long as no worker was overtaken, a COMPLETE snapshot holds every     *)
(* record of every required and every completed resource, once, and has a  *)
(* validation that passed, for any resources, windows and page size,       *)
(* wherever steps were cut short, given up, replayed or retried.           *)
THEOREM CompleteIsWhole == Spec => [](overtaken = 0 => CompleteHoldsEveryRecord)
<1>1. KeptInv => (overtaken = 0 => CompleteHoldsEveryRecord)
  <2> SUFFICES ASSUME KeptInv, overtaken = 0, snap.status = "COMPLETE"
               PROVE  /\ snap.report = "ok"
                      /\ \A r \in Resources : r \in Required \/ cp[r].status = "completed" =>
                           /\ UNION {f.rows : f \in FilesOf(r)} = Records(r)
                           /\ \A f, g \in FilesOf(r) : f # g => f.rows \cap g.rows = {}
    BY DEF CompleteHoldsEveryRecord
  <2>1. StoreInv /\ TypeInv
    BY DEF KeptInv
  <2>2. snap.report = "ok" /\ Covers(files)
    BY <2>1 DEF StoreInv, RowTrue
  <2>3. ASSUME NEW r \in Resources, r \in Required \/ cp[r].status = "completed"
        PROVE  /\ UNION {f.rows : f \in FilesOf(r)} = Records(r)
               /\ \A f, g \in FilesOf(r) : f # g => f.rows \cap g.rows = {}
    <3>1. CoveredBy(files, r)
      BY <2>1, <2>2, <2>3 DEF Covers, StoreInv, Filed
    <3>2. UNION {f.rows : f \in FilesOf(r)} = Records(r)
      BY <3>1 DEF CoveredBy, FilesOf
    <3>3. Sound(files, r, cp[r]) /\ cp[r] \in Checkpoints /\ cp[r].next # 0
      BY <2>1 DEF StoreInv, Filed, TypeInv, TypeOK, PlacesOK
    <3> QED BY <3>2, <3>3, SoundOnce DEF FilesOf
  <2> QED BY <2>2, <2>3
<1> QED BY <1>1, KeptHolds, PTL

-----------------------------------------------------------------------------
(* A retry is at a snapshot that there is; while none met another actor,   *)
(* it is alone, and what it is about to reset was not completed.           *)
RetryInv ==
  /\ \A u \in Users : pc[u] \in Reopening => snap.status # "NONE"
  /\ ~raced => \A u \in Users : pc[u] \in Reopening =>
       /\ \A b \in Actors \ {u} : pc[b] = "idle"
       /\ pc[u] = "reset" => \A r \in my[u].todo : cp[r].status \notin {"completed", "unsupported"}

LEMMA IdleClaims ==
  ASSUME TypeInv, NEW w \in Workers, Worker(w), pc[w] = "idle"
  PROVE  Claim(w)
<1>1. ~Plain(w) /\ ~Capturing(w)
  BY PlainForward, CapturingForward DEF Working
<1>2. ~Complete(w) /\ ~Find(w) /\ ~Insert(w)
  BY CompleteEffect DEF Find, Insert
<1> QED BY <1>1, <1>2, WorkerKinds

LEMMA RowStays ==
  ASSUME TypeInv, OpenInv, NEW a \in Actors, Steps(a), snap.status # "NONE"
  PROVE  snap'.status # "NONE"
<1>1. CASE a \in Workers /\ Worker(a)
  BY <1>1, WorkerOpens DEF Opens
<1>2. CASE a \in Users /\ User(a)
  <2>1. CASE Create(a)
    BY <2>1 DEF Create
  <2>2. CASE Reopen(a)
    BY <2>2, <1>2, ReopenEffect
  <2>3. CASE ~Create(a) /\ ~Reopen(a)
    <3>1. UNCHANGED snap
      BY <1>2, <2>3 DEF User, InsertCheckpoints, Find, Insert, Retry, List, Reset, Overlook, tables
    <3> QED BY <3>1
  <2> QED BY <2>1, <2>2, <2>3
<1>3. CASE Crash(a)
  BY <1>3, CrashForward DEF tables
<1> QED BY <1>1, <1>2, <1>3 DEF Steps

(* Nobody else begins anything while a retry is alone.                     *)
LEMMA RetryLeft ==
  ASSUME TypeInv, RetryInv, NEW a \in Actors, Others(a), ~raced,
         pc[a] # "idle" \/ snap.status = "NONE", a \in Users => pc'[a] \notin Reopening
  PROVE  \A u \in Users : pc'[u] \notin Reopening
<1> SUFFICES ASSUME NEW u \in Users, pc'[u] \in Reopening PROVE FALSE
  OBVIOUS
<1>1. u # a /\ u \in Actors
  BY OrderFacts
<1>2. pc[u] \in Reopening
  BY <1>1 DEF Others
<1> QED BY <1>1, <1>2 DEF RetryInv

LEMMA RetryUser ==
  ASSUME TypeInv, RetryInv, NEW u \in Users, User(u), ~raced'
  PROVE  \A v \in Users : pc'[v] \in Reopening =>
           /\ \A b \in Actors \ {v} : pc'[b] = "idle"
           /\ pc'[v] = "reset" => \A r \in my'[v].todo : cp'[r].status \notin {"completed", "unsupported"}
<1>1. u \in Actors /\ Others(u) /\ ~raced
  BY UserForward, OrderFacts DEF Forward
<1>2. CASE Create(u) \/ InsertCheckpoints(u) \/ Find(u) \/ Insert(u)
  <2>1. pc'[u] \in {"checkpoints", "find", "insert", "idle"}
    BY <1>1, <1>2, CreateEffect, InsertCheckpointsEffect, FindEffect, InsertEffect, WentOthers
  <2>2. pc[u] # "idle" \/ snap.status = "NONE"
    BY <1>2 DEF Create, InsertCheckpoints, Find, Insert
  <2>3. pc'[u] \notin Reopening
    BY <2>1 DEF Reopening
  <2> QED BY <1>1, <2>2, <2>3, RetryLeft
<1>3. CASE Retry(u) \/ List(u) \/ Reopen(u) \/ Overlook(u) \/ \E r \in Resources : Reset(u, r)
  <2>1. \A b \in Actors \ {u} : pc[b] = "idle" /\ pc'[b] = "idle"
    BY <1>1, <1>3 DEF Retry, List, Reopen, Reset, Overlook, Meets, Others
  <2>2. ASSUME NEW v \in Users, pc'[v] \in Reopening PROVE v = u
    BY <2>1, <2>2, OrderFacts DEF Reopening
  <2>3. ASSUME pc'[u] = "reset"
        PROVE  \A r \in my'[u].todo : cp'[r].status \notin {"completed", "unsupported"}
    <3>1. CASE Retry(u)
      BY <2>3, <3>1, RetryEffect, WentOthers
    <3>2. CASE Reopen(u)
      BY <2>3, <3>2, ReopenEffect, WentOthers
    <3>3. CASE List(u)
      <4>1. PICK m \in Holdings : /\ m.todo = {r \in Resources : cp[r].status \in {"failed", "running"}}
                                  /\ Went(u, "reopen", m) \/ Went(u, "reset", m)
        BY <3>3, ListEffect
      <4>2. my'[u] = m /\ UNCHANGED cp
        BY <3>3, <4>1, WentOthers DEF List, tables, store
      <4> QED BY <4>1, <4>2
    <3>4. ASSUME NEW r \in Resources, Reset(u, r)
          PROVE  \A q \in my'[u].todo : cp'[q].status \notin {"completed", "unsupported"}
      <4>1. PICK m \in Holdings : m.todo = my[u].todo \ {r} /\ (Went(u, "reopen", m) \/ Went(u, "reset", m))
        BY <3>4, ResetEffect
      <4>2. my'[u] = m /\ pc[u] = "reset"
        BY <3>4, <4>1, WentOthers DEF Reset
      <4>3. \A q \in my[u].todo : cp[q].status \notin {"completed", "unsupported"} /\ q \in Resources
        BY <1>1, <4>2, Held DEF RetryInv, Reopening
      <4>4. \A q \in Resources \ {r} : cp'[q] = cp[q]
        BY <3>4, ResetEffect
      <4> QED BY <4>1, <4>2, <4>3, <4>4
    <3>5. CASE Overlook(u)
      <4>1. PICK m \in Holdings : /\ m.todo \subseteq my[u].todo
                                 /\ \/ Went(u, "find", m) \/ Went(u, "reopen", m)
                                    \/ pc[u] = "reset" /\ Went(u, "reset", m)
        BY <3>5, OverlookEffect
      <4>2. my'[u] = m /\ pc[u] = "reset" /\ UNCHANGED cp
        BY <2>3, <3>5, <4>1, WentOthers, OverlookEffect DEF tables, store
      <4>3. \A q \in my[u].todo : cp[q].status \notin {"completed", "unsupported"}
        BY <1>1, <4>2 DEF RetryInv, Reopening
      <4> QED BY <4>1, <4>2, <4>3
    <3> QED BY <1>3, <3>1, <3>2, <3>3, <3>4, <3>5
  <2> QED BY <2>1, <2>2, <2>3
<1> QED BY <1>2, <1>3 DEF User

LEMMA RetryStep ==
  ASSUME TypeInv, OpenInv, RetryInv, NEW a \in Actors, Steps(a)
  PROVE  RetryInv'
<1>1. Others(a) /\ (~raced' => ~raced)
  BY StepForward DEF Forward
<1>2. ASSUME NEW u \in Users, pc'[u] \in Reopening PROVE snap'.status # "NONE"
  <2>1. CASE pc[u] \in Reopening
    BY <2>1, RowStays DEF RetryInv
  <2>2. CASE pc[u] \notin Reopening
    <3>1. a = u /\ u \notin Workers /\ u \in Actors
      BY <1>1, <1>2, <2>2, OrderFacts DEF Others
    <3>2. User(u)
      BY <1>2, <3>1, CrashForward DEF Steps, Reopening
    <3>3. Retry(u)
      <4>1. ~Create(u) /\ ~InsertCheckpoints(u) /\ ~Find(u) /\ ~Insert(u)
        BY <1>2, <3>1, CreateEffect, InsertCheckpointsEffect, FindEffect, InsertEffect, WentOthers DEF Reopening
      <4>2. ~List(u) /\ ~Reopen(u) /\ ~Overlook(u) /\ \A r \in Resources : ~Reset(u, r)
        BY <2>2 DEF List, Reopen, Overlook, Reset, Reopening
      <4> QED BY <3>2, <4>1, <4>2 DEF User
    <3> QED BY <3>3 DEF Retry, tables
  <2> QED BY <2>1, <2>2
<1>3. ASSUME ~raced', NEW u \in Users, pc'[u] \in Reopening
      PROVE  /\ \A b \in Actors \ {u} : pc'[b] = "idle"
             /\ pc'[u] = "reset" => \A r \in my'[u].todo : cp'[r].status \notin {"completed", "unsupported"}
  <2>1. CASE a \in Users /\ User(a)
    BY <1>3, <2>1, RetryUser
  <2>2. CASE a \in Workers /\ Worker(a)
    <3>1. pc[u] \in Reopening /\ u # a
      BY <1>1, <1>3, <2>2, OrderFacts DEF Others
    <3>2. pc[a] = "idle"
      BY <1>1, <1>3, <3>1 DEF RetryInv
    <3>3. Claim(a)
      BY <2>2, <3>2, IdleClaims
    <3> QED BY <1>3, <2>2, <3>1, <3>3, ClaimEffect
  <2>3. CASE Crash(a)
    <3>1. pc'[a] = "idle" /\ my'[a] = Fresh /\ UNCHANGED cp /\ pc[a] # "idle"
      BY <2>3, CrashForward, CrashEffect DEF tables, store
    <3>2. a # u
      BY <1>3, <3>1 DEF Reopening
    <3>3. pc[u] \in Reopening
      BY <1>1, <1>3, <3>2, OrderFacts DEF Others
    <3> QED BY <1>1, <1>3, <3>1, <3>2, <3>3 DEF RetryInv
  <2> QED BY <2>1, <2>2, <2>3 DEF Steps
<1> QED BY <1>2, <1>3 DEF RetryInv

Advances(c, d) == d.pages >= c.pages /\ d.win >= c.win
Closed(s)      == s \in {"completed", "unsupported"}
CpKept ==
  \A q \in Resources : Advances(cp[q], cp'[q]) /\ (Closed(cp[q].status) /\ ~raced' => cp'[q].status = cp[q].status)
EntriesKept == \A i \in Items : ledger[i] \in Final => ledger'[i] = ledger[i]

LEMMA PlacesTyped ==
  ASSUME TypeInv, NEW q \in Resources
  PROVE  cp[q] \in Checkpoints /\ cp[q].pages \in Nat /\ cp[q].win \in Nat /\ Advances(cp[q], cp[q])
<1>1. cp[q] \in Checkpoints
  BY DEF TypeInv, TypeOK
<1> QED BY <1>1 DEF Advances, Checkpoints

(* A step that writes the checkpoint of one resource.                      *)
LEMMA OneAdvances ==
  ASSUME TypeInv, NEW r \in Resources, \A q \in Resources \ {r} : cp'[q] = cp[q],
         Advances(cp[r], cp'[r]), ~raced' => ~Closed(cp[r].status)
  PROVE  CpKept
BY PlacesTyped DEF CpKept

LEMMA AllStay ==
  ASSUME TypeInv, UNCHANGED cp
  PROVE  CpKept
BY PlacesTyped DEF CpKept

LEMMA UserAdvances ==
  ASSUME TypeInv, OpenInv, RetryInv, NEW u \in Users, User(u)
  PROVE  CpKept
<1>1. CASE InsertCheckpoints(u)
  <2>1. /\ pc[u] = "checkpoints" /\ u \in Actors
        /\ \A r \in Resources : cp'[r].status = "pending" /\ cp'[r].win = 1 /\ cp'[r].next = 1 /\ cp'[r].pages = 0
    BY <1>1, InsertCheckpointsEffect, OrderFacts DEF InsertCheckpoints
  <2>2. \A r \in Resources : cp[r].status = "absent" /\ cp[r].win = 1 /\ cp[r].pages = 0
    BY <2>1, FreshFacts DEF OpenInv, Unopened, SamePlace
  <2> QED BY <2>1, <2>2 DEF CpKept, Advances, Closed
<1>2. ASSUME NEW r \in Resources, Reset(u, r) PROVE CpKept
  <2>1. /\ cp'[r].win = cp[r].win /\ cp'[r].pages = cp[r].pages /\ \A q \in Resources \ {r} : cp'[q] = cp[q]
    BY <1>2, ResetEffect
  <2>2. Advances(cp[r], cp'[r])
    BY <2>1, PlacesTyped DEF Advances
  <2>3. pc[u] = "reset" /\ r \in my[u].todo /\ (~raced' => ~raced)
    BY <1>2 DEF Reset, Meets
  <2>4. ~raced' => ~Closed(cp[r].status)
    BY <2>3 DEF RetryInv, Reopening, Closed
  <2> QED BY <2>1, <2>2, <2>4, OneAdvances
<1>3. CASE Create(u) \/ Find(u) \/ Insert(u) \/ Retry(u) \/ List(u) \/ Reopen(u) \/ Overlook(u)
  BY <1>3, AllStay DEF Create, Find, Insert, Retry, List, Reopen, Overlook, tables, store
<1> QED BY <1>1, <1>2, <1>3 DEF User

LEMMA WorkerAdvances ==
  ASSUME TypeInv, Fenced, StoreInv, NEW w \in Workers, Worker(w)
  PROVE  CpKept
<1> DEFINE r == my[w].res
<1>1. CASE UNCHANGED cp
  BY <1>1, AllStay
<1>2. CASE MarkRunning(w)
  <2>1. /\ pc[w] = "mark" /\ \A q \in Resources \ {r} : cp'[q] = cp[q]
        /\ cp'[r].win = cp[r].win /\ cp'[r].pages = cp[r].pages
    BY <1>2, MarkRunningEffect
  <2>2. r \in Resources /\ ~Closed(cp[r].status)
    BY <2>1, InHand DEF AtPlace, Extracting, Asking, Closed
  <2> QED BY <2>1, <2>2, PlacesTyped, OneAdvances DEF Advances
<1>3. CASE GiveUp(w)
  <2>1. /\ pc[w] = "giveUp" /\ \A q \in Resources \ {r} : cp'[q] = cp[q]
        /\ cp'[r].win = cp[r].win /\ cp'[r].pages = cp[r].pages
    BY <1>3, GiveUpEffect
  <2>2. r \in Resources /\ ~Closed(cp[r].status)
    BY <2>1, InHand DEF AtPlace, Extracting, Asking, Closed
  <2> QED BY <2>1, <2>2, PlacesTyped, OneAdvances DEF Advances
<1>4. CASE EmptyPage(w) \/ SavePage(w) \/ SaveWindow(w) \/ Finish(w)
  <2>1. pc[w] \in {"page", "save", "window", "finish"} /\ \A q \in Resources \ {r} : cp'[q] = cp[q]
    BY <1>4, EmptyPageEffect, SavePageEffect, SaveWindowEffect, FinishEffect
  <2>2. /\ r \in Resources /\ ~Closed(cp[r].status) /\ Sound(files, r, cp[r])
        /\ SamePlace(my[w].cp, cp[r]) \/ (pc[w] = "finish" /\ r \in Single)
        /\ pc[w] = "finish" /\ r \in Single => my[w].cp.pages = OnlyNo(r)
    BY <2>1, InHand DEF AtPlace, Extracting, Asking, Closed
  <2>3. cp[r].win \in Nat /\ cp[r].pages \in Nat
    BY <2>2, PlacesTyped
  <2>4. CASE EmptyPage(w)
    <3>1. cp'[r].pages = cp[r].pages /\ (cp'[r].win = my[w].cp.win \/ UNCHANGED cp) /\ pc[w] = "page"
      BY <2>4, EmptyPageEffect
    <3> QED BY <2>1, <2>2, <2>3, <3>1, OneAdvances DEF Advances, SamePlace
  <2>5. CASE SavePage(w)
    <3>1. cp'[r].pages = my[w].cp.pages + 1 /\ cp'[r].win = my[w].cp.win /\ pc[w] = "save"
      BY <2>5, SavePageEffect
    <3> QED BY <2>1, <2>2, <2>3, <3>1, OneAdvances DEF Advances, SamePlace
  <2>6. CASE SaveWindow(w)
    <3>1. cp'[r].pages = cp[r].pages /\ cp'[r].win = my[w].cp.win + 1 /\ pc[w] = "window"
      BY <2>6, SaveWindowEffect
    <3> QED BY <2>1, <2>2, <2>3, <3>1, OneAdvances DEF Advances, SamePlace
  <2>7. CASE Finish(w)
    <3>1. cp'[r].pages = my[w].cp.pages /\ cp'[r].win = cp[r].win /\ pc[w] = "finish"
      BY <2>7, FinishEffect
    <3>2. my[w].cp.pages >= cp[r].pages
      <4>1. CASE r \in Single
        <5>1. OnlyNo(r) \in Nat /\ cp[r].pages <= OnlyNo(r)
          BY <2>2, <4>1 DEF Sound, OnlyNo
        <5> QED BY <2>2, <2>3, <3>1, <4>1, <5>1
      <4>2. CASE r \notin Single
        BY <2>2, <2>3, <4>2 DEF SamePlace
      <4> QED BY <4>1, <4>2
    <3> QED BY <2>1, <2>2, <2>3, <3>1, <3>2, OneAdvances DEF Advances
  <2> QED BY <1>4, <2>4, <2>5, <2>6, <2>7
<1>5. ASSUME NEW i \in Items, StoreBinary(w, i) \/ RecordCaptured(w, i) \/ SkipBinary(w, i) \/ MissBinary(w, i)
      PROVE  UNCHANGED cp
  BY <1>5, StoreBinaryEffect, EnteredTyped
<1>6. CASE \/ ReadCheckpoint(w) \/ ReadBudget(w) \/ SetBudget(w) \/ WritePage(w) \/ WriteSingle(w)
           \/ ExtractionFails(w) \/ TokenExpires(w)
  BY <1>1, <1>6, ReadCheckpointEffect, ReadBudgetEffect, SetBudgetEffect, WritePageEffect, WriteSingleEffect,
     ExtractionFailsEffect, TokenExpiresEffect DEF tables, store
<1>7. CASE Finalize(w) \/ StepFails(w) \/ Begin(w) \/ Pick(w)
  BY <1>1, <1>7, ReadSummaryEffect, WriteSummaryEffect, RemainingEffect, IntendEffect, ValidateEffect,
     SaveReportEffect, ManifestEffect, FinalizeFailsEffect, MarkRefinalizingEffect, StepFailsEffect,
     BeginEffect, PickEffect DEF Finalize, tables, store
<1>8. CASE Claim(w) \/ Complete(w) \/ Find(w) \/ Insert(w)
  BY <1>1, <1>8, QueueForward DEF store
<1> QED BY <1>1, <1>2, <1>3, <1>4, <1>5, <1>6, <1>7, <1>8 DEF Worker, Extract

LEMMA EntriesStep ==
  ASSUME TypeInv, StoredInv, SpentInv, NEW a \in Actors, Steps(a)
  PROVE  EntriesKept
<1>1. CASE UNCHANGED ledger
  BY <1>1 DEF EntriesKept
<1>2. ASSUME a \in Workers, NEW i \in Items, RecordCaptured(a, i) \/ SkipBinary(a, i) \/ MissBinary(a, i)
      PROVE  EntriesKept
  <2>1. pc[a] \in {"item", "record"} /\ i \in my[a].items
    BY <1>2, EnteredTyped
  <2>2. PICK o \in Outcomes \ {"none"} : Entered(a, i, o)
    BY <1>2, EnteredTyped
  <2>3. ledger' = [ledger EXCEPT ![i] = o] /\ ledger \in [Items -> Outcomes]
    BY <2>2 DEF Entered, TypeInv, TypeOK
  <2>4. ledger[i] \notin Final
    BY <1>2, <2>1 DEF StoredInv, SpentInv, Budgeted, Spends
  <2> QED BY <2>3, <2>4 DEF EntriesKept
<1>3. ASSUME a \in Workers, NEW i \in Items, StoreBinary(a, i) PROVE UNCHANGED ledger
  BY <1>3, StoreBinaryEffect
<1>4. CASE a \in Workers /\ (ReadBudget(a) \/ SetBudget(a) \/ WritePage(a) \/ SavePage(a))
  BY <1>1, <1>4, ReadBudgetEffect, SetBudgetEffect, WritePageEffect, SavePageEffect DEF tables, store
<1>5. CASE a \in Workers /\ (Plain(a) \/ Claim(a) \/ Complete(a) \/ Find(a) \/ Insert(a))
  BY <1>1, <1>5, PlainForward, QueueForward DEF Quiet
<1>6. CASE Crash(a)
  BY <1>1, <1>6, CrashForward DEF tables, store
<1>7. CASE a \in Users /\ User(a)
  BY <1>1, <1>7, UserForward
<1> QED BY <1>2, <1>1, <1>3, <1>4, <1>5, <1>6, <1>7, WorkerKinds DEF Steps, Capturing

LEMMA RetryHolds == Spec => [](KeptInv /\ RetryInv)
<1> DEFINE Inv == KeptInv /\ RetryInv
<1>1. Init => RetryInv
  BY OrderFacts DEF Init, RetryInv, Reopening
<1>2. KeptInv /\ RetryInv /\ [Next]_vars => RetryInv'
  <2> SUFFICES ASSUME KeptInv, RetryInv, [Next]_vars PROVE RetryInv'
    OBVIOUS
  <2>1. CASE Next
    <3>1. PICK a \in Actors : Steps(a)
      BY <2>1, NextSteps
    <3> QED BY <3>1, RetryStep DEF KeptInv
  <2>2. CASE UNCHANGED vars
    <3>1. UNCHANGED <<snap, cp, pc, my, raced>>
      BY <2>2 DEF vars, tables, store, bounds
    <3> QED BY <3>1 DEF RetryInv
  <2> QED BY <2>1, <2>2
<1> QED BY <1>1, <1>2, KeptHolds, PTL DEF Spec

(* For any resources, windows, attachments, users, workers, crashes,       *)
(* replays and retries: while no worker is overtaken, no step sets back a  *)
(* resource's count of pages or its position, or changes what became of an *)
(* attachment that was captured or skipped; and only a retry that met a    *)
(* worker reopens a completed or unsupported resource.                     *)
THEOREM ProgressIsKept == Spec => ProgressKept
<1> DEFINE Good == KeptInv /\ RetryInv /\ SpendInv
           Moves == overtaken' = 0 =>
                      /\ \A r \in Resources :
                           /\ cp'[r].pages >= cp[r].pages /\ cp'[r].win >= cp[r].win
                           /\ cp[r].status \in {"completed", "unsupported"} /\ ~raced' =>
                                cp'[r].status = cp[r].status
                      /\ \A i \in Items : ledger[i] \in Final => ledger'[i] = ledger[i]
<1>1. Good /\ [Next]_vars => [Moves]_vars
  <2> SUFFICES ASSUME Good, Next, overtaken' = 0 PROVE CpKept /\ EntriesKept
    BY DEF CpKept, EntriesKept, Advances, Closed
  <2>1. PICK a \in Actors : Steps(a)
    BY NextSteps
  <2>2. TypeInv /\ OpenInv /\ overtaken = 0
    BY <2>1, StepForward DEF KeptInv, Forward
  <2>3. Fenced /\ StoreInv /\ StoredInv /\ SpentInv
    BY <2>2 DEF KeptInv, SpendInv
  <2>4. EntriesKept
    BY <2>1, <2>2, <2>3, EntriesStep
  <2>5. CASE Crash(a)
    BY <2>2, <2>4, <2>5, CrashForward, AllStay DEF tables, store
  <2> QED BY <2>1, <2>2, <2>3, <2>4, <2>5, UserAdvances, WorkerAdvances DEF Steps
<1>2. Spec => []Good
  BY RetryHolds, SpendHolds, PTL
<1> QED BY <1>1, <1>2, PTL DEF Spec, ProgressKept

-----------------------------------------------------------------------------
(* While no request or hook was cut short, no retry met anybody and no     *)
(* worker was overtaken: before there are checkpoints only the request     *)
(* that inserts them is at work; what a worker that is about to complete   *)
(* its job left undone; and who will take on a snapshot without a row.     *)
Undisturbed == ~lost /\ ~raced /\ overtaken = 0

Over(C) == \A r \in Resources : C[r].status \in Terminal
Ended(s) == s.status = "FAILED" \/ (s.status \in {"COMPLETE", "PARTIAL"} /\ s.report # "none")
Ending(s, C, l, m) ==
  /\ l \in {"summary", "write", "intend"} /\ m.phase = "finalize" => Over(C)
  /\ l = "intend" => m.phase = "finalize"
  /\ l \in {"validate", "report"} \/ (l \in {"summary", "write"} /\ m.phase = "reconcile")
       => m.intended # "RUNNING"
  /\ l = "manifest" => Ended(s)
  /\ l = "refinalize" => m.failed
  /\ l = "complete" /\ m.done /\ ~m.failed => Ended(s)

Starting == Unopened =>
  /\ queue.status = "NONE" /\ \A a \in Actors : pc[a] \in {"idle", "checkpoints"}
  /\ snap.status # "NONE" => \E u \in Users : pc[u] = "checkpoints"
Continues == {"checkpoints", "list", "reset", "reopen", "find", "insert"}
TakenOn == snap.status # "NONE" /\ ~Ended(snap) /\ queue.status = "NONE" =>
             \E a \in Actors : pc[a] \in Continues
EndInv == Undisturbed =>
  /\ Starting
  /\ \A w \in Workers : Ending(snap, cp, pc[w], my[w])
  /\ TakenOn

LEMMA EndingAtRest ==
  ASSUME NEW s, NEW C, NEW l, NEW m,
         l \notin {"summary", "write", "intend", "validate", "report", "manifest", "refinalize", "complete"}
  PROVE  Ending(s, C, l, m)
BY DEF Ending

LEMMA WorkedOpened ==
  ASSUME TypeInv, OpenInv, Starting, NEW w \in Workers, pc[w] # "idle"
  PROVE  Opened /\ (OpenResources = {} => Over(cp))
<1>1. w \in Actors /\ pc[w] # "checkpoints"
  BY Held, OrderFacts DEF Holding, WorkerPCs
<1>2. Opened
  BY <1>1 DEF Starting, OpenInv
<1>3. ASSUME OpenResources = {}, NEW r \in Resources PROVE cp[r].status \in Terminal
  <2>1. PICK i \in DOMAIN Order : Order[i] = r
    BY OrderFacts
  <2>2. cp[r].status \notin {"pending", "running"}
    BY <1>3, <2>1 DEF OpenResources
  <2>3. cp[r].status \in Entity /\ cp[r].status # "absent"
    BY <1>2, PlacesTyped DEF Opened, Checkpoints
  <2> QED BY <2>2, <2>3 DEF Entity
<1> QED BY <1>2, <1>3 DEF Over

(* The worker's own step.                                                  *)
LEMMA EndingExtract ==
  ASSUME TypeInv, NEW w \in Workers, Extract(w)
  PROVE  Ending(snap', cp', pc'[w], my'[w])
<1> DEFINE Rest(l) == l \notin {"summary", "write", "intend", "validate", "report", "manifest", "refinalize", "complete"}
<1>1. CASE Rest(pc'[w])
  BY <1>1, EndingAtRest
<1>2. ASSUME NEW m, Went(w, "summary", m), m.phase = "step" PROVE Ending(snap', cp', pc'[w], my'[w])
  <2>1. pc'[w] = "summary" /\ my'[w] = m
    BY <1>2, WentOthers
  <2> QED BY <1>2, <2>1 DEF Ending
<1>3. CASE ReadCheckpoint(w)
  <2>1. my[w].phase = "step"
    BY <1>3, CountFacts, ReadCheckpointEffect DEF Asking
  <2> QED BY <1>1, <1>2, <1>3, <2>1, ReadCheckpointEffect, WentOthers
<1>4. CASE Finish(w) \/ GiveUp(w)
  <2>1. Dealt(my[w]).phase = "step"
    BY WithDealt, Held, OrderFacts
  <2> QED BY <1>2, <1>4, <2>1, FinishEffect, GiveUpEffect
<1>5. CASE TokenExpires(w)
  <2>1. CASE Went(w, "complete", Failing)
    <3>1. pc'[w] = "complete" /\ my'[w].failed
      BY <2>1, WentOthers, FailingFacts
    <3> QED BY <3>1 DEF Ending
  <2>2. ASSUME NEW m \in Holdings, Went(w, "pick", m) PROVE Rest(pc'[w])
    BY <2>2, WentOthers
  <2> QED BY <1>1, <1>5, <2>1, <2>2, TokenExpiresEffect
<1>6. CASE MarkRunning(w) \/ SetBudget(w) \/ ReadBudget(w)
  <2>1. CASE ReadBudget(w)
    <3>1. PICK m \in Holdings : Went(w, "page", m) \/ Went(w, "giveUp", m) \/ Went(w, "setBudget", m)
      BY <2>1, ReadBudgetEffect
    <3> QED BY <1>1, <3>1, WentOthers
  <2>2. CASE MarkRunning(w) \/ SetBudget(w)
    BY <1>1, <2>2, MarkRunningEffect, SetBudgetEffect, WentOthers
  <2> QED BY <1>6, <2>1, <2>2
<1>7. CASE WritePage(w) \/ EmptyPage(w) \/ WriteSingle(w) \/ ExtractionFails(w)
  <2>1. CASE WritePage(w)
    <3>1. PICK m \in Holdings : Went(w, "save", m) \/ Went(w, "item", m)
      BY <2>1, WritePageEffect
    <3> QED BY <1>1, <3>1, WentOthers
  <2>2. CASE EmptyPage(w)
    <3>1. PICK m \in Holdings : Went(w, "window", m) \/ Went(w, "finish", m)
      BY <2>2, EmptyPageEffect
    <3> QED BY <1>1, <3>1, WentOthers
  <2>3. CASE WriteSingle(w)
    <3>1. PICK m \in Holdings : Went(w, "finish", m)
      BY <2>3, WriteSingleEffect
    <3> QED BY <1>1, <3>1, WentOthers
  <2>4. CASE ExtractionFails(w)
    <3>1. PICK m \in Holdings : Went(w, "giveUp", m)
      BY <2>4, ExtractionFailsEffect
    <3> QED BY <1>1, <3>1, WentOthers
  <2> QED BY <1>7, <2>1, <2>2, <2>3, <2>4
<1>8. CASE SavePage(w) \/ SaveWindow(w)
  <2>1. CASE SavePage(w)
    <3>1. PICK m \in Holdings : Went(w, "page", m) \/ Went(w, "finish", m) \/ Went(w, "window", m)
      BY <2>1, SavePageEffect
    <3> QED BY <1>1, <3>1, WentOthers
  <2>2. CASE SaveWindow(w)
    <3>1. PICK m \in Holdings : Went(w, "finish", m)
      BY <2>2, SaveWindowEffect
    <3> QED BY <1>1, <3>1, WentOthers
  <2> QED BY <1>8, <2>1, <2>2
<1>9. ASSUME NEW i \in Items, StoreBinary(w, i) PROVE Rest(pc'[w])
  BY <1>9, StoreBinaryEffect, WentOthers
<1>10. ASSUME NEW i \in Items, RecordCaptured(w, i) \/ SkipBinary(w, i) \/ MissBinary(w, i) PROVE Rest(pc'[w])
  <2>1. PICK o \in Outcomes \ {"none"} : Entered(w, i, o)
    BY <1>10, EnteredTyped
  <2>2. PICK m \in Holdings : Went(w, "save", m) \/ Went(w, "item", m)
    BY <2>1 DEF Entered
  <2> QED BY <2>2, WentOthers
<1> QED BY <1>1, <1>3, <1>4, <1>5, <1>6, <1>7, <1>8, <1>9, <1>10 DEF Extract

LEMMA EndingFinalize ==
  ASSUME TypeInv, OpenInv, Starting, NEW w \in Workers, Ending(snap, cp, pc[w], my[w]),
         Finalize(w) \/ StepFails(w) \/ Begin(w) \/ Pick(w)
  PROVE  Ending(snap', cp', pc'[w], my'[w])
<1>1. CASE Begin(w)
  BY <1>1, BeginEffect, WentOthers, EndingAtRest
<1>2. CASE Pick(w)
  <2>1. UNCHANGED <<snap, cp>> /\ (OpenResources = {} => Over(cp))
    BY <1>2, PickEffect, WorkedOpened DEF tables, store
  <2>2. PICK m \in Holdings : \/ Finalized /\ Went(w, "complete", m)
                              \/ OpenResources = {} /\ m.phase = "finalize" /\ Went(w, "summary", m)
                              \/ Went(w, "read", m)
    BY <1>2, PickEffect
  <2>3. /\ my'[w] = m
        /\ \/ pc'[w] = "complete" /\ Ended(snap)
           \/ pc'[w] = "summary" /\ m.phase = "finalize" /\ Over(cp)
           \/ pc'[w] = "read"
    BY <2>1, <2>2, WentOthers DEF Ended, Finalized
  <2> QED BY <2>1, <2>3 DEF Ending
<1>3. CASE StepFails(w) \/ FinalizeFails(w)
  <2>1. pc'[w] \in {"complete", "refinalize"} /\ my'[w].failed
    BY <1>3, StepFailsEffect, FinalizeFailsEffect, WentOthers, FailingFacts
  <2> QED BY <2>1 DEF Ending
<1>4. CASE ReadSummary(w)
  <2>1. PICK m \in Holdings : SameEnd(m, my[w]) /\ Went(w, "write", m)
    BY <1>4, ReadSummaryEffect
  <2>2. /\ UNCHANGED <<snap, cp>> /\ pc[w] = "summary" /\ pc'[w] = "write" /\ my'[w] = m
        /\ m.phase = my[w].phase /\ m.intended = my[w].intended
    BY <1>4, <2>1, ReadSummaryEffect, WentOthers DEF SameEnd, tables, store
  <2> QED BY <2>2 DEF Ending
<1>5. CASE WriteSummary(w)
  <2>1. /\ UNCHANGED cp /\ my'[w] = my[w] /\ pc[w] = "write"
        /\ \/ my[w].phase = "step" /\ pc'[w] = "remaining"
           \/ my[w].phase = "finalize" /\ pc'[w] = "intend"
           \/ my[w].phase = "reconcile" /\ pc'[w] = "validate"
    BY <1>5, WriteSummaryEffect, WentOthers DEF store
  <2> QED BY <2>1 DEF Ending
<1>6. CASE Remaining(w)
  <2>1. UNCHANGED <<snap, cp>> /\ (OpenResources = {} => Over(cp))
    BY <1>6, RemainingEffect, WorkedOpened DEF tables, store
  <2>2. PICK m \in Holdings : \/ ~m.done /\ Went(w, "complete", m)
                              \/ OpenResources = {} /\ m.phase = "finalize" /\ Went(w, "summary", m)
    BY <1>6, RemainingEffect
  <2>3. /\ my'[w] = m
        /\ \/ pc'[w] = "complete" /\ ~m.done
           \/ pc'[w] = "summary" /\ m.phase = "finalize" /\ Over(cp)
    BY <2>1, <2>2, WentOthers
  <2> QED BY <2>1, <2>3 DEF Ending
<1>7. CASE Intend(w)
  <2>1. UNCHANGED <<snap, cp>> /\ pc[w] = "intend"
    BY <1>7, IntendEffect DEF tables, store
  <2>2. Over(cp)
    BY <2>1 DEF Ending
  <2>3. ComputeStatus # "RUNNING"
    BY <2>2, StatusFacts, OrderAssumption DEF Over, Terminal
  <2>4. PICK m \in Holdings : m.intended = ComputeStatus /\ m.phase = "reconcile"
                              /\ (Went(w, "summary", m) \/ Went(w, "validate", m))
    BY <1>7, IntendEffect
  <2>5. pc'[w] \in {"summary", "validate"} /\ my'[w] = m
    BY <2>4, WentOthers
  <2> QED BY <2>3, <2>4, <2>5 DEF Ending
<1>8. CASE Validate(w)
  <2>1. PICK m \in Holdings : m.intended = my[w].intended /\ Went(w, "report", m)
    BY <1>8, ValidateEffect
  <2>2. pc[w] = "validate" /\ pc'[w] = "report" /\ my'[w] = m
    BY <1>8, <2>1, ValidateEffect, WentOthers
  <2> QED BY <2>1, <2>2 DEF Ending
<1>9. CASE SaveReport(w)
  <2>1. /\ pc[w] = "report" /\ pc'[w] = "manifest" /\ my[w].intended \in Begun
        /\ my[w].report \in {"ok", "issues"} /\ snap'.report = my[w].report
        /\ snap'.status = FinalStatus(my[w].intended, my[w].report)
    BY <1>9, SaveReportEffect, WentOthers
  <2>2. my[w].intended # "RUNNING"
    BY <2>1 DEF Ending
  <2>3. Ended(snap')
    BY <2>1, <2>2 DEF Ended, FinalStatus, Begun, Statuses
  <2> QED BY <2>1, <2>3 DEF Ending
<1>10. CASE Manifest(w)
  <2>1. pc[w] = "manifest" /\ pc'[w] = "complete" /\ UNCHANGED snap
    BY <1>10, ManifestEffect, WentOthers DEF tables
  <2> QED BY <2>1 DEF Ending
<1>11. CASE MarkRefinalizing(w)
  <2>1. pc[w] = "refinalize" /\ pc'[w] = "complete" /\ my'[w] = my[w]
    BY <1>11, MarkRefinalizingEffect, WentOthers
  <2> QED BY <2>1 DEF Ending
<1> QED BY <1>1, <1>2, <1>3, <1>4, <1>5, <1>6, <1>7, <1>8, <1>9, <1>10, <1>11 DEF Finalize

LEMMA UndisturbedBefore ==
  ASSUME TypeInv, NEW a \in Actors, Steps(a), Undisturbed'
  PROVE  Undisturbed /\ ~raced' /\ ~lost' /\ Others(a)
BY StepForward DEF Forward, Undisturbed

LEMMA OpenedStays ==
  ASSUME TypeInv, OpenInv, NEW a \in Actors, Steps(a), Opened
  PROVE  Opened'
<1>1. CASE a \in Workers /\ Worker(a)
  <2>1. \A q \in Resources : cp[q].status # "absent" => cp'[q].status # "absent"
    BY <1>1, WorkerOpens DEF Opens
  <2> QED BY <2>1 DEF Opened
<1>2. CASE Crash(a)
  BY <1>2, CrashForward DEF Opened, tables, store
<1>3. CASE a \in Users /\ User(a)
  <2>1. CASE InsertCheckpoints(a)
    BY <1>3, <2>1, InsertCheckpointsEffect DEF Opened
  <2>2. ASSUME NEW r \in Resources, Reset(a, r) PROVE Opened'
    BY <1>3, <2>2, ResetEffect DEF Opened
  <2>3. CASE Create(a) \/ Find(a) \/ Insert(a) \/ Retry(a) \/ List(a) \/ Reopen(a) \/ Overlook(a)
    BY <2>3 DEF Create, Find, Insert, Retry, List, Reopen, Overlook, tables, store, Opened
  <2> QED BY <1>3, <2>1, <2>2, <2>3 DEF User
<1> QED BY <1>1, <1>2, <1>3 DEF Steps

(* Before there are checkpoints, nothing but the creation can happen.      *)
LEMMA OnlyCreates ==
  ASSUME TypeInv, OpenInv, Starting, ~raced', ~lost', NEW a \in Actors, Steps(a), Unopened'
  PROVE  a \in Users /\ Create(a)
<1>1. ~Opened'
  <2>1. Resources # {} /\ \A r \in Resources : cp'[r].status = "absent"
    BY ResourcesExist DEF Unopened
  <2> QED BY <2>1 DEF Opened
<1>2. Unopened
  BY <1>1, OpenedStays DEF OpenInv
<1>3. /\ queue.status = "NONE" /\ \A b \in Actors : pc[b] \in {"idle", "checkpoints"}
      /\ snap.status # "NONE" => \E u \in Users : pc[u] = "checkpoints"
  BY <1>2 DEF Starting
<1>4. CASE Crash(a)
  <2>1. pc[a] = "checkpoints" /\ a \notin Users
    BY <1>3, <1>4, CrashEffect
  <2> QED BY <2>1, Held, OrderFacts DEF Holding, WorkerPCs
<1>5. CASE a \in Workers /\ Worker(a)
  <2>1. pc[a] = "idle"
    BY <1>3, <1>5, Held, OrderFacts DEF Holding, WorkerPCs
  <2>2. Claim(a)
    BY <1>5, <2>1, IdleClaims
  <2> QED BY <1>3, <1>5, <2>2, ClaimEffect
<1>6. CASE a \in Users /\ User(a)
  <2>1. ~InsertCheckpoints(a)
    BY <1>1, <1>6, InsertCheckpointsEffect DEF Opened
  <2>2. /\ ~Find(a) /\ ~Insert(a) /\ ~List(a) /\ ~Reopen(a) /\ ~Overlook(a)
        /\ \A r \in Resources : ~Reset(a, r)
    BY <1>3 DEF Find, Insert, List, Reopen, Overlook, Reset
  <2>3. ~Retry(a)
    <3>1. SUFFICES ASSUME Retry(a) PROVE FALSE
      OBVIOUS
    <3>2. PICK u \in Users : pc[u] = "checkpoints"
      BY <1>3, <3>1 DEF Retry
    <3>3. u # a /\ u \in Actors
      BY <3>1, <3>2, OrderFacts DEF Retry
    <3> QED BY <3>1, <3>2, <3>3 DEF Retry, Meets
  <2> QED BY <1>6, <2>1, <2>2, <2>3 DEF User
<1> QED BY <1>4, <1>5, <1>6 DEF Steps

LEMMA StartingStep ==
  ASSUME TypeInv, OpenInv, Starting, ~raced', ~lost', NEW a \in Actors, Steps(a)
  PROVE  Starting'
<1> SUFFICES ASSUME Unopened'
             PROVE  /\ queue'.status = "NONE" /\ \A b \in Actors : pc'[b] \in {"idle", "checkpoints"}
                    /\ \E u \in Users : pc'[u] = "checkpoints"
  BY DEF Starting
<1>1. a \in Users /\ Create(a)
  BY OnlyCreates
<1>2. Unopened
  BY <1>1 DEF OpenInv, Create
<1>3. pc'[a] = "checkpoints" /\ Others(a) /\ UNCHANGED queue
  BY <1>1, CreateEffect, WentOthers DEF Create
<1> QED BY <1>1, <1>2, <1>3 DEF Starting, Others

(* A user writes the row or a checkpoint only where no worker is at work.  *)
LEMMA UserLeaves ==
  ASSUME TypeInv, OpenInv, Starting, NEW u \in Users, User(u), ~raced'
  PROVE  UNCHANGED <<snap, cp>> \/ \A w \in Workers : pc[w] = "idle"
<1>1. u \in Actors /\ u \notin Workers
  BY OrderFacts
<1>2. CASE Create(u) \/ InsertCheckpoints(u)
  <2>1. Unopened
    BY <1>2 DEF OpenInv, Create, InsertCheckpoints
  <2>2. ASSUME NEW w \in Workers PROVE pc[w] = "idle"
    BY <2>1, Held, OrderFacts DEF Starting, Holding, WorkerPCs
  <2> QED BY <2>2
<1>3. CASE Reopen(u) \/ \E r \in Resources : Reset(u, r)
  BY <1>1, <1>3, OrderFacts DEF Reopen, Reset, Meets
<1>4. CASE Find(u) \/ Insert(u) \/ Retry(u) \/ List(u) \/ Overlook(u)
  BY <1>4 DEF Find, Insert, Retry, List, Overlook, tables, store
<1> QED BY <1>2, <1>3, <1>4 DEF User

LEMMA EndingOthers ==
  ASSUME NEW a \in Actors, Others(a), NEW w \in Workers, w # a, Ending(snap, cp, pc[w], my[w]),
         UNCHANGED <<snap, cp>> \/ pc[w] \in {"idle", "find", "insert"}
  PROVE  Ending(snap', cp', pc'[w], my'[w])
<1>1. pc'[w] = pc[w] /\ my'[w] = my[w]
  BY OrderFacts DEF Others
<1>2. CASE UNCHANGED <<snap, cp>>
  BY <1>1, <1>2
<1>3. CASE pc[w] \in {"idle", "find", "insert"}
  BY <1>1, <1>3, EndingAtRest
<1> QED BY <1>2, <1>3

LEMMA EndingStep ==
  ASSUME TypeInv, OpenInv, Fenced, Starting, \A w \in Workers : Ending(snap, cp, pc[w], my[w]),
         ~raced', NEW a \in Actors, Steps(a), Others(a), NEW w \in Workers
  PROVE  Ending(snap', cp', pc'[w], my'[w])
<1>1. CASE Crash(a)
  <2>1. UNCHANGED <<snap, cp>> /\ pc'[a] = "idle"
    BY <1>1, CrashForward DEF tables, store
  <2> QED BY <2>1, EndingOthers, EndingAtRest
<1>2. CASE a \in Users /\ User(a)
  <2>1. a # w
    BY <1>2, OrderFacts
  <2> QED BY <1>2, <2>1, UserLeaves, EndingOthers
<1>3. CASE a \in Workers /\ (Claim(a) \/ Complete(a) \/ Find(a) \/ Insert(a))
  <2>1. UNCHANGED <<snap, cp>> /\ pc'[a] \in {"idle", "find", "insert", "begin"}
    BY <1>3, QueueForward DEF store
  <2> QED BY <2>1, EndingOthers, EndingAtRest
<1>4. CASE a \in Workers /\ Worker(a) /\ ~(Claim(a) \/ Complete(a) \/ Find(a) \/ Insert(a))
  <2>1. Working(a)
    BY <1>4, WorkerKinds, PlainForward, CapturingForward
  <2>2. CASE w # a
    <3>1. pc[w] \in {"idle", "find", "insert"}
      BY <1>4, <2>1, <2>2, FencedAlone DEF Working
    <3> QED BY <2>2, <3>1, EndingOthers
  <2>3. CASE w = a
    BY <1>4, <2>3, EndingExtract, EndingFinalize DEF Worker
  <2> QED BY <2>2, <2>3
<1> QED BY <1>1, <1>2, <1>3, <1>4 DEF Steps

LEMMA TakenByUser ==
  ASSUME TypeInv, TakenOn, NEW u \in Users, User(u)
  PROVE  TakenOn'
<1>1. u \in Actors
  BY OrderFacts
<1>2. CASE pc'[u] \in Continues
  BY <1>1, <1>2 DEF TakenOn
<1>3. CASE Create(u) \/ InsertCheckpoints(u) \/ Retry(u) \/ Reopen(u)
  <2>1. pc'[u] \in {"checkpoints", "find", "list"}
    BY <1>3, CreateEffect, InsertCheckpointsEffect, RetryEffect, ReopenEffect, WentOthers
  <2> QED BY <1>2, <2>1 DEF Continues
<1>4. CASE List(u)
  <2>1. PICK m \in Holdings : Went(u, "reopen", m) \/ Went(u, "reset", m)
    BY <1>4, ListEffect
  <2> QED BY <1>2, <2>1, WentOthers DEF Continues
<1>5. ASSUME NEW r \in Resources, Reset(u, r) PROVE TakenOn'
  <2>1. PICK m \in Holdings : Went(u, "reopen", m) \/ Went(u, "reset", m)
    BY <1>5, ResetEffect
  <2> QED BY <1>2, <2>1, WentOthers DEF Continues
<1>6. CASE Find(u)
  <2>1. UNCHANGED queue /\ (queue.status # "NONE" \/ pc'[u] = "insert")
    BY <1>1, <1>6, FindEffect, WentOthers DEF tables
  <2> QED BY <1>2, <2>1 DEF Continues, TakenOn
<1>7. CASE Insert(u)
  <2>1. queue'.status # "NONE"
    BY <1>1, <1>7, InsertEffect
  <2> QED BY <2>1 DEF TakenOn
<1>8. CASE Overlook(u)
  <2>1. pc'[u] \in {"find", "reopen", "reset"}
    BY <1>8, OverlookEffect, WentOthers
  <2> QED BY <1>2, <2>1 DEF Continues
<1> QED BY <1>3, <1>4, <1>5, <1>6, <1>7, <1>8 DEF User

LEMMA TakenByWorker ==
  ASSUME TypeInv, Fenced, TakenOn, NEW w \in Workers, Worker(w), Ending(snap, cp, pc[w], my[w]), ~lost'
  PROVE  TakenOn'
<1>1. w \in Actors
  BY OrderFacts
<1>2. CASE Claim(w)
  BY <1>2, ClaimEffect DEF TakenOn
<1>3. CASE Complete(w)
  <2>1. UNCHANGED snap /\ pc[w] = "complete"
    BY <1>3, CompleteEffect
  <2>2. Owner(w)
    BY <2>1 DEF Fenced, Working
  <2>3. \/ queue'.status = "PENDING"
        \/ ~my[w].failed /\ my[w].done
        \/ pc'[w] = "find"
    BY <1>3, <2>2, CompleteEffect, WentOthers
  <2>4. ~my[w].failed /\ my[w].done => Ended(snap)
    BY <2>1 DEF Ending
  <2> QED BY <1>1, <2>1, <2>3, <2>4 DEF TakenOn, Continues
<1>4. CASE Find(w)
  <2>1. UNCHANGED queue /\ (queue.status # "NONE" \/ pc'[w] = "insert")
    BY <1>1, <1>4, FindEffect, WentOthers DEF tables
  <2> QED BY <1>1, <2>1 DEF Continues, TakenOn
<1>5. CASE Insert(w)
  <2>1. queue'.status # "NONE"
    BY <1>1, <1>5, InsertEffect
  <2> QED BY <2>1 DEF TakenOn
<1>6. CASE Plain(w) \/ Capturing(w)
  <2>1. Working(w) /\ UNCHANGED queue
    BY <1>6, PlainForward, CapturingForward
  <2>2. queue'.status = "RUNNING"
    BY <2>1 DEF Fenced, Owner
  <2> QED BY <2>2 DEF TakenOn
<1> QED BY <1>2, <1>3, <1>4, <1>5, <1>6, WorkerKinds

LEMMA TakenByCrash ==
  ASSUME TypeInv, TakenOn, NEW a \in Actors, Crash(a), ~lost'
  PROVE  TakenOn'
<1>1. UNCHANGED tables /\ Others(a) /\ a \notin Users /\ pc[a] \notin {"find", "insert"}
  BY CrashForward, CrashEffect
<1>2. pc[a] \notin Continues
  BY <1>1, Held, OrderFacts DEF Continues, Holding, WorkerPCs
<1>3. ASSUME NEW b \in Actors, pc[b] \in Continues PROVE pc'[b] \in Continues
  BY <1>1, <1>2, <1>3 DEF Others
<1> QED BY <1>1, <1>3 DEF TakenOn, tables

LEMMA EndStep ==
  ASSUME KeptInv, EndInv, NEW a \in Actors, Steps(a)
  PROVE  EndInv'
<1> SUFFICES ASSUME Undisturbed'
             PROVE  /\ Starting'
                    /\ \A w \in Workers : Ending(snap', cp', pc'[w], my'[w])
                    /\ TakenOn'
  BY DEF EndInv
<1>1. TypeInv /\ OpenInv /\ Undisturbed /\ ~raced' /\ ~lost' /\ Others(a)
  BY UndisturbedBefore DEF KeptInv
<1>2. Starting /\ (\A w \in Workers : Ending(snap, cp, pc[w], my[w])) /\ TakenOn /\ Fenced
  BY <1>1 DEF EndInv, KeptInv, Undisturbed
<1>3. Starting'
  BY <1>1, <1>2, StartingStep
<1>4. \A w \in Workers : Ending(snap', cp', pc'[w], my'[w])
  BY <1>1, <1>2, EndingStep
<1>5. TakenOn'
  BY <1>1, <1>2, TakenByUser, TakenByWorker, TakenByCrash DEF Steps
<1> QED BY <1>3, <1>4, <1>5

(* For any resources, users, workers, failures, crashes and retries: a     *)
(* snapshot that nobody is at work on is finalized or has a queue row, as  *)
(* long as no request or hook was cut short, the attempts were not used    *)
(* up, no retry met another actor and no worker was overtaken.             *)
THEOREM SnapshotIsNotStranded == Spec => []NotStranded
<1>1. Init => EndInv
  <2> SUFFICES ASSUME Init PROVE EndInv
    OBVIOUS
  <2>1. /\ \A a \in Actors : pc[a] = "idle"
        /\ snap.status = "NONE" /\ queue.status = "NONE"
    BY DEF Init, NoQueue
  <2>2. \A w \in Workers : Ending(snap, cp, pc[w], my[w])
    BY <2>1, EndingAtRest, OrderFacts
  <2> QED BY <2>1, <2>2 DEF EndInv, Starting, TakenOn
<1>2. KeptInv /\ EndInv /\ [Next]_vars => EndInv'
  <2> SUFFICES ASSUME KeptInv, EndInv, [Next]_vars PROVE EndInv'
    OBVIOUS
  <2>1. CASE Next
    <3>1. PICK a \in Actors : Steps(a)
      BY <2>1, NextSteps
    <3> QED BY <3>1, EndStep
  <2>2. CASE UNCHANGED vars
    <3>1. UNCHANGED <<snap, cp, files, queue, pc, my, lost, raced, overtaken>>
      BY <2>2 DEF vars, tables, store, bounds
    <3>2. Undisturbed' => Undisturbed
      BY <3>1 DEF Undisturbed
    <3>3. Starting => Starting'
      BY <3>1 DEF Starting, Unopened
    <3>4. TakenOn => TakenOn'
      BY <3>1 DEF TakenOn
    <3> QED BY <3>1, <3>2, <3>3, <3>4 DEF EndInv
  <2> QED BY <2>1, <2>2
<1>3. EndInv => NotStranded
  <2> SUFFICES ASSUME EndInv, Undisturbed PROVE ~Abandoned
    BY DEF NotStranded, Undisturbed
  <2>1. TakenOn
    BY DEF EndInv
  <2> QED BY <2>1 DEF TakenOn, Abandoned, Ended, Finalized, Continues
<1> QED BY <1>1, <1>2, <1>3, KeptHolds, PTL DEF Spec
================================================================================
