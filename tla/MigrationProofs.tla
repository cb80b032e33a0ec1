---------------------------- MODULE MigrationProofs ----------------------------
(* TLAPS proofs about Migration, for every set of users, workers and       *)
(* sessions, every roster of modules with its dependencies, and every      *)
(* bound.                                                                  *)
EXTENDS Migration, WellFoundedInduction, TLAPS

(* What is said of an import job, a module's turn and a set of cards, in a *)
(* state j of the import jobs.                                             *)
Made(j, s, m)     == j[s][m] # "none"
Imported(j, s, m) == j[s][m] = "completed"
AllImported(j, s) == \A m \in Modules : Imported(j, s, m)
Earlier(m, n)     == \E i, k \in DOMAIN Roster : Roster[i] = m /\ Roster[k] = n /\ k < i
InTurn(j, s, m)   == \A n \in Modules : Earlier(m, n) => Imported(j, s, n)

CardsTrue(j, s, cards) ==
  \A m \in Modules : /\ cards[m].job => Made(j, s, m)
                     /\ cards[m].phase = "completed" => Imported(j, s, m)

-----------------------------------------------------------------------------
(* The least of a set of numbers.                                          *)
LEMMA Least ==
  ASSUME NEW T \in SUBSET Nat, T # {}
  PROVE  \E x \in T : \A y \in T : x <= y
<1> DEFINE R == {ss \in Nat \X Nat : ss[1] < ss[2]}
<1>1. IsWellFoundedOn(R, Nat)
  BY NatLessThanWellFounded DEF OpToRel
<1> HIDE DEF R
<1>2. PICK x \in T : \A y \in T : ~(<<y, x>> \in R)
  BY <1>1, WFMin
<1>3. ASSUME NEW y \in T PROVE x <= y
  <2>1. ~(y < x)
    BY <1>2 DEF R
  <2> QED BY <2>1
<1> QED BY <1>3

LEMMA MinIsLeast ==
  ASSUME NEW T \in SUBSET Nat, T # {}
  PROVE  Min(T) \in T /\ \A y \in T : Min(T) <= y
BY Least DEF Min

LEMMA RosterFacts ==
  /\ Roster \in Seq(Modules) /\ DOMAIN Roster = 1 .. Len(Roster) /\ Len(Roster) \in Nat
  /\ DOMAIN Roster \subseteq Nat
  /\ \A m \in Modules : \E i \in DOMAIN Roster : Roster[i] = m
  /\ \A i \in DOMAIN Roster : Roster[i] \in Modules
BY RosterAssumption DEF Modules, Range

-----------------------------------------------------------------------------
(* What the reads of a session compute.                                    *)
LEMMA PhaseFacts ==
  ASSUME NEW status \in Jobs \ {"none"}
  PROVE  PhaseOf(status) \in Phases /\ (PhaseOf(status) = "completed" <=> status = "completed")
BY DEF Jobs, Terminal, PhaseOf, Phases

LEMMA Hydrated ==
  ASSUME job \in [Sessions -> [Modules -> Jobs]], NEW s \in Sessions, NEW cards \in Cards,
         CardsTrue(job, s, cards)
  PROVE  /\ Hydrate(s, cards) \in Cards /\ CardsTrue(job, s, Hydrate(s, cards))
         /\ Known(Hydrate(s, cards)) = Known(cards)
<1> DEFINE h == Hydrate(s, cards)
<1>1. ASSUME NEW m \in Modules
      PROVE  /\ h[m] \in [phase : Phases, job : BOOLEAN] /\ h[m].job = cards[m].job
             /\ h[m].phase = "completed" => Imported(job, s, m)
  <2>1. cards[m] \in [phase : Phases, job : BOOLEAN]
    BY DEF Cards
  <2>2. CASE h[m] = cards[m]
    BY <2>1, <2>2 DEF CardsTrue
  <2>3. CASE h[m] # cards[m]
    <3>1. m \in Known(cards) /\ h[m] = [cards[m] EXCEPT !.phase = PhaseOf(job[s][m])]
      BY <2>3 DEF Hydrate
    <3>2. job[s][m] \in Jobs \ {"none"}
      BY <3>1 DEF Known, CardsTrue, Made
    <3> QED BY <2>1, <3>1, <3>2, PhaseFacts DEF Imported
  <2> QED BY <2>2, <2>3
<1>2. h \in Cards
  BY <1>1 DEF Hydrate, Cards
<1> HIDE DEF h
<1>3. CardsTrue(job, s, h) /\ Known(h) = Known(cards)
  BY <1>1 DEF CardsTrue, Known
<1> QED BY <1>2, <1>3 DEF h

LEMMA Resolved ==
  ASSUME NEW s \in Sessions, NEW cards \in Cards, CardsTrue(job, s, cards), NEW row, NEW rows
  PROVE  /\ Resolve(s, row, cards, rows) \in {"none", "completed", "failed"}
         /\ Resolve(s, row, cards, rows) = "completed" => AllImported(job, s)
BY DEF Resolve, AllIn, CardsTrue, AllImported

(* The first unfinished module is the one whose turn it is: those it waits *)
(* for come before it.                                                     *)
LEMMA FirstReady ==
  ASSUME NEW cards \in Cards, Ready(cards) # {}
  PROVE  LET i == Min(Ready(cards)) IN
         i \in DOMAIN Roster /\ \A k \in DOMAIN Roster : k < i => cards[Roster[k]].phase = "completed"
<1> DEFINE i == Min(Ready(cards))
<1>1. Ready(cards) \subseteq Nat /\ Ready(cards) \subseteq DOMAIN Roster
  BY RosterFacts DEF Ready
<1>2. i \in Ready(cards) /\ \A k \in Ready(cards) : i <= k
  BY <1>1, MinIsLeast
<1> HIDE DEF i
<1>3. ASSUME NEW k \in DOMAIN Roster, k < i, cards[Roster[k]].phase # "completed" PROVE FALSE
  <2> DEFINE T == {n \in DOMAIN Roster : cards[Roster[n]].phase # "completed"}
  <2>1. PICK n \in T : \A l \in T : n <= l
    BY <1>3, RosterFacts, Least
  <2>2. n \in DOMAIN Roster /\ n <= k /\ n \in Nat /\ k \in Nat /\ i \in Nat
    BY <1>1, <1>2, <1>3, <2>1, RosterFacts
  <2>3. ASSUME NEW d \in DependsOn[Roster[n]] PROVE cards[d].phase = "completed"
    <3>1. d \in Modules
      BY <2>2, RosterFacts, RosterAssumption
    <3>2. PICK l \in DOMAIN Roster : Roster[l] = d
      BY <3>1, RosterFacts
    <3>3. l < n
      BY <2>2, <3>2, RosterAssumption
    <3>4. l \in Nat
      BY <3>2, RosterFacts
    <3>5. l \notin T
      BY <2>1, <2>2, <3>3, <3>4
    <3> QED BY <3>2, <3>5
  <2>4. n \in Ready(cards)
    BY <2>1, <2>3 DEF Ready
  <2>5. i <= n
    BY <1>2, <2>4
  <2> QED BY <1>3, <2>2, <2>5
<1> QED BY <1>1, <1>2, <1>3 DEF i

LEMMA NextInTurn ==
  ASSUME NEW s \in Sessions, NEW cards \in Cards, CardsTrue(job, s, cards), NEW row,
         NextModule(s, row, cards) # None
  PROVE  LET m == NextModule(s, row, cards) IN
         /\ m \in Modules /\ InTurn(job, s, m)
         /\ m \in Known(cards) => Made(job, s, m)
<1> DEFINE i == Min(Ready(cards))
           m == NextModule(s, row, cards)
<1>1. Ready(cards) # {} /\ m = Roster[i] /\ (m \in Known(cards) => job[s][m] = "pending")
  BY DEF NextModule
<1>2. i \in DOMAIN Roster /\ \A k \in DOMAIN Roster : k < i => cards[Roster[k]].phase = "completed"
  BY <1>1, FirstReady
<1> HIDE DEF i, m
<1>3. m \in Modules
  BY <1>1, <1>2, RosterFacts
<1>4. ASSUME NEW n \in Modules, Earlier(m, n) PROVE Imported(job, s, n)
  <2>1. PICK x, k \in DOMAIN Roster : Roster[x] = m /\ Roster[k] = n /\ k < x
    BY <1>4 DEF Earlier
  <2>2. x = i
    BY <1>1, <1>2, <2>1, RosterAssumption
  <2> QED BY <1>2, <2>1, <2>2 DEF CardsTrue
<1> QED BY <1>1, <1>3, <1>4 DEF InTurn, Made, m
-----------------------------------------------------------------------------
(* Types.                                                                  *)
QueueRow == [status : {"NONE", "PENDING", "RUNNING"}, holder : Workers \cup {None},
             attempts : 0 .. MaxAttempts]
HeldType == [op : Ops, sess : Sessions \cup {None}, row : Rows, mod : Modules \cup {None},
             plan : Modules \cup {None}, todo : SUBSET Modules,
             verdict : {"none", "completed", "failed"}, failed : BOOLEAN]

TablesOK ==
  /\ session \in [Sessions -> Rows] /\ job \in [Sessions -> [Modules -> Jobs]]
  /\ queue \in [Sessions -> [Modules -> QueueRow]] /\ jobsOld \in [Sessions -> BOOLEAN]

HandlersOK == pc \in [Actors -> PCs] /\ my \in [Actors -> HeldType]

BoundsOK ==
  /\ requests \in 0 .. MaxRequests /\ asked \subseteq Requests /\ failures \in 0 .. MaxFaults
  /\ crashes \in 0 .. MaxFaults /\ overtaken \in 0 .. MaxFaults /\ doubled \subseteq Sessions

LEMMA TypeParts == TypeOK <=> TablesOK /\ HandlersOK /\ BoundsOK
BY DEF TypeOK, TablesOK, HandlersOK, BoundsOK, QueueRow, HeldType

LEMMA TypePartsNext == TypeOK' <=> (TablesOK /\ HandlersOK /\ BoundsOK)'
BY DEF TypeOK, TablesOK, HandlersOK, BoundsOK, QueueRow, HeldType

LEMMA FreshType == Fresh \in HeldType /\ NoRow \in Rows /\ AllReady \in Cards
<1>1. AllReady \in Cards
  BY DEF AllReady, Cards, Phases
<1>2. NoRow \in Rows
  BY <1>1 DEF NoRow, Rows
<1> QED BY <1>1, <1>2 DEF Fresh, HeldType, Ops

(* The order of the import: a session's modules are made in the order of   *)
(* the roster, one after the other; what a row or a handler says of them   *)
(* is so, though both may be older than the import jobs are; and whoever   *)
(* works on a module, works on one that was made.                          *)
RowTrue(j, s, row) ==
  CardsTrue(j, s, row.cards) /\ (row.state = "completed" => AllImported(j, s))

SessionTrue(j, s, row, q) ==
  /\ RowTrue(j, s, row)
  /\ \A m \in Modules : Made(j, s, m) => InTurn(j, s, m)
  /\ \A m \in Modules : q[m].status # "NONE" => Made(j, s, m)

Starting  == {"createJob", "setPending", "readStatus", "write", "enqueue"}
Listing   == {"writeCancel", "cancelJobs", "retryJobs"}
Hooked    == {"start", "gate", "stop", "process", "finish", "hook", "reconcile", "advance",
              "complete"}
UserPCs   == PCs \ Hooked
WorkerPCs == Hooked \cup Starting \cup {"idle", "facts", "close"}
Busy      == PCs \ {"idle", "find", "insert"}

Handling(j, a, l, r) ==
  /\ l \in IF a \in Users THEN UserPCs ELSE WorkerPCs
  /\ l \in Busy => r.sess \in Sessions /\ CardsTrue(j, r.sess, r.row.cards)
  /\ l \in Busy /\ a \notin Users => r.mod \in Modules /\ Made(j, r.sess, r.mod)
  /\ l \in Starting => /\ r.plan \in Modules /\ InTurn(j, r.sess, r.plan)
                       /\ l # "createJob" => Made(j, r.sess, r.plan)
  /\ l \in Listing => \A m \in r.todo : Made(j, r.sess, m)
  /\ l = "close" => /\ r.op \in IF a \in Users THEN {"poll", "create"} ELSE {"reconcile", "advance"}
                    /\ r.verdict = "completed" => AllImported(j, r.sess)

SessionsTrue == \A s \in Sessions : SessionTrue(job, s, session[s], queue[s])
ActorsTrue   == \A a \in Actors : Handling(job, a, pc[a], my[a])
OrderInv     == SessionsTrue /\ ActorsTrue

-----------------------------------------------------------------------------
(* What a step does to the import jobs: none is unmade, none that was      *)
(* imported is taken back, and one is made in its turn.                    *)
Grows ==
  \A s \in Sessions, m \in Modules :
    /\ Made(job, s, m) => Made(job', s, m)
    /\ Imported(job, s, m) => Imported(job', s, m)
    /\ Made(job', s, m) => InTurn(job, s, m)

LEMMA CardsStayTrue ==
  ASSUME Grows, NEW s \in Sessions, NEW cards, CardsTrue(job, s, cards)
  PROVE  CardsTrue(job', s, cards)
BY DEF Grows, CardsTrue

LEMMA RowStaysTrue ==
  ASSUME Grows, NEW s \in Sessions, NEW row, RowTrue(job, s, row)
  PROVE  RowTrue(job', s, row)
BY CardsStayTrue DEF Grows, RowTrue, AllImported

LEMMA HandlingStays ==
  ASSUME Grows, NEW a, NEW l, NEW r \in HeldType, Handling(job, a, l, r)
  PROVE  Handling(job', a, l, r)
<1>1. /\ Starting \subseteq Busy /\ Listing \subseteq Busy /\ "close" \in Busy
      /\ r.todo \subseteq Modules
  BY DEF Starting, Listing, Busy, PCs, HeldType
<1>2. ASSUME l \in Busy PROVE r.sess \in Sessions
  BY <1>2 DEF Handling
<1>3. l \in Busy => CardsTrue(job', r.sess, r.row.cards)
  BY CardsStayTrue DEF Handling
<1>4. l \in Busy /\ a \notin Users => r.mod \in Modules /\ Made(job', r.sess, r.mod)
  BY <1>2 DEF Handling, Grows
<1>5. l \in Starting => /\ r.plan \in Modules /\ InTurn(job', r.sess, r.plan)
                        /\ l # "createJob" => Made(job', r.sess, r.plan)
  BY <1>1, <1>2 DEF Handling, Grows, InTurn
<1>6. l \in Listing => \A m \in r.todo : Made(job', r.sess, m)
  BY <1>1, <1>2 DEF Handling, Grows
<1>7. l = "close" /\ r.verdict = "completed" => AllImported(job', r.sess)
  BY <1>1, <1>2 DEF Handling, Grows, AllImported
<1> QED BY <1>2, <1>3, <1>4, <1>5, <1>6, <1>7 DEF Handling

LEMMA JobsStay ==
  ASSUME SessionsTrue, UNCHANGED job
  PROVE  Grows
BY DEF SessionsTrue, SessionTrue, Grows, Made, Imported

(* A write of an import job that is made, or whose turn it is, and that is *)
(* not imported.                                                           *)
LEMMA JobWrite ==
  ASSUME TablesOK, SessionsTrue, NEW s \in Sessions, NEW m \in Modules,
         NEW status \in Jobs \ {"none"}, WriteJob(s, m, status),
         ~Imported(job, s, m), Made(job, s, m) \/ InTurn(job, s, m)
  PROVE  /\ job' \in [Sessions -> [Modules -> Jobs]] /\ jobsOld' \in [Sessions -> BOOLEAN]
         /\ Grows /\ Made(job', s, m)
<1>1. job' = [job EXCEPT ![s] = [job[s] EXCEPT ![m] = status]]
  BY DEF WriteJob
<1>2. job[s] \in [Modules -> Jobs]
  BY DEF TablesOK
<1>3. job' \in [Sessions -> [Modules -> Jobs]] /\ jobsOld' \in [Sessions -> BOOLEAN]
  BY <1>1, <1>2 DEF TablesOK, WriteJob
<1>4. job'[s][m] = status /\ \A x \in Sessions, n \in Modules :
                                (x # s \/ n # m) => job'[x][n] = job[x][n]
  BY <1>1, <1>2 DEF TablesOK
<1>5. Grows
  BY <1>4 DEF Grows, Made, Imported, SessionsTrue, SessionTrue
<1> QED BY <1>3, <1>4, <1>5 DEF Made

LEMMA GuardedJobWrite ==
  ASSUME TablesOK, SessionsTrue, NEW s \in Sessions, NEW m \in Modules,
         NEW status \in Jobs \ {"none"}, WriteUnlessTerminal(s, m, status), Made(job, s, m)
  PROVE  /\ job' \in [Sessions -> [Modules -> Jobs]] /\ jobsOld' \in [Sessions -> BOOLEAN]
         /\ Grows
<1>1. CASE job[s][m] \in Terminal
  BY <1>1, JobsStay DEF WriteUnlessTerminal, TablesOK
<1>2. CASE job[s][m] \notin Terminal
  BY <1>2, JobWrite DEF WriteUnlessTerminal, Terminal, Imported
<1> QED BY <1>1, <1>2

(* The sessions stay true when what is written to one is true of it.       *)
LEMMA SessionsStay ==
  ASSUME SessionsTrue, Grows,
         \A s \in Sessions : session'[s] = session[s] \/ RowTrue(job', s, session'[s]),
         \A s \in Sessions, m \in Modules :
           queue'[s][m].status # "NONE" => queue[s][m].status # "NONE" \/ Made(job', s, m)
  PROVE  SessionsTrue'
<1> SUFFICES ASSUME NEW s \in Sessions PROVE SessionTrue(job', s, session'[s], queue'[s])
  BY DEF SessionsTrue
<1>1. SessionTrue(job, s, session[s], queue[s])
  BY DEF SessionsTrue
<1>2. RowTrue(job', s, session'[s])
  BY <1>1, RowStaysTrue DEF SessionTrue
<1>3. \A m \in Modules : Made(job', s, m) => InTurn(job', s, m)
  BY DEF Grows, InTurn
<1>4. \A m \in Modules : queue'[s][m].status # "NONE" => Made(job', s, m)
  BY <1>1 DEF SessionTrue, Grows
<1> QED BY <1>2, <1>3, <1>4 DEF SessionTrue

(* What an actor turns to.                                                 *)
Turns(a) ==
  \E l \in PCs, r \in HeldType : Goto(a, l) /\ Become(a, r) /\ Handling(job', a, l, r)

LEMMA ActorsStay ==
  ASSUME HandlersOK, ActorsTrue, Grows, NEW a \in Actors, Turns(a)
  PROVE  HandlersOK' /\ ActorsTrue'
<1>1. PICK l \in PCs, r \in HeldType : Goto(a, l) /\ Become(a, r) /\ Handling(job', a, l, r)
  BY DEF Turns
<1>2. HandlersOK'
  BY <1>1 DEF HandlersOK, Goto, Become
<1>3. ASSUME NEW b \in Actors PROVE Handling(job', b, pc'[b], my'[b])
  <2>1. CASE b = a
    BY <1>1, <2>1 DEF HandlersOK, Goto, Become
  <2>2. CASE b # a
    <3>1. pc'[b] = pc[b] /\ my'[b] = my[b] /\ my[b] \in HeldType
      BY <1>1, <2>2 DEF HandlersOK, Goto, Become
    <3> QED BY <3>1, HandlingStays DEF ActorsTrue
  <2> QED BY <2>1, <2>2
<1> QED BY <1>2, <1>3 DEF ActorsTrue
-----------------------------------------------------------------------------
(* What a step of an actor has to show, and the forms it takes.            *)
StepOK(a) == TablesOK' /\ SessionsTrue' /\ Grows /\ Turns(a)

LEMMA ReadOnly ==
  ASSUME TablesOK, SessionsTrue, UNCHANGED tables
  PROVE  TablesOK' /\ SessionsTrue' /\ Grows
<1>1. UNCHANGED <<session, job, queue, jobsOld>>
  BY DEF tables
<1>2. Grows
  BY <1>1, JobsStay
<1> QED BY <1>1, <1>2 DEF TablesOK, SessionsTrue

LEMMA ReturnTurns ==
  ASSUME NEW a \in Actors, Return(a)
  PROVE  Turns(a)
<1>1. Handling(job', a, "idle", Fresh)
  BY DEF Handling, UserPCs, WorkerPCs, Busy, Starting, Listing, Hooked, PCs
<1> QED BY <1>1, FreshType DEF Return, Turns, PCs

LEMMA GotoTurns ==
  ASSUME HandlersOK, NEW a \in Actors, NEW l \in PCs, Goto(a, l), UNCHANGED my,
         Handling(job', a, l, my[a])
  PROVE  Turns(a)
BY DEF Turns, Become, HandlersOK

LEMMA MyFacts ==
  ASSUME TypeOK, OrderInv, NEW a \in Actors, pc[a] \in Busy
  PROVE  /\ TablesOK /\ HandlersOK /\ SessionsTrue /\ ActorsTrue
         /\ my[a] \in HeldType /\ my[a].sess \in Sessions /\ my[a].row \in Rows
         /\ my[a].row.cards \in Cards /\ session[my[a].sess] \in Rows
         /\ CardsTrue(job, my[a].sess, my[a].row.cards)
         /\ Handling(job, a, pc[a], my[a])
<1>1. TablesOK /\ HandlersOK /\ SessionsTrue /\ ActorsTrue
  BY TypeParts DEF OrderInv
<1>2. my[a] \in HeldType /\ Handling(job, a, pc[a], my[a])
  BY <1>1 DEF HandlersOK, ActorsTrue
<1>3. my[a].sess \in Sessions /\ CardsTrue(job, my[a].sess, my[a].row.cards)
  BY <1>2 DEF Handling
<1> QED BY <1>1, <1>2, <1>3 DEF HeldType, Rows, TablesOK

(* What is held after the facts were read.                                 *)
LEMMA HeldFacts ==
  ASSUME TypeOK, OrderInv, NEW a \in Actors, pc[a] = "facts"
  PROVE  /\ Held(a) \in HeldType /\ Held(a).sess = my[a].sess /\ Held(a).row.cards = Seen(a)
         /\ Held(a).mod = my[a].mod /\ Held(a).op = my[a].op
         /\ Seen(a) \in Cards /\ CardsTrue(job, my[a].sess, Seen(a))
         /\ Known(Seen(a)) = Known(my[a].row.cards)
         /\ a \notin Users => my[a].mod \in Modules /\ Made(job, my[a].sess, my[a].mod)
<1>1. pc[a] \in Busy
  BY DEF Busy, PCs
<1>2. /\ Seen(a) \in Cards /\ CardsTrue(job, my[a].sess, Seen(a))
      /\ Known(Seen(a)) = Known(my[a].row.cards)
  BY <1>1, MyFacts, Hydrated DEF Seen, TablesOK
<1>3. [my[a].row EXCEPT !.cards = Seen(a)] \in Rows
  BY <1>1, <1>2, MyFacts DEF Rows
<1>4. Held(a) = [my[a] EXCEPT !.row = [my[a].row EXCEPT !.cards = Seen(a)]]
  BY <1>1, MyFacts DEF Held, HeldType
<1>5. Held(a) \in HeldType /\ Held(a).sess = my[a].sess /\ Held(a).row.cards = Seen(a)
      /\ Held(a).mod = my[a].mod /\ Held(a).op = my[a].op
  BY <1>1, <1>3, <1>4, MyFacts DEF HeldType, Rows
<1>6. a \notin Users => my[a].mod \in Modules /\ Made(job, my[a].sess, my[a].mod)
  BY <1>1, MyFacts DEF Handling
<1> QED BY <1>2, <1>5, <1>6

LEMMA DecideStays ==
  ASSUME TypeOK, OrderInv, NEW a \in Actors, NEW op, Decide(a, op)
  PROVE  /\ pc[a] = "facts" /\ UNCHANGED job /\ TablesOK' /\ SessionsTrue' /\ Grows
         /\ my[a].op = op
BY TypeParts, ReadOnly DEF Decide, OrderInv, tables

(* A module is planned: its turn it is.                                    *)
LEMMA BootstrapTurns ==
  ASSUME TypeOK, OrderInv, NEW a \in Actors, pc[a] = "facts", UNCHANGED job,
         Started(a) # None, Bootstrap(a)
  PROVE  Turns(a)
<1> DEFINE m == Started(a)
           r == [Held(a) EXCEPT !.plan = m]
           l == IF m \in Known(my[a].row.cards) THEN "enqueue" ELSE "createJob"
<1>1. pc[a] \in Busy
  BY DEF Busy, PCs
<1>2. /\ m \in Modules /\ InTurn(job, my[a].sess, m)
      /\ m \in Known(Seen(a)) => Made(job, my[a].sess, m)
  BY <1>1, MyFacts, HeldFacts, NextInTurn DEF Started
<1>3. Goto(a, l) /\ Become(a, r)
  BY DEF Bootstrap
<1>4. l \in PCs /\ l \in Starting /\ l \in UserPCs /\ l \in WorkerPCs /\ l \notin Listing /\ l # "close"
      /\ (l # "createJob" => m \in Known(Seen(a)))
  BY HeldFacts DEF PCs, Starting, UserPCs, WorkerPCs, Hooked, Listing
<1> HIDE DEF m, l
<1>5. r \in HeldType /\ r.sess = my[a].sess /\ r.row.cards = Seen(a) /\ r.mod = my[a].mod
      /\ r.plan = m
  BY <1>2, HeldFacts DEF HeldType
<1> HIDE DEF r
<1>6. my[a].sess \in Sessions
  BY <1>1, MyFacts
<1>7. Handling(job', a, l, r)
  BY <1>2, <1>4, <1>5, <1>6, HeldFacts DEF Handling
<1> QED BY <1>3, <1>4, <1>5, <1>7 DEF Turns

(* The session in hand is to be closed.                                    *)
LEMMA CloseTurns ==
  ASSUME TypeOK, OrderInv, NEW a \in Actors, pc[a] = "facts", UNCHANGED job, NEW rows,
         NEW verdict, verdict = Resolve(my[a].sess, my[a].row, Seen(a), rows), verdict # "none",
         my[a].op \in IF a \in Users THEN {"poll", "create"} ELSE {"reconcile", "advance"},
         Goto(a, "close"), Become(a, [Held(a) EXCEPT !.verdict = verdict])
  PROVE  Turns(a)
<1> DEFINE r == [Held(a) EXCEPT !.verdict = verdict]
<1>1. pc[a] \in Busy
  BY DEF Busy, PCs
<1>2. my[a].sess \in Sessions
  BY <1>1, MyFacts
<1>3. verdict \in {"none", "completed", "failed"}
      /\ (verdict = "completed" => AllImported(job, my[a].sess))
  BY <1>2, HeldFacts, Resolved
<1>4. r \in HeldType /\ r.sess = my[a].sess /\ r.row.cards = Seen(a) /\ r.mod = my[a].mod
      /\ r.op = my[a].op /\ r.verdict = verdict
  BY <1>3, HeldFacts DEF HeldType
<1> HIDE DEF r
<1>5. "close" \in PCs /\ "close" \in UserPCs /\ "close" \in WorkerPCs /\ "close" \notin Listing
      /\ "close" \notin Starting
  BY DEF PCs, Starting, UserPCs, WorkerPCs, Hooked, Listing
<1>6. Handling(job', a, "close", r)
  BY <1>2, <1>3, <1>4, <1>5, HeldFacts DEF Handling
<1> QED BY <1>4, <1>5, <1>6 DEF Turns, r
-----------------------------------------------------------------------------
(* The steps of a user.                                                    *)
LEMMA WriteSessionFacts ==
  ASSUME TablesOK, NEW s \in Sessions, NEW status \in {"NONE", "IN_PROGRESS", "COMPLETED", "CANCELLED"},
         NEW state \in {"none", "running"} \cup Terminal, NEW cards \in Cards,
         WriteSession(s, status, state, cards)
  PROVE  /\ session' \in [Sessions -> Rows] /\ session'[s] \in Rows
         /\ session'[s].cards = cards /\ session'[s].state = state
         /\ \A x \in Sessions : x # s => session'[x] = session[x]
<1> DEFINE row == [status |-> status, state |-> state, cards |-> cards, old |-> FALSE]
<1>1. row \in Rows /\ row.cards = cards /\ row.state = state
  BY DEF Rows
<1>2. session' = [session EXCEPT ![s] = row]
  BY DEF WriteSession
<1> HIDE DEF row
<1> QED BY <1>1, <1>2 DEF TablesOK

(* A session is written with cards that are so, and not as completed       *)
(* before it is.                                                           *)
LEMMA SessionWrite ==
  ASSUME TablesOK, SessionsTrue, NEW s \in Sessions,
         NEW status \in {"NONE", "IN_PROGRESS", "COMPLETED", "CANCELLED"},
         NEW state \in {"none", "running"} \cup Terminal, NEW cards \in Cards,
         WriteSession(s, status, state, cards), UNCHANGED <<job, queue, jobsOld>>,
         CardsTrue(job, s, cards), state = "completed" => AllImported(job, s)
  PROVE  TablesOK' /\ SessionsTrue' /\ Grows
<1>1. Grows
  BY JobsStay
<1>2. RowTrue(job', s, session'[s])
  BY WriteSessionFacts DEF RowTrue
<1>3. SessionsTrue'
  BY <1>1, <1>2, SessionsStay, WriteSessionFacts
<1> QED BY <1>1, <1>3, WriteSessionFacts DEF TablesOK

LEMMA UserPlaces ==
  /\ {"facts", "close", "insert", "find", "writeCancel", "cancelJobs", "withdraw", "retryJobs",
      "reread", "writeRetry"} \subseteq UserPCs
  /\ UserPCs \subseteq PCs /\ WorkerPCs \subseteq PCs
  /\ {"facts", "withdraw", "reread", "writeRetry"} \cap (Starting \cup Listing \cup {"close"}) = {}
  /\ {"facts", "withdraw", "reread", "writeRetry", "writeCancel", "cancelJobs", "retryJobs"} \subseteq Busy
  /\ Listing \cap (Starting \cup {"close"}) = {} /\ Listing \subseteq UserPCs
  /\ {"find", "insert"} \cap (Busy \cup Starting \cup Listing \cup {"close"}) = {}
BY DEF UserPCs, WorkerPCs, PCs, Hooked, Starting, Listing, Busy

(* A user takes up a session as it is.                                     *)
LEMMA TakesUp ==
  ASSUME TablesOK, NEW u \in Users, NEW s \in Sessions, NEW r \in HeldType, Goto(u, "facts"),
         Become(u, r), r.sess = s, CardsTrue(job', s, r.row.cards)
  PROVE  Turns(u)
<1>1. Handling(job', u, "facts", r)
  BY UserPlaces DEF Handling
<1> QED BY <1>1 DEF Turns, PCs

LEMMA RequestStep ==
  ASSUME TypeOK, OrderInv, NEW u \in Users,
         Create(u) \/ \E kind \in {"poll", "cancel", "retry"}, s \in Sessions : Read(u, kind, s)
  PROVE  StepOK(u)
<1>0. TablesOK /\ SessionsTrue /\ u \in Actors
  BY TypeParts DEF OrderInv, Actors
<1>1. TablesOK' /\ SessionsTrue' /\ Grows /\ UNCHANGED tables
  BY <1>0, ReadOnly DEF Create, Read, Request
<1>2. CASE Create(u)
  <2>1. [Fresh EXCEPT !.op = "create"] \in HeldType
    BY FreshType DEF HeldType, Ops
  <2>2. Handling(job', u, "find", [Fresh EXCEPT !.op = "create"])
    BY UserPlaces DEF Handling
  <2>3. Turns(u)
    BY <1>2, <2>1, <2>2 DEF Create, Turns, PCs
  <2> QED BY <1>1, <2>3 DEF StepOK
<1>3. ASSUME NEW kind \in {"poll", "cancel", "retry"}, NEW s \in Sessions, Read(u, kind, s)
      PROVE  Turns(u)
  <2> DEFINE r == [Fresh EXCEPT !.op = kind, !.sess = s, !.row = session[s]]
  <2>1. session[s] \in Rows /\ CardsTrue(job, s, session[s].cards)
    BY <1>0 DEF TablesOK, SessionsTrue, SessionTrue, RowTrue
  <2>2. r \in HeldType /\ r.sess = s /\ r.row = session[s]
    BY <2>1, FreshType DEF HeldType, Ops
  <2>3. CardsTrue(job', s, r.row.cards)
    BY <1>1, <2>1, <2>2 DEF tables
  <2> QED BY <1>0, <1>3, <2>2, <2>3, TakesUp DEF Read
<1> QED BY <1>0, <1>1, <1>2, <1>3 DEF StepOK

LEMMA FindStep ==
  ASSUME TypeOK, OrderInv, NEW u \in Users, Find(u)
  PROVE  StepOK(u)
<1>0. TablesOK /\ HandlersOK /\ SessionsTrue /\ u \in Actors /\ my[u] \in HeldType
  BY TypeParts DEF OrderInv, Actors, HandlersOK
<1>1. TablesOK' /\ SessionsTrue' /\ Grows /\ UNCHANGED tables
  BY <1>0, ReadOnly DEF Find
<1>2. ASSUME NEW s \in Sessions, Goto(u, "facts"),
             Become(u, [my[u] EXCEPT !.sess = s, !.row = session[s]])
      PROVE  Turns(u)
  <2> DEFINE r == [my[u] EXCEPT !.sess = s, !.row = session[s]]
  <2>1. session[s] \in Rows /\ CardsTrue(job, s, session[s].cards)
    BY <1>0 DEF TablesOK, SessionsTrue, SessionTrue, RowTrue
  <2>2. r \in HeldType /\ r.sess = s /\ r.row = session[s]
    BY <1>0, <2>1 DEF HeldType
  <2>3. CardsTrue(job', s, r.row.cards)
    BY <1>1, <2>1, <2>2 DEF tables
  <2> QED BY <1>0, <1>2, <2>2, <2>3, TakesUp
<1>3. ASSUME Goto(u, "insert"), UNCHANGED my PROVE Turns(u)
  <2>1. Handling(job', u, "insert", my[u])
    BY UserPlaces DEF Handling
  <2> QED BY <1>0, <1>3, <2>1, GotoTurns DEF PCs
<1>4. Return(u) => Turns(u)
  BY <1>0, ReturnTurns
<1> QED BY <1>1, <1>2, <1>3, <1>4 DEF Find, StepOK

LEMMA InsertStep ==
  ASSUME TypeOK, OrderInv, NEW u \in Users, Insert(u)
  PROVE  StepOK(u)
<1>0. TablesOK /\ HandlersOK /\ SessionsTrue /\ u \in Actors /\ UNCHANGED <<job, queue, jobsOld>>
  BY TypeParts DEF OrderInv, Actors, Insert
<1>1. CASE UNCHANGED session /\ Goto(u, "find") /\ Become(u, [Fresh EXCEPT !.op = "poll"])
  <2>1. [Fresh EXCEPT !.op = "poll"] \in HeldType
    BY FreshType DEF HeldType, Ops
  <2>2. Handling(job', u, "find", [Fresh EXCEPT !.op = "poll"])
    BY UserPlaces DEF Handling
  <2>3. Turns(u)
    BY <1>1, <2>1, <2>2 DEF Turns, PCs
  <2> QED BY <1>0, <1>1, <2>3, ReadOnly DEF StepOK, tables
<1>2. CASE UNCHANGED session /\ Return(u)
  BY <1>0, <1>2, ReadOnly, ReturnTurns DEF StepOK, tables
<1>3. ASSUME NEW s \in Sessions, WriteSession(s, "IN_PROGRESS", "running", AllReady),
             Goto(u, "facts"),
             Become(u, [Fresh EXCEPT !.op = "begin", !.sess = s, !.row = session'[s]])
      PROVE  StepOK(u)
  <2> DEFINE r == [Fresh EXCEPT !.op = "begin", !.sess = s, !.row = session'[s]]
  <2>1. CardsTrue(job, s, AllReady)
    BY DEF CardsTrue, AllReady
  <2>2. session'[s] \in Rows /\ session'[s].cards = AllReady
    BY <1>0, <1>3, FreshType, WriteSessionFacts
  <2>3. TablesOK' /\ SessionsTrue' /\ Grows
    BY <1>0, <1>3, <2>1, FreshType, SessionWrite
  <2>4. r \in HeldType /\ r.sess = s /\ r.row = session'[s]
    BY <2>2, FreshType DEF HeldType, Ops
  <2>5. CardsTrue(job', s, r.row.cards)
    BY <1>0, <2>1, <2>2, <2>4
  <2> QED BY <1>0, <1>3, <2>3, <2>4, <2>5, TakesUp DEF StepOK
<1> QED BY <1>1, <1>2, <1>3 DEF Insert

LEMMA DecisionStep ==
  ASSUME TypeOK, OrderInv, NEW u \in Users, Look(u) \/ Begin(u)
  PROVE  StepOK(u)
<1>0. u \in Actors
  BY DEF Actors
<1>1. ASSUME NEW op \in {"poll", "create"}, Decide(u, op), Settle(u, Queued(u), Return(u))
      PROVE  StepOK(u)
  <2>1. pc[u] = "facts" /\ UNCHANGED job /\ TablesOK' /\ SessionsTrue' /\ Grows /\ my[u].op = op
    BY <1>0, <1>1, DecideStays
  <2>2. CASE Return(u)
    BY <1>0, <2>1, <2>2, ReturnTurns DEF StepOK
  <2>3. CASE ~Return(u)
    <3>1. Turns(u)
      BY <1>0, <1>1, <2>1, <2>3, CloseTurns DEF Settle
    <3> QED BY <2>1, <3>1 DEF StepOK
  <2> QED BY <2>2, <2>3
<1>2. CASE Begin(u)
  <2>1. pc[u] = "facts" /\ UNCHANGED job /\ TablesOK' /\ SessionsTrue' /\ Grows
    BY <1>0, <1>2, DecideStays DEF Begin
  <2> QED BY <1>0, <1>2, <2>1, ReturnTurns, BootstrapTurns DEF Begin, StepOK
<1> QED BY <1>1, <1>2 DEF Look

LEMMA PlanStep ==
  ASSUME TypeOK, OrderInv, NEW u \in Users, PlanCancel(u) \/ PlanRetry(u) \/ Resume(u)
  PROVE  StepOK(u)
<1>1. u \in Actors /\ pc[u] = "facts" /\ UNCHANGED job /\ TablesOK' /\ SessionsTrue' /\ Grows
  BY DecideStays DEF PlanCancel, PlanRetry, Resume, Actors
<1>2. ASSUME NEW l \in {"writeCancel", "retryJobs", "reread", "writeRetry"}, NEW todo \in SUBSET Modules,
             \A m \in todo : m \in Known(my[u].row.cards),
             Goto(u, l), Become(u, [Held(u) EXCEPT !.todo = todo])
      PROVE  Turns(u)
  <2> DEFINE r == [Held(u) EXCEPT !.todo = todo]
  <2>1. r \in HeldType /\ r.sess = my[u].sess /\ r.row.cards = Seen(u) /\ r.todo = todo
    BY <1>1, HeldFacts DEF HeldType
  <2> HIDE DEF r
  <2>2. my[u].sess \in Sessions
    BY <1>1, MyFacts, UserPlaces
  <2>3. \A m \in todo : Made(job, my[u].sess, m)
    BY <1>1, <1>2, HeldFacts DEF CardsTrue, Known
  <2>4. Handling(job', u, l, r)
    BY <1>1, <2>1, <2>2, <2>3, HeldFacts, UserPlaces DEF Handling, Listing
  <2> QED BY <1>2, <2>1, <2>4 DEF Turns, r, PCs
<1>3. CASE PlanCancel(u)
  <2> DEFINE todo == {m \in Known(my[u].row.cards) : job[my[u].sess][m] = "pending"}
  <2>1. todo \in SUBSET Modules
    BY DEF Known
  <2> QED BY <1>1, <1>2, <1>3, <2>1, ReturnTurns DEF PlanCancel, StepOK
<1>4. CASE PlanRetry(u)
  <2> DEFINE todo == {m \in Known(my[u].row.cards) : job[my[u].sess][m] \in {"failed", "cancelled"}}
  <2>1. todo \in SUBSET Modules
    BY DEF Known
  <2> QED BY <1>1, <1>2, <1>4, <2>1, ReturnTurns DEF PlanRetry, StepOK
<1>5. CASE Resume(u)
  <2>1. Handling(job', u, "writeRetry", Held(u))
    BY <1>1, HeldFacts, MyFacts, UserPlaces DEF Handling
  <2> QED BY <1>1, <1>5, <2>1, HeldFacts DEF Resume, StepOK, Turns, PCs
<1> QED BY <1>3, <1>4, <1>5

LEMMA WriteCancelStep ==
  ASSUME TypeOK, OrderInv, NEW u \in Users, WriteCancel(u)
  PROVE  StepOK(u)
<1> DEFINE s == my[u].sess
           old == my[u].row.cards
           cards == [m \in Modules |->
             [old[m] EXCEPT !.phase = IF @ \in {"queued", "ready"} THEN "cancelled" ELSE @]]
<1>0. u \in Actors /\ pc[u] = "writeCancel" /\ pc[u] \in Busy /\ UNCHANGED <<job, queue, jobsOld, my>>
  BY UserPlaces DEF Actors, WriteCancel
<1>1. /\ TablesOK /\ HandlersOK /\ SessionsTrue /\ s \in Sessions /\ old \in Cards
      /\ CardsTrue(job, s, old) /\ Handling(job, u, "writeCancel", my[u])
  BY <1>0, MyFacts
<1>2. ASSUME NEW m \in Modules
      PROVE  /\ cards[m] \in [phase : Phases, job : BOOLEAN] /\ cards[m].job = old[m].job
             /\ cards[m].phase = "completed" => old[m].phase = "completed"
  BY <1>1 DEF Cards, Phases, Terminal
<1>3. cards \in Cards
  BY <1>2 DEF Cards
<1>4. WriteSession(s, "CANCELLED", "cancelled", cards)
  BY DEF WriteCancel
<1> HIDE DEF cards
<1>5. CardsTrue(job, s, cards)
  BY <1>1, <1>2 DEF CardsTrue
<1>6. TablesOK' /\ SessionsTrue' /\ Grows
  BY <1>0, <1>1, <1>3, <1>4, <1>5, SessionWrite DEF Terminal
<1>7. ASSUME NEW l \in {"withdraw", "cancelJobs"}, Goto(u, l) PROVE Turns(u)
  <2>1. Handling(job', u, l, my[u])
    BY <1>0, <1>1, UserPlaces DEF Handling, Listing
  <2> QED BY <1>0, <1>1, <1>7, <2>1, UserPlaces, GotoTurns
<1> QED BY <1>6, <1>7 DEF WriteCancel, StepOK

LEMMA TakeJobStep ==
  ASSUME TypeOK, OrderInv, NEW u \in Users, NEW m \in Modules, CancelJob(u, m) \/ RetryJob(u, m)
  PROVE  StepOK(u)
<1> DEFINE s == my[u].sess
<1>0. /\ u \in Actors /\ pc[u] \in Listing /\ pc[u] \in Busy /\ m \in my[u].todo
      /\ UNCHANGED <<session, queue>>
  BY UserPlaces DEF Actors, CancelJob, RetryJob, TakeJob, Listing
<1>1. /\ TablesOK /\ HandlersOK /\ SessionsTrue /\ s \in Sessions /\ my[u] \in HeldType
      /\ Handling(job, u, pc[u], my[u])
  BY <1>0, MyFacts
<1>2. Made(job, s, m)
  BY <1>0, <1>1 DEF Handling
<1>3. /\ job' \in [Sessions -> [Modules -> Jobs]] /\ jobsOld' \in [Sessions -> BOOLEAN] /\ Grows
  <2>1. CASE CancelJob(u, m)
    BY <1>1, <1>2, <2>1, GuardedJobWrite DEF CancelJob, Jobs, Terminal
  <2>2. CASE RetryJob(u, m) /\ job[s][m] = "completed"
    BY <1>1, <2>2, JobsStay DEF RetryJob, TablesOK
  <2>3. CASE RetryJob(u, m) /\ job[s][m] # "completed"
    BY <1>1, <1>2, <2>3, JobWrite DEF RetryJob, Jobs, Imported
  <2> QED BY <2>1, <2>2, <2>3
<1>4. TablesOK' /\ SessionsTrue'
  <2>1. SessionsTrue'
    BY <1>0, <1>1, <1>3, SessionsStay
  <2> QED BY <1>0, <1>1, <1>3, <2>1 DEF TablesOK
<1>5. PICK l \in {"cancelJobs", "withdraw", "retryJobs", "reread"} :
        Goto(u, l) /\ Become(u, [my[u] EXCEPT !.todo = @ \ {m}])
  BY DEF CancelJob, RetryJob, TakeJob
<1> DEFINE r == [my[u] EXCEPT !.todo = @ \ {m}]
<1>6. r \in HeldType /\ r.sess = s /\ r.row = my[u].row /\ r.todo = my[u].todo \ {m}
  BY <1>1 DEF HeldType
<1> HIDE DEF r
<1>7. Handling(job, u, l, r)
  BY <1>0, <1>1, <1>6, UserPlaces DEF Handling, Listing
<1>8. Handling(job', u, l, r)
  BY <1>3, <1>6, <1>7, HandlingStays
<1> QED BY <1>3, <1>4, <1>5, <1>6, <1>8, UserPlaces DEF StepOK, Turns, r

LEMMA WithdrawStep ==
  ASSUME TypeOK, OrderInv, NEW u \in Users, Withdraw(u)
  PROVE  StepOK(u)
<1> DEFINE s == my[u].sess
           q == [m \in Modules |->
             IF m \in Known(my[u].row.cards) /\ queue[s][m].status = "PENDING" THEN NoQueue
             ELSE queue[s][m]]
<1>0. u \in Actors /\ pc[u] \in Busy /\ UNCHANGED <<session, job, jobsOld>> /\ Return(u)
      /\ queue' = [queue EXCEPT ![s] = q]
  BY UserPlaces DEF Actors, Withdraw
<1>1. TablesOK /\ SessionsTrue /\ s \in Sessions
  BY <1>0, MyFacts
<1>2. NoQueue \in QueueRow /\ NoQueue.status = "NONE"
  BY BoundAssumption DEF NoQueue, QueueRow
<1>3. q \in [Modules -> QueueRow]
  BY <1>1, <1>2 DEF TablesOK
<1>4. \A x \in Sessions, m \in Modules : queue'[x][m] = queue[x][m] \/ queue'[x][m].status = "NONE"
  BY <1>0, <1>1, <1>2 DEF TablesOK
<1> HIDE DEF q
<1>5. TablesOK'
  BY <1>0, <1>1, <1>3 DEF TablesOK
<1>6. Grows /\ SessionsTrue'
  BY <1>0, <1>1, <1>4, JobsStay, SessionsStay
<1> QED BY <1>0, <1>5, <1>6, ReturnTurns DEF StepOK

LEMMA RereadStep ==
  ASSUME TypeOK, OrderInv, NEW u \in Users, Reread(u)
  PROVE  StepOK(u)
<1> DEFINE s == my[u].sess
           r == [my[u] EXCEPT !.op = "resume", !.row = session[s]]
<1>0. u \in Actors /\ pc[u] \in Busy /\ UNCHANGED tables
  BY UserPlaces DEF Actors, Reread
<1>1. /\ TablesOK /\ SessionsTrue /\ s \in Sessions /\ my[u] \in HeldType /\ session[s] \in Rows
      /\ CardsTrue(job, s, session[s].cards)
  BY <1>0, MyFacts DEF SessionsTrue, SessionTrue, RowTrue
<1>2. r \in HeldType /\ r.sess = s /\ r.row = session[s]
  BY <1>1 DEF HeldType, Ops
<1>3. CardsTrue(job', s, r.row.cards)
  BY <1>0, <1>1, <1>2 DEF tables
<1> QED BY <1>0, <1>1, <1>2, <1>3, TakesUp, ReadOnly DEF Reread, StepOK

LEMMA WriteRetryStep ==
  ASSUME TypeOK, OrderInv, NEW u \in Users, WriteRetry(u)
  PROVE  StepOK(u)
<1> DEFINE s == my[u].sess
           old == my[u].row.cards
           requeued(card) ==
             CASE card.phase = "failed"    -> [card EXCEPT !.phase = "queued"]
               [] card.phase = "cancelled" ->
                    [card EXCEPT !.phase = IF card.job THEN "queued" ELSE "ready"]
               [] OTHER -> card
           cards == [m \in Modules |-> requeued(old[m])]
           r == [my[u] EXCEPT !.op = "begin", !.row = session'[s]]
<1>0. u \in Actors /\ pc[u] \in Busy /\ UNCHANGED <<job, queue, jobsOld>>
  BY UserPlaces DEF Actors, WriteRetry
<1>1. /\ TablesOK /\ SessionsTrue /\ s \in Sessions /\ my[u] \in HeldType /\ old \in Cards
      /\ CardsTrue(job, s, old)
  BY <1>0, MyFacts
<1>2. ASSUME NEW m \in Modules
      PROVE  /\ cards[m] \in [phase : Phases, job : BOOLEAN] /\ cards[m].job = old[m].job
             /\ cards[m].phase = "completed" => old[m].phase = "completed"
  BY <1>1 DEF Cards, Phases, Terminal
<1>3. cards \in Cards
  BY <1>2 DEF Cards
<1>4. \/ Return(u) /\ UNCHANGED session
      \/ /\ WriteSession(s, "IN_PROGRESS", "running", cards)
         /\ Become(u, r) /\ Goto(u, "facts")
  BY DEF WriteRetry
<1> HIDE DEF cards
<1>5. CardsTrue(job, s, cards)
  BY <1>1, <1>2 DEF CardsTrue
<1>6. CASE Return(u) /\ UNCHANGED session
  BY <1>0, <1>1, <1>6, ReturnTurns, ReadOnly DEF StepOK, tables
<1>7. CASE WriteSession(s, "IN_PROGRESS", "running", cards) /\ Become(u, r) /\ Goto(u, "facts")
  <2>1. TablesOK' /\ SessionsTrue' /\ Grows
    BY <1>0, <1>1, <1>3, <1>5, <1>7, SessionWrite
  <2>2. session'[s] \in Rows /\ session'[s].cards = cards
    BY <1>1, <1>3, <1>7, WriteSessionFacts
  <2>3. r \in HeldType /\ r.sess = s /\ r.row = session'[s]
    BY <1>1, <2>2 DEF HeldType, Ops
  <2>4. CardsTrue(job', s, r.row.cards)
    BY <1>0, <1>5, <2>2, <2>3
  <2> QED BY <1>1, <1>7, <2>1, <2>3, <2>4, TakesUp DEF StepOK
<1> QED BY <1>4, <1>6, <1>7

-----------------------------------------------------------------------------
(* The steps that users and workers share.                                 *)
LEMMA SharedPlaces ==
  /\ Starting \subseteq Busy /\ Starting \subseteq PCs /\ Starting \subseteq UserPCs
  /\ Starting \subseteq WorkerPCs /\ Hooked \subseteq WorkerPCs /\ Hooked \subseteq PCs
  /\ Hooked \subseteq Busy /\ Hooked \cap (Starting \cup Listing \cup {"close"}) = {}
  /\ Starting \cap (Listing \cup {"close"}) = {}
  /\ {"advance", "complete", "start"} \subseteq Hooked
  /\ "close" \in Busy
BY DEF Starting, Busy, PCs, UserPCs, WorkerPCs, Hooked, Listing

(* A worker goes on with its module.                                       *)
LEMMA GoesOn ==
  ASSUME TypeOK, OrderInv, NEW a \in Actors, a \notin Users, pc[a] \in Busy, Grows,
         NEW l \in Hooked, NEW failed \in BOOLEAN, Goto(a, l),
         \/ UNCHANGED my
         \/ Become(a, [my[a] EXCEPT !.failed = failed])
  PROVE  Turns(a)
<1>1. HandlersOK /\ my[a] \in HeldType /\ Handling(job, a, pc[a], my[a])
  BY MyFacts
<1>2. PICK r \in {my[a], [my[a] EXCEPT !.failed = failed]} : Become(a, r)
  BY <1>1 DEF Become, HandlersOK
<1>3. r \in HeldType /\ r.sess = my[a].sess /\ r.row = my[a].row /\ r.mod = my[a].mod
  BY <1>1 DEF HeldType
<1>4. Handling(job, a, l, r)
  BY <1>1, <1>3, SharedPlaces DEF Handling
<1> QED BY <1>2, <1>3, <1>4, HandlingStays, SharedPlaces DEF Turns

LEMMA CloseSessionStep ==
  ASSUME TypeOK, OrderInv, NEW a \in Actors, CloseSession(a)
  PROVE  StepOK(a)
<1> DEFINE s == my[a].sess
<1>0. pc[a] = "close" /\ pc[a] \in Busy /\ UNCHANGED <<job, queue, jobsOld>>
  BY SharedPlaces DEF CloseSession
<1>1. /\ TablesOK /\ HandlersOK /\ SessionsTrue /\ s \in Sessions /\ my[a] \in HeldType
      /\ my[a].row.cards \in Cards
      /\ CardsTrue(job, s, my[a].row.cards) /\ Handling(job, a, "close", my[a])
  BY <1>0, MyFacts
<1>2. my[a].verdict \in {"none", "running"} \cup Terminal
  BY <1>1 DEF HeldType, Terminal
<1>3. TablesOK' /\ SessionsTrue' /\ Grows
  <2>1. my[a].verdict = "completed" => AllImported(job, s)
    BY <1>1 DEF Handling
  <2>2. WriteSession(s, "COMPLETED", my[a].verdict, my[a].row.cards)
    BY DEF CloseSession
  <2> QED BY <1>0, <1>1, <1>2, <2>1, <2>2, SessionWrite
<1>4. CASE a \in Users
  <2>1. \/ Goto(a, "insert") /\ UNCHANGED my
        \/ Return(a)
    BY <1>1, <1>4 DEF CloseSession, Handling
  <2>2. Handling(job', a, "insert", my[a])
    BY <1>4, UserPlaces DEF Handling
  <2> QED BY <1>1, <1>3, <2>1, <2>2, UserPlaces, GotoTurns, ReturnTurns DEF StepOK
<1>5. CASE a \notin Users
  <2>1. PICK l \in {"advance", "complete"} : Goto(a, l) /\ UNCHANGED my
    BY <1>1, <1>5 DEF CloseSession, Handling
  <2> QED BY <1>0, <1>3, <1>5, <2>1, SharedPlaces, GoesOn DEF StepOK
<1> QED BY <1>4, <1>5

(* From one step of starting a module to the next.                         *)
LEMMA StartsOn ==
  ASSUME TypeOK, OrderInv, NEW a \in Actors, pc[a] \in Starting, Grows, NEW l \in Starting,
         NEW r \in HeldType, Goto(a, l), Become(a, r), r.sess = my[a].sess, r.mod = my[a].mod,
         r.plan = my[a].plan, CardsTrue(job', r.sess, r.row.cards), Made(job', r.sess, r.plan)
  PROVE  Turns(a)
<1>1. pc[a] \in Busy /\ my[a] \in HeldType /\ Handling(job, a, pc[a], my[a])
  BY SharedPlaces, MyFacts
<1>2. Handling(job', a, pc[a], my[a])
  BY <1>1, HandlingStays
<1>3. Handling(job', a, l, r)
  BY <1>1, <1>2, SharedPlaces DEF Handling
<1> QED BY <1>3, SharedPlaces DEF Turns

LEMMA StartingFacts ==
  ASSUME TypeOK, OrderInv, NEW a \in Actors, pc[a] \in Starting
  PROVE  /\ TablesOK /\ HandlersOK /\ SessionsTrue /\ my[a] \in HeldType /\ my[a].sess \in Sessions
         /\ my[a].row \in Rows /\ my[a].row.cards \in Cards
         /\ my[a].plan \in Modules /\ CardsTrue(job, my[a].sess, my[a].row.cards)
         /\ InTurn(job, my[a].sess, my[a].plan)
         /\ pc[a] # "createJob" => Made(job, my[a].sess, my[a].plan)
BY SharedPlaces, MyFacts DEF Handling

LEMMA CreateJobStep ==
  ASSUME TypeOK, OrderInv, NEW a \in Actors, CreateJob(a)
  PROVE  StepOK(a)
<1> DEFINE s == my[a].sess
           m == my[a].plan
           card == [phase |-> "queued", job |-> TRUE]
           cards == [my[a].row.cards EXCEPT ![m] = card]
           row == [my[a].row EXCEPT !.cards = cards]
           r == [my[a] EXCEPT !.row = row]
<1>0. pc[a] \in Starting /\ UNCHANGED <<session, queue>> /\ Goto(a, "setPending")
  BY DEF CreateJob, Starting
<1>1. /\ TablesOK /\ SessionsTrue /\ my[a] \in HeldType /\ s \in Sessions /\ m \in Modules
      /\ my[a].row \in Rows /\ my[a].row.cards \in Cards
      /\ CardsTrue(job, s, my[a].row.cards) /\ InTurn(job, s, m)
  BY <1>0, StartingFacts
<1>2. /\ job' \in [Sessions -> [Modules -> Jobs]] /\ jobsOld' \in [Sessions -> BOOLEAN]
      /\ Grows /\ Made(job', s, m)
  <2>1. CASE job[s][m] = "none"
    <3>1. WriteJob(s, m, "processing") /\ ~Imported(job, s, m)
      BY <2>1 DEF CreateJob, Imported
    <3> QED BY <1>1, <3>1, JobWrite DEF Jobs
  <2>2. CASE job[s][m] # "none"
    <3>1. UNCHANGED <<job, jobsOld>>
      BY <2>2 DEF CreateJob
    <3> QED BY <1>1, <2>2, <3>1, JobsStay DEF Made, TablesOK
  <2> QED BY <2>1, <2>2
<1>3. TablesOK' /\ SessionsTrue'
  <2>1. SessionsTrue'
    BY <1>0, <1>1, <1>2, SessionsStay
  <2> QED BY <1>0, <1>1, <1>2, <2>1 DEF TablesOK
<1>4. cards \in Cards /\ CardsTrue(job', s, cards)
  <2>1. card \in [phase : Phases, job : BOOLEAN] /\ card.job /\ card.phase # "completed"
    BY DEF Phases
  <2> HIDE DEF card
  <2>2. cards \in Cards
    BY <1>1, <2>1 DEF Cards
  <2>3. CardsTrue(job', s, my[a].row.cards)
    BY <1>1, <1>2, CardsStayTrue
  <2>4. CardsTrue(job', s, cards)
    BY <1>1, <1>2, <2>1, <2>3 DEF CardsTrue, Cards
  <2> QED BY <2>2, <2>4
<1>5. Become(a, r)
  BY <1>1 DEF CreateJob, HeldType, Rows
<1> HIDE DEF cards
<1>6. row \in Rows /\ row.cards = cards
  BY <1>1, <1>4 DEF Rows
<1> HIDE DEF row
<1>7. r \in HeldType /\ r.sess = s /\ r.plan = m /\ r.mod = my[a].mod /\ r.row = row
  BY <1>1, <1>6 DEF HeldType
<1> HIDE DEF r
<1>8. Turns(a)
  BY <1>0, <1>2, <1>4, <1>5, <1>6, <1>7, StartsOn DEF Starting
<1> QED BY <1>2, <1>3, <1>8 DEF StepOK

LEMMA SetPendingStep ==
  ASSUME TypeOK, OrderInv, NEW a \in Actors, SetPending(a)
  PROVE  StepOK(a)
<1> DEFINE s == my[a].sess
           m == my[a].plan
<1>0. pc[a] \in Starting /\ pc[a] # "createJob" /\ UNCHANGED <<session, queue, my>>
  BY DEF SetPending, Starting
<1>1. /\ TablesOK /\ HandlersOK /\ SessionsTrue /\ my[a] \in HeldType /\ s \in Sessions
      /\ m \in Modules /\ CardsTrue(job, s, my[a].row.cards) /\ Made(job, s, m)
  BY <1>0, StartingFacts
<1>2. /\ job' \in [Sessions -> [Modules -> Jobs]] /\ jobsOld' \in [Sessions -> BOOLEAN] /\ Grows
  BY <1>1, GuardedJobWrite DEF SetPending, Jobs
<1>3. TablesOK' /\ SessionsTrue'
  <2>1. SessionsTrue'
    BY <1>0, <1>1, <1>2, SessionsStay
  <2> QED BY <1>0, <1>1, <1>2, <2>1 DEF TablesOK
<1>4. CardsTrue(job', s, my[a].row.cards) /\ Made(job', s, m)
  BY <1>1, <1>2, CardsStayTrue DEF Grows
<1>5. Become(a, my[a])
  BY <1>0, <1>1 DEF Become, HandlersOK
<1>6. Turns(a)
  BY <1>0, <1>1, <1>2, <1>4, <1>5, StartsOn DEF SetPending, Starting
<1> QED BY <1>2, <1>3, <1>6 DEF StepOK

LEMMA ReadStatusStep ==
  ASSUME TypeOK, OrderInv, NEW a \in Actors, ReadStatus(a)
  PROVE  StepOK(a)
<1> DEFINE status == session[my[a].sess].status
           row == [my[a].row EXCEPT !.status = status]
           r == [my[a] EXCEPT !.row = row]
<1>0. pc[a] \in Starting /\ pc[a] # "createJob" /\ UNCHANGED tables
  BY DEF ReadStatus, Starting
<1>1. /\ TablesOK /\ SessionsTrue /\ my[a] \in HeldType /\ my[a].sess \in Sessions
      /\ my[a].row \in Rows
      /\ CardsTrue(job, my[a].sess, my[a].row.cards) /\ Made(job, my[a].sess, my[a].plan)
  BY <1>0, StartingFacts
<1>2. Become(a, r)
  BY <1>1 DEF ReadStatus, HeldType, Rows
<1>3. status \in {"NONE", "IN_PROGRESS", "COMPLETED", "CANCELLED"}
  BY <1>1 DEF TablesOK, Rows
<1> HIDE DEF status
<1>4. row \in Rows /\ row.cards = my[a].row.cards
  BY <1>1, <1>3 DEF Rows
<1> HIDE DEF row
<1>5. r \in HeldType /\ r.sess = my[a].sess /\ r.plan = my[a].plan /\ r.mod = my[a].mod
      /\ r.row = row
  BY <1>1, <1>4 DEF HeldType
<1> HIDE DEF r
<1>6. TablesOK' /\ SessionsTrue' /\ Grows /\ UNCHANGED job
  BY <1>0, <1>1, ReadOnly DEF tables
<1>7. Turns(a)
  BY <1>0, <1>1, <1>2, <1>4, <1>5, <1>6, StartsOn DEF ReadStatus, Starting
<1> QED BY <1>6, <1>7 DEF StepOK

LEMMA WriteStep ==
  ASSUME TypeOK, OrderInv, NEW a \in Actors, Write(a)
  PROVE  StepOK(a)
<1> DEFINE s == my[a].sess
<1>0. /\ pc[a] \in Starting /\ pc[a] # "createJob" /\ pc[a] \in Busy
      /\ UNCHANGED <<job, queue, jobsOld>>
  BY SharedPlaces DEF Write, Starting
<1>1. /\ TablesOK /\ HandlersOK /\ SessionsTrue /\ my[a] \in HeldType /\ s \in Sessions
      /\ my[a].row \in Rows /\ my[a].row.cards \in Cards
      /\ CardsTrue(job, s, my[a].row.cards) /\ Made(job, s, my[a].plan)
  BY <1>0, StartingFacts
<1>2. CASE Refused(a) /\ UNCHANGED session
  <2>1. TablesOK' /\ SessionsTrue' /\ Grows
    BY <1>0, <1>1, <1>2, ReadOnly DEF tables
  <2>2. Turns(a)
    BY <1>0, <1>2, <2>1, ReturnTurns, GoesOn, SharedPlaces DEF Refused
  <2> QED BY <2>1, <2>2 DEF StepOK
<1>3. CASE /\ WriteSession(s, my[a].row.status, "running", my[a].row.cards)
           /\ Goto(a, "enqueue") /\ UNCHANGED my
  <2>1. my[a].row.status \in {"NONE", "IN_PROGRESS", "COMPLETED", "CANCELLED"}
    BY <1>1 DEF Rows
  <2>2. TablesOK' /\ SessionsTrue' /\ Grows
    BY <1>0, <1>1, <1>3, <2>1, SessionWrite
  <2>3. Become(a, my[a])
    BY <1>1, <1>3 DEF Become, HandlersOK
  <2>4. Turns(a)
    BY <1>0, <1>1, <1>3, <2>2, <2>3, StartsOn DEF Starting
  <2> QED BY <2>2, <2>4 DEF StepOK
<1> QED BY <1>2, <1>3 DEF Write

(* A queue row is written for a module that was made, or goes away.        *)
LEMMA QueueWrite ==
  ASSUME TablesOK, SessionsTrue, NEW s \in Sessions, NEW m \in Modules, NEW row \in QueueRow,
         queue' = [queue EXCEPT ![s][m] = row], UNCHANGED <<session, job, jobsOld>>,
         row.status # "NONE" => Made(job, s, m)
  PROVE  TablesOK' /\ SessionsTrue' /\ Grows
<1>1. queue' = [queue EXCEPT ![s] = [queue[s] EXCEPT ![m] = row]]
  OBVIOUS
<1>2. queue[s] \in [Modules -> QueueRow]
  BY DEF TablesOK
<1>3. TablesOK'
  BY <1>1, <1>2 DEF TablesOK
<1>4. \A x \in Sessions, n \in Modules :
        queue'[x][n] = queue[x][n] \/ (x = s /\ n = m /\ queue'[x][n] = row)
  BY <1>1, <1>2 DEF TablesOK
<1>5. Grows
  BY JobsStay
<1>6. SessionsTrue'
  BY <1>4, <1>5, SessionsStay
<1> QED BY <1>3, <1>5, <1>6

LEMMA EnqueueStep ==
  ASSUME TypeOK, OrderInv, NEW a \in Actors, Enqueue(a)
  PROVE  StepOK(a)
<1> DEFINE s == my[a].sess
           m == my[a].plan
           row == [queue[s][m] EXCEPT !.status = IF @ = "NONE" THEN "PENDING" ELSE @]
<1>0. /\ pc[a] \in Starting /\ pc[a] # "createJob" /\ pc[a] \in Busy /\ Done(a)
      /\ UNCHANGED <<session, job, jobsOld>>
  BY SharedPlaces DEF Enqueue, Starting
<1>1. TablesOK /\ SessionsTrue /\ s \in Sessions /\ m \in Modules /\ Made(job, s, m)
  BY <1>0, StartingFacts
<1>2. queue[s][m] \in QueueRow
  BY <1>1 DEF TablesOK
<1>3. row \in QueueRow
  BY <1>2 DEF QueueRow
<1>4. queue' = [queue EXCEPT ![s][m] = row]
  BY <1>1, <1>2 DEF Enqueue, TablesOK, QueueRow
<1> HIDE DEF row
<1>5. TablesOK' /\ SessionsTrue' /\ Grows
  BY <1>0, <1>1, <1>3, <1>4, QueueWrite
<1>6. Turns(a)
  BY <1>0, <1>5, ReturnTurns, GoesOn, SharedPlaces DEF Done
<1> QED BY <1>5, <1>6 DEF StepOK

LEMMA CoordinateStep ==
  ASSUME TypeOK, OrderInv, NEW a \in Actors, Coordinate(a)
  PROVE  StepOK(a)
BY CloseSessionStep, CreateJobStep, SetPendingStep, ReadStatusStep, WriteStep, EnqueueStep
   DEF Coordinate

LEMMA UserStep ==
  ASSUME TypeOK, OrderInv, NEW u \in Users, User(u)
  PROVE  StepOK(u)
<1>1. u \in Actors
  BY DEF Actors
<1> QED
  BY <1>1, RequestStep, FindStep, InsertStep, DecisionStep, PlanStep, WriteCancelStep,
     TakeJobStep, WithdrawStep, RereadStep, WriteRetryStep, CoordinateStep DEF User

-----------------------------------------------------------------------------
(* The steps of a worker.                                                  *)
LEMMA WorkerIsNoUser == ASSUME NEW w \in Workers PROVE w \in Actors /\ w \notin Users
BY BoundAssumption DEF Actors

(* What a worker that has a module knows of it.                            *)
LEMMA HookedFacts ==
  ASSUME TypeOK, OrderInv, NEW w \in Workers, pc[w] \in Hooked
  PROVE  /\ w \in Actors /\ w \notin Users /\ pc[w] \in Busy
         /\ TablesOK /\ HandlersOK /\ SessionsTrue /\ my[w] \in HeldType
         /\ my[w].sess \in Sessions /\ my[w].mod \in Modules
         /\ Made(job, my[w].sess, my[w].mod)
BY WorkerIsNoUser, SharedPlaces, MyFacts DEF Handling

LEMMA ClaimStep ==
  ASSUME TypeOK, OrderInv, NEW w \in Workers, NEW s \in Sessions, NEW m \in Modules,
         Claim(w, s, m)
  PROVE  StepOK(w)
<1> DEFINE n == Min({queue[s][m].attempts + 1, MaxAttempts})
           row == [status |-> "RUNNING", holder |-> w, attempts |-> n]
           r == [Fresh EXCEPT !.op = "step", !.sess = s, !.mod = m]
<1>0. /\ w \in Actors /\ w \notin Users /\ TablesOK /\ SessionsTrue
      /\ UNCHANGED <<session, job, jobsOld>> /\ Goto(w, "start") /\ Become(w, r)
  BY WorkerIsNoUser, TypeParts DEF OrderInv, Claim
<1>1. queue[s][m] \in QueueRow /\ queue[s][m].status # "NONE"
  BY <1>0 DEF TablesOK, Claim
<1>2. Made(job, s, m)
  BY <1>0, <1>1 DEF SessionsTrue, SessionTrue
<1>3. n \in 0 .. MaxAttempts
  <2>1. queue[s][m].attempts + 1 \in Nat /\ MaxAttempts \in Nat
    BY <1>1, BoundAssumption DEF QueueRow
  <2>2. n \in {queue[s][m].attempts + 1, MaxAttempts} /\ n <= MaxAttempts
    BY <2>1, MinIsLeast
  <2> QED BY <2>1, <2>2
<1>4. queue' = [queue EXCEPT ![s][m] = row]
  BY <1>0 DEF Claim, TablesOK
<1> HIDE DEF n
<1>5. row \in QueueRow
  BY <1>3 DEF QueueRow
<1> HIDE DEF row
<1>6. TablesOK' /\ SessionsTrue' /\ Grows
  BY <1>0, <1>2, <1>4, <1>5, QueueWrite
<1>7. r \in HeldType /\ r.sess = s /\ r.mod = m /\ r.row.cards = AllReady
  BY FreshType DEF HeldType, Ops, Fresh, NoRow
<1> HIDE DEF r
<1>8. CardsTrue(job', s, AllReady)
  BY DEF CardsTrue, AllReady
<1>9. Handling(job', w, "start", r)
  BY <1>0, <1>2, <1>7, <1>8, SharedPlaces DEF Handling
<1> QED BY <1>0, <1>6, <1>7, <1>9, SharedPlaces DEF StepOK, Turns

LEMMA LookingStep ==
  ASSUME TypeOK, OrderInv, NEW w \in Workers, Start(w) \/ Gate(w) \/ Hook(w)
  PROVE  StepOK(w)
<1>1. pc[w] \in Hooked /\ UNCHANGED tables
  BY DEF Start, Gate, Hook, Hooked
<1>2. w \in Actors /\ w \notin Users /\ pc[w] \in Busy /\ TablesOK' /\ SessionsTrue' /\ Grows
  BY <1>1, HookedFacts, ReadOnly
<1>3. \/ Return(w)
      \/ \E l \in Hooked : Goto(w, l) /\ UNCHANGED my
  BY DEF Start, Gate, Hook, Hooked
<1> QED BY <1>2, <1>3, ReturnTurns, GoesOn DEF StepOK

LEMMA StepWritesStep ==
  ASSUME TypeOK, OrderInv, NEW w \in Workers, Stop(w) \/ Process(w) \/ Finish(w)
  PROVE  StepOK(w)
<1>1. PICK status \in Jobs \ {"none"}, l \in Hooked :
        /\ pc[w] \in Hooked /\ WriteUnlessTerminal(my[w].sess, my[w].mod, status)
        /\ Goto(w, l) /\ UNCHANGED <<session, queue>>
        /\ UNCHANGED my \/ Become(w, [my[w] EXCEPT !.failed = TRUE])
  BY DEF Stop, Process, Finish, StepWrites, Jobs, Terminal, Hooked
<1>2. /\ w \in Actors /\ w \notin Users /\ pc[w] \in Busy /\ TablesOK /\ SessionsTrue
      /\ my[w].sess \in Sessions /\ my[w].mod \in Modules /\ Made(job, my[w].sess, my[w].mod)
  BY <1>1, HookedFacts
<1>3. /\ job' \in [Sessions -> [Modules -> Jobs]] /\ jobsOld' \in [Sessions -> BOOLEAN] /\ Grows
  BY <1>1, <1>2, GuardedJobWrite
<1>4. TablesOK' /\ SessionsTrue'
  <2>1. SessionsTrue'
    BY <1>1, <1>2, <1>3, SessionsStay
  <2> QED BY <1>1, <1>2, <1>3, <2>1 DEF TablesOK
<1>5. Turns(w)
  BY <1>1, <1>2, <1>3, GoesOn
<1> QED BY <1>3, <1>4, <1>5 DEF StepOK

LEMMA FindOwningStep ==
  ASSUME TypeOK, OrderInv, NEW w \in Workers, Reconcile(w) \/ Advance(w)
  PROVE  StepOK(w)
<1> DEFINE s == my[w].sess
<1>1. PICK op \in {"reconcile", "advance"}, l \in {"advance", "complete"} : FindOwning(w, op, l)
  BY DEF Reconcile, Advance
<1>2. pc[w] \in Hooked /\ UNCHANGED tables
  BY <1>1 DEF FindOwning, Hooked
<1>3. /\ w \in Actors /\ w \notin Users /\ pc[w] \in Busy /\ TablesOK /\ SessionsTrue
      /\ my[w] \in HeldType /\ s \in Sessions /\ my[w].mod \in Modules
      /\ Made(job, s, my[w].mod)
  BY <1>2, HookedFacts
<1>4. TablesOK' /\ SessionsTrue' /\ Grows /\ UNCHANGED job
  BY <1>2, <1>3, ReadOnly DEF tables
<1>5. CASE Goto(w, l) /\ UNCHANGED my
  BY <1>3, <1>4, <1>5, GoesOn, SharedPlaces DEF StepOK
<1>6. CASE Goto(w, "facts") /\ Become(w, [my[w] EXCEPT !.op = op, !.row = session[s]])
  <2> DEFINE r == [my[w] EXCEPT !.op = op, !.row = session[s]]
  <2>1. session[s] \in Rows /\ CardsTrue(job, s, session[s].cards)
    BY <1>3 DEF TablesOK, SessionsTrue, SessionTrue, RowTrue
  <2>2. r \in HeldType /\ r.sess = s /\ r.mod = my[w].mod /\ r.row = session[s]
    BY <1>3, <2>1 DEF HeldType, Ops
  <2> HIDE DEF r
  <2>3. "facts" \in WorkerPCs /\ "facts" \notin Starting \cup Listing
    BY UserPlaces DEF WorkerPCs
  <2>4. Handling(job', w, "facts", r)
    BY <1>3, <1>4, <2>1, <2>2, <2>3 DEF Handling
  <2> QED BY <1>4, <1>6, <2>2, <2>3, <2>4, UserPlaces DEF StepOK, Turns, r
<1> QED BY <1>1, <1>5, <1>6 DEF FindOwning

LEMMA SettlingStep ==
  ASSUME TypeOK, OrderInv, NEW w \in Workers, Conclude(w) \/ MoveOn(w)
  PROVE  StepOK(w)
<1>1. w \in Actors /\ w \notin Users
  BY WorkerIsNoUser
<1>2. PICK op \in {"reconcile", "advance"} : Decide(w, op)
  BY DEF Conclude, MoveOn
<1>3. /\ pc[w] = "facts" /\ pc[w] \in Busy /\ UNCHANGED job /\ TablesOK' /\ SessionsTrue'
      /\ Grows /\ my[w].op = op
  BY <1>1, <1>2, DecideStays, UserPlaces
<1>4. ASSUME NEW l \in {"advance", "complete"}, Goto(w, l), UNCHANGED my PROVE Turns(w)
  BY <1>1, <1>3, <1>4, GoesOn, SharedPlaces
<1>5. ASSUME NEW l \in {"advance", "complete"}, NEW rows,
             Settle(w, rows, Goto(w, l) /\ UNCHANGED my)
      PROVE  Turns(w)
  <2>1. CASE Goto(w, l) /\ UNCHANGED my
    BY <1>4, <2>1
  <2>2. CASE ~(Goto(w, l) /\ UNCHANGED my)
    BY <1>1, <1>3, <1>5, <2>2, CloseTurns DEF Settle
  <2> QED BY <2>1, <2>2
<1>6. CASE Conclude(w)
  BY <1>3, <1>5, <1>6 DEF Conclude, StepOK
<1>7. CASE MoveOn(w)
  BY <1>1, <1>3, <1>4, <1>5, <1>7, BootstrapTurns DEF MoveOn, StepOK
<1> QED BY <1>6, <1>7

LEMMA CompleteStep ==
  ASSUME TypeOK, OrderInv, NEW w \in Workers, Complete(w)
  PROVE  StepOK(w)
<1> DEFINE s == my[w].sess
           m == my[w].mod
           old == queue[s][m]
           row == IF my[w].failed /\ old.attempts < MaxAttempts
                  THEN [old EXCEPT !.status = "PENDING", !.holder = None] ELSE NoQueue
<1>1. pc[w] \in Hooked /\ UNCHANGED <<session, job, jobsOld>> /\ Return(w)
  BY DEF Complete, Hooked
<1>2. /\ w \in Actors /\ TablesOK /\ SessionsTrue /\ s \in Sessions /\ m \in Modules
      /\ Made(job, s, m)
  BY <1>1, HookedFacts
<1>3. CASE UNCHANGED queue
  BY <1>1, <1>2, <1>3, ReadOnly, ReturnTurns DEF StepOK, tables
<1>4. CASE queue' # queue
  <2>1. queue' = [queue EXCEPT ![s][m] = row]
    BY <1>2, <1>4 DEF Complete, TablesOK
  <2>2. old \in QueueRow /\ NoQueue \in QueueRow
    BY <1>2, BoundAssumption DEF TablesOK, NoQueue, QueueRow
  <2>3. row \in QueueRow
    BY <2>2 DEF QueueRow
  <2> HIDE DEF row
  <2>4. TablesOK' /\ SessionsTrue' /\ Grows
    BY <1>1, <1>2, <2>1, <2>3, QueueWrite
  <2> QED BY <1>1, <1>2, <2>4, ReturnTurns DEF StepOK
<1> QED BY <1>3, <1>4

LEMMA WorkerStep ==
  ASSUME TypeOK, OrderInv, NEW w \in Workers, Worker(w)
  PROVE  StepOK(w)
<1>1. w \in Actors
  BY DEF Actors
<1> QED
  BY <1>1, ClaimStep, LookingStep, StepWritesStep, FindOwningStep, SettlingStep, CompleteStep,
     CoordinateStep DEF Worker

-----------------------------------------------------------------------------
LEMMA BoundsStay ==
  ASSUME TypeOK, OrderInv, Next
  PROVE  BoundsOK'
<1>0. BoundsOK /\ MaxRequests \in Nat /\ MaxFaults \in Nat
  BY TypeParts, BoundAssumption
<1>1. UNCHANGED bounds => BoundsOK'
  BY <1>0 DEF bounds, BoundsOK
<1>2. ASSUME NEW a \in Actors, Coordinate(a) PROVE BoundsOK'
  <2>1. CASE Write(a)
    <3>1. my[a].sess \in Sessions
      BY <2>1, StartingFacts DEF Write, Starting
    <3> QED BY <1>0, <2>1, <3>1 DEF Write, BoundsOK, bounds
  <2>2. CASE ~Write(a)
    BY <1>1, <1>2, <2>2 DEF Coordinate, CloseSession, CreateJob, SetPending, ReadStatus, Enqueue
  <2> QED BY <2>1, <2>2
<1>3. ASSUME NEW u, NEW kind, Request(u, kind) PROVE BoundsOK'
  BY <1>0, <1>3 DEF Request, BoundsOK
<1>4. ASSUME NEW u \in Users, User(u) PROVE BoundsOK'
  <2>1. CASE Create(u) \/ \E kind \in {"poll", "cancel", "retry"}, s \in Sessions : Read(u, kind, s)
    BY <1>3, <2>1 DEF Create, Read
  <2>2. CASE Look(u) \/ Begin(u) \/ PlanCancel(u) \/ PlanRetry(u) \/ Resume(u)
    BY <1>1, <2>2 DEF Look, Begin, PlanCancel, PlanRetry, Resume, Decide
  <2>3. CASE Find(u) \/ Insert(u) \/ WriteCancel(u) \/ Withdraw(u) \/ Reread(u) \/ WriteRetry(u)
    BY <1>1, <2>3 DEF Find, Insert, WriteCancel, Withdraw, Reread, WriteRetry
  <2>4. CASE \E m \in Modules : CancelJob(u, m) \/ RetryJob(u, m)
    BY <1>1, <2>4 DEF CancelJob, RetryJob, TakeJob
  <2> QED BY <1>1, <1>2, <1>4, <2>1, <2>2, <2>3, <2>4 DEF User, Actors
<1>5. ASSUME NEW w \in Workers, Worker(w) PROVE BoundsOK'
  <2>1. ASSUME NEW s \in Sessions, NEW m \in Modules, Claim(w, s, m) PROVE BoundsOK'
    BY <1>0, <2>1 DEF Claim, Faults, BoundsOK
  <2>2. CASE Start(w) \/ Gate(w) \/ Hook(w) \/ Reconcile(w) \/ Advance(w) \/ Complete(w)
    BY <1>1, <2>2 DEF Start, Gate, Hook, Reconcile, Advance, FindOwning, Complete
  <2>3. CASE Stop(w) \/ Process(w) \/ Finish(w)
    BY <1>0, <2>3 DEF Stop, Process, Finish, StepWrites, Faults, BoundsOK
  <2>4. CASE Conclude(w) \/ MoveOn(w)
    BY <1>1, <2>4 DEF Conclude, MoveOn, Decide
  <2> QED BY <1>1, <1>2, <1>5, <2>1, <2>2, <2>3, <2>4 DEF Worker, Actors
<1>6. ASSUME NEW a \in Actors, Crash(a) PROVE BoundsOK'
  BY <1>0, <1>6 DEF Crash, Faults, BoundsOK
<1>7. ASSUME NEW s \in Sessions, Age(s) PROVE BoundsOK'
  BY <1>1, <1>7 DEF Age
<1> QED BY <1>4, <1>5, <1>6, <1>7 DEF Next

LEMMA OrderInit == Init => TypeOK /\ OrderInv
<1> SUFFICES ASSUME Init PROVE TypeOK /\ OrderInv
  OBVIOUS
<1>1. NoQueue \in QueueRow /\ NoQueue.status = "NONE" /\ NoRow.state = "none" /\ NoRow.cards = AllReady
  BY BoundAssumption DEF NoQueue, QueueRow, NoRow
<1>2. TypeOK
  <2>1. TablesOK
    BY <1>1, FreshType DEF Init, TablesOK, Jobs
  <2>2. HandlersOK
    BY FreshType DEF Init, HandlersOK, PCs
  <2>3. BoundsOK
    BY BoundAssumption DEF Init, BoundsOK
  <2> QED BY <2>1, <2>2, <2>3, TypeParts
<1>3. ASSUME NEW s \in Sessions PROVE SessionTrue(job, s, session[s], queue[s])
  <2>1. CardsTrue(job, s, AllReady)
    BY DEF CardsTrue, AllReady
  <2> QED BY <1>1, <2>1 DEF Init, SessionTrue, RowTrue, Made
<1>4. ASSUME NEW a \in Actors PROVE Handling(job, a, pc[a], my[a])
  <2>1. pc[a] = "idle"
    BY DEF Init
  <2> QED BY <2>1 DEF Handling, UserPCs, WorkerPCs, Busy, Starting, Listing, Hooked, PCs
<1> QED BY <1>2, <1>3, <1>4 DEF OrderInv, SessionsTrue, ActorsTrue

LEMMA OrderStep == TypeOK /\ OrderInv /\ [Next]_vars => TypeOK' /\ OrderInv'
<1> SUFFICES ASSUME TypeOK, OrderInv, [Next]_vars PROVE TypeOK' /\ OrderInv'
  OBVIOUS
<1>0. TablesOK /\ HandlersOK /\ SessionsTrue /\ ActorsTrue
  BY TypeParts DEF OrderInv
<1>1. ASSUME Next, NEW a \in Actors, StepOK(a) PROVE TypeOK' /\ OrderInv'
  <2>1. BoundsOK'
    BY <1>1, BoundsStay
  <2>2. TablesOK' /\ SessionsTrue' /\ HandlersOK' /\ ActorsTrue'
    BY <1>0, <1>1, ActorsStay DEF StepOK
  <2> QED BY <2>1, <2>2, TypePartsNext DEF OrderInv
<1>2. ASSUME NEW u \in Users, User(u) PROVE TypeOK' /\ OrderInv'
  <2>1. Next /\ u \in Actors
    BY <1>2 DEF Next, Actors
  <2> QED BY <1>1, <1>2, <2>1, UserStep
<1>3. ASSUME NEW w \in Workers, Worker(w) PROVE TypeOK' /\ OrderInv'
  <2>1. Next /\ w \in Actors
    BY <1>3 DEF Next, Actors
  <2> QED BY <1>1, <1>3, <2>1, WorkerStep
<1>4. ASSUME NEW a \in Actors, Crash(a) PROVE TypeOK' /\ OrderInv'
  <2>1. Next
    BY <1>4 DEF Next
  <2>2. StepOK(a)
    BY <1>0, <1>4, ReadOnly, ReturnTurns DEF Crash, StepOK
  <2> QED BY <1>1, <2>1, <2>2
<1>5. ASSUME NEW s \in Sessions, Age(s) PROVE TypeOK' /\ OrderInv'
  <2>1. Next
    BY <1>5 DEF Next
  <2>2. UNCHANGED <<job, queue, pc, my>> /\ session' = [session EXCEPT ![s].old = TRUE]
        /\ jobsOld' = [jobsOld EXCEPT ![s] = TRUE]
    BY <1>5 DEF Age
  <2>3. /\ session' \in [Sessions -> Rows]
        /\ \A x \in Sessions : session'[x].cards = session[x].cards /\ session'[x].state = session[x].state
    BY <1>0, <2>2 DEF TablesOK, Rows
  <2>4. TablesOK' /\ HandlersOK'
    BY <1>0, <2>2, <2>3 DEF TablesOK, HandlersOK
  <2>5. SessionsTrue' /\ ActorsTrue'
    BY <1>0, <2>2, <2>3 DEF SessionsTrue, SessionTrue, RowTrue, ActorsTrue
  <2> QED BY <2>1, <2>4, <2>5, BoundsStay, TypePartsNext DEF OrderInv
<1>6. CASE UNCHANGED vars
  <2>1. UNCHANGED <<session, job, queue, jobsOld, pc, my, requests, asked, failures, crashes, overtaken,
                  doubled>>
    BY <1>6 DEF vars, tables, bounds
  <2>2. BoundsOK
    BY TypeParts
  <2>3. (TablesOK /\ HandlersOK /\ BoundsOK)'
    BY <1>0, <2>1, <2>2 DEF TablesOK, HandlersOK, BoundsOK
  <2>4. SessionsTrue' /\ ActorsTrue'
    BY <1>0, <2>1 DEF SessionsTrue, ActorsTrue
  <2> QED BY <2>3, <2>4, TypePartsNext DEF OrderInv
<1> QED BY <1>2, <1>3, <1>4, <1>5, <1>6 DEF Next

(* Of two unfinished modules one comes before the other, and was imported  *)
(* before the other was made.                                              *)
LEMMA OrderSuffices == OrderInv => ImportedInOrder
<1> SUFFICES ASSUME OrderInv, NEW s \in Sessions, NEW m \in Modules, NEW n \in Modules
             PROVE  /\ job[s][m] # "none" /\ n \in DependsOn[m] => job[s][n] = "completed"
                    /\ job[s][m] \in {"pending", "processing"} /\ job[s][n] \in {"pending", "processing"}
                         => m = n
                    /\ session[s].state = "completed" => job[s][m] = "completed"
  BY DEF ImportedInOrder
<1>1. SessionTrue(job, s, session[s], queue[s])
  BY DEF OrderInv, SessionsTrue
<1>2. PICK i, k \in DOMAIN Roster : Roster[i] = m /\ Roster[k] = n
  BY RosterFacts
<1>3. ASSUME job[s][m] # "none", n \in DependsOn[m] PROVE job[s][n] = "completed"
  <2>1. Earlier(m, n)
    BY <1>2, <1>3, RosterAssumption DEF Earlier
  <2> QED BY <1>1, <1>3, <2>1 DEF SessionTrue, InTurn, Made, Imported
<1>4. ASSUME job[s][m] \in {"pending", "processing"}, job[s][n] \in {"pending", "processing"}
      PROVE  m = n
  <2>1. ~Imported(job, s, m) /\ ~Imported(job, s, n) /\ Made(job, s, m) /\ Made(job, s, n)
    BY <1>4 DEF Imported, Made
  <2>2. ~Earlier(m, n) /\ ~Earlier(n, m)
    BY <1>1, <2>1 DEF SessionTrue, InTurn
  <2>3. ~(k < i) /\ ~(i < k) /\ i \in Nat /\ k \in Nat
    BY <1>2, <2>2, RosterFacts DEF Earlier
  <2> QED BY <1>2, <2>3
<1>5. session[s].state = "completed" => job[s][m] = "completed"
  BY <1>1 DEF SessionTrue, RowTrue, AllImported, Imported
<1> QED BY <1>3, <1>4, <1>5

(* Every request and every worker finds the tables as it expects them, and *)
(* no bound is passed.                                                     *)
THEOREM MigrationTypeCorrect == Spec => []TypeOK
BY OrderInit, OrderStep, PTL DEF Spec

(* A module is started after the modules it waits for were imported, one   *)
(* module of a session at a time, and a session says it is completed when  *)
(* all of them are: for every roster, every set of users and workers, and  *)
(* whatever crashes, lost leases, cancellations and retries came between.  *)
THEOREM ModulesAreImportedInOrder == Spec => []ImportedInOrder
BY OrderInit, OrderStep, OrderSuffices, PTL DEF Spec
-----------------------------------------------------------------------------
(* From here on: that a migration is not left behind, in three layers.     *)
(* CalmInv ties the cards to one another while nobody cancels or retries;  *)
(* Owned gives each worker its row while no lease is lost; ChainInv says   *)
(* how each module hands on to the next, and what whoever is at work on a  *)
(* session knows of it.                                                    *)
(*                                                                         *)
(* A migration that nobody cancels or retries, and whose workers keep      *)
(* their leases.  The cards of a session are tied to one another and to    *)
(* the import jobs, whoever wrote or read them: a module that is on a card *)
(* has all earlier ones on theirs, and none is cancelled.                  *)
Calm   == asked \cap {"cancel", "retry"} = {} /\ overtaken = 0
Asking == {"writeCancel", "cancelJobs", "withdraw", "retryJobs", "reread", "writeRetry", "stop"}

Begun(s) == session[s].status # "NONE"

CardsCalm(j, s, cards) ==
  \A m \in Modules : /\ cards[m].phase = "completed" => cards[m].job
                     /\ cards[m].job => \A n \in Modules : Earlier(m, n) => cards[n].job
                     /\ cards[m].phase # "cancelled"
                     /\ cards[m].phase = "failed" => j[s][m] = "failed"

HandCalm(j, a, l, r) ==
  /\ l \notin Asking /\ r.op \notin {"cancel", "retry", "resume"}
  /\ l = "find" => r.op \in {"create", "poll"}
  /\ l \in Busy => CardsCalm(j, r.sess, r.row.cards)
  /\ l \in Starting => \A n \in Modules : Earlier(r.plan, n) => r.row.cards[n].job
  /\ l \in Starting /\ l # "createJob" => r.row.cards[r.plan].job
  /\ l = "write" => r.row.status \in {"IN_PROGRESS", "COMPLETED"}
  /\ l = "facts" /\ a \notin Users => r.row.cards[r.mod].job /\ r.row.state = "running"
  /\ l = "close" /\ r.verdict = "completed" => \A m \in Modules : r.row.cards[m].job

SessionCalm(s) ==
  /\ CardsCalm(job, s, session[s].cards)
  /\ ~Begun(s) => \A m \in Modules : ~Made(job, s, m)
  /\ Open(s) => session[s].state = "running"
  /\ session[s].status # "CANCELLED" /\ session[s].state # "cancelled"
  /\ \A m \in Modules : job[s][m] # "cancelled"

TablesCalm ==
  /\ \A s \in Sessions : SessionCalm(s)
  /\ \A s, x \in Sessions : Open(s) /\ Open(x) => s = x

ActorsCalm ==
  \A a \in Actors : HandCalm(job, a, pc[a], my[a]) /\ (pc[a] \in Busy => Begun(my[a].sess))

CalmInv == Calm => TablesCalm /\ ActorsCalm

(* What a step does to sessions and jobs, and what an actor turns to.      *)
Lasts ==
  \A s \in Sessions : /\ Begun(s) => Begun(s)'
                      /\ \A m \in Modules : job[s][m] = "failed" => job'[s][m] = "failed"

CalmTurn(a) ==
  \E l \in PCs, r \in HeldType :
    /\ Goto(a, l) /\ Become(a, r) /\ HandCalm(job', a, l, r)
    /\ l \in Busy => r.sess \in Sessions /\ session'[r.sess].status # "NONE"

CalmStep(a) == TablesCalm' /\ Lasts /\ CalmTurn(a)

-----------------------------------------------------------------------------
LEMMA CardsStayCalm ==
  ASSUME Lasts, NEW s \in Sessions, NEW cards, CardsCalm(job, s, cards)
  PROVE  CardsCalm(job', s, cards)
BY DEF Lasts, CardsCalm

LEMMA FreshCalm == \A s : CardsCalm(job, s, AllReady) /\ CardsCalm(job', s, AllReady)
BY DEF CardsCalm, AllReady

LEMMA CalmFacts ==
  ASSUME TypeOK, OrderInv, TablesCalm, ActorsCalm, NEW a \in Actors, pc[a] \in Busy
  PROVE  /\ HandCalm(job, a, pc[a], my[a]) /\ Begun(my[a].sess) /\ SessionCalm(my[a].sess)
         /\ CardsCalm(job, my[a].sess, my[a].row.cards)
         /\ my[a].sess \in Sessions /\ my[a] \in HeldType
BY MyFacts DEF ActorsCalm, TablesCalm, HandCalm

LEMMA CalmActors ==
  ASSUME TypeOK, OrderInv, ActorsCalm, Lasts, NEW a \in Actors, CalmTurn(a)
  PROVE  ActorsCalm'
<1>1. PICK l \in PCs, r \in HeldType :
        /\ Goto(a, l) /\ Become(a, r) /\ HandCalm(job', a, l, r)
        /\ l \in Busy => session'[r.sess].status # "NONE"
  BY DEF CalmTurn
<1>2. HandlersOK
  BY TypeParts
<1> SUFFICES ASSUME NEW b \in Actors
             PROVE  /\ HandCalm(job', b, pc'[b], my'[b])
                    /\ pc'[b] \in Busy => session'[my'[b].sess].status # "NONE"
  BY DEF ActorsCalm, Begun
<1>3. CASE b = a
  <2>1. pc'[b] = l /\ my'[b] = r
    BY <1>1, <1>2, <1>3 DEF HandlersOK, Goto, Become
  <2> QED BY <1>1, <1>3, <2>1
<1>4. CASE b # a
  <2>1. pc'[b] = pc[b] /\ my'[b] = my[b]
    BY <1>1, <1>2, <1>4 DEF HandlersOK, Goto, Become
  <2>2. HandCalm(job, b, pc[b], my[b]) /\ (pc[b] \in Busy => my[b].sess \in Sessions /\ Begun(my[b].sess))
    BY MyFacts DEF ActorsCalm
  <2>3. pc[b] \in Busy => CardsCalm(job', my[b].sess, my[b].row.cards)
    BY <2>2, CardsStayCalm DEF HandCalm
  <2>4. HandCalm(job', b, pc[b], my[b])
    BY <2>2, <2>3 DEF HandCalm
  <2> QED BY <2>1, <2>2, <2>4 DEF Lasts, Begun
<1> QED BY <1>3, <1>4

-----------------------------------------------------------------------------
(* Tables that are only read, a job that is written, a session that is.    *)
LEMMA ReadCalm ==
  ASSUME TablesCalm, UNCHANGED <<session, job>>
  PROVE  TablesCalm' /\ Lasts
BY DEF TablesCalm, SessionCalm, CardsCalm, Lasts, Begun, Open, Made

LEMMA JobCalm ==
  ASSUME TablesOK, TablesCalm, UNCHANGED session, NEW s \in Sessions, Begun(s), NEW m \in Modules,
         NEW status \in Jobs \ {"none", "cancelled"},
         WriteUnlessTerminal(s, m, status) \/ (job[s][m] = "none" /\ WriteJob(s, m, status))
  PROVE  TablesCalm' /\ Lasts
<1>1. \/ UNCHANGED job
      \/ job[s][m] \notin Terminal /\ job' = [job EXCEPT ![s] = [job[s] EXCEPT ![m] = status]]
  BY DEF WriteUnlessTerminal, WriteJob, Terminal
<1>2. CASE UNCHANGED job
  BY <1>2, ReadCalm
<1>3. CASE job[s][m] \notin Terminal /\ job' = [job EXCEPT ![s] = [job[s] EXCEPT ![m] = status]]
  <2>1. job[s] \in [Modules -> Jobs]
    BY DEF TablesOK
  <2>2. job'[s][m] = status
        /\ \A x \in Sessions, n \in Modules : (x # s \/ n # m) => job'[x][n] = job[x][n]
    BY <1>3, <2>1 DEF TablesOK
  <2>3. Lasts
    BY <1>3, <2>2 DEF Lasts, Begun, Terminal
  <2>4. ASSUME NEW x \in Sessions PROVE SessionCalm(x)'
    <3>1. SessionCalm(x)
      BY DEF TablesCalm
    <3>2. CardsCalm(job', x, session[x].cards)
      BY <2>3, <3>1, CardsStayCalm DEF SessionCalm
    <3>3. \A n \in Modules : job'[x][n] # "cancelled"
      BY <2>2, <3>1 DEF SessionCalm
    <3>4. ~Begun(x) => \A n \in Modules : ~Made(job', x, n)
      BY <2>2, <3>1 DEF SessionCalm, Made
    <3> QED BY <3>1, <3>2, <3>3, <3>4 DEF SessionCalm, Begun, Open
  <2> QED BY <2>3, <2>4 DEF TablesCalm, Open
<1> QED BY <1>1, <1>2, <1>3

LEMMA SessionWriteCalm ==
  ASSUME TablesOK, TablesCalm, UNCHANGED job, NEW s \in Sessions,
         NEW status \in {"IN_PROGRESS", "COMPLETED"},
         NEW state \in {"none", "running", "completed", "failed"}, NEW cards \in Cards,
         WriteSession(s, status, state, cards), CardsCalm(job, s, cards),
         status = "IN_PROGRESS" => state = "running" /\ ~Taken(s)
  PROVE  TablesCalm' /\ Lasts /\ Begun(s)'
<1> DEFINE row == [status |-> status, state |-> state, cards |-> cards, old |-> FALSE]
<1>1. session' = [session EXCEPT ![s] = row] /\ row.status = status /\ row.state = state
      /\ row.cards = cards
  BY DEF WriteSession
<1> HIDE DEF row
<1>2. session'[s] = row /\ \A x \in Sessions : x # s => session'[x] = session[x]
  BY <1>1 DEF TablesOK
<1>3. Begun(s)' /\ SessionCalm(s)'
  BY <1>1, <1>2 DEF Begun, TablesCalm, SessionCalm, Open
<1>4. ASSUME NEW x \in Sessions, x # s PROVE SessionCalm(x)' /\ Begun(x)' = Begun(x) /\ Open(x)' = Open(x)
  BY <1>2, <1>4 DEF TablesCalm, SessionCalm, Begun, Open, Made
<1>5. Open(s)' => \A x \in Sessions : x # s => ~Open(x)
  BY <1>1, <1>2 DEF Open, Taken
<1>6. \A x, y \in Sessions : Open(x)' /\ Open(y)' => x = y
  BY <1>4, <1>5 DEF TablesCalm
<1> QED BY <1>3, <1>4, <1>6 DEF TablesCalm, Lasts

-----------------------------------------------------------------------------
(* Where an actor goes with what it holds.                                 *)
Plain == PCs \ (Asking \cup Starting \cup {"facts", "close"})

LEMMA PlainPlaces ==
  /\ {"idle", "find", "insert", "start", "gate", "process", "finish", "hook", "reconcile", "advance",
      "complete"} \subseteq Plain
  /\ {"idle", "find", "insert"} \cap Busy = {}
  /\ Starting \cap (Asking \cup {"facts", "close"}) = {} /\ "facts" \notin Asking /\ "close" \notin Asking
  /\ {"facts", "close"} \subseteq Busy /\ {"facts", "close"} \subseteq PCs
BY DEF Plain, PCs, Asking, Starting, Busy

LEMMA ReturnCalm ==
  ASSUME NEW a \in Actors, Return(a)
  PROVE  CalmTurn(a)
<1>1. HandCalm(job', a, "idle", Fresh)
  BY PlainPlaces DEF HandCalm, Fresh, Plain
<1> QED BY <1>1, FreshType, PlainPlaces DEF Return, CalmTurn, Plain

LEMMA OutCalm ==
  ASSUME NEW a \in Actors, NEW l \in Plain \ Busy, NEW r \in HeldType, Goto(a, l), Become(a, r),
         r.op \notin {"cancel", "retry", "resume"}, l = "find" => r.op \in {"create", "poll"}
  PROVE  CalmTurn(a)
BY PlainPlaces DEF CalmTurn, HandCalm, Plain, Starting

LEMMA PlainCalm ==
  ASSUME TypeOK, OrderInv, TablesCalm, ActorsCalm, Lasts, NEW a \in Actors, pc[a] \in Busy,
         NEW l \in Plain \ {"find"}, Goto(a, l), NEW failed \in BOOLEAN,
         UNCHANGED my \/ Become(a, [my[a] EXCEPT !.failed = failed])
  PROVE  CalmTurn(a)
<1>1. HandCalm(job, a, pc[a], my[a]) /\ Begun(my[a].sess) /\ my[a].sess \in Sessions /\ my[a] \in HeldType
      /\ CardsCalm(job', my[a].sess, my[a].row.cards)
  BY CalmFacts, CardsStayCalm
<1>2. \E r \in HeldType : Become(a, r) /\ r.sess = my[a].sess /\ r.row = my[a].row /\ r.op = my[a].op
  <2>1. CASE UNCHANGED my
    BY <1>1, <2>1, MyFacts DEF Become, HandlersOK
  <2>2. CASE Become(a, [my[a] EXCEPT !.failed = failed])
    BY <1>1, <2>2 DEF HeldType
  <2> QED BY <2>1, <2>2
<1>3. PICK r \in HeldType : Become(a, r) /\ r.sess = my[a].sess /\ r.row = my[a].row /\ r.op = my[a].op
  BY <1>2
<1>4. HandCalm(job', a, l, r)
  BY <1>1, <1>3 DEF HandCalm, Plain, Starting
<1>5. session'[r.sess].status # "NONE" /\ r.sess \in Sessions
  BY <1>1, <1>3 DEF Lasts, Begun
<1> QED BY <1>3, <1>4, <1>5 DEF CalmTurn, Plain

(* A session is read.                                                      *)
LEMMA ReadsCalm ==
  ASSUME NEW a \in Actors, NEW s \in Sessions, NEW r \in HeldType, r.sess = s,
         CardsCalm(job', s, r.row.cards), session'[s].status # "NONE",
         r.op \notin {"cancel", "retry", "resume"},
         a \notin Users => r.row.cards[r.mod].job /\ r.row.state = "running",
         Goto(a, "facts"), Become(a, r)
  PROVE  CalmTurn(a)
BY PlainPlaces DEF CalmTurn, HandCalm, Starting

(* A module is being started.                                              *)
LEMMA StartingCalm ==
  ASSUME NEW a \in Actors, NEW l \in Starting, NEW r \in HeldType, Goto(a, l), Become(a, r),
         r.sess \in Sessions, session'[r.sess].status # "NONE",
         CardsCalm(job', r.sess, r.row.cards), r.op \notin {"cancel", "retry", "resume"},
         \A n \in Modules : Earlier(r.plan, n) => r.row.cards[n].job,
         l # "createJob" => r.row.cards[r.plan].job,
         l = "write" => r.row.status \in {"IN_PROGRESS", "COMPLETED"}
  PROVE  CalmTurn(a)
BY PlainPlaces, SharedPlaces DEF CalmTurn, HandCalm
-----------------------------------------------------------------------------
(* The jobs are read: the cards keep their jobs, and no phase is cancelled.*)
LEMMA SeenCalm ==
  ASSUME TypeOK, OrderInv, TablesCalm, ActorsCalm, NEW a \in Actors, pc[a] = "facts"
  PROVE  /\ CardsCalm(job, my[a].sess, Seen(a))
         /\ \A m \in Modules : Seen(a)[m].job = my[a].row.cards[m].job
<1> DEFINE s == my[a].sess  cards == my[a].row.cards
<1>1. pc[a] \in Busy
  BY PlainPlaces
<1>2. cards \in Cards /\ CardsCalm(job, s, cards) /\ CardsTrue(job, s, cards) /\ s \in Sessions
      /\ SessionCalm(s)
  BY <1>1, MyFacts, CalmFacts
<1>3. ASSUME NEW m \in Modules
      PROVE  /\ Seen(a)[m].job = cards[m].job
             /\ Seen(a)[m].phase = "completed" => cards[m].job
             /\ Seen(a)[m].phase # "cancelled"
             /\ Seen(a)[m].phase = "failed" => job[s][m] = "failed"
  <2>1. CASE Seen(a)[m] = cards[m]
    BY <1>2, <2>1 DEF CardsCalm
  <2>2. CASE Seen(a)[m] # cards[m]
    <3>1. cards[m].job /\ Seen(a)[m] = [cards[m] EXCEPT !.phase = PhaseOf(job[s][m])]
      BY <2>2 DEF Seen, Hydrate, Known
    <3>2. cards[m] \in [phase : Phases, job : BOOLEAN]
      BY <1>2 DEF Cards
    <3>3. Seen(a)[m].job = cards[m].job /\ Seen(a)[m].phase = PhaseOf(job[s][m])
      BY <3>1, <3>2
    <3>4. job[s][m] # "cancelled"
      BY <1>2 DEF SessionCalm
    <3> QED BY <3>1, <3>3, <3>4 DEF PhaseOf
  <2> QED BY <2>1, <2>2
<1> QED BY <1>2, <1>3 DEF CardsCalm

(* The module that is next is unfinished, and those before it finished.    *)
LEMMA NextAfter ==
  ASSUME NEW s \in Sessions, NEW cards \in Cards, NEW row, NextModule(s, row, cards) # None
  PROVE  LET m == NextModule(s, row, cards) IN
         /\ m \in Modules /\ cards[m].phase # "completed"
         /\ \A n \in Modules : Earlier(m, n) => cards[n].phase = "completed"
         /\ m \in Known(cards) => job[s][m] = "pending"
<1> DEFINE i == Min(Ready(cards))
           m == NextModule(s, row, cards)
<1>1. Ready(cards) # {} /\ m = Roster[i] /\ (m \in Known(cards) => job[s][m] = "pending")
  BY DEF NextModule
<1>2. i \in DOMAIN Roster /\ \A k \in DOMAIN Roster : k < i => cards[Roster[k]].phase = "completed"
  BY <1>1, FirstReady
<1>3. Ready(cards) \subseteq Nat
  BY RosterFacts DEF Ready
<1>4. i \in Ready(cards)
  BY <1>1, <1>3, MinIsLeast
<1> HIDE DEF i, m
<1>5. m \in Modules /\ cards[m].phase # "completed"
  BY <1>1, <1>2, <1>4, RosterFacts DEF Ready
<1>6. ASSUME NEW n \in Modules, Earlier(m, n) PROVE cards[n].phase = "completed"
  <2>1. PICK x, k \in DOMAIN Roster : Roster[x] = m /\ Roster[k] = n /\ k < x
    BY <1>6 DEF Earlier
  <2>2. x = i
    BY <1>1, <1>2, <2>1, RosterAssumption
  <2> QED BY <1>2, <2>1, <2>2
<1> QED BY <1>1, <1>5, <1>6 DEF m

(* A module is planned, or a session is to be closed.                      *)
LEMMA BootstrapCalm ==
  ASSUME TypeOK, OrderInv, TablesCalm, ActorsCalm, UNCHANGED <<session, job>>, NEW a \in Actors,
         pc[a] = "facts", Started(a) # None, Bootstrap(a)
  PROVE  CalmTurn(a)
<1> DEFINE m == Started(a)
           r == [Held(a) EXCEPT !.plan = m]
           l == IF m \in Known(my[a].row.cards) THEN "enqueue" ELSE "createJob"
<1>1. PICK s \in Sessions : s = my[a].sess
  BY PlainPlaces, MyFacts
<1>2. /\ Begun(s) /\ my[a].op \notin {"cancel", "retry", "resume"}
  BY <1>1, PlainPlaces, CalmFacts DEF HandCalm
<1>3. m \in Modules /\ \A n \in Modules : Earlier(m, n) => Seen(a)[n].phase = "completed"
  BY <1>1, HeldFacts, NextAfter DEF Started
<1>4. Goto(a, l) /\ Become(a, r) /\ l \in Starting /\ l # "write"
      /\ (l # "createJob" => my[a].row.cards[m].job)
  BY DEF Bootstrap, Starting, Known
<1> HIDE DEF m, l
<1>5. r \in HeldType /\ r.sess = s /\ r.row.cards = Seen(a) /\ r.plan = m /\ r.op = my[a].op
  BY <1>1, <1>3, HeldFacts DEF HeldType
<1> HIDE DEF r
<1>6. CardsCalm(job', s, Seen(a)) /\ (\A n \in Modules : Earlier(m, n) => Seen(a)[n].job)
      /\ (l # "createJob" => Seen(a)[m].job)
  BY <1>1, <1>3, <1>4, SeenCalm DEF CardsCalm
<1>7. session'[s].status # "NONE"
  BY <1>2 DEF Begun
<1> QED BY <1>2, <1>4, <1>5, <1>6, <1>7, StartingCalm

LEMMA CloseCalm ==
  ASSUME TypeOK, OrderInv, TablesCalm, ActorsCalm, UNCHANGED <<session, job>>, NEW a \in Actors,
         pc[a] = "facts", NEW rows,
         NEW verdict, verdict = Resolve(my[a].sess, my[a].row, Seen(a), rows), verdict # "none",
         Goto(a, "close"), Become(a, [Held(a) EXCEPT !.verdict = verdict])
  PROVE  CalmTurn(a)
<1>1. PICK s \in Sessions : s = my[a].sess
  BY PlainPlaces, MyFacts
<1>2. /\ Begun(s) /\ my[a].op \notin {"cancel", "retry", "resume"}
  BY <1>1, PlainPlaces, CalmFacts DEF HandCalm
<1>3. verdict \in {"none", "completed", "failed"}
      /\ (verdict = "completed" => \A m \in Modules : Seen(a)[m].phase = "completed")
  BY DEF Resolve, AllIn
<1>4. PICK r \in HeldType : Become(a, r) /\ r.sess = s /\ r.row.cards = Seen(a) /\ r.verdict = verdict
                            /\ r.op = my[a].op
  BY <1>1, <1>3, HeldFacts DEF HeldType
<1>5. HandCalm(job', a, "close", r)
  BY <1>1, <1>2, <1>3, <1>4, SeenCalm, PlainPlaces DEF HandCalm, CardsCalm
<1>6. session'[s].status # "NONE"
  BY <1>2 DEF Begun
<1> QED BY <1>4, <1>5, <1>6, PlainPlaces DEF CalmTurn

-----------------------------------------------------------------------------
(* The users' steps.                                                       *)
LEMMA RequestCalm ==
  ASSUME TypeOK, OrderInv, TablesCalm, ActorsCalm, Calm', NEW u \in Users,
         Create(u) \/ \E kind \in {"poll", "cancel", "retry"}, s \in Sessions : Read(u, kind, s)
  PROVE  CalmStep(u)
<1>0. u \in Actors /\ TablesOK
  BY TypeParts DEF Actors
<1>1. TablesCalm' /\ Lasts /\ UNCHANGED <<session, job>>
  BY ReadCalm DEF Create, Read, Request, tables
<1>2. CASE Create(u)
  <2>1. PICK r \in HeldType : Become(u, r) /\ r.op = "create"
    BY <1>2, FreshType DEF Create, HeldType, Ops
  <2> QED BY <1>0, <1>1, <1>2, <2>1, OutCalm, PlainPlaces DEF Create, CalmStep
<1>3. ASSUME NEW kind \in {"poll", "cancel", "retry"}, NEW s \in Sessions, Read(u, kind, s)
      PROVE  CalmTurn(u)
  <2>1. kind = "poll" /\ session'[s].status # "NONE"
    BY <1>1, <1>3 DEF Read, Request, Calm
  <2>2. session[s] \in Rows /\ CardsCalm(job', s, session[s].cards)
    BY <1>0, <1>1 DEF TablesOK, TablesCalm, SessionCalm
  <2> DEFINE r == [Fresh EXCEPT !.op = kind, !.sess = s, !.row = session[s]]
  <2>3. r \in HeldType /\ r.op = kind /\ r.sess = s /\ r.row = session[s]
    BY <2>2, FreshType DEF HeldType, Ops
  <2>4. Goto(u, "facts") /\ Become(u, r)
    BY <1>3 DEF Read
  <2> HIDE DEF r
  <2> QED BY <1>0, <2>1, <2>2, <2>3, <2>4, ReadsCalm
<1> QED BY <1>1, <1>2, <1>3 DEF CalmStep

LEMMA FindCalm ==
  ASSUME TypeOK, OrderInv, TablesCalm, ActorsCalm, NEW u \in Users, Find(u)
  PROVE  CalmStep(u)
<1>0. u \in Actors /\ TablesOK /\ HandlersOK /\ my[u] \in HeldType
      /\ my[u].op \notin {"cancel", "retry", "resume"}
  BY TypeParts DEF Actors, HandlersOK, ActorsCalm, HandCalm
<1>1. TablesCalm' /\ Lasts /\ UNCHANGED <<session, job>>
  BY ReadCalm DEF Find, tables
<1>2. ASSUME NEW s \in Sessions, Running(s), Goto(u, "facts"),
             Become(u, [my[u] EXCEPT !.sess = s, !.row = session[s]])
      PROVE  CalmTurn(u)
  <2>1. session[s] \in Rows /\ CardsCalm(job', s, session[s].cards) /\ session'[s].status # "NONE"
    BY <1>0, <1>1, <1>2 DEF TablesOK, TablesCalm, SessionCalm, Running, Open
  <2> DEFINE r == [my[u] EXCEPT !.sess = s, !.row = session[s]]
  <2>2. r \in HeldType /\ r.op = my[u].op /\ r.sess = s /\ r.row = session[s]
    BY <1>0, <2>1 DEF HeldType
  <2> QED BY <1>0, <1>2, <2>1, <2>2, ReadsCalm
<1>3. ASSUME Goto(u, "insert"), UNCHANGED my PROVE CalmTurn(u)
  <2>1. Become(u, my[u])
    BY <1>0, <1>3 DEF Become, HandlersOK
  <2> QED BY <1>0, <1>3, <2>1, OutCalm, PlainPlaces
<1> QED BY <1>0, <1>1, <1>2, <1>3, ReturnCalm DEF Find, CalmStep

LEMMA InsertCalm ==
  ASSUME TypeOK, OrderInv, TablesCalm, ActorsCalm, NEW u \in Users, Insert(u)
  PROVE  CalmStep(u)
<1>0. u \in Actors /\ TablesOK /\ HandlersOK /\ UNCHANGED <<job, queue, jobsOld>>
  BY TypeParts DEF Actors, Insert
<1>1. CASE UNCHANGED session /\ Goto(u, "find") /\ Become(u, [Fresh EXCEPT !.op = "poll"])
  <2>1. PICK r \in HeldType : Become(u, r) /\ r.op = "poll"
    BY <1>1, FreshType DEF HeldType, Ops
  <2> QED BY <1>0, <1>1, <2>1, ReadCalm, OutCalm, PlainPlaces DEF CalmStep
<1>2. CASE UNCHANGED session /\ Return(u)
  BY <1>0, <1>2, ReadCalm, ReturnCalm DEF CalmStep
<1>3. ASSUME NEW s \in Sessions, \A other \in Sessions : ~Open(other),
             WriteSession(s, "IN_PROGRESS", "running", AllReady), Goto(u, "facts"),
             Become(u, [Fresh EXCEPT !.op = "begin", !.sess = s, !.row = session'[s]])
      PROVE  CalmStep(u)
  <2>1. TablesCalm' /\ Lasts /\ Begun(s)'
    BY <1>0, <1>3, FreshCalm, FreshType, SessionWriteCalm DEF Taken
  <2>2. session'[s] \in Rows /\ session'[s].cards = AllReady
    BY <1>0, <1>3, FreshType, WriteSessionFacts
  <2> DEFINE r == [Fresh EXCEPT !.op = "begin", !.sess = s, !.row = session'[s]]
  <2>3. r \in HeldType /\ r.op = "begin" /\ r.sess = s /\ r.row = session'[s]
    BY <2>2, FreshType DEF HeldType, Ops
  <2>4. session'[s].status # "NONE"
    BY <2>1 DEF Begun
  <2>5. CalmTurn(u)
    BY <1>0, <1>3, <2>2, <2>3, <2>4, FreshCalm, ReadsCalm
  <2> QED BY <2>1, <2>5 DEF CalmStep
<1> QED BY <1>1, <1>2, <1>3 DEF Insert

LEMMA DecisionCalm ==
  ASSUME TypeOK, OrderInv, TablesCalm, ActorsCalm, NEW u \in Users, Look(u) \/ Begin(u)
  PROVE  CalmStep(u)
<1>1. u \in Actors /\ pc[u] = "facts" /\ UNCHANGED <<session, job>> /\ TablesCalm' /\ Lasts
  BY ReadCalm DEF Actors, Look, Begin, Decide, tables
<1>2. Return(u) => CalmTurn(u)
  BY <1>1, ReturnCalm
<1>3. CASE Look(u)
  <2>1. PICK op \in {"poll", "create"} : Decide(u, op) /\ Settle(u, Queued(u), Return(u))
    BY <1>3 DEF Look
  <2> DEFINE verdict == Resolve(my[u].sess, my[u].row, Seen(u), Queued(u))
  <2>2. \/ Return(u)
        \/ verdict # "none" /\ Goto(u, "close") /\ Become(u, [Held(u) EXCEPT !.verdict = verdict])
    BY <2>1 DEF Settle
  <2> QED BY <1>1, <1>2, <2>2, CloseCalm DEF CalmStep
<1>4. CASE Begin(u)
  BY <1>1, <1>2, <1>4, BootstrapCalm DEF Begin, CalmStep
<1> QED BY <1>1, <1>2, <1>3, <1>4

(* Nobody cancels or retries.                                              *)
LEMMA NothingAsked ==
  ASSUME TypeOK, OrderInv, TablesCalm, ActorsCalm, NEW u \in Users
  PROVE  /\ ~(PlanCancel(u) \/ PlanRetry(u) \/ Resume(u) \/ WriteCancel(u) \/ Withdraw(u))
         /\ ~(Reread(u) \/ WriteRetry(u))
         /\ \A m \in Modules : ~CancelJob(u, m) /\ ~RetryJob(u, m)
<1>1. pc[u] \notin Asking /\ my[u].op \notin {"cancel", "retry", "resume"}
  BY DEF ActorsCalm, HandCalm, Actors
<1> QED BY <1>1 DEF Asking, PlanCancel, PlanRetry, Resume, Decide, WriteCancel, Withdraw, Reread,
           WriteRetry, CancelJob, RetryJob, TakeJob
-----------------------------------------------------------------------------
(* What CreateJob, ReadStatus and FindOwning leave in hand.                *)
Alike(r, x) == r.sess = x.sess /\ r.mod = x.mod /\ r.op = x.op /\ r.plan = x.plan

LEMMA CreateJobHands ==
  ASSUME TypeOK, OrderInv, NEW a \in Actors, CreateJob(a)
  PROVE  \E r \in HeldType :
           /\ Become(a, r) /\ Alike(r, my[a]) /\ r.row.old = my[a].row.old
           /\ r.row.cards[r.plan].job /\ r.row.cards[r.plan].phase = "queued"
           /\ \A n \in Modules : n # r.plan => r.row.cards[n] = my[a].row.cards[n]
<1> DEFINE s == my[a].sess
           m == my[a].plan
           card == [phase |-> "queued", job |-> TRUE]
           cards == [my[a].row.cards EXCEPT ![m] = card]
           row == [my[a].row EXCEPT !.cards = cards]
           r == [my[a] EXCEPT !.row = row]
<1>0. pc[a] \in Starting
  BY DEF CreateJob, Starting
<1>1. /\ my[a] \in HeldType /\ s \in Sessions /\ m \in Modules
      /\ my[a].row \in Rows /\ my[a].row.cards \in Cards
  BY <1>0, StartingFacts
<1>2. card \in [phase : Phases, job : BOOLEAN] /\ card.job /\ card.phase = "queued"
  BY DEF Phases
<1>3. Become(a, r)
  BY <1>1 DEF CreateJob, HeldType, Rows
<1> HIDE DEF card
<1>4. cards \in Cards /\ cards[m] = card /\ \A n \in Modules : n # m => cards[n] = my[a].row.cards[n]
  BY <1>1, <1>2 DEF Cards
<1> HIDE DEF cards
<1>5. row \in Rows /\ row.cards = cards /\ row.old = my[a].row.old
  BY <1>1, <1>4 DEF Rows
<1> HIDE DEF row
<1>6. r \in HeldType /\ Alike(r, my[a]) /\ r.row = row
  BY <1>1, <1>5 DEF HeldType, Alike
<1> HIDE DEF r
<1>7. r.plan = m
  BY <1>6 DEF Alike
<1> QED BY <1>2, <1>3, <1>4, <1>5, <1>6, <1>7

LEMMA ReadStatusHands ==
  ASSUME TypeOK, OrderInv, NEW a \in Actors, ReadStatus(a)
  PROVE  \E r \in HeldType :
           /\ Become(a, r) /\ Alike(r, my[a]) /\ r.row.old = my[a].row.old
           /\ r.row.cards = my[a].row.cards /\ r.row.status = session[my[a].sess].status
<1> DEFINE status == session[my[a].sess].status
           row == [my[a].row EXCEPT !.status = status]
           r == [my[a] EXCEPT !.row = row]
<1>0. pc[a] \in Starting
  BY DEF ReadStatus, Starting
<1>1. /\ TablesOK /\ my[a] \in HeldType /\ my[a].sess \in Sessions /\ my[a].row \in Rows
  BY <1>0, StartingFacts
<1>2. Become(a, r)
  BY <1>1 DEF ReadStatus, HeldType, Rows
<1>3. status \in {"NONE", "IN_PROGRESS", "COMPLETED", "CANCELLED"}
  BY <1>1 DEF TablesOK, Rows
<1> HIDE DEF status
<1>4. row \in Rows /\ row.cards = my[a].row.cards /\ row.status = status /\ row.old = my[a].row.old
  BY <1>1, <1>3 DEF Rows
<1> HIDE DEF row
<1>5. r \in HeldType /\ Alike(r, my[a]) /\ r.row = row
  BY <1>1, <1>4 DEF HeldType, Alike
<1> HIDE DEF r
<1> QED BY <1>2, <1>4, <1>5 DEF status

LEMMA FindOwningHands ==
  ASSUME TypeOK, OrderInv, NEW w \in Workers, NEW op \in {"reconcile", "advance"}, NEW l,
         FindOwning(w, op, l)
  PROVE  \/ /\ Goto(w, l) /\ UNCHANGED my
            /\ ~Open(my[w].sess) \/ my[w].mod \notin Known(session[my[w].sess].cards)
         \/ /\ Goto(w, "facts") /\ Open(my[w].sess)
            /\ my[w].mod \in Known(session[my[w].sess].cards)
            /\ \E r \in HeldType : /\ Become(w, r) /\ r.sess = my[w].sess /\ r.mod = my[w].mod
                                   /\ r.op = op /\ r.row = session[my[w].sess]
<1> DEFINE s == my[w].sess
           r == [my[w] EXCEPT !.op = op, !.row = session[s]]
<1>1. pc[w] \in Hooked
  BY DEF FindOwning, Hooked
<1>2. TablesOK /\ my[w] \in HeldType /\ s \in Sessions
  BY <1>1, HookedFacts
<1>3. session[s] \in Rows
  BY <1>2 DEF TablesOK
<1>4. r \in HeldType /\ r.sess = s /\ r.mod = my[w].mod /\ r.op = op /\ r.row = session[s]
  BY <1>2, <1>3 DEF HeldType, Ops
<1>5. CASE Open(s) /\ my[w].mod \in Known(session[s].cards)
  <2>1. Goto(w, "facts") /\ Become(w, r)
    BY <1>5 DEF FindOwning
  <2> HIDE DEF r
  <2> QED BY <1>4, <1>5, <2>1
<1>6. CASE ~(Open(s) /\ my[w].mod \in Known(session[s].cards))
  BY <1>6 DEF FindOwning
<1> QED BY <1>5, <1>6

-----------------------------------------------------------------------------
(* The steps that users and workers share.                                 *)
LEMMA CloseSessionCalm ==
  ASSUME TypeOK, OrderInv, TablesCalm, ActorsCalm, NEW a \in Actors, CloseSession(a)
  PROVE  CalmStep(a)
<1> DEFINE s == my[a].sess
<1>0. pc[a] = "close" /\ pc[a] \in Busy /\ UNCHANGED <<job, queue, jobsOld>>
      /\ WriteSession(s, "COMPLETED", my[a].verdict, my[a].row.cards)
  BY SharedPlaces DEF CloseSession
<1>1. /\ TablesOK /\ HandlersOK /\ s \in Sessions /\ my[a] \in HeldType
      /\ my[a].row.cards \in Cards /\ Handling(job, a, "close", my[a])
      /\ HandCalm(job, a, "close", my[a]) /\ CardsCalm(job, s, my[a].row.cards)
  BY <1>0, MyFacts, CalmFacts
<1>2. my[a].verdict \in {"none", "running", "completed", "failed"}
  BY <1>1 DEF HeldType
<1>3. TablesCalm' /\ Lasts
  BY <1>0, <1>1, <1>2, SessionWriteCalm
<1>4. \/ Return(a)
      \/ Goto(a, "insert") /\ UNCHANGED my
      \/ \E l \in {"advance", "complete"} : Goto(a, l) /\ UNCHANGED my
  BY <1>1 DEF CloseSession, Handling
<1>5. Become(a, my[a]) \/ ~UNCHANGED my
  BY <1>1 DEF Become, HandlersOK
<1>6. CalmTurn(a)
  BY <1>0, <1>1, <1>3, <1>4, <1>5, ReturnCalm, OutCalm, PlainCalm, PlainPlaces DEF HandCalm
<1> QED BY <1>3, <1>6 DEF CalmStep

LEMMA StartingCalmFacts ==
  ASSUME TypeOK, OrderInv, TablesCalm, ActorsCalm, NEW a \in Actors, pc[a] \in Starting
  PROVE  /\ TablesOK /\ HandlersOK /\ my[a] \in HeldType /\ my[a].sess \in Sessions /\ my[a].plan \in Modules
         /\ pc[a] \in Busy /\ HandCalm(job, a, pc[a], my[a]) /\ CardsCalm(job, my[a].sess, my[a].row.cards)
         /\ my[a].row.cards \in Cards /\ Begun(my[a].sess) /\ SessionCalm(my[a].sess)
BY SharedPlaces, StartingFacts, CalmFacts

LEMMA CreateJobCalm ==
  ASSUME TypeOK, OrderInv, TablesCalm, ActorsCalm, NEW a \in Actors, CreateJob(a)
  PROVE  CalmStep(a)
<1>1. PICK r \in HeldType :
        /\ Become(a, r) /\ Alike(r, my[a])
        /\ r.row.cards[r.plan].job /\ r.row.cards[r.plan].phase = "queued"
        /\ \A n \in Modules : n # r.plan => r.row.cards[n] = my[a].row.cards[n]
  BY CreateJobHands
<1>2. r.sess = my[a].sess /\ r.plan = my[a].plan /\ r.op = my[a].op
  BY <1>1 DEF Alike
<1> DEFINE s == my[a].sess  m == my[a].plan
<1>3. pc[a] \in Starting /\ UNCHANGED session /\ Goto(a, "setPending")
  BY DEF CreateJob, Starting
<1>4. /\ TablesOK /\ s \in Sessions /\ m \in Modules /\ Begun(s) /\ CardsCalm(job, s, my[a].row.cards)
      /\ HandCalm(job, a, pc[a], my[a])
  BY <1>3, StartingCalmFacts
<1>5. TablesCalm' /\ Lasts
  <2>1. CASE job[s][m] = "none"
    BY <1>3, <1>4, <2>1, JobCalm DEF CreateJob, Jobs
  <2>2. CASE job[s][m] # "none"
    BY <1>3, <2>2, ReadCalm DEF CreateJob
  <2> QED BY <2>1, <2>2
<1>6. CardsCalm(job', s, my[a].row.cards)
  BY <1>4, <1>5, CardsStayCalm
<1>7. \A n \in Modules : Earlier(m, n) => my[a].row.cards[n].job
  BY <1>3, <1>4 DEF HandCalm
<1>8. \A n \in Modules : my[a].row.cards[n].job => r.row.cards[n].job
  BY <1>1, <1>2
<1>9. CardsCalm(job', s, r.row.cards)
  <2> SUFFICES ASSUME NEW n \in Modules
               PROVE  /\ r.row.cards[n].phase = "completed" => r.row.cards[n].job
                      /\ r.row.cards[n].job => \A x \in Modules : Earlier(n, x) => r.row.cards[x].job
                      /\ r.row.cards[n].phase # "cancelled"
                      /\ r.row.cards[n].phase = "failed" => job'[s][n] = "failed"
    BY DEF CardsCalm
  <2>1. CASE n = m
    BY <1>1, <1>2, <1>7, <1>8, <2>1
  <2>2. CASE n # m
    BY <1>1, <1>2, <1>6, <1>8, <2>2 DEF CardsCalm
  <2> QED BY <2>1, <2>2
<1>10. session'[s].status # "NONE" /\ r.op \notin {"cancel", "retry", "resume"}
  BY <1>2, <1>3, <1>4 DEF Begun, HandCalm
<1>11. CalmTurn(a)
  BY <1>1, <1>2, <1>3, <1>4, <1>7, <1>8, <1>9, <1>10, StartingCalm DEF Starting
<1> QED BY <1>5, <1>11 DEF CalmStep

LEMMA SetPendingCalm ==
  ASSUME TypeOK, OrderInv, TablesCalm, ActorsCalm, NEW a \in Actors, SetPending(a)
  PROVE  CalmStep(a)
<1> DEFINE s == my[a].sess
<1>1. pc[a] \in Starting /\ pc[a] # "createJob" /\ UNCHANGED <<session, my>> /\ Goto(a, "readStatus")
  BY DEF SetPending, Starting
<1>2. /\ TablesOK /\ HandlersOK /\ s \in Sessions /\ my[a].plan \in Modules /\ Begun(s)
      /\ my[a] \in HeldType /\ CardsCalm(job, s, my[a].row.cards) /\ HandCalm(job, a, pc[a], my[a])
  BY <1>1, StartingCalmFacts
<1>3. TablesCalm' /\ Lasts
  BY <1>1, <1>2, JobCalm DEF SetPending, Jobs
<1>4. CardsCalm(job', s, my[a].row.cards) /\ session'[s].status # "NONE" /\ Become(a, my[a])
  BY <1>1, <1>2, <1>3, CardsStayCalm DEF Begun, Become, HandlersOK
<1>5. CalmTurn(a)
  BY <1>1, <1>2, <1>4, StartingCalm DEF HandCalm, Starting
<1> QED BY <1>3, <1>5 DEF CalmStep

LEMMA ReadStatusCalm ==
  ASSUME TypeOK, OrderInv, TablesCalm, ActorsCalm, NEW a \in Actors, ReadStatus(a)
  PROVE  CalmStep(a)
<1> DEFINE s == my[a].sess
<1>1. pc[a] \in Starting /\ pc[a] # "createJob" /\ UNCHANGED <<session, job>> /\ Goto(a, "write")
  BY DEF ReadStatus, Starting, tables
<1>2. /\ TablesOK /\ s \in Sessions /\ Begun(s) /\ SessionCalm(s)
      /\ CardsCalm(job, s, my[a].row.cards) /\ HandCalm(job, a, pc[a], my[a])
  BY <1>1, StartingCalmFacts
<1>3. PICK r \in HeldType :
           /\ Become(a, r) /\ Alike(r, my[a])
           /\ r.row.cards = my[a].row.cards /\ r.row.status = session[my[a].sess].status
  BY ReadStatusHands
<1>4. r.sess = s /\ r.plan = my[a].plan /\ r.op = my[a].op
  BY <1>3 DEF Alike
<1>5. r.row.status \in {"IN_PROGRESS", "COMPLETED"}
  BY <1>2, <1>3 DEF TablesOK, Rows, Begun, SessionCalm
<1>6. TablesCalm' /\ Lasts
  BY <1>1, ReadCalm
<1>7. CardsCalm(job', s, r.row.cards) /\ session'[s].status # "NONE"
  BY <1>1, <1>2, <1>3 DEF Begun
<1>8. CalmTurn(a)
  BY <1>1, <1>2, <1>3, <1>4, <1>5, <1>7, StartingCalm DEF HandCalm, Starting
<1> QED BY <1>6, <1>8 DEF CalmStep

LEMMA WriteCalm ==
  ASSUME TypeOK, OrderInv, TablesCalm, ActorsCalm, NEW a \in Actors, Write(a)
  PROVE  CalmStep(a)
<1> DEFINE s == my[a].sess
<1>1. pc[a] \in Starting /\ pc[a] = "write" /\ UNCHANGED <<job, queue>>
  BY DEF Write, Starting
<1>2. /\ TablesOK /\ HandlersOK /\ s \in Sessions /\ Begun(s) /\ my[a] \in HeldType /\ pc[a] \in Busy
      /\ my[a].row.cards \in Cards
      /\ CardsCalm(job, s, my[a].row.cards) /\ HandCalm(job, a, pc[a], my[a])
  BY <1>1, StartingCalmFacts
<1>3. CASE Refused(a) /\ UNCHANGED session
  <2>1. TablesCalm' /\ Lasts
    BY <1>1, <1>3, ReadCalm
  <2>2. CalmTurn(a)
    BY <1>2, <1>3, <2>1, ReturnCalm, PlainCalm, PlainPlaces DEF Refused
  <2> QED BY <2>1, <2>2 DEF CalmStep
<1>4. CASE ~(Refused(a) /\ UNCHANGED session)
  <2>1. /\ WriteSession(s, my[a].row.status, "running", my[a].row.cards)
        /\ Goto(a, "enqueue") /\ UNCHANGED my
        /\ my[a].row.status = "IN_PROGRESS" => ~Taken(s)
    BY <1>4 DEF Write
  <2>2. my[a].row.status \in {"IN_PROGRESS", "COMPLETED"}
    BY <1>1, <1>2 DEF HandCalm
  <2>3. TablesCalm' /\ Lasts /\ Begun(s)'
    BY <1>1, <1>2, <2>1, <2>2, SessionWriteCalm
  <2>4. session'[s].status # "NONE" /\ Become(a, my[a])
    BY <1>2, <2>1, <2>3 DEF Begun, Become, HandlersOK
  <2>5. CalmTurn(a)
    BY <1>1, <1>2, <2>1, <2>4, StartingCalm DEF HandCalm, Starting
  <2> QED BY <2>3, <2>5 DEF CalmStep
<1> QED BY <1>3, <1>4

LEMMA EnqueueCalm ==
  ASSUME TypeOK, OrderInv, TablesCalm, ActorsCalm, NEW a \in Actors, Enqueue(a)
  PROVE  CalmStep(a)
<1>1. pc[a] \in Starting /\ UNCHANGED <<session, job>> /\ Done(a)
  BY DEF Enqueue, Starting
<1>2. TablesCalm' /\ Lasts
  BY <1>1, ReadCalm
<1>3. CalmTurn(a)
  BY <1>1, <1>2, SharedPlaces, ReturnCalm, PlainCalm, PlainPlaces DEF Done
<1> QED BY <1>2, <1>3 DEF CalmStep
-----------------------------------------------------------------------------
LEMMA CoordinateCalm ==
  ASSUME TypeOK, OrderInv, TablesCalm, ActorsCalm, NEW a \in Actors, Coordinate(a)
  PROVE  CalmStep(a)
BY CloseSessionCalm, CreateJobCalm, SetPendingCalm, ReadStatusCalm, WriteCalm, EnqueueCalm
   DEF Coordinate

(* The workers' steps.                                                     *)
LEMMA ClaimCalm ==
  ASSUME TypeOK, OrderInv, TablesCalm, ActorsCalm, NEW w \in Workers, NEW s \in Sessions,
         NEW m \in Modules, Claim(w, s, m)
  PROVE  CalmStep(w)
<1> DEFINE r == [Fresh EXCEPT !.op = "step", !.sess = s, !.mod = m]
<1>1. /\ w \in Actors /\ TablesOK /\ SessionsTrue /\ UNCHANGED <<session, job>>
      /\ Goto(w, "start") /\ Become(w, r)
  BY WorkerIsNoUser, TypeParts DEF OrderInv, Claim
<1>2. queue[s][m].status # "NONE"
  BY DEF Claim
<1>3. Begun(s)
  BY <1>1, <1>2 DEF SessionsTrue, SessionTrue, TablesCalm, SessionCalm
<1>4. r \in HeldType /\ r.sess = s /\ r.row.cards = AllReady /\ r.op = "step"
  BY FreshType DEF HeldType, Ops, Fresh, NoRow
<1> HIDE DEF r
<1>5. HandCalm(job', w, "start", r)
  BY <1>4, FreshCalm, PlainPlaces DEF HandCalm, Plain
<1>6. session'[r.sess].status # "NONE"
  BY <1>1, <1>3, <1>4 DEF Begun
<1>7. TablesCalm' /\ Lasts
  BY <1>1, ReadCalm
<1> QED BY <1>1, <1>4, <1>5, <1>6, <1>7, PlainPlaces DEF CalmStep, CalmTurn, Plain

LEMMA WorkingCalm ==
  ASSUME TypeOK, OrderInv, TablesCalm, ActorsCalm, NEW w \in Workers,
         Start(w) \/ Gate(w) \/ Hook(w) \/ Stop(w) \/ Process(w) \/ Finish(w)
  PROVE  CalmStep(w)
<1>1. pc[w] \in Hooked /\ UNCHANGED session
  BY DEF Start, Gate, Hook, Stop, Process, Finish, StepWrites, Hooked, tables
<1>2. /\ w \in Actors /\ pc[w] \in Busy /\ TablesOK /\ my[w].sess \in Sessions /\ my[w].mod \in Modules
      /\ Begun(my[w].sess) /\ SessionCalm(my[w].sess) /\ HandCalm(job, w, pc[w], my[w])
  BY <1>1, HookedFacts, CalmFacts
<1>3. pc[w] # "stop"
  BY <1>2 DEF HandCalm, Asking
<1>4. CASE Start(w) \/ Gate(w) \/ Hook(w)
  <2>1. TablesCalm' /\ Lasts
    BY <1>4, ReadCalm DEF Start, Gate, Hook, tables
  <2>2. Return(w) \/ \E l \in {"hook", "gate", "process", "reconcile", "complete"} : Goto(w, l) /\ UNCHANGED my
    BY <1>2, <1>4 DEF Start, Gate, Hook, SessionCalm
  <2> QED BY <1>2, <2>1, <2>2, ReturnCalm, PlainCalm, PlainPlaces DEF CalmStep
<1>5. CASE Process(w) \/ Finish(w)
  <2>1. PICK status \in {"processing", "completed", "failed"}, l \in {"finish", "hook"} :
          /\ WriteUnlessTerminal(my[w].sess, my[w].mod, status) /\ Goto(w, l)
          /\ UNCHANGED my \/ Become(w, [my[w] EXCEPT !.failed = TRUE])
    BY <1>5 DEF Process, Finish, StepWrites
  <2>2. TablesCalm' /\ Lasts
    BY <1>1, <1>2, <2>1, JobCalm DEF Jobs, Terminal
  <2>3. CalmTurn(w)
    BY <1>2, <2>1, <2>2, PlainCalm, PlainPlaces
  <2> QED BY <2>2, <2>3 DEF CalmStep
<1> QED BY <1>3, <1>4, <1>5 DEF Stop, StepWrites

LEMMA FindOwningCalm ==
  ASSUME TypeOK, OrderInv, TablesCalm, ActorsCalm, NEW w \in Workers, Reconcile(w) \/ Advance(w)
  PROVE  CalmStep(w)
<1>1. PICK op \in {"reconcile", "advance"}, l \in {"advance", "complete"} : FindOwning(w, op, l)
  BY DEF Reconcile, Advance
<1>2. pc[w] \in Hooked /\ UNCHANGED <<session, job>> /\ TablesCalm' /\ Lasts
  BY <1>1, ReadCalm DEF FindOwning, Hooked, tables
<1>3. /\ w \in Actors /\ pc[w] \in Busy /\ my[w].sess \in Sessions
      /\ Begun(my[w].sess) /\ SessionCalm(my[w].sess)
  BY <1>2, HookedFacts, CalmFacts
<1>4. CASE Goto(w, l) /\ UNCHANGED my
  BY <1>2, <1>3, <1>4, PlainCalm, PlainPlaces DEF CalmStep
<1>5. ASSUME Goto(w, "facts"), Open(my[w].sess), my[w].mod \in Known(session[my[w].sess].cards),
             NEW r \in HeldType, Become(w, r), r.sess = my[w].sess, r.mod = my[w].mod,
             r.op = op, r.row = session[my[w].sess]
      PROVE  CalmTurn(w)
  <2>1. r.row.cards[r.mod].job /\ r.row.state = "running"
    BY <1>3, <1>5 DEF Known, SessionCalm
  <2>2. CardsCalm(job', r.sess, r.row.cards) /\ session'[r.sess].status # "NONE"
    BY <1>2, <1>3, <1>5 DEF SessionCalm, Begun
  <2> QED BY <1>3, <1>5, <2>1, <2>2, ReadsCalm
<1> QED BY <1>1, <1>2, <1>4, <1>5, FindOwningHands DEF CalmStep

LEMMA SettlingCalm ==
  ASSUME TypeOK, OrderInv, TablesCalm, ActorsCalm, NEW w \in Workers, Conclude(w) \/ MoveOn(w)
  PROVE  CalmStep(w)
<1>1. /\ w \in Actors /\ pc[w] = "facts" /\ pc[w] \in Busy /\ UNCHANGED <<session, job>>
      /\ TablesCalm' /\ Lasts
  BY WorkerIsNoUser, ReadCalm, PlainPlaces DEF Conclude, MoveOn, Decide, tables
<1>2. ASSUME NEW l \in {"advance", "complete"}, Goto(w, l), UNCHANGED my PROVE CalmTurn(w)
  BY <1>1, <1>2, PlainCalm, PlainPlaces
<1>3. ASSUME NEW l \in {"advance", "complete"}, NEW rows,
             Settle(w, rows, Goto(w, l) /\ UNCHANGED my)
      PROVE  CalmTurn(w)
  BY <1>1, <1>2, <1>3, CloseCalm DEF Settle
<1> QED BY <1>1, <1>2, <1>3, BootstrapCalm DEF Conclude, MoveOn, CalmStep

LEMMA CompleteCalm ==
  ASSUME TypeOK, OrderInv, TablesCalm, ActorsCalm, NEW w \in Workers, Complete(w)
  PROVE  CalmStep(w)
BY WorkerIsNoUser, ReadCalm, ReturnCalm DEF Complete, CalmStep

LEMMA UserCalm ==
  ASSUME TypeOK, OrderInv, TablesCalm, ActorsCalm, Calm', NEW u \in Users, User(u)
  PROVE  CalmStep(u)
<1>1. u \in Actors
  BY DEF Actors
<1> QED BY <1>1, RequestCalm, FindCalm, InsertCalm, CoordinateCalm, DecisionCalm, NothingAsked DEF User

LEMMA WorkerCalm ==
  ASSUME TypeOK, OrderInv, TablesCalm, ActorsCalm, NEW w \in Workers, Worker(w)
  PROVE  CalmStep(w)
BY ClaimCalm, WorkingCalm, FindOwningCalm, SettlingCalm, CompleteCalm, CoordinateCalm, WorkerIsNoUser
   DEF Worker

LEMMA AgeFacts ==
  ASSUME TablesOK, NEW s \in Sessions, Age(s)
  PROVE  /\ UNCHANGED <<job, queue, pc, my, bounds>> /\ \A a \in Actors : pc[a] = "idle"
         /\ \A x \in Sessions : /\ session'[x].status = session[x].status
                                /\ session'[x].state = session[x].state
                                /\ session'[x].cards = session[x].cards
BY DEF Age, TablesOK, Rows

LEMMA AgeCalm ==
  ASSUME TypeOK, OrderInv, TablesCalm, ActorsCalm, NEW s \in Sessions, Age(s)
  PROVE  TablesCalm' /\ ActorsCalm'
<1>1. TablesOK
  BY TypeParts
<1>2. TablesCalm'
  BY <1>1, AgeFacts DEF TablesCalm, SessionCalm, CardsCalm, Begun, Open, Made
<1>3. ActorsCalm'
  BY <1>1, AgeFacts, PlainPlaces DEF ActorsCalm, HandCalm, Busy, Starting, Asking
<1> QED BY <1>2, <1>3

(* Once a session was cancelled or retried, or a lease lost, it was.       *)
LEMMA CalmWas == TypeOK /\ OrderInv /\ [Next]_vars /\ Calm' => Calm
<1> SUFFICES ASSUME TypeOK, OrderInv, [Next]_vars, Calm' PROVE Calm
  OBVIOUS
<1>1. overtaken \in Nat /\ MaxFaults \in Nat
  BY TypeParts, BoundAssumption DEF BoundsOK
<1>2. UNCHANGED bounds => Calm
  BY DEF Calm, bounds
<1>3. ASSUME NEW u, NEW kind, Request(u, kind) PROVE Calm
  BY <1>3 DEF Request, Calm
<1>4. ASSUME NEW a \in Actors, Coordinate(a) PROVE Calm
  BY <1>2, <1>4 DEF Coordinate, CloseSession, CreateJob, SetPending, ReadStatus, Enqueue, Write, Calm
<1>5. ASSUME NEW u \in Users, User(u) PROVE Calm
  <2>1. CASE Create(u) \/ \E kind \in {"poll", "cancel", "retry"}, s \in Sessions : Read(u, kind, s)
    BY <1>3, <2>1 DEF Create, Read
  <2>2. CASE Look(u) \/ Begin(u) \/ PlanCancel(u) \/ PlanRetry(u) \/ Resume(u)
    BY <1>2, <2>2 DEF Look, Begin, PlanCancel, PlanRetry, Resume, Decide
  <2>3. CASE Find(u) \/ Insert(u) \/ WriteCancel(u) \/ Withdraw(u) \/ Reread(u) \/ WriteRetry(u)
    BY <1>2, <2>3 DEF Find, Insert, WriteCancel, Withdraw, Reread, WriteRetry
  <2>4. CASE \E m \in Modules : CancelJob(u, m) \/ RetryJob(u, m)
    BY <1>2, <2>4 DEF CancelJob, RetryJob, TakeJob
  <2> QED BY <1>4, <1>5, <2>1, <2>2, <2>3, <2>4 DEF User, Actors
<1>6. ASSUME NEW w \in Workers, Worker(w) PROVE Calm
  <2>1. ASSUME NEW s \in Sessions, NEW m \in Modules, Claim(w, s, m) PROVE Calm
    BY <1>1, <2>1 DEF Claim, Calm
  <2>2. CASE Start(w) \/ Gate(w) \/ Hook(w) \/ Reconcile(w) \/ Advance(w) \/ Complete(w)
    BY <1>2, <2>2 DEF Start, Gate, Hook, Reconcile, Advance, FindOwning, Complete
  <2>3. CASE Stop(w) \/ Process(w) \/ Finish(w)
    BY <2>3 DEF Stop, Process, Finish, StepWrites, Calm
  <2>4. CASE Conclude(w) \/ MoveOn(w)
    BY <1>2, <2>4 DEF Conclude, MoveOn, Decide
  <2> QED BY <1>4, <1>6, <2>1, <2>2, <2>3, <2>4 DEF Worker, Actors
<1>7. ASSUME NEW a \in Actors, Crash(a) PROVE Calm
  BY <1>7 DEF Crash, Calm
<1>8. ASSUME NEW s \in Sessions, Age(s) PROVE Calm
  BY <1>2, <1>8 DEF Age
<1>9. UNCHANGED vars => Calm
  BY <1>2 DEF vars, bounds
<1> QED BY <1>5, <1>6, <1>7, <1>8, <1>9 DEF Next

LEMMA CalmInit == Init => CalmInv
<1> SUFFICES ASSUME Init PROVE TablesCalm /\ ActorsCalm
  BY DEF CalmInv
<1>1. \A s \in Sessions : session[s] = NoRow /\ \A m \in Modules : job[s][m] = "none"
  BY DEF Init
<1>2. TablesCalm
  BY <1>1, FreshCalm DEF TablesCalm, SessionCalm, Begun, Open, Made, NoRow
<1>3. \A a \in Actors : pc[a] = "idle" /\ my[a] = Fresh
  BY DEF Init
<1>4. ActorsCalm
  BY <1>3, PlainPlaces DEF ActorsCalm, HandCalm, Busy, Starting, Asking, Fresh
<1> QED BY <1>2, <1>4

LEMMA CalmNext ==
  TypeOK /\ OrderInv /\ CalmInv /\ [Next]_vars => CalmInv'
<1> SUFFICES ASSUME TypeOK, OrderInv, CalmInv, [Next]_vars, Calm' PROVE TablesCalm' /\ ActorsCalm'
  BY DEF CalmInv
<1>1. TablesCalm /\ ActorsCalm
  BY CalmWas DEF CalmInv
<1>2. ASSUME NEW a \in Actors, CalmStep(a) PROVE TablesCalm' /\ ActorsCalm'
  BY <1>1, <1>2, CalmActors DEF CalmStep
<1>3. CASE UNCHANGED vars
  <2>1. UNCHANGED <<session, job, pc, my>>
    BY <1>3 DEF vars, tables
  <2> QED BY <1>1, <2>1 DEF TablesCalm, SessionCalm, ActorsCalm, Begun, Open
<1>4. ASSUME NEW a \in Actors, Crash(a) PROVE CalmStep(a)
  BY <1>1, <1>4, ReadCalm, ReturnCalm DEF Crash, CalmStep, tables
<1> QED BY <1>1, <1>2, <1>3, <1>4, UserCalm, WorkerCalm, AgeCalm DEF Next, Actors
-----------------------------------------------------------------------------
(* While no lease is lost, a worker holds the row it works on.             *)
Owned == \A w \in Workers : pc[w] # "idle" => Owner(w)

Holds(q, s, m, w) == q[s][m].status = "RUNNING" /\ q[s][m].holder = w

LEMMA WorkerFacts ==
  ASSUME TypeOK, OrderInv, NEW w \in Workers, pc[w] # "idle"
  PROVE  pc[w] \in Busy /\ my[w].sess \in Sessions /\ my[w].mod \in Modules
<1>1. w \in Actors /\ w \notin Users
  BY WorkerIsNoUser
<1>2. pc[w] \in WorkerPCs
  BY <1>1 DEF OrderInv, ActorsTrue, Handling
<1>3. pc[w] \in Busy
  BY <1>2 DEF WorkerPCs, Hooked, Starting, Busy, PCs
<1> QED BY <1>1, <1>3, MyFacts DEF Handling

LEMMA OwnedStays ==
  ASSUME TypeOK, OrderInv, Owned, NEW a \in Actors, NEW l, NEW r, Goto(a, l), Become(a, r),
         \A w \in Workers \ {a}, s \in Sessions, m \in Modules :
           Holds(queue, s, m, w) /\ Working(w, s, m) => Holds(queue', s, m, w),
         a \in Workers /\ l # "idle" => Holds(queue', r.sess, r.mod, a)
  PROVE  Owned'
<1>0. HandlersOK
  BY TypeParts
<1> SUFFICES ASSUME NEW w \in Workers, pc'[w] # "idle" PROVE Holds(queue', my'[w].sess, my'[w].mod, w)
  BY DEF Owned, Owner, Holds
<1>1. w \in Actors
  BY WorkerIsNoUser
<1>2. CASE w = a
  <2>1. pc'[w] = l /\ my'[w] = r
    BY <1>0, <1>1, <1>2 DEF HandlersOK, Goto, Become
  <2> QED BY <1>2, <2>1
<1>3. CASE w # a
  <2>1. pc'[w] = pc[w] /\ my'[w] = my[w]
    BY <1>0, <1>1, <1>3 DEF HandlersOK, Goto, Become
  <2>2. my[w].sess \in Sessions /\ my[w].mod \in Modules /\ Owner(w)
    BY <2>1, WorkerFacts DEF Owned
  <2> QED BY <1>3, <2>1, <2>2 DEF Owner, Holds, Working
<1> QED BY <1>2, <1>3

(* A step that takes no row and changes what is held only in part.         *)
LEMMA OwnedGoesOn ==
  ASSUME TypeOK, OrderInv, Owned, CalmInv, NEW a \in Actors, NEW l, NEW r, Goto(a, l), Become(a, r),
         \A s \in Sessions, m \in Modules :
           /\ queue[s][m].status = "RUNNING" => queue'[s][m].status = "RUNNING"
           /\ queue'[s][m].holder = queue[s][m].holder,
         a \in Workers /\ l # "idle" => pc[a] # "idle" /\ r.sess = my[a].sess /\ r.mod = my[a].mod
  PROVE  Owned'
<1>1. \A w \in Workers, s \in Sessions, m \in Modules : Holds(queue, s, m, w) => Holds(queue', s, m, w)
  BY DEF Holds
<1>2. a \in Workers /\ l # "idle" => Holds(queue', r.sess, r.mod, a)
  <2> SUFFICES ASSUME a \in Workers, l # "idle" PROVE Holds(queue', r.sess, r.mod, a)
    OBVIOUS
  <2>1. Owner(a) /\ my[a].sess \in Sessions /\ my[a].mod \in Modules
    BY WorkerFacts DEF Owned
  <2>2. Holds(queue, my[a].sess, my[a].mod, a)
    BY <2>1 DEF Owner, Holds
  <2> QED BY <1>1, <2>1, <2>2
<1> QED BY <1>1, <1>2, OwnedStays

LEMMA EnqueueRows ==
  ASSUME TypeOK, OrderInv, NEW a \in Actors, Enqueue(a)
  PROVE  /\ \A s \in Sessions, m \in Modules :
              /\ (s # my[a].sess \/ m # my[a].plan) => queue'[s][m] = queue[s][m]
              /\ queue[s][m].status # "NONE" => queue'[s][m].status = queue[s][m].status
              /\ queue'[s][m].holder = queue[s][m].holder
         /\ queue'[my[a].sess][my[a].plan].status # "NONE"
<1> DEFINE s == my[a].sess
           m == my[a].plan
           row == [queue[s][m] EXCEPT !.status = IF @ = "NONE" THEN "PENDING" ELSE @]
<1>0. pc[a] \in Starting
  BY DEF Enqueue, Starting
<1>1. TablesOK /\ s \in Sessions /\ m \in Modules
  BY <1>0, StartingFacts
<1>2. queue[s][m] \in QueueRow /\ queue[s] \in [Modules -> QueueRow]
  BY <1>1 DEF TablesOK
<1>3. row.status # "NONE" /\ row.holder = queue[s][m].holder
      /\ (queue[s][m].status # "NONE" => row.status = queue[s][m].status)
  BY <1>2 DEF QueueRow
<1>4. queue' = [queue EXCEPT ![s] = [queue[s] EXCEPT ![m] = row]]
  BY <1>1, <1>2 DEF Enqueue, TablesOK
<1> HIDE DEF row
<1>5. queue'[s][m] = row
      /\ \A x \in Sessions, n \in Modules : (x # s \/ n # m) => queue'[x][n] = queue[x][n]
  BY <1>1, <1>2, <1>4 DEF TablesOK
<1> HIDE DEF s, m
<1> QED BY <1>1, <1>3, <1>5 DEF s, m

LEMMA CompleteRows ==
  ASSUME TypeOK, OrderInv, Owned, NEW w \in Workers, Complete(w)
  PROVE  /\ \A s \in Sessions, m \in Modules :
              (s # my[w].sess \/ m # my[w].mod) => queue'[s][m] = queue[s][m]
         /\ pc[w] = "complete" /\ my[w].sess \in Sessions /\ my[w].mod \in Modules
         /\ UNCHANGED <<session, job, jobsOld, bounds>> /\ Return(w)
<1> DEFINE s == my[w].sess
           m == my[w].mod
           row == IF my[w].failed /\ queue[s][m].attempts < MaxAttempts
                  THEN [queue[s][m] EXCEPT !.status = "PENDING", !.holder = None] ELSE NoQueue
<1>1. pc[w] = "complete" /\ pc[w] \in Hooked
  BY DEF Complete, Hooked
<1>2. TablesOK /\ s \in Sessions /\ m \in Modules
  BY <1>1, HookedFacts
<1>3. queue[s] \in [Modules -> QueueRow]
  BY <1>2 DEF TablesOK
<1>4. UNCHANGED queue \/ queue' = [queue EXCEPT ![s] = [queue[s] EXCEPT ![m] = row]]
  BY <1>2, <1>3 DEF Complete, TablesOK
<1> HIDE DEF row
<1>5. \A x \in Sessions, n \in Modules : (x # s \/ n # m) => queue'[x][n] = queue[x][n]
  BY <1>2, <1>3, <1>4 DEF TablesOK
<1> QED BY <1>1, <1>2, <1>5 DEF Complete

LEMMA ClaimRows ==
  ASSUME TypeOK, OrderInv, NEW w \in Workers, NEW s \in Sessions, NEW m \in Modules, Claim(w, s, m)
  PROVE  /\ Holds(queue', s, m, w) /\ queue[s][m].status # "NONE"
         /\ \A x \in Sessions, n \in Modules : (x # s \/ n # m) => queue'[x][n] = queue[x][n]
<1> DEFINE n == Min({queue[s][m].attempts + 1, MaxAttempts})
           row == [status |-> "RUNNING", holder |-> w, attempts |-> n]
<1>1. TablesOK
  BY TypeParts
<1>2. queue[s] \in [Modules -> QueueRow] /\ queue[s][m].status # "NONE"
  BY <1>1 DEF TablesOK, Claim
<1>3. queue' = [queue EXCEPT ![s] = [queue[s] EXCEPT ![m] = row]] /\ row.status = "RUNNING"
      /\ row.holder = w
  BY <1>1, <1>2 DEF Claim, TablesOK
<1> HIDE DEF row
<1> QED BY <1>1, <1>2, <1>3 DEF TablesOK, Holds
-----------------------------------------------------------------------------
(* A worker keeps to its row until it returns.                             *)
KeepsToIt(w) ==
  pc'[w] = "idle" \/ (pc[w] # "idle" /\ my'[w].sess = my[w].sess /\ my'[w].mod = my[w].mod)

LEMMA HandsKept ==
  ASSUME HandlersOK, NEW w \in Actors, pc[w] # "idle", NEW r,
         Become(w, r), r.sess = my[w].sess, r.mod = my[w].mod
  PROVE  KeepsToIt(w)
BY DEF HandlersOK, Become, KeepsToIt

LEMMA PlainKept ==
  ASSUME HandlersOK, NEW w \in Actors, pc[w] # "idle",
         \/ UNCHANGED my
         \/ Become(w, [my[w] EXCEPT !.failed = TRUE])
  PROVE  KeepsToIt(w)
<1>1. CASE UNCHANGED my
  BY <1>1 DEF KeepsToIt
<1>2. CASE Become(w, [my[w] EXCEPT !.failed = TRUE])
  <2> DEFINE r == [my[w] EXCEPT !.failed = TRUE]
  <2>1. my[w] \in HeldType
    BY DEF HandlersOK
  <2>2. r.sess = my[w].sess /\ r.mod = my[w].mod
    BY <2>1 DEF HeldType
  <2> HIDE DEF r
  <2>3. Become(w, r)
    BY <1>2 DEF r
  <2> QED BY <2>2, <2>3, HandsKept
<1> QED BY <1>1, <1>2

LEMMA IdleKept ==
  ASSUME HandlersOK, NEW w \in Actors, Return(w)
  PROVE  KeepsToIt(w)
BY DEF HandlersOK, Return, Goto, KeepsToIt

LEMMA CoordinateKept ==
  ASSUME TypeOK, OrderInv, NEW w \in Workers, Coordinate(w)
  PROVE  KeepsToIt(w)
<1>1. w \in Actors /\ w \notin Users /\ HandlersOK
  BY WorkerIsNoUser, TypeParts
<1>2. pc[w] # "idle"
  BY DEF Coordinate, CloseSession, CreateJob, SetPending, ReadStatus, Write, Enqueue
<1>3. CASE CloseSession(w)
  <2>1. my[w].op \in {"reconcile", "advance"}
    BY <1>1, <1>3, MyFacts, SharedPlaces DEF CloseSession, Handling
  <2> QED BY <1>1, <1>2, <1>3, <2>1, PlainKept DEF CloseSession
<1>4. CASE CreateJob(w)
  BY <1>1, <1>2, <1>4, CreateJobHands, HandsKept DEF Alike
<1>5. CASE ReadStatus(w)
  BY <1>1, <1>2, <1>5, ReadStatusHands, HandsKept DEF Alike
<1>6. CASE SetPending(w) \/ Write(w) \/ Enqueue(w)
  BY <1>1, <1>2, <1>6, PlainKept DEF SetPending, Write, Refused, Enqueue, Done
<1> QED BY <1>3, <1>4, <1>5, <1>6 DEF Coordinate

LEMMA WorkerKept ==
  ASSUME TypeOK, OrderInv, NEW w \in Workers, Worker(w),
         \A s \in Sessions, m \in Modules : ~Claim(w, s, m)
  PROVE  KeepsToIt(w)
<1>1. w \in Actors /\ w \notin Users /\ HandlersOK
  BY WorkerIsNoUser, TypeParts
<1>2. CASE Start(w) \/ Gate(w) \/ Hook(w) \/ Stop(w) \/ Process(w) \/ Finish(w) \/ Complete(w)
  <2>1. pc[w] # "idle"
    BY <1>2 DEF Start, Gate, Hook, Stop, Process, Finish, StepWrites, Complete
  <2>2. Return(w) \/ UNCHANGED my \/ Become(w, [my[w] EXCEPT !.failed = TRUE])
    BY <1>2 DEF Start, Gate, Hook, Stop, Process, Finish, StepWrites, Complete
  <2> QED BY <1>1, <2>1, <2>2, IdleKept, PlainKept
<1>3. CASE Reconcile(w) \/ Advance(w)
  <2>1. PICK op \in {"reconcile", "advance"}, l \in {"advance", "complete"} : FindOwning(w, op, l)
    BY <1>3 DEF Reconcile, Advance
  <2>2. pc[w] # "idle"
    BY <2>1 DEF FindOwning
  <2> QED BY <1>1, <2>1, <2>2, FindOwningHands, PlainKept, HandsKept
<1>4. CASE Conclude(w) \/ MoveOn(w)
  <2>1. pc[w] = "facts"
    BY <1>4 DEF Conclude, MoveOn, Decide
  <2>2. Held(w) \in HeldType /\ Held(w).sess = my[w].sess /\ Held(w).mod = my[w].mod
    BY <1>1, <2>1, HeldFacts
  <2>3. ASSUME NEW verdict, Become(w, [Held(w) EXCEPT !.verdict = verdict]) PROVE KeepsToIt(w)
    <3> DEFINE r == [Held(w) EXCEPT !.verdict = verdict]
    <3>1. r.sess = my[w].sess /\ r.mod = my[w].mod
      BY <2>2 DEF HeldType
    <3>2. Become(w, r)
      BY <2>3
    <3> HIDE DEF r
    <3> QED BY <1>1, <2>1, <3>1, <3>2, HandsKept
  <2>4. ASSUME NEW plan, Become(w, [Held(w) EXCEPT !.plan = plan]) PROVE KeepsToIt(w)
    <3> DEFINE r == [Held(w) EXCEPT !.plan = plan]
    <3>1. r.sess = my[w].sess /\ r.mod = my[w].mod
      BY <2>2 DEF HeldType
    <3>2. Become(w, r)
      BY <2>4
    <3> HIDE DEF r
    <3> QED BY <1>1, <2>1, <3>1, <3>2, HandsKept
  <2>5. UNCHANGED my => KeepsToIt(w)
    BY <1>1, <2>1, PlainKept
  <2>6. Bootstrap(w) => KeepsToIt(w)
    BY <2>4 DEF Bootstrap
  <2>7. CASE Conclude(w)
    BY <2>3, <2>5, <2>7 DEF Conclude, Settle
  <2>8. CASE MoveOn(w)
    BY <2>3, <2>5, <2>6, <2>8 DEF MoveOn, Settle
  <2> QED BY <1>4, <2>7, <2>8
<1> QED BY <1>2, <1>3, <1>4, CoordinateKept DEF Worker

-----------------------------------------------------------------------------
(* Whose rows a step leaves alone.                                         *)
LEMMA RowsStay ==
  ASSUME TypeOK, OrderInv, Owned, NEW a \in Actors, NEW l, NEW r, Goto(a, l), Become(a, r),
         a \in Users \/ KeepsToIt(a),
         \A s \in Sessions, m \in Modules :
           /\ queue[s][m].status = "RUNNING" => queue'[s][m].status = "RUNNING"
           /\ queue'[s][m].holder = queue[s][m].holder
  PROVE  Owned'
<1>1. \A w \in Workers, s \in Sessions, m \in Modules : Holds(queue, s, m, w) => Holds(queue', s, m, w)
  BY DEF Holds
<1>2. ASSUME a \in Workers, l # "idle" PROVE Holds(queue', r.sess, r.mod, a)
  <2>1. pc'[a] = l /\ my'[a] = r
    BY TypeParts DEF HandlersOK, Goto, Become
  <2>2. pc[a] # "idle" /\ r.sess = my[a].sess /\ r.mod = my[a].mod
    BY <1>2, <2>1, BoundAssumption DEF KeepsToIt
  <2>3. Owner(a) /\ my[a].sess \in Sessions /\ my[a].mod \in Modules
    BY <1>2, <2>2, WorkerFacts DEF Owned
  <2> QED BY <1>1, <1>2, <2>2, <2>3 DEF Owner, Holds
<1> QED BY <1>1, <1>2, OwnedStays

LEMMA UserRows ==
  ASSUME TypeOK, OrderInv, TablesCalm, ActorsCalm, NEW u \in Users, User(u)
  PROVE  UNCHANGED queue \/ Enqueue(u)
BY NothingAsked DEF User, Create, Read, Request, Find, Insert, Look, Begin, Decide, tables, Coordinate,
   CloseSession, CreateJob, SetPending, ReadStatus, Write

LEMMA WorkerRows ==
  ASSUME NEW w \in Workers, Worker(w)
  PROVE  \/ UNCHANGED queue \/ Enqueue(w) \/ Complete(w)
         \/ \E s \in Sessions, m \in Modules : Claim(w, s, m)
BY DEF Worker, Start, Gate, Stop, Process, Finish, StepWrites, Hook, Reconcile, Advance, FindOwning,
   Conclude, MoveOn, Decide, tables, Coordinate, CloseSession, CreateJob, SetPending, ReadStatus, Write

LEMMA OwnedInit == Init => Owned
BY WorkerIsNoUser DEF Init, Owned

LEMMA OwnedNext ==
  TypeOK /\ OrderInv /\ CalmInv /\ (Calm => Owned) /\ [Next]_vars => (Calm => Owned)'
<1> SUFFICES ASSUME TypeOK, OrderInv, CalmInv, Calm => Owned, [Next]_vars, Calm' PROVE Owned'
  OBVIOUS
<1>1. TablesCalm /\ ActorsCalm /\ Calm /\ Owned
  BY CalmWas DEF CalmInv
<1>2. ASSUME NEW a \in Actors, CalmTurn(a), a \in Users \/ KeepsToIt(a), UNCHANGED queue \/ Enqueue(a)
      PROVE  Owned'
  <2>1. PICK l \in PCs, r \in HeldType : Goto(a, l) /\ Become(a, r)
    BY <1>2 DEF CalmTurn
  <2>2. \A s \in Sessions, m \in Modules :
          /\ queue[s][m].status = "RUNNING" => queue'[s][m].status = "RUNNING"
          /\ queue'[s][m].holder = queue[s][m].holder
    <3>1. CASE UNCHANGED queue
      BY <3>1
    <3>2. CASE Enqueue(a)
      BY <3>2, EnqueueRows
    <3> QED BY <1>2, <3>1, <3>2
  <2> QED BY <1>1, <1>2, <2>1, <2>2, RowsStay
<1>3. ASSUME NEW u \in Users, User(u) PROVE Owned'
  BY <1>1, <1>2, <1>3, UserCalm, UserRows DEF CalmStep, Actors
<1>4. ASSUME NEW w \in Workers, Worker(w) PROVE Owned'
  <2>0. w \in Actors
    BY WorkerIsNoUser
  <2>1. CASE Complete(w)
    <3>1. \A s \in Sessions, m \in Modules :
              (s # my[w].sess \/ m # my[w].mod) => queue'[s][m] = queue[s][m]
      BY <1>1, <2>1, CompleteRows
    <3>2. Goto(w, "idle") /\ Become(w, Fresh) /\ Owner(w) /\ my[w].sess \in Sessions
          /\ my[w].mod \in Modules
      BY <1>1, <2>1, CompleteRows DEF Return, Owned
    <3>3. \A x \in Workers \ {w}, s \in Sessions, m \in Modules :
             Holds(queue, s, m, x) => Holds(queue', s, m, x)
      BY <3>1, <3>2 DEF Holds, Owner
    <3> QED BY <1>1, <2>0, <3>2, <3>3, OwnedStays
  <2>2. ASSUME NEW s \in Sessions, NEW m \in Modules, Claim(w, s, m) PROVE Owned'
    <3> DEFINE r == [Fresh EXCEPT !.op = "step", !.sess = s, !.mod = m]
    <3>1. Goto(w, "start") /\ Become(w, r) /\ r.sess = s /\ r.mod = m
      BY <2>2, FreshType DEF Claim, HeldType, Fresh
    <3> HIDE DEF r
    <3>2. /\ Holds(queue', s, m, w)
          /\ \A x \in Sessions, n \in Modules : (x # s \/ n # m) => queue'[x][n] = queue[x][n]
      BY <2>2, ClaimRows
    <3>3. overtaken' = 0 /\ overtaken = 0
      BY <1>1 DEF Calm
    <3>4. queue[s][m].status = "PENDING" \/ ~Working(queue[s][m].holder, s, m)
      BY <2>2, <3>3 DEF Claim
    <3>5. \A x \in Workers \ {w}, y \in Sessions, n \in Modules :
             Holds(queue, y, n, x) /\ Working(x, y, n) => Holds(queue', y, n, x)
      BY <3>2, <3>4 DEF Holds
    <3> QED BY <1>1, <2>0, <3>1, <3>2, <3>5, OwnedStays
  <2>3. ASSUME UNCHANGED queue \/ Enqueue(w), \A s \in Sessions, m \in Modules : ~Claim(w, s, m)
        PROVE  Owned'
    BY <1>1, <1>2, <1>4, <2>0, <2>3, WorkerKept, WorkerCalm DEF CalmStep
  <2> QED BY <1>4, <2>1, <2>2, <2>3, WorkerRows
<1>5. ASSUME NEW a \in Actors, Crash(a) PROVE Owned'
  <2>1. CalmTurn(a) /\ KeepsToIt(a) /\ UNCHANGED queue
    BY <1>5, ReturnCalm, IdleKept, TypeParts DEF Crash, tables
  <2> QED BY <1>2, <2>1
<1>6. (\E s \in Sessions : Age(s)) \/ UNCHANGED vars => Owned'
  BY <1>1 DEF Age, vars, tables, Owned, Owner
<1> QED BY <1>3, <1>4, <1>5, <1>6 DEF Next
-----------------------------------------------------------------------------
(* The chain of a session: when a module's queue row goes, a later module  *)
(* has one or is imported, or the session is closed.  What its handlers    *)
(* hold keeps it so, though it may be older than the tables.               *)
Fit(s) == Calm /\ s \notin doubled /\ \A m \in Modules : job[s][m] # "failed"

Linked(s)    == Known(session[s].cards)
Live(s, m)   == queue[s][m].status # "NONE"
Passed(s, m) == \/ ~Open(s)
                \/ \E n \in Modules : Earlier(n, m) /\ (Imported(job, s, n) \/ Live(s, n))
AtWork(s, m) == job[s][m] = "processing" => Live(s, m)

On(a, s)      == pc[a] \in Busy /\ my[a].sess = s
Starts(l, r)  == l \in Starting \/ (l = "facts" /\ r.op \in {"begin", "advance"})
Starter(a, s) == Starts(pc[a], my[a]) /\ my[a].sess = s
Quiet(s)      == \A a \in Actors : ~Starter(a, s)
Abandons(l, r) == l = "close" /\ r.verdict # "completed"
AllDone(s)    == \A m \in Modules : m \in Linked(s) /\ Imported(job, s, m)
Past == Busy \ {"start", "gate", "stop", "process", "finish"}

Handles(s, a, l, r) ==
  /\ a \notin Users /\ l \in Past => Imported(job, s, r.mod)
  /\ a \notin Users /\ l \in Starting => Earlier(r.plan, r.mod)
  /\ l = "complete" => Passed(s, r.mod)
  /\ l \in {"facts", "close"} => Known(r.row.cards) \subseteq Linked(s)
  /\ l = "enqueue" => r.plan \in Linked(s)
  /\ l \in {"readStatus", "write"} => AtWork(s, r.plan) /\ (r.plan \in Linked(s) \/ ~jobsOld[s])
  /\ l = "write" /\ Open(s) => r.row.status = "IN_PROGRESS"
  /\ l = "facts" /\ r.row.old /\ jobsOld[s] => Linked(s) \subseteq Known(r.row.cards)
  /\ Abandons(l, r) => /\ Linked(s) \subseteq Known(r.row.cards)
                       /\ \A m \in Modules : Live(s, m) => a \notin Users /\ m = r.mod
                       /\ a \notin Users => r.op = "reconcile"

Unbroken(s) ==
  \A m \in Modules : /\ Imported(job, s, m) \/ Live(s, m) => m \in Linked(s)
                     /\ m \in Linked(s) => AtWork(s, m)
                     /\ Imported(job, s, m) /\ ~Live(s, m) => Passed(s, m)

Hands(s) ==
  \A a \in Actors : On(a, s) =>
    /\ Handles(s, a, pc[a], my[a])
    /\ Abandons(pc[a], my[a]) => Quiet(s)
    /\ a \in Users /\ Starter(a, s) =>
         ~session[s].old /\ \A b \in Actors : On(b, s) => ~my[b].row.old

Chain(s) == Unbroken(s) /\ Hands(s) /\ (Begun(s) /\ ~Open(s) => AllDone(s) \/ Quiet(s))

ChainInv == \A s \in Sessions : Fit(s) => Chain(s)

(* What a step of an actor does to a session's tables, and what it turns   *)
(* to.                                                                     *)
TablesKeep(s) ==
  /\ Linked(s) \subseteq Linked(s)'
  /\ Linked(s)' = Linked(s) \/ ~jobsOld'[s]
  /\ (Linked(s)' = Linked(s) /\ \A m \in Modules : Live(s, m)' => Live(s, m)) \/ ~Quiet(s)
  /\ \A m \in Linked(s)' : m \in Linked(s) \/ AtWork(s, m)'
  /\ \A m \in Modules :
       /\ Imported(job, s, m) => Imported(job', s, m)
       /\ Imported(job', s, m) \/ Live(s, m)' => Imported(job, s, m) \/ Live(s, m) \/ m \in Linked(s)
       /\ Passed(s, m) => Passed(s, m)'
       /\ Made(job, s, m) /\ AtWork(s, m) => AtWork(s, m)'
       /\ Imported(job', s, m) /\ ~Live(s, m)' => (Imported(job, s, m) /\ ~Live(s, m)) \/ Passed(s, m)
  /\ jobsOld'[s] => jobsOld[s]
  /\ Open(s)' => Open(s)
  /\ session'[s].old => session[s].old
  /\ Begun(s)' => Begun(s)

ChainTurn(s, a) ==
  \E l \in PCs, r \in HeldType :
    /\ Goto(a, l) /\ Become(a, r)
    /\ Open(s) /\ ~Open(s)' => AllDone(s)' \/ (Quiet(s) /\ ~Starts(l, r))
    /\ l \in Busy /\ r.sess = s =>
         /\ Handles(s, a, l, r)'
         /\ Starts(l, r) => Starter(a, s) \/ (a \in Workers /\ On(a, s) /\ Open(s))
         /\ r.row.old => (On(a, s) /\ my[a].row.old) \/ session[s].old
         /\ Abandons(l, r) => Quiet(s)

ChainStep(s, a) == TablesKeep(s) /\ ChainTurn(s, a)

-----------------------------------------------------------------------------
LEMMA StartsBusy == ASSUME NEW l, NEW r, Starts(l, r) PROVE l \in Busy
BY PlainPlaces, SharedPlaces DEF Starts

LEMMA UnbrokenStays ==
  ASSUME OrderInv, NEW s \in Sessions, Unbroken(s), TablesKeep(s)
  PROVE  Unbroken(s)'
<1>1. \A m \in Linked(s) : m \in Modules /\ Made(job, s, m)
  BY DEF Linked, Known, OrderInv, SessionsTrue, SessionTrue, RowTrue, CardsTrue
<1> SUFFICES ASSUME NEW m \in Modules
             PROVE  /\ Imported(job', s, m) \/ Live(s, m)' => m \in Linked(s)'
                    /\ m \in Linked(s)' => AtWork(s, m)'
                    /\ Imported(job', s, m) /\ ~Live(s, m)' => Passed(s, m)'
  BY DEF Unbroken
<1>2. /\ Imported(job, s, m) \/ Live(s, m) => m \in Linked(s)
      /\ m \in Linked(s) => AtWork(s, m)
      /\ Imported(job, s, m) /\ ~Live(s, m) => Passed(s, m)
  BY DEF Unbroken
<1> QED BY <1>1, <1>2 DEF TablesKeep

LEMMA HandlesStay ==
  ASSUME OrderInv, NEW s \in Sessions, TablesKeep(s), NEW a \in Actors, NEW l, NEW r \in HeldType,
         Handling(job, a, l, r), l \in Busy, r.sess = s, Handles(s, a, l, r),
         Abandons(l, r) => Quiet(s)
  PROVE  Handles(s, a, l, r)'
<1>1. /\ a \notin Users => r.mod \in Modules
      /\ l \in {"readStatus", "write"} => r.plan \in Modules /\ Made(job, s, r.plan)
      /\ l = "complete" => a \notin Users
  BY DEF Handling, Starting, UserPCs, Hooked
<1>2. a \notin Users /\ l \in Past => Imported(job', s, r.mod)
  BY <1>1 DEF Handles, TablesKeep
<1>3. l = "complete" => Passed(s, r.mod)'
  BY <1>1 DEF Handles, TablesKeep
<1>4. /\ l \in {"facts", "close"} => Known(r.row.cards) \subseteq Linked(s)'
      /\ l = "enqueue" => r.plan \in Linked(s)'
  BY DEF Handles, TablesKeep
<1>5. l \in {"readStatus", "write"} => AtWork(s, r.plan)' /\ (r.plan \in Linked(s)' \/ ~jobsOld'[s])
  BY <1>1 DEF Handles, TablesKeep
<1>6. /\ l = "write" /\ Open(s)' => r.row.status = "IN_PROGRESS"
      /\ l = "facts" /\ r.row.old /\ jobsOld'[s] => Linked(s)' \subseteq Known(r.row.cards)
  BY DEF Handles, TablesKeep
<1>7. Abandons(l, r) => /\ Linked(s)' \subseteq Known(r.row.cards)
                        /\ \A m \in Modules : Live(s, m)' => a \notin Users /\ m = r.mod
                        /\ a \notin Users => r.op = "reconcile"
  BY DEF Handles, TablesKeep
<1>8. a \notin Users /\ l \in Starting => Earlier(r.plan, r.mod)
  BY DEF Handles
<1> QED BY <1>2, <1>3, <1>4, <1>5, <1>6, <1>7, <1>8 DEF Handles, Earlier

(* One row has one holder.                                                 *)
LEMMA OneHolder ==
  ASSUME TypeOK, OrderInv, Owned, NEW s \in Sessions, NEW a \in Workers, NEW b \in Workers,
         On(a, s), On(b, s), my[a].mod = my[b].mod
  PROVE  a = b
BY PlainPlaces DEF Owned, Owner, On

LEMMA WorkerLive ==
  ASSUME TypeOK, OrderInv, Owned, NEW s \in Sessions, NEW w \in Workers, On(w, s)
  PROVE  my[w].mod \in Modules /\ Live(s, my[w].mod)
BY PlainPlaces, WorkerFacts DEF Owned, Owner, On, Live

LEMMA ChainStays ==
  ASSUME TypeOK, OrderInv, Owned, NEW s \in Sessions, Chain(s), NEW a \in Actors, ChainStep(s, a)
  PROVE  Chain(s)'
<1>1. PICK l \in PCs, r \in HeldType :
        /\ Goto(a, l) /\ Become(a, r)
        /\ Open(s) /\ ~Open(s)' => AllDone(s)' \/ (Quiet(s) /\ ~Starts(l, r))
        /\ l \in Busy /\ r.sess = s =>
             /\ Handles(s, a, l, r)'
             /\ Starts(l, r) => Starter(a, s) \/ (a \in Workers /\ On(a, s) /\ Open(s))
             /\ r.row.old => (On(a, s) /\ my[a].row.old) \/ session[s].old
             /\ Abandons(l, r) => Quiet(s)
  BY DEF ChainStep, ChainTurn
<1>2. TablesKeep(s) /\ HandlersOK /\ ActorsTrue
  BY TypeParts DEF ChainStep, OrderInv
<1>3. pc'[a] = l /\ my'[a] = r /\ \A b \in Actors : b # a => pc'[b] = pc[b] /\ my'[b] = my[b]
  BY <1>1, <1>2 DEF HandlersOK, Goto, Become
<1>4. Unbroken(s)'
  BY <1>2, UnbrokenStays DEF Chain
<1>5. ASSUME Quiet(s), Starts(l, r) => r.sess # s PROVE Quiet(s)'
  BY <1>3, <1>5 DEF Quiet, Starter
<1>6. ASSUME Begun(s)', ~Open(s)' PROVE AllDone(s)' \/ Quiet(s)'
  <2>1. CASE Open(s)
    BY <1>1, <1>5, <1>6, <2>1
  <2>2. CASE ~Open(s)
    <3>1. Begun(s) /\ (AllDone(s) \/ Quiet(s))
      BY <1>2, <1>6, <2>2 DEF TablesKeep, Chain
    <3>2. AllDone(s) => AllDone(s)'
      BY <1>2 DEF TablesKeep, AllDone
    <3>3. Quiet(s) => Quiet(s)'
      BY <1>1, <1>5, <2>2, StartsBusy DEF Quiet
    <3> QED BY <3>1, <3>2, <3>3
  <2> QED BY <2>1, <2>2
<1>7. ASSUME NEW b \in Actors, On(b, s)'
      PROVE  Handles(s, b, pc[b], my[b])' /\ (Abandons(pc'[b], my'[b]) => Quiet(s)')
  <2>1. CASE b = a
    <3>1. Starts(l, r) => ~Abandons(l, r)
      BY PlainPlaces DEF Starts, Abandons
    <3> QED BY <1>1, <1>3, <1>5, <1>7, <2>1, <3>1 DEF On
  <2>2. CASE b # a
    <3>1. On(b, s) /\ pc'[b] = pc[b] /\ my'[b] = my[b]
      BY <1>3, <1>7, <2>2 DEF On
    <3>2. Handles(s, b, pc[b], my[b]) /\ (Abandons(pc[b], my[b]) => Quiet(s))
      BY <3>1 DEF Chain, Hands
    <3>3. Handles(s, b, pc[b], my[b])'
      <4>1. PICK x \in PCs, y \in HeldType : x = pc[b] /\ y = my[b]
        BY <1>2 DEF HandlersOK
      <4>2. Handling(job, b, x, y) /\ x \in Busy /\ y.sess = s
            /\ Handles(s, b, x, y) /\ (Abandons(x, y) => Quiet(s))
        BY <1>2, <3>1, <3>2, <4>1 DEF ActorsTrue, On
      <4>3. Handles(s, b, x, y)'
        BY <1>2, <4>2, HandlesStay
      <4>4. x = pc'[b] /\ y = my'[b]
        BY <3>1, <4>1
      <4> QED BY <4>3, <4>4
    <3>4. ASSUME Abandons(pc[b], my[b]) PROVE Quiet(s)'
      <4>1. Quiet(s) /\ \A m \in Modules : Live(s, m) => b \notin Users /\ m = my[b].mod
        BY <3>2, <3>4 DEF Handles
      <4>2. ASSUME Starts(l, r), r.sess = s PROVE FALSE
        <5>1. a \in Workers /\ On(a, s)
          BY <1>1, <4>1, <4>2, StartsBusy DEF Quiet
        <5>2. b \in Workers /\ my[a].mod = my[b].mod
          BY <4>1, <5>1, WorkerLive DEF Actors
        <5> QED BY <2>2, <3>1, <5>1, <5>2, OneHolder
      <4> QED BY <1>5, <4>1, <4>2
    <3> QED BY <3>1, <3>3, <3>4
  <2> QED BY <2>1, <2>2
<1>8. ASSUME NEW b \in Users, Starter(b, s)'
      PROVE  ~session'[s].old /\ \A c \in Actors : On(c, s)' => ~my'[c].row.old
  <2>1. b \in Actors /\ b \notin Workers
    BY BoundAssumption DEF Actors
  <2>2. Starter(b, s)
    BY <1>1, <1>3, <1>8, <2>1, StartsBusy DEF Starter
  <2>3. On(b, s)
    BY <2>2, StartsBusy DEF Starter, On
  <2>4. ~session[s].old /\ \A c \in Actors : On(c, s) => ~my[c].row.old
    BY <2>1, <2>2, <2>3 DEF Chain, Hands
  <2>5. ASSUME NEW c \in Actors, On(c, s)' PROVE ~my'[c].row.old
    BY <1>1, <1>3, <2>4, <2>5 DEF On
  <2> QED BY <1>2, <2>4, <2>5 DEF TablesKeep
<1>9. Hands(s)'
  BY <1>7, <1>8 DEF Hands
<1> QED BY <1>4, <1>6, <1>9 DEF Chain
-----------------------------------------------------------------------------
(* A session whose tables stay, and steps that leave it alone.             *)
SameTables(s) ==
  /\ session'[s] = session[s] /\ job'[s] = job[s] /\ jobsOld'[s] = jobsOld[s]
  /\ \A m \in Modules : (Live(s, m)' <=> Live(s, m))

LEMMA SameTablesKeep ==
  ASSUME NEW s \in Sessions, SameTables(s)
  PROVE  TablesKeep(s) /\ (Open(s)' <=> Open(s))
<1>1. /\ Linked(s)' = Linked(s) /\ (Open(s)' <=> Open(s)) /\ (Begun(s)' <=> Begun(s))
      /\ session'[s].old = session[s].old /\ jobsOld'[s] = jobsOld[s]
  BY DEF SameTables, Linked, Open, Begun
<1>2. \A m \in Modules : /\ (Imported(job', s, m) <=> Imported(job, s, m))
                         /\ (Live(s, m)' <=> Live(s, m)) /\ (AtWork(s, m)' <=> AtWork(s, m))
  BY DEF SameTables, Imported, AtWork
<1>3. \A m \in Modules : Passed(s, m) => Passed(s, m)'
  BY <1>1, <1>2 DEF Passed, Imported
<1> QED BY <1>1, <1>2, <1>3 DEF TablesKeep, Linked, Known

LEMMA Elsewhere ==
  ASSUME NEW s \in Sessions, SameTables(s), NEW a \in Actors, NEW l \in PCs, NEW r \in HeldType,
         Goto(a, l), Become(a, r), l \notin Busy \/ r.sess # s
  PROVE  ChainStep(s, a)
BY SameTablesKeep DEF ChainStep, ChainTurn

LEMMA ReturnChain ==
  ASSUME NEW s \in Sessions, SameTables(s), NEW a \in Actors, Return(a)
  PROVE  ChainStep(s, a)
BY Elsewhere, FreshType, PlainPlaces DEF Return, Plain

LEMMA TablesSame ==
  ASSUME UNCHANGED tables
  PROVE  \A s \in Sessions : SameTables(s)
BY DEF SameTables, tables, Live

(* A session is read: what is held is what it is.                          *)
LEMMA TakesUpChain ==
  ASSUME NEW s \in Sessions, UNCHANGED tables, NEW a \in Actors, NEW r \in HeldType,
         Goto(a, "facts"), Become(a, r), r.sess = s, r.row = session[s],
         a \notin Users => Imported(job, s, r.mod),
         r.op \notin {"begin", "advance"} \/ (a \in Workers /\ On(a, s) /\ Open(s))
  PROVE  ChainStep(s, a)
<1>1. TablesKeep(s) /\ (Open(s)' <=> Open(s)) /\ UNCHANGED <<session, job, jobsOld, queue>>
  BY TablesSame, SameTablesKeep DEF tables
<1>2. Known(r.row.cards) = Linked(s)' /\ (a \notin Users => Imported(job', s, r.mod))
  BY <1>1 DEF Linked
<1>3. Handles(s, a, "facts", r)'
  BY <1>2, PlainPlaces DEF Handles, Abandons
<1>4. Starts("facts", r) => a \in Workers /\ On(a, s) /\ Open(s)
  BY PlainPlaces DEF Starts
<1>5. r.row.old => session[s].old
  OBVIOUS
<1> QED BY <1>1, <1>3, <1>4, <1>5, PlainPlaces DEF ChainStep, ChainTurn, Abandons

(* The users' steps but those of a start.                                  *)
LEMMA RequestChain ==
  ASSUME TypeOK, OrderInv, ActorsCalm, NEW u \in Users, NEW s \in Sessions,
         Create(u) \/ Find(u) \/ \E kind \in {"poll", "cancel", "retry"}, x \in Sessions : Read(u, kind, x)
  PROVE  ChainStep(s, u)
<1>0. u \in Actors /\ TablesOK /\ HandlersOK /\ UNCHANGED tables /\ SameTables(s) /\ my[u] \in HeldType
  BY TablesSame, TypeParts DEF Create, Find, Read, Request, Actors, HandlersOK
<1>1. CASE Create(u)
  <2>1. PICK r \in HeldType : Become(u, r)
    BY <1>1, FreshType DEF Create, HeldType, Ops
  <2> QED BY <1>0, <1>1, <2>1, Elsewhere, PlainPlaces DEF Create, Plain
<1>2. ASSUME NEW r \in HeldType, NEW x \in Sessions, Goto(u, "facts"), Become(u, r), r.sess = x,
             r.row = session[x], r.op \notin {"begin", "advance"}
      PROVE  ChainStep(s, u)
  BY <1>0, <1>2, Elsewhere, TakesUpChain, PlainPlaces
<1>3. ASSUME NEW kind \in {"poll", "cancel", "retry"}, NEW x \in Sessions, Read(u, kind, x)
      PROVE  ChainStep(s, u)
  <2> DEFINE r == [Fresh EXCEPT !.op = kind, !.sess = x, !.row = session[x]]
  <2>1. r \in HeldType /\ r.op = kind /\ r.sess = x /\ r.row = session[x]
    BY <1>0, FreshType DEF HeldType, Ops, TablesOK
  <2>2. Goto(u, "facts") /\ Become(u, r)
    BY <1>3 DEF Read
  <2> HIDE DEF r
  <2> QED BY <1>2, <2>1, <2>2
<1>4. ASSUME Find(u), NEW x \in Sessions, Goto(u, "facts"),
             Become(u, [my[u] EXCEPT !.sess = x, !.row = session[x]])
      PROVE  ChainStep(s, u)
  <2> DEFINE r == [my[u] EXCEPT !.sess = x, !.row = session[x]]
  <2>1. r \in HeldType /\ r.op = my[u].op /\ r.sess = x /\ r.row = session[x]
    BY <1>0 DEF HeldType, TablesOK
  <2>2. Become(u, r)
    BY <1>4
  <2> HIDE DEF r
  <2>3. my[u].op \in {"create", "poll"}
    BY <1>0, <1>4 DEF Find, ActorsCalm, HandCalm
  <2> QED BY <1>2, <1>4, <2>1, <2>2, <2>3
<1>5. ASSUME Goto(u, "insert"), UNCHANGED my PROVE ChainStep(s, u)
  <2>1. Become(u, my[u])
    BY <1>0, <1>5 DEF Become, HandlersOK
  <2> QED BY <1>0, <1>5, <2>1, Elsewhere, PlainPlaces DEF Plain
<1>6. CASE Find(u)
  BY <1>0, <1>4, <1>5, <1>6, ReturnChain DEF Find
<1> QED BY <1>1, <1>3, <1>6
-----------------------------------------------------------------------------
LEMMA NewSessionChain ==
  ASSUME TypeOK, OrderInv, TablesCalm, ActorsCalm, NEW u \in Users, NEW s \in Sessions, ~Begun(s),
         WriteSession(s, "IN_PROGRESS", "running", AllReady), UNCHANGED <<job, queue, jobsOld>>,
         NEW r \in HeldType, r.sess = s, r.row = session'[s], Goto(u, "facts"), Become(u, r)
  PROVE  Chain(s)'
<1>1. /\ TablesOK /\ HandlersOK /\ u \in Actors
      /\ pc'[u] = "facts" /\ my'[u] = r /\ \A b \in Actors : b # u => pc'[b] = pc[b] /\ my'[b] = my[b]
  BY TypeParts DEF HandlersOK, Goto, Become, Actors
<1> DEFINE row == [status |-> "IN_PROGRESS", state |-> "running", cards |-> AllReady, old |-> FALSE]
<1>2. session'[s] = row /\ row.status = "IN_PROGRESS" /\ row.cards = AllReady /\ ~row.old
  BY <1>1 DEF WriteSession, TablesOK
<1> HIDE DEF row
<1>3. \A m \in Modules : ~Made(job, s, m) /\ ~Live(s, m)
  BY DEF TablesCalm, SessionCalm, OrderInv, SessionsTrue, SessionTrue, Live
<1>4. \A m \in Modules : ~Imported(job', s, m) /\ ~Live(s, m)' /\ m \notin Linked(s)'
  BY <1>2, <1>3 DEF Made, Imported, Live, Linked, Known, AllReady
<1>5. Unbroken(s)'
  BY <1>4 DEF Unbroken
<1>6. \A b \in Actors : On(b, s)' => b = u
  BY <1>1 DEF On, ActorsCalm
<1>7. Known(r.row.cards) = Linked(s)' /\ ~r.row.old
  BY <1>2 DEF Linked
<1>8. Handles(s, u, "facts", r)'
  BY <1>1, <1>7, PlainPlaces DEF Handles, Abandons
<1>9. Hands(s)'
  <2> SUFFICES ASSUME NEW b \in Actors, On(b, s)'
               PROVE  /\ Handles(s, b, pc[b], my[b])'
                      /\ ~Abandons(pc'[b], my'[b])
                      /\ ~session'[s].old /\ \A c \in Actors : On(c, s)' => ~my'[c].row.old
    BY DEF Hands
  <2> QED BY <1>1, <1>2, <1>6, <1>7, <1>8 DEF Abandons
<1>10. Open(s)'
  BY <1>2 DEF Open
<1> QED BY <1>5, <1>9, <1>10 DEF Chain

LEMMA InsertChain ==
  ASSUME TypeOK, OrderInv, TablesCalm, ActorsCalm, Owned, NEW u \in Users, Insert(u),
         NEW s \in Sessions, Chain(s)
  PROVE  Chain(s)'
<1>0. u \in Actors /\ TablesOK /\ UNCHANGED <<job, queue, jobsOld>>
  BY TypeParts DEF Actors, Insert
<1>1. UNCHANGED session => SameTables(s)
  BY <1>0, TablesSame DEF tables
<1>2. CASE UNCHANGED session /\ Goto(u, "find") /\ Become(u, [Fresh EXCEPT !.op = "poll"])
  <2>1. PICK r \in HeldType : Become(u, r)
    BY <1>2, FreshType DEF HeldType, Ops
  <2> QED BY <1>0, <1>1, <1>2, <2>1, Elsewhere, ChainStays, PlainPlaces DEF Plain
<1>3. CASE UNCHANGED session /\ Return(u)
  BY <1>0, <1>1, <1>3, ReturnChain, ChainStays
<1>4. ASSUME NEW x \in Sessions, session[x].status = "NONE",
             WriteSession(x, "IN_PROGRESS", "running", AllReady), Goto(u, "facts"),
             Become(u, [Fresh EXCEPT !.op = "begin", !.sess = x, !.row = session'[x]])
      PROVE  Chain(s)'
  <2> DEFINE r == [Fresh EXCEPT !.op = "begin", !.sess = x, !.row = session'[x]]
  <2>1. session'[x] \in Rows /\ \A y \in Sessions : y # x => session'[y] = session[y]
    BY <1>0, <1>4, FreshType, WriteSessionFacts
  <2>2. r \in HeldType /\ r.sess = x /\ r.row = session'[x]
    BY <2>1, FreshType DEF HeldType, Ops
  <2>3. Become(u, r)
    BY <1>4
  <2> HIDE DEF r
  <2>4. CASE s = x
    BY <1>0, <1>4, <2>2, <2>3, <2>4, NewSessionChain DEF Begun
  <2>5. CASE s # x
    <3>1. SameTables(s)
      BY <1>0, <2>1, <2>5 DEF SameTables, Live
    <3> QED BY <1>0, <1>4, <2>2, <2>3, <2>5, <3>1, Elsewhere, ChainStays, PlainPlaces
  <2> QED BY <2>4, <2>5
<1> QED BY <1>2, <1>3, <1>4 DEF Insert

-----------------------------------------------------------------------------
(* What is seen of a session that went well.                               *)
LEMMA InOrder ==
  ASSUME NEW m \in Modules, NEW n \in Modules, m # n
  PROVE  Earlier(m, n) \/ Earlier(n, m)
<1>1. PICK i, k \in DOMAIN Roster : Roster[i] = m /\ Roster[k] = n
  BY RosterFacts
<1>2. i \in Nat /\ k \in Nat /\ i # k
  BY <1>1, RosterFacts
<1> QED BY <1>1, <1>2 DEF Earlier

LEMMA SeenImported ==
  ASSUME TypeOK, OrderInv, NEW a \in Actors, pc[a] = "facts", NEW m \in Known(my[a].row.cards),
         Imported(job, my[a].sess, m)
  PROVE  Seen(a)[m].phase = "completed"
<1> DEFINE s == my[a].sess  cards == my[a].row.cards
<1>1. m \in Modules /\ cards \in Cards
  BY PlainPlaces, MyFacts DEF Known
<1>2. cards[m] \in [phase : Phases, job : BOOLEAN]
  BY <1>1 DEF Cards
<1>3. Seen(a)[m] = [cards[m] EXCEPT !.phase = PhaseOf(job[s][m])]
  BY <1>1 DEF Seen, Hydrate, Imported, Terminal
<1> QED BY <1>2, <1>3 DEF Imported, PhaseOf

LEMMA FactsHeld ==
  ASSUME TypeOK, OrderInv, TablesCalm, ActorsCalm, NEW a \in Actors, pc[a] = "facts",
         NEW s \in Sessions, s = my[a].sess, Chain(s)
  PROVE  /\ On(a, s) /\ Handles(s, a, "facts", my[a]) /\ Known(my[a].row.cards) \subseteq Linked(s)
         /\ a \notin Users => /\ my[a].mod \in Modules /\ Imported(job, s, my[a].mod)
                              /\ my[a].mod \in Known(my[a].row.cards) /\ my[a].row.state = "running"
<1>1. pc[a] \in Busy
  BY PlainPlaces
<1>2. On(a, s) /\ Handles(s, a, "facts", my[a]) /\ HandCalm(job, a, "facts", my[a])
      /\ Handling(job, a, "facts", my[a])
  BY <1>1, CalmFacts, MyFacts DEF On, Chain, Hands
<1>3. "facts" \in Past
  BY PlainPlaces DEF Past
<1> QED BY <1>1, <1>2, <1>3 DEF Handles, HandCalm, Known, Handling

(* A module that is planned is later than the one that ended.              *)
LEMMA PlansLater ==
  ASSUME TypeOK, OrderInv, TablesCalm, ActorsCalm, NEW a \in Actors, pc[a] = "facts", a \notin Users,
         NEW s \in Sessions, s = my[a].sess, Chain(s), Started(a) # None
  PROVE  Earlier(Started(a), my[a].mod)
<1> DEFINE m == Started(a)  d == my[a].mod
<1>1. m \in Modules /\ Seen(a)[m].phase # "completed"
  BY HeldFacts, NextAfter DEF Started
<1>2. d \in Known(my[a].row.cards) /\ d \in Modules /\ Imported(job, s, d)
  BY FactsHeld
<1>3. m # d
  BY <1>1, <1>2, SeenImported
<1>4. ASSUME Earlier(d, m) PROVE FALSE
  <2>1. m \in Known(my[a].row.cards)
    BY <1>1, <1>2, <1>4, PlainPlaces, CalmFacts DEF CardsCalm, Known
  <2>2. Imported(job, s, m)
    BY <1>1, <1>2, <1>4 DEF OrderInv, SessionsTrue, SessionTrue, InTurn, Made, Imported
  <2> QED BY <1>1, <2>1, <2>2, SeenImported
<1> QED BY <1>1, <1>2, <1>3, <1>4, InOrder

LEMMA BootstrapChain ==
  ASSUME TypeOK, OrderInv, TablesCalm, ActorsCalm, UNCHANGED tables, NEW a \in Actors, pc[a] = "facts",
         my[a].op \in {"begin", "advance"}, Started(a) # None, Bootstrap(a), NEW s \in Sessions, Chain(s)
  PROVE  ChainStep(s, a)
<1> DEFINE m == Started(a)
           next == [Held(a) EXCEPT !.plan = m]
           place == IF m \in Known(my[a].row.cards) THEN "enqueue" ELSE "createJob"
<1>1. SameTables(s) /\ TablesKeep(s) /\ (Open(s)' <=> Open(s)) /\ UNCHANGED <<session, job>>
  BY TablesSame, SameTablesKeep DEF tables
<1>2. m \in Modules
  BY PlainPlaces, MyFacts, HeldFacts, NextAfter DEF Started
<1>3. Goto(a, place) /\ Become(a, next) /\ place \in {"enqueue", "createJob"}
      /\ (place = "enqueue" => m \in Known(my[a].row.cards))
  BY DEF Bootstrap
<1>4. Held(a).row.old = my[a].row.old
  BY PlainPlaces, MyFacts, HeldFacts DEF Held, HeldType, Rows
<1>5. ASSUME NEW x \in Sessions, x = my[a].sess, Chain(x), a \notin Users PROVE Earlier(m, my[a].mod)
  BY <1>5, PlansLater
<1> HIDE DEF m, place
<1>6. next \in HeldType /\ next.sess = my[a].sess /\ next.plan = m /\ next.mod = my[a].mod
      /\ next.row = Held(a).row
  BY <1>2, HeldFacts DEF HeldType
<1> HIDE DEF next
<1>7. PICK l \in {"enqueue", "createJob"}, r \in HeldType : l = place /\ r = next
  BY <1>3, <1>6
<1>8. l \in PCs /\ l \in Starting
  BY SharedPlaces DEF Starting
<1>9. CASE r.sess # s
  BY <1>1, <1>3, <1>7, <1>8, <1>9, Elsewhere
<1>10. CASE r.sess = s
  <2>1. /\ On(a, s) /\ (a \notin Users => Imported(job, s, my[a].mod))
        /\ Known(my[a].row.cards) \subseteq Linked(s)
    BY <1>6, <1>7, <1>10, FactsHeld
  <2>2. Linked(s)' = Linked(s)
    BY <1>1 DEF Linked
  <2>3. a \notin Users => Imported(job', s, r.mod) /\ Earlier(r.plan, r.mod)
    BY <1>1, <1>5, <1>6, <1>7, <1>10, <2>1
  <2>4. l = "enqueue" => r.plan \in Linked(s)'
    BY <1>3, <1>6, <1>7, <2>1, <2>2
  <2>5. Handles(s, a, l, r)'
    BY <2>3, <2>4 DEF Handles, Abandons, Earlier
  <2>6. Starter(a, s) /\ ~Abandons(l, r) /\ Goto(a, l) /\ Become(a, r)
    BY <1>3, <1>6, <1>7, <1>10 DEF Starter, Starts, Abandons
  <2>7. r.row.old => On(a, s) /\ my[a].row.old
    BY <1>4, <1>6, <1>7, <2>1
  <2>8. ChainTurn(s, a)
    BY <1>1, <1>8, <2>5, <2>6, <2>7 DEF ChainTurn
  <2> QED BY <1>1, <2>8 DEF ChainStep
<1> QED BY <1>9, <1>10
-----------------------------------------------------------------------------
(* A session that went well is given up only by who finds nothing at work  *)
(* on it and both the row and the jobs old.                                *)
LEMMA GivenUp ==
  ASSUME TypeOK, OrderInv, TablesCalm, ActorsCalm, NEW a \in Actors, pc[a] = "facts",
         NEW s \in Sessions, s = my[a].sess, Fit(s), NEW rows,
         Resolve(s, my[a].row, Seen(a), rows) = "failed"
  PROVE  /\ rows = {} /\ my[a].row.old /\ jobsOld[s]
         /\ \A m \in Known(Seen(a)) : job[s][m] # "processing"
         /\ \E m \in Modules : Seen(a)[m].phase # "completed"
<1>1. /\ rows = {} /\ \A m \in Known(Seen(a)) : job[s][m] # "processing"
      /\ \E m \in Modules : Seen(a)[m].phase # "completed"
      /\ AllIn(Seen(a), Terminal) \/ (my[a].row.old /\ jobsOld[s])
  BY DEF Resolve, AllIn
<1>2. CardsCalm(job, s, Seen(a))
  BY SeenCalm
<1>3. ~AllIn(Seen(a), Terminal)
  BY <1>1, <1>2 DEF AllIn, Terminal, CardsCalm, Fit
<1> QED BY <1>1, <1>3

LEMMA CloseChain ==
  ASSUME TypeOK, OrderInv, TablesCalm, ActorsCalm, Owned, UNCHANGED tables, NEW a \in Actors,
         pc[a] = "facts", NEW rows, NEW s \in Sessions, Chain(s), Fit(s),
         NEW verdict, verdict = Resolve(my[a].sess, my[a].row, Seen(a), rows), verdict # "none",
         verdict = "completed" \/ my[a].sess # s
           \/ (a \in Users /\ my[a].op \in {"poll", "create"} /\ rows = Queued(a))
           \/ (a \in Workers /\ my[a].op = "reconcile" /\ rows = Queued(a) \ {my[a].mod}),
         Goto(a, "close"), Become(a, [Held(a) EXCEPT !.verdict = verdict])
  PROVE  ChainStep(s, a)
<1>1. SameTables(s) /\ TablesKeep(s) /\ (Open(s)' <=> Open(s)) /\ UNCHANGED <<session, job, queue>>
  BY TablesSame, SameTablesKeep DEF tables
<1>2. verdict \in {"none", "completed", "failed"}
  BY DEF Resolve
<1>3. PICK r \in HeldType : Become(a, r) /\ r.sess = my[a].sess /\ r.row = Held(a).row /\ r.verdict = verdict
                            /\ r.op = my[a].op /\ r.mod = my[a].mod
  BY <1>2, HeldFacts DEF HeldType
<1>4. r.row.old = my[a].row.old /\ Known(r.row.cards) = Known(my[a].row.cards)
      /\ Known(Seen(a)) = Known(my[a].row.cards)
  <2>1. Held(a).row.old = my[a].row.old
    BY PlainPlaces, MyFacts, HeldFacts DEF Held, HeldType, Rows
  <2> QED BY <1>3, <2>1, HeldFacts
<1>5. CASE my[a].sess # s
  BY <1>1, <1>3, <1>5, Elsewhere, PlainPlaces
<1>6. CASE my[a].sess = s
  <2>1. /\ On(a, s) /\ (a \notin Users => Imported(job, s, my[a].mod))
        /\ Known(my[a].row.cards) \subseteq Linked(s)
        /\ Handles(s, a, "facts", my[a])
    BY <1>6, FactsHeld
  <2>2. Linked(s)' = Linked(s) /\ \A m \in Modules : Live(s, m)' <=> Live(s, m)
    BY <1>1 DEF Linked, Live
  <2>3. ASSUME verdict # "completed"
        PROVE  /\ Linked(s) \subseteq Known(r.row.cards)
               /\ \A m \in Modules : Live(s, m) => a \notin Users /\ m = r.mod
               /\ a \notin Users => r.op = "reconcile"
               /\ Quiet(s)
    <3>1. Resolve(s, my[a].row, Seen(a), rows) = "failed"
      BY <1>2, <1>6, <2>3
    <3>2. rows = {} /\ my[a].row.old /\ jobsOld[s]
      BY <1>6, <3>1, GivenUp
    <3>3. Linked(s) \subseteq Known(r.row.cards)
      BY <1>4, <2>1, <3>2 DEF Handles
    <3>4. \A m \in Modules : Live(s, m) => m \in Queued(a)
      BY <1>4, <1>6, <3>3 DEF Chain, Unbroken, Queued, Active, Live
    <3>5. /\ \A m \in Modules : Live(s, m) => a \notin Users /\ m = r.mod
          /\ a \notin Users => r.op = "reconcile"
          /\ ~Starter(a, s)
      BY <1>3, <1>6, <2>3, <3>2, <3>4, BoundAssumption, PlainPlaces DEF Starter, Starts
    <3>6. ASSUME NEW b \in Actors, Starter(b, s) PROVE FALSE
      <4>1. On(b, s)
        BY <3>6, StartsBusy DEF Starter, On
      <4>2. CASE b \in Users
        BY <2>1, <3>2, <3>6, <4>1, <4>2 DEF Chain, Hands
      <4>3. CASE b \in Workers
        <5>1. a \in Workers /\ my[b].mod = my[a].mod
          BY <1>3, <3>5, <4>1, <4>3, WorkerLive DEF Actors
        <5> QED BY <2>1, <3>5, <3>6, <4>1, <4>3, <5>1, OneHolder
      <4> QED BY <4>2, <4>3 DEF Actors
    <3> QED BY <3>3, <3>5, <3>6 DEF Quiet
  <2>4. Handles(s, a, "close", r)'
    <3>1. a \notin Users => Imported(job', s, r.mod)
      BY <1>1, <1>3, <2>1
    <3>2. Known(r.row.cards) \subseteq Linked(s)'
      BY <1>4, <2>1, <2>2
    <3> QED BY <1>3, <2>2, <2>3, <3>1, <3>2, PlainPlaces DEF Handles, Abandons
  <2>5. ~Starts("close", r)
    BY PlainPlaces DEF Starts
  <2>6. ChainTurn(s, a)
    BY <1>1, <1>3, <1>4, <2>1, <2>3, <2>4, <2>5, PlainPlaces DEF ChainTurn, Abandons
  <2> QED BY <1>1, <2>6 DEF ChainStep
<1> QED BY <1>5, <1>6

LEMMA DecisionChain ==
  ASSUME TypeOK, OrderInv, TablesCalm, ActorsCalm, Owned, NEW u \in Users, Look(u) \/ Begin(u),
         NEW s \in Sessions, Chain(s), Fit(s)
  PROVE  ChainStep(s, u)
<1>1. u \in Actors /\ pc[u] = "facts" /\ UNCHANGED tables /\ SameTables(s)
  BY TablesSame DEF Actors, Look, Begin, Decide
<1>2. Return(u) => ChainStep(s, u)
  BY <1>1, ReturnChain
<1>3. CASE Look(u)
  <2>1. PICK op \in {"poll", "create"} : Decide(u, op) /\ Settle(u, Queued(u), Return(u))
    BY <1>3 DEF Look
  <2> DEFINE verdict == Resolve(my[u].sess, my[u].row, Seen(u), Queued(u))
  <2>2. \/ Return(u)
        \/ verdict # "none" /\ Goto(u, "close") /\ Become(u, [Held(u) EXCEPT !.verdict = verdict])
    BY <2>1 DEF Settle
  <2>3. my[u].op \in {"poll", "create"}
    BY <2>1 DEF Decide
  <2> QED BY <1>1, <1>2, <2>2, <2>3, CloseChain
<1>4. CASE Begin(u)
  BY <1>1, <1>2, <1>4, BootstrapChain DEF Begin, Decide
<1> QED BY <1>3, <1>4

-----------------------------------------------------------------------------
(* A worker whose module ended goes straight on.                           *)
LEMMA PlainTurn ==
  ASSUME NEW a \in Actors, HandlersOK, pc[a] \in Busy, NEW l \in Plain \ {"close"},
         Goto(a, l), NEW failed \in BOOLEAN,
         UNCHANGED my \/ Become(a, [my[a] EXCEPT !.failed = failed])
  PROVE  \E r \in HeldType : /\ Become(a, r) /\ r.sess = my[a].sess /\ r.mod = my[a].mod
                             /\ r.row = my[a].row /\ r.op = my[a].op
<1>1. my[a] \in HeldType
  BY DEF HandlersOK
<1>2. CASE UNCHANGED my
  BY <1>1, <1>2 DEF Become, HandlersOK
<1>3. CASE Become(a, [my[a] EXCEPT !.failed = failed])
  BY <1>1, <1>3 DEF HeldType
<1> QED BY <1>2, <1>3

LEMMA GoesOnChain ==
  ASSUME TypeOK, OrderInv, NEW s \in Sessions, NEW a \in Workers, pc[a] \in Busy, TablesKeep(s),
         Open(s)' \/ ~Open(s), NEW m \in Modules, m = my[a].mod,
         NEW l \in Plain \ {"find", "insert"}, Goto(a, l), NEW failed \in BOOLEAN,
         UNCHANGED my \/ Become(a, [my[a] EXCEPT !.failed = failed]),
         my[a].sess = s /\ l \in Past => Imported(job', s, m),
         my[a].sess = s /\ l = "complete" => Passed(s, m)'
  PROVE  ChainStep(s, a)
<1>1. a \in Actors /\ HandlersOK
  BY WorkerIsNoUser, TypeParts
<1>2. PICK r \in HeldType : /\ Become(a, r) /\ r.sess = my[a].sess /\ r.mod = my[a].mod
                            /\ r.row = my[a].row /\ r.op = my[a].op
  BY <1>1, PlainTurn DEF Plain
<1>3. l \notin Starting \cup {"facts", "close", "enqueue", "readStatus", "write"}
  BY DEF Plain, Starting
<1>4. ASSUME r.sess = s PROVE Handles(s, a, l, r)'
  BY <1>2, <1>3, <1>4 DEF Handles, Abandons
<1>5. ~Starts(l, r) /\ ~Abandons(l, r) /\ l \in PCs
  BY <1>3 DEF Starts, Abandons, Plain
<1>6. ChainTurn(s, a)
  BY <1>2, <1>4, <1>5 DEF ChainTurn, On
<1> QED BY <1>6 DEF ChainStep

LEMMA NothingReady ==
  ASSUME NEW cards \in Cards, Ready(cards) = {}
  PROVE  AllIn(cards, {"completed"})
<1> SUFFICES ASSUME NEW m \in Modules, cards[m].phase # "completed" PROVE FALSE
  BY DEF AllIn
<1> DEFINE T == {n \in DOMAIN Roster : cards[Roster[n]].phase # "completed"}
<1>1. PICK n \in T : \A k \in T : n <= k
  BY RosterFacts, Least
<1>2. ASSUME NEW d \in DependsOn[Roster[n]] PROVE cards[d].phase = "completed"
  <2>1. d \in Modules
    BY <1>1, RosterFacts, RosterAssumption
  <2>2. PICK k \in DOMAIN Roster : Roster[k] = d
    BY <2>1, RosterFacts
  <2>3. k < n /\ k \in Nat /\ n \in Nat
    BY <1>1, <2>2, RosterAssumption, RosterFacts
  <2> QED BY <1>1, <2>2, <2>3
<1> QED BY <1>1, <1>2 DEF Ready

LEMMA MovedOn ==
  ASSUME TypeOK, OrderInv, TablesCalm, ActorsCalm, NEW w \in Workers, pc[w] = "facts",
         NEW s \in Sessions, s = my[w].sess, Chain(s), Fit(s), Started(w) = None
  PROVE  \/ Resolve(s, my[w].row, Seen(w), {}) = "completed"
         \/ Resolve(s, my[w].row, Seen(w), {}) = "none" /\ Passed(s, my[w].mod)
<1> DEFINE d == my[w].mod
<1>1. /\ w \in Actors /\ w \notin Users /\ d \in Modules /\ Imported(job, s, d)
      /\ my[w].row.state = "running" /\ Known(my[w].row.cards) \subseteq Linked(s)
  BY WorkerIsNoUser, FactsHeld
<1>2. Seen(w) \in Cards /\ Known(Seen(w)) = Known(my[w].row.cards) /\ CardsCalm(job, s, Seen(w))
  BY <1>1, HeldFacts, SeenCalm
<1>3. ASSUME NEW m \in Known(Seen(w)), job[s][m] = "processing" PROVE Passed(s, d)
  <2>1. m \in Modules /\ Live(s, m)
    BY <1>1, <1>2, <1>3 DEF Known, Chain, Unbroken, AtWork
  <2>2. ~Imported(job, s, m) /\ m # d
    BY <1>1, <1>3 DEF Imported
  <2>3. ~Earlier(d, m)
    BY <1>1, <2>1, <2>2 DEF OrderInv, SessionsTrue, SessionTrue, InTurn, Made, Imported
  <2>4. Earlier(m, d)
    BY <1>1, <2>1, <2>2, <2>3, InOrder
  <2> QED BY <2>1, <2>4 DEF Passed
<1>4. ASSUME \A m \in Known(Seen(w)) : job[s][m] # "processing" PROVE AllIn(Seen(w), {"completed"})
  <2> SUFFICES ASSUME Ready(Seen(w)) # {} PROVE FALSE
    BY <1>2, NothingReady
  <2>1. Ready(Seen(w)) \subseteq Nat
    BY RosterFacts DEF Ready
  <2>2. Min(Ready(Seen(w))) \in Ready(Seen(w))
    BY <2>1, MinIsLeast
  <2>3. PICK i \in DOMAIN Roster : i = Min(Ready(Seen(w))) /\ Seen(w)[Roster[i]].phase # "completed"
    BY <2>2 DEF Ready
  <2>4. PICK m \in Modules : m = Roster[i]
    BY RosterFacts
  <2>5. \A n \in Modules : Seen(w)[n].phase \notin {"failed", "cancelled"}
    BY <1>2 DEF CardsCalm, Fit
  <2>6. m # None
    BY BoundAssumption
  <2>7. m \in Known(Seen(w)) /\ job[s][m] # "pending"
    BY <1>1, <2>3, <2>4, <2>5, <2>6 DEF Started, NextModule
  <2>8. job[s][m] \in Jobs /\ job[s][m] # "none"
    BY <1>1, <1>2, <2>7, PlainPlaces, MyFacts DEF TablesOK, CardsTrue, Known, Made
  <2>9. job[s][m] \notin {"failed", "cancelled", "processing"}
    BY <1>4, <2>7 DEF Fit, TablesCalm, SessionCalm
  <2>10. Imported(job, s, m)
    BY <2>7, <2>8, <2>9 DEF Jobs, Terminal, Imported
  <2> QED BY <1>1, <1>2, <2>3, <2>4, <2>7, <2>10, SeenImported
<1>5. Resolve(s, my[w].row, Seen(w), {}) \in {"none", "completed", "failed"}
  BY DEF Resolve
<1>6. CASE \E m \in Known(Seen(w)) : job[s][m] = "processing"
  BY <1>3, <1>6 DEF Resolve
<1>7. CASE \A m \in Known(Seen(w)) : job[s][m] # "processing"
  BY <1>1, <1>4, <1>7 DEF Resolve
<1> QED BY <1>6, <1>7

LEMMA SettlingChain ==
  ASSUME TypeOK, OrderInv, TablesCalm, ActorsCalm, Owned, NEW w \in Workers, Conclude(w) \/ MoveOn(w),
         NEW s \in Sessions, Chain(s), Fit(s)
  PROVE  ChainStep(s, w)
<1>1. /\ w \in Actors /\ w \notin Users /\ pc[w] = "facts" /\ pc[w] \in Busy /\ UNCHANGED tables
      /\ SameTables(s) /\ TablesKeep(s) /\ (Open(s)' <=> Open(s)) /\ UNCHANGED <<session, job, queue>>
  BY WorkerIsNoUser, TablesSame, SameTablesKeep, PlainPlaces DEF Conclude, MoveOn, Decide, tables
<1>2. PICK m \in Modules : m = my[w].mod
  BY <1>1, HeldFacts
<1>3. my[w].sess = s => Imported(job', s, m)
  BY <1>1, <1>2, FactsHeld
<1>4. ASSUME Goto(w, "advance"), UNCHANGED my PROVE ChainStep(s, w)
  <2>1. "advance" \in Plain \ {"find", "insert"} /\ "advance" # "complete"
    BY PlainPlaces
  <2> QED BY <1>1, <1>2, <1>3, <1>4, <2>1, GoesOnChain
<1>5. ASSUME Goto(w, "complete"), UNCHANGED my, my[w].sess = s => Passed(s, m) PROVE ChainStep(s, w)
  <2>1. my[w].sess = s => Passed(s, m)'
    BY <1>1, <1>5 DEF TablesKeep
  <2> QED BY <1>1, <1>2, <1>3, <1>5, <2>1, GoesOnChain, PlainPlaces
<1>6. CASE Conclude(w)
  <2> DEFINE rows == Queued(w) \ {my[w].mod}
             verdict == Resolve(my[w].sess, my[w].row, Seen(w), rows)
  <2>1. \/ Goto(w, "advance") /\ UNCHANGED my
        \/ verdict # "none" /\ Goto(w, "close") /\ Become(w, [Held(w) EXCEPT !.verdict = verdict])
    BY <1>6 DEF Conclude, Settle
  <2>2. my[w].op = "reconcile"
    BY <1>6 DEF Conclude, Decide
  <2> QED BY <1>1, <1>4, <2>1, <2>2, CloseChain
<1>7. CASE MoveOn(w)
  <2> DEFINE ended == job[my[w].sess][my[w].mod]
             verdict == Resolve(my[w].sess, my[w].row, Seen(w), {})
  <2>1. my[w].op = "advance"
    BY <1>7 DEF MoveOn, Decide
  <2>2. \/ ended \notin Terminal /\ Goto(w, "complete") /\ UNCHANGED my
        \/ Started(w) # None /\ Bootstrap(w)
        \/ /\ ended # "completed" \/ Started(w) = None
           /\ \/ verdict = "none" /\ Goto(w, "complete") /\ UNCHANGED my
              \/ verdict # "none" /\ Goto(w, "close") /\ Become(w, [Held(w) EXCEPT !.verdict = verdict])
    BY <1>7 DEF MoveOn, Settle
  <2>3. my[w].sess = s => ended = "completed"
    BY <1>1, <1>2, <1>3 DEF Imported
  <2>4. my[w].sess = s /\ Started(w) = None => verdict = "completed" \/ (verdict = "none" /\ Passed(s, m))
    BY <1>1, <1>2, MovedOn
  <2>5. CASE Started(w) # None /\ Bootstrap(w)
    BY <1>1, <2>1, <2>5, BootstrapChain
  <2>6. CASE /\ Goto(w, "complete") /\ UNCHANGED my
             /\ \/ ended \notin Terminal
                \/ verdict = "none" /\ (ended # "completed" \/ Started(w) = None)
    BY <1>5, <2>3, <2>4, <2>6 DEF Terminal
  <2>7. CASE /\ verdict # "none" /\ Goto(w, "close") /\ Become(w, [Held(w) EXCEPT !.verdict = verdict])
             /\ ended # "completed" \/ Started(w) = None
    <3>1. verdict = "completed" \/ my[w].sess # s
      BY <2>3, <2>4, <2>7
    <3>2. verdict = Resolve(my[w].sess, my[w].row, Seen(w), {})
      OBVIOUS
    <3> HIDE DEF ended, verdict
    <3> QED BY <1>1, <2>7, <3>1, <3>2, CloseChain
  <2> QED BY <2>2, <2>5, <2>6, <2>7
<1> QED BY <1>6, <1>7
-----------------------------------------------------------------------------
(* The other steps of a worker.                                            *)
LEMMA ClaimChain ==
  ASSUME TypeOK, OrderInv, NEW w \in Workers, NEW x \in Sessions, NEW m \in Modules, Claim(w, x, m),
         NEW s \in Sessions
  PROVE  ChainStep(s, w)
<1> DEFINE r == [Fresh EXCEPT !.op = "step", !.sess = x, !.mod = m]
<1>1. w \in Actors /\ UNCHANGED <<session, job, jobsOld>> /\ Goto(w, "start") /\ Become(w, r)
  BY WorkerIsNoUser DEF Claim
<1>2. r \in HeldType /\ ~r.row.old
  BY FreshType DEF HeldType, Ops, Fresh, NoRow
<1> HIDE DEF r
<1>3. /\ queue'[x][m].status = "RUNNING" /\ queue[x][m].status # "NONE"
      /\ \A y \in Sessions, n \in Modules : (y # x \/ n # m) => queue'[y][n] = queue[y][n]
  BY ClaimRows DEF Holds
<1>4. \A n \in Modules : Live(s, n)' <=> Live(s, n)
  BY <1>3 DEF Live
<1>5. TablesKeep(s) /\ (Open(s)' <=> Open(s))
  BY <1>1, <1>4, SameTablesKeep DEF SameTables
<1>6. "start" \notin Past \cup Starting \cup {"complete", "facts", "close"} /\ "start" \in PCs
  BY PlainPlaces DEF Past, Plain
<1>7. \A y \in HeldType : Handles(s, w, "start", y)' /\ ~Starts("start", y) /\ ~Abandons("start", y)
  BY <1>6 DEF Handles, Starts, Abandons, Starting
<1>8. ChainTurn(s, w)
  BY <1>1, <1>2, <1>5, <1>6, <1>7 DEF ChainTurn
<1> QED BY <1>5, <1>8 DEF ChainStep

LEMMA AtWorkHeld ==
  ASSUME TypeOK, OrderInv, Owned, NEW w \in Workers, pc[w] \in Hooked,
         NEW s \in Sessions, s = my[w].sess, Chain(s)
  PROVE  /\ On(w, s) /\ Live(s, my[w].mod) /\ Handles(s, w, pc[w], my[w]) /\ my[w].mod \in Modules
         /\ pc[w] \in Past => Imported(job, s, my[w].mod)
<1>1. w \in Actors /\ w \notin Users /\ On(w, s)
  BY HookedFacts DEF On
<1>2. Handles(s, w, pc[w], my[w])
  BY <1>1 DEF Chain, Hands
<1> QED BY <1>1, <1>2, WorkerLive DEF Handles

LEMMA LookingChain ==
  ASSUME TypeOK, OrderInv, TablesCalm, ActorsCalm, Owned, NEW w \in Workers,
         Start(w) \/ Gate(w) \/ Hook(w), NEW s \in Sessions, Chain(s), Fit(s)
  PROVE  ChainStep(s, w)
<1>1. pc[w] \in Hooked /\ UNCHANGED tables /\ pc[w] \in {"start", "gate", "hook"}
  BY DEF Start, Gate, Hook, Hooked
<1>2. /\ w \in Actors /\ pc[w] \in Busy /\ UNCHANGED <<session, job>> /\ SameTables(s) /\ TablesKeep(s)
      /\ (Open(s)' <=> Open(s)) /\ my[w].sess \in Sessions
  BY <1>1, HookedFacts, TablesSame, SameTablesKeep DEF tables
<1>3. PICK m \in Modules : m = my[w].mod
  BY <1>1, HookedFacts
<1>4. "hook" \in Past /\ {"gate", "process"} \cap Past = {}
  BY PlainPlaces DEF Past, Busy, Plain
<1>5. ASSUME NEW l \in {"gate", "process"}, Goto(w, l), UNCHANGED my PROVE ChainStep(s, w)
  <2>1. l \in Plain \ {"find", "insert"} /\ l # "complete" /\ l \notin Past
    BY <1>4, PlainPlaces
  <2> QED BY <1>2, <1>3, <1>5, <2>1, GoesOnChain
<1>6. ASSUME NEW l \in {"hook", "reconcile"}, Goto(w, l), UNCHANGED my,
             my[w].sess = s => Imported(job, s, m)
      PROVE  ChainStep(s, w)
  <2>1. l \in Plain \ {"find", "insert"} /\ l # "complete" /\ (my[w].sess = s => Imported(job', s, m))
    BY <1>2, <1>6, PlainPlaces
  <2> QED BY <1>2, <1>3, <1>6, <2>1, GoesOnChain
<1>7. CASE Start(w)
  <2>1. job[my[w].sess][m] \in Terminal /\ my[w].sess = s => Imported(job, s, m)
    BY DEF Fit, TablesCalm, SessionCalm, Terminal, Imported
  <2> QED BY <1>2, <1>3, <1>5, <1>6, <1>7, <2>1, ReturnChain DEF Start
<1>8. CASE Gate(w)
  <2>1. Goto(w, "process") /\ UNCHANGED my
    BY <1>2, <1>8 DEF Gate, TablesCalm, SessionCalm
  <2> QED BY <1>5, <2>1
<1>9. CASE Hook(w)
  <2>1. my[w].sess = s => Imported(job, s, m)
    BY <1>1, <1>3, <1>4, <1>9, AtWorkHeld DEF Hook
  <2>2. CASE Goto(w, "reconcile")
    BY <1>6, <1>9, <2>1, <2>2 DEF Hook
  <2>3. CASE ~Goto(w, "reconcile")
    <3>1. Goto(w, "complete") /\ UNCHANGED my /\ my[w].sess # s
      BY <1>3, <1>9, <2>1, <2>3 DEF Hook, Imported, Terminal
    <3>2. "complete" \in Plain \ {"find", "insert"}
      BY PlainPlaces
    <3> QED BY <1>2, <1>3, <3>1, <3>2, GoesOnChain
  <2> QED BY <2>2, <2>3
<1> QED BY <1>7, <1>8, <1>9

(* An import job is written.                                               *)
LEMMA JobKeeps ==
  ASSUME NEW s \in Sessions, NEW d \in Modules, UNCHANGED <<session, queue>>,
         \A m \in Modules : m # d => job'[s][m] = job[s][m], jobsOld'[s] => jobsOld[s],
         Imported(job, s, d) => Imported(job', s, d),
         Imported(job', s, d) => Imported(job, s, d) \/ Live(s, d),
         Made(job, s, d) /\ AtWork(s, d) => AtWork(s, d)'
  PROVE  TablesKeep(s) /\ (Open(s)' <=> Open(s))
<1>1. /\ Linked(s)' = Linked(s) /\ (Open(s)' <=> Open(s)) /\ (Begun(s)' <=> Begun(s))
      /\ session'[s].old = session[s].old /\ \A m \in Modules : Live(s, m)' <=> Live(s, m)
  BY DEF Linked, Open, Begun, Live
<1>2. \A m \in Modules : /\ Imported(job, s, m) => Imported(job', s, m)
                         /\ Imported(job', s, m) => Imported(job, s, m) \/ Live(s, m)
  BY DEF Imported
<1>3. \A m \in Modules : Made(job, s, m) /\ AtWork(s, m) => AtWork(s, m)'
  BY <1>1 DEF AtWork
<1>4. \A m \in Modules : Passed(s, m) => Passed(s, m)'
  BY <1>1, <1>2 DEF Passed, Imported
<1> QED BY <1>1, <1>2, <1>3, <1>4 DEF TablesKeep

LEMMA StepWritesChain ==
  ASSUME TypeOK, OrderInv, TablesCalm, ActorsCalm, Owned, NEW w \in Workers, Process(w) \/ Finish(w),
         NEW s \in Sessions, Chain(s), Fit(s), Fit(s)'
  PROVE  ChainStep(s, w)
<1>1. pc[w] \in Hooked /\ UNCHANGED <<session, queue>>
  BY DEF Process, Finish, StepWrites, Hooked
<1>2. PICK status \in {"processing", "completed", "failed"}, l \in {"finish", "hook"} :
        /\ WriteUnlessTerminal(my[w].sess, my[w].mod, status) /\ Goto(w, l)
        /\ UNCHANGED my \/ Become(w, [my[w] EXCEPT !.failed = TRUE])
        /\ status = "processing" <=> l = "finish"
  BY DEF Process, Finish, StepWrites
<1>3. /\ w \in Actors /\ pc[w] \in Busy /\ TablesOK /\ my[w].sess \in Sessions /\ my[w].mod \in Modules
  BY <1>1, HookedFacts
<1>4. PICK x \in Sessions, d \in Modules : x = my[w].sess /\ d = my[w].mod
  BY <1>3
<1>5. \/ job[x][d] \in Terminal /\ UNCHANGED <<job, jobsOld>>
      \/ /\ job[x][d] \notin Terminal /\ job' = [job EXCEPT ![x] = [job[x] EXCEPT ![d] = status]]
         /\ jobsOld' = [jobsOld EXCEPT ![x] = FALSE]
  BY <1>2, <1>4 DEF WriteUnlessTerminal, WriteJob
<1>6. /\ \A y \in Sessions : y # x => job'[y] = job[y] /\ jobsOld'[y] = jobsOld[y]
      /\ \A m \in Modules : m # d => job'[x][m] = job[x][m]
      /\ jobsOld'[x] => jobsOld[x]
      /\ job[x][d] \in Terminal => job'[x][d] = job[x][d]
      /\ job[x][d] \notin Terminal => job'[x][d] = status
  <2>1. job[x] \in [Modules -> Jobs]
    BY <1>3 DEF TablesOK
  <2> QED BY <1>3, <1>5, <2>1 DEF TablesOK
<1>7. l \in Plain \ {"find", "insert"} /\ l # "complete" /\ "finish" \notin Past
  BY PlainPlaces DEF Past
<1>8. CASE s # x
  <2>1. SameTables(s)
    BY <1>1, <1>6, <1>8 DEF SameTables, Live
  <2>2. TablesKeep(s) /\ (Open(s)' <=> Open(s))
    BY <2>1, SameTablesKeep
  <2> QED BY <1>2, <1>3, <1>4, <1>7, <1>8, <2>2, GoesOnChain
<1>9. CASE s = x
  <2>1. Live(s, d)
    BY <1>1, <1>4, <1>9, AtWorkHeld
  <2>2. l = "hook" => Imported(job', s, d)
    BY <1>2, <1>6, <1>9 DEF Fit, TablesCalm, SessionCalm, Terminal, Imported
  <2>3. /\ Imported(job, s, d) => Imported(job', s, d)
        /\ AtWork(s, d)'
    BY <1>1, <1>6, <1>9, <2>1 DEF Imported, Terminal, AtWork, Live
  <2>4. TablesKeep(s) /\ (Open(s)' <=> Open(s))
    BY <1>1, <1>6, <1>9, <2>1, <2>3, JobKeeps
  <2> QED BY <1>2, <1>3, <1>4, <1>7, <1>9, <2>2, <2>4, GoesOnChain
<1> QED BY <1>8, <1>9

LEMMA FindOwningChain ==
  ASSUME TypeOK, OrderInv, TablesCalm, ActorsCalm, Owned, NEW w \in Workers, Reconcile(w) \/ Advance(w),
         NEW s \in Sessions, Chain(s)
  PROVE  ChainStep(s, w)
<1>1. PICK op \in {"reconcile", "advance"}, l \in {"advance", "complete"} : FindOwning(w, op, l)
  BY DEF Reconcile, Advance
<1>2. pc[w] \in Hooked /\ UNCHANGED tables /\ pc[w] \in Past /\ UNCHANGED <<session, job>>
  BY <1>1, PlainPlaces, SharedPlaces DEF FindOwning, Hooked, Past, Busy, PCs, tables
<1>3. /\ w \in Actors /\ w \notin Users /\ pc[w] \in Busy /\ SameTables(s) /\ TablesKeep(s)
      /\ (Open(s)' <=> Open(s))
  BY <1>2, HookedFacts, TablesSame, SameTablesKeep
<1>4. PICK m \in Modules : m = my[w].mod
  BY <1>2, HookedFacts
<1>5. my[w].sess = s => On(w, s) /\ Imported(job, s, m) /\ m \in Linked(s)
  BY <1>2, <1>4, AtWorkHeld DEF Chain, Unbroken
<1>6. CASE /\ Goto(w, l) /\ UNCHANGED my
           /\ ~Open(my[w].sess) \/ my[w].mod \notin Known(session[my[w].sess].cards)
  <2>1. l \in Plain \ {"find", "insert"}
    BY PlainPlaces
  <2>2. my[w].sess = s => Imported(job', s, m) /\ Passed(s, m)
    BY <1>2, <1>4, <1>5, <1>6 DEF Passed, Linked
  <2>3. my[w].sess = s => Imported(job', s, m) /\ Passed(s, m)'
    BY <1>3, <2>2 DEF TablesKeep
  <2> QED BY <1>3, <1>4, <1>6, <2>1, <2>3, GoesOnChain
<1>7. ASSUME Goto(w, "facts"), Open(my[w].sess), NEW r \in HeldType, Become(w, r),
             r.sess = my[w].sess, r.mod = my[w].mod, r.op = op, r.row = session[my[w].sess]
      PROVE  ChainStep(s, w)
  <2>1. CASE my[w].sess = s
    BY <1>2, <1>3, <1>4, <1>5, <1>7, <2>1, TakesUpChain
  <2>2. CASE my[w].sess # s
    BY <1>3, <1>7, <2>2, Elsewhere, PlainPlaces
  <2> QED BY <2>1, <2>2
<1> QED BY <1>1, <1>6, <1>7, FindOwningHands

LEMMA CompleteChain ==
  ASSUME TypeOK, OrderInv, Owned, NEW w \in Workers, Complete(w), NEW s \in Sessions, Chain(s)
  PROVE  ChainStep(s, w)
<1>1. /\ \A x \in Sessions, m \in Modules :
              (x # my[w].sess \/ m # my[w].mod) => queue'[x][m] = queue[x][m]
      /\ pc[w] = "complete" /\ my[w].sess \in Sessions /\ my[w].mod \in Modules
      /\ UNCHANGED <<session, job, jobsOld>> /\ Return(w) /\ w \in Actors
  BY CompleteRows, WorkerIsNoUser
<1>2. CASE s # my[w].sess
  <2>1. SameTables(s)
    BY <1>1, <1>2 DEF SameTables, Live
  <2> QED BY <1>1, <2>1, ReturnChain
<1>3. CASE s = my[w].sess
  <2>1. PICK d \in Modules : d = my[w].mod
    BY <1>1
  <2>2. pc[w] \in Hooked /\ pc[w] \in Past
    BY <1>1, SharedPlaces, PlainPlaces DEF Past, Busy, PCs
  <2>3. Live(s, d) /\ Imported(job, s, d) /\ Passed(s, d)
    BY <1>1, <1>3, <2>1, <2>2, AtWorkHeld DEF Handles
  <2>4. \A m \in Modules : m # d => (Live(s, m)' <=> Live(s, m))
    BY <1>1, <1>3, <2>1 DEF Live
  <2>5. /\ Linked(s)' = Linked(s) /\ (Open(s)' <=> Open(s)) /\ (Begun(s)' <=> Begun(s))
        /\ session'[s].old = session[s].old /\ jobsOld'[s] = jobsOld[s]
        /\ \A m \in Modules : Imported(job', s, m) <=> Imported(job, s, m)
    BY <1>1 DEF Linked, Open, Begun
  <2>6. \A m \in Modules : AtWork(s, m) => AtWork(s, m)'
    BY <1>1, <2>3, <2>4 DEF AtWork, Imported
  <2>7. \A m \in Modules : Passed(s, m) => Passed(s, m)'
    BY <2>3, <2>4, <2>5 DEF Passed, Imported
  <2>8. TablesKeep(s)
    BY <2>3, <2>4, <2>5, <2>6, <2>7 DEF TablesKeep
  <2>9. ChainTurn(s, w)
    BY <1>1, <2>5, FreshType, PlainPlaces DEF ChainTurn, Return, Plain
  <2> QED BY <2>8, <2>9 DEF ChainStep
<1> QED BY <1>2, <1>3
-----------------------------------------------------------------------------
(* The steps that start a module, and the close of a session.              *)
LEMMA StartHeld ==
  ASSUME TypeOK, OrderInv, TablesCalm, ActorsCalm, NEW a \in Actors, pc[a] \in Starting,
         NEW s \in Sessions, s = my[a].sess, Chain(s)
  PROVE  /\ On(a, s) /\ Starter(a, s) /\ ~Quiet(s) /\ Handles(s, a, pc[a], my[a])
         /\ a \notin Users => /\ my[a].mod \in Modules /\ Imported(job, s, my[a].mod)
                              /\ Earlier(my[a].plan, my[a].mod)
<1>1. On(a, s) /\ Starter(a, s)
  BY SharedPlaces DEF On, Starter, Starts
<1>2. Handles(s, a, pc[a], my[a]) /\ ~Quiet(s)
  BY <1>1 DEF Chain, Hands, Quiet
<1>3. pc[a] \in Past
  BY SharedPlaces DEF Past, Starting
<1>4. a \notin Users => my[a].mod \in Modules
  BY SharedPlaces, MyFacts DEF Handling
<1> QED BY <1>1, <1>2, <1>3, <1>4 DEF Handles

LEMMA StartsOnChain ==
  ASSUME TypeOK, OrderInv, TablesCalm, ActorsCalm, NEW a \in Actors, pc[a] \in Starting,
         NEW s \in Sessions, s = my[a].sess, Chain(s), TablesKeep(s), Open(s) => Open(s)',
         NEW l \in Starting \ {"createJob"}, NEW r \in HeldType, Goto(a, l), Become(a, r),
         NEW m \in Modules, m = my[a].plan,
         r.sess = s, r.mod = my[a].mod, r.plan = m, r.row.old = my[a].row.old,
         l = "enqueue" => m \in Linked(s)',
         l \in {"readStatus", "write"} => AtWork(s, m)' /\ (m \in Linked(s)' \/ ~jobsOld'[s]),
         l = "write" /\ Open(s)' => r.row.status = "IN_PROGRESS"
  PROVE  ChainStep(s, a)
<1>1. /\ On(a, s) /\ Starter(a, s)
      /\ a \notin Users => /\ my[a].mod \in Modules /\ Imported(job, s, my[a].mod)
                           /\ Earlier(my[a].plan, my[a].mod)
  BY StartHeld
<1>2. a \notin Users => Imported(job', s, r.mod) /\ Earlier(r.plan, r.mod)
  BY <1>1 DEF TablesKeep
<1>3. l \notin {"complete", "facts", "close"} /\ l \in PCs
  BY SharedPlaces DEF Starting
<1>4. Handles(s, a, l, r)'
  BY <1>2, <1>3 DEF Handles, Abandons, Earlier
<1>5. ~Abandons(l, r)
  BY <1>3 DEF Abandons
<1>6. ChainTurn(s, a)
  BY <1>1, <1>3, <1>4, <1>5 DEF ChainTurn
<1> QED BY <1>6 DEF ChainStep

(* A step of an actor on one session leaves the others alone.              *)
LEMMA OthersChain ==
  ASSUME NEW a \in Actors, NEW l \in PCs, NEW r \in HeldType, Goto(a, l), Become(a, r),
         l \in Busy => r.sess = my[a].sess, NEW s \in Sessions, s # my[a].sess, SameTables(s)
  PROVE  ChainStep(s, a)
BY Elsewhere

LEMMA CreateJobChain ==
  ASSUME TypeOK, OrderInv, TablesCalm, ActorsCalm, NEW a \in Actors, CreateJob(a),
         NEW s \in Sessions, Chain(s)
  PROVE  ChainStep(s, a)
<1>1. PICK r \in HeldType : Become(a, r) /\ Alike(r, my[a]) /\ r.row.old = my[a].row.old
  BY CreateJobHands
<1>2. pc[a] \in Starting /\ Goto(a, "setPending") /\ UNCHANGED <<session, queue>>
  BY DEF CreateJob, Starting
<1>3. PICK x \in Sessions, d \in Modules : x = my[a].sess /\ d = my[a].plan
  BY <1>2, StartingFacts
<1>4. \/ UNCHANGED <<job, jobsOld>>
      \/ /\ job[x][d] = "none" /\ job' = [job EXCEPT ![x] = [job[x] EXCEPT ![d] = "processing"]]
         /\ jobsOld' = [jobsOld EXCEPT ![x] = FALSE]
  BY <1>3 DEF CreateJob, WriteJob
<1>5. TablesOK /\ job[x] \in [Modules -> Jobs]
  BY TypeParts DEF TablesOK
<1>6. /\ \A y \in Sessions : y # x => job'[y] = job[y] /\ jobsOld'[y] = jobsOld[y]
      /\ \A m \in Modules : m # d => job'[x][m] = job[x][m]
      /\ jobsOld'[x] => jobsOld[x]
      /\ job'[x][d] = job[x][d] \/ (job[x][d] = "none" /\ job'[x][d] = "processing")
  BY <1>4, <1>5 DEF TablesOK
<1>7. "setPending" \in Starting /\ "setPending" \in PCs
  BY SharedPlaces DEF Starting
<1>8. CASE s # x
  BY <1>1, <1>2, <1>3, <1>6, <1>7, <1>8, OthersChain DEF SameTables, Live, Alike
<1>9. CASE s = x
  <2>1. TablesKeep(s) /\ (Open(s)' <=> Open(s))
    BY <1>2, <1>6, <1>9, JobKeeps DEF Imported, Made, AtWork, Live
  <2> QED BY <1>1, <1>2, <1>3, <1>7, <1>9, <2>1, StartsOnChain DEF Alike
<1> QED BY <1>8, <1>9

LEMMA SetPendingChain ==
  ASSUME TypeOK, OrderInv, TablesCalm, ActorsCalm, NEW a \in Actors, SetPending(a),
         NEW s \in Sessions, Chain(s), Fit(s)
  PROVE  ChainStep(s, a)
<1>1. pc[a] \in Starting /\ Goto(a, "readStatus") /\ UNCHANGED <<session, queue, my>>
  BY DEF SetPending, Starting
<1>2. PICK x \in Sessions, d \in Modules : x = my[a].sess /\ d = my[a].plan
  BY <1>1, StartingFacts
<1>3. TablesOK /\ HandlersOK /\ job[x] \in [Modules -> Jobs]
  BY TypeParts DEF TablesOK
<1>4. PICK r \in HeldType : r = my[a]
  BY <1>3 DEF HandlersOK
<1>5. Become(a, r)
  BY <1>1, <1>3, <1>4 DEF Become, HandlersOK
<1>6. \/ job[x][d] \in Terminal /\ UNCHANGED <<job, jobsOld>>
      \/ /\ job[x][d] \notin Terminal /\ job' = [job EXCEPT ![x] = [job[x] EXCEPT ![d] = "pending"]]
         /\ jobsOld' = [jobsOld EXCEPT ![x] = FALSE]
  BY <1>2 DEF SetPending, WriteUnlessTerminal, WriteJob
<1>7. /\ \A y \in Sessions : y # x => job'[y] = job[y] /\ jobsOld'[y] = jobsOld[y]
      /\ \A m \in Modules : m # d => job'[x][m] = job[x][m]
      /\ jobsOld'[x] => jobsOld[x]
      /\ \/ job[x][d] \in Terminal /\ job'[x][d] = job[x][d]
         \/ job[x][d] \notin Terminal /\ job'[x][d] = "pending" /\ ~jobsOld'[x]
  BY <1>3, <1>6 DEF TablesOK
<1>8. "readStatus" \in Starting /\ "readStatus" \in PCs
  BY SharedPlaces DEF Starting
<1>9. CASE s # x
  BY <1>1, <1>2, <1>4, <1>5, <1>7, <1>8, <1>9, OthersChain DEF SameTables, Live
<1>10. CASE s = x
  <2>1. /\ Imported(job, s, d) => Imported(job', s, d)
        /\ Imported(job', s, d) => Imported(job, s, d)
        /\ AtWork(s, d)'
    BY <1>7, <1>10 DEF Imported, Terminal, AtWork
  <2>2. TablesKeep(s) /\ (Open(s)' <=> Open(s))
    BY <1>1, <1>7, <1>10, <2>1, JobKeeps
  <2>3. d \in Linked(s)' \/ ~jobsOld'[s]
    <3>1. CASE job[x][d] \in Terminal
      <4>1. Imported(job, s, d)
        BY <1>10, <3>1 DEF Fit, TablesCalm, SessionCalm, Terminal, Imported
      <4> QED BY <2>2, <4>1 DEF Chain, Unbroken, TablesKeep
    <3> QED BY <1>7, <1>10, <3>1
  <2> QED BY <1>1, <1>2, <1>4, <1>5, <1>8, <1>10, <2>1, <2>2, <2>3, StartsOnChain
<1> QED BY <1>9, <1>10

LEMMA ReadStatusChain ==
  ASSUME TypeOK, OrderInv, TablesCalm, ActorsCalm, NEW a \in Actors, ReadStatus(a),
         NEW s \in Sessions, Chain(s)
  PROVE  ChainStep(s, a)
<1>1. pc[a] = "readStatus" /\ pc[a] \in Starting /\ Goto(a, "write") /\ UNCHANGED tables
  BY DEF ReadStatus, Starting
<1>2. PICK r \in HeldType :
           /\ Become(a, r) /\ Alike(r, my[a]) /\ r.row.old = my[a].row.old
           /\ r.row.status = session[my[a].sess].status
  BY ReadStatusHands
<1>3. PICK d \in Modules : d = my[a].plan
  BY <1>1, StartingFacts
<1>4. "write" \in Starting /\ "write" \in PCs
  BY SharedPlaces DEF Starting
<1>5. SameTables(s) /\ TablesKeep(s) /\ (Open(s)' <=> Open(s)) /\ UNCHANGED <<session, job, queue, jobsOld>>
  BY <1>1, TablesSame, SameTablesKeep DEF tables
<1>6. CASE s # my[a].sess
  BY <1>1, <1>2, <1>4, <1>5, <1>6, OthersChain DEF Alike
<1>7. CASE s = my[a].sess
  <2>1. AtWork(s, d) /\ (d \in Linked(s) \/ ~jobsOld[s])
    BY <1>1, <1>3, <1>7, StartHeld DEF Handles
  <2>2. AtWork(s, d)' /\ (d \in Linked(s)' \/ ~jobsOld'[s])
    BY <1>5, <2>1 DEF AtWork, Live, Linked
  <2>3. Open(s)' => r.row.status = "IN_PROGRESS"
    BY <1>2, <1>5, <1>7 DEF Open
  <2> QED BY <1>1, <1>2, <1>3, <1>4, <1>5, <1>7, <2>2, <2>3, StartsOnChain DEF Alike
<1> QED BY <1>6, <1>7
-----------------------------------------------------------------------------
(* The write that starts a module: its session is open and as it was read, *)
(* but for the module.                                                     *)
LEMMA WriteHeld ==
  ASSUME TypeOK, OrderInv, TablesCalm, ActorsCalm, NEW a \in Actors, Write(a),
         NEW s \in Sessions, s = my[a].sess, Chain(s), Fit(s)', NEW d \in Modules, d = my[a].plan
  PROVE  /\ d \notin Linked(s) /\ Open(s) /\ my[a].row.status = "IN_PROGRESS" /\ ~Taken(s)
         /\ Linked(s) \subseteq Known(my[a].row.cards) /\ d \in Known(my[a].row.cards)
         /\ ~jobsOld[s]
         /\ \A m \in Known(my[a].row.cards) : m \in Linked(s) \/ AtWork(s, m)
<1> DEFINE cards == my[a].row.cards
<1>1. pc[a] = "write" /\ pc[a] \in Starting
  BY DEF Write, Starting
<1>2. /\ ~Quiet(s) /\ Handles(s, a, "write", my[a]) /\ HandCalm(job, a, "write", my[a])
      /\ Begun(s) /\ SessionCalm(s)
      /\ CardsTrue(job, s, cards) /\ InTurn(job, s, d)
  BY <1>1, StartHeld, StartingFacts, StartingCalmFacts
<1>3. d \notin Linked(s)
  BY DEF Write, Fit, Linked
<1>4. Open(s)
  BY <1>2, <1>3 DEF Chain, AllDone
<1>5. my[a].row.status = "IN_PROGRESS" /\ ~jobsOld[s] /\ AtWork(s, d)
  BY <1>2, <1>3, <1>4 DEF Handles
<1>6. ~Taken(s)
  BY <1>4 DEF TablesCalm, Taken
<1>7. d \in Known(cards) /\ \A m \in Modules : Earlier(d, m) => cards[m].job
  BY <1>1, <1>2 DEF HandCalm, Known
<1>8. ASSUME NEW m \in Linked(s) PROVE m \in Known(cards)
  <2>1. m \in Modules /\ m # d /\ ~Earlier(m, d)
    BY <1>2, <1>3, <1>8 DEF SessionCalm, CardsCalm, Linked, Known
  <2> QED BY <1>7, <2>1, InOrder DEF Known
<1>9. ASSUME NEW m \in Known(cards), m \notin Linked(s) PROVE AtWork(s, m)
  <2>1. m \in Modules /\ Made(job, s, m)
    BY <1>2, <1>9 DEF Known, CardsTrue
  <2>2. CASE m = d
    BY <1>5, <2>2
  <2>3. CASE Earlier(d, m)
    BY <1>2, <2>1, <2>3 DEF InTurn, AtWork, Imported
  <2>4. ASSUME Earlier(m, d) PROVE FALSE
    <3>1. Imported(job, s, d)
      BY <2>1, <2>4 DEF OrderInv, SessionsTrue, SessionTrue, InTurn
    <3> QED BY <1>3, <3>1 DEF Chain, Unbroken
  <2> QED BY <2>1, <2>2, <2>3, <2>4, InOrder
<1> QED BY <1>3, <1>4, <1>5, <1>6, <1>7, <1>8, <1>9

LEMMA WriteChain ==
  ASSUME TypeOK, OrderInv, TablesCalm, ActorsCalm, NEW a \in Actors, Write(a),
         NEW s \in Sessions, Chain(s), Fit(s)'
  PROVE  ChainStep(s, a)
<1>1. pc[a] \in Starting /\ pc[a] \in Busy /\ UNCHANGED <<job, queue, jobsOld>>
  BY SharedPlaces DEF Write, Starting
<1>2. PICK x \in Sessions, d \in Modules : x = my[a].sess /\ d = my[a].plan
  BY <1>1, StartingFacts
<1>3. TablesOK /\ HandlersOK
  BY TypeParts
<1>4. PICK r \in HeldType : r = my[a]
  BY <1>3 DEF HandlersOK
<1>5. UNCHANGED my => Become(a, r)
  BY <1>3, <1>4 DEF Become, HandlersOK
<1>6. CASE s # x
  <2>1. CASE Refused(a) /\ UNCHANGED session
    <3>1. SameTables(s)
      BY <1>1, <2>1 DEF SameTables, Live
    <3>2. CASE a \in Users
      BY <2>1, <3>1, <3>2, ReturnChain DEF Refused
    <3>3. CASE a \notin Users
      <4>1. Goto(a, "complete") /\ Become(a, [my[a] EXCEPT !.failed = TRUE])
        BY <2>1, <3>3 DEF Refused
      <4>2. "complete" \in Plain \ {"close"} /\ "complete" \in PCs
        BY SharedPlaces, PlainPlaces DEF Starting, Plain
      <4>3. PICK y \in HeldType : Become(a, y) /\ y.sess = my[a].sess
        BY <1>1, <1>3, <4>1, <4>2, PlainTurn
      <4> QED BY <1>2, <1>6, <3>1, <4>1, <4>2, <4>3, OthersChain
    <3> QED BY <3>2, <3>3
  <2>2. CASE ~(Refused(a) /\ UNCHANGED session)
    <3>1. session' = [session EXCEPT ![x] =
             [status |-> my[a].row.status, state |-> "running", cards |-> my[a].row.cards, old |-> FALSE]]
          /\ Goto(a, "enqueue") /\ UNCHANGED my
      BY <1>2, <2>2 DEF Write, WriteSession
    <3>2. SameTables(s)
      BY <1>1, <1>3, <1>6, <3>1 DEF SameTables, Live, TablesOK
    <3>3. "enqueue" \in PCs
      BY SharedPlaces DEF Starting
    <3> QED BY <1>2, <1>4, <1>5, <1>6, <3>1, <3>2, <3>3, OthersChain
  <2> QED BY <2>1, <2>2
<1>7. CASE s = x
  <2> DEFINE cards == my[a].row.cards
             row == [status |-> "IN_PROGRESS", state |-> "running", cards |-> cards, old |-> FALSE]
  <2>1. /\ d \notin Linked(s) /\ Open(s) /\ my[a].row.status = "IN_PROGRESS" /\ ~Taken(s)
        /\ Linked(s) \subseteq Known(cards) /\ d \in Known(cards) /\ ~jobsOld[s]
        /\ \A m \in Known(cards) : m \in Linked(s) \/ AtWork(s, m)
    BY <1>2, <1>7, WriteHeld
  <2>2. session' = [session EXCEPT ![s] = row] /\ Goto(a, "enqueue") /\ UNCHANGED my
    BY <1>2, <1>7, <2>1 DEF Write, WriteSession
  <2>3. row.status = "IN_PROGRESS" /\ row.cards = cards /\ ~row.old
    OBVIOUS
  <2> HIDE DEF row
  <2>4. session'[s] = row
    BY <1>3, <2>2 DEF TablesOK
  <2>5. /\ Linked(s)' = Known(cards) /\ Open(s)' /\ ~session'[s].old /\ ~jobsOld'[s]
        /\ \A m \in Modules : /\ Live(s, m)' <=> Live(s, m)
                              /\ AtWork(s, m)' <=> AtWork(s, m)
                              /\ Imported(job', s, m) <=> Imported(job, s, m)
    BY <1>1, <2>1, <2>3, <2>4 DEF Linked, Open, Live, AtWork
  <2>6. \A m \in Modules : Passed(s, m) => Passed(s, m)'
    BY <2>1, <2>5 DEF Passed, Imported
  <2>7. ~Quiet(s) /\ Begun(s)
    BY <1>1, <1>2, <1>7, StartHeld, StartingCalmFacts
  <2>8. \A m \in Linked(s)' : m \in Linked(s) \/ AtWork(s, m)'
    BY <2>1, <2>5 DEF Known
  <2>9. TablesKeep(s)
    BY <2>1, <2>5, <2>6, <2>7, <2>8 DEF TablesKeep
  <2>10. "enqueue" \in Starting \ {"createJob"} /\ "enqueue" \notin {"readStatus", "write"}
    BY DEF Starting
  <2> QED BY <1>1, <1>2, <1>4, <1>5, <1>7, <2>1, <2>2, <2>5, <2>9, <2>10, StartsOnChain
<1> QED BY <1>6, <1>7

LEMMA EnqueueChain ==
  ASSUME TypeOK, OrderInv, TablesCalm, ActorsCalm, NEW a \in Actors, Enqueue(a),
         NEW s \in Sessions, Chain(s)
  PROVE  ChainStep(s, a)
<1>1. pc[a] = "enqueue" /\ pc[a] \in Starting /\ pc[a] \in Busy /\ UNCHANGED <<session, job, jobsOld>>
      /\ Done(a)
  BY SharedPlaces DEF Enqueue, Starting
<1>2. PICK x \in Sessions, d \in Modules : x = my[a].sess /\ d = my[a].plan
  BY <1>1, StartingFacts
<1>3. /\ \A y \in Sessions, m \in Modules : (y # x \/ m # d) => queue'[y][m] = queue[y][m]
      /\ queue'[x][d].status # "NONE"
  BY <1>2, EnqueueRows
<1>4. HandlersOK /\ (a \in Users \/ a \in Workers)
  BY TypeParts DEF Actors
<1>5. CASE s # x
  <2>1. SameTables(s)
    BY <1>1, <1>3, <1>5 DEF SameTables, Live
  <2>2. CASE a \in Users
    BY <1>1, <2>1, <2>2, ReturnChain DEF Done
  <2>3. CASE a \notin Users
    <3>1. Goto(a, "complete") /\ UNCHANGED my /\ "complete" \in PCs
      BY <1>1, <2>3, SharedPlaces DEF Done
    <3>2. my[a] \in HeldType /\ Become(a, my[a])
      BY <1>4, <3>1 DEF Become, HandlersOK
    <3> QED BY <1>2, <1>5, <2>1, <3>1, <3>2, OthersChain
  <2> QED BY <2>2, <2>3
<1>6. CASE s = x
  <2>1. /\ ~Quiet(s) /\ d \in Linked(s)
        /\ a \notin Users => /\ my[a].mod \in Modules /\ Imported(job, s, my[a].mod)
                             /\ Earlier(d, my[a].mod)
    BY <1>1, <1>2, <1>6, StartHeld DEF Handles
  <2>2. /\ Linked(s)' = Linked(s) /\ (Open(s)' <=> Open(s)) /\ (Begun(s)' <=> Begun(s))
        /\ session'[s].old = session[s].old /\ jobsOld'[s] = jobsOld[s]
        /\ \A m \in Modules : Imported(job', s, m) <=> Imported(job, s, m)
    BY <1>1 DEF Linked, Open, Begun
  <2>3. Live(s, d)' /\ \A m \in Modules : m # d => (Live(s, m)' <=> Live(s, m))
    BY <1>3, <1>6 DEF Live
  <2>4. \A m \in Modules : /\ Live(s, m) => Live(s, m)'
                           /\ AtWork(s, m) => AtWork(s, m)'
    BY <1>1, <2>3 DEF AtWork
  <2>5. \A m \in Modules : Passed(s, m) => Passed(s, m)'
    BY <2>2, <2>4 DEF Passed, Imported
  <2>6. TablesKeep(s)
    BY <2>1, <2>2, <2>3, <2>4, <2>5 DEF TablesKeep
  <2>7. CASE a \in Users
    <3>1. ChainTurn(s, a)
      BY <1>1, <2>2, <2>7, FreshType, PlainPlaces DEF Done, Return, ChainTurn, Plain
    <3> QED BY <2>6, <3>1 DEF ChainStep
  <2>8. CASE a \notin Users
    <3>1. PICK m \in Modules : m = my[a].mod
      BY <2>1, <2>8
    <3>2. Goto(a, "complete") /\ UNCHANGED my
      BY <1>1, <2>8 DEF Done
    <3>3. Imported(job', s, m) /\ Passed(s, m)'
      BY <2>1, <2>2, <2>3, <2>8, <3>1 DEF Passed
    <3>4. "complete" \in Plain \ {"find", "insert"}
      BY PlainPlaces
    <3> QED BY <1>1, <1>4, <2>2, <2>6, <2>8, <3>1, <3>2, <3>3, <3>4, GoesOnChain
  <2> QED BY <2>7, <2>8
<1> QED BY <1>5, <1>6
-----------------------------------------------------------------------------
LEMMA CloseSessionChain ==
  ASSUME TypeOK, OrderInv, TablesCalm, ActorsCalm, NEW a \in Actors, CloseSession(a),
         NEW s \in Sessions, Chain(s)
  PROVE  ChainStep(s, a)
<1>1. pc[a] = "close" /\ pc[a] \in Busy /\ UNCHANGED <<job, queue, jobsOld>>
  BY SharedPlaces DEF CloseSession
<1>2. /\ TablesOK /\ HandlersOK /\ my[a] \in HeldType /\ my[a].row.cards \in Cards
      /\ Handling(job, a, "close", my[a]) /\ HandCalm(job, a, "close", my[a]) /\ Begun(my[a].sess)
  BY <1>1, MyFacts, CalmFacts
<1>3. PICK x \in Sessions, r \in HeldType : x = my[a].sess /\ r = my[a]
  BY <1>1, <1>2, MyFacts
<1>4. \/ Return(a)
      \/ Goto(a, "insert") /\ Become(a, r)
      \/ /\ a \notin Users /\ Become(a, r)
         /\ \E l \in {"advance", "complete"} : Goto(a, l)
  BY <1>2, <1>3 DEF CloseSession, Handling, Become, HandlersOK
<1> DEFINE row == [status |-> "COMPLETED", state |-> r.verdict, cards |-> r.row.cards, old |-> FALSE]
<1>5. row.status = "COMPLETED" /\ row.cards = r.row.cards /\ ~row.old
      /\ session' = [session EXCEPT ![x] = row]
  BY <1>3 DEF CloseSession, WriteSession
<1> HIDE DEF row
<1>6. session'[x] = row /\ \A y \in Sessions : y # x => session'[y] = session[y]
  BY <1>2, <1>5 DEF TablesOK
<1>7. {"insert", "idle"} \cap Busy = {} /\ {"insert", "idle", "advance", "complete"} \subseteq PCs
      /\ \A l \in {"insert", "idle", "advance", "complete"} : \A y \in HeldType :
            ~Starts(l, y) /\ ~Abandons(l, y)
  BY SharedPlaces, PlainPlaces DEF Starts, Abandons, PCs, Plain, Starting, Busy
<1>8. CASE s # x
  <2>1. SameTables(s)
    BY <1>1, <1>6, <1>8 DEF SameTables, Live
  <2> QED BY <1>3, <1>4, <1>7, <1>8, <2>1, OthersChain, ReturnChain
<1>9. CASE s = x
  <2>1. On(a, s) /\ Handles(s, a, "close", r) /\ (Abandons("close", r) => Quiet(s))
    BY <1>1, <1>3, <1>9 DEF On, Chain, Hands
  <2>2. /\ Linked(s)' = Known(r.row.cards) /\ ~Open(s)' /\ ~session'[s].old /\ Begun(s)
        /\ \A m \in Modules : /\ Live(s, m)' <=> Live(s, m)
                              /\ AtWork(s, m)' <=> AtWork(s, m)
                              /\ Imported(job', s, m) <=> Imported(job, s, m)
    BY <1>1, <1>2, <1>3, <1>5, <1>6, <1>9 DEF Linked, Open, Live, AtWork
  <2>3. Linked(s)' = Linked(s) /\ (AllDone(s)' \/ Quiet(s))
    <3>1. Known(r.row.cards) \subseteq Linked(s) /\ Linked(s) \subseteq Modules
      BY <2>1 DEF Handles, Linked, Known
    <3>2. CASE r.verdict = "completed"
      <4>1. Known(r.row.cards) = Modules /\ \A m \in Modules : Imported(job, s, m)
        BY <1>2, <1>3, <1>9, <3>2 DEF HandCalm, Handling, AllImported, Known
      <4> QED BY <1>1, <2>2, <3>1, <4>1 DEF AllDone
    <3>3. CASE r.verdict # "completed"
      BY <2>1, <2>2, <3>1, <3>3 DEF Handles, Abandons
    <3> QED BY <3>2, <3>3
  <2>4. \A m \in Modules : Passed(s, m)'
    BY <2>2 DEF Passed
  <2>5. TablesKeep(s)
    BY <1>1, <2>2, <2>3, <2>4 DEF TablesKeep
  <2>6. CASE Return(a)
    BY <1>7, <2>3, <2>5, <2>6, FreshType DEF Return, ChainStep, ChainTurn
  <2>7. CASE Goto(a, "insert") /\ Become(a, r)
    BY <1>7, <2>3, <2>5, <2>7 DEF ChainStep, ChainTurn
  <2>8. ASSUME a \notin Users, Become(a, r), NEW l \in {"advance", "complete"}, Goto(a, l)
        PROVE  ChainStep(s, a)
    <3>1. PICK m \in Modules : m = r.mod
      BY <1>1, <1>2, <1>3, <2>8 DEF Handling
    <3>2. "close" \in Past /\ l \notin Starting \cup {"facts", "close"}
      BY SharedPlaces, PlainPlaces DEF Past, Starting
    <3>3. Imported(job', s, m) /\ Passed(s, m)'
      BY <2>1, <2>2, <2>4, <2>8, <3>1, <3>2 DEF Handles
    <3>4. Handles(s, a, l, r)'
      BY <3>1, <3>2, <3>3 DEF Handles, Abandons, Starting
    <3>5. ChainTurn(s, a)
      BY <1>3, <1>7, <2>1, <2>3, <2>8, <3>4 DEF ChainTurn
    <3> QED BY <2>5, <3>5 DEF ChainStep
  <2> QED BY <1>4, <2>6, <2>7, <2>8
<1> QED BY <1>8, <1>9

LEMMA CoordinateChain ==
  ASSUME TypeOK, OrderInv, TablesCalm, ActorsCalm, NEW a \in Actors, Coordinate(a),
         NEW s \in Sessions, Chain(s), Fit(s), Fit(s)'
  PROVE  ChainStep(s, a)
BY CloseSessionChain, CreateJobChain, SetPendingChain, ReadStatusChain, WriteChain, EnqueueChain
   DEF Coordinate

LEMMA UserChain ==
  ASSUME TypeOK, OrderInv, TablesCalm, ActorsCalm, Owned, NEW u \in Users, User(u), ~Insert(u),
         NEW s \in Sessions, Chain(s), Fit(s), Fit(s)'
  PROVE  ChainStep(s, u)
<1>1. u \in Actors
  BY DEF Actors
<1> QED BY <1>1, RequestChain, DecisionChain, CoordinateChain, NothingAsked DEF User

LEMMA WorkerChain ==
  ASSUME TypeOK, OrderInv, TablesCalm, ActorsCalm, Owned, NEW w \in Workers, Worker(w),
         NEW s \in Sessions, Chain(s), Fit(s), Fit(s)'
  PROVE  ChainStep(s, w)
<1>1. w \in Actors
  BY WorkerIsNoUser
<1>2. ~Stop(w)
  BY <1>1 DEF ActorsCalm, HandCalm, Asking, Stop, StepWrites
<1> QED BY <1>1, <1>2, ClaimChain, LookingChain, StepWritesChain, FindOwningChain, SettlingChain,
           CompleteChain, CoordinateChain DEF Worker

LEMMA AgeChain ==
  ASSUME TypeOK, NEW x \in Sessions, Age(x), NEW s \in Sessions, Chain(s)
  PROVE  Chain(s)'
<1>1. /\ UNCHANGED <<job, queue, pc, my>> /\ \A a \in Actors : pc[a] = "idle"
      /\ session'[s].status = session[s].status /\ session'[s].cards = session[s].cards
  BY TypeParts, AgeFacts
<1>2. \A a \in Actors : ~On(a, s)' /\ ~Starts(pc'[a], my'[a])
  BY <1>1, PlainPlaces, SharedPlaces DEF On, Starts, Starting
<1>3. Hands(s)' /\ Quiet(s)'
  BY <1>2 DEF Hands, Quiet, Starter
<1>4. Linked(s)' = Linked(s) /\ (Open(s)' <=> Open(s))
      /\ \A m \in Modules : (Live(s, m)' <=> Live(s, m)) /\ (AtWork(s, m)' <=> AtWork(s, m))
  BY <1>1 DEF Linked, Open, Live, AtWork
<1>5. \A m \in Modules : Passed(s, m)' <=> Passed(s, m)
  BY <1>1, <1>4 DEF Passed
<1>6. Unbroken(s)'
  BY <1>1, <1>4, <1>5 DEF Chain, Unbroken
<1> QED BY <1>3, <1>6 DEF Chain
-----------------------------------------------------------------------------
LEMMA DoubledGrows ==
  ASSUME [Next]_vars
  PROVE  doubled \subseteq doubled'
<1>1. UNCHANGED bounds => doubled \subseteq doubled'
  BY DEF bounds
<1>2. ASSUME NEW a \in Actors, Coordinate(a) PROVE doubled \subseteq doubled'
  BY <1>1, <1>2 DEF Coordinate, CloseSession, CreateJob, SetPending, ReadStatus, Enqueue, Write
<1>3. ASSUME NEW u \in Users, User(u) PROVE doubled \subseteq doubled'
  <2>1. CASE Create(u) \/ \E kind \in {"poll", "cancel", "retry"}, s \in Sessions : Read(u, kind, s)
    BY <2>1 DEF Create, Read, Request
  <2>2. CASE Look(u) \/ Begin(u) \/ PlanCancel(u) \/ PlanRetry(u) \/ Resume(u)
    BY <1>1, <2>2 DEF Look, Begin, PlanCancel, PlanRetry, Resume, Decide
  <2>3. CASE Find(u) \/ Insert(u) \/ WriteCancel(u) \/ Withdraw(u) \/ Reread(u) \/ WriteRetry(u)
    BY <1>1, <2>3 DEF Find, Insert, WriteCancel, Withdraw, Reread, WriteRetry
  <2>4. CASE \E m \in Modules : CancelJob(u, m) \/ RetryJob(u, m)
    BY <1>1, <2>4 DEF CancelJob, RetryJob, TakeJob
  <2> QED BY <1>2, <1>3, <2>1, <2>2, <2>3, <2>4 DEF User, Actors
<1>4. ASSUME NEW w \in Workers, Worker(w) PROVE doubled \subseteq doubled'
  <2>1. CASE \E s \in Sessions, m \in Modules : Claim(w, s, m)
    BY <2>1 DEF Claim
  <2>2. CASE Start(w) \/ Gate(w) \/ Hook(w) \/ Reconcile(w) \/ Advance(w) \/ Complete(w)
    BY <1>1, <2>2 DEF Start, Gate, Hook, Reconcile, Advance, FindOwning, Complete
  <2>3. CASE Stop(w) \/ Process(w) \/ Finish(w)
    BY <2>3 DEF Stop, Process, Finish, StepWrites
  <2>4. CASE Conclude(w) \/ MoveOn(w)
    BY <1>1, <2>4 DEF Conclude, MoveOn, Decide
  <2> QED BY <1>2, <1>4, <2>1, <2>2, <2>3, <2>4 DEF Worker, Actors
<1>5. (\E a \in Actors : Crash(a)) \/ (\E s \in Sessions : Age(s)) \/ UNCHANGED vars
      => doubled \subseteq doubled'
  BY <1>1 DEF Crash, Age, vars, bounds
<1> QED BY <1>3, <1>4, <1>5 DEF Next

LEMMA FitWas ==
  ASSUME TypeOK, OrderInv, CalmInv, [Next]_vars, NEW s \in Sessions, Fit(s)'
  PROVE  Fit(s)
<1>1. Calm /\ Calm' /\ TablesCalm /\ ActorsCalm
  BY CalmWas DEF Fit, CalmInv
<1>2. ASSUME NEW m \in Modules, job[s][m] = "failed" PROVE job'[s][m] = "failed"
  <2>1. ASSUME NEW a \in Actors, CalmStep(a) PROVE job'[s][m] = "failed"
    BY <1>2, <2>1 DEF CalmStep, Lasts
  <2>2. (\E a \in Actors : Crash(a)) \/ (\E x \in Sessions : Age(x)) \/ UNCHANGED vars => UNCHANGED job
    BY DEF Crash, Age, vars, tables
  <2> QED BY <1>1, <1>2, <2>1, <2>2, UserCalm, WorkerCalm DEF Next, Actors
<1> QED BY <1>1, <1>2, DoubledGrows DEF Fit

LEMMA ChainInit == Init => ChainInv
<1> SUFFICES ASSUME Init, NEW s \in Sessions PROVE Chain(s)
  BY DEF ChainInv
<1>1. session[s] = NoRow /\ \A m \in Modules : job[s][m] = "none" /\ queue[s][m] = NoQueue
  BY DEF Init
<1>2. \A m \in Modules : ~Imported(job, s, m) /\ ~Live(s, m) /\ m \notin Linked(s)
  BY <1>1 DEF Imported, Live, Linked, Known, NoRow, NoQueue, AllReady
<1>3. \A a \in Actors : ~On(a, s)
  BY PlainPlaces DEF Init, On
<1>4. ~Begun(s)
  BY <1>1 DEF Begun, NoRow
<1> QED BY <1>2, <1>3, <1>4 DEF Chain, Unbroken, Hands

LEMMA ChainNext ==
  TypeOK /\ OrderInv /\ CalmInv /\ (Calm => Owned) /\ ChainInv /\ [Next]_vars => ChainInv'
<1> SUFFICES ASSUME TypeOK, OrderInv, CalmInv, Calm => Owned, ChainInv, [Next]_vars,
                    NEW s \in Sessions, Fit(s)'
             PROVE  Chain(s)'
  BY DEF ChainInv
<1>1. Fit(s) /\ Chain(s)
  BY FitWas DEF ChainInv
<1>2. TablesCalm /\ ActorsCalm /\ Owned
  BY <1>1 DEF Fit, CalmInv
<1>3. ASSUME NEW a \in Actors, ChainStep(s, a) PROVE Chain(s)'
  BY <1>1, <1>2, <1>3, ChainStays
<1>4. ASSUME NEW u \in Users, User(u) PROVE Chain(s)'
  BY <1>1, <1>2, <1>3, <1>4, UserChain, InsertChain DEF Actors
<1>5. ASSUME NEW w \in Workers, Worker(w) PROVE Chain(s)'
  BY <1>1, <1>2, <1>3, <1>5, WorkerChain DEF Actors
<1>6. ASSUME NEW a \in Actors, Crash(a) PROVE Chain(s)'
  BY <1>3, <1>6, TablesSame, ReturnChain DEF Crash
<1>7. CASE UNCHANGED vars
  <2>1. UNCHANGED <<session, job, queue, jobsOld, pc, my>>
    BY <1>7 DEF vars, tables
  <2>2. /\ Linked(s)' = Linked(s) /\ (Open(s)' <=> Open(s)) /\ (Begun(s)' <=> Begun(s))
        /\ \A m \in Modules : (Live(s, m)' <=> Live(s, m)) /\ (AtWork(s, m)' <=> AtWork(s, m))
    BY <2>1 DEF Linked, Open, Begun, Live, AtWork
  <2>3. \A m \in Modules : Passed(s, m)' <=> Passed(s, m)
    BY <2>1, <2>2 DEF Passed
  <2> QED BY <1>1, <2>1
     DEF Chain, Unbroken, Hands, Handles, Linked, Open, Begun, Live, AtWork, Passed, AllDone, Quiet,
         Starter, On
<1> QED BY <1>1, <1>4, <1>5, <1>6, <1>7, AgeChain DEF Next

(* The latest module that was imported has handed on.                      *)
LEMMA LatestImported ==
  ASSUME NEW s \in Sessions, NEW m \in Modules, Imported(job, s, m)
  PROVE  \E n \in Modules : /\ Imported(job, s, n)
                            /\ \A x \in Modules : Imported(job, s, x) => ~Earlier(x, n)
<1> DEFINE N == Len(Roster)
           T == {k \in 0 .. N : N - k \in DOMAIN Roster /\ Imported(job, s, Roster[N - k])}
<1>1. PICK i \in DOMAIN Roster : Roster[i] = m
  BY RosterFacts
<1>2. N \in Nat /\ DOMAIN Roster = 1 .. N
  BY RosterFacts
<1>3. N - i \in T
  BY <1>1, <1>2
<1>4. PICK k \in T : \A y \in T : k <= y
  <2>1. T \in SUBSET Nat /\ T # {}
    BY <1>2, <1>3
  <2> HIDE DEF T
  <2> QED BY <2>1, Least
<1> DEFINE n == Roster[N - k]
<1>5. n \in Modules /\ Imported(job, s, n) /\ N - k \in DOMAIN Roster /\ k \in 0 .. N
  BY <1>4, RosterFacts
<1>6. ASSUME NEW x \in Modules, Imported(job, s, x), Earlier(x, n) PROVE FALSE
  <2>1. PICK j, l \in DOMAIN Roster : Roster[j] = x /\ Roster[l] = n /\ l < j
    BY <1>6 DEF Earlier
  <2>2. l = N - k
    BY <1>5, <2>1, RosterAssumption
  <2>3. N - j \in 0 .. N /\ N - (N - j) = j /\ N - j < k
    BY <1>2, <1>5, <2>1, <2>2
  <2>4. N - j \in T
    BY <1>6, <2>1, <2>3
  <2>5. k <= N - j
    BY <1>4, <2>4
  <2> QED BY <1>2, <1>5, <2>1, <2>3, <2>5
<1> QED BY <1>5, <1>6

(* A running migration that has got past a module is not left behind:      *)
(* reconcile and advance (quickbooks-background-migration.ts) leave the    *)
(* queue row of the next module before theirs goes, in whatever order the  *)
(* handlers of a session read and write it, and wherever they crash.       *)
THEOREM MigrationIsNotStranded == Spec => []NotStranded
<1>1. TypeOK /\ ChainInv => NotStranded
  <2> SUFFICES ASSUME TypeOK, ChainInv, NEW s \in Sessions, Running(s),
                      \E m \in Modules : job[s][m] = "completed",
                      \A m \in Modules : job[s][m] # "failed",
                      asked \cap {"cancel", "retry"} = {}, overtaken = 0, s \notin doubled,
                      Active(s) = {}
               PROVE  FALSE
    BY DEF NotStranded
  <2>1. Unbroken(s)
    BY DEF ChainInv, Fit, Calm, Chain
  <2>2. PICK n \in Modules : /\ Imported(job, s, n)
                             /\ \A x \in Modules : Imported(job, s, x) => ~Earlier(x, n)
    BY LatestImported DEF Imported
  <2>3. \A m \in Modules : ~Live(s, m)
    BY DEF Active, Live
  <2> QED BY <2>1, <2>2, <2>3 DEF Unbroken, Passed, Running
<1>2. Init => TypeOK /\ OrderInv /\ CalmInv /\ (Calm => Owned) /\ ChainInv
  BY OrderInit, CalmInit, OwnedInit, ChainInit
<1> QED BY <1>1, <1>2, OrderStep, CalmNext, OwnedNext, ChainNext, PTL DEF Spec
===============================================================================
