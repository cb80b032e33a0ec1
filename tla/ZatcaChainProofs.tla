---------------------------- MODULE ZatcaChainProofs ----------------------------
(* TLAPS proofs about ZatcaChain, for every set of users, every number of  *)
(* invoices and every bound.                                               *)
EXTENDS ZatcaChain, FiniteSetTheorems, WellFoundedInduction, TLAPS

(* The documents and hashes of a sequence m of documents.                  *)
Marks(m)   == DOMAIN m \cup {0}
RowType(m) == [status : Statuses, hash : Marks(m), previous : Marks(m), signed : Marks(m),
               contents : 0 .. MaxRequests, deleted : BOOLEAN]
HeldType(m) == [kind : {"submit", "view"}, on : Ids, previous : Marks(m), contents : 0 .. MaxRequests,
                icv : 0 .. NInvoices, pih : Marks(m), link : Marks(m), doc : Marks(m)]

DocsOK     == made \in Seq(Documents) /\ accepted \subseteq sent /\ sent \subseteq Hashes
RowsOK     == row \in [Ids -> RowType(made)] /\ \A i \in Ids : row[i].contents <= requests
HandlersOK == pc \in [Users -> PCs] /\ my \in [Users -> HeldType(made)]
BoundsOK   == requests \in 0 .. MaxRequests /\ others \in 0 .. MaxOthers /\ stops \in 0 .. MaxStops
HistoryOK  == /\ raced \subseteq Ids /\ lost \subseteq Ids /\ viewed \subseteq Ids /\ crossed \subseteq Ids
              /\ shuffled \in BOOLEAN

(* A handler that has a document has one of its invoice, and what only a   *)
(* submission does is done by one.                                         *)
Submission == {"verify", "check", "pend", "keep", "send", "record", "audit", "fail"}

Held(m, l, r) ==
  /\ l \in {"keep", "send", "record"} => r.doc \in DOMAIN m /\ m[r.doc].of = r.on
  /\ l \in Submission => r.kind = "submit"

Holding == \A u \in Users : Held(made, pc[u], my[u])
TypeInv == DocsOK /\ RowsOK /\ HandlersOK /\ BoundsOK /\ HistoryOK /\ Holding

LEMMA TypeSuffices == TypeInv => TypeOK
BY DEF TypeInv, DocsOK, RowsOK, HandlersOK, BoundsOK, HistoryOK, TypeOK, RowType, HeldType, Marks, Hashes, Kinds

-----------------------------------------------------------------------------
(* The greatest of some of the numbers from 1 to n.                        *)
LEMMA Greatest ==
  ASSUME NEW n \in Nat, NEW T \in SUBSET (1 .. n), T # {}
  PROVE  \E x \in T : \A y \in T : y <= x
<1> DEFINE R == {ss \in Nat \X Nat : ss[1] < ss[2]}
           D == {n - y : y \in T}
<1>1. IsWellFoundedOn(R, Nat)
  BY NatLessThanWellFounded DEF OpToRel
<1> HIDE DEF R
<1>2. D \in SUBSET Nat /\ D # {}
  OBVIOUS
<1> HIDE DEF D
<1>3. PICK d \in D : \A e \in D : ~(<<e, d>> \in R)
  BY <1>1, <1>2, WFMin
<1>4. PICK x \in T : d = n - x
  BY DEF D
<1>5. ASSUME NEW y \in T PROVE y <= x
  <2>1. n - y \in D /\ n - y \in Nat /\ d \in Nat
    BY <1>2, <1>4 DEF D
  <2>2. ~(n - y < d)
    BY <1>3, <2>1 DEF R
  <2> QED BY <1>4, <2>2
<1> QED BY <1>5

LEMMA PriorFacts ==
  ASSUME TypeInv, NEW i \in Ids
  PROVE  Prior(i) \in Marks(made) /\ PriorOf(i) \in Marks(made)
<1> DEFINE before == {j \in 1 .. i - 1 : Hashed(j)}
<1>1. i \in Nat /\ i - 1 \in Nat /\ 1 .. i - 1 \subseteq Ids
  BY InvoicesAssumption DEF Ids
<1>2. CASE before = {}
  BY <1>2 DEF Prior, PriorOf, Marks
<1>3. CASE before # {}
  <2> DEFINE j == CHOOSE j \in before : \A k \in before : k <= j
  <2>1. j \in before
    BY <1>1, <1>3, Greatest
  <2> HIDE DEF j
  <2>2. j \in Ids
    BY <1>1, <2>1
  <2>3. row[j].hash \in Marks(made)
    BY <2>2 DEF TypeInv, RowsOK, RowType
  <2> QED BY <1>3, <2>3 DEF Prior, PriorOf, Marks, j
<1> QED BY <1>2, <1>3

LEMMA CounterFacts ==
  ASSUME NEW i \in Ids
  PROVE  NextCounter(i) \in 0 .. NInvoices
<1> DEFINE T == {j \in Ids \ {i} : Hashed(j)}
<1>1. IsFiniteSet(Ids) /\ Cardinality(Ids) = NInvoices
  BY InvoicesAssumption, FS_Interval DEF Ids
<1>2. IsFiniteSet(Ids \ {i}) /\ Cardinality(Ids \ {i}) = NInvoices - 1
  BY <1>1, FS_RemoveElement
<1>3. IsFiniteSet(T) /\ Cardinality(T) <= Cardinality(Ids \ {i}) /\ Cardinality(T) \in Nat
  BY <1>2, FS_Subset, FS_CardinalityType
<1> QED BY <1>2, <1>3, InvoicesAssumption DEF NextCounter

-----------------------------------------------------------------------------
(* What a step does to the documents: those that were made stay.           *)
Grows == /\ DOMAIN made \subseteq DOMAIN made'
         /\ \A n \in DOMAIN made : made'[n] = made[n]

LEMMA HeldStays ==
  ASSUME Grows, NEW l, NEW r, Held(made, l, r)
  PROVE  Held(made', l, r)
BY DEF Grows, Held

LEMMA TypesGrow ==
  ASSUME Grows
  PROVE  RowType(made) \subseteq RowType(made') /\ HeldType(made) \subseteq HeldType(made')
BY DEF Grows, RowType, HeldType, Marks

Turns(u) ==
  \E l \in PCs, r \in HeldType(made') : Goto(u, l) /\ Become(u, r) /\ Held(made', l, r)

LEMMA HandlersStay ==
  ASSUME HandlersOK, Holding, Grows, NEW u \in Users, Turns(u)
  PROVE  HandlersOK' /\ Holding'
<1>1. PICK l \in PCs, r \in HeldType(made') : Goto(u, l) /\ Become(u, r) /\ Held(made', l, r)
  BY DEF Turns
<1>2. my \in [Users -> HeldType(made')]
  BY TypesGrow DEF HandlersOK
<1>3. HandlersOK'
  BY <1>1, <1>2 DEF HandlersOK, Goto, Become
<1>4. ASSUME NEW v \in Users PROVE Held(made', pc'[v], my'[v])
  <2>1. CASE v = u
    BY <1>1, <1>2, <2>1 DEF HandlersOK, Goto, Become
  <2>2. CASE v # u
    <3>1. pc'[v] = pc[v] /\ my'[v] = my[v]
      BY <1>1, <1>2, <2>2 DEF HandlersOK, Goto, Become
    <3> QED BY <3>1, HeldStays DEF Holding
  <2> QED BY <2>1, <2>2
<1> QED BY <1>3, <1>4 DEF Holding

LEMMA FreshType == Fresh \in HeldType(made) /\ Fresh.kind = "submit"
BY InvoicesAssumption, BoundAssumption DEF Fresh, HeldType, Kinds, Ids, Marks

LEMMA ReturnTurns ==
  ASSUME NEW u \in Users, Return(u), Grows
  PROVE  Turns(u)
<1>1. Fresh \in HeldType(made')
  BY FreshType, TypesGrow
<1>2. Held(made', "idle", Fresh)
  BY DEF Held, Submission
<1> QED BY <1>1, <1>2 DEF Return, Turns, PCs

LEMMA GoesTo ==
  ASSUME HandlersOK, NEW u \in Users, NEW l \in PCs, Goto(u, l), UNCHANGED <<my, made>>,
         Held(made, l, my[u])
  PROVE  Turns(u)
BY DEF Turns, HandlersOK, Become

LEMMA GiveUpTurns ==
  ASSUME HandlersOK, NEW u \in Users, GiveUp(u), UNCHANGED made
  PROVE  Turns(u)
<1>1. CASE my[u].kind = "submit"
  <2>1. Held(made, "fail", my[u])
    BY <1>1 DEF Held
  <2> QED BY <1>1, <2>1, GoesTo DEF GiveUp, PCs
<1>2. CASE my[u].kind # "submit"
  BY <1>2, ReturnTurns DEF GiveUp, Grows
<1> QED BY <1>1, <1>2

(* What a step of a user has to show.                                      *)
StepOK(u) == DocsOK' /\ RowsOK' /\ BoundsOK' /\ HistoryOK' /\ Grows /\ Turns(u)

(* A step that changes no table but the rows, and those at their type.     *)
LEMMA RowStep ==
  ASSUME TypeInv, UNCHANGED <<made, sent, accepted, requests>>,
         NEW i \in Ids, NEW new \in RowType(made), new.contents <= requests,
         UNCHANGED row \/ row' = [row EXCEPT ![i] = new]
  PROVE  DocsOK' /\ RowsOK' /\ Grows
BY DEF TypeInv, DocsOK, RowsOK, Grows, Hashes

LEMMA StillStep ==
  ASSUME TypeInv, UNCHANGED <<row, made, sent, accepted>>, requests' \in Nat, requests <= requests'
  PROVE  DocsOK' /\ RowsOK' /\ Grows
<1>1. ASSUME NEW i \in Ids PROVE row'[i].contents <= requests'
  <2>1. row[i].contents \in Nat /\ row[i].contents <= requests /\ requests \in Nat
    BY DEF TypeInv, RowsOK, RowType, BoundsOK
  <2> QED BY <2>1
<1> QED BY <1>1 DEF TypeInv, DocsOK, RowsOK, Grows, Hashes

LEMMA ArriveFacts ==
  ASSUME TypeInv, NEW u, NEW kind, NEW i, Arrive(u, kind, i), UNCHANGED stops
  PROVE  BoundsOK' /\ requests' = requests + 1 /\ requests' \in Nat /\ requests <= requests'
         /\ requests' <= MaxRequests
BY BoundAssumption DEF TypeInv, BoundsOK, Arrive

LEMMA SubmitType ==
  ASSUME TypeInv, NEW u \in Users, NEW i \in Ids, Submit(u, i)
  PROVE  StepOK(u)
<1>1. BoundsOK' /\ DocsOK' /\ RowsOK' /\ Grows
  BY ArriveFacts, StillStep DEF Submit, zatca
<1>2. HistoryOK'
  BY DEF Submit, TypeInv, HistoryOK
<1>3. [Fresh EXCEPT !.on = i] \in HeldType(made) /\ [Fresh EXCEPT !.on = i].kind = "submit"
  BY FreshType DEF HeldType
<1>4. Held(made', "verify", [Fresh EXCEPT !.on = i])
  BY <1>3 DEF Held
<1>5. Turns(u)
  BY <1>1, <1>3, <1>4, TypesGrow DEF Submit, Turns, PCs
<1> QED BY <1>1, <1>2, <1>5 DEF StepOK

LEMMA ViewType ==
  ASSUME TypeInv, NEW u \in Users, NEW i \in Ids, View(u, i)
  PROVE  StepOK(u)
<1>1. BoundsOK' /\ DocsOK' /\ RowsOK' /\ Grows
  BY ArriveFacts, StillStep DEF View, zatca
<1>2. HistoryOK'
  BY DEF View, TypeInv, HistoryOK, history
<1>3. [Fresh EXCEPT !.on = i, !.kind = "view"] \in HeldType(made)
  BY FreshType DEF HeldType, Kinds
<1>4. Held(made', "load", [Fresh EXCEPT !.on = i, !.kind = "view"])
  BY DEF Held, Submission
<1>5. Turns(u)
  BY <1>1, <1>3, <1>4, TypesGrow DEF View, Turns, PCs
<1> QED BY <1>1, <1>2, <1>5 DEF StepOK

(* An edit or a delete leaves the handlers alone.                          *)
LEMMA EditType ==
  ASSUME TypeInv, NEW u \in Users, NEW i \in Ids, Edit(u, i) \/ Delete(u, i)
  PROVE  TypeInv'
<1>1. BoundsOK' /\ requests' = requests + 1 /\ requests' <= MaxRequests
      /\ UNCHANGED <<made, sent, accepted, pc, my>>
  BY ArriveFacts DEF Edit, Delete, zatca
<1>2. DocsOK' /\ HandlersOK' /\ Holding'
  BY <1>1 DEF TypeInv, DocsOK, Hashes, HandlersOK, Holding
<1>3. HistoryOK'
  <2>1. CASE Edit(u, i)
    BY <2>1 DEF Edit, history, TypeInv, HistoryOK
  <2>2. CASE Delete(u, i)
    BY <2>2 DEF Delete, Crosses, After, TypeInv, HistoryOK
  <2> QED BY <2>1, <2>2
<1>4. \A j \in Ids : row[j] \in RowType(made) /\ row[j].contents \in Nat
                     /\ row[j].contents <= requests /\ requests \in Nat
  BY DEF TypeInv, RowsOK, RowType, BoundsOK
<1>5. CASE Edit(u, i)
  <2> DEFINE new == [row[i] EXCEPT !.contents = row[i].contents + 1]
  <2>1. row' = [row EXCEPT ![i] = new]
    BY <1>5 DEF Edit, TypeInv, RowsOK
  <2>2. row[i].contents + 1 \in 0 .. MaxRequests
    BY <1>1, <1>4, BoundAssumption
  <2>3. new \in RowType(made) /\ new.contents = row[i].contents + 1
    BY <1>4, <2>2 DEF RowType
  <2> HIDE DEF new
  <2>4. row' \in [Ids -> RowType(made)]
    BY <2>1, <2>3 DEF TypeInv, RowsOK
  <2>5. \A j \in Ids : row'[j].contents <= requests'
    BY <1>1, <1>4, <2>1, <2>3 DEF TypeInv, RowsOK
  <2>6. RowsOK'
    BY <1>1, <2>4, <2>5 DEF RowsOK
  <2> QED BY <1>1, <1>2, <1>3, <2>6 DEF TypeInv
<1>6. CASE Delete(u, i)
  <2> DEFINE new == [row[i] EXCEPT !.deleted = TRUE]
  <2>1. row' = [row EXCEPT ![i] = new]
    BY <1>6 DEF Delete
  <2>2. new \in RowType(made) /\ new.contents = row[i].contents
    BY <1>4 DEF RowType
  <2> HIDE DEF new
  <2>3. row' \in [Ids -> RowType(made)]
    BY <2>1, <2>2 DEF TypeInv, RowsOK
  <2>4. \A j \in Ids : row'[j].contents <= requests'
    BY <1>1, <1>4, <2>1, <2>2 DEF TypeInv, RowsOK
  <2>5. RowsOK'
    BY <1>1, <2>3, <2>4 DEF RowsOK
  <2> QED BY <1>1, <1>2, <1>3, <2>5 DEF TypeInv
<1> QED BY <1>5, <1>6

LEMMA MyFacts ==
  ASSUME TypeInv, NEW u \in Users
  PROVE  /\ my[u] \in HeldType(made) /\ my[u].on \in Ids /\ row[my[u].on] \in RowType(made)
         /\ row[my[u].on].contents <= requests
         /\ Held(made, pc[u], my[u]) /\ HandlersOK
BY DEF TypeInv, HandlersOK, RowsOK, HeldType, Holding

LEMMA BoundsStand ==
  ASSUME TypeInv, UNCHANGED bounds
  PROVE  BoundsOK' /\ requests' \in Nat /\ requests <= requests'
BY BoundAssumption DEF TypeInv, BoundsOK, bounds

LEMMA HistoryStands == ASSUME TypeInv, UNCHANGED history PROVE HistoryOK'
BY DEF TypeInv, HistoryOK, history

(* The steps that only read.                                               *)
LEMMA ReadType ==
  ASSUME TypeInv, NEW u \in Users,
         Verify(u) \/ Check(u) \/ Load(u) \/ Count(u) \/ Generate(u) \/ Again(u) \/ Audit(u)
  PROVE  StepOK(u)
<1>1. UNCHANGED <<row, made, sent, accepted>> /\ UNCHANGED bounds /\ UNCHANGED history
  BY DEF Verify, Check, Load, Count, Generate, Again, Audit, zatca
<1>2. BoundsOK' /\ HistoryOK' /\ DocsOK' /\ RowsOK' /\ Grows
  BY <1>1, BoundsStand, HistoryStands, StillStep
<1>3. /\ my[u] \in HeldType(made) /\ my[u].on \in Ids /\ row[my[u].on] \in RowType(made)
      /\ Held(made, pc[u], my[u]) /\ HandlersOK
  BY MyFacts
<1>4. ASSUME NEW l \in PCs, NEW r \in HeldType(made), Goto(u, l), Become(u, r),
             l \notin {"keep", "send", "record"}, l \in Submission => r.kind = "submit"
      PROVE  Turns(u)
  BY <1>1, <1>4 DEF Turns, Held
<1>5. CASE Verify(u)
  <2> DEFINE r == [my[u] EXCEPT !.previous = row[my[u].on].previous]
  <2>1. r \in HeldType(made) /\ r.kind = "submit"
    BY <1>3, <1>5 DEF HeldType, RowType, Held, Verify, Submission
  <2> QED BY <1>2, <1>4, <1>5, <2>1 DEF Verify, StepOK, PCs
<1>6. CASE Check(u)
  <2> DEFINE r == [my[u] EXCEPT !.previous = 0]
  <2>1. r \in HeldType(made) /\ r.kind = "submit"
    BY <1>3, <1>6 DEF HeldType, Marks, Held, Check, Submission
  <2>2. Return(u) \/ (Goto(u, "pend") /\ Become(u, r))
    BY <1>6 DEF Check
  <2> QED BY <1>2, <1>4, <2>1, <2>2, ReturnTurns DEF StepOK, PCs
<1>7. CASE Load(u)
  <2> DEFINE r == [my[u] EXCEPT !.contents = row[my[u].on].contents]
  <2>1. r \in HeldType(made)
    BY <1>3 DEF HeldType, RowType
  <2>2. GiveUp(u) \/ (Goto(u, "count") /\ Become(u, r))
    BY <1>7 DEF Load
  <2> QED BY <1>1, <1>2, <1>3, <1>4, <2>1, <2>2, GiveUpTurns DEF StepOK, PCs, Submission
<1>8. CASE Count(u)
  <2> DEFINE r == [my[u] EXCEPT !.icv = NextCounter(my[u].on)]
  <2>1. r \in HeldType(made)
    BY <1>3, CounterFacts DEF HeldType
  <2> QED BY <1>2, <1>4, <1>8, <2>1 DEF Count, StepOK, PCs, Submission
<1>9. CASE Generate(u)
  <2> DEFINE r == [my[u] EXCEPT !.pih = PriorOf(my[u].on)]
  <2>1. r \in HeldType(made)
    BY <1>3, PriorFacts DEF HeldType
  <2>2. GiveUp(u) \/ (Goto(u, "again") /\ Become(u, r))
    BY <1>9 DEF Generate
  <2> QED BY <1>1, <1>2, <1>3, <1>4, <2>1, <2>2, GiveUpTurns DEF StepOK, PCs, Submission
<1>10. CASE Again(u)
  <2> DEFINE r == [my[u] EXCEPT !.link = PriorOf(my[u].on)]
  <2>1. r \in HeldType(made)
    BY <1>3, PriorFacts DEF HeldType
  <2> QED BY <1>2, <1>4, <1>10, <2>1 DEF Again, StepOK, PCs, Submission
<1>11. CASE Audit(u)
  BY <1>2, <1>11, ReturnTurns DEF Audit, StepOK
<1> QED BY <1>5, <1>6, <1>7, <1>8, <1>9, <1>10, <1>11

(* The steps that write the status of the row or its signed document.      *)
LEMMA WriteType ==
  ASSUME TypeInv, NEW u \in Users, Pend(u) \/ Keep(u) \/ Record(u) \/ RecordFailure(u)
  PROVE  StepOK(u)
<1> DEFINE i == my[u].on
<1>1. UNCHANGED <<made, sent, accepted>> /\ UNCHANGED bounds
  BY DEF Pend, Keep, Record, RecordFailure, zatca
<1>2. /\ my[u] \in HeldType(made) /\ i \in Ids /\ row[i] \in RowType(made)
      /\ row[i].contents <= requests /\ Held(made, pc[u], my[u]) /\ HandlersOK
  BY MyFacts
<1>3. BoundsOK' /\ UNCHANGED requests
  BY <1>1, BoundsStand DEF bounds
<1>4. HistoryOK'
  BY <1>2 DEF Pend, Keep, Record, RecordFailure, history, TypeInv, HistoryOK
<1>5. ASSUME NEW status \in Statuses, NEW signed \in Marks(made),
             UNCHANGED row \/ row' = [row EXCEPT ![i] = [row[i] EXCEPT !.status = status, !.signed = signed]]
      PROVE  DocsOK' /\ RowsOK' /\ Grows
  <2> DEFINE new == [row[i] EXCEPT !.status = status, !.signed = signed]
  <2>1. new \in RowType(made) /\ new.contents = row[i].contents
    BY <1>2 DEF RowType
  <2> HIDE DEF new
  <2> QED BY <1>1, <1>2, <1>3, <1>5, <2>1, RowStep DEF new
<1>6. Grows
  BY <1>1 DEF Grows
<1>7. row[i].status \in Statuses /\ row[i].signed \in Marks(made) /\ my[u].doc \in Marks(made)
      /\ row \in [Ids -> RowType(made)]
  BY <1>2 DEF RowType, HeldType, TypeInv, RowsOK
<1>8. CASE Pend(u)
  <2>1. \/ UNCHANGED row
        \/ row' = [row EXCEPT ![i] = [row[i] EXCEPT !.status = "PENDING", !.signed = row[i].signed]]
    BY <1>2, <1>7, <1>8 DEF Pend, RowType
  <2>2. DocsOK' /\ RowsOK'
    BY <1>5, <1>7, <2>1 DEF Statuses
  <2>3. Turns(u)
    BY <1>1, <1>2, <1>6, <1>8, ReturnTurns, GoesTo DEF Pend, Held, PCs, Submission
  <2> QED BY <1>3, <1>4, <1>6, <2>2, <2>3 DEF StepOK
<1>9. CASE Keep(u)
  <2>1. \/ UNCHANGED row
        \/ row' = [row EXCEPT ![i] = [row[i] EXCEPT !.status = row[i].status, !.signed = my[u].doc]]
    BY <1>2, <1>7, <1>9 DEF Keep, RowType
  <2>2. DocsOK' /\ RowsOK'
    BY <1>5, <1>7, <2>1
  <2>3. Turns(u)
    BY <1>1, <1>2, <1>6, <1>9, GoesTo DEF Keep, Held, PCs, Submission
  <2> QED BY <1>3, <1>4, <1>6, <2>2, <2>3 DEF StepOK
<1>10. CASE Record(u)
  <2>1. \/ UNCHANGED row
        \/ row' = [row EXCEPT ![i] = [row[i] EXCEPT !.status = "SUBMITTED", !.signed = my[u].doc]]
    BY <1>2, <1>7, <1>10 DEF Record, RowType
  <2>2. DocsOK' /\ RowsOK'
    BY <1>5, <1>7, <2>1 DEF Statuses
  <2>3. Turns(u)
    BY <1>1, <1>2, <1>6, <1>10, GoesTo DEF Record, Held, PCs, Submission
  <2> QED BY <1>3, <1>4, <1>6, <2>2, <2>3 DEF StepOK
<1>11. CASE RecordFailure(u)
  <2>1. \/ UNCHANGED row
        \/ row' = [row EXCEPT ![i] = [row[i] EXCEPT !.status = "FAILED", !.signed = row[i].signed]]
    BY <1>2, <1>7, <1>11 DEF RecordFailure, RowType
  <2>2. DocsOK' /\ RowsOK'
    BY <1>5, <1>7, <2>1 DEF Statuses
  <2>3. Turns(u)
    BY <1>6, <1>11, ReturnTurns DEF RecordFailure
  <2> QED BY <1>3, <1>4, <1>6, <2>2, <2>3 DEF StepOK
<1> QED BY <1>8, <1>9, <1>10, <1>11

LEMMA SendType ==
  ASSUME TypeInv, NEW u \in Users, Send(u)
  PROVE  StepOK(u)
<1>1. UNCHANGED <<row, made, my>> /\ UNCHANGED bounds /\ Grows
  BY DEF Send, Grows
<1>2. my[u].on \in Ids /\ HandlersOK /\ my[u].doc \in DOMAIN made /\ made[my[u].doc].of = my[u].on
      /\ my[u].kind = "submit"
  BY MyFacts DEF Send, Held, Submission
<1>3. BoundsOK' /\ RowsOK'
  BY <1>1, BoundsStand DEF TypeInv, RowsOK, bounds
<1>4. HistoryOK'
  BY <1>2 DEF Send, TypeInv, HistoryOK
<1>5. DocsOK'
  BY <1>1, <1>2 DEF Send, TypeInv, DocsOK, Hashes
<1>6. Turns(u)
  BY <1>1, <1>2, GoesTo DEF Send, PCs, Held, Submission
<1> QED BY <1>1, <1>3, <1>4, <1>5, <1>6 DEF StepOK

(* The document that is persisted: its hash is that of an equal document   *)
(* that was made before, or the next.                                      *)
LEMMA Persisted ==
  ASSUME DocsOK, NEW d \in Documents
  PROVE  LET known == \E n \in DOMAIN made : made[n] = d
             hash == IF known THEN CHOOSE n \in DOMAIN made : made[n] = d ELSE Len(made) + 1
             after == IF known THEN made ELSE Append(made, d) IN
         /\ after \in Seq(Documents) /\ hash \in DOMAIN after /\ hash # 0 /\ after[hash] = d
         /\ DOMAIN made \subseteq DOMAIN after
         /\ \A n \in DOMAIN made : after[n] = made[n]
<1>1. made \in Seq(Documents) /\ DOMAIN made = 1 .. Len(made) /\ Len(made) \in Nat
  BY DEF DocsOK
<1>2. CASE \E n \in DOMAIN made : made[n] = d
  BY <1>1, <1>2
<1>3. CASE ~\E n \in DOMAIN made : made[n] = d
  <2>1. Append(made, d) \in Seq(Documents) /\ Len(Append(made, d)) = Len(made) + 1
    BY <1>1
  <2>2. \A n \in 1 .. Len(made) : Append(made, d)[n] = made[n]
    BY <1>1
  <2>3. Append(made, d)[Len(made) + 1] = d
    BY <1>1
  <2>4. DOMAIN Append(made, d) = 1 .. Len(made) + 1
    BY <2>1
  <2> QED BY <1>1, <1>3, <2>1, <2>2, <2>3, <2>4
<1> QED BY <1>2, <1>3

(* What a step that persists does.                                         *)
LEMMA PersistFacts ==
  ASSUME TypeInv, NEW u \in Users, Persist(u), ~row[my[u].on].deleted
  PROVE  \E hash \in DOMAIN made' :
           /\ made' \in Seq(Documents) /\ hash # 0 /\ made'[hash] = Document(u) /\ Grows
           /\ row' = [row EXCEPT ![my[u].on] =
                        [row[my[u].on] EXCEPT !.hash = hash, !.previous = my[u].link]]
           /\ IF my[u].kind = "view" THEN Return(u)
              ELSE Become(u, [Fresh EXCEPT !.on = my[u].on, !.doc = hash]) /\ Goto(u, "keep")
           /\ viewed' = IF my[u].kind = "view" THEN viewed \cup {my[u].on} ELSE viewed
           /\ Crosses(my[u].on) /\ UNCHANGED <<raced, lost>>
           /\ shuffled' = (shuffled \/ row[my[u].on].hash \notin {0, hash}
                             \/ (\E j \in my[u].on + 1 .. NInvoices : Hashed(j))
                             \/ After(my[u].on, Looking \cup {"persist"}) # {})
<1> DEFINE i == my[u].on
           d == Document(u)
           known == \E n \in DOMAIN made : made[n] = d
           hash == IF known THEN CHOOSE n \in DOMAIN made : made[n] = d ELSE Len(made) + 1
           after == IF known THEN made ELSE Append(made, d)
<1>1. d \in Documents
  <2>1. /\ my[u].on \in Ids /\ my[u].contents \in 0 .. MaxRequests /\ my[u].icv \in 0 .. NInvoices
        /\ my[u].pih \in DOMAIN made \cup {0}
    BY MyFacts DEF HeldType, Marks
  <2>2. DOMAIN made \subseteq Nat
    BY DEF TypeInv, DocsOK
  <2> QED BY <2>1, <2>2, InvoicesAssumption, BoundAssumption DEF Document, Documents
<1> HIDE DEF d
<1>2. /\ after \in Seq(Documents) /\ hash \in DOMAIN after /\ hash # 0 /\ after[hash] = d
      /\ DOMAIN made \subseteq DOMAIN after
      /\ \A n \in DOMAIN made : after[n] = made[n]
  BY <1>1, Persisted DEF TypeInv
<1>3. /\ row' = [row EXCEPT ![i].hash = hash, ![i].previous = my[u].link] /\ made' = after
      /\ IF my[u].kind = "view" THEN Return(u)
         ELSE Become(u, [Fresh EXCEPT !.on = i, !.doc = hash]) /\ Goto(u, "keep")
      /\ viewed' = IF my[u].kind = "view" THEN viewed \cup {i} ELSE viewed
      /\ Crosses(i) /\ UNCHANGED <<raced, lost>>
      /\ shuffled' = (shuffled \/ row[i].hash \notin {0, hash}
                        \/ (\E j \in i + 1 .. NInvoices : Hashed(j))
                        \/ After(i, Looking \cup {"persist"}) # {})
  BY DEF Persist, d
<1> HIDE DEF hash, after
<1>4. row[i] \in RowType(made) /\ row \in [Ids -> RowType(made)] /\ i \in Ids
  BY MyFacts DEF TypeInv, RowsOK
<1>5. row' = [row EXCEPT ![i] = [row[i] EXCEPT !.hash = hash, !.previous = my[u].link]]
  BY <1>3, <1>4 DEF RowType
<1>6. Grows
  BY <1>2, <1>3 DEF Grows
<1> QED BY <1>2, <1>3, <1>5, <1>6 DEF d

LEMMA PersistType ==
  ASSUME TypeInv, NEW u \in Users, Persist(u)
  PROVE  StepOK(u)
<1> DEFINE i == my[u].on
<1>1. UNCHANGED <<sent, accepted>> /\ UNCHANGED bounds
  BY DEF Persist
<1>2. /\ my[u] \in HeldType(made) /\ i \in Ids /\ row[i] \in RowType(made)
      /\ row[i].contents <= requests /\ HandlersOK
  BY MyFacts
<1>3. BoundsOK' /\ requests' \in Nat /\ requests <= requests' /\ UNCHANGED requests
  BY <1>1, BoundsStand DEF bounds
<1>4. CASE row[i].deleted
  <2>1. GiveUp(u) /\ UNCHANGED <<row, made>> /\ UNCHANGED history
    BY <1>4 DEF Persist
  <2> QED BY <1>1, <1>2, <1>3, <2>1, StillStep, HistoryStands, GiveUpTurns DEF StepOK
<1>5. CASE ~row[i].deleted
  <2>1. PICK hash \in DOMAIN made' :
          /\ made' \in Seq(Documents) /\ hash # 0 /\ made'[hash] = Document(u) /\ Grows
          /\ row' = [row EXCEPT ![i] = [row[i] EXCEPT !.hash = hash, !.previous = my[u].link]]
          /\ IF my[u].kind = "view" THEN Return(u)
             ELSE Become(u, [Fresh EXCEPT !.on = i, !.doc = hash]) /\ Goto(u, "keep")
          /\ viewed' = IF my[u].kind = "view" THEN viewed \cup {i} ELSE viewed
          /\ Crosses(i) /\ UNCHANGED <<raced, lost>>
          /\ shuffled' = (shuffled \/ row[i].hash \notin {0, hash}
                            \/ (\E j \in i + 1 .. NInvoices : Hashed(j))
                            \/ After(i, Looking \cup {"persist"}) # {})
    BY <1>5, PersistFacts
  <2> DEFINE new == [row[i] EXCEPT !.hash = hash, !.previous = my[u].link]
             r == [Fresh EXCEPT !.on = i, !.doc = hash]
  <2>2. my[u].link \in Marks(made') /\ row[i] \in RowType(made')
    BY <1>2, <2>1, TypesGrow DEF HeldType, Marks, Grows
  <2>3. new \in RowType(made') /\ new.contents = row[i].contents
    BY <2>2 DEF RowType, Marks
  <2> HIDE DEF new
  <2>4. RowsOK'
    <3>1. row \in [Ids -> RowType(made')]
      BY <2>1, TypesGrow DEF TypeInv, RowsOK
    <3>2. row' = [row EXCEPT ![i] = new]
      BY <2>1 DEF new
    <3> QED BY <1>2, <1>3, <2>3, <3>1, <3>2 DEF RowsOK, TypeInv
  <2>5. DocsOK'
    BY <1>1, <2>1 DEF TypeInv, DocsOK, Hashes, Grows
  <2>6. HistoryOK'
    BY <1>2, <2>1 DEF TypeInv, HistoryOK, Crosses, After
  <2>7. Turns(u)
    <3>1. CASE my[u].kind = "view"
      BY <2>1, <3>1, ReturnTurns
    <3>2. CASE my[u].kind # "view"
      <4>1. Fresh \in HeldType(made')
        BY <2>1, FreshType, TypesGrow
      <4>2. r \in HeldType(made') /\ r.on = i /\ r.doc = hash /\ r.kind = "submit"
        BY <1>2, <4>1, FreshType DEF HeldType, Marks
      <4>3. Held(made', "keep", r)
        BY <2>1, <4>2 DEF Held, Document
      <4> QED BY <2>1, <3>2, <4>2, <4>3 DEF Turns, PCs
    <3> QED BY <3>1, <3>2
  <2> QED BY <1>3, <2>1, <2>4, <2>5, <2>6, <2>7 DEF StepOK
<1> QED BY <1>4, <1>5

(* A request that fails, and a process that stops.                         *)
LEMMA StopType ==
  ASSUME TypeInv, NEW u \in Users, DatabaseFails(u) \/ Crash(u)
  PROVE  StepOK(u)
<1>1. UNCHANGED <<row, made, sent, accepted, requests, raced, viewed, crossed, shuffled>>
  BY DEF DatabaseFails, Crash, zatca
<1>2. my[u].on \in Ids /\ HandlersOK
  BY MyFacts
<1>3. BoundsOK' /\ requests' \in Nat /\ requests <= requests'
  BY BoundAssumption DEF DatabaseFails, Crash, TypeInv, BoundsOK
<1>4. HistoryOK'
  BY <1>1, <1>2 DEF DatabaseFails, Crash, TypeInv, HistoryOK
<1>5. DocsOK' /\ RowsOK' /\ Grows
  BY <1>1, <1>3, StillStep
<1>6. Turns(u)
  BY <1>1, <1>2, <1>5, GiveUpTurns, ReturnTurns DEF DatabaseFails, Crash
<1> QED BY <1>3, <1>4, <1>5, <1>6 DEF StepOK

LEMMA TypeStep == TypeInv /\ [Next]_vars => TypeInv'
<1> SUFFICES ASSUME TypeInv, [Next]_vars PROVE TypeInv'
  OBVIOUS
<1>1. ASSUME NEW u \in Users, StepOK(u) PROVE TypeInv'
  BY <1>1, HandlersStay DEF TypeInv, StepOK
<1>2. ASSUME NEW u \in Users, Request(u) PROVE TypeInv'
  BY <1>1, <1>2, SubmitType, ViewType, EditType DEF Request
<1>3. ASSUME NEW u \in Users, Handle(u) PROVE TypeInv'
  BY <1>1, <1>3, ReadType, WriteType, SendType, PersistType DEF Handle
<1>4. ASSUME NEW u \in Users, DatabaseFails(u) \/ Crash(u) PROVE TypeInv'
  BY <1>1, <1>4, StopType
<1>5. CASE UNCHANGED vars
  BY <1>5 DEF vars, zatca, bounds, history, TypeInv, DocsOK, RowsOK, HandlersOK, BoundsOK,
     HistoryOK, Holding, Hashes
<1> QED BY <1>2, <1>3, <1>4, <1>5 DEF Next

LEMMA TypeInit == Init => TypeInv
<1> SUFFICES ASSUME Init PROVE TypeInv
  OBVIOUS
<1>1. made = << >> /\ sent = {} /\ accepted = {} /\ DocsOK
  BY DEF Init, DocsOK
<1>2. RowsOK
  BY BoundAssumption DEF Init, RowsOK, RowType, Statuses, Marks
<1>3. HandlersOK /\ Holding
  BY FreshType DEF Init, HandlersOK, PCs, Holding, Held, Submission
<1>4. BoundsOK
  BY BoundAssumption DEF Init, BoundsOK
<1>5. HistoryOK
  BY Zenon DEF Init, HistoryOK
<1> QED BY <1>1, <1>2, <1>3, <1>4, <1>5 DEF TypeInv

(* Rows, documents and handlers keep their types: a hash that a row or a   *)
(* handler has is of a document that was made, and ZATCA is sent no other. *)
THEOREM ZatcaTypeCorrect == Spec => []TypeOK
BY TypeInit, TypeStep, TypeSuffices, PTL DEF Spec

-----------------------------------------------------------------------------
(* One acceptance of an invoice.                                           *)

Submitting(l, r, i) == l # "idle" /\ r.on = i /\ r.kind = "submit"

(* One submission of it at a time.                                         *)
Alone(i) ==
  \A u, v \in Users : Submitting(pc[u], my[u], i) /\ Submitting(pc[v], my[v], i) => u = v

(* It was not accepted yet; or it was, and the submission that has the     *)
(* answer is still to record it; or that was recorded, and whoever did has *)
(* only the log to write.                                                  *)
Unanswered(i) ==
  /\ AcceptedOf(i) = {} /\ row[i].status # "SUBMITTED"
  /\ \A u \in Users : Submitting(pc[u], my[u], i) => pc[u] \notin {"record", "audit"}

Answered(i) ==
  /\ row[i].status # "SUBMITTED"
  /\ \E u \in Users : Submitting(pc[u], my[u], i) /\ pc[u] = "record" /\ AcceptedOf(i) = {my[u].doc}

Recorded(i) ==
  /\ row[i].status = "SUBMITTED" /\ AcceptedOf(i) = {row[i].signed}
  /\ \A u \in Users : Submitting(pc[u], my[u], i) => pc[u] = "audit"

AnswerInv ==
  \A i \in Ids : i \notin raced =>
    Alone(i) /\ (i \notin lost => Unanswered(i) \/ Answered(i) \/ Recorded(i))

LEMMA AnswerSuffices == AnswerInv => AcceptedOnce
<1> SUFFICES ASSUME AnswerInv, NEW i \in Ids \ (raced \cup lost)
             PROVE  /\ Cardinality(AcceptedOf(i)) <= 1
                    /\ row[i].status = "SUBMITTED" => AcceptedOf(i) = {row[i].signed}
                    /\ \A d \in AcceptedOf(i) :
                         \/ row[i].status = "SUBMITTED"
                         \/ \E u \in Users : pc[u] = "record" /\ my[u].doc = d
  BY DEF AcceptedOnce
<1>1. Unanswered(i) \/ Answered(i) \/ Recorded(i)
  BY DEF AnswerInv
<1>2. \A d : Cardinality({d}) = 1
  BY FS_Singleton
<1>3. CASE Unanswered(i)
  BY <1>3, FS_EmptySet DEF Unanswered
<1>4. CASE Answered(i)
  BY <1>2, <1>4 DEF Answered
<1>5. CASE Recorded(i)
  BY <1>2, <1>5 DEF Recorded
<1> QED BY <1>1, <1>3, <1>4, <1>5

(* What a step leaves alone of an invoice i whose submissions are those of *)
(* other users, or none.                                                   *)
LEMMA AnswerStays ==
  ASSUME TypeInv, NEW i \in Ids, i \notin raced, Alone(i),
         i \notin lost => Unanswered(i) \/ Answered(i) \/ Recorded(i),
         Grows, lost \subseteq lost', row'[i].status = row[i].status, row'[i].signed = row[i].signed,
         AcceptedOf(i)' = AcceptedOf(i),
         \A v \in Users : \/ pc'[v] = pc[v] /\ my'[v] = my[v]
                          \/ /\ ~Submitting(pc[v], my[v], i)
                             /\ ~Submitting(pc'[v], my'[v], i)
                          \/ /\ Submitting(pc[v], my[v], i) /\ pc[v] \notin {"record", "audit"}
                             /\ Submitting(pc'[v], my'[v], i) => pc'[v] \notin {"record", "audit"}
  PROVE  Alone(i)' /\ (i \notin lost' => Unanswered(i)' \/ Answered(i)' \/ Recorded(i)')
<1>1. \A v \in Users : Submitting(pc'[v], my'[v], i) => Submitting(pc[v], my[v], i)
  OBVIOUS
<1>2. Alone(i)'
  BY <1>1 DEF Alone
<1>3. ASSUME i \notin lost', Unanswered(i) PROVE Unanswered(i)'
  BY <1>1, <1>3 DEF Unanswered
<1>4. ASSUME i \notin lost', Answered(i) PROVE Answered(i)'
  BY <1>4 DEF Answered
<1>5. ASSUME i \notin lost', Recorded(i) PROVE Recorded(i)'
  BY <1>1, <1>5 DEF Recorded
<1> QED BY <1>2, <1>3, <1>4, <1>5

LEMMA SameAccepted ==
  ASSUME TypeInv, Grows, UNCHANGED accepted, NEW i \in Ids
  PROVE  AcceptedOf(i)' = AcceptedOf(i)
BY DEF TypeInv, DocsOK, Hashes, Grows, AcceptedOf

(* What the only submission of an invoice says of its answer.              *)
LEMMA TheSubmission ==
  ASSUME TypeInv, AnswerInv, NEW u \in Users, Submitting(pc[u], my[u], my[u].on),
         my[u].on \notin raced
  PROVE  LET k == my[u].on IN
         /\ \A v \in Users : Submitting(pc[v], my[v], k) => v = u
         /\ k \notin lost =>
              /\ pc[u] \notin {"record", "audit"} => Unanswered(k)
              /\ pc[u] = "record" => row[k].status # "SUBMITTED" /\ AcceptedOf(k) = {my[u].doc}
              /\ pc[u] = "audit" => Recorded(k)
<1> DEFINE k == my[u].on
<1>1. k \in Ids
  BY MyFacts
<1>2. Alone(k) /\ (k \notin lost => Unanswered(k) \/ Answered(k) \/ Recorded(k))
  BY <1>1 DEF AnswerInv
<1>3. \A v \in Users : Submitting(pc[v], my[v], k) => v = u
  BY <1>2 DEF Alone
<1> QED BY <1>2, <1>3 DEF Unanswered, Answered, Recorded

(* A step of a handler: it touches the invoice it is on, and no other.     *)
Touches(u) ==
  /\ pc[u] # "idle" /\ UNCHANGED raced /\ lost' \in {lost, lost \cup {my[u].on}} /\ Grows
  /\ \A v \in Users \ {u} : pc'[v] = pc[v] /\ my'[v] = my[v]
  /\ pc'[u] = "idle" \/ (my'[u].on = my[u].on /\ my'[u].kind = my[u].kind)
  /\ \A i \in Ids \ {my[u].on} :
       /\ row'[i].status = row[i].status /\ row'[i].signed = row[i].signed
       /\ AcceptedOf(i)' = AcceptedOf(i)

LEMMA TouchStep ==
  ASSUME TypeInv, AnswerInv, NEW u \in Users, NEW k \in Ids, my[u].on = k, Touches(u),
         k \notin raced /\ k \notin lost' => Unanswered(k)' \/ Answered(k)' \/ Recorded(k)'
  PROVE  AnswerInv'
<1> SUFFICES ASSUME NEW i \in Ids, i \notin raced
             PROVE  Alone(i)' /\ (i \notin lost' => Unanswered(i)' \/ Answered(i)' \/ Recorded(i)')
  BY DEF AnswerInv, Touches
<1>1. Alone(i) /\ (i \notin lost => Unanswered(i) \/ Answered(i) \/ Recorded(i))
  BY DEF AnswerInv
<1>2. CASE i = k
  <2>1. \A v \in Users : Submitting(pc'[v], my'[v], i) => Submitting(pc[v], my[v], i)
    BY DEF Touches, Submitting
  <2>2. Alone(i)'
    BY <1>1, <2>1 DEF Alone
  <2> QED BY <1>2, <2>2
<1>3. CASE i # k
  <2>1. ~Submitting(pc[u], my[u], i) /\ ~Submitting(pc'[u], my'[u], i)
    BY <1>3 DEF Touches, Submitting
  <2>2. i \notin lost' => i \notin lost
    BY DEF Touches
  <2> QED BY <1>1, <1>3, <2>1, <2>2, AnswerStays DEF Touches
<1> QED BY <1>2, <1>3

(* ... one that leaves the answer as it is.                                *)
LEMMA QuietStep ==
  ASSUME TypeInv, AnswerInv, NEW u \in Users, NEW k \in Ids, my[u].on = k, Touches(u),
         UNCHANGED accepted, row'[k].status = row[k].status, row'[k].signed = row[k].signed,
         pc[u] \notin {"record", "audit"}, pc'[u] \notin {"record", "audit"}
  PROVE  AnswerInv'
<1>1. ASSUME k \notin raced PROVE k \notin lost' => Unanswered(k)' \/ Answered(k)' \/ Recorded(k)'
  <2>1. Alone(k) /\ (k \notin lost => Unanswered(k) \/ Answered(k) \/ Recorded(k))
    BY <1>1 DEF AnswerInv
  <2>2. Grows /\ lost \subseteq lost'
    BY DEF Touches
  <2>3. AcceptedOf(k)' = AcceptedOf(k)
    BY <2>2, SameAccepted
  <2>4. \A v \in Users : \/ pc'[v] = pc[v] /\ my'[v] = my[v]
                         \/ /\ ~Submitting(pc[v], my[v], k)
                            /\ ~Submitting(pc'[v], my'[v], k)
                         \/ /\ Submitting(pc[v], my[v], k) /\ pc[v] \notin {"record", "audit"}
                            /\ Submitting(pc'[v], my'[v], k) => pc'[v] \notin {"record", "audit"}
    BY DEF Touches, Submitting
  <2> QED BY <1>1, <2>1, <2>2, <2>3, <2>4, AnswerStays
<1> QED BY <1>1, TouchStep

(* Where a handler goes in a step.                                         *)
LEMMA GoesOn ==
  ASSUME TypeInv, NEW u \in Users, NEW l, NEW r, Goto(u, l), Become(u, r)
  PROVE  /\ pc'[u] = l /\ my'[u] = r
         /\ \A v \in Users \ {u} : pc'[v] = pc[v] /\ my'[v] = my[v]
BY MyFacts DEF Goto, Become, HandlersOK

LEMMA Stays ==
  ASSUME TypeInv, NEW u \in Users, NEW l, Goto(u, l), UNCHANGED my
  PROVE  /\ pc'[u] = l /\ my'[u] = my[u]
         /\ \A v \in Users \ {u} : pc'[v] = pc[v] /\ my'[v] = my[v]
BY MyFacts DEF Goto, HandlersOK

LEMMA Returns ==
  ASSUME TypeInv, NEW u \in Users, Return(u)
  PROVE  pc'[u] = "idle" /\ \A v \in Users \ {u} : pc'[v] = pc[v] /\ my'[v] = my[v]
BY GoesOn DEF Return

LEMMA GivesUp ==
  ASSUME TypeInv, NEW u \in Users, GiveUp(u)
  PROVE  /\ pc'[u] \in {"idle", "fail"}
         /\ pc'[u] = "idle" \/ (my'[u] = my[u] /\ my[u].kind = "submit")
         /\ \A v \in Users \ {u} : pc'[v] = pc[v] /\ my'[v] = my[v]
BY Returns, Stays DEF GiveUp

LEMMA ReadAnswer ==
  ASSUME TypeInv, AnswerInv, NEW u \in Users,
         Verify(u) \/ Check(u) \/ Load(u) \/ Count(u) \/ Generate(u) \/ Again(u)
  PROVE  AnswerInv'
<1>1. /\ UNCHANGED <<row, made, sent, accepted, raced, lost>> /\ Grows
      /\ pc[u] \notin {"idle", "record", "audit"}
  BY DEF Verify, Check, Load, Count, Generate, Again, zatca, history, Grows
<1>2. my[u] \in HeldType(made) /\ my[u].on \in Ids
  BY MyFacts
<1>3. \A i \in Ids : AcceptedOf(i)' = AcceptedOf(i)
  BY <1>1, SameAccepted
<1>4. ASSUME NEW l, l \notin {"record", "audit"}, NEW r, Goto(u, l), Become(u, r), r.on = my[u].on,
             r.kind = my[u].kind
      PROVE  AnswerInv'
  <2>1. /\ pc'[u] = l /\ my'[u] = r
        /\ \A v \in Users \ {u} : pc'[v] = pc[v] /\ my'[v] = my[v]
    BY <1>4, GoesOn
  <2> QED BY <1>1, <1>2, <1>3, <1>4, <2>1, QuietStep DEF Touches
<1>5. ASSUME GiveUp(u) \/ Return(u) PROVE AnswerInv'
  BY <1>1, <1>2, <1>3, <1>5, GivesUp, Returns, QuietStep DEF Touches
<1>6. CASE Verify(u)
  BY <1>2, <1>4, <1>6 DEF Verify, HeldType
<1>7. CASE Check(u)
  BY <1>2, <1>4, <1>5, <1>7 DEF Check, HeldType
<1>8. CASE Load(u)
  BY <1>2, <1>4, <1>5, <1>8 DEF Load, HeldType
<1>9. CASE Count(u)
  BY <1>2, <1>4, <1>9 DEF Count, HeldType
<1>10. CASE Generate(u)
  BY <1>2, <1>4, <1>5, <1>10 DEF Generate, HeldType
<1>11. CASE Again(u)
  BY <1>2, <1>4, <1>11 DEF Again, HeldType
<1> QED BY <1>6, <1>7, <1>8, <1>9, <1>10, <1>11

LEMMA PersistAnswer ==
  ASSUME TypeInv, AnswerInv, NEW u \in Users, Persist(u)
  PROVE  AnswerInv'
<1> DEFINE i == my[u].on
<1>1. i \in Ids /\ row \in [Ids -> RowType(made)] /\ row[i] \in RowType(made)
      /\ my[u] \in HeldType(made) /\ pc[u] = "persist"
      /\ UNCHANGED accepted
  BY MyFacts DEF TypeInv, RowsOK, Persist
<1>2. CASE row[i].deleted
  <2>1. GiveUp(u) /\ UNCHANGED <<row, made>> /\ UNCHANGED <<raced, lost>> /\ Grows
    BY <1>2 DEF Persist, history, Grows
  <2> QED BY <1>1, <2>1, GivesUp, SameAccepted, QuietStep DEF Touches
<1>3. CASE ~row[i].deleted
  <2>1. PICK hash \in DOMAIN made' :
          /\ Grows /\ row' = [row EXCEPT ![i] = [row[i] EXCEPT !.hash = hash, !.previous = my[u].link]]
          /\ IF my[u].kind = "view" THEN Return(u)
             ELSE Become(u, [Fresh EXCEPT !.on = i, !.doc = hash]) /\ Goto(u, "keep")
          /\ UNCHANGED <<raced, lost>>
    BY <1>3, PersistFacts
  <2>2. \A j \in Ids : row'[j].status = row[j].status /\ row'[j].signed = row[j].signed
    BY <1>1, <2>1 DEF RowType
  <2>3. \A j \in Ids : AcceptedOf(j)' = AcceptedOf(j)
    BY <1>1, <2>1, SameAccepted
  <2>4. CASE my[u].kind = "view"
    BY <1>1, <2>1, <2>2, <2>3, <2>4, Returns, QuietStep DEF Touches
  <2>5. CASE my[u].kind # "view"
    <3>1. my[u].kind = "submit"
      BY <1>1, <2>5 DEF HeldType
    <3> DEFINE r == [Fresh EXCEPT !.on = i, !.doc = hash]
    <3>2. r.on = i /\ r.kind = "submit"
      BY DEF Fresh
    <3>3. Become(u, r) /\ Goto(u, "keep")
      BY <2>1, <2>5
    <3> HIDE DEF r
    <3>4. /\ pc'[u] = "keep" /\ my'[u] = r
          /\ \A v \in Users \ {u} : pc'[v] = pc[v] /\ my'[v] = my[v]
      BY <3>3, GoesOn
    <3>5. Touches(u)
      BY <1>1, <2>1, <2>2, <2>3, <3>1, <3>2, <3>4 DEF Touches
    <3> QED BY <1>1, <2>2, <3>4, <3>5, QuietStep
  <2> QED BY <2>4, <2>5
<1> QED BY <1>2, <1>3

LEMMA WriteAnswer ==
  ASSUME TypeInv, AnswerInv, NEW u \in Users, Pend(u) \/ Keep(u) \/ RecordFailure(u)
  PROVE  AnswerInv'
<1>1. PICK k \in Ids : my[u].on = k
  BY MyFacts
<1>2. /\ row \in [Ids -> RowType(made)] /\ row[k] \in RowType(made) /\ my[u].kind = "submit"
  BY <1>1, MyFacts DEF TypeInv, RowsOK, Held, Submission, Pend, Keep, RecordFailure
<1>3. /\ UNCHANGED <<made, sent, accepted, raced, lost>> /\ Grows
      /\ pc[u] \notin {"idle", "record", "audit"}
  BY DEF Pend, Keep, RecordFailure, zatca, history, Grows
<1>4. \A i \in Ids : AcceptedOf(i)' = AcceptedOf(i)
  BY <1>3, SameAccepted
<1>5. /\ \A i \in Ids \ {k} : row'[i].status = row[i].status /\ row'[i].signed = row[i].signed
      /\ row'[k].status # "SUBMITTED" \/ row'[k].status = row[k].status
  BY <1>1, <1>2 DEF Pend, Keep, RecordFailure, RowType
<1>6. /\ pc'[u] \notin {"record", "audit"}
      /\ pc'[u] = "idle" \/ my'[u] = my[u]
      /\ \A v \in Users \ {u} : pc'[v] = pc[v] /\ my'[v] = my[v]
  BY Returns, Stays DEF Pend, Keep, RecordFailure
<1>7. Touches(u)
  BY <1>1, <1>3, <1>4, <1>5, <1>6 DEF Touches
<1>8. ASSUME k \notin raced, k \notin lost' PROVE Unanswered(k)'
  <2>1. Unanswered(k) /\ \A v \in Users : Submitting(pc[v], my[v], k) => v = u
    BY <1>1, <1>2, <1>3, <1>8, TheSubmission DEF Submitting
  <2> QED BY <1>4, <1>5, <1>6, <2>1 DEF Unanswered, Submitting
<1> QED BY <1>1, <1>7, <1>8, TouchStep

LEMMA SendAnswer ==
  ASSUME TypeInv, AnswerInv, NEW u \in Users, Send(u)
  PROVE  AnswerInv'
<1>1. PICK k \in Ids : my[u].on = k
  BY MyFacts
<1>2. /\ my[u].kind = "submit" /\ my[u].doc \in DOMAIN made /\ made[my[u].doc].of = k
      /\ pc[u] = "send"
  BY <1>1, MyFacts DEF Held, Submission, Send
<1>3. UNCHANGED <<row, made, my, raced>> /\ Grows /\ lost' \in {lost, lost \cup {k}}
  BY <1>1 DEF Send, Grows
<1>4. accepted' \in {accepted, accepted \cup {my[u].doc}}
  BY DEF Send
<1>5. /\ pc'[u] \in {"record", "fail"} /\ UNCHANGED my
      /\ \A v \in Users \ {u} : pc'[v] = pc[v] /\ my'[v] = my[v]
  BY Stays DEF Send
<1>6. \A i \in Ids \ {k} : AcceptedOf(i)' = AcceptedOf(i)
  BY <1>2, <1>3, <1>4 DEF AcceptedOf
<1>7. Touches(u)
  BY <1>1, <1>2, <1>3, <1>5, <1>6 DEF Touches
<1>8. ASSUME k \notin raced, k \notin lost' PROVE Unanswered(k)' \/ Answered(k)'
  <2>1. Unanswered(k) /\ \A v \in Users : Submitting(pc[v], my[v], k) => v = u
    BY <1>1, <1>2, <1>3, <1>8, TheSubmission DEF Submitting
  <2>2. CASE accepted' = accepted \cup {my[u].doc} /\ pc'[u] = "record"
    <3>1. AcceptedOf(k)' = {my[u].doc}
      BY <1>2, <1>3, <2>1, <2>2 DEF AcceptedOf, Unanswered
    <3> QED BY <1>1, <1>2, <1>3, <2>1, <2>2, <3>1 DEF Answered, Unanswered, Submitting
  <2>3. CASE accepted' = accepted /\ pc'[u] = "fail"
    <3>1. AcceptedOf(k)' = AcceptedOf(k)
      BY <1>3, <2>3 DEF AcceptedOf
    <3> QED BY <1>3, <1>5, <2>1, <2>3, <3>1 DEF Unanswered, Submitting
  <2>4. \/ accepted' = accepted \cup {my[u].doc} /\ pc'[u] = "record"
        \/ accepted' = accepted /\ pc'[u] = "fail"
    BY <1>1, <1>8, Stays DEF Send
  <2> QED BY <2>2, <2>3, <2>4
<1> QED BY <1>1, <1>7, <1>8, TouchStep

LEMMA RecordAnswer ==
  ASSUME TypeInv, AnswerInv, NEW u \in Users, Record(u)
  PROVE  AnswerInv'
<1>1. PICK k \in Ids : my[u].on = k
  BY MyFacts
<1>2. /\ row \in [Ids -> RowType(made)] /\ row[k] \in RowType(made) /\ my[u].kind = "submit"
      /\ pc[u] = "record"
  BY <1>1, MyFacts DEF TypeInv, RowsOK, Held, Submission, Record
<1>3. UNCHANGED <<made, sent, accepted, my, raced>> /\ Grows /\ lost' \in {lost, lost \cup {k}}
  BY <1>1 DEF Record, zatca, Grows
<1>4. \A i \in Ids : AcceptedOf(i)' = AcceptedOf(i)
  BY <1>3, SameAccepted
<1>5. /\ \A i \in Ids \ {k} : row'[i].status = row[i].status /\ row'[i].signed = row[i].signed
      /\ k \notin lost' => row'[k].status = "SUBMITTED" /\ row'[k].signed = my[u].doc
                           /\ Goto(u, "audit")
  BY <1>1, <1>2 DEF Record, RowType
<1>6. /\ pc'[u] \in {"audit", "fail"} /\ (Goto(u, "audit") => pc'[u] = "audit")
      /\ \A v \in Users \ {u} : pc'[v] = pc[v] /\ my'[v] = my[v]
  BY <1>3, Stays DEF Record
<1>7. Touches(u)
  BY <1>1, <1>2, <1>3, <1>4, <1>5, <1>6 DEF Touches
<1>8. ASSUME k \notin raced, k \notin lost' PROVE Recorded(k)'
  <2>1. AcceptedOf(k) = {my[u].doc} /\ \A v \in Users : Submitting(pc[v], my[v], k) => v = u
    BY <1>1, <1>2, <1>3, <1>8, TheSubmission DEF Submitting
  <2> QED BY <1>4, <1>5, <1>6, <1>8, <2>1 DEF Recorded, Submitting
<1> QED BY <1>1, <1>7, <1>8, TouchStep

LEMMA StopAnswer ==
  ASSUME TypeInv, AnswerInv, NEW u \in Users, Audit(u) \/ DatabaseFails(u) \/ Crash(u)
  PROVE  AnswerInv'
<1>1. PICK k \in Ids : my[u].on = k
  BY MyFacts
<1>2. /\ UNCHANGED <<row, made, sent, accepted, raced>> /\ Grows /\ lost' \in {lost, lost \cup {k}}
      /\ pc[u] # "idle"
  BY <1>1 DEF Audit, DatabaseFails, Crash, zatca, history, Grows
<1>3. \A i \in Ids : AcceptedOf(i)' = AcceptedOf(i)
  BY <1>2, SameAccepted
<1>4. /\ pc'[u] \in {"idle", "fail"} /\ (pc'[u] = "idle" \/ my'[u] = my[u])
      /\ \A v \in Users \ {u} : pc'[v] = pc[v] /\ my'[v] = my[v]
  BY Returns, GivesUp DEF Audit, DatabaseFails, Crash
<1>5. Touches(u)
  BY <1>1, <1>2, <1>3, <1>4 DEF Touches
<1>6. CASE pc[u] \notin {"record", "audit"}
  BY <1>1, <1>2, <1>4, <1>5, <1>6, QuietStep
<1>7. CASE pc[u] \in {"record", "audit"}
  <2>1. ASSUME k \notin raced, k \notin lost' PROVE Recorded(k)'
    <3>1. pc[u] = "audit" /\ pc'[u] = "idle" /\ my[u].kind = "submit" /\ k \notin lost
      BY <1>1, <1>2, <1>7, <2>1, Returns, MyFacts DEF Audit, DatabaseFails, Crash, Held, Submission
    <3>2. Recorded(k) /\ \A v \in Users : Submitting(pc[v], my[v], k) => v = u
      BY <1>1, <2>1, <3>1, TheSubmission DEF Submitting
    <3> QED BY <1>2, <1>3, <1>4, <3>1, <3>2 DEF Recorded, Submitting
  <2> QED BY <1>1, <1>5, <2>1, TouchStep
<1> QED BY <1>6, <1>7

(* A request arrives.                                                      *)
LEMMA RequestAnswer ==
  ASSUME TypeInv, AnswerInv, NEW u \in Users, Request(u)
  PROVE  AnswerInv'
<1>1. ASSUME NEW k \in Ids, Submit(u, k) PROVE AnswerInv'
  <2>1. /\ UNCHANGED <<row, made, sent, accepted, lost>> /\ Grows /\ pc[u] = "idle"
        /\ raced \subseteq raced' /\ row[k].status # "SUBMITTED"
    BY <1>1 DEF Submit, zatca, Grows, Arrive, MaySubmit, Terminal
  <2>2. /\ pc'[u] = "verify" /\ my'[u].on = k
        /\ \A v \in Users \ {u} : pc'[v] = pc[v] /\ my'[v] = my[v]
    BY <1>1, GoesOn DEF Submit, Fresh
  <2>3. \A i \in Ids : AcceptedOf(i)' = AcceptedOf(i)
    BY <2>1, SameAccepted
  <2> SUFFICES ASSUME NEW i \in Ids, i \notin raced'
               PROVE  Alone(i)' /\ (i \notin lost' => Unanswered(i)' \/ Answered(i)' \/ Recorded(i)')
    BY DEF AnswerInv
  <2>4. Alone(i) /\ (i \notin lost => Unanswered(i) \/ Answered(i) \/ Recorded(i)) /\ i \notin raced
    BY <2>1 DEF AnswerInv
  <2>5. CASE i = k
    <3>1. \A v \in Users : ~Submitting(pc[v], my[v], i)
      BY <1>1, <2>5 DEF Submit, Submitting
    <3>2. \A v \in Users : Submitting(pc'[v], my'[v], i) => v = u
      BY <2>2, <3>1
    <3>3. i \notin lost' => Unanswered(i)
      BY <2>1, <2>4, <2>5, <3>1 DEF Answered, Recorded
    <3> QED BY <2>1, <2>2, <2>3, <3>2, <3>3 DEF Alone, Unanswered
  <2>6. CASE i # k
    BY <2>1, <2>2, <2>3, <2>4, <2>6, AnswerStays DEF Submitting
  <2> QED BY <2>5, <2>6
<1>2. ASSUME NEW k \in Ids, View(u, k) \/ Edit(u, k) \/ Delete(u, k) PROVE AnswerInv'
  <2>1. /\ UNCHANGED <<made, sent, accepted, raced, lost>> /\ Grows /\ pc[u] = "idle"
        /\ row \in [Ids -> RowType(made)]
    BY <1>2 DEF View, Edit, Delete, zatca, history, Grows, Arrive, TypeInv, RowsOK
  <2>2. /\ pc'[u] = "idle" \/ my'[u].kind = "view"
        /\ \A v \in Users \ {u} : pc'[v] = pc[v] /\ my'[v] = my[v]
    <3>1. CASE View(u, k)
      <4> DEFINE r == [Fresh EXCEPT !.on = k, !.kind = "view"]
      <4>1. r.kind = "view"
        BY DEF Fresh
      <4>2. Goto(u, "load") /\ Become(u, r)
        BY <3>1 DEF View
      <4> HIDE DEF r
      <4> QED BY <4>1, <4>2, GoesOn
    <3>2. CASE Edit(u, k) \/ Delete(u, k)
      BY <2>1, <3>2 DEF Edit, Delete
    <3> QED BY <1>2, <3>1, <3>2
  <2>3. \A i \in Ids : AcceptedOf(i)' = AcceptedOf(i)
    BY <2>1, SameAccepted
  <2>4. \A i \in Ids : row'[i].status = row[i].status /\ row'[i].signed = row[i].signed
    BY <1>2, <2>1 DEF View, Edit, Delete, RowType
  <2> SUFFICES ASSUME NEW i \in Ids, i \notin raced'
               PROVE  Alone(i)' /\ (i \notin lost' => Unanswered(i)' \/ Answered(i)' \/ Recorded(i)')
    BY DEF AnswerInv
  <2>5. Alone(i) /\ (i \notin lost => Unanswered(i) \/ Answered(i) \/ Recorded(i)) /\ i \notin raced
    BY <2>1 DEF AnswerInv
  <2> QED BY <2>1, <2>2, <2>3, <2>4, <2>5, AnswerStays DEF Submitting
<1> QED BY <1>1, <1>2 DEF Request

LEMMA AnswerInit == Init => AnswerInv
<1> SUFFICES ASSUME Init, NEW i \in Ids PROVE Alone(i) /\ Unanswered(i)
  BY DEF AnswerInv
<1>1. \A u \in Users : ~Submitting(pc[u], my[u], i)
  BY DEF Init, Submitting
<1> QED BY <1>1 DEF Init, Alone, Unanswered, AcceptedOf

LEMMA AnswerStep == TypeInv /\ AnswerInv /\ [Next]_vars => AnswerInv'
<1> SUFFICES ASSUME TypeInv, AnswerInv, [Next]_vars PROVE AnswerInv'
  OBVIOUS
<1>1. ASSUME NEW u \in Users, Request(u) \/ Handle(u) \/ DatabaseFails(u) \/ Crash(u) PROVE AnswerInv'
  BY <1>1, RequestAnswer, ReadAnswer, WriteAnswer, PersistAnswer, SendAnswer, RecordAnswer, StopAnswer
     DEF Handle
<1>2. CASE UNCHANGED vars
  BY <1>2 DEF vars, zatca, history, AnswerInv, Alone, Unanswered, Answered, Recorded, AcceptedOf
<1> QED BY <1>1, <1>2 DEF Next

(* An invoice is accepted once, and what its row shows as signed was       *)
(* accepted, for any number of users, requests, failures and crashes: but  *)
(* for invoices with two submissions at once, and acceptances that were    *)
(* not recorded.                                                           *)
THEOREM InvoiceIsAcceptedOnce == Spec => []AcceptedOnce
<1>1. Init => TypeInv /\ AnswerInv
  BY TypeInit, AnswerInit
<1>2. TypeInv /\ AnswerInv /\ [Next]_vars => TypeInv' /\ AnswerInv'
  BY TypeStep, AnswerStep
<1> QED BY <1>1, <1>2, AnswerSuffices, PTL DEF Spec

-----------------------------------------------------------------------------
(* The links of the chain.                                                 *)

(* Hashed and Prior, in a state x of the rows.                             *)
HashedIn(x, i) == x[i].hash # 0 /\ ~x[i].deleted
PriorIn(x, i) ==
  LET before == {j \in 1 .. i - 1 : HashedIn(x, j)} IN
  IF before = {} THEN 0 ELSE x[CHOOSE j \in before : \A k \in before : k <= j].hash

LEMMA InRow ==
  /\ \A i : Hashed(i) <=> HashedIn(row, i)
  /\ \A i : Prior(i) = PriorIn(row, i)
BY DEF Hashed, HashedIn, Prior, PriorIn

(* Invoices of which less is said: a predecessor changed while a handler   *)
(* read, submissions overlapped, or another route hashed it.               *)
Unsteady == crossed \cup raced \cup viewed

Linked(i) == i \notin crossed /\ row[i].hash # 0 => row[i].previous = made[row[i].hash].pih

SentWith(i) ==
  i \notin Unsteady => \A d \in sent : made[d].of = i => made[d].pih \in {0, row[i].previous}

(* A handler at l, with what it holds in r, reads the predecessor twice    *)
(* and finds the same; and a submission that got past the check of the     *)
(* stored link renews it as it was.  The rows are x, the documents m.      *)
Reads(x, cross, l, r) ==
  r.on \notin cross /\ ~x[r.on].deleted =>
    /\ l = "again" => r.pih = PriorIn(x, r.on)
    /\ l = "persist" => r.link = r.pih

Renews(x, m, unsteady, l, r) ==
  r.on \notin unsteady /\ r.kind = "submit" =>
    /\ l = "check" => r.previous = x[r.on].previous
    /\ l \in Looking => x[r.on].previous \in {0, PriorIn(x, r.on)}
    /\ l = "persist" /\ ~x[r.on].deleted => x[r.on].previous \in {0, r.pih}
    /\ l \in {"keep", "send"} => m[r.doc].pih = x[r.on].previous

Links(u) == Reads(row, crossed, pc[u], my[u]) /\ Renews(row, made, Unsteady, pc[u], my[u])

LinkInv == (\A i \in Ids : Linked(i) /\ SentWith(i)) /\ \A u \in Users : Links(u)

(* The predecessor's hash is the same while the invoices before are.       *)
LEMMA PriorStays ==
  ASSUME NEW x, NEW y, NEW i \in Ids,
         \A j \in Ids : j < i => /\ HashedIn(x, j) <=> HashedIn(y, j)
                                 /\ HashedIn(x, j) => x[j].hash = y[j].hash
  PROVE  PriorIn(x, i) = PriorIn(y, i)
<1>1. i \in Nat /\ i - 1 \in Nat /\ \A j \in 1 .. i - 1 : j \in Ids /\ j < i
  BY InvoicesAssumption DEF Ids
<1> DEFINE B == {j \in 1 .. i - 1 : HashedIn(x, j)}
           C == {j \in 1 .. i - 1 : HashedIn(y, j)}
<1>2. B = C
  BY <1>1
<1>3. \A j \in B : x[j].hash = y[j].hash
  BY <1>1
<1>4. CASE B = {}
  BY <1>2, <1>4 DEF PriorIn
<1>5. CASE B # {}
  <2> DEFINE b == CHOOSE j \in B : \A k \in B : k <= j
             c == CHOOSE j \in C : \A k \in C : k <= j
  <2>1. b = c
    BY <1>2
  <2>2. b \in B
    BY <1>1, <1>5, Greatest
  <2>3. PriorIn(x, i) = x[b].hash
    BY <1>5 DEF PriorIn
  <2>4. PriorIn(y, i) = y[c].hash
    BY <1>2, <1>5 DEF PriorIn
  <2> HIDE DEF b, c, B, C
  <2> QED BY <1>3, <2>1, <2>2, <2>3, <2>4
<1> QED BY <1>4, <1>5

(* The links are looked at in the rows, the documents and the histories.   *)
Kept ==
  /\ UNCHANGED made /\ crossed \subseteq crossed' /\ Unsteady \subseteq Unsteady'
  /\ \A i \in Ids : /\ row'[i].hash = row[i].hash /\ row'[i].previous = row[i].previous
                    /\ row'[i].deleted = row[i].deleted

LEMMA ReadingStays ==
  ASSUME Kept, NEW l, NEW r, r.on \in Ids,
         Reads(row, crossed, l, r), Renews(row, made, Unsteady, l, r)
  PROVE  Reads(row', crossed', l, r) /\ Renews(row', made', Unsteady', l, r)
<1> DEFINE i == r.on
<1>1. PriorIn(row', i) = PriorIn(row, i)
  BY PriorStays DEF Kept, HashedIn
<1>2. /\ row'[i].previous = row[i].previous /\ row'[i].deleted = row[i].deleted /\ made' = made
      /\ (i \notin crossed' => i \notin crossed) /\ (i \notin Unsteady' => i \notin Unsteady)
  BY DEF Kept
<1> QED BY <1>1, <1>2 DEF Reads, Renews

LEMMA LinksStay ==
  ASSUME Kept, UNCHANGED sent, NEW i \in Ids, Linked(i), SentWith(i)
  PROVE  Linked(i)' /\ SentWith(i)'
BY DEF Kept, Linked, SentWith

LEMMA OthersRead ==
  ASSUME TypeInv, LinkInv, Kept, NEW u \in Users, NEW l, NEW r, r.on \in Ids,
         pc'[u] = l, my'[u] = r, Reads(row, crossed, l, r), Renews(row, made, Unsteady, l, r),
         \A v \in Users \ {u} : pc'[v] = pc[v] /\ my'[v] = my[v]
  PROVE  \A v \in Users : Links(v)'
<1> SUFFICES ASSUME NEW v \in Users
             PROVE  /\ Reads(row', crossed', pc'[v], my'[v])
                    /\ Renews(row', made', Unsteady', pc'[v], my'[v])
  BY DEF Links
<1>1. CASE v = u
  BY <1>1, ReadingStays
<1>2. CASE v # u
  <2>1. Reads(row, crossed, pc[v], my[v]) /\ Renews(row, made, Unsteady, pc[v], my[v])
        /\ my[v].on \in Ids
    BY MyFacts DEF LinkInv, Links
  <2> QED BY <1>2, <2>1, ReadingStays
<1> QED BY <1>1, <1>2

LEMMA KeptStep ==
  ASSUME TypeInv, LinkInv, Kept, UNCHANGED sent, NEW u \in Users, NEW l, NEW r, r.on \in Ids,
         pc'[u] = l, my'[u] = r, Reads(row, crossed, l, r), Renews(row, made, Unsteady, l, r),
         \A v \in Users \ {u} : pc'[v] = pc[v] /\ my'[v] = my[v]
  PROVE  LinkInv'
BY OthersRead, LinksStay DEF LinkInv

(* Where a handler reads nothing and renews no link.                       *)
LEMMA NothingRead ==
  ASSUME NEW l \in {"idle", "verify", "fail", "record", "audit"}, NEW r
  PROVE  Reads(row, crossed, l, r) /\ Renews(row, made, Unsteady, l, r)
BY DEF Reads, Renews, Looking

LEMMA ViewReads ==
  ASSUME NEW l \in PCs \ {"again", "persist"}, NEW r, r.kind = "view"
  PROVE  Reads(row, crossed, l, r) /\ Renews(row, made, Unsteady, l, r)
BY DEF Reads, Renews

(* A handler returns, gives up, or fails.                                  *)
LEMMA EndsLink ==
  ASSUME TypeInv, LinkInv, Kept, UNCHANGED sent, NEW u \in Users,
         \/ GiveUp(u) \/ Return(u)
         \/ \E l \in {"fail", "record", "audit"} : Goto(u, l) /\ UNCHANGED my
  PROVE  LinkInv'
<1>1. my[u].on \in Ids /\ Fresh.on \in Ids
  BY MyFacts, InvoicesAssumption DEF Fresh, Ids
<1>2. /\ pc'[u] \in {"idle", "fail", "record", "audit"} /\ my'[u].on \in Ids
      /\ \A v \in Users \ {u} : pc'[v] = pc[v] /\ my'[v] = my[v]
  <2>1. CASE Return(u)
    BY <1>1, <2>1, GoesOn DEF Return
  <2>2. CASE ~Return(u) /\ GiveUp(u)
    BY <1>1, <2>2, Stays DEF GiveUp
  <2>3. CASE \E l \in {"fail", "record", "audit"} : Goto(u, l) /\ UNCHANGED my
    BY <1>1, <2>3, Stays
  <2> QED BY <2>1, <2>2, <2>3
<1>3. PICK l, r : l = pc'[u] /\ r = my'[u]
  OBVIOUS
<1>4. Reads(row, crossed, l, r) /\ Renews(row, made, Unsteady, l, r)
  BY <1>2, <1>3, NothingRead
<1> QED BY <1>2, <1>3, <1>4, KeptStep

(* What the histories and the rows are after a step that persists nothing. *)
LEMMA StillKept ==
  ASSUME UNCHANGED row, UNCHANGED made, UNCHANGED <<viewed, crossed>>, raced \subseteq raced'
  PROVE  Kept
BY DEF Kept, Unsteady

LEMMA ReadLink ==
  ASSUME TypeInv, LinkInv, NEW u \in Users,
         Verify(u) \/ Check(u) \/ Load(u) \/ Count(u) \/ Generate(u) \/ Again(u) \/ Audit(u)
  PROVE  LinkInv'
<1>1. UNCHANGED <<row, made, sent, viewed, crossed, raced>> /\ Kept
  BY StillKept DEF Verify, Check, Load, Count, Generate, Again, Audit, zatca, history
<1>2. /\ my[u] \in HeldType(made) /\ my[u].on \in Ids
      /\ Reads(row, crossed, pc[u], my[u]) /\ Renews(row, made, Unsteady, pc[u], my[u])
  BY MyFacts DEF LinkInv, Links
<1>3. ASSUME GiveUp(u) \/ Return(u) PROVE LinkInv'
  BY <1>1, <1>3, EndsLink
<1>4. ASSUME NEW l, NEW r, Goto(u, l), Become(u, r), r.on \in Ids,
             Reads(row, crossed, l, r), Renews(row, made, Unsteady, l, r)
      PROVE  LinkInv'
  BY <1>1, <1>4, GoesOn, KeptStep
<1>5. my[u].kind = "submit" \/ my[u].kind = "view"
  BY <1>2 DEF HeldType
<1>6. CASE Verify(u)
  <2> DEFINE r == [my[u] EXCEPT !.previous = row[my[u].on].previous]
  <2>1. r.on = my[u].on /\ r.previous = row[my[u].on].previous
    BY <1>2 DEF HeldType
  <2>2. Goto(u, "check") /\ Become(u, r)
    BY <1>6 DEF Verify
  <2> HIDE DEF r
  <2>3. Reads(row, crossed, "check", r) /\ Renews(row, made, Unsteady, "check", r)
    BY <2>1 DEF Reads, Renews, Looking
  <2> QED BY <1>2, <1>4, <2>1, <2>2, <2>3
<1>7. CASE Check(u)
  <2> DEFINE r == [my[u] EXCEPT !.previous = 0]
  <2>1. r.on = my[u].on /\ r.kind = my[u].kind
    BY <1>2 DEF HeldType
  <2>2. \/ Return(u)
        \/ Goto(u, "pend") /\ Become(u, r) /\ LinkHolds(my[u].previous, Prior(my[u].on))
    BY <1>7 DEF Check
  <2> HIDE DEF r
  <2>3. LinkHolds(my[u].previous, Prior(my[u].on)) =>
          Reads(row, crossed, "pend", r) /\ Renews(row, made, Unsteady, "pend", r)
    BY <1>2, <1>7, <2>1, InRow DEF Check, LinkHolds, Reads, Renews
  <2> QED BY <1>2, <1>3, <1>4, <2>1, <2>2, <2>3
<1>8. CASE Load(u)
  <2> DEFINE r == [my[u] EXCEPT !.contents = row[my[u].on].contents]
  <2>1. r.on = my[u].on /\ r.kind = my[u].kind
    BY <1>2 DEF HeldType
  <2>2. GiveUp(u) \/ (Goto(u, "count") /\ Become(u, r))
    BY <1>8 DEF Load
  <2> HIDE DEF r
  <2>3. Reads(row, crossed, "count", r) /\ Renews(row, made, Unsteady, "count", r)
    BY <1>2, <1>8, <2>1 DEF Load, Reads, Renews, Looking
  <2> QED BY <1>2, <1>3, <1>4, <2>1, <2>2, <2>3
<1>9. CASE Count(u)
  <2> DEFINE r == [my[u] EXCEPT !.icv = NextCounter(my[u].on)]
  <2>1. r.on = my[u].on /\ r.kind = my[u].kind
    BY <1>2 DEF HeldType
  <2>2. Goto(u, "generate") /\ Become(u, r)
    BY <1>9 DEF Count
  <2> HIDE DEF r
  <2>3. Reads(row, crossed, "generate", r) /\ Renews(row, made, Unsteady, "generate", r)
    BY <1>2, <1>9, <2>1 DEF Count, Reads, Renews, Looking
  <2> QED BY <1>2, <1>4, <2>1, <2>2, <2>3
<1>10. CASE Generate(u)
  <2> DEFINE r == [my[u] EXCEPT !.pih = PriorOf(my[u].on)]
  <2>1. r.on = my[u].on /\ r.kind = my[u].kind /\ r.pih = PriorOf(my[u].on)
    BY <1>2 DEF HeldType
  <2>2. GiveUp(u) \/ (Goto(u, "again") /\ Become(u, r))
    BY <1>10 DEF Generate
  <2> HIDE DEF r
  <2>3. Reads(row, crossed, "again", r) /\ Renews(row, made, Unsteady, "again", r)
    BY <1>2, <1>10, <2>1, InRow DEF Generate, PriorOf, Reads, Renews, Looking
  <2> QED BY <1>2, <1>3, <1>4, <2>1, <2>2, <2>3
<1>11. CASE Again(u)
  <2> DEFINE r == [my[u] EXCEPT !.link = PriorOf(my[u].on)]
  <2>1. r.on = my[u].on /\ r.kind = my[u].kind /\ r.pih = my[u].pih /\ r.link = PriorOf(my[u].on)
    BY <1>2 DEF HeldType
  <2>2. Goto(u, "persist") /\ Become(u, r)
    BY <1>11 DEF Again
  <2> HIDE DEF r
  <2>3. Reads(row, crossed, "persist", r)
    BY <1>2, <1>11, <2>1, InRow DEF Again, PriorOf, Reads
  <2>4. Renews(row, made, Unsteady, "persist", r)
    <3>1. r.on \notin Unsteady => r.on \notin crossed
      BY DEF Unsteady
    <3> QED BY <1>2, <1>11, <2>1, <3>1 DEF Again, Reads, Renews, Looking
  <2> QED BY <1>2, <1>4, <2>1, <2>2, <2>3, <2>4
<1>12. CASE Audit(u)
  BY <1>3, <1>12 DEF Audit
<1> QED BY <1>6, <1>7, <1>8, <1>9, <1>10, <1>11, <1>12

LEMMA WriteLink ==
  ASSUME TypeInv, LinkInv, NEW u \in Users, Pend(u) \/ Keep(u) \/ Record(u) \/ RecordFailure(u)
  PROVE  LinkInv'
<1>1. /\ my[u].on \in Ids /\ row \in [Ids -> RowType(made)] /\ row[my[u].on] \in RowType(made)
      /\ Reads(row, crossed, pc[u], my[u]) /\ Renews(row, made, Unsteady, pc[u], my[u])
  BY MyFacts DEF LinkInv, Links, TypeInv, RowsOK
<1>2. UNCHANGED <<made, sent, viewed, crossed, raced>>
  BY DEF Pend, Keep, Record, RecordFailure, zatca, history
<1>3. \A i \in Ids : /\ row'[i].hash = row[i].hash /\ row'[i].previous = row[i].previous
                     /\ row'[i].deleted = row[i].deleted
  BY <1>1 DEF Pend, Keep, Record, RecordFailure, RowType
<1>4. Kept
  BY <1>2, <1>3 DEF Kept, Unsteady
<1>5. ASSUME NEW l \in {"load", "send"}, Goto(u, l), UNCHANGED my,
             Reads(row, crossed, l, my[u]), Renews(row, made, Unsteady, l, my[u])
      PROVE  LinkInv'
  BY <1>1, <1>2, <1>4, <1>5, Stays, KeptStep
<1>6. CASE Pend(u)
  <2>1. Reads(row, crossed, "load", my[u]) /\ Renews(row, made, Unsteady, "load", my[u])
    BY <1>1, <1>6 DEF Pend, Reads, Renews, Looking
  <2> QED BY <1>2, <1>4, <1>5, <1>6, <2>1, EndsLink DEF Pend
<1>7. CASE Keep(u)
  <2>1. Reads(row, crossed, "send", my[u]) /\ Renews(row, made, Unsteady, "send", my[u])
    BY <1>1, <1>7 DEF Keep, Reads, Renews, Looking
  <2> QED BY <1>2, <1>4, <1>5, <1>7, <2>1, EndsLink DEF Keep
<1>8. CASE Record(u) \/ RecordFailure(u)
  BY <1>2, <1>4, <1>8, EndsLink DEF Record, RecordFailure
<1> QED BY <1>6, <1>7, <1>8

LEMMA SendLink ==
  ASSUME TypeInv, LinkInv, NEW u \in Users, Send(u)
  PROVE  LinkInv'
<1> DEFINE k == my[u].on
           d == my[u].doc
<1>1. /\ k \in Ids /\ pc[u] = "send" /\ d \in DOMAIN made /\ made[d].of = k /\ my[u].kind = "submit"
      /\ Renews(row, made, Unsteady, pc[u], my[u])
  BY MyFacts DEF LinkInv, Links, Send, Held, Submission
<1>2. UNCHANGED <<row, made, my, viewed, crossed, raced>> /\ sent' = sent \cup {d} /\ Kept
  BY StillKept DEF Send
<1>3. ASSUME NEW i \in Ids PROVE Linked(i)' /\ SentWith(i)'
  <2>1. Linked(i) /\ SentWith(i)
    BY DEF LinkInv
  <2>2. i \notin Unsteady /\ made[d].of = i => made[d].pih = row[i].previous
    BY <1>1 DEF Renews
  <2> QED BY <1>2, <2>1, <2>2 DEF Linked, SentWith, Unsteady
<1>4. PICK l \in {"record", "fail"} : Goto(u, l) /\ UNCHANGED my
  BY DEF Send
<1>5. /\ pc'[u] = l /\ my'[u] = my[u] /\ \A v \in Users \ {u} : pc'[v] = pc[v] /\ my'[v] = my[v]
  BY <1>4, Stays
<1>6. \A v \in Users : Links(v)'
  BY <1>1, <1>2, <1>5, NothingRead, OthersRead
<1> QED BY <1>3, <1>6 DEF LinkInv

LEMMA StopLink ==
  ASSUME TypeInv, LinkInv, NEW u \in Users, DatabaseFails(u) \/ Crash(u)
  PROVE  LinkInv'
<1>1. UNCHANGED sent /\ Kept
  BY StillKept DEF DatabaseFails, Crash, zatca
<1> QED BY <1>1, EndsLink DEF DatabaseFails, Crash

(* A request arrives.  Where an invoice is deleted, whoever reads across   *)
(* it is known.                                                            *)
LEMMA RequestLink ==
  ASSUME TypeInv, LinkInv, NEW u \in Users, NEW k \in Ids,
         Submit(u, k) \/ View(u, k) \/ Edit(u, k)
  PROVE  LinkInv'
<1>1. CASE Submit(u, k)
  <2> DEFINE r == [Fresh EXCEPT !.on = k]
  <2>1. r.on = k
    BY DEF Fresh
  <2>2. UNCHANGED sent /\ Kept /\ Goto(u, "verify") /\ Become(u, r)
    BY <1>1, StillKept DEF Submit, zatca
  <2> HIDE DEF r
  <2> QED BY <2>1, <2>2, GoesOn, NothingRead, KeptStep
<1>2. CASE View(u, k)
  <2> DEFINE r == [Fresh EXCEPT !.on = k, !.kind = "view"]
  <2>1. r.on = k /\ r.kind = "view"
    BY DEF Fresh
  <2>2. UNCHANGED sent /\ Kept /\ Goto(u, "load") /\ Become(u, r)
    BY <1>2, StillKept DEF View, zatca, history
  <2> HIDE DEF r
  <2>3. Reads(row, crossed, "load", r) /\ Renews(row, made, Unsteady, "load", r)
    BY <2>1, ViewReads DEF PCs
  <2> QED BY <2>1, <2>2, <2>3, GoesOn, KeptStep
<1>3. CASE Edit(u, k)
  <2>1. UNCHANGED <<made, sent, viewed, crossed, raced, pc, my>>
    BY <1>3 DEF Edit, zatca, history
  <2>2. \A i \in Ids : /\ row'[i].hash = row[i].hash /\ row'[i].previous = row[i].previous
                       /\ row'[i].deleted = row[i].deleted
    BY <1>3 DEF Edit, TypeInv, RowsOK, RowType
  <2>3. Kept
    BY <2>1, <2>2 DEF Kept, Unsteady
  <2>4. Reads(row, crossed, pc[u], my[u]) /\ Renews(row, made, Unsteady, pc[u], my[u])
        /\ my[u].on \in Ids
    BY MyFacts DEF LinkInv, Links
  <2> QED BY <2>1, <2>3, <2>4, KeptStep
<1> QED BY <1>1, <1>2, <1>3

LEMMA DeleteLink ==
  ASSUME TypeInv, LinkInv, NEW u \in Users, NEW k \in Ids, Delete(u, k)
  PROVE  LinkInv'
<1>1. /\ UNCHANGED <<made, sent, viewed, raced, pc, my>> /\ crossed' = crossed \cup After(k, Looking)
      /\ Unsteady' = Unsteady \cup After(k, Looking)
  BY DEF Delete, zatca, Crosses, Unsteady
<1>2. /\ \A i \in Ids : /\ row'[i].hash = row[i].hash /\ row'[i].previous = row[i].previous
                        /\ row[i].deleted => row'[i].deleted
      /\ \A i \in Ids \ {k} : row'[i] = row[i]
  BY DEF Delete, TypeInv, RowsOK, RowType
<1>3. \A i \in Ids : Linked(i)' /\ SentWith(i)'
  BY <1>1, <1>2 DEF LinkInv, Linked, SentWith
<1>4. ASSUME NEW v \in Users PROVE Links(v)'
  <2> DEFINE i == my[v].on
  <2>1. /\ i \in Ids /\ i \in Nat /\ k \in Nat
        /\ Reads(row, crossed, pc[v], my[v]) /\ Renews(row, made, Unsteady, pc[v], my[v])
    BY MyFacts, InvoicesAssumption DEF LinkInv, Links, Ids
  <2>2. ASSUME pc[v] \in Looking, i \notin crossed' PROVE PriorIn(row', i) = PriorIn(row, i)
    <3>1. ~(i > k)
      BY <1>1, <2>1, <2>2 DEF After
    <3>2. \A j \in Ids : j < i => j # k
      BY <2>1, <3>1
    <3> QED BY <1>2, <2>1, <3>2, PriorStays DEF HashedIn
  <2>3. Reads(row', crossed', pc[v], my[v])
    BY <1>1, <1>2, <2>1, <2>2 DEF Reads, Looking
  <2>4. i \notin Unsteady' => i \notin crossed' /\ i \notin Unsteady
    BY <1>1 DEF Unsteady
  <2>5. Renews(row', made', Unsteady', pc[v], my[v])
    BY <1>1, <1>2, <2>1, <2>2, <2>4 DEF Renews
  <2> QED BY <1>1, <2>3, <2>5 DEF Links
<1> QED BY <1>3, <1>4 DEF LinkInv

LEMMA PersistLink ==
  ASSUME TypeInv, AnswerInv, LinkInv, NEW u \in Users, Persist(u)
  PROVE  LinkInv'
<1> DEFINE k == my[u].on
<1>1. /\ k \in Ids /\ row \in [Ids -> RowType(made)] /\ row[k] \in RowType(made)
      /\ pc[u] = "persist" /\ my[u] \in HeldType(made) /\ UNCHANGED sent
      /\ Reads(row, crossed, pc[u], my[u]) /\ Renews(row, made, Unsteady, pc[u], my[u])
  BY MyFacts DEF TypeInv, RowsOK, Persist, LinkInv, Links
<1>2. CASE row[k].deleted
  <2>1. GiveUp(u) /\ Kept
    BY <1>2, StillKept DEF Persist, history
  <2> QED BY <1>1, <2>1, EndsLink
<1>3. CASE ~row[k].deleted
  <2>1. PICK hash \in DOMAIN made' :
          /\ hash # 0 /\ made'[hash] = Document(u) /\ Grows
          /\ row' = [row EXCEPT ![k] = [row[k] EXCEPT !.hash = hash, !.previous = my[u].link]]
          /\ IF my[u].kind = "view" THEN Return(u)
             ELSE Become(u, [Fresh EXCEPT !.on = k, !.doc = hash]) /\ Goto(u, "keep")
          /\ viewed' = IF my[u].kind = "view" THEN viewed \cup {k} ELSE viewed
          /\ Crosses(k) /\ UNCHANGED <<raced, lost>>
    BY <1>3, PersistFacts
  <2>2. /\ row'[k].hash = hash /\ row'[k].previous = my[u].link /\ ~row'[k].deleted
        /\ \A i \in Ids \ {k} : row'[i] = row[i]
        /\ made'[hash].of = k /\ made'[hash].pih = my[u].pih
    BY <1>1, <1>3, <2>1 DEF RowType, Document
  <2>3. /\ crossed \subseteq crossed' /\ Unsteady \subseteq Unsteady' /\ crossed' \subseteq Unsteady'
        /\ After(k, Looking) \subseteq crossed'
        /\ my[u].kind = "view" => k \in Unsteady'
    BY <2>1 DEF Crosses, Unsteady
  <2>4. k \notin crossed' => my[u].link = my[u].pih
    BY <1>1, <1>3, <2>3 DEF Reads
  <2>5. k \notin Unsteady' => /\ my[u].kind = "submit" /\ k \notin raced
                              /\ row[k].previous \in {0, my[u].pih} /\ my[u].link = my[u].pih
    <3>1. k \notin Unsteady' => my[u].kind = "submit" /\ k \notin Unsteady
      BY <1>1, <2>3 DEF HeldType
    <3>2. k \notin Unsteady => k \notin raced
      BY DEF Unsteady
    <3> QED BY <1>1, <1>3, <2>3, <2>4, <3>1, <3>2 DEF Renews
  <2>6. ASSUME NEW i \in Ids PROVE Linked(i)' /\ SentWith(i)'
    <3>1. Linked(i) /\ SentWith(i)
      BY DEF LinkInv
    <3>2. \A d \in sent' : d \in DOMAIN made /\ made'[d] = made[d]
      BY <1>1, <2>1 DEF TypeInv, DocsOK, Hashes, Grows
    <3>3. CASE i = k
      <4>1. Linked(i)'
        BY <2>2, <2>4, <3>3 DEF Linked
      <4>2. SentWith(i)'
        BY <1>1, <2>2, <2>3, <2>5, <3>1, <3>2, <3>3 DEF SentWith
      <4> QED BY <4>1, <4>2
    <3>4. CASE i # k
      <4>1. row'[i] = row[i] /\ (row[i].hash # 0 => made'[row[i].hash] = made[row[i].hash])
        BY <1>1, <2>1, <2>2, <3>4 DEF RowType, Marks, Grows
      <4> QED BY <1>1, <2>3, <3>1, <3>2, <4>1 DEF Linked, SentWith
    <3> QED BY <3>3, <3>4
  <2>7. /\ pc'[u] \in {"idle", "keep"}
        /\ pc'[u] = "keep" => my'[u].on = k /\ my'[u].doc = hash
        /\ \A v \in Users \ {u} : pc'[v] = pc[v] /\ my'[v] = my[v]
    <3>1. CASE my[u].kind = "view"
      BY <2>1, <3>1, Returns
    <3>2. CASE my[u].kind # "view"
      <4> DEFINE r == [Fresh EXCEPT !.on = k, !.doc = hash]
      <4>1. r.on = k /\ r.doc = hash
        BY DEF Fresh
      <4>2. Goto(u, "keep") /\ Become(u, r)
        BY <2>1, <3>2
      <4> HIDE DEF r
      <4> QED BY <4>1, <4>2, GoesOn
    <3> QED BY <3>1, <3>2
  <2>8. Links(u)'
    BY <2>2, <2>5, <2>7 DEF Links, Reads, Renews, Looking
  <2>9. ASSUME NEW v \in Users \ {u} PROVE Links(v)'
    <3> DEFINE i == my[v].on
    <3>1. /\ i \in Ids /\ i \in Nat /\ k \in Nat /\ Held(made, pc[v], my[v])
          /\ Reads(row, crossed, pc[v], my[v]) /\ Renews(row, made, Unsteady, pc[v], my[v])
      BY MyFacts, InvoicesAssumption DEF LinkInv, Links, Ids
    <3>2. ASSUME pc[v] \in Looking, i \notin crossed' PROVE PriorIn(row', i) = PriorIn(row, i)
      <4>1. ~(i > k)
        BY <2>3, <3>1, <3>2 DEF After
      <4>2. \A j \in Ids : j < i => j # k
        BY <3>1, <4>1
      <4> QED BY <2>2, <3>1, <4>2, PriorStays DEF HashedIn
    <3>3. row'[i].deleted <=> row[i].deleted
      BY <1>3, <2>2, <3>1
    <3>4. Reads(row', crossed', pc[v], my[v])
      BY <2>3, <3>1, <3>2, <3>3 DEF Reads, Looking
    <3>5. ASSUME i \notin Unsteady', my[v].kind = "submit", pc[v] # "idle"
          PROVE  row'[i].previous = row[i].previous
      <4>1. i # k
        <5> SUFFICES ASSUME i = k PROVE FALSE
          OBVIOUS
        <5>1. Alone(k) /\ my[u].kind = "submit"
          BY <1>1, <2>5, <3>5 DEF AnswerInv
        <5> QED BY <1>1, <3>5, <5>1 DEF Alone, Submitting
      <4> QED BY <2>2, <3>1, <4>1
    <3>6. pc[v] \in {"keep", "send"} => made'[my[v].doc] = made[my[v].doc]
      BY <2>1, <3>1 DEF Held, Grows
    <3>7. Renews(row', made', Unsteady', pc[v], my[v])
      BY <2>3, <3>1, <3>2, <3>3, <3>5, <3>6 DEF Renews, Looking
    <3> QED BY <2>7, <3>4, <3>7 DEF Links
  <2> QED BY <2>6, <2>8, <2>9 DEF LinkInv
<1> QED BY <1>2, <1>3

LEMMA LinkInit == Init => LinkInv
<1> SUFFICES ASSUME Init PROVE LinkInv
  OBVIOUS
<1>1. \A i \in Ids : Linked(i) /\ SentWith(i)
  BY DEF Init, Linked, SentWith
<1>2. \A u \in Users : Links(u)
  BY NothingRead DEF Init, Links
<1> QED BY <1>1, <1>2 DEF LinkInv

LEMMA LinkStep == TypeInv /\ AnswerInv /\ LinkInv /\ [Next]_vars => LinkInv'
<1> SUFFICES ASSUME TypeInv, AnswerInv, LinkInv, [Next]_vars PROVE LinkInv'
  OBVIOUS
<1>1. ASSUME NEW u \in Users, Request(u) PROVE LinkInv'
  BY <1>1, RequestLink, DeleteLink DEF Request
<1>2. ASSUME NEW u \in Users, Handle(u) \/ DatabaseFails(u) \/ Crash(u) PROVE LinkInv'
  BY <1>2, ReadLink, WriteLink, SendLink, PersistLink, StopLink DEF Handle
<1>3. CASE UNCHANGED vars
  BY <1>3 DEF vars, zatca, history, LinkInv, Linked, SentWith, Links, Unsteady
<1> QED BY <1>1, <1>2, <1>3 DEF Next

-----------------------------------------------------------------------------
(* The numbers of the chain.                                               *)

BeforeIn(x, i) == {j \in 1 .. i - 1 : HashedIn(x, j)}

(* While every invoice was hashed once and in order, an invoice has the    *)
(* next number after those before it and the hash of the last of them; and *)
(* so will the one that a handler is about to hash, unless a later one was *)
(* hashed meanwhile.                                                       *)
Numbered(i) ==
  Hashed(i) => /\ made[row[i].hash].icv = Cardinality(BeforeIn(row, i)) + 1
               /\ made[row[i].hash].pih = PriorIn(row, i)

Last(x, i) == \A j \in i + 1 .. NInvoices : ~HashedIn(x, j)

Numbers(x, l, r) ==
  /\ l \in {"generate", "again", "persist"} /\ Last(x, r.on) =>
       r.icv = Cardinality(BeforeIn(x, r.on)) + 1
  /\ l \in {"again", "persist"} /\ ~x[r.on].deleted => r.pih = PriorIn(x, r.on)

NumberInv ==
  ~shuffled => /\ \A i \in Ids : Numbered(i)
               /\ \A u \in Users : Numbers(row, pc[u], my[u])

LEMMA ChainSuffices == TypeInv /\ LinkInv /\ NumberInv => ChainHolds
<1> SUFFICES ASSUME TypeInv, LinkInv, NumberInv PROVE ChainHolds
  OBVIOUS
<1>1. ASSUME NEW i \in Ids \ crossed
      PROVE  /\ row[i].hash # 0 => row[i].previous = made[row[i].hash].pih
             /\ i \notin raced \cup viewed =>
                  Cardinality({made[d].pih : d \in {e \in sent : made[e].of = i}} \ {0}) <= 1
  <2>1. Linked(i) /\ SentWith(i)
    BY DEF LinkInv
  <2>2. ASSUME i \notin raced \cup viewed
        PROVE  Cardinality({made[d].pih : d \in {e \in sent : made[e].of = i}} \ {0}) <= 1
    <3> DEFINE S == {made[d].pih : d \in {e \in sent : made[e].of = i}} \ {0}
    <3>1. S \subseteq {row[i].previous}
      BY <2>1, <2>2 DEF SentWith, Unsteady
    <3>2. S = {} \/ S = {row[i].previous}
      BY <3>1
    <3> HIDE DEF S
    <3>3. CASE S = {}
      <4>1. Cardinality(S) = 0
        BY <3>3, FS_EmptySet
      <4>2. Cardinality(S) <= 1
        BY <4>1
      <4> QED BY <4>2 DEF S
    <3>4. CASE S = {row[i].previous}
      <4>1. \A d : Cardinality({d}) = 1
        BY FS_Singleton
      <4>2. Cardinality({row[i].previous}) = 1
        BY <4>1
      <4>3. Cardinality(S) = 1
        BY <3>4, <4>2
      <4>4. Cardinality(S) <= 1
        BY <4>3
      <4> QED BY <4>4 DEF S
    <3> QED BY <3>2, <3>3, <3>4
  <2> QED BY <2>1, <2>2 DEF Linked
<1>2. ASSUME ~shuffled, NEW i \in Ids, Hashed(i)
      PROVE  /\ made[row[i].hash].icv = Cardinality({j \in 1 .. i : Hashed(j)})
             /\ made[row[i].hash].pih = Prior(i)
  <2>1. Numbered(i)
    BY <1>2 DEF NumberInv
  <2>2. {j \in 1 .. i : Hashed(j)} = BeforeIn(row, i) \cup {i} /\ i \notin BeforeIn(row, i)
    BY <1>2, InRow, InvoicesAssumption DEF BeforeIn, Ids
  <2>3. IsFiniteSet(BeforeIn(row, i))
    <3>1. i - 1 \in Nat
      BY InvoicesAssumption DEF Ids
    <3>2. IsFiniteSet(1 .. i - 1)
      BY <3>1, FS_Interval
    <3> QED BY <3>2, FS_Subset DEF BeforeIn
  <2>4. Cardinality(BeforeIn(row, i) \cup {i}) = Cardinality(BeforeIn(row, i)) + 1
    BY <2>2, <2>3, FS_AddElement
  <2> QED BY <1>2, <2>1, <2>2, <2>4, InRow DEF Numbered
<1> QED BY <1>1, <1>2 DEF ChainHolds

(* The numbers are looked at in which invoices are hashed, the hashes and  *)
(* the documents.                                                          *)
SameHashes(x, y) ==
  \A i \in Ids : /\ HashedIn(x, i) <=> HashedIn(y, i)
                 /\ HashedIn(x, i) => x[i].hash = y[i].hash
                 /\ x[i].deleted => y[i].deleted

LEMMA NumbersStay ==
  ASSUME NEW x, NEW y, SameHashes(x, y), NEW i \in Ids
  PROVE  /\ BeforeIn(x, i) = BeforeIn(y, i) /\ PriorIn(x, i) = PriorIn(y, i)
         /\ Last(x, i) <=> Last(y, i)
<1>1. \A j \in 1 .. i - 1 : j \in Ids
  BY InvoicesAssumption DEF Ids
<1>2. BeforeIn(x, i) = BeforeIn(y, i)
  BY <1>1 DEF BeforeIn, SameHashes
<1>3. PriorIn(x, i) = PriorIn(y, i)
  BY PriorStays DEF SameHashes
<1>4. \A j \in i + 1 .. NInvoices : j \in Ids
  BY InvoicesAssumption DEF Ids
<1>5. Last(x, i) <=> Last(y, i)
  BY <1>4 DEF Last, SameHashes
<1> QED BY <1>2, <1>3, <1>5

LEMMA SameNumbers ==
  ASSUME TypeInv, NumberInv, UNCHANGED made, SameHashes(row, row'), shuffled => shuffled',
         NEW u \in Users, NEW l, NEW r, r.on \in Ids, pc'[u] = l, my'[u] = r,
         ~shuffled => Numbers(row, l, r),
         \A v \in Users \ {u} : pc'[v] = pc[v] /\ my'[v] = my[v]
  PROVE  NumberInv'
<1> SUFFICES ASSUME ~shuffled'
             PROVE  /\ \A i \in Ids : Numbered(i)'
                    /\ \A v \in Users : Numbers(row', pc'[v], my'[v])
  BY DEF NumberInv
<1>0. ~shuffled
  OBVIOUS
<1>1. ASSUME NEW i \in Ids PROVE Numbered(i)'
  <2>1. Numbered(i)
    BY <1>0 DEF NumberInv
  <2>2. Hashed(i)' => Hashed(i) /\ row'[i].hash = row[i].hash
    BY DEF SameHashes, Hashed, HashedIn
  <2> QED BY <2>1, <2>2, NumbersStay DEF Numbered
<1>2. ASSUME NEW a, NEW b, b.on \in Ids, Numbers(row, a, b) PROVE Numbers(row', a, b)
  BY <1>2, NumbersStay DEF Numbers, SameHashes
<1>3. ASSUME NEW v \in Users PROVE Numbers(row', pc'[v], my'[v])
  <2>1. CASE v = u
    BY <1>0, <1>2, <2>1
  <2>2. CASE v # u
    <3>1. Numbers(row, pc[v], my[v]) /\ my[v].on \in Ids
      BY <1>0, MyFacts DEF NumberInv
    <3> QED BY <1>2, <2>2, <3>1
  <2> QED BY <2>1, <2>2
<1> QED BY <1>1, <1>3

(* A handler goes where it has no number yet, or none any more.            *)
LEMMA NoNumber ==
  ASSUME TypeInv, NumberInv, UNCHANGED made, SameHashes(row, row'), shuffled => shuffled',
         NEW u \in Users, pc'[u] \notin {"generate", "again", "persist"}, my'[u].on \in Ids,
         \A v \in Users \ {u} : pc'[v] = pc[v] /\ my'[v] = my[v]
  PROVE  NumberInv'
<1>1. PICK l, r : l = pc'[u] /\ r = my'[u]
  OBVIOUS
<1>2. Numbers(row, l, r)
  BY <1>1 DEF Numbers
<1> QED BY <1>1, <1>2, SameNumbers

(* Where only the number is left to be counted.                            *)
LEMMA CountsNext ==
  ASSUME NEW i \in Ids, Last(row, i)
  PROVE  NextCounter(i) = Cardinality(BeforeIn(row, i)) + 1
<1>1. i \in Nat /\ NInvoices \in Nat /\ \A j \in Ids : j \in Nat /\ j <= NInvoices /\ 1 <= j
  BY InvoicesAssumption DEF Ids
<1>2. ASSUME NEW j \in Ids \ {i}, Hashed(j) PROVE j \in BeforeIn(row, i)
  <2>1. ~(j \in i + 1 .. NInvoices)
    BY <1>2, InRow DEF Last
  <2> QED BY <1>1, <1>2, <2>1, InRow DEF BeforeIn
<1>3. ASSUME NEW j \in BeforeIn(row, i) PROVE j \in Ids \ {i} /\ Hashed(j)
  BY <1>1, <1>3, InRow DEF BeforeIn, Ids
<1>4. {j \in Ids \ {i} : Hashed(j)} = BeforeIn(row, i)
  BY <1>2, <1>3
<1> QED BY <1>4 DEF NextCounter

LEMMA ReadNumber ==
  ASSUME TypeInv, NumberInv, NEW u \in Users,
         Verify(u) \/ Check(u) \/ Load(u) \/ Count(u) \/ Generate(u) \/ Again(u) \/ Audit(u)
  PROVE  NumberInv'
<1>1. UNCHANGED <<row, made, shuffled>> /\ SameHashes(row, row')
  BY DEF Verify, Check, Load, Count, Generate, Again, Audit, zatca, history, SameHashes
<1>2. my[u] \in HeldType(made) /\ my[u].on \in Ids /\ Fresh.on \in Ids
  BY MyFacts, InvoicesAssumption DEF Fresh, Ids
<1>3. ~shuffled => Numbers(row, pc[u], my[u])
  BY DEF NumberInv
<1>4. ASSUME NEW l, NEW r, Goto(u, l), Become(u, r), r.on \in Ids, ~shuffled => Numbers(row, l, r)
      PROVE  NumberInv'
  BY <1>1, <1>4, GoesOn, SameNumbers
<1>5. ASSUME GiveUp(u) \/ Return(u) PROVE NumberInv'
  <2>1. /\ pc'[u] \in {"idle", "fail"} /\ my'[u].on \in Ids
        /\ \A v \in Users \ {u} : pc'[v] = pc[v] /\ my'[v] = my[v]
    BY <1>2, <1>5, GoesOn, Stays DEF GiveUp, Return
  <2> QED BY <1>1, <2>1, NoNumber
<1>6. ASSUME NEW l \in {"check", "pend", "count"}, NEW r PROVE Numbers(row, l, r)
  BY DEF Numbers
<1>7. CASE Verify(u) \/ Check(u) \/ Load(u)
  <2>1. \/ GiveUp(u) \/ Return(u)
        \/ \E l, r : /\ l \in {"check", "pend", "count"} /\ r.on \in Ids
                    /\ Goto(u, l) /\ Become(u, r)
    <3>1. CASE Verify(u)
      <4>1. [my[u] EXCEPT !.previous = row[my[u].on].previous].on \in Ids
        BY <1>2 DEF HeldType
      <4> QED BY <3>1, <4>1 DEF Verify
    <3>2. CASE Check(u)
      <4>1. [my[u] EXCEPT !.previous = 0].on \in Ids
        BY <1>2 DEF HeldType
      <4> QED BY <3>2, <4>1 DEF Check
    <3>3. CASE Load(u)
      <4>1. [my[u] EXCEPT !.contents = row[my[u].on].contents].on \in Ids
        BY <1>2 DEF HeldType
      <4> QED BY <3>3, <4>1 DEF Load
    <3> QED BY <1>7, <3>1, <3>2, <3>3
  <2> QED BY <1>4, <1>5, <1>6, <2>1
<1>8. CASE Count(u)
  <2> DEFINE r == [my[u] EXCEPT !.icv = NextCounter(my[u].on)]
  <2>1. r.on = my[u].on /\ r.icv = NextCounter(my[u].on)
    BY <1>2 DEF HeldType
  <2>2. Goto(u, "generate") /\ Become(u, r)
    BY <1>8 DEF Count
  <2> HIDE DEF r
  <2>3. Numbers(row, "generate", r)
    BY <1>2, <2>1, CountsNext DEF Numbers
  <2> QED BY <1>2, <1>4, <2>1, <2>2, <2>3
<1>9. CASE Generate(u)
  <2> DEFINE r == [my[u] EXCEPT !.pih = PriorOf(my[u].on)]
  <2>1. r.on = my[u].on /\ r.icv = my[u].icv /\ r.pih = PriorOf(my[u].on)
    BY <1>2 DEF HeldType
  <2>2. GiveUp(u) \/ (Goto(u, "again") /\ Become(u, r))
    BY <1>9 DEF Generate
  <2> HIDE DEF r
  <2>3. ~shuffled => Numbers(row, "again", r)
    BY <1>3, <1>9, <2>1, InRow DEF Generate, Numbers, PriorOf
  <2> QED BY <1>2, <1>4, <1>5, <2>1, <2>2, <2>3
<1>10. CASE Again(u)
  <2> DEFINE r == [my[u] EXCEPT !.link = PriorOf(my[u].on)]
  <2>1. r.on = my[u].on /\ r.icv = my[u].icv /\ r.pih = my[u].pih
    BY <1>2 DEF HeldType
  <2>2. Goto(u, "persist") /\ Become(u, r)
    BY <1>10 DEF Again
  <2> HIDE DEF r
  <2>3. ~shuffled => Numbers(row, "persist", r)
    BY <1>3, <1>10, <2>1 DEF Again, Numbers
  <2> QED BY <1>2, <1>4, <2>1, <2>2, <2>3
<1>11. CASE Audit(u)
  BY <1>5, <1>11 DEF Audit
<1> QED BY <1>7, <1>8, <1>9, <1>10, <1>11

LEMMA WriteNumber ==
  ASSUME TypeInv, NumberInv, NEW u \in Users,
         Pend(u) \/ Keep(u) \/ Send(u) \/ Record(u) \/ RecordFailure(u) \/ DatabaseFails(u) \/ Crash(u)
  PROVE  NumberInv'
<1>1. my[u].on \in Ids /\ Fresh.on \in Ids /\ row \in [Ids -> RowType(made)]
  BY MyFacts, InvoicesAssumption DEF Fresh, Ids, TypeInv, RowsOK
<1>2. UNCHANGED <<made, shuffled>>
  BY DEF Pend, Keep, Send, Record, RecordFailure, DatabaseFails, Crash, zatca, history
<1>3. \A i \in Ids : row'[i].hash = row[i].hash /\ row'[i].deleted = row[i].deleted
  BY <1>1 DEF Pend, Keep, Send, Record, RecordFailure, DatabaseFails, Crash, RowType
<1>4. SameHashes(row, row')
  BY <1>3 DEF SameHashes, HashedIn
<1>5. \/ GiveUp(u) \/ Return(u)
      \/ \E l \in {"load", "send", "record", "audit", "fail"} : Goto(u, l) /\ UNCHANGED my
  BY DEF Pend, Keep, Send, Record, RecordFailure, DatabaseFails, Crash
<1>6. /\ pc'[u] \in {"idle", "load", "send", "record", "audit", "fail"} /\ my'[u].on \in Ids
      /\ \A v \in Users \ {u} : pc'[v] = pc[v] /\ my'[v] = my[v]
  BY <1>1, <1>5, GoesOn, Stays DEF GiveUp, Return
<1> QED BY <1>2, <1>4, <1>6, NoNumber

LEMMA RequestNumber ==
  ASSUME TypeInv, NumberInv, NEW u \in Users, Request(u)
  PROVE  NumberInv'
<1>1. ASSUME NEW k \in Ids, Submit(u, k) \/ View(u, k) PROVE NumberInv'
  <2>1. UNCHANGED <<row, made, shuffled>> /\ SameHashes(row, row')
    BY <1>1 DEF Submit, View, zatca, history, SameHashes
  <2>2. PICK l, r : l \in {"verify", "load"} /\ Goto(u, l) /\ Become(u, r) /\ r.on = k
    <3>1. [Fresh EXCEPT !.on = k].on = k /\ [Fresh EXCEPT !.on = k, !.kind = "view"].on = k
      BY DEF Fresh
    <3> QED BY <1>1, <3>1 DEF Submit, View
  <2> QED BY <2>1, <2>2, GoesOn, NoNumber
<1>2. ASSUME NEW k \in Ids, Edit(u, k) \/ Delete(u, k) PROVE NumberInv'
  <2>1. UNCHANGED <<made, pc, my>> /\ row \in [Ids -> RowType(made)]
    BY <1>2 DEF Edit, Delete, zatca, TypeInv, RowsOK
  <2>2. my[u].on \in Ids /\ (~shuffled => Numbers(row, pc[u], my[u]))
    BY MyFacts DEF NumberInv
  <2>3. (shuffled => shuffled') /\ (~shuffled' => SameHashes(row, row'))
    <3>1. CASE Edit(u, k)
      <4>1. \A i \in Ids : row'[i].hash = row[i].hash /\ row'[i].deleted = row[i].deleted
        BY <2>1, <3>1 DEF Edit, RowType
      <4>2. shuffled' = shuffled
        BY <3>1 DEF Edit, history
      <4>3. SameHashes(row, row')
        BY <4>1 DEF SameHashes, HashedIn
      <4> QED BY <4>2, <4>3
    <3>2. CASE Delete(u, k)
      <4>1. shuffled' = (shuffled \/ row[k].hash # 0)
        BY <3>2 DEF Delete
      <4>2. /\ row'[k].hash = row[k].hash /\ row'[k].deleted
            /\ \A i \in Ids \ {k} : row'[i] = row[i]
        BY <2>1, <3>2 DEF Delete, RowType
      <4>3. row[k].hash = 0 => \A i \in Ids : /\ row'[i].hash = row[i].hash
                                              /\ HashedIn(row', i) <=> HashedIn(row, i)
        BY <4>2 DEF HashedIn
      <4>4. row[k].hash = 0 => SameHashes(row, row')
        BY <4>3, <4>2 DEF SameHashes, HashedIn
      <4> QED BY <4>1, <4>4
    <3> QED BY <1>2, <3>1, <3>2
  <2>4. CASE shuffled'
    BY <2>4 DEF NumberInv
  <2>5. CASE ~shuffled'
    BY <2>1, <2>2, <2>3, <2>5, SameNumbers
  <2> QED BY <2>4, <2>5
<1> QED BY <1>1, <1>2 DEF Request

LEMMA PersistNumber ==
  ASSUME TypeInv, NumberInv, NEW u \in Users, Persist(u)
  PROVE  NumberInv'
<1> DEFINE k == my[u].on
<1>1. /\ k \in Ids /\ row \in [Ids -> RowType(made)] /\ row[k] \in RowType(made)
      /\ pc[u] = "persist"
  BY MyFacts DEF TypeInv, RowsOK, Persist
<1>2. CASE row[k].deleted
  <2>1. GiveUp(u) /\ UNCHANGED <<row, made, shuffled>> /\ SameHashes(row, row')
    BY <1>2 DEF Persist, history, SameHashes
  <2>2. /\ pc'[u] \in {"idle", "fail"} /\ my'[u].on \in Ids
        /\ \A v \in Users \ {u} : pc'[v] = pc[v] /\ my'[v] = my[v]
    BY <1>1, <2>1, GoesOn, Stays, InvoicesAssumption DEF GiveUp, Return, Fresh, Ids
  <2> QED BY <2>1, <2>2, NoNumber
<1>3. CASE ~row[k].deleted
  <2> SUFFICES ASSUME ~shuffled'
               PROVE  /\ \A i \in Ids : Numbered(i)'
                      /\ \A v \in Users : Numbers(row', pc'[v], my'[v])
    BY DEF NumberInv
  <2>1. PICK hash \in DOMAIN made' :
          /\ hash # 0 /\ made'[hash] = Document(u) /\ Grows
          /\ row' = [row EXCEPT ![k] = [row[k] EXCEPT !.hash = hash, !.previous = my[u].link]]
          /\ IF my[u].kind = "view" THEN Return(u)
             ELSE Become(u, [Fresh EXCEPT !.on = k, !.doc = hash]) /\ Goto(u, "keep")
          /\ shuffled' = (shuffled \/ row[k].hash \notin {0, hash}
                            \/ (\E j \in k + 1 .. NInvoices : Hashed(j))
                            \/ After(k, Looking \cup {"persist"}) # {})
    BY <1>3, PersistFacts
  <2>2. /\ row'[k].hash = hash /\ ~row'[k].deleted /\ \A i \in Ids \ {k} : row'[i] = row[i]
        /\ made'[hash].icv = my[u].icv /\ made'[hash].pih = my[u].pih
    BY <1>1, <1>3, <2>1 DEF RowType, Document
  <2>3. /\ ~shuffled /\ row[k].hash \in {0, hash} /\ Last(row, k)
        /\ After(k, Looking \cup {"persist"}) = {}
    <3>1. /\ ~shuffled /\ ~(row[k].hash \notin {0, hash})
          /\ ~\E j \in k + 1 .. NInvoices : Hashed(j)
          /\ ~(After(k, Looking \cup {"persist"}) # {})
      <4>1. shuffled' = (shuffled \/ row[k].hash \notin {0, hash}
                          \/ (\E j \in k + 1 .. NInvoices : Hashed(j))
                          \/ After(k, Looking \cup {"persist"}) # {})
        BY <2>1
      <4> QED BY <4>1
    <3>2. ASSUME NEW j \in k + 1 .. NInvoices PROVE ~HashedIn(row, j)
      BY <3>1, InRow
    <3> QED BY <3>1, <3>2 DEF Last
  <2>4. /\ \A i \in Ids : Numbered(i)
        /\ my[u].icv = Cardinality(BeforeIn(row, k)) + 1 /\ my[u].pih = PriorIn(row, k)
    BY <1>1, <1>3, <2>3 DEF NumberInv, Numbers
  <2>5. HashedIn(row', k) /\ \A i \in Ids : HashedIn(row', i) <=> HashedIn(row, i) \/ i = k
    BY <1>3, <2>1, <2>2 DEF HashedIn
  <2>6. ASSUME NEW i \in Ids, i <= k
        PROVE  BeforeIn(row', i) = BeforeIn(row, i) /\ PriorIn(row', i) = PriorIn(row, i)
    <3>1. i \in Nat /\ k \in Nat /\ \A j \in 1 .. i - 1 : j \in Ids /\ j < k
      BY <1>1, <2>6, InvoicesAssumption DEF Ids
    <3>2. BeforeIn(row', i) = BeforeIn(row, i)
      BY <2>5, <3>1 DEF BeforeIn
    <3>3. \A j \in Ids : j < i => j # k
      BY <2>6, <3>1
    <3>4. PriorIn(row', i) = PriorIn(row, i)
      BY <2>2, <3>3, PriorStays DEF HashedIn
    <3> QED BY <3>2, <3>4
  <2>7. k \in Nat /\ \A i \in Ids : i \in Nat /\ i <= NInvoices /\ NInvoices \in Nat
    BY <1>1, InvoicesAssumption DEF Ids
  <2>8. ASSUME NEW i \in Ids PROVE Numbered(i)'
    <3>1. CASE i = k
      BY <1>1, <2>2, <2>4, <2>6, <2>7, <3>1 DEF Numbered
    <3>2. CASE i # k /\ HashedIn(row, i)
      <4>1. i <= k
        BY <2>3, <2>7, <3>2 DEF Last
      <4>2. row[i].hash \in DOMAIN made
        BY <1>1, <3>2 DEF RowType, Marks, HashedIn
      <4>3. made'[row'[i].hash] = made[row[i].hash] /\ row'[i] = row[i]
        BY <2>1, <2>2, <3>2, <4>2 DEF Grows
      <4> QED BY <2>4, <2>6, <3>2, <4>1, <4>3, InRow DEF Numbered
    <3>3. CASE i # k /\ ~HashedIn(row, i)
      BY <2>5, <3>3 DEF Numbered, Hashed, HashedIn
    <3> QED BY <3>1, <3>2, <3>3
  <2>9. /\ pc'[u] \in {"idle", "keep"} /\ \A v \in Users \ {u} : pc'[v] = pc[v] /\ my'[v] = my[v]
    BY <2>1, GoesOn, Returns
  <2>10. ASSUME NEW v \in Users PROVE Numbers(row', pc'[v], my'[v])
    <3> DEFINE i == my[v].on
    <3>1. CASE v = u
      BY <2>9, <3>1 DEF Numbers
    <3>2. CASE v # u
      <4>1. i \in Ids /\ Numbers(row, pc[v], my[v]) /\ pc'[v] = pc[v] /\ my'[v] = my[v]
        BY <2>3, <2>9, <3>2, MyFacts DEF NumberInv
      <4>2. CASE pc[v] \in {"generate", "again", "persist"}
        <5>1. ~(i > k)
          BY <2>3, <4>1, <4>2 DEF After, Looking
        <5>2. i <= k
          BY <2>7, <4>1, <5>1
        <5>3. Last(row', i) => Last(row, i)
          <6>1. \A j \in i + 1 .. NInvoices : j \in Ids
            BY <2>7, <4>1, InvoicesAssumption DEF Ids
          <6> QED BY <2>5, <6>1 DEF Last
        <5>4. row'[i].deleted <=> row[i].deleted
          BY <1>3, <2>2, <4>1
        <5> QED BY <2>6, <4>1, <5>2, <5>3, <5>4 DEF Numbers
      <4>3. CASE pc[v] \notin {"generate", "again", "persist"}
        BY <4>1, <4>3 DEF Numbers
      <4> QED BY <4>2, <4>3
    <3> QED BY <3>1, <3>2
  <2> QED BY <2>8, <2>10
<1> QED BY <1>2, <1>3

LEMMA NumberInit == Init => NumberInv
BY DEF Init, NumberInv, Numbered, Hashed, Numbers

LEMMA NumberStep == TypeInv /\ NumberInv /\ [Next]_vars => NumberInv'
<1> SUFFICES ASSUME TypeInv, NumberInv, [Next]_vars PROVE NumberInv'
  OBVIOUS
<1>1. ASSUME NEW u \in Users, Request(u) \/ Handle(u) \/ DatabaseFails(u) \/ Crash(u) PROVE NumberInv'
  BY <1>1, RequestNumber, ReadNumber, WriteNumber, PersistNumber DEF Handle
<1>2. CASE UNCHANGED vars
  BY <1>2 DEF vars, zatca, history, NumberInv, Numbered, Hashed
<1> QED BY <1>1, <1>2 DEF Next

(* What is stored as an invoice's predecessor is what its document says;   *)
(* it is sent with one predecessor however often it fails; and invoices    *)
(* that are hashed once, in order and without overlaps are numbered        *)
(* without a gap, each with the hash of the one before it: for any number  *)
(* of invoices and users, where no overlap is on record.                   *)
THEOREM ChainIsKept == Spec => []ChainHolds
<1>1. Init => TypeInv /\ AnswerInv /\ LinkInv /\ NumberInv
  BY TypeInit, AnswerInit, LinkInit, NumberInit
<1>2. TypeInv /\ AnswerInv /\ LinkInv /\ NumberInv /\ [Next]_vars
        => TypeInv' /\ AnswerInv' /\ LinkInv' /\ NumberInv'
  BY TypeStep, AnswerStep, LinkStep, NumberStep
<1> QED BY <1>1, <1>2, ChainSuffices, PTL DEF Spec
================================================================================
