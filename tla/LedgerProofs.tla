----------------------------- MODULE LedgerProofs ------------------------------
(* TLAPS proofs about Ledger, for every set of clients, journals,          *)
(* documents and fiscal years, every amount and every bound.               *)
EXTENDS Ledger, Functions, FiniteSetTheorems, WellFoundedInduction, TLAPS

-----------------------------------------------------------------------------
(* Sums of a function over a finite set: what SumFunctionOnSet, a fold of  *)
(* the community modules over an order nobody knows, adds up to.           *)

(* The smallest of some finite sets: induction on what a sum is over.      *)
LEMMA Smallest ==
  ASSUME NEW Q, Q # {}, \A s \in Q : IsFiniteSet(s)
  PROVE  \E s \in Q : \A t \in Q : Cardinality(s) <= Cardinality(t)
<1> DEFINE R == {ss \in Nat \X Nat : ss[1] < ss[2]}
           D == {Cardinality(s) : s \in Q}
<1>1. IsWellFoundedOn(R, Nat)
  BY NatLessThanWellFounded DEF OpToRel
<1> HIDE DEF R
<1>2. D \in SUBSET Nat /\ D # {}
  BY FS_CardinalityType
<1> HIDE DEF D
<1>3. PICK d \in D : \A e \in D : ~(<<e, d>> \in R)
  BY <1>1, <1>2, WFMin
<1>4. PICK s \in Q : d = Cardinality(s)
  BY DEF D
<1>5. ASSUME NEW t \in Q PROVE Cardinality(s) <= Cardinality(t)
  <2>1. Cardinality(t) \in D /\ Cardinality(t) \in Nat /\ d \in Nat
    BY <1>2 DEF D
  <2>2. ~(Cardinality(t) < d)
    BY <1>3, <2>1 DEF R
  <2> QED BY <1>4, <2>1, <2>2
<1> QED BY <1>5

Chosen(s) == CHOOSE x \in s : TRUE

LEMMA ChosenFacts ==
  ASSUME NEW s, IsFiniteSet(s), s # {}
  PROVE  /\ Chosen(s) \in s /\ IsFiniteSet(s \ {Chosen(s)})
         /\ Cardinality(s \ {Chosen(s)}) < Cardinality(s)
<1>1. Chosen(s) \in s
  BY DEF Chosen
<1>2. IsFiniteSet(s \ {Chosen(s)}) /\ Cardinality(s \ {Chosen(s)}) = Cardinality(s) - 1
  BY <1>1, FS_RemoveElement
<1>3. Cardinality(s) \in Nat
  BY FS_CardinalityType
<1> QED BY <1>1, <1>2, <1>3

(* The recursion that the fold unfolds to, of a function on the subsets.   *)
Unfolded(f, s, g) == IF s = {} THEN 0 ELSE f[Chosen(s)] + g[s \ {Chosen(s)}]
IsSum(f, S, g)    == g = [s \in SUBSET S |-> Unfolded(f, s, g)]

LEMMA SumIsIterated ==
  ASSUME NEW f, NEW S
  PROVE  SumFunctionOnSet(f, S) = (CHOOSE g : IsSum(f, S, g))[S]
BY DEF SumFunctionOnSet, FoldFunctionOnSet, MapThenFoldSet, IsSum, Unfolded, Chosen

(* Two of them agree where both are defined.                               *)
LEMMA SumsAgree ==
  ASSUME NEW f, NEW S, NEW T, NEW g, NEW h, IsSum(f, S, g), IsSum(f, T, h),
         NEW r, IsFiniteSet(r), r \subseteq S, r \subseteq T
  PROVE  g[r] = h[r]
<1> DEFINE Q == {s \in SUBSET r : g[s] # h[s]}
<1>1. SUFFICES ASSUME Q # {} PROVE FALSE
  OBVIOUS
<1>2. \A s \in Q : IsFiniteSet(s)
  BY FS_Subset
<1>3. PICK s \in Q : \A t \in Q : Cardinality(s) <= Cardinality(t)
  BY <1>1, <1>2, Smallest
<1>4. g[s] = Unfolded(f, s, g) /\ h[s] = Unfolded(f, s, h)
  BY DEF IsSum
<1>5. s # {}
  BY <1>3, <1>4 DEF Unfolded
<1> DEFINE t == s \ {Chosen(s)}
<1>6. Cardinality(t) < Cardinality(s) /\ IsFiniteSet(t)
  BY <1>2, <1>5, ChosenFacts
<1>7. Cardinality(t) \in Nat /\ Cardinality(s) \in Nat
  BY <1>2, <1>6, FS_CardinalityType
<1>8. t \notin Q
  BY <1>3, <1>6, <1>7
<1>9. g[t] = h[t]
  BY <1>8
<1> QED BY <1>3, <1>4, <1>5, <1>9 DEF Unfolded

LEMMA SumExists ==
  ASSUME NEW f, NEW S, IsFiniteSet(S)
  PROVE  \E g : IsSum(f, S, g)
<1> DEFINE It(T) == CHOOSE g : IsSum(f, T, g)
           Q == {T \in SUBSET S : ~\E g : IsSum(f, T, g)}
<1>1. SUFFICES ASSUME Q # {} PROVE FALSE
  OBVIOUS
<1>2. \A T \in Q : IsFiniteSet(T)
  BY FS_Subset
<1>3. PICK T \in Q : \A U \in Q : Cardinality(T) <= Cardinality(U)
  BY <1>1, <1>2, Smallest
<1>4. ASSUME NEW s \in SUBSET T, s # {}
      PROVE  LET t == s \ {Chosen(s)} IN
             t \subseteq T /\ IsFiniteSet(t) /\ IsSum(f, t, It(t))
  <2> DEFINE t == s \ {Chosen(s)}
  <2>1. IsFiniteSet(s) /\ Cardinality(s) <= Cardinality(T)
    BY <1>2, <1>4, FS_Subset
  <2>2. IsFiniteSet(t) /\ Cardinality(t) < Cardinality(s)
    BY <1>4, <2>1, ChosenFacts
  <2>3. {Cardinality(t), Cardinality(s), Cardinality(T)} \subseteq Nat
    BY <1>2, <2>1, <2>2, FS_CardinalityType
  <2>4. t \notin Q
    BY <1>3, <2>1, <2>2, <2>3
  <2>5. \E g : IsSum(f, t, g)
    BY <1>4, <2>4
  <2> QED BY <2>2, <2>5
<1> DEFINE value(s) == IF s = {} THEN 0
                       ELSE f[Chosen(s)] + It(s \ {Chosen(s)})[s \ {Chosen(s)}]
           h == [s \in SUBSET T |-> value(s)]
<1>5. ASSUME NEW s \in SUBSET T, s # {}
      PROVE  LET t == s \ {Chosen(s)} IN h[t] = It(t)[t]
  <2> DEFINE t == s \ {Chosen(s)}
  <2>1. t \subseteq T /\ IsFiniteSet(t) /\ IsSum(f, t, It(t))
    BY <1>4, <1>5
  <2>2. It(t)[t] = Unfolded(f, t, It(t)) /\ h[t] = value(t)
    BY <2>1 DEF IsSum
  <2>3. CASE t = {}
    BY <2>2, <2>3 DEF Unfolded
  <2>4. CASE t # {}
    <3> DEFINE r == t \ {Chosen(t)}
    <3>1. IsSum(f, r, It(r)) /\ IsFiniteSet(r)
      BY <1>4, <2>1, <2>4
    <3>2. It(t)[r] = It(r)[r]
      BY <2>1, <3>1, SumsAgree
    <3> QED BY <2>2, <2>4, <3>2 DEF Unfolded
  <2> QED BY <2>3, <2>4
<1>6. ASSUME NEW s \in SUBSET T PROVE h[s] = Unfolded(f, s, h)
  <2>1. h[s] = value(s)
    OBVIOUS
  <2> HIDE DEF h
  <2>2. CASE s = {}
    BY <2>1, <2>2 DEF Unfolded
  <2>3. CASE s # {}
    BY <1>5, <2>1, <2>3 DEF Unfolded
  <2> QED BY <2>2, <2>3
<1>7. IsSum(f, T, h)
  BY <1>6 DEF IsSum
<1> QED BY <1>3, <1>7

(* The sum over a set is one element and the sum over the others.          *)
LEMMA SumUnfolds ==
  ASSUME NEW f, NEW S, IsFiniteSet(S)
  PROVE  /\ S = {} => SumFunctionOnSet(f, S) = 0
         /\ S # {} => SumFunctionOnSet(f, S)
                        = f[Chosen(S)] + SumFunctionOnSet(f, S \ {Chosen(S)})
<1> DEFINE It(T) == CHOOSE g : IsSum(f, T, g)
<1>1. \A T : IsFiniteSet(T) => IsSum(f, T, It(T))
  BY SumExists
<1>2. \A T : SumFunctionOnSet(f, T) = It(T)[T]
  BY SumIsIterated
<1> HIDE DEF It
<1>3. It(S)[S] = Unfolded(f, S, It(S))
  BY <1>1 DEF IsSum
<1>4. CASE S = {}
  BY <1>2, <1>3, <1>4 DEF Unfolded
<1>5. CASE S # {}
  <2> DEFINE t == S \ {Chosen(S)}
  <2>1. IsFiniteSet(t)
    BY <1>5, ChosenFacts
  <2>2. It(S)[t] = It(t)[t]
    BY <1>1, <2>1, SumsAgree
  <2> QED BY <1>2, <1>3, <1>5, <2>2 DEF Unfolded
<1> QED BY <1>4, <1>5

LEMMA SumOfNone ==
  ASSUME NEW f
  PROVE  SumFunctionOnSet(f, {}) = 0
BY SumUnfolds, FS_EmptySet

LEMMA SumIsInteger ==
  ASSUME NEW f, NEW S, IsFiniteSet(S), \A x \in S : f[x] \in Int
  PROVE  SumFunctionOnSet(f, S) \in Int
<1> DEFINE Q == {s \in SUBSET S : SumFunctionOnSet(f, s) \notin Int}
<1>1. SUFFICES ASSUME Q # {} PROVE FALSE
  OBVIOUS
<1>2. \A s \in Q : IsFiniteSet(s)
  BY FS_Subset
<1>3. PICK s \in Q : \A t \in Q : Cardinality(s) <= Cardinality(t)
  BY <1>1, <1>2, Smallest
<1> DEFINE t == s \ {Chosen(s)}
<1>4. s # {}
  BY <1>3, SumOfNone
<1>5. Chosen(s) \in s /\ IsFiniteSet(t) /\ Cardinality(t) < Cardinality(s)
  BY <1>2, <1>4, ChosenFacts
<1>6. Cardinality(t) \in Nat /\ Cardinality(s) \in Nat
  BY <1>2, <1>5, FS_CardinalityType
<1>7. SumFunctionOnSet(f, t) \in Int
  BY <1>3, <1>5, <1>6
<1>8. SumFunctionOnSet(f, s) = f[Chosen(s)] + SumFunctionOnSet(f, t)
  BY <1>2, <1>4, SumUnfolds
<1> QED BY <1>3, <1>5, <1>7, <1>8

(* Any element will do for the one that is taken out.                      *)
LEMMA SumTakesOut ==
  ASSUME NEW f, NEW S, IsFiniteSet(S), \A x \in S : f[x] \in Int, NEW x \in S
  PROVE  SumFunctionOnSet(f, S) = f[x] + SumFunctionOnSet(f, S \ {x})
<1> DEFINE Wrong(s) == \E y \in s : SumFunctionOnSet(f, s) # f[y] + SumFunctionOnSet(f, s \ {y})
           Q == {s \in SUBSET S : Wrong(s)}
<1>1. SUFFICES ASSUME Q # {} PROVE FALSE
  OBVIOUS
<1>2. \A s \in Q : IsFiniteSet(s)
  BY FS_Subset
<1>3. PICK s \in Q : \A t \in Q : Cardinality(s) <= Cardinality(t)
  BY <1>1, <1>2, Smallest
<1>4. PICK y \in s : SumFunctionOnSet(f, s) # f[y] + SumFunctionOnSet(f, s \ {y})
  BY <1>3
<1> DEFINE c == Chosen(s)
           t == s \ {c}
           u == s \ {y}
           r == t \ {y}
<1>5. c \in s /\ IsFiniteSet(s) /\ IsFiniteSet(t) /\ Cardinality(t) < Cardinality(s)
  BY <1>2, <1>4, ChosenFacts
<1>6. IsFiniteSet(u) /\ Cardinality(u) = Cardinality(s) - 1
  BY <1>4, <1>5, FS_RemoveElement
<1>7. {Cardinality(s), Cardinality(t), Cardinality(u)} \subseteq Nat
  BY <1>5, <1>6, FS_CardinalityType
<1>8. SumFunctionOnSet(f, s) = f[c] + SumFunctionOnSet(f, t)
  BY <1>4, <1>5, SumUnfolds
<1>9. c # y
  BY <1>4, <1>8
<1>10. t \in SUBSET S /\ u \in SUBSET S /\ t \notin Q /\ u \notin Q
  BY <1>3, <1>5, <1>6, <1>7
<1>11. y \in t /\ c \in u /\ r = u \ {c}
  BY <1>4, <1>5, <1>9
<1>12. SumFunctionOnSet(f, t) = f[y] + SumFunctionOnSet(f, r)
  BY <1>10, <1>11
<1>13. SumFunctionOnSet(f, u) = f[c] + SumFunctionOnSet(f, r)
  BY <1>10, <1>11
<1>14. IsFiniteSet(r)
  BY <1>5, FS_Subset
<1>15. SumFunctionOnSet(f, r) \in Int
  BY <1>14, SumIsInteger
<1>16. f[c] \in Int /\ f[y] \in Int
  BY <1>4, <1>5
<1> QED BY <1>4, <1>8, <1>12, <1>13, <1>15, <1>16

LEMMA SumAdds ==
  ASSUME NEW f, NEW S, IsFiniteSet(S), NEW x, x \notin S,
         \A y \in S \cup {x} : f[y] \in Int
  PROVE  SumFunctionOnSet(f, S \cup {x}) = f[x] + SumFunctionOnSet(f, S)
<1> DEFINE T == S \cup {x}
<1>1. IsFiniteSet(T) /\ x \in T /\ T \ {x} = S /\ \A y \in T : f[y] \in Int
  BY FS_AddElement
<1> HIDE DEF T
<1>2. SumFunctionOnSet(f, T) = f[x] + SumFunctionOnSet(f, T \ {x})
  BY <1>1, SumTakesOut
<1> QED BY <1>1, <1>2 DEF T

(* A sum is of what the function has on the set, and of no more.           *)
LEMMA SumsEqual ==
  ASSUME NEW f, NEW g, NEW S, IsFiniteSet(S),
         \A x \in S : f[x] = g[x]
  PROVE  SumFunctionOnSet(f, S) = SumFunctionOnSet(g, S)
<1> DEFINE Q == {s \in SUBSET S : SumFunctionOnSet(f, s) # SumFunctionOnSet(g, s)}
<1>1. SUFFICES ASSUME Q # {} PROVE FALSE
  OBVIOUS
<1>2. \A s \in Q : IsFiniteSet(s)
  BY FS_Subset
<1>3. PICK s \in Q : \A t \in Q : Cardinality(s) <= Cardinality(t)
  BY <1>1, <1>2, Smallest
<1> DEFINE t == s \ {Chosen(s)}
<1>4. s # {}
  BY <1>3, SumOfNone
<1>5. Chosen(s) \in s /\ IsFiniteSet(t) /\ Cardinality(t) < Cardinality(s)
  BY <1>2, <1>4, ChosenFacts
<1>6. Cardinality(t) \in Nat /\ Cardinality(s) \in Nat
  BY <1>2, <1>5, FS_CardinalityType
<1>7. SumFunctionOnSet(f, t) = SumFunctionOnSet(g, t)
  BY <1>3, <1>5, <1>6
<1>8. /\ SumFunctionOnSet(f, s) = f[Chosen(s)] + SumFunctionOnSet(f, t)
      /\ SumFunctionOnSet(g, s) = g[Chosen(s)] + SumFunctionOnSet(g, t)
  BY <1>2, <1>4, SumUnfolds
<1> QED BY <1>3, <1>5, <1>7, <1>8

-----------------------------------------------------------------------------
(* The steps a request of a kind goes through.                             *)
RouteOf(kind) ==
  CASE kind = "post"      -> PostPCs
    [] kind = "document"  -> DocumentPCs
    [] kind = "create"    -> {"entry", "lines"}
    [] kind = "reverse"   -> DraftPCs \cup PostPCs
    [] kind = "adjust"    -> (DraftPCs \ {"mark"}) \cup PostPCs
    [] kind = "clone"     -> DraftPCs \ {"mark", "draftChecks"}
    [] kind = "edit"      -> EditPCs \ {"deleteRead", "delete"}
    [] kind = "delete"    -> {"deleteRead", "delete"}
    [] kind = "closeYear" -> YearPCs \cup PostPCs \cup {"entry", "lines"}
    [] OTHER              -> {}

HasJournal == PostPCs \cup EditPCs \cup {"lines", "mark", "closePeriod", "record"}

(* What a client at l holds in r.                                          *)
Held(l, r) == l # "idle" =>
  /\ l \in RouteOf(r.kind)
  /\ Derived(r.kind) => r.source \in Journals
  /\ r.kind = "document" => r.source \in Docs
  /\ r.kind = "closeYear" => r.source \in Period
  /\ l \in HasJournal => r.journal \in Journals
  /\ l \notin HasJournal \/ r.kind = "edit" => r.date \in Period

(* The types, that rows are numbered, that a journal has a date, that one  *)
(* in use has a row, and that the row lock is the committing client's, who *)
(* has a draft under it.                                                   *)
RowsOK    == IsFiniteSet(rows) /\ \A r \in rows : r.sequence <= sequence
DatesOK   == \A j \in Journals : entry[j].status \in {"DRAFT", "POSTED"} => entry[j].date \in Period
ClientsOK == \A c \in Client : /\ Held(pc[c], my[c])
                               /\ my[c].journal # 0 => entry[my[c].journal].status # "NONE"
LocksOK   == \A j \in Journals :
               /\ \A c \in Client : lock[j] = c <=> pc[c] = "commit" /\ my[c].journal = j
               /\ lock[j] # 0 => entry[j].status = "DRAFT"
TypeInv   == TypeOK /\ RowsOK /\ DatesOK /\ ClientsOK /\ LocksOK

-----------------------------------------------------------------------------
(* A client that goes to l with r, and nobody else.                        *)
Turn(c, l, r) == Goto(c, l) /\ my' = [my EXCEPT ![c] = r]

(* A step that leaves the locks alone: what it has to keep.                *)
Tables == /\ entry \in [Journals -> Entries] /\ lines \in [Journals -> LineSets]
          /\ rows \subseteq Rows /\ sequence \in Nat /\ RowsOK /\ DatesOK
          /\ period \in [Period -> {"OPEN", "CLOSED"}]
          /\ closing \in [Period -> Closings \cup {NoClose}]
          /\ requests \in 0 .. MaxRequests /\ edited \subseteq Journals /\ raced \subseteq Journals

LEMMA Turned ==
  ASSUME TypeInv, NEW c \in Client, NEW l \in PCs, NEW r \in Clients, Turn(c, l, r)
  PROVE  /\ pc' \in [Client -> PCs] /\ my' \in [Client -> Clients]
         /\ pc'[c] = l /\ my'[c] = r
         /\ \A d \in Client \ {c} : pc'[d] = pc[d] /\ my'[d] = my[d]
BY DEF Turn, Goto, TypeInv, TypeOK

LEMMA ClientFacts ==
  ASSUME TypeInv, NEW c \in Client
  PROVE  /\ pc[c] \in PCs /\ my[c] \in Clients /\ Held(pc[c], my[c])
         /\ my[c].journal # 0 => my[c].journal \in Journals /\ entry[my[c].journal].status # "NONE"
BY DEF TypeInv, TypeOK, ClientsOK, Clients

LEMMA TypeStep ==
  ASSUME TypeInv, NEW c \in Client, NEW l \in PCs, NEW r \in Clients, Turn(c, l, r), Held(l, r),
         pc[c] # "commit", l # "commit", UNCHANGED lock, Tables',
         \A j \in Journals : entry[j].status # "NONE" => entry'[j].status # "NONE",
         \A j \in Journals : lock[j] # 0 => entry'[j].status = "DRAFT",
         r.journal # 0 => entry'[r.journal].status # "NONE"
  PROVE  TypeInv'
<1>1. /\ pc' \in [Client -> PCs] /\ my' \in [Client -> Clients]
      /\ pc'[c] = l /\ my'[c] = r
      /\ \A d \in Client \ {c} : pc'[d] = pc[d] /\ my'[d] = my[d]
  BY Turned
<1>2. TypeOK' /\ RowsOK' /\ DatesOK'
  BY <1>1 DEF Tables, TypeOK, TypeInv
<1>3. ClientsOK'
  <2> SUFFICES ASSUME NEW d \in Client
               PROVE  /\ Held(pc'[d], my'[d])
                      /\ my'[d].journal # 0 => entry'[my'[d].journal].status # "NONE"
    BY DEF ClientsOK
  <2>1. CASE d = c
    BY <1>1, <2>1
  <2>2. CASE d # c
    BY <1>1, <2>2, ClientFacts
  <2> QED BY <2>1, <2>2
<1>4. LocksOK'
  <2> SUFFICES ASSUME NEW j \in Journals
               PROVE  /\ \A d \in Client : lock'[j] = d <=> pc'[d] = "commit" /\ my'[d].journal = j
                      /\ lock'[j] # 0 => entry'[j].status = "DRAFT"
    BY DEF LocksOK
  <2>1. \A d \in Client : lock[j] = d <=> pc[d] = "commit" /\ my[d].journal = j
    BY DEF TypeInv, LocksOK
  <2> QED BY <1>1, <2>1
<1> QED BY <1>2, <1>3, <1>4 DEF TypeInv

LEMMA TablesHold ==
  ASSUME TypeInv, UNCHANGED <<journalVars, rows, sequence, period, closing, history>>,
         requests' \in 0 .. MaxRequests
  PROVE  Tables'
BY DEF TypeInv, TypeOK, Tables, RowsOK, DatesOK, journalVars, history

(* A step that only reads.                                                 *)
LEMMA QuietStep ==
  ASSUME TypeInv, NEW c \in Client, NEW l \in PCs, NEW r \in Clients, Turn(c, l, r), Held(l, r),
         pc[c] # "commit", l # "commit", r.journal # 0 => entry[r.journal].status # "NONE",
         UNCHANGED <<journalVars, rows, sequence, period, closing, history>>,
         requests' \in 0 .. MaxRequests
  PROVE  TypeInv'
<1>1. Tables' /\ UNCHANGED <<entry, lock>>
  BY TablesHold DEF journalVars
<1>2. \A j \in Journals : lock[j] # 0 => entry'[j].status = "DRAFT"
  BY <1>1 DEF TypeInv, LocksOK
<1> QED BY <1>1, <1>2, TypeStep

LEMMA FreshFacts ==
  /\ Fresh \in Clients /\ Fresh.journal = 0 /\ Held("idle", Fresh)
  /\ \A c : Return(c) <=> Turn(c, "idle", Fresh)
BY DEF Fresh, Clients, Held, Turn, Return, Kinds, NoLines, LineSets

LEMMA SameTurn ==
  ASSUME TypeInv, NEW c \in Client, NEW l, Goto(c, l), UNCHANGED my
  PROVE  Turn(c, l, my[c])
BY DEF TypeInv, TypeOK, Turn

LEMMA LinesFacts ==
  /\ NoLines \in LineSets
  /\ \A n \in Int : Lines(n) \in LineSets /\ Lines(n).net = n
  /\ \A l \in LineSets : Swapped(l) \in LineSets
  /\ \A l, m \in LineSets : And(l, m) \in LineSets
BY DEF LineSets, NoLines, Lines, Swapped, And

LEMMA ReceiveFacts ==
  ASSUME TypeInv, NEW c \in Client, NEW kind \in Kinds, NEW j \in Journals \cup {0},
         NEW s \in Journals \cup Docs \cup Period \cup {0}, NEW p \in Period \cup {0},
         NEW a \in LineSets, Receive(c, kind, j, s, p, a)
  PROVE  \E r \in Clients :
           /\ my' = [my EXCEPT ![c] = r]
           /\ r.kind = kind /\ r.journal = j /\ r.source = s /\ r.date = p /\ r.amount = a
           /\ r.wasOpen = OpenPeriods /\ r.wasPosted = {x.source : x \in rows}
           /\ r.reversals = UNION {Reversals(x) : x \in Journals}
<1> DEFINE r == [kind |-> kind, journal |-> j, source |-> s, date |-> p, amount |-> a,
                 balance |-> 0, late |-> 0, wasOpen |-> OpenPeriods,
                 wasPosted |-> {x.source : x \in rows},
                 reversals |-> UNION {Reversals(x) : x \in Journals}]
<1>1. my' = [my EXCEPT ![c] = r]
  BY DEF Receive
<1>2. OpenPeriods \subseteq Period /\ UNION {Reversals(x) : x \in Journals} \subseteq Journals
  BY DEF OpenPeriods, Reversals
<1>3. {x.source : x \in rows} \subseteq Journals \cup Docs
  BY DEF TypeInv, TypeOK, Rows
<1>4. r \in Clients
  BY <1>2, <1>3 DEF Clients
<1>5. /\ r.kind = kind /\ r.journal = j /\ r.source = s /\ r.date = p /\ r.amount = a
      /\ r.wasOpen = OpenPeriods /\ r.wasPosted = {x.source : x \in rows}
      /\ r.reversals = UNION {Reversals(x) : x \in Journals}
  OBVIOUS
<1> QED BY <1>1, <1>4, <1>5

(* The kind of a request, and the step it goes to.                         *)
LEMMA ReceiveType ==
  ASSUME TypeInv, NEW c \in Client, NEW kind \in Kinds, NEW j \in Journals \cup {0},
         NEW s \in Journals \cup Docs \cup Period \cup {0}, NEW p \in Period \cup {0},
         NEW a \in LineSets, Receive(c, kind, j, s, p, a), NEW l \in PCs \ {"commit"}, Goto(c, l),
         j # 0 => entry[j].status # "NONE",
         \A r : r.kind = kind /\ r.journal = j /\ r.source = s /\ r.date = p => Held(l, r)
  PROVE  TypeInv'
<1>1. PICK r \in Clients :
        /\ my' = [my EXCEPT ![c] = r]
        /\ r.kind = kind /\ r.journal = j /\ r.source = s /\ r.date = p
  BY ReceiveFacts
<1>2. Turn(c, l, r) /\ Held(l, r)
  BY <1>1 DEF Turn
<1>3. pc[c] # "commit" /\ UNCHANGED <<journalVars, rows, sequence, period, closing, history>>
  BY DEF Receive
<1>4. requests' \in 0 .. MaxRequests
  BY BoundAssumption DEF Receive, TypeInv, TypeOK
<1> QED BY <1>1, <1>2, <1>3, <1>4, QuietStep

LEMMA ArriveType ==
  ASSUME TypeInv, NEW c \in Client, Arrive(c)
  PROVE  TypeInv'
<1> USE DEF PostPCs, DocumentPCs, DraftPCs, EditPCs, YearPCs
<1>0. /\ {"yearChecks", "entry", "documentChecks", "editRead", "load", "postEntry", "deleteRead"}
           \subseteq PCs \ {"commit"}
      /\ {"closeYear", "create", "document", "edit", "reverse", "adjust", "clone", "post", "delete"}
           \subseteq Kinds
      /\ NoLines \in LineSets /\ \A a \in Amounts : Lines(a) \in LineSets
  BY LinesFacts, AmountsAssumption DEF PCs, Kinds
<1>1. ASSUME NEW p \in Period, ClosePeriod(c, p) PROVE TypeInv'
  <2>1. /\ pc[c] = "idle" /\ requests' \in 0 .. MaxRequests
        /\ period' = [period EXCEPT ![p] = "CLOSED"]
        /\ UNCHANGED <<entry, lines, lock, rows, sequence, closing, pc, my, edited, raced>>
    BY <1>1, BoundAssumption DEF ClosePeriod, journalVars, history, TypeInv, TypeOK
  <2>2. Tables' /\ UNCHANGED lock
    BY <2>1 DEF Tables, TypeInv, TypeOK, RowsOK, DatesOK
  <2>3. TypeOK' /\ RowsOK' /\ DatesOK'
    BY <2>1, <2>2 DEF TypeInv, TypeOK, Tables
  <2>4. ClientsOK' /\ LocksOK'
    BY <2>1 DEF TypeInv, ClientsOK, LocksOK
  <2> QED BY <2>3, <2>4 DEF TypeInv
<1>2. ASSUME NEW p \in Period, CloseYear(c, p) PROVE TypeInv'
  <2>1. Receive(c, "closeYear", 0, p, p, NoLines) /\ Goto(c, "yearChecks")
    BY <1>2 DEF CloseYear
  <2>2. \A r : r.kind = "closeYear" /\ r.journal = 0 /\ r.source = p /\ r.date = p => Held("yearChecks", r)
    BY DEF Held, RouteOf, HasJournal, Derived
  <2>3. /\ "yearChecks" \in PCs \ {"commit"} /\ "closeYear" \in Kinds /\ NoLines \in LineSets
        /\ 0 \in Journals \cup {0} /\ p \in Journals \cup Docs \cup Period \cup {0}
        /\ p \in Period \cup {0}
    BY <1>0
  <2>4. 0 # 0 => entry[0].status # "NONE"
    BY <2>1
  <2> HIDE DEF PostPCs, DocumentPCs, DraftPCs, EditPCs, YearPCs
  <2> QED BY <2>1, <2>2, <2>3, <2>4, ReceiveType
<1>3. ASSUME NEW p \in Period, NEW a \in Amounts, Create(c, p, a) PROVE TypeInv'
  <2>1. Receive(c, "create", 0, 0, p, Lines(a)) /\ Goto(c, "entry")
    BY <1>3 DEF Create
  <2>2. \A r : r.kind = "create" /\ r.journal = 0 /\ r.source = 0 /\ r.date = p => Held("entry", r)
    BY DEF Held, RouteOf, HasJournal, Derived
  <2>3. /\ "entry" \in PCs \ {"commit"} /\ "create" \in Kinds /\ Lines(a) \in LineSets
        /\ 0 \in Journals \cup {0} /\ 0 \in Journals \cup Docs \cup Period \cup {0}
        /\ p \in Period \cup {0}
    BY <1>0
  <2>4. 0 # 0 => entry[0].status # "NONE"
    BY <2>1
  <2> HIDE DEF PostPCs, DocumentPCs, DraftPCs, EditPCs, YearPCs
  <2> QED BY <2>1, <2>2, <2>3, <2>4, ReceiveType
<1>4. ASSUME NEW p \in Period, NEW a \in Amounts, NEW d \in Docs, PostDocument(c, d, p, a) PROVE TypeInv'
  <2>1. /\ Receive(c, "document", 0, d, p, Lines(a)) /\ Goto(c, "documentChecks")
    BY <1>4 DEF PostDocument
  <2>2. \A r : r.kind = "document" /\ r.journal = 0 /\ r.source = d /\ r.date = p => Held("documentChecks", r)
    BY DEF Held, RouteOf, HasJournal, Derived
  <2>3. /\ "documentChecks" \in PCs \ {"commit"} /\ "document" \in Kinds /\ Lines(a) \in LineSets
        /\ 0 \in Journals \cup {0} /\ d \in Journals \cup Docs \cup Period \cup {0}
        /\ p \in Period \cup {0}
    BY <1>0
  <2>4. 0 # 0 => entry[0].status # "NONE"
    BY <2>1
  <2> HIDE DEF PostPCs, DocumentPCs, DraftPCs, EditPCs, YearPCs
  <2> QED BY <2>1, <2>2, <2>3, <2>4, ReceiveType
<1>5. ASSUME NEW p \in Period, NEW a \in Amounts, NEW j \in Journals, Edit(c, j, p, a) PROVE TypeInv'
  <2>1. /\ Receive(c, "edit", j, 0, p, Lines(a)) /\ Goto(c, "editRead")
        /\ entry[j].status # "NONE"
    BY <1>5 DEF Edit
  <2>2. \A r : r.kind = "edit" /\ r.journal = j /\ r.source = 0 /\ r.date = p => Held("editRead", r)
    BY DEF Held, RouteOf, HasJournal, Derived
  <2>3. /\ "editRead" \in PCs \ {"commit"} /\ "edit" \in Kinds /\ Lines(a) \in LineSets
        /\ j \in Journals \cup {0} /\ 0 \in Journals \cup Docs \cup Period \cup {0}
        /\ p \in Period \cup {0}
    BY <1>0
  <2>4. j # 0 => entry[j].status # "NONE"
    BY <2>1
  <2> HIDE DEF PostPCs, DocumentPCs, DraftPCs, EditPCs, YearPCs
  <2> QED BY <2>1, <2>2, <2>3, <2>4, ReceiveType
<1>6. ASSUME NEW p \in Period, NEW a \in Amounts, NEW j \in Journals,
             NEW kind \in {"reverse", "adjust", "clone"}, Derive(c, kind, j, p, a)
      PROVE  TypeInv'
  <2> DEFINE b == IF kind = "adjust" THEN Lines(a) ELSE NoLines
  <2>1. Receive(c, kind, 0, j, p, b) /\ Goto(c, "load") /\ b \in LineSets
    BY <1>6, <1>0 DEF Derive
  <2>2. \A r : r.kind = kind /\ r.journal = 0 /\ r.source = j /\ r.date = p => Held("load", r)
    BY DEF Held, RouteOf, HasJournal, Derived
  <2>3. /\ "load" \in PCs \ {"commit"} /\ kind \in Kinds /\ b \in LineSets
        /\ 0 \in Journals \cup {0} /\ j \in Journals \cup Docs \cup Period \cup {0}
        /\ p \in Period \cup {0}
    BY <1>0
  <2>4. 0 # 0 => entry[0].status # "NONE"
    BY <2>1
  <2> HIDE DEF PostPCs, DocumentPCs, DraftPCs, EditPCs, YearPCs, b
  <2> QED BY <2>1, <2>2, <2>3, <2>4, ReceiveType
<1>7. ASSUME NEW j \in Journals, Post(c, j) PROVE TypeInv'
  <2>1. Receive(c, "post", j, 0, 0, NoLines) /\ Goto(c, "postEntry") /\ entry[j].status # "NONE"
    BY <1>7 DEF Post
  <2>2. \A r : r.kind = "post" /\ r.journal = j /\ r.source = 0 /\ r.date = 0 => Held("postEntry", r)
    BY DEF Held, RouteOf, HasJournal, Derived
  <2>3. /\ "postEntry" \in PCs \ {"commit"} /\ "post" \in Kinds /\ NoLines \in LineSets
        /\ j \in Journals \cup {0} /\ 0 \in Journals \cup Docs \cup Period \cup {0}
        /\ 0 \in Period \cup {0}
    BY <1>0
  <2>4. j # 0 => entry[j].status # "NONE"
    BY <2>1
  <2> HIDE DEF PostPCs, DocumentPCs, DraftPCs, EditPCs, YearPCs
  <2> QED BY <2>1, <2>2, <2>3, <2>4, ReceiveType
<1>8. ASSUME NEW j \in Journals, Delete(c, j) PROVE TypeInv'
  <2>1. Receive(c, "delete", j, 0, 0, NoLines) /\ Goto(c, "deleteRead") /\ entry[j].status # "NONE"
    BY <1>8 DEF Delete
  <2>2. \A r : r.kind = "delete" /\ r.journal = j /\ r.source = 0 /\ r.date = 0 => Held("deleteRead", r)
    BY DEF Held, RouteOf, HasJournal, Derived
  <2>3. /\ "deleteRead" \in PCs \ {"commit"} /\ "delete" \in Kinds /\ NoLines \in LineSets
        /\ j \in Journals \cup {0} /\ 0 \in Journals \cup Docs \cup Period \cup {0}
        /\ 0 \in Period \cup {0}
    BY <1>0
  <2>4. j # 0 => entry[j].status # "NONE"
    BY <2>1
  <2> HIDE DEF PostPCs, DocumentPCs, DraftPCs, EditPCs, YearPCs
  <2> QED BY <2>1, <2>2, <2>3, <2>4, ReceiveType
<1> QED BY <1>1, <1>2, <1>3, <1>4, <1>5, <1>6, <1>7, <1>8 DEF Arrive

LEMMA NetIsInteger ==
  ASSUME TypeInv, NEW R \in SUBSET rows
  PROVE  IsFiniteSet(R) /\ SumNet(R) \in Int
<1> DEFINE f == [r \in R |-> r.amount.net]
<1>1. IsFiniteSet(R)
  BY FS_Subset DEF TypeInv, RowsOK
<1>2. \A r \in R : f[r] \in Int
  BY DEF TypeInv, TypeOK, Rows, LineSets
<1>3. SumNet(R) = SumFunctionOnSet(f, R)
  BY DEF SumNet, SumFunction
<1> HIDE DEF f
<1> QED BY <1>1, <1>2, <1>3, SumIsInteger

(* The steps that only read.                                               *)
ReadStep(c) ==
  \/ PostEntry(c) \/ PostChecks(c) \/ DocumentChecks(c) \/ DocumentCheck(c)
  \/ Load(c) \/ LoadLines(c) \/ DraftChecks(c) \/ EditRead(c) \/ DeleteRead(c)
  \/ YearChecks(c) \/ YearBalances(c) \/ LoseLines(c)

(* What such a step makes of what the client holds.                        *)
Read(r, s) ==
  /\ s.kind = r.kind /\ s.journal = r.journal /\ s.source = r.source
  /\ s.wasOpen = r.wasOpen /\ s.wasPosted = r.wasPosted /\ s.reversals = r.reversals

LEMMA ReadFacts ==
  ASSUME TypeInv, NEW c \in Client, ReadStep(c)
  PROVE  /\ UNCHANGED <<journalVars, rows, sequence, period, closing, history, requests>>
         /\ pc[c] \notin {"idle", "commit"}
         /\ \E l \in PCs \ {"commit"}, r \in Clients :
              /\ Turn(c, l, r) /\ Held(l, r)
              /\ Read(my[c], r) \/ (l = "idle" /\ r = Fresh)
<1> DEFINE Goes(l, r) == Turn(c, l, r) /\ Held(l, r) /\ (Read(my[c], r) \/ (l = "idle" /\ r = Fresh))
<1>1. UNCHANGED <<journalVars, rows, sequence, period, closing, history, requests>>
  BY DEF ReadStep, PostEntry, PostChecks, DocumentChecks, DocumentCheck, Load, LoadLines,
         DraftChecks, EditRead, DeleteRead, YearChecks, YearBalances, LoseLines
<1>2. pc[c] \notin {"idle", "commit"}
  BY DEF ReadStep, PostEntry, PostChecks, DocumentChecks, DocumentCheck, Load, LoadLines,
         DraftChecks, EditRead, DeleteRead, YearChecks, YearBalances, LoseLines
<1> SUFFICES \E l \in PCs \ {"commit"}, r \in Clients : Goes(l, r)
  BY <1>1, <1>2
<1>3. /\ my[c] \in Clients /\ Held(pc[c], my[c]) /\ pc[c] \in PCs /\ Read(my[c], my[c])
      /\ my[c].kind \in Kinds
  BY ClientFacts DEF Read, Clients
<1>4. CASE Return(c)
  <2>1. Goes("idle", Fresh)
    BY <1>4, FreshFacts
  <2> HIDE DEF Goes
  <2> QED BY <2>1, FreshFacts DEF PCs
<1>9. ASSUME NEW l \in PCs \ {"commit", "idle"}, Goto(c, l), UNCHANGED my, Held(l, my[c])
      PROVE  \E k \in PCs \ {"commit"}, r \in Clients : Goes(k, r)
  <2>1. Goes(l, my[c])
    BY <1>3, <1>9, SameTurn
  <2> HIDE DEF Goes
  <2> QED BY <1>3, <2>1
<1>5. CASE PostEntry(c)
  <2> DEFINE d == entry[my[c].journal].date
             r == [my[c] EXCEPT !.date = d]
  <2>1. Turn(c, "postChecks", r) /\ pc[c] = "postEntry"
    BY <1>5 DEF PostEntry, Turn
  <2>2. d \in Period \cup {0} /\ my[c].journal \in Journals
    BY <1>3, <2>1 DEF Held, HasJournal, PostPCs, TypeInv, TypeOK, Entries
  <2> HIDE DEF d
  <2>3. r \in Clients /\ Read(my[c], r)
    BY <1>3, <2>2 DEF Clients, Read
  <2> HIDE DEF r
  <2>4. Held("postChecks", r)
    BY <1>3, <2>1, <2>3 DEF Held, Read, RouteOf, HasJournal, Derived, Kinds, PostPCs, DraftPCs, DocumentPCs, EditPCs, YearPCs
  <2>5. Goes("postChecks", r)
    BY <2>1, <2>3, <2>4
  <2> HIDE DEF Goes
  <2> QED BY <2>3, <2>5 DEF PCs, PostPCs
<1>6. CASE LoadLines(c)
  <2> DEFINE a == lines[my[c].source]
             b == CASE my[c].kind = "reverse" -> Swapped(a)
                    [] my[c].kind = "clone"   -> a
                    [] OTHER                  -> my[c].amount
             l == IF my[c].kind = "clone" THEN "entry" ELSE "draftChecks"
             r == [my[c] EXCEPT !.amount = b]
  <2>1. Turn(c, l, r) /\ pc[c] = "loadLines"
    BY <1>6 DEF LoadLines, Turn
  <2>2. my[c].source \in Journals
    BY <1>3, <2>1 DEF Held, RouteOf, Derived, Kinds, PostPCs, DraftPCs, DocumentPCs, EditPCs, YearPCs
  <2>3. a \in LineSets /\ my[c].amount \in LineSets
    BY <1>3, <2>2 DEF TypeInv, TypeOK, Clients
  <2>4. b \in LineSets
    BY <2>3, LinesFacts
  <2> HIDE DEF b
  <2>5. r \in Clients /\ Read(my[c], r) /\ r.date = my[c].date
    BY <1>3, <2>4 DEF Clients, Read
  <2> HIDE DEF r
  <2>6. Held(l, r)
    BY <1>3, <2>1, <2>5 DEF Held, Read, RouteOf, HasJournal, Derived, Kinds, PostPCs, DraftPCs, DocumentPCs, EditPCs, YearPCs
  <2>7. Goes(l, r) /\ l \in PCs \ {"commit"}
    BY <2>1, <2>5, <2>6 DEF PCs, DraftPCs
  <2> HIDE DEF Goes, l
  <2> QED BY <2>5, <2>7
<1>7. CASE YearBalances(c)
  <2> DEFINE b == Net(my[c].source)
             r == [my[c] EXCEPT !.balance = b, !.amount = Lines(-b), !.late = 0]
  <2>1. Turn(c, "entry", r) /\ pc[c] = "yearBalances"
    BY <1>7 DEF YearBalances, Turn
  <2>2. b \in Int
    BY NetIsInteger DEF Net
  <2>3. Lines(-b) \in LineSets
    BY <2>2, LinesFacts
  <2> HIDE DEF b
  <2>4. r \in Clients /\ Read(my[c], r) /\ r.date = my[c].date
    <3> DEFINE q == [my[c] EXCEPT !.balance = b]
               x == [q EXCEPT !.amount = Lines(-b)]
    <3>1. q \in Clients /\ Read(my[c], q) /\ q.date = my[c].date
      BY <1>3, <2>2 DEF Clients, Read
    <3> HIDE DEF q
    <3>2. x \in Clients /\ Read(my[c], x) /\ x.date = my[c].date
      BY <2>3, <3>1 DEF Clients, Read
    <3>3. r = [x EXCEPT !.late = 0]
      BY DEF q
    <3> HIDE DEF x, r
    <3> QED BY <3>2, <3>3 DEF Clients, Read
  <2> HIDE DEF r
  <2>5. Held("entry", r)
    BY <1>3, <2>1, <2>4 DEF Held, Read, RouteOf, HasJournal, Derived, Kinds, PostPCs, DraftPCs, DocumentPCs, EditPCs, YearPCs
  <2>6. Goes("entry", r)
    BY <2>1, <2>4, <2>5
  <2> HIDE DEF Goes
  <2> QED BY <2>4, <2>6 DEF PCs, DraftPCs
<1>8. CASE \/ PostChecks(c) \/ DocumentChecks(c) \/ DocumentCheck(c) \/ Load(c) \/ DraftChecks(c)
           \/ EditRead(c) \/ DeleteRead(c) \/ YearChecks(c) \/ LoseLines(c)
  <2> DEFINE Follows(k, l) == k = pc[c] /\ Goto(c, l) /\ UNCHANGED my
  <2>1. \/ Return(c)
        \/ Follows("postChecks", "lock") \/ Follows("documentChecks", "documentCheck")
        \/ Follows("documentCheck", "documentCommit") \/ Follows("load", "loadLines")
        \/ Follows("draftChecks", "entry") \/ Follows("editRead", "editClear")
        \/ Follows("deleteRead", "delete") \/ Follows("yearChecks", "yearBalances")
        \/ Follows("lines", "postEntry") /\ my[c].kind = "closeYear"
    BY <1>8 DEF PostChecks, DocumentChecks, DocumentCheck, Load, DraftChecks, EditRead,
                DeleteRead, YearChecks, LoseLines
  <2>2. ASSUME NEW l \in PCs \ {"idle", "commit"}, NEW k \in PCs, Follows(k, l),
               <<k, l>> \in {<<"postChecks", "lock">>, <<"documentChecks", "documentCheck">>,
                             <<"documentCheck", "documentCommit">>, <<"load", "loadLines">>,
                             <<"draftChecks", "entry">>, <<"editRead", "editClear">>,
                             <<"deleteRead", "delete">>, <<"yearChecks", "yearBalances">>}
                 \/ (k = "lines" /\ l = "postEntry" /\ my[c].kind = "closeYear")
        PROVE  Held(l, my[c])
    BY <1>3, <2>2 DEF Held, RouteOf, HasJournal, Derived, Kinds, PostPCs, DraftPCs, DocumentPCs, EditPCs, YearPCs
  <2> QED BY <1>4, <1>9, <2>1, <2>2 DEF PCs, PostPCs, DraftPCs, DocumentPCs, EditPCs, YearPCs
<1> QED BY <1>5, <1>6, <1>7, <1>8 DEF ReadStep

LEMMA ReadType ==
  ASSUME TypeInv, NEW c \in Client, ReadStep(c)
  PROVE  TypeInv'
<1>1. /\ UNCHANGED <<journalVars, rows, sequence, period, closing, history, requests>>
      /\ pc[c] # "commit"
  BY ReadFacts
<1>2. PICK l \in PCs \ {"commit"}, r \in Clients :
        /\ Turn(c, l, r) /\ Held(l, r)
        /\ Read(my[c], r) \/ (l = "idle" /\ r = Fresh)
  BY ReadFacts
<1>3. r.journal # 0 => entry[r.journal].status # "NONE"
  BY <1>2, ClientFacts, FreshFacts DEF Read
<1>4. requests' \in 0 .. MaxRequests
  BY <1>1 DEF TypeInv, TypeOK
<1> QED BY <1>1, <1>2, <1>3, <1>4, QuietStep

-----------------------------------------------------------------------------
(* What a posting adds to the ledger.                                      *)

LEMMA SumNetAdds ==
  ASSUME NEW R, IsFiniteSet(R), NEW x, x \notin R, R \cup {x} \subseteq Rows
  PROVE  SumNet(R \cup {x}) = SumNet(R) + x.amount.net /\ SumNet(R) \in Int
<1> DEFINE f == [r \in R |-> r.amount.net]
           g == [r \in R \cup {x} |-> r.amount.net]
<1>1. /\ \A r \in R : f[r] = g[r] /\ f[r] \in Int
      /\ \A r \in R \cup {x} : g[r] \in Int
      /\ g[x] = x.amount.net /\ g[x] \in Int
  BY DEF Rows, LineSets
<1>2. SumNet(R) = SumFunctionOnSet(f, R) /\ SumNet(R \cup {x}) = SumFunctionOnSet(g, R \cup {x})
  BY DEF SumNet, SumFunction
<1> HIDE DEF f, g
<1>3. SumFunctionOnSet(f, R) = SumFunctionOnSet(g, R) /\ SumFunctionOnSet(f, R) \in Int
  BY <1>1, SumsEqual, SumIsInteger
<1>4. SumFunctionOnSet(g, R \cup {x}) = g[x] + SumFunctionOnSet(g, R)
  BY <1>1, SumAdds
<1> QED BY <1>1, <1>2, <1>3, <1>4

LEMMA SumNetOfNone == SumNet({}) = 0
BY SumOfNone DEF SumNet, SumFunction

RowsIn(R, s) == {r \in R : r.source = s}
NetIn(R, p)  == SumNet({r \in R : r.date = p})

LEMMA InRows ==
  /\ \A s : RowsOf(s) = RowsIn(rows, s)
  /\ \A p : Net(p) = NetIn(rows, p)
BY DEF RowsOf, RowsIn, Net, NetIn

LEMMA RecordFacts ==
  ASSUME TypeInv, NEW s \in Journals \cup Docs, NEW p \in Period, NEW a \in LineSets,
         Record(s, p, a)
  PROVE  /\ rows' \subseteq Rows /\ sequence' \in Nat /\ RowsOK' /\ rows \subseteq rows'
         /\ \/ a = NoLines /\ rows' = rows
            \/ \E x \in Rows \ rows : /\ rows' = rows \cup {x}
                                      /\ x.source = s /\ x.date = p /\ x.amount = a
<1>1. rows \subseteq Rows /\ sequence \in Nat /\ sequence' = sequence + 1
  BY DEF TypeInv, TypeOK, Record
<1>2. IsFiniteSet(rows) /\ \A r \in rows : r.sequence <= sequence /\ r.sequence \in Nat
  BY DEF TypeInv, TypeOK, RowsOK, Rows
<1>3. \A r \in rows : r.sequence <= sequence'
  BY <1>1, <1>2
<1>4. CASE a = NoLines
  BY <1>1, <1>2, <1>3, <1>4 DEF Record, RowsOK
<1>5. CASE a # NoLines
  <2> DEFINE x == [source |-> s, date |-> p, amount |-> a, sequence |-> sequence + 1]
  <2>1. rows' = rows \cup {x}
    BY <1>5 DEF Record
  <2>2. /\ x \in Rows /\ x.source = s /\ x.date = p /\ x.amount = a
        /\ x.sequence = sequence + 1
    BY <1>1 DEF Rows
  <2> HIDE DEF x
  <2>3. x \notin rows
    BY <1>1, <1>2, <2>2
  <2>4. IsFiniteSet(rows') /\ rows' \subseteq Rows
    BY <1>1, <1>2, <2>1, <2>2, FS_AddElement
  <2>5. \A r \in rows' : r.sequence <= sequence'
    BY <1>1, <1>3, <2>1, <2>2
  <2> QED BY <1>1, <2>1, <2>2, <2>3, <2>4, <2>5 DEF RowsOK
<1> QED BY <1>4, <1>5

(* The net income of the years, and the rows of the sources.               *)
LEMMA RecordAdds ==
  ASSUME TypeInv, NEW s \in Journals \cup Docs, NEW p \in Period, NEW a \in LineSets,
         Record(s, p, a)
  PROVE  /\ \A q : NetIn(rows, q) \in Int
         /\ NetIn(rows', p) = NetIn(rows, p) + a.net
         /\ \A q : q # p => NetIn(rows', q) = NetIn(rows, q)
         /\ \A t : t # s => RowsIn(rows', t) = RowsIn(rows, t)
         /\ RowsIn(rows, s) = {} =>
              /\ RowsIn(rows', s) = {} \/ \E x \in rows' : RowsIn(rows', s) = {x}
              /\ SumNet(RowsIn(rows', s)) = a.net
<1>0. rows \subseteq Rows /\ \A R \in SUBSET rows : IsFiniteSet(R) /\ SumNet(R) \in Int
  BY NetIsInteger DEF TypeInv, TypeOK
<1>1. \A q : NetIn(rows, q) \in Int
  BY <1>0 DEF NetIn
<1>2. CASE a = NoLines /\ rows' = rows
  <2>1. /\ \A q : NetIn(rows', q) = NetIn(rows, q)
        /\ \A t : RowsIn(rows', t) = RowsIn(rows, t)
    BY <1>2
  <2>2. a.net = 0 /\ NetIn(rows, p) \in Int
    BY <1>1, <1>2 DEF NoLines
  <2>3. NetIn(rows', p) = NetIn(rows, p) + a.net
    BY <2>1, <2>2
  <2>4. RowsIn(rows, s) = {} => RowsIn(rows', s) = {} /\ SumNet(RowsIn(rows', s)) = a.net
    BY <2>1, <2>2, SumNetOfNone
  <2> QED BY <1>1, <2>1, <2>3, <2>4
<1>3. CASE \E x \in Rows \ rows : /\ rows' = rows \cup {x}
                                  /\ x.source = s /\ x.date = p /\ x.amount = a
  <2>1. PICK x \in Rows \ rows : /\ rows' = rows \cup {x}
                                 /\ x.source = s /\ x.date = p /\ x.amount = a
    BY <1>3
  <2>2. NetIn(rows', p) = NetIn(rows, p) + a.net
    <3> DEFINE R == {r \in rows : r.date = p}
    <3>1. {r \in rows' : r.date = p} = R \cup {x} /\ R \in SUBSET rows /\ x \notin R
      BY <2>1
    <3> HIDE DEF R
    <3>2. SumNet(R \cup {x}) = SumNet(R) + x.amount.net
      BY <1>0, <2>1, <3>1, SumNetAdds
    <3> QED BY <2>1, <3>1, <3>2 DEF NetIn, R
  <2>3. ASSUME NEW q, q # p PROVE NetIn(rows', q) = NetIn(rows, q)
    <3>1. {r \in rows' : r.date = q} = {r \in rows : r.date = q}
      BY <2>1, <2>3
    <3> QED BY <3>1 DEF NetIn
  <2>4. \A t : t # s => RowsIn(rows', t) = RowsIn(rows, t)
    BY <2>1 DEF RowsIn
  <2>5. ASSUME RowsIn(rows, s) = {}
        PROVE  RowsIn(rows', s) = {x} /\ SumNet(RowsIn(rows', s)) = a.net
    <3>1. RowsIn(rows', s) = {x} /\ {} \cup {x} = {x} /\ IsFiniteSet({})
      BY <2>1, <2>5, FS_EmptySet DEF RowsIn
    <3>2. SumNet({} \cup {x}) = SumNet({}) + x.amount.net
      BY <2>1, <3>1, SumNetAdds
    <3>3. a.net \in Int
      BY DEF LineSets
    <3>4. SumNet({x}) = 0 + a.net
      BY <2>1, <3>1, <3>2, SumNetOfNone
    <3> QED BY <3>1, <3>3, <3>4
  <2> QED BY <1>1, <2>1, <2>2, <2>3, <2>4, <2>5
<1> QED BY <1>2, <1>3, RecordFacts

-----------------------------------------------------------------------------
(* The steps that write.                                                   *)

LEMMA TableFacts ==
  ASSUME TypeInv
  PROVE  /\ Tables
         /\ \A j \in Journals : /\ lock[j] # 0 => entry[j].status = "DRAFT"
                                /\ entry[j].status \in Statuses
                                /\ entry[j] \in Entries /\ lines[j] \in LineSets
BY DEF TypeInv, TypeOK, LocksOK, Tables, Entries

(* A journal is no other's number, nor 0.                                  *)
LEMMA JournalFacts == 0 \notin Journals /\ Journals \cap Docs = {} /\ Journals \subseteq Nat
<1>1. Cardinality(Journals) \in Nat
  BY JournalsAssumption, FS_CardinalityType
<1>2. \A j \in Journals : j \in Nat /\ j >= 1
  BY <1>1, JournalsAssumption
<1> QED BY <1>2, DocsAssumption

LEMMA InsertEntryType ==
  ASSUME TypeInv, NEW c \in Client, InsertEntry(c)
  PROVE  TypeInv'
<1> DEFINE derived == IF Derived(my[c].kind) THEN my[c].source ELSE 0
           l == IF my[c].kind = "closeYear" /\ my[c].amount = NoLines THEN "closePeriod" ELSE "lines"
           e == [status |-> "DRAFT", type |-> TypeOf(my[c].kind), date |-> my[c].date,
                 total |-> my[c].amount.total, source |-> derived, reversedBy |-> 0]
<1>1. PICK j \in Unused :
        /\ entry' = [entry EXCEPT ![j] = e]
        /\ my' = [my EXCEPT ![c].journal = j]
  BY DEF InsertEntry
<1>2. /\ pc[c] = "entry" /\ Goto(c, l)
      /\ UNCHANGED <<lines, lock, rows, sequence, period, closing, requests, edited, raced>>
  BY DEF InsertEntry, history
<1>3. my[c] \in Clients /\ Held("entry", my[c])
  BY <1>2, ClientFacts
<1> DEFINE r == [my[c] EXCEPT !.journal = j]
<1>4. r \in Clients /\ r.journal = j /\ r.kind = my[c].kind /\ r.source = my[c].source /\ r.date = my[c].date
  BY <1>3 DEF Clients, Unused
<1>5. Turn(c, l, r)
  BY <1>1, <1>2 DEF Turn
<1> HIDE DEF r
<1>6. l \in PCs \ {"commit"} /\ Held(l, r)
  BY <1>3, <1>4 DEF Held, RouteOf, HasJournal, Derived, PCs, Kinds, Clients, Unused, PostPCs, DraftPCs, DocumentPCs, EditPCs, YearPCs
<1>8. e \in Entries /\ e.status = "DRAFT" /\ e.date \in Period
  <2>1. my[c].date \in Period /\ derived \in Journals \cup {0}
    BY <1>3 DEF Held, HasJournal, PostPCs, EditPCs
  <2>2. my[c].amount.total \in Nat
    BY <1>3 DEF Clients, LineSets
  <2>3. TypeOf(my[c].kind) \in EntryTypes
    BY DEF TypeOf, EntryTypes
  <2> HIDE DEF derived
  <2> QED BY <2>1, <2>2, <2>3 DEF Entries, Statuses
<1> HIDE DEF e, l
<1>9. j \in Journals /\ entry[j].status = "NONE"
  BY DEF Unused
<1>10. Tables' /\ entry'[j].status = "DRAFT" /\ \A k \in Journals \ {j} : entry'[k] = entry[k]
  BY <1>1, <1>2, <1>8, <1>9, TableFacts DEF Tables, RowsOK, DatesOK
<1> QED BY <1>2, <1>4, <1>5, <1>6, <1>9, <1>10, TypeStep, TableFacts

LEMMA WriteLinesType ==
  ASSUME TypeInv, NEW c \in Client, InsertLines(c) \/ EditLines(c) \/ EditClear(c)
  PROVE  TypeInv'
<1>1. /\ pc[c] \in {"lines", "editLines", "editClear", "editClearAgain"}
      /\ UNCHANGED <<entry, lock, rows, sequence, period, closing, requests, raced>>
      /\ edited' \in {edited, edited \cup {my[c].journal}}
  BY DEF InsertLines, EditLines, EditClear, history
<1>2. my[c].journal \in Journals /\ my[c] \in Clients /\ Held(pc[c], my[c])
  BY <1>1, ClientFacts DEF Held, HasJournal, EditPCs
<1>3. lines' \in [Journals -> LineSets]
  <2>1. my[c].amount \in LineSets /\ lines[my[c].journal] \in LineSets
    BY <1>2, TableFacts DEF Clients
  <2>2. And(lines[my[c].journal], my[c].amount) \in LineSets /\ NoLines \in LineSets
    BY <2>1, LinesFacts
  <2> QED BY <1>2, <2>2, TableFacts DEF Tables, InsertLines, EditLines, EditClear
<1>4. Tables'
  BY <1>1, <1>2, <1>3, TableFacts DEF Tables, RowsOK, DatesOK
<1>5. \/ Return(c)
      \/ Goto(c, "postEntry") /\ UNCHANGED my /\ pc[c] = "lines" /\ my[c].kind \in {"reverse", "adjust", "closeYear"}
      \/ Goto(c, "editEntry") /\ UNCHANGED my /\ pc[c] = "editClear"
      \/ Goto(c, "editLines") /\ UNCHANGED my /\ pc[c] = "editClearAgain"
  BY DEF InsertLines, EditLines, EditClear
<1>6. CASE Return(c)
  <2>1. Turn(c, "idle", Fresh) /\ "idle" \in PCs
    BY <1>6, FreshFacts DEF PCs
  <2> QED BY <1>1, <1>4, <2>1, FreshFacts, TypeStep, TableFacts
<1>7. CASE ~Return(c)
  <2>1. PICK l \in {"postEntry", "editEntry", "editLines"} :
          Turn(c, l, my[c]) /\ Held(l, my[c])
    <3>1. ASSUME NEW l, Goto(c, l), UNCHANGED my PROVE Turn(c, l, my[c])
      BY <3>1, SameTurn
    <3> QED BY <1>2, <1>5, <1>7, <3>1 DEF Held, RouteOf, HasJournal, Derived, Kinds, Clients, PostPCs, DraftPCs, DocumentPCs, EditPCs, YearPCs
  <2>2. l \in PCs
    BY DEF PCs, PostPCs, EditPCs
  <2>3. my[c].journal # 0 => entry'[my[c].journal].status # "NONE"
    BY <1>1, ClientFacts
  <2> QED BY <1>1, <1>2, <1>4, <2>1, <2>2, <2>3, TypeStep, TableFacts
<1> QED BY <1>6, <1>7

LEMMA WriteEntryType ==
  ASSUME TypeInv, NEW c \in Client, EditEntry(c) \/ Mark(c) \/ DeleteEntry(c)
  PROVE  TypeInv'
<1>1. my[c] \in Clients /\ Held(pc[c], my[c])
  BY ClientFacts
<1>2. CASE EditEntry(c)
  <2> DEFINE j == my[c].journal
             e == [entry[j] EXCEPT !.date = my[c].date, !.total = my[c].amount.total]
  <2>1. /\ pc[c] = "editEntry" /\ entry' = [entry EXCEPT ![j] = e] /\ lock[j] = 0
        /\ Goto(c, "editClearAgain")
        /\ UNCHANGED <<lines, lock, rows, sequence, period, closing, my, requests, edited, raced>>
    BY <1>2 DEF EditEntry, Writable, history
  <2>2. j \in Journals /\ my[c].date \in Period /\ my[c].amount.total \in Nat
    BY <1>1, <2>1 DEF Held, RouteOf, HasJournal, Kinds, Clients, LineSets, PostPCs, DraftPCs, DocumentPCs, EditPCs, YearPCs
  <2>3. e \in Entries /\ e.status = entry[j].status /\ e.date \in Period
    BY <2>2, TableFacts DEF Entries
  <2> HIDE DEF e
  <2>4. Tables' /\ \A k \in Journals : entry'[k].status = entry[k].status
    BY <2>1, <2>2, <2>3, TableFacts DEF Tables, RowsOK, DatesOK
  <2>5. Turn(c, "editClearAgain", my[c]) /\ Held("editClearAgain", my[c]) /\ "editClearAgain" \in PCs
    BY <1>1, <2>1, SameTurn DEF Held, RouteOf, HasJournal, Derived, Kinds, Clients, PCs, PostPCs, DraftPCs, DocumentPCs, EditPCs, YearPCs
  <2>6. j # 0 => entry'[j].status # "NONE"
    BY <2>2, <2>4, ClientFacts
  <2> QED BY <1>1, <2>1, <2>4, <2>5, <2>6, TypeStep, TableFacts
<1>3. CASE Mark(c)
  <2> DEFINE s == my[c].source  j == my[c].journal
             e == [entry[s] EXCEPT !.reversedBy = j]
  <2>1. /\ pc[c] = "mark" /\ (entry' = entry \/ entry' = [entry EXCEPT ![s] = e])
        /\ Return(c)
        /\ UNCHANGED <<lines, lock, rows, sequence, period, closing, requests, edited, raced>>
    BY <1>3 DEF Mark, history
  <2>2. s \in Journals /\ j \in Journals
    BY <1>1, <2>1 DEF Held, RouteOf, HasJournal, Derived, Kinds, Clients, PostPCs, DraftPCs, DocumentPCs, EditPCs, YearPCs
  <2>3. e \in Entries /\ e.status = entry[s].status /\ e.date = entry[s].date
    BY <2>2, TableFacts DEF Entries
  <2> HIDE DEF e
  <2>4. Tables' /\ \A k \in Journals : entry'[k].status = entry[k].status
    <3>1. CASE entry' = entry
      BY <2>1, <3>1, TableFacts DEF Tables, RowsOK, DatesOK
    <3>2. CASE entry' = [entry EXCEPT ![s] = e]
      BY <2>1, <2>2, <2>3, <3>2, TableFacts DEF Tables, RowsOK, DatesOK
    <3> QED BY <2>1, <3>1, <3>2
  <2>5. Turn(c, "idle", Fresh) /\ "idle" \in PCs
    BY <2>1, FreshFacts DEF PCs
  <2> QED BY <2>1, <2>4, <2>5, FreshFacts, TypeStep, TableFacts
<1>4. CASE DeleteEntry(c)
  <2> DEFINE j == my[c].journal
  <2>1. /\ pc[c] = "delete" /\ lock[j] = 0 /\ Return(c)
        /\ lines' = [lines EXCEPT ![j] = NoLines]
        /\ UNCHANGED <<lock, rows, sequence, period, closing, requests, edited, raced>>
        /\ entry' = [k \in Journals |->
             IF k = j THEN [NoEntry EXCEPT !.status = "DELETED"]
             ELSE [entry[k] EXCEPT !.source = IF @ = j THEN 0 ELSE @,
                                   !.reversedBy = IF @ = j THEN 0 ELSE @]]
    BY <1>4 DEF DeleteEntry, history
  <2>2. j \in Journals
    BY <1>1, <2>1 DEF Held, HasJournal, EditPCs
  <2>3. entry'[j] \in Entries /\ entry'[j].status = "DELETED"
    BY <2>1, <2>2 DEF NoEntry, Entries, Statuses, EntryTypes
  <2>4. ASSUME NEW k \in Journals \ {j}
        PROVE  entry'[k] \in Entries /\ entry'[k].status = entry[k].status /\ entry'[k].date = entry[k].date
    <3> DEFINE a == IF entry[k].source = j THEN 0 ELSE entry[k].source
               b == IF entry[k].reversedBy = j THEN 0 ELSE entry[k].reversedBy
    <3>1. entry'[k] = [[entry[k] EXCEPT !.source = a] EXCEPT !.reversedBy = b]
      BY <2>1
    <3>2. a \in Journals \cup {0} /\ b \in Journals \cup {0} /\ entry[k] \in Entries
      BY TableFacts DEF Entries
    <3> HIDE DEF a, b
    <3> QED BY <3>1, <3>2 DEF Entries
  <2>5. entry' \in [Journals -> Entries] /\ lines' \in [Journals -> LineSets]
    <3>1. \A k \in Journals : entry'[k] \in Entries
      BY <2>3, <2>4
    <3> QED BY <2>1, <3>1, LinesFacts, TableFacts DEF Tables
  <2>6. DatesOK'
    BY <2>3, <2>4, TableFacts DEF Tables, DatesOK
  <2>7. Tables'
    BY <2>1, <2>5, <2>6, TableFacts DEF Tables, RowsOK
  <2>8. Turn(c, "idle", Fresh) /\ "idle" \in PCs
    BY <2>1, FreshFacts DEF PCs
  <2>9. \A k \in Journals : /\ entry[k].status # "NONE" => entry'[k].status # "NONE"
                            /\ lock[k] # 0 => entry'[k].status = "DRAFT"
    BY <2>1, <2>3, <2>4, TableFacts
  <2> QED BY <2>1, <2>7, <2>8, <2>9, FreshFacts, TypeStep
<1> QED BY <1>2, <1>3, <1>4

LEMMA WriteYearType ==
  ASSUME TypeInv, NEW c \in Client, YearClosePeriod(c) \/ YearRecord(c)
  PROVE  TypeInv'
<1>1. my[c] \in Clients /\ Held(pc[c], my[c]) /\ pc[c] \in {"closePeriod", "record"}
  BY ClientFacts DEF YearClosePeriod, YearRecord
<1>2. my[c].source \in Period /\ my[c].journal \in Journals
  BY <1>1 DEF Held, RouteOf, HasJournal, Derived, Kinds, Clients, PostPCs, DraftPCs, DocumentPCs, EditPCs, YearPCs
<1>3. CASE YearClosePeriod(c)
  <2>1. /\ period' = [period EXCEPT ![my[c].source] = "CLOSED"] /\ pc[c] = "closePeriod"
        /\ UNCHANGED <<entry, lines, lock, rows, sequence, closing, my, requests, edited, raced>>
        /\ Goto(c, "record")
    BY <1>3 DEF YearClosePeriod, journalVars, history
  <2>2. Tables'
    BY <1>2, <2>1, TableFacts DEF Tables, RowsOK, DatesOK
  <2>3. Turn(c, "record", my[c]) /\ Held("record", my[c]) /\ "record" \in PCs
    BY <1>1, <2>1, SameTurn DEF Held, RouteOf, HasJournal, Derived, Kinds, Clients, PCs, PostPCs, DraftPCs, DocumentPCs, EditPCs, YearPCs
  <2>4. entry[my[c].journal].status # "NONE"
    BY <1>2, JournalFacts, ClientFacts
  <2> QED BY <1>1, <2>1, <2>2, <2>3, <2>4, TypeStep, TableFacts
<1>4. CASE YearRecord(c)
  <2> DEFINE x == [journal |-> my[c].journal, net |-> my[c].balance, late |-> my[c].late]
  <2>1. /\ closing' = closing \/ closing' = [closing EXCEPT ![my[c].source] = x]
        /\ UNCHANGED <<entry, lines, lock, rows, sequence, period, requests, edited, raced>>
        /\ Return(c)
    BY <1>4 DEF YearRecord, journalVars, history
  <2>2. x \in Closings
    BY <1>1, <1>2 DEF Closings, Clients
  <2> HIDE DEF x
  <2>3. closing' \in [Period -> Closings \cup {NoClose}]
    BY <1>2, <2>1, <2>2, TableFacts DEF Tables
  <2>4. Tables'
    BY <2>1, <2>3, TableFacts DEF Tables, RowsOK, DatesOK
  <2>5. Turn(c, "idle", Fresh) /\ "idle" \in PCs
    BY <2>1, FreshFacts DEF PCs
  <2> QED BY <1>1, <2>1, <2>4, <2>5, FreshFacts, TypeStep, TableFacts
<1> QED BY <1>3, <1>4

-----------------------------------------------------------------------------
(* Posting: a year close under way keeps count of what others post.        *)

Like(r, s) ==
  /\ s.kind = r.kind /\ s.journal = r.journal /\ s.source = r.source /\ s.date = r.date
  /\ s.amount = r.amount /\ s.balance = r.balance /\ s.wasOpen = r.wasOpen
  /\ s.wasPosted = r.wasPosted /\ s.reversals = r.reversals

Counted(d, c, p, a) ==
  my[d].late + (IF d # c /\ my[d].kind = "closeYear" /\ my[d].source = p THEN a.net ELSE 0)

LEMMA CountFacts ==
  ASSUME TypeInv, NEW c \in Client, NEW p \in Period, NEW a \in LineSets
  PROVE  /\ CountLate(c, p, a) \in [Client -> Clients]
         /\ CountLate(c, p, a)[c] = my[c]
         /\ \A d \in Client : /\ Like(my[d], CountLate(c, p, a)[d])
                              /\ CountLate(c, p, a)[d].late = Counted(d, c, p, a)
<1>1. a.net \in Int /\ my \in [Client -> Clients]
  BY DEF LineSets, TypeInv, TypeOK
<1>2. ASSUME NEW d \in Client
      PROVE  /\ CountLate(c, p, a)[d] \in Clients
             /\ Like(my[d], CountLate(c, p, a)[d])
             /\ CountLate(c, p, a)[d].late = Counted(d, c, p, a)
  <2>1. my[d] \in Clients /\ my[d].late \in Int
    BY <1>1 DEF Clients
  <2>2. CASE d # c /\ my[d].kind = "closeYear" /\ my[d].source = p
    <3> DEFINE n == my[d].late + a.net
    <3>1. CountLate(c, p, a)[d] = [my[d] EXCEPT !.late = n]
      BY <2>2 DEF CountLate
    <3>2. n \in Int /\ Counted(d, c, p, a) = n
      BY <1>1, <2>1, <2>2 DEF Counted
    <3> HIDE DEF n
    <3> QED BY <2>1, <3>1, <3>2 DEF Clients, Like
  <2>3. CASE ~(d # c /\ my[d].kind = "closeYear" /\ my[d].source = p)
    <3>1. CountLate(c, p, a)[d] = my[d] /\ Counted(d, c, p, a) = my[d].late
      BY <2>1, <2>3 DEF CountLate, Counted
    <3> QED BY <2>1, <3>1 DEF Like
  <2> QED BY <2>2, <2>3
<1>3. CountLate(c, p, a)[c] = my[c]
  BY DEF CountLate
<1>4. CountLate(c, p, a) \in [Client -> Clients]
  BY <1>2 DEF CountLate
<1> QED BY <1>2, <1>3, <1>4

(* The client that commits goes to l with r, and the others count.         *)
Posts(c, l, r, s, p, a) ==
  /\ Record(s, p, a) /\ Goto(c, l) /\ my' = [CountLate(c, p, a) EXCEPT ![c] = r]
  /\ closing' = LateClosing(p, a)
  /\ UNCHANGED <<lines, period, requests, edited>>

LEMMA LateFacts ==
  ASSUME TypeInv, NEW p \in Period, NEW a \in LineSets
  PROVE  /\ LateClosing(p, a) \in [Period -> Closings \cup {NoClose}]
         /\ \A q \in Period :
              /\ closing[q] = NoClose <=> LateClosing(p, a)[q] = NoClose
              /\ closing[q] # NoClose =>
                   /\ LateClosing(p, a)[q].journal = closing[q].journal
                   /\ LateClosing(p, a)[q].late = closing[q].late + (IF q = p THEN a.net ELSE 0)
<1>1. a.net \in Int /\ closing \in [Period -> Closings \cup {NoClose}]
  BY DEF LineSets, TypeInv, TypeOK
<1>2. ASSUME NEW q \in Period
      PROVE  /\ LateClosing(p, a)[q] \in Closings \cup {NoClose}
             /\ closing[q] = NoClose <=> LateClosing(p, a)[q] = NoClose
             /\ closing[q] # NoClose =>
                   /\ LateClosing(p, a)[q].journal = closing[q].journal
                   /\ LateClosing(p, a)[q].late = closing[q].late + (IF q = p THEN a.net ELSE 0)
  <2>1. CASE q = p /\ closing[q] # NoClose
    <3> DEFINE n == closing[q].late + a.net
    <3>1. LateClosing(p, a)[q] = [closing[q] EXCEPT !.late = n]
      BY <2>1 DEF LateClosing
    <3>2. closing[q] \in Closings /\ closing[q].late \in Int
      BY <1>1, <2>1 DEF Closings
    <3>3. n \in Int
      BY <1>1, <3>2
    <3>4. NoClose \notin Closings
      BY NoCloseAssumption DEF Closings
    <3>5. n = closing[q].late + (IF q = p THEN a.net ELSE 0)
      BY <2>1
    <3> HIDE DEF n
    <3>6. [closing[q] EXCEPT !.late = n] \in Closings
      BY <3>2, <3>3 DEF Closings
    <3> QED BY <2>1, <3>1, <3>2, <3>4, <3>5, <3>6 DEF Closings
  <2>2. CASE ~(q = p /\ closing[q] # NoClose)
    <3>1. LateClosing(p, a)[q] = closing[q]
      BY <2>2 DEF LateClosing
    <3>2. closing[q] # NoClose => closing[q].late \in Int
      BY <1>1 DEF Closings
    <3>3. closing[q] # NoClose => closing[q].late = closing[q].late + (IF q = p THEN a.net ELSE 0)
      BY <2>2, <3>2
    <3> QED BY <1>1, <3>1, <3>3
  <2> QED BY <2>1, <2>2
<1>3. LateClosing(p, a) \in [Period -> Closings \cup {NoClose}]
  BY <1>2 DEF LateClosing
<1> QED BY <1>2, <1>3

LEMMA PostsFacts ==
  ASSUME TypeInv, NEW c \in Client, NEW l \in PCs, NEW r \in Clients,
         NEW s \in Journals \cup Docs, NEW p \in Period, NEW a \in LineSets, Posts(c, l, r, s, p, a)
  PROVE  /\ pc' \in [Client -> PCs] /\ my' \in [Client -> Clients]
         /\ pc'[c] = l /\ my'[c] = r
         /\ \A d \in Client \ {c} : /\ pc'[d] = pc[d] /\ Like(my[d], my'[d])
                                    /\ my'[d].late = Counted(d, c, p, a)
<1>1. my' = [CountLate(c, p, a) EXCEPT ![c] = r] /\ Goto(c, l)
  BY DEF Posts
<1> QED BY <1>1, CountFacts DEF Goto, TypeInv, TypeOK

(* A posted journal comes from under its lock; a document is read again.   *)
LEMMA CommitFacts ==
  ASSUME TypeInv, NEW c \in Client, Commit(c)
  PROVE  LET j == my[c].journal
             p == entry[j].date
             a == lines[j]
             l == AfterPost(c)
             r == IF l = "idle" THEN Fresh ELSE my[c]
         IN  /\ pc[c] = "commit" /\ j \in Journals /\ lock[j] = c /\ entry[j].status = "DRAFT"
             /\ p \in Period /\ a \in LineSets /\ my[c] \in Clients
             /\ Held("commit", my[c])
             /\ l \in {"mark", "closePeriod", "idle"} /\ Held(l, r) /\ r \in Clients
             /\ Posts(c, l, r, j, p, a)
             /\ entry' = [entry EXCEPT ![j].status = "POSTED"]
             /\ lock' = [lock EXCEPT ![j] = 0]
             /\ raced' = IF \E d \in Client : Writes(d, j) THEN raced \cup {j} ELSE raced
<1> DEFINE j == my[c].journal
           p == entry[j].date
           a == lines[j]
           l == AfterPost(c)
           r == IF l = "idle" THEN Fresh ELSE my[c]
<1>1. pc[c] = "commit" /\ my[c] \in Clients /\ Held(pc[c], my[c])
  BY ClientFacts DEF Commit
<1>2. j \in Journals
  BY <1>1 DEF Held, HasJournal, PostPCs
<1>3. lock[j] = c /\ c # 0
  BY <1>1, <1>2, ClientAssumption DEF TypeInv, LocksOK
<1>4. entry[j].status = "DRAFT" /\ a \in LineSets
  BY <1>2, <1>3, TableFacts
<1>5. p \in Period
  BY <1>2, <1>4 DEF TypeInv, DatesOK
<1>6. l \in {"mark", "closePeriod", "idle"} /\ Held(l, r)
  BY <1>1, <1>2, FreshFacts DEF AfterPost, Held, RouteOf, HasJournal, Derived, Kinds, Clients, PostPCs, DraftPCs, DocumentPCs, EditPCs, YearPCs
<1>7. r \in Clients
  BY <1>1, FreshFacts
<1>8. my' = [CountLate(c, p, a) EXCEPT ![c] = r]
  <2>1. CASE l = "idle"
    BY <2>1 DEF Commit
  <2>2. CASE l # "idle"
    <3>1. my' = CountLate(c, p, a)
      BY <2>2 DEF Commit
    <3>2. CountLate(c, p, a) \in [Client -> Clients] /\ CountLate(c, p, a)[c] = r
      BY <1>4, <1>5, <2>2, CountFacts
    <3> QED BY <3>1, <3>2
  <2> QED BY <2>1, <2>2
<1>9. Posts(c, l, r, j, p, a)
  BY <1>8 DEF Posts, Commit
<1>10. /\ entry' = [entry EXCEPT ![j].status = "POSTED"]
       /\ lock' = [lock EXCEPT ![j] = 0]
       /\ raced' = IF \E d \in Client : Writes(d, j) THEN raced \cup {j} ELSE raced
  BY DEF Commit
<1> QED BY <1>1, <1>2, <1>3, <1>4, <1>5, <1>6, <1>7, <1>9, <1>10

LEMMA DocumentCommitFacts ==
  ASSUME TypeInv, NEW c \in Client, DocumentCommit(c)
  PROVE  LET s == my[c].source
             p == my[c].date
             a == my[c].amount
         IN  /\ pc[c] = "documentCommit" /\ s \in Docs /\ p \in Period /\ a \in LineSets
             /\ my[c].kind = "document"
             /\ Posts(c, "idle", Fresh, s, p, a)
             /\ UNCHANGED <<entry, lock, raced>>
<1>1. pc[c] = "documentCommit" /\ my[c] \in Clients /\ Held("documentCommit", my[c])
  BY ClientFacts DEF DocumentCommit
<1>2. my[c].kind = "document" /\ my[c].source \in Docs /\ my[c].date \in Period /\ my[c].amount \in LineSets
  BY <1>1 DEF Held, RouteOf, HasJournal, Kinds, Clients, PostPCs, DraftPCs, DocumentPCs, EditPCs, YearPCs
<1>3. /\ Posts(c, "idle", Fresh, my[c].source, my[c].date, my[c].amount)
      /\ UNCHANGED <<entry, lock, raced>>
  BY DEF DocumentCommit, Posts, journalVars, history
<1> QED BY <1>1, <1>2, <1>3

LEMMA LikeHolds ==
  ASSUME NEW l, NEW r, NEW q, Held(l, r), Like(r, q)
  PROVE  Held(l, q)
BY DEF Held, Like

LEMMA CommitType ==
  ASSUME TypeInv, NEW c \in Client, Commit(c)
  PROVE  TypeInv'
<1> DEFINE j == my[c].journal
           l == AfterPost(c)
           r == IF l = "idle" THEN Fresh ELSE my[c]
           p == entry[j].date
           a == lines[j]
<1>1. /\ pc[c] = "commit" /\ j \in Journals /\ lock[j] = c /\ entry[j].status = "DRAFT"
      /\ p \in Period /\ a \in LineSets /\ my[c] \in Clients /\ Held("commit", my[c])
      /\ l \in {"mark", "closePeriod", "idle"} /\ Held(l, r) /\ r \in Clients
      /\ Posts(c, l, r, j, p, a)
      /\ entry' = [entry EXCEPT ![j].status = "POSTED"]
      /\ lock' = [lock EXCEPT ![j] = 0]
      /\ raced' = IF \E d \in Client : Writes(d, j) THEN raced \cup {j} ELSE raced
  BY CommitFacts
<1> HIDE DEF l, r, p, a
<1>2. l \in PCs
  BY <1>1 DEF PCs, DraftPCs, YearPCs
<1>3. /\ pc' \in [Client -> PCs] /\ my' \in [Client -> Clients] /\ pc'[c] = l /\ my'[c] = r
      /\ \A d \in Client \ {c} : pc'[d] = pc[d] /\ Like(my[d], my'[d])
  BY <1>1, <1>2, PostsFacts
<1>4. rows' \subseteq Rows /\ sequence' \in Nat /\ RowsOK'
  BY <1>1, RecordFacts DEF Posts
<1>5. /\ entry'[j].status = "POSTED" /\ entry'[j].date = entry[j].date
      /\ \A k \in Journals \ {j} : entry'[k] = entry[k]
      /\ entry' \in [Journals -> Entries]
  <2>1. entry[j] \in Entries /\ entry \in [Journals -> Entries]
    BY <1>1, TableFacts DEF Tables
  <2>2. [entry[j] EXCEPT !.status = "POSTED"] \in Entries
    BY <2>1 DEF Entries, Statuses
  <2>3. entry' = [entry EXCEPT ![j] = [entry[j] EXCEPT !.status = "POSTED"]]
    BY <1>1
  <2> QED BY <1>1, <2>1, <2>2, <2>3 DEF Entries
<1>6. closing' \in [Period -> Closings \cup {NoClose}] /\ UNCHANGED <<lines, period, requests, edited>>
  BY <1>1, LateFacts DEF Posts
<1>7. raced' \subseteq Journals
  BY <1>1, TableFacts DEF Tables
<1>8. lock' \in [Journals -> Client \cup {0}] /\ lock'[j] = 0 /\ \A k \in Journals \ {j} : lock'[k] = lock[k]
  BY <1>1 DEF TypeInv, TypeOK
<1>9. TypeOK'
  BY <1>3, <1>4, <1>5, <1>6, <1>7, <1>8, TableFacts DEF TypeOK, Tables
<1>10. DatesOK'
  BY <1>1, <1>5, TableFacts DEF DatesOK, Tables, p
<1>11. ClientsOK'
  <2> SUFFICES ASSUME NEW d \in Client
               PROVE  /\ Held(pc'[d], my'[d])
                      /\ my'[d].journal # 0 => entry'[my'[d].journal].status # "NONE"
    BY DEF ClientsOK
  <2>1. \A k \in Journals : entry[k].status # "NONE" => entry'[k].status # "NONE"
    BY <1>5
  <2>2. CASE d = c
    BY <1>1, <1>3, <1>5, <2>2, FreshFacts DEF r
  <2>3. CASE d # c
    <3>1. Held(pc[d], my[d]) /\ Like(my[d], my'[d]) /\ pc'[d] = pc[d]
      BY <1>3, <2>3, ClientFacts
    <3>2. my'[d].journal = my[d].journal
      BY <3>1 DEF Like
    <3> QED BY <2>1, <3>1, <3>2, ClientFacts, LikeHolds
  <2> QED BY <2>2, <2>3
<1>12. LocksOK'
  <2> SUFFICES ASSUME NEW k \in Journals
               PROVE  /\ \A d \in Client : lock'[k] = d <=> pc'[d] = "commit" /\ my'[d].journal = k
                      /\ lock'[k] # 0 => entry'[k].status = "DRAFT"
    BY DEF LocksOK
  <2>1. /\ \A d \in Client : lock[k] = d <=> pc[d] = "commit" /\ my[d].journal = k
        /\ \A d \in Client : lock[j] = d <=> pc[d] = "commit" /\ my[d].journal = j
    BY <1>1 DEF TypeInv, LocksOK
  <2>2. ASSUME NEW d \in Client
        PROVE  lock'[k] = d <=> pc'[d] = "commit" /\ my'[d].journal = k
    <3>1. CASE d = c
      BY <1>1, <1>3, <1>8, <2>1, <3>1, ClientAssumption
    <3>2. CASE d # c
      <4>1. pc'[d] = pc[d] /\ my'[d].journal = my[d].journal
        BY <1>3, <3>2 DEF Like
      <4> QED BY <1>1, <1>8, <2>1, <3>2, <4>1, ClientAssumption
    <3> QED BY <3>1, <3>2
  <2>3. lock'[k] # 0 => entry'[k].status = "DRAFT"
    BY <1>5, <1>8, TableFacts
  <2> QED BY <2>2, <2>3
<1> QED BY <1>4, <1>9, <1>10, <1>11, <1>12 DEF TypeInv

LEMMA DocumentCommitType ==
  ASSUME TypeInv, NEW c \in Client, DocumentCommit(c)
  PROVE  TypeInv'
<1>1. PICK s \in Docs, p \in Period, a \in LineSets :
        /\ pc[c] = "documentCommit" /\ Posts(c, "idle", Fresh, s, p, a)
        /\ UNCHANGED <<entry, lock, raced>>
  BY DocumentCommitFacts
<1>2. /\ pc' \in [Client -> PCs] /\ my' \in [Client -> Clients] /\ pc'[c] = "idle" /\ my'[c] = Fresh
      /\ \A d \in Client \ {c} : pc'[d] = pc[d] /\ Like(my[d], my'[d])
  BY <1>1, PostsFacts, FreshFacts DEF PCs
<1>3. rows' \subseteq Rows /\ sequence' \in Nat /\ RowsOK'
  BY <1>1, RecordFacts DEF Posts
<1>4. closing' \in [Period -> Closings \cup {NoClose}] /\ UNCHANGED <<lines, period, requests, edited>>
  BY <1>1, LateFacts DEF Posts
<1>5. TypeOK'
  BY <1>1, <1>2, <1>3, <1>4 DEF TypeInv, TypeOK
<1>6. DatesOK'
  BY <1>1 DEF TypeInv, DatesOK
<1>7. ClientsOK'
  <2> SUFFICES ASSUME NEW d \in Client
               PROVE  /\ Held(pc'[d], my'[d])
                      /\ my'[d].journal # 0 => entry'[my'[d].journal].status # "NONE"
    BY DEF ClientsOK
  <2>1. CASE d = c
    BY <1>2, <2>1, FreshFacts
  <2>2. CASE d # c
    <3>1. Held(pc[d], my[d]) /\ Like(my[d], my'[d]) /\ pc'[d] = pc[d]
      BY <1>2, <2>2, ClientFacts
    <3>2. my'[d].journal = my[d].journal
      BY <3>1 DEF Like
    <3> QED BY <1>1, <3>1, <3>2, ClientFacts, LikeHolds
  <2> QED BY <2>1, <2>2
<1>8. LocksOK'
  <2>1. \A d \in Client : /\ pc'[d] = "commit" <=> pc[d] = "commit"
                          /\ pc[d] = "commit" => my'[d].journal = my[d].journal
    BY <1>1, <1>2 DEF Like
  <2> QED BY <1>1, <2>1 DEF TypeInv, LocksOK
<1> QED BY <1>3, <1>5, <1>6, <1>7, <1>8 DEF TypeInv

LEMMA LockType ==
  ASSUME TypeInv, NEW c \in Client, Lock(c)
  PROVE  TypeInv'
<1> DEFINE j == my[c].journal
<1>1. /\ pc[c] = "lock" /\ lock[j] = 0 /\ entry[j].status = "DRAFT"
      /\ lock' = [lock EXCEPT ![j] = c] /\ pc' = [pc EXCEPT ![c] = "commit"]
      /\ UNCHANGED <<entry, lines, rows, sequence, period, closing, my, requests, edited, raced>>
  BY DEF Lock, Postable, Goto, history
<1>2. my[c] \in Clients /\ Held("lock", my[c])
  BY <1>1, ClientFacts
<1>3. j \in Journals /\ Held("commit", my[c])
  BY <1>2 DEF Held, RouteOf, HasJournal, Derived, Kinds, Clients, PostPCs, DraftPCs, DocumentPCs, EditPCs, YearPCs
<1>4. TypeOK'
  BY <1>1, <1>3 DEF TypeInv, TypeOK, PCs, PostPCs
<1>5. ClientsOK'
  BY <1>1, <1>3 DEF TypeInv, TypeOK, ClientsOK
<1>6. LocksOK'
  <2> SUFFICES ASSUME NEW k \in Journals
               PROVE  /\ \A d \in Client : lock'[k] = d <=> pc'[d] = "commit" /\ my'[d].journal = k
                      /\ lock'[k] # 0 => entry'[k].status = "DRAFT"
    BY DEF LocksOK
  <2>1. /\ \A d \in Client : lock[k] = d <=> pc[d] = "commit" /\ my[d].journal = k
        /\ \A d \in Client : lock[j] = d <=> pc[d] = "commit" /\ my[d].journal = j
        /\ lock[k] # 0 => entry[k].status = "DRAFT"
    BY <1>3 DEF TypeInv, LocksOK
  <2>2. /\ lock'[j] = c /\ (k # j => lock'[k] = lock[k])
        /\ pc'[c] = "commit" /\ \A d \in Client \ {c} : pc'[d] = pc[d]
    BY <1>1, <1>3 DEF TypeInv, TypeOK
  <2>3. CASE k = j
    BY <1>1, <2>1, <2>2, <2>3, ClientAssumption
  <2>4. CASE k # j
    BY <1>1, <2>1, <2>2, <2>4, ClientAssumption
  <2> QED BY <2>3, <2>4
<1> QED BY <1>1, <1>4, <1>5, <1>6 DEF TypeInv, RowsOK, DatesOK

LEMMA FailType ==
  ASSUME TypeInv, NEW c \in Client, Fail(c)
  PROVE  TypeInv'
<1>1. /\ lock' = [j \in Journals |-> IF lock[j] = c THEN 0 ELSE lock[j]]
      /\ Turn(c, "idle", Fresh)
      /\ UNCHANGED <<entry, lines, rows, sequence, period, closing, requests, edited, raced>>
  BY FreshFacts DEF Fail, history
<1>2. /\ pc' \in [Client -> PCs] /\ my' \in [Client -> Clients] /\ pc'[c] = "idle" /\ my'[c] = Fresh
      /\ \A d \in Client \ {c} : pc'[d] = pc[d] /\ my'[d] = my[d]
  BY <1>1, Turned, FreshFacts DEF PCs
<1>3. lock' \in [Journals -> Client \cup {0}]
  BY <1>1 DEF TypeInv, TypeOK
<1>4. TypeOK'
  BY <1>1, <1>2, <1>3 DEF TypeInv, TypeOK
<1>5. ClientsOK'
  BY <1>1, <1>2, FreshFacts DEF TypeInv, ClientsOK
<1>6. LocksOK'
  <2> SUFFICES ASSUME NEW k \in Journals
               PROVE  /\ \A d \in Client : lock'[k] = d <=> pc'[d] = "commit" /\ my'[d].journal = k
                      /\ lock'[k] # 0 => entry'[k].status = "DRAFT"
    BY DEF LocksOK
  <2>1. /\ \A d \in Client : lock[k] = d <=> pc[d] = "commit" /\ my[d].journal = k
        /\ lock[k] # 0 => entry[k].status = "DRAFT"
    BY DEF TypeInv, LocksOK
  <2> QED BY <1>1, <1>2, <2>1, ClientAssumption
<1> QED BY <1>1, <1>4, <1>5, <1>6 DEF TypeInv, RowsOK, DatesOK

LEMMA TypeStepHolds == TypeInv /\ [Next]_vars => TypeInv'
<1> SUFFICES ASSUME TypeInv, [Next]_vars PROVE TypeInv'
  OBVIOUS
<1>1. CASE UNCHANGED vars
  BY <1>1 DEF TypeInv, TypeOK, RowsOK, DatesOK, ClientsOK, LocksOK, vars
<1>2. ASSUME NEW c \in Client,
             Arrive(c) \/ Posting(c) \/ Document(c) \/ Drafting(c) \/ Editing(c) \/ YearClose(c) \/ Fail(c)
      PROVE  TypeInv'
  <2>1. \/ Arrive(c) \/ ReadStep(c) \/ Lock(c) \/ Commit(c) \/ DocumentCommit(c) \/ InsertEntry(c)
        \/ (InsertLines(c) \/ EditLines(c) \/ EditClear(c))
        \/ (EditEntry(c) \/ Mark(c) \/ DeleteEntry(c))
        \/ (YearClosePeriod(c) \/ YearRecord(c)) \/ Fail(c)
    BY <1>2 DEF Posting, Document, Drafting, Editing, YearClose, ReadStep
  <2> QED BY <2>1, ArriveType, ReadType, LockType, CommitType, DocumentCommitType, InsertEntryType,
             WriteLinesType, WriteEntryType, WriteYearType, FailType
<1> QED BY <1>1, <1>2 DEF Next

LEMMA TypeInit == Init => TypeInv
<1> SUFFICES ASSUME NEW p \in Period, NEW a \in Amounts, NEW b \in Amounts, Start(p, a, b)
             PROVE  TypeInv
  BY DEF Init
<1>1. a \in Nat /\ b \in Nat /\ 1 \in Journals /\ Lines(a) \in LineSets /\ Lines(b) \in LineSets
  BY AmountsAssumption, JournalsAssumption, LinesFacts
<1>2. NoEntry \in Entries
  BY DEF NoEntry, Entries, Statuses, EntryTypes
<1>3. \A s \in Statuses, n \in Nat :
        LET e == [NoEntry EXCEPT !.status = s, !.date = p, !.total = n] IN
        e \in Entries /\ e.status = s /\ e.date = p
  BY <1>2 DEF NoEntry, Entries, Statuses, EntryTypes
<1>4. \A j \in Journals : /\ entry[j] \in Entries
                          /\ entry[j].status \in {"DRAFT", "POSTED"} => entry[j].date = p
  BY <1>1, <1>2, <1>3 DEF NoEntry, Statuses, Start
<1>5. entry \in [Journals -> Entries] /\ lines \in [Journals -> LineSets]
  BY <1>1, <1>4, LinesFacts DEF Start
<1>6. rows \subseteq Rows /\ RowsOK
  <2> DEFINE x == [source |-> 1, date |-> p, amount |-> Lines(a), sequence |-> 1]
  <2>1. x \in Rows /\ x.sequence = 1
    BY <1>1 DEF Rows
  <2> HIDE DEF x
  <2>2. rows = {x} /\ sequence = 1
    BY DEF x, Start
  <2>3. IsFiniteSet(rows)
    BY <2>2, FS_Singleton
  <2> QED BY <2>1, <2>2, <2>3 DEF RowsOK
<1>7. TypeOK
  BY <1>5, <1>6, BoundAssumption, FreshFacts DEF TypeOK, PCs, Start
<1>8. DatesOK /\ ClientsOK /\ LocksOK
  BY <1>4, FreshFacts, ClientAssumption DEF DatesOK, ClientsOK, LocksOK, Start
<1> QED BY <1>6, <1>7, <1>8 DEF TypeInv

LEMMA TypeHolds == Spec => []TypeInv
BY TypeInit, TypeStepHolds, PTL DEF Spec

(* Every table and every client keeps its type: a request goes through the *)
(* steps of its kind only, holds what the next one needs, and the row lock *)
(* of a journal is the one client's that is between lock and commit.       *)
THEOREM LedgerTypeCorrect == Spec => []TypeOK
<1>1. TypeInv => TypeOK
  BY DEF TypeInv
<1> QED BY <1>1, TypeHolds, PTL

-----------------------------------------------------------------------------
(* Whoever takes a step, the others stay where they are.                   *)

Step(c) == \/ Arrive(c) \/ ReadStep(c) \/ Lock(c) \/ Commit(c) \/ DocumentCommit(c)
           \/ InsertEntry(c) \/ InsertLines(c) \/ EditLines(c) \/ EditClear(c)
           \/ EditEntry(c) \/ Mark(c) \/ DeleteEntry(c)
           \/ YearClosePeriod(c) \/ YearRecord(c) \/ Fail(c)

LEMMA Steps == Next <=> \E c \in Client : Step(c)
BY DEF Next, Step, ReadStep, Posting, Document, Drafting, Editing, YearClose

LEMMA OthersKeep ==
  ASSUME TypeInv, NEW c \in Client, Step(c), ~Commit(c), ~DocumentCommit(c)
  PROVE  \A d \in Client \ {c} : pc'[d] = pc[d] /\ my'[d] = my[d]
<1>1. CASE Arrive(c)
  BY <1>1 DEF Arrive, ClosePeriod, CloseYear, Create, PostDocument, Edit, Derive, Post, Delete,
              Receive, Goto, TypeInv, TypeOK
<1>2. CASE ReadStep(c)
  BY <1>2, ReadFacts, Turned
<1>3. CASE ~Arrive(c) /\ ~ReadStep(c)
  BY <1>3 DEF Step, Lock, InsertEntry, InsertLines, EditLines, EditClear, EditEntry, Mark,
              DeleteEntry, YearClosePeriod, YearRecord, Fail, Return, Goto, TypeInv, TypeOK
<1> QED BY <1>1, <1>2, <1>3

LEMMA OthersStay ==
  ASSUME TypeInv, NEW c \in Client, Step(c)
  PROVE  \A d \in Client \ {c} : pc'[d] = pc[d] /\ Like(my[d], my'[d])
<1>1. CASE Commit(c)
  <2>1. PICK l \in PCs, r \in Clients, j \in Journals, p \in Period, a \in LineSets :
          Posts(c, l, r, j, p, a)
    <3>1. {"mark", "closePeriod", "idle"} \subseteq PCs
      BY DEF PCs, DraftPCs, YearPCs
    <3> QED BY <1>1, <3>1, CommitFacts
  <2> QED BY <2>1, PostsFacts
<1>2. CASE DocumentCommit(c)
  <2>1. "idle" \in PCs /\ Fresh \in Clients
    BY FreshFacts DEF PCs
  <2> QED BY <1>2, <2>1, DocumentCommitFacts, PostsFacts
<1>3. CASE ~Commit(c) /\ ~DocumentCommit(c)
  <2>1. \A d \in Client : Like(my[d], my[d])
    BY DEF Like
  <2> QED BY <1>3, <2>1, OthersKeep
<1> QED BY <1>1, <1>2, <1>3

(* Where a request begins: it has read nothing, and the journal it is      *)
(* about, if any, is there.                                                *)
LEMMA ArriveFacts ==
  ASSUME TypeInv, NEW c \in Client, Arrive(c)
  PROVE  /\ pc[c] = "idle"
         /\ UNCHANGED <<entry, lines, lock, rows, sequence, closing, edited, raced>>
         /\ \/ UNCHANGED <<pc, my>> /\ \E p \in Period : period' = [period EXCEPT ![p] = "CLOSED"]
            \/ /\ pc'[c] \in {"yearChecks", "entry", "documentChecks", "editRead", "load", "postEntry", "deleteRead"}
               /\ UNCHANGED period
               /\ my'[c].wasOpen = OpenPeriods /\ my'[c].wasPosted = {x.source : x \in rows}
               /\ my'[c].reversals = UNION {Reversals(x) : x \in Journals}
               /\ my'[c].kind = "closeYear" => my'[c].date = my'[c].source /\ pc'[c] = "yearChecks"
               /\ my'[c].kind = "reverse" => pc'[c] = "load"
               /\ pc'[c] \in {"yearChecks", "entry", "load", "documentChecks"} => my'[c].journal = 0
               /\ my'[c].kind = "create" <=> pc'[c] = "entry"
               /\ my'[c].kind \in {"reverse", "adjust", "clone"} <=> pc'[c] = "load"
<1>1. CASE \E p \in Period : ClosePeriod(c, p)
  BY <1>1 DEF ClosePeriod, journalVars, history
<1>2. ASSUME NEW kind \in Kinds, NEW j, NEW s, NEW p, NEW a, Receive(c, kind, j, s, p, a),
             NEW l, Goto(c, l)
      PROVE  /\ pc[c] = "idle" /\ pc'[c] = l
             /\ UNCHANGED <<entry, lines, lock, rows, sequence, closing, edited, raced, period>>
             /\ my'[c].kind = kind /\ my'[c].journal = j /\ my'[c].source = s /\ my'[c].date = p
             /\ my'[c].wasOpen = OpenPeriods /\ my'[c].wasPosted = {x.source : x \in rows}
             /\ my'[c].reversals = UNION {Reversals(x) : x \in Journals}
  <2> DEFINE r == [kind |-> kind, journal |-> j, source |-> s, date |-> p, amount |-> a,
                   balance |-> 0, late |-> 0, wasOpen |-> OpenPeriods,
                   wasPosted |-> {x.source : x \in rows},
                   reversals |-> UNION {Reversals(x) : x \in Journals}]
  <2>1. my' = [my EXCEPT ![c] = r] /\ pc[c] = "idle" /\ pc' = [pc EXCEPT ![c] = l]
    BY <1>2 DEF Receive, Goto
  <2>2. my'[c] = r /\ pc'[c] = l
    BY <2>1 DEF TypeInv, TypeOK
  <2> QED BY <1>2, <2>1, <2>2 DEF Receive, journalVars, history
<1>3. CASE \E p \in Period : CloseYear(c, p)
  BY <1>2, <1>3 DEF CloseYear, Kinds
<1>4. CASE \E p \in Period, a \in Amounts : Create(c, p, a)
  BY <1>2, <1>4 DEF Create, Kinds
<1>5. CASE \E p \in Period, a \in Amounts, d \in Docs : PostDocument(c, d, p, a)
  BY <1>2, <1>5 DEF PostDocument, Kinds
<1>6. CASE \E p \in Period, a \in Amounts, j \in Journals : Edit(c, j, p, a)
  BY <1>2, <1>6 DEF Edit, Kinds
<1>7. CASE \E p \in Period, a \in Amounts, j \in Journals, kind \in {"reverse", "adjust", "clone"} :
             Derive(c, kind, j, p, a)
  BY <1>2, <1>7 DEF Derive, Kinds
<1>8. CASE \E j \in Journals : Post(c, j)
  BY <1>2, <1>8 DEF Post, Kinds
<1>9. CASE \E j \in Journals : Delete(c, j)
  BY <1>2, <1>9 DEF Delete, Kinds
<1> QED BY <1>1, <1>3, <1>4, <1>5, <1>6, <1>7, <1>8, <1>9 DEF Arrive

-----------------------------------------------------------------------------
(* What the ledger shows of a journal, and that nobody who writes one got  *)
(* to it after it was posted.                                              *)
Showing(j) ==
  /\ lock[j] # 0 => RowsOf(j) = {}
  /\ RowsOf(j) = {} \/ \E r \in rows : RowsOf(j) = {r}
  /\ RowsOf(j) # {} => entry[j].status \in {"POSTED", "DELETED"}
  /\ entry[j].status = "POSTED" /\ j \notin raced => lines[j].net = SumNet(RowsOf(j))

Writing == {"lines", "editClear", "editEntry", "editClearAgain", "editLines"}

JournalInv ==
  /\ \A j \in Journals : Showing(j)
  /\ \A c \in Client : pc[c] \in Writing =>
       (entry[my[c].journal].status = "POSTED" => my[c].journal \in raced)

LEMMA JournalInit == Init => JournalInv
<1> SUFFICES ASSUME NEW p \in Period, NEW a \in Amounts, NEW b \in Amounts, Start(p, a, b)
             PROVE  JournalInv
  BY DEF Init
<1> DEFINE x == [source |-> 1, date |-> p, amount |-> Lines(a), sequence |-> 1]
<1>1. rows = {x} /\ x.source = 1 /\ x.amount = Lines(a)
  BY DEF Start
<1>2. x \in Rows
  BY AmountsAssumption, JournalsAssumption, LinesFacts DEF Rows
<1> HIDE DEF x
<1>3. SumNet({x}) = Lines(a).net
  <2>1. SumNet({} \cup {x}) = SumNet({}) + x.amount.net
    BY <1>2, FS_EmptySet, SumNetAdds
  <2>2. {} \cup {x} = {x} /\ x.amount.net \in Int
    BY <1>2 DEF Rows, LineSets
  <2> QED BY <1>1, <2>1, <2>2, SumNetOfNone
<1>4. RowsOf(1) = {x} /\ \A j \in Journals \ {1} : RowsOf(j) = {}
  BY <1>1 DEF RowsOf
<1>5. ASSUME NEW j \in Journals PROVE Showing(j)
  <2>1. lock[j] = 0
    BY DEF Start
  <2>2. CASE j = 1
    <3>1. /\ entry[1] = [NoEntry EXCEPT !.status = "POSTED", !.date = p, !.total = a]
          /\ lines[1] = Lines(a)
      BY JournalsAssumption DEF Start
    <3>2. entry[1].status = "POSTED"
      BY <3>1 DEF NoEntry
    <3> QED BY <1>1, <1>3, <1>4, <2>1, <2>2, <3>1, <3>2 DEF Showing
  <2>3. CASE j # 1
    <3>1. entry[j].status # "POSTED"
      BY <2>3 DEF Start, NoEntry
    <3> QED BY <1>4, <2>1, <2>3, <3>1 DEF Showing
  <2> QED BY <2>2, <2>3
<1> QED BY <1>5 DEF JournalInv, Start, Writing

(* What a step of c has to keep.                                           *)
LEMMA JournalStep ==
  ASSUME TypeInv, JournalInv, NEW c \in Client, Step(c), raced \subseteq raced',
         \A j \in Journals : Showing(j)',
         \A j \in Journals : entry'[j].status = "POSTED" /\ entry[j].status # "POSTED" =>
           \A d \in Client \ {c} : pc[d] \in Writing /\ my[d].journal = j => j \in raced',
         pc'[c] \in Writing =>
           (entry'[my'[c].journal].status = "POSTED" => my'[c].journal \in raced')
  PROVE  JournalInv'
<1>1. ASSUME NEW d \in Client, pc'[d] \in Writing, entry'[my'[d].journal].status = "POSTED"
      PROVE  my'[d].journal \in raced'
  <2>1. CASE d = c
    BY <1>1, <2>1
  <2>2. CASE d # c
    <3>1. pc'[d] = pc[d] /\ my'[d].journal = my[d].journal
      BY <2>2, OthersStay DEF Like
    <3>2. my[d].journal \in Journals
      BY <1>1, <3>1, ClientFacts DEF Held, HasJournal, Writing, EditPCs
    <3> QED BY <1>1, <2>2, <3>1, <3>2 DEF JournalInv
  <2> QED BY <2>1, <2>2
<1> QED BY <1>1 DEF JournalInv

LEMMA ShowingStays ==
  ASSUME NEW j \in Journals, Showing(j), rows' = rows, lock'[j] \in {lock[j], 0}, raced \subseteq raced',
         entry'[j].status = entry[j].status, lines'[j] = lines[j] \/ j \in raced \/ entry[j].status # "POSTED"
  PROVE  Showing(j)'
BY DEF Showing, RowsOf

LEMMA JournalQuiet ==
  ASSUME TypeInv, JournalInv, NEW c \in Client, Step(c),
         UNCHANGED <<entry, lines, lock, rows, raced>>,
         pc'[c] \in Writing => (entry[my'[c].journal].status = "POSTED" => my'[c].journal \in raced)
  PROVE  JournalInv'
<1>1. \A j \in Journals : Showing(j)'
  BY ShowingStays DEF JournalInv
<1> QED BY <1>1, JournalStep

LEMMA JournalReads ==
  ASSUME TypeInv, JournalInv, NEW c \in Client, Step(c),
         Arrive(c) \/ ReadStep(c) \/ YearClosePeriod(c) \/ YearRecord(c)
  PROVE  JournalInv'
<1>1. CASE Arrive(c)
  <2>1. /\ UNCHANGED <<entry, lines, lock, rows, raced>>
        /\ pc'[c] \notin Writing
    BY <1>1, ArriveFacts DEF Writing
  <2> QED BY <2>1, JournalQuiet
<1>2. CASE ReadStep(c)
  <2>1. UNCHANGED <<entry, lines, lock, rows, raced>>
    BY <1>2, ReadFacts DEF journalVars, history
  <2>2. pc'[c] \in Writing => pc'[c] = "editClear" /\ my' = my /\ entry[my[c].journal].status = "DRAFT"
    BY <1>2 DEF ReadStep, PostEntry, PostChecks, DocumentChecks, DocumentCheck, Load, LoadLines,
         DraftChecks, EditRead, DeleteRead, YearChecks, YearBalances, LoseLines, Writing, Goto, Return,
         TypeInv, TypeOK
  <2> QED BY <2>1, <2>2, JournalQuiet
<1>3. CASE YearClosePeriod(c) \/ YearRecord(c)
  <2>1. UNCHANGED <<entry, lines, lock, rows, raced>> /\ pc'[c] \notin Writing
    BY <1>3 DEF YearClosePeriod, YearRecord, journalVars, history, Goto, Return, Writing, TypeInv, TypeOK
  <2> QED BY <2>1, JournalQuiet
<1> QED BY <1>1, <1>2, <1>3

LEMMA JournalWrites ==
  ASSUME TypeInv, JournalInv, NEW c \in Client, Step(c),
         InsertEntry(c) \/ InsertLines(c) \/ EditLines(c) \/ EditClear(c)
  PROVE  JournalInv'
<1>1. CASE InsertEntry(c)
  <2>1. PICK j, e :
          /\ j \in Unused /\ entry' = [entry EXCEPT ![j] = e] /\ e.status = "DRAFT"
          /\ my' = [my EXCEPT ![c].journal = j]
    BY <1>1 DEF InsertEntry
  <2>2. UNCHANGED <<lines, lock, rows, raced>>
    BY <1>1 DEF InsertEntry, history
  <2>3. j \in Journals /\ entry[j].status = "NONE" /\ entry'[j].status = "DRAFT"
        /\ \A k \in Journals \ {j} : entry'[k] = entry[k]
    BY <2>1 DEF Unused, TypeInv, TypeOK
  <2>4. RowsOf(j) = {} /\ lock[j] = 0
    BY <2>3, TableFacts DEF JournalInv, Showing
  <2>5. ASSUME NEW k \in Journals PROVE Showing(k)'
    <3>1. CASE k = j
      BY <2>2, <2>3, <2>4, <3>1 DEF Showing, RowsOf
    <3>2. CASE k # j
      BY <2>2, <2>3, <3>2, ShowingStays DEF JournalInv
    <3> QED BY <3>1, <3>2
  <2>6. my'[c].journal = j
    BY <2>1, ClientFacts DEF TypeInv, TypeOK, Clients
  <2> QED BY <2>2, <2>3, <2>5, <2>6, JournalStep
<1>2. CASE InsertLines(c) \/ EditLines(c) \/ EditClear(c)
  <2> DEFINE j == my[c].journal
  <2>1. /\ pc[c] \in Writing /\ UNCHANGED <<entry, lock, rows, raced>>
        /\ \A k \in Journals \ {j} : lines'[k] = lines[k]
        /\ (my' = my \/ (my'[c] = Fresh /\ pc'[c] = "idle"))
    <3>1. /\ pc[c] \in {"lines", "editLines", "editClear", "editClearAgain"}
          /\ UNCHANGED <<entry, lock, rows, raced>>
          /\ \A k \in Journals \ {j} : lines'[k] = lines[k]
      BY <1>2 DEF InsertLines, EditLines, EditClear, history, TypeInv, TypeOK
    <3>2. my' = my \/ (my'[c] = Fresh /\ pc'[c] = "idle")
      BY <1>2 DEF InsertLines, EditLines, EditClear, Return, Goto, TypeInv, TypeOK
    <3>3. pc[c] \in Writing
      BY <1>2 DEF InsertLines, EditLines, EditClear, Writing
    <3> QED BY <3>1, <3>2, <3>3
  <2>2. entry[j].status = "POSTED" => j \in raced
    BY <2>1 DEF JournalInv
  <2>3. ASSUME NEW k \in Journals PROVE Showing(k)'
    <3>1. lines'[k] = lines[k] \/ k \in raced \/ entry[k].status # "POSTED"
      BY <2>1, <2>2
    <3> QED BY <2>1, <3>1, ShowingStays DEF JournalInv
  <2> QED BY <2>1, <2>2, <2>3, JournalStep DEF Writing
<1> QED BY <1>1, <1>2

LEMMA JournalEntries ==
  ASSUME TypeInv, JournalInv, NEW c \in Client, Step(c), EditEntry(c) \/ Mark(c) \/ DeleteEntry(c)
  PROVE  JournalInv'
<1> DEFINE j == my[c].journal
<1>0. my[c] \in Clients /\ Held(pc[c], my[c])
  BY ClientFacts
<1>1. CASE EditEntry(c) \/ Mark(c)
  <2>1. UNCHANGED <<lines, lock, rows, raced>>
    BY <1>1 DEF EditEntry, Mark, history
  <2>2. \A k \in Journals : entry'[k].status = entry[k].status
    BY <1>1, TableFacts DEF EditEntry, Mark, Tables, Entries
  <2>3. pc'[c] \in Writing => my' = my /\ pc[c] \in Writing /\ j \in Journals
    BY <1>0, <1>1 DEF EditEntry, Mark, Return, Goto, Writing, TypeInv, TypeOK, Held, HasJournal, EditPCs
  <2>4. \A k \in Journals : Showing(k)'
    BY <2>1, <2>2, ShowingStays DEF JournalInv
  <2>5. pc'[c] \in Writing => (entry'[my'[c].journal].status = "POSTED" => my'[c].journal \in raced')
    BY <2>1, <2>2, <2>3 DEF JournalInv
  <2> QED BY <2>1, <2>2, <2>4, <2>5, JournalStep
<1>2. CASE DeleteEntry(c)
  <2>1. /\ lock[j] = 0 /\ UNCHANGED <<lock, rows, raced>> /\ pc'[c] = "idle" /\ pc[c] = "delete"
        /\ lines' = [lines EXCEPT ![j] = NoLines]
    BY <1>2 DEF DeleteEntry, history, Return, Goto, TypeInv, TypeOK
  <2>2. j \in Journals
    BY <1>0, <2>1 DEF Held, HasJournal, EditPCs
  <2>3. entry'[j].status = "DELETED"
    BY <1>2, <2>2 DEF DeleteEntry, NoEntry
  <2>4. \A k \in Journals \ {j} : entry'[k].status = entry[k].status /\ lines'[k] = lines[k]
    <3>1. ASSUME NEW k \in Journals \ {j} PROVE entry'[k].status = entry[k].status
      <4>1. entry'[k] = [entry[k] EXCEPT !.source = IF @ = j THEN 0 ELSE @,
                                         !.reversedBy = IF @ = j THEN 0 ELSE @]
        BY <1>2 DEF DeleteEntry
      <4> QED BY <4>1, TableFacts DEF Entries
    <3> QED BY <2>1, <3>1, TableFacts DEF Tables
  <2>5. ASSUME NEW k \in Journals PROVE Showing(k)'
    <3>1. CASE k = j
      BY <2>1, <2>2, <2>3, <3>1 DEF JournalInv, Showing, RowsOf
    <3>2. CASE k # j
      BY <2>1, <2>4, <3>2, ShowingStays DEF JournalInv
    <3> QED BY <3>1, <3>2
  <2> QED BY <2>1, <2>3, <2>4, <2>5, JournalStep DEF Writing
<1> QED BY <1>1, <1>2

LEMMA JournalLocks ==
  ASSUME TypeInv, JournalInv, NEW c \in Client, Step(c), Lock(c) \/ Fail(c)
  PROVE  JournalInv'
<1>1. CASE Lock(c)
  <2> DEFINE j == my[c].journal
  <2>1. /\ RowsOf(j) = {} /\ lock' = [lock EXCEPT ![j] = c] /\ pc'[c] = "commit"
        /\ UNCHANGED <<entry, lines, rows, raced>>
    BY <1>1 DEF Lock, Postable, AlreadyPosted, Goto, history, TypeInv, TypeOK
  <2>2. ASSUME NEW k \in Journals PROVE Showing(k)'
    <3>1. CASE k = j
      BY <2>1, <3>1 DEF JournalInv, Showing, RowsOf
    <3>2. CASE k # j
      <4>1. lock'[k] = lock[k]
        BY <2>1, <3>2 DEF TypeInv, TypeOK
      <4> QED BY <2>1, <4>1, ShowingStays DEF JournalInv
    <3> QED BY <3>1, <3>2
  <2> QED BY <2>1, <2>2, JournalStep DEF Writing
<1>2. CASE Fail(c)
  <2>1. /\ lock' = [j \in Journals |-> IF lock[j] = c THEN 0 ELSE lock[j]] /\ pc'[c] = "idle"
        /\ UNCHANGED <<entry, lines, rows, raced>>
    BY <1>2 DEF Fail, Return, Goto, history, TypeInv, TypeOK
  <2>2. \A k \in Journals : Showing(k)'
    BY <2>1, ShowingStays DEF JournalInv
  <2> QED BY <2>1, <2>2, JournalStep DEF Writing
<1> QED BY <1>1, <1>2

LEMMA JournalPosts ==
  ASSUME TypeInv, JournalInv, NEW c \in Client, Step(c), Commit(c) \/ DocumentCommit(c)
  PROVE  JournalInv'
<1>1. CASE Commit(c)
  <2> DEFINE j == my[c].journal
             p == entry[j].date
             a == lines[j]
  <2>1. /\ pc[c] = "commit" /\ j \in Journals /\ lock[j] = c /\ p \in Period /\ a \in LineSets
        /\ Record(j, p, a) /\ lines' = lines /\ c # 0 /\ pc'[c] \notin Writing
        /\ entry' = [entry EXCEPT ![j].status = "POSTED"]
        /\ lock' = [lock EXCEPT ![j] = 0]
        /\ raced' = IF \E d \in Client : Writes(d, j) THEN raced \cup {j} ELSE raced
    <3>1. /\ pc[c] = "commit" /\ j \in Journals /\ lock[j] = c /\ p \in Period /\ a \in LineSets
          /\ Record(j, p, a) /\ lines' = lines /\ c # 0
          /\ entry' = [entry EXCEPT ![j].status = "POSTED"]
          /\ lock' = [lock EXCEPT ![j] = 0]
          /\ raced' = IF \E d \in Client : Writes(d, j) THEN raced \cup {j} ELSE raced
      BY <1>1, CommitFacts, ClientAssumption DEF Commit
    <3>2. pc'[c] \notin Writing
      BY <1>1 DEF Commit, AfterPost, Goto, Writing, TypeInv, TypeOK
    <3> QED BY <3>1, <3>2
  <2> HIDE DEF p, a
  <2>2. /\ entry'[j].status = "POSTED" /\ lock'[j] = 0
        /\ \A k \in Journals \ {j} : entry'[k] = entry[k] /\ lock'[k] = lock[k]
    BY <2>1, TableFacts DEF Tables, Entries, TypeInv, TypeOK
  <2>3. RowsIn(rows, j) = {}
    BY <2>1, InRows DEF JournalInv, Showing
  <2>4. /\ RowsIn(rows', j) = {} \/ \E x \in rows' : RowsIn(rows', j) = {x}
        /\ SumNet(RowsIn(rows', j)) = a.net
        /\ \A k \in Journals \ {j} : RowsIn(rows', k) = RowsIn(rows, k)
    BY <2>1, <2>3, RecordAdds
  <2>5. \A k \in Journals : RowsOf(k)' = RowsIn(rows', k)
    BY DEF RowsOf, RowsIn
  <2>6. ASSUME NEW k \in Journals PROVE Showing(k)'
    <3>1. CASE k = j
      BY <2>1, <2>2, <2>4, <2>5, <3>1 DEF Showing, a
    <3>2. CASE k # j
      <4>1. RowsOf(k)' = RowsOf(k) /\ rows \subseteq rows' /\ raced \subseteq raced'
        BY <2>1, <2>4, <2>5, <3>2, InRows, RecordFacts
      <4>2. entry'[k] = entry[k] /\ lock'[k] = lock[k] /\ lines'[k] = lines[k]
        BY <2>1, <2>2, <3>2
      <4> QED BY <4>1, <4>2 DEF JournalInv, Showing
    <3> QED BY <3>1, <3>2
  <2>7. ASSUME NEW d \in Client \ {c}, pc[d] \in Writing, my[d].journal = j
        PROVE  j \in raced'
    <3>1. Held(pc[d], my[d]) /\ my[d] \in Clients
      BY ClientFacts
    <3>2. my[d].kind = "edit" \/ pc[d] = "lines"
      BY <2>7, <3>1 DEF Held, RouteOf, Clients, Kinds, Writing, PostPCs, DraftPCs, DocumentPCs, EditPCs, YearPCs
    <3> QED BY <2>1, <2>7, <3>2 DEF Writes
  <2>8. \A k \in Journals : entry'[k].status = "POSTED" /\ entry[k].status # "POSTED" => k = j
    BY <2>2
  <2>9. raced \subseteq raced'
    BY <2>1
  <2> QED BY <2>1, <2>6, <2>7, <2>8, <2>9, JournalStep
<1>2. CASE DocumentCommit(c)
  <2>1. PICK s \in Docs, p \in Period, a \in LineSets :
          /\ Record(s, p, a) /\ lines' = lines
          /\ UNCHANGED <<entry, lock, raced>>
    BY <1>2, DocumentCommitFacts DEF Posts
  <2>2. pc'[c] = "idle"
    BY <1>2 DEF DocumentCommit, Goto, TypeInv, TypeOK
  <2>3. ASSUME NEW k \in Journals PROVE Showing(k)'
    <3>1. k # s
      BY JournalFacts
    <3>2. RowsIn(rows', k) = RowsIn(rows, k) /\ rows \subseteq rows'
      BY <2>1, <3>1, RecordAdds, RecordFacts
    <3>3. RowsOf(k)' = RowsOf(k)
      BY <3>2 DEF RowsOf, RowsIn
    <3> QED BY <2>1, <3>2, <3>3 DEF JournalInv, Showing
  <2> QED BY <2>1, <2>2, <2>3, JournalStep DEF Writing
<1> QED BY <1>1, <1>2

LEMMA JournalHolds == Spec => []JournalInv
<1>1. TypeInv /\ JournalInv /\ [Next]_vars => JournalInv'
  <2> SUFFICES ASSUME TypeInv, JournalInv, [Next]_vars PROVE JournalInv'
    OBVIOUS
  <2>1. CASE UNCHANGED vars
    BY <2>1 DEF JournalInv, Showing, RowsOf, vars
  <2>2. ASSUME NEW c \in Client, Step(c) PROVE JournalInv'
    BY <2>2, JournalReads, JournalWrites, JournalEntries, JournalLocks, JournalPosts DEF Step
  <2> QED BY <2>1, <2>2, Steps
<1> QED BY <1>1, TypeHolds, JournalInit, PTL DEF Spec

(* A journal is in the ledger once, never as a draft, and as it shows      *)
(* itself, however many clients write and post it at a time: the row lock, *)
(* and that a writer either finds a draft or is counted as racing.         *)
THEOREM LedgerIsTheJournals == Spec => []LedgerShowsJournals
<1>1. JournalInv => LedgerShowsJournals
  <2> SUFFICES ASSUME JournalInv, NEW j \in Journals
               PROVE  /\ Cardinality(RowsOf(j)) <= 1
                      /\ RowsOf(j) # {} => entry[j].status \in {"POSTED", "DELETED"}
                      /\ entry[j].status = "POSTED" /\ j \notin raced => lines[j].net = SumNet(RowsOf(j))
    BY DEF LedgerShowsJournals
  <2>1. Showing(j)
    BY DEF JournalInv
  <2>2. Cardinality({}) <= 1 /\ \A r : Cardinality({r}) <= 1
    BY FS_EmptySet, FS_Singleton
  <2> QED BY <2>1, <2>2 DEF Showing
<1> QED BY <1>1, JournalHolds, PTL

-----------------------------------------------------------------------------
(* The close of a year, under way and recorded.                            *)

(* A client that made the journal it has.                                  *)
Makes(r) == r.kind \in {"create", "reverse", "adjust", "clone", "closeYear"} /\ r.journal # 0

(* A year close holds the net income it saw and what others added since;   *)
(* its journal, unless somebody edited it, has the lines it wrote or none, *)
(* and none no more once it is looked at; and past the posting the year is *)
(* down to what others added.                                              *)
Closes(c) ==
  LET j == my[c].journal  p == my[c].source IN
  my[c].kind = "closeYear" =>
   /\ pc[c] \in {"yearChecks", "yearBalances", "entry"} => my[c].date = p
   /\ pc[c] \in PostPCs \cup {"entry", "lines"} =>
        my[c].amount = Lines(-my[c].balance) /\ NetIn(rows, p) = my[c].balance + my[c].late
   /\ pc[c] \in PostPCs \cup {"lines"} /\ j \notin edited =>
        /\ lines[j] \in (IF pc[c] = "lines" THEN {NoLines} ELSE {NoLines, my[c].amount})
        /\ entry[j].status = "DRAFT" =>
             entry[j].date = p /\ (pc[c] \in {"lock", "commit"} => lines[j] = my[c].amount)
   /\ pc[c] \in {"closePeriod", "record"} /\ j \notin edited => NetIn(rows, p) = my[c].late

Cleared == {"editEntry", "editClearAgain", "editLines"}

UnusedIsEmpty == \A j \in Journals : entry[j].status = "NONE" => lines[j] = NoLines

YearInv ==
  /\ UnusedIsEmpty
  /\ \A c \in Client : pc[c] \in Cleared => my[c].journal \in edited
  /\ \A c, d \in Client : Makes(my[c]) /\ Makes(my[d]) /\ c # d => my[c].journal # my[d].journal
  /\ \A c \in Client : Closes(c)
  /\ ClosedYearNets

LEMMA YearInit == Init => YearInv
<1> SUFFICES ASSUME NEW p \in Period, NEW a \in Amounts, NEW b \in Amounts, Start(p, a, b)
             PROVE  YearInv
  BY DEF Init
<1>1. UnusedIsEmpty
  BY JournalsAssumption DEF UnusedIsEmpty, Start, NoEntry
<1>2. \A c \in Client : pc[c] = "idle" /\ my[c] = Fresh
  BY DEF Start
<1>3. Fresh.kind = "post"
  BY DEF Fresh
<1>4. \A c \in Client : Closes(c) /\ ~Makes(my[c]) /\ pc[c] \notin Cleared
  BY <1>2, <1>3 DEF Closes, Makes, Cleared
<1>5. ClosedYearNets
  BY DEF ClosedYearNets, Start
<1> QED BY <1>1, <1>4, <1>5 DEF YearInv

(* A step that a year close does not notice in its journal: an edit of it, *)
(* its end as a draft, its deletion.                                       *)
Spares(j) ==
  \/ j \in edited'
  \/ /\ lines'[j] \in {lines[j], NoLines}
     /\ entry'[j].status = "DRAFT" =>
          entry[j].status = "DRAFT" /\ entry'[j].date = entry[j].date /\ lines'[j] = lines[j]

(* What the year of a close gains, the close counts.                       *)
Counts(d) ==
  my[d].kind = "closeYear" =>
    \E n \in Int : /\ NetIn(rows', my[d].source) = NetIn(rows, my[d].source) + n
                   /\ my'[d].late = my[d].late + n

LEMMA ClosesStays ==
  ASSUME TypeInv, NEW d \in Client, Closes(d), pc'[d] = pc[d], Like(my[d], my'[d]), Counts(d),
         edited \subseteq edited', my[d].journal \in Journals => Spares(my[d].journal)
  PROVE  Closes(d)'
<1> SUFFICES ASSUME my[d].kind = "closeYear" PROVE Closes(d)'
  BY DEF Closes, Like
<1> DEFINE j == my[d].journal  p == my[d].source
<1>1. PICK n \in Int : NetIn(rows', p) = NetIn(rows, p) + n /\ my'[d].late = my[d].late + n
  BY DEF Counts
<1>2. /\ my'[d].journal = j /\ my'[d].source = p /\ my'[d].amount = my[d].amount
      /\ my'[d].balance = my[d].balance /\ my'[d].date = my[d].date
  BY DEF Like
<1>3. my[d].late \in Int /\ my[d].balance \in Int /\ (pc[d] \in HasJournal => j \in Journals)
  BY ClientFacts DEF Clients, Held, HasJournal, PostPCs, EditPCs
<1>4. pc[d] \in {"yearChecks", "yearBalances", "entry"} => my'[d].date = p
  BY <1>2 DEF Closes
<1>5. pc[d] \in PostPCs \cup {"entry", "lines"} =>
        my'[d].amount = Lines(-my'[d].balance) /\ NetIn(rows', p) = my'[d].balance + my'[d].late
  BY <1>1, <1>2, <1>3 DEF Closes
<1>6. pc[d] \in PostPCs \cup {"lines"} /\ j \notin edited' =>
        /\ lines'[j] \in (IF pc[d] = "lines" THEN {NoLines} ELSE {NoLines, my'[d].amount})
        /\ entry'[j].status = "DRAFT" =>
             entry'[j].date = p /\ (pc[d] \in {"lock", "commit"} => lines'[j] = my'[d].amount)
  BY <1>2, <1>3 DEF Closes, Spares, HasJournal
<1>7. pc[d] \in {"closePeriod", "record"} /\ j \notin edited' => NetIn(rows', p) = my'[d].late
  BY <1>1, <1>2, <1>3 DEF Closes
<1> QED BY <1>2, <1>4, <1>5, <1>6, <1>7 DEF Closes

(* What a step of c has to keep.                                           *)
LEMMA YearStep ==
  ASSUME TypeInv, YearInv, NEW c \in Client, Step(c), edited \subseteq edited', UnusedIsEmpty',
         \A d \in Client \ {c} : Counts(d) /\ (my[d].kind = "closeYear" /\ my[d].journal \in Journals
                                                 => Spares(my[d].journal)),
         pc'[c] \in Cleared => my'[c].journal \in edited',
         Makes(my'[c]) => \A d \in Client \ {c} : Makes(my[d]) => my[d].journal # my'[c].journal,
         Closes(c)', ClosedYearNets'
  PROVE  YearInv'
<1>1. \A d \in Client \ {c} : pc'[d] = pc[d] /\ Like(my[d], my'[d])
  BY OthersStay
<1>2. \A d \in Client \ {c} : Makes(my'[d]) = Makes(my[d]) /\ my'[d].journal = my[d].journal
  BY <1>1 DEF Makes, Like
<1>3. ASSUME NEW d \in Client PROVE Closes(d)' /\ (pc'[d] \in Cleared => my'[d].journal \in edited')
  <2>1. CASE d = c
    BY <2>1
  <2>2. CASE d # c
    <3>1. pc'[d] \in Cleared => my'[d].journal \in edited'
      BY <1>1, <1>2, <2>2 DEF YearInv
    <3>2. CASE my[d].kind = "closeYear"
      BY <1>1, <2>2, <3>1, <3>2, ClosesStays DEF YearInv
    <3>3. CASE my[d].kind # "closeYear"
      <4>1. my'[d].kind # "closeYear"
        BY <1>1, <2>2, <3>3 DEF Like
      <4>2. Closes(d)'
        BY <4>1 DEF Closes
      <4> QED BY <3>1, <4>2
    <3> QED BY <3>2, <3>3
  <2> QED BY <2>1, <2>2
<1>4. ASSUME NEW d \in Client, NEW e \in Client, Makes(my'[d]), Makes(my'[e]), d # e
      PROVE  my'[d].journal # my'[e].journal
  BY <1>2, <1>4 DEF YearInv
<1>5. \A d, e \in Client : Makes(my'[d]) /\ Makes(my'[e]) /\ d # e => my'[d].journal # my'[e].journal
  BY <1>4
<1>6. \A d \in Client : Closes(d)' /\ (pc'[d] \in Cleared => my'[d].journal \in edited')
  BY <1>3
<1> QED BY <1>5, <1>6 DEF YearInv, Makes

(* A step that leaves the ledger, and what is recorded of it, alone.       *)
LEMMA YearStepQuiet ==
  ASSUME TypeInv, YearInv, NEW c \in Client, Step(c), UNCHANGED <<rows, closing>>,
         edited \subseteq edited', UnusedIsEmpty',
         \A d \in Client \ {c} : my'[d] = my[d],
         \A d \in Client \ {c} : my[d].kind = "closeYear" /\ my[d].journal \in Journals => Spares(my[d].journal),
         pc'[c] \in Cleared => my'[c].journal \in edited',
         Makes(my'[c]) => \A d \in Client \ {c} : Makes(my[d]) => my[d].journal # my'[c].journal,
         Closes(c)'
  PROVE  YearInv'
<1>1. ASSUME NEW d \in Client \ {c} PROVE Counts(d)
  <2>1. NetIn(rows, my[d].source) \in Int /\ my[d].late \in Int
    BY ClientFacts, NetIsInteger DEF NetIn, Clients
  <2>2. NetIn(rows', my[d].source) = NetIn(rows, my[d].source) + 0 /\ my'[d].late = my[d].late + 0
    BY <2>1
  <2> QED BY <2>2 DEF Counts
<1>2. ClosedYearNets'
  BY DEF YearInv, ClosedYearNets, Net
<1> QED BY <1>1, <1>2, YearStep

(* A step that leaves the journals alone as well, and where the client     *)
(* keeps or drops the journal it made.                                     *)
LEMMA YearStepReads ==
  ASSUME TypeInv, YearInv, NEW c \in Client, Step(c),
         UNCHANGED <<entry, lines, rows, closing, edited>>,
         \A d \in Client \ {c} : my'[d] = my[d],
         pc'[c] \in Cleared => my'[c].journal \in edited',
         Makes(my'[c]) => Makes(my[c]) /\ my'[c].journal = my[c].journal,
         Closes(c)'
  PROVE  YearInv'
<1>1. UnusedIsEmpty'
  BY DEF YearInv, UnusedIsEmpty
<1>2. \A j \in Journals : Spares(j)
  BY DEF Spares
<1>3. Makes(my'[c]) => \A d \in Client \ {c} : Makes(my[d]) => my[d].journal # my'[c].journal
  BY DEF YearInv
<1> QED BY <1>1, <1>2, <1>3, YearStepQuiet

LEMMA YearReadCloses ==
  ASSUME TypeInv, YearInv, NEW c \in Client, ReadStep(c)
  PROVE  Closes(c)'
<1>0. /\ UNCHANGED <<entry, lines, rows, closing, edited>>
      /\ my[c] \in Clients /\ Held(pc[c], my[c]) /\ Closes(c)
  BY ReadFacts, ClientFacts DEF journalVars, history, YearInv
<1>1. CASE Return(c)
  <2>1. my'[c].kind = "post"
    BY <1>1 DEF Return, Fresh, TypeInv, TypeOK
  <2> QED BY <2>1 DEF Closes
<1>2. CASE Load(c) \/ LoadLines(c) \/ DraftChecks(c) \/ EditRead(c) \/ DeleteRead(c)
           \/ (DocumentChecks(c) /\ ~Return(c)) \/ (DocumentCheck(c) /\ ~Return(c))
  <2>1. pc[c] \in {"load", "loadLines", "draftChecks", "editRead", "deleteRead", "documentChecks", "documentCheck"}
    BY <1>2 DEF Load, LoadLines, DraftChecks, EditRead, DeleteRead, DocumentChecks, DocumentCheck
  <2>2. my[c].kind # "closeYear"
    BY <1>0, <2>1 DEF Held, RouteOf, Kinds, Clients, PostPCs, DraftPCs, DocumentPCs, EditPCs, YearPCs
  <2>3. my'[c].kind = my[c].kind
    BY <1>2 DEF Load, LoadLines, DraftChecks, EditRead, DeleteRead, DocumentChecks, DocumentCheck,
                TypeInv, TypeOK, Clients
  <2> QED BY <2>2, <2>3 DEF Closes
<1>3. CASE PostEntry(c)
  <2> DEFINE d == entry[my[c].journal].date
  <2>1. pc[c] = "postEntry" /\ pc'[c] = "postChecks" /\ my' = [my EXCEPT ![c].date = d]
    BY <1>3 DEF PostEntry, Goto, TypeInv, TypeOK
  <2> HIDE DEF d
  <2>2. /\ my'[c].kind = my[c].kind /\ my'[c].journal = my[c].journal /\ my'[c].source = my[c].source
        /\ my'[c].amount = my[c].amount /\ my'[c].balance = my[c].balance /\ my'[c].late = my[c].late
    BY <2>1 DEF TypeInv, TypeOK, Clients
  <2> QED BY <1>0, <2>1, <2>2 DEF Closes, PostPCs
<1>4. CASE PostChecks(c)
  <2>1. /\ pc[c] = "postChecks" /\ pc'[c] = "lock" /\ my' = my /\ lines[my[c].journal] # NoLines
    BY <1>4 DEF PostChecks, Goto, TypeInv, TypeOK
  <2> QED BY <1>0, <2>1 DEF Closes, PostPCs
<1>5. CASE YearChecks(c)
  <2>1. pc[c] = "yearChecks" /\ pc'[c] = "yearBalances" /\ my' = my
    BY <1>5 DEF YearChecks, Goto, TypeInv, TypeOK
  <2> QED BY <1>0, <2>1 DEF Closes, PostPCs
<1>6. CASE YearBalances(c)
  <2> DEFINE b == Net(my[c].source)
             r == [my[c] EXCEPT !.balance = b, !.amount = Lines(-b), !.late = 0]
  <2>1. pc[c] = "yearBalances" /\ pc'[c] = "entry" /\ my'[c] = r
    BY <1>6 DEF YearBalances, Goto, TypeInv, TypeOK
  <2>2. b = NetIn(rows, my[c].source) /\ b \in Int
    BY NetIsInteger DEF Net, NetIn
  <2> HIDE DEF b
  <2>3. /\ r.kind = my[c].kind /\ r.source = my[c].source /\ r.date = my[c].date
        /\ r.balance = b /\ r.amount = Lines(-b) /\ r.late = 0
    <3> DEFINE x == [my[c] EXCEPT !.balance = b]
               y == [x EXCEPT !.amount = Lines(-b)]
    <3>1. r = [y EXCEPT !.late = 0]
      OBVIOUS
    <3>2. DOMAIN x = DOMAIN my[c] /\ {"kind", "source", "date", "balance", "amount", "late"} \subseteq DOMAIN my[c]
      BY <1>0 DEF Clients
    <3>3. x.balance = b /\ x.kind = my[c].kind /\ x.source = my[c].source /\ x.date = my[c].date
      BY <3>2
    <3> HIDE DEF x
    <3>4. /\ y.amount = Lines(-b) /\ y.balance = b /\ y.kind = my[c].kind /\ y.source = my[c].source
          /\ y.date = my[c].date /\ DOMAIN y = DOMAIN my[c]
      BY <3>2, <3>3
    <3> HIDE DEF y, r
    <3> QED BY <3>1, <3>2, <3>4
  <2> HIDE DEF r
  <2> QED BY <1>0, <2>1, <2>2, <2>3 DEF Closes, PostPCs
<1>7. CASE LoseLines(c)
  <2>1. pc[c] = "lines" /\ pc'[c] = "postEntry" /\ my' = my
    BY <1>7 DEF LoseLines, Goto, TypeInv, TypeOK
  <2> QED BY <1>0, <2>1 DEF Closes, PostPCs
<1> QED BY <1>1, <1>2, <1>3, <1>4, <1>5, <1>6, <1>7 DEF ReadStep

LEMMA YearReads ==
  ASSUME TypeInv, YearInv, NEW c \in Client, Step(c),
         Arrive(c) \/ ReadStep(c) \/ Lock(c) \/ Fail(c) \/ YearClosePeriod(c)
  PROVE  YearInv'
<1>0. \A d \in Client \ {c} : my'[d] = my[d]
  <2>1. ~Commit(c) /\ ~DocumentCommit(c)
    <3>1. pc[c] \notin {"commit", "documentCommit"} \/ Fail(c)
      BY ArriveFacts, ReadFacts DEF Lock, YearClosePeriod, ReadStep, PostEntry, PostChecks, DocumentChecks,
         DocumentCheck, Load, LoadLines, DraftChecks, EditRead, DeleteRead, YearChecks, YearBalances, LoseLines
    <3>2. CASE Fail(c)
      BY <3>2 DEF Fail, Commit, DocumentCommit, Record, TypeInv, TypeOK
    <3> QED BY <3>1, <3>2 DEF Commit, DocumentCommit
  <2> QED BY <2>1, OthersKeep
<1>1. CASE Arrive(c)
  <2>1. UNCHANGED <<entry, lines, rows, closing, edited>>
    BY <1>1, ArriveFacts
  <2>2. CASE UNCHANGED <<pc, my>>
    <3>1. Closes(c)' /\ (pc'[c] \in Cleared => my'[c].journal \in edited')
      BY <2>1, <2>2 DEF YearInv, Closes
    <3> QED BY <1>0, <2>1, <2>2, <3>1, YearStepReads
  <2>3. CASE pc'[c] # pc[c]
    <3>1. /\ pc'[c] \in {"yearChecks", "entry", "documentChecks", "editRead", "load", "postEntry", "deleteRead"}
          /\ my'[c].kind = "closeYear" => my'[c].date = my'[c].source /\ pc'[c] = "yearChecks"
          /\ pc'[c] \in {"yearChecks", "entry", "load", "documentChecks"} => my'[c].journal = 0
          /\ my'[c].kind = "create" <=> pc'[c] = "entry"
          /\ my'[c].kind \in {"reverse", "adjust", "clone"} <=> pc'[c] = "load"
      BY <1>1, <2>3, ArriveFacts
    <3>2. Closes(c)' /\ pc'[c] \notin Cleared /\ ~Makes(my'[c])
      BY <3>1 DEF Closes, Cleared, Makes, PostPCs
    <3> QED BY <1>0, <2>1, <3>2, YearStepReads
  <2>4. pc'[c] = pc[c] => UNCHANGED <<pc, my>>
    BY <1>1, ArriveFacts
  <2> QED BY <2>2, <2>3, <2>4
<1>2. CASE ReadStep(c)
  <2>1. UNCHANGED <<entry, lines, rows, closing, edited>>
    BY <1>2, ReadFacts DEF journalVars, history
  <2>2. pc'[c] \notin Cleared
    BY <1>2 DEF ReadStep, PostEntry, PostChecks, DocumentChecks, DocumentCheck, Load, LoadLines,
         DraftChecks, EditRead, DeleteRead, YearChecks, YearBalances, LoseLines, Cleared, Goto, Return,
         TypeInv, TypeOK
  <2>3. Makes(my'[c]) => Makes(my[c]) /\ my'[c].journal = my[c].journal
    <3>1. PICK l \in PCs, r \in Clients : Turn(c, l, r) /\ (Read(my[c], r) \/ r = Fresh)
      BY <1>2, ReadFacts
    <3>2. my'[c] = r
      BY <3>1, Turned
    <3> QED BY <3>1, <3>2, FreshFacts DEF Read, Makes
  <2> QED BY <1>0, <1>2, <2>1, <2>2, <2>3, YearReadCloses, YearStepReads
<1>3. CASE Lock(c)
  <2>1. /\ UNCHANGED <<entry, lines, rows, closing, edited, my>> /\ pc'[c] = "commit" /\ pc[c] = "lock"
    BY <1>3 DEF Lock, Goto, history, TypeInv, TypeOK
  <2>2. Closes(c)' /\ pc'[c] \notin Cleared
    BY <2>1 DEF YearInv, Closes, Cleared, PostPCs
  <2> QED BY <1>0, <2>1, <2>2, YearStepReads
<1>4. CASE Fail(c)
  <2>1. UNCHANGED <<entry, lines, rows, closing, edited>> /\ pc'[c] = "idle" /\ my'[c] = Fresh
    BY <1>4 DEF Fail, Return, Goto, history, TypeInv, TypeOK
  <2>2. Closes(c)' /\ pc'[c] \notin Cleared /\ ~Makes(my'[c])
    BY <2>1 DEF Closes, Cleared, Makes, Fresh
  <2> QED BY <1>0, <2>1, <2>2, YearStepReads
<1>5. CASE YearClosePeriod(c)
  <2>1. /\ UNCHANGED <<entry, lines, rows, closing, edited, my>> /\ pc'[c] = "record" /\ pc[c] = "closePeriod"
    BY <1>5 DEF YearClosePeriod, Goto, journalVars, history, TypeInv, TypeOK
  <2>2. Closes(c)' /\ pc'[c] \notin Cleared
    BY <2>1 DEF YearInv, Closes, Cleared, PostPCs
  <2> QED BY <1>0, <2>1, <2>2, YearStepReads
<1> QED BY <1>1, <1>2, <1>3, <1>4, <1>5

(* The record of a close is of a year that is down to what others added.   *)
LEMMA YearRecords ==
  ASSUME TypeInv, YearInv, NEW c \in Client, Step(c), YearRecord(c)
  PROVE  YearInv'
<1> DEFINE p == my[c].source
           x == [journal |-> my[c].journal, net |-> my[c].balance, late |-> my[c].late]
<1>1. /\ pc[c] = "record" /\ UNCHANGED <<entry, lines, rows, edited>> /\ my'[c] = Fresh /\ pc'[c] = "idle"
      /\ closing' = IF closing[p] # NoClose THEN closing ELSE [closing EXCEPT ![p] = x]
  BY DEF YearRecord, Return, Goto, journalVars, history, TypeInv, TypeOK
<1>2. my[c] \in Clients /\ Held("record", my[c])
  BY <1>1, ClientFacts
<1>3. my[c].kind = "closeYear" /\ p \in Period
  BY <1>2 DEF Held, RouteOf, Kinds, Clients, PostPCs, DraftPCs, DocumentPCs, EditPCs, YearPCs
<1>4. x.journal \notin edited => NetIn(rows, p) = x.late
  BY <1>1, <1>3 DEF YearInv, Closes
<1>5. x.journal = my[c].journal /\ x.late = my[c].late
  OBVIOUS
<1> HIDE DEF x
<1>6. ASSUME NEW q \in Period, closing'[q] # NoClose, closing'[q].journal \notin edited'
      PROVE  NetIn(rows', q) = closing'[q].late
  <2>1. CASE closing'[q] = closing[q]
    BY <1>1, <1>6, <2>1 DEF YearInv, ClosedYearNets, Net, NetIn
  <2>2. CASE closing'[q] # closing[q]
    <3>1. q = p /\ closing'[q] = x
      BY <1>1, <1>3, <2>2 DEF TypeInv, TypeOK
    <3> QED BY <1>1, <1>4, <1>6, <3>1
  <2> QED BY <2>1, <2>2
<1>7. ClosedYearNets'
  BY <1>6 DEF ClosedYearNets, Net, NetIn
<1>8. \A d \in Client \ {c} : my'[d] = my[d]
  BY <1>1, OthersKeep DEF Commit, DocumentCommit
<1>9. ASSUME NEW d \in Client \ {c} PROVE Counts(d) /\ \A j \in Journals : Spares(j)
  <2>1. NetIn(rows, my[d].source) \in Int /\ my[d].late \in Int
    BY ClientFacts, NetIsInteger DEF NetIn, Clients
  <2>2. NetIn(rows', my[d].source) = NetIn(rows, my[d].source) + 0 /\ my'[d].late = my[d].late + 0
    BY <1>1, <1>8, <2>1
  <2> QED BY <1>1, <2>2 DEF Counts, Spares
<1>10. UnusedIsEmpty' /\ Closes(c)' /\ ~Makes(my'[c]) /\ pc'[c] \notin Cleared
  BY <1>1 DEF YearInv, UnusedIsEmpty, Closes, Makes, Cleared, Fresh
<1> QED BY <1>1, <1>7, <1>9, <1>10, YearStep

LEMMA YearDrafts ==
  ASSUME TypeInv, YearInv, NEW c \in Client, Step(c), InsertEntry(c)
  PROVE  YearInv'
<1> DEFINE derived == IF Derived(my[c].kind) THEN my[c].source ELSE 0
           e == [status |-> "DRAFT", type |-> TypeOf(my[c].kind), date |-> my[c].date,
                 total |-> my[c].amount.total, source |-> derived, reversedBy |-> 0]
<1>1. PICK j \in Unused : entry' = [entry EXCEPT ![j] = e] /\ my' = [my EXCEPT ![c].journal = j]
  BY DEF InsertEntry
<1>2. /\ pc[c] = "entry" /\ UNCHANGED <<lines, rows, closing, edited>>
      /\ pc'[c] = IF my[c].kind = "closeYear" /\ my[c].amount = NoLines THEN "closePeriod" ELSE "lines"
  BY DEF InsertEntry, Goto, history, TypeInv, TypeOK
<1>3. j \in Journals /\ entry[j].status = "NONE" /\ lines[j] = NoLines
  BY DEF Unused, YearInv, UnusedIsEmpty
<1>4. e.status = "DRAFT" /\ e.date = my[c].date
  OBVIOUS
<1> HIDE DEF e
<1>5. entry'[j] = e /\ \A k \in Journals \ {j} : entry'[k] = entry[k]
  BY <1>1, <1>3, TableFacts DEF Tables
<1>6. /\ my'[c].kind = my[c].kind /\ my'[c].journal = j /\ my'[c].source = my[c].source
      /\ my'[c].date = my[c].date /\ my'[c].amount = my[c].amount
      /\ my'[c].balance = my[c].balance /\ my'[c].late = my[c].late
  BY <1>1, ClientFacts DEF TypeInv, TypeOK, Clients
<1>7. UnusedIsEmpty'
  BY <1>2, <1>4, <1>5 DEF YearInv, UnusedIsEmpty
<1>8. \A d \in Client \ {c} : my'[d] = my[d]
  BY <1>2, OthersKeep DEF Commit, DocumentCommit
<1>9. \A d \in Client : my[d].journal \in Journals => my[d].journal # j
  BY <1>3, ClientFacts, JournalFacts
<1>10. \A k \in Journals \ {j} : Spares(k)
  BY <1>2, <1>5 DEF Spares
<1>11. Closes(c)'
  <2> SUFFICES ASSUME my[c].kind = "closeYear" PROVE Closes(c)'
    BY <1>6 DEF Closes
  <2> DEFINE p == my[c].source
  <2>1. /\ my[c].date = p /\ my[c].amount = Lines(-my[c].balance)
        /\ NetIn(rows, p) = my[c].balance + my[c].late
    BY <1>2 DEF YearInv, Closes
  <2>2. my[c].balance \in Int /\ my[c].late \in Int
    BY ClientFacts DEF Clients
  <2>3. CASE my[c].amount = NoLines
    <3>1. my[c].balance = 0
      BY <2>1, <2>2, <2>3, LinesFacts DEF NoLines
    <3>2. NetIn(rows, p) = my[c].late /\ pc'[c] = "closePeriod"
      BY <1>2, <2>1, <2>2, <2>3, <3>1
    <3> QED BY <1>2, <1>6, <3>2 DEF Closes, PostPCs
  <2>4. CASE my[c].amount # NoLines
    <3>1. pc'[c] = "lines"
      BY <1>2, <2>4
    <3> QED BY <1>2, <1>3, <1>4, <1>5, <1>6, <2>1, <3>1 DEF Closes, PostPCs
  <2> QED BY <2>3, <2>4
<1>12. pc'[c] \notin Cleared
  BY <1>2 DEF Cleared
<1>13. \A d \in Client \ {c} : Makes(my[d]) => my[d].journal # my'[c].journal
  BY <1>6, <1>9, ClientFacts DEF Makes
<1> QED BY <1>2, <1>7, <1>8, <1>9, <1>10, <1>11, <1>12, <1>13, YearStepQuiet

LEMMA YearLines ==
  ASSUME TypeInv, YearInv, NEW c \in Client, Step(c), InsertLines(c)
  PROVE  YearInv'
<1> DEFINE j == my[c].journal
<1>1. /\ pc[c] = "lines" /\ UNCHANGED <<entry, rows, closing, edited>>
      /\ lines' = [lines EXCEPT ![j] = And(@, my[c].amount)]
      /\ \/ pc'[c] = "postEntry" /\ my' = my
         \/ pc'[c] = "idle" /\ my'[c] = Fresh
  BY DEF InsertLines, Goto, Return, history, TypeInv, TypeOK
<1>2. my[c] \in Clients /\ Held("lines", my[c])
  BY <1>1, ClientFacts
<1>3. j \in Journals /\ j # 0 /\ entry[j].status # "NONE" /\ Makes(my[c])
  <2>1. j \in Journals /\ j # 0
    BY <1>2, JournalFacts DEF Held, HasJournal
  <2> QED BY <1>2, <2>1, ClientFacts DEF Held, RouteOf, Kinds, Clients, Makes, PostPCs, DraftPCs, DocumentPCs, EditPCs, YearPCs
<1>4. lines'[j] = And(lines[j], my[c].amount) /\ \A k \in Journals \ {j} : lines'[k] = lines[k]
  BY <1>1, <1>3, TableFacts DEF Tables
<1>5. UnusedIsEmpty'
  BY <1>1, <1>3, <1>4 DEF YearInv, UnusedIsEmpty
<1>6. \A d \in Client \ {c} : my'[d] = my[d]
  BY <1>1, OthersKeep DEF Commit, DocumentCommit
<1>7. ASSUME NEW d \in Client \ {c}, my[d].kind = "closeYear", my[d].journal \in Journals
      PROVE  Spares(my[d].journal)
  <2>1. my[d].journal # j
    BY <1>3, <1>7, JournalFacts DEF YearInv, Makes
  <2> QED BY <1>1, <1>4, <1>7, <2>1 DEF Spares
<1>8. Closes(c)'
  <2> SUFFICES ASSUME my[c].kind = "closeYear", my' = my, pc'[c] = "postEntry" PROVE Closes(c)'
    BY <1>1 DEF Closes, Fresh
  <2>1. /\ my[c].amount = Lines(-my[c].balance)
        /\ NetIn(rows, my[c].source) = my[c].balance + my[c].late
        /\ j \notin edited => /\ lines[j] = NoLines
                              /\ entry[j].status = "DRAFT" => entry[j].date = my[c].source
    BY <1>1 DEF YearInv, Closes
  <2>2. And(NoLines, my[c].amount) = my[c].amount
    BY <1>2 DEF Clients, LineSets, And, NoLines
  <2> QED BY <1>1, <1>4, <2>1, <2>2 DEF Closes, PostPCs
<1>9. pc'[c] \notin Cleared
  BY <1>1 DEF Cleared
<1>10. Makes(my'[c]) => \A d \in Client \ {c} : Makes(my[d]) => my[d].journal # my'[c].journal
  BY <1>1 DEF YearInv, Makes, Fresh
<1> QED BY <1>1, <1>5, <1>6, <1>7, <1>8, <1>9, <1>10, YearStepQuiet

(* An edit is counted with its first write; it and a deletion are all that *)
(* write to a journal somebody else made.                                  *)
LEMMA YearEdits ==
  ASSUME TypeInv, YearInv, NEW c \in Client, Step(c),
         EditClear(c) \/ EditLines(c) \/ EditEntry(c) \/ DeleteEntry(c) \/ Mark(c)
  PROVE  YearInv'
<1> DEFINE j == my[c].journal
<1>1. /\ pc[c] \in {"editClear", "editClearAgain", "editLines", "editEntry", "delete", "mark"}
      /\ UNCHANGED <<rows, closing>> /\ edited \subseteq edited'
      /\ (my' = my \/ my'[c] = Fresh)
  BY DEF EditClear, EditLines, EditEntry, DeleteEntry, Mark, Return, history, TypeInv, TypeOK
<1>2. /\ my[c] \in Clients /\ j \in Journals /\ my[c].kind # "closeYear" /\ entry[j].status # "NONE"
  <2>1. my[c] \in Clients /\ Held(pc[c], my[c])
    BY ClientFacts
  <2>2. j \in Journals
    BY <1>1, <2>1 DEF Held, HasJournal, EditPCs
  <2> QED BY <1>1, <2>1, <2>2, ClientFacts, JournalFacts DEF Held, RouteOf, Kinds, Clients, PostPCs, DraftPCs, DocumentPCs, EditPCs, YearPCs
<1>3. \A d \in Client \ {c} : my'[d] = my[d]
  BY <1>1, OthersKeep DEF Commit, DocumentCommit
<1>4. Closes(c)' /\ (Makes(my'[c]) => \A d \in Client \ {c} : Makes(my[d]) => my[d].journal # my'[c].journal)
  BY <1>1, <1>2 DEF Closes, YearInv, Makes, Fresh
<1>5. pc'[c] \in Cleared => my' = my /\ j \in edited'
  BY <1>1 DEF EditClear, EditLines, EditEntry, DeleteEntry, Mark, Return, Goto, Cleared, YearInv, TypeInv, TypeOK
<1> SUFFICES UnusedIsEmpty' /\ \A k \in Journals : Spares(k)
  BY <1>1, <1>3, <1>4, <1>5, YearStepQuiet
<1>6. CASE EditClear(c) \/ EditLines(c)
  <2>1. UNCHANGED entry /\ j \in edited' /\ \A k \in Journals \ {j} : lines'[k] = lines[k]
    BY <1>6 DEF EditClear, EditLines, Cleared, YearInv, history, TypeInv, TypeOK
  <2> QED BY <1>2, <2>1 DEF YearInv, UnusedIsEmpty, Spares
<1>7. CASE EditEntry(c)
  <2>1. /\ UNCHANGED lines /\ j \in edited'
        /\ entry'[j].status = entry[j].status /\ \A k \in Journals \ {j} : entry'[k] = entry[k]
    BY <1>7, TableFacts DEF EditEntry, Cleared, YearInv, history, Tables, Entries
  <2> QED BY <1>2, <2>1 DEF YearInv, UnusedIsEmpty, Spares
<1>8. CASE Mark(c)
  <2>1. UNCHANGED lines /\ \A k \in Journals : /\ entry'[k].status = entry[k].status
                                               /\ entry'[k].date = entry[k].date
    BY <1>8, TableFacts DEF Mark, Tables, Entries
  <2> QED BY <2>1 DEF YearInv, UnusedIsEmpty, Spares
<1>9. CASE DeleteEntry(c)
  <2>1. /\ lines' = [lines EXCEPT ![j] = NoLines] /\ entry'[j].status = "DELETED"
    BY <1>2, <1>9 DEF DeleteEntry, NoEntry
  <2>2. ASSUME NEW k \in Journals \ {j}
        PROVE  entry'[k].status = entry[k].status /\ entry'[k].date = entry[k].date
    <3>1. entry'[k] = [entry[k] EXCEPT !.source = IF @ = j THEN 0 ELSE @,
                                       !.reversedBy = IF @ = j THEN 0 ELSE @]
      BY <1>9 DEF DeleteEntry
    <3> QED BY <3>1, TableFacts DEF Entries
  <2>3. lines'[j] = NoLines /\ \A k \in Journals \ {j} : lines'[k] = lines[k]
    BY <1>2, <2>1, TableFacts DEF Tables
  <2>4. Spares(j)
    BY <2>1, <2>3 DEF Spares
  <2>5. ASSUME NEW k \in Journals \ {j} PROVE Spares(k)
    BY <2>2, <2>3 DEF Spares
  <2>6. UnusedIsEmpty'
    BY <2>1, <2>2, <2>3 DEF YearInv, UnusedIsEmpty
  <2> QED BY <2>4, <2>5, <2>6
<1> QED BY <1>6, <1>7, <1>8, <1>9

(* Whoever commits: the closes of the year it falls in, under way and      *)
(* recorded, count it.                                                     *)
LEMMA PostsCounts ==
  ASSUME TypeInv, YearInv, NEW c \in Client, NEW l \in PCs, NEW r \in Clients,
         NEW s \in Journals \cup Docs, NEW p \in Period, NEW a \in LineSets, Posts(c, l, r, s, p, a)
  PROVE  (\A d \in Client \ {c} : Counts(d)) /\ ClosedYearNets'
<1>1. /\ a.net \in Int /\ \A q : NetIn(rows, q) \in Int
      /\ NetIn(rows', p) = NetIn(rows, p) + a.net
      /\ \A q : q # p => NetIn(rows', q) = NetIn(rows, q)
  BY RecordAdds DEF Posts, LineSets
<1>2. ASSUME NEW d \in Client \ {c}, my[d].kind = "closeYear"
      PROVE  \E n \in Int : /\ NetIn(rows', my[d].source) = NetIn(rows, my[d].source) + n
                            /\ my'[d].late = my[d].late + n
  <2>1. my'[d].late = Counted(d, c, p, a)
    BY PostsFacts
  <2>2. CASE my[d].source = p
    BY <1>1, <1>2, <2>1, <2>2 DEF Counted
  <2>3. CASE my[d].source # p
    <3>1. NetIn(rows', my[d].source) = NetIn(rows, my[d].source) + 0 /\ my'[d].late = my[d].late + 0
      BY <1>1, <1>2, <2>1, <2>3 DEF Counted
    <3> QED BY <3>1
  <2> QED BY <2>2, <2>3
<1>3. ASSUME NEW q \in Period, closing'[q] # NoClose, closing'[q].journal \notin edited'
      PROVE  NetIn(rows', q) = closing'[q].late
  <2>1. /\ closing[q] # NoClose /\ closing'[q].journal = closing[q].journal
        /\ closing'[q].late = closing[q].late + (IF q = p THEN a.net ELSE 0)
    BY <1>3, LateFacts DEF Posts
  <2>2. NetIn(rows, q) = closing[q].late
    BY <1>3, <2>1 DEF Posts, YearInv, ClosedYearNets, Net, NetIn
  <2> QED BY <1>1, <2>1, <2>2
<1>4. ClosedYearNets'
  BY <1>3 DEF ClosedYearNets, Net, NetIn
<1> QED BY <1>2, <1>4 DEF Counts

LEMMA YearPosts ==
  ASSUME TypeInv, YearInv, NEW c \in Client, Step(c), Commit(c) \/ DocumentCommit(c)
  PROVE  YearInv'
<1>1. CASE DocumentCommit(c)
  <2>1. PICK s \in Docs, p \in Period, a \in LineSets :
          Posts(c, "idle", Fresh, s, p, a) /\ UNCHANGED <<entry, lock, raced>>
    BY <1>1, DocumentCommitFacts
  <2>2. "idle" \in PCs /\ Fresh \in Clients
    BY FreshFacts DEF PCs
  <2>3. (\A d \in Client \ {c} : Counts(d)) /\ ClosedYearNets' /\ pc'[c] = "idle" /\ my'[c] = Fresh
    BY <2>1, <2>2, PostsCounts, PostsFacts
  <2>4. UNCHANGED <<lines, edited>>
    BY <2>1 DEF Posts
  <2>5. UnusedIsEmpty' /\ \A k \in Journals : Spares(k)
    BY <2>1, <2>4 DEF YearInv, UnusedIsEmpty, Spares
  <2>6. Closes(c)' /\ ~Makes(my'[c]) /\ pc'[c] \notin Cleared
    BY <2>3 DEF Closes, Makes, Cleared, Fresh
  <2> QED BY <2>3, <2>4, <2>5, <2>6, YearStep
<1>2. CASE Commit(c)
  <2> DEFINE j == my[c].journal
             p == entry[j].date
             a == lines[j]
             l == AfterPost(c)
             r == IF l = "idle" THEN Fresh ELSE my[c]
  <2>1. /\ pc[c] = "commit" /\ j \in Journals /\ entry[j].status = "DRAFT"
        /\ p \in Period /\ a \in LineSets /\ my[c] \in Clients /\ r \in Clients
        /\ l \in {"mark", "closePeriod", "idle"} /\ Posts(c, l, r, j, p, a)
        /\ entry' = [entry EXCEPT ![j].status = "POSTED"]
    BY <1>2, CommitFacts
  <2>2. l \in PCs /\ l \notin Cleared
    BY <2>1 DEF PCs, DraftPCs, YearPCs, Cleared
  <2>3. l = "closePeriod" <=> my[c].kind = "closeYear"
    BY DEF AfterPost
  <2>4. r.kind = "closeYear" => r = my[c]
    BY DEF Fresh
  <2>5. Makes(r) => r = my[c]
    BY DEF Makes, Fresh
  <2> HIDE DEF l, r, p, a
  <2>6. (\A d \in Client \ {c} : Counts(d)) /\ ClosedYearNets' /\ pc'[c] = l /\ my'[c] = r
    BY <2>1, <2>2, PostsCounts, PostsFacts
  <2>7. UNCHANGED <<lines, edited>>
    BY <2>1 DEF Posts
  <2>8. entry'[j].status = "POSTED" /\ \A k \in Journals \ {j} : entry'[k] = entry[k]
    BY <2>1, TableFacts DEF Tables, Entries
  <2>9. UnusedIsEmpty' /\ \A k \in Journals : Spares(k)
    BY <2>1, <2>7, <2>8 DEF YearInv, UnusedIsEmpty, Spares
  <2>10. Closes(c)'
    <3> SUFFICES ASSUME r.kind = "closeYear" PROVE Closes(c)'
      BY <2>6 DEF Closes
    <3>1. r = my[c] /\ my'[c] = my[c] /\ my[c].kind = "closeYear" /\ pc'[c] = "closePeriod"
      BY <2>3, <2>4, <2>6
    <3>2. ASSUME j \notin edited PROVE NetIn(rows', my[c].source) = my[c].late
      <4>1. /\ my[c].amount = Lines(-my[c].balance) /\ p = my[c].source /\ a = my[c].amount
            /\ NetIn(rows, p) = my[c].balance + my[c].late
        BY <2>1, <3>1, <3>2 DEF YearInv, Closes, PostPCs, p, a
      <4>2. my[c].balance \in Int /\ my[c].late \in Int
        BY <2>1 DEF Clients
      <4>3. a.net = -my[c].balance
        BY <4>1, <4>2, LinesFacts
      <4>4. NetIn(rows', p) = NetIn(rows, p) + a.net
        BY <2>1, RecordAdds DEF Posts
      <4> QED BY <4>1, <4>2, <4>3, <4>4
    <3> QED BY <2>7, <3>1, <3>2 DEF Closes, PostPCs
  <2>11. Makes(my'[c]) => \A d \in Client \ {c} : Makes(my[d]) => my[d].journal # my'[c].journal
    BY <2>5, <2>6 DEF YearInv
  <2> QED BY <2>2, <2>6, <2>7, <2>9, <2>10, <2>11, YearStep
<1> QED BY <1>1, <1>2

LEMMA YearHolds == Spec => []YearInv
<1>1. TypeInv /\ YearInv /\ [Next]_vars => YearInv'
  <2> SUFFICES ASSUME TypeInv, YearInv, [Next]_vars PROVE YearInv'
    OBVIOUS
  <2>1. CASE UNCHANGED vars
    BY <2>1 DEF YearInv, UnusedIsEmpty, Closes, Makes, ClosedYearNets, Net, NetIn, vars
  <2>2. ASSUME NEW c \in Client, Step(c) PROVE YearInv'
    BY <2>2, YearReads, YearRecords, YearDrafts, YearLines, YearEdits, YearPosts DEF Step
  <2> QED BY <2>1, <2>2, Steps
<1> QED BY <1>1, TypeHolds, YearInit, PTL DEF Spec

(* A year whose close is recorded is down to what others posted to it      *)
(* after the close read it: the closing journal takes out exactly what was *)
(* read, nobody else has that journal as its own, and every later posting  *)
(* is counted against the closes under way and recorded.                   *)
THEOREM ClosedYearIsEmpty == Spec => []ClosedYearNets
<1>1. YearInv => ClosedYearNets
  BY DEF YearInv
<1> QED BY <1>1, YearHolds, PTL

-----------------------------------------------------------------------------
(* What was settled when a request came in.                                *)

Reversing == PostPCs \cup {"entry", "lines", "mark"}

(* A period that is open was, a source that was posted is, a reversal that *)
(* was posted is or is deleted; the period of what is about to be posted   *)
(* was open, its source was not posted, and the journal about to be        *)
(* reversed has none of the reversals that were there.                     *)
Settled(c) ==
  LET r == my[c] IN
  pc[c] # "idle" =>
    /\ OpenPeriods \subseteq r.wasOpen
    /\ \A s \in r.wasPosted : \E x \in rows : x.source = s
    /\ \A x \in r.reversals : entry[x].status \in {"POSTED", "DELETED"}
    /\ pc[c] = "commit" => entry[r.journal].date \in r.wasOpen
    /\ pc[c] \in {"documentCheck", "documentCommit"} => r.date \in r.wasOpen
    /\ pc[c] = "documentCommit" => r.source \notin r.wasPosted
    /\ r.kind = "reverse" /\ pc[c] \in Reversing => r.reversals \cap Reversals(r.source) = {}

SettledInv == \A c \in Client : Settled(c)

(* What only ever goes one way, whoever takes a step: a period is closed   *)
(* for good, a row stays, a posted journal stays or is deleted, and keeps  *)
(* its type and what it derives from.                                      *)
Lasting(x) ==
  entry[x].status \in {"POSTED", "DELETED"} =>
    /\ entry'[x].status \in {"POSTED", "DELETED"}
    /\ entry'[x].status = "POSTED" =>
         /\ entry[x].status = "POSTED" /\ entry'[x].type = entry[x].type
         /\ entry'[x].source \in {entry[x].source, 0}

LEMMA PeriodsClose ==
  ASSUME TypeInv, NEW c \in Client, Step(c)
  PROVE  OpenPeriods' \subseteq OpenPeriods
<1>1. CASE Arrive(c)
  <2>1. period' = period \/ \E p \in Period : period' = [period EXCEPT ![p] = "CLOSED"]
    BY <1>1, ArriveFacts
  <2> QED BY <2>1 DEF OpenPeriods, TypeInv, TypeOK
<1>2. CASE ReadStep(c)
  BY <1>2, ReadFacts DEF OpenPeriods
<1>3. CASE YearClosePeriod(c)
  BY <1>3 DEF YearClosePeriod, OpenPeriods, TypeInv, TypeOK
<1>4. CASE ~Arrive(c) /\ ~ReadStep(c) /\ ~YearClosePeriod(c)
  <2>1. period' = period
    BY <1>4 DEF Step, Lock, Commit, DocumentCommit, InsertEntry, InsertLines, EditLines, EditClear,
                EditEntry, Mark, DeleteEntry, YearRecord, Fail
  <2> QED BY <2>1 DEF OpenPeriods
<1> QED BY <1>1, <1>2, <1>3, <1>4

LEMMA RowsStay ==
  ASSUME TypeInv, NEW c \in Client, Step(c)
  PROVE  rows \subseteq rows'
<1>1. CASE Arrive(c) \/ ReadStep(c)
  BY <1>1, ArriveFacts, ReadFacts
<1>2. CASE Commit(c) \/ DocumentCommit(c)
  BY <1>2 DEF Commit, DocumentCommit, Record
<1>3. CASE ~Arrive(c) /\ ~ReadStep(c) /\ ~Commit(c) /\ ~DocumentCommit(c)
  BY <1>3 DEF Step, Lock, InsertEntry, InsertLines, EditLines, EditClear,
              EditEntry, Mark, DeleteEntry, YearClosePeriod, YearRecord, Fail
<1> QED BY <1>1, <1>2, <1>3

LEMMA EntriesLast ==
  ASSUME TypeInv, NEW c \in Client, Step(c)
  PROVE  \A x \in Journals : /\ Lasting(x)
                             /\ lock[x] \notin {0, c} => entry'[x].date = entry[x].date
<1> DEFINE j == my[c].journal
<1>1. CASE UNCHANGED entry
  BY <1>1 DEF Lasting
<1>2. CASE InsertEntry(c)
  <2>1. PICK k, e : k \in Unused /\ entry' = [entry EXCEPT ![k] = e]
    BY <1>2 DEF InsertEntry
  <2>2. entry[k].status = "NONE" /\ lock[k] = 0
    BY <2>1, TableFacts DEF Unused
  <2>3. \A x \in Journals \ {k} : entry'[x] = entry[x]
    BY <2>1, TableFacts DEF Tables
  <2> QED BY <2>2, <2>3 DEF Lasting
<1>3. CASE EditEntry(c)
  <2>1. /\ lock[j] = 0 /\ j \in Journals
    BY <1>3, ClientFacts DEF EditEntry, Writable, Held, HasJournal, EditPCs
  <2>2. /\ \A x \in Journals \ {j} : entry'[x] = entry[x]
        /\ entry'[j] = [entry[j] EXCEPT !.date = my[c].date, !.total = my[c].amount.total]
    BY <1>3, <2>1, TableFacts DEF EditEntry, Tables
  <2>3. /\ entry'[j].status = entry[j].status /\ entry'[j].type = entry[j].type
        /\ entry'[j].source = entry[j].source
    BY <2>1, <2>2, TableFacts DEF Entries
  <2> QED BY <2>1, <2>2, <2>3 DEF Lasting
<1>4. CASE Mark(c)
  <2>1. \A x \in Journals : /\ entry'[x].status = entry[x].status /\ entry'[x].type = entry[x].type
                            /\ entry'[x].source = entry[x].source /\ entry'[x].date = entry[x].date
    BY <1>4, TableFacts DEF Mark, Tables, Entries
  <2> QED BY <2>1 DEF Lasting
<1>5. CASE DeleteEntry(c)
  <2>1. lock[j] = 0 /\ j \in Journals
    BY <1>5, ClientFacts DEF DeleteEntry, Held, HasJournal, EditPCs
  <2>2. entry'[j].status = "DELETED"
    BY <1>5, <2>1 DEF DeleteEntry, NoEntry
  <2>3. ASSUME NEW x \in Journals \ {j}
        PROVE  /\ entry'[x].status = entry[x].status /\ entry'[x].type = entry[x].type
               /\ entry'[x].source \in {entry[x].source, 0} /\ entry'[x].date = entry[x].date
    <3> DEFINE a == IF entry[x].source = j THEN 0 ELSE entry[x].source
               b == IF entry[x].reversedBy = j THEN 0 ELSE entry[x].reversedBy
    <3>1. entry'[x] = [[entry[x] EXCEPT !.source = a] EXCEPT !.reversedBy = b]
      BY <1>5 DEF DeleteEntry
    <3>2. a \in {entry[x].source, 0} /\ entry[x] \in Entries
      BY TableFacts
    <3> HIDE DEF a, b
    <3> QED BY <3>1, <3>2 DEF Entries
  <2> QED BY <2>1, <2>2, <2>3 DEF Lasting
<1>6. CASE Commit(c)
  <2>1. j \in Journals /\ lock[j] = c /\ entry[j].status = "DRAFT" /\ entry' = [entry EXCEPT ![j].status = "POSTED"]
    BY <1>6, CommitFacts
  <2>2. \A x \in Journals \ {j} : entry'[x] = entry[x]
    BY <2>1, TableFacts DEF Tables
  <2> QED BY <2>1, <2>2 DEF Lasting
<1>7. \/ UNCHANGED entry \/ InsertEntry(c) \/ EditEntry(c) \/ Mark(c) \/ DeleteEntry(c) \/ Commit(c)
  <2>1. CASE Arrive(c) \/ ReadStep(c)
    BY <2>1, ArriveFacts, ReadFacts DEF journalVars
  <2>2. CASE ~Arrive(c) /\ ~ReadStep(c)
    BY <2>2 DEF Step, Lock, DocumentCommit, InsertLines, EditLines, EditClear, YearClosePeriod,
                YearRecord, Fail, journalVars
  <2> QED BY <2>1, <2>2
<1> QED BY <1>1, <1>2, <1>3, <1>4, <1>5, <1>6, <1>7

(* The posted reversals of s among the journals E.                         *)
ReversalsIn(E, s) == {r \in Journals : /\ E[r].source = s
                                       /\ E[r].type = "REVERSING"
                                       /\ E[r].status = "POSTED"}

(* A journal gets back none of the reversals that were posted once.        *)
LEMMA ReversalsLast ==
  ASSUME TypeInv, NEW c \in Client, Step(c), NEW s \in Journals, NEW R \in SUBSET Journals,
         \A x \in R : entry[x].status \in {"POSTED", "DELETED"}, R \cap ReversalsIn(entry, s) = {}
  PROVE  R \cap ReversalsIn(entry', s) = {}
<1> SUFFICES ASSUME NEW x \in R, entry'[x].source = s, entry'[x].type = "REVERSING",
                    entry'[x].status = "POSTED"
             PROVE  FALSE
  BY DEF ReversalsIn
<1>1. /\ entry[x].status = "POSTED" /\ entry[x].type = "REVERSING" /\ entry[x].source = s
  BY JournalFacts, EntriesLast DEF Lasting
<1> QED BY <1>1 DEF ReversalsIn

(* What outlasts a step of c, for a client d that goes on with the same    *)
(* request.                                                                *)
LEMMA SettledGoesOn ==
  ASSUME TypeInv, NEW c \in Client, Step(c), NEW d \in Client, Settled(d), pc[d] # "idle",
         my'[d].wasOpen = my[d].wasOpen, my'[d].wasPosted = my[d].wasPosted,
         my'[d].reversals = my[d].reversals
  PROVE  /\ OpenPeriods' \subseteq my'[d].wasOpen
         /\ \A s \in my'[d].wasPosted : \E x \in rows' : x.source = s
         /\ \A x \in my'[d].reversals : entry'[x].status \in {"POSTED", "DELETED"}
         /\ my[d].kind = "reverse" /\ pc[d] \in Reversing =>
              my[d].reversals \cap ReversalsIn(entry', my[d].source) = {}
<1>1. my[d] \in Clients /\ my[d].reversals \subseteq Journals /\ (my[d].kind = "reverse" => my[d].source \in Journals)
  BY ClientFacts DEF Clients, Held, Derived
<1>2. OpenPeriods' \subseteq my'[d].wasOpen
  BY PeriodsClose DEF Settled
<1>3. \A s \in my'[d].wasPosted : \E x \in rows' : x.source = s
  BY RowsStay DEF Settled
<1>4. \A x \in my'[d].reversals : entry'[x].status \in {"POSTED", "DELETED"}
  BY <1>1, EntriesLast DEF Settled, Lasting
<1>5. ASSUME my[d].kind = "reverse", pc[d] \in Reversing
      PROVE  my[d].reversals \cap ReversalsIn(entry', my[d].source) = {}
  <2>1. /\ my[d].source \in Journals /\ my[d].reversals \in SUBSET Journals
        /\ my[d].reversals \cap ReversalsIn(entry, my[d].source) = {}
        /\ \A x \in my[d].reversals : entry[x].status \in {"POSTED", "DELETED"}
    BY <1>1, <1>5 DEF Settled, Reversals, ReversalsIn
  <2> QED BY <2>1, ReversalsLast
<1> QED BY <1>2, <1>3, <1>4, <1>5

(* The others.                                                             *)
LEMMA OthersSettled ==
  ASSUME TypeInv, SettledInv, NEW c \in Client, Step(c), NEW d \in Client \ {c}
  PROVE  Settled(d)'
<1>1. pc'[d] = pc[d] /\ Like(my[d], my'[d])
  BY OthersStay
<1> SUFFICES ASSUME pc[d] # "idle" PROVE Settled(d)'
  BY <1>1 DEF Settled
<1>2. Settled(d)
  BY DEF SettledInv
<1>3. /\ my'[d].kind = my[d].kind /\ my'[d].journal = my[d].journal /\ my'[d].source = my[d].source
      /\ my'[d].date = my[d].date /\ my'[d].wasOpen = my[d].wasOpen
      /\ my'[d].wasPosted = my[d].wasPosted /\ my'[d].reversals = my[d].reversals
  BY <1>1 DEF Like
<1>4. /\ OpenPeriods' \subseteq my'[d].wasOpen
      /\ \A s \in my'[d].wasPosted : \E x \in rows' : x.source = s
      /\ \A x \in my'[d].reversals : entry'[x].status \in {"POSTED", "DELETED"}
      /\ my[d].kind = "reverse" /\ pc[d] \in Reversing =>
           my[d].reversals \cap ReversalsIn(entry', my[d].source) = {}
  BY <1>2, <1>3, SettledGoesOn
<1>5. pc[d] = "commit" => entry'[my[d].journal].date = entry[my[d].journal].date
  <2> SUFFICES ASSUME pc[d] = "commit" PROVE entry'[my[d].journal].date = entry[my[d].journal].date
    OBVIOUS
  <2>1. my[d].journal \in Journals
    BY ClientFacts DEF Held, HasJournal, PostPCs
  <2>2. lock[my[d].journal] = d
    BY <2>1 DEF TypeInv, LocksOK
  <2> QED BY <2>1, <2>2, EntriesLast, ClientAssumption
<1> QED BY <1>1, <1>2, <1>3, <1>4, <1>5 DEF Settled, Reversals, ReversalsIn

(* The request that arrives, and a year closed without one.                *)
LEMMA ArriveSettled ==
  ASSUME TypeInv, SettledInv, NEW c \in Client, Step(c), Arrive(c)
  PROVE  Settled(c)'
<1>1. UNCHANGED <<entry, rows>> /\ pc[c] = "idle"
  BY ArriveFacts
<1>2. CASE UNCHANGED <<pc, my>>
  BY <1>1, <1>2 DEF Settled
<1>3. CASE ~UNCHANGED <<pc, my>>
  <2>1. /\ pc'[c] \in {"yearChecks", "entry", "documentChecks", "editRead", "load", "postEntry", "deleteRead"}
        /\ UNCHANGED period
        /\ my'[c].wasOpen = OpenPeriods /\ my'[c].wasPosted = {x.source : x \in rows}
        /\ my'[c].reversals = UNION {Reversals(x) : x \in Journals}
        /\ my'[c].kind = "reverse" => pc'[c] = "load"
    BY <1>3, ArriveFacts
  <2>2. \A x \in my'[c].reversals : entry'[x].status \in {"POSTED", "DELETED"}
    BY <1>1, <2>1 DEF Reversals
  <2>3. OpenPeriods' \subseteq my'[c].wasOpen
    BY <2>1 DEF OpenPeriods
  <2>4. \A s \in my'[c].wasPosted : \E x \in rows' : x.source = s
    BY <1>1, <2>1
  <2> QED BY <2>1, <2>2, <2>3, <2>4 DEF Settled, Reversing, PostPCs
<1> QED BY <1>2, <1>3

(* A client that goes on: what a check let it pass.                        *)
Passes(c) ==
  /\ pc'[c] = "commit" => entry'[my'[c].journal].date \in my'[c].wasOpen
  /\ pc'[c] \in {"documentCheck", "documentCommit"} => my'[c].date \in my'[c].wasOpen
  /\ pc'[c] = "documentCommit" => my'[c].source \notin my'[c].wasPosted
  /\ my'[c].kind = "reverse" /\ pc'[c] \in Reversing =>
       \/ pc[c] \in Reversing
       \/ entry' = entry /\ ReversalsIn(entry, my[c].source) = {}

LEMMA PassesSettled ==
  ASSUME TypeInv, SettledInv, NEW c \in Client, Step(c), pc[c] # "idle",
         my'[c].wasOpen = my[c].wasOpen, my'[c].wasPosted = my[c].wasPosted,
         my'[c].reversals = my[c].reversals, my'[c].kind = my[c].kind, my'[c].source = my[c].source,
         Passes(c)
  PROVE  Settled(c)'
<1>1. Settled(c)
  BY DEF SettledInv
<1>2. /\ OpenPeriods' \subseteq my'[c].wasOpen
      /\ \A s \in my'[c].wasPosted : \E x \in rows' : x.source = s
      /\ \A x \in my'[c].reversals : entry'[x].status \in {"POSTED", "DELETED"}
      /\ my[c].kind = "reverse" /\ pc[c] \in Reversing =>
           my[c].reversals \cap ReversalsIn(entry', my[c].source) = {}
  BY <1>1, SettledGoesOn
<1>3. my'[c].kind = "reverse" /\ pc'[c] \in Reversing =>
        my'[c].reversals \cap ReversalsIn(entry', my'[c].source) = {}
  BY <1>2 DEF Passes
<1> QED BY <1>2, <1>3 DEF Settled, Passes, Reversals, ReversalsIn

LEMMA ReadSettled ==
  ASSUME TypeInv, SettledInv, NEW c \in Client, Step(c), ReadStep(c)
  PROVE  Settled(c)'
<1> SUFFICES ASSUME pc'[c] # "idle" PROVE Settled(c)'
  BY DEF Settled
<1>1. /\ UNCHANGED <<entry, rows, period>> /\ pc[c] # "idle"
      /\ Settled(c) /\ Held(pc[c], my[c]) /\ my[c] \in Clients
  BY ReadFacts, ClientFacts DEF journalVars, SettledInv
<1>2. Read(my[c], my'[c])
  <2>1. PICK l \in PCs, r \in Clients : Turn(c, l, r) /\ (Read(my[c], r) \/ l = "idle")
    BY ReadFacts
  <2> QED BY <2>1, Turned
<1>3. pc'[c] # "commit"
  BY DEF ReadStep, PostEntry, PostChecks, DocumentChecks, DocumentCheck, Load, LoadLines,
         DraftChecks, EditRead, DeleteRead, YearChecks, YearBalances, LoseLines, Goto, Return, TypeInv, TypeOK
<1>4. /\ pc'[c] = "documentCheck" => pc[c] = "documentChecks" /\ my' = my /\ period[my[c].date] # "CLOSED"
      /\ pc'[c] = "documentCommit" => pc[c] = "documentCheck" /\ my' = my /\ ~AlreadyPosted(my[c].source)
  BY DEF ReadStep, PostEntry, PostChecks, DocumentChecks, DocumentCheck, Load, LoadLines,
         DraftChecks, EditRead, DeleteRead, YearChecks, YearBalances, LoseLines, Goto, Return, TypeInv, TypeOK
<1>5. ASSUME pc'[c] \in {"documentCheck", "documentCommit"}
      PROVE  my'[c].date \in my'[c].wasOpen
  <2>1. CASE pc'[c] = "documentCheck"
    <3>1. my[c].date \in Period
      BY <1>1, <1>4, <2>1 DEF Held, HasJournal, PostPCs, EditPCs
    <3>2. my[c].date \in OpenPeriods
      BY <1>4, <2>1, <3>1 DEF OpenPeriods, TypeInv, TypeOK
    <3> QED BY <1>1, <1>4, <2>1, <3>2 DEF Settled
  <2>2. CASE pc'[c] = "documentCommit"
    BY <1>1, <1>4, <2>2 DEF Settled
  <2> QED BY <1>5, <2>1, <2>2
<1>6. pc'[c] = "documentCommit" => my'[c].source \notin my'[c].wasPosted
  BY <1>1, <1>4 DEF Settled, AlreadyPosted, RowsOf
<1>7. ASSUME my[c].kind = "reverse", pc'[c] \in Reversing, pc[c] \notin Reversing
      PROVE  Reversals(my[c].source) = {}
  <2>1. DraftChecks(c) \/ LoadLines(c) \/ YearBalances(c)
    BY <1>7 DEF ReadStep, PostEntry, PostChecks, DocumentChecks, DocumentCheck, Load,
         EditRead, DeleteRead, YearChecks, LoseLines, Goto, Return, TypeInv, TypeOK, Reversing, PostPCs
  <2>2. ~YearBalances(c)
    BY <1>1, <1>7 DEF YearBalances, Held, RouteOf, PostPCs, DraftPCs
  <2>3. ~LoadLines(c)
    BY <1>7 DEF LoadLines, Goto, TypeInv, TypeOK, Reversing, PostPCs
  <2> QED BY <1>7, <2>1, <2>2, <2>3 DEF DraftChecks
<1>8. Passes(c)
  BY <1>1, <1>2, <1>3, <1>5, <1>6, <1>7 DEF Passes, Read, Reversals, ReversalsIn
<1> QED BY <1>1, <1>2, <1>8, PassesSettled DEF Read

LEMMA WriteSettled ==
  ASSUME TypeInv, SettledInv, NEW c \in Client, Step(c), ~Arrive(c), ~ReadStep(c)
  PROVE  Settled(c)'
<1> SUFFICES ASSUME pc'[c] # "idle" PROVE Settled(c)'
  BY DEF Settled
<1>1. my[c] \in Clients /\ Held(pc[c], my[c])
  BY ClientFacts
<1>2. CASE Lock(c)
  <2> DEFINE j == my[c].journal
  <2>1. /\ pc[c] = "lock" /\ pc'[c] = "commit" /\ UNCHANGED <<entry, my>>
        /\ entry[j].status = "DRAFT" /\ period[entry[j].date] # "CLOSED"
    BY <1>2 DEF Lock, Postable, Goto, TypeInv, TypeOK
  <2>2. j \in Journals
    BY <1>1, <2>1 DEF Held, HasJournal, PostPCs
  <2>3. entry[j].date \in Period
    BY <2>1, <2>2 DEF TypeInv, DatesOK
  <2>4. entry[j].date \in my[c].wasOpen
    BY <2>1, <2>3 DEF OpenPeriods, SettledInv, Settled, TypeInv, TypeOK
  <2>5. Passes(c)
    BY <2>1, <2>4 DEF Passes, Reversing, PostPCs
  <2> QED BY <2>1, <2>5, PassesSettled
<1>3. CASE ~Lock(c)
  <2>1. \/ InsertEntry(c) \/ InsertLines(c) \/ EditClear(c) \/ EditEntry(c) \/ YearClosePeriod(c) \/ Commit(c)
    BY <1>3 DEF Step, DocumentCommit, EditLines, Mark, DeleteEntry, YearRecord, Fail, Return, Goto, TypeInv, TypeOK
  <2>2. \/ pc[c] \in Reversing
        \/ pc[c] \in {"editClear", "editClearAgain", "editEntry"}
        \/ pc[c] = "closePeriod"
    BY <2>1 DEF InsertEntry, InsertLines, EditClear, EditEntry, YearClosePeriod, Commit, Reversing, PostPCs
  <2>3. pc[c] # "idle" /\ (my[c].kind = "reverse" => pc[c] \in Reversing)
    BY <1>1, <2>2 DEF Held, RouteOf, Reversing, PostPCs, DraftPCs
  <2>4. pc'[c] \notin {"commit", "documentCheck", "documentCommit"}
    BY <2>1 DEF InsertEntry, InsertLines, EditClear, EditEntry, YearClosePeriod, Commit, AfterPost, Return, Goto,
                TypeInv, TypeOK
  <2>5. /\ my'[c].wasOpen = my[c].wasOpen /\ my'[c].wasPosted = my[c].wasPosted
        /\ my'[c].reversals = my[c].reversals /\ my'[c].kind = my[c].kind /\ my'[c].source = my[c].source
    <3>1. CASE InsertEntry(c)
      <4>1. PICK j : my' = [my EXCEPT ![c].journal = j]
        BY <3>1 DEF InsertEntry
      <4> QED BY <1>1, <4>1 DEF TypeInv, TypeOK, Clients
    <3>2. CASE Commit(c)
      <4>1. LET l == AfterPost(c)
                r == IF l = "idle" THEN Fresh ELSE my[c]
            IN  \E j \in Journals, p \in Period, a \in LineSets :
                  l \in {"mark", "closePeriod", "idle"} /\ r \in Clients /\ Posts(c, l, r, j, p, a)
        BY <3>2, CommitFacts
      <4>2. {"mark", "closePeriod", "idle"} \subseteq PCs
        BY DEF PCs, DraftPCs, YearPCs
      <4>3. my'[c] = my[c]
        BY <4>1, <4>2, PostsFacts
      <4> QED BY <4>3
    <3>3. CASE ~InsertEntry(c) /\ ~Commit(c)
      BY <2>1, <3>3 DEF InsertLines, EditClear, EditEntry, YearClosePeriod, Return, Goto, TypeInv, TypeOK
    <3> QED BY <3>1, <3>2, <3>3
  <2>6. Passes(c)
    BY <2>3, <2>4, <2>5 DEF Passes
  <2> QED BY <2>3, <2>5, <2>6, PassesSettled
<1> QED BY <1>2, <1>3

LEMMA SettledHolds == Spec => []SettledInv
<1>1. Init => SettledInv
  BY DEF Init, Start, SettledInv, Settled
<1>2. TypeInv /\ SettledInv /\ [Next]_vars => SettledInv'
  <2> SUFFICES ASSUME TypeInv, SettledInv, [Next]_vars PROVE SettledInv'
    OBVIOUS
  <2>1. CASE UNCHANGED vars
    BY <2>1 DEF SettledInv, Settled, OpenPeriods, Reversals, vars
  <2>2. ASSUME NEW c \in Client, Step(c), NEW d \in Client PROVE Settled(d)'
    <3>1. CASE d # c
      BY <2>2, <3>1, OthersSettled
    <3>2. CASE d = c
      BY <2>2, <3>2, ArriveSettled, ReadSettled, WriteSettled
    <3> QED BY <3>1, <3>2
  <2> QED BY <2>1, <2>2, Steps DEF SettledInv
<1> QED BY <1>1, <1>2, TypeHolds, PTL DEF Spec

(* A posting of c: the row it adds, and what it is of.                     *)
LEMMA CommitSettled ==
  ASSUME TypeInv, JournalInv, SettledInv, NEW c \in Client, Commit(c) \/ DocumentCommit(c)
  PROVE  /\ \A r \in rows' \ rows : r.date \in my[c].wasOpen /\ r.source \notin my[c].wasPosted
         /\ my[c].kind = "reverse" => my[c].reversals \cap Reversals(my[c].source) = {}
<1>1. ASSUME NEW s \in Journals \cup Docs, NEW p \in Period, NEW a \in LineSets, Record(s, p, a),
             p \in my[c].wasOpen, s \notin my[c].wasPosted
      PROVE  \A r \in rows' \ rows : r.date \in my[c].wasOpen /\ r.source \notin my[c].wasPosted
  BY <1>1, RecordFacts
<1>2. CASE Commit(c)
  <2> DEFINE j == my[c].journal
             p == entry[j].date
             a == lines[j]
  <2>1. /\ pc[c] = "commit" /\ j \in Journals /\ lock[j] = c /\ p \in Period /\ a \in LineSets
        /\ Record(j, p, a)
    BY <1>2, CommitFacts DEF Commit
  <2>2. p \in my[c].wasOpen
    BY <2>1 DEF SettledInv, Settled
  <2>3. j \notin my[c].wasPosted
    <3>1. RowsOf(j) = {}
      BY <2>1, ClientAssumption DEF JournalInv, Showing
    <3> QED BY <2>1, <3>1 DEF SettledInv, Settled, RowsOf
  <2>4. my[c].kind = "reverse" => my[c].reversals \cap Reversals(my[c].source) = {}
    BY <2>1 DEF SettledInv, Settled, Reversing, PostPCs
  <2> HIDE DEF p, a
  <2> QED BY <1>1, <2>1, <2>2, <2>3, <2>4
<1>3. CASE DocumentCommit(c)
  <2>1. /\ pc[c] = "documentCommit" /\ my[c].source \in Docs /\ my[c].date \in Period
        /\ my[c].amount \in LineSets /\ my[c].kind = "document"
        /\ Record(my[c].source, my[c].date, my[c].amount)
    BY <1>3, DocumentCommitFacts DEF DocumentCommit
  <2>2. my[c].date \in my[c].wasOpen /\ my[c].source \notin my[c].wasPosted
    BY <2>1 DEF SettledInv, Settled
  <2> QED BY <1>1, <2>1, <2>2
<1> QED BY <1>2, <1>3

(* Nothing is posted to a period that was closed when the request came in, *)
(* no source that was posted is posted again, and a journal that had a     *)
(* posted reversal and still has it gets no second one.                    *)
THEOREM WhatWasSettledIsKept == Spec => SettledIsKept
<1> DEFINE Kept == \A c \in Client : Commits(c) =>
                     /\ \A r \in rows' \ rows : r.date \in my[c].wasOpen /\ r.source \notin my[c].wasPosted
                     /\ my[c].kind = "reverse" =>
                          my[c].reversals \cap Reversals(my[c].source) = {}
<1>1. TypeInv /\ JournalInv /\ SettledInv /\ [Next]_vars => [Kept]_vars
  <2> SUFFICES ASSUME TypeInv, JournalInv, SettledInv, Next, NEW c \in Client, Commits(c)
               PROVE  /\ \A r \in rows' \ rows : r.date \in my[c].wasOpen /\ r.source \notin my[c].wasPosted
                      /\ my[c].kind = "reverse" =>
                           my[c].reversals \cap Reversals(my[c].source) = {}
    OBVIOUS
  <2>1. PICK d \in Client : Step(d)
    BY Steps
  <2>2. d = c
    BY <2>1, OthersStay DEF Commits
  <2>3. Commit(c) \/ DocumentCommit(c)
    <3>1. ~Arrive(c) /\ ~ReadStep(c)
      BY ArriveFacts, ReadFacts DEF Commits
    <3> QED BY <2>1, <2>2, <3>1 DEF Step, Commits, Lock, InsertEntry, InsertLines, EditLines, EditClear,
                 EditEntry, Mark, DeleteEntry, YearClosePeriod, YearRecord, Fail
  <2> QED BY <2>3, CommitSettled
<1>2. Spec => [][Kept]_vars
  <2> HIDE DEF Kept
  <2> QED BY <1>1, TypeHolds, JournalHolds, SettledHolds, PTL DEF Spec
<1> QED BY <1>2 DEF SettledIsKept
=============================================================================
