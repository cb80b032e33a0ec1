---------------------------- MODULE InvoicesProofs ----------------------------
(* TLAPS proofs about Invoices, for every set of users, any number of      *)
(* invoices and payments, whatever they type and every bound.              *)
EXTENDS Invoices, Functions, FiniteSetTheorems, WellFoundedInduction, TLAPS

-----------------------------------------------------------------------------
(* Sums of a function over a finite set: what SumFunctionOnSet, a fold of  *)
(* the community modules over an order nobody knows, adds up to.           *)

(* The smallest of some finite sets: induction on what a sum is over.      *)
LEMMA Smallest ==
  ASSUME NEW Q, Q # {}, \A s \in Q : IsFiniteSet(s)
  PROVE  \E s \in Q : \A t \in Q : Cardinality(s) <= Cardinality(t)
<1> DEFINE R == {ss \in Nat \X Nat : ss[1] < ss[2]}
           D == {Cardinality(s) : s \in Q}
<1>1. IsWellFoundedOn(R, Nat)
  BY NatLessThanWellFounded DEF OpToRel
<1> HIDE DEF R
<1>2. D \in SUBSET Nat /\ D # {}
  BY FS_CardinalityType
<1> HIDE DEF D
<1>3. PICK d \in D : \A e \in D : ~(<<e, d>> \in R)
  BY <1>1, <1>2, WFMin
<1>4. PICK s \in Q : d = Cardinality(s)
  BY DEF D
<1>5. ASSUME NEW t \in Q PROVE Cardinality(s) <= Cardinality(t)
  <2>1. Cardinality(t) \in D /\ Cardinality(t) \in Nat /\ d \in Nat
    BY <1>2 DEF D
  <2>2. ~(Cardinality(t) < d)
    BY <1>3, <2>1 DEF R
  <2> QED BY <1>4, <2>1, <2>2
<1> QED BY <1>5

Chosen(s) == CHOOSE x \in s : TRUE

LEMMA ChosenFacts ==
  ASSUME NEW s, IsFiniteSet(s), s # {}
  PROVE  /\ Chosen(s) \in s /\ IsFiniteSet(s \ {Chosen(s)})
         /\ Cardinality(s \ {Chosen(s)}) < Cardinality(s)
<1>1. Chosen(s) \in s
  BY DEF Chosen
<1>2. IsFiniteSet(s \ {Chosen(s)}) /\ Cardinality(s \ {Chosen(s)}) = Cardinality(s) - 1
  BY <1>1, FS_RemoveElement
<1>3. Cardinality(s) \in Nat
  BY FS_CardinalityType
<1> QED BY <1>1, <1>2, <1>3

(* The recursion that the fold unfolds to, of a function on the subsets.   *)
Unfolded(f, s, g) == IF s = {} THEN 0 ELSE f[Chosen(s)] + g[s \ {Chosen(s)}]
IsSum(f, S, g)    == g = [s \in SUBSET S |-> Unfolded(f, s, g)]

LEMMA SumIsIterated ==
  ASSUME NEW f, NEW S
  PROVE  SumFunctionOnSet(f, S) = (CHOOSE g : IsSum(f, S, g))[S]
BY DEF SumFunctionOnSet, FoldFunctionOnSet, MapThenFoldSet, IsSum, Unfolded, Chosen

(* Two of them agree where both are defined.                               *)
LEMMA SumsAgree ==
  ASSUME NEW f, NEW S, NEW T, NEW g, NEW h, IsSum(f, S, g), IsSum(f, T, h),
         NEW r, IsFiniteSet(r), r \subseteq S, r \subseteq T
  PROVE  g[r] = h[r]
<1> DEFINE Q == {s \in SUBSET r : g[s] # h[s]}
<1>1. SUFFICES ASSUME Q # {} PROVE FALSE
  OBVIOUS
<1>2. \A s \in Q : IsFiniteSet(s)
  BY FS_Subset
<1>3. PICK s \in Q : \A t \in Q : Cardinality(s) <= Cardinality(t)
  BY <1>1, <1>2, Smallest
<1>4. g[s] = Unfolded(f, s, g) /\ h[s] = Unfolded(f, s, h)
  BY DEF IsSum
<1>5. s # {}
  BY <1>3, <1>4 DEF Unfolded
<1> DEFINE t == s \ {Chosen(s)}
<1>6. Cardinality(t) < Cardinality(s) /\ IsFiniteSet(t)
  BY <1>2, <1>5, ChosenFacts
<1>7. Cardinality(t) \in Nat /\ Cardinality(s) \in Nat
  BY <1>2, <1>6, FS_CardinalityType
<1>8. t \notin Q
  BY <1>3, <1>6, <1>7
<1>9. g[t] = h[t]
  BY <1>8
<1> QED BY <1>3, <1>4, <1>5, <1>9 DEF Unfolded

LEMMA SumExists ==
  ASSUME NEW f, NEW S, IsFiniteSet(S)
  PROVE  \E g : IsSum(f, S, g)
<1> DEFINE It(T) == CHOOSE g : IsSum(f, T, g)
           Q == {T \in SUBSET S : ~\E g : IsSum(f, T, g)}
<1>1. SUFFICES ASSUME Q # {} PROVE FALSE
  OBVIOUS
<1>2. \A T \in Q : IsFiniteSet(T)
  BY FS_Subset
<1>3. PICK T \in Q : \A U \in Q : Cardinality(T) <= Cardinality(U)
  BY <1>1, <1>2, Smallest
<1>4. ASSUME NEW s \in SUBSET T, s # {}
      PROVE  LET t == s \ {Chosen(s)} IN
             t \subseteq T /\ IsFiniteSet(t) /\ IsSum(f, t, It(t))
  <2> DEFINE t == s \ {Chosen(s)}
  <2>1. IsFiniteSet(s) /\ Cardinality(s) <= Cardinality(T)
    BY <1>2, <1>4, FS_Subset
  <2>2. IsFiniteSet(t) /\ Cardinality(t) < Cardinality(s)
    BY <1>4, <2>1, ChosenFacts
  <2>3. {Cardinality(t), Cardinality(s), Cardinality(T)} \subseteq Nat
    BY <1>2, <2>1, <2>2, FS_CardinalityType
  <2>4. t \notin Q
    BY <1>3, <2>1, <2>2, <2>3
  <2>5. \E g : IsSum(f, t, g)
    BY <1>4, <2>4
  <2> QED BY <2>2, <2>5
<1> DEFINE value(s) == IF s = {} THEN 0
                       ELSE f[Chosen(s)] + It(s \ {Chosen(s)})[s \ {Chosen(s)}]
           h == [s \in SUBSET T |-> value(s)]
<1>5. ASSUME NEW s \in SUBSET T, s # {}
      PROVE  LET t == s \ {Chosen(s)} IN h[t] = It(t)[t]
  <2> DEFINE t == s \ {Chosen(s)}
  <2>1. t \subseteq T /\ IsFiniteSet(t) /\ IsSum(f, t, It(t))
    BY <1>4, <1>5
  <2>2. It(t)[t] = Unfolded(f, t, It(t)) /\ h[t] = value(t)
    BY <2>1 DEF IsSum
  <2>3. CASE t = {}
    BY <2>2, <2>3 DEF Unfolded
  <2>4. CASE t # {}
    <3> DEFINE r == t \ {Chosen(t)}
    <3>1. IsSum(f, r, It(r)) /\ IsFiniteSet(r)
      BY <1>4, <2>1, <2>4
    <3>2. It(t)[r] = It(r)[r]
      BY <2>1, <3>1, SumsAgree
    <3> QED BY <2>2, <2>4, <3>2 DEF Unfolded
  <2> QED BY <2>3, <2>4
<1>6. ASSUME NEW s \in SUBSET T PROVE h[s] = Unfolded(f, s, h)
  <2>1. h[s] = value(s)
    OBVIOUS
  <2> HIDE DEF h
  <2>2. CASE s = {}
    BY <2>1, <2>2 DEF Unfolded
  <2>3. CASE s # {}
    BY <1>5, <2>1, <2>3 DEF Unfolded
  <2> QED BY <2>2, <2>3
<1>7. IsSum(f, T, h)
  BY <1>6 DEF IsSum
<1> QED BY <1>3, <1>7

(* The sum over a set is one element and the sum over the others.          *)
LEMMA SumUnfolds ==
  ASSUME NEW f, NEW S, IsFiniteSet(S)
  PROVE  /\ S = {} => SumFunctionOnSet(f, S) = 0
         /\ S # {} => SumFunctionOnSet(f, S)
                        = f[Chosen(S)] + SumFunctionOnSet(f, S \ {Chosen(S)})
<1> DEFINE It(T) == CHOOSE g : IsSum(f, T, g)
<1>1. \A T : IsFiniteSet(T) => IsSum(f, T, It(T))
  BY SumExists
<1>2. \A T : SumFunctionOnSet(f, T) = It(T)[T]
  BY SumIsIterated
<1> HIDE DEF It
<1>3. It(S)[S] = Unfolded(f, S, It(S))
  BY <1>1 DEF IsSum
<1>4. CASE S = {}
  BY <1>2, <1>3, <1>4 DEF Unfolded
<1>5. CASE S # {}
  <2> DEFINE t == S \ {Chosen(S)}
  <2>1. IsFiniteSet(t)
    BY <1>5, ChosenFacts
  <2>2. It(S)[t] = It(t)[t]
    BY <1>1, <2>1, SumsAgree
  <2> QED BY <1>2, <1>3, <1>5, <2>2 DEF Unfolded
<1> QED BY <1>4, <1>5

LEMMA SumOfNone ==
  ASSUME NEW f
  PROVE  SumFunctionOnSet(f, {}) = 0
BY SumUnfolds, FS_EmptySet

LEMMA SumIsInteger ==
  ASSUME NEW f, NEW S, IsFiniteSet(S), \A x \in S : f[x] \in Int
  PROVE  SumFunctionOnSet(f, S) \in Int
<1> DEFINE Q == {s \in SUBSET S : SumFunctionOnSet(f, s) \notin Int}
<1>1. SUFFICES ASSUME Q # {} PROVE FALSE
  OBVIOUS
<1>2. \A s \in Q : IsFiniteSet(s)
  BY FS_Subset
<1>3. PICK s \in Q : \A t \in Q : Cardinality(s) <= Cardinality(t)
  BY <1>1, <1>2, Smallest
<1> DEFINE t == s \ {Chosen(s)}
<1>4. s # {}
  BY <1>3, SumOfNone
<1>5. Chosen(s) \in s /\ IsFiniteSet(t) /\ Cardinality(t) < Cardinality(s)
  BY <1>2, <1>4, ChosenFacts
<1>6. Cardinality(t) \in Nat /\ Cardinality(s) \in Nat
  BY <1>2, <1>5, FS_CardinalityType
<1>7. SumFunctionOnSet(f, t) \in Int
  BY <1>3, <1>5, <1>6
<1>8. SumFunctionOnSet(f, s) = f[Chosen(s)] + SumFunctionOnSet(f, t)
  BY <1>2, <1>4, SumUnfolds
<1> QED BY <1>3, <1>5, <1>7, <1>8

(* Any element will do for the one that is taken out.                      *)
LEMMA SumTakesOut ==
  ASSUME NEW f, NEW S, IsFiniteSet(S), \A x \in S : f[x] \in Int, NEW x \in S
  PROVE  SumFunctionOnSet(f, S) = f[x] + SumFunctionOnSet(f, S \ {x})
<1> DEFINE Wrong(s) == \E y \in s : SumFunctionOnSet(f, s) # f[y] + SumFunctionOnSet(f, s \ {y})
           Q == {s \in SUBSET S : Wrong(s)}
<1>1. SUFFICES ASSUME Q # {} PROVE FALSE
  OBVIOUS
<1>2. \A s \in Q : IsFiniteSet(s)
  BY FS_Subset
<1>3. PICK s \in Q : \A t \in Q : Cardinality(s) <= Cardinality(t)
  BY <1>1, <1>2, Smallest
<1>4. PICK y \in s : SumFunctionOnSet(f, s) # f[y] + SumFunctionOnSet(f, s \ {y})
  BY <1>3
<1> DEFINE c == Chosen(s)
           t == s \ {c}
           u == s \ {y}
           r == t \ {y}
<1>5. c \in s /\ IsFiniteSet(s) /\ IsFiniteSet(t) /\ Cardinality(t) < Cardinality(s)
  BY <1>2, <1>4, ChosenFacts
<1>6. IsFiniteSet(u) /\ Cardinality(u) = Cardinality(s) - 1
  BY <1>4, <1>5, FS_RemoveElement
<1>7. {Cardinality(s), Cardinality(t), Cardinality(u)} \subseteq Nat
  BY <1>5, <1>6, FS_CardinalityType
<1>8. SumFunctionOnSet(f, s) = f[c] + SumFunctionOnSet(f, t)
  BY <1>4, <1>5, SumUnfolds
<1>9. c # y
  BY <1>4, <1>8
<1>10. t \in SUBSET S /\ u \in SUBSET S /\ t \notin Q /\ u \notin Q
  BY <1>3, <1>5, <1>6, <1>7
<1>11. y \in t /\ c \in u /\ r = u \ {c}
  BY <1>4, <1>5, <1>9
<1>12. SumFunctionOnSet(f, t) = f[y] + SumFunctionOnSet(f, r)
  BY <1>10, <1>11
<1>13. SumFunctionOnSet(f, u) = f[c] + SumFunctionOnSet(f, r)
  BY <1>10, <1>11
<1>14. IsFiniteSet(r)
  BY <1>5, FS_Subset
<1>15. SumFunctionOnSet(f, r) \in Int
  BY <1>14, SumIsInteger
<1>16. f[c] \in Int /\ f[y] \in Int
  BY <1>4, <1>5
<1> QED BY <1>4, <1>8, <1>12, <1>13, <1>15, <1>16

(* A sum is of what the function has on the set, and of no more.           *)
LEMMA SumsEqual ==
  ASSUME NEW f, NEW g, NEW S, IsFiniteSet(S),
         \A x \in S : f[x] = g[x]
  PROVE  SumFunctionOnSet(f, S) = SumFunctionOnSet(g, S)
<1> DEFINE Q == {s \in SUBSET S : SumFunctionOnSet(f, s) # SumFunctionOnSet(g, s)}
<1>1. SUFFICES ASSUME Q # {} PROVE FALSE
  OBVIOUS
<1>2. \A s \in Q : IsFiniteSet(s)
  BY FS_Subset
<1>3. PICK s \in Q : \A t \in Q : Cardinality(s) <= Cardinality(t)
  BY <1>1, <1>2, Smallest
<1> DEFINE t == s \ {Chosen(s)}
<1>4. s # {}
  BY <1>3, SumOfNone
<1>5. Chosen(s) \in s /\ IsFiniteSet(t) /\ Cardinality(t) < Cardinality(s)
  BY <1>2, <1>4, ChosenFacts
<1>6. Cardinality(t) \in Nat /\ Cardinality(s) \in Nat
  BY <1>2, <1>5, FS_CardinalityType
<1>7. SumFunctionOnSet(f, t) = SumFunctionOnSet(g, t)
  BY <1>3, <1>5, <1>6
<1>8. /\ SumFunctionOnSet(f, s) = f[Chosen(s)] + SumFunctionOnSet(f, t)
      /\ SumFunctionOnSet(g, s) = g[Chosen(s)] + SumFunctionOnSet(g, t)
  BY <1>2, <1>4, SumUnfolds
<1> QED BY <1>3, <1>5, <1>7, <1>8

-----------------------------------------------------------------------------
(* The steps of one user, as Next takes them.                              *)
Acts(u) == Request(u) \/ Handle(u) \/ Stop(u)

-----------------------------------------------------------------------------
(* Numbers: the constants, sums and the largest of some.                   *)

LEMMA ConstantTypes ==
  /\ IsFiniteSet(Ids) /\ IsFiniteSet(Payments)
  /\ Ids \subseteq Nat \ {0} /\ 1 \in Ids
  /\ Payments \subseteq Nat /\ 0 \notin Payments /\ Ids \cap Payments = {}
  /\ Totals \subseteq Nat /\ Amounts \subseteq Nat \ {0} /\ Numbers \subseteq Nat
<1>1. Cardinality(Ids) \in Nat
  BY IdsAssumption, FS_CardinalityType
<1> QED BY <1>1, IdsAssumption, AmountsAssumption

LEMMA SumIsNatural ==
  ASSUME NEW f, NEW S, IsFiniteSet(S), \A x \in S : f[x] \in Nat
  PROVE  SumFunctionOnSet(f, S) \in Nat
<1> DEFINE Q == {s \in SUBSET S : SumFunctionOnSet(f, s) \notin Nat}
<1>1. SUFFICES ASSUME Q # {} PROVE FALSE
  OBVIOUS
<1>2. \A s \in Q : IsFiniteSet(s)
  BY FS_Subset
<1>3. PICK s \in Q : \A t \in Q : Cardinality(s) <= Cardinality(t)
  BY <1>1, <1>2, Smallest
<1> DEFINE t == s \ {Chosen(s)}
<1>4. s # {}
  BY <1>3, SumOfNone
<1>5. Chosen(s) \in s /\ IsFiniteSet(t) /\ Cardinality(t) < Cardinality(s)
  BY <1>2, <1>4, ChosenFacts
<1>6. Cardinality(t) \in Nat /\ Cardinality(s) \in Nat
  BY <1>2, <1>5, FS_CardinalityType
<1>7. SumFunctionOnSet(f, t) \in Nat
  BY <1>3, <1>5, <1>6
<1>8. SumFunctionOnSet(f, s) = f[Chosen(s)] + SumFunctionOnSet(f, t)
  BY <1>2, <1>4, SumUnfolds
<1> QED BY <1>3, <1>5, <1>7, <1>8

(* What a payment received pays altogether is something.                   *)
LEMMA SumIsPositive ==
  ASSUME NEW f, NEW S, IsFiniteSet(S), \A x \in S : f[x] \in Nat \ {0}, S # {}
  PROVE  SumFunctionOnSet(f, S) \in Nat \ {0}
<1>1. PICK x \in S : TRUE
  OBVIOUS
<1>2. SumFunctionOnSet(f, S) = f[x] + SumFunctionOnSet(f, S \ {x})
  BY SumTakesOut
<1>3. IsFiniteSet(S \ {x})
  BY FS_Subset
<1>4. SumFunctionOnSet(f, S \ {x}) \in Nat
  BY <1>3, SumIsNatural
<1> QED BY <1>1, <1>2, <1>4

LEMMA MaxExists ==
  ASSUME NEW S, IsFiniteSet(S), S \subseteq Nat, S # {}
  PROVE  Max(S) \in S /\ \A y \in S : y <= Max(S)
<1> DEFINE Largest(s, x) == x \in s /\ \A y \in s : x >= y
           Q == {s \in SUBSET S : s # {} /\ ~\E x \in s : Largest(s, x)}
<1>1. Q = {}
  <2>1. SUFFICES ASSUME Q # {} PROVE FALSE
    OBVIOUS
  <2>2. \A s \in Q : IsFiniteSet(s)
    BY FS_Subset
  <2>3. PICK s \in Q : \A t \in Q : Cardinality(s) <= Cardinality(t)
    BY <2>1, <2>2, Smallest
  <2> DEFINE c == Chosen(s)
             t == s \ {c}
  <2>4. c \in s /\ IsFiniteSet(t) /\ Cardinality(t) < Cardinality(s)
    BY <2>2, <2>3, ChosenFacts
  <2>5. Cardinality(t) \in Nat /\ Cardinality(s) \in Nat
    BY <2>2, <2>4, FS_CardinalityType
  <2>6. t \notin Q
    BY <2>3, <2>4, <2>5
  <2>7. CASE t = {}
    <3>1. Largest(s, c)
      BY <2>3, <2>4, <2>7
    <3> QED BY <2>3, <2>4, <3>1
  <2>8. CASE t # {}
    <3>1. PICK x \in t : Largest(t, x)
      BY <2>3, <2>6, <2>8
    <3>2. x \in Nat /\ c \in Nat /\ x \in s /\ \A y \in s : y \in Nat
      BY <2>3, <2>4
    <3>3. Largest(s, IF x >= c THEN x ELSE c)
      BY <2>4, <3>1, <3>2
    <3> QED BY <2>3, <2>4, <3>2, <3>3
  <2> QED BY <2>7, <2>8
<1>2. PICK x \in S : Largest(S, x)
  BY <1>1
<1>3. Max(S) \in S /\ \A y \in S : Max(S) >= y
  BY <1>2 DEF Max
<1> QED BY <1>3

-----------------------------------------------------------------------------
(* Types.                                                                  *)
RowType == [no : Nat, status : Statuses, deleted : BOOLEAN,
            total : Nat, paid : Nat, balance : Int]
HandlerType == [kind : Kinds, on : SUBSET Ids, sent : BOOLEAN, total : Nat,
       status : Statuses, was : Statuses, paid : Nat, rewrite : BOOLEAN, payment : Payments \cup {0},
       amount : Nat, pays : [Ids -> Nat], sum : [Ids -> Nat], no : Nat]

TablesOK ==
  /\ invoice \in [Ids -> RowType] /\ lines \in [Ids -> Nat] /\ next \in Nat
  /\ payment \in [Payments -> Nat] /\ applied \in [Payments -> [Ids -> Nat]]
  /\ ledger \in [Ids \cup Payments -> Nat]

HeldOK == pc \in [Users -> PCs] /\ my \in [Users -> HandlerType]

BoundsOK ==
  /\ requests \in 0 .. MaxRequests /\ stops \in 0 .. MaxStops
  /\ raced \subseteq Ids /\ cut \subseteq Ids /\ stated \subseteq Ids /\ shuffled \in BOOLEAN

LEMMA TypeParts == TypeOK <=> TablesOK /\ HeldOK /\ BoundsOK
BY DEF TypeOK, TablesOK, HeldOK, BoundsOK, RowType, HandlerType

LEMMA TypePartsNext == TypeOK' <=> (TablesOK /\ HeldOK /\ BoundsOK)'
BY DEF TypeOK, TablesOK, HeldOK, BoundsOK, RowType, HandlerType

LEMMA FreshType ==
  /\ Fresh \in HandlerType /\ Fresh.on = {} /\ Fresh.kind = "create" /\ ~Fresh.rewrite
  /\ Fresh.pays = [i \in Ids |-> 0] /\ Fresh.status = "NONE"
BY DEF Fresh, HandlerType, Kinds, Statuses, Texts

LEMMA NoInvoiceType ==
  /\ NoInvoice \in RowType /\ NoInvoice.status = "NONE" /\ ~NoInvoice.deleted
  /\ NoInvoice.total = 0 /\ NoInvoice.paid = 0 /\ NoInvoice.balance = 0
BY DEF NoInvoice, RowType, Statuses, Texts

LEMMA InitType == Init => TypeOK
<1> SUFFICES ASSUME Init PROVE TypeOK
  OBVIOUS
<1> USE ConstantTypes
<1>1. invoice \in [Ids -> RowType] /\ lines \in [Ids -> Nat] /\ next \in Nat
  <2>1. CASE invoice = [i \in Ids |-> NoInvoice] /\ lines = [i \in Ids |-> 0] /\ next \in {0, 1}
    BY <2>1, NoInvoiceType
  <2>2. ASSUME NEW a \in Totals,
               invoice = [[i \in Ids |-> NoInvoice] EXCEPT
                 ![1] = [no |-> 1, status |-> "DRAFT", deleted |-> FALSE,
                         total |-> a, paid |-> 0, balance |-> a]],
               lines = [[i \in Ids |-> 0] EXCEPT ![1] = a], next = 2
        PROVE  invoice \in [Ids -> RowType] /\ lines \in [Ids -> Nat] /\ next \in Nat
    <3>1. [no |-> 1, status |-> "DRAFT", deleted |-> FALSE,
           total |-> a, paid |-> 0, balance |-> a] \in RowType
      BY DEF RowType, Statuses, Texts
    <3> QED BY <2>2, <3>1, NoInvoiceType
  <2> QED BY <2>1, <2>2 DEF Init
<1>2. TablesOK
  <2>1. /\ payment = [p \in Payments |-> 0] /\ applied = [p \in Payments |-> [i \in Ids |-> 0]]
        /\ ledger = [d \in Ids \cup Payments |-> 0]
    BY DEF Init
  <2> QED BY <1>1, <2>1 DEF TablesOK
<1>3. HeldOK
  BY FreshType DEF Init, HeldOK, PCs
<1>4. BoundsOK
  <2>1. requests = 0 /\ stops = 0 /\ raced = {} /\ cut = {} /\ stated = {} /\ shuffled = FALSE
    BY DEF Init
  <2>2. MaxRequests \in Nat /\ MaxStops \in Nat
    BY BoundAssumption
  <2>3. requests \in 0 .. MaxRequests /\ stops \in 0 .. MaxStops
    BY <2>1, <2>2
  <2>4. /\ raced \subseteq Ids /\ cut \subseteq Ids /\ stated \subseteq Ids
        /\ shuffled \in BOOLEAN
    BY <2>1
  <2> QED BY <2>3, <2>4 DEF BoundsOK
<1> QED BY <1>2, <1>3, <1>4, TypeParts

(* What is written and read of a row, by its type.                         *)
LEMMA AllocatedType ==
  ASSUME TablesOK, NEW i \in Ids
  PROVE  Allocated(i) \in Nat /\ Committed(i) = Allocated(i)
<1> DEFINE f == [p \in Payments |-> applied[p][i]]
<1>1. \A p \in Payments : f[p] \in Nat
  BY DEF TablesOK
<1>2. DOMAIN f = Payments
  OBVIOUS
<1> HIDE DEF f
<1>3. SumFunctionOnSet(f, Payments) \in Nat
  BY <1>1, ConstantTypes, SumIsNatural
<1> QED BY <1>2, <1>3 DEF Allocated, Committed, SumFunction, f

LEMMA IssuedType ==
  ASSUME TablesOK
  PROVE  /\ MinNext(Issued) \in Nat \ {0}
         /\ \A i \in Ids : Visible(i) => invoice[i].no < MinNext(Issued)
<1> DEFINE S == {j \in Ids : Visible(j)}
           f == [i \in S |-> invoice[i].no]
<1>1. IsFiniteSet(S)
  BY ConstantTypes, FS_Subset
<1>2. Issued \subseteq Nat
  BY DEF Issued, TablesOK, RowType
<1>3. IsFiniteSet(Issued)
  <2>1. f \in Surjection(S, Issued)
    BY DEF Surjection, Issued
  <2> HIDE DEF S, f
  <2> QED BY <1>1, <2>1, FS_Surjection
<1>4. CASE Issued = {}
  <2>1. \A i \in Ids : ~Visible(i)
    BY <1>4 DEF Issued
  <2> QED BY <1>4, <2>1 DEF MinNext
<1>5. CASE Issued # {}
  <2>1. Max(Issued) \in Issued /\ \A y \in Issued : y <= Max(Issued)
    BY <1>2, <1>3, <1>5, MaxExists
  <2>2. MinNext(Issued) = Max(Issued) + 1
    BY <1>5 DEF MinNext
  <2>3. Max(Issued) \in Nat
    BY <1>2, <2>1
  <2>4. ASSUME NEW i \in Ids, Visible(i) PROVE invoice[i].no < MinNext(Issued)
    <3>1. invoice[i].no \in Issued /\ invoice[i].no \in Nat
      BY <1>2, <2>4 DEF Issued
    <3> QED BY <2>1, <2>2, <2>3, <3>1
  <2> QED BY <2>2, <2>3, <2>4
<1> QED BY <1>4, <1>5

-----------------------------------------------------------------------------
(* Every step of a user moves that user, and nobody else.                  *)
Turned(u, l, r) == pc' = [pc EXCEPT ![u] = l] /\ my' = [my EXCEPT ![u] = r]

LEMMA GotoBecome ==
  ASSUME NEW u, NEW l, NEW r
  PROVE  Goto(u, l) /\ Become(u, r) <=> Turned(u, l, r)
BY DEF Goto, Become, Turned

LEMMA GotoOnly ==
  ASSUME HeldOK, NEW u \in Users, NEW l, Goto(u, l), UNCHANGED my
  PROVE  Turned(u, l, my[u])
BY DEF HeldOK, Goto, Turned

LEMMA Returned ==
  ASSUME NEW u, Return(u)
  PROVE  Turned(u, "idle", Fresh)
BY DEF Return, Goto, Become, Turned

(* What the handlers of the requests hold at first.                        *)
Edits(i, a, sent, s) ==
  [Fresh EXCEPT !.on = {i}, !.sent = sent, !.status = s,
                !.total = IF sent THEN a ELSE 0, !.was = invoice[i].status]
PaysOne(i, a)  == [Fresh EXCEPT !.on = {i}, !.amount = a,
                                !.pays[i] = Least(a, invoice[i].balance)]
PaysSome(S, pays) == [Fresh EXCEPT !.on = S, !.pays = pays,
                                   !.amount = SumFunctionOnSet(pays, S)]

LEMMA KindType ==
  ASSUME NEW r \in HandlerType, NEW kind \in Kinds
  PROVE  /\ [r EXCEPT !.kind = kind] \in HandlerType
         /\ [r EXCEPT !.kind = kind].kind = kind
         /\ [r EXCEPT !.kind = kind].on = r.on
         /\ [r EXCEPT !.kind = kind].total = r.total
         /\ [r EXCEPT !.kind = kind].status = r.status
         /\ [r EXCEPT !.kind = kind].was = r.was
         /\ [r EXCEPT !.kind = kind].rewrite = r.rewrite
         /\ [r EXCEPT !.kind = kind].amount = r.amount
         /\ [r EXCEPT !.kind = kind].pays = r.pays
BY DEF HandlerType

LEMMA EditsType ==
  ASSUME TablesOK, NEW i \in Ids, NEW a \in Nat, NEW sent \in BOOLEAN, NEW s \in Statuses
  PROVE  /\ Edits(i, a, sent, s) \in HandlerType /\ ~Edits(i, a, sent, s).rewrite
         /\ Edits(i, a, sent, s).on = {i} /\ Edits(i, a, sent, s).status = s
         /\ Edits(i, a, sent, s).was = invoice[i].status
<1> DEFINE t == IF sent THEN a ELSE 0
           was == invoice[i].status
           r == [Fresh EXCEPT !.on = {i}, !.sent = sent, !.status = s, !.total = t, !.was = was]
<1>1. was \in Statuses /\ t \in Nat
  BY DEF TablesOK, RowType
<1>2. Edits(i, a, sent, s) = r
  BY DEF Edits
<1> HIDE DEF t, was
<1>3. r \in HandlerType /\ ~r.rewrite /\ r.on = {i} /\ r.status = s /\ r.was = was
  BY <1>1, FreshType DEF HandlerType
<1> HIDE DEF r
<1> QED BY <1>2, <1>3 DEF was

LEMMA PaysOneType ==
  ASSUME TablesOK, NEW i \in Ids, NEW a \in Nat, invoice[i].balance > 0
  PROVE  /\ PaysOne(i, a) \in HandlerType /\ PaysOne(i, a).on = {i}
         /\ PaysOne(i, a).amount = a /\ ~PaysOne(i, a).rewrite
         /\ PaysOne(i, a).pays = [j \in Ids |-> IF j = i THEN Least(a, invoice[i].balance) ELSE 0]
<1> DEFINE m == Least(a, invoice[i].balance)
           q == [j \in Ids |-> IF j = i THEN m ELSE 0]
<1>1. m \in Nat
  BY DEF TablesOK, RowType, Least
<1> HIDE DEF m
<1>2. q \in [Ids -> Nat]
  BY <1>1
<1>3. [Fresh.pays EXCEPT ![i] = m] = q
  BY FreshType
<1> HIDE DEF q
<1> DEFINE r == [Fresh EXCEPT !.on = {i}, !.amount = a]
<1>4. r \in HandlerType /\ r.on = {i} /\ r.amount = a /\ r.pays = Fresh.pays /\ ~r.rewrite
  BY FreshType DEF HandlerType
<1>5. PaysOne(i, a) = [r EXCEPT !.pays[i] = m]
  BY DEF PaysOne, m
<1> HIDE DEF r
<1>6. PaysOne(i, a) = [r EXCEPT !.pays = q]
  BY <1>3, <1>4, <1>5 DEF HandlerType
<1>7. [r EXCEPT !.pays = q] \in HandlerType /\ [r EXCEPT !.pays = q].pays = q
      /\ [r EXCEPT !.pays = q].on = {i} /\ [r EXCEPT !.pays = q].amount = a
      /\ ~[r EXCEPT !.pays = q].rewrite
  BY <1>2, <1>4 DEF HandlerType
<1> QED BY <1>6, <1>7 DEF q, m

LEMMA PaysSomeType ==
  ASSUME NEW pays \in [Ids -> Nat],
         NEW S, S = {i \in Ids : pays[i] > 0}, S # {}
  PROVE  /\ PaysSome(S, pays) \in HandlerType /\ PaysSome(S, pays).on = S
         /\ PaysSome(S, pays).amount > 0 /\ PaysSome(S, pays).pays = pays
         /\ ~PaysSome(S, pays).rewrite
<1> DEFINE n == SumFunctionOnSet(pays, S)
<1>1. n \in Nat \ {0}
  <2>1. IsFiniteSet(S)
    BY ConstantTypes, FS_Subset
  <2> QED BY <2>1, SumIsPositive
<1>2. PaysSome(S, pays) = [Fresh EXCEPT !.on = S, !.pays = pays, !.amount = n]
  BY DEF PaysSome
<1> HIDE DEF n
<1> DEFINE r == [Fresh EXCEPT !.on = S, !.pays = pays, !.amount = n]
<1>3. r \in HandlerType /\ r.on = S /\ r.pays = pays /\ r.amount = n /\ ~r.rewrite
  BY <1>1, FreshType DEF HandlerType
<1>4. PaysSome(S, pays) = r
  BY <1>2
<1> HIDE DEF r
<1> QED BY <1>1, <1>3, <1>4

(* The requests: what the handler that begins holds.                       *)
Begins(u, kind, r, l) ==
  /\ pc[u] = "idle" /\ requests < MaxRequests
  /\ Arrive(u, kind, r, l) /\ r \in HandlerType /\ l \in PCs
  /\ Turned(u, l, [r EXCEPT !.kind = kind]) /\ [r EXCEPT !.kind = kind] \in HandlerType

LEMMA Arrives ==
  ASSUME NEW u \in Users, NEW kind \in Kinds, NEW r \in HandlerType, NEW l \in PCs,
         pc[u] = "idle", requests < MaxRequests, Arrive(u, kind, r, l)
  PROVE  Begins(u, kind, r, l)
BY GotoBecome, KindType DEF Arrive, Begins

NumberRequest(u, kind) ==
  \E r \in HandlerType :
    Begins(u, kind, r, Ensure(kind)) /\ r.on = {} /\ ~r.rewrite

(* The statuses of an invoice whose lines are edited, and that is deleted. *)
Editable == {"DRAFT", "OTHER"}

DeleteRequest(u, i) ==
  /\ Visible(i) /\ invoice[i].status \in Editable
  /\ \E r \in HandlerType : Begins(u, "delete", r, "deleteWrite") /\ r.on = {i} /\ ~r.rewrite

PayRequest(u, kind) ==
  \E r \in HandlerType :
    /\ Begins(u, kind, r, "payment") /\ ~r.rewrite
    /\ r.amount > 0 /\ \A i \in r.on : Exists(i)
    /\ \A i \in Ids : i \in r.on <=> r.pays[i] > 0

EditRequest(u, i) ==
  /\ Visible(i)
  /\ \E r \in HandlerType :
       /\ Begins(u, "update", r, "existing") /\ r.on = {i} /\ ~r.rewrite
       /\ r.status \in Texts \cup {"NONE"} /\ r.was = invoice[i].status

LEMMA RequestBegins ==
  ASSUME TablesOK, NEW u \in Users, Request(u)
  PROVE  \/ \E kind \in {"create", "save", "reset"} : NumberRequest(u, kind)
         \/ \E i \in Ids : DeleteRequest(u, i)
         \/ \E kind \in {"pay", "receive"} : PayRequest(u, kind)
         \/ \E i \in Ids : EditRequest(u, i)
<1>0. pc[u] = "idle" /\ requests < MaxRequests
  BY DEF Request
<1>1. \A kind \in {"create", "save", "reset"} : kind \in Kinds /\ Ensure(kind) \in PCs
  BY DEF Ensure, AfterEnsure, PCs, Kinds
<1>2. CASE Reset(u)
  <2>1. Begins(u, "reset", Fresh, Ensure("reset"))
    BY <1>0, <1>1, <1>2, Arrives, FreshType DEF Reset
  <2>2. NumberRequest(u, "reset")
    BY <2>1, FreshType DEF NumberRequest
  <2> QED BY <2>2
<1>3. ASSUME NEW n \in Numbers \cup {0}, Save(u, n) PROVE NumberRequest(u, "save")
  <2> DEFINE r == [Fresh EXCEPT !.no = IF n = 0 THEN next ELSE n]
  <2>1. (IF n = 0 THEN next ELSE n) \in Nat
    BY ConstantTypes DEF TablesOK
  <2>2. r \in HandlerType /\ r.on = {} /\ ~r.rewrite
    BY <2>1, FreshType DEF HandlerType
  <2>3. Arrive(u, "save", r, Ensure("save"))
    BY <1>3 DEF Save
  <2> HIDE DEF r
  <2>4. Begins(u, "save", r, Ensure("save"))
    BY <1>0, <1>1, <2>2, <2>3, Arrives
  <2> QED BY <2>2, <2>4 DEF NumberRequest
<1>4. ASSUME NEW a \in Totals, Create(u, a) PROVE NumberRequest(u, "create")
  <2> DEFINE r == [Fresh EXCEPT !.total = a]
  <2>1. r \in HandlerType /\ r.on = {} /\ ~r.rewrite
    BY ConstantTypes, FreshType DEF HandlerType
  <2>2. Arrive(u, "create", r, Ensure("create"))
    BY <1>4 DEF Create
  <2> HIDE DEF r
  <2>3. Begins(u, "create", r, Ensure("create"))
    BY <1>0, <1>1, <2>1, <2>2, Arrives
  <2> QED BY <2>1, <2>3 DEF NumberRequest
<1>5. ASSUME NEW i \in Ids, Delete(u, i) PROVE DeleteRequest(u, i)
  <2> DEFINE r == [Fresh EXCEPT !.on = {i}]
  <2>1. r \in HandlerType /\ r.on = {i} /\ ~r.rewrite
    BY FreshType DEF HandlerType
  <2>2. Visible(i) /\ invoice[i].status \in Editable
    BY <1>5 DEF Delete, Visible, Exists, IsPosted, TablesOK, RowType, Statuses, Texts, Editable
  <2>3. Arrive(u, "delete", r, "deleteWrite") /\ "delete" \in Kinds /\ "deleteWrite" \in PCs
    BY <1>5 DEF Delete, Kinds, PCs
  <2> HIDE DEF r
  <2>4. Begins(u, "delete", r, "deleteWrite")
    BY <1>0, <2>1, <2>3, Arrives
  <2> QED BY <2>1, <2>2, <2>4 DEF DeleteRequest
<1>6. ASSUME NEW i \in Ids, NEW a \in Amounts, Pay(u, i, a) PROVE PayRequest(u, "pay")
  <2>1. /\ Exists(i) /\ invoice[i].balance > 0 /\ Arrive(u, "pay", PaysOne(i, a), "payment")
        /\ "pay" \in Kinds /\ "payment" \in PCs /\ a \in Nat /\ a > 0
    BY <1>6, ConstantTypes DEF Pay, PaysOne, Kinds, PCs
  <2>2. Least(a, invoice[i].balance) > 0
    BY <2>1 DEF Least, TablesOK, RowType
  <2>3. /\ PaysOne(i, a) \in HandlerType /\ PaysOne(i, a).on = {i} /\ PaysOne(i, a).amount = a
        /\ ~PaysOne(i, a).rewrite
        /\ PaysOne(i, a).pays = [j \in Ids |-> IF j = i THEN Least(a, invoice[i].balance) ELSE 0]
    BY <2>1, PaysOneType
  <2>4. \A j \in Ids : j \in PaysOne(i, a).on <=> PaysOne(i, a).pays[j] > 0
    BY <2>2, <2>3
  <2>5. Begins(u, "pay", PaysOne(i, a), "payment")
    BY <1>0, <2>1, <2>3, Arrives
  <2> QED BY <2>1, <2>3, <2>4, <2>5 DEF PayRequest
<1>7. ASSUME NEW pays \in [Ids -> Amounts \cup {0}], Receive(u, pays)
      PROVE  PayRequest(u, "receive")
  <2> DEFINE S == {i \in Ids : pays[i] > 0}
             r == PaysSome(S, pays)
  <2>1. /\ S # {} /\ (\A i \in S : Exists(i)) /\ Arrive(u, "receive", r, "payment")
        /\ "receive" \in Kinds /\ "payment" \in PCs
    BY <1>7 DEF Receive, PaysSome, Visible, Kinds, PCs
  <2>0. Amounts \cup {0} \subseteq Nat
    BY ConstantTypes
  <2>2. pays \in [Ids -> Nat]
    BY <2>0
  <2>3. r \in HandlerType /\ r.on = S /\ r.amount > 0 /\ r.pays = pays /\ ~r.rewrite
    BY <2>1, <2>2, PaysSomeType
  <2>4. \A i \in Ids : i \in r.on <=> r.pays[i] > 0
    BY <2>3
  <2>5. \A i \in r.on : Exists(i)
    BY <2>1, <2>3
  <2> HIDE DEF r
  <2>6. Begins(u, "receive", r, "payment")
    BY <1>0, <2>1, <2>3, Arrives
  <2> QED BY <2>3, <2>4, <2>5, <2>6 DEF PayRequest
<1>8. ASSUME NEW i \in Ids, NEW a \in Totals, NEW s \in Texts \cup {"NONE"},
             NEW sent \in BOOLEAN, NEW d \in BOOLEAN, Update(u, i, a, sent, s, d)
      PROVE  EditRequest(u, i)
  <2>1. /\ Visible(i) /\ Arrive(u, "update", Edits(i, a, sent, s), "existing")
        /\ "update" \in Kinds /\ "existing" \in PCs /\ a \in Nat /\ s \in Statuses
    BY <1>8, ConstantTypes DEF Update, Edits, Kinds, PCs, Statuses, Texts
  <2>2. /\ Edits(i, a, sent, s) \in HandlerType /\ ~Edits(i, a, sent, s).rewrite
        /\ Edits(i, a, sent, s).on = {i} /\ Edits(i, a, sent, s).status = s
        /\ Edits(i, a, sent, s).was = invoice[i].status
    BY <2>1, EditsType
  <2>3. Begins(u, "update", Edits(i, a, sent, s), "existing")
    BY <1>0, <2>1, <2>2, Arrives
  <2> QED BY <2>1, <2>2, <2>3 DEF EditRequest
<1> QED BY <1>2, <1>3, <1>4, <1>5, <1>6, <1>7, <1>8, Zenon DEF Request

(* What a handler turns to, field by field.                                *)
Asks(q, r) ==
  /\ q.kind = r.kind /\ q.status = r.status /\ q.was = r.was
  /\ q.amount = r.amount /\ q.pays = r.pays

LEMMA NumberField ==
  ASSUME NEW r \in HandlerType, NEW n \in Nat
  PROVE  LET q == [r EXCEPT !.no = n] IN
         /\ q \in HandlerType /\ q.no = n /\ Asks(q, r) /\ q.payment = r.payment
         /\ q.on = r.on /\ q.total = r.total /\ q.rewrite = r.rewrite
BY DEF HandlerType, Asks

LEMMA OnField ==
  ASSUME NEW r \in HandlerType, NEW S \in SUBSET Ids
  PROVE  LET q == [r EXCEPT !.on = S] IN
         /\ q \in HandlerType /\ q.on = S /\ Asks(q, r)
         /\ q.total = r.total /\ q.rewrite = r.rewrite
BY DEF HandlerType, Asks

LEMMA ReadFields ==
  ASSUME NEW r \in HandlerType, NEW n \in Nat, NEW b \in BOOLEAN
  PROVE  LET q == [r EXCEPT !.paid = n, !.rewrite = b] IN
         /\ q \in HandlerType /\ q.paid = n /\ q.rewrite = b /\ Asks(q, r)
         /\ q.on = r.on /\ q.total = r.total
BY DEF HandlerType, Asks

LEMMA TotalField ==
  ASSUME NEW r \in HandlerType, NEW n \in Nat
  PROVE  LET q == [r EXCEPT !.total = n] IN
         /\ q \in HandlerType /\ q.total = n /\ Asks(q, r)
         /\ q.on = r.on /\ q.rewrite = r.rewrite
BY DEF HandlerType, Asks

LEMMA PaymentField ==
  ASSUME NEW r \in HandlerType, NEW p \in Payments
  PROVE  LET q == [r EXCEPT !.payment = p] IN
         /\ q \in HandlerType /\ q.payment = p /\ Asks(q, r)
         /\ q.on = r.on /\ q.total = r.total /\ q.rewrite = r.rewrite
BY DEF HandlerType, Asks

LEMMA SumField ==
  ASSUME NEW r \in HandlerType, NEW f \in [Ids -> Nat]
  PROVE  LET q == [r EXCEPT !.sum = f] IN
         /\ q \in HandlerType /\ q.sum = f /\ Asks(q, r) /\ q.payment = r.payment
         /\ q.on = r.on /\ q.total = r.total /\ q.rewrite = r.rewrite
BY DEF HandlerType, Asks

(* What is summed for a payment.                                           *)
Sums(u) == [i \in Ids |-> IF i \in my[u].on THEN Committed(i) + my[u].pays[i] ELSE 0]

LEMMA SumsType ==
  ASSUME TablesOK, HeldOK, NEW u \in Users
  PROVE  Sums(u) \in [Ids -> Nat]
<1>1. \A i \in Ids : Committed(i) \in Nat
  BY AllocatedType
<1>2. my[u].pays \in [Ids -> Nat]
  BY DEF HeldOK, HandlerType
<1> QED BY <1>1, <1>2 DEF Sums

LEMMA HandlerTurns ==
  ASSUME TablesOK, HeldOK, NEW u \in Users, Handle(u) \/ Stop(u)
  PROVE  \E l \in PCs, r \in HandlerType : Turned(u, l, r)
<1>0. my[u] \in HandlerType /\ pc[u] \in PCs
  BY DEF HeldOK
<1>1. ASSUME NEW l \in PCs, Goto(u, l), UNCHANGED my
      PROVE  \E k \in PCs, r \in HandlerType : Turned(u, k, r)
  BY <1>0, <1>1, GotoOnly
<1>2. ASSUME Return(u)
      PROVE  \E k \in PCs, r \in HandlerType : Turned(u, k, r)
  BY <1>2, Returned, FreshType DEF PCs
<1>3. ASSUME NEW l \in PCs, NEW r \in HandlerType, Goto(u, l), Become(u, r)
      PROVE  \E k \in PCs, q \in HandlerType : Turned(u, k, q)
  BY <1>3, GotoBecome
<1> USE DEF PCs
<1>4. CASE Upsert(u)
  <2> DEFINE n == IF my[u].kind = "save" /\ my[u].no = 0 THEN 1 ELSE my[u].no
             r == [my[u] EXCEPT !.no = n]
  <2>1. n \in Nat
    BY <1>0 DEF HandlerType
  <2>2. r \in HandlerType
    BY <1>0, <2>1, NumberField
  <2>3. Become(u, r) /\ Goto(u, AfterEnsure(my[u].kind)) /\ AfterEnsure(my[u].kind) \in PCs
    BY <1>4 DEF Upsert, AfterEnsure
  <2> QED BY <1>3, <2>2, <2>3
<1>5. CASE Allocate(u)
  <2>1. [my[u] EXCEPT !.no = next] \in HandlerType
    BY <1>0, NumberField DEF TablesOK
  <2> QED BY <1>3, <1>5, <2>1 DEF Allocate
<1>6. CASE Context(u)
  <2>1. [my[u] EXCEPT !.no = MinNext(Issued)] \in HandlerType
    BY <1>0, NumberField, IssuedType
  <2> QED BY <1>1, <1>2, <1>3, <1>6, <2>1 DEF Context
<1>7. CASE Renumber(u) \/ InsertRefused(u) \/ PostPayment(u) \/ Stop(u)
  BY <1>2, <1>7 DEF Renumber, InsertRefused, PostPayment, Stop
<1>8. ASSUME NEW i \in Ids, Insert(u, i)
      PROVE  \E k \in PCs, q \in HandlerType : Turned(u, k, q)
  <2>1. [my[u] EXCEPT !.on = {i}] \in HandlerType
    BY <1>0, OnField
  <2> QED BY <1>3, <1>8, <2>1 DEF Insert
<1>9. ASSUME NEW i \in Ids,
             \/ InsertLines(u, i) \/ LinesFail(u, i) \/ Undo(u, i) \/ Signature(u, i)
             \/ DeleteLines(u, i) \/ Patch(u, i) \/ PostWrite(u, i) \/ DeleteWrite(u, i)
      PROVE  \E k \in PCs, q \in HandlerType : Turned(u, k, q)
  BY <1>1, <1>2, <1>9
     DEF InsertLines, LinesFail, Undo, Signature, DeleteLines, Patch, PostWrite, DeleteWrite
<1>10. ASSUME NEW i \in Ids, Existing(u, i)
       PROVE  \E k \in PCs, q \in HandlerType : Turned(u, k, q)
  <2> DEFINE b == ~IsPosted(invoice[i].status) /\ my[u].sent
             r == [my[u] EXCEPT !.paid = invoice[i].paid, !.rewrite = b]
  <2>1. b \in BOOLEAN /\ invoice[i].paid \in Nat
    BY DEF TablesOK, RowType
  <2>2. r \in HandlerType
    BY <1>0, <2>1, ReadFields
  <2>3. Return(u) \/ (Become(u, r) /\ \E l \in {"deleteLines", "signature", "patch"} : Goto(u, l))
    BY <1>10 DEF Existing
  <2> HIDE DEF r
  <2> QED BY <1>2, <1>3, <2>2, <2>3
<1>11. ASSUME NEW i \in Ids, PostRead(u, i)
       PROVE  \E k \in PCs, q \in HandlerType : Turned(u, k, q)
  <2>1. [my[u] EXCEPT !.total = invoice[i].total] \in HandlerType
    BY <1>0, TotalField DEF TablesOK, RowType
  <2> QED BY <1>2, <1>3, <1>11, <2>1 DEF PostRead
<1>12. ASSUME NEW p \in Payments, InsertPayment(u, p)
       PROVE  \E k \in PCs, q \in HandlerType : Turned(u, k, q)
  <2>1. [my[u] EXCEPT !.payment = p] \in HandlerType
    BY <1>0, PaymentField
  <2> QED BY <1>3, <1>12, <2>1 DEF InsertPayment
<1>13. CASE Apply(u)
  <2>1. [my[u] EXCEPT !.sum = Sums(u)] \in HandlerType
    BY <1>0, SumField, SumsType
  <2>2. Return(u) \/ (Become(u, [my[u] EXCEPT !.sum = Sums(u)]) /\ Goto(u, "commit"))
    BY <1>13 DEF Apply, Sums
  <2> QED BY <1>2, <1>3, <2>1, <2>2
<1>14. CASE Commit(u)
  BY <1>1, <1>14 DEF Commit
<1> HIDE DEF PCs
<1> QED BY <1>4, <1>5, <1>6, <1>7, <1>8, <1>9, <1>10, <1>11, <1>12, <1>13, <1>14 DEF Handle

LEMMA StepTurns ==
  ASSUME TablesOK, HeldOK, NEW u \in Users, Acts(u)
  PROVE  \E l \in PCs, r \in HandlerType : Turned(u, l, r)
<1>1. CASE Request(u)
  BY <1>1, RequestBegins
     DEF NumberRequest, DeleteRequest, PayRequest, EditRequest, Begins
<1> QED BY <1>1, HandlerTurns DEF Acts

(* A row that is written.                                                  *)
LEMMA SettledType ==
  ASSUME NEW row \in RowType, NEW sum \in Nat
  PROVE  /\ Settled(row, sum) \in RowType
         /\ Settled(row, sum).no = row.no /\ Settled(row, sum).total = row.total
         /\ Settled(row, sum).deleted = row.deleted
         /\ Settled(row, sum).paid = Least(row.total, sum)
         /\ Settled(row, sum).balance = Most(row.total - sum, 0)
         /\ Settled(row, sum).status = IF sum >= row.total THEN "PAID" ELSE "PARTIAL"
<1> DEFINE a == Least(row.total, sum)
           b == Most(row.total - sum, 0)
           s == IF sum >= row.total THEN "PAID" ELSE "PARTIAL"
<1>1. a \in Nat /\ b \in Int /\ s \in Statuses
  BY DEF RowType, Least, Most, Statuses, Texts
<1>2. Settled(row, sum) = [row EXCEPT !.paid = a, !.balance = b, !.status = s]
  BY DEF Settled
<1> HIDE DEF a, b, s
<1> DEFINE q == [row EXCEPT !.paid = a, !.balance = b, !.status = s]
<1>3. /\ q \in RowType /\ q.no = row.no /\ q.total = row.total /\ q.deleted = row.deleted
      /\ q.paid = a /\ q.balance = b /\ q.status = s
  BY <1>1 DEF RowType
<1> HIDE DEF q
<1>4. Settled(row, sum) = q
  BY <1>2 DEF q
<1> QED BY <1>3, <1>4 DEF a, b, s

Sent(row, s)   == IF s = "NONE" THEN row ELSE [row EXCEPT !.status = s]
Patched(row, r) ==
  IF r.rewrite THEN [Sent(row, r.status) EXCEPT !.total = r.total, !.balance = r.total - r.paid]
  ELSE Sent(row, r.status)

LEMMA PatchedType ==
  ASSUME NEW row \in RowType, NEW r \in HandlerType
  PROVE  /\ Patched(row, r) \in RowType
         /\ Patched(row, r).no = row.no /\ Patched(row, r).deleted = row.deleted
         /\ Patched(row, r).paid = row.paid
         /\ Patched(row, r).status = IF r.status = "NONE" THEN row.status ELSE r.status
         /\ Patched(row, r).total = IF r.rewrite THEN r.total ELSE row.total
         /\ Patched(row, r).balance = IF r.rewrite THEN r.total - r.paid ELSE row.balance
<1> DEFINE sent == Sent(row, r.status)
           b == r.total - r.paid
<1>1. r.total \in Nat /\ b \in Int /\ r.status \in Statuses /\ r.rewrite \in BOOLEAN
  BY DEF HandlerType
<1>2. /\ sent \in RowType /\ sent.no = row.no /\ sent.deleted = row.deleted /\ sent.paid = row.paid
      /\ sent.status = IF r.status = "NONE" THEN row.status ELSE r.status
      /\ sent.total = row.total /\ sent.balance = row.balance
  BY <1>1 DEF Sent, RowType
<1> HIDE DEF sent, b
<1> DEFINE q == [sent EXCEPT !.total = r.total, !.balance = b]
<1>3. /\ q \in RowType /\ q.no = sent.no /\ q.deleted = sent.deleted /\ q.paid = sent.paid
      /\ q.status = sent.status /\ q.total = r.total /\ q.balance = b
  BY <1>1, <1>2 DEF RowType
<1>4. Patched(row, r) = IF r.rewrite THEN q ELSE sent
  BY DEF Patched, sent, b
<1> HIDE DEF q
<1> QED BY <1>1, <1>2, <1>3, <1>4 DEF b

NewRow(n, t) == [NoInvoice EXCEPT !.no = n, !.status = "DRAFT", !.total = t, !.balance = t]
GoneRow      == [NoInvoice EXCEPT !.status = "GONE"]

LEMMA AmountFields ==
  ASSUME NEW q \in RowType, NEW t \in Nat, NEW b \in Int
  PROVE  LET r == [q EXCEPT !.total = t, !.balance = b] IN
         /\ r \in RowType /\ r.no = q.no /\ r.status = q.status /\ r.paid = q.paid
         /\ r.deleted = q.deleted /\ r.total = t /\ r.balance = b
BY DEF RowType

LEMMA NewRowType ==
  ASSUME NEW n \in Nat, NEW t \in Nat
  PROVE  /\ NewRow(n, t) \in RowType /\ NewRow(n, t).no = n /\ NewRow(n, t).status = "DRAFT"
         /\ NewRow(n, t).total = t /\ NewRow(n, t).balance = t /\ NewRow(n, t).paid = 0
         /\ ~NewRow(n, t).deleted
<1> DEFINE q == [NoInvoice EXCEPT !.no = n, !.status = "DRAFT"]
<1>1. /\ q \in RowType /\ q.no = n /\ q.status = "DRAFT" /\ q.paid = 0 /\ ~q.deleted
  BY NoInvoiceType DEF RowType, Statuses, Texts
<1>0. t \in Nat /\ t \in Int
  OBVIOUS
<1> DEFINE r == [q EXCEPT !.total = t, !.balance = t]
<1>2. NewRow(n, t) = r
  BY DEF NewRow
<1> HIDE DEF q
<1>3. /\ r \in RowType /\ r.no = q.no /\ r.status = q.status /\ r.paid = q.paid
      /\ r.deleted = q.deleted /\ r.total = t /\ r.balance = t
  BY <1>0, <1>1, AmountFields
<1> HIDE DEF r
<1> QED BY <1>1, <1>2, <1>3

LEMMA GoneRowType == GoneRow \in RowType /\ GoneRow.status = "GONE" /\ ~GoneRow.deleted
BY NoInvoiceType DEF GoneRow, RowType, Statuses, Texts

LEMMA StepTablesType ==
  ASSUME TablesOK, HeldOK, NEW u \in Users, Acts(u)
  PROVE  TablesOK'
<1>0. my[u] \in HandlerType
  BY DEF HeldOK
<1>1. ASSUME UNCHANGED <<documents, next>> PROVE TablesOK'
  BY <1>1 DEF TablesOK, documents
<1>2. ASSUME UNCHANGED documents, next' \in Nat PROVE TablesOK'
  BY <1>2 DEF TablesOK, documents
<1>3. ASSUME UNCHANGED <<payment, applied, ledger, next, lines>>, invoice' \in [Ids -> RowType]
      PROVE  TablesOK'
  BY <1>3 DEF TablesOK
<1>4. ASSUME UNCHANGED <<payment, applied, ledger, next, invoice>>, lines' \in [Ids -> Nat]
      PROVE  TablesOK'
  BY <1>4 DEF TablesOK
<1>5. CASE Request(u)
  <2>1. UNCHANGED <<documents, next>>
    BY <1>5, RequestBegins
       DEF NumberRequest, DeleteRequest, PayRequest, EditRequest, Begins, Arrive
  <2> QED BY <1>1, <2>1
<1>6. CASE Stop(u) \/ Context(u) \/ InsertRefused(u) \/ Apply(u)
  BY <1>1, <1>6 DEF Stop, Context, InsertRefused, Apply
<1>7. CASE Upsert(u) \/ Allocate(u) \/ Renumber(u)
  <2>1. my[u].no \in Nat /\ next \in Nat
    BY <1>0 DEF HandlerType, TablesOK
  <2> QED BY <1>2, <1>7, <2>1 DEF Upsert, Allocate, Renumber
<1>8. ASSUME NEW i \in Ids, Insert(u, i) PROVE TablesOK'
  <2> DEFINE r == NewRow(my[u].no, my[u].total)
  <2>1. my[u].no \in Nat /\ my[u].total \in Nat
    BY <1>0 DEF HandlerType
  <2>2. r \in RowType
    BY <2>1, NewRowType
  <2>3. invoice' = [invoice EXCEPT ![i] = r]
    BY <1>8 DEF Insert, NewRow
  <2> HIDE DEF r
  <2>4. invoice' \in [Ids -> RowType]
    BY <2>2, <2>3 DEF TablesOK
  <2> QED BY <1>3, <1>8, <2>4 DEF Insert
<1>9. ASSUME NEW i \in Ids, InsertLines(u, i) \/ DeleteLines(u, i) PROVE TablesOK'
  <2>1. my[u].total \in Nat /\ lines \in [Ids -> Nat]
    BY <1>0 DEF HandlerType, TablesOK
  <2>2. lines' \in [Ids -> Nat]
    BY <1>9, <2>1 DEF InsertLines, DeleteLines
  <2> QED BY <1>4, <1>9, <2>2 DEF InsertLines, DeleteLines
<1>10. ASSUME NEW i \in Ids, LinesFail(u, i) \/ Existing(u, i) \/ Signature(u, i) \/ PostRead(u, i)
       PROVE  TablesOK'
  BY <1>1, <1>10 DEF LinesFail, Existing, Signature, PostRead
<1>11. ASSUME NEW i \in Ids, Undo(u, i) PROVE TablesOK'
  <2>1. GoneRow \in RowType
    BY GoneRowType
  <2>2. invoice' \in [Ids -> RowType] /\ lines' \in [Ids -> Nat]
    <3>1. \/ invoice' = [invoice EXCEPT ![i] = GoneRow] /\ lines' = [lines EXCEPT ![i] = 0]
          \/ UNCHANGED <<invoice, lines>>
      BY <1>11 DEF Undo, GoneRow
    <3> QED BY <2>1, <3>1 DEF TablesOK
  <2>3. UNCHANGED <<payment, applied, ledger, next>>
    BY <1>11 DEF Undo
  <2> QED BY <2>2, <2>3 DEF TablesOK
<1>12. ASSUME NEW i \in Ids, Patch(u, i) PROVE TablesOK'
  <2>1. Patched(invoice[i], my[u]) \in RowType
    BY <1>0, PatchedType DEF TablesOK
  <2>2. invoice' = [invoice EXCEPT ![i] = Patched(invoice[i], my[u])] \/ invoice' = invoice
    BY <1>12 DEF Patch, Patched, Sent
  <2>3. invoice' \in [Ids -> RowType]
    BY <2>1, <2>2 DEF TablesOK
  <2> QED BY <1>3, <1>12, <2>3 DEF Patch
<1>13. ASSUME NEW i \in Ids, PostWrite(u, i) PROVE TablesOK'
  <2>1. my[u].total \in Nat
    BY <1>0 DEF HandlerType
  <2>2. ledger' \in [Ids \cup Payments -> Nat] /\ UNCHANGED <<invoice, lines, payment, applied, next>>
    BY <1>13, <2>1 DEF PostWrite, TablesOK
  <2> QED BY <2>2 DEF TablesOK
<1>14. ASSUME NEW i \in Ids, DeleteWrite(u, i) PROVE TablesOK'
  <2>1. [invoice[i] EXCEPT !.deleted = TRUE] \in RowType
    BY DEF TablesOK, RowType
  <2>2. invoice' = [invoice EXCEPT ![i] = [invoice[i] EXCEPT !.deleted = TRUE]]
          \/ invoice' = invoice
    BY <1>14 DEF DeleteWrite
  <2>3. invoice' \in [Ids -> RowType]
    BY <2>1, <2>2 DEF TablesOK
  <2> QED BY <1>3, <1>14, <2>3 DEF DeleteWrite
<1>15. ASSUME NEW p \in Payments, InsertPayment(u, p) PROVE TablesOK'
  <2>1. my[u].amount \in Nat
    BY <1>0 DEF HandlerType
  <2>2. payment' \in [Payments -> Nat] /\ UNCHANGED <<invoice, lines, applied, ledger, next>>
    BY <1>15, <2>1 DEF InsertPayment, TablesOK
  <2> QED BY <2>2 DEF TablesOK
<1>16. CASE Commit(u)
  <2>1. my[u].pays \in [Ids -> Nat] /\ my[u].sum \in [Ids -> Nat]
    BY <1>0 DEF HandlerType
  <2>2. \A i \in Ids : Settled(invoice[i], my[u].sum[i]) \in RowType
    BY <2>1, SettledType DEF TablesOK
  <2>3. invoice' \in [Ids -> RowType]
    BY <1>16, <2>2 DEF Commit, TablesOK
  <2>4. applied' \in [Payments -> [Ids -> Nat]] /\ UNCHANGED <<lines, payment, ledger, next>>
    BY <1>16, <2>1 DEF Commit, TablesOK
  <2> QED BY <2>3, <2>4 DEF TablesOK
<1>17. CASE PostPayment(u)
  <2>1. my[u].payment \in Payments \cup {0}
    BY <1>0 DEF HandlerType
  <2>2. ledger' \in [Ids \cup Payments -> Nat] /\ UNCHANGED <<invoice, lines, payment, applied, next>>
    BY <1>17, <2>1, ConstantTypes DEF PostPayment, TablesOK
  <2> QED BY <2>2 DEF TablesOK
<1> QED BY <1>5, <1>6, <1>7, <1>8, <1>9, <1>10, <1>11, <1>12, <1>13, <1>14, <1>15, <1>16, <1>17
        DEF Acts, Handle

LEMMA StepBoundsType ==
  ASSUME BoundsOK, HeldOK, NEW u \in Users, Acts(u)
  PROVE  BoundsOK'
<1>0. my[u].on \subseteq Ids
  BY DEF HeldOK, HandlerType
<1>1. ASSUME requests' = requests \/ (requests < MaxRequests /\ requests' = requests + 1)
      PROVE  requests' \in 0 .. MaxRequests
  BY <1>1, BoundAssumption DEF BoundsOK
<1>2. ASSUME stops' = stops \/ (stops < MaxStops /\ stops' = stops + 1)
      PROVE  stops' \in 0 .. MaxStops
  BY <1>2, BoundAssumption DEF BoundsOK
<1>3. ASSUME NEW S \in SUBSET Ids, Writes(u, S) PROVE raced' \subseteq Ids
  BY <1>3 DEF BoundsOK, Writes
<1>4. ASSUME UNCHANGED <<requests, stops, cut, shuffled>>, raced' \subseteq Ids,
             stated' \subseteq Ids
      PROVE  BoundsOK'
  BY <1>4 DEF BoundsOK
<1>5. ASSUME UNCHANGED <<requests, stops, raced, cut, stated>>, shuffled' \in BOOLEAN
      PROVE  BoundsOK'
  BY <1>5 DEF BoundsOK
<1>6. ASSUME UNCHANGED <<requests, stops, history>> PROVE BoundsOK'
  BY <1>6 DEF BoundsOK, history
<1>7. CASE Request(u)
  <2>1. requests' = requests + 1 /\ requests < MaxRequests /\ UNCHANGED <<stops, history>>
    BY <1>7 DEF Request, Reset, Save, Create, Delete, Pay, Receive, Update, Arrive
  <2> QED BY <1>1, <2>1 DEF BoundsOK, history
<1>8. CASE Stop(u)
  <2>1. /\ stops < MaxStops /\ stops' = stops + 1 /\ cut' \subseteq cut \cup my[u].on
        /\ UNCHANGED <<requests, raced, shuffled, stated>>
    BY <1>8 DEF Stop
  <2> QED BY <1>0, <1>2, <2>1 DEF BoundsOK
<1>9. CASE Upsert(u) \/ Allocate(u) \/ Renumber(u)
  BY <1>5, <1>9 DEF Upsert, Allocate, Renumber, BoundsOK
<1>10. CASE Context(u) \/ InsertRefused(u) \/ Apply(u) \/ PostPayment(u)
  BY <1>6, <1>10 DEF Context, InsertRefused, Apply, PostPayment
<1>11. ASSUME NEW i \in Ids, Insert(u, i) PROVE BoundsOK'
  BY <1>5, <1>11 DEF Insert, BoundsOK
<1>12. ASSUME NEW i \in Ids,
              \/ InsertLines(u, i) \/ Undo(u, i) \/ DeleteLines(u, i) \/ Patch(u, i)
              \/ DeleteWrite(u, i)
       PROVE  BoundsOK'
  <2>1. /\ Writes(u, {i}) /\ UNCHANGED <<requests, stops, cut, shuffled>>
        /\ stated' = stated \/ stated' = stated \cup {i}
    BY <1>12 DEF InsertLines, Undo, DeleteLines, Patch, DeleteWrite
  <2>2. stated' \subseteq Ids
    BY <2>1 DEF BoundsOK
  <2> QED BY <1>3, <1>4, <2>1, <2>2
<1>13. ASSUME NEW i \in Ids, LinesFail(u, i) PROVE BoundsOK'
  <2>1. /\ stops < MaxStops /\ stops' = stops + 1 /\ cut' = cut \cup {i}
        /\ UNCHANGED <<requests, raced, shuffled, stated>>
    BY <1>13 DEF LinesFail
  <2> QED BY <1>2, <2>1 DEF BoundsOK
<1>14. ASSUME NEW i \in Ids, Existing(u, i) \/ Signature(u, i) \/ PostRead(u, i) \/ PostWrite(u, i)
       PROVE  BoundsOK'
  BY <1>6, <1>14 DEF Existing, Signature, PostRead, PostWrite
<1>15. ASSUME NEW p \in Payments, InsertPayment(u, p) PROVE BoundsOK'
  BY <1>6, <1>15 DEF InsertPayment
<1>16. CASE Commit(u)
  <2>1. /\ Writes(u, my[u].on) /\ UNCHANGED <<requests, stops, cut, shuffled>>
        /\ stated' \subseteq Ids
    BY <1>16 DEF Commit, BoundsOK
  <2> QED BY <1>0, <1>3, <1>4, <2>1
<1> QED BY <1>7, <1>8, <1>9, <1>10, <1>11, <1>12, <1>13, <1>14, <1>15, <1>16 DEF Acts, Handle

LEMMA StepType ==
  ASSUME TypeOK, NEW u \in Users, Acts(u)
  PROVE  TypeOK'
<1>1. TablesOK /\ HeldOK /\ BoundsOK
  BY TypeParts
<1>2. HeldOK'
  <2>1. PICK l \in PCs, r \in HandlerType : Turned(u, l, r)
    BY <1>1, StepTurns
  <2> QED BY <1>1, <2>1 DEF HeldOK, Turned
<1>3. TablesOK' /\ BoundsOK'
  BY <1>1, StepTablesType, StepBoundsType
<1> QED BY <1>2, <1>3, TypePartsNext

(* Every variable has its type.                                            *)
THEOREM InvoicesTypeCorrect == Spec => []TypeOK
<1>1. TypeOK /\ UNCHANGED vars => TypeOK'
  <2>1. UNCHANGED vars => UNCHANGED <<documents, next, pc, my, requests, stops, history>>
    BY DEF vars
  <2> QED BY <2>1 DEF TypeOK, documents, history
<1>2. TypeOK /\ [Next]_vars => TypeOK'
  BY <1>1, StepType DEF Next, Acts
<1> QED BY InitType, <1>2, PTL DEF Spec

-----------------------------------------------------------------------------
(* What a step does to one invoice, and to the other tables.               *)
DeletedRow(row) == [row EXCEPT !.deleted = TRUE]

LEMMA DeletedRowType ==
  ASSUME NEW row \in RowType
  PROVE  /\ DeletedRow(row) \in RowType /\ DeletedRow(row).deleted
         /\ DeletedRow(row).no = row.no /\ DeletedRow(row).status = row.status
         /\ DeletedRow(row).total = row.total /\ DeletedRow(row).paid = row.paid
         /\ DeletedRow(row).balance = row.balance
BY DEF DeletedRow, RowType

Inserts(u, i)   == Insert(u, i) /\ invoice'[i] = NewRow(my[u].no, my[u].total)
Undoes(u, i)    == Undo(u, i) /\ invoice'[i] = GoneRow
Patches(u, i)   == Patch(u, i) /\ Visible(i) /\ invoice'[i] = Patched(invoice[i], my[u])
Withdraws(u, i) == DeleteWrite(u, i) /\ Exists(i) /\ invoice'[i] = DeletedRow(invoice[i])
Settles(u, i)   == Commit(u) /\ i \in my[u].on /\ invoice'[i] = Settled(invoice[i], my[u].sum[i])

LEMMA RowSteps ==
  ASSUME TablesOK, NEW u \in Users, Acts(u), NEW i \in Ids
  PROVE  \/ invoice'[i] = invoice[i]
         \/ Inserts(u, i) \/ Undoes(u, i) \/ Patches(u, i) \/ Withdraws(u, i) \/ Settles(u, i)
<1>0. invoice \in [Ids -> RowType]
  BY DEF TablesOK
<1>1. ASSUME NEW k \in Ids, NEW row, invoice' = [invoice EXCEPT ![k] = row]
      PROVE  invoice'[i] = IF i = k THEN row ELSE invoice[i]
  BY <1>0, <1>1
<1>2. CASE Request(u)
  BY <1>2 DEF Request, Reset, Save, Create, Delete, Pay, Receive, Update, Arrive, documents
<1>3. CASE \/ Stop(u) \/ Upsert(u) \/ Allocate(u) \/ Context(u) \/ Renumber(u) \/ InsertRefused(u)
           \/ Apply(u) \/ PostPayment(u)
  BY <1>3 DEF Stop, Upsert, Allocate, Context, Renumber, InsertRefused, Apply, PostPayment, documents
<1>4. ASSUME NEW k \in Ids, Insert(u, k) PROVE invoice'[i] = invoice[i] \/ Inserts(u, i)
  <2>1. invoice' = [invoice EXCEPT ![k] = NewRow(my[u].no, my[u].total)]
    BY <1>4 DEF Insert, NewRow
  <2> QED BY <1>1, <1>4, <2>1 DEF Inserts
<1>5. ASSUME NEW k \in Ids, Undo(u, k) PROVE invoice'[i] = invoice[i] \/ Undoes(u, i)
  <2>1. invoice' = [invoice EXCEPT ![k] = GoneRow] \/ invoice' = invoice
    BY <1>5 DEF Undo, GoneRow
  <2> QED BY <1>1, <1>5, <2>1 DEF Undoes
<1>6. ASSUME NEW k \in Ids, Patch(u, k) PROVE invoice'[i] = invoice[i] \/ Patches(u, i)
  <2>1. \/ Visible(k) /\ invoice' = [invoice EXCEPT ![k] = Patched(invoice[k], my[u])]
        \/ invoice' = invoice
    BY <1>6 DEF Patch, Patched, Sent
  <2> QED BY <1>1, <1>6, <2>1 DEF Patches
<1>7. ASSUME NEW k \in Ids, DeleteWrite(u, k) PROVE invoice'[i] = invoice[i] \/ Withdraws(u, i)
  <2>1. \/ Exists(k) /\ invoice' = [invoice EXCEPT ![k] = DeletedRow(invoice[k])]
        \/ invoice' = invoice
    BY <1>7 DEF DeleteWrite, DeletedRow
  <2> QED BY <1>1, <1>7, <2>1 DEF Withdraws
<1>8. CASE Commit(u)
  <2>1. invoice'[i] = IF i \in my[u].on THEN Settled(invoice[i], my[u].sum[i]) ELSE invoice[i]
    BY <1>8 DEF Commit
  <2> QED BY <1>8, <2>1 DEF Settles
<1>9. ASSUME NEW k \in Ids,
             \/ InsertLines(u, k) \/ LinesFail(u, k) \/ Existing(u, k) \/ Signature(u, k)
             \/ DeleteLines(u, k) \/ PostRead(u, k) \/ PostWrite(u, k)
      PROVE  invoice' = invoice
  BY <1>9 DEF InsertLines, LinesFail, Existing, Signature, DeleteLines, PostRead, PostWrite, documents
<1>10. ASSUME NEW p \in Payments, InsertPayment(u, p) PROVE invoice' = invoice
  BY <1>10 DEF InsertPayment
<1> QED BY <1>2, <1>3, <1>4, <1>5, <1>6, <1>7, <1>8, <1>9, <1>10 DEF Acts, Handle

LEMMA LineSteps ==
  ASSUME TablesOK, NEW u \in Users, Acts(u), NEW i \in Ids
  PROVE  \/ lines'[i] = lines[i]
         \/ InsertLines(u, i) /\ Exists(i) /\ lines'[i] = lines[i] + my[u].total
         \/ (DeleteLines(u, i) \/ Undo(u, i)) /\ lines'[i] = 0
<1>0. lines \in [Ids -> Nat]
  BY DEF TablesOK
<1>1. CASE Request(u)
  BY <1>1 DEF Request, Reset, Save, Create, Delete, Pay, Receive, Update, Arrive, documents
<1>2. CASE \/ Stop(u) \/ Upsert(u) \/ Allocate(u) \/ Context(u) \/ Renumber(u) \/ InsertRefused(u)
           \/ Apply(u) \/ Commit(u) \/ PostPayment(u)
  BY <1>2 DEF Stop, Upsert, Allocate, Context, Renumber, InsertRefused, Apply, Commit, PostPayment,
              documents
<1>3. ASSUME NEW k \in Ids, InsertLines(u, k) \/ DeleteLines(u, k) \/ Undo(u, k)
      PROVE  \/ lines'[i] = lines[i]
             \/ InsertLines(u, i) /\ Exists(i) /\ lines'[i] = lines[i] + my[u].total
             \/ (DeleteLines(u, i) \/ Undo(u, i)) /\ lines'[i] = 0
  <2>1. \/ lines' = lines
        \/ InsertLines(u, k) /\ Exists(k) /\ lines' = [lines EXCEPT ![k] = lines[k] + my[u].total]
        \/ (DeleteLines(u, k) \/ Undo(u, k)) /\ lines' = [lines EXCEPT ![k] = 0]
    BY <1>3 DEF InsertLines, DeleteLines, Undo
  <2> QED BY <1>0, <2>1
<1>4. ASSUME NEW k \in Ids,
             \/ Insert(u, k) \/ LinesFail(u, k) \/ Existing(u, k) \/ Signature(u, k)
             \/ Patch(u, k) \/ PostRead(u, k) \/ PostWrite(u, k) \/ DeleteWrite(u, k)
      PROVE  lines' = lines
  BY <1>4 DEF Insert, LinesFail, Existing, Signature, Patch, PostRead, PostWrite, DeleteWrite,
              documents
<1>5. ASSUME NEW p \in Payments, InsertPayment(u, p) PROVE lines' = lines
  BY <1>5 DEF InsertPayment
<1> QED BY <1>1, <1>2, <1>3, <1>4, <1>5 DEF Acts, Handle

LEMMA PaymentSteps ==
  ASSUME NEW u \in Users, Acts(u)
  PROVE  /\ applied' = applied \/ Commit(u)
         /\ payment' = payment \/ \E p \in Payments : InsertPayment(u, p)
         /\ \/ ledger' = ledger
            \/ \E i \in Ids : PostWrite(u, i)
            \/ PostPayment(u)
<1>1. CASE Request(u)
  BY <1>1 DEF Request, Reset, Save, Create, Delete, Pay, Receive, Update, Arrive, documents
<1>2. CASE \/ Stop(u) \/ Upsert(u) \/ Allocate(u) \/ Context(u) \/ Renumber(u) \/ InsertRefused(u)
           \/ Apply(u)
  BY <1>2 DEF Stop, Upsert, Allocate, Context, Renumber, InsertRefused, Apply, documents
<1>3. CASE Commit(u) \/ PostPayment(u)
  BY <1>3 DEF Commit, PostPayment
<1>4. ASSUME NEW k \in Ids,
             \/ Insert(u, k) \/ InsertLines(u, k) \/ LinesFail(u, k) \/ Undo(u, k)
             \/ Existing(u, k) \/ Signature(u, k) \/ DeleteLines(u, k) \/ Patch(u, k)
             \/ PostRead(u, k) \/ DeleteWrite(u, k)
      PROVE  UNCHANGED <<applied, payment, ledger>>
  BY <1>4 DEF Insert, InsertLines, LinesFail, Undo, Existing, Signature, DeleteLines, Patch,
              PostRead, DeleteWrite, documents
<1>5. ASSUME NEW i \in Ids, PostWrite(u, i) PROVE UNCHANGED <<applied, payment>>
  BY <1>5 DEF PostWrite
<1>6. ASSUME NEW p \in Payments, InsertPayment(u, p) PROVE UNCHANGED <<applied, ledger>>
  BY <1>6 DEF InsertPayment
<1> QED BY <1>1, <1>2, <1>3, <1>4, <1>5, <1>6 DEF Acts, Handle

(* Nobody but the user of a step moves.                                    *)
LEMMA OthersStay ==
  ASSUME TablesOK, HeldOK, NEW u \in Users, Acts(u), NEW v \in Users \ {u}
  PROVE  pc'[v] = pc[v] /\ my'[v] = my[v]
<1>1. PICK l \in PCs, r \in HandlerType : Turned(u, l, r)
  BY StepTurns
<1> QED BY <1>1 DEF Turned, HeldOK

LEMMA Moved ==
  ASSUME HeldOK, NEW u \in Users, NEW l, NEW r, Turned(u, l, r)
  PROVE  pc'[u] = l /\ my'[u] = r
BY DEF Turned, HeldOK

(* Where a handler goes, and what it holds then.                           *)
Ends(u)    == pc'[u] = "idle" /\ my'[u] = Fresh
Goes(u, l) == pc'[u] = l /\ my'[u] \in HandlerType /\ Asks(my'[u], my[u])
Same(u)    ==
  /\ my'[u].on = my[u].on /\ my'[u].total = my[u].total
  /\ my'[u].rewrite = my[u].rewrite /\ my'[u].payment = my[u].payment

TakesNumber(u) ==
  \/ Upsert(u) /\ Goes(u, AfterEnsure(my[u].kind))
  \/ Allocate(u) /\ Goes(u, "insert") /\ my'[u].no = next
  \/ Context(u) /\ Goes(u, "renumber") /\ my'[u].no >= MinNext(Issued)

GoesOn(u, i) ==
  \/ InsertLines(u, i) /\ pc'[u] = "patch" /\ my[u].kind # "create" /\ Exists(i)
  \/ LinesFail(u, i) /\ pc'[u] = "undo"
  \/ Signature(u, i) /\ pc'[u] = "patch" /\ lines[i] = my[u].total
  \/ DeleteLines(u, i) /\ pc'[u] = "lines"
  \/ /\ Patch(u, i) /\ pc'[u] = "postRead"
     /\ Visible(i) /\ my[u].status = "SENT" /\ my[u].was # "SENT"

Inserted(u, i) ==
  /\ Insert(u, i) /\ Goes(u, "lines") /\ my'[u].on = {i}
  /\ my'[u].total = my[u].total /\ my'[u].rewrite = my[u].rewrite

Reads(u, i) ==
  /\ Existing(u, i) /\ Visible(i) /\ invoice[i].status # "PAID"
  /\ IsPosted(invoice[i].status) => my[u].status \in {"NONE", invoice[i].status}
  /\ my'[u].paid = invoice[i].paid /\ my'[u].on = my[u].on /\ my'[u].total = my[u].total
  /\ my'[u].rewrite = (~IsPosted(invoice[i].status) /\ my[u].sent)
  /\ \/ my'[u].rewrite /\ Goes(u, "deleteLines")
     \/ ~my'[u].rewrite /\ (Goes(u, "signature") \/ Goes(u, "patch"))

ReadsToPost(u, i) ==
  /\ PostRead(u, i) /\ Goes(u, "postWrite") /\ my'[u].on = my[u].on
  /\ Exists(i) /\ invoice[i].total > 0 /\ lines[i] \in {0, invoice[i].total}
  /\ my'[u].total = invoice[i].total /\ my'[u].rewrite = my[u].rewrite

Receives(u, p) ==
  /\ InsertPayment(u, p) /\ Goes(u, "apply") /\ my'[u].payment = p
  /\ my'[u].on = my[u].on /\ my'[u].total = my[u].total /\ my'[u].rewrite = my[u].rewrite

Allocates(u) ==
  /\ Apply(u) /\ Goes(u, "commit") /\ Same(u) /\ \A i \in my[u].on : Exists(i)
  /\ \A i \in my[u].on : my'[u].sum[i] = Allocated(i) + my[u].pays[i]

LEMMA Moves ==
  ASSUME TablesOK, HeldOK, NEW u \in Users, Handle(u) \/ Stop(u)
  PROVE  \/ Ends(u)
         \/ TakesNumber(u) /\ Same(u)
         \/ \E i \in Ids : GoesOn(u, i) /\ my'[u] = my[u]
         \/ \E i \in Ids : Inserted(u, i) \/ Reads(u, i) \/ ReadsToPost(u, i)
         \/ \E p \in Payments : Receives(u, p)
         \/ Allocates(u)
         \/ Commit(u) /\ pc'[u] = "postPayment" /\ my'[u] = my[u]
<1>0. my[u] \in HandlerType /\ pc[u] \in PCs /\ Asks(my[u], my[u])
  BY DEF HeldOK, Asks
<1>1. ASSUME NEW l, Goto(u, l), UNCHANGED my PROVE pc'[u] = l /\ my'[u] = my[u]
  BY <1>1, GotoOnly, Moved
<1>2. Return(u) => Ends(u)
  BY Returned, Moved DEF Ends
<1>3. ASSUME NEW l, NEW r, Goto(u, l), Become(u, r) PROVE pc'[u] = l /\ my'[u] = r
  BY <1>3, GotoBecome, Moved
<1>4. CASE Upsert(u)
  <2> DEFINE n == IF my[u].kind = "save" /\ my[u].no = 0 THEN 1 ELSE my[u].no
             r == [my[u] EXCEPT !.no = n]
  <2>1. n \in Nat
    BY <1>0 DEF HandlerType
  <2>2. r \in HandlerType /\ Asks(r, my[u]) /\ r.payment = my[u].payment
        /\ r.on = my[u].on /\ r.total = my[u].total /\ r.rewrite = my[u].rewrite
    BY <1>0, <2>1, NumberField
  <2>3. Become(u, r) /\ Goto(u, AfterEnsure(my[u].kind))
    BY <1>4 DEF Upsert
  <2> HIDE DEF r
  <2>4. TakesNumber(u) /\ Same(u)
    BY <1>3, <1>4, <2>2, <2>3 DEF TakesNumber, Goes, Same
  <2> QED BY <2>4
<1>5. ASSUME NEW n \in Nat, NEW l, Goto(u, l), Become(u, [my[u] EXCEPT !.no = n])
      PROVE  Goes(u, l) /\ Same(u) /\ my'[u].no = n
  <2> DEFINE r == [my[u] EXCEPT !.no = n]
  <2>1. r \in HandlerType /\ Asks(r, my[u]) /\ r.payment = my[u].payment /\ r.no = n
        /\ r.on = my[u].on /\ r.total = my[u].total /\ r.rewrite = my[u].rewrite
    BY <1>0, NumberField
  <2> HIDE DEF r
  <2> QED BY <1>3, <1>5, <2>1 DEF Goes, Same, r
<1>6. CASE Allocate(u)
  <2>1. Goes(u, "insert") /\ Same(u) /\ my'[u].no = next
    BY <1>5, <1>6 DEF Allocate, TablesOK
  <2> QED BY <1>6, <2>1 DEF TakesNumber
<1>7. CASE Context(u)
  <2>1. MinNext(Issued) \in Nat
    BY IssuedType
  <2>2. CASE Become(u, [my[u] EXCEPT !.no = MinNext(Issued)]) /\ Goto(u, "renumber")
    <3>1. Goes(u, "renumber") /\ Same(u) /\ my'[u].no = MinNext(Issued)
      BY <1>5, <2>1, <2>2
    <3> QED BY <1>7, <2>1, <3>1 DEF TakesNumber
  <2>3. CASE my[u].no >= MinNext(Issued) /\ Goto(u, "renumber") /\ UNCHANGED my
    BY <1>0, <1>1, <1>7, <2>3 DEF TakesNumber, Goes, Same
  <2> QED BY <1>2, <1>7, <2>2, <2>3 DEF Context
<1>8. CASE Renumber(u) \/ InsertRefused(u) \/ PostPayment(u) \/ Stop(u)
  BY <1>2, <1>8 DEF Renumber, InsertRefused, PostPayment, Stop
<1>9. ASSUME NEW i \in Ids, Insert(u, i) PROVE Inserted(u, i)
  <2> DEFINE r == [my[u] EXCEPT !.on = {i}]
  <2>1. r \in HandlerType /\ r.on = {i} /\ Asks(r, my[u])
        /\ r.total = my[u].total /\ r.rewrite = my[u].rewrite
    BY <1>0, OnField
  <2>2. Goto(u, "lines") /\ Become(u, r)
    BY <1>9 DEF Insert
  <2> HIDE DEF r
  <2> QED BY <1>3, <1>9, <2>1, <2>2 DEF Inserted, Goes
<1>10. ASSUME NEW i \in Ids,
             \/ InsertLines(u, i) \/ LinesFail(u, i) \/ Signature(u, i)
             \/ DeleteLines(u, i) \/ Patch(u, i)
       PROVE  Ends(u) \/ (GoesOn(u, i) /\ my'[u] = my[u])
  <2>1. CASE InsertLines(u, i)
    BY <1>1, <1>2, <2>1 DEF InsertLines, GoesOn
  <2>2. CASE LinesFail(u, i) \/ DeleteLines(u, i)
    BY <1>1, <2>2 DEF LinesFail, DeleteLines, GoesOn
  <2>3. CASE Signature(u, i)
    BY <1>1, <1>2, <2>3 DEF Signature, GoesOn
  <2>4. CASE Patch(u, i)
    BY <1>1, <1>2, <2>4 DEF Patch, GoesOn
  <2> QED BY <1>10, <2>1, <2>2, <2>3, <2>4
<1>11. ASSUME NEW i \in Ids, Undo(u, i) \/ PostWrite(u, i) \/ DeleteWrite(u, i) PROVE Ends(u)
  BY <1>2, <1>11 DEF Undo, PostWrite, DeleteWrite
<1>12. ASSUME NEW i \in Ids, Existing(u, i) PROVE Ends(u) \/ Reads(u, i)
  <2> DEFINE b == ~IsPosted(invoice[i].status) /\ my[u].sent
             n == invoice[i].paid
             r == [my[u] EXCEPT !.paid = n, !.rewrite = b]
             l == CASE r.rewrite -> "deleteLines"
                    [] IsPosted(invoice[i].status) /\ my[u].sent -> "signature"
                    [] OTHER -> "patch"
  <2>1. b \in BOOLEAN /\ n \in Nat
    BY DEF TablesOK, RowType
  <2>2. \/ Return(u)
        \/ /\ Visible(i) /\ invoice[i].status # "PAID"
           /\ IsPosted(invoice[i].status) => my[u].status \in {"NONE", invoice[i].status}
           /\ Become(u, r) /\ Goto(u, l)
    BY <1>12 DEF Existing
  <2> HIDE DEF l, b, n
  <2>4. r \in HandlerType /\ r.paid = n /\ r.rewrite = b /\ Asks(r, my[u])
        /\ r.on = my[u].on /\ r.total = my[u].total
    BY <1>0, <2>1 DEF HandlerType, Asks
  <2> HIDE DEF r
  <2>3. l \in {"signature", "patch", "deleteLines"} /\ (r.rewrite <=> l = "deleteLines")
    <3>1. CASE r.rewrite
      <4>1. ~IsPosted(invoice[i].status)
        BY <2>4, <3>1 DEF b
      <4> QED BY <3>1, <4>1 DEF l
    <3>2. CASE ~r.rewrite BY <3>2 DEF l
    <3> QED BY <3>1, <3>2
  <2>5. CASE Become(u, r) /\ Goto(u, l)
    <3>1. pc'[u] = l /\ my'[u] = r
      BY <1>3, <2>5
    <3>2. \/ my'[u].rewrite /\ Goes(u, "deleteLines")
          \/ ~my'[u].rewrite /\ (Goes(u, "signature") \/ Goes(u, "patch"))
      BY <2>3, <2>4, <3>1 DEF Goes
    <3>3. my'[u].rewrite = (~IsPosted(invoice[i].status) /\ my[u].sent)
      BY <2>4, <3>1 DEF b
    <3>4. my'[u].paid = invoice[i].paid /\ my'[u].on = my[u].on /\ my'[u].total = my[u].total
      BY <2>4, <3>1 DEF n
    <3> QED BY <1>2, <1>12, <2>2, <3>2, <3>3, <3>4 DEF Reads
  <2> QED BY <1>2, <2>2, <2>5
<1>13. ASSUME NEW i \in Ids, PostRead(u, i) PROVE Ends(u) \/ ReadsToPost(u, i)
  <2> DEFINE r == [my[u] EXCEPT !.total = invoice[i].total]
  <2>1. r \in HandlerType /\ r.total = invoice[i].total /\ Asks(r, my[u])
        /\ r.on = my[u].on /\ r.rewrite = my[u].rewrite
    BY <1>0, TotalField DEF TablesOK, RowType
  <2>2. \/ Return(u)
        \/ /\ Exists(i) /\ invoice[i].total > 0 /\ lines[i] \in {0, invoice[i].total}
           /\ Goto(u, "postWrite") /\ Become(u, r)
    BY <1>13 DEF PostRead
  <2> HIDE DEF r
  <2> QED BY <1>2, <1>3, <1>13, <2>1, <2>2 DEF ReadsToPost, Goes
<1>14. ASSUME NEW p \in Payments, InsertPayment(u, p) PROVE Receives(u, p)
  <2> DEFINE r == [my[u] EXCEPT !.payment = p]
  <2>1. r \in HandlerType /\ r.payment = p /\ Asks(r, my[u])
        /\ r.on = my[u].on /\ r.total = my[u].total /\ r.rewrite = my[u].rewrite
    BY <1>0, PaymentField
  <2>2. Goto(u, "apply") /\ Become(u, r)
    BY <1>14 DEF InsertPayment
  <2> HIDE DEF r
  <2> QED BY <1>3, <1>14, <2>1, <2>2 DEF Receives, Goes
<1>15. CASE Apply(u)
  <2> DEFINE r == [my[u] EXCEPT !.sum = Sums(u)]
  <2>1. r \in HandlerType /\ r.sum = Sums(u) /\ Asks(r, my[u]) /\ r.payment = my[u].payment
        /\ r.on = my[u].on /\ r.total = my[u].total /\ r.rewrite = my[u].rewrite
    BY <1>0, SumField, SumsType
  <2>2. Return(u) \/ (Become(u, r) /\ Goto(u, "commit") /\ \A i \in my[u].on : Exists(i))
    BY <1>15 DEF Apply, Sums
  <2>3. \A i \in my[u].on : Sums(u)[i] = Allocated(i) + my[u].pays[i]
    BY <1>0, AllocatedType DEF Sums, HandlerType
  <2> HIDE DEF r
  <2>4. Ends(u) \/ Allocates(u)
    BY <1>2, <1>3, <1>15, <2>1, <2>2, <2>3 DEF Allocates, Goes, Same
  <2> QED BY <2>4
<1>16. CASE Commit(u)
  BY <1>1, <1>16 DEF Commit
<1> QED BY <1>4, <1>6, <1>7, <1>8, <1>9, <1>10, <1>11, <1>12, <1>13, <1>14, <1>15, <1>16 DEF Handle

-----------------------------------------------------------------------------
(* What has been written.  An invoice that was not made has no lines and   *)
(* is paid by nobody, and what was not received pays nothing.              *)
RowsOK ==
  /\ \A i \in Ids : invoice[i].status = "NONE" =>
       lines[i] = 0 /\ \A p \in Payments : applied[p][i] = 0
  /\ \A p \in Payments : payment[p] = 0 => \A i \in Ids : applied[p][i] = 0

(* The steps that are about one invoice, and those of an edit.             *)
OfOne   == {"lines", "undo", "existing", "signature", "deleteLines", "patch",
            "postRead", "postWrite", "deleteWrite"}
Editing == {"existing", "signature", "deleteLines", "patch"}

(* What a handler holds, whatever the others do.                           *)
AboutOK(u) ==
  /\ pc[u] = "idle" => my[u].on = {}
  /\ pc[u] \in OfOne => \E i \in Ids : my[u].on = {i}
  /\ \A i \in my[u].on : invoice[i].status # "NONE"
  /\ pc[u] = "commit" => \A i \in my[u].on : Exists(i)

AskedOK(u) ==
  /\ pc[u] \in {"allocate", "insert"} => my[u].kind = "create"
  /\ pc[u] \in Editing => my[u].kind = "update"
  /\ pc[u] = "lines" => my[u].kind \in {"create", "update"}
  /\ my[u].kind = "update" => my[u].status \in Texts \cup {"NONE"}
  /\ pc[u] = "deleteLines" \/ (pc[u] = "lines" /\ my[u].kind = "update") => my[u].rewrite

Paying == {"apply", "commit", "postPayment"}

PayingOK(u) ==
  /\ pc[u] \in {"payment", "apply", "commit"} =>
       /\ my[u].amount > 0
       /\ \A i \in Ids : i \in my[u].on <=> my[u].pays[i] > 0
  /\ pc[u] \in Paying =>
       /\ my[u].payment \in Payments /\ payment[my[u].payment] # 0
       /\ \A v \in Users \ {u} : pc[v] \in Paying => my[v].payment # my[u].payment
  /\ pc[u] \in {"apply", "commit"} => \A i \in Ids : applied[my[u].payment][i] = 0

HandlersOK == \A u \in Users : AboutOK(u) /\ AskedOK(u) /\ PayingOK(u)

ShapeInv == RowsOK /\ HandlersOK

(* What the handler of a request holds at first.                           *)
Begun(u, kind, l) ==
  /\ pc'[u] = l /\ my'[u] \in HandlerType /\ my'[u].kind = kind /\ ~my'[u].rewrite

LEMMA RequestMoves ==
  ASSUME TablesOK, HeldOK, NEW u \in Users, Request(u)
  PROVE  /\ pc[u] = "idle" /\ UNCHANGED <<documents, next, history>>
         /\ \/ \E kind \in {"create", "save", "reset"} :
                 Begun(u, kind, Ensure(kind)) /\ my'[u].on = {}
            \/ \E i \in Ids :
                 /\ Begun(u, "delete", "deleteWrite") /\ my'[u].on = {i}
                 /\ Visible(i) /\ invoice[i].status \in Editable
            \/ \E kind \in {"pay", "receive"} :
                 /\ Begun(u, kind, "payment")
                 /\ my'[u].amount > 0 /\ \A i \in my'[u].on : Exists(i)
                 /\ \A i \in Ids : i \in my'[u].on <=> my'[u].pays[i] > 0
            \/ \E i \in Ids :
                 /\ Begun(u, "update", "existing") /\ my'[u].on = {i} /\ Visible(i)
                 /\ my'[u].status \in Texts \cup {"NONE"}
                 /\ my'[u].was = invoice[i].status
<1>1. ASSUME NEW kind \in Kinds, NEW r \in HandlerType, NEW l, Begins(u, kind, r, l)
      PROVE  /\ pc[u] = "idle" /\ UNCHANGED <<documents, next, history>>
             /\ pc'[u] = l /\ my'[u] \in HandlerType /\ my'[u].kind = kind
             /\ my'[u].rewrite = r.rewrite /\ my'[u].on = r.on /\ my'[u].total = r.total
             /\ my'[u].status = r.status /\ my'[u].was = r.was
             /\ my'[u].amount = r.amount /\ my'[u].pays = r.pays
  <2> DEFINE q == [r EXCEPT !.kind = kind]
  <2>1. pc'[u] = l /\ my'[u] = q
    BY <1>1, Moved DEF Begins
  <2>2. /\ q \in HandlerType /\ q.kind = kind /\ q.on = r.on /\ q.total = r.total
        /\ q.status = r.status /\ q.was = r.was /\ q.rewrite = r.rewrite
        /\ q.amount = r.amount /\ q.pays = r.pays
    BY KindType
  <2> HIDE DEF q
  <2> QED BY <1>1, <2>1, <2>2 DEF Begins, Arrive
<1>2. ASSUME NEW kind \in {"create", "save", "reset"}, NumberRequest(u, kind)
      PROVE  /\ pc[u] = "idle" /\ UNCHANGED <<documents, next, history>>
             /\ Begun(u, kind, Ensure(kind)) /\ my'[u].on = {}
  <2>1. kind \in Kinds
    BY DEF Kinds
  <2> QED BY <1>1, <1>2, <2>1 DEF NumberRequest, Begun
<1>3. ASSUME NEW i \in Ids, DeleteRequest(u, i)
      PROVE  /\ pc[u] = "idle" /\ UNCHANGED <<documents, next, history>>
             /\ Begun(u, "delete", "deleteWrite") /\ my'[u].on = {i}
             /\ Visible(i) /\ invoice[i].status \in Editable
  <2>1. "delete" \in Kinds
    BY DEF Kinds
  <2> QED BY <1>1, <1>3, <2>1 DEF DeleteRequest, Begun
<1>4. ASSUME NEW kind \in {"pay", "receive"}, PayRequest(u, kind)
      PROVE  /\ pc[u] = "idle" /\ UNCHANGED <<documents, next, history>>
             /\ Begun(u, kind, "payment")
             /\ my'[u].amount > 0 /\ \A i \in my'[u].on : Exists(i)
             /\ \A i \in Ids : i \in my'[u].on <=> my'[u].pays[i] > 0
  <2>1. kind \in Kinds
    BY DEF Kinds
  <2> QED BY <1>1, <1>4, <2>1 DEF PayRequest, Begun
<1>5. ASSUME NEW i \in Ids, EditRequest(u, i)
      PROVE  /\ pc[u] = "idle" /\ UNCHANGED <<documents, next, history>>
             /\ Begun(u, "update", "existing") /\ my'[u].on = {i} /\ Visible(i)
             /\ my'[u].status \in Texts \cup {"NONE"}
             /\ my'[u].was = invoice[i].status
  <2>1. "update" \in Kinds
    BY DEF Kinds
  <2> QED BY <1>1, <1>5, <2>1 DEF EditRequest, Begun
<1> QED BY <1>2, <1>3, <1>4, <1>5, RequestBegins

(* No invoice is taken out of what was made, and one is only taken back    *)
(* when nobody is about to commit a payment of it.                         *)
LEMMA MadeStays ==
  ASSUME TablesOK, HeldOK, NEW u \in Users, Acts(u), ShapeInv, NEW i \in Ids
  PROVE  /\ invoice[i].status # "NONE" => invoice'[i].status # "NONE"
         /\ invoice'[i].status = "NONE" => invoice'[i] = invoice[i]
         /\ (\E v \in Users : At(v, "commit", i)) /\ Exists(i) => Exists(i)'
         /\ (\E v \in Users : At(v, "commit", i)) /\ Exists(i) => invoice'[i].status # "GONE"
<1>0. invoice[i] \in RowType /\ my[u] \in HandlerType
  BY DEF TablesOK, HeldOK
<1>1. CASE invoice'[i] = invoice[i]
  BY <1>1 DEF Exists
<1>2. CASE Inserts(u, i)
  <2>1. my[u].total \in Nat /\ my[u].no \in Nat
    BY <1>0 DEF HandlerType
  <2>2. invoice'[i].status = "DRAFT"
    BY <1>2, <2>1, NewRowType DEF Inserts
  <2> QED BY <2>2 DEF Exists
<1>3. CASE Undoes(u, i)
  <2>1. invoice'[i].status = "GONE" /\ ~ \E v \in Users : At(v, "commit", i)
    BY <1>3, GoneRowType DEF Undoes, Undo
  <2> QED BY <2>1 DEF Exists
<1>4. CASE Patches(u, i)
  <2>1. my[u].status \in Texts \cup {"NONE"}
    BY <1>4 DEF Patches, Patch, At, ShapeInv, HandlersOK, AskedOK, Editing
  <2>2. invoice'[i].status = IF my[u].status = "NONE" THEN invoice[i].status ELSE my[u].status
    BY <1>0, <1>4, PatchedType DEF Patches
  <2>3. Exists(i)
    BY <1>4 DEF Patches, Visible
  <2> QED BY <2>1, <2>2, <2>3 DEF Exists, Texts
<1>5. CASE Withdraws(u, i)
  <2>1. invoice'[i].status = invoice[i].status
    BY <1>0, <1>5, DeletedRowType DEF Withdraws
  <2> QED BY <1>5, <2>1 DEF Withdraws, Exists
<1>6. CASE Settles(u, i)
  <2>1. my[u].sum[i] \in Nat
    BY <1>0, <1>6 DEF Settles, HandlerType
  <2>2. invoice'[i].status \in {"PAID", "PARTIAL"}
    BY <1>0, <1>6, <2>1, SettledType DEF Settles
  <2>3. Exists(i)
    BY <1>6 DEF Settles, Commit, ShapeInv, HandlersOK, AboutOK
  <2> QED BY <2>2, <2>3 DEF Exists
<1> QED BY <1>1, <1>2, <1>3, <1>4, <1>5, <1>6, RowSteps

(* A commit applies the payment of its handler, and what nothing was paid  *)
(* of stays so.                                                            *)
LEMMA Applies ==
  ASSUME TablesOK, HeldOK, NEW u \in Users, Commit(u), ShapeInv
  PROVE  /\ my[u].payment \in Payments /\ payment[my[u].payment] # 0
         /\ \A i \in Ids : i \in my[u].on <=> my[u].pays[i] > 0
         /\ \A p \in Payments \ {my[u].payment} : applied'[p] = applied[p]
         /\ applied'[my[u].payment] = my[u].pays
         /\ \A i \in Ids : applied[my[u].payment][i] = 0
         /\ \A i \in Ids \ my[u].on : \A p \in Payments : applied'[p][i] = applied[p][i]
<1>1. PayingOK(u) /\ pc[u] = "commit" /\ applied' = [applied EXCEPT ![my[u].payment] = my[u].pays]
  BY DEF Commit, ShapeInv, HandlersOK
<1>2. my[u].pays \in [Ids -> Nat] /\ applied \in [Payments -> [Ids -> Nat]]
  BY DEF HeldOK, HandlerType, TablesOK
<1>3. /\ my[u].payment \in Payments /\ payment[my[u].payment] # 0
      /\ \A i \in Ids : i \in my[u].on <=> my[u].pays[i] > 0
      /\ \A i \in Ids : applied[my[u].payment][i] = 0
  BY <1>1 DEF PayingOK, Paying
<1>4. /\ \A p \in Payments \ {my[u].payment} : applied'[p] = applied[p]
      /\ applied'[my[u].payment] = my[u].pays
  BY <1>1, <1>2, <1>3
<1>5. ASSUME NEW i \in Ids \ my[u].on, NEW p \in Payments PROVE applied'[p][i] = applied[p][i]
  <2>1. my[u].pays[i] = 0
    BY <1>2, <1>3
  <2> QED BY <1>3, <1>4, <2>1
<1> QED BY <1>3, <1>4, <1>5

LEMMA StepRows ==
  ASSUME TablesOK, HeldOK, NEW u \in Users, Acts(u), ShapeInv
  PROVE  RowsOK'
<1>0. lines \in [Ids -> Nat] /\ applied \in [Payments -> [Ids -> Nat]] /\ payment \in [Payments -> Nat]
  BY DEF TablesOK
<1>1. ASSUME NEW i \in Ids, invoice'[i].status = "NONE" PROVE lines'[i] = 0
  <2>1. invoice[i].status = "NONE"
    BY <1>1, MadeStays
  <2>2. ~Exists(i) /\ lines[i] = 0
    BY <2>1 DEF Exists, ShapeInv, RowsOK
  <2> QED BY <2>2, LineSteps
<1>2. ASSUME NEW i \in Ids, invoice'[i].status = "NONE", NEW p \in Payments
      PROVE  applied'[p][i] = 0
  <2>1. invoice[i].status = "NONE"
    BY <1>2, MadeStays
  <2>2. applied[p][i] = 0 /\ i \notin my[u].on
    BY <2>1 DEF ShapeInv, RowsOK, HandlersOK, AboutOK
  <2> QED BY <2>2, PaymentSteps, Applies
<1>3. ASSUME NEW p \in Payments, payment'[p] = 0 PROVE \A i \in Ids : applied'[p][i] = 0
  <2>1. payment[p] = 0
    <3>1. CASE payment' = payment
      BY <1>3, <3>1
    <3>2. ASSUME NEW k \in Payments, InsertPayment(u, k) PROVE payment[p] = 0
      <4>1. payment' = [payment EXCEPT ![k] = my[u].amount] /\ payment[k] = 0
        BY <3>2 DEF InsertPayment
      <4> QED BY <1>0, <1>3, <4>1
    <3> QED BY <3>1, <3>2, PaymentSteps
  <2>2. \A i \in Ids : applied[p][i] = 0
    BY <2>1 DEF ShapeInv, RowsOK
  <2>3. CASE applied' = applied
    BY <2>2, <2>3
  <2>4. CASE Commit(u)
    <3>1. p # my[u].payment
      BY <2>1, <2>4, Applies
    <3> QED BY <2>2, <2>4, <3>1, Applies
  <2> QED BY <2>3, <2>4, PaymentSteps
<1> QED BY <1>1, <1>2, <1>3, Zenon DEF RowsOK

(* A handler's payment is its own: another that pays has one of its own.   *)
LEMMA PaymentKept ==
  ASSUME TablesOK, HeldOK, NEW u \in Users, Acts(u), ShapeInv, NEW p \in Payments, payment[p] # 0
  PROVE  payment'[p] = payment[p]
<1>1. ASSUME NEW k \in Payments, InsertPayment(u, k) PROVE payment'[p] = payment[p]
  <2>1. payment' = [payment EXCEPT ![k] = my[u].amount] /\ payment[k] = 0
    BY <1>1 DEF InsertPayment
  <2> QED BY <2>1 DEF TablesOK
<1> QED BY <1>1, PaymentSteps

(* What pays after a step, paid before it, or took a free payment.         *)
LEMMA PaysBy ==
  ASSUME TablesOK, HeldOK, NEW u \in Users, Acts(u), ShapeInv, pc'[u] \in Paying
  PROVE  /\ my'[u].payment \in Payments
         /\ \/ payment[my'[u].payment] = 0
            \/ pc[u] \in Paying /\ my'[u].payment = my[u].payment
<1> USE DEF Paying
<1>1. CASE Request(u)
  <2>1. pc'[u] \in {"upsert", "allocate", "context", "deleteWrite", "payment", "existing"}
    BY <1>1, RequestMoves DEF Begun, Ensure, AfterEnsure
  <2> QED BY <2>1
<1>2. CASE Handle(u) \/ Stop(u)
  <2>1. CASE Ends(u)
    BY <2>1 DEF Ends
  <2>2. CASE TakesNumber(u)
    BY <2>2 DEF TakesNumber, Goes, AfterEnsure
  <2>3. ASSUME NEW i \in Ids, GoesOn(u, i) \/ Inserted(u, i) \/ Reads(u, i) \/ ReadsToPost(u, i)
        PROVE  pc'[u] \notin Paying
    BY <2>3 DEF GoesOn, Inserted, Reads, ReadsToPost, Goes
  <2>4. ASSUME NEW p \in Payments, Receives(u, p)
        PROVE  my'[u].payment \in Payments /\ payment[my'[u].payment] = 0
    BY <2>4 DEF Receives, InsertPayment
  <2>5. CASE Allocates(u)
    <3>1. pc[u] = "apply" /\ my'[u].payment = my[u].payment
      BY <2>5 DEF Allocates, Apply, Same
    <3>2. my[u].payment \in Payments
      BY <3>1 DEF ShapeInv, HandlersOK, PayingOK
    <3> QED BY <3>1, <3>2
  <2>6. CASE Commit(u) /\ my'[u] = my[u]
    <3>1. pc[u] = "commit"
      BY <2>6 DEF Commit
    <3> QED BY <2>6, <3>1, Applies
  <2> QED BY <1>2, <2>1, <2>2, <2>3, <2>4, <2>5, <2>6, Moves
<1> QED BY <1>1, <1>2 DEF Acts

LEMMA StepOthers ==
  ASSUME TablesOK, HeldOK, NEW u \in Users, Acts(u), ShapeInv, NEW v \in Users \ {u}
  PROVE  (AboutOK(v) /\ AskedOK(v) /\ PayingOK(v))'
<1>0. pc'[v] = pc[v] /\ my'[v] = my[v] /\ my[v] \in HandlerType
  BY OthersStay DEF HeldOK
<1>1. AboutOK(v) /\ AskedOK(v) /\ PayingOK(v)
  BY DEF ShapeInv, HandlersOK
<1>2. my[v].on \subseteq Ids
  BY <1>0 DEF HandlerType
<1>3. AskedOK(v)'
  BY <1>0, <1>1 DEF AskedOK
<1>4. AboutOK(v)'
  <2>1. \A i \in my[v].on : invoice'[i].status # "NONE"
    BY <1>1, <1>2, MadeStays DEF AboutOK
  <2>2. ASSUME pc[v] = "commit", NEW i \in my[v].on PROVE Exists(i)'
    BY <1>1, <1>2, <2>2, MadeStays DEF AboutOK, At
  <2> QED BY <1>0, <1>1, <2>1, <2>2 DEF AboutOK
<1>5. PayingOK(v)'
  <2>1. CASE pc[v] \notin Paying
    BY <1>0, <1>1, <2>1 DEF PayingOK, Paying
  <2>2. CASE pc[v] \in Paying
    <3> DEFINE p == my[v].payment
    <3>1. p \in Payments /\ payment[p] # 0
      BY <1>1, <2>2 DEF PayingOK
    <3>2. payment'[p] # 0
      BY <3>1, PaymentKept
    <3>3. ASSUME NEW w \in Users \ {v}, pc'[w] \in Paying PROVE my'[w].payment # p
      <4>1. CASE w = u
        BY <1>1, <2>2, <3>1, <3>3, <4>1, PaysBy DEF PayingOK
      <4>2. CASE w # u
        <5>1. pc'[w] = pc[w] /\ my'[w] = my[w]
          BY <4>2, OthersStay
        <5> QED BY <1>1, <2>2, <3>3, <5>1 DEF PayingOK
      <4> QED BY <4>1, <4>2
    <3>4. ASSUME pc[v] \in {"apply", "commit"}, NEW i \in Ids PROVE applied'[p][i] = 0
      <4>1. applied[p][i] = 0
        BY <1>1, <3>4 DEF PayingOK
      <4>2. ASSUME Commit(u) PROVE applied'[p] = applied[p]
        <5>1. p # my[u].payment
          BY <1>1, <2>2, <4>2 DEF PayingOK, Commit, Paying
        <5> QED BY <3>1, <4>2, <5>1, Applies
      <4> QED BY <4>1, <4>2, PaymentSteps
    <3> QED BY <1>0, <1>1, <3>1, <3>2, <3>3, <3>4 DEF PayingOK
  <2> QED BY <2>1, <2>2
<1> QED BY <1>3, <1>4, <1>5

LEMMA StepAbout ==
  ASSUME TablesOK, HeldOK, NEW u \in Users, Acts(u), ShapeInv
  PROVE  AboutOK(u)'
<1>0. AboutOK(u) /\ my[u].on \subseteq Ids
  BY DEF ShapeInv, HandlersOK, HeldOK, HandlerType
<1>1. \A i \in Ids : invoice[i].status # "NONE" => invoice'[i].status # "NONE"
  BY MadeStays
<1>2. ASSUME my'[u].on \subseteq my[u].on, pc'[u] \notin {"idle", "commit"},
             pc'[u] \in OfOne => pc[u] \in OfOne /\ my'[u].on = my[u].on
      PROVE  AboutOK(u)'
  BY <1>0, <1>1, <1>2 DEF AboutOK
<1>3. CASE Request(u)
  <2>1. pc'[u] # "idle" /\ pc'[u] # "commit" /\ invoice' = invoice
    BY <1>3, RequestMoves DEF Begun, Ensure, AfterEnsure, documents
  <2>2. my'[u].on \subseteq Ids /\ \A i \in my'[u].on : Exists(i)
    BY <1>3, RequestMoves DEF Begun, HandlerType, Visible
  <2>3. \/ my'[u].on = {} /\ pc'[u] \in {"upsert", "allocate", "context"}
        \/ \E i \in Ids : my'[u].on = {i}
        \/ pc'[u] = "payment"
    BY <1>3, RequestMoves DEF Begun, Ensure, AfterEnsure
  <2> QED BY <2>1, <2>2, <2>3 DEF AboutOK, OfOne, Exists
<1>4. CASE Ends(u)
  BY <1>4, FreshType DEF Ends, AboutOK, OfOne
<1>5. CASE TakesNumber(u) /\ Same(u)
  <2>1. pc'[u] \in {"allocate", "context", "insert", "renumber"} /\ my'[u].on = my[u].on
    BY <1>5 DEF TakesNumber, Same, Goes, AfterEnsure
  <2> QED BY <1>2, <2>1 DEF OfOne
<1>6. ASSUME NEW i \in Ids, GoesOn(u, i), my'[u] = my[u] PROVE AboutOK(u)'
  <2>1. pc[u] \in OfOne /\ pc'[u] \notin {"idle", "commit"}
    BY <1>6 DEF GoesOn, InsertLines, LinesFail, Signature, DeleteLines, Patch, At, OfOne
  <2> QED BY <1>2, <1>6, <2>1
<1>7. ASSUME NEW i \in Ids, Inserted(u, i) PROVE AboutOK(u)'
  <2>1. pc'[u] = "lines" /\ my'[u].on = {i}
    BY <1>7 DEF Inserted, Goes
  <2>2. invoice'[i].status = "DRAFT"
    <3>1. Inserts(u, i)
      BY <1>7 DEF Inserted, Insert, Inserts, NewRow, TablesOK
    <3>2. my[u].no \in Nat /\ my[u].total \in Nat
      BY DEF HeldOK, HandlerType
    <3> QED BY <3>1, <3>2, NewRowType DEF Inserts
  <2> QED BY <2>1, <2>2 DEF AboutOK, OfOne
<1>8. ASSUME NEW i \in Ids, Reads(u, i) \/ ReadsToPost(u, i) PROVE AboutOK(u)'
  <2>1. pc[u] \in OfOne /\ pc'[u] \notin {"idle", "commit"} /\ my'[u].on = my[u].on
    BY <1>8 DEF Reads, ReadsToPost, Existing, PostRead, At, Goes, OfOne
  <2> QED BY <1>2, <2>1
<1>9. ASSUME NEW p \in Payments, Receives(u, p) PROVE AboutOK(u)'
  <2>1. pc'[u] = "apply" /\ my'[u].on = my[u].on
    BY <1>9 DEF Receives, Goes
  <2> QED BY <1>2, <2>1 DEF OfOne
<1>10. CASE Allocates(u)
  <2>1. /\ pc'[u] = "commit" /\ my'[u].on = my[u].on /\ invoice' = invoice
        /\ \A i \in my[u].on : Exists(i)
    BY <1>10 DEF Allocates, Apply, Same, Goes, documents
  <2> QED BY <1>0, <2>1 DEF AboutOK, OfOne, Exists
<1>11. CASE Commit(u) /\ pc'[u] = "postPayment" /\ my'[u] = my[u]
  BY <1>2, <1>11 DEF OfOne
<1> QED BY <1>3, <1>4, <1>5, <1>6, <1>7, <1>8, <1>9, <1>10, <1>11, Moves DEF Acts

LEMMA StepAsked ==
  ASSUME TablesOK, HeldOK, NEW u \in Users, Acts(u), ShapeInv
  PROVE  AskedOK(u)'
<1>0. AskedOK(u)
  BY DEF ShapeInv, HandlersOK
<1>1. CASE Request(u)
  <2>1. \/ \E kind \in {"create", "save", "reset"} :
             my'[u].kind = kind /\ pc'[u] = Ensure(kind) /\ ~my'[u].rewrite
        \/ pc'[u] \in {"deleteWrite", "payment"} /\ my'[u].kind \in {"delete", "pay", "receive"}
             /\ ~my'[u].rewrite
        \/ pc'[u] = "existing" /\ my'[u].kind = "update" /\ ~my'[u].rewrite
             /\ my'[u].status \in Texts \cup {"NONE"}
    BY <1>1, RequestMoves DEF Begun
  <2> QED BY <2>1 DEF AskedOK, Ensure, AfterEnsure, Editing
<1>2. CASE Ends(u)
  BY <1>2, FreshType DEF Ends, AskedOK, Editing
<1>3. CASE TakesNumber(u) /\ Same(u)
  <2>1. \/ pc[u] = "upsert" /\ pc'[u] = AfterEnsure(my[u].kind)
        \/ pc[u] = "allocate" /\ pc'[u] = "insert"
        \/ pc[u] = "context" /\ pc'[u] = "renumber"
    BY <1>3 DEF TakesNumber, Upsert, Allocate, Context, Goes
  <2>2. /\ my'[u].kind = my[u].kind /\ my'[u].status = my[u].status
        /\ my'[u].total = my[u].total /\ my'[u].rewrite = my[u].rewrite
    BY <1>3 DEF TakesNumber, Goes, Asks, Same
  <2> QED BY <1>0, <2>1, <2>2 DEF AskedOK, AfterEnsure, Editing
<1>4. ASSUME NEW i \in Ids, GoesOn(u, i), my'[u] = my[u] PROVE AskedOK(u)'
  <2>1. \/ pc[u] = "lines" /\ pc'[u] = "patch" /\ my[u].kind # "create"
        \/ pc[u] = "lines" /\ pc'[u] = "undo"
        \/ pc[u] = "signature" /\ pc'[u] = "patch"
        \/ pc[u] = "deleteLines" /\ pc'[u] = "lines"
        \/ pc[u] = "patch" /\ pc'[u] = "postRead"
    BY <1>4 DEF GoesOn, InsertLines, LinesFail, Signature, DeleteLines, Patch, At
  <2> QED BY <1>0, <1>4, <2>1 DEF AskedOK, Editing
<1>5. ASSUME NEW i \in Ids, Inserted(u, i) PROVE AskedOK(u)'
  <2>1. /\ pc[u] = "insert" /\ pc'[u] = "lines" /\ my'[u].kind = my[u].kind
        /\ my'[u].status = my[u].status /\ my'[u].total = my[u].total
        /\ my'[u].rewrite = my[u].rewrite
    BY <1>5 DEF Inserted, Insert, Goes, Asks
  <2> QED BY <1>0, <2>1 DEF AskedOK, Editing
<1>6. ASSUME NEW i \in Ids, Reads(u, i) PROVE AskedOK(u)'
  <2>1. /\ pc[u] = "existing" /\ my'[u].kind = my[u].kind
        /\ my'[u].status = my[u].status
        /\ \/ pc'[u] = "deleteLines" /\ my'[u].rewrite
           \/ pc'[u] \in {"signature", "patch"}
    BY <1>6 DEF Reads, Existing, Goes, Asks, At
  <2> QED BY <1>0, <2>1 DEF AskedOK, Editing
<1>7. ASSUME NEW i \in Ids, ReadsToPost(u, i) PROVE AskedOK(u)'
  <2>1. /\ pc'[u] = "postWrite" /\ my'[u].kind = my[u].kind
        /\ my'[u].status = my[u].status /\ my'[u].rewrite = my[u].rewrite
    BY <1>7 DEF ReadsToPost, Goes, Asks
  <2> QED BY <1>0, <2>1 DEF AskedOK, Editing
<1>8. ASSUME pc'[u] \in {"apply", "commit", "postPayment"}, pc[u] # "idle", Asks(my'[u], my[u]),
             my'[u].total = my[u].total, my'[u].rewrite = my[u].rewrite
      PROVE  AskedOK(u)'
  BY <1>0, <1>8 DEF AskedOK, Editing, Asks
<1>9. ASSUME NEW p \in Payments, Receives(u, p) PROVE AskedOK(u)'
  BY <1>8, <1>9 DEF Receives, InsertPayment, Goes
<1>10. CASE Allocates(u)
  BY <1>8, <1>10 DEF Allocates, Apply, Same, Goes
<1>11. CASE Commit(u) /\ pc'[u] = "postPayment" /\ my'[u] = my[u]
  BY <1>8, <1>11 DEF Commit, Asks
<1> QED BY <1>1, <1>2, <1>3, <1>4, <1>5, <1>6, <1>7, <1>9, <1>10, <1>11, Moves DEF Acts

LEMMA StepPaying ==
  ASSUME TablesOK, HeldOK, NEW u \in Users, Acts(u), ShapeInv
  PROVE  PayingOK(u)'
<1>0. PayingOK(u) /\ RowsOK /\ my[u].amount \in Nat /\ payment \in [Payments -> Nat]
  BY DEF ShapeInv, HandlersOK, HeldOK, HandlerType, TablesOK
<1>1. ASSUME pc'[u] \in Paying, NEW v \in Users \ {u}, pc'[v] \in Paying
      PROVE  my'[v].payment # my'[u].payment
  <2>1. pc[v] \in Paying /\ my'[v] = my[v]
    BY <1>1, OthersStay
  <2>2. payment[my[v].payment] # 0 /\ (pc[u] \in Paying => my[v].payment # my[u].payment)
    BY <2>1 DEF ShapeInv, HandlersOK, PayingOK
  <2> QED BY <1>1, <2>1, <2>2, PaysBy
<1>2. ASSUME pc'[u] \notin {"payment", "apply", "commit", "postPayment"} PROVE PayingOK(u)'
  BY <1>2 DEF PayingOK, Paying
<1>3. CASE Request(u)
  <2>1. \/ pc'[u] \notin {"payment", "apply", "commit", "postPayment"}
        \/ /\ pc'[u] = "payment" /\ my'[u].amount > 0
           /\ \A i \in Ids : i \in my'[u].on <=> my'[u].pays[i] > 0
    BY <1>3, RequestMoves DEF Begun, Ensure, AfterEnsure
  <2> QED BY <1>2, <2>1 DEF PayingOK, Paying
<1>4. CASE Ends(u)
  BY <1>2, <1>4 DEF Ends
<1>5. CASE TakesNumber(u)
  <2>1. pc'[u] \in {"allocate", "context", "insert", "renumber"}
    BY <1>5 DEF TakesNumber, Goes, AfterEnsure
  <2> QED BY <1>2, <2>1
<1>6. ASSUME NEW i \in Ids, GoesOn(u, i) \/ Inserted(u, i) \/ Reads(u, i) \/ ReadsToPost(u, i)
      PROVE  PayingOK(u)'
  BY <1>2, <1>6 DEF GoesOn, Inserted, Reads, ReadsToPost, Goes
<1>7. ASSUME NEW p \in Payments, Receives(u, p) PROVE PayingOK(u)'
  <2>1. /\ pc[u] = "payment" /\ pc'[u] = "apply" /\ my'[u].payment = p /\ my'[u].on = my[u].on
        /\ my'[u].amount = my[u].amount /\ my'[u].pays = my[u].pays
        /\ payment[p] = 0 /\ payment' = [payment EXCEPT ![p] = my[u].amount] /\ applied' = applied
    BY <1>7 DEF Receives, InsertPayment, Goes, Asks
  <2>2. my[u].amount > 0 /\ \A i \in Ids : i \in my[u].on <=> my[u].pays[i] > 0
    BY <1>0, <2>1 DEF PayingOK
  <2>3. payment'[p] # 0
    BY <1>0, <2>1, <2>2
  <2>4. \A i \in Ids : applied'[p][i] = 0
    BY <1>0, <2>1 DEF RowsOK
  <2> QED BY <1>1, <2>1, <2>2, <2>3, <2>4 DEF PayingOK, Paying
<1>8. CASE Allocates(u)
  <2>1. /\ pc[u] = "apply" /\ pc'[u] = "commit" /\ my'[u].payment = my[u].payment
        /\ my'[u].on = my[u].on /\ my'[u].amount = my[u].amount /\ my'[u].pays = my[u].pays
        /\ payment' = payment /\ applied' = applied
    BY <1>8 DEF Allocates, Apply, Same, Goes, Asks, documents
  <2> QED BY <1>0, <1>1, <2>1 DEF PayingOK, Paying
<1>9. CASE Commit(u) /\ pc'[u] = "postPayment" /\ my'[u] = my[u]
  <2>1. pc[u] = "commit" /\ payment' = payment
    BY <1>9 DEF Commit
  <2> QED BY <1>0, <1>1, <1>9, <2>1 DEF PayingOK, Paying
<1> QED BY <1>3, <1>4, <1>5, <1>6, <1>7, <1>8, <1>9, Moves DEF Acts

LEMMA StepShape ==
  ASSUME TypeOK, NEW u \in Users, Acts(u), ShapeInv
  PROVE  ShapeInv'
<1>1. TablesOK /\ HeldOK
  BY TypeParts
<1>2. \A v \in Users : (AboutOK(v) /\ AskedOK(v) /\ PayingOK(v))'
  <2>1. (AboutOK(u) /\ AskedOK(u) /\ PayingOK(u))'
    BY <1>1, StepAbout, StepAsked, StepPaying
  <2>2. \A v \in Users \ {u} : (AboutOK(v) /\ AskedOK(v) /\ PayingOK(v))'
    BY <1>1, StepOthers
  <2> QED BY <2>1, <2>2
<1>3. RowsOK'
  BY <1>1, StepRows
<1> QED BY <1>2, <1>3 DEF ShapeInv, HandlersOK

LEMMA InitShape == Init => ShapeInv
<1> SUFFICES ASSUME Init PROVE ShapeInv
  OBVIOUS
<1>1. RowsOK
  <2>1. \A p \in Payments : \A i \in Ids : applied[p][i] = 0
    BY DEF Init
  <2>2. CASE invoice = [i \in Ids |-> NoInvoice] /\ lines = [i \in Ids |-> 0]
    BY <2>1, <2>2, NoInvoiceType DEF RowsOK, Exists
  <2>3. ASSUME NEW a \in Totals,
               invoice = [[i \in Ids |-> NoInvoice] EXCEPT
                 ![1] = [no |-> 1, status |-> "DRAFT", deleted |-> FALSE,
                         total |-> a, paid |-> 0, balance |-> a]],
               lines = [[i \in Ids |-> 0] EXCEPT ![1] = a]
        PROVE  RowsOK
    <3>1. 1 \in Ids
      BY ConstantTypes
    <3>2. invoice[1].status = "DRAFT"
      BY <2>3, <3>1
    <3>3. \A i \in Ids \ {1} : invoice[i] = NoInvoice /\ lines[i] = 0
      BY <2>3
    <3> QED BY <2>1, <3>1, <3>2, <3>3, NoInvoiceType DEF RowsOK, Exists
  <2> QED BY <2>2, <2>3 DEF Init
<1>2. ASSUME NEW u \in Users PROVE AboutOK(u) /\ AskedOK(u) /\ PayingOK(u)
  <2>1. pc[u] = "idle" /\ my[u] = Fresh
    BY DEF Init
  <2> QED BY <2>1, FreshType DEF AboutOK, AskedOK, PayingOK, OfOne, Editing, Paying
<1> QED BY <1>1, <1>2 DEF ShapeInv, HandlersOK

-----------------------------------------------------------------------------
(* Numbers.  As long as the sequence was not written beside another        *)
(* request that is numbering, the next number is above that of every       *)
(* invoice that shows and every number held for an insert; a number held   *)
(* for an insert is used by nobody; one that is about to be written as the *)
(* next is above that of every invoice that shows.                         *)
NumbersOK == \A i \in Ids : Visible(i) => invoice[i].no < next

InsertOK(u) ==
  pc[u] = "insert" =>
    /\ my[u].no < next
    /\ \A i \in Ids : Visible(i) => invoice[i].no # my[u].no
    /\ \A v \in Users \ {u} : pc[v] = "insert" => my[v].no # my[u].no

RenumberOK(u) ==
  pc[u] = "renumber" => \A i \in Ids : Visible(i) => invoice[i].no < my[u].no

NumberInv == ~shuffled => NumbersOK /\ \A u \in Users : InsertOK(u) /\ RenumberOK(u)

(* What shows after a step, showed before it, or was inserted.             *)
LEMMA VisibleNumbers ==
  ASSUME TablesOK, HeldOK, NEW u \in Users, Acts(u), ShapeInv, NEW i \in Ids, Visible(i)'
  PROVE  \/ Visible(i) /\ invoice'[i].no = invoice[i].no
         \/ Insert(u, i) /\ invoice'[i].no = my[u].no
<1>0. invoice[i] \in RowType /\ my[u] \in HandlerType
  BY DEF TablesOK, HeldOK
<1>1. CASE invoice'[i] = invoice[i]
  BY <1>1 DEF Visible, Exists
<1>2. CASE Inserts(u, i)
  <2>1. my[u].no \in Nat /\ my[u].total \in Nat
    BY <1>0 DEF HandlerType
  <2> QED BY <1>2, <2>1, NewRowType DEF Inserts
<1>3. CASE Undoes(u, i)
  BY <1>3, GoneRowType DEF Undoes, Visible, Exists
<1>4. CASE Patches(u, i)
  BY <1>0, <1>4, PatchedType DEF Patches
<1>5. CASE Withdraws(u, i)
  BY <1>0, <1>5, DeletedRowType DEF Withdraws, Visible
<1>6. CASE Settles(u, i)
  <2>1. my[u].sum[i] \in Nat
    BY <1>0, <1>6 DEF Settles, HandlerType
  <2>2. invoice'[i].no = invoice[i].no /\ invoice'[i].deleted = invoice[i].deleted
    BY <1>0, <1>6, <2>1, SettledType DEF Settles
  <2>3. Exists(i)
    BY <1>6 DEF Settles, Commit, ShapeInv, HandlersOK, AboutOK
  <2> QED BY <2>2, <2>3 DEF Visible
<1> QED BY <1>1, <1>2, <1>3, <1>4, <1>5, <1>6, RowSteps

(* Every other step leaves the sequence alone.                             *)
LEMMA Unnumbered ==
  ASSUME TablesOK, HeldOK, NEW u \in Users, Acts(u),
         ~Upsert(u), ~Allocate(u), ~Context(u), ~Renumber(u), \A i \in Ids : ~Insert(u, i)
  PROVE  /\ next' = next /\ shuffled' = shuffled /\ pc'[u] \notin {"insert", "renumber"}
<1>1. CASE Request(u)
  BY <1>1, RequestMoves DEF Begun, Ensure, AfterEnsure, history
<1>2. CASE Handle(u) \/ Stop(u)
  <2>1. ASSUME Stop(u) \/ InsertRefused(u) \/ Apply(u) \/ Commit(u) \/ PostPayment(u)
        PROVE  next' = next /\ shuffled' = shuffled
    BY <2>1 DEF Stop, InsertRefused, Apply, Commit, PostPayment, history
  <2>2. ASSUME NEW i \in Ids,
               \/ InsertLines(u, i) \/ LinesFail(u, i) \/ Undo(u, i) \/ Existing(u, i)
               \/ Signature(u, i) \/ DeleteLines(u, i) \/ Patch(u, i) \/ PostRead(u, i)
               \/ PostWrite(u, i) \/ DeleteWrite(u, i)
        PROVE  next' = next /\ shuffled' = shuffled
    BY <2>2 DEF InsertLines, LinesFail, Undo, Existing, Signature, DeleteLines, Patch,
                PostRead, PostWrite, DeleteWrite, history
  <2>3. ASSUME NEW p \in Payments, InsertPayment(u, p) PROVE next' = next /\ shuffled' = shuffled
    BY <2>3 DEF InsertPayment, history
  <2>4. next' = next /\ shuffled' = shuffled
    BY <1>2, <2>1, <2>2, <2>3 DEF Handle
  <2>5. pc'[u] \notin {"insert", "renumber"}
    <3>1. CASE Ends(u)
      BY <3>1 DEF Ends
    <3>2. ASSUME NEW i \in Ids, GoesOn(u, i) \/ Inserted(u, i) \/ Reads(u, i) \/ ReadsToPost(u, i)
          PROVE  pc'[u] \notin {"insert", "renumber"}
      BY <3>2 DEF GoesOn, Inserted, Reads, ReadsToPost, Goes
    <3>3. ASSUME NEW p \in Payments, Receives(u, p) PROVE pc'[u] \notin {"insert", "renumber"}
      BY <3>3 DEF Receives, Goes
    <3>4. CASE Allocates(u)
      BY <3>4 DEF Allocates, Goes
    <3>5. ~TakesNumber(u)
      BY DEF TakesNumber
    <3> QED BY <1>2, <3>1, <3>2, <3>3, <3>4, <3>5, Moves
  <2> QED BY <2>4, <2>5
<1> QED BY <1>1, <1>2 DEF Acts

LEMMA StepNumber ==
  ASSUME TablesOK, HeldOK, NEW u \in Users, Acts(u), ShapeInv, NumberInv, ~shuffled'
  PROVE  (NumbersOK /\ \A v \in Users : InsertOK(v) /\ RenumberOK(v))'
<1>0. /\ next \in Nat /\ my[u] \in HandlerType /\ my[u].no \in Nat
      /\ \A i \in Ids : invoice[i].no \in Nat
  BY DEF TablesOK, HeldOK, HandlerType, RowType
<1>1. \A v \in Users \ {u} : pc'[v] = pc[v] /\ my'[v] = my[v]
  BY OthersStay
<1>2. \A i \in Ids : Visible(i)' =>
        \/ Visible(i) /\ invoice'[i].no = invoice[i].no
        \/ Insert(u, i) /\ invoice'[i].no = my[u].no
  BY VisibleNumbers
<1>3. ASSUME ~shuffled
      PROVE  NumbersOK /\ \A v \in Users : InsertOK(v) /\ RenumberOK(v)
  BY <1>3 DEF NumberInv
<1>4. CASE Upsert(u)
  <2>1. /\ pc[u] = "upsert" /\ next' = 1 /\ ~shuffled /\ next = 0 /\ ~Beside(u, Numbering)
        /\ UNCHANGED documents
    BY <1>4 DEF Upsert
  <2>2. pc'[u] \in {"allocate", "context"}
    BY <1>4, Moved, GotoBecome DEF Upsert, AfterEnsure
  <2>3. \A v \in Users \ {u} : pc'[v] \notin {"insert", "renumber"}
    BY <1>1, <2>1 DEF Beside, Numbering
  <2>4. \A i \in Ids : ~Visible(i)'
    <3>1. invoice' = invoice
      BY <2>1 DEF documents
    <3>2. \A i \in Ids : ~Visible(i)
      BY <1>0, <1>3, <2>1 DEF NumbersOK
    <3> QED BY <3>1, <3>2 DEF Visible, Exists
  <2> QED BY <2>2, <2>3, <2>4 DEF NumbersOK, InsertOK, RenumberOK
<1>5. CASE Allocate(u)
  <2>1. /\ next' = next + 1 /\ ~shuffled /\ ~Beside(u, {"upsert", "context", "renumber"})
        /\ UNCHANGED documents
    BY <1>5 DEF Allocate
  <2>2. [my[u] EXCEPT !.no = next] \in HandlerType /\ [my[u] EXCEPT !.no = next].no = next
    BY <1>0, NumberField
  <2>3. pc'[u] = "insert" /\ my'[u].no = next
    BY <1>5, <2>2, Moved, GotoBecome DEF Allocate
  <2>4. \A v \in Users \ {u} : pc[v] # "renumber"
    BY <2>1 DEF Beside
  <2>5. \A i \in Ids : Visible(i)' => Visible(i) /\ invoice'[i] = invoice[i]
    BY <2>1 DEF documents, Visible, Exists
  <2>6. \A v \in Users \ {u} : pc[v] = "insert" => my[v].no < next /\ my[v].no \in Nat
    BY <1>3, <2>1 DEF InsertOK, HeldOK, HandlerType
  <2>7. NumbersOK'
    BY <1>0, <1>3, <2>1, <2>5 DEF NumbersOK
  <2>8. InsertOK(u)'
    BY <1>0, <1>1, <1>3, <2>1, <2>3, <2>5, <2>6 DEF InsertOK, NumbersOK
  <2>9. ASSUME NEW v \in Users \ {u} PROVE InsertOK(v)'
    BY <1>0, <1>1, <1>3, <2>1, <2>3, <2>5, <2>6 DEF InsertOK
  <2>10. \A v \in Users : pc'[v] # "renumber"
    BY <1>1, <2>3, <2>4
  <2> QED BY <2>7, <2>8, <2>9, <2>10 DEF RenumberOK
<1>6. CASE Context(u)
  <2>1. next' = next /\ ~shuffled /\ UNCHANGED documents /\ pc[u] = "context"
    BY <1>6 DEF Context, history
  <2>2. \A i \in Ids : Visible(i)' => Visible(i) /\ invoice'[i] = invoice[i]
    BY <2>1 DEF documents, Visible, Exists
  <2>3. \/ pc'[u] = "idle"
        \/ pc'[u] = "renumber" /\ my'[u].no \in Nat /\ my'[u].no >= MinNext(Issued)
    <3>1. CASE Ends(u)
      BY <3>1 DEF Ends
    <3>2. CASE TakesNumber(u)
      BY <2>1, <3>2 DEF TakesNumber, Goes, HandlerType, Upsert, Allocate
    <3>3. ASSUME NEW i \in Ids, GoesOn(u, i) \/ Inserted(u, i) \/ Reads(u, i) \/ ReadsToPost(u, i)
          PROVE  FALSE
      BY <2>1, <3>3 DEF GoesOn, Inserted, Reads, ReadsToPost, InsertLines, LinesFail, Signature,
                        DeleteLines, Patch, Insert, Existing, PostRead, At
    <3>4. ASSUME NEW p \in Payments, Receives(u, p) PROVE FALSE
      BY <2>1, <3>4 DEF Receives, InsertPayment
    <3>5. ~Allocates(u) /\ ~Commit(u)
      BY <2>1 DEF Allocates, Apply, Commit
    <3> QED BY <1>6, <3>1, <3>2, <3>3, <3>4, <3>5, Moves DEF Handle
  <2>4. NumbersOK'
    BY <1>3, <2>1, <2>2 DEF NumbersOK
  <2>5. \A i \in Ids : Visible(i) => invoice[i].no < MinNext(Issued) /\ MinNext(Issued) \in Nat
    BY IssuedType
  <2>6. RenumberOK(u)' /\ InsertOK(u)'
    BY <1>0, <2>2, <2>3, <2>5 DEF RenumberOK, InsertOK
  <2>7. ASSUME NEW v \in Users \ {u} PROVE InsertOK(v)' /\ RenumberOK(v)'
    BY <1>1, <1>3, <2>1, <2>2, <2>3 DEF InsertOK, RenumberOK
  <2> QED BY <2>4, <2>6, <2>7
<1>7. CASE Renumber(u)
  <2>1. /\ pc[u] = "renumber" /\ next' = my[u].no /\ ~shuffled /\ ~Beside(u, Numbering)
        /\ UNCHANGED documents
    BY <1>7 DEF Renumber
  <2>2. pc'[u] = "idle"
    BY <1>7, Returned, Moved DEF Renumber
  <2>3. \A v \in Users : pc'[v] \notin {"insert", "renumber"}
    BY <1>1, <2>1, <2>2 DEF Beside, Numbering
  <2>4. NumbersOK'
    BY <1>3, <2>1 DEF NumbersOK, RenumberOK, documents, Visible, Exists
  <2> QED BY <2>3, <2>4 DEF InsertOK, RenumberOK
<1>8. ASSUME NEW k \in Ids, Insert(u, k)
      PROVE  (NumbersOK /\ \A v \in Users : InsertOK(v) /\ RenumberOK(v))'
  <2>1. pc[u] = "insert" /\ next' = next /\ ~shuffled /\ ~Beside(u, {"renumber"})
    BY <1>8 DEF Insert
  <2>2. pc'[u] = "lines"
    BY <1>8, Moved, GotoBecome DEF Insert
  <2>3. \A v \in Users : pc'[v] # "renumber"
    BY <1>1, <2>1, <2>2 DEF Beside
  <2>4. my[u].no < next
    BY <1>3, <2>1 DEF InsertOK
  <2>5. NumbersOK'
    BY <1>2, <1>3, <2>1, <2>4 DEF NumbersOK
  <2>6. ASSUME NEW v \in Users \ {u}, pc[v] = "insert"
        PROVE  InsertOK(v)'
    <3>1. my[v].no # my[u].no /\ \A i \in Ids : Visible(i) => invoice[i].no # my[v].no
      BY <1>3, <2>1, <2>6 DEF InsertOK
    <3> QED BY <1>1, <1>2, <1>3, <2>1, <2>2, <2>6, <3>1 DEF InsertOK
  <2>7. \A v \in Users : InsertOK(v)'
    BY <1>1, <2>2, <2>6 DEF InsertOK
  <2> QED BY <2>3, <2>5, <2>7 DEF RenumberOK
<1>9. CASE /\ ~Upsert(u) /\ ~Allocate(u) /\ ~Context(u) /\ ~Renumber(u)
           /\ \A i \in Ids : ~Insert(u, i)
  <2>1. next' = next /\ shuffled' = shuffled /\ pc'[u] \notin {"insert", "renumber"}
    BY <1>9, Unnumbered
  <2>2. \A i \in Ids : Visible(i)' => Visible(i) /\ invoice'[i].no = invoice[i].no
    BY <1>2, <1>9
  <2>3. NumbersOK'
    BY <1>3, <2>1, <2>2 DEF NumbersOK
  <2>4. ASSUME NEW v \in Users PROVE InsertOK(v)' /\ RenumberOK(v)'
    <3>1. CASE v = u
      BY <2>1, <3>1 DEF InsertOK, RenumberOK
    <3>2. CASE v # u
      BY <1>1, <1>3, <2>1, <2>2, <3>2 DEF InsertOK, RenumberOK
    <3> QED BY <3>1, <3>2
  <2> QED BY <2>3, <2>4
<1> QED BY <1>4, <1>5, <1>6, <1>7, <1>8, <1>9

LEMMA InitNumber == Init => NumberInv
<1> SUFFICES ASSUME Init PROVE NumberInv
  OBVIOUS
<1>1. \A u \in Users : pc[u] = "idle"
  BY DEF Init
<1>2. NumbersOK
  <2>1. CASE invoice = [i \in Ids |-> NoInvoice]
    BY <2>1, NoInvoiceType DEF NumbersOK, Visible, Exists
  <2>2. ASSUME NEW a \in Totals,
               invoice = [[i \in Ids |-> NoInvoice] EXCEPT
                 ![1] = [no |-> 1, status |-> "DRAFT", deleted |-> FALSE,
                         total |-> a, paid |-> 0, balance |-> a]],
               next = 2
        PROVE  NumbersOK
    <3>1. 1 \in Ids
      BY ConstantTypes
    <3>2. invoice[1].no = 1
      BY <2>2, <3>1
    <3>3. \A i \in Ids \ {1} : ~Visible(i)
      BY <2>2, NoInvoiceType DEF Visible, Exists
    <3> QED BY <2>2, <3>2, <3>3 DEF NumbersOK
  <2> QED BY <2>1, <2>2 DEF Init
<1> QED BY <1>1, <1>2 DEF NumberInv, InsertOK, RenumberOK

(* A number that was allocated is good for an insert: no invoice has it    *)
(* and nobody else holds it, unless the sequence was written while another *)
(* request was numbering, or an invoice was deleted.                       *)
THEOREM AllocatedNumberIsFree == Spec => []AllocatedIsFree
<1> DEFINE Inv == TypeOK /\ ShapeInv /\ NumberInv
<1>1. Init => Inv
  BY InitType, InitShape, InitNumber
<1>2. Inv /\ UNCHANGED vars => Inv'
  <2> SUFFICES ASSUME Inv, UNCHANGED vars PROVE Inv'
    OBVIOUS
  <2>1. /\ UNCHANGED <<invoice, lines, payment, applied, ledger, next, pc, my>>
        /\ UNCHANGED <<requests, stops, raced, cut, shuffled, stated>>
    BY DEF vars, documents, history
  <2>2. TypeOK'
    BY <2>1 DEF TypeOK
  <2>3. ShapeInv'
    BY <2>1 DEF ShapeInv, RowsOK, HandlersOK, AboutOK, AskedOK, PayingOK, Exists
  <2>4. NumberInv'
    BY <2>1 DEF NumberInv, NumbersOK, InsertOK, RenumberOK, Visible, Exists
  <2> QED BY <2>2, <2>3, <2>4
<1>3. Inv /\ [Next]_vars => Inv'
  <2> SUFFICES ASSUME Inv, NEW u \in Users, Acts(u) PROVE Inv'
    BY <1>2 DEF Next, Acts
  <2>1. TablesOK /\ HeldOK
    BY TypeParts
  <2>2. NumberInv'
    BY <2>1, StepNumber DEF NumberInv
  <2> QED BY <2>2, StepType, StepShape
<1>4. Inv => AllocatedIsFree
  <2> SUFFICES ASSUME Inv, ~shuffled, \A i \in Ids : ~invoice[i].deleted,
                      NEW u \in Users, pc[u] = "insert"
               PROVE  /\ \A i \in Ids : Exists(i) => invoice[i].no # my[u].no
                      /\ \A v \in Users \ {u} : pc[v] = "insert" => my[v].no # my[u].no
    BY DEF AllocatedIsFree
  <2>1. InsertOK(u)
    BY DEF NumberInv
  <2> QED BY <2>1 DEF InsertOK, Visible
<1> HIDE DEF Inv
<1> QED BY <1>1, <1>3, <1>4, PTL DEF Spec

-----------------------------------------------------------------------------
(* What a handler knows of an invoice it holds, as long as nobody wrote it *)
(* beside another who held it; what the ledger and the lines have of an    *)
(* invoice whose edits and posting were not cut short.                     *)
Posted == {"SENT", "PARTIAL", "PAID"}

KnowsDraft(u, i) ==
  /\ pc[u] \in {"lines", "deleteLines", "deleteWrite"} =>
       invoice[i].status \in Editable /\ ~invoice[i].deleted
  /\ pc[u] = "lines" =>
       /\ lines[i] = 0
       /\ my[u].kind = "create" => my[u].total = invoice[i].total

KnowsEdit(u, i) ==
  my[u].kind = "update" /\ pc[u] \in {"signature", "deleteLines", "lines", "patch"} =>
    /\ Visible(i) /\ invoice[i].status # "PAID"
    /\ IsPosted(invoice[i].status) =>
         ~my[u].rewrite /\ my[u].status \in {"NONE", invoice[i].status}
    /\ my[u].paid = invoice[i].paid
    /\ pc[u] = "patch" /\ my[u].rewrite => lines[i] = my[u].total

KnowsSent(u, i) ==
  /\ my[u].kind = "update" /\ pc[u] \in Editing \cup {"lines"} =>
       (my[u].was = "SENT" => invoice[i].status \notin Editable)
  /\ pc[u] = "undo" => i \in cut
  /\ pc[u] \in {"postRead", "postWrite"} /\ i \notin cut =>
       invoice[i].status \in Posted /\ ~invoice[i].deleted
  /\ pc[u] = "postWrite" /\ i \notin cut =>
       my[u].total = invoice[i].total /\ lines[i] = invoice[i].total

KnowsSum(u, i) == pc[u] = "commit" => my[u].sum[i] = Allocated(i) + my[u].pays[i]

Knows(u, i) == KnowsDraft(u, i) /\ KnowsEdit(u, i) /\ KnowsSent(u, i) /\ KnowsSum(u, i)

KnownInv == \A u \in Users : \A i \in my[u].on \ raced : Knows(u, i)

Posting(u, i)   == pc[u] \in {"postRead", "postWrite"} /\ i \in my[u].on
Rewriting(u, i) == At(u, "lines", i) \/ (At(u, "patch", i) /\ my[u].rewrite)

PostedOK(i) ==
  ledger[i] # 0 =>
    /\ invoice[i].status \in Posted /\ ~invoice[i].deleted
    /\ ledger[i] = invoice[i].total /\ lines[i] = invoice[i].total
SentOK(i) ==
  invoice[i].status = "SENT" /\ invoice[i].total > 0 =>
    ledger[i] # 0 \/ \E u \in Users : Posting(u, i)
LinesOK(i) == Exists(i) => lines[i] = invoice[i].total \/ \E u \in Users : Rewriting(u, i)

LedgerInv == \A i \in Ids \ (raced \cup cut) : PostedOK(i) /\ SentOK(i) /\ LinesOK(i)

BalanceOK(i) ==
  Exists(i) =>
    /\ invoice[i].paid = Least(invoice[i].total, Allocated(i))
    /\ invoice[i].balance = Most(invoice[i].total - Allocated(i), 0)
    /\ Allocated(i) > 0 =>
         invoice[i].status = IF Allocated(i) >= invoice[i].total THEN "PAID" ELSE "PARTIAL"
    /\ Allocated(i) = 0 /\ invoice[i].status \in {"PARTIAL", "PAID"} => i \in stated

BalanceInv == \A i \in Ids \ raced : BalanceOK(i)

(* What is written down of the past stays.                                 *)
LEMMA HistoryGrows ==
  ASSUME NEW u \in Users, Acts(u)
  PROVE  raced \subseteq raced' /\ cut \subseteq cut' /\ stated \subseteq stated'
<1>1. CASE Request(u)
  BY <1>1 DEF Request, Reset, Save, Create, Delete, Pay, Receive, Update, Arrive, history
<1>2. CASE \/ Stop(u) \/ Upsert(u) \/ Allocate(u) \/ Context(u) \/ Renumber(u) \/ InsertRefused(u)
           \/ Apply(u) \/ Commit(u) \/ PostPayment(u)
  BY <1>2 DEF Stop, Upsert, Allocate, Context, Renumber, InsertRefused, Apply, Commit, PostPayment,
              history, Writes
<1>3. ASSUME NEW k \in Ids,
             \/ Insert(u, k) \/ InsertLines(u, k) \/ LinesFail(u, k) \/ Undo(u, k)
             \/ Existing(u, k) \/ Signature(u, k) \/ DeleteLines(u, k) \/ Patch(u, k)
             \/ PostRead(u, k) \/ PostWrite(u, k) \/ DeleteWrite(u, k)
      PROVE  raced \subseteq raced' /\ cut \subseteq cut' /\ stated \subseteq stated'
  BY <1>3 DEF Insert, InsertLines, LinesFail, Undo, Existing, Signature, DeleteLines, Patch,
              PostRead, PostWrite, DeleteWrite, history, Writes
<1>4. ASSUME NEW p \in Payments, InsertPayment(u, p) PROVE raced \subseteq raced' /\ cut \subseteq cut' /\ stated \subseteq stated'
  BY <1>4 DEF InsertPayment, history
<1> QED BY <1>1, <1>2, <1>3, <1>4 DEF Acts, Handle

LEMMA Wrote ==
  ASSUME TablesOK, HeldOK, NEW u \in Users, Acts(u), ShapeInv, NEW i \in Ids
  PROVE  \/ /\ invoice'[i] = invoice[i] /\ lines'[i] = lines[i]
            /\ \A p \in Payments : applied'[p][i] = applied[p][i]
         \/ Insert(u, i)
         \/ \E S \in SUBSET Ids : Writes(u, S) /\ i \in S
<1>1. ASSUME Undo(u, i) \/ Patch(u, i) \/ DeleteWrite(u, i) \/ InsertLines(u, i) \/ DeleteLines(u, i)
      PROVE  \E S \in SUBSET Ids : Writes(u, S) /\ i \in S
  <2>1. Writes(u, {i})
    BY <1>1 DEF Undo, Patch, DeleteWrite, InsertLines, DeleteLines
  <2> QED BY <2>1
<1>2. ASSUME Commit(u), i \in my[u].on PROVE \E S \in SUBSET Ids : Writes(u, S) /\ i \in S
  BY <1>2 DEF Commit, HeldOK, HandlerType
<1>3. ASSUME invoice'[i] # invoice[i]
      PROVE  Insert(u, i) \/ \E S \in SUBSET Ids : Writes(u, S) /\ i \in S
  BY <1>1, <1>2, <1>3, RowSteps DEF Inserts, Undoes, Patches, Withdraws, Settles
<1>4. ASSUME lines'[i] # lines[i] PROVE \E S \in SUBSET Ids : Writes(u, S) /\ i \in S
  BY <1>1, <1>4, LineSteps
<1>5. ASSUME NEW p \in Payments, applied'[p][i] # applied[p][i]
      PROVE  \E S \in SUBSET Ids : Writes(u, S) /\ i \in S
  BY <1>2, <1>5, PaymentSteps, Applies
<1> QED BY <1>3, <1>4, <1>5

(* What a handler holds stays as it read it, or the invoice is raced.      *)
LEMMA OthersKeep ==
  ASSUME TablesOK, HeldOK, NEW u \in Users, Acts(u), ShapeInv,
         NEW v \in Users \ {u}, NEW i \in Ids, Holds(v, i), i \notin raced'
  PROVE  /\ invoice'[i] = invoice[i] /\ lines'[i] = lines[i]
         /\ \A p \in Payments : applied'[p][i] = applied[p][i]
<1>1. ~Insert(u, i)
  BY DEF Insert, Holds, ShapeInv, HandlersOK, AboutOK
<1>2. \A S \in SUBSET Ids : Writes(u, S) => i \notin S
  BY DEF Writes
<1> QED BY <1>1, <1>2, Wrote

LEMMA AllocatedKept ==
  ASSUME TablesOK, TablesOK', NEW i \in Ids, \A p \in Payments : applied'[p][i] = applied[p][i]
  PROVE  Allocated(i)' = Allocated(i)
<1>1. [p \in Payments |-> applied'[p][i]] = [p \in Payments |-> applied[p][i]]
  OBVIOUS
<1> QED BY <1>1 DEF Allocated

(* What an edit, and a handler at work on the lines, know of an invoice.   *)
LEMMA EditOf ==
  ASSUME TablesOK, HeldOK, ShapeInv, KnownInv, NEW u \in Users, NEW i \in Ids, i \notin raced,
         At(u, "patch", i)
  PROVE  /\ my[u].kind = "update" /\ my[u].status \in Texts \cup {"NONE"}
         /\ Visible(i) /\ invoice[i].status \in Editable \cup {"SENT", "PARTIAL"}
         /\ invoice[i].status \notin Editable =>
              ~my[u].rewrite /\ my[u].status \in {"NONE", invoice[i].status}
         /\ my[u].rewrite => lines[i] = my[u].total
         /\ my[u].paid = invoice[i].paid
         /\ my[u].was = "SENT" => invoice[i].status \notin Editable
<1>1. my[u].kind = "update" /\ my[u].status \in Texts \cup {"NONE"}
  BY DEF At, ShapeInv, HandlersOK, AskedOK, Editing
<1>2. KnowsEdit(u, i) /\ KnowsSent(u, i)
  BY DEF At, KnownInv, Knows
<1>3. /\ Visible(i) /\ invoice[i].status # "PAID" /\ my[u].paid = invoice[i].paid
      /\ IsPosted(invoice[i].status) => ~my[u].rewrite /\ my[u].status \in {"NONE", invoice[i].status}
      /\ my[u].rewrite => lines[i] = my[u].total
  BY <1>1, <1>2 DEF At, KnowsEdit
<1>4. invoice[i].status \in Editable \cup {"SENT", "PARTIAL"}
  BY <1>3 DEF Visible, Exists, TablesOK, RowType, Statuses, Texts, Editable
<1>5. my[u].was = "SENT" => invoice[i].status \notin Editable
  BY <1>1, <1>2 DEF At, KnowsSent, Editing
<1> QED BY <1>1, <1>3, <1>4, <1>5 DEF IsPosted

LEMMA DraftOf ==
  ASSUME KnownInv, NEW u \in Users, NEW i \in Ids, i \notin raced,
         At(u, "lines", i) \/ At(u, "deleteLines", i) \/ At(u, "deleteWrite", i)
  PROVE  /\ invoice[i].status \in Editable /\ ~invoice[i].deleted
         /\ At(u, "lines", i) =>
              lines[i] = 0 /\ (my[u].kind = "create" => my[u].total = invoice[i].total)
BY DEF At, KnownInv, Knows, KnowsDraft

(* An invoice that was made and may not be edited does not become a draft. *)
LEMMA NoDraftAgain ==
  ASSUME TablesOK, HeldOK, NEW u \in Users, Acts(u), ShapeInv, KnownInv,
         NEW i \in Ids, i \notin raced, invoice[i].status \notin Editable \cup {"NONE"}
  PROVE  invoice'[i].status \notin Editable
<1>0. invoice[i] \in RowType /\ my[u] \in HandlerType
  BY DEF TablesOK, HeldOK
<1>1. ~Inserts(u, i)
  BY DEF Inserts, Insert
<1>2. CASE Undoes(u, i)
  BY <1>2, GoneRowType DEF Undoes, Editable
<1>3. CASE Patches(u, i)
  <2>1. At(u, "patch", i)
    BY <1>3 DEF Patches, Patch
  <2>2. my[u].status \in {"NONE", invoice[i].status}
    BY <2>1, EditOf
  <2>3. invoice'[i].status = IF my[u].status = "NONE" THEN invoice[i].status ELSE my[u].status
    BY <1>0, <1>3, PatchedType DEF Patches
  <2> QED BY <2>2, <2>3
<1>4. CASE Withdraws(u, i)
  BY <1>0, <1>4, DeletedRowType DEF Withdraws
<1>5. CASE Settles(u, i)
  <2>1. my[u].sum[i] \in Nat
    BY <1>0, <1>5 DEF Settles, HandlerType
  <2> QED BY <1>0, <1>5, <2>1, SettledType DEF Settles, Editable
<1> QED BY <1>1, <1>2, <1>3, <1>4, <1>5, RowSteps

(* An invoice that was posted stays as it was posted.                      *)
LEMMA PostedStays ==
  ASSUME TablesOK, HeldOK, NEW u \in Users, Acts(u), ShapeInv, KnownInv,
         NEW i \in Ids, i \notin raced, i \notin cut,
         invoice[i].status \in Posted
  PROVE  /\ invoice'[i].status \in Posted /\ (~invoice[i].deleted => ~invoice'[i].deleted)
         /\ invoice'[i].total = invoice[i].total /\ lines'[i] = lines[i]
<1>0. invoice[i] \in RowType /\ my[u] \in HandlerType
  BY DEF TablesOK, HeldOK
<1>1. ~Insert(u, i)
  BY DEF Insert, Posted
<1>2. ~At(u, "undo", i)
  BY DEF At, KnownInv, Knows, KnowsSent
<1>3. ~At(u, "lines", i) /\ ~At(u, "deleteLines", i) /\ ~At(u, "deleteWrite", i)
  BY DraftOf DEF Posted, Editable
<1>4. lines'[i] = lines[i]
  BY <1>2, <1>3, LineSteps DEF InsertLines, DeleteLines, Undo
<1>5. CASE Patches(u, i)
  <2>1. At(u, "patch", i)
    BY <1>5 DEF Patches, Patch
  <2>2. my[u].status \in {"NONE", invoice[i].status} /\ ~my[u].rewrite
    BY <2>1, EditOf DEF Posted, Editable
  <2>3. /\ invoice'[i].status = IF my[u].status = "NONE" THEN invoice[i].status ELSE my[u].status
        /\ invoice'[i].total = IF my[u].rewrite THEN my[u].total ELSE invoice[i].total
        /\ invoice'[i].deleted = invoice[i].deleted
    BY <1>0, <1>5, PatchedType DEF Patches
  <2> QED BY <1>4, <2>2, <2>3
<1>6. CASE Settles(u, i)
  <2>1. my[u].sum[i] \in Nat
    BY <1>0, <1>6 DEF Settles, HandlerType
  <2>2. /\ invoice'[i].status \in {"PAID", "PARTIAL"} /\ invoice'[i].total = invoice[i].total
        /\ invoice'[i].deleted = invoice[i].deleted
    BY <1>0, <1>6, <2>1, SettledType DEF Settles
  <2> QED BY <1>4, <2>2 DEF Posted
<1> QED BY <1>1, <1>2, <1>3, <1>4, <1>5, <1>6, RowSteps
        DEF Inserts, Insert, Undoes, Undo, Withdraws, DeleteWrite

(* The others still know what they knew.                                   *)
LEMMA OthersKnow ==
  ASSUME TablesOK, TablesOK', HeldOK, NEW u \in Users, Acts(u), ShapeInv, KnownInv,
         NEW v \in Users \ {u}, NEW i \in Ids, i \in my[v].on, i \notin raced'
  PROVE  Knows(v, i)'
<1>0. pc'[v] = pc[v] /\ my'[v] = my[v] /\ i \notin raced /\ cut \subseteq cut'
  BY OthersStay, HistoryGrows
<1>1. Knows(v, i)
  BY <1>0 DEF KnownInv
<1>2. AboutOK(v) /\ AskedOK(v)
  BY DEF ShapeInv, HandlersOK
<1>3. CASE pc[v] \in Holding
  <2>1. /\ invoice'[i] = invoice[i] /\ lines'[i] = lines[i]
        /\ \A p \in Payments : applied'[p][i] = applied[p][i]
    BY <1>3, OthersKeep DEF Holds
  <2>2. Allocated(i)' = Allocated(i)
    BY <2>1, AllocatedKept
  <2>3. KnowsDraft(v, i)'
    BY <1>0, <1>1, <2>1 DEF Knows, KnowsDraft
  <2>4. KnowsEdit(v, i)'
    BY <1>0, <1>1, <2>1 DEF Knows, KnowsEdit, Visible, Exists
  <2>5. KnowsSent(v, i)'
    BY <1>0, <1>1, <1>3, <2>1 DEF Knows, KnowsSent
  <2>6. KnowsSum(v, i)'
    BY <1>0, <1>1, <2>2 DEF Knows, KnowsSum
  <2> QED BY <2>3, <2>4, <2>5, <2>6 DEF Knows
<1>4. CASE pc[v] = "existing"
  <2>1. ASSUME my[v].was = "SENT", my[v].kind = "update" PROVE invoice'[i].status \notin Editable
    <3>1. invoice[i].status \notin Editable \cup {"NONE"}
      BY <1>1, <1>2, <1>4, <2>1 DEF Knows, KnowsSent, Editing, AboutOK
    <3> QED BY <1>0, <3>1, NoDraftAgain
  <2> QED BY <1>0, <1>4, <2>1 DEF Knows, KnowsDraft, KnowsEdit, KnowsSent, KnowsSum
<1>5. CASE pc[v] = "postRead"
  <2>1. ASSUME i \notin cut' PROVE invoice'[i].status \in Posted /\ ~invoice'[i].deleted
    <3>1. i \notin cut /\ invoice[i].status \in Posted /\ ~invoice[i].deleted
      BY <1>0, <1>1, <1>5, <2>1 DEF Knows, KnowsSent
    <3> QED BY <1>0, <3>1, PostedStays
  <2> QED BY <1>0, <1>5, <2>1 DEF Knows, KnowsDraft, KnowsEdit, KnowsSent, KnowsSum, Editing
<1>6. CASE pc[v] \notin Holding \cup {"existing", "postRead"}
  BY <1>0, <1>6 DEF Knows, KnowsDraft, KnowsEdit, KnowsSent, KnowsSum, Editing, Holding
<1> QED BY <1>3, <1>4, <1>5, <1>6

(* While nobody rewrites an invoice, its lines add up to what it shows;    *)
(* nobody rewrites one that was posted.                                    *)
LEMMA PostedLines ==
  ASSUME TablesOK, HeldOK, ShapeInv, KnownInv, LedgerInv,
         NEW i \in Ids, i \notin raced, i \notin cut, invoice[i].status \in Posted
  PROVE  lines[i] = invoice[i].total
<1>1. LinesOK(i) /\ Exists(i)
  BY DEF LedgerInv, Exists, Posted
<1>2. ASSUME NEW v \in Users, Rewriting(v, i) PROVE FALSE
  <2>1. ~At(v, "lines", i)
    BY DraftOf DEF Posted, Editable
  <2>2. At(v, "patch", i) /\ my[v].rewrite
    BY <1>2, <2>1 DEF Rewriting
  <2> QED BY <2>2, EditOf DEF Posted, Editable
<1> QED BY <1>1, <1>2 DEF LinesOK

(* What a handler knows when it moves on.                                  *)
LEMMA RequestKnows ==
  ASSUME TablesOK, HeldOK, NEW u \in Users, Request(u), NEW i \in Ids, i \in my'[u].on
  PROVE  Knows(u, i)'
<1>1. UNCHANGED documents
  BY RequestMoves
<1>2. \/ pc'[u] = "deleteWrite" /\ my'[u].kind = "delete"
           /\ invoice[i].status \in Editable /\ ~invoice[i].deleted
      \/ pc'[u] = "payment"
      \/ pc'[u] = "existing" /\ my'[u].was = invoice[i].status
  BY RequestMoves DEF Begun, Visible
<1> QED BY <1>1, <1>2 DEF documents, Knows, KnowsDraft, KnowsEdit, KnowsSent, KnowsSum, Editing,
              Editable

LEMMA InsertedKnows ==
  ASSUME TablesOK, HeldOK, NEW u \in Users, Acts(u), ShapeInv,
         NEW i \in Ids, Inserted(u, i)
  PROVE  Knows(u, i)'
<1>0. my[u].no \in Nat /\ my[u].total \in Nat /\ pc[u] = "insert"
  BY DEF HeldOK, HandlerType, Inserted, Insert
<1>1. my[u].kind = "create"
  BY <1>0 DEF ShapeInv, HandlersOK, AskedOK
<1>2. pc'[u] = "lines" /\ my'[u].kind = "create" /\ my'[u].total = my[u].total
  BY <1>1 DEF Inserted, Goes, Asks
<1>3. invoice'[i] = NewRow(my[u].no, my[u].total) /\ lines' = lines
  BY DEF Inserted, Insert, NewRow, TablesOK
<1>4. invoice'[i].status = "DRAFT" /\ ~invoice'[i].deleted /\ invoice'[i].total = my[u].total
  BY <1>0, <1>3, NewRowType
<1>5. lines[i] = 0
  BY DEF Inserted, Insert, ShapeInv, RowsOK
<1> QED BY <1>2, <1>3, <1>4, <1>5 DEF Knows, KnowsDraft, KnowsEdit, KnowsSent, KnowsSum, Editable

LEMMA GoingOnKnows ==
  ASSUME TablesOK, HeldOK, NEW u \in Users, Acts(u), ShapeInv, KnownInv,
         NEW i \in Ids, i \notin raced, GoesOn(u, i), my'[u] = my[u]
  PROVE  Knows(u, i)'
<1>0. Knows(u, i) /\ AskedOK(u) /\ pc[u] \in OfOne /\ i \in my[u].on
  BY DEF KnownInv, ShapeInv, HandlersOK, GoesOn, InsertLines, LinesFail, Signature, DeleteLines,
         Patch, At, OfOne
<1>1. CASE InsertLines(u, i) /\ pc'[u] = "patch" /\ my[u].kind # "create" /\ Exists(i)
  <2>1. At(u, "lines", i) /\ my[u].kind = "update"
    BY <1>0, <1>1 DEF InsertLines, At, AskedOK
  <2>2. lines[i] = 0
    BY <2>1, DraftOf
  <2>3. lines'[i] = my[u].total /\ invoice' = invoice
    <3>1. lines' = [lines EXCEPT ![i] = lines[i] + my[u].total] /\ invoice' = invoice
      BY <1>1 DEF InsertLines
    <3> QED BY <2>2, <3>1 DEF TablesOK, HeldOK, HandlerType
  <2> QED BY <1>0, <1>1, <2>1, <2>3
          DEF At, Knows, KnowsDraft, KnowsEdit, KnowsSent, KnowsSum, Editing, Visible, Exists
<1>2. CASE LinesFail(u, i) /\ pc'[u] = "undo"
  <2>1. i \in cut'
    BY <1>2 DEF LinesFail
  <2> QED BY <1>2, <2>1 DEF Knows, KnowsDraft, KnowsEdit, KnowsSent, KnowsSum, Editing
<1>3. CASE Signature(u, i) /\ pc'[u] = "patch" /\ lines[i] = my[u].total
  <2>1. UNCHANGED documents /\ pc[u] = "signature" /\ my[u].kind = "update"
    BY <1>0, <1>3 DEF Signature, At, AskedOK, Editing
  <2> QED BY <1>0, <1>3, <2>1
          DEF documents, Knows, KnowsDraft, KnowsEdit, KnowsSent, KnowsSum, Editing, Visible, Exists
<1>4. CASE DeleteLines(u, i) /\ pc'[u] = "lines"
  <2>1. At(u, "deleteLines", i) /\ invoice' = invoice /\ lines' = [lines EXCEPT ![i] = 0]
        /\ my[u].kind = "update"
    BY <1>0, <1>4 DEF DeleteLines, At, AskedOK, Editing
  <2>2. lines'[i] = 0
    BY <2>1 DEF TablesOK
  <2>3. invoice[i].status \in Editable /\ ~invoice[i].deleted
    BY <2>1, DraftOf
  <2> QED BY <1>0, <1>4, <2>1, <2>2, <2>3
          DEF At, Knows, KnowsDraft, KnowsEdit, KnowsSent, KnowsSum, Editing, Visible, Exists
<1>5. CASE /\ Patch(u, i) /\ pc'[u] = "postRead"
           /\ Visible(i) /\ my[u].status = "SENT" /\ my[u].was # "SENT"
  <2>0. invoice[i] \in RowType /\ my[u] \in HandlerType
    BY DEF TablesOK, HeldOK
  <2>1. invoice'[i] = Patched(invoice[i], my[u])
    <3>1. invoice' = [invoice EXCEPT ![i] = Patched(invoice[i], my[u])]
      BY <1>5 DEF Patch, Patched, Sent
    <3> QED BY <3>1 DEF TablesOK
  <2>2. invoice'[i].status = "SENT" /\ invoice'[i].deleted = invoice[i].deleted
    BY <1>5, <2>0, <2>1, PatchedType
  <2>3. ~invoice'[i].deleted
    BY <1>5, <2>2 DEF Visible
  <2> QED BY <1>5, <2>2, <2>3
          DEF Knows, KnowsDraft, KnowsEdit, KnowsSent, KnowsSum, Editing, Posted
<1> QED BY <1>1, <1>2, <1>3, <1>4, <1>5 DEF GoesOn

LEMMA ReadsKnows ==
  ASSUME TablesOK, HeldOK, NEW u \in Users, Acts(u), ShapeInv, KnownInv,
         NEW i \in Ids, i \notin raced, Reads(u, i)
  PROVE  Knows(u, i)'
<1>0. Knows(u, i) /\ pc[u] = "existing" /\ UNCHANGED documents /\ AskedOK(u)
  BY DEF KnownInv, Reads, Existing, At, ShapeInv, HandlersOK
<1>1. /\ Asks(my'[u], my[u]) /\ my[u].kind = "update"
      /\ pc'[u] \in {"signature", "patch", "deleteLines"}
      /\ pc'[u] = "patch" => ~my'[u].rewrite
      /\ pc'[u] = "deleteLines" => my'[u].rewrite
  BY <1>0 DEF Reads, Goes, AskedOK, Editing
<1>2. my'[u].rewrite => ~IsPosted(invoice[i].status)
  BY DEF Reads
<1>3. /\ Visible(i) /\ invoice[i].status # "PAID" /\ my'[u].paid = invoice[i].paid
      /\ IsPosted(invoice[i].status) => my[u].status \in {"NONE", invoice[i].status}
  BY DEF Reads
<1>4. KnowsEdit(u, i)'
  BY <1>0, <1>1, <1>2, <1>3 DEF documents, KnowsEdit, Asks, Visible, Exists
<1>5. KnowsDraft(u, i)'
  <2>1. pc'[u] = "deleteLines" => invoice[i].status \in Editable /\ ~invoice[i].deleted
    BY <1>1, <1>2, <1>3 DEF Visible, Exists, IsPosted, TablesOK, RowType, Statuses, Texts, Editable
  <2> QED BY <1>0, <1>1, <2>1 DEF documents, KnowsDraft
<1>6. KnowsSent(u, i)'
  BY <1>0, <1>1 DEF documents, Knows, KnowsSent, Asks, Editing
<1>7. KnowsSum(u, i)'
  BY <1>1 DEF KnowsSum
<1> QED BY <1>4, <1>5, <1>6, <1>7 DEF Knows

LEMMA ReadsToPostKnows ==
  ASSUME TablesOK, HeldOK, NEW u \in Users, Acts(u), ShapeInv, KnownInv, LedgerInv,
         NEW i \in Ids, i \notin raced, ReadsToPost(u, i)
  PROVE  Knows(u, i)'
<1>0. Knows(u, i) /\ pc[u] = "postRead" /\ UNCHANGED <<documents, cut>> /\ pc'[u] = "postWrite"
  BY DEF KnownInv, ReadsToPost, PostRead, At, Goes, history
<1>1. ASSUME i \notin cut
      PROVE  /\ invoice[i].status \in Posted /\ ~invoice[i].deleted
             /\ my'[u].total = invoice[i].total /\ lines[i] = invoice[i].total
  <2>1. invoice[i].status \in Posted /\ ~invoice[i].deleted
    BY <1>0, <1>1 DEF Knows, KnowsSent
  <2> QED BY <1>1, <2>1, PostedLines DEF ReadsToPost
<1> QED BY <1>0, <1>1 DEF documents, Knows, KnowsDraft, KnowsEdit, KnowsSent, KnowsSum, Editing

LEMMA AllocatesKnows ==
  ASSUME TablesOK, HeldOK, NEW u \in Users, Acts(u),
         NEW i \in Ids, i \in my[u].on, Allocates(u)
  PROVE  Knows(u, i)'
<1>1. applied' = applied /\ pc'[u] = "commit" /\ my'[u].pays = my[u].pays
      /\ my'[u].sum[i] = Allocated(i) + my[u].pays[i]
  BY DEF Allocates, Apply, documents, Goes, Asks
<1>2. Allocated(i)' = Allocated(i)
  BY <1>1 DEF Allocated
<1> QED BY <1>1, <1>2 DEF Knows, KnowsDraft, KnowsEdit, KnowsSent, KnowsSum, Editing

LEMMA StepKnown ==
  ASSUME TablesOK, TablesOK', HeldOK, HeldOK', NEW u \in Users, Acts(u), ShapeInv, ShapeInv',
         KnownInv, LedgerInv
  PROVE  KnownInv'
<1>0. raced \subseteq raced' /\ \A v \in Users : my'[v].on \subseteq Ids /\ my[v].on \subseteq Ids
  BY HistoryGrows DEF HeldOK, HandlerType
<1>1. ASSUME NEW v \in Users \ {u}, NEW i \in my'[v].on, i \notin raced' PROVE Knows(v, i)'
  <2>1. my'[v] = my[v] /\ i \in Ids
    BY <1>0, <1>1, OthersStay
  <2> QED BY <1>1, <2>1, OthersKnow
<1>2. ASSUME NEW i \in my'[u].on, i \notin raced' PROVE Knows(u, i)'
  <2>0. i \in Ids /\ i \notin raced
    BY <1>0, <1>2
  <2>1. CASE Request(u)
    BY <1>2, <2>0, <2>1, RequestKnows
  <2>2. CASE Ends(u)
    BY <1>2, <2>2, FreshType DEF Ends
  <2>3. CASE TakesNumber(u) /\ Same(u)
    <3>1. pc'[u] \in {"allocate", "context", "insert", "renumber"}
      BY <2>3 DEF TakesNumber, Goes, AfterEnsure
    <3> QED BY <3>1 DEF Knows, KnowsDraft, KnowsEdit, KnowsSent, KnowsSum, Editing
  <2>4. ASSUME NEW k \in Ids, GoesOn(u, k), my'[u] = my[u] PROVE Knows(u, i)'
    <3>1. pc[u] \in OfOne /\ k \in my[u].on
      BY <2>4 DEF GoesOn, InsertLines, LinesFail, Signature, DeleteLines, Patch, At, OfOne
    <3>2. i = k
      BY <1>2, <2>4, <3>1 DEF ShapeInv, HandlersOK, AboutOK
    <3> QED BY <2>0, <2>4, <3>2, GoingOnKnows
  <2>5. ASSUME NEW k \in Ids, Inserted(u, k) PROVE Knows(u, i)'
    <3>1. i = k
      BY <1>2, <2>5 DEF Inserted
    <3> QED BY <2>5, <3>1, InsertedKnows
  <2>6. ASSUME NEW k \in Ids, Reads(u, k) \/ ReadsToPost(u, k) PROVE Knows(u, i)'
    <3>1. pc[u] \in OfOne /\ k \in my[u].on /\ my'[u].on = my[u].on
      BY <2>6 DEF Reads, ReadsToPost, Existing, PostRead, At, OfOne
    <3>2. i = k
      BY <1>2, <3>1 DEF ShapeInv, HandlersOK, AboutOK
    <3> QED BY <2>0, <2>6, <3>2, ReadsKnows, ReadsToPostKnows
  <2>7. ASSUME NEW p \in Payments, Receives(u, p) PROVE Knows(u, i)'
    <3>1. pc'[u] = "apply"
      BY <2>7 DEF Receives, Goes
    <3> QED BY <3>1 DEF Knows, KnowsDraft, KnowsEdit, KnowsSent, KnowsSum, Editing
  <2>8. CASE Allocates(u)
    BY <1>2, <2>0, <2>8, AllocatesKnows DEF Allocates, Same
  <2>9. CASE pc'[u] = "postPayment"
    BY <2>9 DEF Knows, KnowsDraft, KnowsEdit, KnowsSent, KnowsSum, Editing
  <2> QED BY <2>1, <2>2, <2>3, <2>4, <2>5, <2>6, <2>7, <2>8, <2>9, Moves DEF Acts
<1>3. \A v \in Users : \A i \in my'[v].on \ raced' : Knows(v, i)'
  BY <1>1, <1>2
<1> QED BY <1>3 DEF KnownInv

-----------------------------------------------------------------------------
(* What an invoice was paid.                                               *)
LEMMA SumOfZeros ==
  ASSUME NEW f, NEW S, IsFiniteSet(S), \A x \in S : f[x] = 0
  PROVE  SumFunctionOnSet(f, S) = 0
<1> DEFINE Q == {s \in SUBSET S : SumFunctionOnSet(f, s) # 0}
<1>1. SUFFICES ASSUME Q # {} PROVE FALSE
  OBVIOUS
<1>2. \A s \in Q : IsFiniteSet(s)
  BY FS_Subset
<1>3. PICK s \in Q : \A t \in Q : Cardinality(s) <= Cardinality(t)
  BY <1>1, <1>2, Smallest
<1> DEFINE t == s \ {Chosen(s)}
<1>4. s # {}
  BY <1>3, SumOfNone
<1>5. Chosen(s) \in s /\ IsFiniteSet(t) /\ Cardinality(t) < Cardinality(s)
  BY <1>2, <1>4, ChosenFacts
<1>6. Cardinality(t) \in Nat /\ Cardinality(s) \in Nat
  BY <1>2, <1>5, FS_CardinalityType
<1>7. SumFunctionOnSet(f, t) = 0
  BY <1>3, <1>5, <1>6
<1>8. SumFunctionOnSet(f, s) = f[Chosen(s)] + SumFunctionOnSet(f, t)
  BY <1>2, <1>4, SumUnfolds
<1> QED BY <1>3, <1>5, <1>7, <1>8

LEMMA AllocatedNone ==
  ASSUME NEW i \in Ids, \A p \in Payments : applied[p][i] = 0
  PROVE  Allocated(i) = 0
<1> DEFINE f == [p \in Payments |-> applied[p][i]]
<1>1. DOMAIN f = Payments /\ \A p \in Payments : f[p] = 0
  OBVIOUS
<1> HIDE DEF f
<1>2. SumFunctionOnSet(f, Payments) = 0
  BY <1>1, ConstantTypes, SumOfZeros
<1> QED BY <1>1, <1>2 DEF Allocated, SumFunction, f

(* A commit adds what its payment pays to what was allocated.              *)
LEMMA CommitAllocates ==
  ASSUME TablesOK, TablesOK', HeldOK, NEW u \in Users, Commit(u), ShapeInv, NEW i \in Ids
  PROVE  Allocated(i)' = Allocated(i) + my[u].pays[i]
<1> DEFINE p == my[u].payment
           f == [q \in Payments |-> applied[q][i]]
           g == [q \in Payments |-> applied'[q][i]]
<1>1. /\ p \in Payments /\ f[p] = 0 /\ g[p] = my[u].pays[i]
      /\ \A q \in Payments \ {p} : g[q] = f[q]
  BY Applies
<1>2. \A q \in Payments : f[q] \in Int /\ g[q] \in Int
  BY DEF TablesOK
<1>3. DOMAIN f = Payments /\ DOMAIN g = Payments
  OBVIOUS
<1>4. Allocated(i) = SumFunction(f) /\ Allocated(i)' = SumFunction(g)
  BY DEF Allocated
<1> HIDE DEF f, g, p
<1>5. IsFiniteSet(Payments) /\ IsFiniteSet(Payments \ {p})
  BY ConstantTypes, FS_Subset
<1>6. SumFunctionOnSet(f, Payments) = f[p] + SumFunctionOnSet(f, Payments \ {p})
  BY <1>1, <1>2, <1>5, SumTakesOut
<1>7. SumFunctionOnSet(g, Payments) = g[p] + SumFunctionOnSet(g, Payments \ {p})
  BY <1>1, <1>2, <1>5, SumTakesOut
<1>8. SumFunctionOnSet(g, Payments \ {p}) = SumFunctionOnSet(f, Payments \ {p})
  BY <1>1, <1>5, SumsEqual
<1>9. SumFunctionOnSet(f, Payments \ {p}) \in Int
  BY <1>2, <1>5, SumIsInteger
<1>10. my[u].pays[i] \in Int
  BY <1>1, <1>2
<1> QED BY <1>1, <1>3, <1>4, <1>6, <1>7, <1>8, <1>9, <1>10 DEF SumFunction

LEMMA StepBalance ==
  ASSUME TablesOK, TablesOK', HeldOK, NEW u \in Users, Acts(u), ShapeInv, KnownInv,
         BalanceInv
  PROVE  BalanceInv'
<1> SUFFICES ASSUME NEW i \in Ids, i \notin raced', Exists(i)' PROVE BalanceOK(i)'
  BY DEF BalanceInv, BalanceOK
<1>0. i \notin raced /\ BalanceOK(i) /\ stated \subseteq stated'
  BY HistoryGrows DEF BalanceInv
<1>1. /\ invoice[i] \in RowType /\ my[u] \in HandlerType /\ my[u].total \in Nat /\ my[u].no \in Nat
      /\ Allocated(i) \in Nat /\ invoice[i].total \in Nat
  BY AllocatedType DEF TablesOK, HeldOK, HandlerType, RowType
<1>2. CASE Commit(u) /\ i \in my[u].on
  <2> DEFINE sum == my[u].sum[i]
  <2>1. sum = Allocated(i) + my[u].pays[i]
    BY <1>0, <1>2 DEF Commit, KnownInv, Knows, KnowsSum
  <2>2. my[u].pays[i] \in Nat /\ my[u].pays[i] > 0
    BY <1>1, <1>2, Applies DEF HandlerType
  <2>3. Allocated(i)' = sum /\ sum \in Nat /\ sum > 0
    BY <1>1, <1>2, <2>1, <2>2, CommitAllocates
  <2>4. invoice'[i] = Settled(invoice[i], sum)
    BY <1>2 DEF Commit
  <2> HIDE DEF sum
  <2>5. /\ invoice'[i].total = invoice[i].total
        /\ invoice'[i].paid = Least(invoice[i].total, sum)
        /\ invoice'[i].balance = Most(invoice[i].total - sum, 0)
        /\ invoice'[i].status = IF sum >= invoice[i].total THEN "PAID" ELSE "PARTIAL"
    <3> DEFINE row == invoice[i]
    <3>1. row \in RowType /\ sum \in Nat
      BY <1>1, <2>3
    <3>2. invoice'[i] = Settled(row, sum)
      BY <2>4
    <3> HIDE DEF row
    <3>3. /\ Settled(row, sum).total = row.total
          /\ Settled(row, sum).paid = Least(row.total, sum)
          /\ Settled(row, sum).balance = Most(row.total - sum, 0)
          /\ Settled(row, sum).status = IF sum >= row.total THEN "PAID" ELSE "PARTIAL"
      BY <3>1, SettledType
    <3> QED BY <3>2, <3>3 DEF row
  <2> QED BY <1>1, <2>3, <2>5 DEF BalanceOK, Least, Most
<1>3. CASE ~(Commit(u) /\ i \in my[u].on)
  <2>1. \A p \in Payments : applied'[p][i] = applied[p][i]
    BY <1>3, PaymentSteps, Applies
  <2>2. Allocated(i)' = Allocated(i)
    BY <2>1, AllocatedKept
  <2>3. CASE invoice'[i] = invoice[i]
    BY <1>0, <2>2, <2>3 DEF BalanceOK, Exists
  <2>4. CASE Inserts(u, i)
    <3>1. pc[u] = "insert" /\ invoice[i].status = "NONE"
      BY <2>4 DEF Inserts, Insert
    <3>2. Allocated(i) = 0
      BY <3>1, AllocatedNone DEF ShapeInv, RowsOK
    <3>3. /\ invoice'[i].status = "DRAFT" /\ invoice'[i].total = my[u].total
          /\ invoice'[i].balance = my[u].total /\ invoice'[i].paid = 0
      BY <1>1, <2>4, NewRowType DEF Inserts
    <3> QED BY <1>1, <2>2, <3>2, <3>3 DEF BalanceOK, Least, Most
  <2>5. CASE Undoes(u, i)
    BY <2>5, GoneRowType DEF Undoes, Exists
  <2>6. CASE Patches(u, i)
    <3>1. At(u, "patch", i)
      BY <2>6 DEF Patches, Patch
    <3>2. /\ Visible(i) /\ my[u].paid = invoice[i].paid
          /\ invoice[i].status \in Editable \cup {"SENT", "PARTIAL"}
          /\ invoice[i].status \notin Editable =>
               ~my[u].rewrite /\ my[u].status \in {"NONE", invoice[i].status}
      BY <1>0, <3>1, EditOf
    <3>3. /\ invoice'[i].paid = invoice[i].paid
          /\ invoice'[i].status = IF my[u].status = "NONE" THEN invoice[i].status ELSE my[u].status
          /\ invoice'[i].total = IF my[u].rewrite THEN my[u].total ELSE invoice[i].total
          /\ invoice'[i].balance = IF my[u].rewrite THEN my[u].total - my[u].paid
                                   ELSE invoice[i].balance
      BY <1>1, <2>6, PatchedType DEF Patches
    <3>4. my[u].status \in {"PARTIAL", "PAID"} => i \in stated'
      BY <2>6 DEF Patches, Patch
    <3>5. /\ invoice[i].paid = Least(invoice[i].total, Allocated(i))
          /\ invoice[i].balance = Most(invoice[i].total - Allocated(i), 0)
          /\ Allocated(i) > 0 => invoice[i].status \in {"PAID", "PARTIAL"}
      BY <1>0, <3>2 DEF BalanceOK, Visible
    <3>6. CASE invoice[i].status \in Editable
      <4>1. Allocated(i) = 0
        BY <1>1, <3>5, <3>6 DEF Editable
      <4>2. invoice'[i].status \in {"PARTIAL", "PAID"} => i \in stated'
        BY <3>3, <3>4, <3>6 DEF Editable
      <4>3. invoice[i].paid = 0 /\ invoice[i].balance = invoice[i].total
        BY <1>1, <3>5, <4>1 DEF Least, Most
      <4>4. /\ invoice'[i].paid = 0 /\ invoice'[i].balance = invoice'[i].total
            /\ invoice'[i].total \in Nat
        BY <1>1, <3>2, <3>3, <4>3
      <4> QED BY <2>2, <4>1, <4>2, <4>4 DEF BalanceOK, Least, Most
    <3>7. CASE invoice[i].status \notin Editable
      <4>1. /\ invoice'[i].total = invoice[i].total /\ invoice'[i].paid = invoice[i].paid
            /\ invoice'[i].balance = invoice[i].balance /\ invoice'[i].status = invoice[i].status
        BY <3>2, <3>3, <3>7
      <4> QED BY <1>0, <2>2, <3>2, <4>1 DEF BalanceOK, Visible
    <3> QED BY <3>6, <3>7
  <2>7. CASE Withdraws(u, i)
    <3>1. /\ invoice'[i].total = invoice[i].total /\ invoice'[i].paid = invoice[i].paid
          /\ invoice'[i].balance = invoice[i].balance /\ invoice'[i].status = invoice[i].status
      BY <1>1, <2>7, DeletedRowType DEF Withdraws
    <3>2. Exists(i)
      BY <2>7 DEF Withdraws
    <3> QED BY <1>0, <2>2, <3>1, <3>2 DEF BalanceOK
  <2> QED BY <1>3, <2>3, <2>4, <2>5, <2>6, <2>7, RowSteps DEF Settles
<1> QED BY <1>2, <1>3

-----------------------------------------------------------------------------
(* What an invoice shows and what the ledger has of it.                    *)

(* Which steps a handler that is at work on an invoice can take.           *)
LEMMA StepsAt ==
  ASSUME NEW u \in Users, Acts(u), NEW i \in Ids, my[u].on = {i}
  PROVE  /\ pc[u] = "lines" => InsertLines(u, i) \/ LinesFail(u, i) \/ Stop(u)
         /\ pc[u] = "patch" => Patch(u, i) \/ Stop(u)
         /\ pc[u] = "postRead" => PostRead(u, i) \/ Stop(u)
         /\ pc[u] = "postWrite" => PostWrite(u, i) \/ Stop(u)
<1>1. CASE Request(u)
  BY <1>1 DEF Request, Reset, Save, Create, Delete, Pay, Receive, Update, Arrive
<1>2. CASE \/ Upsert(u) \/ Allocate(u) \/ Context(u) \/ Renumber(u) \/ InsertRefused(u)
           \/ Apply(u) \/ Commit(u) \/ PostPayment(u)
  BY <1>2 DEF Upsert, Allocate, Context, Renumber, InsertRefused, Apply, Commit, PostPayment
<1>3. ASSUME NEW k \in Ids,
             \/ Insert(u, k) \/ Undo(u, k) \/ Existing(u, k) \/ Signature(u, k)
             \/ DeleteLines(u, k) \/ DeleteWrite(u, k)
      PROVE  pc[u] \notin {"lines", "patch", "postRead", "postWrite"}
  BY <1>3 DEF Insert, Undo, Existing, Signature, DeleteLines, DeleteWrite, At
<1>4. ASSUME NEW k \in Ids,
             \/ InsertLines(u, k) \/ LinesFail(u, k) \/ Patch(u, k) \/ PostRead(u, k)
             \/ PostWrite(u, k)
      PROVE  k = i
  BY <1>4 DEF InsertLines, LinesFail, Patch, PostRead, PostWrite, At
<1>5. ASSUME NEW p \in Payments, InsertPayment(u, p)
      PROVE  pc[u] \notin {"lines", "patch", "postRead", "postWrite"}
  BY <1>5 DEF InsertPayment
<1>6. /\ \A k \in Ids : InsertLines(u, k) \/ LinesFail(u, k) => pc[u] = "lines"
      /\ \A k \in Ids : Patch(u, k) => pc[u] = "patch"
      /\ \A k \in Ids : PostRead(u, k) => pc[u] = "postRead"
      /\ \A k \in Ids : PostWrite(u, k) => pc[u] = "postWrite"
  BY DEF InsertLines, LinesFail, Patch, PostRead, PostWrite, At
<1> QED BY <1>1, <1>2, <1>3, <1>4, <1>5, <1>6 DEF Acts, Handle

LEMMA CutShort ==
  ASSUME NEW u \in Users, NEW i \in Ids, i \in my[u].on, i \notin cut'
  PROVE  /\ ~LinesFail(u, i)
         /\ pc[u] \in {"lines", "undo", "patch", "postRead", "postWrite"} => ~Stop(u)
BY DEF LinesFail, Stop

(* What is posted of an invoice is what it shows.                          *)
LEMMA StepPosted ==
  ASSUME TablesOK, HeldOK, NEW u \in Users, Acts(u), ShapeInv, KnownInv,
         LedgerInv, NEW i \in Ids, i \notin raced, i \notin cut
  PROVE  PostedOK(i)'
<1>0. PostedOK(i) /\ ledger \in [Ids \cup Payments -> Nat]
  BY DEF LedgerInv, TablesOK
<1>1. CASE PostWrite(u, i)
  <2>1. /\ pc[u] = "postWrite" /\ i \in my[u].on /\ UNCHANGED <<invoice, lines>>
        /\ ledger'[i] = IF ledger[i] = 0 THEN my[u].total ELSE ledger[i]
    BY <1>0, <1>1 DEF PostWrite, At
  <2>2. /\ invoice[i].status \in Posted /\ ~invoice[i].deleted
        /\ my[u].total = invoice[i].total /\ lines[i] = invoice[i].total
    BY <2>1 DEF KnownInv, Knows, KnowsSent
  <2> QED BY <1>0, <2>1, <2>2 DEF PostedOK
<1>2. CASE ~PostWrite(u, i)
  <2>1. ledger'[i] = ledger[i]
    <3>1. ASSUME NEW k \in Ids, PostWrite(u, k) PROVE ledger'[i] = ledger[i]
      BY <1>0, <1>2, <3>1 DEF PostWrite
    <3>2. ASSUME PostPayment(u) PROVE ledger'[i] = ledger[i]
      <4>1. my[u].payment \in Payments
        BY <3>2 DEF PostPayment, ShapeInv, HandlersOK, PayingOK, Paying
      <4>2. my[u].payment # i
        BY <4>1, ConstantTypes
      <4> QED BY <1>0, <3>2, <4>2 DEF PostPayment
    <3> QED BY <3>1, <3>2, PaymentSteps
  <2>2. CASE ledger[i] = 0
    BY <2>1, <2>2 DEF PostedOK
  <2>3. CASE ledger[i] # 0
    <3>1. /\ invoice[i].status \in Posted /\ ~invoice[i].deleted
          /\ ledger[i] = invoice[i].total /\ lines[i] = invoice[i].total
      BY <1>0, <2>3 DEF PostedOK
    <3>2. /\ invoice'[i].status \in Posted /\ ~invoice'[i].deleted
          /\ invoice'[i].total = invoice[i].total /\ lines'[i] = lines[i]
      BY <3>1, PostedStays
    <3> QED BY <2>1, <3>1, <3>2 DEF PostedOK
  <2> QED BY <2>2, <2>3
<1> QED BY <1>1, <1>2

(* What was posted stays posted.                                           *)
LEMMA LedgerStays ==
  ASSUME TablesOK, HeldOK, NEW u \in Users, Acts(u), ShapeInv, NEW i \in Ids, ledger[i] # 0
  PROVE  ledger'[i] # 0
<1>0. ledger \in [Ids \cup Payments -> Nat]
  BY DEF TablesOK
<1>1. ASSUME NEW k \in Ids, PostWrite(u, k) PROVE ledger'[i] # 0
  BY <1>0, <1>1 DEF PostWrite
<1>2. ASSUME PostPayment(u) PROVE ledger'[i] # 0
  <2>1. my[u].payment \in Payments
    BY <1>2 DEF PostPayment, ShapeInv, HandlersOK, PayingOK, Paying
  <2>2. my[u].payment # i
    BY <2>1, ConstantTypes
  <2> QED BY <1>0, <1>2, <2>2 DEF PostPayment
<1> QED BY <1>1, <1>2, PaymentSteps

(* Whoever posts an invoice comes to the end of it, unless it is cut short.*)
LEMMA PosterPosts ==
  ASSUME TablesOK, HeldOK, NEW u \in Users, Acts(u), ShapeInv, KnownInv, LedgerInv,
         NEW i \in Ids, i \notin raced, i \notin cut, i \notin cut', Posting(u, i),
         invoice[i].total > 0
  PROVE  ledger'[i] # 0 \/ Posting(u, i)'
<1>0. ledger \in [Ids \cup Payments -> Nat]
  BY DEF TablesOK
<1>1. my[u].on = {i} /\ ~Stop(u)
  BY CutShort DEF Posting, ShapeInv, HandlersOK, AboutOK, OfOne
<1>2. invoice[i].status \in Posted
  BY DEF Posting, KnownInv, Knows, KnowsSent
<1>3. CASE pc[u] = "postRead"
  <2>1. PostRead(u, i)
    BY <1>1, <1>3, StepsAt
  <2>2. lines[i] = invoice[i].total /\ Exists(i)
    BY <1>2, PostedLines DEF Posted, Exists
  <2>3. Goto(u, "postWrite") /\ Become(u, [my[u] EXCEPT !.total = invoice[i].total])
    BY <1>2, <2>1, <2>2 DEF PostRead, Posted
  <2>4. my[u] \in HandlerType /\ invoice[i].total \in Nat
    BY DEF HeldOK, TablesOK, RowType
  <2>5. [my[u] EXCEPT !.total = invoice[i].total].on = my[u].on
    BY <2>4, TotalField
  <2>6. pc'[u] = "postWrite" /\ my'[u].on = my[u].on
    BY <2>3, <2>5, GotoBecome, Moved
  <2> QED BY <1>1, <2>6 DEF Posting
<1>4. CASE pc[u] = "postWrite"
  <2>1. PostWrite(u, i)
    BY <1>1, <1>4, StepsAt
  <2>2. my[u].total = invoice[i].total
    BY <1>1, <1>4 DEF KnownInv, Knows, KnowsSent
  <2>3. invoice[i].total \in Nat
    BY DEF TablesOK, RowType
  <2> QED BY <1>0, <2>1, <2>2, <2>3 DEF PostWrite
<1> QED BY <1>3, <1>4 DEF Posting

LEMMA StepSent ==
  ASSUME TablesOK, HeldOK, NEW u \in Users, Acts(u), ShapeInv, KnownInv, LedgerInv,
         NEW i \in Ids, i \notin raced, i \notin cut, i \notin cut'
  PROVE  SentOK(i)'
<1> SUFFICES ASSUME invoice'[i].status = "SENT", invoice'[i].total > 0
             PROVE  ledger'[i] # 0 \/ \E v \in Users : Posting(v, i)'
  BY DEF SentOK
<1>0. invoice[i] \in RowType /\ my[u] \in HandlerType
  BY DEF TablesOK, HeldOK
<1>1. CASE invoice[i].status = "SENT"
  <2>0. invoice[i].total > 0
    BY <1>1, PostedStays DEF Posted
  <2>1. ledger[i] # 0 \/ \E v \in Users : Posting(v, i)
    BY <1>1, <2>0 DEF LedgerInv, SentOK
  <2>2. ASSUME NEW v \in Users \ {u}, Posting(v, i) PROVE Posting(v, i)'
    <3>1. pc'[v] = pc[v] /\ my'[v] = my[v]
      BY OthersStay
    <3> QED BY <2>2, <3>1 DEF Posting
  <2> QED BY <2>0, <2>1, <2>2, LedgerStays, PosterPosts
<1>2. CASE invoice[i].status # "SENT"
  <2>1. ~Inserts(u, i)
    <3>1. my[u].no \in Nat /\ my[u].total \in Nat
      BY <1>0 DEF HandlerType
    <3> QED BY <3>1, NewRowType DEF Inserts
  <2>2. ~Undoes(u, i)
    BY GoneRowType DEF Undoes
  <2>3. ~Withdraws(u, i)
    BY <1>0, <1>2, DeletedRowType DEF Withdraws
  <2>4. ~Settles(u, i)
    <3>1. my[u].sum[i] \in Nat
      BY <1>0 DEF HandlerType
    <3> QED BY <1>0, <3>1, SettledType DEF Settles
  <2>5. Patches(u, i)
    BY <1>2, <2>1, <2>2, <2>3, <2>4, RowSteps
  <2>6. At(u, "patch", i) /\ Patch(u, i) /\ Visible(i)
    BY <2>5 DEF Patches, Patch
  <2>7. invoice'[i].status = IF my[u].status = "NONE" THEN invoice[i].status ELSE my[u].status
    BY <1>0, <2>5, PatchedType DEF Patches
  <2>8. my[u].status = "SENT"
    BY <1>2, <2>7
  <2>9. my[u].was # "SENT"
    BY <1>2, <2>6, <2>8, EditOf DEF Editable
  <2>10. Goto(u, "postRead") /\ UNCHANGED my
    BY <2>6, <2>8, <2>9 DEF Patch
  <2>11. pc'[u] = "postRead" /\ my'[u] = my[u]
    BY <2>10, GotoOnly, Moved
  <2>12. Posting(u, i)'
    BY <2>6, <2>11 DEF Posting, At
  <2> QED BY <2>12
<1> QED BY <1>1, <1>2

(* Whoever rewrites the lines of an invoice comes to the end of it too.    *)
LEMMA RewriterRewrites ==
  ASSUME TablesOK, HeldOK, NEW u \in Users, Acts(u), ShapeInv, KnownInv,
         NEW i \in Ids, i \notin raced, i \notin cut', Rewriting(u, i), Exists(i)
  PROVE  lines'[i] = invoice'[i].total \/ Rewriting(u, i)'
<1>0. /\ invoice[i] \in RowType /\ my[u] \in HandlerType /\ lines \in [Ids -> Nat]
      /\ my[u].total \in Nat /\ invoice \in [Ids -> RowType]
  BY DEF TablesOK, HeldOK, HandlerType
<1>1. my[u].on = {i} /\ ~Stop(u) /\ ~LinesFail(u, i) /\ AskedOK(u)
  BY CutShort DEF Rewriting, At, ShapeInv, HandlersOK, AboutOK, OfOne
<1>2. CASE At(u, "lines", i)
  <2>1. InsertLines(u, i)
    BY <1>1, <1>2, StepsAt DEF At
  <2>2. lines[i] = 0 /\ (my[u].kind = "create" => my[u].total = invoice[i].total)
    BY <1>2, DraftOf
  <2>3. invoice' = invoice /\ lines' = [lines EXCEPT ![i] = lines[i] + my[u].total]
    BY <2>1 DEF InsertLines
  <2>4. lines'[i] = my[u].total
    BY <1>0, <2>2, <2>3
  <2>5. CASE my[u].kind = "create"
    BY <2>2, <2>3, <2>4, <2>5
  <2>6. CASE my[u].kind = "update"
    <3>1. my[u].rewrite
      BY <1>1, <1>2, <2>6 DEF AskedOK, At
    <3>2. Goto(u, "patch") /\ UNCHANGED my
      BY <2>1, <2>6 DEF InsertLines
    <3>3. pc'[u] = "patch" /\ my'[u] = my[u]
      BY <3>2, GotoOnly, Moved
    <3> QED BY <1>1, <3>1, <3>3 DEF Rewriting, At
  <2> QED BY <1>1, <1>2, <2>5, <2>6 DEF AskedOK, At
<1>3. CASE At(u, "patch", i) /\ my[u].rewrite
  <2>1. Patch(u, i)
    BY <1>1, <1>3, StepsAt DEF At
  <2>2. Visible(i) /\ lines[i] = my[u].total
    BY <1>3, EditOf
  <2>3. invoice' = [invoice EXCEPT ![i] = Patched(invoice[i], my[u])] /\ lines' = lines
    BY <2>1, <2>2 DEF Patch, Patched, Sent
  <2>4. invoice'[i] = Patched(invoice[i], my[u])
    BY <1>0, <2>3
  <2>5. invoice'[i].total = my[u].total
    BY <1>0, <1>3, <2>4, PatchedType
  <2> QED BY <2>2, <2>3, <2>5
<1> QED BY <1>2, <1>3 DEF Rewriting

LEMMA StepLines ==
  ASSUME TablesOK, HeldOK, NEW u \in Users, Acts(u), ShapeInv, KnownInv, LedgerInv,
         NEW i \in Ids, i \notin raced, i \notin cut, i \notin cut'
  PROVE  LinesOK(i)'
<1> SUFFICES ASSUME Exists(i)'
             PROVE  lines'[i] = invoice'[i].total \/ \E v \in Users : Rewriting(v, i)'
  BY DEF LinesOK
<1>0. /\ invoice[i] \in RowType /\ my[u] \in HandlerType
      /\ my[u].no \in Nat /\ my[u].total \in Nat
  BY DEF TablesOK, HeldOK, HandlerType
<1>1. CASE Insert(u, i)
  <2>1. pc'[u] = "lines" /\ my'[u] = [my[u] EXCEPT !.on = {i}]
    BY <1>1, GotoBecome, Moved DEF Insert
  <2>2. [my[u] EXCEPT !.on = {i}].on = {i}
    BY <1>0, OnField
  <2>3. Rewriting(u, i)'
    BY <2>1, <2>2 DEF Rewriting, At
  <2> QED BY <2>3
<1>2. CASE ~Insert(u, i)
  <2>1. Exists(i)
    <3>1. CASE invoice'[i] = invoice[i]
      BY <3>1 DEF Exists
    <3>2. ~Undoes(u, i)
      BY GoneRowType DEF Undoes, Exists
    <3> QED BY <1>2, <3>1, <3>2, RowSteps
            DEF Inserts, Patches, Visible, Withdraws, Settles, Commit, ShapeInv, HandlersOK, AboutOK
  <2>2. lines[i] = invoice[i].total \/ \E v \in Users : Rewriting(v, i)
    BY <2>1 DEF LedgerInv, LinesOK
  <2>3. CASE Rewriting(u, i)
    BY <2>1, <2>3, RewriterRewrites
  <2>4. ASSUME NEW v \in Users \ {u}, Rewriting(v, i) PROVE Rewriting(v, i)'
    <3>1. pc'[v] = pc[v] /\ my'[v] = my[v]
      BY OthersStay
    <3> QED BY <2>4, <3>1 DEF Rewriting, At
  <2>5. CASE lines[i] = invoice[i].total /\ ~Rewriting(u, i)
    <3>1. ~Undo(u, i)
      BY DEF Undo, At, KnownInv, Knows, KnowsSent
    <3>2. CASE DeleteLines(u, i)
      <4>1. Goto(u, "lines") /\ UNCHANGED my /\ i \in my[u].on
        BY <3>2 DEF DeleteLines, At
      <4>2. pc'[u] = "lines" /\ my'[u] = my[u]
        BY <4>1, GotoOnly, Moved
      <4>3. Rewriting(u, i)'
        BY <4>1, <4>2 DEF Rewriting, At
      <4> QED BY <4>3
    <3>3. CASE ~DeleteLines(u, i)
      <4>1. lines'[i] = lines[i]
        BY <2>5, <3>1, <3>3, LineSteps DEF InsertLines, Rewriting
      <4>2. invoice'[i].total = invoice[i].total
        <5>1. CASE Patches(u, i)
          <6>1. ~my[u].rewrite
            BY <2>5, <5>1 DEF Patches, Patch, Rewriting
          <6> QED BY <1>0, <5>1, <6>1, PatchedType DEF Patches
        <5>2. CASE Withdraws(u, i)
          BY <1>0, <5>2, DeletedRowType DEF Withdraws
        <5>3. CASE Settles(u, i)
          <6>1. my[u].sum[i] \in Nat
            BY <1>0 DEF HandlerType
          <6>2. Settled(invoice[i], my[u].sum[i]).total = invoice[i].total
            BY <1>0, <6>1, SettledType
          <6> QED BY <5>3, <6>2 DEF Settles
        <5> QED BY <1>2, <3>1, <5>1, <5>2, <5>3, RowSteps DEF Inserts, Undoes
      <4> QED BY <2>5, <4>1, <4>2
    <3> QED BY <3>2, <3>3
  <2> QED BY <2>2, <2>3, <2>4, <2>5
<1> QED BY <1>1, <1>2

LEMMA StepLedger ==
  ASSUME TablesOK, HeldOK, NEW u \in Users, Acts(u), ShapeInv, KnownInv, LedgerInv
  PROVE  LedgerInv'
<1> SUFFICES ASSUME NEW i \in Ids, i \notin raced', i \notin cut'
             PROVE  (PostedOK(i) /\ SentOK(i) /\ LinesOK(i))'
  BY DEF LedgerInv
<1>1. i \notin raced /\ i \notin cut
  BY HistoryGrows
<1> QED BY <1>1, StepPosted, StepSent, StepLines

(* At first nothing was paid, posted or sent.                              *)
LEMMA InitKnown == Init => KnownInv /\ BalanceInv /\ LedgerInv
<1> SUFFICES ASSUME Init PROVE KnownInv /\ BalanceInv /\ LedgerInv
  OBVIOUS
<1>0. ShapeInv /\ TypeOK /\ TablesOK
  BY InitType, InitShape, TypeParts
<1>1. KnownInv
  <2>1. \A u \in Users : my[u].on = {}
    BY FreshType DEF Init
  <2> QED BY <2>1 DEF KnownInv
<1>2. ASSUME NEW i \in Ids
      PROVE  /\ ledger[i] = 0 /\ invoice[i].status \in {"NONE", "DRAFT"}
             /\ Exists(i) => /\ invoice[i].paid = 0 /\ invoice[i].balance = invoice[i].total
                             /\ lines[i] = invoice[i].total
  <2>1. ledger[i] = 0
    BY DEF Init
  <2>2. CASE invoice = [j \in Ids |-> NoInvoice]
    BY <2>1, <2>2, NoInvoiceType DEF Exists
  <2>3. ASSUME NEW a \in Totals,
               invoice = [[j \in Ids |-> NoInvoice] EXCEPT
                 ![1] = [no |-> 1, status |-> "DRAFT", deleted |-> FALSE,
                         total |-> a, paid |-> 0, balance |-> a]],
               lines = [[j \in Ids |-> 0] EXCEPT ![1] = a]
        PROVE  /\ invoice[i].status \in {"NONE", "DRAFT"}
               /\ Exists(i) => /\ invoice[i].paid = 0 /\ invoice[i].balance = invoice[i].total
                               /\ lines[i] = invoice[i].total
    <3>1. 1 \in Ids
      BY ConstantTypes
    <3>2. CASE i = 1
      <4>1. /\ invoice[i].status = "DRAFT" /\ invoice[i].paid = 0
            /\ invoice[i].balance = a /\ invoice[i].total = a /\ lines[i] = a
        BY <2>3, <3>1, <3>2
      <4> QED BY <4>1
    <3>3. CASE i # 1
      BY <2>3, <3>3, NoInvoiceType DEF Exists
    <3> QED BY <3>2, <3>3
  <2> QED BY <2>1, <2>2, <2>3 DEF Init
<1>3. BalanceInv
  <2> SUFFICES ASSUME NEW i \in Ids, Exists(i) PROVE BalanceOK(i)
    BY DEF BalanceInv, BalanceOK
  <2>1. Allocated(i) = 0
    BY AllocatedNone DEF Init
  <2>2. invoice[i].total \in Nat
    BY <1>0 DEF TablesOK, RowType
  <2> QED BY <1>2, <2>1, <2>2 DEF BalanceOK, Least, Most
<1>4. LedgerInv
  BY <1>2 DEF LedgerInv, PostedOK, SentOK, LinesOK
<1> QED BY <1>1, <1>3, <1>4

(* The two invariants of what an invoice shows are inductive together with *)
(* what the handlers know.                                                 *)
IInv == TypeOK /\ ShapeInv /\ KnownInv /\ BalanceInv /\ LedgerInv

LEMMA InvoicesInductive == Spec => []IInv
<1>1. Init => IInv
  BY InitType, InitShape, InitKnown DEF IInv
<1>2. IInv /\ UNCHANGED vars => IInv'
  <2> SUFFICES ASSUME IInv, UNCHANGED vars PROVE IInv'
    OBVIOUS
  <2>1. /\ UNCHANGED <<invoice, lines, payment, applied, ledger, next, pc, my>>
        /\ UNCHANGED <<requests, stops, raced, cut, shuffled, stated>>
    BY DEF vars, documents, history
  <2>2. TypeOK'
    BY <2>1 DEF IInv, TypeOK
  <2>3. ShapeInv'
    BY <2>1 DEF IInv, ShapeInv, RowsOK, HandlersOK, AboutOK, AskedOK, PayingOK, Exists
  <2>4. \A i \in Ids : Allocated(i)' = Allocated(i)
    BY <2>1 DEF Allocated
  <2>5. \A u \in Users : \A i \in Ids : Knows(u, i) => Knows(u, i)'
    BY <2>1, <2>4 DEF Knows, KnowsDraft, KnowsEdit, KnowsSent, KnowsSum, Visible, Exists
  <2>6. \A u \in Users : my[u].on \subseteq Ids
    BY TypeParts DEF IInv, HeldOK, HandlerType
  <2>7. KnownInv'
    BY <2>1, <2>5, <2>6 DEF IInv, KnownInv
  <2>8. BalanceInv'
    BY <2>1, <2>4 DEF IInv, BalanceInv, BalanceOK, Exists
  <2>9. LedgerInv'
    BY <2>1 DEF IInv, LedgerInv, PostedOK, SentOK, LinesOK, Posting, Rewriting, At, Exists
  <2> QED BY <2>2, <2>3, <2>7, <2>8, <2>9 DEF IInv
<1>3. IInv /\ [Next]_vars => IInv'
  <2> SUFFICES ASSUME IInv, NEW u \in Users, Acts(u) PROVE IInv'
    BY <1>2 DEF Next, Acts
  <2>1. TypeOK' /\ ShapeInv'
    BY StepType, StepShape DEF IInv
  <2>2. TablesOK /\ HeldOK /\ TablesOK' /\ HeldOK'
    BY <2>1, TypeParts, TypePartsNext DEF IInv
  <2> QED BY <2>1, <2>2, StepKnown, StepBalance, StepLedger DEF IInv
<1> QED BY <1>1, <1>3, PTL DEF Spec

(* Paid and balance of an invoice are what its allocations make them, and  *)
(* so is its status once there are any; one without is PARTIAL or PAID     *)
(* only if a user said so.  Not so for an invoice that was written while   *)
(* another handler held what it had read of it.                            *)
THEOREM BalanceIsAllocations == Spec => []BalanceShowsAllocations
<1>1. IInv => BalanceShowsAllocations
  BY DEF IInv, BalanceInv, BalanceOK, BalanceShowsAllocations
<1> QED BY <1>1, InvoicesInductive, PTL

(* The ledger has of an invoice what it and its lines show, and a sent     *)
(* invoice that comes to something is in the ledger once nobody is posting *)
(* it, unless it was written beside another who held it or its edit or     *)
(* posting was cut short.                                                  *)
THEOREM LedgerHasTheInvoice == Spec => []LedgerShowsInvoice
<1>1. IInv => LedgerShowsInvoice
  BY DEF IInv, LedgerInv, PostedOK, SentOK, Posting, LedgerShowsInvoice
<1> QED BY <1>1, InvoicesInductive, PTL
==============================================================================
