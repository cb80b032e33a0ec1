--------------------------- MODULE ConnectionProofs ---------------------------
(* TLAPS proofs about Connection, for every set of users, any number of    *)
(* rows and every bound.                                                   *)
EXTENDS Connection, FiniteSetTheorems, TLAPS

(* The steps of one user, as Next takes them.                              *)
Acts(u) == Request(u) \/ Handle(u) \/ Fails(u) \/ LosesReply(u) \/ Crash(u)

-----------------------------------------------------------------------------
(* Types.                                                                  *)
RowType == [status : Statuses, by : Users \cup {NoUser}, realm : BOOLEAN,
            env : BOOLEAN, token : Nat, expired : BOOLEAN]
GrantType == [state : {"none", "live", "revoked", "withdrawn"}, gen : Nat]
HandlerType == [row : Rows \cup {0}, token : Nat, again : BOOLEAN,
                then : {"idle", "create"}]

TablesOK ==
  /\ conn \in [Rows -> RowType] /\ latest \in Rows \cup {0}
  /\ oauth \in [Rows -> {"none", "open", "used"}]
  /\ grant \in [Rows -> GrantType]

HandlersOK ==
  /\ pc \in [Users -> PCs] /\ my \in [Users -> HandlerType]
  /\ \A u \in Users : pc[u] \notin {"idle", "create"} => my[u].row \in Rows

BoundsOK ==
  /\ production \in BOOLEAN
  /\ requests \in 0 .. MaxRequests /\ expiries \in 0 .. MaxExpiries
  /\ faults \in 0 .. MaxFaults

HistoryOK ==
  severed \subseteq Rows /\ raced \subseteq Rows /\ cut \subseteq Rows /\ overtaken \in BOOLEAN

LEMMA TypeParts == TypeOK <=> TablesOK /\ HandlersOK /\ BoundsOK /\ HistoryOK
BY DEF TypeOK, TablesOK, HandlersOK, BoundsOK, HistoryOK, RowType, GrantType, HandlerType

LEMMA TypePartsNext == TypeOK' <=> (TablesOK /\ HandlersOK /\ BoundsOK /\ HistoryOK)'
BY DEF TypeOK, TablesOK, HandlersOK, BoundsOK, HistoryOK, RowType, GrantType, HandlerType

LEMMA RowsType == Rows \subseteq Nat \ {0} /\ 0 \notin Rows
<1>1. Cardinality(Rows) \in Nat
  BY RowsAssumption, FS_CardinalityType
<1> QED BY <1>1, RowsAssumption

LEMMA InitType == Init => TypeOK
<1> SUFFICES ASSUME Init PROVE TypeOK
  OBVIOUS
<1>1. TablesOK
  <2>1. NoRow \in RowType /\ NoGrant \in GrantType
    BY DEF NoRow, NoGrant, RowType, GrantType, Statuses
  <2>2. ASSUME NEW u \in Users
        PROVE  [status |-> "CONNECTED", by |-> u, realm |-> TRUE, env |-> TRUE,
                token |-> 1, expired |-> FALSE] \in RowType
    BY DEF RowType, Statuses
  <2>3. [state |-> "live", gen |-> 1] \in GrantType
    BY DEF GrantType
  <2>4. conn \in [Rows -> RowType] /\ latest \in Rows \cup {0}
    BY <2>1, <2>2, RowsAssumption DEF Init
  <2>5. grant \in [Rows -> GrantType]
    BY <2>1, <2>3, RowsAssumption DEF Init
  <2> QED BY <2>4, <2>5 DEF Init, TablesOK
<1>2. HandlersOK
  BY DEF Init, HandlersOK, HandlerType, PCs, Fresh
<1>3. MaxRequests \in Nat /\ MaxExpiries \in Nat /\ MaxFaults \in Nat
  BY BoundAssumption
<1>4. BoundsOK /\ HistoryOK
  <2>1. /\ production \in BOOLEAN /\ requests = 0 /\ expiries = 0 /\ faults = 0
        /\ severed = {} /\ raced = {} /\ cut = {} /\ overtaken = FALSE
    BY Zenon DEF Init
  <2>2. BoundsOK
    BY <1>3, <2>1 DEF BoundsOK
  <2>3. HistoryOK
    BY <2>1 DEF HistoryOK
  <2> QED BY <2>2, <2>3
<1> QED BY <1>1, <1>2, <1>4, TypeParts

(* An update of one row, and what a handler turns to, keep their types.    *)
LEMMA PutType ==
  ASSUME TablesOK, NEW i \in Rows, NEW row \in RowType, Accepts(i, row)
  PROVE  conn' \in [Rows -> RowType] /\ latest' \in Rows \cup {0}
BY DEF TablesOK, Accepts

LEMMA TurnType ==
  ASSUME HandlersOK, NEW u \in Users, NEW l \in PCs, NEW r \in HandlerType,
         Goto(u, l), Become(u, r), l \notin {"idle", "create"} => r.row \in Rows
  PROVE  HandlersOK'
BY DEF HandlersOK, Goto, Become

LEMMA FreshType == Fresh \in HandlerType
BY DEF Fresh, HandlerType

(* What the updates of a row write.                                        *)
LEMMA RowPatches ==
  ASSUME NEW row \in RowType, NEW t \in Nat, NEW u \in Users
  PROVE  /\ Cleared(row) \in RowType /\ Renewed(row, t) \in RowType
         /\ [NoRow EXCEPT !.status = "PENDING", !.by = u] \in RowType
         /\ [row EXCEPT !.status = "CONNECTED", !.realm = TRUE, !.env = TRUE,
                        !.token = t, !.expired = FALSE] \in RowType
         /\ [row EXCEPT !.status = "FAILED"] \in RowType
         /\ [row EXCEPT !.status = "TOKEN_EXPIRED"] \in RowType
BY DEF RowType, Cleared, Renewed, NoRow, Statuses

LEMMA WorkingRow ==
  ASSUME TypeOK, NEW u \in Users, pc[u] \notin {"idle", "create"}
  PROVE  /\ my[u].row \in Rows /\ conn[my[u].row] \in RowType
         /\ grant[my[u].row] \in GrantType /\ my[u] \in HandlerType /\ my[u].token \in Nat
BY TypeParts DEF TablesOK, HandlersOK, HandlerType

LEMMA StepTablesType ==
  ASSUME TypeOK, NEW u \in Users, Acts(u)
  PROVE  TablesOK'
<1>0. TablesOK /\ HandlersOK
  BY TypeParts
<1>1. ASSUME UNCHANGED <<conn, latest>>, oauth' \in [Rows -> {"none", "open", "used"}],
             grant' \in [Rows -> GrantType]
      PROVE  TablesOK'
  BY <1>0, <1>1 DEF TablesOK
<1>2. ASSUME NEW i \in Rows, NEW row \in RowType, Accepts(i, row), UNCHANGED <<oauth, grant>>
      PROVE  TablesOK'
  BY <1>0, <1>2, PutType DEF TablesOK
<1>3. ASSUME UNCHANGED tables, grant' \in [Rows -> GrantType] PROVE TablesOK'
  BY <1>0, <1>3 DEF TablesOK, tables
<1>4. UNCHANGED grant => grant' \in [Rows -> GrantType]
  BY <1>0 DEF TablesOK
<1>5. ASSUME NEW i, NEW then, NEW l, Arrive(u, i, then, l) PROVE TablesOK'
  BY <1>3, <1>4, <1>5 DEF Arrive
<1>6. CASE Request(u)
  <2>1. CASE Begin(u) \/ Disconnect(u) \/ Use(u)
    BY <1>5, <2>1 DEF Begin, Disconnect, Use
  <2>2. ASSUME NEW i \in Rows, Callback(u, i) PROVE TablesOK'
    BY <1>0, <1>1, <1>4, <2>2 DEF Callback, TablesOK
  <2> QED BY <1>6, <2>1, <2>2 DEF Request
<1>7. ASSUME NEW i \in Rows, Ended(i) PROVE grant' \in [Rows -> GrantType]
  <2>1. [grant[i] EXCEPT !.state = IF @ = "none" THEN @ ELSE "revoked"] \in GrantType
    BY <1>0 DEF TablesOK, GrantType
  <2> QED BY <1>0, <1>7, <2>1 DEF Ended, TablesOK
<1>8. CASE Revoke(u) BY <1>3, <1>4, <1>7, <1>8, WorkingRow DEF Revoke, GivesBack
<1>9. CASE Clear(u) BY <1>2, <1>9, WorkingRow, RowPatches DEF Clear
<1>10. CASE CreateRow(u)
  <2>1. PICK i \in Rows : Accepts(i, [NoRow EXCEPT !.status = "PENDING", !.by = u])
                            \/ UNCHANGED <<conn, latest>>
    BY <1>10 DEF CreateRow, Unused, Refuses
  <2>2. [NoRow EXCEPT !.status = "PENDING", !.by = u] \in RowType
    BY DEF RowType, NoRow, Statuses
  <2>3. UNCHANGED <<oauth, grant>>
    BY <1>10 DEF CreateRow
  <2> QED BY <1>0, <1>1, <1>2, <2>1, <2>2, <2>3 DEF TablesOK
<1>11. CASE CreateState(u) \/ Tidy(u)
  BY <1>0, <1>1, <1>4, <1>11, WorkingRow DEF CreateState, Tidy, TablesOK
<1>12. CASE Announce(u) \/ Check(u) \/ Require(u) \/ Operate(u)
  BY <1>3, <1>4, <1>12 DEF Announce, Check, Require, Operate
<1>13. CASE Exchange(u)
  <2>1. [state |-> "live", gen |-> 1] \in GrantType
    BY DEF GrantType
  <2> QED BY <1>0, <1>3, <1>13, <2>1, WorkingRow DEF Exchange, TablesOK
<1>14. CASE Store(u)
  BY <1>0, <1>1, <1>2, <1>14, WorkingRow, RowPatches DEF Store, Refuses, TablesOK
<1>15. CASE Undo(u) BY <1>3, <1>4, <1>7, <1>15, WorkingRow DEF Undo, GivesBack
<1>16. CASE FailRow(u)
  BY <1>0, <1>1, <1>2, <1>16, WorkingRow, RowPatches DEF FailRow, Refuses, TablesOK
<1>17. CASE Refresh(u)
  <2>1. my[u].row \in Rows /\ [grant[my[u].row] EXCEPT !.gen = @ + 1] \in GrantType
    BY <1>17, WorkingRow DEF Refresh, GrantType
  <2> QED BY <1>0, <1>3, <1>4, <1>17, <2>1 DEF Refresh, TablesOK
<1>18. CASE StoreTokens(u)
  BY <1>0, <1>1, <1>2, <1>18, WorkingRow, RowPatches DEF StoreTokens, Refuses, TablesOK
<1>19. CASE MarkExpired(u)
  BY <1>0, <1>1, <1>2, <1>19, WorkingRow, RowPatches DEF MarkExpired, Refuses, TablesOK
<1>20. CASE Fails(u) \/ Crash(u)
  BY <1>3, <1>4, <1>20 DEF Fails, Crash, Fault
<1>21. CASE LosesReply(u)
  <2>1. my[u].row \in Rows /\ [state |-> "live", gen |-> grant[my[u].row].gen + 1] \in GrantType
    BY <1>21, WorkingRow DEF LosesReply, GrantType
  <2> QED BY <1>0, <1>3, <1>21, <2>1 DEF LosesReply, Fault, TablesOK
<1> QED BY <1>6, <1>8, <1>9, <1>10, <1>11, <1>12, <1>13, <1>14, <1>15, <1>16, <1>17, <1>18,
           <1>19, <1>20, <1>21 DEF Acts, Handle

(* What a handler turns to: it keeps its row, or forgets it.               *)
Turn(u, l, r) ==
  /\ l \in PCs /\ r \in HandlerType
  /\ pc' = [pc EXCEPT ![u] = l] /\ my' = [my EXCEPT ![u] = r]
  /\ l \notin {"idle", "create"} => r.row \in Rows
  /\ \/ pc[u] \in {"idle", "create"}
     \/ r.row = my[u].row
     \/ l \in {"idle", "create"}

LEMMA Turns ==
  ASSUME TypeOK, NEW u \in Users, Acts(u)
  PROVE  \E l, r : Turn(u, l, r)
<1>0. TablesOK /\ HandlersOK /\ my[u] \in HandlerType /\ [my EXCEPT ![u] = my[u]] = my
  BY TypeParts DEF HandlersOK
<1>1. ASSUME NEW l \in PCs, Goto(u, l), UNCHANGED my, pc[u] \notin {"idle", "create"}
      PROVE  Turn(u, l, my[u])
  BY <1>0, <1>1 DEF Goto, Turn, HandlersOK
<1>2. ASSUME Return(u) PROVE Turn(u, "idle", Fresh)
  BY <1>2, FreshType DEF Return, Goto, Become, Turn, PCs
<1>3. ASSUME NEW l \in PCs, NEW r \in HandlerType, Goto(u, l), Become(u, r),
             pc[u] \notin {"idle", "create"}, r.row = my[u].row
      PROVE  Turn(u, l, r)
  BY <1>0, <1>3 DEF Goto, Become, Turn, HandlersOK
<1>4. ASSUME NEW i \in Rows \cup {0}, NEW then \in {"idle", "create"}, NEW l \in PCs,
             i = 0 => l \in {"idle", "create"}, Arrive(u, i, then, l)
      PROVE  \E k, r : Turn(u, k, r)
  <2> DEFINE t == IF i = 0 THEN 0 ELSE conn[i].token
             r == [Fresh EXCEPT !.row = i, !.token = t, !.then = then]
  <2>1. t \in Nat
    BY <1>0 DEF TablesOK, RowType
  <2> HIDE DEF t
  <2>2. r \in HandlerType /\ r.row = i
    BY <2>1, FreshType DEF HandlerType, Fresh
  <2>3. Goto(u, l) /\ Become(u, r) /\ pc[u] = "idle"
    BY <1>4 DEF Arrive, t
  <2> HIDE DEF r
  <2>4. Turn(u, l, r)
    BY <1>4, <2>2, <2>3 DEF Goto, Become, Turn
  <2> QED BY <2>4
<1>5. CASE Request(u)
  <2> USE DEF PCs
  <2>1. latest \in Rows \cup {0} /\ (CurrentStatus # "NONE" => latest # 0)
    BY <1>0 DEF TablesOK, CurrentStatus
  <2>2. CASE Begin(u)
    BY <1>4, <2>1, <2>2 DEF Begin
  <2>3. CASE Disconnect(u)
    BY <1>4, <2>1, <2>3 DEF Disconnect
  <2>4. CASE Use(u)
    BY <1>4, <2>1, <2>4 DEF Use
  <2>5. ASSUME NEW i \in Rows, Callback(u, i) PROVE \E l, r : Turn(u, l, r)
    <3> DEFINE r == [Fresh EXCEPT !.row = i]
    <3>1. r \in HandlerType /\ r.row = i
      BY FreshType DEF HandlerType
    <3>2. Turn(u, "check", r)
      BY <2>5, <3>1 DEF Callback, Goto, Become, Turn
    <3> QED BY <3>2
  <2> QED BY <1>5, <2>2, <2>3, <2>4, <2>5 DEF Request
<1>6. CASE Handle(u)
  <2> USE DEF PCs
  <2>1. CASE Revoke(u) BY <1>1, <2>1 DEF Revoke
  <2>2. CASE Clear(u)
    <3>1. CASE Return(u) BY <1>2, <3>1
    <3>2. CASE Goto(u, "create") /\ Become(u, Fresh)
      <4>1. Turn(u, "create", Fresh)
        BY <3>2, FreshType DEF Goto, Become, Turn
      <4> QED BY <4>1
    <3> QED BY <2>2, <3>1, <3>2 DEF Clear
  <2>3. CASE CreateRow(u)
    <3>1. CASE Return(u) BY <1>2, <3>1
    <3>2. ASSUME NEW i \in Rows, Goto(u, "state"), Become(u, Created(u, i))
          PROVE  \E l, r : Turn(u, l, r)
      <4>1. Created(u, i) \in HandlerType /\ Created(u, i).row = i
        BY <1>0 DEF Created, HandlerType
      <4>2. Turn(u, "state", Created(u, i))
        BY <2>3, <3>2, <4>1 DEF CreateRow, Goto, Become, Turn
      <4> QED BY <4>2
    <3> QED BY <2>3, <3>1, <3>2 DEF CreateRow, Unused
  <2>4. CASE CreateState(u) BY <1>1, <2>4 DEF CreateState
  <2>5. CASE Announce(u) \/ Tidy(u) \/ FailRow(u) \/ MarkExpired(u)
    BY <1>2, <2>5 DEF Announce, Tidy, FailRow, MarkExpired
  <2>6. CASE Check(u) BY <1>1, <1>2, <2>6 DEF Check
  <2>7. CASE Exchange(u)
    <3>1. [my[u] EXCEPT !.token = 1] \in HandlerType
      BY <1>0 DEF HandlerType
    <3>2. Turn(u, "store", [my[u] EXCEPT !.token = 1])
      BY <1>0, <1>3, <2>7, <3>1 DEF Exchange, HandlerType
    <3> QED BY <3>2
  <2>8. CASE Store(u) BY <1>1, <2>8 DEF Store
  <2>9. CASE Undo(u) BY <1>1, <2>9 DEF Undo
  <2>10. CASE Require(u)
    <3>1. CASE Return(u) BY <1>2, <3>1
    <3>2. ASSUME NEW l \in {"refresh", "operate"}, Goto(u, l),
                 Become(u, [my[u] EXCEPT !.token = conn[my[u].row].token])
          PROVE  \E k, r : Turn(u, k, r)
      <4>1. conn[my[u].row].token \in Nat
        BY <2>10, WorkingRow DEF Require, RowType
      <4>2. [my[u] EXCEPT !.token = conn[my[u].row].token] \in HandlerType
        BY <1>0, <4>1 DEF HandlerType
      <4>3. Turn(u, l, [my[u] EXCEPT !.token = conn[my[u].row].token])
        BY <1>0, <1>3, <2>10, <3>2, <4>2 DEF Require, HandlerType
      <4> QED BY <4>3
    <3> QED BY <2>10, <3>1, <3>2 DEF Require
  <2>11. CASE Refresh(u)
    <3>1. CASE Goto(u, "expire") /\ UNCHANGED my
      BY <1>1, <2>11, <3>1 DEF Refresh
    <3>2. CASE /\ Goto(u, "storeTokens")
               /\ Become(u, [my[u] EXCEPT !.token = grant[my[u].row].gen + 1])
      <4> DEFINE t == grant[my[u].row].gen + 1
      <4>1. t \in Nat
        BY <2>11, WorkingRow DEF Refresh, GrantType
      <4> HIDE DEF t
      <4>2. [my[u] EXCEPT !.token = t] \in HandlerType
        BY <1>0, <4>1 DEF HandlerType
      <4>3. Turn(u, "storeTokens", [my[u] EXCEPT !.token = t])
        BY <1>0, <1>3, <2>11, <3>2, <4>2 DEF Refresh, HandlerType, t
      <4> QED BY <4>3
    <3> QED BY <2>11, <3>1, <3>2 DEF Refresh
  <2>12. CASE StoreTokens(u) BY <1>1, <1>2, <2>12 DEF StoreTokens
  <2>13. CASE Operate(u)
    <3>1. CASE Return(u) BY <1>2, <3>1
    <3>2. CASE Goto(u, "refresh") /\ Become(u, [my[u] EXCEPT !.again = TRUE])
      <4>1. [my[u] EXCEPT !.again = TRUE] \in HandlerType
        BY <1>0 DEF HandlerType
      <4>2. Turn(u, "refresh", [my[u] EXCEPT !.again = TRUE])
        BY <1>0, <1>3, <2>13, <3>2, <4>1 DEF Operate, HandlerType
      <4> QED BY <4>2
    <3> QED BY <2>13, <3>1, <3>2 DEF Operate
  <2> QED BY <1>6, <2>1, <2>2, <2>3, <2>4, <2>5, <2>6, <2>7, <2>8, <2>9, <2>10, <2>11,
             <2>12, <2>13 DEF Handle
<1>7. ASSUME NEW to \in PCs, NEW loses, Fault(u, to, loses),
             to \notin {"idle", "create"} => pc[u] \notin {"idle", "create"}
      PROVE  \E l, r : Turn(u, l, r)
  <2>1. CASE to = "idle"
    <3>1. Turn(u, "idle", Fresh)
      BY <1>7, <2>1, FreshType DEF Fault, Goto, Become, Turn
    <3> QED BY <3>1
  <2>2. CASE to # "idle"
    <3>1. Turn(u, to, my[u])
      BY <1>0, <1>7, <2>2 DEF Fault, Goto, Become, Turn, HandlersOK
    <3> QED BY <3>1
  <2> QED BY <2>1, <2>2
<1>8. /\ OnFailure(pc[u]) \in PCs
      /\ OnFailure(pc[u]) # "idle" => pc[u] \notin {"idle", "create"}
  BY DEF OnFailure, PCs
<1>9. CASE Fails(u) \/ LosesReply(u)
  BY <1>7, <1>8, <1>9 DEF Fails, LosesReply
<1>10. CASE Crash(u)
  BY <1>7, <1>10 DEF Crash, PCs
<1> QED BY <1>5, <1>6, <1>9, <1>10 DEF Acts

LEMMA StepHandlersType ==
  ASSUME TypeOK, NEW u \in Users, Acts(u)
  PROVE  HandlersOK'
<1>1. PICK l, r : Turn(u, l, r)
  BY Turns
<1> QED BY <1>1, TypeParts, TurnType DEF Turn, Goto, Become

LEMMA StepRestType ==
  ASSUME TypeOK, NEW u \in Users, Acts(u), Watch(u)
  PROVE  BoundsOK' /\ HistoryOK'
<1>0. BoundsOK /\ HistoryOK /\ MaxRequests \in Nat /\ MaxFaults \in Nat
  BY TypeParts, BoundAssumption
<1>1. raced' \subseteq Rows
  BY <1>0 DEF Watch, HistoryOK
<1>2. ASSUME UNCHANGED bounds PROVE BoundsOK'
  BY <1>0, <1>2 DEF bounds, BoundsOK
<1>3. ASSUME UNCHANGED <<production, expiries, faults>>, requests < MaxRequests,
             requests' = requests + 1
      PROVE  BoundsOK'
  BY <1>0, <1>3 DEF BoundsOK
<1>4. ASSUME UNCHANGED <<severed, overtaken>>, cut' \subseteq Rows PROVE HistoryOK'
  BY <1>0, <1>1, <1>4 DEF HistoryOK
<1>5. UNCHANGED history => UNCHANGED <<severed, overtaken>> /\ cut' \subseteq Rows
  BY <1>0 DEF history, HistoryOK
<1>6. CASE Request(u)
  BY <1>3, <1>4, <1>5, <1>6 DEF Request, Begin, Disconnect, Use, Callback, Arrive
<1>7. CASE Revoke(u) \/ Undo(u)
  BY <1>0, <1>2, <1>4, <1>7, WorkingRow DEF Revoke, Undo, GivesBack, HistoryOK
<1>8. CASE Clear(u)
  <2>1. my[u].row \in Rows /\ conn[my[u].row].status \in Statuses
    BY <1>8, WorkingRow DEF Clear, RowType
  <2> QED BY <1>0, <1>1, <1>2, <1>8, <2>1 DEF Clear, HistoryOK
<1>9. CASE Handle(u) /\ ~Revoke(u) /\ ~Undo(u) /\ ~Clear(u)
  <2>1. UNCHANGED <<bounds, history>>
    BY <1>9 DEF Handle, CreateRow, CreateState, Announce, Check, Exchange, Store, Tidy,
       FailRow, Require, Refresh, StoreTokens, MarkExpired, Operate
  <2> QED BY <1>2, <1>4, <1>5, <2>1
<1>10. ASSUME NEW to, NEW loses, Fault(u, to, loses) PROVE BoundsOK' /\ HistoryOK'
  <2>1. my[u].row \in Rows \cup {0}
    BY TypeParts DEF HandlersOK, HandlerType
  <2>2. cut' \subseteq Rows /\ UNCHANGED <<severed, overtaken>>
    BY <1>0, <1>10, <2>1 DEF Fault, HistoryOK
  <2>3. BoundsOK'
    BY <1>0, <1>10 DEF Fault, BoundsOK
  <2> QED BY <1>4, <2>2, <2>3
<1>11. CASE Fails(u) \/ LosesReply(u) \/ Crash(u)
  BY <1>10, <1>11 DEF Fails, LosesReply, Crash
<1> QED BY <1>6, <1>7, <1>8, <1>9, <1>11 DEF Acts

LEMMA StepType == TypeOK /\ [Next]_vars => TypeOK'
<1> SUFFICES ASSUME TypeOK, [Next]_vars PROVE TypeOK'
  OBVIOUS
<1>0. TablesOK /\ HandlersOK /\ BoundsOK /\ HistoryOK /\ MaxExpiries \in Nat
  BY TypeParts, BoundAssumption
<1>1. ASSUME NEW u \in Users, Acts(u), Watch(u) PROVE TypeOK'
  BY <1>1, StepTablesType, StepHandlersType, StepRestType, TypePartsNext
<1>2. ASSUME NEW i \in Rows, Expire(i) \/ Withdraw(i) PROVE TypeOK'
  <2>1. [conn[i] EXCEPT !.expired = TRUE] \in RowType
        /\ [grant[i] EXCEPT !.state = "withdrawn"] \in GrantType
    BY <1>0 DEF TablesOK, RowType, GrantType
  <2>2. TablesOK'
    BY <1>0, <1>2, <2>1 DEF Expire, Withdraw, TablesOK, tables
  <2>3. HandlersOK' /\ HistoryOK'
    BY <1>0, <1>2 DEF Expire, Withdraw, HandlersOK, HistoryOK, history
  <2>4. BoundsOK'
    BY <1>0, <1>2 DEF Expire, Withdraw, BoundsOK
  <2> QED BY <2>2, <2>3, <2>4, TypePartsNext
<1>3. CASE UNCHANGED vars
  BY <1>0, <1>3, TypePartsNext DEF vars, tables, bounds, history, TablesOK, HandlersOK, BoundsOK,
     HistoryOK
<1> QED BY <1>1, <1>2, <1>3 DEF Next, Acts

(* The rows, the grants and what every handler holds keep their types, and *)
(* a handler at work always names a row.                                   *)
THEOREM ConnectionTypeCorrect == Spec => []TypeOK
BY InitType, StepType, PTL DEF Spec
-----------------------------------------------------------------------------
(* What a user's step may change: the row its handler is at, the row of    *)
(* the state a callback consumes, or a row that did not exist.             *)
Same(j) ==
  /\ conn'[j] = conn[j] /\ oauth'[j] = oauth[j] /\ grant'[j] = grant[j]
  /\ j \in severed' <=> j \in severed

Works(u, j) == pc[u] \notin {"idle", "create"} /\ my[u].row = j

Makes(u, j) ==
  /\ pc[u] = "create" /\ conn[j].status = "NONE"
  /\ Accepts(j, [NoRow EXCEPT !.status = "PENDING", !.by = u])
  /\ Goto(u, "state") /\ Become(u, Created(u, j))
  /\ UNCHANGED <<oauth, grant, bounds, history>>

LEMMA Makings ==
  ASSUME TypeOK, NEW u \in Users, CreateRow(u)
  PROVE  (\E i \in Rows : Makes(u, i)) \/ (UNCHANGED <<conn, latest>> /\ Return(u))
BY DEF CreateRow, Makes, Unused, Refuses

LEMMA OwnRowOnly ==
  ASSUME TypeOK, NEW u \in Users, Acts(u), NEW j \in Rows
  PROVE  Works(u, j) \/ Callback(u, j) \/ Makes(u, j) \/ Same(j)
<1>0. TablesOK
  BY TypeParts
<1>1. ASSUME UNCHANGED <<tables, grant, severed>> PROVE Same(j)
  BY <1>1 DEF tables, Same
<1>2. UNCHANGED history => UNCHANGED severed
  BY DEF history
<1>3. CASE Begin(u) \/ Disconnect(u) \/ Use(u)
  BY <1>1, <1>2, <1>3 DEF Begin, Disconnect, Use, Arrive
<1>4. ASSUME NEW i \in Rows, Callback(u, i), i # j PROVE Same(j)
  BY <1>0, <1>2, <1>4 DEF Callback, Same, TablesOK
<1>5. CASE CreateRow(u)
  <2>1. CASE UNCHANGED <<conn, latest>>
    BY <1>1, <1>2, <1>5, <2>1 DEF CreateRow, tables
  <2>2. ASSUME NEW i \in Rows, Makes(u, i), i # j PROVE Same(j)
    BY <1>0, <1>2, <2>2 DEF Makes, Accepts, Same, TablesOK
  <2> QED BY <1>5, <2>1, <2>2, Makings
<1>6. CASE pc[u] \notin {"idle", "create"} /\ my[u].row # j
  <2>1. my[u].row \in Rows
    BY <1>6, WorkingRow
  <2>2. ASSUME NEW row, Accepts(my[u].row, row), UNCHANGED <<oauth, grant, severed>> PROVE Same(j)
    BY <1>0, <1>6, <2>1, <2>2 DEF Accepts, Same, TablesOK
  <2>3. ASSUME UNCHANGED <<tables, severed>>, NEW g, grant' = [grant EXCEPT ![my[u].row] = g]
        PROVE  Same(j)
    BY <1>0, <1>6, <2>1, <2>3 DEF tables, Same, TablesOK
  <2>4. ASSUME UNCHANGED <<conn, latest, grant, severed>>, NEW o,
               oauth' = [oauth EXCEPT ![my[u].row] = o]
        PROVE  Same(j)
    BY <1>0, <1>6, <2>1, <2>4 DEF Same, TablesOK
  <2>5. CASE Revoke(u) \/ Undo(u)
    BY <1>1, <2>3, <2>5 DEF Revoke, Undo, GivesBack, Ended
  <2>6. CASE Clear(u)
    BY <1>0, <1>6, <2>1, <2>6 DEF Clear, Accepts, Same, TablesOK
  <2>7. CASE CreateState(u) \/ Tidy(u)
    BY <1>2, <2>4, <2>7 DEF CreateState, Tidy
  <2>8. CASE Announce(u) \/ Check(u) \/ Require(u) \/ Operate(u)
    BY <1>1, <1>2, <2>8 DEF Announce, Check, Require, Operate
  <2>9. CASE Exchange(u) \/ Refresh(u)
    BY <1>1, <1>2, <2>3, <2>9 DEF Exchange, Refresh
  <2>10. CASE Store(u) \/ FailRow(u) \/ StoreTokens(u) \/ MarkExpired(u)
    BY <1>1, <1>2, <2>2, <2>10 DEF Store, FailRow, StoreTokens, MarkExpired, Refuses, tables
  <2>11. CASE Fails(u) \/ Crash(u)
    BY <1>1, <2>11 DEF Fails, Crash, Fault
  <2>12. CASE LosesReply(u)
    BY <2>3, <2>12 DEF LosesReply, Fault
  <2>13. CASE Request(u) \/ CreateRow(u)
    BY <1>6, <2>13 DEF Request, Begin, Disconnect, Use, Callback, Arrive, CreateRow
  <2> QED BY <2>5, <2>6, <2>7, <2>8, <2>9, <2>10, <2>11, <2>12, <2>13 DEF Acts, Handle
<1>7. CASE pc[u] \in {"idle", "create"} /\ ~Request(u) /\ ~CreateRow(u)
  <2>1. UNCHANGED <<tables, grant, severed>>
    BY <1>7 DEF Acts, Handle, Revoke, Clear, CreateState, Announce, Check, Exchange, Store, Tidy,
       Undo, FailRow, Require, Refresh, StoreTokens, MarkExpired, Operate, Fails, LosesReply,
       Crash, Fault
  <2> QED BY <1>1, <2>1
<1> QED BY <1>3, <1>4, <1>5, <1>6, <1>7 DEF Request, Works

(* The histories only grow.                                                *)
LEMMA HistoryGrows ==
  ASSUME NEW u \in Users, Acts(u) \/ (\E i \in Rows : Expire(i) \/ Withdraw(i)),
         Acts(u) => Watch(u)
  PROVE  raced \subseteq raced' /\ cut \subseteq cut' /\ severed \subseteq severed'
<1>1. CASE \E i \in Rows : Expire(i) \/ Withdraw(i)
  BY <1>1 DEF Expire, Withdraw, history
<1>2. CASE Acts(u)
  <2>1. raced \subseteq raced'
    BY <1>2 DEF Watch
  <2>2. UNCHANGED history => cut \subseteq cut' /\ severed \subseteq severed'
    BY DEF history
  <2>3. CASE Request(u)
    BY <2>1, <2>2, <2>3 DEF Request, Begin, Disconnect, Use, Callback, Arrive
  <2>4. CASE Revoke(u) \/ Clear(u) \/ Undo(u)
    BY <2>1, <2>4 DEF Revoke, Clear, Undo, GivesBack
  <2>5. CASE Handle(u) /\ ~Revoke(u) /\ ~Clear(u) /\ ~Undo(u)
    BY <2>1, <2>2, <2>5 DEF Handle, CreateRow, CreateState, Announce, Check, Exchange, Store, Tidy,
       Undo, FailRow, Require, Refresh, StoreTokens, MarkExpired, Operate
  <2>6. CASE Fails(u) \/ LosesReply(u) \/ Crash(u)
    BY <2>1, <2>6 DEF Fails, LosesReply, Crash, Fault
  <2> QED BY <1>2, <2>3, <2>4, <2>5, <2>6 DEF Acts
<1> QED BY <1>1, <1>2
-----------------------------------------------------------------------------
(* Rows that exist: a handler at work, the current row, a state, a grant   *)
(* and a disconnect are about a row that was made.                         *)
Known(i) == conn[i].status # "NONE"

KnownInv ==
  /\ \A u \in Users : pc[u] \notin {"idle", "create"} => Known(my[u].row)
  /\ latest # 0 => Known(latest)
  /\ \A i \in Rows : ~Known(i) => /\ oauth[i] = "none" /\ grant[i].state = "none"
                                  /\ ~conn[i].realm /\ i \notin severed

(* What a step does to the row it writes: some state of a connection, or   *)
(* a clear.                                                                *)
LEMMA StatusSteps ==
  ASSUME TypeOK, NEW u \in Users, Acts(u)
  PROVE  \/ UNCHANGED <<conn, latest, overtaken>>
         \/ \E i \in Rows, row \in RowType : /\ Accepts(i, row) /\ UNCHANGED overtaken
                                             /\ row.status \notin {"NONE", "DISCONNECTED"}
         \/ Clear(u)
<1>0. TablesOK
  BY TypeParts
<1>1. UNCHANGED history => UNCHANGED overtaken
  BY DEF history
<1>2. UNCHANGED tables => UNCHANGED <<conn, latest>>
  BY DEF tables
<1>3. CASE Request(u)
  BY <1>1, <1>2, <1>3 DEF Request, Begin, Disconnect, Use, Callback, Arrive
<1>4. CASE CreateRow(u)
  <2>1. [NoRow EXCEPT !.status = "PENDING", !.by = u] \in RowType
        /\ [NoRow EXCEPT !.status = "PENDING", !.by = u].status = "PENDING"
    BY DEF RowType, NoRow, Statuses
  <2>2. UNCHANGED overtaken
    BY <1>1, <1>4 DEF CreateRow
  <2>3. CASE UNCHANGED <<conn, latest>>
    BY <2>2, <2>3
  <2>4. ASSUME NEW i \in Rows, Makes(u, i)
        PROVE  Accepts(i, [NoRow EXCEPT !.status = "PENDING", !.by = u])
    BY <2>4 DEF Makes
  <2> QED BY <1>4, <2>1, <2>2, <2>3, <2>4, Makings
<1>5. CASE Store(u)
  <2> DEFINE i == my[u].row
             row == [conn[i] EXCEPT !.status = "CONNECTED", !.realm = TRUE, !.env = TRUE,
                                    !.token = my[u].token, !.expired = FALSE]
  <2>1. i \in Rows /\ row \in RowType /\ conn[i] \in RowType
    BY <1>5, WorkingRow, RowPatches DEF Store
  <2>2. row.status = "CONNECTED"
    BY <2>1 DEF RowType
  <2>3. Accepts(i, row) \/ UNCHANGED <<conn, latest>>
    BY <1>5 DEF Store, Refuses
  <2> HIDE DEF row
  <2> QED BY <1>1, <1>5, <2>1, <2>2, <2>3 DEF Store
<1>6. CASE FailRow(u)
  <2> DEFINE i == my[u].row
             row == [conn[i] EXCEPT !.status = "FAILED"]
  <2>1. i \in Rows /\ row \in RowType /\ conn[i] \in RowType
    BY <1>6, WorkingRow, RowPatches DEF FailRow
  <2>2. row.status = "FAILED"
    BY <2>1 DEF RowType
  <2>3. Accepts(i, row) \/ UNCHANGED <<conn, latest>>
    BY <1>6 DEF FailRow, Refuses
  <2> HIDE DEF row
  <2> QED BY <1>1, <1>6, <2>1, <2>2, <2>3 DEF FailRow
<1>7. CASE MarkExpired(u)
  <2> DEFINE i == my[u].row
             row == [conn[i] EXCEPT !.status = "TOKEN_EXPIRED"]
  <2>1. i \in Rows /\ row \in RowType /\ conn[i] \in RowType
    BY <1>7, WorkingRow, RowPatches DEF MarkExpired
  <2>2. row.status = "TOKEN_EXPIRED"
    BY <2>1 DEF RowType
  <2>3. Accepts(i, row) \/ UNCHANGED <<conn, latest>>
    BY <1>7 DEF MarkExpired, Refuses
  <2> HIDE DEF row
  <2> QED BY <1>1, <1>7, <2>1, <2>2, <2>3 DEF MarkExpired
<1>8. CASE StoreTokens(u)
  <2> DEFINE i == my[u].row
             row == Renewed(conn[i], my[u].token)
  <2>1. i \in Rows /\ row \in RowType /\ conn[i] \in RowType
    BY <1>8, WorkingRow, RowPatches DEF StoreTokens
  <2>2. row.status = "CONNECTED"
    BY <2>1 DEF RowType, Renewed
  <2>3. Accepts(i, row) \/ UNCHANGED <<conn, latest>>
    BY <1>8 DEF StoreTokens, Refuses
  <2> HIDE DEF row
  <2> QED BY <1>1, <1>8, <2>1, <2>2, <2>3 DEF StoreTokens
<1>9. CASE \/ CreateState(u) \/ Announce(u) \/ Check(u) \/ Exchange(u) \/ Tidy(u) \/ Undo(u)
           \/ Require(u) \/ Refresh(u) \/ Operate(u) \/ Revoke(u)
  BY <1>1, <1>2, <1>9 DEF CreateState, Announce, Check, Exchange, Tidy, Undo, Require, Refresh,
     Operate, Revoke
<1>10. CASE Fails(u) \/ LosesReply(u) \/ Crash(u)
  BY <1>2, <1>10 DEF Fails, LosesReply, Crash, Fault
<1> QED BY <1>3, <1>4, <1>5, <1>6, <1>7, <1>8, <1>9, <1>10 DEF Acts, Handle

(* The row a handler starts at.                                            *)
LEMMA Starts ==
  ASSUME TypeOK, NEW u \in Users, Acts(u), pc[u] \in {"idle", "create"},
         pc'[u] \notin {"idle", "create"}
  PROVE  \/ /\ pc[u] = "idle" /\ UNCHANGED <<tables, grant>> /\ latest # 0
            /\ my'[u].row = latest /\ pc'[u] \in {"clear", "revoke", "require"}
            /\ pc'[u] # "require" => my'[u].token = conn[latest].token
            /\ pc'[u] = "clear" => conn[latest].token = 0
         \/ \E i \in Rows : \/ Callback(u, i) /\ pc'[u] = "check"
                            \/ Makes(u, i) /\ pc'[u] = "state"
            /\ my'[u].row = i
<1>0. TablesOK /\ HandlersOK
  BY TypeParts
<1>1. CASE Request(u)
  <2>1. ASSUME NEW l, Arrive(u, 0, "idle", l), l \in {"idle", "create"} PROVE FALSE
    BY <1>0, <2>1 DEF Arrive, Goto, HandlersOK
  <2>2. ASSUME NEW l \in PCs, NEW then \in {"idle", "create"}, Arrive(u, latest, then, l), latest # 0
        PROVE  /\ pc[u] = "idle" /\ UNCHANGED <<tables, grant>> /\ latest # 0
               /\ my'[u].row = latest /\ pc'[u] = l /\ my'[u].token = conn[latest].token
    BY <1>0, <2>2 DEF Arrive, Goto, Become, HandlersOK, Fresh
  <2>3. CurrentStatus # "NONE" => latest # 0
    BY DEF CurrentStatus
  <2>4. CASE Begin(u)
    BY <2>1, <2>2, <2>3, <2>4 DEF Begin, PCs
  <2>5. CASE Disconnect(u) \/ Use(u)
    BY <2>2, <2>3, <2>5 DEF Disconnect, Use, PCs
  <2>6. ASSUME NEW i \in Rows, Callback(u, i) PROVE my'[u].row = i /\ pc'[u] = "check"
    BY <1>0, <2>6 DEF Callback, Goto, Become, HandlersOK, Fresh
  <2> QED BY <1>1, <2>4, <2>5, <2>6 DEF Request
<1>2. CASE CreateRow(u)
  <2>1. ~Return(u)
    BY <1>0 DEF Return, Goto, HandlersOK
  <2>2. ASSUME NEW i \in Rows, Makes(u, i) PROVE my'[u].row = i /\ pc'[u] = "state"
    BY <1>0, <2>2 DEF Makes, Goto, Become, Created, HandlersOK, HandlerType
  <2> QED BY <1>2, <2>1, <2>2, Makings
<1>3. CASE Fails(u) \/ Crash(u) \/ LosesReply(u)
  <2>1. ASSUME Goto(u, "idle") PROVE FALSE
    BY <1>0, <2>1 DEF Goto, HandlersOK
  <2> QED BY <1>3, <2>1 DEF Fails, Crash, LosesReply, Fault, OnFailure
<1>4. CASE Handle(u) /\ ~CreateRow(u)
  BY <1>4 DEF Handle, Revoke, Clear, CreateState, Announce, Check, Exchange, Store, Tidy,
     Undo, FailRow, Require, Refresh, StoreTokens, MarkExpired, Operate
<1> QED BY <1>1, <1>2, <1>3, <1>4 DEF Acts

LEMMA ClearedRow ==
  ASSUME NEW row \in RowType
  PROVE  /\ Cleared(row) \in RowType /\ Cleared(row).status = "DISCONNECTED"
         /\ Cleared(row).realm = FALSE /\ Cleared(row).token = 0
BY DEF Cleared, RowType, Statuses

LEMMA Clears ==
  ASSUME TypeOK, NEW u \in Users, Clear(u)
  PROVE  /\ my[u].row \in Rows /\ Accepts(my[u].row, Cleared(conn[my[u].row]))
         /\ Cleared(conn[my[u].row]) \in RowType
         /\ Cleared(conn[my[u].row]).status = "DISCONNECTED"
<1>1. my[u].row \in Rows /\ conn[my[u].row] \in RowType
  BY WorkingRow DEF Clear
<1> QED BY <1>1, ClearedRow DEF Clear

LEMMA StaysKnown ==
  ASSUME TypeOK, KnownInv, NEW u \in Users, Acts(u), NEW j \in Rows, Known(j)
  PROVE  Known(j)'
<1>0. TablesOK
  BY TypeParts
<1>1. CASE UNCHANGED <<conn, latest, overtaken>>
  BY <1>1 DEF Known
<1>2. ASSUME NEW i \in Rows, NEW row \in RowType, Accepts(i, row), row.status # "NONE"
      PROVE  Known(j)'
  BY <1>0, <1>2 DEF Accepts, Known, TablesOK
<1>3. CASE Clear(u)
  BY <1>2, <1>3, Clears
<1> QED BY <1>1, <1>2, <1>3, StatusSteps

LEMMA KnownStep == TypeOK /\ KnownInv /\ [Next]_vars => KnownInv'
<1> SUFFICES ASSUME TypeOK, KnownInv, [Next]_vars PROVE KnownInv'
  OBVIOUS
<1>0. TablesOK /\ HandlersOK
  BY TypeParts
<1>1. ASSUME NEW u \in Users, Acts(u) PROVE KnownInv'
  <2>1. ASSUME NEW v \in Users, pc'[v] \notin {"idle", "create"} PROVE Known(my[v].row)'
    <3>1. PICK l, r : Turn(u, l, r)
      BY <1>1, Turns
    <3>2. CASE v # u \/ (pc[u] \notin {"idle", "create"})
      <4>1. pc[v] \notin {"idle", "create"} /\ my'[v].row = my[v].row
        BY <1>0, <2>1, <3>1, <3>2 DEF Turn, HandlersOK
      <4>2. my[v].row \in Rows /\ Known(my[v].row)
        BY <4>1, WorkingRow DEF KnownInv
      <4> QED BY <1>1, <4>1, <4>2, StaysKnown DEF Known
    <3>3. CASE v = u /\ pc[u] \in {"idle", "create"}
      <4>1. CASE latest # 0 /\ my'[u].row = latest /\ UNCHANGED <<tables, grant>>
        BY <3>3, <4>1 DEF KnownInv, Known, tables
      <4>2. ASSUME NEW i \in Rows, Callback(u, i), my'[u].row = i PROVE Known(my[u].row)'
        BY <4>2 DEF KnownInv, Known, Callback
      <4>3. ASSUME NEW i \in Rows, Makes(u, i), my'[u].row = i PROVE Known(my[u].row)'
        BY <1>0, <4>3 DEF Makes, Accepts, Known, TablesOK, NoRow
      <4> QED BY <1>1, <2>1, <3>3, <4>1, <4>2, <4>3, Starts
    <3> QED BY <3>2, <3>3
  <2>2. ASSUME latest' # 0 PROVE Known(latest)'
    <3>1. CASE UNCHANGED <<conn, latest, overtaken>>
      BY <2>2, <3>1 DEF KnownInv, Known
    <3>2. ASSUME NEW i \in Rows, NEW row \in RowType, Accepts(i, row), row.status # "NONE"
          PROVE  Known(latest)'
      BY <1>0, <3>2 DEF Accepts, Known, TablesOK
    <3>3. CASE Clear(u)
      BY <3>2, <3>3, Clears
    <3> QED BY <1>1, <3>1, <3>2, <3>3, StatusSteps
  <2>3. ASSUME NEW j \in Rows, ~Known(j)'
        PROVE  (oauth[j] = "none" /\ grant[j].state = "none" /\ ~conn[j].realm
                /\ j \notin severed)'
    <3>1. ~Known(j)
      BY <1>1, <2>3, StaysKnown
    <3>2. ~Works(u, j) /\ ~Callback(u, j)
      BY <3>1 DEF Works, KnownInv, Callback
    <3>3. ~Makes(u, j)
      BY <1>0, <2>3 DEF Makes, Accepts, Known, NoRow, TablesOK
    <3>4. Same(j)
      BY <1>1, <3>2, <3>3, OwnRowOnly
    <3> QED BY <3>1, <3>4 DEF Same, KnownInv
  <2> QED BY <2>1, <2>2, <2>3 DEF KnownInv
<1>2. ASSUME NEW i \in Rows, Expire(i) PROVE KnownInv'
  <2>1. \A j \in Rows : conn'[j].status = conn[j].status /\ conn'[j].realm = conn[j].realm
    BY <1>0, <1>2 DEF Expire, TablesOK, RowType
  <2> QED BY <1>0, <1>2, <2>1 DEF Expire, KnownInv, Known, history, HandlersOK, HandlerType, TablesOK
<1>3. ASSUME NEW i \in Rows, Withdraw(i) PROVE KnownInv'
  <2>1. Known(i)
    BY <1>3 DEF Withdraw, KnownInv
  <2> QED BY <1>0, <1>3, <2>1 DEF Withdraw, KnownInv, Known, history, tables, TablesOK
<1>4. CASE UNCHANGED vars
  BY <1>4 DEF vars, tables, bounds, history, KnownInv, Known
<1> QED BY <1>1, <1>2, <1>3, <1>4 DEF Next, Acts
-----------------------------------------------------------------------------
(* One current connection: the index admits no second one.  The current    *)
(* row is then the one written last, since the only write that is of no    *)
(* current row is a clear: of the current row itself, or of one that was   *)
(* cleared already.                                                        *)
Current(i) == conn[i].status \notin {"NONE", "DISCONNECTED"}

OneCurrent == \A i, k \in Rows : Current(i) /\ Current(k) => i = k

LEMMA CurrentStep ==
  ASSUME TypeOK, KnownInv, OneCurrent, CurrentIsFound, [Next]_vars
  PROVE  OneCurrent' /\ CurrentIsFound'
<1>0. TablesOK
  BY TypeParts
<1>1. ASSUME UNCHANGED <<latest, overtaken>>, \A i \in Rows : conn'[i].status = conn[i].status
      PROVE  OneCurrent' /\ CurrentIsFound'
  BY <1>1 DEF OneCurrent, Current, CurrentIsFound
<1>2. ASSUME NEW u \in Users, Acts(u) PROVE OneCurrent' /\ CurrentIsFound'
  <2>1. ASSUME NEW i \in Rows, NEW row \in RowType, Accepts(i, row), UNCHANGED overtaken,
               row.status \notin {"NONE", "DISCONNECTED"}
        PROVE  OneCurrent' /\ CurrentIsFound'
    <3>1. \A k \in Rows : Current(k)' => k = i
      BY <1>0, <2>1 DEF Accepts, Admitted, Current, TablesOK
    <3> QED BY <2>1, <3>1 DEF OneCurrent, CurrentIsFound, Current, Accepts
  <2>2. CASE Clear(u)
    <3> DEFINE i == my[u].row
    <3>1. i \in Rows /\ conn' = [conn EXCEPT ![i] = Cleared(conn[i])] /\ latest' = i
          /\ Cleared(conn[i]).status = "DISCONNECTED"
      BY <2>2, Clears DEF Accepts
    <3>2. Known(i) /\ overtaken' = (overtaken \/ conn[i].status = "DISCONNECTED")
      BY <2>2 DEF Clear, KnownInv
    <3> HIDE DEF i
    <3>3. \A k \in Rows : Current(k)' => Current(k) /\ k # i
      BY <1>0, <3>1 DEF Current, TablesOK
    <3>4. Current(i) \/ overtaken'
      BY <3>2 DEF Known, Current
    <3> QED BY <3>1, <3>3, <3>4 DEF OneCurrent, CurrentIsFound, Current
  <2> QED BY <1>1, <1>2, <2>1, <2>2, StatusSteps
<1>3. ASSUME NEW i \in Rows, Expire(i) \/ Withdraw(i) PROVE OneCurrent' /\ CurrentIsFound'
  <2>1. \A j \in Rows : conn'[j].status = conn[j].status
    BY <1>0, <1>3 DEF Expire, Withdraw, tables, TablesOK, RowType
  <2> QED BY <1>1, <1>3, <2>1 DEF Expire, Withdraw, tables, history
<1>4. CASE UNCHANGED vars
  BY <1>1, <1>4 DEF vars, tables, history
<1> QED BY <1>2, <1>3, <1>4 DEF Next, Acts

LEMMA InitKnown == Init => KnownInv /\ OneCurrent /\ CurrentIsFound
<1> SUFFICES ASSUME Init PROVE KnownInv /\ OneCurrent /\ CurrentIsFound
  OBVIOUS
<1>1. /\ \A u \in Users : pc[u] = "idle"
      /\ oauth = [i \in Rows |-> "none"] /\ severed = {}
  BY DEF Init
<1>2. \/ \A i \in Rows : conn[i] = NoRow /\ grant[i] = NoGrant /\ latest = 0
      \/ /\ latest = 1 /\ conn[1].status = "CONNECTED"
         /\ \A i \in Rows \ {1} : conn[i] = NoRow /\ grant[i] = NoGrant
  BY RowsAssumption DEF Init
<1>3. KnownInv
  BY <1>1, <1>2, RowsAssumption DEF KnownInv, Known, NoRow, NoGrant
<1>4. OneCurrent /\ CurrentIsFound
  BY <1>2, RowsAssumption DEF OneCurrent, CurrentIsFound, Current, NoRow
<1> QED BY <1>3, <1>4

(* The row findCurrentConnection finds is the company's one connection, in *)
(* every interleaving of connects, disconnects, callbacks and refreshes,   *)
(* unless a row was cleared twice.                                         *)
THEOREM CurrentRowIsFound == Spec => []CurrentIsFound
<1> DEFINE I == TypeOK /\ KnownInv /\ OneCurrent /\ CurrentIsFound
<1>1. Init => I
  BY InitType, InitKnown
<1>2. I /\ [Next]_vars => I'
  BY StepType, KnownStep, CurrentStep
<1> QED BY <1>1, <1>2, PTL DEF Spec
-----------------------------------------------------------------------------
(* A row is opened once.  One handler at most is between making a row and  *)
(* storing what its code was exchanged for: its state is consumed once,    *)
(* and never of a row that has, or had, a company.                         *)
Opens == {"state", "check", "exchange", "store"}
Opening(u, i) == pc[u] \in Opens /\ my[u].row = i
HadCompany(i) == conn[i].realm \/ i \in severed

OpenedOnce(i) ==
  /\ \A u, v \in Users : Opening(u, i) /\ Opening(v, i) => u = v
  /\ oauth[i] = "open" \/ HadCompany(i) => \A u \in Users : ~Opening(u, i)
  /\ HadCompany(i) => oauth[i] # "open"
  /\ i \in severed => ~conn[i].realm

OpenInv == \A i \in Rows : OpenedOnce(i)

LEMMA RealmKept ==
  ASSUME NEW row \in RowType, NEW t \in Nat
  PROVE  /\ Renewed(row, t).realm = row.realm
         /\ [row EXCEPT !.status = "FAILED"].realm = row.realm
         /\ [row EXCEPT !.status = "TOKEN_EXPIRED"].realm = row.realm
BY DEF Renewed, RowType

LEMMA MarksKept ==
  ASSUME TypeOK, NEW u \in Users, Acts(u), pc[u] \notin {"idle", "create"},
         ~CreateState(u), ~Store(u), ~Tidy(u), ~Clear(u), NEW i \in Rows
  PROVE  /\ conn'[i].realm = conn[i].realm /\ oauth'[i] = oauth[i]
         /\ i \in severed' <=> i \in severed
<1>0. TablesOK /\ my[u].row \in Rows /\ conn[my[u].row] \in RowType /\ my[u].token \in Nat
  BY TypeParts, WorkingRow
<1>1. ASSUME UNCHANGED <<conn, oauth, severed>>
      PROVE  /\ conn'[i].realm = conn[i].realm /\ oauth'[i] = oauth[i]
             /\ i \in severed' <=> i \in severed
  BY <1>1
<1>2. UNCHANGED history => UNCHANGED severed
  BY DEF history
<1>3. UNCHANGED tables => UNCHANGED <<conn, oauth, latest>>
  BY DEF tables
<1>4. ASSUME NEW row, row.realm = conn[my[u].row].realm, UNCHANGED <<oauth, severed>>,
             Accepts(my[u].row, row) \/ UNCHANGED <<conn, latest>>
      PROVE  /\ conn'[i].realm = conn[i].realm /\ oauth'[i] = oauth[i]
             /\ i \in severed' <=> i \in severed
  BY <1>0, <1>4 DEF Accepts, TablesOK
<1>5. CASE Revoke(u) \/ Announce(u) \/ Check(u) \/ Exchange(u) \/ Undo(u) \/ Require(u)
           \/ Refresh(u) \/ Operate(u)
  BY <1>1, <1>2, <1>3, <1>5 DEF Revoke, Announce, Check, Exchange, Undo, Require, Refresh, Operate
<1>6. CASE FailRow(u)
  BY <1>0, <1>2, <1>4, <1>6, RealmKept DEF FailRow, Refuses
<1>7. CASE MarkExpired(u)
  BY <1>0, <1>2, <1>4, <1>7, RealmKept DEF MarkExpired, Refuses
<1>8. CASE StoreTokens(u)
  BY <1>0, <1>2, <1>4, <1>8, RealmKept DEF StoreTokens, Refuses
<1>9. CASE Fails(u) \/ LosesReply(u) \/ Crash(u)
  BY <1>1, <1>3, <1>9 DEF Fails, LosesReply, Crash, Fault
<1>10. CASE Request(u) \/ CreateRow(u)
  BY <1>10 DEF Request, Begin, Disconnect, Use, Callback, Arrive, CreateRow
<1> QED BY <1>5, <1>6, <1>7, <1>8, <1>9, <1>10 DEF Acts, Handle

(* Only a callback and the making of a row set out to open one.            *)
LEMMA OpeningKept ==
  ASSUME TypeOK, NEW u \in Users, Acts(u), pc'[u] \in Opens
  PROVE  \/ pc[u] \in Opens /\ my'[u].row = my[u].row /\ ~CreateState(u) /\ ~Store(u) /\ ~Tidy(u)
            /\ ~Clear(u)
         \/ \E i \in Rows : (Callback(u, i) \/ Makes(u, i)) /\ my'[u].row = i
<1>0. TablesOK /\ HandlersOK
  BY TypeParts
<1>1. PICK l, r : Turn(u, l, r)
  BY Turns
<1>2. pc'[u] = l /\ my'[u] = r
  BY <1>0, <1>1 DEF Turn, HandlersOK
<1>3. CASE pc[u] \in {"idle", "create"}
  BY <1>3, Starts DEF Opens
<1>4. CASE pc[u] \notin {"idle", "create"}
  <2>1. my'[u].row = my[u].row
    BY <1>1, <1>2, <1>4 DEF Turn, Opens
  <2>2. ASSUME NEW k, Goto(u, k), k \notin Opens PROVE FALSE
    BY <1>0, <2>2 DEF Goto, HandlersOK
  <2>3. ASSUME Return(u) PROVE FALSE
    BY <2>2, <2>3 DEF Return, Opens
  <2>4. ~Request(u) /\ ~CreateRow(u)
    BY <1>4 DEF Request, Begin, Disconnect, Use, Callback, Arrive, CreateRow
  <2>5. ~Revoke(u) /\ ~Clear(u) /\ ~CreateState(u) /\ ~Announce(u) /\ ~Store(u) /\ ~Tidy(u)
        /\ ~Undo(u) /\ ~FailRow(u) /\ ~Require(u) /\ ~Refresh(u) /\ ~StoreTokens(u)
        /\ ~MarkExpired(u) /\ ~Operate(u)
    BY <2>2, <2>3 DEF Revoke, Clear, CreateState, Announce, Store, Tidy, Undo, FailRow, Require,
       Refresh, StoreTokens, MarkExpired, Operate, Opens
  <2>6. OnFailure(pc[u]) \notin Opens
    BY DEF OnFailure, Opens
  <2>7. ~Fails(u) /\ ~LosesReply(u) /\ ~Crash(u)
    BY <2>2, <2>6 DEF Fails, LosesReply, Crash, Fault, Opens
  <2>8. Check(u) \/ Exchange(u)
    BY <2>4, <2>5, <2>7 DEF Acts, Handle
  <2> QED BY <2>1, <2>5, <2>8 DEF Check, Exchange, Opens
<1> QED BY <1>3, <1>4

LEMMA OpenStep ==
  ASSUME TypeOK, KnownInv, OpenInv, [Next]_vars
  PROVE  OpenInv'
<1>0. TablesOK /\ HandlersOK
  BY TypeParts
<1>1. ASSUME NEW u \in Users, Acts(u), NEW i \in Rows PROVE OpenedOnce(i)'
  <2>0. OpenedOnce(i)
    BY DEF OpenInv
  <2>1. PICK l, r : Turn(u, l, r)
    BY <1>1, Turns
  <2>2. \A v \in Users \ {u} : pc'[v] = pc[v] /\ my'[v] = my[v]
    BY <1>0, <2>1 DEF Turn, HandlersOK
  <2>3. ASSUME (Opening(u, i))' => Opening(u, i),
               conn'[i].realm = conn[i].realm, oauth'[i] = oauth[i], i \in severed' <=> i \in severed
        PROVE  OpenedOnce(i)'
    <3>1. \A v \in Users : (Opening(v, i))' => Opening(v, i)
      BY <2>2, <2>3 DEF Opening
    <3> QED BY <2>0, <2>3, <3>1 DEF OpenedOnce, HadCompany
  <2>4. ASSUME \A v \in Users \ {u} : ~Opening(v, i),
               (~HadCompany(i)' /\ oauth'[i] # "open") \/ ~(Opening(u, i))',
               HadCompany(i)' => oauth'[i] # "open", i \in severed' => ~conn'[i].realm
        PROVE  OpenedOnce(i)'
    <3>1. \A v \in Users : (Opening(v, i))' => v = u
      BY <2>2, <2>4 DEF Opening
    <3> QED BY <2>4, <3>1 DEF OpenedOnce
  <2>5. ASSUME Callback(u, i) PROVE OpenedOnce(i)'
    <3>1. oauth[i] = "open" /\ oauth'[i] = "used" /\ UNCHANGED <<conn, severed>>
      BY <1>0, <2>5 DEF Callback, history, TablesOK
    <3> QED BY <2>0, <2>4, <3>1 DEF OpenedOnce, HadCompany
  <2>6. ASSUME Makes(u, i) PROVE OpenedOnce(i)'
    <3>1. ~Known(i) /\ conn'[i].realm = FALSE /\ UNCHANGED <<oauth, severed>>
      BY <1>0, <2>6 DEF Makes, Known, Accepts, NoRow, history, TablesOK
    <3>2. \A v \in Users : ~Opening(v, i)
      BY <3>1 DEF KnownInv, Opening, Opens
    <3> QED BY <2>4, <3>1, <3>2 DEF KnownInv, HadCompany
  <2>7. ASSUME Same(i), ~Callback(u, i), ~Makes(u, i), ~Works(u, i) PROVE OpenedOnce(i)'
    <3>1. (Opening(u, i))' => Opening(u, i)
      <4>1. SUFFICES ASSUME (Opening(u, i))', ~Opening(u, i) PROVE FALSE
        OBVIOUS
      <4>2. CASE \E k \in Rows : (Callback(u, k) \/ Makes(u, k)) /\ my'[u].row = k
        BY <2>7, <4>1, <4>2 DEF Opening
      <4>3. CASE pc[u] \in Opens /\ my'[u].row = my[u].row
        BY <4>1, <4>3 DEF Opening
      <4> QED BY <1>1, <4>1, <4>2, <4>3, OpeningKept DEF Opening
    <3> QED BY <2>3, <2>7, <3>1 DEF Same
  <2>8. CASE Works(u, i) /\ CreateState(u)
    <3>1. Opening(u, i) /\ oauth'[i] = "open" /\ UNCHANGED <<conn, severed>>
          /\ ~(Opening(u, i))'
      BY <1>0, <2>8 DEF CreateState, Works, Opening, Opens, Goto, history, TablesOK, HandlersOK
    <3> QED BY <2>0, <2>4, <3>1 DEF OpenedOnce, HadCompany
  <2>9. CASE Works(u, i) /\ Store(u)
    <3>1. Opening(u, i) /\ ~(Opening(u, i))' /\ UNCHANGED <<oauth, severed>>
      BY <1>0, <2>9 DEF Store, Works, Opening, Opens, Goto, history, HandlersOK
    <3> QED BY <2>0, <2>4, <3>1 DEF OpenedOnce, HadCompany
  <2>10. CASE Works(u, i) /\ Tidy(u)
    <3>1. ~(Opening(u, i))' /\ UNCHANGED <<conn, severed>> /\ oauth'[i] = "none"
      BY <1>0, <2>10 DEF Tidy, Works, Opening, Opens, Return, Goto, history, HandlersOK, TablesOK
    <3>2. \A v \in Users : (Opening(v, i))' => Opening(v, i)
      BY <2>2, <3>1 DEF Opening
    <3> QED BY <2>0, <3>1, <3>2 DEF OpenedOnce, HadCompany
  <2>11. CASE Works(u, i) /\ Clear(u)
    <3>1. ~(Opening(u, i))' /\ UNCHANGED oauth
      BY <1>0, <2>11 DEF Clear, Opening, Opens, Return, Goto, HandlersOK
    <3>2. conn'[i] = Cleared(conn[i]) /\ conn'[i].realm = FALSE
          /\ (i \in severed' => HadCompany(i)) /\ (i \in severed => i \in severed')
      BY <1>0, <2>11, ClearedRow DEF Clear, Works, Accepts, HadCompany, TablesOK
    <3>3. \A v \in Users : (Opening(v, i))' => Opening(v, i)
      BY <2>2, <3>1 DEF Opening
    <3> QED BY <2>0, <3>1, <3>2, <3>3 DEF OpenedOnce, HadCompany
  <2>12. CASE Works(u, i) /\ ~CreateState(u) /\ ~Store(u) /\ ~Tidy(u) /\ ~Clear(u)
    <3>1. (Opening(u, i))' => Opening(u, i)
      BY <1>1, <2>12, OpeningKept DEF Opening, Works, Callback, Makes
    <3> QED BY <1>1, <2>3, <2>12, <3>1, MarksKept DEF Works
  <2> QED BY <1>1, <2>5, <2>6, <2>7, <2>8, <2>9, <2>10, <2>11, <2>12, OwnRowOnly
<1>2. ASSUME NEW i \in Rows, NEW k \in Rows, Expire(k) \/ Withdraw(k) PROVE OpenedOnce(i)'
  <2>1. conn'[i].realm = conn[i].realm
    BY <1>0, <1>2 DEF Expire, Withdraw, tables, TablesOK, RowType
  <2>2. UNCHANGED <<oauth, severed, pc, my>>
    BY <1>2 DEF Expire, Withdraw, tables, history
  <2> QED BY <2>1, <2>2 DEF OpenInv, OpenedOnce, HadCompany, Opening
<1>3. CASE UNCHANGED vars
  BY <1>3 DEF vars, tables, bounds, history, OpenInv, OpenedOnce, HadCompany, Opening
<1> QED BY <1>1, <1>2, <1>3 DEF Next, Acts, OpenInv
-----------------------------------------------------------------------------
(* Tokens and grants.  Where they differ some handler is still to make     *)
(* them agree, and what each handler is about to write rests on what the   *)
(* row and the grant still are.  Nothing is said of a row whose handlers   *)
(* overlapped, or that lost a handler.                                     *)
Unkept  == {"store", "storeTokens", "undo"}
Undoing == {"storeTokens", "clear", "failRow"}

Good(i)     == grant[i].state \in {"live", "withdrawn"}
Unstored(i) == grant[i].state = "live" /\ conn[i].token # grant[i].gen
Stale(i)    == Usable(i) /\ ~(Good(i) /\ conn[i].token = grant[i].gen)
Calm(i)     == i \notin raced \cup cut

Rests(v, i) ==
  /\ pc[v] \in {"store", "storeTokens"} => Good(i) /\ my[v].token = grant[i].gen
  /\ pc[v] \in {"refresh", "operate", "storeTokens"} => conn[i].status = "CONNECTED"
  /\ pc[v] = "revoke" => my[v].token = conn[i].token
  /\ pc[v] \in {"store", "tidy", "undo"} => my[v].token # 0
  /\ pc[v] = "clear" /\ grant[i].state = "live" =>
       conn[i].token = 0 /\ \E w \in Users \ {v} : Holds(w, i) /\ pc[w] \in Unkept

Accounted(i) ==
  /\ Unstored(i) => \E w \in Users : Holds(w, i) /\ pc[w] \in Unkept
  /\ Stale(i) => \E w \in Users : Holds(w, i) /\ pc[w] \in Undoing
  /\ \A v \in Users : Holds(v, i) => Rests(v, i)

Issued(i) == grant[i].state = "live" => grant[i].gen # 0

GrantInv == \A i \in Rows : Issued(i) /\ (Calm(i) => Accounted(i))

(* A step of u leaves the other handlers where they are.                   *)
Alike(u) == \A v \in Users \ {u} : pc'[v] = pc[v] /\ my'[v] = my[v]

LEMMA OthersStay ==
  ASSUME TypeOK, NEW u \in Users, Acts(u)
  PROVE  Alike(u)
<1>1. PICK l, r : Turn(u, l, r)
  BY Turns
<1> QED BY <1>1, TypeParts DEF Turn, Alike, HandlersOK

(* The row and its grant stay, and u leaves nothing behind it had to do.   *)
LEMMA Unmoved ==
  ASSUME NEW u \in Users, NEW i \in Rows, Alike(u), Accounted(i), Issued(i),
         conn'[i] = conn[i], grant'[i] = grant[i],
         Unstored(i) /\ Holds(u, i) /\ pc[u] \in Unkept => (Holds(u, i))' /\ pc'[u] \in Unkept,
         Stale(i) /\ Holds(u, i) /\ pc[u] \in Undoing => (Holds(u, i))' /\ pc'[u] \in Undoing,
         (Holds(u, i))' => (Rests(u, i))'
  PROVE  Accounted(i)'
<1>1. \A v \in Users \ {u} : ((Holds(v, i))' <=> Holds(v, i)) /\ pc'[v] = pc[v] /\ my'[v] = my[v]
  BY DEF Alike, Holds
<1>2. (Unstored(i)' <=> Unstored(i)) /\ (Stale(i)' <=> Stale(i)) /\ (Good(i)' <=> Good(i))
  BY DEF Unstored, Stale, Good, Usable
<1>3. ASSUME NEW X, X = Users \/ \E v \in Users : X = Users \ {v}, Unstored(i),
             \E w \in X : Holds(w, i) /\ pc[w] \in Unkept
      PROVE  \E w \in X : (Holds(w, i))' /\ pc'[w] \in Unkept
  BY <1>1, <1>3
<1>4. Stale(i)' => \E w \in Users : (Holds(w, i))' /\ pc'[w] \in Undoing
  BY <1>1, <1>2 DEF Accounted
<1>5. ASSUME NEW v \in Users, (Holds(v, i))' PROVE (Rests(v, i))'
  <2>1. CASE v = u
    BY <1>5, <2>1
  <2>2. CASE v # u
    <3>1. Rests(v, i) /\ pc'[v] = pc[v] /\ my'[v] = my[v]
      BY <1>1, <1>5, <2>2 DEF Accounted
    <3>2. pc[v] = "clear" /\ grant[i].state = "live" => Unstored(i)
      BY <3>1 DEF Rests, Unstored, Issued
    <3> QED BY <1>2, <1>3, <3>1, <3>2 DEF Rests
  <2> QED BY <2>1, <2>2
<1>6. Unstored(i)' => \E w \in Users : (Holds(w, i))' /\ pc'[w] \in Unkept
  BY <1>2, <1>3 DEF Accounted
<1> QED BY <1>4, <1>5, <1>6 DEF Accounted

(* The row or its grant changes, and u is the only handler at it.          *)
LEMMA Alone ==
  ASSUME NEW u \in Users, NEW i \in Rows, Alike(u), \A v \in Users \ {u} : ~Holds(v, i),
         Unstored(i)' => (Holds(u, i))' /\ pc'[u] \in Unkept,
         Stale(i)' => (Holds(u, i))' /\ pc'[u] \in Undoing,
         (Holds(u, i))' => (Rests(u, i))'
  PROVE  Accounted(i)'
<1>1. \A v \in Users \ {u} : ~(Holds(v, i))'
  BY DEF Alike, Holds
<1> QED BY <1>1 DEF Accounted

(* A handler that goes nowhere near a row.                                 *)
LEMMA Elsewhere ==
  ASSUME NEW u \in Users, NEW i \in Rows, Alike(u), Accounted(i), Issued(i),
         conn'[i] = conn[i], grant'[i] = grant[i],
         ~Holds(u, i) \/ pc[u] \notin Unkept \cup Undoing, ~(Holds(u, i))'
  PROVE  Accounted(i)'
BY Unmoved

LEMMA IssuedStep ==
  ASSUME TypeOK, GrantInv, NEW u \in Users, Acts(u), NEW i \in Rows
  PROVE  Issued(i)'
<1>0. TablesOK /\ Issued(i) /\ grant[i].gen \in Nat
  BY TypeParts DEF GrantInv, TablesOK, GrantType
<1>1. ASSUME grant'[i] = grant[i] PROVE Issued(i)'
  BY <1>0, <1>1 DEF Issued
<1>2. UNCHANGED grant => grant'[i] = grant[i]
  OBVIOUS
<1>3. ASSUME NEW k \in Rows, Ended(k) PROVE Issued(i)'
  <2>1. [grant[k] EXCEPT !.state = IF @ = "none" THEN @ ELSE "revoked"].state # "live"
    BY <1>0 DEF TablesOK, GrantType
  <2> QED BY <1>0, <1>3, <2>1 DEF Ended, Issued, TablesOK
<1>4. ASSUME NEW k \in Rows, NEW g, grant' = [grant EXCEPT ![k] = g], g.gen # 0 PROVE Issued(i)'
  BY <1>0, <1>4 DEF Issued, TablesOK
<1>5. CASE Request(u)
  BY <1>1, <1>5 DEF Request, Begin, Disconnect, Use, Callback, Arrive
<1>6. CASE Revoke(u) \/ Undo(u)
  BY <1>1, <1>3, <1>6, WorkingRow DEF Revoke, Undo, GivesBack
<1>7. CASE Exchange(u)
  <2>1. my[u].row \in Rows /\ grant' = [grant EXCEPT ![my[u].row] = [state |-> "live", gen |-> 1]]
    BY <1>7, WorkingRow DEF Exchange
  <2> QED BY <1>0, <2>1 DEF Issued, TablesOK
<1>8. CASE Refresh(u)
  <2>1. my[u].row \in Rows /\ [grant[my[u].row] EXCEPT !.gen = @ + 1].gen # 0
    BY <1>8, WorkingRow DEF Refresh, GrantType
  <2> QED BY <1>1, <1>4, <1>8, <2>1 DEF Refresh
<1>9. CASE LosesReply(u)
  <2> DEFINE n == grant[my[u].row].gen + 1
  <2>1. my[u].row \in Rows /\ n # 0
    BY <1>9, WorkingRow DEF LosesReply, GrantType
  <2>2. grant' = [grant EXCEPT ![my[u].row] = [state |-> "live", gen |-> n]]
    BY <1>9 DEF LosesReply
  <2> HIDE DEF n
  <2> QED BY <1>0, <2>1, <2>2 DEF Issued, TablesOK
<1>10. CASE Fails(u) \/ Crash(u)
  BY <1>1, <1>10 DEF Fails, Crash
<1>11. CASE Handle(u) /\ ~Revoke(u) /\ ~Undo(u) /\ ~Exchange(u) /\ ~Refresh(u)
  BY <1>1, <1>11 DEF Handle, Clear, CreateRow, CreateState, Announce, Check, Store, Tidy,
     FailRow, Require, StoreTokens, MarkExpired, Operate, tables
<1> QED BY <1>5, <1>6, <1>7, <1>8, <1>9, <1>10, <1>11 DEF Acts

(* The handler's own row: each step of it, where the row is still calm.    *)
Frame(u, i) ==
  /\ Alike(u) /\ Accounted(i) /\ Issued(i)
  /\ conn[i] \in RowType /\ grant[i] \in GrantType /\ my[u] \in HandlerType
  /\ \/ conn'[i] = conn[i] /\ grant'[i] = grant[i]
     \/ \A v \in Users \ {u} : ~Holds(v, i)

LEMMA RevokeStep ==
  ASSUME NEW u \in Users, NEW i \in Rows, Frame(u, i), my[u].row = i, TypeOK,
         Revoke(u), i \notin cut'
  PROVE  Accounted(i)'
<1>0. TablesOK /\ HandlersOK
  BY TypeParts
<1>1. /\ pc[u] = "revoke" /\ pc'[u] = "clear" /\ UNCHANGED <<conn, my>> /\ Holds(u, i)
      /\ Rests(u, i) /\ (Holds(u, i))'
  BY <1>0 DEF Revoke, Goto, tables, Holds, Holding, Frame, Accounted, HandlersOK
<1>2. \/ grant'[i].state # "live"
      \/ grant' = grant /\ my[u].token = 0
  BY <1>0 DEF Revoke, GivesBack, Ended, TablesOK, GrantType
<1>3. CASE grant'[i] # grant[i]
  <2>1. \A v \in Users \ {u} : ~Holds(v, i)
    BY <1>3 DEF Frame
  <2>2. grant'[i].state # "live"
    BY <1>2, <1>3
  <2>3. ~Unstored(i)' /\ (Rests(u, i))'
    BY <1>1, <2>2 DEF Unstored, Rests
  <2> QED BY <1>1, <2>1, <2>3, Alone DEF Frame, Undoing
<1>4. CASE grant'[i] = grant[i]
  <2>1. ASSUME grant[i].state = "live"
        PROVE  conn[i].token = 0 /\ \E w \in Users \ {u} : (Holds(w, i))' /\ pc'[w] \in Unkept
    <3>1. conn[i].token = 0 /\ Unstored(i)
      BY <1>1, <1>2, <1>4, <2>1 DEF Rests, Unstored, Frame, Issued
    <3>2. PICK w \in Users : Holds(w, i) /\ pc[w] \in Unkept
      BY <3>1 DEF Frame, Accounted
    <3>3. w # u
      BY <1>1, <3>2 DEF Unkept
    <3> QED BY <3>1, <3>2, <3>3 DEF Frame, Alike, Holds
  <2>2. (Rests(u, i))'
    BY <1>1, <1>4, <2>1 DEF Rests
  <2> QED BY <1>1, <1>4, <2>2, Unmoved DEF Frame, Unkept, Undoing
<1> QED BY <1>3, <1>4

LEMMA ClearStep ==
  ASSUME NEW u \in Users, NEW i \in Rows, Frame(u, i), my[u].row = i, TypeOK, Clear(u)
  PROVE  Accounted(i)'
<1>0. TablesOK /\ HandlersOK
  BY TypeParts
<1>1. /\ pc[u] = "clear" /\ Holds(u, i) /\ Rests(u, i)
      /\ conn'[i] = Cleared(conn[i]) /\ UNCHANGED grant
  BY <1>0 DEF Clear, Accepts, Holds, Holding, Frame, Accounted, TablesOK
<1>2. conn'[i].realm = FALSE /\ conn'[i].token = 0
  BY <1>1, ClearedRow DEF Frame
<1>3. pc'[u] \in {"idle", "create"} /\ ~(Holds(u, i))'
  BY <1>0 DEF Clear, Return, Goto, Holds, Holding, HandlersOK
<1>4. ~Stale(i)'
  BY <1>2 DEF Stale, Usable
<1>5. CASE conn'[i] = conn[i]
  BY <1>1, <1>2, <1>3, <1>4, <1>5, Unmoved DEF Frame, Unkept, Stale, Usable
<1>6. CASE conn'[i] # conn[i]
  <2>1. \A v \in Users \ {u} : ~Holds(v, i)
    BY <1>6 DEF Frame
  <2>2. ~Unstored(i)'
    BY <1>1, <2>1 DEF Rests, Unstored
  <2> QED BY <1>3, <1>4, <2>1, <2>2, Alone DEF Frame
<1> QED BY <1>5, <1>6

LEMMA ExchangeStep ==
  ASSUME NEW u \in Users, NEW i \in Rows, Frame(u, i), my[u].row = i, TypeOK, Exchange(u),
         ~conn[i].realm
  PROVE  Accounted(i)'
<1>0. TablesOK /\ HandlersOK
  BY TypeParts
<1>1. /\ pc[u] = "exchange" /\ pc'[u] = "store" /\ UNCHANGED conn
      /\ my'[u].row = i /\ my'[u].token = 1 /\ grant'[i] = [state |-> "live", gen |-> 1]
  BY <1>0 DEF Exchange, Goto, Become, tables, HandlersOK, HandlerType, TablesOK
<1>2. (Holds(u, i))' /\ (Rests(u, i))' /\ ~Stale(i)'
  BY <1>1 DEF Holds, Holding, Rests, Good, Stale, Usable
<1>3. CASE grant'[i] = grant[i]
  BY <1>1, <1>2, <1>3, Unmoved DEF Frame, Unkept, Undoing
<1>4. CASE grant'[i] # grant[i]
  BY <1>1, <1>2, <1>4, Alone DEF Frame, Unkept
<1> QED BY <1>3, <1>4

LEMMA StoreStep ==
  ASSUME NEW u \in Users, NEW i \in Rows, Frame(u, i), my[u].row = i, TypeOK, Store(u),
         ~conn[i].realm
  PROVE  Accounted(i)'
<1>0. TablesOK /\ HandlersOK
  BY TypeParts
<1>1. pc[u] = "store" /\ Holds(u, i) /\ Rests(u, i) /\ UNCHANGED <<grant, my>>
  BY DEF Store, Holds, Holding, Frame, Accounted
<1>2. CASE Goto(u, "tidy") /\ conn'[i] # conn[i] /\ conn'[i].token = my[u].token
  <2>1. (Holds(u, i))' /\ (Rests(u, i))'
    BY <1>0, <1>1, <1>2 DEF Goto, HandlersOK, Holds, Holding, Rests
  <2>2. ~Unstored(i)' /\ ~Stale(i)'
    BY <1>1, <1>2 DEF Rests, Unstored, Stale, Good
  <2> QED BY <1>2, <2>1, <2>2, Alone DEF Frame
<1>3. CASE Goto(u, "undo") /\ UNCHANGED conn
  <2>1. (Holds(u, i))' /\ (Rests(u, i))' /\ pc'[u] = "undo"
    BY <1>0, <1>1, <1>3 DEF Goto, HandlersOK, Holds, Holding, Rests
  <2> QED BY <1>1, <1>3, <2>1, Unmoved DEF Frame, Unkept, Undoing
<1>4. ASSUME Accepts(i, [conn[i] EXCEPT !.status = "CONNECTED", !.realm = TRUE, !.env = TRUE,
                                        !.token = my[u].token, !.expired = FALSE])
      PROVE  conn'[i] # conn[i] /\ conn'[i].token = my[u].token
  <2>1. conn'[i].realm = TRUE /\ conn'[i].token = my[u].token
    BY <1>0, <1>4 DEF Accepts, TablesOK, RowType
  <2> QED BY <2>1
<1> QED BY <1>2, <1>3, <1>4 DEF Store, Refuses

LEMMA UndoStep ==
  ASSUME NEW u \in Users, NEW i \in Rows, Frame(u, i), my[u].row = i, TypeOK, Undo(u),
         i \notin cut'
  PROVE  Accounted(i)'
<1>0. TablesOK /\ HandlersOK
  BY TypeParts
<1>1. /\ pc[u] = "undo" /\ pc'[u] = "failRow" /\ UNCHANGED <<conn, my>>
      /\ my[u].token # 0
  BY <1>0 DEF Undo, Goto, tables, HandlersOK, Holds, Holding, Frame, Accounted, Rests
<1>2. (Holds(u, i))' /\ (Rests(u, i))'
  BY <1>1 DEF Holds, Holding, Rests
<1>3. grant'[i].state # "live"
  BY <1>0, <1>1 DEF Undo, GivesBack, Ended, TablesOK, GrantType
<1>4. CASE grant'[i] = grant[i]
  BY <1>1, <1>2, <1>3, <1>4, Unmoved DEF Frame, Undoing, Unstored
<1>5. CASE grant'[i] # grant[i]
  BY <1>1, <1>2, <1>3, <1>5, Alone DEF Frame, Undoing, Unstored
<1> QED BY <1>4, <1>5

(* A row that counts as connected admits its own update.                   *)
LEMMA OwnUpdateAdmitted ==
  ASSUME OneCurrent, NEW i \in Rows, NEW s, Refuses(i, s)
  PROVE  ~Current(i)
BY DEF Refuses, Admitted, OneCurrent, Current

(* The end of a handler that calls its row FAILED or TOKEN_EXPIRED.        *)
LEMMA GivingUpStep ==
  ASSUME NEW u \in Users, NEW i \in Rows, Frame(u, i), my[u].row = i, TypeOK, OneCurrent,
         FailRow(u) \/ MarkExpired(u)
  PROVE  Accounted(i)'
<1>0. TablesOK /\ HandlersOK
  BY TypeParts
<1>1. pc[u] \in {"failRow", "expire"} /\ Holds(u, i) /\ Return(u) /\ UNCHANGED grant
  BY DEF FailRow, MarkExpired, Holds, Holding
<1>2. ~(Holds(u, i))'
  BY <1>0, <1>1 DEF Return, Goto, Holds, Holding, HandlersOK
<1>3. ASSUME NEW s \in {"FAILED", "TOKEN_EXPIRED"}, Accepts(i, [conn[i] EXCEPT !.status = s])
      PROVE  ~Stale(i)' /\ conn'[i].token = conn[i].token
  <2>1. conn'[i].status = s /\ conn'[i].token = conn[i].token
    BY <1>0, <1>3 DEF Accepts, TablesOK, RowType
  <2> QED BY <2>1 DEF Stale, Usable
<1>4. ASSUME NEW s, Refuses(i, s) PROVE UNCHANGED conn /\ ~Stale(i)'
  <2>1. ~Current(i) /\ UNCHANGED conn
    BY <1>4, OwnUpdateAdmitted DEF Refuses
  <2> QED BY <2>1 DEF Stale, Usable, Current
<1>5. ~Stale(i)' /\ conn'[i].token = conn[i].token
  BY <1>3, <1>4 DEF FailRow, MarkExpired
<1>6. CASE conn'[i] = conn[i]
  <2>1. Stale(i)' <=> Stale(i)
    BY <1>1, <1>6 DEF Stale, Usable, Good
  <2> QED BY <1>1, <1>2, <1>5, <1>6, <2>1, Unmoved DEF Frame, Unkept
<1>7. CASE conn'[i] # conn[i]
  <2>1. \A v \in Users \ {u} : ~Holds(v, i)
    BY <1>7 DEF Frame
  <2>2. ~Unstored(i)
    BY <1>1, <2>1 DEF Frame, Accounted, Unkept
  <2>3. ~Unstored(i)'
    BY <1>1, <1>5, <2>2 DEF Unstored
  <2> QED BY <1>2, <1>5, <2>1, <2>3, Alone DEF Frame
<1> QED BY <1>6, <1>7

LEMMA RefreshStep ==
  ASSUME NEW u \in Users, NEW i \in Rows, Frame(u, i), my[u].row = i, TypeOK, Refresh(u)
  PROVE  Accounted(i)'
<1>0. TablesOK /\ HandlersOK
  BY TypeParts
<1>1. pc[u] = "refresh" /\ Holds(u, i) /\ Rests(u, i) /\ UNCHANGED conn
  BY DEF Refresh, Holds, Holding, Frame, Accounted, tables
<1>2. CASE Goto(u, "expire") /\ UNCHANGED <<grant, my>>
  <2>1. (Rests(u, i))'
    BY <1>0, <1>2 DEF Goto, HandlersOK, Rests
  <2> QED BY <1>1, <1>2, <2>1, Unmoved DEF Frame, Unkept, Undoing
<1>3. CASE /\ grant[i].state = "live" /\ grant' = [grant EXCEPT ![i].gen = @ + 1]
           /\ Goto(u, "storeTokens") /\ Become(u, [my[u] EXCEPT !.token = grant[i].gen + 1])
  <2> DEFINE n == grant[i].gen + 1
  <2>1. n \in Nat /\ n # grant[i].gen
    BY DEF Frame, GrantType
  <2>2. grant'[i].state = "live" /\ grant'[i].gen = n
    BY <1>0, <1>3 DEF TablesOK, GrantType
  <2>3. my'[u].row = i /\ my'[u].token = n /\ pc'[u] = "storeTokens"
    BY <1>0, <1>3 DEF Goto, Become, HandlersOK, HandlerType
  <2> HIDE DEF n
  <2>4. (Holds(u, i))' /\ (Rests(u, i))'
    BY <1>1, <2>2, <2>3 DEF Holds, Holding, Rests, Good
  <2>5. \A v \in Users \ {u} : ~Holds(v, i)
    BY <2>1, <2>2 DEF Frame
  <2> QED BY <2>3, <2>4, <2>5, Alone DEF Frame, Unkept, Undoing
<1> QED BY <1>2, <1>3 DEF Refresh

LEMMA StoreTokensStep ==
  ASSUME NEW u \in Users, NEW i \in Rows, Frame(u, i), my[u].row = i, TypeOK, OneCurrent,
         StoreTokens(u)
  PROVE  Accounted(i)'
<1>0. TablesOK /\ HandlersOK
  BY TypeParts
<1>1. pc[u] = "storeTokens" /\ Holds(u, i) /\ Rests(u, i) /\ UNCHANGED grant
  BY DEF StoreTokens, Holds, Holding, Frame, Accounted
<1>2. ~Refuses(i, "CONNECTED")
  BY <1>1, OwnUpdateAdmitted DEF Rests, Current
<1>3. Accepts(i, Renewed(conn[i], my[u].token))
      /\ (Return(u) \/ (Goto(u, "operate") /\ UNCHANGED my))
  BY <1>2 DEF StoreTokens
<1>4. conn'[i].token = my[u].token /\ conn'[i].status = "CONNECTED"
  BY <1>0, <1>3 DEF Accepts, Renewed, TablesOK, RowType
<1>5. ~Unstored(i)' /\ ~Stale(i)'
  BY <1>1, <1>4 DEF Rests, Unstored, Stale, Good
<1>6. (Holds(u, i))' => (Rests(u, i))'
  BY <1>0, <1>3, <1>4 DEF Return, Goto, HandlersOK, Holds, Holding, Rests
<1>7. CASE conn'[i] = conn[i]
  <2>1. ~Unstored(i) /\ ~Stale(i)
    BY <1>1, <1>5, <1>7 DEF Unstored, Stale, Usable, Good
  <2> QED BY <1>1, <1>6, <1>7, <2>1, Unmoved DEF Frame
<1>8. CASE conn'[i] # conn[i]
  BY <1>5, <1>6, <1>8, Alone DEF Frame
<1> QED BY <1>7, <1>8

(* Steps that write neither the row nor the grant.                         *)
LEMMA ReadingStep ==
  ASSUME NEW u \in Users, NEW i \in Rows, Frame(u, i), my[u].row = i, TypeOK,
         CreateState(u) \/ Announce(u) \/ Check(u) \/ Tidy(u) \/ Require(u) \/ Operate(u)
  PROVE  Accounted(i)'
<1>0. TablesOK /\ HandlersOK
  BY TypeParts
<1>1. UNCHANGED <<conn, grant>> /\ pc[u] \notin Unkept \cup Undoing
  BY DEF CreateState, Announce, Check, Tidy, Require, Operate, tables, Unkept, Undoing
<1>2. ASSUME pc'[u] \notin {"store", "tidy", "undo", "storeTokens", "refresh", "operate", "revoke",
                           "clear"}
      PROVE  (Rests(u, i))'
  BY <1>2 DEF Rests
<1>3. ASSUME Return(u) PROVE (Rests(u, i))'
  BY <1>0, <1>2, <1>3 DEF Return, Goto, HandlersOK
<1>4. ASSUME CreateState(u) \/ Announce(u) \/ Tidy(u) \/ Check(u) PROVE (Rests(u, i))'
  BY <1>0, <1>2, <1>3, <1>4 DEF CreateState, Announce, Tidy, Check, Goto, HandlersOK
<1>5. ASSUME NEW l \in {"refresh", "operate"}, Goto(u, l), conn[i].status = "CONNECTED"
      PROVE  (Rests(u, i))'
  BY <1>0, <1>1, <1>5 DEF Goto, HandlersOK, Rests
<1>6. ASSUME Require(u) PROVE (Rests(u, i))'
  BY <1>3, <1>5, <1>6 DEF Require, Usable
<1>7. ASSUME Operate(u) PROVE (Rests(u, i))'
  <2>1. Rests(u, i) /\ conn[i].status = "CONNECTED"
    BY <1>7 DEF Operate, Frame, Accounted, Holds, Holding, Rests
  <2> QED BY <1>3, <1>5, <1>7, <2>1 DEF Operate
<1> QED BY <1>1, <1>4, <1>6, <1>7, Unmoved DEF Frame

(* What fails or stops loses no write that was owed, or the row is cut.    *)
LEMMA FaultStep ==
  ASSUME NEW u \in Users, NEW i \in Rows, Frame(u, i), my[u].row = i, TypeOK,
         Fails(u) \/ LosesReply(u) \/ Crash(u), i \notin cut'
  PROVE  Accounted(i)'
<1>0. HandlersOK /\ i # 0
  BY TypeParts, RowsType
<1>1. ~LosesReply(u)
  BY <1>0 DEF LosesReply, Fault
<1>2. UNCHANGED <<conn, grant>>
  BY <1>1 DEF Fails, Crash, Fault, tables
<1>3. CASE Fails(u)
  <2>1. pc[u] \notin Losing /\ pc[u] # "idle" /\ pc'[u] = OnFailure(pc[u])
    BY <1>0, <1>3 DEF Fails, Fault, Goto, HandlersOK
  <2>2. pc'[u] \in {"failRow", "undo", "idle"} /\ (pc[u] = "store" => pc'[u] = "undo")
        /\ pc[u] \notin {"storeTokens", "undo", "clear", "failRow"}
    BY <2>1 DEF OnFailure, Losing
  <2>3. (Rests(u, i))'
    <3>1. pc'[u] # "undo" => (Rests(u, i))'
      BY <2>2 DEF Rests
    <3>2. ASSUME pc'[u] = "undo" PROVE (Rests(u, i))'
      <4>1. pc[u] \in {"store", "tidy"}
        BY <2>1, <3>2 DEF OnFailure
      <4>2. my[u].token # 0
        BY <4>1 DEF Frame, Accounted, Holds, Holding, Rests
      <4>3. my'[u] = my[u]
        BY <1>0, <1>3, <2>1, <3>2 DEF Fails, Fault, Become, HandlersOK
      <4> QED BY <3>2, <4>2, <4>3 DEF Rests
    <3> QED BY <3>1, <3>2
  <2>4. ASSUME pc[u] = "store" PROVE (Holds(u, i))'
    <3>1. pc'[u] = "undo" /\ Become(u, my[u])
      BY <1>3, <2>2, <2>4 DEF Fails, Fault, OnFailure
    <3> QED BY <1>0, <3>1 DEF Become, Holds, Holding, HandlersOK
  <2> QED BY <1>2, <2>2, <2>3, <2>4, Unmoved DEF Frame, Unkept, Undoing
<1>4. CASE Crash(u)
  <2>1. pc[u] \notin Losing \cup {"store"} /\ pc'[u] = "idle"
    BY <1>0, <1>4 DEF Crash, Fault, Goto, HandlersOK
  <2>2. (Rests(u, i))'
    BY <2>1 DEF Rests
  <2> QED BY <1>2, <2>1, <2>2, Unmoved DEF Frame, Unkept, Undoing, Losing
<1> QED BY <1>1, <1>3, <1>4

LEMMA OwnRowStep ==
  ASSUME NEW u \in Users, NEW i \in Rows, Frame(u, i), Works(u, i), TypeOK, OneCurrent, OpenInv,
         Acts(u), i \notin cut'
  PROVE  Accounted(i)'
<1>1. Opening(u, i) => ~conn[i].realm
  BY DEF OpenInv, OpenedOnce, HadCompany
<1>2. CASE Exchange(u) \/ Store(u)
  BY <1>1, <1>2, ExchangeStep, StoreStep DEF Works, Opening, Opens, Exchange, Store
<1>3. CASE Revoke(u) \/ Clear(u) \/ Undo(u) \/ FailRow(u) \/ MarkExpired(u) \/ Refresh(u)
           \/ StoreTokens(u)
  BY <1>3, RevokeStep, ClearStep, UndoStep, GivingUpStep, RefreshStep, StoreTokensStep DEF Works
<1>4. CASE CreateState(u) \/ Announce(u) \/ Check(u) \/ Tidy(u) \/ Require(u) \/ Operate(u)
  BY <1>4, ReadingStep DEF Works
<1>5. CASE Fails(u) \/ LosesReply(u) \/ Crash(u)
  BY <1>5, FaultStep DEF Works
<1>6. CASE Request(u) \/ CreateRow(u)
  BY <1>6 DEF Works, Request, Begin, Disconnect, Use, Callback, Arrive, CreateRow
<1> QED BY <1>2, <1>3, <1>4, <1>5, <1>6 DEF Acts, Handle

LEMMA GrantStep ==
  ASSUME TypeOK, KnownInv, OneCurrent, OpenInv, GrantInv, [Next]_vars
  PROVE  GrantInv'
<1>0. TablesOK /\ HandlersOK
  BY TypeParts
<1>1. ASSUME NEW u \in Users, Acts(u), Watch(u), NEW i \in Rows, Calm(i)' PROVE Accounted(i)'
  <2>1. Calm(i) /\ i \notin cut' /\ i \notin raced'
    BY <1>1, HistoryGrows DEF Calm
  <2>2. Accounted(i) /\ Issued(i) /\ Alike(u)
    BY <1>1, <2>1, OthersStay DEF GrantInv
  <2>3. (conn'[i] = conn[i] /\ grant'[i] = grant[i]) \/ \A v \in Users \ {u} : ~Holds(v, i)
    BY <1>1, <2>1 DEF Watch
  <2>4. CASE Works(u, i)
    <3>1. Frame(u, i)
      BY <1>0, <2>2, <2>3 DEF Frame, TablesOK, HandlersOK
    <3> QED BY <1>1, <2>1, <2>4, <3>1, OwnRowStep
  <2>5. CASE Callback(u, i)
    <3>1. UNCHANGED <<conn, grant>> /\ ~Holds(u, i) /\ ~(Holds(u, i))'
      BY <1>0, <2>5 DEF Callback, Goto, HandlersOK, Holds, Holding
    <3> QED BY <2>2, <3>1, Elsewhere
  <2>6. CASE Makes(u, i)
    <3>1. ~Known(i) /\ UNCHANGED grant /\ grant[i].state = "none"
      BY <2>6 DEF Makes, Known, KnownInv
    <3>2. conn'[i].status = "PENDING" /\ ~(Holds(u, i))'
      BY <1>0, <2>6 DEF Makes, Accepts, Goto, NoRow, HandlersOK, TablesOK, Holds, Holding
    <3>3. \A v \in Users : ~Holds(v, i)
      BY <3>1 DEF Holds, Holding, KnownInv
    <3> QED BY <2>2, <3>1, <3>2, <3>3, Alone DEF Unstored, Stale, Usable
  <2>7. CASE Same(i) /\ ~Works(u, i) /\ ~Callback(u, i) /\ ~Makes(u, i)
    <3>1. ~Holds(u, i) /\ conn'[i] = conn[i] /\ grant'[i] = grant[i]
      BY <2>7 DEF Works, Holds, Holding, Same
    <3>2. CASE ~(Holds(u, i))'
      BY <2>2, <3>1, <3>2, Elsewhere
    <3>3. CASE (Holds(u, i))'
      <4>1. pc'[u] \notin {"idle", "create"} /\ my'[u].row = i
        BY <3>3 DEF Holds, Holding
      <4>2. pc[u] \in {"idle", "create"}
        <5>1. PICK l, r : Turn(u, l, r)
          BY <1>1, Turns
        <5>2. pc'[u] = l /\ my'[u] = r
          BY <1>0, <5>1 DEF Turn, HandlersOK
        <5> QED BY <2>7, <4>1, <5>1, <5>2 DEF Turn, Works
      <4>3. /\ pc[u] = "idle" /\ latest = i /\ pc'[u] \in {"clear", "revoke", "require"}
            /\ pc'[u] # "require" => my'[u].token = conn[i].token
            /\ pc'[u] = "clear" => conn[i].token = 0
        BY <1>1, <2>7, <4>1, <4>2, Starts
      <4>4. ASSUME pc'[u] = "clear", grant[i].state = "live"
            PROVE  \E w \in Users \ {u} : (Holds(w, i))' /\ pc'[w] \in Unkept
        <5>1. Unstored(i)
          BY <2>2, <4>3, <4>4 DEF Unstored, Issued
        <5>2. PICK w \in Users : Holds(w, i) /\ pc[w] \in Unkept
          BY <2>2, <5>1 DEF Accounted
        <5>3. w # u
          BY <3>1, <5>2
        <5> QED BY <2>2, <5>2, <5>3 DEF Alike, Holds
      <4>5. (Rests(u, i))'
        BY <3>1, <4>3, <4>4 DEF Rests
      <4> QED BY <2>2, <3>1, <4>5, Unmoved
    <3> QED BY <3>2, <3>3
  <2> QED BY <1>1, <2>4, <2>5, <2>6, <2>7, OwnRowOnly
<1>2. ASSUME NEW k \in Rows, Expire(k), NEW i \in Rows
      PROVE  Issued(i)' /\ (Calm(i)' => Accounted(i)')
  <2>1. /\ conn'[i].status = conn[i].status /\ conn'[i].realm = conn[i].realm
        /\ conn'[i].token = conn[i].token
    BY <1>0, <1>2 DEF Expire, TablesOK, RowType
  <2>2. UNCHANGED <<grant, pc, my, raced, cut>>
    BY <1>2 DEF Expire, history
  <2> QED BY <2>1, <2>2 DEF GrantInv, Issued, Calm, Accounted, Unstored, Stale, Usable, Good, Rests,
         Holds
<1>3. ASSUME NEW k \in Rows, Withdraw(k), NEW i \in Rows
      PROVE  Issued(i)' /\ (Calm(i)' => Accounted(i)')
  <2>1. UNCHANGED <<conn, pc, my, raced, cut>>
    BY <1>3 DEF Withdraw, history, tables
  <2>2. /\ grant'[i].gen = grant[i].gen
        /\ Good(i)' <=> Good(i)
        /\ grant'[i].state = "live" => grant[i].state = "live"
    BY <1>0, <1>3 DEF Withdraw, Good, TablesOK, GrantType
  <2>3. Issued(i)' /\ (Calm(i)' => Calm(i)) /\ (Unstored(i)' => Unstored(i))
    BY <2>1, <2>2 DEF GrantInv, Issued, Calm, Unstored
  <2>4. Stale(i)' => Stale(i)
    BY <2>1, <2>2 DEF Stale, Usable
  <2>5. \A v \in Users : (Holds(v, i))' <=> Holds(v, i)
    BY <2>1 DEF Holds
  <2>6. \A v \in Users : Rests(v, i) => (Rests(v, i))'
    BY <2>1, <2>2, <2>5 DEF Rests
  <2> QED BY <2>1, <2>3, <2>4, <2>5, <2>6 DEF GrantInv, Accounted
<1>4. ASSUME UNCHANGED vars, NEW i \in Rows
      PROVE  Issued(i)' /\ (Calm(i)' => Accounted(i)')
  BY <1>4 DEF vars, tables, bounds, history, GrantInv, Issued, Calm, Accounted, Unstored, Stale,
     Usable, Good, Rests, Holds
<1> QED BY <1>1, <1>2, <1>3, <1>4, IssuedStep DEF Next, Acts, GrantInv

LEMMA InitGrant == Init => OpenInv /\ GrantInv
<1> SUFFICES ASSUME Init PROVE OpenInv /\ GrantInv
  OBVIOUS
<1>1. /\ \A u \in Users : pc[u] = "idle"
      /\ oauth = [i \in Rows |-> "none"] /\ severed = {}
  BY DEF Init
<1>2. \/ \A i \in Rows : conn[i] = NoRow /\ grant[i] = NoGrant
      \/ /\ conn[1].status = "CONNECTED" /\ conn[1].token = 1
         /\ grant[1].state = "live" /\ grant[1].gen = 1
         /\ \A i \in Rows \ {1} : conn[i] = NoRow /\ grant[i] = NoGrant
  BY RowsAssumption DEF Init
<1>3. \A u \in Users, i \in Rows : ~Opening(u, i) /\ ~Holds(u, i)
  BY <1>1 DEF Opening, Opens, Holds, Holding
<1>4. OpenInv
  BY <1>1, <1>3 DEF OpenInv, OpenedOnce
<1>5. \A i \in Rows : Issued(i) /\ ~Unstored(i) /\ ~Stale(i)
  BY <1>2 DEF Issued, Unstored, Stale, Usable, Good, NoRow, NoGrant
<1> QED BY <1>3, <1>4, <1>5 DEF GrantInv, Accounted

(* A company that was disconnected is not reached again through its old    *)
(* row; and where no two handlers overlapped on a row and none lost a      *)
(* write, a row at rest has the newest token of a grant not revoked here,  *)
(* and a live grant is one its row can revoke.                             *)
THEOREM GrantsAndRowsAgree == Spec => []GrantsAgree
<1> DEFINE I == /\ TypeOK /\ KnownInv /\ OneCurrent /\ CurrentIsFound
                /\ OpenInv /\ GrantInv
<1>1. Init => I
  BY InitType, InitKnown, InitGrant
<1>2. I /\ [Next]_vars => I'
  BY StepType, KnownStep, CurrentStep, OpenStep, GrantStep
<1>3. I => GrantsAgree
  <2> SUFFICES ASSUME I, NEW i \in Rows
               PROVE  /\ i \in severed => ~Usable(i)
                      /\ Calm(i) /\ (\A u \in Users : ~Holds(u, i)) => Agrees(i)
    BY DEF GrantsAgree, Calm
  <2>1. i \in severed => ~Usable(i)
    BY DEF OpenInv, OpenedOnce, Usable
  <2>2. ASSUME Calm(i), \A u \in Users : ~Holds(u, i) PROVE Agrees(i)
    BY <2>2 DEF GrantInv, Accounted, Unstored, Stale, Good, Agrees
  <2> QED BY <2>1, <2>2
<1> QED BY <1>1, <1>2, <1>3, PTL DEF Spec
===============================================================================
