------------------------------ MODULE Connection ------------------------------
(***************************************************************************)
(* The connection of one company to QuickBooks: a row per authorization,   *)
(* of which all but the last are to be DISCONNECTED, with the tokens of a  *)
(* grant at QuickBooks.  Users connect, come back from the authorization,  *)
(* disconnect, and use the connection, which refreshes a token that        *)
(* rotates.  A user is one HTTP request or one step of a job; a step of it *)
(* is one request to the database or to QuickBooks with what the code      *)
(* computes from it.  No write is guarded on what was read: only a unique  *)
(* index keeps a second row from being anything but DISCONNECTED.          *)
(*                                                                         *)
(* An access and a refresh token come together, as a generation of the     *)
(* grant, which has the id of its row: each authorization ends in at most  *)
(* one exchange of its code.                                               *)
(***************************************************************************)
EXTENDS Naturals, FiniteSets, FiniteSetsExt

CONSTANTS
  Users,
  Rows,         (* the rows there can be, 1 .. n                           *)
  NoUser,
  MaxRequests,  (* bound: requests of users                                *)
  MaxExpiries,  (* bound: tokens that expire and grants that end           *)
  MaxFaults     (* bound: requests that fail or are cut short              *)

ASSUME RowsAssumption  == 1 \in Rows /\ IsFiniteSet(Rows) /\ Rows = 1 .. Cardinality(Rows)
ASSUME BoundAssumption ==
  NoUser \notin Users /\ {MaxRequests, MaxExpiries, MaxFaults} \subseteq Nat

VARIABLES
  conn,       (* accounting_integration_connections                        *)
  latest,     (* the row with the largest updated_at, 0 when there is none *)
  oauth,      (* accounting_integration_oauth_states, per row              *)
  grant,      (* what QuickBooks granted: its state and newest generation  *)
  production, (* QB_ENVIRONMENT of the process                             *)
  pc, my,     (* per user: the next request, and what the handler holds    *)
  requests, expiries, faults,
  severed,    (* history: rows whose company was cleared by a disconnect   *)
  raced,      (* history: rows changed while another handler held them     *)
  cut,        (* history: rows whose handler lost what it was to write     *)
  overtaken   (* history: a row was cleared that was cleared already       *)

tables  == <<conn, latest, oauth>>
bounds  == <<production, requests, expiries, faults>>
history == <<severed, cut, overtaken>>
vars    == <<tables, grant, pc, my, bounds, history, raced>>

Statuses == {"NONE", "PENDING", "CONNECTED", "FAILED", "DISCONNECTED", "TOKEN_EXPIRED"}
Live     == {"PENDING", "CONNECTED"}
PCs == {"idle", "revoke", "clear", "create", "state", "announce", "check",
        "exchange", "store", "tidy", "undo", "failRow", "require", "refresh",
        "storeTokens", "expire", "operate"}

NoRow   == [status |-> "NONE", by |-> NoUser, realm |-> FALSE, env |-> FALSE,
            token |-> 0, expired |-> FALSE]
NoGrant == [state |-> "none", gen |-> 0]

(* What a handler holds: its row, the generation it was issued or works    *)
(* with, whether it asked for a new one already, and what follows a clear. *)
Fresh == [row |-> 0, token |-> 0, again |-> FALSE, then |-> "idle"]

Goto(u, l)   == pc' = [pc EXCEPT ![u] = l]
Become(u, r) == my' = [my EXCEPT ![u] = r]
Return(u)    == Goto(u, "idle") /\ Become(u, Fresh)

Usable(i) == conn[i].status = "CONNECTED" /\ conn[i].realm /\ conn[i].token # 0

(* accounting_integration_connections_one_current_provider_idx             *)
Admitted_Always(i, status) == TRUE
Admitted(i, status) ==
  status # "DISCONNECTED" =>
    \A k \in Rows \ {i} : conn[k].status \in {"NONE", "DISCONNECTED"}

(* updateConnection: a patch by id, which the index may refuse.            *)
Accepts(i, row) == Admitted(i, row.status) /\ conn' = [conn EXCEPT ![i] = row] /\ latest' = i
Refuses(i, status) == ~Admitted(i, status) /\ UNCHANGED <<conn, latest>>

(* findCurrentConnection                                                   *)
CurrentStatus == IF latest = 0 THEN "NONE" ELSE conn[latest].status

(* A row kept without its environment counts as a sandbox row.             *)
NeedsReconnect(row) == production /\ ~row.env

Init ==
  /\ \/ /\ conn = [i \in Rows |-> NoRow] /\ latest = 0
        /\ grant = [i \in Rows |-> NoGrant]
     \/ \E u \in Users :
          /\ conn = [[i \in Rows |-> NoRow] EXCEPT
               ![1] = [status |-> "CONNECTED", by |-> u, realm |-> TRUE, env |-> TRUE,
                       token |-> 1, expired |-> FALSE]]
          /\ latest = 1
          /\ grant = [[i \in Rows |-> NoGrant] EXCEPT ![1] = [state |-> "live", gen |-> 1]]
  /\ oauth = [i \in Rows |-> "none"]
  /\ production \in BOOLEAN
  /\ pc = [u \in Users |-> "idle"] /\ my = [u \in Users |-> Fresh]
  /\ requests = 0 /\ expiries = 0 /\ faults = 0
  /\ severed = {} /\ raced = {} /\ cut = {} /\ overtaken = FALSE

(* A request arrives, about a row.                                         *)
Arrive(u, i, then, l) ==
  /\ pc[u] = "idle" /\ requests < MaxRequests
  /\ requests' = requests + 1
  /\ Become(u, [Fresh EXCEPT !.row = i, !.token = IF i = 0 THEN 0 ELSE conn[i].token,
                             !.then = then])
  /\ Goto(u, l)
  /\ UNCHANGED <<tables, grant, production, expiries, faults, history>>

-----------------------------------------------------------------------------
(* Connect and disconnect.                                                 *)

(* beginConnection has read the current row: it refuses to replace a       *)
(* connection that is under way or good, and clears any other first.       *)
Begin(u) ==
  \/ CurrentStatus \in {"NONE", "DISCONNECTED"} /\ Arrive(u, 0, "idle", "create")
  \/ /\ CurrentStatus \notin {"NONE", "DISCONNECTED"}
     /\ CurrentStatus \in Live => NeedsReconnect(conn[latest])
     /\ Arrive(u, latest, "create", IF conn[latest].token = 0 THEN "clear" ELSE "revoke")

Disconnect(u) ==
  /\ CurrentStatus \notin {"NONE", "DISCONNECTED"}
  /\ Arrive(u, latest, "idle", "revoke")

(* The token that was read is revoked, and the whole grant with it; one    *)
(* that QuickBooks has replaced since may count as spent.                  *)
Ended(i) == grant' = [grant EXCEPT ![i].state = IF @ = "none" THEN @ ELSE "revoked"]

(* Whether it was is not asked: the row is written in either case.         *)
GivesBack(u) ==
  \/ my[u].token # 0 /\ Ended(my[u].row) /\ UNCHANGED cut
  \/ /\ my[u].token = 0 \/ my[u].token # grant[my[u].row].gen
     /\ cut' = IF my[u].token = 0 THEN cut ELSE cut \cup {my[u].row}
     /\ UNCHANGED grant

Revoke(u) ==
  /\ pc[u] = "revoke"
  /\ GivesBack(u)
  /\ Goto(u, "clear")
  /\ UNCHANGED <<tables, my, bounds, severed, overtaken>>

(* clearedConnection                                                       *)
Cleared(row) ==
  [row EXCEPT !.status = "DISCONNECTED", !.realm = FALSE, !.env = FALSE, !.token = 0,
              !.expired = FALSE]

Clear(u) ==
  LET i == my[u].row IN
  /\ pc[u] = "clear"
  /\ Accepts(i, Cleared(conn[i]))
  /\ severed' = IF conn[i].realm THEN severed \cup {i} ELSE severed
  /\ overtaken' = (overtaken \/ conn[i].status = "DISCONNECTED")
  /\ \/ my[u].then = "idle" /\ Return(u)
     \/ my[u].then = "create" /\ Goto(u, "create") /\ Become(u, Fresh)
  /\ UNCHANGED <<oauth, grant, bounds, cut>>

Unused == {i \in Rows : conn[i].status = "NONE"}

Created_Unheld(u, i) == my[u]
Created(u, i) == [my[u] EXCEPT !.row = i]

CreateRow(u) ==
  /\ pc[u] = "create"
  /\ \E i \in Unused :
       /\ i = Min(Unused)
       /\ \/ /\ Accepts(i, [NoRow EXCEPT !.status = "PENDING", !.by = u])
             /\ Goto(u, "state") /\ Become(u, Created(u, i))
          \/ Refuses(i, "PENDING") /\ Return(u)
  /\ UNCHANGED <<oauth, grant, bounds, history>>

(* The OAuth state.                                                        *)
CreateState(u) ==
  /\ pc[u] = "state"
  /\ oauth' = [oauth EXCEPT ![my[u].row] = "open"]
  /\ Goto(u, "announce")
  /\ UNCHANGED <<conn, latest, grant, my, bounds, history>>

(* The audit log is written, and the user sent to QuickBooks.              *)
Announce(u) ==
  /\ pc[u] = "announce"
  /\ Return(u)
  /\ UNCHANGED <<tables, grant, bounds, history>>

-----------------------------------------------------------------------------
(* The user comes back from QuickBooks.                                    *)

(* The state is consumed by a guarded update, once, by the user it is of.  *)
Callback(u, i) ==
  /\ pc[u] = "idle" /\ requests < MaxRequests
  /\ oauth[i] = "open" /\ conn[i].by = u
  /\ oauth' = [oauth EXCEPT ![i] = "used"]
  /\ requests' = requests + 1
  /\ Goto(u, "check") /\ Become(u, [Fresh EXCEPT !.row = i])
  /\ UNCHANGED <<conn, latest, grant, production, expiries, faults, history>>

(* The user may have refused, or come back with nothing.                   *)
Check(u) ==
  /\ pc[u] = "check"
  /\ \/ conn[my[u].row].status = "PENDING" /\ Goto(u, "exchange") /\ UNCHANGED my
     \/ conn[my[u].row].status = "PENDING" /\ Goto(u, "failRow") /\ UNCHANGED my
     \/ conn[my[u].row].status # "PENDING" /\ Return(u)
  /\ UNCHANGED <<tables, grant, bounds, history>>

Exchange(u) ==
  /\ pc[u] = "exchange"
  /\ grant' = [grant EXCEPT ![my[u].row] = [state |-> "live", gen |-> 1]]
  /\ Goto(u, "store") /\ Become(u, [my[u] EXCEPT !.token = 1])
  /\ UNCHANGED <<tables, bounds, history>>

(* The company is read, and the row is made a connection.                  *)
Store(u) ==
  LET i == my[u].row IN
  /\ pc[u] = "store"
  /\ \/ /\ Accepts(i, [conn[i] EXCEPT !.status = "CONNECTED", !.realm = TRUE, !.env = TRUE,
                                      !.token = my[u].token, !.expired = FALSE])
        /\ Goto(u, "tidy")
     \/ Refuses(i, "CONNECTED") /\ Goto(u, "undo")
  /\ UNCHANGED <<oauth, grant, my, bounds, history>>

(* The state is deleted, the audit log written.                            *)
Tidy(u) ==
  /\ pc[u] = "tidy"
  /\ oauth' = [oauth EXCEPT ![my[u].row] = "none"]
  /\ Return(u)
  /\ UNCHANGED <<conn, latest, grant, bounds, history>>

(* What was issued is revoked when it could not be kept.                   *)
Undo(u) ==
  /\ pc[u] = "undo"
  /\ GivesBack(u)
  /\ Goto(u, "failRow")
  /\ UNCHANGED <<tables, my, bounds, severed, overtaken>>

FailRow(u) ==
  LET i == my[u].row IN
  /\ pc[u] = "failRow"
  /\ \/ Accepts(i, [conn[i] EXCEPT !.status = "FAILED"])
     \/ Refuses(i, "FAILED")
  /\ Return(u)
  /\ UNCHANGED <<oauth, grant, bounds, history>>

-----------------------------------------------------------------------------
(* Use of the connection: executeForProvider.                              *)

Use(u) == latest # 0 /\ Arrive(u, latest, "idle", "require")

Require(u) ==
  LET row == conn[my[u].row] IN
  /\ pc[u] = "require"
  /\ \/ /\ Usable(my[u].row) /\ ~NeedsReconnect(row)
        /\ Become(u, [my[u] EXCEPT !.token = row.token])
        /\ Goto(u, IF row.expired THEN "refresh" ELSE "operate")
     \/ (~Usable(my[u].row) \/ NeedsReconnect(row)) /\ Return(u)
  /\ UNCHANGED <<tables, grant, bounds, history>>

(* QuickBooks takes the newest token of a live grant and answers with the  *)
(* next one; one that it has replaced it may take or not.                  *)
Refresh(u) ==
  LET g == grant[my[u].row] IN
  /\ pc[u] = "refresh"
  /\ \/ /\ g.state = "live"
        /\ grant' = [grant EXCEPT ![my[u].row].gen = @ + 1]
        /\ Goto(u, "storeTokens") /\ Become(u, [my[u] EXCEPT !.token = g.gen + 1])
     \/ /\ g.state # "live" \/ my[u].token # g.gen
        /\ Goto(u, "expire") /\ UNCHANGED <<grant, my>>
  /\ UNCHANGED <<tables, bounds, history>>

(* encryptedTokens: both tokens, and nothing of the company.               *)
Renewed_SameRefreshToken(row, token) == [row EXCEPT !.status = "CONNECTED", !.expired = FALSE]
Renewed(row, token) ==
  [row EXCEPT !.status = "CONNECTED", !.token = token, !.expired = FALSE]

StoreTokens(u) ==
  LET i == my[u].row IN
  /\ pc[u] = "storeTokens"
  /\ \/ /\ Accepts(i, Renewed(conn[i], my[u].token))
        /\ \/ conn[i].realm /\ Goto(u, "operate") /\ UNCHANGED my
           \/ ~conn[i].realm /\ Return(u)
     \/ Refuses(i, "CONNECTED") /\ Return(u)
  /\ UNCHANGED <<oauth, grant, bounds, history>>

MarkExpired(u) ==
  LET i == my[u].row IN
  /\ pc[u] = "expire"
  /\ \/ Accepts(i, [conn[i] EXCEPT !.status = "TOKEN_EXPIRED"])
     \/ Refuses(i, "TOKEN_EXPIRED")
  /\ Return(u)
  /\ UNCHANGED <<oauth, grant, bounds, history>>

(* The operation itself, which may also fail for reasons of its own.       *)
(* QuickBooks answers 401 to a token that expired, was replaced or         *)
(* revoked; the first time it is refreshed, and the operation repeated.    *)
Operate(u) ==
  LET i == my[u].row
      good == grant[i].state = "live" /\ my[u].token = grant[i].gen /\ ~conn[i].expired IN
  /\ pc[u] = "operate"
  /\ \/ Return(u)
     \/ /\ ~good /\ ~my[u].again
        /\ Goto(u, "refresh") /\ Become(u, [my[u] EXCEPT !.again = TRUE])
  /\ UNCHANGED <<tables, grant, bounds, history>>

-----------------------------------------------------------------------------
(* An access token comes to its end.                                       *)
Expire(i) ==
  /\ conn[i].token # 0 /\ ~conn[i].expired /\ expiries < MaxExpiries
  /\ expiries' = expiries + 1
  /\ conn' = [conn EXCEPT ![i].expired = TRUE]
  /\ UNCHANGED <<latest, oauth, grant, pc, my, production, requests, faults, history, raced>>

(* The grant ends at QuickBooks: withdrawn there, or not used for long.    *)
Withdraw(i) ==
  /\ grant[i].state = "live" /\ expiries < MaxExpiries
  /\ expiries' = expiries + 1
  /\ grant' = [grant EXCEPT ![i].state = "withdrawn"]
  /\ UNCHANGED <<tables, pc, my, production, requests, faults, history, raced>>

(* A request fails: a revocation that fails is passed over, what follows   *)
(* an exchange is undone, a callback or a begin marks its row as failed.   *)
OnFailure(l) ==
  CASE l = "revoke"                                    -> "clear"
    [] l \in {"state", "announce", "exchange", "undo"} -> "failRow"
    [] l \in {"store", "tidy"}                         -> "undo"
    [] OTHER                                           -> "idle"

Losing == {"revoke", "clear", "undo", "failRow", "storeTokens"}

Fault(u, to, loses) ==
  /\ pc[u] # "idle" /\ faults < MaxFaults
  /\ faults' = faults + 1
  /\ cut' = IF loses THEN cut \cup ({my[u].row} \ {0}) ELSE cut
  /\ Goto(u, to) /\ Become(u, IF to = "idle" THEN Fresh ELSE my[u])
  /\ UNCHANGED <<tables, production, requests, expiries, severed, overtaken>>

Fails(u) == Fault(u, OnFailure(pc[u]), pc[u] \in Losing) /\ UNCHANGED grant

(* QuickBooks issued tokens that did not arrive.                           *)
LosesReply(u) ==
  LET g == grant[my[u].row] IN
  /\ pc[u] \in {"exchange", "refresh"}
  /\ pc[u] = "refresh" => g.state = "live"
  /\ grant' = [grant EXCEPT ![my[u].row] = [state |-> "live", gen |-> g.gen + 1]]
  /\ Fault(u, OnFailure(pc[u]), TRUE)

(* The process stops.                                                      *)
Crash(u) == Fault(u, "idle", pc[u] \in Losing \cup {"store"}) /\ UNCHANGED grant

-----------------------------------------------------------------------------
(* A handler whose next steps rest on what it read or was issued.          *)
Holding == {"revoke", "clear", "exchange", "store", "tidy", "undo", "failRow",
            "refresh", "storeTokens", "expire", "operate"}
Holds(u, i) == pc[u] \in Holding /\ my[u].row = i

Watch(u) ==
  raced' = raced \cup {i \in Rows :
    /\ conn'[i] # conn[i] \/ grant'[i] # grant[i]
    /\ \E v \in Users \ {u} : Holds(v, i)}

Request(u) == Begin(u) \/ Disconnect(u) \/ Use(u) \/ \E i \in Rows : Callback(u, i)

Handle(u) ==
  \/ Revoke(u) \/ Clear(u) \/ CreateRow(u) \/ CreateState(u) \/ Announce(u)
  \/ Check(u) \/ Exchange(u) \/ Store(u) \/ Tidy(u) \/ Undo(u) \/ FailRow(u)
  \/ Require(u) \/ Refresh(u) \/ StoreTokens(u) \/ MarkExpired(u) \/ Operate(u)

Next ==
  \/ \E u \in Users :
       /\ Request(u) \/ Handle(u) \/ Fails(u) \/ LosesReply(u) \/ Crash(u)
       /\ Watch(u)
  \/ \E i \in Rows : Expire(i) \/ Withdraw(i)

Spec == Init /\ [][Next]_vars

-----------------------------------------------------------------------------
TypeOK ==
  /\ conn \in [Rows -> [status : Statuses, by : Users \cup {NoUser}, realm : BOOLEAN,
                        env : BOOLEAN, token : Nat, expired : BOOLEAN]]
  /\ latest \in Rows \cup {0}
  /\ oauth \in [Rows -> {"none", "open", "used"}]
  /\ grant \in [Rows -> [state : {"none", "live", "revoked", "withdrawn"}, gen : Nat]]
  /\ production \in BOOLEAN
  /\ pc \in [Users -> PCs]
  /\ my \in [Users -> [row : Rows \cup {0}, token : Nat, again : BOOLEAN,
                       then : {"idle", "create"}]]
  /\ \A u \in Users : pc[u] \notin {"idle", "create"} => my[u].row \in Rows
  /\ requests \in 0 .. MaxRequests /\ expiries \in 0 .. MaxExpiries
  /\ faults \in 0 .. MaxFaults
  /\ severed \subseteq Rows /\ raced \subseteq Rows /\ cut \subseteq Rows
  /\ overtaken \in BOOLEAN

Agrees(i) ==
  /\ Usable(i) => /\ grant[i].state \in {"live", "withdrawn"}
                  /\ conn[i].token = grant[i].gen
  /\ grant[i].state = "live" => conn[i].token = grant[i].gen

(* A company that was disconnected is not reached again through its old    *)
(* row, though a refresh that was under way stores new tokens in it and    *)
(* calls it CONNECTED: the refresh does not know the realm that the        *)
(* disconnect took away.  And what QuickBooks granted and what is stored   *)
(* agree, whenever no handler is at work on a row: a usable row has the    *)
(* newest token of a grant that was not revoked here, and a grant that is  *)
(* still live is one a row can revoke.  This part not when handlers        *)
(* overlapped on the row, or when one lost what it was to write.           *)
GrantsAgree ==
  \A i \in Rows :
    /\ i \in severed => ~Usable(i)
    /\ i \notin raced \cup cut /\ (\A u \in Users : ~Holds(u, i)) => Agrees(i)

(* The row that findCurrentConnection finds is the one connection the      *)
(* company has, however late a refresh or a callback wrote to an old one.  *)
(* Not so when a row was cleared twice.                                    *)
CurrentIsFound ==
  ~overtaken => \A i \in Rows : conn[i].status \notin {"NONE", "DISCONNECTED"} => latest = i

(* "A disconnected row is retained for audit history. Every other state    *)
(* represents the tenant's current connection lifecycle" (migration 048).  *)
(* Not kept: section 7 of the README has the trace.                        *)
CurrentIsCurrent ==
  \A i \in Rows : Usable(i) => latest = i

(* "Local credential removal must succeed even if Intuit is unavailable"   *)
(* (disconnect).                                                           *)
(* Not kept: section 7 of the README has the trace.                        *)
DisconnectedHoldsNoToken == \A i \in severed : conn[i].token = 0
===============================================================================
