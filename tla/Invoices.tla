------------------------------ MODULE Invoices -------------------------------
(***************************************************************************)
(* Sales invoices of a company: their numbers, lines, payments, and their  *)
(* posting to the ledger.  A user is one HTTP request at a time; a step is *)
(* one request to the database with what the code computes from it.        *)
(* replace_payment_allocations is a transaction at READ COMMITTED: a step  *)
(* up to the snapshot of the statement that sums the allocations, and one  *)
(* for that statement's writes and the commit.                             *)
(*                                                                         *)
(* The lines of an invoice are abstracted to what they add up to, the tax  *)
(* included.  A document has one prefix, so that a number is its sequence  *)
(* number.  The looking and inserting of a posting is one step here: what  *)
(* may come between the two is in module Ledger.                           *)
(***************************************************************************)
EXTENDS Integers, FiniteSets, FiniteSetsExt

CONSTANTS
  Users,
  Ids,          (* the invoices there can be, 1 .. n                       *)
  Payments,     (* the payments there can be, n + 1 .. n + m               *)
  Totals,       (* what the lines users type come to, which may be nothing *)
  Amounts,      (* what they pay                                           *)
  Numbers,      (* what they type for a next number                        *)
  Requests,     (* the kinds of request they make                          *)
  MaxRequests,  (* bound: requests users make                              *)
  MaxStops      (* bound: requests that fail or are cut short              *)

ASSUME IdsAssumption ==
  /\ 1 \in Ids /\ Ids = 1 .. Cardinality(Ids)
  /\ Payments \subseteq Nat \ (Ids \cup {0})
  /\ IsFiniteSet(Ids) /\ IsFiniteSet(Payments)
ASSUME AmountsAssumption ==
  Totals \subseteq Nat /\ Amounts \subseteq Nat \ {0} /\ Numbers \subseteq Nat \ {0}
ASSUME BoundAssumption   == {MaxRequests, MaxStops} \subseteq Nat

VARIABLES
  invoice,  (* invoices                                                    *)
  lines,    (* invoice_lines: what those of an invoice add up to           *)
  payment,  (* payments: the amount, 0 when there is no row                *)
  applied,  (* payment_allocations: what a payment pays of an invoice      *)
  ledger,   (* ledger_entries: what is posted of a document, or 0          *)
  next,     (* document_sequences.next_number, 0 when there is no row      *)
  pc, my,   (* per user: the next request, and what the handler holds      *)
  requests, stops,
  raced,    (* history: invoices written while another held what it read  *)
  cut,      (* history: invoices whose edit or posting was not finished    *)
  shuffled, (* history: the sequence was written beside another numbering  *)
  stated    (* history: invoices a user said to be PARTIAL or PAID         *)

documents == <<invoice, lines, payment, applied, ledger>>
history   == <<raced, cut, shuffled, stated>>
vars      == <<documents, next, pc, my, requests, stops, history>>

(* What the column may say: any text.  Those that no guard names are       *)
(* OTHER, the empty one among them.                                        *)
Texts    == {"DRAFT", "SENT", "PARTIAL", "PAID", "OTHER"}
Statuses == Texts \cup {"NONE", "GONE"}
Kinds    == {"create", "update", "delete", "pay", "receive", "save", "reset"}
PCs == {"idle", "upsert", "allocate", "insert", "lines", "undo", "existing",
        "signature", "deleteLines", "patch", "postRead", "postWrite", "deleteWrite",
        "payment", "apply", "commit", "postPayment", "context", "renumber"}

NoInvoice == [no |-> 0, status |-> "NONE", deleted |-> FALSE,
              total |-> 0, paid |-> 0, balance |-> 0]

(* What a handler holds: the invoices it is about, whether lines were sent *)
(* and their total, the status asked for, the status the route read, the   *)
(* amount paid and whether the lines are written, as the repository read   *)
(* the row; the payment, what it pays and of which invoices, what is       *)
(* applied to them already; a number.                                      *)
Fresh == [kind |-> "create", on |-> {}, sent |-> FALSE, total |-> 0,
          status |-> "NONE", was |-> "NONE",
          paid |-> 0, rewrite |-> FALSE, payment |-> 0, amount |-> 0,
          pays |-> [i \in Ids |-> 0], sum |-> [i \in Ids |-> 0], no |-> 0]

Goto(u, l)   == pc' = [pc EXCEPT ![u] = l]
Become(u, r) == my' = [my EXCEPT ![u] = r]
Return(u)    == Goto(u, "idle") /\ Become(u, Fresh)

Exists(i)  == invoice[i].status \notin {"NONE", "GONE"}
Visible(i) == Exists(i) /\ ~invoice[i].deleted
At(u, l, i) == pc[u] = l /\ i \in my[u].on

(* A handler that will write to an invoice what it decided on from a row   *)
(* it has read.                                                            *)
Holding == {"lines", "undo", "signature", "deleteLines", "patch", "deleteWrite",
            "commit", "postWrite"}
Holds(u, i) == pc[u] \in Holding /\ i \in my[u].on

Writes(u, S) ==
  raced' = raced \cup {i \in S : \E v \in Users \ {u} : Holds(v, i)}

Init ==
  /\ \/ /\ invoice = [i \in Ids |-> NoInvoice]
        /\ lines = [i \in Ids |-> 0]
        /\ next \in {0, 1}
     \/ \E a \in Totals :
          /\ invoice = [[i \in Ids |-> NoInvoice] EXCEPT
               ![1] = [no |-> 1, status |-> "DRAFT", deleted |-> FALSE,
                       total |-> a, paid |-> 0, balance |-> a]]
          /\ lines = [[i \in Ids |-> 0] EXCEPT ![1] = a]
          /\ next = 2
  /\ payment = [p \in Payments |-> 0]
  /\ applied = [p \in Payments |-> [i \in Ids |-> 0]]
  /\ ledger = [d \in Ids \cup Payments |-> 0]
  /\ pc = [u \in Users |-> "idle"] /\ my = [u \in Users |-> Fresh]
  /\ requests = 0 /\ stops = 0
  /\ raced = {} /\ cut = {} /\ shuffled = FALSE /\ stated = {}

(* A request arrives: the handler has read, and holds r.                   *)
Arrive(u, kind, r, l) ==
  /\ kind \in Requests /\ requests' = requests + 1
  /\ Become(u, [r EXCEPT !.kind = kind]) /\ Goto(u, l)
  /\ UNCHANGED <<documents, next, stops, history>>

-----------------------------------------------------------------------------
(* Document numbering.                                                     *)

Numbering == {"upsert", "allocate", "insert", "context", "renumber"}
Beside(u, S) == \E v \in Users \ {u} : pc[v] \in S

AfterEnsure(kind) == IF kind = "create" THEN "allocate" ELSE "context"

(* ensureDocumentSequence has read the row, or found none.                 *)
Ensure(kind) == IF next = 0 THEN "upsert" ELSE AfterEnsure(kind)

(* The row is written as the first one, whatever is there by now.          *)
Upsert(u) ==
  /\ pc[u] = "upsert"
  /\ next' = 1
  /\ shuffled' = (shuffled \/ next # 0 \/ Beside(u, Numbering))
  /\ Become(u, [my[u] EXCEPT !.no = IF my[u].kind = "save" /\ @ = 0 THEN 1 ELSE @])
  /\ Goto(u, AfterEnsure(my[u].kind))
  /\ UNCHANGED <<documents, requests, stops, raced, cut, stated>>

(* allocate_document_number, under the row's lock.                         *)
Allocate(u) ==
  /\ pc[u] = "allocate"
  /\ Become(u, [my[u] EXCEPT !.no = next])
  /\ next' = next + 1
  /\ shuffled' = (shuffled \/ Beside(u, {"upsert", "context", "renumber"}))
  /\ Goto(u, "insert")
  /\ UNCHANGED <<documents, requests, stops, raced, cut, stated>>

(* A number kept is the one that was read.                                 *)
Save(u, n) ==
  Arrive(u, "save", [Fresh EXCEPT !.no = IF n = 0 THEN next ELSE n], Ensure("save"))

Reset(u) == Arrive(u, "reset", Fresh, Ensure("reset"))

Issued == {invoice[i].no : i \in {j \in Ids : Visible(j)}}

(* Mutant: the last number that was issued is allowed.                     *)
MinNext_Last(S) == IF S = {} THEN 1 ELSE Max(S)

MinNext(S) == IF S = {} THEN 1 ELSE Max(S) + 1

(* getMinAllowedNextNumber: a reset takes the minimum, a number that was   *)
(* typed must not be less.                                                 *)
Context(u) ==
  /\ pc[u] = "context"
  /\ CASE my[u].kind = "reset" ->
            Become(u, [my[u] EXCEPT !.no = MinNext(Issued)]) /\ Goto(u, "renumber")
       [] my[u].kind = "save" /\ my[u].no >= MinNext(Issued) ->
            Goto(u, "renumber") /\ UNCHANGED my
       [] OTHER -> Return(u)
  /\ UNCHANGED <<documents, next, requests, stops, history>>

Renumber(u) ==
  /\ pc[u] = "renumber"
  /\ next' = my[u].no
  /\ shuffled' = (shuffled \/ Beside(u, Numbering))
  /\ Return(u)
  /\ UNCHANGED <<documents, requests, stops, raced, cut, stated>>

-----------------------------------------------------------------------------
(* Creating an invoice.                                                    *)

Create(u, a) == Arrive(u, "create", [Fresh EXCEPT !.total = a], Ensure("create"))

Taken(n) == \E i \in Ids : Exists(i) /\ invoice[i].no = n

Insert(u, i) ==
  /\ pc[u] = "insert" /\ ~Taken(my[u].no)
  /\ invoice[i].status = "NONE" /\ \A j \in 1 .. i - 1 : invoice[j].status # "NONE"
  /\ invoice' = [invoice EXCEPT ![i] =
       [NoInvoice EXCEPT !.no = my[u].no, !.status = "DRAFT",
                         !.total = my[u].total, !.balance = my[u].total]]
  /\ Become(u, [my[u] EXCEPT !.on = {i}])
  /\ shuffled' = (shuffled \/ Beside(u, {"renumber"}))
  /\ Goto(u, "lines")
  /\ UNCHANGED <<lines, payment, applied, ledger, next, requests, stops, raced, cut, stated>>

(* A number is used once, a deleted invoice's too.                         *)
InsertRefused(u) ==
  /\ pc[u] = "insert" /\ Taken(my[u].no)
  /\ Return(u)
  /\ UNCHANGED <<documents, next, requests, stops, history>>

(* The lines of a new invoice, or the new lines of one that is edited.     *)
InsertLines(u, i) ==
  /\ At(u, "lines", i)
  /\ Writes(u, {i})
  /\ IF Exists(i)
     THEN /\ lines' = [lines EXCEPT ![i] = @ + my[u].total]
          /\ IF my[u].kind = "create" THEN Return(u) ELSE Goto(u, "patch") /\ UNCHANGED my
     ELSE Return(u) /\ UNCHANGED lines
  /\ UNCHANGED <<invoice, payment, applied, ledger, next, requests, stops, cut, shuffled, stated>>

(* Without its lines a new invoice is taken back, unless a payment of it   *)
(* has been committed meanwhile; one under way is waited for.              *)
LinesFail(u, i) ==
  /\ At(u, "lines", i) /\ my[u].kind = "create"
  /\ stops < MaxStops /\ stops' = stops + 1
  /\ cut' = cut \cup {i}
  /\ Goto(u, "undo")
  /\ UNCHANGED <<documents, next, my, requests, raced, shuffled, stated>>

Undo(u, i) ==
  /\ At(u, "undo", i)
  /\ ~ \E v \in Users : At(v, "commit", i)
  /\ IF \A p \in Payments : applied[p][i] = 0
     THEN /\ invoice' = [invoice EXCEPT ![i] = [NoInvoice EXCEPT !.status = "GONE"]]
          /\ lines' = [lines EXCEPT ![i] = 0]
     ELSE UNCHANGED <<invoice, lines>>
  /\ Writes(u, {i})
  /\ Return(u)
  /\ UNCHANGED <<payment, applied, ledger, next, requests, stops, cut, shuffled, stated>>

-----------------------------------------------------------------------------
(* Editing an invoice: handlePut and update.                               *)

(* Mutant: a partly paid invoice is not looked upon as posted.             *)
IsPosted_Sent(status) == status = "SENT"

IsPosted(status) == status \in {"SENT", "PARTIAL"}

(* decideInvoiceEdit: a user who may edit drafts only; the empty text is   *)
(* taken for no status here, and for a status where it is written.         *)
DraftEditor(i, s) == invoice[i].status = "DRAFT" /\ s \in {"NONE", "DRAFT", "OTHER"}

(* Lines that come to a, or none; any status, or none.                     *)
Update(u, i, a, sent, s, draftsOnly) ==
  /\ Visible(i) /\ (sent \/ s # "NONE")
  /\ draftsOnly => DraftEditor(i, s)
  /\ Arrive(u, "update", [Fresh EXCEPT !.on = {i}, !.sent = sent, !.status = s,
                                       !.total = IF sent THEN a ELSE 0,
                                       !.was = invoice[i].status], "existing")

(* The row again: a paid invoice is not edited, a posted one must show the *)
(* same status and lines.                                                  *)
Existing(u, i) ==
  LET row == invoice[i]
      asked == my[u]
      held == [my[u] EXCEPT !.paid = row.paid,
                            !.rewrite = ~IsPosted(row.status) /\ my[u].sent]
  IN
  /\ At(u, "existing", i)
  /\ CASE \/ ~Visible(i) \/ row.status = "PAID"
          \/ IsPosted(row.status) /\ asked.status \notin {"NONE", row.status} -> Return(u)
       [] OTHER ->
            /\ Become(u, held)
            /\ Goto(u, CASE held.rewrite -> "deleteLines"
                         [] IsPosted(row.status) /\ asked.sent -> "signature"
                         [] OTHER -> "patch")
  /\ UNCHANGED <<documents, next, requests, stops, history>>

Signature(u, i) ==
  /\ At(u, "signature", i)
  /\ IF lines[i] = my[u].total THEN Goto(u, "patch") /\ UNCHANGED my ELSE Return(u)
  /\ UNCHANGED <<documents, next, requests, stops, history>>

DeleteLines(u, i) ==
  /\ At(u, "deleteLines", i)
  /\ lines' = [lines EXCEPT ![i] = 0]
  /\ Writes(u, {i})
  /\ Goto(u, "lines")
  /\ UNCHANGED <<invoice, payment, applied, ledger, next, my, requests, stops, cut, shuffled, stated>>

(* The header, if it is there: the status as it was sent, the balance from *)
(* the amount paid as read.  Whoever sends the invoice goes on to post it. *)
Patch(u, i) ==
  LET asked == my[u]
      row == invoice[i]
      sent == IF asked.status = "NONE" THEN row ELSE [row EXCEPT !.status = asked.status]
  IN
  /\ At(u, "patch", i)
  /\ Writes(u, {i})
  /\ IF Visible(i)
     THEN /\ invoice' = [invoice EXCEPT ![i] =
               IF asked.rewrite
               THEN [sent EXCEPT !.total = asked.total, !.balance = asked.total - asked.paid]
               ELSE sent]
          /\ stated' = IF asked.status \in {"PARTIAL", "PAID"} THEN stated \cup {i} ELSE stated
          /\ IF asked.status = "SENT" /\ asked.was # "SENT"
             THEN Goto(u, "postRead") /\ UNCHANGED my
             ELSE Return(u)
     ELSE Return(u) /\ UNCHANGED <<invoice, stated>>
  /\ UNCHANGED <<lines, payment, applied, ledger, next, requests, stops, cut, shuffled>>

(* postInvoiceToLedger: without lines the header's amounts are posted; an  *)
(* entry that does not balance is refused, one of nothing is not made.     *)
PostRead(u, i) ==
  /\ At(u, "postRead", i)
  /\ IF /\ Exists(i) /\ invoice[i].status \in {"SENT", "PARTIAL", "PAID"}
        /\ invoice[i].total > 0 /\ lines[i] \in {0, invoice[i].total}
     THEN Become(u, [my[u] EXCEPT !.total = invoice[i].total]) /\ Goto(u, "postWrite")
     ELSE Return(u)
  /\ UNCHANGED <<documents, next, requests, stops, history>>

PostWrite(u, i) ==
  /\ At(u, "postWrite", i)
  /\ ledger' = [ledger EXCEPT ![i] = IF @ = 0 THEN my[u].total ELSE @]
  /\ Return(u)
  /\ UNCHANGED <<invoice, lines, payment, applied, next, requests, stops, history>>

Delete(u, i) ==
  /\ Visible(i) /\ invoice[i].status # "PAID" /\ ~IsPosted(invoice[i].status)
  /\ Arrive(u, "delete", [Fresh EXCEPT !.on = {i}], "deleteWrite")

DeleteWrite(u, i) ==
  /\ At(u, "deleteWrite", i)
  /\ invoice' = IF Exists(i) THEN [invoice EXCEPT ![i].deleted = TRUE] ELSE invoice
  /\ Writes(u, {i})
  /\ Return(u)
  /\ UNCHANGED <<lines, payment, applied, ledger, next, requests, stops, cut, shuffled, stated>>

-----------------------------------------------------------------------------
(* Payments.                                                               *)

Least(a, b) == IF a < b THEN a ELSE b
Most(a, b)  == IF a > b THEN a ELSE b

(* The invoice page: the amount may be more than is left.                  *)
Pay(u, i, a) ==
  /\ Exists(i) /\ invoice[i].balance > 0
  /\ Arrive(u, "pay", [Fresh EXCEPT !.on = {i}, !.amount = a,
                         !.pays[i] = Least(a, invoice[i].balance)], "payment")

(* A payment received for several invoices: each at most what is left.     *)
Receive(u, pays) ==
  LET paid == {i \in Ids : pays[i] > 0} IN
  /\ paid # {}
  /\ \A i \in paid : Visible(i) /\ pays[i] <= invoice[i].balance
  /\ Arrive(u, "receive", [Fresh EXCEPT !.on = paid, !.pays = pays,
                             !.amount = SumFunctionOnSet(pays, paid)], "payment")

InsertPayment(u, p) ==
  /\ pc[u] = "payment"
  /\ payment[p] = 0 /\ \A q \in Payments : q < p => payment[q] # 0
  /\ payment' = [payment EXCEPT ![p] = my[u].amount]
  /\ Become(u, [my[u] EXCEPT !.payment = p])
  /\ Goto(u, "apply")
  /\ UNCHANGED <<invoice, lines, applied, ledger, next, requests, stops, history>>

(* Mutant: only this payment counts.                                       *)
Committed_None(i) == 0

Committed(i) == SumFunction([p \in Payments |-> applied[p][i]])

(* The allocations are inserted, which fails for an invoice that is gone,  *)
(* and the statement of refresh_payment_document_balances begins: it sums  *)
(* what is committed, and its own.                                         *)
Apply(u) ==
  /\ pc[u] = "apply"
  /\ IF \A i \in my[u].on : Exists(i)
     THEN /\ Become(u, [my[u] EXCEPT !.sum =
               [i \in Ids |-> IF i \in my[u].on THEN Committed(i) + my[u].pays[i] ELSE 0]])
          /\ Goto(u, "commit")
     ELSE Return(u)
  /\ UNCHANGED <<documents, next, requests, stops, history>>

(* Mutant: a status no invoice has.                                        *)
Settled_Typo(row, sum) ==
  [row EXCEPT !.paid = Least(row.total, sum), !.balance = Most(row.total - sum, 0),
              !.status = IF sum >= row.total THEN "SETTLED" ELSE "PARTIAL"]

Settled(row, sum) ==
  [row EXCEPT !.paid = Least(row.total, sum), !.balance = Most(row.total - sum, 0),
              !.status = IF sum >= row.total THEN "PAID" ELSE "PARTIAL"]

(* The rows are written as they are by now, from the sum as it was.        *)
Commit(u) ==
  /\ pc[u] = "commit"
  /\ applied' = [applied EXCEPT ![my[u].payment] = my[u].pays]
  /\ invoice' = [i \in Ids |-> IF i \in my[u].on THEN Settled(invoice[i], my[u].sum[i])
                               ELSE invoice[i]]
  /\ Writes(u, my[u].on)
  /\ Goto(u, "postPayment")
  /\ UNCHANGED <<lines, payment, ledger, next, my, requests, stops, cut, shuffled, stated>>

(* postPaymentToLedger posts the amount, applied or not.                   *)
PostPayment(u) ==
  /\ pc[u] = "postPayment"
  /\ ledger' = [ledger EXCEPT ![my[u].payment] = payment[my[u].payment]]
  /\ Return(u)
  /\ UNCHANGED <<invoice, lines, payment, applied, next, requests, stops, history>>

-----------------------------------------------------------------------------
(* A request to the database fails, or the process stops: what was written *)
(* stays.                                                                  *)
Stop(u) ==
  /\ pc[u] # "idle" /\ stops < MaxStops
  /\ stops' = stops + 1
  /\ cut' = IF pc[u] \in {"lines", "undo", "patch", "postRead", "postWrite"}
            THEN cut \cup my[u].on ELSE cut
  /\ Return(u)
  /\ UNCHANGED <<documents, next, requests, raced, shuffled, stated>>

Handle(u) ==
  \/ Upsert(u) \/ Allocate(u) \/ Context(u) \/ Renumber(u)
  \/ InsertRefused(u)
  \/ \E i \in Ids :
       \/ Insert(u, i) \/ InsertLines(u, i) \/ LinesFail(u, i) \/ Undo(u, i)
       \/ Existing(u, i) \/ Signature(u, i) \/ DeleteLines(u, i) \/ Patch(u, i)
       \/ PostRead(u, i) \/ PostWrite(u, i) \/ DeleteWrite(u, i)
  \/ \E p \in Payments : InsertPayment(u, p)
  \/ Apply(u) \/ Commit(u) \/ PostPayment(u)

Request(u) ==
  /\ pc[u] = "idle" /\ requests < MaxRequests
  /\ \/ Reset(u)
     \/ \E n \in Numbers \cup {0} : Save(u, n)
     \/ \E a \in Totals : Create(u, a)
     \/ \E i \in Ids : Delete(u, i)
     \/ \E i \in Ids, a \in Amounts : Pay(u, i, a)
     \/ \E pays \in [Ids -> Amounts \cup {0}] : Receive(u, pays)
     \/ \E i \in Ids, a \in Totals, s \in Texts \cup {"NONE"}, sent, d \in BOOLEAN :
          Update(u, i, a, sent, s, d)

Next == \E u \in Users : Request(u) \/ Handle(u) \/ Stop(u)

Spec == Init /\ [][Next]_vars
-----------------------------------------------------------------------------
TypeOK ==
  /\ invoice \in [Ids -> [no : Nat, status : Statuses, deleted : BOOLEAN,
                          total : Nat, paid : Nat, balance : Int]]
  /\ lines \in [Ids -> Nat] /\ next \in Nat
  /\ payment \in [Payments -> Nat]
  /\ applied \in [Payments -> [Ids -> Nat]]
  /\ ledger \in [Ids \cup Payments -> Nat]
  /\ pc \in [Users -> PCs]
  /\ my \in [Users -> [kind : Kinds, on : SUBSET Ids, sent : BOOLEAN, total : Nat,
       status : Statuses, was : Statuses, paid : Nat, rewrite : BOOLEAN, payment : Payments \cup {0},
       amount : Nat, pays : [Ids -> Nat], sum : [Ids -> Nat], no : Nat]]
  /\ requests \in 0 .. MaxRequests /\ stops \in 0 .. MaxStops
  /\ raced \subseteq Ids /\ cut \subseteq Ids /\ stated \subseteq Ids /\ shuffled \in BOOLEAN

(* A number that was allocated is good for an insert: no invoice has it    *)
(* and nobody else holds it, however the sequence was saved or reset       *)
(* before.  Not so when the sequence was written while another request was *)
(* numbering, or after an invoice was deleted: the minimum does not count  *)
(* it, the unique index does.                                              *)
AllocatedIsFree ==
  ~shuffled /\ (\A i \in Ids : ~invoice[i].deleted) =>
    \A u \in Users : pc[u] = "insert" =>
      /\ \A i \in Ids : Exists(i) => invoice[i].no # my[u].no
      /\ \A v \in Users \ {u} : pc[v] = "insert" => my[v].no # my[u].no

Allocated(i) == SumFunction([p \in Payments |-> applied[p][i]])

(* Paid and balance of an invoice are what its allocations make them, and  *)
(* so is its status once there are any, whatever was edited, paid or cut   *)
(* short before; one without any is PARTIAL or PAID only if a user said    *)
(* so.  Not so for an invoice that was written while another handler held  *)
(* what it had read of it.                                                 *)
BalanceShowsAllocations ==
  \A i \in Ids \ raced : Exists(i) =>
    LET row == invoice[i]
        sum == Allocated(i) IN
    /\ row.paid = Least(row.total, sum)
    /\ row.balance = Most(row.total - sum, 0)
    /\ sum > 0 => row.status = IF sum >= row.total THEN "PAID" ELSE "PARTIAL"
    /\ sum = 0 /\ row.status \in {"PARTIAL", "PAID"} => i \in stated

(* What the ledger has of an invoice is what the invoice and its lines     *)
(* show, and it is not deleted; and an invoice that was sent and comes to  *)
(* something is in the ledger once nobody is posting it.  Not so when it   *)
(* was written while another held it, or when an edit or its posting was   *)
(* cut short.                                                              *)
LedgerShowsInvoice ==
  \A i \in Ids \ (raced \cup cut) :
    /\ ledger[i] # 0 =>
         /\ ledger[i] = invoice[i].total /\ ~invoice[i].deleted
         /\ lines[i] = invoice[i].total
    /\ invoice[i].status = "SENT" /\ invoice[i].total > 0 =>
         \/ ledger[i] # 0
         \/ \E u \in Users : pc[u] \in {"postRead", "postWrite"} /\ i \in my[u].on

(* What is SENT or PARTIAL is posted, as the test "treats SENT and PARTIAL *)
(* as posted" has it.                                                      *)
(* Not kept: section 7 of the README has the trace.                        *)
PostedIsInLedger ==
  \A i \in Ids :
    /\ invoice[i].status \in {"SENT", "PARTIAL"} /\ invoice[i].total > 0
    /\ \A u \in Users : pc[u] = "idle"
    => ledger[i] # 0

(* The allocations are the "authoritative payment application ledger"      *)
(* (056_payment_allocations.sql): what is PAID was paid.  Not kept.        *)
PaidIsPaid == \A i \in Ids : invoice[i].status = "PAID" => Allocated(i) >= invoice[i].total
==============================================================================
