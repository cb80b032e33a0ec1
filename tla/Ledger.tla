------------------------------- MODULE Ledger -------------------------------
(***************************************************************************)
(* The general ledger: journals written by hand and by the year close,     *)
(* source documents, and the fiscal periods they fall in.  A client is one *)
(* HTTP request of a user; each of its steps is one request to the         *)
(* database, with two exceptions.  The posting functions of migrations 032 *)
(* and 052 are a step up to the lock of the posting sequence and a step    *)
(* from it to the commit.  And consecutive reads of what only ever goes    *)
(* one way (a period is closed for good, a posting stays) are one step, at *)
(* the first of them: what passes them one by one passes them together.    *)
(*                                                                         *)
(* The lines of a journal are abstracted to their total and to what they   *)
(* add to the net income of their period, which a reversal takes away.     *)
(***************************************************************************)
EXTENDS Integers, FiniteSets, Functions

CONSTANTS
  Client,
  Journals,    (* the ids journals can have, 1 .. n                        *)
  Docs,        (* invoices, bills, expenses                                *)
  Period,      (* fiscal years of the company                              *)
  Amounts,     (* what users type                                          *)
  NoClose,     (* no row in fiscal_year_closings                           *)
  MaxRequests, (* bound: requests users make                               *)
  Requests     (* the kinds of request they make                           *)

ASSUME JournalsAssumption == /\ IsFiniteSet(Journals) /\ Journals = 1 .. Cardinality(Journals)
                             /\ {1, 2} \subseteq Journals
ASSUME DocsAssumption     == Docs \cap (Journals \cup {0}) = {}
ASSUME AmountsAssumption  == Amounts \subseteq Nat \ {0}
ASSUME BoundAssumption    == MaxRequests \in Nat
ASSUME ClientAssumption   == 0 \notin Client
ASSUME NoCloseAssumption  == NoClose \notin [journal : Journals, net : Int, late : Int]

VARIABLES
  entry,     (* journal_entries                                            *)
  lines,     (* journal_lines                                              *)
  rows,      (* ledger_entries, one element per posting                    *)
  sequence,  (* posting_sequences                                          *)
  lock,      (* who holds the row lock of a journal, 0 when nobody         *)
  period,    (* fiscal_periods.status                                      *)
  closing,   (* fiscal_year_closings                                       *)
  pc, my,    (* per client: its next step, and what it read                *)
  requests,  (* requests made so far                                       *)
  edited,    (* history: the journals an edit has written to               *)
  raced      (* history: the journals posted while they were being written *)

journalVars == <<entry, lines, lock>>
history     == <<edited, raced>>
vars == <<entry, lines, rows, sequence, lock, period, closing, pc, my, requests,
          edited, raced>>

Statuses   == {"NONE", "DRAFT", "POSTED", "DELETED"}
EntryTypes == {"STANDARD", "REVERSING", "ADJUSTING", "CLOSING"}
Kinds      == {"post", "create", "reverse", "adjust", "clone", "edit", "delete",
               "document", "closePeriod", "closeYear"}
NoEntry    == [status |-> "NONE", type |-> "STANDARD", date |-> 0, total |-> 0,
               source |-> 0, reversedBy |-> 0]

NoLines    == [total |-> 0, net |-> 0]
Lines(n)   == [total |-> IF n < 0 THEN -n ELSE n, net |-> n]
Swapped_Negated(l) == [total |-> -l.total, net |-> -l.net]
Swapped(l) == [l EXCEPT !.net = -@]
And(l, m)  == [total |-> l.total + m.total, net |-> l.net + m.net]

SumNet(R)    == SumFunction([r \in R |-> r.amount.net])
Net(p)       == SumNet({r \in rows : r.date = p})
RowsOf(s)    == {r \in rows : r.source = s}
OpenPeriods  == {p \in Period : period[p] = "OPEN"}
AlreadyPosted(s) == RowsOf(s) # {}
Unused       == {j \in Journals : entry[j].status = "NONE"}

(* The posted reversals of a journal, as reverseJournalEntry looks for them *)
Reversals(j) == {r \in Journals : /\ entry[r].source = j
                                  /\ entry[r].type = "REVERSING"
                                  /\ entry[r].status = "POSTED"}

(* What a client holds: its journal, source journal or document, the date  *)
(* and lines of what it is about to write, the balance a year close read  *)
(* and what others added to the year since; and, for the properties, what  *)
(* was open, posted and reversed when its request came in.                 *)
Fresh == [kind |-> "post", journal |-> 0, source |-> 0, date |-> 0, amount |-> NoLines,
          balance |-> 0, late |-> 0, wasOpen |-> {}, wasPosted |-> {},
          reversals |-> {}]

Goto(c, l) == pc' = [pc EXCEPT ![c] = l]
Return(c)  == Goto(c, "idle") /\ my' = [my EXCEPT ![c] = Fresh]

(* A request of a user arrives.                                            *)
Receive(c, kind, j, s, p, l) ==
  /\ pc[c] = "idle" /\ requests < MaxRequests /\ kind \in Requests
  /\ requests' = requests + 1
  /\ my' = [my EXCEPT ![c] =
              [kind |-> kind, journal |-> j, source |-> s, date |-> p, amount |-> l,
               balance |-> 0, late |-> 0, wasOpen |-> OpenPeriods,
               wasPosted |-> {r.source : r \in rows},
               reversals |-> UNION {Reversals(x) : x \in Journals}]]
  /\ UNCHANGED <<journalVars, rows, sequence, period, closing, history>>

(* One posted journal and one draft of the same period.                    *)
Start(p, a, b) ==
  /\ entry = [j \in Journals |->
                CASE j = 1 -> [NoEntry EXCEPT !.status = "POSTED", !.date = p, !.total = a]
                  [] j = 2 -> [NoEntry EXCEPT !.status = "DRAFT", !.date = p, !.total = b]
                  [] OTHER -> NoEntry]
  /\ lines = [j \in Journals |-> CASE j = 1 -> Lines(a) [] j = 2 -> Lines(b)
                                    [] OTHER -> NoLines]
  /\ rows = {[source |-> 1, date |-> p, amount |-> Lines(a), sequence |-> 1]}
  /\ sequence = 1
  /\ lock = [j \in Journals |-> 0]
  /\ period = [x \in Period |-> "OPEN"]
  /\ closing = [x \in Period |-> NoClose]
  /\ pc = [c \in Client |-> "idle"]
  /\ my = [c \in Client |-> Fresh]
  /\ requests = 0 /\ edited = {} /\ raced = {}

Init == \E p \in Period, a, b \in Amounts : Start(p, a, b)

-----------------------------------------------------------------------------
(* postJournalEntry and the function post_journal_entry it calls.          *)

Post(c, j) ==
  /\ entry[j].status \in {"DRAFT", "POSTED"}
  /\ Receive(c, "post", j, 0, 0, NoLines)
  /\ Goto(c, "postEntry")

PostEntry(c) ==
  LET j == my[c].journal IN
  /\ pc[c] = "postEntry"
  /\ entry[j].status # "DELETED"
  /\ my' = [my EXCEPT ![c].date = entry[j].date]
  /\ Goto(c, "postChecks")
  /\ UNCHANGED <<journalVars, rows, sequence, period, closing, requests, history>>

(* The lines (validateBalanced refuses a journal without), duplicates, and *)
(* the period of the date read before.                                     *)
PostChecks_Unbalanced(c) ==
  /\ pc[c] = "postChecks"
  /\ ~AlreadyPosted(my[c].journal)
  /\ period[my[c].date] # "CLOSED"
  /\ Goto(c, "lock")
  /\ UNCHANGED <<journalVars, rows, sequence, period, closing, my, requests, history>>

PostChecks(c) ==
  /\ pc[c] = "postChecks"
  /\ lines[my[c].journal] # NoLines
  /\ ~AlreadyPosted(my[c].journal)
  /\ period[my[c].date] # "CLOSED"
  /\ Goto(c, "lock")
  /\ UNCHANGED <<journalVars, rows, sequence, period, closing, my, requests, history>>

(* post_journal_entry up to the call of next_posting_sequence: it locks    *)
(* the journal's row and looks at its header, at the ledger and at the     *)
(* period of the date the row now has.  A refusal aborts the transaction.  *)
Postable_AnyPeriod(j) ==
  /\ entry[j].status = "DRAFT"
  /\ entry[j].total # 0
  /\ ~AlreadyPosted(j)

Postable(j) ==
  /\ entry[j].status = "DRAFT"
  /\ entry[j].total # 0
  /\ ~AlreadyPosted(j)
  /\ period[entry[j].date] # "CLOSED"

Lock_None(c) ==
  /\ pc[c] = "lock"
  /\ Postable(my[c].journal)
  /\ Goto(c, "commit")
  /\ UNCHANGED <<journalVars, rows, sequence, period, closing, my, requests, history>>

Lock(c) ==
  LET j == my[c].journal IN
  /\ pc[c] = "lock"
  /\ lock[j] = 0
  /\ Postable(j)
  /\ lock' = [lock EXCEPT ![j] = c]
  /\ Goto(c, "commit")
  /\ UNCHANGED <<entry, lines, rows, sequence, period, closing, my, requests, history>>

(* Where the request goes on once its journal is posted.                   *)
AfterPost(c) == CASE my[c].kind = "reverse"   -> "mark"
                  [] my[c].kind = "closeYear" -> "closePeriod"
                  [] OTHER                    -> "idle"

(* Rows committed by others since a year close read the balance.           *)
CountLate(c, p, amount) ==
  [d \in Client |-> IF d # c /\ my[d].kind = "closeYear" /\ my[d].source = p
                      THEN [my[d] EXCEPT !.late = @ + amount.net]
                      ELSE my[d]]

LateClosing(p, amount) ==
  [x \in Period |-> IF x = p /\ closing[x] # NoClose
                    THEN [closing[x] EXCEPT !.late = @ + amount.net]
                    ELSE closing[x]]

Record(s, p, amount) ==
  /\ sequence' = sequence + 1
  /\ rows' = IF amount = NoLines THEN rows
              ELSE rows \cup {[source |-> s, date |-> p, amount |-> amount,
                               sequence |-> sequence + 1]}

(* An edit of a journal under way, or its creation before the lines.       *)
Writes(d, j) == my[d].journal = j /\ (my[d].kind = "edit" \/ pc[d] = "lines")

(* The rest of the function: the next number, a row per line the journal   *)
(* has by now, the status.                                                 *)
Commit(c) ==
  LET j == my[c].journal
      p == entry[j].date
      a == lines[j]
      following == AfterPost(c) IN
  /\ pc[c] = "commit"
  /\ Record(j, p, a)
  /\ entry' = [entry EXCEPT ![j].status = "POSTED"]
  /\ lock' = [lock EXCEPT ![j] = 0]
  /\ raced' = IF \E d \in Client : Writes(d, j) THEN raced \cup {j} ELSE raced
  /\ closing' = LateClosing(p, a)
  /\ my' = IF following = "idle" THEN [CountLate(c, p, a) EXCEPT ![c] = Fresh]
           ELSE CountLate(c, p, a)
  /\ Goto(c, following)
  /\ UNCHANGED <<lines, period, requests, edited>>

-----------------------------------------------------------------------------
(* postSourceDocumentToLedger and post_source_document_lines.  The date    *)
(* and the amount are the document's as the request read them.             *)

PostDocument(c, d, p, a) ==
  /\ Receive(c, "document", 0, d, p, Lines(a))
  /\ Goto(c, "documentChecks")

DocumentChecks(c) ==
  /\ pc[c] = "documentChecks"
  /\ period[my[c].date] # "CLOSED"
  /\ IF AlreadyPosted(my[c].source) THEN Return(c)
     ELSE Goto(c, "documentCheck") /\ UNCHANGED my
  /\ UNCHANGED <<journalVars, rows, sequence, period, closing, requests, history>>

(* The function looks for rows of the document before it takes the lock of *)
(* the sequence, and does not look again.                                  *)
DocumentCheck(c) ==
  /\ pc[c] = "documentCheck"
  /\ IF AlreadyPosted(my[c].source) THEN Return(c)
     ELSE Goto(c, "documentCommit") /\ UNCHANGED my
  /\ UNCHANGED <<journalVars, rows, sequence, period, closing, requests, history>>

(* ledger_entries_source_unique_idx: no two rows of one source with the    *)
(* same account, amount and date.                                          *)
UniqueSource(s, p, amount) ==
  \A r \in RowsOf(s) : r.date # p \/ r.amount # amount

DocumentCommit(c) ==
  LET s == my[c].source  p == my[c].date  a == my[c].amount IN
  /\ pc[c] = "documentCommit"
  /\ UniqueSource(s, p, a)
  /\ Record(s, p, a)
  /\ closing' = LateClosing(p, a)
  /\ my' = [CountLate(c, p, a) EXCEPT ![c] = Fresh]
  /\ Goto(c, "idle")
  /\ UNCHANGED <<journalVars, period, requests, history>>
-----------------------------------------------------------------------------
(* Journals that are written: by hand, or by journal-operations.ts as the  *)
(* reversal, adjustment or copy of another.                                *)

Create(c, p, a) ==
  /\ Receive(c, "create", 0, 0, p, Lines(a))
  /\ Goto(c, "entry")

Derive(c, kind, j, p, a) ==
  /\ entry[j].status \in {"DRAFT", "POSTED"}
  /\ Receive(c, kind, 0, j, p, IF kind = "adjust" THEN Lines(a) ELSE NoLines)
  /\ Goto(c, "load")

(* loadJournal: the entry, then its lines.  A copy may be of any journal.  *)
Load(c) ==
  LET s == my[c].source IN
  /\ pc[c] = "load"
  /\ entry[s].status \in IF my[c].kind = "clone" THEN {"DRAFT", "POSTED"} ELSE {"POSTED"}
  /\ Goto(c, "loadLines")
  /\ UNCHANGED <<journalVars, rows, sequence, period, closing, my, requests, history>>

LoadLines(c) ==
  LET a == lines[my[c].source] IN
  /\ pc[c] = "loadLines"
  /\ my' = [my EXCEPT ![c].amount = CASE my[c].kind = "reverse" -> Swapped(a)
                                      [] my[c].kind = "clone"   -> a
                                      [] OTHER                  -> @]
  /\ Goto(c, IF my[c].kind = "clone" THEN "entry" ELSE "draftChecks")
  /\ UNCHANGED <<journalVars, rows, sequence, period, closing, requests, history>>

(* No posted reversal yet, and validatePostingContext before the draft is  *)
(* written.                                                                *)
DraftChecks_Marked(c) ==
  /\ pc[c] = "draftChecks"
  /\ my[c].kind = "reverse" => entry[my[c].source].reversedBy = 0
  /\ my[c].amount # NoLines
  /\ period[my[c].date] # "CLOSED"
  /\ Goto(c, "entry")
  /\ UNCHANGED <<journalVars, rows, sequence, period, closing, my, requests, history>>

DraftChecks(c) ==
  /\ pc[c] = "draftChecks"
  /\ my[c].kind = "reverse" => Reversals(my[c].source) = {}
  /\ my[c].amount # NoLines
  /\ period[my[c].date] # "CLOSED"
  /\ Goto(c, "entry")
  /\ UNCHANGED <<journalVars, rows, sequence, period, closing, my, requests, history>>

TypeOf(kind) == CASE kind = "reverse"   -> "REVERSING"
                  [] kind = "adjust"    -> "ADJUSTING"
                  [] kind = "closeYear" -> "CLOSING"
                  [] OTHER              -> "STANDARD"

Derived(kind) == kind \in {"reverse", "adjust", "clone"}

(* createJournalDraft and the route that creates a journal: the header,    *)
(* with a foreign key to the journal it derives from.                      *)
InsertEntry(c) ==
  /\ pc[c] = "entry"
  /\ Derived(my[c].kind) => entry[my[c].source].status # "DELETED"
  /\ \E j \in Unused :
       /\ \A k \in Unused : j <= k
       /\ entry' = [entry EXCEPT ![j] =
            [status |-> "DRAFT", type |-> TypeOf(my[c].kind), date |-> my[c].date,
             total |-> my[c].amount.total,
             source |-> IF Derived(my[c].kind) THEN my[c].source ELSE 0,
             reversedBy |-> 0]]
       /\ my' = [my EXCEPT ![c].journal = j]
  /\ Goto(c, IF my[c].kind = "closeYear" /\ my[c].amount = NoLines
             THEN "closePeriod" ELSE "lines")
  /\ UNCHANGED <<lines, lock, rows, sequence, period, closing, requests, history>>

(* The lines: a foreign key to the header, which waits for its row lock.   *)
Writable(j) == entry[j].status # "DELETED" /\ lock[j] = 0

(* An adjustment is posted unless the caller says autoPost: false.         *)
InsertLines(c) ==
  LET j == my[c].journal IN
  /\ pc[c] = "lines"
  /\ Writable(j)
  /\ lines' = [lines EXCEPT ![j] = And(@, my[c].amount)]
  /\ \/ /\ my[c].kind \in {"reverse", "adjust", "closeYear"}
        /\ Goto(c, "postEntry") /\ UNCHANGED my
     \/ /\ my[c].kind \in {"create", "adjust", "clone"}
        /\ Return(c)
  /\ UNCHANGED <<entry, lock, rows, sequence, period, closing, requests, history>>

(* The last write of reverseJournalEntry: a foreign key, and an error that *)
(* is not looked at.                                                       *)
Mark(c) ==
  LET s == my[c].source  j == my[c].journal IN
  /\ pc[c] = "mark"
  /\ lock[s] = 0
  /\ entry' = IF "DELETED" \in {entry[s].status, entry[j].status} THEN entry
              ELSE [entry EXCEPT ![s].reversedBy = j]
  /\ Return(c)
  /\ UNCHANGED <<lines, lock, rows, sequence, period, closing, requests, history>>

-----------------------------------------------------------------------------
(* The PUT and DELETE handlers of a journal.                               *)

Edit(c, j, p, a) ==
  /\ entry[j].status \in {"DRAFT", "POSTED"}
  /\ Receive(c, "edit", j, 0, p, Lines(a))
  /\ Goto(c, "editRead")

EditRead(c) ==
  /\ pc[c] = "editRead"
  /\ entry[my[c].journal].status = "DRAFT"
  /\ Goto(c, "editClear")
  /\ UNCHANGED <<journalVars, rows, sequence, period, closing, my, requests, history>>

(* deleteMany in the handler, and again in prisma.ts after the header.     *)
EditClear(c) ==
  /\ pc[c] \in {"editClear", "editClearAgain"}
  /\ lines' = [lines EXCEPT ![my[c].journal] = NoLines]
  /\ edited' = edited \cup {my[c].journal}
  /\ Goto(c, IF pc[c] = "editClear" THEN "editEntry" ELSE "editLines")
  /\ UNCHANGED <<entry, lock, rows, sequence, period, closing, my, requests, raced>>

EditEntry(c) ==
  LET j == my[c].journal IN
  /\ pc[c] = "editEntry"
  /\ Writable(j)
  /\ entry' = [entry EXCEPT ![j].date = my[c].date, ![j].total = my[c].amount.total]
  /\ Goto(c, "editClearAgain")
  /\ UNCHANGED <<lines, lock, rows, sequence, period, closing, my, requests, history>>

EditLines(c) ==
  LET j == my[c].journal IN
  /\ pc[c] = "editLines"
  /\ Writable(j)
  /\ lines' = [lines EXCEPT ![j] = And(@, my[c].amount)]
  /\ Return(c)
  /\ UNCHANGED <<entry, lock, rows, sequence, period, closing, requests, history>>

Delete(c, j) ==
  /\ entry[j].status \in {"DRAFT", "POSTED"}
  /\ Receive(c, "delete", j, 0, 0, NoLines)
  /\ Goto(c, "deleteRead")

DeleteRead(c) ==
  /\ pc[c] = "deleteRead"
  /\ entry[my[c].journal].status # "POSTED"
  /\ Goto(c, "delete")
  /\ UNCHANGED <<journalVars, rows, sequence, period, closing, my, requests, history>>

(* The lines go with it; what pointed at it is set to null, except a       *)
(* ledger row's source_id, which is no foreign key.                        *)
DeleteEntry(c) ==
  LET j == my[c].journal IN
  /\ pc[c] = "delete"
  /\ lock[j] = 0
  /\ entry' = [k \in Journals |->
       IF k = j THEN [NoEntry EXCEPT !.status = "DELETED"]
       ELSE [entry[k] EXCEPT !.source = IF @ = j THEN 0 ELSE @,
                             !.reversedBy = IF @ = j THEN 0 ELSE @]]
  /\ lines' = [lines EXCEPT ![j] = NoLines]
  /\ Return(c)
  /\ UNCHANGED <<lock, rows, sequence, period, closing, requests, history>>
-----------------------------------------------------------------------------
(* Closing a period, and closing a fiscal year: the requests of            *)
(* closeFiscalYear, no transaction around them.  Left out, because no      *)
(* guard reads them: the next period's row and the memorandum of opening   *)
(* balances, a draft of the permanent accounts.                            *)

ClosePeriod(c, p) ==
  /\ pc[c] = "idle" /\ requests < MaxRequests /\ "closePeriod" \in Requests
  /\ requests' = requests + 1
  /\ period' = [period EXCEPT ![p] = "CLOSED"]
  /\ UNCHANGED <<journalVars, rows, sequence, closing, pc, my, history>>

CloseYear(c, p) ==
  /\ Receive(c, "closeYear", 0, p, p, NoLines)
  /\ Goto(c, "yearChecks")

(* The period's status, a recorded close, and validateFiscalPeriodOpen.    *)
YearChecks(c) ==
  /\ pc[c] = "yearChecks"
  /\ period[my[c].source] # "CLOSED"
  /\ closing[my[c].source] = NoClose
  /\ Goto(c, "yearBalances")
  /\ UNCHANGED <<journalVars, rows, sequence, period, closing, my, requests, history>>

(* The closing journal takes the net income out of the year.  One account  *)
(* stands for all, so that a year without net income has no lines.         *)
YearBalances(c) ==
  LET b == Net(my[c].source) IN
  /\ pc[c] = "yearBalances"
  /\ my' = [my EXCEPT ![c].balance = b, ![c].amount = Lines(-b), ![c].late = 0]
  /\ Goto(c, "entry")
  /\ UNCHANGED <<journalVars, rows, sequence, period, closing, requests, history>>

(* The insert of the closing lines does not look at its error.             *)
LoseLines(c) ==
  /\ pc[c] = "lines" /\ my[c].kind = "closeYear"
  /\ Goto(c, "postEntry")
  /\ UNCHANGED <<journalVars, rows, sequence, period, closing, my, requests, history>>

YearClosePeriod(c) ==
  /\ pc[c] = "closePeriod"
  /\ period' = [period EXCEPT ![my[c].source] = "CLOSED"]
  /\ Goto(c, "record")
  /\ UNCHANGED <<journalVars, rows, sequence, closing, my, requests, history>>

(* UNIQUE (company_id, fiscal_year), and again the error is not looked at. *)
YearRecord(c) ==
  LET p == my[c].source IN
  /\ pc[c] = "record"
  /\ closing' = IF closing[p] # NoClose THEN closing
                ELSE [closing EXCEPT ![p] = [journal |-> my[c].journal,
                                             net |-> my[c].balance, late |-> my[c].late]]
  /\ Return(c)
  /\ UNCHANGED <<journalVars, rows, sequence, period, requests, history>>

-----------------------------------------------------------------------------
(* A guard refuses, a request fails, or the process dies: the client stops *)
(* where it is, and a transaction it is in is rolled back.                 *)
Fail(c) ==
  /\ pc[c] # "idle"
  /\ lock' = [j \in Journals |-> IF lock[j] = c THEN 0 ELSE lock[j]]
  /\ Return(c)
  /\ UNCHANGED <<entry, lines, rows, sequence, period, closing, requests, history>>

Posting(c) ==
  \/ PostEntry(c) \/ PostChecks(c) \/ Lock(c) \/ Commit(c)

Document(c) ==
  \/ DocumentChecks(c) \/ DocumentCheck(c) \/ DocumentCommit(c)

Drafting(c) ==
  \/ Load(c) \/ LoadLines(c) \/ DraftChecks(c)
  \/ InsertEntry(c) \/ InsertLines(c) \/ Mark(c)

Editing(c) ==
  \/ EditRead(c) \/ EditClear(c) \/ EditEntry(c) \/ EditLines(c)
  \/ DeleteRead(c) \/ DeleteEntry(c)

YearClose(c) ==
  \/ YearChecks(c) \/ YearBalances(c) \/ LoseLines(c)
  \/ YearClosePeriod(c) \/ YearRecord(c)

Arrive(c) ==
  \/ \E p \in Period :
       \/ ClosePeriod(c, p)
       \/ CloseYear(c, p)
       \/ \E a \in Amounts :
            \/ Create(c, p, a)
            \/ \E d \in Docs : PostDocument(c, d, p, a)
            \/ \E j \in Journals :
                 \/ Edit(c, j, p, a)
                 \/ \E kind \in {"reverse", "adjust", "clone"} : Derive(c, kind, j, p, a)
  \/ \E j \in Journals : Post(c, j) \/ Delete(c, j)

Next ==
  \E c \in Client :
    \/ Arrive(c) \/ Posting(c) \/ Document(c) \/ Drafting(c) \/ Editing(c)
    \/ YearClose(c) \/ Fail(c)

Spec == Init /\ [][Next]_vars

-----------------------------------------------------------------------------
(* Properties.                                                             *)

LineSets == [total : Nat, net : Int]
Rows == [source : Journals \cup Docs, date : Period, amount : LineSets, sequence : Nat]
Entries == [status : Statuses, type : EntryTypes, date : Period \cup {0}, total : Nat,
            source : Journals \cup {0}, reversedBy : Journals \cup {0}]
Clients == [kind : Kinds, journal : Journals \cup {0},
            source : Journals \cup Docs \cup Period \cup {0},
            date : Period \cup {0}, amount : LineSets, balance : Int, late : Int,
            wasOpen : SUBSET Period, wasPosted : SUBSET (Journals \cup Docs),
            reversals : SUBSET Journals]
Closings == [journal : Journals, net : Int, late : Int]

PostPCs     == {"postEntry", "postChecks", "lock", "commit"}
DocumentPCs == {"documentChecks", "documentCheck", "documentCommit"}
DraftPCs    == {"load", "loadLines", "draftChecks", "entry", "lines", "mark"}
EditPCs     == {"editRead", "editClear", "editEntry", "editClearAgain", "editLines",
                "deleteRead", "delete"}
YearPCs     == {"yearChecks", "yearBalances", "closePeriod", "record"}
PCs == {"idle"} \cup PostPCs \cup DocumentPCs \cup DraftPCs \cup EditPCs \cup YearPCs

(* The types of the tables and of what the clients hold.                   *)
TypeOK ==
  /\ entry \in [Journals -> Entries]
  /\ lines \in [Journals -> LineSets]
  /\ rows \subseteq Rows
  /\ sequence \in Nat
  /\ lock \in [Journals -> Client \cup {0}]
  /\ period \in [Period -> {"OPEN", "CLOSED"}]
  /\ closing \in [Period -> Closings \cup {NoClose}]
  /\ pc \in [Client -> PCs]
  /\ my \in [Client -> Clients]
  /\ requests \in 0 .. MaxRequests
  /\ edited \subseteq Journals /\ raced \subseteq Journals

(* A journal is in the ledger at most once, however many clients post it   *)
(* while others edit or delete it, and a draft is never in it: the row     *)
(* lock and the two guards of post_journal_entry.  What the ledger holds   *)
(* of a posted journal is what the journal shows, unless it was posted     *)
(* while it was being written: the edit's own look at the status protects  *)
(* every journal that is posted already.                                   *)
LedgerShowsJournals ==
  \A j \in Journals :
    /\ Cardinality(RowsOf(j)) <= 1
    /\ RowsOf(j) # {} => entry[j].status \in {"POSTED", "DELETED"}
    /\ entry[j].status = "POSTED" /\ j \notin raced => lines[j].net = SumNet(RowsOf(j))

(* A year whose close is recorded has a net income of zero but for what    *)
(* others posted to it after the close read the balances: whatever was     *)
(* lost, retried or run twice on the way, the close that is recorded took  *)
(* out all it saw.  A closing journal somebody edited as a draft is left   *)
(* aside.                                                                  *)
ClosedYearNets ==
  \A p \in Period :
    closing[p] # NoClose /\ closing[p].journal \notin edited => Net(p) = closing[p].late

(* The client whose posting a step commits.                                *)
Commits(c) == pc[c] \in {"commit", "documentCommit"} /\ pc'[c] # pc[c] /\ rows' # rows

(* What was settled when a request came in is not touched by it, however   *)
(* it races with others.  A period that was closed gets nothing from it,   *)
(* though the date of a journal can be changed while it is posted and a    *)
(* document's period is looked at by the service only.  What was in the    *)
(* ledger is not posted again: a retry of a document's post is harmless    *)
(* once the first has ended.  And a journal that had a posted reversal,    *)
(* and still has it, gets no second one.                                   *)
SettledIsKept ==
  [][\A c \in Client : Commits(c) =>
       /\ \A r \in rows' \ rows :
            r.date \in my[c].wasOpen /\ r.source \notin my[c].wasPosted
       /\ my[c].kind = "reverse" =>
            my[c].reversals \cap Reversals(my[c].source) = {}]_vars

(* A source document is in the ledger once, as the test "source-document   *)
(* posting is atomic and idempotent at the database boundary" says.        *)
(* Not kept: section 7 of the README has the trace.                        *)
DocumentPostedOnce == \A d \in Docs : Cardinality(RowsOf(d)) <= 1

(* A journal is reversed at most once: "This journal entry has already     *)
(* been reversed".                                                         *)
(* Not kept: section 7 of the README has the trace.                        *)
ReversedOnce == \A j \in Journals : Cardinality(Reversals(j)) <= 1
=============================================================================
