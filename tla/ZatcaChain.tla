----------------------------- MODULE ZatcaChain ------------------------------
(***************************************************************************)
(* Submission of invoices to ZATCA, the tax authority: the status machine  *)
(* of submission/submit.ts and the counter and hash chain that runs        *)
(* through the documents it sends.  A user is one HTTP request at a time;  *)
(* a step is one request to the database, or to ZATCA, with what the code  *)
(* computes from it.                                                       *)
(*                                                                         *)
(* A document is what its XML depends on: the invoice and its contents,    *)
(* the counter (ICV) and the hash of the previous document (PIH).  A hash  *)
(* is the place of a document in the sequence of all that were made, 0     *)
(* where there is none: equal documents have equal hashes.  The three      *)
(* statuses of an answer that was not an error are one, SUBMITTED: every   *)
(* guard treats them alike.                                                *)
(***************************************************************************)
EXTENDS Naturals, FiniteSets, Sequences

CONSTANTS
  Users,
  NInvoices,    (* invoices 1 .. NInvoices, in the order of created_at     *)
  Requests,     (* the kinds of request users make                         *)
  MaxRequests,  (* bound: requests users make                              *)
  MaxOthers,    (* bound: those of them that are not submissions           *)
  MaxStops      (* bound: database requests that fail, and crashes         *)

ASSUME InvoicesAssumption == NInvoices \in Nat \ {0}
ASSUME BoundAssumption    == {MaxRequests, MaxOthers, MaxStops} \subseteq Nat

VARIABLES
  row,       (* invoices                                                   *)
  made,      (* the documents that were generated and hashed               *)
  sent,      (* ZATCA: documents it was sent                               *)
  accepted,  (* ZATCA: documents it accepted                               *)
  pc, my,    (* per user: the next request, and what the handler holds     *)
  requests, others, stops,
  raced,     (* history: invoices with two submissions under way at once   *)
  lost,      (* history: invoices whose acceptance was not recorded, or    *)
             (* recorded as a failure                                      *)
  viewed,    (* history: invoices hashed by another route than submission  *)
  crossed,   (* history: invoices whose predecessors changed while a       *)
             (* handler was reading them                                   *)
  shuffled   (* history: an invoice was hashed again, out of order, beside *)
             (* another, or deleted after it was hashed                    *)

zatca   == <<made, sent, accepted>>
history == <<raced, lost, viewed, crossed, shuffled>>
bounds  == <<requests, others, stops>>
vars    == <<row, zatca, pc, my, bounds, history>>

Ids      == 1 .. NInvoices
Statuses == {"DRAFT", "PENDING", "FAILED", "SUBMITTED"}
Terminal == {"SUBMITTED"}
Kinds    == {"submit", "view", "edit", "delete"}
PCs      == {"idle", "verify", "check", "pend", "load", "count", "generate",
             "again", "persist", "keep", "send", "record", "audit", "fail"}

(* What a handler holds: the invoice, its contents and stored previous     *)
(* hash as read, the counter and the predecessor's hash for the document,  *)
(* the predecessor's hash to store, and the document.                      *)
Fresh == [kind |-> "submit", on |-> 1, previous |-> 0, contents |-> 0,
          icv |-> 0, pih |-> 0, link |-> 0, doc |-> 0]

Goto(u, l)   == pc' = [pc EXCEPT ![u] = l]
Become(u, r) == my' = [my EXCEPT ![u] = r]
Return(u)    == Goto(u, "idle") /\ Become(u, Fresh)

(* A submission that got as far as PENDING records its failure.            *)
GiveUp(u) ==
  IF my[u].kind = "submit" THEN Goto(u, "fail") /\ UNCHANGED my ELSE Return(u)

Hashed(i) == row[i].hash # 0 /\ ~row[i].deleted

Init ==
  /\ row = [i \in Ids |-> [status |-> "DRAFT", hash |-> 0, previous |-> 0,
                           signed |-> 0, contents |-> 0, deleted |-> FALSE]]
  /\ made = << >> /\ sent = {} /\ accepted = {}
  /\ pc = [u \in Users |-> "idle"] /\ my = [u \in Users |-> Fresh]
  /\ requests = 0 /\ others = 0 /\ stops = 0
  /\ raced = {} /\ lost = {} /\ viewed = {} /\ crossed = {} /\ shuffled = FALSE

Arrive(u, kind, i) ==
  /\ pc[u] = "idle" /\ kind \in Requests /\ requests < MaxRequests
  /\ kind # "submit" => others < MaxOthers
  /\ requests' = requests + 1
  /\ others' = IF kind = "submit" THEN others ELSE others + 1
  /\ ~row[i].deleted

(* Handlers that have looked for the predecessor of an invoice, and will   *)
(* look again.                                                             *)
Looking == {"pend", "load", "count", "generate", "again"}

After(j, S) == {i \in Ids : i > j /\ \E v \in Users : pc[v] \in S /\ my[v].on = i}

Crosses(j) == crossed' = crossed \cup After(j, Looking)

-----------------------------------------------------------------------------
(* submitInvoice, up to the write of PENDING.                              *)

(* Mutant: an invoice that failed and one that was submitted are alike.    *)
MaySubmit_Again(i) == row[i].status # "PENDING"

(* assertSubmissionReady.                                                  *)
MaySubmit(i) == row[i].status # "PENDING" /\ row[i].status \notin Terminal

Submit(u, i) ==
  /\ Arrive(u, "submit", i) /\ MaySubmit(i)
  /\ Become(u, [Fresh EXCEPT !.on = i]) /\ Goto(u, "verify")
  /\ raced' = IF \E v \in Users : pc[v] # "idle" /\ my[v].on = i /\ my[v].kind = "submit"
              THEN raced \cup {i} ELSE raced
  /\ UNCHANGED <<row, zatca, stops, lost, viewed, crossed, shuffled>>

(* The last invoice before this one, by the time of creation, that has a   *)
(* hash.                                                                   *)
Prior(i) ==
  LET before == {j \in 1 .. i - 1 : Hashed(j)} IN
  IF before = {} THEN 0 ELSE row[CHOOSE j \in before : \A k \in before : k <= j].hash

Verify(u) ==
  /\ pc[u] = "verify"
  /\ Become(u, [my[u] EXCEPT !.previous = row[my[u].on].previous])
  /\ Goto(u, "check")
  /\ UNCHANGED <<row, zatca, bounds, history>>

(* Mutant: the stored link is not looked at.                               *)
LinkHolds_Always(stored, prior) == TRUE

(* verifyPihForInvoice: an invoice without a stored link passes.           *)
LinkHolds(stored, prior) == stored = 0 \/ stored = prior

Check(u) ==
  /\ pc[u] = "check"
  /\ IF LinkHolds(my[u].previous, Prior(my[u].on))
     THEN Goto(u, "pend") /\ Become(u, [my[u] EXCEPT !.previous = 0])
     ELSE Return(u)
  /\ UNCHANGED <<row, zatca, bounds, history>>

Pend(u) ==
  LET i == my[u].on IN
  /\ pc[u] = "pend"
  /\ IF row[i].deleted
     THEN Return(u) /\ UNCHANGED row
     ELSE /\ row' = [row EXCEPT ![i].status = "PENDING"]
          /\ Goto(u, "load") /\ UNCHANGED my
  /\ UNCHANGED <<zatca, bounds, history>>

-----------------------------------------------------------------------------
(* processZatcaInvoice: for a submission, or for the routes that show the  *)
(* hash or the XML of an invoice or check its compliance.                  *)

View(u, i) ==
  /\ Arrive(u, "view", i)
  /\ Become(u, [Fresh EXCEPT !.on = i, !.kind = "view"]) /\ Goto(u, "load")
  /\ UNCHANGED <<row, zatca, stops, history>>

Load(u) ==
  LET i == my[u].on IN
  /\ pc[u] = "load"
  /\ IF row[i].deleted
     THEN GiveUp(u)
     ELSE Become(u, [my[u] EXCEPT !.contents = row[i].contents]) /\ Goto(u, "count")
  /\ UNCHANGED <<row, zatca, bounds, history>>

(* Mutant: the invoice itself is counted too.                              *)
NextCounter_Self(i) == Cardinality({j \in Ids : Hashed(j)}) + 1

(* Mutant: the number of the last document, not of the next.              *)
NextCounter_Last(i) == Cardinality({j \in Ids \ {i} : Hashed(j)})

(* getNextInvoiceCounterValue.                                             *)
NextCounter(i) == Cardinality({j \in Ids \ {i} : Hashed(j)}) + 1

Count(u) ==
  /\ pc[u] = "count"
  /\ Become(u, [my[u] EXCEPT !.icv = NextCounter(my[u].on)])
  /\ Goto(u, "generate")
  /\ UNCHANGED <<row, zatca, bounds, history>>

(* getPriorInvoiceHash does not find the predecessor of a deleted invoice. *)
PriorOf(i) == IF row[i].deleted THEN 0 ELSE Prior(i)

(* The XML is generated, or found invalid.                                 *)
Generate(u) ==
  /\ pc[u] = "generate"
  /\ \/ /\ Become(u, [my[u] EXCEPT !.pih = PriorOf(my[u].on)])
        /\ Goto(u, "again")
     \/ GiveUp(u)
  /\ UNCHANGED <<row, zatca, bounds, history>>

(* The predecessor's hash is read a second time, to be stored.             *)
Again(u) ==
  /\ pc[u] = "again"
  /\ Become(u, [my[u] EXCEPT !.link = PriorOf(my[u].on)])
  /\ Goto(u, "persist")
  /\ UNCHANGED <<row, zatca, bounds, history>>

Document(u) ==
  [of |-> my[u].on, contents |-> my[u].contents, icv |-> my[u].icv, pih |-> my[u].pih]

Persist(u) ==
  LET i == my[u].on
      d == Document(u)
      known == \E n \in DOMAIN made : made[n] = d
      hash == IF known THEN CHOOSE n \in DOMAIN made : made[n] = d ELSE Len(made) + 1 IN
  /\ pc[u] = "persist"
  /\ IF row[i].deleted
     THEN GiveUp(u) /\ UNCHANGED <<row, made, history>>
     ELSE /\ row' = [row EXCEPT ![i].hash = hash, ![i].previous = my[u].link]
          /\ made' = IF known THEN made ELSE Append(made, d)
          /\ viewed' = IF my[u].kind = "view" THEN viewed \cup {i} ELSE viewed
          /\ Crosses(i)
          /\ shuffled' = (shuffled \/ row[i].hash \notin {0, hash}
                                   \/ (\E j \in i + 1 .. NInvoices : Hashed(j))
                                   \/ After(i, Looking \cup {"persist"}) # {})
          /\ IF my[u].kind = "view"
             THEN Return(u)
             ELSE Become(u, [Fresh EXCEPT !.on = i, !.doc = hash]) /\ Goto(u, "keep")
          /\ UNCHANGED <<raced, lost>>
  /\ UNCHANGED <<sent, accepted, bounds>>

-----------------------------------------------------------------------------
(* submitInvoice, from the signature on.                                   *)

(* The invoice is loaded again, validated and signed, each of which may    *)
(* fail, and the signed XML is stored before it is sent.                   *)
Keep(u) ==
  LET i == my[u].on IN
  /\ pc[u] = "keep"
  /\ \/ /\ ~row[i].deleted
        /\ row' = [row EXCEPT ![i].signed = my[u].doc] /\ Goto(u, "send")
     \/ Goto(u, "fail") /\ UNCHANGED row
  /\ UNCHANGED <<zatca, my, bounds, history>>

(* ZATCA accepts the document, or refuses it or cannot be reached, or      *)
(* accepts it and the answer does not arrive.                              *)
Send(u) ==
  LET i == my[u].on
      d == my[u].doc IN
  /\ pc[u] = "send"
  /\ sent' = sent \cup {d}
  /\ \/ accepted' = accepted \cup {d} /\ Goto(u, "record") /\ UNCHANGED lost
     \/ accepted' = accepted \cup {d} /\ Goto(u, "fail") /\ lost' = lost \cup {i}
     \/ Goto(u, "fail") /\ UNCHANGED <<accepted, lost>>
  /\ UNCHANGED <<row, made, my, bounds, raced, viewed, crossed, shuffled>>

Record(u) ==
  LET i == my[u].on IN
  /\ pc[u] = "record"
  /\ IF row[i].deleted
     THEN Goto(u, "fail") /\ lost' = lost \cup {i} /\ UNCHANGED <<row, my>>
     ELSE /\ row' = [row EXCEPT ![i].status = "SUBMITTED", ![i].signed = my[u].doc]
          /\ Goto(u, "audit") /\ UNCHANGED <<my, lost>>
  /\ UNCHANGED <<zatca, bounds, raced, viewed, crossed, shuffled>>

(* The acceptance is logged.                                               *)
Audit(u) ==
  /\ pc[u] = "audit" /\ Return(u)
  /\ UNCHANGED <<row, zatca, bounds, history>>

RecordFailure(u) ==
  LET i == my[u].on IN
  /\ pc[u] = "fail"
  /\ row' = IF row[i].deleted THEN row ELSE [row EXCEPT ![i].status = "FAILED"]
  /\ Return(u)
  /\ UNCHANGED <<zatca, bounds, history>>

-----------------------------------------------------------------------------
(* The invoice is edited or deleted: neither looks at its ZATCA status.    *)
(* What else may forbid it, its own status, is left out.                   *)

Edit(u, i) ==
  /\ Arrive(u, "edit", i)
  /\ row' = [row EXCEPT ![i].contents = @ + 1]
  /\ UNCHANGED <<zatca, pc, my, stops, history>>

Delete(u, i) ==
  /\ Arrive(u, "delete", i)
  /\ row' = [row EXCEPT ![i].deleted = TRUE]
  /\ Crosses(i)
  /\ shuffled' = (shuffled \/ row[i].hash # 0)
  /\ UNCHANGED <<zatca, pc, my, stops, raced, lost, viewed>>

-----------------------------------------------------------------------------
(* A request to the database fails: a submission catches it from PENDING   *)
(* on, the log of its acceptance included, but for the write of the        *)
(* failure itself.                                                         *)
DatabaseFails(u) ==
  /\ pc[u] \notin {"idle", "send"} /\ stops < MaxStops
  /\ stops' = stops + 1
  /\ lost' = IF pc[u] \in {"record", "audit"} THEN lost \cup {my[u].on} ELSE lost
  /\ IF pc[u] \in {"verify", "check", "pend", "fail"} THEN Return(u) ELSE GiveUp(u)
  /\ UNCHANGED <<row, zatca, requests, others, raced, viewed, crossed, shuffled>>

(* The process stops.                                                      *)
Crash(u) ==
  /\ pc[u] # "idle" /\ stops < MaxStops
  /\ stops' = stops + 1
  /\ lost' = IF pc[u] = "record" THEN lost \cup {my[u].on} ELSE lost
  /\ Return(u)
  /\ UNCHANGED <<row, zatca, requests, others, raced, viewed, crossed, shuffled>>

Handle(u) ==
  \/ Verify(u) \/ Check(u) \/ Pend(u) \/ Load(u) \/ Count(u) \/ Generate(u)
  \/ Again(u) \/ Persist(u) \/ Keep(u) \/ Send(u) \/ Record(u)
  \/ Audit(u) \/ RecordFailure(u)

Request(u) == \E i \in Ids : Submit(u, i) \/ View(u, i) \/ Edit(u, i) \/ Delete(u, i)

Next == \E u \in Users : Request(u) \/ Handle(u) \/ DatabaseFails(u) \/ Crash(u)

Spec == Init /\ [][Next]_vars
-----------------------------------------------------------------------------
Documents == [of : Ids, contents : Nat, icv : Nat, pih : Nat]
Hashes    == DOMAIN made

TypeOK ==
  /\ row \in [Ids -> [status : Statuses, hash : Hashes \cup {0},
                      previous : Hashes \cup {0}, signed : Hashes \cup {0},
                      contents : 0 .. MaxRequests, deleted : BOOLEAN]]
  /\ made \in Seq(Documents)
  /\ accepted \subseteq sent /\ sent \subseteq Hashes
  /\ pc \in [Users -> PCs]
  /\ my \in [Users -> [kind : Kinds, on : Ids, previous : Hashes \cup {0},
       contents : 0 .. MaxRequests, icv : 0 .. NInvoices, pih : Hashes \cup {0},
       link : Hashes \cup {0}, doc : Hashes \cup {0}]]
  /\ requests \in 0 .. MaxRequests /\ others \in 0 .. MaxOthers /\ stops \in 0 .. MaxStops
  /\ \A S \in {raced, lost, viewed, crossed} : S \subseteq Ids
  /\ shuffled \in BOOLEAN

AcceptedOf(i) == {d \in accepted : made[d].of = i}

(* An invoice is reported once, and what is stored as its signed document  *)
(* is the one that was accepted, however often its submission failed       *)
(* before and was made again.  Not so when two submissions of it           *)
(* overlapped, or when an acceptance was not recorded.                     *)
AcceptedOnce ==
  \A i \in Ids \ (raced \cup lost) :
    /\ Cardinality(AcceptedOf(i)) <= 1
    /\ row[i].status = "SUBMITTED" => AcceptedOf(i) = {row[i].signed}
    /\ \A d \in AcceptedOf(i) :
         \/ row[i].status = "SUBMITTED"
         \/ \E u \in Users : pc[u] = "record" /\ my[u].doc = d

(* The chain of documents holds as far as the code protects it.            *)
(* The previous hash that is stored with an invoice is the one in its      *)
(* document, unless a predecessor was hashed or deleted while a handler    *)
(* was reading.  Once an invoice was sent with a predecessor it is sent    *)
(* with no other, however often it fails: its link is checked before each  *)
(* retry.  Not so when submissions of it overlapped, or a route that shows *)
(* its hash renewed the link.  And where every invoice is hashed once, in  *)
(* the order of creation and without overlaps, the documents are numbered  *)
(* from 1 without a gap and each has the hash of the one before it.        *)
ChainHolds ==
  /\ \A i \in Ids \ crossed :
       /\ row[i].hash # 0 => row[i].previous = made[row[i].hash].pih
       /\ i \notin raced \cup viewed =>
            Cardinality({made[d].pih : d \in {e \in sent : made[e].of = i}} \ {0}) <= 1
  /\ ~shuffled => \A i \in Ids : Hashed(i) =>
       /\ made[row[i].hash].icv = Cardinality({j \in 1 .. i : Hashed(j)})
       /\ made[row[i].hash].pih = Prior(i)

(* "Returns the next monotonic invoice counter value (ICV) for ZATCA XML"  *)
(* (hash/counter.ts): two documents that were accepted do not have one     *)
(* number.                                                                 *)
(* Not kept: section 7 of the README has the trace.                        *)
CounterIsMonotonic ==
  \A d, e \in accepted : made[d].icv = made[e].icv => d = e

(* "Invoice already submitted" (assertSubmissionReady): once an acceptance *)
(* is on record it stays there.                                            *)
(* Not kept: section 7 of the README has the trace.                        *)
AcceptanceIsFinal ==
  [][\A i \in Ids : row[i].status \in Terminal => row'[i].status = row[i].status]_vars

(* "Wait and retry if it does not complete" (assertSubmissionReady): an    *)
(* invoice is PENDING only while its submission is under way.              *)
(* Not kept: section 7 of the README has the trace.                        *)
PendingIsUnderWay ==
  \A i \in Ids : row[i].status = "PENDING" =>
    \E u \in Users : pc[u] # "idle" /\ my[u].on = i /\ my[u].kind = "submit"
==============================================================================
