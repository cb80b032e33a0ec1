# Verification of hisab.ai

hisab.ai is an accounting application (Next.js over Supabase/Postgres) that imports a company's books
from QuickBooks Online, keeps a double-entry ledger, issues invoices, runs approvals, inventory and Saudi e-invoicing
(ZATCA), and does its long work in a job queue. This directory holds TLA+ models of the parts whose
correctness depends on the order in which requests, workers, users and crashes meet, the TLC runs that
check them on small instances, and the theorems that TLAPS proves about them for every instance.

Nearly all of the code shares one shape, and the models share it too. A handler is a sequence of
single-row requests to the database through a REST client: there are few transactions, most writes
carry no condition on what was read before, and any other handler may run between two `await`s. So
**one action of a model is one request to the database**, with everything the handler computes between
that request and the next folded into it.

| file | what it is |
|---|---|
| `JobQueue.tla` | the platform job queue: rows, claim protocol, heartbeats, completion, failure |
| `JobLease.tla` | what the queue promises its users, as an abstract specification |
| `JobQueueProofs.tla` | types, fencing, finality, retry budget, records, and that the queue implements the lease |
| `ImportStep.tla` | one import job of a migration, page by page, over the queue that `JobLease` promises |
| `ImportStepProofs.tla` | types, nothing skipped, nothing made twice, completed means whole and is final, one batch after a cancel |
| `Migration.tla` | the migration session: its modules, their jobs and queue rows, the hook that goes from one to the next |
| `MigrationProofs.tla` | types, that modules are imported in order, once, and all of them, and that no migration is left behind |
| `Snapshot.tla` | the raw snapshot of a QuickBooks company: extraction, attachments, validation, retry |
| `SnapshotProofs.tla` | types, that a COMPLETE snapshot holds every record once, that what is captured is stored and within the budget, that no progress is lost and no snapshot left behind |
| `Connection.tla` | the connection to QuickBooks: authorization, rotating tokens, disconnection |
| `ConnectionProofs.tla` | types, that the current connection is found, that tokens and grants agree |
| `Workflow.tla` | approval of a document: instance, tasks, steps |
| `Ledger.tla` | journals, source documents, fiscal periods and the close of a year |
| `LedgerProofs.tla` | types, that the ledger shows the journals, that a closed year nets to zero, that what was settled is kept |
| `Invoices.tla` | sales invoices: numbers, edits, payments, posting |
| `InvoicesProofs.tla` | types, free numbers, balances that are their allocations, a ledger that shows the invoice |
| `ZatcaChain.tla` | invoices sent to the tax authority: submission, counter, chain of hashes |
| `ZatcaChainProofs.tla` | types, that an invoice is accepted once, that the chain holds |
| `MC*.tla`, `MC*.cfg` | the instances TLC checks |
| `PROJECT.json` | source lines of every definition, runs, mutants, hazards, findings, theorems |

Paths below are relative to `src/src/` unless they start with `supabase/`, `worker/` or `tests/`
(then relative to `src/`).

## 1. Inventory

### Modelled

**Platform job queue** (`lib/platform/jobs/`, table `job_queue` of `supabase/migrations/037`). State: rows
with status, attempts, `scheduled_at`, `updated_at`; `job_history`; `dead_letter_queue`. Operations:
`enqueueJob`, `claimNextJob` (recover stale rows, SELECT, guarded UPDATE), `heartbeatJob`, `updateJobProgress`,
`completeJob`, `failJob`, the loop of `processJob`. Callers: the worker process
(`worker/index.ts`), `POST /api/platform/jobs`, and producers all over the code. Hard: several claimers, leases
that time out while the worker lives, lost replies, crashes between two writes. Right when: one
lease at a time is accepted; terminal rows stay; a completion is logged once; a job is given up only after its
attempts; every queued row ends.

**Import step** (`app/api/import-export/[module]/import/route.ts`, `lib/import-export/jobs`,
`lib/import-export/processors`, `source-registry.ts`, `snapshot-source.ts`, `continuation-scheduler.ts`). State:
one `import_jobs` row, the page cursor, the native records. A queue row runs one page: read the cursor, fetch,
look for duplicates, write row by row, report, commit the cursor; the post-complete hook inserts the row
of the next page, and a timer sweeps up continuations that were lost. Users pause, resume, cancel, retry, run and
recover the job, or cancel its whole migration. Hard: crash and replay of half a page; a worker that lost its
lease; user requests between any two steps; two retry layers. Right when: no row is skipped or created
twice; `completed` means the whole source; a completed job is never reopened; a cancel takes
effect after the batch under way; the import ends.

**Migration session** (`lib/import-export/wizard/`, table `migration_wizard_sessions`, guards of
`supabase/migrations/066` and `067`). State: the session row with a card per module, an import job per module, the
active queue row of each. Operations: create (find, insert, bootstrap the first module), poll (which may close an
abandoned session), cancel, retry; and the worker's hook, which closes the session or starts the next module. Hard: the
session is written back whole from what was read earlier; the hook is a chain of four requests that a crash may cut
anywhere; a second session of the company. Right when: a session closed as completed imported every module; modules are
imported in order and once; the chain goes on without a browser; a cancelled session stays cancelled.

**QuickBooks snapshot** (`lib/import-export/quickbooks/snapshot/`, `supabase/migrations/069`). State: the snapshot row, a
checkpoint per resource, page files and attachment binaries in Storage, the attachment ledger, one queue row.
Operations: create, extract a step's worth of pages, capture attachments within a budget, summarise, validate,
finalize, retry. Hard: three stores written one after the other; steps replayed after a crash, a new token or a lost
lease; retries that reset checkpoints while a worker is at it. Right when: COMPLETE holds every record once and
was validated; what is captured is stored, counted and within the budget; progress is kept; nothing is stranded.

**QuickBooks connection** (`integrations/accounting/services/`, `supabase/migrations/048`). State: a row per
authorization with its tokens, the authorization state, and the grant at QuickBooks. Operations: connect, come back
from the authorization, disconnect, use (which refreshes a token that rotates). Hard: stored and granted tokens change
in different places; no write repeats what was read. Right when: a usable row has the newest token of a live grant; no
grant outlives the row that could revoke it; a disconnected company is not reached again; the current connection is found.

**Workflow engine** (`lib/workflow/`). State: one instance per document, its tasks, `approval_status` of the
document, its posting. Operations: submit, approve (which may advance and finally post), reject, delegate,
escalate (run at every look at the dashboard), sync of the document. Hard: none of the writes is guarded,
so overlapping requests act on what they read. Right when: approval needs every step's policy; a rejection
stands; the document shows the decision.

**Ledger, journals and the fiscal year** (`lib/accounting/`, `app/api/journal`, `supabase/migrations/032`, `052`). State:
journals and their lines, ledger entries, the posting sequence, periods, closing records. Operations: post, create,
edit, delete, reverse, adjust, clone; post a source document; close a period; close a year. Hard: the service checks
before the database function locks; a journal is edited in five requests; the year close is a dozen. Right when: a
journal is posted once and shows what was posted; nothing is posted into a closed period, or again by a later
request; a closed year nets to zero.

**Invoices and numbering** (`app/api/invoices`, `lib/db/repositories/invoice.repository.supabase.ts`,
`lib/document-numbering`, `lib/accounting/document-posting.ts`, `supabase/migrations/042`, `056`). State: invoices, lines,
payments, allocations, what the ledger has of them, the next number. Operations: create, edit, send, delete, pay,
receive a payment for several invoices, save and reset the numbering. Hard: an edit is three writes
from an old read; a payment's refresh sums in one snapshot and writes in another; the sequence is re-seeded beside
allocations. Right when: an allocated number is free; paid, balance and status are what the allocations make them;
the ledger has what the invoice shows.

**ZATCA submission and chain** (`lib/zatca/submission`, `invoice-service.ts`, `persistence.ts`, `pih-chain.ts`,
`app/api/zatca/invoices/[id]`). State: of each invoice its ZATCA status, the hash of its document, the hash stored as the
previous one and the signed document; at ZATCA, what it accepted. Operations: submit, show the hash or the XML (which
stores them), check compliance, and edits and deletions of the same rows. Hard: the counter and the predecessor are read
without a lock, requests before they are used; the status guards nothing but the first look; ZATCA's answer is recorded
after the call. Right when: an invoice is accepted once, and stored as accepted; documents are numbered in order and
each names the one before it.

### Not yet modelled

| component | state and operations | hard part | correct when |
|---|---|---|---|
| import progress writer (`jobs/progress-write-queue.ts`) | latest pending payload beside the step's own writes | read, merge, write from two sides | counters never go down; the final write is last |
| recurring transactions | templates, occurrences | a claim that does not repeat its condition | one document per occurrence |
| inventory | stock, reservations, counts, transfers | read-modify-write; half a transfer; a count posted twice | stock equals the sum of movements |
| webhooks | deliveries, retries | an error status does not throw | failed deliveries are retried |
| banking | transfers, balances | retry after half a transfer | balances match transfers |

Recurring transactions, inventory and banking are each a check followed by an unguarded write; reading them
already shows that their properties hold request by request and fail under any overlap. They come after the
components above, in which the interplay is not plain from one function.

### Not modelled, with reasons

ZATCA documents, certificates and QR codes are pure transformations and library calls. Tax, totals and currency
arithmetic are floating point over unbounded decimals, outside TLC's reach. Reporting, export and
certification only read. Permissions, tenancy and row level security are predicates over single requests.
Automation rules, master data, branding, localisation, feature flags and search keep no state that a second
actor races for. Repositories and database clients appear through what they make possible (a write whose
reply is lost, an ignored error). User interface, remaining CRUD routes, seeds and scripts are left
out. `PROJECT.json` lists every component with its files.

### Interactions

```
 browser --HTTP--> routes --enqueueJob--> job_queue <--claimNextJob-- worker loop (worker/index.ts)
    |                |                        ^                            |
    |                | pause/cancel/retry     | hook, sweep, resume, retry | runImportJobStep, runSnapshotStep
    |                v                        |                            v
    |            import_jobs <------------ import step -------> native records, page cursor
    |                ^        hook             |  reads pages of           |
    |            migration session             +--> snapshot <-- snapshot step -- QuickBooks
    |                                                              |  uses a token of
    |                                                              +--> connection
    +--HTTP--> workflow engine --onWorkflowApproved--> ledger <--posting-- invoices, payments, journals
                                                         ^-- year close, periods
```

`ImportStep` takes the queue as `JobLease` promises it, rather than as rows: that is the composition, and
`ImplementsLease` is what makes it sound. Its queue row is one job of the lease (`PENDING`, `RUNNING`, or no
active row), `owner` the worker in `holders`. `Migration` and `Snapshot` take the queue the same way: an active
row has one holder, and a lease may be lost by a worker that is still at it. In `Migration` an import job is one
step, which `ImportStep` opens up; `ImportStep` knows of the session only that it was cancelled. `Invoices` takes a
posting as one step, whose race is in `Ledger`; `ZatcaChain` an edit of an invoice, whose races are in
`Invoices`; `Snapshot` takes a refreshed token as a step that starts over, whose races are in `Connection`.

## 2. JobQueue and JobLease

A worker's `pc` names the request it issues next: `idle` (recover stale rows), `select`, `claim`, `start`,
`assert`, `beat`, `run`, `verify`, `complete`, `log`, or on failure `fail`, then `retry` or `bury`, `deadletter`.
`held` is the row it selected, `attempt` first the `attempts` value it read and then the number
that fences its writes (`Matches`: status RUNNING and the same attempt, as in `ownership.ts` and in every
UPDATE of `queue.ts`). `due` and `stale` stand for `scheduled_at <= now` and
`updated_at < now - STALE_JOB_TIMEOUT_MS`; time is the actions that set them. `claims` is a history variable.

Faults: a request may fail before it is executed, or be executed and its reply lost (`diagnosticFetch`, 30 s
timeout with retries). `claimNextJob` and `failJob` treat a failed SELECT as "no row"; a lost claim reply leaves
a RUNNING row nobody holds. A crash forgets the worker's variables and leaves the rows.

`JobLease` is the promise: a job is granted to at most one holder, ends only by its holder, and goes
from one holder to another only through PENDING. The refinement mapping gives it the status and,
as holders, the workers whose writes the guard would accept (`Owns`).

| run | instance | shows |
|---|---|---|
| `queue` | 2 rows of different priority, no handler for one type, 2 workers of which one serves both types; any 2 of crash, failed or reply-lost request and lease that expires under its worker; 2 attempts | types, one owner (`AtMostOneOwner`), one logged completion and a dead letter for FAILED (`EndsAreRecorded`), no job given up early (`NeverGivenUpEarly`), terminal rows final (`TerminalIsFinal`), refinement of `JobLease` (`ImplementsLease`), every queued row ends (`EveryJobEnds`) |

Why this is enough: contention is for one row, and of two workers one may wait with what it read while the other owns,
loses and reclaims the row (a claimer, an owner and a reclaimer all at once are three workers: the theorems, which hold
for any number, cover them); two attempts separate the first, the last and the missing one; any two troubles meet each
other and every step; and the second row is what the first must not starve, nor be served out of turn for. The theorems
remove these bounds for the properties they cover.

`PromptClaims` says that no claimer sits between its SELECT and its UPDATE for the whole
stale timeout (five minutes). The request takes at most 30 s with a few retries, so a live claimer keeps
it; a process suspended there would not. Without it, a claimer that slept through two lease expiries writes
`attempts` from its old read and can share an attempt number with the present owner: with three workers in place of two,
TLC finds two owners.

## 3. ImportStep

`pc` follows `runImportJobStep` and `handleImport`: `open`, `mark`, `load` (cursor, fetch, duplicates), `row` and
`write` per row, `progress`, `decide`, `commit`, `tally`, `check` or `verify`, `finish` or `yield`, `settle`, `complete`, `hook`;
on an error `error`, `fail`, `requeue`. `my` is what the run holds in memory. Steps that call `assertOwned` are in
`Guards`: they need the lease or the run is abandoned. Steps in `Guarded` write without asking again.

`PromptWrites` says a lease does not expire between an ownership check and the write that follows it. The
check reads the row, the write is the next request (30 s), and a lease lasts five minutes from the last heartbeat.

Abstractions. A row's outcome is created, skipped or failed on record; mapping and accounting of a row
are not modelled, and a failed row is rolled back as `import-processor.ts` does. The partition arithmetic of a
live checkpoint is the sequence of its pages. `updateImportJobProgress` reads, merges and writes: it is
one step here, and its interplay with the trace's progress queue is not modelled. Of the migration
session only its cancellation appears. The queue's back-off and dead letters are those of `JobQueue`.

| run | instance | shows |
|---|---|---|
| `import_page` | live source of 2+1 rows, 2 workers, 1 fault, 1 stall, 1 retry request | types, nothing behind the cursor skipped (`CommittedIsHandled`), `completed` is whole (`CompletedIsWhole`), no row created twice (`MadeOnce`) |
| `import_requests` | snapshot, batch guards, 2 workers, 1 crash, 3 of pause, resume, cancel, run, recover, cancelSession | one more batch after a cancelled session at most (`OneBatchAfterCancel`), completed is final (`CompletedIsFinal`) |
| `import_live` | live, 2 workers, 1 crash, 1 fault, no requests | the import ends (`ImportEnds`) |

The run of `CommittedIsHandled` has neither pause nor cancel: with a cancel and a retry it needs an exception (section 7).
What those requests do to the cursor is the theorem `NothingSkipped`, for every request as long as no job that ended is opened again.

Why this is enough: two pages give a last page and one before it, a first page of two rows gives a break in
the middle of a page, and two workers give a late one and a reclaiming one. `import_live` allows one crash: a
second can hit the state in which the sweep misses the import (section 7), after which nobody continues it.

## 4. The other models

These have safety properties only: they look for what overlap and interruption may leave behind.
The exception is `Workflow`, which also says that documents get decided.

### Migration

An actor is a user's request or a worker. `find`, `facts` (jobs and queue rows are read), `close`, `insert`, `createJob`,
`setPending`, `readStatus`, `write`, `enqueue` are the requests of create and poll and of the bootstrap they share with
the hook; `writeCancel`, `cancelJobs`, `withdraw` those of a cancel, `retryJobs`, `reread`, `writeRetry` those of a
retry; a worker's step is `start`, `gate`, `stop` or `process`, `finish`, `hook`, `reconcile`, `advance`, `complete`. What
was read travels in `my`, and the session is written from there: `WriteSession` has no guard, as
`updateQuickBooksMigrationSession` has none. Three guards are of the database: one open session of a company, one
import job per session and module, one active queue row per import job. `old` and `jobsOld` are the 15 minutes after which
a poll may close an abandoned session.

| run | instance | shows |
|---|---|---|
| `migration` | 3 modules of which the last waits for the one before it and that for the first, 2 sessions, 2 users with 2 requests of create, poll, cancel, retry, 2 workers, 1 failed import, crash or overtaken lease | `ImportedInOrder`, `NotStranded` |

Why this is enough: three modules give one that makes way, one that waits, and one whose turn comes while the hook of
the first is replayed, which two do not; two sessions give the guard on open ones, two users and two workers a stale
reader beside every writer. Every exception of `NotStranded` is one that TLC showed to be needed and section 7 lists. Two
of them are history variables: `asked`, the kinds of request made so far, and `doubled`, the sessions in which two handlers
wrote the same start of a module. `hydrateSession` (`lib/quickbooks/services/migration-session.service.ts:137`) reads the jobs
and then their queue rows; `Facts` takes both in one step, which leaves out what happens between the two reads. Left out: sessions that the browser drives (the PATCH route), the readiness of connection
and snapshot, previews, listing and the payload of a poll; pauses and the phase "claimed" (`ImportStep` has them).

### Snapshot

A worker's step is `begin`, `pick` (the first resource that is not over), `read` and `mark` its checkpoint, for the
attachments `budget` and `setBudget`, then per page `page`, `item` and `record` per attachment, `save`, at the end of a
window `window`, and `finish`; then `summary`, `write`, `remaining`, and when nothing remains `intend`, `summary` and
`write` again, `validate`, `report`, `manifest`. `giveUp` is a resource that fails, `refinalize` a finalization that fails, `find` and
`insert` the hook's continuation. A user creates (`checkpoints`, then the continuation) or retries (`list`, `reset` one
checkpoint at a time, `reopen`, continuation). A retry looks at no error of its resets and of the reopening
(`snapshot.service.ts:466`): `Overlook` is such a write that fails and is passed over. Records are positions in windows and a page file is the set of rows it
holds; so that a file written twice, or under a number already used, shows. `Validation` is
`validateSnapshot`: page numbers, windows, counts, the attachment ledger.

| run | instance | shows |
|---|---|---|
| `snapshot` | accounts (2 records), invoices in windows of 3 and 1, preferences, 2 attachments of 2 bytes with budget 0 or 3; page size 2, 2 pages a step; 2 users, 1 worker, 1 retry, 1 failed request or expired token, 1 crash | `CompleteHoldsEveryRecord`, `CapturedIsAccounted`, `ProgressKept`, `NotStranded` |
| `snapshot_overtaken` | violation: accounts (3), page size 1, 1 page a step, 2 workers of which one loses its lease | a COMPLETE snapshot lacks a record |

Why this is enough: a window that ends on a full page, one that ends on a short one and an empty page after a full one
all occur, a step ends inside a resource, a budget fits none or one of two attachments, and the one failure, crash and
retry may fall between any two requests. Left out: page files split by size, warnings, the summary of
attachments kept on the checkpoint, the text of the report, the arithmetic of the storage quota; exchange rates are a
single page as the preferences are. The company at QuickBooks is taken not to change while its snapshot is taken.

### Connection

`revoke`, `clear`, `create`, `state`, `announce` are `beginConnection` (and the first two `disconnect`); `check`,
`exchange`, `store`, `tidy` or on an error `undo`, `failRow` are `completeOAuth`; `require`, `refresh`, `storeTokens` or
`expire`, `operate` are `executeForProvider`. A grant is counted in generations: an exchange or a refresh makes the next
one, and QuickBooks may still honour an older one, or treat it as spent; that goes for giving a grant back too (`GivesBack`),
by a disconnect or by a callback that undoes itself. `latest` is what
`order by updated_at desc limit 1` finds: every accepted write moves it. The unique index on rows that are not
DISCONNECTED (`Admitted`) is the only guard.

| run | instance | shows |
|---|---|---|
| `connection` | 2 users, 3 rows, 5 requests, 1 expiry of a token or end of a grant, 1 request that fails, loses its reply or is cut | `GrantsAgree`, `CurrentIsFound` |

Why this is enough: an old row, a present one and one that is being made are three rows; two users give every pair of
handlers, and five requests a connection that is made, used, cut and made again. `GrantsAgree` leaves out rows on which handlers
overlapped (`raced`) or lost a write (`cut`) only for the agreement of tokens; that a disconnected company is not
reached again holds without exception. `CurrentIsFound` needs its exception, a row that is cleared twice: section 7.
Left out: the audit log (but a failure of it is one of `state`, `announce`, `tidy`), company details, the expiry of an
authorization state, webhooks, several providers.

### Workflow

Each handler is one HTTP request or job. `Submit`..`Start` are `submitWorkflow` and `activateStep`, `Approve`..`CancelStep`
`approveWorkflowTask`, `Advance`..`Post` `advanceWorkflow` with `onWorkflowApproved`, `SyncRead` and `SyncWrite` the sync of the bill,
then rejection, delegation and escalation. The template is the list of steps that apply to the document,
each with its mode, its number of assignees and whether it escalates; who the users are does not
matter, since the only check of a user is that the assignee approves. The document is a bill.

| run | instance | shows |
|---|---|---|
| `workflow` | requests that do not overlap; one step of each mode; 2 delegations or escalating sweeps | approval needs every step signed and a rejection stands (`DecisionsStand`); only the open step has open tasks and the bill shows the decision (`RowsAgree`); an open document is decided unless a task of an ALL step changed hands (`Decided`) |

The engine is right for requests one at a time and `workflow` says so; nothing in it keeps requests apart, and section 7
has what overlap does. `Decided` carries the exception it needs: a
DELEGATED or ESCALATED task counts against "every task approved" for ever. Left out: crashes and lost
writes inside a request (an approval that dies between its task and the advance leaves the document with
nothing to approve), template resolution, reminders, history, other document types,
and routes that set `approval_status` directly.

### Ledger

A client is one request. `postEntry`, `postChecks`, `lock`, `commit` post a journal: the checks of the service, then
`post_journal_entry` up to and after its row lock. `documentChecks`, `documentCheck`, `documentCommit` post a source
document: the service's checks, the look of `post_source_document_lines`, and the rest of it from the lock of the posting
sequence. `load`, `loadLines`, `draftChecks`, `entry`, `lines`, `mark` write a journal, new or derived from another;
`editRead` .. `editLines` and `deleteRead`, `delete` change one; `yearChecks`, `yearBalances`, the posting of the closing journal,
`closePeriod`, `record` close a year. `Fail` ends a request anywhere. Lines are a total and what they add to net
income, so that balance and the year's result are arithmetic.

| run | instance | shows |
|---|---|---|
| `ledger` | 2 clients, 3 requests of eight kinds that each may stop anywhere, 4 journals, 1 document, 2 years, amount 1 | `LedgerShowsJournals`, `ClosedYearNets`, `SettledIsKept` |

Why this is enough: two requests overlap and a third finds what they left; four journals are one that is posted, a draft,
and one for each of two requests that write one; two years give a date that is moved. `adjust` and `clone` share every step with `reverse` and
`create` and are left to larger instances. Left out: account and currency checks, exchange rates, the balance column of the chart of
accounts, the audit log, an approval in front of a post, the next period's row and the memorandum of opening balances, which no guard reads.

### Invoices

A user is one request. `upsert`, `allocate`, `insert`, `lines`, `undo` create; `existing`, `signature`, `deleteLines`,
`lines`, `patch`, `postRead`, `postWrite` edit and send; `deleteWrite` deletes; `payment`, `apply`, `commit`,
`postPayment` pay, one invoice or several; `context`, `renumber` save the numbering. `apply` is
`replace_payment_allocations` up to the snapshot in which its last statement sums the allocations, `commit` that
statement, which waits for the row of the invoice and then writes what it summed before: READ COMMITTED does not take
the sum again.

The lines of an invoice may come to 0 (`lib/invoices/validation.ts:62` takes a quantity and a price of 0), which is not
the same as an edit that sends no lines: `sent` tells the two apart. Nothing is posted for a total of 0
(`document-posting.ts:135` wants two ledger lines). The status is any text: a PUT passes `body.status` on
(`app/api/invoices/[id]/route.ts:79`), the repository stores it (`invoice.repository.supabase.ts:502`), and no constraint of the
column refuses it. `Texts` has those that a guard names; `OTHER` stands for all others, the empty text included, which
`edit-access.ts:24` takes for no status, so that `DraftEditor` lets `OTHER` pass. A null is refused by the column and is a patch
that fails. `stated` remembers the invoices that a user called PARTIAL or PAID.

| run | instance | shows |
|---|---|---|
| `invoices` | 2 users, 3 requests, 2 invoices with totals 0, 1 and 2, 2 payments of 1 or 2, next numbers 1 and 3, 1 request that is cut | `AllocatedIsFree`, `BalanceShowsAllocations`, `LedgerShowsInvoice` |

Why this is enough: an invoice paid in part, in full and beyond, edited below what was paid, deleted and numbered
again takes three requests; so do an invoice of nothing that is sent or paid, and one that a user calls PAID and that is then paid or edited.
`BalanceShowsAllocations` says that paid and balance are what the allocations make them whatever the total and the status, that an
invoice with allocations has the status they give it, whatever a user called it before, and that one without any is PARTIAL or
PAID only if a user said so. The exceptions (`raced`, `cut`, `shuffled`, `stated`) are the overlaps, cut requests and
statements of a user that section 7 describes; a
fourth request exceeds what TLC enumerates in five minutes. Left out: credit and debit notes, estimates, the goods issued with an invoice, the
workflow started by it, exchange rates and floating-point arithmetic, payment numbers (a duplicate is refused by an
index), prefixes and padding, the repair of a corrupt sequence, bills.

### ZatcaChain

A user is one request. `verify` and `check` are `verifyPihForInvoice`, `pend` the write of PENDING; `load`, `count`,
`generate`, `again`, `persist` are `processZatcaInvoice`, which the routes that show a hash or the XML run too; `keep`
(sign and store), `send`, `record`, `audit` the rest of a submission, and `fail` is `recordFailure`. A document is what its XML depends on,
and a hash is its place among all that were made, so equal documents have equal hashes and any edit makes
another. Invoices are ordered by the time of their creation, as the chain is. ZATCA refuses, accepts, or accepts
without being heard; CLEARED, REPORTED and SUBMITTED are one status, since every guard treats them alike. An invoice may be
edited or deleted whatever its ZATCA status: the repository looks at its own status only, which here is always one that permits it. `updateInvoiceZatcaFields` looks the row up and then
updates it: one step here, since only a deletion in between makes a difference, to a row that no guard reads again.

| run | instance | shows |
|---|---|---|
| `zatca` | 2 users, 4 requests of submit and at most 1 of them a show, edit or delete, 2 invoices, 1 database request that fails or crash | `AcceptedOnce`, `ChainHolds` |

Why this is enough: two invoices have a predecessor and a successor; four requests submit both, fail, and submit both
again, or show, edit or delete one in between. The exceptions are history variables, one for each thing that does break the
chain: two submissions of one invoice at once (`raced`), an acceptance that is not recorded (`lost`), a route that shows a hash
(`viewed`), a predecessor that changes under a reader (`crossed`), an invoice hashed again or out of order (`shuffled`).
Left out: credentials, the repair of an invoice's type on load, the API log, retries inside the HTTP client, invoices
without a stored UUID (each of whose documents differs), `verifyPihChain`, which reports only.

## 5. Fairness

`JobQueue`, `ImportStep`: weak fairness of every worker's next request (the loop of `worker/index.ts` polls for ever,
every request ends by its timeout), of a back-off coming due and an abandoned lease expiring (the clock), of
the sweep (an interval timer of the worker process) and of the second half of a request that was begun. Nothing is
assumed of users, faults, crashes or stalls. `Workflow`: weak fairness of each request under way, and strong
fairness of "some assignee approves": people who keep finding a task in their list act on one in the end. That
last one is an assumption on people, not on the code. The other models state no liveness: what must go on by itself
there is the safety property `NotStranded` ("nobody is at work, so a queue row must remain"), and that a remaining row is
worked off is `EveryJobEnds`.

## 6. What is proved

Every theorem holds for any number of actors, rows, jobs, modules, pages, amounts and requests, and any number of faults:
the bounds of a model appear in its guards, and no proof uses their values. Lease expiry, crashes and requests are as free in the
proofs as in the models; the assumptions named with a theorem are the only others. Nearly all invariants that the runs check
are not inductive: what makes them true is what some handler is still to do, or what it holds and how old that may be. The
strengthening below says it, and TLC checked each on the instance of its run before it was proved.

`JobQueueProofs`

* `TypeCorrect`: `TypeOK`.
* `Fencing`: `AtMostOneOwner`, assuming `PromptClaims`. A worker that lost its lease keeps its
  attempt number, and a later claim must not produce that number again. `LeaseInv` says a leased worker
  either matches its row or is *superseded*: the row's `attempts` is larger than its number, or equal while the row
  can only be claimed with a larger one. `StaleInv` says nobody is claiming a row that is stale, which
  `PromptClaims` gives and which keeps a reclaimed row from being claimed with an `attempts` value read before.
* `TerminalRowsAreFinal`: `TerminalIsFinal`, an action property, from types alone: every write carries its status guard.
* `RetryBudgetIsSpent`: `NeverGivenUpEarly`, with no timing assumption, by `CountInv`: neither `attempts` nor a number a
  worker holds exceeds the claims made so far.
* `RecordsAreTrue`: `EndsAreRecorded`, with no timing assumption. `RecordInv` adds that a worker at its log insert is the only
  one there for its row: the guarded UPDATE that completes a row also decides who logs it.
* `LeaseRefinement`: `ImplementsLease`, assuming `PromptClaims`. Each request is one step of `JobLease` or a stutter; the lemma
  per action says how it changes the set of holders, and `Fencing` that a claim is granted to nobody beside a holder.

`ImportStepProofs`, for a live or a snapshot source, batched or per-row modules

* `ImportTypeCorrect`: `TypeOK`, strengthened with `WriteOK`: a worker about to write a row is inside its page.
* `CompletedImportIsFinal`: `CompletedIsFinal`, an action property, from the status guards of the job's writes alone.
* `NothingSkipped` and `CompletedImportIsWhole`: `CommittedIsHandled` and `CompletedIsWhole`, assuming `NoReopening`:
  the users of the instance do not both cancel and retry. Section 7 shows why: a job cancelled while
  its batch runs and reopened before the batch is decided on commits a page it broke off.
  `BatchOK` relates every worker inside a batch to the rows handled so far: all pages before its own and its own up to
  the next row, and from the end of the batch on either the whole page, or a remembered pause, or a job that is still
  cancelled. `CancelInv` is what keeps the last case true until the decision: where retries are possible nobody is
  cancelled; where they are not, `cancelled` is final. Several workers may be inside batches at once and the cursor may
  move back (a stale worker's commit): the argument needs no lease and no `PromptWrites`.
* `RowsAreMadeOnce`: `MadeOnce`, assuming `PromptWrites`. `Fenced`: who writes a row owns the lease. `Looked`: the owner
  knows which rows of its page exist, since it looked after its claim, and only it has written since.
* `OneBatchIsCommitted`: `OneBatchAfterCancel`, assuming `MaxStalls = 0`, that is, that no worker sits out its lease: with one
  that does, TLC finds two batches after the cancellation. `CommitInv`: whoever is past its claim owns the row, and once
  a batch was committed late nobody is on the way to another.

`MigrationProofs`

* `MigrationTypeCorrect`: `TypeOK`.
* `ModulesAreImportedInOrder`: `ImportedInOrder`, by `OrderInv`. It is about *every* reader, however old what it read: a card that
  names a job or says completed, in the session or in anyone's hands, names a job that was made or was imported
  (`CardsTrue`); a module about to be started has every earlier one imported (`InTurn`); and a handler about to
  close a session as completed has all of them imported. A job that was made stays made and one that was imported stays
  imported (`Grows`), so none of it can go stale: the unguarded writes of the session do no harm here.
* `MigrationIsNotStranded`: `NotStranded`, the longest of the proofs, in three layers that rest on one another. TLC checked the
  last two as invariants of the run before they were proved, and it was this proof that showed that `doubled` was needed.
  - `CalmInv`, while nobody cancels or retries: what a session and every reader of it says of its cards. A module on a card has
    all earlier ones on theirs, none is cancelled, a failed card has a failed job, and at most one session is open.
  - `Owned`, while no lease is lost: a worker at work holds the row it works on.
  - `ChainInv`: `Unbroken` says of a session that an imported or queued module is linked on its card, that a linked job
    still processing has a live row, and that an imported module without a row was passed on: the session is closed, or a later module was imported or is
    queued. `Hands` says what everyone at work on the session still knows of it however old its copy is: whose write comes
    last takes no link away that others rely on, since every writer read the cards after the last module but one was
    linked. `Quiet`: nobody starts a module while somebody abandons the session.
  The theorem follows at the latest imported module: it has no row, so it passed on, and nothing later was imported.

`ConnectionProofs`

* `ConnectionTypeCorrect`: `TypeOK`.
* `CurrentRowIsFound`: `CurrentIsFound`. The index admits one current row (`OneCurrent`), and the only write to another row is
  a clear of one that was cleared before.
* `GrantsAndRowsAgree`: `GrantsAgree`. `OpenInv`: one handler at most is between making a row and storing what its code was
  exchanged for, and never on a row that has a company. `GrantInv`: where the stored token and the granted one
  differ some handler is still to make them agree, and what it is about to write rests on what row and grant still are.

`LedgerProofs`

* `LedgerTypeCorrect`: `TypeOK`.
* `LedgerIsTheJournals`: `LedgerShowsJournals`. `JournalInv`: a journal whose row is locked has no ledger entries, one
  that has them is posted (or deleted since), and a request that writes lines of a posted journal has raced.
* `ClosedYearIsEmpty`: `ClosedYearNets`. `YearInv` follows the close from its look at the balances on: the year's net income is what it
  saw plus what others added since, its journal carries the opposite of what it saw, and past the posting only what others
  added is left. This is a statement about the sum over the whole ledger.
* `WhatWasSettledIsKept`: `SettledIsKept`, an action property. `SettledInv`: a period that is open, a source not posted and a
  reversal not posted now were so when the request came in.

`InvoicesProofs`

* `InvoicesTypeCorrect`: `TypeOK`.
* `AllocatedNumberIsFree`: `AllocatedIsFree`. `NumberInv`: as long as the numbering was not written beside another request that
  numbers, the next number is above every number that shows or is held for an insert.
* `BalanceIsAllocations` and `LedgerHasTheInvoice`: `BalanceShowsAllocations` and `LedgerShowsInvoice`. `KnownInv` is what a handler
  that holds an invoice knows of it unless it was raced: that a draft is still one, what was paid, what the allocations sum to.
  Totals are any natural numbers and the status any text: in `BalanceInv` PARTIAL and PAID come from allocations or from a user (`stated`),
  and in `LedgerInv` a sent invoice is owed to the ledger only when it comes to something.
  Both say of the rows that balance and ledger agree with them, or somebody is at the step that makes them agree.

`ZatcaChainProofs`

* `ZatcaTypeCorrect`: `TypeOK`; the bodies of documents are by reference, so types say that what is referred to exists.
* `InvoiceIsAcceptedOnce`: `AcceptedOnce`. `AnswerInv`: an invoice was not accepted; or it was, and the one submission of it is about to
  record that; or it is recorded.
* `ChainIsKept`: `ChainHolds`. `LinkInv`: between its two reads of the predecessor a handler finds the same, and a submission past its
  check renews the link as it was. `NumberInv`: while invoices are hashed once and in order, each has the number after those
  before it and the hash of the last of them, and so will the one about to be hashed.

`SnapshotProofs`

* `SnapshotTypeCorrect`: `TypeOK`; a lemma per action says what it writes and what it leaves alone, and the other theorems rest on those.
* `CaptureIsAccounted`: `CapturedIsAccounted`, as long as no worker was overtaken. `Fenced`: a worker past its claim owns the row
  that is RUNNING, hence works alone. `SpendInv`: the worker at the attachments read the ledger since then, so what it counts
  against the budget is what the ledger holds, and whatever it puts on the ledger it stored before.
* `CaptureIsStored`: with no such assumption, what the ledger says is captured is in Storage.
* `CompleteIsWhole`: `CompleteHoldsEveryRecord`, as long as no worker was overtaken. `OpenInv`: a checkpoint is inserted once, before any
  is worked on. `Sound`: the page files a checkpoint counts hold exactly the records before its place, and at most one file
  beyond them holds the page at it, so a page that is written again is overwritten by itself. `AtWork`: the worker, alone by
  `Fenced`, holds the checkpoint's place as it stands. `RowTrue`: the status COMPLETE is written only on a report that passed, after every
  required resource was completed. `snapshot_overtaken` shows why the assumption is needed.
* `ProgressIsKept`: `ProgressKept`, an action property, from the same invariants and `RetryInv`: a retry that met nobody is alone
  until it is done, so what it listed to reset is still not completed when it resets it.
* `SnapshotIsNotStranded`: `NotStranded`. `EndInv`: before there are checkpoints only the creation is at work (`Starting`); a worker that will
  complete its job with nothing left to do has finalized the snapshot, since it finalizes only once every resource is over and
  nobody else writes meanwhile (`Ending`); and where an unfinished snapshot has no row, somebody is on the way to insert one (`TakenOn`).

The sums in `LedgerProofs` and `InvoicesProofs` are folds that pick their elements by `CHOOSE`, and there is no induction over finite sets that
the provers can apply: each fact about `SumFunctionOnSet` is proved for a smallest counterexample (`Smallest`, from the
well-foundedness of the numbers), up to: a sum is any element's value plus the sum over the others.

Only model-checked: all liveness (`EveryJobEnds`, `ImportEnds`, `Decided`), which the prover's temporal backend cannot
do under fairness, and all of `Workflow`. Its properties hold for one handler at a time, which its run covers; with two
`DecisionsStand` is false (section 7), so a theorem would add other templates, and no interleaving.

Two things in the models came to light in the proofs. `Migration` promised no stranded session for any number of
modules, and a session of three can be left by a continuation that was queued twice: the history variable `doubled` marks it.
In `Snapshot`, what `ReadBudget` writes stood inside the quantifier over the resources that guards it, which TLC
reads as was meant when it is a conjunct and the prover could not use; guard and effect are apart now.

## 7. Where the code and what is said of it part

One run shows such a case: `snapshot_overtaken`. A worker that lost its lease ends its step by writing page and record counts from memory
without the position they belong to (`snapshot-extractor.ts:172`); the next step then writes its page under a number already used;
the records of the overwritten page are gone, and the validation, which compares files with the counts,
finds nothing. The comment at `snapshot-model.ts:154` says that COMPLETE means the data is present.

The modules state the following properties too, and TLC finds each of them violated when it is added to a
configuration; the traces are those of the code.

| property | what is said | what the code does |
|---|---|---|
| `JobQueue!AttemptsCountClaims` | `QUICKBOOKS_MIGRATION_RETRY_ROOTCAUSE.md`: `attempts` goes up once per claim | `attempts` is written from the claimer's earlier SELECT. A claimer selects, another claims and loses the row to the stale recovery, the first claims with the old number plus one: two claims, one attempt. The row gets more runs than its budget, never fewer. |
| `ImportStep!PausedStays` | the hook's comment: a paused import gets no continuation and stays paused | The step of a page looks at the status for the last time, the user pauses, the step ends, the hook sees a paused job or has passed its look already; a row that is queued then starts the next page, whose first write sets `processing`. |
| `ImportStep!CancelledImportStops` | the confirmation dialog: a module being processed finishes its batch and stops | The cancellation withdraws the PENDING continuation of the module that is to finish: the import stays `processing` with no queue row, and the sweep passes over modules of a cancelled migration. |
| `ImportStep!SweepCatchesLostHook` | the sweep is the fallback if the hook never runs | The sweep infers from `processed_rows < total_rows` that pages remain. After a replay the two can be equal with a page to go, and a first page without a valid row leaves `processed_rows` at 0: neither is picked up. |
| `Migration!CancelSticks` | `migration-session.service.ts:936`: "Persist cancellation first so coordination and continuation gates stop immediately." | The request that created the session, or a worker's hook, has read the status and writes it back as running (`:629`) after the cancellation was persisted. The gates see a running session and the modules go on. |
| `Snapshot!RetryRestarts` | the retry endpoint gets a snapshot going again | A retry resets checkpoints while a step finalizes; its look for a queue row finds the RUNNING one of that step and inserts none; the step ends with nothing left to do, as it read the checkpoints before. The snapshot stays RUNNING until somebody retries again. |
| `Connection!CurrentIsCurrent` | `supabase/migrations/048:90`: every state but DISCONNECTED is the tenant's current lifecycle | Two disconnects, or a disconnect and a reconnect, read the same row; the first clears it, the user reconnects, the second clears the old row again and makes it the one updated last. `findCurrentConnection` then finds the DISCONNECTED row: status and use say "not connected", disconnect says "not found", and connect runs into the unique index. |
| `Connection!DisconnectedHoldsNoToken` | the comment in `disconnect`: local credential removal must succeed | A refresh is under way, the disconnect clears the row, the refresh stores its tokens and sets CONNECTED. The realm is gone, so the row cannot be used; the tokens stay. |
| `Workflow!DecisionsStand`, with two handlers | `isStepComplete`: every step's policy | Two approvals of a parallel step both find it complete (`engine.ts:278`) and advance twice, past a step nobody signed; a rejection that overlaps an approval is overwritten by APPROVED or IN_PROGRESS. |
| `Ledger!DocumentPostedOnce` | `tests/`: "source-document posting is atomic and idempotent at the database boundary" | The look for an earlier posting (`supabase/migrations/052:44`) comes before the lock. Two posts of one document with another amount or date (it was edited, or its period) both pass it, and the unique index, which includes amount and date, lets both in. |
| `Ledger!ReversedOnce` | "This journal entry has already been reversed" | Two reversals look for a posted reversal (`journal-operations.ts:143`), find none, and both insert and post one. A reversal that died before it was posted can be posted as a draft later. |
| `Invoices!PostedIsInLedger` | `tests/invoices/posted-invoice-guard.test.ts`: SENT and PARTIAL count as posted | Paying a DRAFT makes it PARTIAL or PAID, after which it cannot be sent, hence never posted. And SENT is written before the posting: when that fails or dies, saving again does not post it. |
| `Invoices!PaidIsPaid` | `supabase/migrations/056:1`: "Authoritative many-to-many payment application ledger." | A PUT with status PAID on a draft stores it (`invoice.repository.supabase.ts:502`): the invoice is PAID with no allocation, its balance the whole total, and it cannot be sent, hence never posted. |
| `ZatcaChain!AcceptanceIsFinal` | `submission/types.ts:52` and `submit.ts:102`: CLEARED, REPORTED and SUBMITTED are terminal, "Invoice already submitted" | The audit log of the acceptance is written inside the same `try` as the submission (`submit.ts:385`). When that insert fails, the `catch` records the accepted invoice as FAILED, and it may be submitted, and reported, again. So does a second submission that read the status before the first wrote PENDING, and fails after the first was accepted. |
| `ZatcaChain!CounterIsMonotonic` | `hash/counter.ts:4`: "Returns the next monotonic invoice counter value (ICV)" | The counter is the number of other invoices with a hash. An invoice is refused with counter 1, the next one is accepted with 2, and the first, submitted again, is accepted with 2 as well; or an invoice with a hash is deleted, and the number it had is given again. |
| `ZatcaChain!PendingIsUnderWay` | `submit.ts:99`: "Invoice submission is already in progress. Wait and retry if it does not complete." | A submission that dies, or whose write of FAILED fails, leaves the invoice PENDING, and no retry is let in again. |

Further behaviour that TLC showed while the models were made, and that the exceptions in the properties name:

* Import: `CommittedIsHandled` with both cancel and retry. The loop breaks on a cancel (`import-processor.ts:154`), a retry makes the job
  `pending` again before the step reads the status, and the step commits the page it left half done. Resume and retry write the
  status before an insert that the active row may refuse; the job then waits for another request. A dead letter is
  written also by a worker that lost its lease.
* Migration: with three modules or more, a worker may crash at the end of the hook that started the second; its row is claimed
  again, and the replayed hook starts the third at the same time as the hook of the second does. Of the two writes of the session the
  later one was computed from older cards: it takes a later module's job off its card, so that module's hook finds no
  session that names its job and the chain stops, or it writes running over a session that was completed meanwhile (`doubled`).
* Migration, otherwise: a stale write can reopen a session that was completed, until a poll closes it; a cancel whose last request
  comes after a retry withdraws the rows the retry inserted; a retry while the last step's row is RUNNING inserts
  none, and the module waits; a session whose first module failed stays in progress until somebody polls 15
  minutes later; a session that was closed as abandoned with no failed job cannot be retried.
* Snapshot: a retry's stale reset can reopen a resource that was completed; a snapshot whose creation died before its
  checkpoints is finalized with a failed report; a manifest that fails takes COMPLETE back to RUNNING; a
  binary stored before a crash and its ledger entry can stay beyond the budget on replay; attachments
  that failed on a page that was passed are not tried again.
* Connection: of two overlapping refreshes the one that is refused marks a healthy connection TOKEN_EXPIRED, or an older token
  is stored over the newer; in production a PENDING row, whose environment is null and counts as sandbox, can always be replaced.
* Invoices: two payments whose transactions overlap leave paid and balance showing one of them; both may overpay; an edit that
  is cut leaves lines that do not add up to the total, which then cannot be posted; numbering that is saved or reset beside a
  creation hands out a number twice, or again after the newest invoice was deleted, and the insert is refused
  once; who may edit drafts only can change an invoice that is sent in between, or give it an empty status, which
  passes for none (`edit-access.ts:24`). An invoice that a user called PARTIAL counts as posted and is not, one called PAID has its whole balance
  due (`stated`), until a payment writes both. An invoice of 0 is SENT without a posting and is not PAID.
* ZATCA: the routes that show a hash or the XML store a new one, and a new link, over those of an invoice that was accepted;
  when two submissions failed, the retry of the first gives it another hash, and the second, whose stored link names the old
  one, is refused as PIH_CHAIN_BROKEN until such a route renews the link; an invoice that is submitted before an older one
  starts a chain, and the older one starts another; an answer that is lost is recorded as a failure, and the retry
  reports the invoice again.

Read in code that is not modelled: a webhook answered with an error status counts as delivered.

## 8. Plan

Models still to come, small and check-then-write each: `ProgressWrites` beside `ImportStep`, `Recurring`, `Inventory`. They take the place of runs whose questions a theorem answers by then.

Theorems, in order:

1. `Workflow` with one handler: types, `RowsAgree`, `DecisionsStand`.
2. `Snapshot`'s queue row implements `JobLease` as long as no worker was overtaken: `Fenced` is most of what that takes.
