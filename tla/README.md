# TLA+ verification of mvp_facturacion_dian

A FastAPI application that issues Colombian electronic invoices, credit notes
and debit notes, signs them (mock), and submits them to the DIAN (mock) from
Celery workers. This directory holds TLA+ models of its core, the TLC
configurations that check them on small instances, and TLAPS proofs.

The program runs as `uvicorn --workers 2` over PostgreSQL 16 (READ COMMITTED,
the default of SQLAlchemy and psycopg2), with Redis as the broker of
`celery --concurrency=2`. Handlers are synchronous: each request has one
thread and one database session. Everything below is about that deployment.

## Inventory

| Component | State | Operations | What must hold |
|---|---|---|---|
| State machine (`domain/state_machine.py`) | none | `transition`, event names, status sets | the table |
| Document workflow (`services/document_workflow_service.py`) | rows, `document_events`, XML files | transition, sign, queue, for three kinds of document | status moves along the table; what is signed has an XML that says what the document says; the event log agrees with the row |
| Invoice and note services | rows, lines, `pdf_path` | create, update (invoices only), PDF | edits only of drafts; totals are those of the lines; notes refer to issued invoices |
| Numbering (`services/sequence_service.py`) | `document_sequences` | `next_number` inside the creating transaction | unique, gapless numbers per (tenant, kind, prefix) |
| Workers (`workers/tasks.py`, `celery_app.py`) | broker messages, rows | three submit tasks, retry, redelivery, time limits | only submitted documents are sent; a response is recorded once; submitted documents are answered |
| Audit (`audit/service.py`) | `audit_logs` | `log`, after the handler's commit | an entry follows every mutation (unless the process dies) |
| PDF cache | `pdf_path`, PDF files | `get_or_generate_pdf` | a path leads to a file; a page that says it is signed shows what was signed |
| Line calculator | none (reads products) | rounding, sums | amounts are the nearest cent and add up; prices are the catalogue's |
| Reports, dashboard | none (reads) | `sales_report`, `get_dashboard` | figures of one moment, or each of some moment |
| Registration and login | users, tenants, tokens | `register`, `login`, `get_current_user` | one user per e-mail unless two registrations overlap; who gives the right password gets in |
| Products | rows, `is_active` | create, update, soft delete | lines are sold at the price of an active product |
| Customers | rows, `is_active` | create, update, soft delete | two calls that meet at one do not undo each other |
| Tenant settings | tenant row | `update_my_tenant` | prefixes are read by numbering; a change is audited |
| UBL, signer, DIAN adapter, storage | XML files | build, sign, submit, save | stubs, abstracted to the content they carry |

They interact through the database rows (every service), the XML and PDF files
(workflow, workers, PDF), and the broker (workflow to workers). Nothing else is
shared: there are no in-process caches between requests.

What is hard about it: `session.get` takes no lock and an UPDATE names the id
only, so whatever a handler decided from the row it read is applied to
whatever the row has become; lines and row are read by separate statements;
files and messages are written before the commit that refers to them; the
audit entry is a second transaction; the queries of one report see different
states; what must be unique is checked by a SELECT where no constraint backs
it; messages are delivered at least once.
The repository's tests exercise none of this. The hazards, each at its line,
are in `PROJECT.json`.

## Modules

| Module | Models |
|---|---|
| `DocumentStateMachine` | statuses, transition table, status sets; no state |
| `DocumentLifecycle` | abstract: a document as one atomic object |
| `DocumentWorkflow` | the HTTP handlers, step by step, and its properties |
| `AtomicNumbering` | abstract: the creation of a document takes the next number atomically |
| `Numbering` | `next_number` in its transaction |
| `NumberingProofs` | theorems about `Numbering` |
| `DocumentWorkflowProofs` | theorems about `DocumentWorkflow`, with overlaps and without |
| `DianSubmission` | the Celery tasks beside the handlers; EXTENDS `DocumentWorkflow` |
| `DianSubmissionProofs` | theorems about `DianSubmission` |
| `PdfDownload` | the PDF endpoint beside the handlers; EXTENDS `DocumentWorkflow` |
| `PdfProofs` | theorems about `PdfDownload` |
| `LineCalculator` | the amounts of a document's lines, beside the catalogue |
| `LineCalculatorProofs` | theorems about `LineCalculator` |
| `Accounts` | registration, login, customers and settings of companies |
| `AccountsProofs` | theorems about `Accounts` |
| `SalesReports` | the sales report and the dashboard beside commits; EXTENDS `Accounts` |
| `SalesReportsProofs` | theorems about `SalesReports` |
| `SumProofs` | lemmas about sums over finite sets, for the two modules above that sum up |
| `MC...` | instances for TLC |

Operators whose comment begins with "Fault:" are wrong versions of the
definition that follows them; no specification uses them. They show that a
property can fail: replacing the definition by its fault violates it.

### DocumentWorkflow

One request is served once: `req[r]` holds its program counter and everything
the handler remembers (the operation, the document, the status, header and
totals it read, the lines it read). Handlers become:

- create invoice: one step (nothing it reads can invalidate it), then audit;
- create note: read the invoice and check its status; commit; audit;
- update: read the row and check for draft; with header fields and lines,
  the autoflush of the header UPDATE, which locks the row (`lock`); read the
  lines; commit (delete the lines read, insert the new ones, write the changed
  columns); audit;
- transition: read the row and look up the table; to sign, read the lines,
  write the file; commit row and event; audit;
- queue: read the row and check; `delay`; commit the event; audit.

Early returns (4xx) end in `refused`, unhandled exceptions in `failed`. A
request may crash in any step: its transaction is rolled back, files and
messages stay. Content is abstracted to who wrote it: `header` and `totals`
are the request that last wrote those columns, `lines` the set of requests
whose lines are stored, `signature` the three as they were signed (the CUFE is
a hash of them). `xml_path`, `cufe` and `signed_at` are always set together
and are the one field `signature`.

`TaskAcceptsDocumentId` says whether Celery accepts
`<task>.delay(str(document.id))`. In the code it is FALSE: the tasks are
declared `bind=True` and take no `self` (run `DocumentWorkflow_queue_binding`).
Everything behind the queue would be unreachable, so the runs about the rest
of the queueing handler and about the workers set it to TRUE: they show what
the code does once that declaration is repaired.

### Numbering

One request is one creating transaction: it reads the tenant's prefix
(`Resolve`), locks the series' row (`SelectForUpdate`) or finds none
(`SelectNothing`) and inserts it (`InsertSequence`) or is told by the unique
index that somebody else has (`InsertDuplicate`, an unhandled 500), increments,
and commits row and document together. `holder` is both the row lock and an
uncommitted insert of the key: for other transactions either means waiting.
One tenant is modelled; series of different tenants share nothing.

### DianSubmission

`broker` holds published messages, `task[w]` what a worker has reserved and
read. A task reads the row, returns early or calls the gateway, commits over
the row it read, and is acknowledged afterwards. `Retry` is autoretry
(including an error after the commit happened), `WorkerLost` redelivery,
`TimeLimit` the limits that fail the task. `dian` is the outside world: what
was sent for each document and what was answered.

### PdfDownload

A download reads the row (`BeginDownload`); with a `pdf_path` it reads the
file (`ReadPdf`), otherwise the lines (`ReadLinesToPrint`), renders and writes
the file (`SavePdf`) and commits the path (`CommitPath`, an UPDATE of one
column, which waits for a locked row). A page is the status and content it
shows. What the first download rendered stays for ever: a draft's page is
served for the signed document too. The repository promises nothing about
that, so it is a hazard without a property; what is checked is that a page
never claims more than was true (`IssuedPagesShowSignedContent`,
`PagesShowReachedStatuses`) and that a path never dangles.

### LineCalculator

Decimals are scaled integers: amounts in cents, input values with one digit
more than the column that stores them, so that the rounding of `quantize`
(half-even) and of the columns (ties away from zero) both happen. A creation
resolves line by line and reads the product's row for each: SQLAlchemy's
identity map does not keep a product that nobody refers to any more, so two
lines of one product may have different prices when it is repriced between.
`shown` is a history variable, the prices at which products were on sale while
a request was served. A line without a product, and without a price or a rate,
is refused: `line.model_dump()` has both fields with `None`, so neither the
check for a missing price nor the default rate of 19.00 is ever reached, and
`Decimal("None")` fails. A free line need not be recomputable from its columns
(1000 at 0.005 is stored as 1000 at 0.01, with a base of 5.00): only lines of
products are (`ProductLinesRecompute`), while the quantity fits its column.

### Accounts

Each call is served once: `call[c]` says where it is and what it has read.

- register: `CheckEmail` (the SELECT by the normalised address, 409), then
  `CommitRegistration` (tenant and administrator in one transaction), then
  the audit entry;
- login: one step, a read. `first()` without ORDER BY is a choice among the
  users with the address;
- create a customer: one step, then the audit entry;
- update, delete a customer: `ReadCustomer`, then `CommitCustomer`, which
  writes the columns that changed since they were read, or `RejectNull` (a
  null in a NOT NULL column, an unhandled 500), then the audit entry;
- change the settings: `UpdateTenant` (nothing it reads decides anything),
  then the audit entry, or `FailAudit`: a change of the resolution's dates puts
  `date` objects into the JSON column of the entry, so that the request ends
  in a 500 although its change is committed.

A registration inserts a tenant and its one user together and nothing else
inserts either, so one row stands for both; rows are named after the call that
inserted them. `saw` is a history variable, the users that the SELECT could
see. Addresses are model values with a function `Normal`, since `EmailStr`
puts the domain in lower case when it registers and login looks up what was
typed. Passwords are equal when bcrypt takes them for equal.

### SalesReports

A reader is one report or one dashboard: it begins with a user of
`CurrentUsers` and executes the queries of the service one by one
(`ExecuteQuery`), each on the invoices as they are then. `seen` is a history
variable, the states of the invoices while the request was served. The
handlers that change invoices are reduced to their commits: an edit and a
status may be written over whatever is there, as `DocumentWorkflow` explains.
`Accounts` goes on beside them, with the same users and customers.

## Runs

| Run | Shows |
|---|---|
| `DocumentWorkflow_concurrent` | an invoice and a note, 5 requests of every kind, 2 at a time, 1 crash: the inductive invariant; signed documents have an XML with lines; the log agrees with the row and is connected; changes are audited; notes refer to invoices that were signed |
| `DocumentWorkflow_serial` | an invoice and both kinds of note, 6 requests, one at a time, 1 crash: the handlers implement `DocumentLifecycle`; totals are those of the lines; the file is the one the CUFE was computed from |
| `DocumentWorkflow_liveness` | 3 overlapping requests: every request that arrives is answered, although rows are locked |
| `Numbering_creations` | 3 creations, 2 prefixes, 1 change: the inductive invariant, uniqueness, no gaps, refinement of `AtomicNumbering`; everyone who waits is answered |
| `DianSubmission_races` | 2 workers, API requests meanwhile, a fault, a killed task: only submitted documents are sent, only given answers recorded |
| `DianSubmission_tasks` | 1 worker, 1 request at a time, a fault and a retry: one response per document; submitted documents with a waiting task are answered |
| `PdfDownload_downloads` | 2 downloads beside 3 requests of every kind on an invoice and both kinds of note, 1 crash: paths lead to files, pages show what was signed and statuses that were reached |
| `LineCalculator_documents` | a document of up to 2 lines, a product that is created, repriced, withdrawn; amounts with ties, sub-cent and negative prices: the inductive invariant, nearest cents, totals and tax add up, catalogue prices |
| `SalesReports_company` | two companies and three calls that register and log in, or that meet at customers and settings, with 1 death; or a report or dashboard beside 2 commits on 2 invoices: duplicates are races, right passwords are accepted, calls are audited, no customer is reactivated unasked; a report that nothing disturbs is exact, each figure of a dashboard was true once |

Three runs expect a violation; each is a disagreement between the code and what
the repository says of it (`findings` in `PROJECT.json`): an edit committed
after the signature (`edit_race`), queueing that always fails
(`queue_binding`), and a queued document that is skipped for ever (`queued`).
`docs/ROADMAP.md` plans row locks (3B) for the first of them. Other places
where the code surely does something else than was meant have no text of the repository
to contradict, or only a hazard to show for it: a status overwritten against
the table by an older decision, a draft's PDF served for ever, a default tax
rate that is never reached, capitals in the domain of an address that lock a
user out, and a change of the resolution's dates that ends in a 500 and is
never audited. They are in the models and among the hazards. Three weaker properties mark where
concurrency takes the stronger one away: a note may be committed against an
invoice cancelled since its check (it was signed once,
`NotesReferToSignedInvoices`), two workers with two tasks for one document
record two responses (`OneResponsePerDocument` is checked with one worker,
`ResponsesWereGiven` with two), and two signatures at once may leave one's
file under the other's CUFE (`CufeMatchesXml` is checked one request at a
time).

So what the code guarantees under concurrency is less than the lifecycle: the
log and the row always agree, nothing is accepted that was never submitted nor
submitted that was never signed, and what is signed has a non-empty XML. What
it guarantees one request at a time is the whole lifecycle.

Bounds. Requests are served once and there are 3 to 6 of them: the shortest
life of a document takes 4 (create, sign, submit, accept), the races need two
overlapping requests after the creation, a doubled edit three. `MaxInFlight`
bounds the overlap, `MaxCrashes`, `MaxFaults` and `MaxTimeouts` the
misfortunes. `MaxRetries` is 5 in the code; in `tasks` it is 1, so that a fault
leads to a retry but never to exhaustion (the liveness property would then
fail by design), and in `races` 0, so that exhaustion is reached. `MaxLines`
is 2 because lines only meet in sums; documents share nothing but the
catalogue, so one is enough. `Scenarios` are
the operations that clients ask for together in `SalesReports_company`: those
that share rows are in one set; calls about accounts, customers and invoices
beside each other would only interleave. Three calls are two that race and one
that is hurt by it (two registrations and a login; two updates of a customer
and a deletion). Addresses are those of the two seeded companies and one more
in two spellings. `SeededStatuses` are one status for each side of "counts as a
sale" and an invoice that is not there; with `MaxChanges` 2 a commit falls
before and after any query, and the other statuses are reached from these. One
reader is enough because readers share nothing.
`IdLeft` only keeps a
creation from starting when the instance has no id left for it. Deadlock is
not checked where a run ends with all requests served; in `LineCalculator` it
is, since the catalogue can always change.

Fairness. `Fairness` and `FairSpec` let every request that has arrived go on
(its thread runs, and PostgreSQL grants a lock that is free), `SystemFairSpec`
also lets the workers go on (they are supervised by Docker). No fairness on
arrivals, crashes, faults or refusals.

## Proofs

`DocumentWorkflowProofs` proves `WorkflowInvariant` and, from it,
`WorkflowTypeOK`, `SignedHaveXml`, `SignedHaveLines`, `LogEndsAtStatus`,
`LogIsConnected`, `NotesReferToSigned` and `ChangesAudited`, for any sets of
requests and documents, any overlap and any number of deaths. None of the properties is
inductive, because a commit writes what a request decided from an old row.
`WorkflowInv` says what remains true of that old knowledge: the status a
request has read is one that some event of the document brought about
(`StatusesWereReached`); if it is an issued one, the document was signed and
its signature is still there (`IssuedWereSigned`); a note in progress found an
issued invoice (`CreatedNotesRefer`); and a request that signs has collected
lines, then written the file, before it commits (`SigningHasXml`). Two lemmas
carry the argument: `RequestStep`, what a step does to one request, and
`DocumentStep`, that only three kinds of step append an event and what they do
to the row; each conjunct then needs three or four cases instead of one per
handler. `HistoryGrows` says that events and signatures are never taken away.
`ChangesAudited` needs a count: `EntriesAreAccounted` compares the number of
entries of all timelines with that of the requests that answer for one, and
`EntryStep` shows that a request that adds an entry did not answer for one
before. The assumptions are `WorkflowAssumption`: every id has a kind, and NULL
is no request, document or content.

Its last sections prove what holds when requests do not overlap
(`MaxInFlight = 1`, for any requests, documents and deaths):
`SerialInvariant` and, from it, `SerialLinesMatchTotals`,
`SerialCufeMatchesXml`, `SerialEditsDraftsOnly` and
`SerialHandlersImplementLifecycle`, the refinement of `DocumentLifecycle`. The
hypothesis is what the three properties need and the code does not give: the
run `edit_race` violates `EditedOnlyInDraft` with two requests at a time. What
the theorems say is therefore that nothing else is wrong: no sequence of
complete requests, deaths and files left behind breaks them. `SerialInv` says
that what a request has read is what is there (`RequestsAreCurrent`: status,
header and totals from its first read, the lines once it has collected them,
and for a signature the file it has written), that drafts carry no signature
(`DraftsAreUnsigned`), so that a request that signs or edits meets none, and
that what was signed is what the document says (`SignedContentIsKept`). Since
a request may die between writing the file and committing, the file of a draft
says nothing; the file of a signed document is that of the signature because
only drafts are signed. `ContentStep` regroups the steps by what they do to
content, and `LifecycleStep` maps them: a creation, an edit, a signature and a
transition each to the action of that name, everything else to stuttering.

`NumberingProofs` proves, for any sets of requests, kinds and prefixes:
`NumberingInvariant`, `NumberingTypeOK`, `NumbersUnique`, `NumbersGapless` and
`NumberingImplementsAtomic`. Uniqueness and gaplessness are not inductive: a
commit writes a value that was read several steps before. `NumberingInv` adds
that a transaction past the read holds the row (`HoldersHaveTheRow`), that what
it read is still what is committed (`ValueIsCurrent`), that a series without a
row has issued nothing (`MissingRowMeansZero`, for the first insert), and that
documents belong to requests that finished (`CreatorsFinished`, so that a
request issues once, for the refinement). The only assumption is
`NumberingAssumption`: default prefixes exist and NULL is neither a request nor
a prefix.

`LineCalculatorProofs` proves, for any products, prices, rates, quantities and
number of lines: `CalculatorInvariant`, `CalculatorTypes`,
`LinesRoundToNearest`, `ProductLinesFromCatalog`,
`ProductLinesRecomputable`, `TotalsAddUp` and `TaxDriftBounded`. The arithmetic is in `QuantizeIsNearest` (the
half-even quotient is the nearest multiple, for the two units the code rounds
to) and `ColumnFits`. The invariant adds to the properties that what is active
has been shown to every request that resolves lines (`ResolvingSeeCatalog`),
which makes the catalogue price of the next line one that was on sale, and
that the lines of the catalogue fit their columns, so that storing them
changes nothing. `LinesWereGiven` says of a stored line what the rounded columns
alone do not: which quantity its amounts were computed from, and which rate
(`WasTaxed`); and that the totals are the sums of the lines that are stored
(`LinesGiven`). The two theorems about totals sum that up over the lines. The
assumption is `InputAssumption`: inputs are numbers.

`SumProofs` is what the sums need. `SumFunction` of the community modules folds
a set in an order that `CHOOSE` picks, and nothing about a fold can be computed
without induction. `SetInduction` is induction over a set of numbers instead of
a predicate, from the well-foundedness of `<` on the naturals; with it
`SumExists` shows that the fold satisfies its recursive equation on every
subset, and `SumAdds`, `SumScales`, `SumIsBounded` and `WeighedSumIsBounded`
compare sums over one set term by term, which the same order for all of them
allows. `ClassesFit` says that the sizes of disjoint classes of a finite set
add up to no more than its size.

`DianSubmissionProofs` proves `SystemInvariant` and, from it, `SystemTypes`,
`DianGetsSubmitted`, `SystemLogIsConnected` and `SystemLogEndsAtStatus`, and
`ResponsesGiven`, for any number of workers, retries, losses and time limits. A worker acts on what
it loaded, whatever the document has become, so `SystemInv` adds to
`WorkflowInv` what remains true of that: a worker that has loaded a document
found it submitted, so that it once had that status, was signed and still has
its signature (`TaskIsSound`); and that a document which ever had the status
has an event of submission (`SubmittedHaveEvents`: the events that workers and
queueing add bring about no "submitted" of their own). `ResponseStep` shows
that the one step of a worker that writes a document keeps every conjunct of
`WorkflowInv`; the other steps leave the handlers alone
(`HandlersUndisturbed`). For `ResponsesGiven` an answer of the DIAN is counted
where it is (`AnswersAreGiven`): with a worker or in the history, and in
neither once it was lost, so recorded answers and those with workers are never
more than were given. `OneResponse` is proved for at most one worker and
requests that do not overlap. What is shown there is that the worker and the
one request, which do overlap, cannot lead a document back to "submitted": the
request's status may be stale, but then both it and the row's have left
"signed" (`RequestsFollow`), and no transition leads back. The assumption is
`WorkflowAssumption`.

`PdfProofs` proves `PdfInvariant` and, from it, `PdfTypes`,
`PathsLeadToFiles` and `PagesShowReached`, for any number of downloads.
`PdfInv` adds to `WorkflowInv` that a download past its first read holds a page
whose status the document had, and a file where it relies on one (`HasPage`),
and the same of stored files and paths; histories only grow, so an old page
stays true. `IssuedPagesShowSigned` is proved for changing requests that do not
overlap (`MaxInFlight = 1`) beside any downloads: a download that has read a
signed row knows its header and totals (`WillShowSigned`), and the lines it
reads later are those that were signed, because `SerialInv` keeps signed
content. The assumptions are `WorkflowAssumption` and `PdfAssumption`: NULL
is no page.

`AccountsProofs` proves `AccountsInvariant` and from it `AccountsTypes`,
`DuplicatesAreRaces`, `LoginsAreRight`, `CallsAudited` and
`ReactivationsAreAsked`, for any calls, addresses, passwords and scenarios.
`DuplicatesOverlap` is not inductive, since a registration commits what it
checked before: `CheckedWasFree` says that whoever a waiting registration saw
has another address, and `SeenExist` that users stay. For the login,
`UsersAreAsAsked` relates a stored user to what its registration was given,
and needs `RowsAreNew` (a call that has not committed has no row) and
`CallsHaveInputs` (a waiting call has an address and a password, or a customer
that exists). One lemma per operation says what it does to its call, and one
per conjunct that a step keeps it. The assumptions are `AccountsAssumption`:
normalising gives addresses, seeded companies have different ones, NULL is
none of the values.

`SalesReportsProofs` proves `SalesImplementsAccounts`, so that the theorems
about `Accounts` hold beside reports and commits, and from `SalesInvariant`
`SalesTypes`, `DashboardSales`, `QuietReports` and `DashboardCounts`, for any
invoices, contents, readers and commits. Each figure is the answer to its query
in one of the states `seen` (`ReaderInv`), and the statuses the code lists are
all but draft, rejected and cancelled; when a report has seen one state only,
all of its figures are those of that state, and totals less taxes are the base
because they are for each invoice. The counts of a dashboard fit because its
query by status comes before its count of invoices and the invoices of a tenant
only grow: `ReadingInv` says that the counts it has fit the invoices there are
now. The assumption is `SalesAssumption`: contents have numbers that add up
(`TotalsAddUp` of `LineCalculator`), NULL is no invoice, and ids of invoices are
finitely many, being UUIDs.

Model-checked only: liveness (`RequestsComplete`, `CreationsFinish` and
`SubmittedTasksAreAnswered`), because TLAPS does not reason about ENABLED and so
not about fairness. Every other property of a run that passes is a theorem.

## Not modelled

- Permissions: requests are those the authentication let in, and a handler
  sees the rows of its user's tenant only. That is a WHERE clause in each
  query, which the models have by construction and no property is about.
  Hashing and tokens are library calls.
- Endpoints and web pages (`api/`, `web/router.py`) call the services; the
  routing, templates and cookies are left out. So are the lists, which
  paginate without an order, and the best-selling products of a report.
- The UBL builder and the PDF's layout format what they are given; migrations
  and seed data run once.
- In `DocumentWorkflow` the refusal of a line is a choice (`RefuseLines`);
  `LineCalculator` says when it happens.
- Data that no property tells apart: dates, currencies, notes, addresses.
- A write of a file that is cut off half-way, and the redelivery of a message
  after Redis' visibility timeout (one hour, against tasks of two minutes).
- Whether SQLAlchemy flushes the deletes of an update's lines before its
  commit, and the database deadlock that could follow (see the hazards).

## Plan

1. Done: `DocumentStateMachine`, `DocumentWorkflow` with `DocumentLifecycle`
   and proofs, `Numbering` with `AtomicNumbering` and proofs, `DianSubmission`,
   `PdfDownload`, `LineCalculator`, `Accounts` and `SalesReports`, each with
   proofs.
2. Done: a theorem for every safety and action property of a passing run and
   for both refinements.
