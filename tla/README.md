# Vrindavan: TLA+ models, checks and proofs

Vrindavan is a multi-tenant inventory ERP: a NestJS backend over PostgreSQL (one
schema per tenant), SQL functions and triggers that keep the stock balances, and a
Flutter client. This directory models the parts where several requests meet on the
same rows (stock posting, the fulfilment of orders, payments of invoices, holds on
stock) and the parts around them: how a company comes to its schema, the way of a
request through the backend, users and sessions, master data and products,
quotations, what stock is worth, and what the reports say.

## 1. Inventory

Every request runs on one database connection, borrowed from the pool by
`TenantConnectionInterceptor` and given back when the handler has settled.
Repositories run their operations in `transaction().execute(...)` on it. Nothing sets
an isolation level, so everything is READ COMMITTED: a plain SELECT sees what was
committed when it starts plus the transaction's own writes, an UPDATE, DELETE or
SELECT ... FOR UPDATE waits for the row's writer and then looks at the newest
version. Inside the backend the services are stateless: all shared state is in
PostgreSQL, and all concurrency is between connections.

| Component | State | Operations | What is hard | What makes it correct |
|---|---|---|---|---|
| Stock posting core (`stock-posting.helper.ts`, `002_stock_functions.sql`, `003_inventory.sql`) | `stock_ledger`, `stock_balances` | `postStockMovement`, `getLiveBalance`, trigger `trg_stock_ledger_to_balance` | guard without lock; row lock in the trigger; first insert of a row; deadlocks | balance = sum of ledger; never negative; all movements of a document or none |
| Inventory documents (transfer, adjustment, verification, damage, return), opening stock | header with status, lines | create, approve/complete, delete; post | approve twice, delete against approve, stale counts | a document is posted once; drafts move nothing |
| Purchase orders + goods receipts, sales orders + challans | order status, received/delivered quantity per order line, note status | create, approve, cancel, delete; complete/deliver | two notes of one order, cancel against complete, opposite lock orders | order status, order lines and stock tell one story |
| Purchase and sales returns | header, lines | create, approve, delete | as inventory documents; the cost lookup of a sales return | as inventory documents |
| Invoices + payments | invoice status and paid amount, allocations, payment number | create, approve, delete; `createWithAllocations` | concurrent payments, failing second allocation, rounding | paid = allocations ≤ total; status agrees; numbers without gaps |
| Reserved and blocked stock | hold rows, `reserved_quantity`, `blocked_quantity` | create, release, expire, two triggers | holds before stock, several racks, release against expiry | columns = sums of active holds |
| Document numbering | `document_number_sequences`, the current financial year | `fn_next_document_number` | rollback of a transaction that has taken a number | unique, no gaps |
| Quotations | status | create, send, accept, reject, convert, delete | status read without a lock and written by id | one order per converted quotation |
| Moving-average cost | `average_cost`, `unit_cost` of ledger rows | the trigger, the cost lookups of the documents | rounding; costs that are stale when they are written | within the prices paid; stock value = value of the ledger |
| Authentication (+ the client's token refresh) | refresh tokens, one-time codes, the token on the device | login, refresh, logout, forgot, reset, change password | look, mark, issue are three statements; an answer that is lost | used once; a session survives its own overlapping refreshes, not a new password |
| Access control | users, roles, `user_roles`, `role_permissions` | CRUD of users and roles, set roles, set permissions | count, then write; delete, then insert | an admin is left; users are what the answers said |
| Signup, tenant provisioning, migration runner | `public.tenants`, schemas, `schema_migrations` | signup, clone, seed, migrate, first user | failure between any two steps, runner and sign-up on one schema | an active tenant is complete; each file once |
| Tenant context and connection | pool, `search_path`, `app.current_user_id` | middleware, guards, interceptor | several sources name a company; what stays on a connection; exhaustion | a request sees its company only; it ends |
| HTTP interface | none | about 230 routes with their permissions, services that translate errors, the exception filter | some fifty services each list the errors they know | mistakes of clients are told as such, success only of success |
| Products and master data | rows, image files | CRUD, images, lookup of barcodes | rows and files, two statements for one change, three tables read one after the other | constraints are told; images have files; scans find products |
| Reports and dashboard | - | queries and views | the same money by header, by line, by status | the reports agree |
| Audit log | `audit_logs` | a trigger | it names a user, who must exist | - |
| Frontend, deployment | - | screens, containers | - | - |

Components meet in these places. Documents, receipts, challans and returns all call
`postStockMovement` in their own transaction; the trigger runs inside it. Payments
update invoices, receipts and challans update orders, in the same transaction as
their own header. Every document takes its number from the counter row inside the
transaction that creates it. Reports read the committed rows of all. The other parts
share no table that both write: tenants are made before anybody can send them
requests, users and sessions, the catalogue and quotations keep to their tables.

`PROJECT.json` lists the hazards at their lines; the properties below are aimed at
them.

## 2. Modules

    StockLedger          what the stock core promises: atomic approvals
      ^ implemented by (SL, ApprovalIsAtomic)
    StockPosting         the statements of the approving transactions
      ^ EXTENDS              StockDocuments   what each kind of document posts
    MCStockPosting  ------------^
    StockPostingProofs   EXTENDS StockPosting: theorems about balances and documents,
                         and the refinement of StockLedger
    OrderFulfilment      orders and notes         <- MCOrderFulfilment, OrderFulfilmentProofs
    InvoicePayment       invoices and payments
      ^ EXTENDS
    InvoiceReports       reports, dashboard       <- MCInvoicePayment, InvoicePaymentProofs
    StockHolds           reservations and blocks  <- MCStockHolds, StockHoldsProofs
    Sums                 lemmas about sums over finite sets, which the proof modules
                         of these, TenantProofs and ApplicationProofs EXTEND

    Permissions          what the seed and the migrations grant to each role
      ^ EXTENDS
    Routes               every route, and the two guards
      ^ EXTENDS                        ^ EXTENDS
    TenantLifecycle                 Requests ---> Services   answers of services and filter
    (sign-up, runner, pool)                          ^ EXTENDS
                                       Identity, Catalogue, Quotations
    StockCosts           average cost and stock value
    Application          instances of TenantLifecycle, Requests, Identity, Catalogue,
                         Quotations and StockCosts   <- MCApplication
    TenantProofs         theorems about the tenants of Application
    UserProofs           theorems about its users, roles, tokens and sessions
    ApplicationProofs    theorems about its requests, catalogue, quotations and costs; EXTENDS
                         the two before it for the types of all parts

`Application` lets one part work in each behaviour (`part`) and leaves the others
where they begin. Interleaving them would multiply states without adding a behaviour,
since no two of them write a table in common; the constants of one part are what another one
computes (the grants of `Requests` are those after the seed and all migrations).

### How code becomes actions

The four document modules treat the database in the same way:

- A *session* is a connection that serves a request; `pc[s] = "idle"` means it is
  free. A request of a client is a `Begin...` action of an idle session. Clients may
  send any request at any time and more than once (a form submitted twice, a retry).
- Each read and each row write of a transaction is an action of its own. Two
  statements are one action only where nobody can tell: the last UPDATE and the
  COMMIT (whoever wants the row waits for the commit anyway), and in
  `InvoicePayment` the FOR UPDATE, INSERT and UPDATE of one invoice.
- A row that can be locked has a newest version and a committed one, and the
  session that has written it (`lock`, `holder`). `Seen` is what a plain SELECT
  returns, `Free` whether an UPDATE or FOR UPDATE can go on.
- `Rollback` undoes all a session has written. It ends every error path of the code,
  and `Fail` ends a transaction at any point (statement timeout, lost connection,
  crash of the backend: PostgreSQL treats them alike). `DeadlockVictim` is
  PostgreSQL's deadlock detector.
- A single statement in autocommit (`delete`, a hold's insert) is one action, unless
  it locks several rows.
- Requests that end at their first status check without a change are left out: they
  are stutters. So are prices, taxes, names, remarks and the audit trigger, which
  nothing reads back. Stored quantities are integers.

### StockPosting (with StockDocuments)

| Code | Model |
|---|---|
| header SELECT and status check of `approve`/`complete`/`deliver`; opening stock's look for an earlier posting | `Begin` |
| line SELECT | `ReadLines` (empty if the draft has been deleted: CASCADE) |
| difference of an adjustment or verification to the live balance | `ReadCount`, kept in `diff` |
| live cost of a sales return, else `productRepository.findById` | `ReadCost`; without a balance row the session is `hung` |
| the outbound guard of `postStockMovement` | `GuardPasses`, `GuardFails` |
| ledger INSERT + trigger | `UpdateBalance` / `CheckViolation` (row found), `RowMissing` then `InsertBalance` / `InsertFails` (not found) |
| header UPDATE, COMMIT | `Finish`, `HeaderGone` |

`ledger` and `rows` are the committed and uncommitted rows per dimension, in commit
order; `total` is a history field, the running sum. The kinds of documents differ
only in what they post per line, so the module takes `Moves` as a constant and
`StockDocuments` says what each kind's `Moves` are.

### OrderFulfilment

`latest`, `committed` and `holder` range over all rows: orders (a status), notes (a
status), order lines (a quantity), balances (a quantity). `ReceiveGoods` and
`IssueGoods` are one movement each; their inside is StockPosting's. `CountLine` adds
to the order line, `CompleteNote` sets the note, `ReadProgress` reads the order's
lines and decides, `UpdateOrder` writes where the status still allows it.
Purchase and sales sides run the same actions. `Workloads` says which orders and notes
there are (`Begin(w)` starts the others as deleted). `met` is a history variable: the
orders a note judged (`ReadProgress`) while another note had judged them, but not yet
committed. That is the only case in which the completion of an order may be lost: a note
that still counts while another one judges comes to judge the order itself, and sees the
other's lines then unless the two verdicts overlap. Nothing in the code keeps the lines of a note to the lines of its order
(the foreign keys at `004_purchase.sql:68` and `005_sales.sql:99` name no order), nor
their units to those of the order lines, so two clauses have a condition: `OwnLines(o)`,
that no note of another order counts on the lines of `o`, and `Comparable`, that the
notes of orders are in the units of their order lines. Both hold in the run.

### InvoicePayment

`status`, `paid`, `counter` are newest versions, `saved` the committed ones. Money is
in tenths of a cent: `Stored` is the rounding of a `numeric(18,2)` column, so that a
client's half cent and the stored cent are told apart. `TakeNumber` locks the counter
row first; `Allocate` decides the status before the rounding, as the code does.
Supplier and customer payments are line by line the same code, so one module stands
for both. `Asked` is what the DTO lets a client ask for (`@Min(0.01)`): at least a cent, so
no allocation is rounded to nothing.

### StockHolds

A hold is a row and its trigger. `CreateHold`, `EndHold` write the hold rows,
`FireTrigger` takes the balance rows the trigger's UPDATE finds *now*, `CountRow`
writes them one by one in any order, as PostgreSQL may. `ReleaseExpired` is
`fn_release_expired_reservations`; no code in the repository calls it ("called on a
schedule"), so it may run at any time with any set of active reservations.
`BeginMovements` and `PostMovement` are the movements of stock documents.

### InvoiceReports

Each operator is one query: `Register`, `ByProduct`, `ByParty`, `GstSummary`,
`TodayFigures`, `MonthlyGraph`, `OutstandingView`. They are evaluated in every state of
`InvoicePayment`, over the committed rows, so they see invoices between any two
approvals and payments. An invoice bears any date the request named (`Day`), also one to
come, and reports are asked on any day and for any period (`Date`, `Days`): the graph then
has in its last month what is dated later in this month, which the register until today
has not, and `ReportsAgree` says so. `ComputedTotal` and `LineTotal` are the two computations of
`createWithLines` with the rounding of the columns; an assumption ties them to the
totals that payments are checked against.

### TenantLifecycle (with Permissions and Routes)

| Code | Model |
|---|---|
| `TenantProvisioningService.signup` | `Arrive`, `CheckCode`, `Register`, `Dump`, `Clone` (three stages of what psql has replayed), `SeedSchema`, the runner's actions, `LogClone`, `Connect`, `InsertUser` / `ForeignUser`, `AssignRole`, `IssueTokens`, `Activate`, `LogActivation` |
| `MigrationRunnerService` | `ListTargetSchemas`, `EnsureMigrationsTable`, `BaselineIfNeeded`, `RecordBaseline`, `NextMigration`, `ApplyMigration`, `MigrateDone` and the actions in which each of them fails |
| the pool and `TenantConnectionInterceptor` | `conn`, `host` (what a process holds), `stamp` (whose `app.current_user_id` a connection carries); `Intercept`, `Respond` |
| error, crash, restart; the catch clause of `signup` | `Fail` at any point, `Throw`, `LogFailure` |

`Permissions` has the seed and each migration as a function from the contents of
`permissions`, `roles` and `role_permissions` to their new contents; `AccessAfter(ran)`
is what a schema grants after the scripts that have run there, in their order.
`Routes` lists every controller with the permission of every route.

### Requests (with Routes and Services)

`Use` is the tenant middleware, `Authenticate` and `Authorize` the two global guards,
`Handle` the handler: it ends with a result that it or its repository can raise (`Raises`),
and the answer is what `Services` makes of it, first the rules of the service and then
`Filter`. `Raises` has what constraints and stored functions raise, and what PostgreSQL
raises of values that no DTO or pipe refuses: ids in the path are not checked to be uuids,
amounts have no maximum, texts and days are checked less closely than the columns are.

### Identity

One action per statement of `AuthService`, `AccessService` and their repositories:
a refresh is `FindToken`, `RevokeToken`, `FindUser`, `IssueTokens`; roles are replaced by
`DeleteRoles` (which sees the rows committed when it runs, `snapshot`) and `InsertRoles`.
`device` is the refresh token stored by the API client; `deviceRefresh` is the client's
renewal after a 401, which reads it, calls the server, and stores the answer or clears
the session. An answer may be lost (`Lost`). `before[r]` holds the requests that were
answered before `r` began: properties about requests one after the other use it.

### Catalogue

`Repo` describes every table: its unique columns, its references with their ON DELETE,
and whether an update always sets `updated_at`. `Create`, `Update`, `Remove` are the same
five-operation repository for all of them, with the constraint errors of PostgreSQL;
`GetOwned` is the look-up in front of the parts of a product; images add `Upload`,
`UnsetPrimaryForProduct`, `SetPrimary`, `RemoveImage` and `Unlink` (the file);
`findByBarcode` is `FindDirect`, `FindByUnit`, `FindAdditional`, `GetById`.

### Quotations

`Check` is the SELECT and the status check, `TransitionStatus` and
`ConvertToSalesOrder` write. A conversion's writes are one step because the counter row,
taken first, keeps other conversions out until the commit.

### StockCosts

`ReadLiveBalance` is a document's cost look-up, `Post` its movements with the trigger's
average. Costs are integers of the last digit of `numeric(18,4)`, `Rounded` is how
PostgreSQL stores a quotient.

## 3. Runs

All runs have `CHECK_DEADLOCK FALSE`: clients need not send anything, and documents
are finite, so the system may rightly stop. Liveness properties say what must not
stop.

| Run | Shows |
|---|---|
| `StockPosting` | the seven properties below on a transfer a→b, a verification of b then a, an opening stock of b and a sales return to a, approved by two sessions |
| `StockPostedTwice` (violation) | two approvals of one draft post it twice |
| `CountInsufficient` (violation) | an adjustment fails as insufficient, which a comment says it never does |
| `SalesReturnHangs` (violation) | the approval of a sales return waits for its own connection |
| `OrderFulfilment` | two receipts of one order in opposite lock orders; a receipt and a challan of what it received; two receipts that complete an order together; with the orders approved, cancelled and deleted meanwhile |
| `OrderCancel` (violation) | a cancel overwrites partially_received or completed |
| `InvoicePayment` | four payments over three invoices: contention, two allocations to one invoice, half cents, a refused second allocation; and the reports in every state |
| `PaymentRounding` (violation) | stored allocations exceed the stored payment |
| `StockHolds` | two reservations and a block over two racks, one without a balance row, while stock moves |
| `HoldWithoutStock` (violation) | a reservation made before the balance row holds nothing |
| `Application` | the six parts of `Application`: sign-ups with a migration run and a foreign request over two connections; every route with every role; pairs and triples of requests on users, sessions, the catalogue; a quotation; three or four documents that price stock |
| `SignupCarriesUser` (violation) | a sign-up works on a connection that carries the user of an earlier request |

Properties of the passing runs, beyond a type invariant each:

- **StockPosting.** `BalanceIsLedgerSum`, `NeverNegative`,
  `OnlyPostedDocumentsHaveMovements`, `MovementsPostTogether`, and `ApprovalIsAtomic`:
  under the mapping `onHand <- committed[x].qty` the interleaved statements implement
  `StockLedger`, in which an approval is one append-only step. `StockLedger` lets a
  posted document be posted again, because the code does.
- **OrderFulfilment.** `StatusAgreesWithLines` (a status says no more than the lines,
  and no less unless two notes met), `CompletionsAreCounted`, `StockAgreesWithOrders`.
- **InvoicePayment.** `PaidIsSumOfAllocations`, `NeverOverpaid`,
  `StatusAgreesWithPayments`, `NumbersHaveNoGaps`, `ReportsAgree`.
- **StockHolds.** `NoPhantomHold`, `HoldsAreCounted`.
- **Application.** Tenants: `ActiveTenantIsComplete`, `RecordedIsWhatRan`,
  `RolesKeepTheirLimits`, `ProcessesEnd`. Requests: `ServedByItsCompany`. Users:
  `AnAdminRemains`, `UsersAreAsTold`, `NothingIsUsedTwice`, `OldSessionsEnd`,
  `ClientStaysLoggedIn`. Catalogue: `ImagesHaveFiles`, `PrimaryImageIsKept`, the action
  property `ScanFindsProduct`. Requests and catalogue: `ErrorsAreTold`. Quotations:
  `OneOrderPerQuotation`. Costs: `StockIsWorthWhatWasPaid`.
- **The four document runs.** `RequestsFinish`: what a session has begun ends.

Several of these hold only for requests that do not overlap, because the code takes no
locks there; the property then says so itself (`unless two requests overlap`), so that
the run shows exactly how far the code's promise goes. The exceptions do not hide
everything: each property has a mutant that breaks it among requests that do not
overlap, or among those that do where it says so.

Each property has a mutant in `PROJECT.json`, a plausible bug in a definition of the
model that TLC then finds. The mutants are the `Name_Variant` operators in front of
the definitions they change.

### Bounds, and why they are enough

- Two sessions. Every race listed as a hazard is between two transactions; a third one
  would wait in the same queues.
- Two or three dimensions, quantities of one or two: enough for opposite lock orders,
  for a row that does not exist yet, for stock that runs out between a check and a
  write.
- Documents, orders, notes and invoices are created once. Approvals may be sent again
  and again; since the first one that commits takes the document out of `draft`, a
  document is posted at most as often as there are sessions, here twice.
- A payment request is not repeated after it was committed (`BeginPayment` asks for
  `number = 0`): a repeated one is another payment, as p1 and p2 are.
- `MaxQuantity` bounds the balance in `StockHolds` (a refused movement, where the
  program would go on); movements may be posted any number of times below it.
- `OrderFulfilment` has three workloads instead of all orders at once: two receipts and a
  challan of two orders need only two sessions, and the pairs are the cases in which
  orders, lines or balances are shared.
- `Application`: users, sessions and the catalogue take one request, any two of a
  group, and the triples and quadruples in which a third request makes a case (a
  token's child, a role deleted between the two writes or made again after it, a new
  user whom another request has made Admin meanwhile, a second image). Two
  connections, two companies and two racing sign-ups are enough for a pool that runs
  out, for the loser of a code, and for a connection handed from one company to another;
  two sign-ups on hosts of tenants are as many as there are connections. Three refreshes of
  one device: two that overlap and one that has read the token they leave.
  One quotation with every operation, the conversion twice; quotations do not meet.
- Reports are asked on three days of three months and for all periods between them; on one
  of the days an invoice is dated later in the month, on one before it and on one on it.
- `StockCosts`: one product (products do not meet), two warehouses, each document posted
  once, three documents at a time, or four when two receipts with different prices are
  among them.
- The `StockPosting` run returns goods to a dimension that has a balance row;
  without one the request never ends, which is what `SalesReturnHangs` shows.

### Fairness

`FairSpec` adds strong fairness of `Step(s)` for each session: Node serves the
requests it has taken, PostgreSQL runs the statements it has been sent, grants a row
lock to its waiters in the order of their arrival and breaks deadlocks after
`deadlock_timeout`. Strong rather than weak, because a waiter's step is disabled
whenever another one has the row; the queue is what keeps it from being overtaken for
ever. Nothing is assumed of clients (`Begin...`, `Create`, `Delete`, holds) and no
failure has to happen (`Fail` is outside `Step`), so no property rests on a timeout
coming to the rescue. The `Application` run assumes the same of the processes of
`TenantLifecycle`, where the waiters queue for a connection: pg's pool hands it to who
has waited longest.

## 4. Findings

1. Approving a document twice at the same time posts it twice: the status check is in
   the transaction but takes no lock (`StockPostedTwice`). The opening stock of a
   product is checked in the same way.
2. A downward adjustment or verification can fail with "insufficient stock"
   (`CountInsufficient`).
3. Approving a sales return of a product that has no balance row in the warehouse
   never answers and keeps its locks and its connection (`SalesReturnHangs`). That
   kysely lends the connection of `connection().execute` to one caller at a time is
   not in the repository; it is modelled from its use.
4. An order can be cancelled after goods were received (`OrderCancel`).
5. The stored allocations of a payment can exceed its stored amount
   (`PaymentRounding`).
6. A reservation made before its product has a balance row reserves nothing
   (`HoldWithoutStock`).
7. A sign-up sets only the `search_path` of its connection; the user an earlier request
   left there is what the audit trigger names (`SignupCarriesUser`), and the first user of
   the company is refused with 409.

Things the models allow that no text of the repository contradicts, so no run claims
them. Documents: two receipts that complete an order together may both leave it
partially_received (`StatusAgreesWithLines` names the case); a second approval of an invoice or an order overwrites a later
status; an adjustment can miss its target; a hold counts once in every rack; goods
can be received for a draft or cancelled order; two issues may both pass the guard,
and the loser's error is the raw CHECK violation; adjustments and verifications answer
insufficient stock with 500 (`Untold` in `Requests`); goods received free into stock that
has a cost leave its average unchanged; a transfer carries a stale cost when another
document changes the average between its read and its posting.

Users: a request that creates a user replaces the roles that another one has given the
new user meanwhile, the Admin role of the last Admin among them (`AnAdminRemains` names
the case), or is refused with 409 by the key of `user_roles` when it meets the same role,
although the user exists; an admin's password reset leaves the user's sessions alive; an older one-time
code works again once a newer one was used; overlapping changes of the roles of one
user, or of the permissions of one role, can leave the union of both; an empty PATCH of
a tax, GST rate or other table without `updated_at` is a statement PostgreSQL refuses,
and answers 500.

Tenants: a sign-up that fails keeps its company code, so the next attempt is told 409; a
schema without tables cannot be migrated from scratch, since the genesis files name
`tenant_template`; a migration run that reaches a new schema before its seed makes the
seed grant the audit log to Manager and Viewer too (`RolesKeepTheirLimits`); as many sign-ups from
the hosts of tenants as the pool has connections stop everything: each holds one connection
while it waits for another one, and the pool has no timeout (kysely.service.ts:15-18;
`ProcessesEnd` names the case, `Starved`); a sign-up may be told 500 although its tenant is
active, when the entry in the provisioning log fails after the UPDATE.

Requests: what only PostgreSQL refuses is answered with 500, since the filter lists no
SQLSTATE for it (`DataErrors`; `ErrorsAreTold` names them): an id in the path that is not a
uuid, an amount, sum or page out of range, a text longer than its column or with a zero
byte, a date like 31 February, an UPDATE that sets nothing.

Client: an answer that is lost logs the device out, and so does the second of two refreshes
that have sent the same token (`ClientStaysLoggedIn` names both).

## 5. Proofs

The proof modules state safety properties for every value of the constants: any number
of sessions, documents, orders, invoices, holds, lines, rows and quantities, of sign-ups,
companies, users, roles, requests, images, quotations and documents that price stock, under
any interleaving. What
they assume is the assumption that each module names (`PostingAssumption`,
`FulfilmentAssumption`, `PaymentAssumption`, `HoldAssumption`, and `ApplicationAssumption`,
the conjunction of those of its parts). The assumptions of the documents are types of the
constants, foreign keys, that rows of different tables are different, that tables are
finite. Those of `Application` add what the code provides at the beginning or by
construction: sign-ups, migration runs and requests are different processes and there are
finitely many company codes; an uploaded image gets an identifier nobody has used
(`randomUUID`, `product-images.controller.ts:55`); the product of a unit, batch, barcode or
image is in the path of its routes and no update changes it, and the rows that are there at the
beginning keep the constraints of these tables; the first user of a company has the Admin
role; the staff of a company is a finite set, and what its roles grant at the beginning are
permissions; a request on a role names one role (it is in the path); rows and bodies of requests
have columns of their table; a document that is not a count
moves something (`@Min(0.001)` of the DTOs, `opening-stock.service.ts:16`). TLC evaluates each of
them in the run of that module.

| Module | Theorem | States `Spec => []...` |
|---|---|---|
| `StockPostingProofs` | `Inductive` | `IInv`, on which the others rest |
| | `TypeCorrect` | `TypeOK` |
| | `LedgerSum` | `BalanceIsLedgerSum` |
| | `StockNeverNegative` | `NeverNegative` |
| | `DraftsMoveNothing` | `OnlyPostedDocumentsHaveMovements` |
| | `AtomicityInvariant` | `AInv` |
| | `PostedTogether` | `MovementsPostTogether` |
| | `PostingRefinesLedger` | `Spec => ApprovalIsAtomic`, that is `SL!Spec` |
| `OrderFulfilmentProofs` | `FulfilmentInvariant` | `IInv /\ GapInv` |
| | `FulfilmentTypes` | `TypeOK` |
| | `OrdersAgreeWithLines` | `StatusAgreesWithLines` |
| | `NotesAreCounted` | `CompletionsAreCounted` |
| | `StockAndOrdersAgree` | `StockAgreesWithOrders` |
| `InvoicePaymentProofs` | `PaymentInvariant` | `IInv` |
| | `PaymentTypes` | `TypeOK` |
| | `PaidIsAllocated` | `PaidIsSumOfAllocations` |
| | `InvoicesAreNotOverpaid` | `NeverOverpaid` |
| | `StatusIsPayments` | `StatusAgreesWithPayments` |
| | `NoGaps` | `NumbersHaveNoGaps` |
| | `ReportsTellOneStory` | `ReportsAgree` |
| `StockHoldsProofs` | `HoldInvariant` | `IInv` |
| | `HoldTypes` | `TypeOK` |
| | `NothingIsHeldInVain` | `NoPhantomHold` |
| | `ColumnsAreSums` | `HoldsAreCounted` |
| `ApplicationProofs` | `HandlersKeepToTheirCompany` | `ServedByItsCompany` |
| | `EveryImageHasItsFile` | `ImagesHaveFiles` |
| | `QuotationsBecomeOneOrder` | `OneOrderPerQuotation` |
| | `ClientsAreTold` | `ErrorsAreTold` |
| | `PrimaryImagesStay` | `PrimaryImageIsKept` |
| | `ScansFindProducts` | `Spec => ScanFindsProduct`, an action property |
| | `StockKeepsItsWorth` | `StockIsWorthWhatWasPaid` |
| | `EveryPartKeepsItsTypes` | `TypeOK` |
| `TenantProofs` | `RecordsAreTrue` | `RecordedIsWhatRan` |
| | `ActiveTenantsAreComplete` | `ActiveTenantIsComplete` |
| | `RolesStayWithinLimits` | `RolesKeepTheirLimits` |
| `UserProofs` | `OneAdminRemains` | `AnAdminRemains` |
| | `TokensAndCodesAreUsedOnce` | `NothingIsUsedTwice` |
| | `NewPasswordEndsSessions` | `OldSessionsEnd` |
| | `NewestTokenStaysGood` | `ClientStaysLoggedIn` |
| | `AnswersTellOfUsers` | `UsersAreAsTold` |

None of the properties is inductive. Those of the documents speak of what others see, and a
commit makes visible what its transaction has written before: each invariant therefore
says of the uncommitted rows what the property says of the committed ones, and which
session may have uncommitted rows at all. Those of `Application` speak of requests that
were answered, and each invariant says what a request that is half-way has read or written
and which of it still holds. TLC has checked each invariant on the run of its module.

**Balances.** `IInv` has `ControlInv`, what `pc` says of `doc`, `todo` and `rows`;
`LockInv`, a balance row is locked exactly by the session that has pending ledger rows
for it, and its newest version is the committed one plus the pending sum (so at most one
transaction has pending rows of a dimension, and a commit adds them to the sum it
started from); `PendingNonNegative`, no prefix of the pending rows takes the balance
below zero (the CHECK, carried from statement to commit); `CitationInv`, rows cite the
document being approved, and committed ones a posted document. The steps reduce to
`RollbackPreserves` (six actions end in it), `PostPreserves` (the row write, after an
UPDATE or an INSERT) and `FinishPreserves` (the commit); `TablesUntouched` covers the
steps that only move control. No induction over the ledger is needed, because `total`
carries the sum: `RunningTotals` is a local condition.

**Atomicity.** `AInv` adds that `todo` is the rest of the document's movements
(`TodoInv`), that each movement before it has exactly one pending row with the right
quantity (`PendingInv`, `DoneInv`; a count may have none), and where committed rows
belong (`PlaceInv`). `MovementsPostTogether` counts rows: a commit adds one row to each
movement of its document and none to others. For the refinement, `InitRefines` maps the
initial state, and `NextRefines` shows that `Finish` (and the commit of an opening stock)
is `SL!Approve`, `Create` and `Delete` are themselves, and every other step changes
nothing others see. `StockLedger` states an append by positions
(`Extends`, `Carries`), so that this needs no induction over sequences either.

**Orders.** `SessionInv` says where a session is in its note and that it holds exactly
the order lines it has counted, each with the committed quantity plus what the note
carries up to there (`HasCounted`). `Verdict` says that what a session has decided of its
order is still true when it writes it: quantities of lines only grow, and nobody else
holds a line it has counted. `MetInv` is what `met` remembers. For stock, `GapInv`
weighs balances against order lines: the gap is zero among committed rows, and among the
rows a session sees it is what it has moved and not yet counted.

**Payments.** `VersionsInv` relates both versions of an invoice to the allocations: the
committed one to the committed allocations, the newest also to those the holder has
inserted. `LockInv` says that whoever has written an invoice holds the counter, which
makes payments of one company serial, and `NumberInv` that the counter is the number of
payments. `Rounded` is the arithmetic: rounding commutes with adding whole cents, and an
amount not above an outstanding one in whole cents is not rounded above it.

**Holds.** The trigger of a hold writes the rows one by one, so between its statement and
its commit a balance row may or may not include it. The invariant says for each row and
both of its versions which holds they cover: one whose trigger has still to write the row
is covered as it was before the statement (`Pending`), one whose trigger has written it
is covered by its new status in the newest version and by its old one in the version
others see (`Written`), and one whose trigger ran when the row did not exist is covered
in neither (`Skipped`). `Covered` then bounds each column by the sum of the holds it
covers, with equality when the row is older than all holds. `GREATEST(..., 0)` keeps the
bound and not the equality, which is why the exact property needs the older row.

**Requests.** `RequestInv` follows the company of one request through middleware and
guards: up to `JwtAuthGuard` it is that of the header, from there on that of the token
(`GuardedCompany`), and the handler finds it so.

**Images.** `ImageInv` says that an upload in progress has stored its file and not its
row, and that a removal that has still to unlink its file has deleted the row. That nobody
removes an image before its row is there follows from the fresh identifier: the look-up in
front of the removal has found the row, so the upload is done.

**Parts of a product.** `PartsInv` is the foreign key: every part has a product that exists.
A deletion keeps it because `Cascaded`, which goes two references deep, reaches every part
of the product or is refused (`CascadeReachesParts`).

**Primary images.** `Kept`: as long as nothing is removed and nobody dies (`Clean`), a
product has one primary image at most, and if it had one, it has one or a request is about
to give the mark to an image of that product. The last case is the moment between the two
transactions of a change; when two changes overlap there, the unique index refuses the
second, and `OneMark` says why that is right: what is refused had found the mark on another
image. `MarkerInv` adds that the image to be marked is still that product's.

**Scans.** `ScanInv` says what a scan knows that nothing has overlapped: it is alone
(whoever begins meanwhile would overlap), the tables it has read carry nothing, and what it
has found belongs to the barcode and exists, by `PartsInv`.

**Answers.** A route is `Covered` if everything it raises is known to the filter, named by a
rule of its service, or one of `DataErrors`, and nothing but success is answered as success. `RoutesTold` goes through all controllers: those of one
table by `PlainCovered`, documents by `PostingCovered`, users, roles and payments one
by one. `TablesTold` does the same for the repositories of the catalogue.

**Quotations.** `AloneInv` holds of a quotation no two requests of which overlapped: at
most one request is between SELECT and UPDATE, the status is still the one it has read, and
there is an order exactly when the status is `converted`. `ForwardInv` holds also if they
overlapped: only what was accepted has an order.

**Costs.** `CostInv` says that the costs of the rows, and those the documents under way have
read, lie within the prices paid (`Bounded`): a weighted average, rounded, lies between the costs
it weighs (`Average`), and prices are only added. As long as nothing came in free and nothing went
out at a cost that another document had changed (`Undisturbed`), the values of rows and ledger
differ by half a unit at most for each piece of an average that was rounded (`Accounted`):
a rounded quotient is at most half a unit off (`Quotient`), times the quantity of the row
(`MoveWorth`). `MovementsOf` goes through the kinds of documents, `MovedByIteration`, `OneMove` and
`TwoMoves` take the fold over their movements apart. A document posts once, so its movements are
new in the ledger.

**Roles.** What a schema grants is a fold over the scripts that ran there. `AccessSteps` takes
the fold apart into the tables after each script, from the recursive function that defines it,
and `RunKeeps` goes through the seven scripts: each keeps that a Viewer is granted only what
reads, that Admin has every permission there is (once the roles are there), and that nobody else
has the audit log, unless the seed runs when that permission is already there. `LimitsKept` is
the induction over the scripts; an active tenant ran each of them once, by `TenantInv`.
`RoutesFine` goes through the controllers: every route asks for permissions the scripts create,
and one that writes for more than reading.

**Tenants.** `TenantInv` says that a company code belongs to one sign-up from its
registration to its activation (`OneHolder`), and what the steps of that sign-up so far
have made of its schema (`StageInv`); steps of others only add to a schema
(`MigrationInv`: whoever is at a migration has found its predecessors recorded), so what a
sign-up has made is still there when it activates the tenant. `RecordedIsWhatRan` has to be
part of the invariant, as a migration runs only where it is not recorded.

**Users.** Twenty-nine actions write seventeen variables, so the lemma `StepMoves` goes through them
once: which of them write what, where a request can be (`PlaceInv`), who can answer with
success. `OrderInv` makes "r was answered before q began" an order in time
(`DoneStep`, `OverlapStays`, `OverlapBegins`). `RowsInv`: a request that changes a user
has found or stored the row. `AdminInv` carries the count to the write: a request that may
take an Admin away leaves another one, unless one that overlaps has taken that one.
`UsedInv`: who has spent a token or code has revoked or consumed it, and who has presented
one began before it was spent. `TokensInv`: a token is that of an answered request.
`SessionsInv`: who is about to issue a token got through the checks before the
deactivation. `DeviceInv`: the token of the device was issued; it is revoked only if somebody
has ended its session or a refresh with it is on the way to the next one (`TokenOfUse`), its
user is active or was deactivated since (`OwnersInv`); and if there is none, a refresh took it
for one of the reasons named, and no later one was sent (`Took`). `RolesInv`, `RefusedInv` and `PermissionsInv` say the same of
the two statements DELETE and INSERT: between them the rows are those of the snapshot,
unless another request has set them meanwhile.

**Types.** `TypeOK` of `Application` is the conjunction of those of its parts, and each is proved
where the invariants of that part are, since hardly any is inductive alone: what a step of a sign-up
leaves in a schema is a schema again only as `TenantInv` says where it is (`TenantTypes`); a
request about a user writes the account and the role it has found, which are there by `RowsInv`,
and answers with a token by `TokensInv` (`UserTypes`); a scan follows a unit or barcode to its
product, which is one by `PartsInv` (`CatalogueTypes`); and the costs and movements of a document
are numbers because they are bounded by the prices paid, in `CostInv` (`CostTypes`). Requests and
quotations need no more than the places of their own control (`RequestsTypes`,
`QuotationTypes`).

**Reports.** Every report is a sum over rows, and each equation is one between sums: the rows of
a `GROUP BY` add up to what was grouped (`GroupedSum`, `GstSum`, `MonthSum`, from `SumGroups`; `MonthsInOrder` says which days a month has),
the rows of a register to its invoices (`SumRows`), a rounding is at most half a cent
(`HalfACent`), so lines and headers differ by at most half a cent for each of them (`RoundingSum`,
from `SumBound`). `OutstandingSum` is the only one that needs the inductive invariant of the
payments: an invoice that is not in the view owes nothing, because its status agrees with what
was allocated to it.

**Sums.** The paid amount, the counted quantity and the columns of a balance row are sums
over finite sets, which the community modules define by a recursive function over a
choice of elements. `Sums` proves from that definition what the others use: that a sum
does not depend on the order (`SumAdd`, `SumRemove`), and how it changes with the set
(`SumUnion`, `SumCovers`), its elements (`SumRows`), a grouping of them (`SumGroups`) or the
function (`SumUpdate`, `SumLinear`, `SumBound`). The induction
over finite sets is `FiniteSetInduction`, with the predicate given as a set of sets.

Changes that the proofs led to in the models: `StockLedger` says of a count that at most
one row is posted by naming two positions instead of a cardinality; `InvoicePayment` asks
for amounts of at least a cent (`Asked`), without which an invoice could be
partially_paid by nothing; `OrderFulfilment` has the condition `OwnLines`, without which
a note of another order can fill an order that no verdict was given on, the condition
`Comparable`, and a `met` that names no more cases than there are; `HoldAssumption` says
that reservations, blocks and balance rows are different rows; `AnAdminRemains` names the creation
of a user among the requests that may take an Admin away; `UsersAreAsTold` names the same role given
meanwhile and the role deleted and made again, a code is used only after the request for it was
answered, and requests overlap only once both have begun, which makes each `unless` narrower;
`CostsAssumption` says that only a count may be of nothing; `StockCosts` adds up what was rounded
per posting, and the values of stock and ledger, by `SumFunctionOnSet`; so does `InvoiceReports`,
whose assumption names the types of the discounts (not negative, as the DTOs demand) and of
the dates, and that the invoices are finitely many; the roles of the model have names
without spaces, as the provers do not take spaces in strings;
`CatalogueAssumption` says what a route's call can be and what the constraints of parts and images
have kept so far, and that bodies and rows have columns of the model; `IdentityAssumption` says that
staff is finite and that roles grant permissions at the beginning; `TenantLifecycle` and `Catalogue` write a choice among overlapping conditions as
nested IFs, since which branch a CASE takes is open.

### Only model-checked

- Liveness (`RequestsFinish`, `ProcessesEnd`): it rests on fairness and ENABLED, which
  are out of the prover's reach.

Every safety invariant and every action property of the passing runs has a theorem. That the
instances of the models meet the assumptions is what TLC evaluates.

## 6. Plan

Every component that decides something is modelled, and every safety property of the runs is
proved. What could come next: the refinement of an abstract specification for the documents other
than stock postings (orders and payments as atomic completions), and a model of the audit
log, once something in the code reads it back.

## 7. Not modelled

- Dashboard lists and counts (low stock, dead stock, top-selling, category sales): queries
  over one table each, or a sort of what `InvoiceReports` sums up.
- The change of the financial year: nothing in the repository makes or switches a year
  after the seed, so documents are numbered within one.
- The price history: written and read by its own routes only. Company profile and own
  profile: one row, no rule.
- Validation of request bodies, names, prices, addresses, remarks, formats of numbers.
- Amounts as binary fractions: the models compute in exact integers and round where a
  column does. Differences below a tenth of a cent are therefore not seen.
- Expiry of tokens and codes: the same refusal as revoked or consumed.
- Checksums of migrations (an error on edited files) and the log of the runner.
  Seeding is one step: three psql calls, of which only the file of roles and permissions
  matters to another part of the model.
- `src/database/scripts/provision_tenant.sh`, the manual way to a tenant; it registers, clones,
  seeds and activates without migrating, so such a tenant lacks the migrations until the
  runner comes by.
- The rows of the audit log: nothing reads them back to decide anything.
- Screens and forms of the client, other than its session; containers, reverse proxy,
  backups.
