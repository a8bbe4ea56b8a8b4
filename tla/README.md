# Workshop OS — verification development

TLA+ models, TLC configurations and TLAPS proofs for *Workshop OS*, a pnpm
monorepo for vehicle workshops: an API (`apps/api`, NestJS on PostgreSQL with
row-level security), a web client with an offline queue (`apps/web`), a pure
domain core shared by both (`packages/shared`), and the schema
(`db/migrations/0001`–`0032`).  Paths below are relative to the repository.

## 1. The system

### How it runs

Every API request runs its statements inside `PgService.withTenant` (or
`withAdmin`): one PostgreSQL transaction, READ COMMITTED, on one connection of
a pool of at most 20.  Nothing is retried by the database layer and nothing is
shared in memory: the components interact through **rows**, **row locks**
(`FOR UPDATE`), **unique indexes** and the **outbox table**.  The concurrency
that matters is therefore the interleaving of statements of different
transactions, and, across transactions, sagas that commit in several pieces.
Several API replicas and one or more worker processes may run
(`SCALING.md`, `docker-compose.scale.yml`); a bay tablet queues its mutations
while it is offline and replays them later.

### Inventory

| Component | State it keeps | Operations | Interacts through | What makes it correct |
|---|---|---|---|---|
| Tenant transaction, numbering, audit (`common/db`, `common/numbering`, `common/audit`) | `document_counters`, `audit_log`, the pool | `withTenant`, `CounterService.next`, `AuditService.append` | called by every business transaction, locks counter then audit row | numbers dense and unique, one linear hash chain, business row and audit row commit together |
| Outbox (`common/outbox`, `workers`) | `app.outbox` rows; each worker's claimed batch | enqueue, claim, handle, mark, reclaim, resync | enqueued inside business transactions; handlers call integrations | at-least-once, never silently lost, no needless repetition |
| Work orders (`modules/workorders`) | headers, lines, time entries | create, add/update/remove/issue line, transition, clock on/off, assign | locks the header, moves stock, appends audit and change feed | state machine, nobody clocked on to finished work, bills match lines |
| Inventory (`modules/inventory`, `stock-ops`) | `stock_levels`, `stock_movements`, item cost, counts | receive, adjust, transfer, reserve/release/issue, count | `InventoryService.move` is the only writer | 0 ≤ reserved ≤ on hand, reservations match lines, parts conserved |
| Invoicing and receivables (`modules/invoices`) | invoices, payments, allocations | issue (order, lines, consolidated), credit, pay, reverse | sets work-order status, enqueues e-invoice | billed once, paid = live allocations ≤ gross |
| Integrations (`integrations/*`) | references on invoices | e-invoice, Minimax, SMS, VIES | outbox handlers | do not undo later business changes |
| Offline sync (`modules/sync`, `web/lib/offline-queue.ts`) | `change_feed`, `sync_mutations`, localStorage queue | pull, replay, flush | replays through the work-order service | no mutation lost or doubled, no change missed |
| Change feed (`common/sync`) | `change_feed` and its sequence | `append`, `pull` | appended inside work-order transactions, before or after the audit entry | a device that pulls misses no committed change and keeps nothing outdated |
| Estimates (`modules/estimates`) | estimates and their lines | create, update, set status, to invoice | `issueFromLines` in a transaction of its own between two others | one invoice each, immutable once invoiced |
| Vehicle rental (`modules/rental`) | vehicles, reservations, contracts | reserve, create contract, hand over, return, to invoice | `issueFromLines`, as estimates | no double booking, status of vehicle and contract agree, billed what the return left due |
| Connection pool (`common/db`, `common/notify`) | the connections of one process, who waits for one | `withTenant`, `withAdmin`, `toRoles` | every request holds one; a notification takes a second | no standstill, a notification harms no work |
| Attendance (`modules/attendance`) | days, breaks, leave, travel orders, vehicle mileage | clock in and out, breaks, correct, request and decide leave, start and finish travel | the timesheet adds up the days | hours counted once, leave decided once, mileage adds up |
| Bank import | imports, entries | apply, reverse | books payments | each entry booked once; cannot book on a migrated database (section 5) |
| Purchasing, receiving, counts | purchase orders, receipts, counts | create, transition, post, close | costed receipts | cannot create on a migrated database (section 5) |
| Appointments, portal, reminders | appointments, approvals, links | respond, request, sweep | outbox | one answer per approval, one reminder per key |
| Everything else (auth, members, keys, signup, subscription, recognition, AI, reporting, search, export, master data, web UI) | single rows, sessions | single-row requests, reads | | see `PROJECT.json`, `components` |

### What is hard here

* Two transactions of one tenant on the audit tip, a counter, a stock row, a
  header: READ COMMITTED waits and then goes on with what it had already read.
* Reads that take no lock (open clock entries, open invoices, the rental
  calendar and contract, the open day and break, a pending leave, a mileage, the
  item's average cost) and writes based on them.
* A worker dying between the integration's answer and the row's update, two
  worker programs with different claims on one table, five-minute takeovers.
* Sagas: estimate → invoice, rental → invoice, replayed mutation → record: each
  commits in pieces.
* A sequence drawn inside transactions that commit in another order (the
  cursor of the change feed).
* A second connection opened while one is held (notifications, nested
  `detail` reads): pool exhaustion and self-deadlock.

`PROJECT.json` lists each hazard at its line, with the properties that cover it
or the reason why none does.

## 2. Modules

### `Ledger`, `DocumentLedger` — numbered, audited transactions

`DocumentLedger` is one tenant's concurrent transactions, statement by
statement: unlocked lookup, `CounterService.next`, header insert,
`SELECT … ORDER BY seq DESC LIMIT 1 FOR UPDATE`, audit insert, commit; a
rollback may come anywhere.  `counter`, `docs` and `log` are committed rows;
locks and uncommitted rows follow from how far each transaction has come
(`pc`, `num`, `tip`).  A hash is the list of what was hashed into it, that is,
SHA-256 without collisions.  `Ledger` is the abstract promise: one atomic step
that numbers a document and appends to a log.  `ImplementsLedger` is the
refinement, with the mapping next to the detailed specification.

### `Outbox` — the event table and its two worker programs

`InProcess` workers are the Nest service in each API instance; `Standalone`
workers are `pnpm worker`, a program with another `WHERE` clause, no reaper and
other handlers.  `running` is the deployment: the processes that were started,
one of `Deployments`; it never changes.  Time is two facts about a row (`due`, `stale`).  Handlers
accept, refuse, or accept and lose the answer; workers die holding a batch;
status updates fail; live workers overrun the five minutes.  `delivered`,
`failures`, `unrecorded` and `overrun` are history variables.

### `Tables` — rows written and sums

What PostgreSQL does with a table, a function from keys to rows: the rows a
transaction has written go over the committed ones (`over`) when it commits or
reads its own; `Total` is the `SUM` of a column.  `WorkOrderStock` and
`Receivables` are written with it, and `TableTheorems` proves about it.

### `WorkOrderStock` — orders, lines, clocks, stock and billing

Sessions run one request at a time.  A request locks its order's header, checks
it, and then works through the statements of `todo` on rows it has not locked
yet: stock movements (`InventoryService.move`) and the insert of a time entry
under its unique index.  Uncommitted rows are in `work[t]`, and a row in there
is locked.  The billing step is `issueFromWorkOrder` as far as it touches the
order.  The identity of a line (order, part, quantity, stock row) is a
constant: a replay carries the same line.  Prices are 0 or not, which is all
that billing asks.  `create`, audit and numbering are in `DocumentLedger`.

### `OfflineSync` — the tablet's queue and its replay

The queue (`store`, localStorage) is shared by the tabs of a browser; the flag
`flushing` belongs to a tab.  A flush is three separate moments: load and send
(`Send`), the server's work, and the answer.  `Succeed` saves the queue as it
was loaded, all of it marked synced by then, so that nothing is left to send;
`Fail` leaves the queue.  A request is a batch of which the server
applies one mutation after the other, each in three transactions: `Check`,
`Dispatch`, `Record`.  `LoseConnection` takes the client away and lets the
request run on; `ServerFails` ends it anywhere.  The mutations are clock-on,
clock-off and *ready* of one job, with the refusals and the idempotent answers
of the work-order service; the office reopens the job or clocks the mechanic
off.  `queued`, `applied`, `effects`, `unrecorded` and `raced` are history.
The initial state, next-state relation and specification are called `SyncInit`,
`SyncNext` and `SyncSpec`, so that one module can extend this one and
`WorkOrderStock`; for the same reason `ConnectionPool` has `PoolSpec` and
`Attendance` has `AttendanceSpec`.

### `Receivables` — what happens to issued invoices

One customer's invoices, numbered by due date, with `paid_minor` and the status.
A transaction (a session's, or the hourly sweep's) executes the statements of
`todo` one by one; its uncommitted rows, which are also its row locks, are in
`work[t]`.  `RecordPayment` plans its allocation from what is committed at that
moment, without a lock; each `applyPayment` then updates the row *as it is by
then*, as READ COMMITTED does.  `CreateCreditNote` reads the header `FOR UPDATE`
and refuses a credited one.  The sweep finds its rows first and evaluates its
`WHERE` again on a row it had to wait for.  `MarkSent` is the last transaction
of the e-invoice handler, at any time after issue.  Lock cycles between a
payment and the sweep are broken by the database (`BreakDeadlock`).  `raced` and
`overwritten` are history.  The contents of a credit note, the numbers and the
audit are left out (`DocumentLedger`).

### `Billing` — orders and estimates to invoices

Two sessions ask for orders to be billed alone (`issueFromWorkOrder`) or
together (`issueConsolidated`, which locks its orders in the order the plan
found them), for transitions of the same orders, and for changes and conversions
of estimates.  A request locks its rows one after the other and knows each row
as it was when it got the lock (`held`); the decision and the writes are one
step with the commit, for the rows are locked by then.  Of an order's lines
(`orderLines`) the code asks two things: whether one is to be billed (no
discount, and not for nothing; billing asks that) and whether there is any (a
transition to *invoiced* asks only that).  `toInvoice` is three
transactions: read, invoice, mark.  The database ends one of the requests of a
lock cycle (`BreakDeadlock`), and any request may fail (`Rollback`).  `raced`
and `unmarked` are history.

### `UnlockedReads` — sessions that keep what they read

The frame of the two services that take no lock: a session works on one request
at a time, `req` keeps what the request has read, requests and failures are
counted.  `Rental` and `Attendance` extend it.

### `Rental` — calendar, contracts and their charges

Nothing in `rental.service.ts` locks a row.  A request reads (`ReadCalendar`,
`ReadContract`), then decides on what it had read and writes by key.  The
charges are computed as the code does, in days begun, kilometres, eighths of a
tank and a late fee, and the deposit is kept or returned; `generateInvoice` is
three transactions.  `doubled`, `stale`, `raced` and `unmarked` are history.

### `ChangeFeed` — cursors and the pull

Each work-order operation is the statements it executes, in its order: the
audit entry first (which takes the tenant's lock on the tip of the log), then
its rows of the feed, whose cursors come from a sequence at once; they are seen
at the commit.  An order has several time entries (`TimeEntries`, `jobOf`): the
first to clock on to an open job starts it, and is audited (`clockOn`); whoever
clocks on to a running one (`resume`: a second mechanic, one who comes back, or
the first after a transition to *in progress*, `start`) and whoever clocks off
appends without an audit entry; billing changes the order and appends nothing.  The device pulls
pages past its last cursor and keeps what it is given.

### `ConnectionPool` — requests that need two connections

One process: a request asks for a connection, waits in line, begins, takes the
tenant's rows (counter and audit), asks for a second connection to notify,
and commits.  A wait may end in `connectionTimeoutMillis`; for the first
connection that is the request's error, for the second it is logged.

### `Attendance` — presence, leave and travel

The clock has a midnight; an employee has one row per date, by a constraint.
A request reads the open day, then the open break, then writes by key.  The
office corrects a day in one step.  Leave is read and decided in two steps, a
vehicle's mileage read and written in two.  Distances are in tenths of a
kilometre, as the request may give a fraction and the mileage is rounded.
`writes` (how often a day or break was written), `outdated` (a request wrote
after another it had not seen), `corrected`, `together`, `again` and `overtaken`
are history.

## 3. Runs

| Run | Instance | Shows |
|---|---|---|
| `ledger` | 3 transactions, 2 series, 2 ids | dense numbers, unique documents, linear chain, atomic audit, termination, refinement |
| `ledger_claim` | same | **violation**: two appends at once; the second dies on `UNIQUE (tenant_id, seq)` and takes its business transaction along |
| `outbox` | 2 API workers, or 1 standalone worker; 2 events (one the API has no handler for), 2 faults, 1 resync | delivery, dead letters, exclusivity, causes of redelivery, settling, also without a reaper |
| `stock` | 2 sessions, 2 orders, 3 lines, 1 mechanic, 2 stock rows, 4 requests | reservations, conservation, clocks, bills, termination |
| `offline` | 2 tabs, 2 requests at a time, 3 mutations, 1 fault, 1 act of the office | order, acknowledgements, causes of repetition, that only a refusal stops the queue |
| `offline_lost` | 1 tab, no fault | **violation**: a mutation queued during a round trip vanishes |
| `receivables` | 2 sessions and the sweep, 2 invoices of 2, payments of 3 and 2, 3 requests, 1 e-invoice event, 1 failure | paid = allocations, causes of overpayment and double credit, status follows balance, overdue invoices are chased |
| `billing` | 2 sessions, 2 orders (one perhaps with no line, or none to bill), 1 estimate, 3 requests, 1 failure | an order is on one invoice, an invoiced estimate keeps status and lines, causes of a second invoice, lock cycles end |
| `rental` | 2 sessions, 1 vehicle, 4 periods, 2 ways of coming back, 2 reservations, 9 requests, 1 failure | causes of double booking and of a wrong vehicle status, billed as returned |
| `changefeed` | 2 sessions, 2 orders, 2 time entries of one of them, 5 changes, pages of 1 and 2, 1 failure | what a device may miss, what may be outdated, that it gets past every row |
| `pool` | 4 requests, 3 of them notifying, 2 connections, 2 failures | no standstill, harmless notifications |
| `attendance` | 2 sessions, 2 dates, a clock of 4 moments, 1 leave, 2 travel orders, 5 requests, 1 failure | hours counted once, leave decided once, mileage adds up, or why not |

**Bounds and why they are enough.**  The hazards are pairwise: two transactions
on one row.  `ledger` has three transactions so that one can wait while two
others finish; two series and two ids separate what must be shared from what
must not.  `outbox` allows a crash *and* an overrun of the same event, and a
resync after a dead letter; attempts are bounded by `MaxAttempts` itself.
`stock` allows four requests: reserve, then any two requests racing, then one
more to observe; orders start `open` (`Statuses0`), the first status in which
everything is possible; the quantity on hand is one short of what all lines
ask for.  `offline` has two tabs and two requests at work, so that a request
can overlap its own retry or another tab's; three mutations are what `markDone`
needs (on, off, ready); one fault and one act of the office suffice to lose a
record and to undo an effect.  `receivables` allows three requests: two payments
and a credit note, or a credit note, a payment and another credit note; the
first payment runs over into the second invoice, and two invoices are what a
lock cycle needs.  `billing` has a request for each of two sessions and one more
that meets what they left.  `rental` allows nine requests because one contract's
whole life takes five: two reservations that race, and then two lives that
meet at the vehicle; a day has two units, so that periods and returns fall
inside one.  `changefeed` has five changes, so that a third can be given to the
device between two that commit out of order, and pages shorter than the feed; its
two time entries of one order can run together, or one after the other has
ended.
`pool` has more requests that want two connections than connections.
`attendance` spends its five requests on a clock-in, a break and three more that
race, or on two decisions beside a travel order's life; two moments of its clock
are before midnight and two after, so that a day may run past it.  Sessions are
interchangeable: `rental` and `attendance`, which check safety only, use that
symmetry.  `CHECK_DEADLOCK FALSE` where all requests a bound allows may
have been served.

**Fairness.**  `DocumentLedger` and `WorkOrderStock`: weak fairness of the next
statement of a transaction that has begun (the server executes it; a waiter is
woken when the row is free).  `Outbox`: the poll loop reschedules itself, a
handler ends in an answer or an error, the clock runs.  `OfflineSync`: the tab's
fifteen-second timer fires (`Flush`), and the server takes its next step and
the answer its way, unless one of the counted faults intervenes.  `Receivables`:
the sweep's timer fires every hour (`tick` always schedules itself again), and a
transaction that has begun executes, commits, is refused or is ended by the
deadlock detector.  `Billing`: the same of a request.  `ChangeFeed`: the device
pulls again and again, and a transaction that has begun goes on.
`ConnectionPool`: the pool gives out what is free, its timer fires, and a
request that could go on time and again does (strong fairness, because a row
lock is granted in the order of asking).  `Rental` and `Attendance` check no
liveness and assume nothing.  Never assumed: that a request of a user begins, that a fault
or a rollback happens or does not.

## 4. Proofs

Each component has a proof module, three of them together with a neighbour:
`DocumentLedgerProofs` is about `DocumentLedger` and the pool its transactions
run on (`ConnectionPool`), `WorkOrderStockProofs` about `WorkOrderStock` and the
tablets that replay its operations (`OfflineSync`), `RentalProofs` about the two
services that read without a lock (`Rental`, `Attendance`).  Every invariant and
every action property that a run checks is a theorem, and so is the refinement.

`DocumentLedgerProofs` proves for **every** number of transactions, series and
ids, and with no assumption but that the value standing for *unnumbered* is not
a request: the type invariant, gapless numbering, unique documents, the linear
chain, audited writes, and the refinement of `Ledger`.  The inductive invariant
adds to the stated properties who holds which lock: two transactions never hold
the same counter or the same audit row, a number taken is one above the
committed counter, and a locked tip may be stale, in which case its sequence
number is taken and the append fails.  The type invariant is a theorem of its
own (`TypeCorrect`).

Of the pool the same module proves, for any number of requests and any size,
that a request fails by a statement of its own or for want of its *first*
connection, never by its notification (`PoolNotifyHarmless`), and that the
connections in use never exceed the size of the pool while its queue holds each
waiting request once (`PoolKeepsItsSize`).  The invariant ties each phase of a
request to the connections it holds and to its place in the queue.

`OutboxProofs` proves for every set of workers, every deployment of them and
all bounds: `TypeOK`, *done means delivered* and *dead means tried*.  The
inductive part is that a job's attempt count never exceeds the failures seen (a
late worker writes an older count back, never a higher one) and that a worker
about to mark done has an accepted event.  Where API instances alone are
deployed it proves exclusivity, that a redelivery has a cause, and that done is
final.  The strengthening says that a row that is claimed and fresh has one
holder, and a stale one without overrun has none; the theorems need no
assumption about the deployment, for it does not change: either the
strengthening holds always, or the premise of the properties never does.

`ChangeFeedProofs` proves for any sessions, orders, page sizes and bounds that a
device misses a committed row only around a change that was not audited.  The
invariant follows a row from its cursor to its commit: a transaction whose
audited row is not yet committed holds the tip of the audit log, one at a time;
hence what is committed beside it with a later cursor is not audited.  A page
has no holes, so that the device's cursor passes nothing that was there to be
given.  The one thing that orders the cursors is the audit lock.  A second
invariant (`DInv`) adds the row locks and the versions: of two transactions on
an order one is audited at most, and only one is at a time entry; so the newest
row of an order or time entry has the version of what was committed last, unless
that was to be billed; and the device keeps the version of the newest row it was
given.  With the first it proves that a device that has pulled everything is
behind for a known cause only (`CopyStaleHasCause`).  `VersionInv` bounds the
versions in rows by the committed ones: a device is never ahead of what is
committed (`CopyIsNeverAhead`), whatever it pulls when; with it the type
invariant (`FeedTypeCorrect`).  That a page, a finite set of rows, has a last
row is `LargestNumber` of `TableTheorems`: the number with the most numbers
below it, found by counting because induction on a set is out of reach.

`RentalProofs` proves for any sessions, vehicles, periods and bounds that a
double booking has its cause.  The invariant says of every reservation, and of
every request that is about to make one, that what it saw in the calendar is
there still and was free of its period: reservations are only added, and
handing over or returning a vehicle changes a status, never a period.  That two
half-open periods with a moment in common overlap in the sense of
`rangesOverlap`, and so are refused, is a lemma of its own.  A second invariant
(`CInv`) follows the contracts: what a request is about to do with one fits what
it had read, unless somebody wrote over it since (`stale`); one contract of a
vehicle is out at a time, or the vehicle was handed over twice (`doubled`); the
charges of a contract that is back add up with the deposit, and its invoice asks
for what they leave due; and as long as nothing raced and every marking
succeeded, at most one request is making that invoice.  It proves what the fleet
list tells (`FleetAlwaysTellsWhere`) and that a contract is billed once, as it
was returned (`AlwaysBilledAsReturned`), for any price list and any readings
that are not negative, which the request's validation demands
(`rental.controller.ts:21-28`, `:46-52`).

Of attendance the same module proves, for any number of sessions, moments, leaves
and travel orders, what the timesheet counts (`AttendanceHours`), that a leave is
decided once (`AttendanceLeave`), that the mileage adds up (`AttendanceMileage`),
each with the causes of its exception, and the types.  As long as no request has
written after another that it had not seen, days lie beside each other
(`DaysOrdered`), breaks lie inside their day and beside each other
(`BreaksOrdered`), and a request that has seen every write knows the rows it
writes on (`UpToDate`); that the sum of the days is the number of moments worked
is then `TotalOfSizes`, the sum of the sizes of disjoint sets.  `OneDecider` says
that a leave nobody decided beside another is at hand in one request at most and
not decided yet.  `OdometerAddsUp` is inductive as it stands.

`BillingProofs` proves for any sessions, estimates and bounds, and any finite
set of orders, that an order is billed once, alone or with others.  The
invariant says how far each request has come with its locks, that a locked row
has one holder, that the holder knows a locked order as it is, and that an order
on an invoice is invoiced or closed.  So what a billing transaction decides on
is still true when it writes; and the table of transitions leads from invoiced
to closed only.  The second invariant (`EInv`) says the same of a locked
estimate, and of each estimate how far its conversion is: no invoice and
requests that have made none, or one invoice and a request about to mark it, or
marked; or conversions raced, or a marking failed.  From it follow the cause of a
second invoice (`SecondInvoiceHasCause`) and the action property that no step
changes the status or the lines of an invoiced estimate (`QuoteStaysFrozen`; the
number of its invoice a second conversion may overwrite).  It assumes of a change of
status that it asks for one of the five there are.  A third part (`NumberInv`)
follows the number of an invoice from the transaction that issues it to the one
that marks the estimate: an estimate that names an invoice is invoiced, and that
invoice was made from its lines (`EstimateNamesItsInvoice`; not the converse,
for `update` and `setStatus` let an estimate be called invoiced with no invoice,
`estimates.service.ts:192`, `:218`), and rows keep their shape
(`BillingTypeCorrect`).

`WorkOrderStockProofs` proves all five invariants of the run for any sessions,
orders, lines, mechanics and bounds, and finitely many stock rows and lines that
ask for a part (the sums are over those).  The invariant has one part for each
place where a transaction can be: `Jobs` says of the rows it has written and of
the statements it has still to execute that they fit together (a line that
becomes *present* comes with a reservation of its quantity, one that becomes
*issued* with its issue, a transfer adds on one row what it took from another),
`Locks` that two transactions write different rows, and `Types` what the rows
look like.  A commit then adds to the committed tables the difference its job
says, and the sums of `TableTheorems` change by just that on both sides of
*reserved = what the lines ask for* and of *on hand + issued = received*.
`Billed` says what an invoice billed.  That a mechanic has one open entry rests
on the unique index, and that nobody is clocked on to a ready order on the lock
of the order's row.  `Begun` adds that only a request that has begun holds rows
or has statements to go, which is the rest of the type invariant
(`StockTypeCorrect`).

`NobodyWaitsInACircle` is the safety under `Ends`: among any set of transactions
there is one that waits for none of them, for any number of sessions.  Its
invariant (`Ascending`) says that whoever has statements to go holds no time
entry, and only stock rows that sort before the one it asks for next; so who is
waited for has nothing to go, or waits for a row that sorts after the one it
holds, and of finitely many rows one is the last.  What a request waits for once
it has begun is a stock row or a time entry; its header it locks first, when it
holds nothing else.

Of the tablets the same module proves, for any number of tabs, overlapping
requests and mutations, that no mutation is applied before an older one that
still waits (`SyncInOrder`) and that a mutation changes the job twice for a known
cause only (`SyncRepeatHasCause`).  The first rests on `NoneSkipped`: a request
takes the whole queue along, so that what the tablet still holds is applied, or
in what the request has still to apply, or later than all of it.  The second
rests on `OneAtHand`: but for a race, one request at a time is at a mutation, and
there is no record of it yet.

`ReceivablesProofs` proves all four invariants of the run for any sessions,
invoices, amounts and bounds, and finitely many payments.  A payment plans
before it locks; what the invariant keeps of the plan is that it stays within
what an invoice is owed unless the invoice is in `raced`, and that every invoice
two payments at work were planned for is (`Payers`).  `Rows` says that a status
agrees with its balance, `Jobs` what the rows a transaction has updated add to
the committed ones, `Locks` that no other transaction updates them; hence *paid is what was allocated*, through every
partial commit, rollback and deadlock the database breaks.  `Credited` says that
an invoice credited once says so, or was overwritten.  The type invariant
(`ReceivablesTypeCorrect`) needs one fact about the algorithm: `allocatePayment`
hands out no more than was paid (`PlanTotal`).  It is proved without induction
over the invoices: each unit of the plan has a place of its own among the units
of the payment, those of older invoices first.

`TableTheorems` holds what these need of `Total`: it is a natural number, it
splits at a key, it changes by the difference when one row is written, or two, a
column that is nowhere smaller has no smaller total, and the sizes of disjoint
sets add up to the size of their union; and that a finite set of numbers has a
largest one.  Sums are counted unit by unit in `Tables` because a recursive sum
is out of the prover's reach; all of it follows from the library's theorems on
finite sets.

The assumptions on constants are the ones the modules name, and each is a fact
of the code: quantities, amounts and prices are natural numbers, statuses are
the ones the code has, and the sets summed over are finite.  Everything else (how
many sessions, orders, vehicles, invoices, requests and failures) is arbitrary.

Some theorems state invariants that no run lists: the type invariants
(`…TypeCorrect`, `PoolKeepsItsSize`), `UniqueDocuments`,
`EstimateNamesItsInvoice`, `CopyIsNeverAhead` and `NobodyWaitsInACircle`.  TLC
evaluated them, as it did the inductive invariants, while the proofs were
written.

Only model-checked: all liveness (`Terminates`, `Settles`, `Ends`, `Drains`,
`Chased`, `CatchesUp`), which is out of the prover's reach, as are the
enabledness conditions fairness speaks of.  What can be said of it as safety is
proved: that nobody waits in a circle for stock and clocks, that a request of the
pool is in its queue once, and that a done event stays done.

## 5. Where the code and its words part

With a run of their own:

1. `AuditService.append` says concurrent appends serialise into one chain; in
   READ COMMITTED the waiter keeps the row it read and its insert fails
   (`ledger_claim`).  The chain stays intact, at the price of the business
   transaction.
2. `flush` saves the queue it had loaded before it awaited the server
   (`offline_lost`): *never be lost* fails without any fault.

Stated by a property as the cause it needs:

3. The change feed promises that a device *can never miss a change that
   committed* (`change-feed.service.ts:10-12`).  `MissHasCause` holds, and its
   exception happens: a clock-on to a running job (`work-orders.service.ts:495`)
   and a clock-off (`:523`) append without an audit entry, so nothing makes their
   commits follow their cursors.
4. Billing an order (`invoices.service.ts:149`, `:520`) bumps its version and
   tells the feed nothing, against *every server-side change to a syncable
   entity* (`0002:206`): `StaleHasCause`.  `issueLine` changes a line with
   neither a feed row nor a version.
5. A reservation that *conflicts, we refuse* (`rental.service.ts:71-72`) is
   accepted beside another that is being made: `DoubleBookedHasCause`.
6. Turning an estimate into an invoice again *is safely refused*
   (`estimates.service.ts:239-243`) unless the very marking failed that would
   refuse it: `TwiceHasCause`.  The rental's invoice is built the same way
   (`BilledAsReturned`).  An estimate linked to an order may be billed besides
   the order.
7. The e-invoice handler marks an invoice sent whatever its status is
   (`einvoice.handler.ts:113`): a credited invoice can be credited again
   (`CreditHasCause`), a paid one looks open (`StatusTellsBalance`).
8. `applyOne` checks, applies and records in three transactions; the
   idempotence of the work-order service hides a repetition unless somebody has
   undone the first in between: `RepeatHasCause` says when a clock-on is done
   twice, against *can never double-apply it* (`offline-queue.ts:13-16`).
9. Two payments recorded at once may both be allocated to the same invoice
   (`OverpaidHasCause`), against *never applies more than an invoice's
   outstanding balance* (`receivables.ts`), which holds of the pure function.
10. Two deciders at once both decide a leave, although a decided one is refused
    (`attendance.service.ts:154`); two travel orders finished at once lose the
    kilometres of one, and an order finished twice adds its own twice
    (`travel.service.ts:117`): `DecidedOnce`, `OdometerAddsUp`.  *One presence
    period at a time* (`attendance.service.ts:29`) rests on an unlocked read; a
    break started while the employee clocks out stays open on a closed day and
    is not counted (`HoursCountedOnce`).

Seen while modelling:

11. The standalone worker claims `processing` rows (`workers/outbox.worker.ts:66`),
    against the multi-instance safety of `common/outbox/outbox.worker.ts:12-13`;
    two of them, or one beside an API, work on the same event.  It
    dead-letters, unattempted, the notifications it has no handler for
    (`workers/worker.module.ts:24` against `notifications.module.ts:15-16`).
12. Cancelling or billing an order does not release its reservations
    (`work-orders.service.ts:216`, `invoices.service.ts:149`): they stay with
    the lines for good, and `ReservedMatchesLines` counts them with the lines.
13. `issueFromWorkOrder` ignores the state machine: it bills a cancelled order
    (`invoices.service.ts:51`, against `workorder-state.ts:14-15`), and an order
    that a transition moved to *invoiced* can be billed no more.
14. The `SELECT` of the tenant in `issueFromWorkOrder`, `issueFromLines` and
    `issueConsolidated` (`invoices.service.ts:60`, `:219`, `:426`) has no
    `minimax_enabled`: invoices are not handed to Minimax by themselves.
15. The moving average and the quantity are read before the stock row is locked
    (`inventory.service.ts:154-176`).
16. `correctDay` with one time given writes the other as NULL
    (`attendance.controller.ts:108`): the day is open again, or its hours count
    from the epoch.  A second clock-in on a date always fails on `UNIQUE
    (tenant_id, user_id, work_date)` (`0013:32`).  Ending a break is not
    audited.
17. A failed notification is logged and nothing else; the web client never
    pulls the change feed.

Facts of the schema and of connections, not of a schedule:

18. No migration grants `DELETE` on `work_order_lines` to `workshop_app`, and the
    rule that makes `stock_movements` immutable also intercepts the foreign
    key's `SET NULL`; `removeLine` fails on a database built from the
    migrations.  `WorkOrderStock` lets it succeed or fail.
19. `applyPaymentToInvoice` writes the method `bank_transfer`
    (`invoices.service.ts:664`), which `CHECK (method IN ('bank', 'cash',
    'card', 'other'))` (`0004:157`) refuses: on a migrated database no bank
    entry can be booked, and `reversePayment`, which only the bank import calls,
    has nothing to reverse.
20. Creating a purchase order, a goods receipt or a count reads the new row back
    with `this.detail`, on a second connection that does not see it before the
    commit: the request fails and rolls back.  `recordCount`
    (`stock-ops.service.ts:83`) would wait on its second connection for the row
    it has just updated on its first.

## 6. Plan

All models are written and checked, and every safety property, action
property and refinement that a run checks is proved.

**Not modelled, and why.**  Bank import, purchasing, receipts and counts cannot
create their first row on a migrated database (19, 20): a model of what would
happen after that is a model of no run of the program.  Appointments, the
portal, members, keys, signup, the subscription and the master data write one
row per request, under its lock or in one insert.  Prices, VAT, recognition,
reports and exports are sequential functions or reads, which unit tests reach.
The user interface and the demo store hold no shared state but the offline
queue, which is modelled.  Most of the repository's lines are these.

Left within the modelled parts: the cost of the parts in `WorkOrderStock`;
`add_line` and `create` among the replayed mutations of `OfflineSync`; the
readings kept on a rental vehicle.
