# Formal models of inventory-ms

TLA+ models of this repository - the stock-keeping core, the accounts, the master data,
the worker, the migrations and what the web client offers - TLC configurations that
check them, and TLAPS proofs, for every value of the constants, of what matters most about
the posting protocol, requests, issues and returns, lot allocation, transfers, adjustments and
counts, orders and receipts, accounts, master data, the pages and the permissions behind them,
the receipt form, the worker, the lock and the migrations.
The source is read at the paths given below, relative to the repository root;
`api/` abbreviates `apps/api/src/`.

## 1. The system

An API (Express, MongoDB through mongoose) keeps stock **balances** and an
append-only **ledger** of stock transactions. Stock documents (receipts, issues,
returns, transfers, adjustments, counts) go through a status table and are *posted*:
their movements are written to the ledger and the balances in one transaction.
A worker sends notification mail. A web client shows forms over the API.

### Components

| component | state it keeps | operations | what makes it correct |
|---|---|---|---|
| transactions, idempotency, numbering (`api/shared/infrastructure/{mongo,idempotency,sequence}.ts`) | `idempotencyResults`, `counters` | `withTransaction`, `withIdempotentPost`, `nextSequenceNumber` | work takes effect at most once and wholly, whatever is retried; numbers have no gaps |
| ledger and balances (`api/modules/inventory`) | `stockTransactions`, `stockBalances` (on hand, reserved, `version`), lots | `postStockMovements`, `reserveStock`, `releaseReservedStock`, `resolveOrCreateLot`, queries | ledger and balances agree; nothing negative; reservations net out |
| lot allocation (`api/modules/issues/domain/lotAllocation.ts`) | none | `allocateLots` | everything available, first expired or first received first, independent of input order |
| stock requests (`api/modules/requests`) | status, lines with requested, approved, reserved, fulfilled | create, update, submit, approve, reject, cancel, `applyIssuedQuantities` | lines agree with the rows' reservations and with posted issues |
| stock issues (`api/modules/issues`) | status, items with balance row, picked, returned | create, update, pick, cancel, post, reverse, `applyReturnedQuantities` | posted once, unchanged after posting, reversal undoes |
| returns (`api/modules/returns`) | status, lines | create, post | never more back than was picked |
| transfers (`api/modules/transfers`) | status, policy, lines | create, submit, approve, post, receive, reverse | goods are neither made nor lost; what travels is in transit |
| adjustments (`api/modules/adjustments`) | status, lines with prior and resulting quantity, approval flag | create, update, submit, approve, reject, post, reverse | booked once; prior and resulting quantities and the flag are those of the lines |
| counts (`api/modules/counts`) | status, lines with system, counted, variance | create, update, submit, approve, reject, post, reverse | an undisturbed balance ends at the counted quantity |
| purchase orders (`api/modules/procurement`) | status, lines with ordered and received | create, update, submit, approve, reject, cancel, close, `applyReceivedQuantities` | received agrees with receipts and with the status |
| goods receipts (`api/modules/receiving`) | status, order, lines | create, update, verify, post, reverse | stock arrives once; a reversal takes back what is still there |
| audit (`api/modules/audit`) | append-only events | `recordAuditEvent`, list | an event for every critical change |
| identity (`api/modules/identity`, `api/shared/security`) | users, MFA challenges, reset codes and tokens, sessions | login, second factor, reset, change password, administration, `touchSession` | lockout, one-time secrets and ended sessions hold under concurrent calls |
| access (`api/modules/access`, `packages/contracts`) | roles; the permission catalogue | role administration, `requirePermission` on every route | the pages, the routes and the roles fit each other |
| master data (`api/modules/{catalog,suppliers,organization}`) | products with barcodes, categories, units, suppliers, warehouses, locations, departments | create, update, archive | keys stay unique, one default, archived records stay archived |
| reports, operations, HTTP layer | none of their own | queries, health, routing, validation, rate limits | - |
| worker (`apps/worker`) | BullMQ queue and lock keys in Redis | `enqueueNotification`, `sendNotification`, `acquireLock`, `withLock` | no job is done without its mail, every job settles, a lock is released by its owner |
| migrations (`api/shared/infrastructure/migrations`) | applied migrations | `runMigrations` | what is recorded was done, whatever stops in between |
| web client (`apps/web`) | forms and cached answers | calls of the API | offers what the API accepts; a form does not undo what it did not show |

### How they interact

* A document service calls the ledger **inside** its transaction:
  `withTransaction(withIdempotentPost(load, assert transition, postStockMovements,
  tell the related document, save))`. Related documents are told by a function of
  their own service with the same session: an issue tells its request
  (`applyIssuedQuantities`), a return its issue (`applyReturnedQuantities`), a
  receipt its order (`applyReceivedQuantities`).
* Approving and cancelling a request reserve and release stock in the same way.
* Every other handler (edit, submit, approve, pick, verify, ...) is
  `findOne`, a check in memory, `save()` - **without** transaction. `save()` writes
  the paths that were assigned. mongoose compares the version key `__v` only when
  an array was modified in a way that makes positions unsafe, and increments it
  when the whole array was replaced.
* The audit event is recorded after the transaction has returned.
* `requireAuth` loads the session and the user on every request, resolves the permissions
  and starts `touchSession` without waiting for it; `requirePermission` asks for the route's.
* Login, reset and user administration are `findOne`, decide, `save()`, in any order
  among each other; a recovery code is guarded by mongoose's `__v`, because its array is replaced.
* `forgotPassword` and `createUser` store a token and then queue a job; the worker takes
  it, looks the user up and sends. BullMQ hands a job to one worker at a time, retries it
  `attempts` times, and gives the job of a stalled worker to another one.
* The web client keeps the answers of its queries and shows buttons by the status and the
  permissions it was told; the server decides on what is true by then.

### What is hard here

Concurrent postings over the same balances; retries by the driver, by the loop around
it and by the client; a commit whose outcome is unknown; a crash between operations;
handlers that save what they read earlier; documents whose status another document's
posting changes; reversals, which leave the original's status alone;
reservations that are released from other rows than they were made on; quantities at
zero and at the boundary. On the accounts' side: logins, resets and administration
that save a user read earlier, a touch of a session that arrives after its end, tokens
used twice. On the client's side: pages whose status tables differ from the services',
and forms filled from an old answer. In the worker: mails sent by a job that is then
run again, locks that expire. `PROJECT.json` lists these at their lines under
`hazards`, with the properties that cover them or the reason why none can.

Smaller ones, not listed there: two failed logins may count as one (the account then
locks a little later; in `Identity`); `consumeMfaChallenge` reads and deletes in two operations,
so two verifications may use one challenge, each still with a factor of its own (in `Identity`);
`requiresElevatedApproval` is stored but the catalogue has no stronger permission to ask for;
a count may select a row twice; a lot keeps the expiry date of its first receipt; a
rejected fetch of the CSRF token is kept until the page is loaded again (`apiClient.ts:50`);
rejected and outstanding quantities are floating-point differences in the receipt form.

## 2. The modules

### Layers

1. **StockPosting** is the transaction protocol, operation by operation, with its
   conflicts, retries and crashes. It is shown to implement **AtomicPosting**: a
   posting is one atomic step that happens at most once.
2. On the strength of that, the document models (**Fulfilment**, **Transfers**,
   **Corrections**, **Procurement**) take every transactional handler as *one*
   step, and every other handler as *two*: a `Read...` step (find and check) and a
   `Save...` step, between which other clients act. `client[c]` holds what call
   `c` has read and is going to save.
3. **Permissions** and **Pages** are tables: what roles may, what each route asks for, in
   which status each service accepts an operation, and what each page offers. **Access** puts
   a team of people, one document and its pages on top of them.
4. **Identity**, **MasterData** and **ReceiptForm** are read/save models of the same kind
   as the documents', each in a set of `Scenarios` (`Fillings` in the form): which calls,
   records or fields are in play. Every behaviour keeps to one, and the runs check all of them.
5. **Platform** composes **Notifications**, **DistributedLock** and **Migrations**, which
   share no state: a behaviour follows one of the three.
6. **LotAllocation** is a pure algorithm; Fulfilment extends it for picking and uses its
   greedy loop for reservations as well.

| module | models | state | actions |
|---|---|---|---|
| `AtomicPosting` | what a posting endpoint promises | `onHand`, `posted` | `Post` |
| `StockPosting` | `mongo.ts`, `idempotency.ts`, `sequence.ts`, `LedgerService.postStockMovements` as called by a posting service (`IssueService.postStockIssue` is the one whose steps are mapped) | `store`: the committed documents; `tx[c]`: the snapshot (`view`), the write set (`written`) and the documents committed by others since the snapshot (`missed`); `call[c]`; `audit` | `Request`, `Begin`, `KeyMissing`, `Lookup`, `Load`, `PostMovement`, `Insufficient`, `MovementsDone`, `SaveDocument`, `RecordResult`, `Commit`, `CommitUnknown`, `WriteConflict`, `TransientError`, `RecordAudit`, `Crash` |
| `LotAllocation` | `lotAllocation.ts`; the loops of `reserveStock` and `releaseReservedStock` | - | operators `Before`, `Sorted`, `Spread`, `AllocateLots` |
| `Fulfilment` | requests, issues, returns, reservations | `onHand`, `reserved`, `scrap` by balance row; `requests`, `issues`, `returns`; `client` | every handler of the three modules |
| `Transfers` | transfers in both policies | `available`, `transit` by location and goods; `transfers`; `client` | `Create`, `ReadStatus`, `SaveStatus`, `Post`, `Receive`, `Reverse` |
| `Corrections` | adjustments and counts | `onHand`, `version`, `other` (what other postings did); `adjustments`, `counts`; `client` | every handler of the two modules, the row-by-row snapshot of a new count, `OtherPosting` |
| `Procurement` | purchase orders and goods receipts | `onHand`, `used`; `orders`, `receipts`; `client` | every handler of the two modules, `Use` |
| `Permissions` | `packages/contracts` permissions, `permissionCatalog.ts` with its system roles, every `*Router.ts` | - | `Permission`, `SystemRolePermissions`, `Routes`, `Permits` |
| `Pages` | the services' status tables; the detail, list and form pages of `apps/web` | - | `Services`, `Progress`, one operator per page |
| `Access` | people at the pages of one document or record | `doc` on the server; `roles`; `me[u]`, the permissions the client was told; `page[u]`, the copy shown | `SignIn`, `UpdateUserRoles`, `Open`, `Press`, `Advance`, `LookAtReversal` |
| `Identity` | `AuthService`, `UserService`, `SessionService`, `MfaChallengeStore`, `requireAuth` | `user`, `sessions`, `tokens`, `challenges`, the clock, `client[c]` between read and save | login, second factor, reset, change of password, administration, requests and their late touches, `Tick`, crashes |
| `MasterData` | `SupplierService`, `DepartmentService`, `WarehouseService`, `StorageLocationService`, `UnitService`, `CategoryService`, `ProductService`, `RoleService` | `records`, `barcodes`, `client[c]`, `cutOff` | `ReadCreate`, `SaveCreate`, `ReadUpdate`, `SaveUpdate`, `ClearOtherDefaults`, archive, the transaction of a product update, `Stop` |
| `ReceiptForm` | `GoodsReceiptFormPage.tsx` with its queries | `receipt` and `orders` on the server; `tab[t]`: page, form, cached answers | opening, answers arriving, every field, `Save`; what others do meanwhile |
| `Notifications` | `enqueueNotification`, `sendNotification`, the worker's `main` | `call`, `token`, `job`, `worker`, `mails` | the API's steps, `Take`, `FindUser`, `SendMail`, `Completed`, `Failed`, `Backoff`, `Stalled`, stops |
| `DistributedLock` | `distributedLock.ts` | `key`, `work[h]` | `AcquireLock`, `FinishWork`, `Release`, `Expire`, `StopHolder` |
| `Migrations` | `runner.ts`, `cli.ts` | `applied`, `written`, `runner[r]` | `RunMigrations`, `FindMigration`, `Up`, `UpFails`, `Record`, `StopRunner` |
| `Platform` | the three together | `followed` | one of the three |
| `MC*` | - | - | small instances for TLC |
| `MCLotAllocation` | - | `balances`, `demand`: the inputs of `allocateLots`, chosen row by row | `AddRow`, `Ask` |
| `Sums` | - | - | lemmas about sums over finite sets, for the modules below |
| `*_proofs` | - | - | theorems and proofs about `StockPosting`, `Fulfilment` with `LotAllocation`, `Transfers`, `Corrections`, `Procurement`, `Identity` and `MasterData`; those about `Platform` and `ReceiptForm` are in `Identity_proofs`, from its sections "Migrations" and "The form of a goods receipt" on, and those about `Access` in `MasterData_proofs`, from "Pages and services" on |

Definitions keep the names of the code where there is one; `PROJECT.json` maps each to
its lines. Operators introduced by a comment "Faulty ..." are not part of any
specification: they state a plausible bug of the definition that follows them, and each
property fails in its run when the operator named for it in `PROJECT.json` replaces that
definition.

### Abstractions

* Quantities are integers. `Decimal128` and decimal.js are exact at the scales used,
  and no handler divides.
* A balance key (warehouse, location, product, lot, stock state) is one element.
  The `active` filter on lots is left out: no code ever changes the status of a lot.
* `StockPosting` fixes each document's movement (`Movement[d][k]`), one per key
  in key order, as `movementSortKey` sorts them. Several movements on one key
  appear in Transfers and Corrections, as conditions on prefixes of the lines.
* MongoDB is external: snapshot reads, write conflict on a document that another open
  transaction has written or that was committed since the snapshot, abort on error,
  commit that may answer with `UnknownTransactionCommitResult`.
  `MAX_TRANSACTION_ATTEMPTS` rounds, each of which may repeat inside the driver, are
  `MaxAttempts` attempts in one.
* The document models give every posting a fresh `Idempotency-Key`. A repeated key
  is StockPosting's subject.
* The items of an issue are a function over all pairs of a line and a row, with `drawn` for
  those the issue has; the array of the code lists the drawn ones in picking order.
* `ReadCreateIssue` reads the request and all balances at one moment; the code reads
  the balances product by product. The result is saved later in any case and none of
  the checked properties relates two products of one draft.
* Who acts is left out of the stock modules: `preventSelfApproval` compares two users
  and is in `Access`. Prices, dates (but for lots), remarks, document
  numbers of drafts and validation of references are left out, since no quantity or
  status depends on them. The lot registry (`resolveOrCreateLot`) is left out: a lot is part
  of a balance key.
* `Identity`: a password is right or wrong when it is compared; hashing, TOTP arithmetic,
  rate limits, mails and profile fields are left out. Time is a counter that ticks at any
  moment, so the lengths (lockout, idle, absolute, token life) are a few ticks and only
  their order matters. A request on a session is `ReadSession` and `RequireAuth` (its two
  reads) and, later, `TouchSession`, which writes the time it was let in plus the idle time;
  `touches` is a set, so of requests at the same step a step may take one or all.
* `MasterData`: `name` stands for every path without a rule of its own. A save writes the
  paths that differ from what was read; unique indexes are the database's. A call may be cut
  off between any two of its steps (`Stop`); `cutOff` remembers that it was about to clear the
  other defaults, until they are cleared again.
* `Access`: a refusal for lack of stock is no step, and only buttons call the server.
* `ReceiptForm`: one receipt with one line; reading and saving on the server are one step
  there, since `Procurement` has them apart.
* `Notifications`: BullMQ and the mail service are external. A mail may go out although its
  answer is lost.

## 3. The runs

`tlc -config <cfg> <module>` in this directory; none takes more than about two minutes
with two workers. Deadlock is not checked in any run: the number of documents, edits,
attempts, sessions or stops is bounded (constants `Max...`), and once the bound is
reached and everything is final, nothing is left to do; in the real system too nothing
has to happen when no client calls.

### Postings: `posting` (module `MCStockPosting`)

Two keys with 3 and 0 on hand. Document `d1` takes 2 and 1, `d2` takes 1 from the
first key and gives 1 to the second: alone, `d1` fails on its *second* movement,
after the first was made; after `d2` it succeeds; both write the counter and
both balances, so they conflict. Any call may use either of two idempotency keys, or none.

There are two calls with three attempts each. Two calls are enough for every
conflict (conflicts are pairwise) and for a retried click; three attempts let a call
lose its commit's answer, meet a transient error and still finish, or replay what
its own lost commit did while the other call posts. The run shows `LedgerMatchesBalance`,
`OneMovementPerDocument`, `NumbersAreGapless`, `AllOrNothing`, `NonNegative`,
`SuccessIsPosted`, `PostedIsFinal`, the refinement of `AtomicPosting` (`AtomicallyPosted`)
and `EveryCallEnds`.

*Fairness.* `FairSpec` has weak fairness of `Step(c)` for each call: Node resumes a
continuation whose awaited operation has completed, and driver operations complete or
time out. Nothing is assumed about `TransientError`, `CommitUnknown`, `Crash` or new requests,
and no strong fairness: a call may lose every conflict, and the bound
on attempts is what makes it end. A call ends with a success or with an error; that it
succeeds is neither claimed nor true.

### Lot allocation: `lot_allocation` (module `MCLotAllocation`)

`allocateLots` on every set of up to three rows (`MaxRows`), chosen one by one, with available
0..2 (`MaxQuantity`), expiry none, 1 or 2 and receipt dates 1 or 2 (`MaxDate`), both methods, and every request up to
one more than could be there. Three rows show any non-transitive comparison and a row
between two others; the bounds contain ties, missing dates, empty rows and shortfall.
`AllocationIsComplete` and `AllocationIsOrdered` are stated on the result alone, without
the algorithm's own sort.

### Stock documents

| run | instance | shows |
|---|---|---|
| `fulfilment` (`MCFulfilment`) | one client, one request for 2 over rows of 2 and 1, two issues (or one and its reversal), two returns of up to two lines | `ReservationsNet`, `StockMatchesDocuments`, `RequestMatchesIssues`, `ReturnedAtMostPicked` |
| `fulfilment_netting` (`MCFulfilment`) | one request for 1, an issue and two reversals | a violation of `NothingFromNothing`, below |
| `transfers` (`MCTransfers`) | one client, two transfers (or one and its reversal) of up to two lines in one warehouse, so that lines may go opposite ways, in both policies | `StockMatchesTransfers`, `ReversalUndoes` |
| `corrections` (`MCCorrections`) | one client, two rows; together at most three of: adjustments of two lines, counts of two lines, their reversals, an edit, a row moved by another posting; in any order, also between the snapshots of two rows | `StockMatchesCorrections`, `CountSetsBalance`, `ResultIsRecorded` |
| `procurement` (`MCProcurement`) | one client, an order with lines for two products, two receipts (or one and its reversal) that may accept more than was ordered, edits that change a receipt's order, goods used meanwhile | `StockMatchesReceipts`, `StatusMatchesReceived`, `OrderMatchesReceipts` |

With one client, calls follow one another and the handlers come in every order.
That is the world in which most of these properties hold: with two clients, stale saves
break what relies on a posted document staying as it is (further configurations, below,
where the properties that survive stale saves are checked with two clients as well).

In `fulfilment` the row that expires first is stored second, so that reserving (by `_id`)
and picking (FEFO) start at different ends. Two issues contain an issue and its reversal, two
partial issues, and an issue beside one still being picked; two returns exhaust what was
picked. In `corrections` an adjustment moves one row twice, in either order, or two rows; three
happenings are a document, its reversal and something in between (`MaxTogether`), and counting 2
over balances below, at and above it gives variances of every sign. A count may select a row
twice too; then each line posts its own variance, and `CountSetsBalance` speaks of rows selected once,
since nothing in the repository says what a repeated selector should do.

### Who may do what, and what the pages offer: `access` (module `MCAccess`)

An administrator, a store manager and a third person who starts as a requester and may be
given the roles of a clerk, of an auditor and requester, or none. `doc` runs through every
status of every kind of document and record but the purchase order, whose page disagrees
with its service (below); every page of every person may be an old copy, and what the
client was told may be an old role. Three people are enough for a creator, an approver and
somebody who may do neither. `OfferedIsAccepted` speaks of up-to-date pages: what they
offer is accepted by the route's permission and the service's status table, except the
approval of one's own document. `NothingStuck`: while the service would still move the
document on, somebody in the team is shown a button for it that works.

### Accounts: `identity` (module `MCIdentity`)

One account, two concurrent calls, in five scenarios: a sign-in with a second factor beside
another verification or an administrator's edit; a sign-in beside resets and changes of
status; a session with two requests on it at a time, used, left, and ended by changes of the
account; two sessions at once, one of which may end the other; two resets at once. Each
scenario has its own bounds on sessions, requests at a time and the clock (`until`, 2 or 3).
Two failures lock; a lock and a token last one tick, an unused session two and a session at
most three: that is enough for each to end before, between and after two steps of a call, and
for a session that is used to outlive its first idle time. One recovery code, two
tokens, one challenge.

The run shows that a recovery code signs in once (`RecoveryCodeOnce`: mongoose's version check
on the replaced array is what does it), that an ended session never lets anyone in again
although touches come late (`EndedForGood`), and that nobody locked, deactivated or archived is
let in again by a call that read the account before (`OutStaysOut`). A session has ended when
it was revoked, when it has reached its absolute age, or when it has lapsed for want of use and
no touch of an earlier request is left that could still count: since a touch is not awaited, one that arrives
after the lapse does bring the session back, for what is left of that request's idle time.
`EndedForGood` allows exactly this.

### Master data: `master_data` (module `MCMasterData`)

Two concurrent requests, each of which may be cut off between two steps, over one small set of records per scenario: warehouses with and without a
default, locations in a warehouse, a category and a product for it, two products whose
barcodes are edited, a tree of three categories, roles with a system role, and two records of
each remaining kind. Two codes and two barcodes are enough for a clash and its avoidance.
Shown: `KeysUnique`, `OneDefault`, `ExpiryNeedsLots` and `ArchivedIsFinal`, each although the
checks are done on an earlier read than the save; the unique indexes and the comparison of
paths in `save()` are why. `OneDefault` is about requests that overlap: `save()` and
`clearOtherDefaults` are two operations without a transaction, and a request that is cut off
between them leaves two defaults (`OneDefaultAnyway`, below) until another one is made the default.

### The receipt form: `receipt_form` (module `MCReceiptForm`)

Two warehouses with a location each and an order for one of them; one tab that fills in every
field but the notes, or two tabs of which one links and moves the receipt while the other changes the
notes. Answers may arrive at any moment, from any earlier state of the server; orders and the
receipt change meanwhile. `LinkedOrderIsOfWarehouse` is about what is stored: the service
checks that order and warehouse exist, and it is the form that keeps them together. That the
lines are for locations of the warehouse the service checks itself, where it gets the lines
(`resolveItems`); the form always sends them. Another caller need not: an update that names a
warehouse alone breaks both (`PatchedSpec`, below). `EditKeepsTyping`: in an edit form no answer
overwrites what was typed or chosen; to choose a warehouse is to choose no order as well, since
the page then unlinks it.
`FreshSaveKeepsTheRest`: a form filled from the receipt as it still is changes only
what was filled in by hand.

### Worker, lock, migrations: `platform` (module `MCPlatform`)

Two notification calls, one for a user the worker finds and one for a user it does not, and two
workers; three holders of a lock, so that a key can pass to a second holder and on to a third while the
first still works; two runs of three migrations at a time, two of which write the same thing.
`Attempts = 5` is the code's; one stall per job is BullMQ's default. Two stops are enough to
lose a job in the middle of a retry, four runs of the migrations to stop twice and finish.
Shown: `CompletedWasSent`, `RecordedIsDone`, `EveryJobSettles`, `OnlyOwnReleased`.

*Fairness.* `MailSpec` has weak fairness of `WorkerStep(w)` and `QueueStep(c)`: a worker
runs or is started again, and the queue's timers elapse. A mail service may fail every time; then
the bound on attempts settles the job. The API may stop for ever, and nothing is claimed about
its calls.

### A disagreement between code and documentation

`fulfilment_netting` is expected to fail. It checks "Reversal preserves the original and nets
correctly" (`SYSTEM_DOCUMENTATION.md:1400`) as `NothingFromNothing`: an issue keeps its
status `posted` when it is reversed and a reversal has it from birth, which is all that
`reverseStockIssue` asks for, so both can be reversed again: stock from nothing.

### Further configurations

Not among the regular runs, to be run by hand. These pass:

| configuration | property | instance |
|---|---|---|
| `MCFulfilmentRaces` | `ReturnsCounted` | two clients, two issues and two returns, despite stale saves |
| `MCTransfersRaces` | `StockConserved` | two clients, three transfers between two warehouses, even when a stale save makes a transfer happen twice |
| `MCCorrectionsRaces` | `MaterialMatchesLines`, `ResultIsRecorded` | two clients, an adjustment and a count of one row with an edit, another posting |

So do, with the constants of the run's configuration and the property in place of its
properties:

* `TypeOK` of every module (`AccessTypeOK`, `FormTypeOK` and, in `MCPlatform`, `MailTypeOK`,
  `LockTypeOK` and `MigrationTypeOK`);
* the inductive invariants of the proofs: `IInv` with `MCStockPosting`, `MCIdentity`,
  `MCMasterData`, `MCProcurement`, `MCFulfilment`, `MCTransfers`, `MCCorrections` and
  `MCCorrectionsRaces`, `ReceiptFormInv` with `MCReceiptForm`, `AccessInv` and `Staffed` with
  `MCAccess`, `PlatformInv` with `MCPlatform`, `CrossedInv` with `MCFulfilment`,
  `MCFulfilmentRaces` and `MCFulfilmentStale`, `FreshInv` with `MCTransfers` and `MCCorrections`;
* `OneAtATimeInv` and `NoStaleSave` with `MCProcurement`, `MCFulfilment`, `MCTransfers` and
  `MCCorrections`;
* `FreshInv`, `CountSetsBalance` and `PostedCorrectionUnchanged` with `MCCorrectionsRaces`, when
  only steps are taken that keep `NoStaleSave` (an action constraint);
* `IInv` and `ReversalUndoes` with `MCTransfersRaces`;
* `HeldOnlyWhenApproved`, `ReturnsCounted`, `IssueTransitions` and `PostedIssueUnchanged` with
  `MCFulfilment`, `TransferTransitions` and `StockConserved` with `MCTransfers`,
  `VarianceIsCurrent` and `MaterialMatchesLines` with `MCCorrections`, `DocumentTransitions` with
  `MCProcurement`;
* `ComparatorIsTotal` with `MCLotAllocation` (why the result does not depend on the database's
  order) and `MailedIsStored` with `MCPlatform`.

The following end with a counterexample. Each states what a document, a comment or a table of the
repository says, and stands at the end of its module or, for `StockPosting` and some of the
document models, under "What the documents of the repository say and the code does not do".
TLC stops at the first one it finds, so name one property at a time.

| configuration | property | what the code does |
|---|---|---|
| `MCFulfilmentRefuted` | `AvailableNotNegative` | posting an issue tests on hand, not on hand less reserved, and a picker may exceed what was approved: stock reserved for others is issued |
| | `RequestTransitions` | posting an issue of a cancelled request makes the request fulfilled |
| `MCFulfilmentHeld` | `FulfilledHoldsNothing` | a request is fulfilled by totals while one line still holds a reservation, which nothing releases any more |
| `MCFulfilmentRepeated` | `FulfilledIsIssued` | two lines for one product are both fulfilled by the same issued units |
| `MCFulfilmentStale` | `ReservationsNet` | a stale save of a request overwrites an approval; the reservation is claimed by no line |
| | `PostedIssueUnchanged` | an edit that read a draft changes the items of the issue after it was posted |
| | `IssueTransitions` | a stale pick or cancellation overwrites `posted`; the issue can then be posted again |
| `MCTransfersRefuted` | `TravellingIsInTransit` | an approved transfer is received although it was never posted, out of another one's goods |
| | `TransferTransitions` | a stale submit or approve overwrites a posted transfer's status |
| | `ReversedOnce` | a transfer can be reversed twice |
| `MCCorrectionsRaces` | `LastResultIsRecorded` | two lines on one balance record a resulting quantity that never was |
| | `PostedCorrectionUnchanged` | an edit that read a draft replaces the lines of a posted adjustment |
| | `VarianceIsCurrent` | with two clients, a late entry changes a counted quantity after the variances were computed |
| `MCProcurementRefuted` | `NotOverReceived` | over-receipt is not blocked |
| | `ReceivedWhileApproved` | a receipt is posted against an order cancelled since it was drafted |
| | `DocumentTransitions` | with two clients, a stale verify makes a posted receipt postable again |
| | `EditedWhileDraft` | an edit that read a draft replaces the lines of an approved order |
| `MCAccessRefuted` | `OfferedIsAccepted` | the order's page offers to cancel a partially received order, which the service refuses |
| | `FormsCanBeFilled` | a requester may create a request but not read the lists its form is filled from |
| | `ApprovalsCanBeGiven` | the approvals page lists one's own documents too, whose approval is refused |
| `MCStockPosting` | `AuditedWithPosting` | the audit event is written after the commit, outside of it |
| `MCIdentity` | `TokenUsedOnce` | two resets read the same unused token, and both set a password |
| | `LockIsTemporary` | once the lock has ended, the right password is refused because the status is still `locked` |
| | `UserTransitions` | a failed login locks an account that is only invited, for which `userStatus.ts` has no arrow |
| `MCMasterData` | `OnePrimary` | two edits of a product without barcodes add one each, both primary |
| | `NoCycles` | only the parent itself is compared, not its ancestors, and two edits can do it too |
| | `OneDefaultAnyway` | a request that stops, or whose `updateMany` fails, after it has saved a default leaves the other default too |
| | `ArchivedNotModified` | an edit that read the record before writes its paths after the archiving |
| | `DefaultRemains` | two requests that make a default clear each other's |
| `MCReceiptForm` | `SaveKeepsTheRest` | a form sends all its fields, so it undoes what was changed since it was filled |
| | `LinesAreInWarehouse`, `LinkedOrderIsOfWarehouse` | with `PatchedSpec` as the specification: an update that names another warehouse without items leaves the lines and the order at the old one |
| | `TypingIsKept` | in a new form opened from an order, the order's late answer replaces what was typed |
| `MCPlatform` | `Exclusive` | a holder whose key has expired still works when the next one starts |
| | `MailedOnce` | a mail whose answer was lost, or whose worker stopped, is sent again |

Most of them have one cause: a handler without a transaction saves what it decided on an
earlier read, with neither a status filter nor a version check that would notice another call.

## 4. The proofs

`tlapm <module>` checks a module's proofs; from nothing, `Fulfilment_proofs` takes about seven
minutes and none of the others more than three. Every theorem is for **every** value of
the constants that the named assumptions allow: any number of calls, documents, lines, balance
rows, products, people, tabs, workers and so on, and any bound on attempts or documents. The `Max...`
bounds of the runs are constants like the others, so they limit nothing in a theorem.

`StockPosting_proofs` - the posting protocol:

| theorem | statement | in words |
|---|---|---|
| `InductiveInvariant`, `TypeCorrect` | `Spec => []IInv`, `[]TypeOK` | |
| `PostedOnce` | `Spec => []OneMovementPerDocument` | no movement is booked twice, whatever is retried |
| `StockNeverNegative` | `Spec => []NonNegative` | concurrent postings never take more than there is |
| `SuccessMeansPosted` | `Spec => []SuccessIsPosted` | a success answer means a posted document |
| `NoPartialPosting` | `Spec => []AllOrNothing` | a document is posted wholly or not at all |
| `Final` | `Spec => PostedIsFinal` | what is committed stays |
| `ImplementsAtomicPosting` | `Spec => AtomicallyPosted` | the protocol implements the abstract posting |
| `LedgerInvariant`, `LedgerIsTheBalance` | `Spec => []LedgerInv`, `[]LedgerMatchesBalance` | the rows of a key sum up to what its balance changed by |
| `NoGaps` | `Spec => []NumbersAreGapless` | committed rows are numbered 1, 2, 3, ... |

`Fulfilment_proofs` - lot allocation, requests, issues and returns:

| theorem | statement | in words |
|---|---|---|
| `ComparatorIsTotalOrder` | any rows with ids of their own are totally ordered | picking does not depend on the database's order |
| `AllocationIsAllThereIs` | any rows, any demand | all that is there up to the demand, the rest is shortfall |
| `AllocationIsEarliestFirst` | any rows, any demand | a row is touched when every earlier one is exhausted |
| `SelectionAllocatesAll`, `SelectionIsInOrder`, `SelectionIsSorted` | `Selects => []AllocationIsComplete`, `[]AllocationIsOrdered`, `[]ComparatorIsTotal` | the same, of the run's specification |
| `FulfilmentInvariant` | `Spec /\ NoStaleSave => []IInv` | |
| `FulfilmentTypes` | `Spec => []TypeOK` | no balance, reservation or quantity is negative, however calls cross |
| `ReturnsAreCounted` | `Spec => []ReturnsCounted` | returned is what posted returns brought back, however calls cross |
| `ReservationsAreHeld` | `Spec /\ NoStaleSave => []ReservationsNet` | what rows have reserved is what lines hold |
| `BalancesMatchDocuments` | `Spec /\ NoStaleSave => []StockMatchesDocuments` | balances are what posted documents say |
| `RequestsMatchIssues` | `Spec /\ NoStaleSave => []RequestMatchesIssues` | fulfilled is what was issued and not reversed |
| `NothingReturnedTwice` | `Spec /\ NoStaleSave => []ReturnedAtMostPicked` | no more comes back than was picked |
| `HeldAsApproved` | `Spec /\ NoStaleSave => []HeldOnlyWhenApproved` | stock is held back for approved requests, and no more than approved |
| `NoneIsStaleAlone` | `OneAtATime` implies `Spec => NoStaleSave` | see below |
| `IssuesMoveOn` | `OneAtATime` implies `Spec => IssueTransitions /\ PostedIssueUnchanged` | the status table is kept, posted items stay |

`Transfers_proofs` - transfers:

| theorem | statement | in words |
|---|---|---|
| `TransfersInvariant`, `TransferTypes` | `Spec => []IInv`, `[]TypeOK` | no balance is ever negative, whatever lines a transfer has |
| `GoodsAreConserved` | `Spec => []StockConserved` | goods are neither made nor lost, even by stale saves |
| `ReversalsUndo` | `Spec => ReversalUndoes` | a reversal is the exact opposite of its original |
| `FreshTransfers` | `Spec /\ NoStaleSave => []FreshInv` | the status tells what has happened to a transfer |
| `BalancesMatchTransfers` | `Spec /\ NoStaleSave => []StockMatchesTransfers` | each transfer took effect once, at its own locations |
| `NoneIsStaleAlone` | `OneAtATime` implies `Spec => NoStaleSave` | see below |
| `TransfersMoveAlong` | `OneAtATime` implies `Spec => TransferTransitions` | the status table is kept |

`Corrections_proofs` - adjustments and counts:

| theorem | statement | in words |
|---|---|---|
| `TypeCorrect` | `Spec => []TypeOK` | no balance is ever negative |
| `MaterialIsCurrent` | `Spec => []MaterialMatchesLines` | the flag for elevated approval is that of the lines as stored |
| `ResultsAreRecorded` | `Spec => ResultIsRecorded` | a recorded resulting quantity is what the posting left |
| `FreshCorrections` | `Spec /\ NoStaleSave => []FreshInv` | |
| `BalancesMatchCorrections` | `Spec /\ NoStaleSave => []StockMatchesCorrections` | each document moved each balance once |
| `VariancesAreCurrent` | `Spec /\ NoStaleSave => []VarianceIsCurrent` | a variance is that of the counted quantity |
| `CountsSetBalances` | `Spec /\ NoStaleSave => CountSetsBalance` | an undisturbed balance ends at what was counted |
| `NoneIsStaleAlone` | `OneAtATime` implies `Spec => NoStaleSave` | see below |
| `PostedStays` | `OneAtATime` implies `Spec => PostedCorrectionUnchanged` | the lines of a posted document stay |

`Procurement_proofs` - orders and receipts:

| theorem | statement | in words |
|---|---|---|
| `ProcurementInvariant`, `ProcurementTypes` | `Spec /\ NoStaleSave => []IInv`, `[]TypeOK` | |
| `BalancesMatchReceipts` | `Spec /\ NoStaleSave => []StockMatchesReceipts` | balances are what posted receipts brought, less what was taken |
| `StatusSaysWhatCame` | `Spec /\ NoStaleSave => []StatusMatchesReceived` | the receiving status tells how much came |
| `OrdersMatchReceipts` | `Spec /\ NoStaleSave => []OrderMatchesReceipts` | received is what posted receipts accepted |
| `NoneIsStaleAlone` | `OneAtATime` implies `Spec => NoStaleSave` | see below |

`Identity_proofs` (accounts, the platform, the receipt form) and `MasterData_proofs` (master
data, pages). Each part has its inductive invariant and its types first: `IdentityInvariant`,
`IdentityTypes` and so on (`Spec => []IInv`, `PlatformSpec => []PlatformInv`,
`FormSpec => []ReceiptFormInv`, `AccessSpec => []AccessInv`):

| theorem | statement | in words |
|---|---|---|
| `RecoveryCodesOnce` | `Spec => []RecoveryCodeOnce` | a recovery code signs in once |
| `EndedSessionsStayEnded` | `Spec => EndedForGood` | neither a late touch nor any other step lets anyone in on an ended session |
| `OutStays` | `Spec => OutStaysOut` | nobody locked or deactivated gets back by an old read |
| `KeysAreUnique` | `Spec => []KeysUnique` | codes and barcodes stay unique |
| `OneDefaultWarehouse` | `Spec => []OneDefault` | one default once no clearing is pending, or was cut off |
| `ExpiryTracksLots` | `Spec => []ExpiryNeedsLots` | the flags fit, though edited by calls that overlap |
| `ArchivedStays` | `Spec => ArchivedIsFinal` | no stale save brings a record back |
| `LinkedToItsWarehouse` | `FormSpec => []LinkedOrderIsOfWarehouse` | a saved receipt and its order are for one warehouse |
| `TypingSurvives` | `FormSpec => []EditKeepsTyping` | no answer takes back what was typed |
| `FreshSaves` | `FormSpec => FreshSaveKeepsTheRest` | a fresh form changes what was filled in, no more |
| `MigrationsRecordedWhenDone` | `PlatformSpec => []RecordedIsDone` | a recorded migration was made |
| `CompletedJobsAreSent` | `PlatformSpec => []CompletedWasSent` | a completed job has sent its mail |
| `MailedTokensAreStored` | `PlatformSpec => []MailedIsStored` | what is mailed is stored before |
| `LockKeptFromOthers` | `PlatformSpec => OnlyOwnReleased` | nobody releases another one's lock |
| `ButtonsAreHonoured` | `AccessSpec => []OfferedIsAccepted`, without the order's page | what an up-to-date page offers is accepted, whatever roles people have |
| `NobodyIsStuck` | `Staffed` implies `AccessSpec => []NothingStuck` | somebody sees the button that moves the document on |

### Assumptions

Each is an `ASSUME` of the model's module, which TLC evaluates in the runs:
`ConstantsAssumption`, `FulfilmentAssumption`, `ProcurementAssumption`, `SelectionAssumption`
and the like give the constants' types (quantities are natural numbers, one that is asked for
is not zero, `None` is none of the values it stands beside). Four say more:

* `EveryDocMoves`: a document moves something; the service refuses one that does not.
* `SeedAssumption`: the records that are there from the start obey what the services keep -
  keys unique, one default, expiry only with lots.
* `AccessAssumption`: people have roles of the catalogue's system roles.
* in `ReceiptFormAssumption`: where there are orders there are suppliers and products, since
  an order names them.

`ButtonsAreHonoured` and `NobodyIsStuck` have a hypothesis of their own. The first is about page
kinds other than the order's, whose page is the one that disagrees with its service (`MCAccessRefuted`).
The second asks for `Staffed`: two people keep a role that approves, whatever other roles come and
go, one of them an administrator. One approver would not do: nobody approves an own document, and
a transfer that is submitted can be approved but not rejected.

Finite sets: sequences of documents are finite, and lines and rows are `1..NumLines` and
`1..NumRows`. `TransfersAssumption` says that there are finitely many locations, since
`StockConserved` sums over them; nothing is assumed about the size of any other set.

*When no save is stale.* Edits, picks, cancellations and other handlers without a transaction
save what they decided on an earlier read. `MCFulfilmentStale`, `MCProcurementRefuted`,
`MCTransfersRefuted` and `MCCorrectionsRaces` show that what the documents say then comes apart:
an approval is overwritten, a posted issue is posted again, a posted adjustment gets other lines.
So the theorems of the document models marked above have the
hypothesis `NoStaleSave`: when a call saves, what it checked of *its* document still
holds (`StillAllowed`: the document has a status that allows the operation; for a submitted
count also that the variances to be saved are those of the quantities as stored). Calls overlap
freely otherwise: they may read, approve, issue, return and post other documents between the
two steps, and the same one as long as its status still allows the save. The code does not see
to `NoStaleSave`; `NoneIsStaleAlone` proves that it holds in every behaviour in which calls
come one at a time (`OneAtATime`), so that the theorems then need no hypothesis. What
`NoStaleSave` would all but assume - that a status moves along its table and posted lines
stay - is stated for such behaviours only (`IssuesMoveOn`, `TransfersMoveAlong`, `PostedStays`);
where calls overlap the code breaks it, as those configurations show.
`OneAtATimeInv` is the invariant behind it. No other module's theorems need it.

### The inductive invariants

Each `IInv` stands at the end of its model's module (`LedgerInv` in `StockPosting_proofs`),
and TLC checked it with the constants of the module's run before it was proved.

*StockPosting.* None of the safety properties is inductive alone, because a commit copies a
transaction's view into the store, and a view is arbitrary unless something is said about it.
`IInv` says it, per open transaction:

* `WrittenSoFar`: the write set is determined by how far the call has come;
* `ViewIsCurrent`: a document it has not written looks as committed, unless someone committed
  it since (then it is in `missed`, and writing it is a conflict); and a posted status or a
  stored result seen in it is committed for good;
* `WritesAreOnePosting`: what it wrote is the committed value plus this document's movement,
  of a document that is *still* unposted;
* `WritesAreExclusive`: no two open transactions have written one document, and nothing a
  transaction has written is in its `missed`.

Then a commit is either empty (a replay) or exactly one posting of an unposted document. The
hard case is another call's commit: it must not touch what this one has written (exclusive)
and moves what it had only read into `missed`. `Frame`, `CallStep`, `WriteStep`,
`EndOfAttempt`, `CommitStep` and `OtherCommits` are the lemmas that state each kind of step
once. `ImplementsAtomicPosting` maps `onHand` to the committed balances and `posted` to the
documents with status posted; a commit that writes is `Post(d)`, every other step stutters.
`LedgerInv` adds, on top of `IInv`, what a view says about ledger rows and numbers: a
transaction that has written the counter extends the committed ledger by rows of its own, and
no other one then does; so the committed ledger grows by whole documents, and its sum and its
count with it.

*Fulfilment and Procurement.* The properties that equate balances, reservations and received
quantities with sums over documents are conjuncts of `IInv`, since each step preserves one
only by way of the others: the sums change because a document is posted, and the balances by
what its lines say. Needed besides: that reservations rest on requests that were approved,
that a reversal and its original are posted, that a returned quantity is zero until then, that
what a call will save (`CallInv`) refers to documents that exist. For `reserveStock`,
`releaseReservedStock` and `allocateLots` one lemma about the greedy loop suffices: `Spread`
takes `min(wanted, what there is)` in sum and at most what each row has; what a release finds
is at least what it releases, because of `ReservationsNet` itself.

What holds of requests, issues and returns however calls cross is `CrossedInv`: types, that calls
and documents refer to documents that exist, and `ReturnsCounted`, which survives every save over
an issue because a late edit assigns only the row and the picked quantity of an item, and a late
pick or cancellation only the status.
`HeldWithin` is what `HeldOnlyWhenApproved` needs besides `IInv`: no line holds more than was
approved of it, whether quantities are approved, issued, reversed or cancelled.

*Transfers.* `IInv` is what holds however calls cross, and needs no sum over documents: lines
and calls are well-formed, balances are natural numbers, and their sum over all locations is the
opening one. A posting that passes `Bearable` line by line leaves every balance natural
(`BearableIsCovered`), and what its lines take in all is what they bring in all (`Balanced`, by
`SumGrouped`: a sum over lines is the sum over locations of each location's lines). `FreshInv`
adds what no stale save leaves true: the status tells whether a transfer was posted and received
(`Happened`), so that posting, receiving and reversing each bring a transfer into the sets whose
sums make up the balances for the first time (`Joins`, `StillMatches`). A transfer that was only
approved may be received (the table allows it); `StockMatchesTransfers` survives that.

*Corrections.* The same division. `IInv` holds however calls cross: balances are natural
numbers, the flag for elevated approval is that of the lines, and a snapshot of a count, stored or
still being taken, is no newer than its balance and says what is on hand for as long as the
balance has the version it was taken at (`Snapshot`). `FreshInv` adds `StockMatchesCorrections`,
`VarianceIsCurrent` and that a count that was submitted has every line counted; posting books its
variances, so the balances follow from them. Posting tests its lines one after the other; what it comes to is a sum
over them by balance (`Net`). `ResultIsRecorded` is about one step: what a line's posting
finds is the balance moved by the lines before it, which is the balance itself for a row's only
line.

*Access.* `AccessInv` says that people keep the roles they keep (`Keeps`) and that pages
show documents of their kinds. The rest are tables: lemmas go through them kind by kind and
compare each button with the route's permission and the service's statuses (`EveryButton`),
find a button out of each unfinished status (`EveryKindMovesOn`) and see that administrators may
open each page (`EveryKindIsSeen`). Roles enter only there, since the other lemmas speak of
permissions; the second person of `Staffed` is needed for an own transfer alone.

*Identity.* A call's copy of the user has the version of the read; at the same version it has
the user's recovery codes, so a code that the version check lets through is unspent. Sessions
keep their absolute end, and a touch writes only the end of the idle time of the request it
belongs to; a session that has lapsed with no such touch left that reaches beyond now is found
open by no request, so it never gets one.

*MasterData.* A call knows a document of the record's kind and asks for nothing that moves it
to another kind, warehouse or status; thus a save writes no path a property depends on but
through the checks and unique indexes.

*ReceiptForm.* An edit form holds what was typed where something was, and what it was filled
from elsewhere; an order in a form has the form's warehouse, or comes before there is one;
every cached copy, however old, is a receipt that was stored.

*Platform.* A job that is completed, or will be, has its mail among the mails sent; a token is
stored before its job exists; a run of the migrations has recorded all that comes before the
one it is at.

### How sums and loops are proved

The models sum with `SumFunctionOnSet` and loop with `FoldLeft` of the community modules,
which recurse over sets and positions. `Sums` unfolds the recursion once (`SumUnfold`) and
proves every fact about all finite sets by contradiction from a smallest set without it
(`MinimalSubset`, from the library's theorem that strict inclusion is well-founded on finite
sets): no induction theorem with an operator parameter is needed. What the proofs cite are
adding and removing an element, changing one summand, equal and greater summands, images, and
sums by groups.
The loops of `LotAllocation` are treated the same way by their last position. The operators
`@@`, `:>` and `SortSeq` of the standard module TLC have no definition a proof can expand:
`MasterData` and `ReceiptForm` define the first two themselves, `Permissions` a `++` of its own, and
`Sorted` is the one order
in which the comparator puts the rows; `ComparatorIsTotalOrder` is what makes it unique.

### Only model-checked

Every safety property of every passing run is stated by a theorem. What remains for TLC:

* `EveryCallEnds` and `EveryJobSettles`: liveness under fairness is outside of what the prover
  handles.
* What is refuted is refuted by TLC's counterexamples.

## 5. Not modelled, and the plan

Not modelled:

* reports, the read-only queries and lists, health and metrics: they change nothing;
* routing, request validation, CSRF, cookies and rate limits: glue of the framework, whose refusals
  leave the state alone (the permissions and idempotency keys that routes ask for are in `Permissions`);
* prices, totals and taxes of orders, remarks and other fields that no quantity or status
  depends on;
* the registry of lots (`resolveOrCreateLot`): a lot is part of a balance key;
* the web forms other than the receipt's, which is the longest: they repeat its pattern (a query's
  answer fills the form once, the whole form is sent); of the others, `Pages` has the lists they need, the
  buttons and the statuses they are shown in;
* layout, styles, formatting, generated and build files.

Next: the registry of lots under concurrent receipts.
