# A formal model of idarax

idarax is a multi-tenant point-of-sale back end (NestJS and Prisma on
PostgreSQL, Bull on Redis, in `src/src/`) with a Next.js client
(`src/idarax_web/`). This directory holds TLA+ modules of the part of it that keeps
state several actors write: orders and their money, the stock and its documents,
fiscal numbers, cash drawers, the tables of the dining room, loyalty accounts, and the
signed-in session between server and browser. TLC configurations check them on small instances, and TLAPS
proves theorems about them for every value of the constants.

Paths below are relative to `src/src/` unless they start with `src/`.

## 1. The system

### Components, their state, and what makes each correct

| Component | State | Operations | Correct when |
|---|---|---|---|
| OrderService `order/order.service.ts` | Order, OrderItem, Payment, StockLevel, StockMovement, Table.status | createDirect (new order or append to a table's), updateStatus / hold / fire, assignTable, voidOrder, voidItem, firePreOrder, splitBill, repeatOrder | stock and ledger agree; a line leaves stock once and comes back at most once; totals, payments and the drawer agree; the kitchen hears of every order |
| RefundService `order/refund.service.ts` | Refund, RefundItem, order and line status, stock | refundOrder, refundItem | no more money or stock goes back than came in |
| Pre-order queue `order/pre-order.processor.ts` | Bull jobs (delayed, active, completed, failed) | fire-pre-order, 3 attempts with backoff | an order is fired once, or its job is marked failed |
| NumberingService `order/numbering.service.ts` | ReceiptCounter (tenant, branch, day), InvoiceCounter (tenant, day) | nextReceiptNumber, nextInvoiceNumber, both inside createDirect's transaction | invoices of a day have no hole and no repetition; receipts follow each other |
| TableService `restaurant/table/table.service.ts` | Table.status, merges | checkout, moveOrder, mergeTables, unmergeTable, update | table status follows the orders at it; the tills' orders for a table are one; a move ends at a free table |
| KdsService `restaurant/kds/kds.service.ts` | OrderItem.status, socket events | updateItemStatus, stations | kitchen status never disturbs refunds and stock |
| DrawerService `staff/drawer.service.ts` | DrawerSession, CashMovement | open, close, addMovement, recordSaleByTenant, recordRefundByTenant | the expected balance counts every movement once |
| PrismaService `prisma/prisma.service.ts` | connection pool, tenant context (AsyncLocalStorage) | injects tenantId and branchId, redirects findUnique | a query sees the tenant's rows and the caller's transaction |
| Inventory, Transfer, PurchaseOrder, Audit, Serial `retail/*` | StockLevel, StockMovement, documents | adjust, stocktake, complete a transfer, receive an order, commit an audit | level and ledger agree; a document is applied once |
| CrmService `crm/crm.service.ts` | Customer.points, totalSpend, tier | earn, redeem, referral | points are earned once an order and never spent twice |
| OfferService `retail/offer/offer.service.ts` | PromoCode.usedCount, redemptions | validate, logRedemption | a code is used at most maxUsages times |
| Auth `auth/*` | UserSession, token blacklist (Redis) | login, refresh, logout, revoke one or all | a session has one usable token, a revoked one none |
| Shifts, attendance, schedule `staff/*` | one open row per user | clock in, clock out | at most one open row |
| Web client `src/idarax_web/src` | tokens in cookies and localStorage, isRefreshing and failedQueue of a page, cart, offline queue | requests and their retries, sign in and out, checkout, enqueue, flush | every request is settled; a device with a live session stays signed in; every order posted once |
| PublicService, SyncService, OrderProcessor | Order rows from other doors | web order, batch upload, createAsync | the same as OrderService |

Administration, catalogue, reporting, analytics, notifications, CMS, ZATCA and
the courier are CRUD, read-only or outgoing calls.

### How they interact, and what is hard

* **Calls inside a transaction.** createDirect runs in one interactive
  transaction at READ COMMITTED; nothing retries it. Reads lock nothing, so
  between the read and the write any other request may commit.
* **Effects that escape it.** recordSaleByTenant and recordRefundByTenant use
  the service's own connection; kitchen events go out over a socket; the
  pre-order job goes to Redis. None of them is undone by a rollback.
* **Handlers without a transaction.** updateStatus is five awaits (read, Payment,
  drawer, order, table), moveOrder two reads and three rows, checkout one update per order and one for the table,
  firePreOrder a read, a status write and a write per stock row. openDrawer counts
  and then inserts, closeDrawer sums and then closes, receiveOrder adds line by line,
  refreshToken finds, blacklists and rotates.
* **A client that retries.** One 401 interceptor per tab, with a queue; two tabs share
  the cookies; a page load drops the promises but not the server's work on them.
* **The worker has no tenant.** A Bull job runs outside any request, so the Prisma
  extension injects no tenantId, and a row whose tenantId is required is refused.
* **Locks.** The receipt counter row serialises the new orders of a branch, the
  invoice row those of a tenant, the order row the writers of an order.

## 2. Modules

| Module | What it is |
|---|---|
| `StockLedger` | abstract: what a stock writer promises about StockLevel and StockMovement |
| `Orders` | the order desk of a branch: orders, lines, stock, money, tables, jobs, requests in flight |
| `MCOrders` | two lines, two products, prices and recipes for TLC |
| `OrdersProofs` | theorems about Orders: types, ledger, kitchen |
| `OrdersBooksProofs` | theorems about the money and stock of Orders: totals, payments, drawer, deductions |
| `InvoiceBook` | abstract: what the tax authority is promised about invoice numbers |
| `Numbering` | NumberingService inside concurrent createDirect transactions |
| `MCNumbering` | three requests with a branch, one without |
| `NumberingProofs` | theorems about Numbering |
| `Drawer` | DrawerService: sessions opened, closed and searched by concurrent calls |
| `MCDrawer`, `DrawerProofs` | one branch beside the tenant's own scope; theorems |
| `Inventory` | adjustments, stocktakes, transfers, purchase orders and sales over StockLevel rows with row locks |
| `MCInventory`, `InventoryProofs` | three rows, a transfer and a purchase order; theorems |
| `Customers` | loyalty points, spend, tiers and referrals under concurrent transactions |
| `MCCustomers`, `CustomersProofs` | a customer and the one who brought it; theorems |
| `Sessions` | the server side of signing in: UserSession rows, jtis, the Redis blacklist; `ServerSpec` is that server by itself, before clients that send anything |
| `WebClient` | tabs, cookies and the response interceptor; extends `Sessions`, so the two are composed, and implements `ServerSpec` |
| `Floor` | the tables of a branch and every handler that seats an order or writes Table.status |
| `MCFloor`, `FloorProofs` | two tables, two requests in flight for TLC; theorems |
| `MCWebClient`, `WebClientProofs` | two tabs and a call from elsewhere; theorems about both sides |

### Orders and the code

A request is a record in `reqs`: which handler (`op`), where it is (`at`), and
what it read and still needs. A handler that runs in a transaction is a *read*
step and a *commit* step; whatever it does outside the transaction is a step
between them; a handler without a transaction has a step for each write.

| Code | Actions |
|---|---|
| createDirect | `CreateDirectRead` (the table's open order, the inputs), `CreateDirectWrite` (row and counter lock taken; drawer movement, kitchen ticket or job go out), `CreateDirectCommit` |
| updateStatus, holdOrder, fireOrder | `StatusRead`, `StatusPay`, `StatusTill`, `StatusWrite`, `StatusTable` |
| assignTable | `AssignRead`, `AssignWrite` |
| voidOrder / voidItem | `VoidRead`, `VoidCommit` / `VoidItem` |
| refundOrder, refundItem | `RefundOrderRead`, `RefundItemRead`, `RefundTill`, `RefundOrderCommit`, `RefundItemCommit` |
| TableService.checkout | `CheckoutRead`, `CheckoutOrder`, `CheckoutTable` |
| KdsService.updateItemStatus | `UpdateItemStatus` |
| firePreOrder in the Bull worker | `FireRead`, `FireUpdate`, `FireDeduct`, `FireNotify`; `FireError` (a thrown error), `FireStall` (the worker dies) |
| error, rollback, transaction timeout, crash | `Fail` |

Abstractions, and what they rest on:

* Stock is kept in units per product. A recipe is the constant `Load`, the stock
  that a set of lines takes at its leaves; fractional recipe quantities are not
  modelled. All lines are in one branch with one stock row per product.
* Money is an integer number of units; tax, discounts and modifiers are part of
  `Price` and `Bill`. All payments are in cash with a drawer open, so that the
  drawer is concerned by every one. `paidAmount` is one of a few amounts, the
  bill of the cart, or the balance of the table, which is what the till sends
  (`src/idarax_web/src/hooks/usePOSCheckout.ts:149`).
* The till sends `isPreOrder` together with `scheduledAt`, so a pre-order made
  there always has a job: `CreateDirectWrite` queues one for any pre-order, where
  `order/order.service.ts:444` asks for `scheduledAt` too. (A guest's order has none: it
  stays SCHEDULED until staff fire it; Floor has those orders.) The kitchen is told of
  every order that is no pre-order; a retail tenant's is not sent there (line 392). The
  drawer gets `paidAmount`, which the till always sends, or else the total (line 352).
* `RefundItemRead` asks for 1 to the quantity of the line: the body is not validated, but
  the dashboard asks for the whole line.
* `orders[o].total` and `.paid` move by increments, as in the code; the status an
  append writes was computed from what it read.
* In `FireDeduct` a decrement and what becomes of its movement (refused, or never
  asked for by a worker that dies) are one step. Before a stalled job is given
  to another worker, the old worker is taken to be dead.
* A line is sent by one client once, so that a line belongs to one order.
* History variables, which no action reads: `slipped`, `out`, `back`, `why`, and
  `moved` in a job record. `why` names the events that excuse an order from a
  property, so that the property says exactly when the code keeps it.

### Numbering and the code

One request is one createDirect transaction: `StartReceipt` (the business date
and the snapshot of the UPDATE), `UpdateReceipt` (waits for the rows it saw),
`InsertReceipt` or `InsertRefused` (the first order of the day; the loser's
transaction is aborted, so the UPDATE in the catch block cannot help it),
`StartInvoice` (the business date again), `UpsertInvoice`, `Commit`, and `Abort`
for whatever fails later in createDirect. `Tick` starts a new business day. A
user without a branch has `branchId` NULL, which the unique index does not
compare; the model therefore lets several counter rows exist for that key. An
UPDATE that waits for several such rows takes them in one step.

### Drawer and the code

Every await of a handler is an action, and `Fail` may end a call between any two.

| Code (`staff/drawer.service.ts`) | Actions |
|---|---|
| openDrawer | `OpenCount` (the maxPos test), `OpenCreate`, `OpenFloat` (the OPENING movement) |
| closeDrawer | `Find`, `CloseSum`, `CloseMovement`, `CloseUpdate` (by id, whatever the status) |
| addMovement | `Find`, `Write` |
| recordSaleByTenant, from createDirect or updateStatus | `Validate` (validateShiftAndDrawer, createDirect only), `FindBranch`, `Fallback`, `Write` |
| recordRefundByTenant | `FindBranch`, `Fallback`, `Write` |
| getReport | the operator `Report` |

* The Prisma extension overwrites the branch in queries of the tenant client, so
  that the second query of `_requireOpenSession` and the OR in `hasOpenSession` never
  find a session without a branch, and maxPos is counted per branch of the caller. The
  two `...ByTenant` methods use the plain client and see every branch.
* The till's own SALE movement after createDirect
  (`src/idarax_web/src/hooks/usePOSCheckout.ts:186`) is an `add` of type SALE.
* recordSale and recordRefund have no caller and are left out.
* History: `alone` (no other session was opened between a session's count and its
  insert), `held` (the sessions fit for a sale that stayed open since it began to look),
  `why` (what parts a stored balance from the report).

### Inventory and the code

A *bin* is one StockLevel row. A transaction reads committed rows, locks what it
writes, and its writes reach `rows` when it commits.

| Code | Actions |
|---|---|
| `retail/inventory/inventory.service.ts` adjustStock | `ReadBin`, `AdjustRow` or `AdjustNew` |
| performStocktake | `ReadBin`, `StocktakeRow`, line by line, one transaction |
| deductStockRecursively of a sale (`order/order.service.ts`) | `SaleRow`, line by line |
| `retail/transfer/transfer.service.ts` updateStatus | `TransferMark` (the status, outside), `TransferRow` for each end |
| `retail/purchase-order/purchase-order.service.ts` updateStatus, receiveOrder | `PurchaseFetch`, `PurchaseLevel`, `PurchaseLog`, `PurchaseStatus`, no transaction |
| deadlock in PostgreSQL | `Victim`; any other error or crash: `Fail` |

* A quantity has either sign (the DTO asks only for a number): ADD and REMOVE take its
  size, SET the quantity itself, `Adjustments` holds what is given. adjustStock logs the
  *new quantity* of a SET (`set`); and a row that is not there is created with the quantity,
  or with 0 for one below, whatever was asked for and is logged: where the two differ (a
  REMOVE of 1; an ADD or a SET of -1) the row is marked `created`.
* Bound: no cart, sheet or delivery names a bin twice.
* A product has one serial-less row per warehouse; receivedQty of the order lines,
  editing an order and serial numbers are left out.

### Floor and the code

Orders has one table handler, checkout, among the money; Floor has all of them, and of
an order only its status, its table and what is still `due`.

| Code | Actions |
|---|---|
| createDirect | `CreateRead` (the newest open order of the table, what is due), `CreateCommit` (the order, then the table) |
| createGuestOrder / splitOrder (`public/public.service.ts`), splitBill | `CreateGuestOrder` / `SplitRead`, `SplitChild` twice |
| assignTable | `AssignRead`, `AssignCommit` |
| updateStatus | `StatusRead`, `StatusWrite`, `StatusTable` |
| voidOrder | `VoidRead`, `VoidCommit` |
| firePreOrder, refundOrder | `RowRead`, `RowWrite`: they change the status and leave the table alone |
| `restaurant/table/table.service.ts` moveOrder | `MoveTarget`, `MoveSource`, `MoveClear`, `MoveSeat`, `MoveOccupy` |
| mergeTables, unmergeTable, update | `MergeRead`, `MergeWrite`; `UnmergeTable`; `UpdateTable` |
| checkout | `CheckoutRead`, `CheckoutOrder`..., `CheckoutTable` (with the tables merged into it) |
| error or crash | `Fail`, between any two statements |

* PENDING stands for PREPARING and READY too: no handler of the tables tells them apart.
* A guest's order is seated by `tableId` or by `tableNumber` (`public/public.service.ts:277`),
  and only a `tableId` makes the table show OCCUPIED (line 325). The guests' page sends the
  table's id as `tableNumber` (`src/idarax_web/src/components/public/CheckoutModal.tsx:32`), so that
  an order made there is to be paid at a table that shows what it showed before: the table
  is `doubted` from then on. moveOrder may be given one table twice; nothing refuses that.
* A cart is worth 0 or 1, paid not at all, for itself or with the whole tab. A split
  makes two children of 1 at the table it read; neither the order nor the table is
  written. The guests' page posts fields that splitOrder does not read, so that from
  there it creates nothing; the endpoint is modelled as it is.
* `stale` is set in a request when another one writes a row it read: what the
  properties excuse is an overtaken request, never a step by itself. `doubted` holds the
  tables that may show something else than their orders, `joined` the orders that
  createDirect alone opened where they are.

### Customers and the code

| Code | Actions |
|---|---|
| createDirect, a new order | `BeginOrder`, `ReadPoints` (tested before the lock), `Take` (the decrement, which locks), then `Commit`, or `ReadCustomer` and `Earn` when the order is fully paid |
| createDirect, an append to an open order | `BeginAppend` (the order and its status are read), `Append` (its row is updated and stays locked; the customer may change), then the same as a new order, earning by the whole tab |
| processLoyaltyForOrder (`crm/crm.service.ts`) | `ReadCustomer`, `Earn` (spend and tier set from the reading, points incremented, a loyalty row only of more than nothing, the referral) |
| updateStatus | `Mark` (any status; COMPLETED settles what is due, in whole or not, and earns), then the same two |
| addLoyaltyTransaction | `BeginAdjust`, `ReadCustomer`, `Adjust` (the balance set from the reading) |
| rollback, crash | `Fail` |

* A Customer is read on another connection even inside a transaction (`findUnique`
  through the extension), so a call reads what is committed; its own writes are applied
  at the commit, its lock of the customer's row is `locks`, and an order's row is locked
  (`Unlocked`) from `Append` to the end of the call.
* `Carts` pairs what a call adds to an order with the points it redeems. The total may be
  negative: cashback is taken off without a floor (`order/order.service.ts:96`). Such an
  order counts as paid, earns less than nothing, and no loyalty row says so
  (`crm/crm.service.ts:327`, `:332`): `why` then has `negative`.
* Of a cart or of what is due, all or nothing is paid, so that an order is fully paid, or
  not, or more than paid. A new order has the status its caller asks for (`Asked`), or the
  one its payment gives it.
  OPEN stands for the four statuses createDirect appends to, OTHER for the rest but COMPLETED.
* Every order has a table of its own, so an append may find any open order. Which of
  several orders of a table it finds is in Floor.
* `claims` counts the calls that set out to earn by an order, and those that add to it
  afterwards: an order completed again, or woken and appended to, earns more than once.
* The earning ratio is 1; offers, taxes and line prices are inside the total. Handlers that
  write a status and earn nothing (TableService.checkout, the refunds, voidOrder) and the
  guests' orders, which earn when they are completed, are left to Orders and Floor.

### Sessions, WebClient and the code

A jti is its number in the order of minting; the access and the refresh token of a
pair share it. Each server call is a sequence of statements, none in a transaction.

| Code | Actions |
|---|---|
| `auth/auth.service.ts` signToken for a new session | `Login` |
| refreshToken | `FindByJti`, `Blacklist`, `Rotate`; for a row found inactive `FindActive`, `Blacklist`..., `DeactivateAll` |
| `auth/session.service.ts` revokeSession / revokeAllSessions | `FindOne`, `DeactivateOne`, `Blacklist` / `FindActive`, `Blacklist`..., `DeactivateAll` |
| logout | `Logout`, `Blacklist` |
| `auth/token-blacklist.service.ts`, `auth/jwt.strategy.ts` | `Blacklist`, the operator `Accepted`: both let pass while Redis is away (`RedisAway`, `RedisBack`) |
| expiry, a lost call or answer | `Expire`, `Lose` |
| `auth/auth.controller.ts`, `auth/session.controller.ts` | `Receive` (a call of any client, in `ServerSpec`), `Arrive` (one of another device, in `Spec`) |
| `src/idarax_web/src/lib/api.ts` request interceptor | `Bearer`, in `Send` |
| response interceptor | `Decide` (the answer), `GiveUp`, `Enqueue`, `Refresh`, `NoRefresh`, `Refreshed`, `RefreshFailed` |
| login page, side bar, page loads and the middleware | `SignIn`, `SignedIn`, `SignInFailed`, `SignOut`, `Leave` |

Left out: the refresh of a token that has itself expired, which is refused before any
row is read or written (`auth/auth.service.ts:250`). The guard does not test the type of a token
(`auth/jwt.strategy.ts:22`), so a refresh token passes as a bearer too; `Accepted` and
`OneLiveToken` speak of access tokens.

Cookies and localStorage are shared by the tabs; `refreshing` (isRefreshing) and the
queue belong to a page and `Leave`, a full page load, drops them. The side bar removes
the token but leaves refresh_token. `jammed` remembers that a refused sign-in set
isRefreshing in a tab without a refresh cookie, where nothing resets it.

A record of `calls` is one call: `Receive` starts it only while it is idle. So that
`Spec` implements `ServerSpec` says of the client that a request, whatever it goes
through (refused, queued, sent again, refused again), posts at most one refresh, and
only with a token the server had given.

## 3. Runs

| Run | Bounds | Shows |
|---|---|---|
| `orders_stock` | 2 requests in flight, 4 in all, 1 order, 2 lines on 2 products (one line shares a product with the other), counter orders and pre-orders, 2 attempts | `TypeOK`, `StockMatchesLedger`, `DeductedOnce`, `OverReturnHasCause`, `NoOrderForgotten`, and that Orders implements `StockLedger` |
| `orders_money` | 2 requests in flight, 3 in all, 2 orders, one product, one table, HELD and normal orders, amounts 0, 1, the bill and the balance | `PaidIsBacked`, `DrawerExplainsPayments`, `TotalMatchesLines` |
| `orders_live` | 2 requests in flight, 3 in all, 3 orders of one line, pre-orders only, with fairness | `JobsSettle`, `RequestsEnd` |
| `numbering` | 3 requests of a branch and 1 without, wrap at 2, 2 days, with fairness | `TypeOK`, `InvoicesGapless`, `HolderDrawsNext`, `ReceiptsInTurn`, `CreatesEnd`, and that Numbering implements `InvoiceBook`. Orders without a branch print in turn too while they have one counter row; the run has one such order, the theorem any number |
| `drawer` | 4 interchangeable calls, one cashier, one branch and the tenant's scope, maxPos 1, 2 sessions | `TypeOK`, `BalanceExplained`, `OverLimitRaced`, `SaleFindsDrawer`, `ClosedIsFinal` |
| `inventory` | 3 calls, 3 rows (one not there yet), adjustments by 1 and -1, carts in opposite orders, a transfer, a purchase order, with fairness | `TypeOK`, `LevelExplained`, `ReceivedOnce`, `MovedOnce`, `CallsEnd` |
| `customers` | 3 calls, 2 customers (one brought by the other) with 500 points, carts of 4500 with and without redeeming 400 points and of -200 with them, new orders of any status but those paid and still open or completed unpaid, adjustments of 300 and -300 | `TypeOK`, `PointsExplained`, `NoOverdraft`, `SpendIsOrders`, `ReferralOnce` |
| `web_client` | one session row, 2 tabs, 2 requests and one call from elsewhere, 3 tokens, one fault, one token may expire | `TypeOK`, `OneLiveToken`, `QueueHasOwner`, `StaysSignedIn` |
| `floor` | 2 interchangeable tables, 2 requests in flight, 4 in all, 2 orders, staff statuses PENDING, DELIVERED and COMPLETED, the label AVAILABLE | `TypeOK`, `OwingIsOccupied`, `TabsJoin`, `MovesToEmptyTable` |
| `orders_fired` | one pre-order | violation of `FiredOrderIsTicketed` |
| `orders_refund` | one table | violation of `RefundableIsPaid` |
| `numbering_lookup` | 3 requests, wrap at 999, 2 days | violation of `LookupUnambiguous` |

Why the bounds are enough. A hazard here is a race of two actors on one order:
two requests in flight and a job give every such pair. The stock run follows one
order through four requests, because the longest way to give a line back twice
takes four: created, cancelled, reopened, cancelled again. Orders share nothing in
stock but sums, so one order is enough there; the money run has two, so that an
append, an assignment or a checkout meets an order that is not its own. (An append needs a table
and a second cart, which that run does not have: that it puts a closed order back to its
old status, and so may return stock twice, is in the theorem `ReturnCorrect` only.) Two
attempts distinguish the first, the last, and a stall in between; the code has
three. A receipt counter that wraps at 2 wraps within three orders; two days give
the one cutoff an order can cross. Requests and orders are bounded by `MaxRequests`
and `MaxOrders`, so every behaviour may come to rest: the runs do not check for
deadlock, and the liveness properties say what must not get stuck. In
`orders_live` MaxOrders equals MaxRequests, so that the bound itself never
blocks a create. Workers are symmetric in the safety runs only.

`drawer`: two openings, a close and a sale are the largest meeting in which every
cause of a wrong balance occurs, and two sessions with maxPos 1 are one too many.
`inventory`: a race needs two calls and a retry or a repeated completion a third; two
carts in opposite orders make a deadlock. `customers`: two overlapping orders and an
adjustment, an order woken and appended to (updateStatus wakes it, so that `Asked` need not); 400 of 500 points can be redeemed once, and a
cart of 4500 reaches the top tier only on top of another. `web_client`: two tabs that share a cookie, or two
requests of one tab, meet a revocation, a sign-out or a lost answer; three tokens
are all the calls can mint, the first one included, so that bound never
blocks. `floor`: the meetings are of two
requests at one table; two more before them seat an order, move or merge it, or wake
it. All of these runs come to rest when the calls are used up.

Fairness. `FairSpec` of Orders is weak fairness of each request's own handler and
of each job: the Node event loop continues a handler whose await has settled, and
Bull hands a due job to a worker. Nothing makes a client send a request, nothing
makes a fault happen, and a fault may end either at any point. `FairSpec` of
Numbering is weak fairness of each open transaction. `FairSpec` of Inventory asks for
less than one condition per call: while some call can go on one does, and PostgreSQL
ends one call of a deadlock. Drawer, Customers, WebClient and Floor state safety only.

### What the violations show

* **FiredOrderIsTicketed.** firePreOrder writes PENDING before it deducts and
  tells the kitchen, outside a transaction. When anything after that fails the
  retry sees an order that is not SCHEDULED, returns null, and the job counts as
  completed. For an order with a stocked line the first attempt always fails: the
  movement insert has no tenantId in the worker.
* **RefundableIsPaid.** COMPLETED does not imply paid: checkout completes orders
  without a payment.
* **LookupUnambiguous.** Receipt and invoice take the business date separately, so
  the pair (receipt number, invoice date) is not a key across the cutoff.

The passing properties are stated around these: `OverReturnHasCause` lists every
way stock can come back twice (two voids of one order that overlap among them: the
guard of voidOrder tests a status nobody locked) and shows that there is no other one,
`OwingIsOccupied` and `MovesToEmptyTable` say which requests leave a table free with an
order at it, and
`StockMatchesLedger` counts the decrements the worker could not log.

## 4. Proofs

All proofs are checked by TLAPS with no bound on lines, products, tables,
requests or orders, from the named assumptions of the modules: quantities are
positive, prices and loads natural, `Load[{i}]` is the quantity of `i` times its
recipe, `Bill` of two disjoint sets of lines is the sum of their bills, and the inputs
are of the types the API validates. The theorems about the
other modules put no bound on calls, cashiers, branches, tables, bins, documents, customers,
tabs, requests, tokens or faults.

| Theorem | States | Argument |
|---|---|---|
| `OrdersProofs!TypeCorrect` | `[]TypeOK` | `TypeInv == TypeOK /\ SoundRequests /\ AttemptsLeft`. TypeOK alone is not inductive: that a step writes a row that exists needs to know that a request past its read names an order (`SoundRequests`), and that `tries` stays at most `Attempts` needs to know that a job not yet ended has one left (`AttemptsLeft`). |
| `OrdersProofs!LedgerCorrect` | `[]StockMatchesLedger` | inductive over `TypeInv`: deduct and restore add the same to level and ledger, and `FireDeduct` adds to `slipped` what it takes from the level. |
| `OrdersProofs!ImplementsCorrect` | `Spec => StockLedger!Spec` | step simulation: each action is a Post, a Slip or a stutter of the ledger. |
| `OrdersProofs!KitchenCorrect` | `[]NoOrderForgotten` | `KitchenInv`: every order that exists, and every order a request is about to write, was announced or has a job. The second half is the strengthening: CreateDirectCommit makes the row exist only after CreateDirectWrite announced it, and no action takes a ticket or a job back. |
| `OrdersBooksProofs!TotalCorrect` | `[]TotalMatchesLines` | `TotalInv`: the carts of the creates in flight are disjoint and in no order yet (`CartsApart`), and an order that does not exist has no lines (`Unborn`). Then a commit adds to the total exactly the bill of the lines it adds to the order. |
| `OrdersBooksProofs!PaidCorrect` | `[]PaidIsBacked` | Several settlements of one order may be between their Payment and their order row, so `paid <= payments` is not inductive: the gap between the two must hold the sum of their amounts. Which requests are between the two changes from step to step, so `Backed` says it without a sum: each such request holds an interval of its amount inside the gap and no two intervals meet (`Fits`). A Payment lengthens the gap and puts a new interval at its end (`FitOneMore`), a settlement takes its interval out and moves the ones above down (`FitOneLess`), a failure gives its interval up (`FitFewer`). |
| `OrdersBooksProofs!TillCorrect` | `[]DrawerExplainsPayments` | `Explained`: what the drawer has yet to see of an order (`Debt`) is exactly filled by the intervals of the settlements at the drawer step (`Fits` and `Fills`), once the amount that an open transaction has already moved is counted (`Carried`). That at most one transaction is open on an order (`OneCommit`) rests on the row lock and on fresh order numbers (`Numbered`, from `KitchenInv`). With no request at work the intervals are none and so the debt is zero. |
| `OrdersBooksProofs!OnceCorrect` | `[]DeductedOnce` | `FireInv`: an order that waits (not yet inserted, or SCHEDULED) and was not put back has at most one job and no append; only a job that read SCHEDULED runs, and while one may still deduct, the lines of its order are untaken (`LinesUntaken`). It deducts once and stops running, and no later attempt runs because the order has left SCHEDULED for good. |
| `OrdersBooksProofs!ReturnCorrect` | `[]OverReturnHasCause` | `ReturnInv`: a request that returns stock holds lines of its own order and read it as not closed; and, unless the order is blamed, a line has given back at most what it took, and something only when it is spent (REFUNDED, or of a CANCELLED or REFUNDED order). A return nobody is blamed for finds its lines not spent, so it is their first, gives back what they took and spends them; and a step that makes a spent line returnable again is blamed. |
| `NumberingProofs!TypeCorrect` | `[]TypeOK` | inductive as it stands. |
| `NumberingProofs!HolderCorrect` | `[]HolderDrawsNext` | the strengthening that `InvoicesGapless` needs, from the row lock: a second transaction cannot pass the upsert while one holds the row. |
| `NumberingProofs!GaplessCorrect` | `[]InvoicesGapless` | with HolderDrawsNext, a commit extends 1 .. n to 1 .. n + 1, and a rollback leaves the committed ones alone. |
| `NumberingProofs!BookCorrect` | `Spec => InvoiceBook!Spec` | Commit is Issue of the next number, everything else stutters. |
| `NumberingProofs!ReceiptsCorrect` | `[]ReceiptsInTurn` | `RInv`: a counter row is held by one transaction, a key has one row in the table or about to be, and the only row of a key counts what was printed under it (`Counted`: so many full rounds and the first numbers of the next). The count per number is then the quotient that the property names (`TurnsOf`, `Quotient`). |
| `NumberingProofs!UniqueReceiptsCorrect` | `[]UniqueReceipts` | from `ReceiptsInTurn`: in the first round each number is printed at most once. |
| `DrawerProofs!TypeCorrect` | `[]TypeOK` | with `Chosen`: a call at work chose a session that exists, and rows exist in order up to `opened`. |
| `DrawerProofs!BalanceCorrect` | `[]BalanceExplained` | `Summed`: what a closeDrawer between its sum and its update has computed is what the report says, unless the call is marked; an insert marks exactly the closings it overtakes. |
| `DrawerProofs!FinalCorrect` | `ClosedIsFinal` | an action property: a call comes to work on a session only through a search, and searches see open sessions. |
| `DrawerProofs!SaleCorrect` | `[]SaleFindsDrawer` | `Fine`: a search past its first query knows that every session it still holds has no branch, and past its second it holds none. |
| `DrawerProofs!LimitCorrect` | `[]OverLimitRaced` | `Room`: while nothing was opened since a call's count, there is still room for one. The count is of sets, so this rests on the theorems about cardinality. |
| `InventoryProofs!TypeCorrect`, `!LevelCorrect` | `[]TypeOK`, `[]LevelExplained` | `Good` (a call's effects change level and log alike unless they carry a mark), `Fresh` (an unmarked stocktake read what is still there). |
| `InventoryProofs!MovedCorrect` | `[]MovedOnce` | `Moved`: of a transfer completed once, the calls that still have to move it are exactly the first completer until it commits, and none after. |
| `InventoryProofs!ReceivedCorrect` | `[]ReceivedOnce` | `Received`: the lines a sole receiver has still to add are exactly the ones missing; when it has written RECEIVED, the status test keeps the next one out. |
| `FloorProofs!TypeCorrect`, `!OccupiedCorrect` | `[]TypeOK`, `[]OwingIsOccupied` | `FloorInv`: what a request that was not overtaken has read is still so (`Fresh`), and an order that waits sits at a table that is doubted, shows OCCUPIED, or is still to be written by a request (`Seen`; a scheduled order waits too, so that waking it needs no table). `WriteStep` does the part all actions share: a step that writes some orders and tables leaves the rest of the invariant alone. |
| `FloorProofs!MoveCorrect` | `MovesToEmptyTable` | an action property, from `Apart`: the orders that wait at the target of a move in progress are about to be shown there. |
| `FloorProofs!JoinCorrect` | `[]TabsJoin` | with `Fresh`: a create that found no open order and was not overtaken opens the only one. |
| `CustomersProofs!TypeCorrect`, `!PointsCorrect` | `[]TypeOK`, `[]PointsExplained` | `Named` (a call past its start names an order that exists or its own, and its customer); every row step moves points and loyalty rows alike, or is marked: an order that earns less than nothing is. |
| `CustomersProofs!ReferralCorrect` | `[]ReferralOnce` | `Unrewarded`: a row whose link is still there has not been rewarded. |
| `CustomersProofs!OverdraftCorrect` | `[]NoOverdraft` | the row lock: at most one call holds a row (`Exclusive`), and an unmarked row covers what its holder will take (`Covered`). |
| `CustomersProofs!SpendCorrect` | `[]SpendIsOrders` | `SpendInv`: of an order claimed once, one call is still to earn for it or has (`OneClaim`), so an earning adds an order that was not in the sum yet; one that had read an older spend marks the row; and the amount of an order in the sum changes only by an append, which claims it again and excuses its earners (`Undoubted`). The sum is the community modules' `MapThenSumSet` over amounts of either sign: `SumIsSum` shows it to be `SumOf`, the number of pairs (order, unit above zero) less the number of pairs (order, unit below), two cardinalities, about which the library has theorems. |
| `WebClientProofs!TypeCorrect` | `[]TypeOK` | server and client side of the invariant together: the client stores only what a call of its own returned. |
| `WebClientProofs!ServerTokenCorrect` | `ServerSpec => []OneLiveToken` | `ServerInv`: what each call has blacklisted of what it read (`Duty`), and that a call that revoked a row alone left it inactive with the token it was given (`Shut`). |
| `WebClientProofs!ImplementsServer` | `Spec => ServerSpec` | step simulation: a step of a tab is `Receive`, or nothing to the server. That the call is still idle is `AskedOnce`: a request that may yet ask has not, because it is marked `_retry` when it does and keeps the mark. |
| `WebClientProofs!TokenCorrect` | `[]OneLiveToken` | from the two before it: what holds of the server before any clients holds of it before these. |
| `WebClientProofs!QueueCorrect` | `[]QueueHasOwner` | `QueueInv`: a queued request's tab refreshes, and a tab that refreshes has a request that does, is leaving, or is jammed. |
| `WebClientProofs!StayCorrect` | `StaysSignedIn` | an action property, from `RefreshInv`: a token that a row no longer has was read by the refresh that replaced it, or the row is marked (`ReplacedBy`); a request that got its answer has put a newer token in the cookie (`Dropped`), because the token on its way to it is nowhere else (`Fresh`); and a tab refreshes once at a time, so that a second refresh of a token finds the first on another tab or gone (`OneByOne`). |

Every invariant and action property of the runs has its theorem, and so have the
refinements of `StockLedger` and `InvoiceBook`. That of `ServerSpec` is proved and in no
run: its step is tested on each of twelve million transitions, which nearly doubles the
time of `web_client`. Model-checked only is liveness (`JobsSettle`, `RequestsEnd`, `CreatesEnd`,
`CallsEnd`): fairness and ENABLED are beyond the prover.

Induction over data: the library's induction theorems take an operator as a parameter
and cannot be used here, so a recursion is reasoned about through a smallest
counterexample instead (the subsets of a finite set are well-founded; `RecursionUnique`
in CustomersProofs). `Load` and `Bill` of Orders stay constants with assumptions, which
the sums over recipes and prices of MCOrders satisfy. No module declares a RECURSIVE
operator.

## 5. Not modelled, and why

* The batch upload (`common/sync/sync.service.ts`) inserts rows as they were sent and
  writes neither table nor stock. createAsync's worker (`order/order.processor.ts`)
  inserts without a tenantId through the plain client: it is always refused. The lines
  and numbers of a guest's order: Floor has its table and its amount only.
* OfferService: the client never logs a redemption, so usedCount never grows and no
  limit is reached; what is left is arithmetic on one cart. The offline queue:
  its only writer enqueues an empty body. Stock audits: they cannot be started, because
  the extension injects a column the audit lines do not have.
* Purchase order lines (editing, receivedQty), serial numbers, PIN sign-in (it ends in
  signToken like a login), registration, password reset, hashing and signatures.
* The connection pool: `findUnique` inside a transaction goes to a second
  connection (`prisma/prisma.service.ts:36`). Stock row locks are in `Inventory`; in
  Orders a transaction's writes are one step.
* Shifts, attendance and schedules: check-then-create of one row per user, the shape
  openDrawer already has.
* ZATCA, courier, mail, notifications, sockets: outgoing calls whose answers the
  modelled state does not depend on.
* CRUD, reporting, analytics, CMS, and the pages of the client (most of its lines):
  they show and edit rows one at a time and keep no state another actor writes.

## 6. Plan

1. *Done:* Orders, StockLedger, Numbering, InvoiceBook; Drawer, Inventory, Customers,
   Sessions and WebClient, Floor; their runs, and proofs of all their safety properties
   and refinements.
2. The connection pool, for the hazard at `prisma/prisma.service.ts:36`.
