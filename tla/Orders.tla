------------------------------- MODULE Orders -------------------------------
(***************************************************************************)
(* The order desk of one branch: OrderService, RefundService, the table    *)
(* checkout and the Bull job that fires pre-orders, over the Postgres rows *)
(* they share.  A request is a record in reqs that goes through the reads  *)
(* and writes of its handler; a handler that runs in a transaction reads   *)
(* in one step (READ COMMITTED, nothing stays locked by a read) and        *)
(* writes everything in the step that commits, and what it does outside    *)
(* its transaction (the drawer movement, the kitchen ticket, the delayed   *)
(* job) is a step of its own that a rollback does not take back.           *)
(*                                                                         *)
(* Amounts are integer units of money; every payment is in cash.           *)
(***************************************************************************)
EXTENDS Integers, Sequences, FiniteSets

CONSTANTS
  Items,         \* order lines a client may send, each used by one order
  Products,      \* products with a StockLevel row in the branch
  Qty,           \* Qty[i]: quantity of line i
  PerUnit,       \* PerUnit[i][p]: units of p that one unit of line i takes
  Load,          \* Load[S][p]: units of p that the lines S take together
  Price,         \* Price[i]: price of one unit of line i
  Bill,          \* Bill[S]: price of the lines S together
  Opening,       \* Opening[p]: quantity on hand before the first order
  Tables,        \* tables of the branch
  NoTable,       \* an order without a table
  Workers,       \* requests that can be in flight at once
  Amounts,       \* amounts a client may send as paidAmount
  PreOrder,      \* values of dto.isPreOrder the clients send
  DtoStatuses,   \* values of dto.status the clients send, "none" for absent
  StaffStatuses, \* statuses the dashboard sends to PATCH /orders/:id/status
  ItemStatuses,  \* item statuses the kitchen display sends
  Attempts,      \* attempts of a fire-pre-order job (3 in the code)
  MaxOrders,     \* bound: orders ever created
  MaxRequests    \* bound: requests ever made

Orders == 1 .. MaxOrders
Seats  == Tables \cup {NoTable}

Status == {"none", "PENDING", "SCHEDULED", "PREPARING", "READY", "DELIVERED",
           "CANCELLED", "COMPLETED", "REFUNDED", "HELD"}
ItemStatus == {"none", "PENDING", "PREPARING", "READY", "SERVED", "CANCELLED",
               "REFUNDED", "VOIDED"}

ASSUME StockAssumption ==
  /\ Qty \in [Items -> Nat \ {0}]
  /\ PerUnit \in [Items -> [Products -> Nat]]
  /\ Load \in [SUBSET Items -> [Products -> Nat]]
  /\ \A i \in Items, p \in Products : Load[{i}][p] = Qty[i] * PerUnit[i][p]
  /\ Opening \in [Products -> Int]

ASSUME MoneyAssumption ==
  /\ Price \in [Items -> Nat]
  /\ Bill \in [SUBSET Items -> Nat]
  /\ \A S, T \in SUBSET Items : S \cap T = {} => Bill[S \cup T] = Bill[S] + Bill[T]
  /\ Amounts \subseteq Nat

ASSUME InputAssumption ==
  /\ NoTable \notin Tables
  /\ PreOrder \subseteq BOOLEAN
  /\ DtoStatuses \subseteq Status
  /\ StaffStatuses \subseteq Status \ {"none"}
  /\ ItemStatuses \subseteq ItemStatus \ {"none"}
  /\ Attempts \in Nat \ {0}
  /\ MaxOrders \in Nat
  /\ MaxRequests \in Nat

VARIABLES
  orders,    \* Order rows; status "none" while the row does not exist
  items,     \* OrderItem rows; order 0 while the row does not exist
  level,     \* StockLevel.quantity
  moved,     \* sum of StockMovement.quantity
  slipped,   \* history: decrements whose movement row was refused
  out, back, \* history: units each line took from stock and gave back
  payments,  \* sum of the order's Payment rows
  refunds,   \* sum of the order's RefundItem rows
  refunded,  \* sum of the order's Refund rows for the whole order
  till,      \* net CashMovement amounts that reference the order
  tables,    \* Table.status
  jobs,      \* fire-pre-order jobs of the pre-orders queue, oldest first
  kds,       \* orders the kitchen display was told about
  reqs,      \* requests in flight
  nextId,    \* next order id (a fresh uuid in the code)
  served,    \* requests started so far
  why        \* history: how an order's stock bookkeeping was disturbed

stock == <<level, moved, slipped, out, back>>
money == <<payments, refunds, refunded, till>>
queue == <<jobs, kds>>
vars  == <<orders, items, stock, money, tables, queue, reqs, nextId, served, why>>

NoOrder == [status |-> "none", table |-> NoTable, total |-> 0, paid |-> 0]
OrderRow == [status : Status, table : Seats, total : Nat, paid : Int]

Ops   == {"idle", "create", "status", "assign", "void", "refund", "refundItem",
          "checkout"}
Steps == {"", "write", "commit", "pay", "till", "table"}
Request == [op : Ops, at : Steps, order : 0 .. MaxOrders, to : Status,
            table : Seats, lines : SUBSET Items, amount : Int, qty : Nat,
            flag : BOOLEAN, todo : SUBSET Orders]
Idle == [op |-> "idle", at |-> "", order |-> 0, to |-> "none",
         table |-> NoTable, lines |-> {}, amount |-> 0, qty |-> 0,
         flag |-> FALSE, todo |-> {}]

Job == [order : Orders, at : {"delayed", "active", "fired", "done", "failed"},
        tries : 0 .. Attempts, stalled : BOOLEAN, moved : BOOLEAN,
        lines : SUBSET Items]

\* How an order's line can come to give back more than it took; see
\* OverReturnHasCause.
ReturnCause == {"overlap", "reopened", "relabelled", "refunded line", "partial",
                "untaken"}
\* "rescheduled": staff put the order back to SCHEDULED.
\* "torn": a request ended between its Payment or Refund and its drawer movement.
Cause == ReturnCause \cup {"rescheduled", "torn"}

RowsType ==
  /\ orders \in [Orders -> OrderRow]
  /\ items \in [Items -> [order : 0 .. MaxOrders, status : ItemStatus]]
  /\ tables \in [Tables -> {"AVAILABLE", "OCCUPIED"}]
StockType ==
  /\ level \in [Products -> Int]
  /\ moved \in [Products -> Int]
  /\ slipped \in [Products -> Nat]
  /\ out \in [Items -> [Products -> Nat]]
  /\ back \in [Items -> [Products -> Nat]]
MoneyType ==
  /\ payments \in [Orders -> Int]
  /\ refunds \in [Orders -> Int]
  /\ refunded \in [Orders -> Int]
  /\ till \in [Orders -> Int]
QueueType ==
  /\ jobs \in Seq(Job)
  /\ kds \in SUBSET Orders
RequestsType ==
  /\ reqs \in [Workers -> Request]
  /\ nextId \in 1 .. MaxOrders + 1
  /\ served \in 0 .. MaxRequests

TypeOK ==
  /\ RowsType
  /\ StockType
  /\ MoneyType
  /\ QueueType
  /\ RequestsType
  /\ why \in [Orders -> SUBSET Cause]

Init ==
  /\ orders = [o \in Orders |-> NoOrder]
  /\ items = [i \in Items |-> [order |-> 0, status |-> "none"]]
  /\ level = Opening
  /\ moved = [p \in Products |-> 0]
  /\ slipped = [p \in Products |-> 0]
  /\ out = [i \in Items |-> [p \in Products |-> 0]]
  /\ back = [i \in Items |-> [p \in Products |-> 0]]
  /\ payments = [o \in Orders |-> 0]
  /\ refunds = [o \in Orders |-> 0]
  /\ refunded = [o \in Orders |-> 0]
  /\ till = [o \in Orders |-> 0]
  /\ tables = [t \in Tables |-> "AVAILABLE"]
  /\ jobs = <<>>
  /\ kds = {}
  /\ reqs = [w \in Workers |-> Idle]
  /\ nextId = 1
  /\ served = 0
  /\ why = [o \in Orders |-> {}]

-----------------------------------------------------------------------------
(* Reading the tables.                                                     *)

Active == {"PENDING", "PREPARING", "READY", "HELD"}
Closed == {"CANCELLED", "REFUNDED"}

Existing == {o \in Orders : orders[o].status # "none"}
Lines(o) == {i \in Items : items[i].order = o}

\* Orders createDirect may append to: active ones at the table.
OpenAt(t) == {o \in Existing : t # NoTable /\ orders[o].table = t
                                /\ orders[o].status \in Active}

\* orderBy createdAt desc: the newest has the largest id; 0 when there is none.
Newest(S) == IF S = {} THEN 0 ELSE CHOOSE o \in S : \A x \in S : x <= o

\* What the table owes for once the cart is added to its open order, if any.
Tab(o, cart) == cart \cup {i \in Items : o # 0 /\ items[i].order = o}

\* Lines a client can still send: not in an order and not in a cart in flight.
FreeItems == {i \in Items : /\ items[i].order = 0
                            /\ \A w \in Workers : reqs[w].op = "create" => i \notin reqs[w].lines}

FullyPaid(r) == r.paid >= r.total

\* Mistaken: a reader locks the row too, and waits for itself.
RowLockedByReaders(o) == \E w \in Workers : reqs[w].at \in {"write", "commit"} /\ reqs[w].order = o

\* The order row is locked by a transaction that wrote it and has not ended.
RowLocked(o) == \E w \in Workers : reqs[w].at = "commit" /\ reqs[w].order = o

\* So is the day's receipt counter, from nextReceiptNumber to the commit of the
\* new order it numbers: new orders of a branch are written one at a time.
CounterLocked ==
  \E w \in Workers : /\ reqs[w].op = "create" /\ reqs[w].at = "commit"
                      /\ orders[reqs[w].order].status = "none"

-----------------------------------------------------------------------------
(* Life of a request.                                                      *)

Begin(w, r) ==
  /\ reqs[w] = Idle
  /\ served < MaxRequests
  /\ served' = served + 1
  /\ reqs' = [reqs EXCEPT ![w] = r]

Goto(w, step) == reqs' = [reqs EXCEPT ![w].at = step]
End(w) == reqs' = [reqs EXCEPT ![w] = Idle]

Blame(o, causes) == why' = [why EXCEPT ![o] = @ \cup causes]

\* An order leaves CANCELLED or REFUNDED, or is put back to SCHEDULED.
Reopening(o, to) ==
  (IF orders[o].status \in Closed /\ to \notin Closed THEN {"reopened"} ELSE {})
    \cup (IF orders[o].status # "none" /\ to = "SCHEDULED" THEN {"rescheduled"} ELSE {})

\* An error, a rollback, a transaction timeout or a process crash: what the
\* handler committed or did outside its transaction stays, the rest is gone.
Fail(w) ==
  /\ reqs[w] # Idle
  /\ IF reqs[w].at \in {"till", "commit"} /\ reqs[w].amount # 0
       THEN Blame(reqs[w].order, {"torn"})
       ELSE UNCHANGED why
  /\ End(w)
  /\ UNCHANGED <<orders, items, stock, money, tables, queue, nextId, served>>

-----------------------------------------------------------------------------
(* Stock: the leaves of the lines' recipes, all in one transaction.        *)

\* deductStockRecursively for every line of S.
Deduct(S) ==
  /\ level' = [p \in Products |-> level[p] - Load[S][p]]
  /\ moved' = [p \in Products |-> moved[p] - Load[S][p]]
  /\ out' = [i \in Items |-> [p \in Products |->
               out[i][p] + IF i \in S THEN Load[{i}][p] ELSE 0]]
  /\ UNCHANGED <<slipped, back>>

\* Mistaken: stock comes back without a RETURN movement.
RestoreUnlogged(S) ==
  /\ level' = [p \in Products |-> level[p] + Load[S][p]]
  /\ back' = [i \in Items |-> [p \in Products |->
               back[i][p] + IF i \in S THEN Load[{i}][p] ELSE 0]]
  /\ UNCHANGED <<moved, slipped, out>>

\* restoreStockRecursively for every line of S.
Restore(S) ==
  /\ level' = [p \in Products |-> level[p] + Load[S][p]]
  /\ moved' = [p \in Products |-> moved[p] + Load[S][p]]
  /\ back' = [i \in Items |-> [p \in Products |->
               back[i][p] + IF i \in S THEN Load[{i}][p] ELSE 0]]
  /\ UNCHANGED <<slipped, out>>

\* Mistaken: the movement of a partial return counts one unit.
RestoreLogsOne(i, n) ==
  /\ level' = [p \in Products |-> level[p] + n * PerUnit[i][p]]
  /\ moved' = [p \in Products |-> moved[p] + PerUnit[i][p]]
  /\ back' = [back EXCEPT ![i] = [p \in Products |-> @[p] + n * PerUnit[i][p]]]
  /\ UNCHANGED <<slipped, out>>

\* restoreStockRecursively for n units of one line.
RestoreUnits(i, n) ==
  /\ level' = [p \in Products |-> level[p] + n * PerUnit[i][p]]
  /\ moved' = [p \in Products |-> moved[p] + n * PerUnit[i][p]]
  /\ back' = [back EXCEPT ![i] = [p \in Products |-> @[p] + n * PerUnit[i][p]]]
  /\ UNCHANGED <<slipped, out>>

\* Returning S to stock now: which of it was never taken or already returned?
ReturnCauses(S) ==
  (IF \E i \in S : items[i].status = "REFUNDED" THEN {"refunded line"} ELSE {})
    \cup (IF \E i \in S : out[i] # Load[{i}] THEN {"untaken"} ELSE {})

\* The order changed its status since the request read it (kept in r.to).
Overlap(r) == IF orders[r.order].status # r.to THEN {"overlap"} ELSE {}

-----------------------------------------------------------------------------
(* createDirect: one transaction, with a drawer movement, a kitchen ticket *)
(* and a delayed job that escape it.                                       *)

\* The status an append leaves its open order with, or a new order begins with.
StatusFor(open, cart, paid, pre, asked) ==
  LET sum == [total |-> orders[open].total + Bill[cart],
              paid  |-> orders[open].paid + paid]
  IN IF open # 0
       THEN IF FullyPaid(sum) THEN "COMPLETED" ELSE orders[open].status
       ELSE IF pre THEN "SCHEDULED"
       ELSE IF asked # "none" THEN asked
       ELSE IF paid >= Bill[cart] THEN "COMPLETED" ELSE "PENDING"

CreateDirectRead(w) ==
  \E cart \in SUBSET FreeItems, t \in Seats, pre \in PreOrder,
     asked \in DtoStatuses \cup {"none"} :
    LET open == Newest(OpenAt(t))
    IN \E paid \in Amounts \cup {Bill[cart], Bill[Tab(open, cart)]} :
         /\ cart # {} \/ t # NoTable
         /\ Begin(w, [Idle EXCEPT !.op = "create", !.at = "write", !.order = open,
                        !.to = StatusFor(open, cart, paid, pre, asked), !.table = t,
                        !.lines = cart, !.amount = paid, !.flag = pre])
         /\ UNCHANGED <<orders, items, stock, money, tables, queue, nextId, why>>

\* Mistaken: an order paid on the spot is not sent to the kitchen.
CreateDirectWriteUnpaidOnly(w) ==
  LET r  == reqs[w]
      id == IF r.order = 0 THEN nextId ELSE r.order
  IN /\ r.op = "create" /\ r.at = "write"
     /\ id \in Orders
     /\ IF r.order = 0 THEN ~CounterLocked ELSE ~RowLocked(id)
     /\ nextId' = IF r.order = 0 THEN nextId + 1 ELSE nextId
     /\ till' = [till EXCEPT ![id] = @ + r.amount]
     /\ kds' = IF r.flag \/ r.to = "COMPLETED" THEN kds ELSE kds \cup {id}
     /\ jobs' = IF r.flag
                  THEN Append(jobs, [order |-> id, at |-> "delayed", tries |-> 0,
                                     stalled |-> FALSE, moved |-> FALSE, lines |-> {}])
                  ELSE jobs
     /\ reqs' = [reqs EXCEPT ![w].at = "commit", ![w].order = id]
     /\ UNCHANGED <<orders, items, stock, payments, refunds, refunded, tables, served, why>>

\* The order row is written (and locked) inside the transaction; the drawer
\* movement, the ticket and the job are already visible outside it.
CreateDirectWrite(w) ==
  LET r  == reqs[w]
      id == IF r.order = 0 THEN nextId ELSE r.order
  IN /\ r.op = "create" /\ r.at = "write"
     /\ id \in Orders
     /\ IF r.order = 0 THEN ~CounterLocked ELSE ~RowLocked(id)
     /\ nextId' = IF r.order = 0 THEN nextId + 1 ELSE nextId
     /\ till' = [till EXCEPT ![id] = @ + r.amount]
     /\ kds' = IF r.flag THEN kds ELSE kds \cup {id}
     /\ jobs' = IF r.flag
                  THEN Append(jobs, [order |-> id, at |-> "delayed", tries |-> 0,
                                     stalled |-> FALSE, moved |-> FALSE, lines |-> {}])
                  ELSE jobs
     /\ reqs' = [reqs EXCEPT ![w].at = "commit", ![w].order = id]
     /\ UNCHANGED <<orders, items, stock, payments, refunds, refunded, tables, served, why>>

\* Mistaken: an append writes its own total over the order's.
CreateDirectOverwrites(w) ==
  LET r   == reqs[w]
      old == orders[r.order]
      new == IF old.status = "none"
               THEN [status |-> r.to, table |-> r.table, total |-> Bill[r.lines],
                     paid |-> r.amount]
               ELSE [old EXCEPT !.status = r.to, !.total = Bill[r.lines],
                                !.paid = @ + r.amount]
  IN /\ r.op = "create" /\ r.at = "commit"
     /\ orders' = [orders EXCEPT ![r.order] = new]
     /\ items' = [i \in Items |-> IF i \in r.lines
                    THEN [order |-> r.order, status |-> "PENDING"] ELSE items[i]]
     /\ payments' = [payments EXCEPT ![r.order] = @ + r.amount]
     /\ IF r.flag THEN UNCHANGED stock ELSE Deduct(r.lines)
     /\ tables' = tables
     /\ Blame(r.order, Reopening(r.order, r.to))
     /\ End(w)
     /\ UNCHANGED <<refunds, refunded, till, queue, nextId, served>>

CreateDirectCommit(w) ==
  LET r   == reqs[w]
      old == orders[r.order]
      new == IF old.status = "none"
               THEN [status |-> r.to, table |-> r.table, total |-> Bill[r.lines],
                     paid |-> r.amount]
               ELSE [old EXCEPT !.status = r.to, !.total = @ + Bill[r.lines],
                                !.paid = @ + r.amount]
  IN /\ r.op = "create" /\ r.at = "commit"
     /\ orders' = [orders EXCEPT ![r.order] = new]
     /\ items' = [i \in Items |-> IF i \in r.lines
                    THEN [order |-> r.order, status |-> "PENDING"] ELSE items[i]]
     /\ payments' = [payments EXCEPT ![r.order] = @ + r.amount]
     /\ IF r.flag THEN UNCHANGED stock ELSE Deduct(r.lines)
     /\ tables' = IF r.table = NoTable THEN tables
                  ELSE [tables EXCEPT ![r.table] =
                          IF new.status # "HELD" /\ FullyPaid(new)
                            THEN "AVAILABLE" ELSE "OCCUPIED"]
     /\ Blame(r.order, Reopening(r.order, r.to))
     /\ End(w)
     /\ UNCHANGED <<refunds, refunded, till, queue, nextId, served>>

-----------------------------------------------------------------------------
(* updateStatus (and hold, fire): five awaits, no transaction.             *)

\* given: dto.paidAmount, 0 when the client sends none.
StatusRead(w) ==
  \E o \in Existing, to \in StaffStatuses, given \in Amounts \cup {0} :
    LET due    == orders[o].total - orders[o].paid
        settle == IF to = "COMPLETED" /\ due > 0
                    THEN IF given > 0 THEN given ELSE due
                    ELSE 0
    IN /\ Begin(w, [Idle EXCEPT !.op = "status", !.order = o, !.to = to, !.amount = settle,
                      !.at = IF settle > 0 THEN "pay" ELSE "write"])
       /\ UNCHANGED <<orders, items, stock, money, tables, queue, nextId, why>>

StatusPay(w) ==
  LET r == reqs[w]
  IN /\ r.op = "status" /\ r.at = "pay"
     /\ payments' = [payments EXCEPT ![r.order] = @ + r.amount]
     /\ Goto(w, "till")
     /\ UNCHANGED <<orders, items, stock, refunds, refunded, till, tables, queue, nextId,
                    served, why>>

\* Mistaken: the drawer gets the order's total, not what was settled.
StatusTillTotal(w) ==
  LET r == reqs[w]
  IN /\ r.op = "status" /\ r.at = "till"
     /\ till' = [till EXCEPT ![r.order] = @ + orders[r.order].total]
     /\ Goto(w, "write")
     /\ UNCHANGED <<orders, items, stock, payments, refunds, refunded, tables, queue, nextId,
                    served, why>>

StatusTill(w) ==
  LET r == reqs[w]
  IN /\ r.op = "status" /\ r.at = "till"
     /\ till' = [till EXCEPT ![r.order] = @ + r.amount]
     /\ Goto(w, "write")
     /\ UNCHANGED <<orders, items, stock, payments, refunds, refunded, tables, queue, nextId,
                    served, why>>

\* The status is written whatever the row holds by now; what update() returns
\* decides what becomes of the table.
StatusWrite(w) ==
  LET r   == reqs[w]
      new == [orders[r.order] EXCEPT !.status = r.to, !.paid = @ + r.amount]
      free == FullyPaid(new) \/ r.to \in {"COMPLETED", "CANCELLED", "DELIVERED"}
  IN /\ r.op = "status" /\ r.at = "write"
     /\ ~RowLocked(r.order)
     /\ orders' = [orders EXCEPT ![r.order] = new]
     /\ Blame(r.order, Reopening(r.order, r.to))
     /\ IF new.table = NoTable
          THEN End(w)
          ELSE reqs' = [reqs EXCEPT ![w].at = "table", ![w].table = new.table,
                                    ![w].flag = free]
     /\ UNCHANGED <<items, stock, money, tables, queue, nextId, served>>

StatusTable(w) ==
  LET r == reqs[w]
  IN /\ r.op = "status" /\ r.at = "table"
     /\ tables' = [tables EXCEPT ![r.table] = IF r.flag THEN "AVAILABLE" ELSE "OCCUPIED"]
     /\ End(w)
     /\ UNCHANGED <<orders, items, stock, money, queue, nextId, served, why>>

-----------------------------------------------------------------------------
(* assignTable: a read, then order and table in one batch.                 *)

AssignRead(w) ==
  \E o \in Existing, t \in Tables :
    /\ Begin(w, [Idle EXCEPT !.op = "assign", !.at = "write", !.order = o, !.table = t,
                   !.flag = FullyPaid(orders[o])])
    /\ UNCHANGED <<orders, items, stock, money, tables, queue, nextId, why>>

AssignWrite(w) ==
  LET r == reqs[w]
  IN /\ r.op = "assign" /\ r.at = "write"
     /\ ~RowLocked(r.order)
     /\ orders' = [orders EXCEPT ![r.order].table = r.table]
     /\ tables' = [tables EXCEPT ![r.table] = IF r.flag THEN "AVAILABLE" ELSE "OCCUPIED"]
     /\ End(w)
     /\ UNCHANGED <<items, stock, money, queue, nextId, served, why>>

-----------------------------------------------------------------------------
(* voidOrder: one transaction that checks the status it read.              *)

\* Mistaken: an order can be voided again.
VoidReadUnguarded(w) ==
  \E o \in Existing :
    /\ Begin(w, [Idle EXCEPT !.op = "void", !.at = "write", !.order = o,
                   !.to = orders[o].status, !.table = orders[o].table, !.lines = Lines(o)])
    /\ UNCHANGED <<orders, items, stock, money, tables, queue, nextId, why>>

VoidRead(w) ==
  \E o \in Existing :
    /\ orders[o].status \notin Closed
    /\ Begin(w, [Idle EXCEPT !.op = "void", !.at = "write", !.order = o,
                   !.to = orders[o].status, !.table = orders[o].table, !.lines = Lines(o)])
    /\ UNCHANGED <<orders, items, stock, money, tables, queue, nextId, why>>

VoidCommit(w) ==
  LET r == reqs[w]
  IN /\ r.op = "void" /\ r.at = "write"
     /\ ~RowLocked(r.order)
     /\ orders' = [orders EXCEPT ![r.order].status = "CANCELLED"]
     /\ items' = [i \in Items |-> IF items[i].order = r.order
                    THEN [items[i] EXCEPT !.status = "CANCELLED"] ELSE items[i]]
     /\ Restore(r.lines)
     /\ tables' = IF r.table = NoTable THEN tables
                  ELSE [tables EXCEPT ![r.table] = "AVAILABLE"]
     /\ Blame(r.order, ReturnCauses(r.lines) \cup Overlap(r))
     /\ End(w)
     /\ UNCHANGED <<money, queue, nextId, served>>

\* voidItem: only the line's status; stock and totals stay.
VoidItem(i) ==
  /\ items[i].order # 0
  /\ items' = [items EXCEPT ![i].status = "VOIDED"]
  /\ Blame(items[i].order, IF items[i].status = "REFUNDED" THEN {"relabelled"} ELSE {})
  /\ UNCHANGED <<orders, stock, money, tables, queue, reqs, nextId, served>>

\* KdsService.updateItemStatus: the kitchen sets any of its statuses.
UpdateItemStatus(i, s) ==
  /\ items[i].order # 0
  /\ items' = [items EXCEPT ![i].status = s]
  /\ kds' = kds \cup {items[i].order}
  /\ Blame(items[i].order, IF items[i].status = "REFUNDED" THEN {"relabelled"} ELSE {})
  /\ UNCHANGED <<orders, stock, money, tables, jobs, reqs, nextId, served>>

-----------------------------------------------------------------------------
(* RefundService: one transaction, with a drawer movement outside it.      *)

RefundOrderRead(w) ==
  \E o \in Existing :
    /\ orders[o].status = "COMPLETED"
    /\ Begin(w, [Idle EXCEPT !.op = "refund", !.at = "write", !.order = o,
                   !.to = orders[o].status, !.amount = orders[o].paid,
                   !.lines = {i \in Lines(o) : items[i].status # "REFUNDED"}])
    /\ UNCHANGED <<orders, items, stock, money, tables, queue, nextId, why>>

RefundItemRead(w) ==
  \E i \in Items : \E n \in 1 .. Qty[i] :
    /\ items[i].order # 0
    /\ orders[items[i].order].status = "COMPLETED"
    /\ Begin(w, [Idle EXCEPT !.op = "refundItem", !.at = "write",
                   !.order = items[i].order, !.to = orders[items[i].order].status,
                   !.lines = {i}, !.qty = n, !.amount = n * Price[i]])
    /\ UNCHANGED <<orders, items, stock, money, tables, queue, nextId, why>>

\* The rows are written and locked; recordRefundByTenant writes through the
\* service's own connection.
RefundTill(w) ==
  LET r == reqs[w]
  IN /\ r.op \in {"refund", "refundItem"} /\ r.at = "write"
     /\ ~RowLocked(r.order)
     /\ till' = [till EXCEPT ![r.order] = @ - r.amount]
     /\ Goto(w, "commit")
     /\ UNCHANGED <<orders, items, stock, payments, refunds, refunded, tables, queue, nextId,
                    served, why>>

RefundOrderCommit(w) ==
  LET r == reqs[w]
  IN /\ r.op = "refund" /\ r.at = "commit"
     /\ orders' = [orders EXCEPT ![r.order].status = "REFUNDED"]
     /\ refunded' = [refunded EXCEPT ![r.order] = @ + r.amount]
     /\ items' = [i \in Items |-> IF items[i].order = r.order
                    THEN [items[i] EXCEPT !.status = "REFUNDED"] ELSE items[i]]
     /\ Restore(r.lines)
     /\ Blame(r.order, ReturnCauses(r.lines) \cup Overlap(r))
     /\ End(w)
     /\ UNCHANGED <<payments, refunds, till, tables, queue, nextId, served>>

\* Mistaken: an item refund leaves paidAmount alone.
RefundItemKeepsPaid(w) ==
  \E i \in reqs[w].lines :
    LET r   == reqs[w]
        all == r.qty = Qty[i]
    IN /\ r.op = "refundItem" /\ r.at = "commit"
       /\ refunds' = [refunds EXCEPT ![r.order] = @ + r.amount]
       /\ items' = IF all THEN [items EXCEPT ![i].status = "REFUNDED"] ELSE items
       /\ RestoreUnits(i, r.qty)
       /\ End(w)
       /\ UNCHANGED <<orders, payments, refunded, till, tables, queue, nextId, served, why>>

RefundItemCommit(w) ==
  \E i \in reqs[w].lines :
    LET r   == reqs[w]
        all == r.qty = Qty[i]
    IN /\ r.op = "refundItem" /\ r.at = "commit"
       /\ refunds' = [refunds EXCEPT ![r.order] = @ + r.amount]
       /\ items' = IF all THEN [items EXCEPT ![i].status = "REFUNDED"] ELSE items
       /\ orders' = [orders EXCEPT ![r.order].paid = @ - r.amount]
       /\ RestoreUnits(i, r.qty)
       /\ Blame(r.order, ReturnCauses({i}) \cup (IF all THEN {} ELSE {"partial"}) \cup Overlap(r))
       /\ End(w)
       /\ UNCHANGED <<payments, refunded, till, tables, queue, nextId, served>>

-----------------------------------------------------------------------------
(* TableService.checkout: every unfinished order at the table, one by one. *)

CheckoutRead(w) ==
  \E t \in Tables :
    LET open == {o \in Existing : /\ orders[o].table = t
                                  /\ orders[o].status \notin {"COMPLETED", "CANCELLED"}}
    IN /\ open # {}
       /\ Begin(w, [Idle EXCEPT !.op = "checkout", !.at = "write", !.table = t,
                      !.todo = open])
       /\ UNCHANGED <<orders, items, stock, money, tables, queue, nextId, why>>

CheckoutOrder(w) ==
  \E o \in reqs[w].todo :
    /\ reqs[w].op = "checkout" /\ reqs[w].at = "write"
    /\ ~RowLocked(o)
    /\ orders' = [orders EXCEPT ![o].status = "COMPLETED"]
    /\ Blame(o, Reopening(o, "COMPLETED"))
    /\ reqs' = [reqs EXCEPT ![w].todo = @ \ {o},
                            ![w].at = IF reqs[w].todo = {o} THEN "table" ELSE "write"]
    /\ UNCHANGED <<items, stock, money, tables, queue, nextId, served>>

CheckoutTable(w) ==
  /\ reqs[w].op = "checkout" /\ reqs[w].at = "table"
  /\ tables' = [tables EXCEPT ![reqs[w].table] = "AVAILABLE"]
  /\ End(w)
  /\ UNCHANGED <<orders, items, stock, money, queue, nextId, served, why>>

-----------------------------------------------------------------------------
(* firePreOrder, run by the Bull worker: no transaction, and no tenant     *)
(* context, so the movement insert that follows the first decrement is     *)
(* refused (StockMovement.tenantId is required) and the attempt fails.     *)

SetJob(j, step) == jobs' = [jobs EXCEPT ![j].at = step]

\* Mistaken: the attempts are not counted.
RethrowForever(j) == SetJob(j, "delayed")
\* Mistaken: the last attempt is retried as well.
RethrowOnceMore(j) ==
  jobs' = [jobs EXCEPT ![j].tries = @ + 1,
                       ![j].at = IF jobs[j].tries < Attempts THEN "delayed" ELSE "failed"]

\* The attempt threw: Bull retries it until its attempts are used up.
Rethrow(j) ==
  jobs' = [jobs EXCEPT ![j].tries = @ + 1,
                       ![j].at = IF jobs[j].tries + 1 < Attempts THEN "delayed" ELSE "failed"]

\* Mistaken: a retry fires the order whatever its status.
FireReadAnyway(j) ==
  /\ jobs[j].at = "delayed"
  /\ jobs' = [jobs EXCEPT ![j].at = "active", ![j].lines = Lines(jobs[j].order)]
  /\ UNCHANGED <<orders, items, stock, money, tables, kds, reqs, nextId, served, why>>

\* The delay has elapsed.  The order is read outside any transaction: it may
\* not be there yet, or not be SCHEDULED any more, and then nothing is done.
FireRead(j) ==
  /\ jobs[j].at = "delayed"
  /\ jobs' = [jobs EXCEPT
       ![j].at = IF orders[jobs[j].order].status = "SCHEDULED" THEN "active" ELSE "done",
       ![j].lines = Lines(jobs[j].order)]
  /\ UNCHANGED <<orders, items, stock, money, tables, kds, reqs, nextId, served, why>>

FireUpdate(j) ==
  LET o == jobs[j].order
  IN /\ jobs[j].at = "active"
     /\ ~RowLocked(o)
     /\ orders' = [orders EXCEPT ![o].status = "PENDING"]
     /\ Blame(o, Reopening(o, "PENDING"))
     /\ jobs' = [jobs EXCEPT ![j].at = "fired", ![j].moved = TRUE]
     /\ UNCHANGED <<items, stock, money, tables, kds, reqs, nextId, served>>

\* The worker process dies; Bull gives a stalled job to a worker once more.
Stall(j) ==
  jobs' = [jobs EXCEPT ![j].stalled = TRUE,
                       ![j].at = IF jobs[j].stalled THEN "failed" ELSE "delayed"]

\* The first leaf with a stock row is decremented; its movement is refused, or the
\* worker dies before it asks for it.
FireDeduct(j) ==
  \E i \in jobs[j].lines, p \in Products :
    LET n == Load[{i}][p]
    IN /\ jobs[j].at = "fired"
       /\ n > 0
       /\ level' = [level EXCEPT ![p] = @ - n]
       /\ slipped' = [slipped EXCEPT ![p] = @ + n]
       /\ out' = [out EXCEPT ![i][p] = @ + n]
       /\ Rethrow(j) \/ Stall(j)
       /\ UNCHANGED <<orders, items, moved, back, money, tables, kds, reqs, nextId, served, why>>

\* No line has a leaf with a stock row: the kitchen is told and the job ends.
FireNotify(j) ==
  LET o == jobs[j].order
  IN /\ jobs[j].at = "fired"
     /\ \A i \in jobs[j].lines, p \in Products : PerUnit[i][p] = 0
     /\ kds' = kds \cup {o}
     /\ SetJob(j, "done")
     /\ UNCHANGED <<orders, items, stock, money, tables, reqs, nextId, served, why>>

\* The database or the queue is unreachable for a moment.
FireError(j) ==
  /\ jobs[j].at \in {"active", "fired"}
  /\ Rethrow(j)
  /\ UNCHANGED <<orders, items, stock, money, tables, kds, reqs, nextId, served, why>>

\* The worker dies between two of its statements.
FireStall(j) ==
  /\ jobs[j].at \in {"active", "fired"}
  /\ Stall(j)
  /\ UNCHANGED <<orders, items, stock, money, tables, kds, reqs, nextId, served, why>>

-----------------------------------------------------------------------------
Handle(w) ==
  \/ CreateDirectWrite(w) \/ CreateDirectCommit(w)
  \/ StatusPay(w) \/ StatusTill(w) \/ StatusWrite(w) \/ StatusTable(w)
  \/ AssignWrite(w)
  \/ VoidCommit(w)
  \/ RefundTill(w) \/ RefundOrderCommit(w) \/ RefundItemCommit(w)
  \/ CheckoutOrder(w) \/ CheckoutTable(w)

Receive(w) ==
  \/ CreateDirectRead(w) \/ StatusRead(w) \/ AssignRead(w) \/ VoidRead(w)
  \/ RefundOrderRead(w) \/ RefundItemRead(w) \/ CheckoutRead(w)

Fire(j) == FireRead(j) \/ FireUpdate(j) \/ FireDeduct(j) \/ FireNotify(j)

Next ==
  \/ \E w \in Workers : Receive(w) \/ Handle(w) \/ Fail(w)
  \/ \E i \in Items : VoidItem(i) \/ \E s \in ItemStatuses : UpdateItemStatus(i, s)
  \/ \E j \in DOMAIN jobs : Fire(j) \/ FireError(j) \/ FireStall(j)

Spec == Init /\ [][Next]_vars

\* The server works on a request it has, and the worker on a job it has; no
\* client has to send anything and nothing has to fail.
Fairness ==
  /\ \A w \in Workers : WF_vars(Handle(w))
  /\ \A j \in 1 .. MaxRequests : WF_vars(j \in DOMAIN jobs /\ Fire(j))

FairSpec == Spec /\ Fairness

-----------------------------------------------------------------------------
(* Properties.                                                             *)

\* Stock on hand and the movement ledger agree under every interleaving of
\* orders, voids, refunds and firings, up to the movements the worker could
\* not write (deductStockRecursively, restoreStockRecursively).
StockMatchesLedger ==
  \A p \in Products : level[p] + slipped[p] = Opening[p] + moved[p]

\* The order service as a client of the stock tables: every step posts one
\* change to both of them, or slips (StockLevel, StockMovement).
L == INSTANCE StockLedger
ImplementsLedger == L!Spec

\* However often a fire job is retried, stalled or raced by staff, a line is
\* taken from stock at most once, unless staff put the order back to SCHEDULED
\* (firePreOrder moves the status before it deducts).
DeductedOnce ==
  \A i \in Items, p \in Products :
    items[i].order # 0 /\ "rescheduled" \notin why[items[i].order]
      => out[i][p] <= Load[{i}][p]

\* A line gives back more stock than it took only when one of these happened
\* to its order: two cancellations or refunds that read it before either
\* committed, a status that left CANCELLED or REFUNDED, a REFUNDED line that was
\* returned again or relabelled by the kitchen, a partial item refund, or a
\* return of stock that was never taken (voidOrder, refundOrder, refundItem).
OverReturnHasCause ==
  \A i \in Items : \A p \in Products :
    back[i][p] > out[i][p] =>
      /\ items[i].order # 0
      /\ why[items[i].order] \cap ReturnCause # {}

\* What an order shows as paid, plus what it gave back line by line, never
\* exceeds its Payment rows, at any point of a settlement and whatever fails
\* (updateStatus writes the Payment before the order).
PaidIsBacked ==
  \A o \in Orders : orders[o].paid + refunds[o] <= payments[o]

\* The drawer explains every Payment and every refund of an order once no request
\* works on it, unless one was torn between its own connection and the
\* transaction it ran in (recordSaleByTenant and recordRefundByTenant write
\* outside the transaction of createDirect, refundOrder and refundItem).
Busy(o) == \E w \in Workers : reqs[w].order = o /\ reqs[w].at \in {"till", "commit"}
DrawerExplainsPayments ==
  \A o \in Orders : ~Busy(o) /\ "torn" \notin why[o]
                      => till[o] = payments[o] - refunds[o] - refunded[o]

\* Appends to one table's order are never lost: its total is the bill of all
\* the lines it has (createDirect increments totalAmount).
TotalMatchesLines ==
  \A o \in Existing : orders[o].total = Bill[Lines(o)]

\* No committed order is forgotten by the kitchen: its ticket was sent or its
\* fire job queued before the commit, whatever failed after it.
NoOrderForgotten ==
  \A o \in Existing : o \in kds \/ \E j \in DOMAIN jobs : jobs[j].order = o

\* A fire job that moved its order to PENDING and ended as completed has told
\* the kitchen ("transitions the order: SCHEDULED -> PENDING and notifies KDS").
FiredOrderIsTicketed ==
  \A j \in DOMAIN jobs :
    jobs[j].at = "done" /\ jobs[j].moved => jobs[j].order \in kds

\* The first refund that pays money out finds its order covered by Payment rows ("Only
\* completed (fully paid) orders can be refunded").
RefundableIsPaid ==
  \A w \in Workers :
    /\ reqs[w].op \in {"refund", "refundItem"} /\ reqs[w].amount > 0
    /\ refunds[reqs[w].order] + refunded[reqs[w].order] = 0
    => payments[reqs[w].order] >= orders[reqs[w].order].total

\* Every fire job ends: its attempts and its one stall run out, or it is done.
JobsSettle ==
  \A j \in 1 .. MaxRequests :
    j \in DOMAIN jobs ~> j \in DOMAIN jobs /\ jobs[j].at \in {"done", "failed"}

\* No request waits for ever on a row another one has locked.
RequestsEnd == \A w \in Workers : reqs[w] # Idle ~> reqs[w] = Idle
=============================================================================
