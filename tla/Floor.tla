------------------------------- MODULE Floor -------------------------------
(***************************************************************************)
(* The dining room of one branch: which order sits at which table, and    *)
(* what the Table rows show.  TableService and every other handler that   *)
(* seats an order or writes Table.status: createDirect, assignTable,      *)
(* splitBill, updateStatus, voidOrder, and the guests' createGuestOrder   *)
(* and splitOrder.  A transaction is its read and its commit; a handler   *)
(* without one is a step per statement, with other requests in between.   *)
(*                                                                         *)
(* Lines, stock and payments are in Orders; here an order keeps what is    *)
(* still due.  PENDING stands for PREPARING and READY too: no handler of   *)
(* the tables tells them apart.                                            *)
(***************************************************************************)
EXTENDS Integers, FiniteSets

CONSTANTS
  Tables,         \* tables of the branch
  NoTable,        \* an order without a table, a table without a parent
  Workers,        \* requests that can be in flight at once
  StaffStatuses,  \* statuses the dashboard sends to PATCH /orders/:id/status
  Labels,         \* statuses the floor plan sends to PATCH /tables/:id
  MaxOrders,      \* bound: orders ever created
  MaxRequests     \* bound: requests ever made

Orders == 1 .. MaxOrders
Seats  == Tables \cup {NoTable}

Active   == {"PENDING", "HELD"}
Finished == {"COMPLETED", "CANCELLED"}
Status   == {"none", "SCHEDULED", "DELIVERED", "REFUNDED"} \cup Active \cup Finished
Shown    == {"AVAILABLE", "OCCUPIED", "RESERVED", "CLEANING"}

ASSUME FloorAssumption ==
  /\ NoTable \notin Tables
  /\ StaffStatuses \subseteq Status \ {"none"}
  /\ Labels \subseteq Shown
  /\ MaxOrders \in Nat
  /\ MaxRequests \in Nat

VARIABLES
  orders,  \* Order rows: status, table, and total less paid
  tables,  \* Table rows: status, and parentTableId of a merged one
  reqs,    \* requests in flight
  nextId,  \* next order id (a fresh uuid in the code)
  served,  \* requests started so far
  joined,  \* history: orders open at their table through createDirect alone
  doubted  \* history: tables that may show something else than their orders

vars == <<orders, tables, reqs, nextId, served, joined, doubted>>

OrderRow == [status : Status, table : Seats, due : Int]
TableRow == [status : Shown, parent : Seats]
NoOrder  == [status |-> "none", table |-> NoTable, due |-> 0]

Ops   == {"idle", "create", "split", "move", "merge", "checkout", "assign",
          "status", "void", "row"}
Steps == {"", "source", "clear", "seat", "occupy", "write", "table"}
Request == [op : Ops, at : Steps, order : 0 .. MaxOrders, to : Status,
            table : Seats, target : Seats, due : Int, free : BOOLEAN,
            todo : SUBSET Orders, stale : BOOLEAN]
Idle == [op |-> "idle", at |-> "", order |-> 0, to |-> "none", table |-> NoTable,
         target |-> NoTable, due |-> 0, free |-> FALSE, todo |-> {}, stale |-> FALSE]

TypeOK ==
  /\ orders \in [Orders -> OrderRow]
  /\ tables \in [Tables -> TableRow]
  /\ reqs \in [Workers -> Request]
  /\ nextId \in 1 .. MaxOrders + 1
  /\ served \in 0 .. MaxRequests
  /\ joined \in SUBSET Orders
  /\ doubted \in SUBSET Tables

Init ==
  /\ orders = [o \in Orders |-> NoOrder]
  /\ tables = [t \in Tables |-> [status |-> "AVAILABLE", parent |-> NoTable]]
  /\ reqs = [w \in Workers |-> Idle]
  /\ nextId = 1
  /\ served = 0
  /\ joined = {}
  /\ doubted = {}

-----------------------------------------------------------------------------
Existing == {o \in Orders : orders[o].status # "none"}

\* Mistaken: a held order is not looked for.
OpenAtUnheld(t) == {o \in Existing : orders[o].table = t /\ orders[o].status = "PENDING"}

\* Orders createDirect may append to, newest first, and orders TableService
\* takes for active: DELIVERED, REFUNDED and SCHEDULED ones too.
OpenAt(t) == {o \in Existing : orders[o].table = t /\ orders[o].status \in {"PENDING", "HELD"}}
SeatedAt(t) == {o \in Existing : orders[o].table = t /\ orders[o].status \notin Finished}

Newest(S) == IF S = {} THEN 0 ELSE CHOOSE o \in S : \A x \in S : x <= o

\* What a Table row shows for an order with this much due.
Shows(due) == IF due <= 0 THEN "AVAILABLE" ELSE "OCCUPIED"

\* Request r depends on a row that is written: it read it or wrote it before.
Knows(r, O, T) ==
  r # Idle /\ (r.order \in O \/ r.todo \cap O # {} \/ r.table \in T \/ r.target \in T)

\* Request w goes on as r after it wrote the orders O and the tables T; the
\* other requests that know them are overtaken.
Step(w, r, O, T) ==
  reqs' = [x \in Workers |->
             IF x = w THEN r
             ELSE [reqs[x] EXCEPT !.stale = @ \/ Knows(reqs[x], O, T \cap Tables)]]

Begin(w, r) ==
  /\ reqs[w] = Idle
  /\ served < MaxRequests
  /\ served' = served + 1
  /\ reqs' = [reqs EXCEPT ![w] = r]

\* A handler of a single statement: it begins and ends in one step.
Once(w, O, T) ==
  /\ reqs[w] = Idle
  /\ served < MaxRequests
  /\ served' = served + 1
  /\ Step(w, Idle, O, T)

Goto(w, at) == [reqs[w] EXCEPT !.at = at]

\* A table is doubted that is set by hand or given an order without being written,
\* or that request w writes for order o after another request wrote a row it knows,
\* or while another order sits there.
Doubt(t) == doubted' = doubted \cup ({t} \cap Tables)
Overtaken(w, T) == IF reqs[w].stale THEN T \cap Tables ELSE {}
Shared(t, o) == IF SeatedAt(t) \subseteq {o} THEN {} ELSE {t} \cap Tables
Show(w, t, o) == doubted' = doubted \cup Overtaken(w, {t, orders[o].table}) \cup Shared(t, o)

\* The status of order o is written; it may come back to life.
Wake(o, to) ==
  joined' = IF to \in Active /\ orders[o].status \notin Active THEN joined \ {o} ELSE joined

\* An error or a crash: the statements already made stay, the tables of a request
\* half way through its rows may show anything.
Fail(w) ==
  /\ reqs[w] # Idle
  /\ doubted' = IF reqs[w].at \in {"seat", "occupy", "table"}
                  THEN doubted \cup ({reqs[w].table, reqs[w].target} \cap Tables)
                  ELSE doubted
  /\ reqs' = [reqs EXCEPT ![w] = Idle]
  /\ UNCHANGED <<orders, tables, nextId, served, joined>>

-----------------------------------------------------------------------------
(* createDirect: a cart of one unit of money, or none, for a table or not, *)
(* paid not at all, for itself, or with all that is due at the table.      *)

StatusFor(open, due, asked) ==
  IF open # 0
    THEN IF orders[open].due + due <= 0 THEN "COMPLETED" ELSE orders[open].status
    ELSE IF asked # "none" THEN asked
    ELSE IF due <= 0 THEN "COMPLETED" ELSE "PENDING"

CreateRead(w) ==
  \E t \in Seats, cart \in 0 .. 1, asked \in {"none", "HELD", "SCHEDULED"} :
    LET open == IF t = NoTable THEN 0 ELSE Newest(OpenAt(t))
        tab  == IF open = 0 THEN cart ELSE orders[open].due + cart
    IN \E paid \in {0, cart, tab} :
         /\ cart = 0 => open # 0
         /\ paid >= 0
         /\ Begin(w, [Idle EXCEPT !.op = "create", !.at = "write", !.order = open,
                        !.to = StatusFor(open, cart - paid, asked), !.table = t,
                        !.due = cart - paid])
         /\ UNCHANGED <<orders, tables, nextId, joined, doubted>>

\* The order, then the status of the table the client named.
CreateCommit(w) ==
  LET r   == reqs[w]
      id  == IF r.order = 0 THEN nextId ELSE r.order
      due == IF r.order = 0 THEN r.due ELSE orders[id].due + r.due
      shown == IF r.to = "HELD" THEN "OCCUPIED" ELSE Shows(due)
  IN /\ r.op = "create" /\ r.at = "write"
     /\ id \in Orders
     /\ orders' = IF r.order = 0
                    THEN [orders EXCEPT ![id] = [status |-> r.to, table |-> r.table, due |-> due]]
                    ELSE [orders EXCEPT ![id].status = r.to, ![id].due = due]
     /\ nextId' = IF r.order = 0 THEN nextId + 1 ELSE nextId
     /\ IF r.order # 0 THEN Wake(id, r.to)
        ELSE joined' = IF r.stale THEN joined ELSE joined \cup {id}
     /\ tables' = [t \in Tables |-> IF t = r.table THEN [tables[t] EXCEPT !.status = shown]
                                                   ELSE tables[t]]
     /\ Show(w, r.table, id)
     /\ Step(w, Idle, {id}, {r.table, orders[id].table})
     /\ UNCHANGED served

\* createGuestOrder: a guest's order at a table never joins the one there.  It is
\* seated by tableId or by tableNumber, and only a tableId shows the table OCCUPIED:
\* the guests' own page sends the table's id as its number.
CreateGuestOrder(w) ==
  \E t \in Tables, status \in {"PENDING", "SCHEDULED"}, field \in {"tableId", "tableNumber"} :
    /\ nextId \in Orders
    /\ orders' = [orders EXCEPT ![nextId] = [status |-> status, table |-> t, due |-> 1]]
    /\ nextId' = nextId + 1
    /\ \/ /\ field = "tableId"
          /\ tables' = [tables EXCEPT ![t].status = "OCCUPIED"]
          /\ UNCHANGED doubted
       \/ /\ field = "tableNumber"
          /\ Doubt(t)
          /\ UNCHANGED tables
    /\ Once(w, {nextId}, {t})
    /\ UNCHANGED joined

\* splitBill and splitOrder: two children at the table of the order that was
\* read, one after the other; neither the order nor the table is written.
SplitRead(w) ==
  \E o \in Existing :
    /\ Begin(w, [Idle EXCEPT !.op = "split", !.at = "write", !.order = o,
                   !.table = orders[o].table, !.due = 2])
    /\ UNCHANGED <<orders, tables, nextId, joined, doubted>>

SplitChild(w) ==
  LET r == reqs[w]
  IN /\ r.op = "split"
     /\ nextId \in Orders
     /\ orders' = [orders EXCEPT ![nextId] = [status |-> "PENDING", table |-> r.table, due |-> 1]]
     /\ nextId' = nextId + 1
     /\ Doubt(r.table)
     /\ Step(w, IF r.due = 1 THEN Idle ELSE [r EXCEPT !.due = 1], {nextId}, {r.table})
     /\ UNCHANGED <<tables, served, joined>>

-----------------------------------------------------------------------------
(* assignTable: what is due is read before the transaction; the table the  *)
(* order leaves keeps its status.                                          *)

AssignRead(w) ==
  \E o \in Existing, t \in Tables :
    /\ Begin(w, [Idle EXCEPT !.op = "assign", !.at = "write", !.order = o, !.table = t,
                   !.due = orders[o].due])
    /\ UNCHANGED <<orders, tables, nextId, joined, doubted>>

AssignCommit(w) ==
  LET r == reqs[w]
  IN /\ r.op = "assign"
     /\ orders' = [orders EXCEPT ![r.order].table = r.table]
     /\ tables' = [tables EXCEPT ![r.table].status = Shows(r.due)]
     /\ joined' = joined \ {r.order}
     /\ Show(w, r.table, r.order)
     /\ Step(w, Idle, {r.order}, {r.table, orders[r.order].table})
     /\ UNCHANGED <<nextId, served>>

-----------------------------------------------------------------------------
(* updateStatus: the order, then the table the order is at.                *)

StatusRead(w) ==
  \E o \in Existing, to \in StaffStatuses :
    LET due == orders[o].due
    IN /\ Begin(w, [Idle EXCEPT !.op = "status", !.at = "write", !.order = o, !.to = to,
                      !.due = IF to = "COMPLETED" /\ due > 0 THEN due ELSE 0])
       /\ UNCHANGED <<orders, tables, nextId, joined, doubted>>

\* Mistaken: the table is freed whatever is still due.
StatusWriteFreesAll(w) ==
  LET r   == reqs[w]
      due == orders[r.order].due - r.due
      t   == orders[r.order].table
  IN /\ r.op = "status" /\ r.at = "write"
     /\ orders' = [orders EXCEPT ![r.order].status = r.to, ![r.order].due = due]
     /\ Wake(r.order, r.to)
     /\ Step(w, IF t = NoTable THEN Idle
                ELSE [r EXCEPT !.at = "table", !.table = t, !.free = r.to # "HELD"],
             {r.order}, {t})
     /\ UNCHANGED <<tables, nextId, served, doubted>>

StatusWrite(w) ==
  LET r   == reqs[w]
      due == orders[r.order].due - r.due
      t   == orders[r.order].table
  IN /\ r.op = "status" /\ r.at = "write"
     /\ orders' = [orders EXCEPT ![r.order].status = r.to, ![r.order].due = due]
     /\ Wake(r.order, r.to)
     /\ Step(w, IF t = NoTable THEN Idle
                ELSE [r EXCEPT !.at = "table", !.table = t,
                        !.free = r.to \in {"COMPLETED", "CANCELLED", "DELIVERED"} \/ due <= 0],
             {r.order}, {t})
     /\ UNCHANGED <<tables, nextId, served, doubted>>

\* Mistaken: the table shows the status of its order.
StatusTableCopies(w) ==
  LET r == reqs[w]
  IN /\ r.op = "status" /\ r.at = "table"
     /\ tables' = [tables EXCEPT ![r.table].status = r.to]
     /\ Show(w, r.table, r.order)
     /\ Step(w, Idle, {}, {r.table})
     /\ UNCHANGED <<orders, nextId, served, joined>>

StatusTable(w) ==
  LET r == reqs[w]
  IN /\ r.op = "status" /\ r.at = "table"
     /\ tables' = [tables EXCEPT ![r.table].status = IF r.free THEN "AVAILABLE" ELSE "OCCUPIED"]
     /\ Show(w, r.table, r.order)
     /\ Step(w, Idle, {}, {r.table})
     /\ UNCHANGED <<orders, nextId, served, joined>>

\* voidOrder frees the table it read, whoever sits there now.
VoidRead(w) ==
  \E o \in Existing :
    /\ orders[o].status \notin {"CANCELLED", "REFUNDED"}
    /\ Begin(w, [Idle EXCEPT !.op = "void", !.at = "write", !.order = o,
                   !.table = orders[o].table])
    /\ UNCHANGED <<orders, tables, nextId, joined, doubted>>

VoidCommit(w) ==
  LET r == reqs[w]
  IN /\ r.op = "void"
     /\ orders' = [orders EXCEPT ![r.order].status = "CANCELLED"]
     /\ tables' = [t \in Tables |-> IF t = r.table THEN [tables[t] EXCEPT !.status = "AVAILABLE"]
                                                   ELSE tables[t]]
     /\ Show(w, r.table, r.order)
     /\ Step(w, Idle, {r.order}, {r.table, orders[r.order].table})
     /\ UNCHANGED <<nextId, served, joined>>

\* firePreOrder and refundOrder change the status and leave the table alone.
RowRead(w) ==
  \E o \in Existing, to \in {"PENDING", "REFUNDED"} :
    /\ orders[o].status = IF to = "PENDING" THEN "SCHEDULED" ELSE "COMPLETED"
    /\ Begin(w, [Idle EXCEPT !.op = "row", !.at = "write", !.order = o, !.to = to,
                   !.table = orders[o].table])
    /\ UNCHANGED <<orders, tables, nextId, joined, doubted>>

RowWrite(w) ==
  LET r == reqs[w]
      t == orders[r.order].table
  IN /\ r.op = "row"
     /\ orders' = [orders EXCEPT ![r.order].status = r.to]
     /\ Wake(r.order, r.to)
     /\ doubted' = doubted \cup Overtaken(w, {t})
     /\ Step(w, Idle, {r.order}, {t})
     /\ UNCHANGED <<tables, nextId, served>>

-----------------------------------------------------------------------------
(* TableService.moveOrder: two reads, then three rows one by one; the two  *)
(* tables may be the same.                                                 *)

\* Mistaken: the target is not looked at.
MoveAnywhere(w) ==
  \E s, t \in Tables :
    /\ Begin(w, [Idle EXCEPT !.op = "move", !.at = "source", !.table = s, !.target = t])
    /\ UNCHANGED <<orders, tables, nextId, joined, doubted>>

MoveTarget(w) ==
  \E s, t \in Tables :
    /\ tables[t].status = "AVAILABLE"
    /\ Begin(w, [Idle EXCEPT !.op = "move", !.at = "source", !.table = s, !.target = t])
    /\ UNCHANGED <<orders, tables, nextId, joined, doubted>>

\* orders[0] of a query without an order: any of them.
MoveSource(w) ==
  LET r == reqs[w]
  IN /\ r.op = "move" /\ r.at = "source"
     /\ \/ /\ SeatedAt(r.table) = {}
           /\ reqs' = [reqs EXCEPT ![w] = Idle]
        \/ \E o \in SeatedAt(r.table) :
             reqs' = [reqs EXCEPT ![w].at = "clear", ![w].order = o]
     /\ UNCHANGED <<orders, tables, nextId, served, joined, doubted>>

MoveClear(w) ==
  LET r == reqs[w]
  IN /\ r.op = "move" /\ r.at = "clear"
     /\ tables' = [tables EXCEPT ![r.table] = [status |-> "AVAILABLE", parent |-> NoTable]]
     /\ Show(w, r.table, r.order)
     /\ Step(w, Goto(w, "seat"), {}, {r.table})
     /\ UNCHANGED <<orders, nextId, served, joined>>

MoveSeat(w) ==
  LET r == reqs[w]
  IN /\ r.op = "move" /\ r.at = "seat"
     /\ orders' = [orders EXCEPT ![r.order].table = r.target]
     /\ joined' = joined \ {r.order}
     /\ Step(w, Goto(w, "occupy"), {r.order}, {orders[r.order].table, r.target})
     /\ UNCHANGED <<tables, nextId, served, doubted>>

MoveOccupy(w) ==
  LET r == reqs[w]
  IN /\ r.op = "move" /\ r.at = "occupy"
     /\ tables' = [tables EXCEPT ![r.target].status = "OCCUPIED"]
     /\ Step(w, Idle, {}, {r.target})
     /\ UNCHANGED <<orders, nextId, served, joined, doubted>>

-----------------------------------------------------------------------------
(* mergeTables, unmergeTable, checkout, and the floor plan's own edit.     *)

MergeRead(w) ==
  \E s, t \in Tables :
    /\ tables[t].status = "OCCUPIED"
    /\ Begin(w, [Idle EXCEPT !.op = "merge", !.at = "write", !.table = s, !.target = t])
    /\ UNCHANGED <<orders, tables, nextId, joined, doubted>>

MergeWrite(w) ==
  LET r == reqs[w]
  IN /\ r.op = "merge"
     /\ tables' = [tables EXCEPT ![r.table] = [status |-> "OCCUPIED", parent |-> r.target]]
     /\ Step(w, Idle, {}, {r.table})
     /\ UNCHANGED <<orders, nextId, served, joined, doubted>>

UnmergeTable(w) ==
  \E t \in Tables :
    /\ tables' = [tables EXCEPT ![t] = [status |-> "AVAILABLE", parent |-> NoTable]]
    /\ Doubt(t)
    /\ Once(w, {}, {t})
    /\ UNCHANGED <<orders, nextId, joined>>

UpdateTable(w) ==
  \E t \in Tables, label \in Labels :
    /\ tables' = [tables EXCEPT ![t].status = label]
    /\ Doubt(t)
    /\ Once(w, {}, {t})
    /\ UNCHANGED <<orders, nextId, joined>>

CheckoutRead(w) ==
  \E t \in Tables :
    /\ SeatedAt(t) # {}
    /\ Begin(w, [Idle EXCEPT !.op = "checkout", !.at = "write", !.table = t,
                   !.todo = SeatedAt(t)])
    /\ UNCHANGED <<orders, tables, nextId, joined, doubted>>

CheckoutOrder(w) ==
  LET r == reqs[w]
  IN \E o \in r.todo :
       /\ r.op = "checkout"
       /\ orders' = [orders EXCEPT ![o].status = "COMPLETED"]
       /\ Step(w, [r EXCEPT !.todo = @ \ {o}, !.at = IF r.todo = {o} THEN "table" ELSE "write"],
               {o}, {orders[o].table})
       /\ UNCHANGED <<tables, nextId, served, joined, doubted>>

\* The table and the ones merged into it, with whatever orders those have.
CheckoutTable(w) ==
  LET r    == reqs[w]
      sons == {t \in Tables : tables[t].parent = r.table}
  IN /\ r.op = "checkout" /\ r.at = "table"
     /\ tables' = [t \in Tables |-> IF t \in sons \cup {r.table}
                     THEN [status |-> "AVAILABLE", parent |-> NoTable] ELSE tables[t]]
     /\ doubted' = doubted \cup sons \cup Overtaken(w, {r.table})
     /\ Step(w, Idle, {}, sons \cup {r.table})
     /\ UNCHANGED <<orders, nextId, served, joined>>

-----------------------------------------------------------------------------
\* Begin and Once ask this as well; here it spares TLC the inputs of a busy worker.
Receive(w) ==
  /\ reqs[w] = Idle /\ served < MaxRequests
  /\ \/ CreateRead(w) \/ CreateGuestOrder(w) \/ SplitRead(w) \/ AssignRead(w)
     \/ StatusRead(w) \/ VoidRead(w) \/ RowRead(w)
     \/ MoveTarget(w) \/ MergeRead(w) \/ UnmergeTable(w) \/ UpdateTable(w) \/ CheckoutRead(w)

Handle(w) ==
  \/ CreateCommit(w) \/ SplitChild(w) \/ AssignCommit(w)
  \/ StatusWrite(w) \/ StatusTable(w) \/ VoidCommit(w) \/ RowWrite(w)
  \/ MoveSource(w) \/ MoveClear(w) \/ MoveSeat(w) \/ MoveOccupy(w)
  \/ MergeWrite(w) \/ CheckoutOrder(w) \/ CheckoutTable(w)

Next == \E w \in Workers : Receive(w) \/ Handle(w) \/ Fail(w)

Spec == Init /\ [][Next]_vars

-----------------------------------------------------------------------------
(* Properties.                                                             *)

\* An order waits to be paid at a table.
Owing(o) == orders[o].status \in Active /\ orders[o].table # NoTable /\ orders[o].due > 0

\* A request has written some of its rows for order o and not yet the last one.
HalfWay(o) == \E w \in Workers : reqs[w].order = o /\ reqs[w].at \in {"seat", "occupy", "table"}

\* A table with an order that waits to be paid shows OCCUPIED, unless it is
\* doubted: written for another order, freed with its parent, set by hand, given a
\* split's child or a guest's order that names it by tableNumber, or written by a
\* request that another one overtook or that was lost half way (createDirect,
\* createGuestOrder, assignTable, updateStatus and moveOrder keep the two in step
\* otherwise).
OwingIsOccupied ==
  \A o \in Orders :
    Owing(o) /\ ~HalfWay(o) /\ orders[o].table \notin doubted
      => tables[orders[o].table].status = "OCCUPIED"

\* Orders sent from the till for one table end up in one order: of two open orders
\* at a table one was not opened there by createDirect (but by a guest, a split, an
\* assignment, a move or a status that woke it), or by one that was overtaken
\* (createDirect appends to the newest open order).
TabsJoin ==
  \A o, p \in joined :
    /\ orders[o].table = orders[p].table /\ orders[o].table # NoTable
    /\ orders[o].status \in Active /\ orders[p].status \in Active
    => o = p

\* moveOrder never seats an order with one that waits to be paid, unless another
\* request wrote one of its rows since it looked, or the target already showed
\* something else than its orders (moveOrder tests AVAILABLE three statements before).
MovesToEmptyTable ==
  [][\A w \in Workers :
       reqs[w].at = "seat" /\ MoveSeat(w) =>
         \/ reqs[w].stale
         \/ reqs[w].target \in doubted
         \/ \A o \in Orders \ {reqs[w].order} :
              Owing(o) /\ orders[o].table = reqs[w].target => HalfWay(o)]_vars
=============================================================================
