------------------------------ MODULE Inventory ------------------------------
(***************************************************************************)
(* Everything besides the order desk that writes StockLevel and            *)
(* StockMovement: adjustments and stocktakes (InventoryService), transfers *)
(* (TransferService) and purchase orders (PurchaseOrderService), together   *)
(* with the sales that take stock in the meantime.                         *)
(*                                                                         *)
(* A bin is one StockLevel row: a product in a warehouse.  A transaction   *)
(* reads what is committed, keeps the rows it wrote locked, and what it     *)
(* wrote reaches the tables when it commits; a receipt of goods runs        *)
(* without a transaction, each statement committing by itself.             *)
(***************************************************************************)
EXTENDS Integers, Sequences

CONSTANTS
  Bins,
  Present,      \* bins whose StockLevel row exists at first
  MaxRequests,  \* bound: calls made
  Transfers,
  Source,       \* Source[t], Destination[t]: the bins of transfer t
  Destination,
  Purchases,
  Moves,        \* Moves[t]: the quantity of transfer t
  Deliveries,   \* Deliveries[p]: what may be received of purchase order p, line by line
  Carts,        \* what a sale may take, bin by bin, a unit of each
  Sheets,       \* what a stocktake may count, bin by bin
  NewStatuses,  \* statuses asked for
  Adjustments,  \* quantities adjustStock is given; nothing asks for a positive one
  Quantities    \* quantities counted or delivered

ASSUME InventoryAssumption ==
  /\ Present \subseteq Bins
  /\ MaxRequests \in Nat
  /\ Source \in [Transfers -> Bins]
  /\ Destination \in [Transfers -> Bins]
  /\ \A t \in Transfers : Source[t] # Destination[t]
  /\ Moves \in [Transfers -> Int]
  /\ Deliveries \in [Purchases -> SUBSET Seq(Bins)]
  /\ Carts \subseteq Seq(Bins)
  /\ Sheets \subseteq Seq(Bins)
  /\ Adjustments \cup Quantities \subseteq Int
  /\ \A s \in Carts \cup Sheets \cup UNION {Deliveries[p] : p \in Purchases} :
       \A i, j \in DOMAIN s : s[i] = s[j] => i = j    \* bound: no list names a bin twice

Requests == 1 .. MaxRequests   \* in the order they arrive

VARIABLES
  rows,       \* StockLevel, the sum of StockMovement, and history, of each bin
  transfers,  \* StockTransfer
  purchases,  \* PurchaseOrder
  reqs        \* the calls

vars == <<rows, transfers, purchases, reqs>>

Ops    == {"adjust", "stocktake", "sale", "transfer", "purchase"}
Kinds  == {"ADD", "REMOVE", "SET"}
TransferStatuses == {"PENDING", "COMPLETED", "CANCELLED"}
PurchaseStatuses == {"PENDING", "ORDERED", "PARTIALLY_RECEIVED", "RECEIVED", "CANCELLED"}
Steps  == {"idle", "read", "write", "mark", "fetch", "level", "log", "status", "done"}
Ended  == {"idle", "done"}

Effect   == [change: Int, log: Int, why: SUBSET {"set", "created", "raced"}]
NoEffect == [change |-> 0, log |-> 0, why |-> {}]

Row == [on: BOOLEAN, level: Int,
        moved: Int,       \* the sum of its movements
        owed: Int,        \* history: delivered, but its movement is not written
        why: SUBSET {"set", "created", "raced"}]  \* history: what may part the two

Transfer == [status: TransferStatuses,
             moves: Nat,  \* history: how often it moved its stock
             done: BOOLEAN, why: SUBSET {"again", "interrupted"}]

Purchase == [status: PurchaseStatuses,
             got: [Bins -> Nat],   \* history: how often each line was received
             asked: SUBSET Bins,   \* history: the lines of the last receipt
             done: BOOLEAN, why: SUBSET {"reopened", "raced", "interrupted"}]

Request == [op: Ops, at: Steps,
            doc: Transfers \cup Purchases \cup {"none"},
            new: TransferStatuses \cup PurchaseStatuses,   \* the status asked for
            kind: Kinds, qty: Int,
            todo: Seq(Bins),              \* bins it has still to do
            seen: Int, found: BOOLEAN,    \* what it read of the first of them
            stale: BOOLEAN,               \* history: which has changed since
            held: SUBSET Bins,            \* rows it wrote and has not committed
            effect: [Bins -> Effect]]     \* and what it wrote there

TypeOK ==
  /\ rows \in [Bins -> Row]
  /\ transfers \in [Transfers -> Transfer]
  /\ purchases \in [Purchases -> Purchase]
  /\ reqs \in [Requests -> Request]

Idle == [op |-> "sale", at |-> "idle", doc |-> "none", new |-> "PENDING", kind |-> "ADD",
         qty |-> 0, todo |-> << >>, seen |-> 0, found |-> FALSE, stale |-> FALSE,
         held |-> {}, effect |-> [b \in Bins |-> NoEffect]]

Init ==
  /\ rows = [b \in Bins |->
       [on |-> b \in Present, level |-> 0, moved |-> 0, owed |-> 0, why |-> {}]]
  /\ transfers = [t \in Transfers |->
       [status |-> "PENDING", moves |-> 0, done |-> FALSE, why |-> {}]]
  /\ purchases = [p \in Purchases |->
       [status |-> "PENDING", got |-> [b \in Bins |-> 0], asked |-> {}, done |-> FALSE,
        why |-> {}]]
  /\ reqs = [r \in Requests |-> Idle]

-----------------------------------------------------------------------------
\* The bin r is at, when it has one.
Bin(r) == Head(reqs[r].todo)

Free(r, b) == \A q \in Requests \ {r} : b \notin reqs[q].held

\* Other calls working on the same document.
Rivals(r) == {q \in Requests \ {r} : reqs[q].doc = reqs[r].doc /\ reqs[q].at \notin Ended}

Goto(r, q, at) == reqs' = [reqs EXCEPT ![r] = [q EXCEPT !.at = at]]

\* A stocktake that has read bin b and not written it.
Counting(q, b) ==
  reqs[q].op = "stocktake" /\ reqs[q].at = "write" /\ Bin(q) = b

\* The calls as they are once q is r's record and the rows in B have changed.
After(r, q, B) ==
  reqs' = [x \in Requests |->
    IF x = r THEN q
    ELSE IF \E b \in B : Counting(x, b) THEN [reqs[x] EXCEPT !.stale = TRUE]
    ELSE reqs[x]]

\* Mistaken: the rows it wrote stay locked.
CommittedHolding(q) == [Idle EXCEPT !.at = "done", !.held = q.held]

\* What is left of a transaction that has committed.
Committed(q) == [Idle EXCEPT !.at = "done"]

\* r has written its effect to its bin (or skipped it) and goes on to the next; with
\* the last one it commits.
Proceed(r, held, effect) ==
  LET rest == Tail(reqs[r].todo)
      q    == [reqs[r] EXCEPT !.todo = rest, !.held = held, !.effect = effect]
  IN IF rest # << >>
       THEN /\ Goto(r, q, IF reqs[r].op = "stocktake" THEN "read" ELSE "write")
            /\ UNCHANGED <<rows, transfers>>
       ELSE /\ rows' = [b \in Bins |->
                 IF b \notin held THEN rows[b]
                 ELSE [rows[b] EXCEPT !.on = TRUE, !.level = @ + effect[b].change,
                                      !.moved = @ + effect[b].log,
                                      !.why = @ \cup effect[b].why]]
            /\ transfers' = IF reqs[r].op = "transfer"
                              THEN [transfers EXCEPT ![reqs[r].doc].moves = @ + 1] ELSE transfers
            /\ After(r, Committed(q), held)

\* r writes its bin: the row stays locked until r ends.
Put(r, change, log, why) ==
  Proceed(r, reqs[r].held \cup {Bin(r)},
          [reqs[r].effect EXCEPT ![Bin(r)] = [change |-> change, log |-> log, why |-> why]])

Skip(r) == Proceed(r, reqs[r].held, reqs[r].effect)

-----------------------------------------------------------------------------
Begin(r) ==
  /\ reqs[r].at = "idle"
  /\ \A q \in 1 .. r - 1 : reqs[q].at # "idle"
  /\ \/ \E b \in Bins, kind \in Kinds, n \in Adjustments :
          Goto(r, [Idle EXCEPT !.op = "adjust", !.kind = kind, !.qty = n, !.todo = <<b>>], "read")
     \/ \E sheet \in Sheets \ {<< >>} :
          Goto(r, [Idle EXCEPT !.op = "stocktake", !.todo = sheet], "read")
     \/ \E cart \in Carts \ {<< >>} :
          Goto(r, [Idle EXCEPT !.op = "sale", !.qty = 1, !.todo = cart], "write")
     \/ \E t \in Transfers, new \in TransferStatuses \cap NewStatuses :
          Goto(r, [Idle EXCEPT !.op = "transfer", !.doc = t, !.new = new, !.qty = Moves[t]], "mark")
     \/ \E p \in Purchases, new \in PurchaseStatuses \cap NewStatuses, n \in Quantities :
          Goto(r, [Idle EXCEPT !.op = "purchase", !.doc = p, !.new = new, !.qty = n], "fetch")
  /\ UNCHANGED <<rows, transfers, purchases>>

\* adjustStock and performStocktake read the row before they write it.
ReadBin(r) ==
  /\ reqs[r].at = "read"
  /\ Goto(r, [reqs[r] EXCEPT !.seen = rows[Bin(r)].level, !.found = rows[Bin(r)].on,
                             !.stale = FALSE], "write")
  /\ UNCHANGED <<rows, transfers, purchases>>

\* What adjustStock logs: the size of the quantity, whatever its sign, or what was SET.
Size(n) == IF n < 0 THEN 0 - n ELSE n
Delta(kind, n) == IF kind = "SET" THEN n ELSE IF kind = "REMOVE" THEN 0 - Size(n) ELSE Size(n)

\* adjustStock of a row it found: SET logs the new quantity, not the difference.
AdjustRow(r) ==
  /\ reqs[r].op = "adjust" /\ reqs[r].at = "write" /\ Free(r, Bin(r))
  /\ reqs[r].found
  /\ LET n == Delta(reqs[r].kind, reqs[r].qty)
     IN IF reqs[r].kind = "SET" THEN Put(r, n - rows[Bin(r)].level, n, {"set"})
                                ELSE Put(r, n, n, {})
  /\ UNCHANGED purchases

\* adjustStock of a row it did not find: the new row holds the quantity itself, and
\* nothing for one below zero, whatever was asked for and is logged.  If the row is
\* there by now the insert fails.
AdjustNew(r) ==
  LET n    == reqs[r].qty
      held == IF n < 0 THEN 0 ELSE n
      log  == Delta(reqs[r].kind, n)
  IN /\ reqs[r].op = "adjust" /\ reqs[r].at = "write" /\ Free(r, Bin(r))
     /\ ~reqs[r].found
     /\ IF rows[Bin(r)].on
          THEN Goto(r, Idle, "done") /\ UNCHANGED <<rows, transfers>>
          ELSE Put(r, held, log, IF held = log THEN {} ELSE {"created"})
     /\ UNCHANGED purchases

\* Mistaken: the movement is what was counted.
StocktakeLogsCount(r) ==
  /\ reqs[r].op = "stocktake" /\ reqs[r].at = "write" /\ Free(r, Bin(r))
  /\ \E n \in Quantities \cup {0} :
       IF n = reqs[r].seen
         THEN Skip(r)
         ELSE Put(r, n - rows[Bin(r)].level, n, IF reqs[r].stale THEN {"raced"} ELSE {})
  /\ UNCHANGED purchases

\* performStocktake: the row becomes what was counted, the movement is the
\* variance against what was read.
StocktakeRow(r) ==
  /\ reqs[r].op = "stocktake" /\ reqs[r].at = "write" /\ Free(r, Bin(r))
  /\ \E n \in Quantities \cup {0} :
       IF n = reqs[r].seen
         THEN Skip(r)
         ELSE Put(r, n - rows[Bin(r)].level, n - reqs[r].seen,
                  IF reqs[r].stale THEN {"raced"} ELSE {})
  /\ UNCHANGED purchases

\* deductStockRecursively of a sale: a product without a row is not deducted.
SaleRow(r) ==
  /\ reqs[r].op = "sale" /\ reqs[r].at = "write" /\ Free(r, Bin(r))
  /\ IF rows[Bin(r)].on THEN Put(r, 0 - reqs[r].qty, 0 - reqs[r].qty, {}) ELSE Skip(r)
  /\ UNCHANGED purchases

-----------------------------------------------------------------------------
(* TransferService.updateStatus.                                           *)

\* Mistaken: a cancelled transfer moves its stock, too.
TransferMarkMovesCancelled(r) ==
  /\ reqs[r].at = "mark"
  /\ transfers' = [transfers EXCEPT ![reqs[r].doc].status = reqs[r].new]
  /\ IF reqs[r].new # "PENDING"
       THEN Goto(r, [reqs[r] EXCEPT !.todo = <<Source[reqs[r].doc], Destination[reqs[r].doc]>>],
                 "write")
       ELSE Goto(r, Idle, "done")
  /\ UNCHANGED <<rows, purchases>>

\* The status is written by itself, whatever it was.
TransferMark(r) ==
  LET t == reqs[r].doc
      w == transfers[t]
  IN /\ reqs[r].at = "mark"
     /\ transfers' = [transfers EXCEPT ![t] =
          [w EXCEPT !.status = reqs[r].new,
                    !.done = @ \/ reqs[r].new = "COMPLETED",
                    !.why = IF w.done /\ reqs[r].new = "COMPLETED" THEN @ \cup {"again"} ELSE @]]
     /\ IF reqs[r].new = "COMPLETED"
          THEN Goto(r, [reqs[r] EXCEPT !.todo = <<Source[t], Destination[t]>>], "write")
          ELSE Goto(r, Idle, "done")
     /\ UNCHANGED <<rows, purchases>>

\* Then its transaction takes the quantity out of one bin and puts it in the other.
TransferRow(r) ==
  /\ reqs[r].op = "transfer" /\ reqs[r].at = "write" /\ Free(r, Bin(r))
  /\ LET n == IF Bin(r) = Source[reqs[r].doc] THEN 0 - reqs[r].qty ELSE reqs[r].qty
     IN Put(r, n, n, {})
  /\ UNCHANGED purchases

-----------------------------------------------------------------------------
(* PurchaseOrderService.updateStatus and receiveOrder, without transaction. *)

\* Mistaken: it receives whatever the status.
PurchaseFetchUnguarded(r) ==
  /\ reqs[r].at = "fetch"
  /\ reqs[r].new = "RECEIVED"
  /\ \E lines \in Deliveries[reqs[r].doc] \ {<< >>} :
       /\ Goto(r, [reqs[r] EXCEPT !.todo = lines], "level")
       /\ purchases' = [purchases EXCEPT ![reqs[r].doc].asked = {lines[i] : i \in DOMAIN lines}]
  /\ UNCHANGED <<rows, transfers>>

\* Receiving starts if the status it reads is not RECEIVED: the lines of the
\* request, or all lines of the order.
PurchaseFetch(r) ==
  LET p == reqs[r].doc
      receives == reqs[r].new = "RECEIVED" /\ purchases[p].status # "RECEIVED"
      raced == \E q \in Rivals(r) : reqs[q].new = "RECEIVED" /\ reqs[q].at # "fetch"
  IN /\ reqs[r].at = "fetch"
     /\ \/ /\ receives
           /\ \E lines \in Deliveries[p] :
                /\ Goto(r, [reqs[r] EXCEPT !.todo = lines],
                        IF lines = << >> THEN "status" ELSE "level")
                /\ purchases' = [purchases EXCEPT
                     ![p].asked = {lines[i] : i \in DOMAIN lines},
                     ![p].why = IF raced THEN @ \cup {"raced"} ELSE @]
        \/ ~receives /\ Goto(r, reqs[r], "status") /\ UNCHANGED purchases
     /\ UNCHANGED <<rows, transfers>>

PurchaseLevel(r) ==
  /\ reqs[r].at = "level" /\ Free(r, Bin(r))
  /\ rows' = [rows EXCEPT ![Bin(r)].on = TRUE, ![Bin(r)].level = @ + reqs[r].qty,
                          ![Bin(r)].owed = @ + reqs[r].qty]
  /\ purchases' = [purchases EXCEPT ![reqs[r].doc].got[Bin(r)] = @ + 1]
  /\ After(r, [reqs[r] EXCEPT !.at = "log"], {Bin(r)})
  /\ UNCHANGED transfers

PurchaseLog(r) ==
  /\ reqs[r].at = "log"
  /\ rows' = [rows EXCEPT ![Bin(r)].moved = @ + reqs[r].qty, ![Bin(r)].owed = @ - reqs[r].qty]
  /\ Goto(r, [reqs[r] EXCEPT !.todo = Tail(@)],
          IF Tail(reqs[r].todo) = << >> THEN "status" ELSE "level")
  /\ UNCHANGED <<transfers, purchases>>

\* Mistaken: the word of the other document.
PurchaseStatusWord(r) ==
  /\ reqs[r].at = "status"
  /\ purchases' = [purchases EXCEPT ![reqs[r].doc].status =
       IF reqs[r].new = "RECEIVED" THEN "COMPLETED" ELSE reqs[r].new]
  /\ Goto(r, Idle, "done")
  /\ UNCHANGED <<rows, transfers>>

\* The status asked for is written over whatever it is by now.
PurchaseStatus(r) ==
  LET p == reqs[r].doc
  IN /\ reqs[r].at = "status"
     /\ purchases' = [purchases EXCEPT
          ![p].status = reqs[r].new,
          ![p].done = @ \/ reqs[r].new = "RECEIVED",
          ![p].why = IF purchases[p].done /\ reqs[r].new # "RECEIVED"
                       THEN @ \cup {"reopened"} ELSE @]
     /\ Goto(r, Idle, "done")
     /\ UNCHANGED <<rows, transfers>>

-----------------------------------------------------------------------------
\* An error or a crash: a transaction is rolled back, a receipt of goods and the
\* status of a transfer stay as far as they got.
Fail(r) ==
  /\ reqs[r].at \notin Ended
  /\ transfers' = IF reqs[r].op = "transfer" /\ reqs[r].at = "write"
                    THEN [transfers EXCEPT ![reqs[r].doc].why = @ \cup {"interrupted"}] ELSE transfers
  /\ purchases' = IF reqs[r].at \in {"level", "log", "status"} /\ reqs[r].new = "RECEIVED"
                    THEN [purchases EXCEPT ![reqs[r].doc].why = @ \cup {"interrupted"}] ELSE purchases
  /\ Goto(r, Idle, "done")
  /\ UNCHANGED rows

\* Calls that wait for each other's rows: each member of S for a row of another.
Deadlocked(r) ==
  \E S \in SUBSET Requests :
    /\ r \in S
    /\ \A q \in S : /\ reqs[q].at \in {"write", "level"}
                    /\ \E x \in S \ {q} : Bin(q) \in reqs[x].held

\* Postgres ends one of them.
Victim(r) == Deadlocked(r) /\ Fail(r)

Step(r) ==
  \/ ReadBin(r) \/ AdjustRow(r) \/ AdjustNew(r) \/ StocktakeRow(r) \/ SaleRow(r)
  \/ TransferMark(r) \/ TransferRow(r)
  \/ PurchaseFetch(r) \/ PurchaseLevel(r) \/ PurchaseLog(r) \/ PurchaseStatus(r)

Next == \E r \in Requests : Begin(r) \/ Step(r) \/ Fail(r)

Spec == Init /\ [][Next]_vars

\* While some call can go on, one does, and a deadlock is broken; nothing else fails
\* of necessity.
FairSpec ==
  /\ Spec
  /\ WF_vars(\E r \in Requests : Step(r))
  /\ WF_vars(\E r \in Requests : Victim(r))

-----------------------------------------------------------------------------
(* Properties.                                                             *)

\* Level and movements of a bin agree, counting what a delivery has not logged
\* yet, unless its stock was SET, an adjustment created its row with a quantity below
\* zero or by a removal, or it changed between a stocktake's read and write.
LevelExplained ==
  \A b \in Bins : rows[b].why = {} => rows[b].level = rows[b].moved + rows[b].owed

\* Goods come in once: a line is received twice only if two calls received the
\* order at once, one stopped halfway, or the order had left RECEIVED again; and an
\* order that reads RECEIVED without any of that has the lines it was told.
ReceivedOnce ==
  \A p \in Purchases : purchases[p].why = {} =>
    /\ \A b \in Bins : purchases[p].got[b] <= 1
    /\ purchases[p].status = "RECEIVED" => \A b \in purchases[p].asked : purchases[p].got[b] = 1

\* A transfer nobody is working on, completed once and never interrupted, has moved
\* its stock once; one that never was completed has not moved any.
MovedOnce ==
  \A t \in Transfers :
    transfers[t].why = {} /\ (\A r \in Requests : reqs[r].doc = t => reqs[r].at \in Ended)
    => transfers[t].moves = IF transfers[t].done THEN 1 ELSE 0

\* Calls that lock rows in opposite orders do not wait for ever: in the end no call
\* is left in flight.
CallsEnd == <>[](\A r \in Requests : reqs[r].at \in Ended)
=============================================================================
