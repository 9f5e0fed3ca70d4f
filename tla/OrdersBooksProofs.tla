------------------------- MODULE OrdersBooksProofs -------------------------
(***************************************************************************)
(* Proofs about the money and the stock of the orders, for any number of   *)
(* orders, lines, jobs, amounts and requests: an order's total is the bill *)
(* of its lines, what it shows as paid is backed by its Payment rows, the  *)
(* drawer explains them, a line is taken from stock once, whatever retries *)
(* or races the fire job, and gives back more than it took only by one of  *)
(* the causes the order keeps.                                             *)
(***************************************************************************)
EXTENDS OrdersProofs

-----------------------------------------------------------------------------
(* Requests.                                                               *)

\* What a request has when its handler begins.
Fresh(r) ==
  /\ r.at \in {"pay", "write"}
  /\ r.op = "create" => /\ r.at = "write" /\ r.to # "none"
                        /\ r.lines \subseteq FreeItems /\ r.order \in {0} \cup Existing
  /\ r.op = "status" => r.to # "none" /\ r.amount \in Nat /\ (r.at = "write" => r.amount = 0)
  /\ r.op \notin {"idle", "create", "checkout"} => r.order \in Existing

\* What a request keeps while its handler goes on.
Continues(r, s) ==
  /\ s.op = r.op /\ s.lines = r.lines /\ s.amount = r.amount /\ s.to = r.to
  /\ s.order # r.order => r.op = "create" /\ r.at = "write" /\ r.order = 0 /\ s.order = nextId

Asked(w) == \E r : reqs[w] = Idle /\ reqs' = [reqs EXCEPT ![w] = r] /\ Fresh(r)

LEMMA IdleIs ==
  /\ Idle.op = "idle" /\ Idle.at = "" /\ Idle.lines = {} /\ Idle.amount = 0
  /\ Idle.order = 0 /\ Idle.to = "none"
BY DEF Idle

LEMMA Begins ==
  ASSUME TypeInv, NEW w \in Workers, Receive(w)
  PROVE  Asked(w)
<1> USE DEF TypeInv, TypeOK
<1>1. CASE CreateDirectRead(w)
  <2>1. PICK cart \in SUBSET FreeItems, t \in Seats, pre \in PreOrder,
             asked \in DtoStatuses \cup {"none"} :
          \E paid \in Amounts \cup {Bill[cart], Bill[Tab(Newest(OpenAt(t)), cart)]} :
            Begin(w, [Idle EXCEPT !.op = "create", !.at = "write", !.order = Newest(OpenAt(t)),
                        !.to = StatusFor(Newest(OpenAt(t)), cart, paid, pre, asked), !.table = t,
                        !.lines = cart, !.amount = paid, !.flag = pre])
        BY <1>1, ZenonT(60) DEF CreateDirectRead
  <2> DEFINE open == Newest(OpenAt(t))
  <2>2. open \in {0} \cup Existing
    <3>1. OpenAt(t) \in SUBSET Orders /\ OpenAt(t) \in SUBSET Existing
          BY DEF OpenAt, Existing
    <3> QED BY <3>1, NewestType DEF Newest
  <2>3. PICK paid \in Amounts \cup {Bill[cart], Bill[Tab(open, cart)]} :
          Begin(w, [Idle EXCEPT !.op = "create", !.at = "write", !.order = open,
                      !.to = StatusFor(open, cart, paid, pre, asked), !.table = t,
                      !.lines = cart, !.amount = paid, !.flag = pre])
        BY <2>1
  <2> HIDE DEF open
  <2> DEFINE to == StatusFor(open, cart, paid, pre, asked)
  <2>4. to # "none"
    <3>1. open # 0 => orders[open].status # "none"
          BY <2>2 DEF Existing
    <3> QED BY <3>1 DEF StatusFor
  <2>5. Begin(w, [Idle EXCEPT !.op = "create", !.at = "write", !.order = open, !.to = to,
                    !.table = t, !.lines = cart, !.amount = paid, !.flag = pre])
        BY <2>3
  <2> HIDE DEF to
  <2> DEFINE r == [Idle EXCEPT !.op = "create", !.at = "write", !.order = open, !.to = to,
                     !.table = t, !.lines = cart, !.amount = paid, !.flag = pre]
  <2>6. r.op = "create" /\ r.at = "write" /\ r.to = to /\ r.order = open /\ r.lines = cart
        BY DEF Idle
  <2>7. reqs[w] = Idle /\ reqs' = [reqs EXCEPT ![w] = r]
        BY <2>5 DEF Begin
  <2> HIDE DEF r
  <2> QED BY <2>2, <2>4, <2>6, <2>7 DEF Asked, Fresh
<1>2. CASE StatusRead(w)
  <2>1. PICK o \in Existing, to \in StaffStatuses, given \in Amounts \cup {0} :
          LET due    == orders[o].total - orders[o].paid
              settle == IF to = "COMPLETED" /\ due > 0
                          THEN IF given > 0 THEN given ELSE due
                          ELSE 0
          IN Begin(w, [Idle EXCEPT !.op = "status", !.order = o, !.to = to, !.amount = settle,
                         !.at = IF settle > 0 THEN "pay" ELSE "write"])
        BY <1>2 DEF StatusRead
  <2>2. PICK settle \in Nat :
          Begin(w, [Idle EXCEPT !.op = "status", !.order = o, !.to = to, !.amount = settle,
                         !.at = IF settle > 0 THEN "pay" ELSE "write"])
    <3> DEFINE due == orders[o].total - orders[o].paid
               amount == IF to = "COMPLETED" /\ due > 0
                           THEN IF given > 0 THEN given ELSE due
                           ELSE 0
    <3>1. due \in Int
          BY ExistingType, RowType
    <3>2. given \in Nat
          BY MoneyAssumption
    <3>3. amount \in Nat
      <4> HIDE DEF due
      <4> QED BY <3>1, <3>2
    <3>4. Begin(w, [Idle EXCEPT !.op = "status", !.order = o, !.to = to, !.amount = amount,
                         !.at = IF amount > 0 THEN "pay" ELSE "write"])
          BY <2>1
    <3> HIDE DEF amount
    <3> QED BY <3>3, <3>4
  <2> DEFINE r == [Idle EXCEPT !.op = "status", !.order = o, !.to = to, !.amount = settle,
                         !.at = IF settle > 0 THEN "pay" ELSE "write"]
  <2>3. /\ r.op = "status" /\ r.order = o /\ r.to = to /\ r.amount = settle
        /\ r.at = IF settle > 0 THEN "pay" ELSE "write"
        BY DEF Idle
  <2>4. reqs[w] = Idle /\ reqs' = [reqs EXCEPT ![w] = r]
        BY <2>2 DEF Begin
  <2>5. to # "none"
        BY InputAssumption
  <2>6. r.at \in {"pay", "write"} /\ (r.at = "write" => r.amount = 0)
    <3> HIDE DEF r
    <3>1. CASE settle > 0
          BY <2>3, <3>1
    <3>2. CASE ~(settle > 0)
      <4>1. settle = 0
            BY <3>2
      <4> QED BY <2>3, <3>2, <4>1
    <3> QED BY <3>1, <3>2
  <2> HIDE DEF r
  <2> QED BY <2>3, <2>4, <2>5, <2>6 DEF Asked, Fresh
<1>3. CASE AssignRead(w)
  <2>1. PICK o \in Existing, t \in Tables :
          Begin(w, [Idle EXCEPT !.op = "assign", !.at = "write", !.order = o, !.table = t,
                      !.flag = FullyPaid(orders[o])])
        BY <1>3 DEF AssignRead
  <2> DEFINE r == [Idle EXCEPT !.op = "assign", !.at = "write", !.order = o, !.table = t,
                      !.flag = FullyPaid(orders[o])]
  <2>2. r.op = "assign" /\ r.at = "write" /\ r.order = o
        BY DEF Idle
  <2>3. reqs[w] = Idle /\ reqs' = [reqs EXCEPT ![w] = r]
        BY <2>1 DEF Begin
  <2> HIDE DEF r
  <2> QED BY <2>2, <2>3 DEF Asked, Fresh
<1>4. CASE VoidRead(w)
  <2>1. PICK o \in Existing :
          Begin(w, [Idle EXCEPT !.op = "void", !.at = "write", !.order = o,
                      !.to = orders[o].status, !.table = orders[o].table, !.lines = Lines(o)])
        BY <1>4 DEF VoidRead
  <2> DEFINE r == [Idle EXCEPT !.op = "void", !.at = "write", !.order = o,
                      !.to = orders[o].status, !.table = orders[o].table, !.lines = Lines(o)]
  <2>2. r.op = "void" /\ r.at = "write" /\ r.order = o
        BY DEF Idle
  <2>3. reqs[w] = Idle /\ reqs' = [reqs EXCEPT ![w] = r]
        BY <2>1 DEF Begin
  <2> HIDE DEF r
  <2> QED BY <2>2, <2>3 DEF Asked, Fresh
<1>5. CASE RefundOrderRead(w)
  <2>1. PICK o \in Existing : \E to, amount, lines :
          Begin(w, [Idle EXCEPT !.op = "refund", !.at = "write", !.order = o, !.to = to,
                      !.amount = amount, !.lines = lines])
        BY <1>5 DEF RefundOrderRead
  <2>2. PICK to, amount, lines :
          Begin(w, [Idle EXCEPT !.op = "refund", !.at = "write", !.order = o, !.to = to,
                      !.amount = amount, !.lines = lines])
        BY <2>1
  <2> DEFINE r == [Idle EXCEPT !.op = "refund", !.at = "write", !.order = o, !.to = to,
                      !.amount = amount, !.lines = lines]
  <2>3. r.op = "refund" /\ r.at = "write" /\ r.order = o
        BY DEF Idle
  <2>4. reqs[w] = Idle /\ reqs' = [reqs EXCEPT ![w] = r]
        BY <2>2 DEF Begin
  <2> HIDE DEF r
  <2> QED BY <2>3, <2>4 DEF Asked, Fresh
<1>6. CASE RefundItemRead(w)
  <2>1. PICK i \in Items : \E to, lines, qty, amount :
          /\ items[i].order # 0
          /\ orders[items[i].order].status = "COMPLETED"
          /\ Begin(w, [Idle EXCEPT !.op = "refundItem", !.at = "write", !.order = items[i].order,
                         !.to = to, !.lines = lines, !.qty = qty, !.amount = amount])
        BY <1>6 DEF RefundItemRead
  <2>2. items[i].order \in Existing
    <3>1. items[i].order \in Orders
          BY <2>1 DEF RowsType, Orders
    <3> QED BY <2>1, <3>1 DEF Existing
  <2>3. PICK to, lines, qty, amount :
          Begin(w, [Idle EXCEPT !.op = "refundItem", !.at = "write", !.order = items[i].order,
                      !.to = to, !.lines = lines, !.qty = qty, !.amount = amount])
        BY <2>1
  <2> DEFINE r == [Idle EXCEPT !.op = "refundItem", !.at = "write", !.order = items[i].order,
                      !.to = to, !.lines = lines, !.qty = qty, !.amount = amount]
  <2>4. r.op = "refundItem" /\ r.at = "write" /\ r.order = items[i].order
        BY DEF Idle
  <2>5. reqs[w] = Idle /\ reqs' = [reqs EXCEPT ![w] = r]
        BY <2>3 DEF Begin
  <2> HIDE DEF r
  <2> QED BY <2>2, <2>4, <2>5 DEF Asked, Fresh
<1>7. CASE CheckoutRead(w)
  <2>1. PICK t \in Tables, open \in SUBSET Existing :
          Begin(w, [Idle EXCEPT !.op = "checkout", !.at = "write", !.table = t, !.todo = open])
        BY <1>7, ZenonT(60) DEF CheckoutRead
  <2> DEFINE r == [Idle EXCEPT !.op = "checkout", !.at = "write", !.table = t, !.todo = open]
  <2>2. r.op = "checkout" /\ r.at = "write"
        BY DEF Idle
  <2>3. reqs[w] = Idle /\ reqs' = [reqs EXCEPT ![w] = r]
        BY <2>1 DEF Begin
  <2> HIDE DEF r
  <2> QED BY <2>2, <2>3 DEF Asked, Fresh
<1> QED BY <1>1, <1>2, <1>3, <1>4, <1>5, <1>6, <1>7 DEF Receive

\* A handler ends, or goes on with the order, cart and amount it began with.
LEMMA Proceeds ==
  ASSUME TypeInv, NEW w \in Workers, Handle(w) \/ Fail(w)
  PROVE  \E s : reqs' = [reqs EXCEPT ![w] = s] /\ (s = Idle \/ Continues(reqs[w], s))
<1> USE DEF TypeInv, TypeOK
<1>1. reqs[w] \in Request
      BY DEF RequestsType
<1>2. CASE End(w)
      BY <1>2 DEF End
<1>3. ASSUME NEW step, Goto(w, step)
      PROVE  \E s : reqs' = [reqs EXCEPT ![w] = s] /\ Continues(reqs[w], s)
  <2> DEFINE s == [reqs[w] EXCEPT !.at = step]
  <2>1. Continues(reqs[w], s)
        BY <1>1 DEF Request, Continues
  <2>2. reqs' = [reqs EXCEPT ![w] = s]
        BY <1>3 DEF Goto
  <2> HIDE DEF s
  <2> QED BY <2>1, <2>2
<1>4. CASE CreateDirectWrite(w)
  <2>1. PICK id :
          /\ reqs' = [reqs EXCEPT ![w].at = "commit", ![w].order = id]
          /\ id = IF reqs[w].order = 0 THEN nextId ELSE reqs[w].order
          /\ reqs[w].op = "create" /\ reqs[w].at = "write"
        BY <1>4 DEF CreateDirectWrite
  <2> DEFINE s == [reqs[w] EXCEPT !.at = "commit", !.order = id]
  <2>2. Continues(reqs[w], s)
    <3>1. /\ s.op = reqs[w].op /\ s.lines = reqs[w].lines /\ s.amount = reqs[w].amount
          /\ s.to = reqs[w].to /\ s.order = id
          BY <1>1 DEF Request
    <3> HIDE DEF s
    <3> QED BY <2>1, <3>1 DEF Continues
  <2>3. reqs' = [reqs EXCEPT ![w] = s]
        BY <2>1
  <2> HIDE DEF s
  <2> QED BY <2>2, <2>3
<1>5. CASE StatusWrite(w)
  <2>1. ASSUME NEW t, NEW free,
               reqs' = [reqs EXCEPT ![w].at = "table", ![w].table = t, ![w].flag = free]
        PROVE  \E s : reqs' = [reqs EXCEPT ![w] = s] /\ Continues(reqs[w], s)
    <3> DEFINE s == [reqs[w] EXCEPT !.at = "table", !.table = t, !.flag = free]
    <3>1. Continues(reqs[w], s)
          BY <1>1 DEF Request, Continues
    <3>2. reqs' = [reqs EXCEPT ![w] = s]
          BY <2>1
    <3> HIDE DEF s
    <3> QED BY <3>1, <3>2
  <2>2. \/ End(w)
        \/ \E t, free : reqs' = [reqs EXCEPT ![w].at = "table", ![w].table = t, ![w].flag = free]
        BY <1>5 DEF StatusWrite
  <2> QED BY <1>2, <2>1, <2>2
<1>6. CASE CheckoutOrder(w)
  <2>1. PICK o, step :
          reqs' = [reqs EXCEPT ![w].todo = @ \ {o}, ![w].at = step]
    <3>1. PICK o \in reqs[w].todo :
            reqs' = [reqs EXCEPT ![w].todo = @ \ {o},
                                 ![w].at = IF reqs[w].todo = {o} THEN "table" ELSE "write"]
          BY <1>6 DEF CheckoutOrder
    <3>2. PICK step : step = IF reqs[w].todo = {o} THEN "table" ELSE "write"
          OBVIOUS
    <3> QED BY <3>1, <3>2
  <2> DEFINE s == [reqs[w] EXCEPT !.todo = @ \ {o}, !.at = step]
  <2>2. Continues(reqs[w], s)
        BY <1>1 DEF Request, Continues
  <2>3. reqs' = [reqs EXCEPT ![w] = s]
        BY <2>1
  <2> HIDE DEF s
  <2> QED BY <2>2, <2>3
<1>7. \/ End(w) \/ CreateDirectWrite(w) \/ StatusWrite(w) \/ CheckoutOrder(w)
      \/ \E step : Goto(w, step)
      BY DEF Handle, Fail, CreateDirectCommit, StatusPay, StatusTill, StatusTable, AssignWrite,
             VoidCommit, RefundTill, RefundOrderCommit, RefundItemCommit, CheckoutTable
<1> QED BY <1>2, <1>3, <1>4, <1>5, <1>6, <1>7

\* All a step can do to the requests.
LEMMA RequestMoves ==
  ASSUME TypeInv, [Next]_vars
  PROVE  \/ UNCHANGED reqs
         \/ \E w \in Workers, s \in Sound :
              /\ reqs' = [reqs EXCEPT ![w] = s]
              /\ s = Idle \/ (reqs[w] = Idle /\ Fresh(s)) \/ Continues(reqs[w], s)
<1>1. TypeInv'
      BY TypeStep
<1>2. ASSUME NEW w \in Workers, NEW s, reqs' = [reqs EXCEPT ![w] = s] PROVE s \in Sound
  <2>1. reqs \in [Workers -> Sound] /\ reqs' \in [Workers -> Sound]
        BY <1>1 DEF TypeInv, SoundRequests
  <2>2. reqs'[w] = s
        BY <1>2, <2>1
  <2> QED BY <2>1, <2>2
<1>3. ASSUME NEW w \in Workers, Receive(w)
      PROVE  \E s \in Sound : reqs' = [reqs EXCEPT ![w] = s] /\ reqs[w] = Idle /\ Fresh(s)
      BY <1>2, <1>3, Begins DEF Asked
<1>4. ASSUME NEW w \in Workers, Handle(w) \/ Fail(w)
      PROVE  \E s \in Sound : reqs' = [reqs EXCEPT ![w] = s] /\ (s = Idle \/ Continues(reqs[w], s))
      BY <1>2, <1>4, Proceeds
<1>5. CASE UNCHANGED vars
      BY <1>5 DEF vars
<1>6. ASSUME NEW i \in Items, VoidItem(i) \/ \E s \in ItemStatuses : UpdateItemStatus(i, s)
      PROVE  UNCHANGED reqs
      BY <1>6 DEF VoidItem, UpdateItemStatus
<1>7. ASSUME NEW j \in DOMAIN jobs, Fire(j) \/ FireError(j) \/ FireStall(j) PROVE UNCHANGED reqs
      BY <1>7 DEF Fire, FireRead, FireUpdate, FireDeduct, FireNotify, FireError, FireStall
<1> QED BY <1>3, <1>4, <1>5, <1>6, <1>7 DEF Next

-----------------------------------------------------------------------------
(* The total of an order.                                                  *)

\* A cart in flight holds lines no order has, and no other cart in flight has.
CartsApart ==
  /\ \A w \in Workers : reqs[w].op = "create" => \A i \in reqs[w].lines : items[i].order = 0
  /\ \A w, x \in Workers : w # x /\ reqs[w].op = "create" /\ reqs[x].op = "create"
                             => reqs[w].lines \cap reqs[x].lines = {}

\* A status written to an order is one.
StatusNamed == \A w \in Workers : reqs[w].op \in {"create", "status"} => reqs[w].to # "none"

\* An order that does not exist has no lines and owes nothing.
Unborn(o) == orders[o].status = "none" => orders[o].total = 0 /\ Lines(o) = {}

TotalInv ==
  /\ CartsApart
  /\ StatusNamed
  /\ \A o \in Orders : Unborn(o) /\ orders[o].total = Bill[Lines(o)]

LEMMA BillOfNone == Bill[{}] = 0
<1> PICK S \in SUBSET Items : S = {}
    OBVIOUS
<1>1. S \cap S = {} /\ S \cup S = S
      OBVIOUS
<1>2. Bill[S] \in Nat /\ Bill[S \cup S] = Bill[S] + Bill[S]
      BY <1>1, MoneyAssumption
<1>3. Bill[S] = Bill[S] + Bill[S]
      BY <1>1, <1>2
<1>4. \A n \in Nat : n = n + n => n = 0
      OBVIOUS
<1>5. Bill[S] = 0
      BY <1>2, <1>3, <1>4
<1> QED BY <1>5

LEMMA StatusNamedStep == ASSUME TypeInv, StatusNamed, [Next]_vars PROVE StatusNamed'
<1>1. CASE UNCHANGED reqs
      BY <1>1 DEF StatusNamed
<1>2. ASSUME NEW w \in Workers, NEW s \in Sound, reqs' = [reqs EXCEPT ![w] = s],
             s = Idle \/ (reqs[w] = Idle /\ Fresh(s)) \/ Continues(reqs[w], s)
      PROVE  StatusNamed'
  <2>1. \A x \in Workers : reqs'[x] = IF x = w THEN s ELSE reqs[x]
        BY <1>2 DEF TypeInv, SoundRequests
  <2>2. s.op \in {"create", "status"} => s.to # "none"
        BY <1>2, IdleIs DEF Fresh, Continues, StatusNamed
  <2> QED BY <2>1, <2>2 DEF StatusNamed
<1> QED BY <1>1, <1>2, RequestMoves

\* Neither the lines of the orders nor their totals change, and no order goes.
RowsKeep ==
  /\ \A i \in Items : items'[i].order = items[i].order
  /\ \A o \in Orders : /\ orders'[o].total = orders[o].total
                       /\ orders'[o].status \in {orders[o].status} \/ orders'[o].status # "none"

LEMMA StatusesNamed ==
  ASSUME RowsType, NEW o \in Orders, NEW s, s # "none", orders' = [orders EXCEPT ![o].status = s]
  PROVE  \A x \in Orders : /\ orders'[x].total = orders[x].total /\ orders'[x].paid = orders[x].paid
                           /\ orders'[x].status = orders[x].status \/ orders'[x].status # "none"
BY DEF RowsType, OrderRow

LEMMA Relabels ==
  ASSUME RowsType, NEW o, NEW s,
         items' = [i \in Items |-> IF items[i].order = o
                     THEN [items[i] EXCEPT !.status = s] ELSE items[i]]
  PROVE  \A i \in Items : items'[i].order = items[i].order
BY DEF RowsType

LEMMA RowMoves ==
  ASSUME TypeInv, StatusNamed, [Next]_vars
  PROVE  RowsKeep \/ \E w \in Workers : CreateDirectCommit(w)
<1> USE DEF TypeInv, TypeOK
<1>1. ASSUME UNCHANGED <<orders, items>> PROVE RowsKeep
      BY <1>1 DEF RowsKeep
<1>2. UNCHANGED vars => UNCHANGED <<orders, items>>
      BY DEF vars
<1>3. ASSUME NEW w \in Workers,
             \/ Receive(w) \/ Fail(w)
             \/ CreateDirectWrite(w) \/ StatusPay(w) \/ StatusTill(w) \/ StatusTable(w)
             \/ RefundTill(w) \/ CheckoutTable(w)
      PROVE  UNCHANGED <<orders, items>>
      BY <1>3 DEF Receive, CreateDirectRead, StatusRead, AssignRead, VoidRead, RefundOrderRead,
                  RefundItemRead, CheckoutRead, Fail, CreateDirectWrite, StatusPay, StatusTill,
                  StatusTable, RefundTill, CheckoutTable
<1>4. ASSUME NEW w \in Workers,
             \/ StatusWrite(w) \/ AssignWrite(w) \/ VoidCommit(w) \/ RefundOrderCommit(w)
             \/ RefundItemCommit(w)
      PROVE  RowsKeep
  <2>1. reqs[w].order \in Orders
    <3>1. reqs[w] \in Sound
          BY DEF SoundRequests
    <3>2. reqs[w].op \in {"status", "assign", "void", "refund", "refundItem"}
          BY <1>4 DEF StatusWrite, AssignWrite, VoidCommit, RefundOrderCommit, RefundItemCommit
    <3> QED BY <3>1, <3>2 DEF Sound, Request, Orders
  <2>2. CASE StatusWrite(w)
    <3>1. /\ orders' = [orders EXCEPT ![reqs[w].order] = [orders[reqs[w].order] EXCEPT
                         !.status = reqs[w].to, !.paid = @ + reqs[w].amount]]
          /\ UNCHANGED items /\ reqs[w].to # "none"
          BY <2>2 DEF StatusWrite, StatusNamed
    <3> QED BY <2>1, <3>1 DEF RowsKeep, RowsType, OrderRow
  <2>3. CASE AssignWrite(w)
        BY <2>1, <2>3 DEF AssignWrite, RowsKeep, RowsType, OrderRow
  <2>4. CASE VoidCommit(w)
        BY <2>1, <2>4, StatusesNamed, Relabels DEF VoidCommit, RowsKeep
  <2>5. CASE RefundOrderCommit(w)
        BY <2>1, <2>5, StatusesNamed, Relabels DEF RefundOrderCommit, RowsKeep
  <2>6. CASE RefundItemCommit(w)
    <3>1. /\ orders' = [orders EXCEPT ![reqs[w].order].paid = @ - reqs[w].amount]
          /\ UNCHANGED items \/ \E i : items' = [items EXCEPT ![i].status = "REFUNDED"]
          BY <2>6 DEF RefundItemCommit
    <3>2. \A i \in Items : items'[i].order = items[i].order
          BY <3>1 DEF RowsType
    <3>3. \A o \in Orders : orders'[o].total = orders[o].total /\ orders'[o].status = orders[o].status
          BY <3>1 DEF RowsType, OrderRow
    <3> QED BY <3>2, <3>3 DEF RowsKeep
  <2> QED BY <1>4, <2>2, <2>3, <2>4, <2>5, <2>6
<1>5. ASSUME NEW w \in Workers, CheckoutOrder(w) PROVE RowsKeep
  <2>1. PICK o \in Orders : orders' = [orders EXCEPT ![o].status = "COMPLETED"]
        BY <1>5 DEF CheckoutOrder, RequestsType, Request
  <2>2. UNCHANGED items
        BY <1>5 DEF CheckoutOrder
  <2> QED BY <2>1, <2>2, StatusesNamed DEF RowsKeep
<1>6. ASSUME NEW i \in Items, VoidItem(i) \/ \E s \in ItemStatuses : UpdateItemStatus(i, s)
      PROVE  RowsKeep
  <2>1. UNCHANGED orders /\ \E s : items' = [items EXCEPT ![i].status = s]
        BY <1>6 DEF VoidItem, UpdateItemStatus
  <2> QED BY <2>1 DEF RowsKeep, RowsType
<1>7. ASSUME NEW j \in DOMAIN jobs,
             FireRead(j) \/ FireDeduct(j) \/ FireNotify(j) \/ FireError(j) \/ FireStall(j)
      PROVE  UNCHANGED <<orders, items>>
      BY <1>7 DEF FireRead, FireDeduct, FireNotify, FireError, FireStall
<1>8. ASSUME NEW j \in DOMAIN jobs, FireUpdate(j) PROVE RowsKeep
  <2>1. jobs[j].order \in Orders
    <3>1. jobs[j] \in Job
          BY ElementOfSeq DEF QueueType
    <3> QED BY <3>1 DEF Job
  <2>2. orders' = [orders EXCEPT ![jobs[j].order].status = "PENDING"] /\ UNCHANGED items
        BY <1>8 DEF FireUpdate
  <2> QED BY <2>1, <2>2, StatusesNamed DEF RowsKeep
<1> QED BY <1>1, <1>2, <1>3, <1>4, <1>5, <1>6, <1>7, <1>8 DEF Next, Handle, Fire

\* The lines and the amounts a commit writes.
LEMMA Appends ==
  ASSUME TypeInv, StatusNamed, NEW w \in Workers, CreateDirectCommit(w)
  PROVE  /\ reqs[w].op = "create" /\ reqs[w].order \in Orders
         /\ reqs[w].lines \in SUBSET Items /\ reqs[w].amount \in Int
         /\ \A i \in Items : items'[i].order = IF i \in reqs[w].lines THEN reqs[w].order
                                               ELSE items[i].order
         /\ \A o \in Orders \ {reqs[w].order} : orders'[o] = orders[o]
         /\ orders'[reqs[w].order].status # "none"
         /\ orders'[reqs[w].order].total =
              Bill[reqs[w].lines] + IF orders[reqs[w].order].status = "none" THEN 0
                                    ELSE orders[reqs[w].order].total
         /\ orders'[reqs[w].order].paid =
              reqs[w].amount + IF orders[reqs[w].order].status = "none" THEN 0
                               ELSE orders[reqs[w].order].paid
<1> USE DEF TypeInv, TypeOK
<1>1. reqs[w] \in Sound /\ reqs[w] \in Request
      BY DEF SoundRequests, Sound
<1>2. PICK r, old : r = reqs[w] /\ old = orders[r.order]
      OBVIOUS
<1>3. /\ r.op = "create" /\ r.order \in Orders /\ r.lines \in SUBSET Items /\ r.amount \in Int
      /\ r.to # "none" /\ Bill[r.lines] \in Int
      BY <1>1, <1>2, BillType DEF CreateDirectCommit, Sound, Request, Orders, StatusNamed
<1>4. old \in OrderRow /\ old.total \in Int /\ old.paid \in Int
      BY <1>2, <1>3 DEF RowsType, OrderRow
<1>5. PICK new :
        /\ new = IF old.status = "none"
                   THEN [status |-> r.to, table |-> r.table, total |-> Bill[r.lines],
                         paid |-> r.amount]
                   ELSE [old EXCEPT !.status = r.to, !.total = @ + Bill[r.lines],
                                    !.paid = @ + r.amount]
        /\ orders' = [orders EXCEPT ![r.order] = new]
      BY <1>2 DEF CreateDirectCommit
<1>6. /\ new.status = r.to
      /\ new.total = Bill[r.lines] + IF old.status = "none" THEN 0 ELSE old.total
      /\ new.paid = r.amount + IF old.status = "none" THEN 0 ELSE old.paid
  <2>1. CASE old.status = "none"
        BY <1>3, <1>5, <2>1
  <2>2. CASE old.status # "none"
    <3>1. new.status = r.to /\ new.total = old.total + Bill[r.lines] /\ new.paid = old.paid + r.amount
          BY <1>4, <1>5, <2>2 DEF OrderRow
    <3> QED BY <1>3, <1>4, <2>2, <3>1
  <2> QED BY <2>1, <2>2
<1>7. /\ \A o \in Orders \ {r.order} : orders'[o] = orders[o]
      /\ orders'[r.order] = new
      BY <1>3, <1>5 DEF RowsType
<1>8. \A i \in Items : items'[i].order = IF i \in r.lines THEN r.order ELSE items[i].order
      BY <1>2 DEF CreateDirectCommit
<1> QED BY <1>2, <1>3, <1>6, <1>7, <1>8

LEMMA TotalInit == Init => TotalInv
<1> SUFFICES ASSUME Init PROVE TotalInv
    OBVIOUS
<1>1. \A w \in Workers : reqs[w] = Idle
      BY DEF Init
<1>2. CartsApart /\ StatusNamed
      BY <1>1, IdleIs DEF CartsApart, StatusNamed
<1>3. \A o \in Orders : orders[o].total = 0 /\ Lines(o) = {}
      BY DEF Init, NoOrder, Lines, Orders
<1> QED BY <1>2, <1>3, BillOfNone DEF TotalInv, Unborn

LEMMA CartsApartStep ==
  ASSUME TypeInv, CartsApart, StatusNamed, [Next]_vars PROVE CartsApart'
<1> USE DEF TypeInv, TypeOK
<1>1. \A x \in Workers : reqs[x] \in Request /\ (reqs[x].op = "create" => reqs[x].lines \in SUBSET Items)
      BY DEF RequestsType, Request
<1>2. CASE RowsKeep
  <2>1. CASE UNCHANGED reqs
        BY <1>1, <1>2, <2>1 DEF CartsApart, RowsKeep
  <2>2. ASSUME NEW w \in Workers, NEW s \in Sound, reqs' = [reqs EXCEPT ![w] = s],
               s = Idle \/ (reqs[w] = Idle /\ Fresh(s)) \/ Continues(reqs[w], s)
        PROVE  CartsApart'
    <3>1. \A x \in Workers : reqs'[x] = IF x = w THEN s ELSE reqs[x]
          BY <2>2 DEF SoundRequests
    <3>2. ASSUME s.op = "create"
          PROVE  /\ s.lines \in SUBSET Items
                 /\ \A i \in s.lines : items[i].order = 0
                 /\ \A x \in Workers \ {w} : reqs[x].op = "create" => s.lines \cap reqs[x].lines = {}
      <4>1. CASE Fresh(s)
            BY <3>2, <4>1 DEF Fresh, FreeItems
      <4>2. CASE Continues(reqs[w], s)
            BY <1>1, <3>2, <4>2 DEF Continues, CartsApart
      <4> QED BY <2>2, <3>2, <4>1, <4>2, IdleIs
    <3>3. \A x \in Workers : reqs'[x].op = "create" => \A i \in reqs'[x].lines : items'[i].order = 0
          BY <1>1, <1>2, <3>1, <3>2 DEF CartsApart, RowsKeep
    <3>4. ASSUME NEW x \in Workers, NEW y \in Workers, x # y,
                 reqs'[x].op = "create", reqs'[y].op = "create"
          PROVE  reqs'[x].lines \cap reqs'[y].lines = {}
      <4>1. CASE x = w
            BY <3>1, <3>2, <3>4, <4>1
      <4>2. CASE y = w
            BY <3>1, <3>2, <3>4, <4>2
      <4>3. CASE x # w /\ y # w
            BY <3>1, <3>4, <4>3 DEF CartsApart
      <4> QED BY <4>1, <4>2, <4>3
    <3> QED BY <3>3, <3>4 DEF CartsApart
  <2> QED BY <2>1, <2>2, RequestMoves
<1>3. ASSUME NEW w \in Workers, CreateDirectCommit(w) PROVE CartsApart'
  <2>1. reqs' = [reqs EXCEPT ![w] = Idle]
        BY <1>3 DEF CreateDirectCommit, End
  <2>2. \A x \in Workers : reqs'[x] = IF x = w THEN Idle ELSE reqs[x]
        BY <2>1 DEF SoundRequests
  <2>3. /\ reqs[w].op = "create"
        /\ \A i \in Items : items'[i].order = IF i \in reqs[w].lines THEN reqs[w].order
                                              ELSE items[i].order
        BY <1>3, Appends
  <2>4. ASSUME NEW x \in Workers, reqs'[x].op = "create", NEW i \in reqs'[x].lines
        PROVE  items'[i].order = 0
    <3>1. x # w /\ reqs'[x] = reqs[x]
          BY <2>2, <2>4, IdleIs
    <3>2. i \in Items /\ items[i].order = 0 /\ i \notin reqs[w].lines
          BY <1>1, <2>3, <2>4, <3>1 DEF CartsApart
    <3> QED BY <2>3, <3>2
  <2>5. ASSUME NEW x \in Workers, NEW y \in Workers, x # y,
               reqs'[x].op = "create", reqs'[y].op = "create"
        PROVE  reqs'[x].lines \cap reqs'[y].lines = {}
    <3>1. reqs'[x] = reqs[x] /\ reqs'[y] = reqs[y]
          BY <2>2, <2>5, IdleIs
    <3> QED BY <2>5, <3>1 DEF CartsApart
  <2> QED BY <2>4, <2>5 DEF CartsApart
<1> QED BY <1>2, <1>3, RowMoves

LEMMA TotalsStep ==
  ASSUME TypeInv, TotalInv, [Next]_vars
  PROVE  (\A o \in Orders : Unborn(o) /\ orders[o].total = Bill[Lines(o)])'
<1> USE DEF TypeInv, TypeOK
<1>1. CASE RowsKeep
  <2>1. \A o \in Orders : Lines(o)' = Lines(o)
        BY <1>1 DEF RowsKeep, Lines
  <2> QED BY <1>1, <2>1 DEF RowsKeep, TotalInv, Unborn
<1>2. ASSUME NEW w \in Workers, CreateDirectCommit(w)
      PROVE  (\A o \in Orders : Unborn(o) /\ orders[o].total = Bill[Lines(o)])'
  <2>1. PICK id, cart : id = reqs[w].order /\ cart = reqs[w].lines
        OBVIOUS
  <2>2. /\ id \in Orders /\ cart \in SUBSET Items
        /\ \A i \in Items : items'[i].order = IF i \in cart THEN id ELSE items[i].order
        /\ \A o \in Orders \ {id} : orders'[o] = orders[o]
        /\ orders'[id].status # "none"
        /\ orders'[id].total = Bill[cart] + IF orders[id].status = "none" THEN 0 ELSE orders[id].total
        BY <1>2, <2>1, Appends DEF TotalInv
  <2>3. \A i \in cart : items[i].order = 0
        BY <1>2, <2>1 DEF CreateDirectCommit, TotalInv, CartsApart
  <2>4. \A o \in Orders : o # 0
        BY DEF Orders
  <2>5. ASSUME NEW o \in Orders \ {id} PROVE Lines(o)' = Lines(o)
        BY <2>2, <2>3, <2>4 DEF Lines
  <2>6. Lines(id)' = cart \cup Lines(id) /\ cart \cap Lines(id) = {}
        BY <2>2, <2>3, <2>4 DEF Lines
  <2>7. Lines(id) \in SUBSET Items
        BY DEF Lines
  <2>8. Bill[cart \cup Lines(id)] = Bill[cart] + Bill[Lines(id)]
        BY <2>2, <2>6, <2>7, MoneyAssumption
  <2>9. orders[id].total = Bill[Lines(id)] /\ (orders[id].status = "none" => orders[id].total = 0)
        BY <2>2 DEF TotalInv, Unborn
  <2>10. orders'[id].total = Bill[Lines(id)']
    <3>1. Bill[cart] \in Nat /\ Bill[Lines(id)] \in Nat
          BY <2>2, <2>7, BillType
    <3> QED BY <2>2, <2>6, <2>8, <2>9, <3>1
  <2>11. ASSUME NEW o \in Orders PROVE (Unborn(o) /\ orders[o].total = Bill[Lines(o)])'
    <3>1. CASE o = id
          BY <2>2, <2>10, <3>1 DEF Unborn
    <3>2. CASE o # id
          BY <2>2, <2>5, <3>2 DEF Unborn, TotalInv
    <3> QED BY <3>1, <3>2
  <2> QED BY <2>11
<1> QED BY <1>1, <1>2, RowMoves DEF TotalInv

LEMMA TotalStep == TypeInv /\ TotalInv /\ [Next]_vars => TotalInv'
BY StatusNamedStep, CartsApartStep, TotalsStep DEF TotalInv

\* Appends to one table's order are never lost: the total of every order is the
\* bill of all the lines it has (createDirect increments totalAmount).
THEOREM TotalCorrect == Spec => []TotalMatchesLines
<1>1. TotalInv => TotalMatchesLines
      BY DEF TotalInv, TotalMatchesLines, Existing
<1> QED BY TypeInit, TypeStep, TotalInit, TotalStep, <1>1, PTL DEF Spec

-----------------------------------------------------------------------------
(* Amounts packed in a gap: each of the requests H holds an interval of    *)
(* its amount, and no two intervals meet, so together they fit in the gap. *)

Fits(H, lo, amt, g) ==
  /\ \A x \in H : lo[x] \in Nat /\ amt[x] \in Nat /\ lo[x] + amt[x] <= g
  /\ \A x, y \in H : x # y => lo[x] + amt[x] <= lo[y] \/ lo[y] + amt[y] <= lo[x]

\* The intervals leave no hole in the gap.
Fills(H, lo, amt, g) ==
  \A n \in Nat : n < g => \E x \in H : lo[x] <= n /\ n < lo[x] + amt[x]

\* A new amount goes to the end of a gap that grows by as much.
LEMMA FitOneMore ==
  ASSUME NEW H, NEW lo, NEW amt, NEW new, NEW w, NEW g \in Nat, w \notin H, new[w] \in Nat,
         \A x \in H : new[x] = amt[x], Fits(H, lo, amt, g)
  PROVE  \E at : /\ Fits(H \cup {w}, at, new, g + new[w])
                 /\ Fills(H, lo, amt, g) => Fills(H \cup {w}, at, new, g + new[w])
<1> DEFINE at == [x \in H \cup {w} |-> IF x = w THEN g ELSE lo[x]]
<1>1. at[w] = g /\ \A x \in H : at[x] = lo[x]
      OBVIOUS
<1> HIDE DEF at
<1>2. ASSUME NEW x \in H \cup {w}
      PROVE  at[x] \in Nat /\ new[x] \in Nat /\ at[x] + new[x] <= g + new[w]
  <2>1. CASE x = w
        BY <1>1, <2>1
  <2>2. CASE x # w
    <3>1. at[x] = lo[x] /\ new[x] = amt[x] /\ lo[x] \in Nat /\ amt[x] \in Nat /\ lo[x] + amt[x] <= g
          BY <1>1, <1>2, <2>2 DEF Fits
    <3> QED BY <3>1
  <2> QED BY <2>1, <2>2
<1>3. ASSUME NEW x \in H \cup {w}, NEW y \in H \cup {w}, x # y
      PROVE  at[x] + new[x] <= at[y] \/ at[y] + new[y] <= at[x]
  <2>1. \A z \in H : at[z] = lo[z] /\ new[z] = amt[z] /\ lo[z] + amt[z] <= g
        BY <1>1 DEF Fits
  <2>2. CASE x = w
        BY <1>1, <1>3, <2>1, <2>2
  <2>3. CASE y = w
        BY <1>1, <1>3, <2>1, <2>3
  <2>4. CASE x # w /\ y # w
        BY <1>3, <2>1, <2>4 DEF Fits
  <2> QED BY <2>2, <2>3, <2>4
<1>4. Fits(H \cup {w}, at, new, g + new[w])
      BY <1>2, <1>3 DEF Fits
<1>5. ASSUME Fills(H, lo, amt, g) PROVE Fills(H \cup {w}, at, new, g + new[w])
  <2>1. ASSUME NEW n \in Nat, n < g + new[w]
        PROVE  \E x \in H \cup {w} : at[x] <= n /\ n < at[x] + new[x]
    <3>1. CASE n < g
      <4>1. PICK x \in H : lo[x] <= n /\ n < lo[x] + amt[x]
            BY <1>5, <2>1, <3>1 DEF Fills
      <4> QED BY <1>1, <4>1
    <3>2. CASE ~(n < g)
      <4>1. at[w] <= n /\ n < at[w] + new[w]
            BY <1>1, <2>1, <3>2
      <4> QED BY <4>1
    <3> QED BY <3>1, <3>2
  <2> QED BY <2>1 DEF Fills
<1> QED BY <1>4, <1>5

\* An amount that goes takes its interval with it, and what lies above moves down.
LEMMA FitOneLess ==
  ASSUME NEW H, NEW lo, NEW amt, NEW new, NEW w \in H, NEW g \in Int,
         \A x \in H \ {w} : new[x] = amt[x], Fits(H, lo, amt, g)
  PROVE  /\ g - amt[w] \in Nat
         /\ \E at : /\ Fits(H \ {w}, at, new, g - amt[w])
                    /\ Fills(H, lo, amt, g) => Fills(H \ {w}, at, new, g - amt[w])
<1>1. PICK l, a : l = lo[w] /\ a = amt[w]
      OBVIOUS
<1>2. l \in Nat /\ a \in Nat /\ l + a <= g
      BY <1>1 DEF Fits
<1> DEFINE at == [x \in H |-> IF l + a <= lo[x] THEN lo[x] - a ELSE lo[x]]
<1>3. \A x \in H \ {w} : at[x] = IF l + a <= lo[x] THEN lo[x] - a ELSE lo[x]
      OBVIOUS
<1> HIDE DEF at
<1>4. ASSUME NEW x \in H \ {w}
      PROVE  /\ new[x] = amt[x] /\ lo[x] \in Nat /\ amt[x] \in Nat /\ lo[x] + amt[x] <= g
             /\ l + a <= lo[x] \/ lo[x] + amt[x] <= l
      BY <1>1 DEF Fits
<1>5. ASSUME NEW x \in H \ {w}
      PROVE  at[x] \in Nat /\ new[x] \in Nat /\ at[x] + new[x] <= g - a
  <2>1. CASE l + a <= lo[x]
        BY <1>2, <1>3, <1>4, <2>1
  <2>2. CASE ~(l + a <= lo[x])
        BY <1>2, <1>3, <1>4, <2>2
  <2> QED BY <2>1, <2>2
<1>6. ASSUME NEW x \in H \ {w}, NEW y \in H \ {w}, x # y
      PROVE  at[x] + new[x] <= at[y] \/ at[y] + new[y] <= at[x]
  <2>1. lo[x] + amt[x] <= lo[y] \/ lo[y] + amt[y] <= lo[x]
        BY <1>6 DEF Fits
  <2> QED BY <1>2, <1>3, <1>4, <2>1
<1>7. Fits(H \ {w}, at, new, g - a)
      BY <1>5, <1>6 DEF Fits
<1>8. ASSUME Fills(H, lo, amt, g) PROVE Fills(H \ {w}, at, new, g - a)
  <2>1. ASSUME NEW n \in Nat, n < g - a
        PROVE  \E x \in H \ {w} : at[x] <= n /\ n < at[x] + new[x]
    <3>1. PICK m \in Nat : m = IF n < l THEN n ELSE n + a
          BY <1>2
    <3>2. m < g /\ ~(l <= m /\ m < l + a)
          BY <1>2, <2>1, <3>1
    <3>3. PICK x \in H : lo[x] <= m /\ m < lo[x] + amt[x]
          BY <1>8, <3>2 DEF Fills
    <3>4. x \in H \ {w}
          BY <1>1, <3>2, <3>3
    <3>5. at[x] <= n /\ n < at[x] + new[x]
          BY <1>2, <1>3, <1>4, <3>1, <3>3, <3>4
    <3> QED BY <3>4, <3>5
  <2> QED BY <2>1 DEF Fills
<1>9. g - a \in Nat
      BY <1>2
<1> QED BY <1>1, <1>7, <1>8, <1>9

\* Fewer amounts in the same gap still fit.
LEMMA FitFewer ==
  ASSUME NEW H, NEW K \in SUBSET H, NEW lo, NEW amt, NEW new, NEW g,
         \A x \in K : new[x] = amt[x], Fits(H, lo, amt, g)
  PROVE  /\ Fits(K, lo, new, g)
         /\ K = H /\ Fills(H, lo, amt, g) => Fills(K, lo, new, g)
<1>1. Fits(K, lo, new, g)
      BY DEF Fits
<1>2. ASSUME K = H, Fills(H, lo, amt, g) PROVE Fills(K, lo, new, g)
      BY <1>2 DEF Fills
<1> QED BY <1>1, <1>2

-----------------------------------------------------------------------------
(* Payments and the amount an order shows as paid.                         *)

\* Settlements of o whose Payment is written and whose order row is not.
Settling(o) == {w \in Workers : /\ reqs[w].op = "status" /\ reqs[w].at \in {"till", "write"}
                                /\ reqs[w].order = o /\ reqs[w].amount > 0}
Amount == [w \in Workers |-> reqs[w].amount]

\* What the Payment rows of o hold beyond what it shows as paid or gave back.
Gap(o) == payments[o] - refunds[o] - orders[o].paid

Backed(o) == Gap(o) >= 0 /\ \E lo : Fits(Settling(o), lo, Amount, Gap(o))

\* A settlement is of an existing order, and so is an item refund; an order that
\* does not exist shows nothing as paid.
Grounded ==
  /\ \A w \in Workers : reqs[w].op = "status" => reqs[w].amount \in Nat
  /\ \A w \in Workers : reqs[w].op \notin {"idle", "create", "checkout"} => reqs[w].order \in Existing
  /\ \A o \in Orders : orders[o].status = "none" => orders[o].paid = 0

PaidInv == StatusNamed /\ Grounded /\ \A o \in Orders : Backed(o)

LEMMA GapType == ASSUME RowsType, MoneyType, NEW o \in Orders PROVE Gap(o) \in Int
<1>1. payments[o] \in Int /\ refunds[o] \in Int /\ orders[o].paid \in Int
      BY RowType DEF MoneyType
<1> QED BY <1>1 DEF Gap

\* No amount that an order shows as paid changes, nor do payments or refunds.
PaidKeeps ==
  /\ \A o \in Orders : /\ orders'[o].paid = orders[o].paid
                       /\ orders'[o].status = orders[o].status \/ orders'[o].status # "none"
  /\ UNCHANGED <<payments, refunds>>

LEMMA PaidMoves ==
  ASSUME TypeInv, StatusNamed, [Next]_vars
  PROVE  PaidKeeps \/ \E w \in Workers : \/ CreateDirectCommit(w) \/ StatusPay(w) \/ StatusWrite(w)
                                         \/ RefundItemCommit(w)
<1> USE DEF TypeInv, TypeOK
<1>1. ASSUME UNCHANGED <<orders, payments, refunds>> PROVE PaidKeeps
      BY <1>1 DEF PaidKeeps
<1>2. UNCHANGED vars => UNCHANGED <<orders, payments, refunds>>
      BY DEF vars, money
<1>3. ASSUME NEW w \in Workers,
             \/ Receive(w) \/ Fail(w)
             \/ CreateDirectWrite(w) \/ StatusTill(w) \/ StatusTable(w)
             \/ RefundTill(w) \/ CheckoutTable(w)
      PROVE  UNCHANGED <<orders, payments, refunds>>
      BY <1>3 DEF Receive, CreateDirectRead, StatusRead, AssignRead, VoidRead, RefundOrderRead,
                  RefundItemRead, CheckoutRead, Fail, CreateDirectWrite, StatusTill,
                  StatusTable, RefundTill, CheckoutTable, money
<1>4. ASSUME NEW w \in Workers, AssignWrite(w) \/ VoidCommit(w) \/ RefundOrderCommit(w)
      PROVE  PaidKeeps
  <2>1. reqs[w].order \in Orders
    <3>1. reqs[w] \in Sound
          BY DEF SoundRequests
    <3>2. reqs[w].op \in {"assign", "void", "refund"}
          BY <1>4 DEF AssignWrite, VoidCommit, RefundOrderCommit
    <3> QED BY <3>1, <3>2 DEF Sound, Request, Orders
  <2>2. UNCHANGED <<payments, refunds>>
        BY <1>4 DEF AssignWrite, VoidCommit, RefundOrderCommit, money
  <2>3. CASE AssignWrite(w)
        BY <2>1, <2>2, <2>3 DEF AssignWrite, PaidKeeps, RowsType, OrderRow
  <2>4. CASE VoidCommit(w) \/ RefundOrderCommit(w)
        BY <2>1, <2>2, <2>4, StatusesNamed DEF VoidCommit, RefundOrderCommit, PaidKeeps
  <2> QED BY <1>4, <2>3, <2>4
<1>5. ASSUME NEW w \in Workers, CheckoutOrder(w) PROVE PaidKeeps
  <2>1. PICK o \in Orders : orders' = [orders EXCEPT ![o].status = "COMPLETED"]
        BY <1>5 DEF CheckoutOrder, RequestsType, Request
  <2>2. UNCHANGED <<payments, refunds>>
        BY <1>5 DEF CheckoutOrder, money
  <2> QED BY <2>1, <2>2, StatusesNamed DEF PaidKeeps
<1>6. ASSUME NEW i \in Items, VoidItem(i) \/ \E s \in ItemStatuses : UpdateItemStatus(i, s)
      PROVE  UNCHANGED <<orders, payments, refunds>>
      BY <1>6 DEF VoidItem, UpdateItemStatus, money
<1>7. ASSUME NEW j \in DOMAIN jobs,
             FireRead(j) \/ FireDeduct(j) \/ FireNotify(j) \/ FireError(j) \/ FireStall(j)
      PROVE  UNCHANGED <<orders, payments, refunds>>
      BY <1>7 DEF FireRead, FireDeduct, FireNotify, FireError, FireStall, money
<1>8. ASSUME NEW j \in DOMAIN jobs, FireUpdate(j) PROVE PaidKeeps
  <2>1. jobs[j].order \in Orders
    <3>1. jobs[j] \in Job
          BY ElementOfSeq DEF QueueType
    <3> QED BY <3>1 DEF Job
  <2>2. orders' = [orders EXCEPT ![jobs[j].order].status = "PENDING"] /\ UNCHANGED <<payments, refunds>>
        BY <1>8 DEF FireUpdate, money
  <2> QED BY <2>1, <2>2, StatusesNamed DEF PaidKeeps
<1> QED BY <1>1, <1>2, <1>3, <1>4, <1>5, <1>6, <1>7, <1>8 DEF Next, Handle, Fire

\* A settlement writes its own amount.
LEMMA Settles ==
  ASSUME TypeInv, StatusNamed, Grounded, NEW w \in Workers, StatusWrite(w)
  PROVE  /\ reqs[w].order \in Orders /\ reqs[w].amount \in Nat
         /\ \A o \in Orders \ {reqs[w].order} : orders'[o] = orders[o]
         /\ orders'[reqs[w].order].status # "none"
         /\ orders'[reqs[w].order].paid = orders[reqs[w].order].paid + reqs[w].amount
         /\ UNCHANGED <<payments, refunds>>
<1> USE DEF TypeInv, TypeOK
<1>1. PICK r : r = reqs[w]
      OBVIOUS
<1>2. r.op = "status" /\ r.order \in Existing /\ r.amount \in Nat /\ r.to # "none"
      BY <1>1 DEF StatusWrite, StatusNamed, Grounded
<1>3. r.order \in Orders /\ orders[r.order] \in OrderRow
      BY <1>2, ExistingType
<1>4. orders' = [orders EXCEPT ![r.order] = [orders[r.order] EXCEPT
                         !.status = r.to, !.paid = @ + r.amount]]
      /\ UNCHANGED <<payments, refunds>>
      BY <1>1 DEF StatusWrite, money
<1>5. orders'[r.order].status = r.to /\ orders'[r.order].paid = orders[r.order].paid + r.amount
      BY <1>3, <1>4 DEF RowsType, OrderRow
<1> QED BY <1>1, <1>2, <1>3, <1>4, <1>5 DEF RowsType

\* An item refund takes from what is paid as much as it adds to the refunds.
LEMMA RefundsItem ==
  ASSUME TypeInv, Grounded, NEW w \in Workers, RefundItemCommit(w)
  PROVE  /\ reqs[w].order \in Existing /\ reqs[w].amount \in Int
         /\ \A o \in Orders \ {reqs[w].order} : orders'[o] = orders[o] /\ refunds'[o] = refunds[o]
         /\ orders'[reqs[w].order].status = orders[reqs[w].order].status
         /\ orders'[reqs[w].order].paid = orders[reqs[w].order].paid - reqs[w].amount
         /\ refunds'[reqs[w].order] = refunds[reqs[w].order] + reqs[w].amount
         /\ UNCHANGED payments
<1> USE DEF TypeInv, TypeOK
<1>1. PICK r : r = reqs[w]
      OBVIOUS
<1>2. r.op = "refundItem" /\ r.order \in Existing /\ r.amount \in Int
      BY <1>1 DEF RefundItemCommit, Grounded, RequestsType, Request
<1>3. r.order \in Orders /\ orders[r.order] \in OrderRow
      BY <1>2, ExistingType
<1>4. /\ orders' = [orders EXCEPT ![r.order].paid = @ - r.amount]
      /\ refunds' = [refunds EXCEPT ![r.order] = @ + r.amount]
      /\ UNCHANGED payments
      BY <1>1 DEF RefundItemCommit
<1>5. /\ orders'[r.order].status = orders[r.order].status
      /\ orders'[r.order].paid = orders[r.order].paid - r.amount
      BY <1>3, <1>4 DEF RowsType, OrderRow
<1>6. /\ \A o \in Orders \ {r.order} : orders'[o] = orders[o] /\ refunds'[o] = refunds[o]
      /\ refunds'[r.order] = refunds[r.order] + r.amount
      BY <1>3, <1>4 DEF RowsType, MoneyType
<1> QED BY <1>1, <1>2, <1>4, <1>5, <1>6

LEMMA GroundedStep == ASSUME TypeInv, StatusNamed, Grounded, [Next]_vars PROVE Grounded'
<1> USE DEF TypeInv, TypeOK
<1> DEFINE RowsGoOn ==
             /\ \A o \in Orders : orders[o].status # "none" => orders'[o].status # "none"
             /\ \A o \in Orders : orders'[o].status = "none" => orders'[o].paid = 0
<1>1. RowsGoOn
  <2>1. CASE PaidKeeps
        BY <2>1 DEF PaidKeeps, Grounded
  <2>2. ASSUME NEW w \in Workers, CreateDirectCommit(w) PROVE RowsGoOn
        BY <2>2, Appends DEF Grounded
  <2>3. ASSUME NEW w \in Workers, StatusPay(w) PROVE RowsGoOn
        BY <2>3 DEF StatusPay, Grounded
  <2>4. ASSUME NEW w \in Workers, StatusWrite(w) PROVE RowsGoOn
        BY <2>4, Settles DEF Grounded
  <2>5. ASSUME NEW w \in Workers, RefundItemCommit(w) PROVE RowsGoOn
        BY <2>5, RefundsItem DEF Grounded, Existing
  <2> QED BY <2>1, <2>2, <2>3, <2>4, <2>5, PaidMoves
<1>2. Existing \subseteq Existing'
      BY <1>1 DEF Existing
<1>3. CASE UNCHANGED reqs
      BY <1>1, <1>2, <1>3 DEF Grounded
<1>4. ASSUME NEW w \in Workers, NEW s \in Sound, reqs' = [reqs EXCEPT ![w] = s],
             s = Idle \/ (reqs[w] = Idle /\ Fresh(s)) \/ Continues(reqs[w], s)
      PROVE  Grounded'
  <2>1. \A x \in Workers : reqs'[x] = IF x = w THEN s ELSE reqs[x]
        BY <1>4 DEF SoundRequests
  <2>2. s.op = "status" => s.amount \in Nat
        BY <1>4, IdleIs DEF Fresh, Continues, Grounded
  <2>3. s.op \notin {"idle", "create", "checkout"} => s.order \in Existing
        BY <1>4, IdleIs DEF Fresh, Continues, Grounded
  <2> QED BY <1>1, <1>2, <2>1, <2>2, <2>3 DEF Grounded
<1> QED BY <1>3, <1>4, RequestMoves

LEMMA StatusWriteEnds ==
  ASSUME NEW w, StatusWrite(w)
  PROVE  \/ End(w)
         \/ \E t, free : reqs' = [reqs EXCEPT ![w].at = "table", ![w].table = t, ![w].flag = free]
BY DEF StatusWrite

\* The request of x gets to the drawer by writing a Payment, and to the order by
\* the drawer.
LEMMA SettlementMoves ==
  ASSUME TypeInv, [Next]_vars, NEW x \in Workers, reqs'[x].op = "status",
         reqs'[x].at \in {"till", "write"}, reqs'[x].amount > 0
  PROVE  /\ reqs[x].op = "status" /\ reqs'[x].order = reqs[x].order
         /\ reqs'[x].amount = reqs[x].amount
         /\ \/ StatusPay(x)
            \/ StatusTill(x) /\ reqs'[x].at = "write"
            \/ reqs'[x] = reqs[x]
<1> USE DEF TypeInv, TypeOK
<1>1. CASE reqs'[x] = reqs[x]
      BY <1>1
<1>2. ASSUME NEW w \in Workers, NEW s, reqs' = [reqs EXCEPT ![w] = s], reqs'[x] # reqs[x]
      PROVE  w = x /\ reqs'[x] = s
      BY <1>2 DEF SoundRequests
<1>3. ASSUME NEW w \in Workers, Receive(w) PROVE reqs'[x] = reqs[x]
  <2>1. PICK r : reqs' = [reqs EXCEPT ![w] = r] /\ Fresh(r)
        BY <1>3, Begins DEF Asked
  <2> QED BY <1>2, <2>1 DEF Fresh
<1>4. ASSUME NEW w \in Workers, Fail(w) PROVE reqs'[x] = reqs[x]
  <2>1. reqs' = [reqs EXCEPT ![w] = Idle]
        BY <1>4 DEF Fail, End
  <2> QED BY <1>2, <2>1, IdleIs
<1>5. ASSUME NEW w \in Workers, Handle(w), reqs'[x] # reqs[x]
      PROVE  /\ reqs[x].op = "status" /\ reqs'[x].order = reqs[x].order
             /\ reqs'[x].amount = reqs[x].amount
             /\ StatusPay(x) \/ (StatusTill(x) /\ reqs'[x].at = "write")
  <2>1. PICK s : reqs' = [reqs EXCEPT ![w] = s] /\ (s = Idle \/ Continues(reqs[w], s))
        BY <1>5, Proceeds
  <2>2. w = x /\ reqs'[x] = s
        BY <1>2, <1>5, <2>1
  <2>3. Continues(reqs[x], s) /\ reqs[x].op = "status"
        BY <2>1, <2>2, IdleIs DEF Continues
  <2>4. reqs'[x].order = reqs[x].order /\ reqs'[x].amount = reqs[x].amount
        BY <2>2, <2>3 DEF Continues
  <2>5. StatusPay(x) \/ StatusTill(x) \/ StatusWrite(x) \/ StatusTable(x)
    <3>1. Handle(x)
          BY <1>5, <2>2
    <3> QED BY <2>3, <3>1
            DEF Handle, CreateDirectWrite, CreateDirectCommit, AssignWrite, VoidCommit, RefundTill,
                RefundOrderCommit, RefundItemCommit, CheckoutOrder, CheckoutTable
  <2>6. reqs[x] \in Request
        BY DEF RequestsType
  <2>7. ~End(x)
        BY <2>6, IdleIs DEF End, SoundRequests
  <2>8. ~StatusTable(x)
        BY <2>7 DEF StatusTable
  <2>9. ~StatusWrite(x)
    <3>1. ASSUME NEW t, NEW free,
                 reqs' = [reqs EXCEPT ![x].at = "table", ![x].table = t, ![x].flag = free]
          PROVE  reqs'[x].at = "table"
          BY <2>6, <3>1 DEF SoundRequests, Request
    <3>2. ASSUME StatusWrite(x) PROVE FALSE
      <4>1. PICK t, free :
              reqs' = [reqs EXCEPT ![x].at = "table", ![x].table = t, ![x].flag = free]
            BY <2>7, <3>2, StatusWriteEnds
      <4>2. reqs'[x].at = "table"
            BY <3>1, <4>1
      <4> QED BY <4>2
    <3> QED BY <3>2
  <2>10. StatusTill(x) => reqs'[x].at = "write"
         BY <2>6 DEF StatusTill, Goto, SoundRequests, Request
  <2> QED BY <2>3, <2>4, <2>5, <2>8, <2>9, <2>10
<1>6. UNCHANGED vars => reqs'[x] = reqs[x]
      BY DEF vars
<1>7. ASSUME NEW i \in Items, VoidItem(i) \/ \E s \in ItemStatuses : UpdateItemStatus(i, s)
      PROVE  reqs'[x] = reqs[x]
      BY <1>7 DEF VoidItem, UpdateItemStatus
<1>8. ASSUME NEW j \in DOMAIN jobs, Fire(j) \/ FireError(j) \/ FireStall(j)
      PROVE reqs'[x] = reqs[x]
      BY <1>8 DEF Fire, FireRead, FireUpdate, FireDeduct, FireNotify, FireError, FireStall
<1> QED BY <1>1, <1>3, <1>4, <1>5, <1>6, <1>7, <1>8 DEF Next

\* Without a Payment for o its settlements can only get fewer.
LEMMA SettlingShrinks ==
  ASSUME TypeInv, [Next]_vars, NEW o \in Orders,
         \A x \in Workers : ~(StatusPay(x) /\ reqs[x].order = o)
  PROVE  /\ Settling(o)' \subseteq Settling(o)
         /\ \A x \in Settling(o)' : Amount'[x] = Amount[x]
         /\ \A x \in Settling(o)' : ~StatusWrite(x)
<1> SUFFICES ASSUME NEW x \in Settling(o)'
             PROVE  x \in Settling(o) /\ Amount'[x] = Amount[x] /\ ~StatusWrite(x)
    OBVIOUS
<1>1. /\ x \in Workers /\ reqs'[x].op = "status" /\ reqs'[x].at \in {"till", "write"}
      /\ reqs'[x].amount > 0 /\ reqs'[x].order = o
      BY DEF Settling
<1>2. /\ reqs[x].op = "status" /\ reqs[x].order = o /\ reqs[x].amount = reqs'[x].amount
      /\ StatusTill(x) \/ reqs'[x] = reqs[x]
      BY <1>1, SettlementMoves
<1>3. reqs[x].at \in {"till", "write"}
      BY <1>1, <1>2 DEF StatusTill
<1>4. ~StatusWrite(x)
  <2>1. reqs[x] \in Request /\ reqs \in [Workers -> Request]
        BY <1>1 DEF TypeInv, TypeOK, RequestsType
  <2>2. ASSUME StatusWrite(x) PROVE FALSE
    <3>1. CASE End(x)
      <4>1. reqs'[x] = Idle
            BY <1>1, <2>1, <3>1 DEF End
      <4> QED BY <1>1, <4>1, IdleIs
    <3>2. ASSUME NEW t, NEW free,
                 reqs' = [reqs EXCEPT ![x].at = "table", ![x].table = t, ![x].flag = free]
          PROVE  FALSE
      <4>1. reqs'[x].at = "table"
            BY <1>1, <2>1, <3>2 DEF Request
      <4> QED BY <1>1, <4>1
    <3> QED BY <2>2, <3>1, <3>2, StatusWriteEnds
  <2> QED BY <2>2
<1>5. x \in Settling(o)
      BY <1>1, <1>2, <1>3 DEF Settling
<1> QED BY <1>1, <1>2, <1>4, <1>5 DEF Amount

LEMMA BackedKeeps ==
  ASSUME TypeInv, [Next]_vars, NEW o \in Orders, Backed(o), Gap(o)' = Gap(o),
         \A x \in Workers : ~(StatusPay(x) /\ reqs[x].order = o)
  PROVE  Backed(o)'
<1>1. PICK lo : Fits(Settling(o), lo, Amount, Gap(o))
      BY DEF Backed
<1>2. /\ Settling(o)' \in SUBSET Settling(o)
      /\ \A x \in Settling(o)' : Amount'[x] = Amount[x]
      BY SettlingShrinks
<1>3. PICK K, new, g : K = Settling(o)' /\ new = Amount' /\ g = Gap(o)
      OBVIOUS
<1>4. Fits(K, lo, new, g)
      BY <1>1, <1>2, <1>3, FitFewer
<1>5. \E at : Fits(Settling(o)', at, Amount', Gap(o)')
      BY <1>3, <1>4
<1> QED BY <1>5 DEF Backed

LEMMA BackedByPayment ==
  ASSUME TypeInv, Grounded, [Next]_vars, NEW o \in Orders, Backed(o), NEW w \in Workers,
         StatusPay(w), reqs[w].order = o
  PROVE  Backed(o)'
<1> USE DEF TypeInv, TypeOK
<1>1. PICK a : a = reqs[w].amount
      OBVIOUS
<1>2. a \in Nat /\ reqs[w].op = "status" /\ reqs[w].at = "pay"
      BY <1>1 DEF StatusPay, Grounded
<1>3. /\ \A x \in Workers : reqs'[x] = IF x = w THEN [reqs[w] EXCEPT !.at = "till"] ELSE reqs[x]
      /\ reqs'[w].amount = a /\ reqs'[w].order = o /\ reqs'[w].op = "status" /\ reqs'[w].at = "till"
      BY <1>1, <1>2 DEF StatusPay, Goto, RequestsType, Request
<1>4. Gap(o)' = Gap(o) + a /\ Gap(o) \in Int
  <2>1. payments[o] \in Int /\ refunds[o] \in Int /\ orders[o].paid \in Int
        BY RowType DEF MoneyType
  <2>2. payments'[o] = payments[o] + a /\ refunds' = refunds /\ orders' = orders
        BY <1>1 DEF StatusPay, MoneyType
  <2> QED BY <1>2, <2>1, <2>2 DEF Gap
<1>5. /\ w \notin Settling(o)
      /\ Settling(o)' = Settling(o) \cup (IF a > 0 THEN {w} ELSE {})
      /\ \A x \in Settling(o) : Amount'[x] = Amount[x]
      /\ Amount'[w] = a
      BY <1>2, <1>3 DEF Settling, Amount
<1>6. PICK lo : Fits(Settling(o), lo, Amount, Gap(o)) /\ Gap(o) >= 0
      BY DEF Backed
<1>7. PICK H, K, amt, new, g : /\ H = Settling(o) /\ K = Settling(o)' /\ amt = Amount
                               /\ new = Amount' /\ g = Gap(o)
      OBVIOUS
<1>8. /\ g \in Nat /\ w \notin H /\ new[w] = a /\ \A x \in H : new[x] = amt[x]
      /\ Fits(H, lo, amt, g) /\ K = H \cup (IF a > 0 THEN {w} ELSE {})
      BY <1>4, <1>5, <1>6, <1>7
<1>9. \E at : Fits(K, at, new, g + a)
  <2>1. CASE a > 0
        BY <1>2, <1>8, <2>1, FitOneMore
  <2>2. CASE ~(a > 0)
    <3>1. a = 0 /\ K = H /\ g + a = g
          BY <1>2, <1>8, <2>2
    <3> QED BY <1>8, <3>1, FitFewer
  <2> QED BY <2>1, <2>2
<1>10. \E at : Fits(Settling(o)', at, Amount', Gap(o)')
      BY <1>4, <1>7, <1>9
<1>11. Gap(o)' >= 0
      BY <1>2, <1>4, <1>7, <1>8
<1> QED BY <1>10, <1>11 DEF Backed

LEMMA BackedBySettlement ==
  ASSUME TypeInv, StatusNamed, Grounded, [Next]_vars, NEW o \in Orders, Backed(o),
         NEW w \in Workers, StatusWrite(w), reqs[w].order = o, reqs[w].amount > 0,
         \A x \in Workers : ~(StatusPay(x) /\ reqs[x].order = o)
  PROVE  Backed(o)'
<1> USE DEF TypeInv, TypeOK
<1>1. PICK a : a = reqs[w].amount
      OBVIOUS
<1>2. a \in Nat /\ w \in Settling(o) /\ Amount[w] = a
      BY <1>1, Settles DEF StatusWrite, Settling, Amount
<1>3. Gap(o)' = Gap(o) - a /\ Gap(o) \in Int
  <2>1. payments[o] \in Int /\ refunds[o] \in Int /\ orders[o].paid \in Int
        BY RowType DEF MoneyType
  <2>2. payments' = payments /\ refunds' = refunds /\ orders'[o].paid = orders[o].paid + a
        BY <1>1, Settles
  <2> QED BY <1>2, <2>1, <2>2 DEF Gap
<1>4. /\ Settling(o)' \in SUBSET Settling(o) /\ w \notin Settling(o)'
      /\ \A x \in Settling(o)' : Amount'[x] = Amount[x]
      BY SettlingShrinks
<1>5. PICK lo : Fits(Settling(o), lo, Amount, Gap(o))
      BY DEF Backed
<1>6. PICK H, K, amt, new, g : /\ H = Settling(o) /\ K = Settling(o)' /\ amt = Amount
                               /\ new = Amount' /\ g = Gap(o)
      OBVIOUS
<1>7. /\ g \in Int /\ w \in H /\ amt[w] = a /\ Fits(H, lo, amt, g)
      /\ K \in SUBSET (H \ {w}) /\ \A x \in K : new[x] = amt[x]
      BY <1>2, <1>3, <1>4, <1>5, <1>6
<1>8. /\ g - a \in Nat
      /\ \E at : Fits(H \ {w}, at, amt, g - a)
      BY <1>7, FitOneLess
<1>9. \E at : Fits(K, at, new, g - a)
      BY <1>7, <1>8, FitFewer
<1>10. \E at : Fits(Settling(o)', at, Amount', Gap(o)')
      BY <1>3, <1>6, <1>9
<1>11. Gap(o)' >= 0
      BY <1>3, <1>6, <1>8
<1> QED BY <1>10, <1>11 DEF Backed

LEMMA GapKeeps ==
  ASSUME TypeInv, StatusNamed, Grounded, [Next]_vars, NEW o \in Orders,
         \A x \in Workers : ~(StatusPay(x) /\ reqs[x].order = o),
         \A x \in Workers : ~(StatusWrite(x) /\ reqs[x].order = o /\ reqs[x].amount > 0)
  PROVE  Gap(o)' = Gap(o)
<1> USE DEF TypeInv, TypeOK
<1>1. payments[o] \in Int /\ refunds[o] \in Int /\ orders[o].paid \in Int
      BY RowType DEF MoneyType
<1>2. CASE PaidKeeps
      BY <1>2 DEF PaidKeeps, Gap
<1>3. ASSUME NEW w \in Workers, CreateDirectCommit(w) PROVE Gap(o)' = Gap(o)
  <2>1. PICK id, a : id = reqs[w].order /\ a = reqs[w].amount
        OBVIOUS
  <2>2. /\ a \in Int /\ id \in Orders
        /\ \A x \in Orders \ {id} : orders'[x] = orders[x]
        /\ orders'[id].paid = a + IF orders[id].status = "none" THEN 0 ELSE orders[id].paid
        BY <1>3, <2>1, Appends
  <2>3. payments' = [payments EXCEPT ![id] = @ + a] /\ UNCHANGED refunds
        BY <1>3, <2>1 DEF CreateDirectCommit
  <2>4. CASE o # id
        BY <2>2, <2>3, <2>4 DEF Gap, MoneyType
  <2>5. CASE o = id
    <3>1. orders'[o].paid = a + orders[o].paid
          BY <1>1, <2>2, <2>5 DEF Grounded
    <3>2. payments'[o] = payments[o] + a
          BY <2>3, <2>5 DEF MoneyType
    <3> QED BY <1>1, <2>2, <2>3, <3>1, <3>2 DEF Gap
  <2> QED BY <2>4, <2>5
<1>4. ASSUME NEW w \in Workers, StatusPay(w) PROVE Gap(o)' = Gap(o)
  <2>1. payments'[o] = payments[o] /\ UNCHANGED <<refunds, orders>>
        BY <1>4 DEF StatusPay, MoneyType
  <2> QED BY <2>1 DEF Gap
<1>5. ASSUME NEW w \in Workers, StatusWrite(w) PROVE Gap(o)' = Gap(o)
  <2>1. /\ reqs[w].amount \in Nat /\ UNCHANGED <<payments, refunds>>
        /\ \A x \in Orders \ {reqs[w].order} : orders'[x] = orders[x]
        /\ orders'[reqs[w].order].paid = orders[reqs[w].order].paid + reqs[w].amount
        BY <1>5, Settles
  <2>2. orders'[o].paid = orders[o].paid
    <3>1. CASE reqs[w].order = o
      <4>1. reqs[w].amount = 0
            BY <1>5, <2>1, <3>1
      <4> QED BY <1>1, <2>1, <3>1, <4>1
    <3>2. CASE reqs[w].order # o
          BY <2>1, <3>2
    <3> QED BY <3>1, <3>2
  <2> QED BY <2>1, <2>2 DEF Gap
<1>6. ASSUME NEW w \in Workers, RefundItemCommit(w) PROVE Gap(o)' = Gap(o)
  <2>1. PICK id, a : id = reqs[w].order /\ a = reqs[w].amount
        OBVIOUS
  <2>2. /\ a \in Int /\ UNCHANGED payments
        /\ \A x \in Orders \ {id} : orders'[x] = orders[x] /\ refunds'[x] = refunds[x]
        /\ orders'[id].paid = orders[id].paid - a
        /\ refunds'[id] = refunds[id] + a
        BY <1>6, <2>1, RefundsItem
  <2>3. CASE o = id
        BY <1>1, <2>2, <2>3 DEF Gap
  <2>4. CASE o # id
        BY <2>2, <2>4 DEF Gap
  <2> QED BY <2>3, <2>4
<1> QED BY <1>2, <1>3, <1>4, <1>5, <1>6, PaidMoves

LEMMA PaidInit == Init => PaidInv
<1> SUFFICES ASSUME Init PROVE PaidInv
    OBVIOUS
<1>1. \A w \in Workers : reqs[w] = Idle
      BY DEF Init
<1>2. \A o \in Orders : orders[o].paid = 0 /\ payments[o] = 0 /\ refunds[o] = 0
      BY DEF Init, NoOrder
<1>3. StatusNamed /\ Grounded
      BY <1>1, <1>2, IdleIs DEF StatusNamed, Grounded
<1>4. ASSUME NEW o \in Orders PROVE Backed(o)
  <2>1. Gap(o) = 0
        BY <1>2 DEF Gap
  <2>2. Settling(o) = {}
        BY <1>1, IdleIs DEF Settling
  <2>3. \E lo : Fits({}, lo, Amount, 0)
        BY DEF Fits
  <2> QED BY <2>1, <2>2, <2>3 DEF Backed
<1> QED BY <1>3, <1>4 DEF PaidInv

LEMMA PaidStep == TypeInv /\ PaidInv /\ [Next]_vars => PaidInv'
<1> SUFFICES ASSUME TypeInv, PaidInv, [Next]_vars PROVE PaidInv'
    OBVIOUS
<1>1. StatusNamed /\ Grounded /\ \A o \in Orders : Backed(o)
      BY DEF PaidInv
<1>2. StatusNamed' /\ Grounded'
      BY <1>1, StatusNamedStep, GroundedStep
<1>3. ASSUME NEW o \in Orders PROVE Backed(o)'
  <2>1. Backed(o)
        BY <1>1
  <2>2. CASE \E w \in Workers : StatusPay(w) /\ reqs[w].order = o
        BY <1>1, <2>1, <2>2, BackedByPayment
  <2>3. CASE \A w \in Workers : ~(StatusPay(w) /\ reqs[w].order = o)
    <3>1. CASE \E w \in Workers : StatusWrite(w) /\ reqs[w].order = o /\ reqs[w].amount > 0
          BY <1>1, <2>1, <2>3, <3>1, BackedBySettlement
    <3>2. CASE \A w \in Workers : ~(StatusWrite(w) /\ reqs[w].order = o /\ reqs[w].amount > 0)
      <4>1. Gap(o)' = Gap(o)
            BY <1>1, <2>3, <3>2, GapKeeps
      <4> QED BY <2>1, <2>3, <4>1, BackedKeeps
    <3> QED BY <3>1, <3>2
  <2> QED BY <2>2, <2>3
<1> QED BY <1>2, <1>3 DEF PaidInv

\* What an order shows as paid and gave back line by line never exceeds its
\* Payment rows, however many settlements overlap and wherever they fail
\* (updateStatus writes the Payment before the order).
THEOREM PaidCorrect == Spec => []PaidIsBacked
<1>1. TypeInv /\ PaidInv => PaidIsBacked
  <2> SUFFICES ASSUME TypeInv, PaidInv, NEW o \in Orders
               PROVE  orders[o].paid + refunds[o] <= payments[o]
      BY DEF PaidIsBacked
  <2>1. payments[o] \in Int /\ refunds[o] \in Int /\ orders[o].paid \in Int
        BY RowType DEF TypeInv, TypeOK, MoneyType
  <2>2. Gap(o) >= 0
        BY DEF PaidInv, Backed
  <2> QED BY <2>1, <2>2 DEF Gap
<1> QED BY TypeInit, TypeStep, PaidInit, PaidStep, <1>1, PTL DEF Spec

-----------------------------------------------------------------------------
(* The order a transaction works on.                                       *)

\* The kitchen is told of no order before it has its number.
Numbered == \A o \in Orders : Announced(o) => o < nextId

\* Two open transactions have not written the same order.
OneCommit ==
  \A w, x \in Workers : w # x /\ reqs[w].at = "commit" /\ reqs[x].at = "commit"
                          => reqs[w].order # reqs[x].order

LEMMA NumberedStep ==
  ASSUME TypeInv, KitchenInv, TotalInv, Numbered, [Next]_vars PROVE Numbered'
<1> USE DEF TypeInv, TypeOK
<1>1. nextId \in Int /\ nextId' \in Int
  <2>1. nextId \in 1 .. MaxOrders + 1 /\ nextId' \in 1 .. MaxOrders + 1
        BY TypeStep DEF SoundRequests
  <2> QED BY <2>1, InputAssumption
<1>2. ASSUME \A o \in Orders : AnnouncedNext(o) => Announced(o), nextId' = nextId
      PROVE  Numbered'
      BY <1>2 DEF Numbered, Announced, AnnouncedNext
<1>3. ASSUME UNCHANGED <<queue, nextId>> PROVE Numbered'
      BY <1>3 DEF queue, Numbered, Announced
<1>4. UNCHANGED vars => UNCHANGED <<queue, nextId>>
      BY DEF vars
<1>5. ASSUME NEW w \in Workers,
             \/ Receive(w) \/ Fail(w)
             \/ CreateDirectCommit(w) \/ StatusPay(w) \/ StatusTill(w) \/ StatusWrite(w)
             \/ StatusTable(w) \/ AssignWrite(w) \/ VoidCommit(w) \/ RefundTill(w)
             \/ RefundOrderCommit(w) \/ RefundItemCommit(w) \/ CheckoutOrder(w)
             \/ CheckoutTable(w)
      PROVE  UNCHANGED <<queue, nextId>>
      BY <1>5 DEF Receive, CreateDirectRead, StatusRead, AssignRead, VoidRead, RefundOrderRead,
                  RefundItemRead, CheckoutRead, CreateDirectCommit, StatusPay, StatusTill,
                  StatusWrite, StatusTable, AssignWrite, VoidCommit, RefundTill,
                  RefundOrderCommit, RefundItemCommit, CheckoutOrder, CheckoutTable, Fail
<1>6. ASSUME NEW w \in Workers, CreateDirectWrite(w) PROVE Numbered'
  <2>1. PICK id \in Orders :
          /\ id = IF reqs[w].order = 0 THEN nextId ELSE reqs[w].order
          /\ nextId' = IF reqs[w].order = 0 THEN nextId + 1 ELSE nextId
          /\ kds' = (IF reqs[w].flag THEN kds ELSE kds \cup {id})
          /\ jobs' = IF reqs[w].flag THEN Append(jobs, NewJob(id)) ELSE jobs
        BY <1>6 DEF CreateDirectWrite, NewJob
  <2>2. id < nextId'
    <3>1. CASE reqs[w].order = 0
          BY <1>1, <2>1, <3>1
    <3>2. CASE reqs[w].order # 0
      <4>1. Announced(id)
            BY <2>1, <3>2 DEF KitchenInv
      <4> QED BY <2>1, <3>2, <4>1 DEF Numbered
    <3> QED BY <3>1, <3>2
  <2>3. nextId <= nextId'
        BY <1>1, <2>1
  <2>4. ASSUME NEW o \in Orders, AnnouncedNext(o) PROVE Announced(o) \/ o = id
    <3>1. CASE o \in kds'
          BY <2>1, <3>1 DEF Announced
    <3>2. ASSUME NEW j \in DOMAIN jobs', jobs'[j].order = o PROVE Announced(o) \/ o = id
      <4>1. CASE jobs' = jobs
            BY <3>2, <4>1 DEF Announced
      <4>2. CASE jobs' = Append(jobs, NewJob(id))
        <5>1. NewJob(id) \in Job
              BY InputAssumption DEF NewJob, Job
        <5>2. /\ jobs' \in Seq(Job) /\ Len(jobs') = Len(jobs) + 1
              /\ \A k \in 1 .. Len(jobs) : jobs'[k] = jobs[k]
              /\ jobs'[Len(jobs) + 1] = NewJob(id)
              BY <4>2, <5>1, AppendProperties DEF QueueType
        <5>3. DOMAIN jobs = 1 .. Len(jobs) /\ DOMAIN jobs' = 1 .. Len(jobs) + 1 /\ Len(jobs) \in Nat
              BY <5>2, LenProperties DEF QueueType
        <5>4. CASE j \in DOMAIN jobs
              BY <3>2, <5>2, <5>3, <5>4 DEF Announced
        <5>5. CASE j \notin DOMAIN jobs
          <6>1. j = Len(jobs) + 1
                BY <5>3, <5>5
          <6> QED BY <3>2, <5>2, <6>1 DEF NewJob
        <5> QED BY <5>4, <5>5
      <4> QED BY <2>1, <4>1, <4>2
    <3> QED BY <2>4, <3>1, <3>2 DEF AnnouncedNext
  <2>5. ASSUME NEW o \in Orders, AnnouncedNext(o) PROVE o < nextId'
    <3>1. CASE Announced(o)
      <4>1. o < nextId /\ o \in Int
            BY <3>1, InputAssumption DEF Numbered, Orders
      <4> QED BY <1>1, <2>3, <4>1
    <3>2. CASE o = id
          BY <2>2, <3>2
    <3> QED BY <2>4, <2>5, <3>1, <3>2
  <2> QED BY <2>5 DEF Numbered, Announced, AnnouncedNext
<1>7. ASSUME NEW i \in Items, VoidItem(i) PROVE UNCHANGED <<queue, nextId>>
      BY <1>7 DEF VoidItem
<1>8. ASSUME NEW i \in Items, NEW s \in ItemStatuses, UpdateItemStatus(i, s) PROVE Numbered'
  <2>1. items[i].order # 0 /\ kds' = kds \cup {items[i].order} /\ UNCHANGED <<jobs, nextId>>
        BY <1>8 DEF UpdateItemStatus
  <2>2. items[i].order \in Orders
        BY <2>1 DEF RowsType, Orders
  <2>3. items[i].order \in Existing
        BY <2>2 DEF TotalInv, Unborn, Lines, Existing
  <2>4. Announced(items[i].order)
        BY <2>3 DEF KitchenInv
  <2> QED BY <2>1, <2>4 DEF Numbered, Announced
<1>9. ASSUME NEW j \in DOMAIN jobs, Fire(j) \/ FireError(j) \/ FireStall(j) PROVE Numbered'
  <2>1. PICK job : Becomes(j, job)
        BY <1>9, JobSteps
  <2>2. DOMAIN jobs' = DOMAIN jobs /\ \A k \in DOMAIN jobs : jobs'[k].order = jobs[k].order
        BY <2>1, BecomesKeepsQueue
  <2>3. kds' = kds \/ kds' = kds \cup {jobs[j].order}
        BY <1>9 DEF Fire, FireRead, FireUpdate, FireDeduct, FireNotify, FireError, FireStall
  <2>4. nextId' = nextId
        BY <1>9 DEF Fire, FireRead, FireUpdate, FireDeduct, FireNotify, FireError, FireStall
  <2>5. \A o \in Orders : AnnouncedNext(o) => Announced(o)
        BY <2>2, <2>3 DEF Announced, AnnouncedNext
  <2> QED BY <1>2, <2>4, <2>5
<1> QED BY <1>3, <1>4, <1>5, <1>6, <1>7, <1>8, <1>9 DEF Next, Handle

\* A request has its transaction open: it has just written its order, which no
\* other transaction has written, or it had it open before.
LEMMA CommitMoves ==
  ASSUME TypeInv, [Next]_vars, NEW x \in Workers,
         reqs[x].at = "commit" \/ reqs'[x].at = "commit"
  PROVE  \/ reqs'[x] = reqs[x]
         \/ CreateDirectWrite(x) \/ RefundTill(x)
         \/ CreateDirectCommit(x) \/ RefundOrderCommit(x) \/ RefundItemCommit(x) \/ Fail(x)
<1> USE DEF TypeInv, TypeOK
<1>1. ASSUME NEW w \in Workers, NEW s, reqs' = [reqs EXCEPT ![w] = s], reqs'[x] # reqs[x]
      PROVE  w = x /\ reqs'[x] = s
      BY <1>1 DEF SoundRequests
<1>2. ASSUME NEW w \in Workers, Receive(w) PROVE reqs'[x] = reqs[x]
  <2>1. PICK r : reqs[w] = Idle /\ reqs' = [reqs EXCEPT ![w] = r] /\ Fresh(r)
        BY <1>2, Begins DEF Asked
  <2> QED BY <1>1, <2>1, IdleIs DEF Fresh
<1>3. ASSUME NEW w \in Workers, Handle(w) \/ Fail(w) PROVE reqs'[x] = reqs[x] \/ w = x
      BY <1>1, <1>3, Proceeds
<1>4. ASSUME Handle(x)
      PROVE  \/ reqs'[x] = reqs[x] \/ CreateDirectWrite(x) \/ RefundTill(x)
             \/ CreateDirectCommit(x) \/ RefundOrderCommit(x) \/ RefundItemCommit(x)
  <2>1. reqs[x] \in Request /\ reqs \in [Workers -> Request]
        BY DEF RequestsType
  <2>2. ASSUME \/ StatusTable(x) \/ AssignWrite(x) \/ VoidCommit(x) \/ CheckoutTable(x)
        PROVE  FALSE
    <3>1. End(x) /\ reqs[x].at # "commit"
          BY <2>2 DEF StatusTable, AssignWrite, VoidCommit, CheckoutTable
    <3>2. reqs'[x] = Idle
          BY <2>1, <3>1 DEF End
    <3> QED BY <3>1, <3>2, IdleIs
  <2>3. ASSUME NEW step, Goto(x, step), step # "commit", reqs[x].at # "commit" PROVE FALSE
    <3>1. reqs'[x].at = step
          BY <2>1, <2>3 DEF Goto, Request
    <3> QED BY <2>3, <3>1
  <2>4. ~StatusPay(x) /\ ~StatusTill(x)
        BY <2>3 DEF StatusPay, StatusTill
  <2>5. ASSUME StatusWrite(x) PROVE FALSE
    <3>1. reqs[x].at # "commit"
          BY <2>5 DEF StatusWrite
    <3>2. CASE End(x)
      <4>1. reqs'[x] = Idle
            BY <2>1, <3>2 DEF End
      <4> QED BY <3>1, <4>1, IdleIs
    <3>3. ASSUME NEW t, NEW free,
                 reqs' = [reqs EXCEPT ![x].at = "table", ![x].table = t, ![x].flag = free]
          PROVE  FALSE
      <4>1. reqs'[x].at = "table"
            BY <2>1, <3>3 DEF Request
      <4> QED BY <3>1, <4>1
    <3> QED BY <2>5, <3>2, <3>3, StatusWriteEnds
  <2>6. ASSUME CheckoutOrder(x) PROVE FALSE
    <3>1. reqs[x].at = "write"
          BY <2>6 DEF CheckoutOrder
    <3>2. PICK o \in reqs[x].todo :
            reqs' = [reqs EXCEPT ![x].todo = @ \ {o},
                                 ![x].at = IF reqs[x].todo = {o} THEN "table" ELSE "write"]
          BY <2>6 DEF CheckoutOrder
    <3>3. reqs'[x].at \in {"table", "write"}
          BY <2>1, <3>2 DEF Request
    <3> QED BY <3>1, <3>3
  <2> QED BY <1>4, <2>2, <2>4, <2>5, <2>6 DEF Handle
<1>5. UNCHANGED vars => reqs'[x] = reqs[x]
      BY DEF vars
<1>6. ASSUME NEW i \in Items, VoidItem(i) \/ \E s \in ItemStatuses : UpdateItemStatus(i, s)
      PROVE  reqs'[x] = reqs[x]
      BY <1>6 DEF VoidItem, UpdateItemStatus
<1>7. ASSUME NEW j \in DOMAIN jobs, Fire(j) \/ FireError(j) \/ FireStall(j)
      PROVE reqs'[x] = reqs[x]
      BY <1>7 DEF Fire, FireRead, FireUpdate, FireDeduct, FireNotify, FireError, FireStall
<1> QED BY <1>2, <1>3, <1>4, <1>5, <1>6, <1>7 DEF Next

\* A transaction that writes an order finds no other open on it.
LEMMA CommitOpens ==
  ASSUME TypeInv, KitchenInv, Numbered, NEW w \in Workers, CreateDirectWrite(w) \/ RefundTill(w)
  PROVE  /\ reqs[w].at = "write" /\ reqs'[w].at = "commit" /\ reqs'[w].order \in Orders
         /\ reqs'[w].op = reqs[w].op /\ reqs'[w].amount = reqs[w].amount
         /\ RefundTill(w) => reqs'[w].order = reqs[w].order
         /\ CreateDirectWrite(w) =>
              reqs'[w].order = IF reqs[w].order = 0 THEN nextId ELSE reqs[w].order
         /\ \A x \in Workers \ {w} : reqs'[x] = reqs[x]
         /\ \A x \in Workers : reqs[x].at = "commit" => reqs[x].order # reqs'[w].order
<1> USE DEF TypeInv, TypeOK
<1>1. reqs[w] \in Request /\ reqs[w] \in Sound /\ reqs \in [Workers -> Request]
      BY DEF RequestsType, SoundRequests, Sound
<1>2. CASE CreateDirectWrite(w)
  <2>1. PICK id \in Orders :
          /\ id = IF reqs[w].order = 0 THEN nextId ELSE reqs[w].order
          /\ IF reqs[w].order = 0 THEN ~CounterLocked ELSE ~RowLocked(id)
          /\ reqs' = [reqs EXCEPT ![w].at = "commit", ![w].order = id]
        BY <1>2 DEF CreateDirectWrite
  <2>2. /\ reqs'[w].at = "commit" /\ reqs'[w].order = id /\ reqs'[w].op = reqs[w].op
        /\ reqs'[w].amount = reqs[w].amount
        /\ \A x \in Workers \ {w} : reqs'[x] = reqs[x]
        BY <1>1, <2>1 DEF Request
  <2>3. ASSUME NEW x \in Workers, reqs[x].at = "commit", reqs[x].order = id PROVE FALSE
    <3>1. CASE reqs[w].order = 0
      <4>1. id = nextId /\ id # 0
            BY <2>1, <3>1 DEF Orders
      <4>2. Announced(id)
            BY <2>3, <4>1 DEF KitchenInv
      <4>3. nextId < nextId /\ nextId \in Int
            BY <2>1, <4>1, <4>2 DEF Numbered, Orders
      <4> QED BY <4>3
    <3>2. CASE reqs[w].order # 0
          BY <2>1, <2>3, <3>2 DEF RowLocked
    <3> QED BY <3>1, <3>2
  <2>4. reqs[w].at = "write" /\ ~RefundTill(w)
        BY <1>2 DEF CreateDirectWrite, RefundTill
  <2> QED BY <2>1, <2>2, <2>3, <2>4
<1>3. CASE RefundTill(w)
  <2>1. /\ reqs[w].op \in {"refund", "refundItem"} /\ reqs[w].at = "write"
        /\ ~RowLocked(reqs[w].order)
        /\ reqs' = [reqs EXCEPT ![w].at = "commit"]
        BY <1>3 DEF RefundTill, Goto
  <2>2. reqs[w].order \in Orders
        BY <1>1, <2>1 DEF Sound, Request, Orders
  <2>3. /\ reqs'[w].at = "commit" /\ reqs'[w].order = reqs[w].order /\ reqs'[w].op = reqs[w].op
        /\ reqs'[w].amount = reqs[w].amount
        /\ \A x \in Workers \ {w} : reqs'[x] = reqs[x]
        BY <1>1, <2>1 DEF Request
  <2>4. ~CreateDirectWrite(w)
        BY <2>1 DEF CreateDirectWrite
  <2> QED BY <1>3, <2>1, <2>2, <2>3, <2>4 DEF RowLocked
<1> QED BY <1>2, <1>3

\* A request that commits or fails is gone.
LEMMA CommitEnds ==
  ASSUME TypeInv, NEW w \in Workers,
         \/ CreateDirectCommit(w) \/ RefundOrderCommit(w) \/ RefundItemCommit(w) \/ Fail(w)
  PROVE  /\ reqs'[w] = Idle
         /\ \A x \in Workers \ {w} : reqs'[x] = reqs[x]
<1>1. End(w)
      BY DEF CreateDirectCommit, RefundOrderCommit, RefundItemCommit, Fail
<1> QED BY <1>1 DEF End, TypeInv, SoundRequests

LEMMA OneCommitStep ==
  ASSUME TypeInv, KitchenInv, Numbered, OneCommit, [Next]_vars PROVE OneCommit'
<1> SUFFICES ASSUME NEW w \in Workers, NEW x \in Workers, w # x, reqs'[w].at = "commit",
                    reqs'[x].at = "commit", reqs'[w].order = reqs'[x].order
             PROVE  FALSE
    BY DEF OneCommit
<1>1. ASSUME NEW y \in Workers, reqs'[y].at = "commit"
      PROVE  reqs'[y] = reqs[y] \/ CreateDirectWrite(y) \/ RefundTill(y)
      BY <1>1, CommitMoves, CommitEnds, IdleIs
<1>2. ASSUME NEW y \in Workers, NEW z \in Workers, y # z, CreateDirectWrite(y) \/ RefundTill(y)
      PROVE  /\ reqs'[z] = reqs[z]
             /\ reqs[z].at = "commit" => reqs[z].order # reqs'[y].order
      BY <1>2, CommitOpens
<1>3. CASE reqs'[w] = reqs[w] /\ reqs'[x] = reqs[x]
      BY <1>3 DEF OneCommit
<1>4. CASE CreateDirectWrite(w) \/ RefundTill(w)
      BY <1>2, <1>4
<1>5. CASE CreateDirectWrite(x) \/ RefundTill(x)
      BY <1>2, <1>5
<1> QED BY <1>1, <1>3, <1>4, <1>5

-----------------------------------------------------------------------------
(* The drawer.                                                             *)

\* Settlements of o whose Payment is written and not yet in the drawer.
Tilling(o) == {w \in Workers : /\ reqs[w].op = "status" /\ reqs[w].at = "till"
                               /\ reqs[w].order = o /\ reqs[w].amount > 0}

\* The transaction open on o.
Committing(o) == {w \in Workers : reqs[w].at = "commit" /\ reqs[w].order = o}

\* What a transaction has put in the drawer or taken from it before its rows show.
Signed(r) == IF r.op = "create" THEN r.amount ELSE 0 - r.amount
Carried(o) == IF Committing(o) = {} THEN 0 ELSE Signed(reqs[CHOOSE w \in Committing(o) : TRUE])

\* What the drawer has yet to see of o.
Debt(o) == payments[o] - refunds[o] - refunded[o] - till[o] + Carried(o)

Explained(o) == /\ Debt(o) >= 0
                /\ \E lo : /\ Fits(Tilling(o), lo, Amount, Debt(o))
                           /\ Fills(Tilling(o), lo, Amount, Debt(o))

DrawerInv ==
  /\ Numbered
  /\ OneCommit
  /\ \A o \in Orders : "torn" \notin why[o] => Explained(o)

LEMMA WhyGrows == ASSUME TypeInv, [Next]_vars, NEW o \in Orders PROVE why[o] \subseteq why'[o]
<1> USE DEF TypeInv, TypeOK
<1>1. ASSUME NEW x, NEW causes, Blame(x, causes) PROVE why[o] \subseteq why'[o]
  <2>1. CASE x = o
        BY <1>1, <2>1 DEF Blame
  <2>2. CASE x # o
        BY <1>1, <2>2 DEF Blame
  <2> QED BY <2>1, <2>2
<1>2. UNCHANGED why => why[o] \subseteq why'[o]
      OBVIOUS
<1>3. UNCHANGED vars => UNCHANGED why
      BY DEF vars
<1>4. ASSUME NEW w \in Workers, Receive(w) PROVE UNCHANGED why
      BY <1>4 DEF Receive, CreateDirectRead, StatusRead, AssignRead, VoidRead, RefundOrderRead,
                  RefundItemRead, CheckoutRead
<1>5. ASSUME NEW w \in Workers,
             \/ CreateDirectWrite(w) \/ StatusPay(w) \/ StatusTill(w) \/ StatusTable(w)
             \/ AssignWrite(w) \/ RefundTill(w) \/ CheckoutTable(w)
      PROVE  UNCHANGED why
      BY <1>5 DEF CreateDirectWrite, StatusPay, StatusTill, StatusTable, AssignWrite,
                  RefundTill, CheckoutTable
<1>6. ASSUME NEW w \in Workers,
             \/ CreateDirectCommit(w) \/ StatusWrite(w) \/ VoidCommit(w) \/ RefundOrderCommit(w)
             \/ RefundItemCommit(w) \/ CheckoutOrder(w) \/ Fail(w)
      PROVE  UNCHANGED why \/ \E x, causes : Blame(x, causes)
      BY <1>6 DEF CreateDirectCommit, StatusWrite, VoidCommit, RefundOrderCommit,
                  RefundItemCommit, CheckoutOrder, Fail
<1>7. ASSUME NEW i \in Items, VoidItem(i) \/ \E s \in ItemStatuses : UpdateItemStatus(i, s)
      PROVE  \E x, causes : Blame(x, causes)
      BY <1>7 DEF VoidItem, UpdateItemStatus
<1>8. ASSUME NEW j \in DOMAIN jobs, Fire(j) \/ FireError(j) \/ FireStall(j)
      PROVE  UNCHANGED why \/ \E x, causes : Blame(x, causes)
      BY <1>8 DEF Fire, FireRead, FireUpdate, FireDeduct, FireNotify, FireError, FireStall
<1> QED BY <1>1, <1>2, <1>3, <1>4, <1>5, <1>6, <1>7, <1>8 DEF Next, Handle

LEMMA CarriedKeeps ==
  ASSUME NEW o, \A x \in Workers : x \in Committing(o) \/ x \in Committing(o)' => reqs'[x] = reqs[x]
  PROVE  Carried(o)' = Carried(o)
<1>1. Committing(o)' = Committing(o)
      BY DEF Committing
<1>2. CASE Committing(o) = {}
      BY <1>1, <1>2 DEF Carried
<1>3. CASE Committing(o) # {}
  <2>1. PICK w : w = CHOOSE x \in Committing(o) : TRUE
        OBVIOUS
  <2>2. w \in Committing(o)
        BY <1>3, <2>1
  <2>3. w \in Workers /\ reqs'[w] = reqs[w]
        BY <2>2 DEF Committing
  <2> QED BY <1>1, <1>3, <2>1, <2>3 DEF Carried, Signed
<1> QED BY <1>2, <1>3

\* The transaction of w on o ends.
LEMMA CarriedEnds ==
  ASSUME TypeInv, OneCommit, NEW o \in Orders, NEW w \in Workers, reqs'[w] = Idle,
         \A x \in Workers \ {w} : reqs'[x] = reqs[x]
  PROVE  /\ w \in Committing(o) => Carried(o) = Signed(reqs[w]) /\ Carried(o)' = 0
         /\ w \notin Committing(o) => Carried(o)' = Carried(o)
<1>1. ASSUME w \in Committing(o) PROVE Carried(o) = Signed(reqs[w]) /\ Carried(o)' = 0
  <2>1. Committing(o) = {w}
        BY <1>1 DEF Committing, OneCommit
  <2>2. Committing(o)' = {}
    <3>1. ASSUME NEW x \in Committing(o)' PROVE FALSE
      <4>1. x \in Workers /\ reqs'[x].at = "commit" /\ reqs'[x].order = o
            BY DEF Committing
      <4>2. x # w /\ reqs'[x] = reqs[x]
            BY <4>1, IdleIs
      <4>3. x \in Committing(o)
            BY <4>1, <4>2 DEF Committing
      <4> QED BY <2>1, <4>2, <4>3
    <3> QED BY <3>1
  <2>3. (CHOOSE x \in {w} : TRUE) = w
        OBVIOUS
  <2> QED BY <2>1, <2>2, <2>3 DEF Carried
<1>2. ASSUME w \notin Committing(o) PROVE Carried(o)' = Carried(o)
  <2>1. w \notin Committing(o)'
        BY IdleIs DEF Committing
  <2> QED BY <1>2, <2>1, CarriedKeeps
<1> QED BY <1>1, <1>2

\* The transaction of w opens on the order it writes.
LEMMA CarriedBegins ==
  ASSUME TypeInv, KitchenInv, Numbered, NEW o \in Orders, NEW w \in Workers,
         CreateDirectWrite(w) \/ RefundTill(w)
  PROVE  /\ reqs'[w].order = o => Carried(o) = 0 /\ Carried(o)' = Signed(reqs'[w])
         /\ reqs'[w].order # o => Carried(o)' = Carried(o)
<1>1. /\ reqs[w].at = "write" /\ reqs'[w].at = "commit"
      /\ \A x \in Workers \ {w} : reqs'[x] = reqs[x]
      /\ \A x \in Workers : reqs[x].at = "commit" => reqs[x].order # reqs'[w].order
      BY CommitOpens
<1>2. ASSUME reqs'[w].order = o PROVE Carried(o) = 0 /\ Carried(o)' = Signed(reqs'[w])
  <2>1. Committing(o) = {}
        BY <1>1, <1>2 DEF Committing
  <2>2. Committing(o)' = {w}
        BY <1>1, <1>2 DEF Committing
  <2>3. (CHOOSE x \in {w} : TRUE) = w
        OBVIOUS
  <2> QED BY <2>1, <2>2, <2>3 DEF Carried, Signed
<1>3. ASSUME reqs'[w].order # o PROVE Carried(o)' = Carried(o)
  <2>1. \A x \in Workers : x \in Committing(o) \/ x \in Committing(o)' => reqs'[x] = reqs[x]
        BY <1>1, <1>3 DEF Committing
  <2> QED BY <2>1, CarriedKeeps
<1> QED BY <1>2, <1>3

LEMMA SignedType == ASSUME TypeInv, NEW w \in Workers PROVE reqs[w].amount \in Int /\ Signed(reqs[w]) \in Int
<1>1. reqs[w].amount \in Int
      BY DEF TypeInv, TypeOK, RequestsType, Request
<1> QED BY <1>1 DEF Signed

LEMMA CarriedType == ASSUME TypeInv, NEW o \in Orders PROVE Carried(o) \in Int
<1>1. CASE Committing(o) = {}
      BY <1>1 DEF Carried
<1>2. CASE Committing(o) # {}
  <2>1. (CHOOSE x \in Committing(o) : TRUE) \in Workers
        BY <1>2 DEF Committing
  <2> QED BY <1>2, <2>1, SignedType DEF Carried
<1> QED BY <1>1, <1>2

LEMMA DebtType ==
  ASSUME TypeInv, NEW o \in Orders
  PROVE  /\ payments[o] \in Int /\ refunds[o] \in Int /\ refunded[o] \in Int /\ till[o] \in Int
         /\ Carried(o) \in Int /\ Debt(o) \in Int
<1>1. payments[o] \in Int /\ refunds[o] \in Int /\ refunded[o] \in Int /\ till[o] \in Int
      BY DEF TypeInv, TypeOK, MoneyType
<1> QED BY <1>1, CarriedType DEF Debt

\* Which handlers write money.
LEMMA MoneyMoves ==
  ASSUME TypeInv, [Next]_vars
  PROVE  UNCHANGED money \/ \E w \in Workers :
           \/ CreateDirectWrite(w) \/ CreateDirectCommit(w) \/ StatusPay(w) \/ StatusTill(w)
           \/ RefundTill(w) \/ RefundOrderCommit(w) \/ RefundItemCommit(w)
<1>1. UNCHANGED vars => UNCHANGED money
      BY DEF vars
<1>2. ASSUME NEW w \in Workers,
             \/ Receive(w) \/ Fail(w) \/ StatusWrite(w) \/ StatusTable(w) \/ AssignWrite(w)
             \/ VoidCommit(w) \/ CheckoutOrder(w) \/ CheckoutTable(w)
      PROVE  UNCHANGED money
      BY <1>2 DEF Receive, CreateDirectRead, StatusRead, AssignRead, VoidRead, RefundOrderRead,
                  RefundItemRead, CheckoutRead, Fail, StatusWrite, StatusTable, AssignWrite,
                  VoidCommit, CheckoutOrder, CheckoutTable
<1>3. ASSUME NEW i \in Items, VoidItem(i) \/ \E s \in ItemStatuses : UpdateItemStatus(i, s)
      PROVE  UNCHANGED money
      BY <1>3 DEF VoidItem, UpdateItemStatus
<1>4. ASSUME NEW j \in DOMAIN jobs, Fire(j) \/ FireError(j) \/ FireStall(j) PROVE UNCHANGED money
      BY <1>4 DEF Fire, FireRead, FireUpdate, FireDeduct, FireNotify, FireError, FireStall
<1> QED BY <1>1, <1>2, <1>3, <1>4 DEF Next, Handle

\* A settlement that has written its Payment leaves the drawer step only by
\* writing the drawer or by failing.
LEMMA TillLeaves ==
  ASSUME TypeInv, [Next]_vars, NEW x \in Workers, reqs[x].op = "status", reqs[x].at = "till"
  PROVE  reqs'[x] = reqs[x] \/ StatusTill(x) \/ Fail(x)
<1> USE DEF TypeInv, TypeOK
<1>1. ASSUME NEW w \in Workers, NEW s, reqs' = [reqs EXCEPT ![w] = s], reqs'[x] # reqs[x]
      PROVE  w = x /\ reqs'[x] = s
      BY <1>1 DEF SoundRequests
<1>2. ASSUME NEW w \in Workers, Receive(w) PROVE reqs'[x] = reqs[x]
  <2>1. PICK r : reqs[w] = Idle /\ reqs' = [reqs EXCEPT ![w] = r] /\ Fresh(r)
        BY <1>2, Begins DEF Asked
  <2> QED BY <1>1, <2>1, IdleIs
<1>3. ASSUME NEW w \in Workers, Handle(w) \/ Fail(w), reqs'[x] # reqs[x]
      PROVE  StatusTill(x) \/ Fail(x)
  <2>1. w = x
        BY <1>1, <1>3, Proceeds
  <2>2. CASE Handle(x)
        BY <2>2 DEF Handle, CreateDirectWrite, CreateDirectCommit, StatusPay, StatusWrite,
                    StatusTable, AssignWrite, VoidCommit, RefundTill, RefundOrderCommit,
                    RefundItemCommit, CheckoutOrder, CheckoutTable
  <2> QED BY <1>3, <2>1, <2>2
<1>4. UNCHANGED vars => reqs'[x] = reqs[x]
      BY DEF vars
<1>5. ASSUME NEW i \in Items, VoidItem(i) \/ \E s \in ItemStatuses : UpdateItemStatus(i, s)
      PROVE  reqs'[x] = reqs[x]
      BY <1>5 DEF VoidItem, UpdateItemStatus
<1>6. ASSUME NEW j \in DOMAIN jobs, Fire(j) \/ FireError(j) \/ FireStall(j)
      PROVE reqs'[x] = reqs[x]
      BY <1>6 DEF Fire, FireRead, FireUpdate, FireDeduct, FireNotify, FireError, FireStall
<1> QED BY <1>2, <1>3, <1>4, <1>5, <1>6 DEF Next

\* A request that fails at the drawer or before its commit tears its order.
LEMMA FailTears ==
  ASSUME TypeInv, NEW w \in Workers, Fail(w), reqs[w].at \in {"till", "commit"},
         reqs[w].amount # 0, reqs[w].order \in Orders
  PROVE  "torn" \in why'[reqs[w].order]
<1>1. PICK o : o = reqs[w].order
      OBVIOUS
<1>2. Blame(o, {"torn"})
      BY <1>1 DEF Fail
<1> QED BY <1>1, <1>2 DEF Blame, TypeInv, TypeOK

\* Nothing is settled on o and nothing of it is torn in this step.
Undisturbed(o) ==
  /\ "torn" \notin why'[o]
  /\ \A x \in Workers : ~(StatusPay(x) /\ reqs[x].order = o)
  /\ \A x \in Workers : ~(StatusTill(x) /\ reqs[x].order = o /\ reqs[x].amount > 0)

LEMMA TillingKeeps ==
  ASSUME TypeInv, [Next]_vars, NEW o \in Orders, Undisturbed(o)
  PROVE  Tilling(o)' = Tilling(o) /\ \A x \in Tilling(o) : Amount'[x] = Amount[x]
<1>1. ASSUME NEW x \in Tilling(o) PROVE reqs'[x] = reqs[x]
  <2>1. /\ x \in Workers /\ reqs[x].op = "status" /\ reqs[x].at = "till"
        /\ reqs[x].order = o /\ reqs[x].amount > 0
        BY DEF Tilling
  <2>2. reqs[x].amount # 0
        BY <2>1
  <2>3. ~StatusTill(x) /\ ~Fail(x)
        BY <2>1, <2>2, FailTears DEF Undisturbed
  <2> QED BY <2>1, <2>3, TillLeaves
<1>2. ASSUME NEW x \in Tilling(o)' PROVE reqs'[x] = reqs[x]
  <2>1. /\ x \in Workers /\ reqs'[x].op = "status" /\ reqs'[x].at = "till"
        /\ reqs'[x].order = o /\ reqs'[x].amount > 0
        BY DEF Tilling
  <2> QED BY <2>1, SettlementMoves DEF Undisturbed
<1> QED BY <1>1, <1>2 DEF Tilling, Amount

\* The drawer and a transaction's own amount move together when it opens.
LEMMA DebtAtOpening ==
  ASSUME TypeInv, KitchenInv, Numbered, NEW o \in Orders, NEW w \in Workers,
         CreateDirectWrite(w) \/ RefundTill(w)
  PROVE  Debt(o)' = Debt(o)
<1> USE DEF TypeInv, TypeOK
<1>1. PICK id, a : id = reqs'[w].order /\ a = reqs[w].amount
      OBVIOUS
<1>2. PICK s : s = Signed(reqs'[w])
      OBVIOUS
<1>3. /\ id \in Orders /\ reqs'[w].op = reqs[w].op /\ reqs'[w].amount = a
      /\ RefundTill(w) => id = reqs[w].order
      /\ CreateDirectWrite(w) => id = IF reqs[w].order = 0 THEN nextId ELSE reqs[w].order
      BY <1>1, CommitOpens
<1>4. a \in Int
      BY <1>1, SignedType
<1>5. s \in Int /\ till' = [till EXCEPT ![id] = @ + s] /\ UNCHANGED <<payments, refunds, refunded>>
  <2>1. CASE CreateDirectWrite(w)
    <3>1. reqs[w].op = "create"
          BY <2>1 DEF CreateDirectWrite
    <3>2. s = a
          BY <1>2, <1>3, <3>1 DEF Signed
    <3> QED BY <1>1, <1>3, <1>4, <2>1, <3>2 DEF CreateDirectWrite
  <2>2. CASE RefundTill(w)
    <3>1. reqs[w].op # "create"
          BY <2>2 DEF RefundTill
    <3>2. s = 0 - a
          BY <1>2, <1>3, <3>1 DEF Signed
    <3>3. till' = [till EXCEPT ![id] = @ - a] /\ UNCHANGED <<payments, refunds, refunded>>
          BY <1>1, <1>3, <2>2 DEF RefundTill
    <3>4. PICK b : b = till[id]
          OBVIOUS
    <3>5. b \in Int
          BY <1>3, <3>4 DEF MoneyType
    <3>6. s \in Int /\ b - a = b + s
          BY <1>4, <3>2, <3>5
    <3>7. till' = [till EXCEPT ![id] = b - a] /\ [till EXCEPT ![id] = @ + s] = [till EXCEPT ![id] = b + s]
          BY <3>3, <3>4
    <3> QED BY <3>3, <3>6, <3>7
  <2> QED BY <2>1, <2>2
<1>6. /\ payments[o] \in Int /\ refunds[o] \in Int /\ refunded[o] \in Int /\ till[o] \in Int
      /\ Carried(o) \in Int
      BY DebtType
<1>7. CASE o = id
  <2>1. Carried(o) = 0 /\ Carried(o)' = s
        BY <1>1, <1>2, <1>7, CarriedBegins
  <2>2. till'[o] = till[o] + s
        BY <1>5, <1>7 DEF MoneyType
  <2> QED BY <1>5, <1>6, <2>1, <2>2 DEF Debt
<1>8. CASE o # id
  <2>1. Carried(o)' = Carried(o)
        BY <1>1, <1>8, CarriedBegins
  <2>2. till'[o] = till[o]
        BY <1>5, <1>8 DEF MoneyType
  <2> QED BY <1>5, <2>1, <2>2 DEF Debt
<1> QED BY <1>7, <1>8

\* The rows show a transaction's amount when it commits.
LEMMA DebtAtCommit ==
  ASSUME TypeInv, KitchenInv, OneCommit, NEW o \in Orders, NEW w \in Workers,
         CreateDirectCommit(w) \/ RefundOrderCommit(w) \/ RefundItemCommit(w)
  PROVE  Debt(o)' = Debt(o)
<1> USE DEF TypeInv, TypeOK
<1>1. PICK id, a : id = reqs[w].order /\ a = reqs[w].amount
      OBVIOUS
<1>2. PICK s : s = Signed(reqs[w])
      OBVIOUS
<1>3. a \in Int /\ s \in Int /\ reqs[w].at = "commit"
      BY <1>1, <1>2, SignedType DEF CreateDirectCommit, RefundOrderCommit, RefundItemCommit
<1>4. id \in Orders
  <2>1. reqs[w] \in Sound
        BY DEF SoundRequests
  <2>2. reqs[w].op \in {"create", "refund", "refundItem"}
        BY DEF CreateDirectCommit, RefundOrderCommit, RefundItemCommit
  <2>3. reqs[w] \in Request /\ id # 0
        BY <1>1, <1>3, <2>1, <2>2 DEF Sound
  <2> QED BY <1>1, <2>3 DEF Request, Orders
<1>5. /\ payments[o] \in Int /\ refunds[o] \in Int /\ refunded[o] \in Int /\ till[o] \in Int
      /\ Carried(o) \in Int
      BY DebtType
<1>6. /\ till' = till
      /\ payments'[o] - refunds'[o] - refunded'[o]
           = payments[o] - refunds[o] - refunded[o] + IF o = id THEN s ELSE 0
  <2>1. CASE CreateDirectCommit(w)
    <3>1. /\ payments' = [payments EXCEPT ![id] = @ + a] /\ reqs[w].op = "create"
          /\ UNCHANGED <<refunds, refunded, till>>
          BY <1>1, <2>1 DEF CreateDirectCommit
    <3>2. s = a
          BY <1>1, <1>2, <3>1 DEF Signed
    <3>3. payments'[o] = payments[o] + IF o = id THEN a ELSE 0
          BY <1>5, <3>1 DEF MoneyType
    <3> QED BY <1>3, <1>5, <3>1, <3>2, <3>3
  <2>2. CASE RefundOrderCommit(w)
    <3>1. /\ refunded' = [refunded EXCEPT ![id] = @ + a] /\ reqs[w].op = "refund"
          /\ UNCHANGED <<payments, refunds, till>>
          BY <1>1, <2>2 DEF RefundOrderCommit
    <3>2. s = 0 - a
          BY <1>1, <1>2, <3>1 DEF Signed
    <3>3. refunded'[o] = refunded[o] + IF o = id THEN a ELSE 0
          BY <1>5, <3>1 DEF MoneyType
    <3> QED BY <1>3, <1>5, <3>1, <3>2, <3>3
  <2>3. CASE RefundItemCommit(w)
    <3>1. /\ refunds' = [refunds EXCEPT ![id] = @ + a] /\ reqs[w].op = "refundItem"
          /\ UNCHANGED <<payments, refunded, till>>
          BY <1>1, <2>3 DEF RefundItemCommit
    <3>2. s = 0 - a
          BY <1>1, <1>2, <3>1 DEF Signed
    <3>3. refunds'[o] = refunds[o] + IF o = id THEN a ELSE 0
          BY <1>5, <3>1 DEF MoneyType
    <3> QED BY <1>3, <1>5, <3>1, <3>2, <3>3
  <2> QED BY <2>1, <2>2, <2>3
<1>7. reqs'[w] = Idle /\ \A x \in Workers \ {w} : reqs'[x] = reqs[x]
      BY CommitEnds
<1>8. CASE o = id
  <2>1. w \in Committing(o)
        BY <1>1, <1>3, <1>8 DEF Committing
  <2>2. Carried(o) = s /\ Carried(o)' = 0
        BY <1>2, <1>7, <2>1, CarriedEnds
  <2>3. PICK m, n : /\ m = payments[o] - refunds[o] - refunded[o]
                    /\ n = payments'[o] - refunds'[o] - refunded'[o]
        OBVIOUS
  <2>4. m \in Int /\ n = m + s /\ till'[o] = till[o]
        BY <1>5, <1>6, <1>8, <2>3
  <2>5. Debt(o) = m - till[o] + s /\ Debt(o)' = n - till'[o] + 0
        BY <2>2, <2>3 DEF Debt
  <2> QED BY <1>3, <1>5, <2>4, <2>5
<1>9. CASE o # id
  <2>1. w \notin Committing(o)
        BY <1>1, <1>9 DEF Committing
  <2>2. Carried(o)' = Carried(o)
        BY <1>7, <2>1, CarriedEnds
  <2>3. PICK m, n : /\ m = payments[o] - refunds[o] - refunded[o]
                    /\ n = payments'[o] - refunds'[o] - refunded'[o]
        OBVIOUS
  <2>4. m \in Int /\ n = m /\ till'[o] = till[o]
        BY <1>5, <1>6, <1>9, <2>3
  <2>5. Debt(o) = m - till[o] + Carried(o) /\ Debt(o)' = n - till'[o] + Carried(o)'
        BY <2>3 DEF Debt
  <2> QED BY <2>2, <2>4, <2>5
<1> QED BY <1>8, <1>9

LEMMA DebtAtFailure ==
  ASSUME TypeInv, KitchenInv, OneCommit, NEW o \in Orders, Undisturbed(o), NEW w \in Workers,
         Fail(w)
  PROVE  Debt(o)' = Debt(o)
<1>1. UNCHANGED money
      BY DEF Fail
<1>2. Carried(o)' = Carried(o)
  <2>1. reqs'[w] = Idle /\ \A x \in Workers \ {w} : reqs'[x] = reqs[x]
        BY CommitEnds
  <2>2. CASE w \notin Committing(o)
        BY <2>1, <2>2, CarriedEnds
  <2>3. CASE w \in Committing(o)
    <3>1. reqs[w].at = "commit" /\ reqs[w].order = o
          BY <2>3 DEF Committing
    <3>2. reqs[w].amount = 0
          BY <3>1, FailTears DEF Undisturbed
    <3>3. Signed(reqs[w]) = 0
          BY <3>2 DEF Signed
    <3> QED BY <2>1, <2>3, <3>3, CarriedEnds
  <2> QED BY <2>2, <2>3
<1> QED BY <1>1, <1>2 DEF Debt, money

LEMMA DebtKeeps ==
  ASSUME TypeInv, KitchenInv, Grounded, Numbered, OneCommit, [Next]_vars,
         NEW o \in Orders, Undisturbed(o)
  PROVE  Debt(o)' = Debt(o)
<1> USE DEF TypeInv, TypeOK
<1>1. CASE \E w \in Workers : CreateDirectWrite(w) \/ RefundTill(w)
      BY <1>1, DebtAtOpening
<1>2. CASE \E w \in Workers : CreateDirectCommit(w) \/ RefundOrderCommit(w) \/ RefundItemCommit(w)
      BY <1>2, DebtAtCommit
<1>3. CASE \E w \in Workers : Fail(w)
      BY <1>3, DebtAtFailure
<1>4. CASE /\ \A w \in Workers : ~CreateDirectWrite(w) /\ ~RefundTill(w) /\ ~Fail(w)
           /\ \A w \in Workers : ~CreateDirectCommit(w) /\ ~RefundOrderCommit(w)
                                 /\ ~RefundItemCommit(w)
  <2>1. \A x \in Workers : x \in Committing(o) \/ x \in Committing(o)' => reqs'[x] = reqs[x]
        BY <1>4, CommitMoves DEF Committing
  <2>2. Carried(o)' = Carried(o)
        BY <2>1, CarriedKeeps
  <2>3. /\ payments'[o] = payments[o] /\ refunds'[o] = refunds[o] /\ refunded'[o] = refunded[o]
        /\ till'[o] = till[o]
    <3>1. CASE UNCHANGED money
          BY <3>1 DEF money
    <3>2. ASSUME NEW w \in Workers, StatusPay(w)
          PROVE  payments'[o] = payments[o] /\ UNCHANGED <<refunds, refunded, till>>
      <4>1. PICK id, a : id = reqs[w].order /\ a = reqs[w].amount
            OBVIOUS
      <4>2. id # o /\ payments' = [payments EXCEPT ![id] = @ + a] /\ UNCHANGED <<refunds, refunded, till>>
            BY <3>2, <4>1 DEF StatusPay, Undisturbed
      <4> QED BY <4>2 DEF MoneyType
    <3>3. ASSUME NEW w \in Workers, StatusTill(w)
          PROVE  till'[o] = till[o] /\ UNCHANGED <<payments, refunds, refunded>>
      <4>1. PICK id, a : id = reqs[w].order /\ a = reqs[w].amount
            OBVIOUS
      <4>2. till' = [till EXCEPT ![id] = @ + a] /\ UNCHANGED <<payments, refunds, refunded>>
            BY <3>3, <4>1 DEF StatusTill
      <4>3. a \in Nat
            BY <3>3, <4>1 DEF StatusTill, Grounded
      <4>4. id # o \/ a = 0
            BY <3>3, <4>1, <4>3 DEF Undisturbed
      <4>5. till'[o] = till[o]
        <5>1. CASE id # o
              BY <4>2, <5>1 DEF MoneyType
        <5>2. CASE id = o /\ a = 0
          <6>1. till'[o] = till[o] + a /\ till[o] \in Int
                BY <4>2, <5>2 DEF MoneyType
          <6> QED BY <5>2, <6>1
        <5> QED BY <4>4, <5>1, <5>2
      <4> QED BY <4>2, <4>5
    <3> QED BY <1>4, <3>1, <3>2, <3>3, MoneyMoves
  <2> QED BY <2>2, <2>3 DEF Debt
<1> QED BY <1>1, <1>2, <1>3, <1>4

LEMMA ExplainedKeeps ==
  ASSUME TypeInv, KitchenInv, Grounded, Numbered, OneCommit, [Next]_vars,
         NEW o \in Orders, Undisturbed(o), Explained(o)
  PROVE  Explained(o)'
<1>1. PICK lo : Fits(Tilling(o), lo, Amount, Debt(o)) /\ Fills(Tilling(o), lo, Amount, Debt(o))
      BY DEF Explained
<1>2. Tilling(o)' = Tilling(o) /\ \A x \in Tilling(o) : Amount'[x] = Amount[x]
      BY TillingKeeps
<1>3. Debt(o)' = Debt(o)
      BY DebtKeeps
<1>4. PICK H, new, g : H = Tilling(o) /\ new = Amount' /\ g = Debt(o)
      OBVIOUS
<1>5. Fits(H, lo, new, g) /\ Fills(H, lo, new, g)
      BY <1>1, <1>2, <1>4, FitFewer
<1>6. \E at : Fits(Tilling(o)', at, Amount', Debt(o)') /\ Fills(Tilling(o)', at, Amount', Debt(o)')
      BY <1>2, <1>3, <1>4, <1>5
<1>7. Debt(o)' >= 0
      BY <1>3 DEF Explained
<1> QED BY <1>6, <1>7 DEF Explained

LEMMA ExplainedByPayment ==
  ASSUME TypeInv, Grounded, [Next]_vars, NEW o \in Orders, Explained(o), NEW w \in Workers,
         StatusPay(w), reqs[w].order = o
  PROVE  Explained(o)'
<1> USE DEF TypeInv, TypeOK
<1>1. PICK a : a = reqs[w].amount
      OBVIOUS
<1>2. a \in Nat /\ reqs[w].op = "status" /\ reqs[w].at = "pay"
      BY <1>1 DEF StatusPay, Grounded
<1>3. /\ \A x \in Workers : reqs'[x] = IF x = w THEN [reqs[w] EXCEPT !.at = "till"] ELSE reqs[x]
      /\ reqs'[w].amount = a /\ reqs'[w].order = o /\ reqs'[w].op = "status" /\ reqs'[w].at = "till"
      BY <1>1, <1>2 DEF StatusPay, Goto, RequestsType, Request
<1>4. Debt(o)' = Debt(o) + a /\ Debt(o) \in Int
  <2>1. /\ payments[o] \in Int /\ refunds[o] \in Int /\ refunded[o] \in Int /\ till[o] \in Int
        /\ Carried(o) \in Int /\ Debt(o) \in Int
        BY DebtType
  <2>2. payments'[o] = payments[o] + a /\ UNCHANGED <<refunds, refunded, till>>
        BY <1>1 DEF StatusPay, MoneyType
  <2>3. Carried(o)' = Carried(o)
    <3>1. \A x \in Workers : x \in Committing(o) \/ x \in Committing(o)' => reqs'[x] = reqs[x]
          BY <1>2, <1>3 DEF Committing
    <3> QED BY <3>1, CarriedKeeps
  <2> QED BY <1>2, <2>1, <2>2, <2>3 DEF Debt
<1>5. /\ w \notin Tilling(o)
      /\ Tilling(o)' = Tilling(o) \cup (IF a > 0 THEN {w} ELSE {})
      /\ \A x \in Tilling(o) : Amount'[x] = Amount[x]
      /\ Amount'[w] = a
      BY <1>2, <1>3 DEF Tilling, Amount
<1>6. PICK lo : /\ Fits(Tilling(o), lo, Amount, Debt(o)) /\ Fills(Tilling(o), lo, Amount, Debt(o))
                /\ Debt(o) >= 0
      BY DEF Explained
<1>7. PICK H, K, amt, new, g : /\ H = Tilling(o) /\ K = Tilling(o)' /\ amt = Amount
                               /\ new = Amount' /\ g = Debt(o)
      OBVIOUS
<1>8. /\ g \in Nat /\ w \notin H /\ new[w] = a /\ \A x \in H : new[x] = amt[x]
      /\ Fits(H, lo, amt, g) /\ Fills(H, lo, amt, g)
      /\ K = H \cup (IF a > 0 THEN {w} ELSE {})
      BY <1>4, <1>5, <1>6, <1>7
<1>9. \E at : Fits(K, at, new, g + a) /\ Fills(K, at, new, g + a)
  <2>1. CASE a > 0
        BY <1>2, <1>8, <2>1, FitOneMore
  <2>2. CASE ~(a > 0)
    <3>1. a = 0 /\ K = H /\ g + a = g
          BY <1>2, <1>8, <2>2
    <3> QED BY <1>8, <3>1, FitFewer
  <2> QED BY <2>1, <2>2
<1>10. \E at : Fits(Tilling(o)', at, Amount', Debt(o)') /\ Fills(Tilling(o)', at, Amount', Debt(o)')
      BY <1>4, <1>7, <1>9
<1>11. Debt(o)' >= 0
      BY <1>2, <1>4, <1>7, <1>8
<1> QED BY <1>10, <1>11 DEF Explained

LEMMA ExplainedByTill ==
  ASSUME TypeInv, Grounded, [Next]_vars, NEW o \in Orders, Explained(o), NEW w \in Workers,
         StatusTill(w), reqs[w].order = o, reqs[w].amount > 0
  PROVE  Explained(o)'
<1> USE DEF TypeInv, TypeOK
<1>1. PICK a : a = reqs[w].amount
      OBVIOUS
<1>2. a \in Nat /\ a > 0 /\ reqs[w].op = "status" /\ reqs[w].at = "till"
      BY <1>1 DEF StatusTill, Grounded
<1>3. /\ \A x \in Workers : reqs'[x] = IF x = w THEN [reqs[w] EXCEPT !.at = "write"] ELSE reqs[x]
      /\ reqs'[w].at = "write"
      BY <1>1, <1>2 DEF StatusTill, Goto, RequestsType, Request
<1>4. Debt(o)' = Debt(o) - a /\ Debt(o) \in Int
  <2>1. /\ payments[o] \in Int /\ refunds[o] \in Int /\ refunded[o] \in Int /\ till[o] \in Int
        /\ Carried(o) \in Int /\ Debt(o) \in Int
        BY DebtType
  <2>2. till'[o] = till[o] + a /\ UNCHANGED <<payments, refunds, refunded>>
        BY <1>1 DEF StatusTill, MoneyType
  <2>3. Carried(o)' = Carried(o)
    <3>1. \A x \in Workers : x \in Committing(o) \/ x \in Committing(o)' => reqs'[x] = reqs[x]
          BY <1>2, <1>3 DEF Committing
    <3> QED BY <3>1, CarriedKeeps
  <2> QED BY <1>2, <2>1, <2>2, <2>3 DEF Debt
<1>5. /\ w \in Tilling(o) /\ Amount[w] = a
      /\ Tilling(o)' = Tilling(o) \ {w}
      /\ \A x \in Tilling(o) \ {w} : Amount'[x] = Amount[x]
      BY <1>1, <1>2, <1>3 DEF Tilling, Amount
<1>6. PICK lo : Fits(Tilling(o), lo, Amount, Debt(o)) /\ Fills(Tilling(o), lo, Amount, Debt(o))
      BY DEF Explained
<1>7. PICK H, K, amt, new, g : /\ H = Tilling(o) /\ K = Tilling(o)' /\ amt = Amount
                               /\ new = Amount' /\ g = Debt(o)
      OBVIOUS
<1>8. /\ g \in Int /\ w \in H /\ amt[w] = a /\ \A x \in H \ {w} : new[x] = amt[x]
      /\ Fits(H, lo, amt, g) /\ Fills(H, lo, amt, g) /\ K = H \ {w}
      BY <1>4, <1>5, <1>6, <1>7
<1>9. /\ g - a \in Nat
      /\ \E at : Fits(K, at, new, g - a) /\ Fills(K, at, new, g - a)
      BY <1>8, FitOneLess
<1>10. \E at : Fits(Tilling(o)', at, Amount', Debt(o)') /\ Fills(Tilling(o)', at, Amount', Debt(o)')
      BY <1>4, <1>7, <1>9
<1>11. Debt(o)' >= 0
      BY <1>4, <1>7, <1>9
<1> QED BY <1>10, <1>11 DEF Explained

LEMMA KitchenInit == Init => KitchenInv
BY IdleFields DEF Init, KitchenInv, Existing, NoOrder

LEMMA DrawerInit == Init => DrawerInv
<1> SUFFICES ASSUME Init PROVE DrawerInv
    OBVIOUS
<1>1. \A w \in Workers : reqs[w] = Idle
      BY DEF Init
<1>2. Numbered
      BY DEF Init, Numbered, Announced
<1>3. OneCommit
      BY <1>1, IdleIs DEF OneCommit
<1>4. ASSUME NEW o \in Orders PROVE Explained(o)
  <2>1. Tilling(o) = {} /\ Committing(o) = {}
        BY <1>1, IdleIs DEF Tilling, Committing
  <2>2. payments[o] = 0 /\ refunds[o] = 0 /\ refunded[o] = 0 /\ till[o] = 0
        BY DEF Init
  <2>3. Debt(o) = 0
        BY <2>1, <2>2 DEF Debt, Carried
  <2>4. \E lo : Fits({}, lo, Amount, 0) /\ Fills({}, lo, Amount, 0)
        BY DEF Fits, Fills
  <2> QED BY <2>1, <2>3, <2>4 DEF Explained
<1> QED BY <1>2, <1>3, <1>4 DEF DrawerInv

LEMMA DrawerStep == TypeInv /\ KitchenInv /\ TotalInv /\ PaidInv /\ DrawerInv /\ [Next]_vars => DrawerInv'
<1> SUFFICES ASSUME TypeInv, KitchenInv, TotalInv, PaidInv, DrawerInv, [Next]_vars PROVE DrawerInv'
    OBVIOUS
<1>1. Grounded /\ Numbered /\ OneCommit
      BY DEF PaidInv, DrawerInv
<1>2. Numbered' /\ OneCommit'
      BY <1>1, NumberedStep, OneCommitStep
<1>3. ASSUME NEW o \in Orders, "torn" \notin why'[o] PROVE Explained(o)'
  <2>1. Explained(o)
        BY <1>3, WhyGrows DEF DrawerInv
  <2>2. CASE \E w \in Workers : StatusPay(w) /\ reqs[w].order = o
        BY <1>1, <2>1, <2>2, ExplainedByPayment
  <2>3. CASE \E w \in Workers : StatusTill(w) /\ reqs[w].order = o /\ reqs[w].amount > 0
        BY <1>1, <2>1, <2>3, ExplainedByTill
  <2>4. CASE Undisturbed(o)
        BY <1>1, <2>1, <2>4, ExplainedKeeps
  <2> QED BY <1>3, <2>2, <2>3, <2>4 DEF Undisturbed
<1> QED BY <1>2, <1>3 DEF DrawerInv

\* Once no request works on an order the drawer holds what was paid less what was
\* given back, whatever overlapped, unless a request was torn between its own
\* connection and its transaction (recordSaleByTenant and recordRefundByTenant
\* write outside the transactions of createDirect, refundOrder and refundItem).
THEOREM TillCorrect == Spec => []DrawerExplainsPayments
<1>1. TypeInv /\ DrawerInv => DrawerExplainsPayments
  <2> SUFFICES ASSUME TypeInv, DrawerInv, NEW o \in Orders, ~Busy(o), "torn" \notin why[o]
               PROVE  till[o] = payments[o] - refunds[o] - refunded[o]
      BY DEF DrawerExplainsPayments
  <2>1. Tilling(o) = {} /\ Committing(o) = {}
        BY DEF Busy, Tilling, Committing
  <2>2. Debt(o) >= 0 /\ \E lo : Fills({}, lo, Amount, Debt(o))
        BY <2>1 DEF DrawerInv, Explained
  <2>3. Debt(o) \in Int
        BY DebtType
  <2>4. Debt(o) = 0
        BY <2>2, <2>3 DEF Fills
  <2>5. Carried(o) = 0
        BY <2>1 DEF Carried
  <2>6. PICK p, r, d, t : p = payments[o] /\ r = refunds[o] /\ d = refunded[o] /\ t = till[o]
        OBVIOUS
  <2>7. p \in Int /\ r \in Int /\ d \in Int /\ t \in Int
        BY <2>6, DebtType
  <2>8. p - r - d - t + 0 = 0
        BY <2>4, <2>5, <2>6 DEF Debt
  <2>9. t = p - r - d
        BY <2>7, <2>8
  <2> QED BY <2>6, <2>9
<1>2. Spec => []TypeInv
      BY TypeInit, TypeStep, PTL DEF Spec
<1>3. Spec => []KitchenInv
      BY <1>2, KitchenInit, KitchenStep, PTL DEF Spec
<1>4. Spec => [](TotalInv /\ PaidInv)
      BY <1>2, TotalInit, TotalStep, PaidInit, PaidStep, PTL DEF Spec
<1> QED BY <1>1, <1>2, <1>3, <1>4, DrawerInit, DrawerStep, PTL DEF Spec

-----------------------------------------------------------------------------
(* Stock: an order is fired once.                                          *)

\* Staff put the order back to SCHEDULED.
Marked(o) == "rescheduled" \in why[o]

\* The order can still be fired.
Waiting(o) == orders[o].status \in {"none", "SCHEDULED"}

JobsOf(o) == {j \in DOMAIN jobs : jobs[j].order = o}
Running(j) == jobs[j].at \in {"active", "fired"}
Untaken(i) == \A p \in Products : out[i][p] = 0

\* What a checkout, an append or a job that read an order works on exists.
Present ==
  /\ \A w \in Workers : reqs[w].todo \subseteq Existing
  /\ \A w \in Workers : reqs[w].op = "create" /\ reqs[w].at # "commit" /\ reqs[w].order # 0
                          => reqs[w].order \in Existing
  /\ \A j \in DOMAIN jobs : Running(j) => jobs[j].order \in Existing

\* A job knows lines of its own order, and a line without an order takes nothing.
Snapshot == \A j \in DOMAIN jobs : \A i \in jobs[j].lines : items[i].order = jobs[j].order
Loose == \A i \in Items : items[i].order = 0 => Untaken(i)

\* Order o is fired once.  While it waits it has one job at most and nobody appends
\* to it; of its jobs one at most has read it as SCHEDULED, and the lines that one
\* may deduct are untaken.
OneJob(o) ==
  /\ Waiting(o) => \A j, k \in JobsOf(o) : j = k
  /\ \A j, k \in JobsOf(o) : Running(j) /\ Running(k) => j = k
  /\ \A j \in JobsOf(o) : jobs[j].at = "fired" => ~Waiting(o)
NoAppend(o) ==
  /\ orders[o].status = "SCHEDULED" => \A w \in Workers : ~(reqs[w].op = "create" /\ reqs[w].order = o)
  /\ orders[o].status = "none" =>
       \A w \in Workers : reqs[w].op = "create" /\ reqs[w].at = "commit" /\ reqs[w].order = o
                            => reqs[w].flag \/ JobsOf(o) = {}
LinesUntaken(o) ==
  /\ orders[o].status = "SCHEDULED" /\ JobsOf(o) # {} => \A i \in Lines(o) : Untaken(i)
  /\ \A j \in JobsOf(o) : Running(j) => \A i \in jobs[j].lines : Untaken(i)
TakenOnce(o) == \A i \in Lines(o), p \in Products : out[i][p] <= Load[{i}][p]

FireInv ==
  /\ Present
  /\ Snapshot
  /\ Loose
  /\ \A o \in Orders : ~Marked(o) => OneJob(o) /\ NoAppend(o) /\ LinesUntaken(o) /\ TakenOnce(o)

-----------------------------------------------------------------------------
(* The status of an order.                                                 *)

\* The status of an existing order id is written; a write of SCHEDULED over
\* another status marks it.
Restates(id) ==
  /\ id \in Existing
  /\ \A x \in Orders \ {id} : orders'[x] = orders[x]
  /\ orders'[id].status # "none"
  /\ orders'[id].status = "SCHEDULED" =>
       orders[id].status = "SCHEDULED" \/ "rescheduled" \in why'[id]

LEMMA Reopens ==
  ASSUME TypeInv, NEW id \in Orders, NEW to, Blame(id, Reopening(id, to)),
         orders[id].status # "none", to = "SCHEDULED"
  PROVE  "rescheduled" \in why'[id]
BY DEF Blame, Reopening, TypeInv, TypeOK

\* A status that is not SCHEDULED is written to an existing order.
LEMMA RestatesPlainly ==
  ASSUME RowsType, NEW id \in Existing, NEW s, s \notin {"none", "SCHEDULED"},
         orders' = [orders EXCEPT ![id].status = s]
  PROVE  Restates(id)
<1>1. id \in Orders /\ orders[id] \in OrderRow
      BY ExistingType
<1>2. orders'[id].status = s
      BY <1>1 DEF RowsType, OrderRow
<1>3. \A x \in Orders \ {id} : orders'[x] = orders[x]
      BY DEF RowsType
<1> QED BY <1>2, <1>3 DEF Restates

LEMMA StatusWriters ==
  ASSUME TypeInv, StatusNamed, Grounded, Present, [Next]_vars
  PROVE  \/ UNCHANGED orders \/ \E id : Restates(id)
         \/ \E w \in Workers : CreateDirectCommit(w)
<1> USE DEF TypeInv, TypeOK
<1>1. UNCHANGED vars => UNCHANGED orders
      BY DEF vars
<1>2. ASSUME NEW w \in Workers,
             \/ Receive(w) \/ Fail(w)
             \/ CreateDirectWrite(w) \/ StatusPay(w) \/ StatusTill(w) \/ StatusTable(w)
             \/ RefundTill(w) \/ CheckoutTable(w)
      PROVE  UNCHANGED orders
      BY <1>2 DEF Receive, CreateDirectRead, StatusRead, AssignRead, VoidRead, RefundOrderRead,
                  RefundItemRead, CheckoutRead, Fail, CreateDirectWrite, StatusPay, StatusTill,
                  StatusTable, RefundTill, CheckoutTable
<1>3. ASSUME NEW w \in Workers, StatusWrite(w) PROVE Restates(reqs[w].order)
  <2>1. PICK id, to : id = reqs[w].order /\ to = reqs[w].to
        OBVIOUS
  <2>2. id \in Existing /\ to # "none"
        BY <1>3, <2>1 DEF StatusWrite, Grounded, StatusNamed
  <2>3. id \in Orders /\ orders[id] \in OrderRow /\ orders[id].status # "none"
        BY <2>2, ExistingType DEF Existing
  <2>4. /\ orders' = [orders EXCEPT ![id] = [orders[id] EXCEPT !.status = to,
                                               !.paid = @ + reqs[w].amount]]
        /\ Blame(id, Reopening(id, to))
        BY <1>3, <2>1 DEF StatusWrite
  <2>5. orders'[id].status = to
        BY <2>3, <2>4 DEF RowsType, OrderRow
  <2>6. \A x \in Orders \ {id} : orders'[x] = orders[x]
        BY <2>4 DEF RowsType
  <2>7. to = "SCHEDULED" => "rescheduled" \in why'[id]
        BY <2>3, <2>4, Reopens
  <2> QED BY <2>1, <2>2, <2>5, <2>6, <2>7 DEF Restates
<1>4. ASSUME NEW w \in Workers, VoidCommit(w) \/ RefundOrderCommit(w) PROVE Restates(reqs[w].order)
  <2>1. reqs[w].order \in Existing
        BY <1>4 DEF VoidCommit, RefundOrderCommit, Grounded
  <2>2. PICK s \in {"CANCELLED", "REFUNDED"} : orders' = [orders EXCEPT ![reqs[w].order].status = s]
        BY <1>4 DEF VoidCommit, RefundOrderCommit
  <2> QED BY <2>1, <2>2, RestatesPlainly
<1>5. ASSUME NEW w \in Workers, AssignWrite(w) \/ RefundItemCommit(w) PROVE Restates(reqs[w].order)
  <2>1. PICK id : id = reqs[w].order
        OBVIOUS
  <2>2. id \in Existing
        BY <1>5, <2>1 DEF AssignWrite, RefundItemCommit, Grounded
  <2>3. id \in Orders /\ orders[id] \in OrderRow /\ orders[id].status # "none"
        BY <2>2, ExistingType DEF Existing
  <2>4. \/ \E t : orders' = [orders EXCEPT ![id].table = t]
        \/ \E a : orders' = [orders EXCEPT ![id].paid = a]
        BY <1>5, <2>1 DEF AssignWrite, RefundItemCommit
  <2>5. orders'[id].status = orders[id].status /\ \A x \in Orders \ {id} : orders'[x] = orders[x]
        BY <2>3, <2>4 DEF RowsType, OrderRow
  <2> QED BY <2>1, <2>2, <2>3, <2>5 DEF Restates
<1>6. ASSUME NEW w \in Workers, CheckoutOrder(w) PROVE \E id : Restates(id)
  <2>1. PICK o \in reqs[w].todo, s \in {"COMPLETED", "PENDING"} :
          orders' = [orders EXCEPT ![o].status = s]
        BY <1>6 DEF CheckoutOrder
  <2>2. o \in Existing
        BY <2>1 DEF Present
  <2> QED BY <2>1, <2>2, RestatesPlainly
<1>7. ASSUME NEW i \in Items, VoidItem(i) \/ \E s \in ItemStatuses : UpdateItemStatus(i, s)
      PROVE  UNCHANGED orders
      BY <1>7 DEF VoidItem, UpdateItemStatus
<1>8. ASSUME NEW j \in DOMAIN jobs,
             FireRead(j) \/ FireDeduct(j) \/ FireNotify(j) \/ FireError(j) \/ FireStall(j)
      PROVE  UNCHANGED orders
      BY <1>8 DEF FireRead, FireDeduct, FireNotify, FireError, FireStall
<1>9. ASSUME NEW j \in DOMAIN jobs, FireUpdate(j) PROVE \E id : Restates(id)
  <2>1. PICK o, s : /\ o = jobs[j].order /\ jobs[j].at = "active"
                    /\ s \notin {"none", "SCHEDULED"} /\ orders' = [orders EXCEPT ![o].status = s]
        BY <1>9 DEF FireUpdate
  <2>2. o \in Existing
        BY <2>1 DEF Present, Running
  <2> QED BY <2>1, <2>2, RestatesPlainly
<1> QED BY <1>1, <1>2, <1>3, <1>4, <1>5, <1>6, <1>7, <1>8, <1>9 DEF Next, Handle, Fire

\* An order comes to exist by a commit, never goes, and is SCHEDULED again only
\* when it is marked.
LEMMA StatusMoves ==
  ASSUME TypeInv, StatusNamed, Grounded, Present, [Next]_vars, NEW o \in Orders
  PROVE  /\ orders[o].status # "none" => orders'[o].status # "none"
         /\ orders[o].status = "none" /\ orders'[o].status # "none" =>
              \E w \in Workers : CreateDirectCommit(w) /\ reqs[w].order = o
         /\ orders'[o].status = "SCHEDULED" =>
              \/ orders[o].status \in {"none", "SCHEDULED"} \/ Marked(o)'
<1>1. CASE UNCHANGED orders
      BY <1>1
<1>2. ASSUME NEW id, Restates(id)
      PROVE  /\ orders[o].status # "none" => orders'[o].status # "none"
             /\ orders[o].status = "none" => orders'[o].status = "none"
             /\ orders'[o].status = "SCHEDULED" =>
                  \/ orders[o].status = "SCHEDULED" \/ "rescheduled" \in why'[o]
      BY <1>2 DEF Restates, Existing
<1>3. ASSUME NEW w \in Workers, CreateDirectCommit(w)
      PROVE  /\ orders[o].status # "none" => orders'[o].status # "none"
             /\ orders[o].status = "none" /\ orders'[o].status # "none" => reqs[w].order = o
             /\ orders'[o].status = "SCHEDULED" =>
                  \/ orders[o].status \in {"none", "SCHEDULED"} \/ "rescheduled" \in why'[o]
  <2>1. PICK id, to : id = reqs[w].order /\ to = reqs[w].to
        OBVIOUS
  <2>2. /\ id \in Orders /\ orders'[id].status # "none"
        /\ \A x \in Orders \ {id} : orders'[x] = orders[x]
        BY <1>3, <2>1, Appends
  <2>3. Blame(id, Reopening(id, to))
        BY <1>3, <2>1 DEF CreateDirectCommit
  <2>4. orders'[id].status = to
    <3>1. orders[id] \in OrderRow
          BY <2>2 DEF TypeInv, TypeOK, RowsType
    <3>2. PICK new :
            /\ new = IF orders[id].status = "none"
                       THEN [status |-> to, table |-> reqs[w].table, total |-> Bill[reqs[w].lines],
                             paid |-> reqs[w].amount]
                       ELSE [orders[id] EXCEPT !.status = to, !.total = @ + Bill[reqs[w].lines],
                                        !.paid = @ + reqs[w].amount]
            /\ orders' = [orders EXCEPT ![id] = new]
          BY <1>3, <2>1 DEF CreateDirectCommit
    <3>3. new.status = to
      <4>1. CASE orders[id].status = "none"
            BY <3>2, <4>1
      <4>2. CASE orders[id].status # "none"
            BY <3>1, <3>2, <4>2 DEF OrderRow
      <4> QED BY <4>1, <4>2
    <3> QED BY <2>2, <3>2, <3>3 DEF TypeInv, TypeOK, RowsType
  <2>5. to = "SCHEDULED" /\ orders[id].status # "none" => "rescheduled" \in why'[id]
        BY <2>2, <2>3, Reopens
  <2>6. CASE o = id
        BY <2>1, <2>2, <2>4, <2>5, <2>6
  <2>7. CASE o # id
        BY <2>2, <2>7
  <2> QED BY <2>6, <2>7
<1> QED BY <1>1, <1>2, <1>3, StatusWriters DEF Marked

-----------------------------------------------------------------------------
(* The jobs.                                                               *)

\* Job j stops running, or never ran; its order and lines stay.
Parks(j) ==
  /\ Running(j) /\ jobs'[j].at \notin {"active", "fired"}
  /\ jobs'[j].order = jobs[j].order /\ jobs'[j].lines = jobs[j].lines

\* Job j reads its order.
Looks(j) ==
  /\ FireRead(j) /\ jobs[j].at = "delayed"
  /\ jobs'[j].order = jobs[j].order /\ jobs'[j].lines = Lines(jobs[j].order)
  /\ jobs'[j].at = IF orders[jobs[j].order].status = "SCHEDULED" THEN "active" ELSE "done"

\* Job j writes PENDING.
Moves(j) ==
  /\ FireUpdate(j) /\ jobs[j].at = "active" /\ jobs'[j].at = "fired"
  /\ jobs'[j].order = jobs[j].order /\ jobs'[j].lines = jobs[j].lines
  /\ orders'[jobs[j].order].status = "PENDING"

LEMMA FiredJobs ==
  ASSUME TypeInv, NEW j \in DOMAIN jobs, Fire(j) \/ FireError(j) \/ FireStall(j)
  PROVE  /\ DOMAIN jobs' = DOMAIN jobs
         /\ \A k \in DOMAIN jobs \ {j} : jobs'[k] = jobs[k]
         /\ Parks(j) \/ Looks(j) \/ Moves(j)
<1> USE DEF TypeInv, TypeOK
<1>1. PICK job : Becomes(j, job)
      BY JobSteps
<1>2. /\ DOMAIN jobs' = DOMAIN jobs
      /\ \A k \in DOMAIN jobs \ {j} : jobs'[k] = jobs[k]
      /\ jobs'[j] = job
  <2>1. j \in 1 .. Len(jobs) /\ DOMAIN jobs = 1 .. Len(jobs)
        BY LenProperties DEF QueueType
  <2>2. /\ jobs' \in Seq(Job) /\ Len(jobs') = Len(jobs)
        /\ \A k \in 1 .. Len(jobs) : jobs'[k] = IF k = j THEN job ELSE jobs[k]
        BY <1>1, <2>1, ExceptSeq DEF QueueType, Becomes
  <2>3. DOMAIN jobs' = 1 .. Len(jobs)
        BY <2>2, LenProperties
  <2> QED BY <2>1, <2>2, <2>3
<1>3. PICK old : old = jobs[j]
      OBVIOUS
<1>4. old \in Job /\ \A new : jobs' = [jobs EXCEPT ![j] = new] => jobs'[j] = new
      BY <1>3, ElementOfSeq DEF QueueType
<1>5. CASE FireRead(j)
  <2>1. PICK at : at = IF orders[old.order].status = "SCHEDULED" THEN "active" ELSE "done"
        OBVIOUS
  <2>2. jobs' = [jobs EXCEPT ![j] = [old EXCEPT !.at = at, !.lines = Lines(old.order)]]
        BY <1>3, <1>5, <2>1 DEF FireRead
  <2>3. jobs'[j] = [old EXCEPT !.at = at, !.lines = Lines(old.order)]
        BY <1>4, <2>2
  <2>4. jobs'[j].order = old.order /\ jobs'[j].lines = Lines(old.order) /\ jobs'[j].at = at
        BY <1>4, <2>3 DEF Job
  <2> QED BY <1>2, <1>3, <1>5, <2>1, <2>4 DEF Looks, FireRead
<1>6. CASE FireUpdate(j)
  <2>1. jobs' = [jobs EXCEPT ![j] = [old EXCEPT !.at = "fired", !.moved = TRUE]]
        BY <1>3, <1>6 DEF FireUpdate
  <2>2. jobs'[j] = [old EXCEPT !.at = "fired", !.moved = TRUE]
        BY <1>4, <2>1
  <2>3. jobs'[j].order = old.order /\ jobs'[j].lines = old.lines /\ jobs'[j].at = "fired"
        BY <1>4, <2>2 DEF Job
  <2>4. orders'[old.order].status = "PENDING"
    <3>1. old.order \in Orders
          BY <1>4 DEF Job
    <3> QED BY <1>3, <1>6, <3>1 DEF FireUpdate, RowsType, OrderRow
  <2> QED BY <1>2, <1>3, <1>6, <2>3, <2>4 DEF Moves, FireUpdate
<1>7. CASE old.at \in {"active", "fired"} /\ (SetJob(j, "done") \/ Rethrow(j) \/ Stall(j))
  <2>1. PICK new : /\ jobs' = [jobs EXCEPT ![j] = new] /\ new.at \notin {"active", "fired"}
                   /\ new.order = old.order /\ new.lines = old.lines
    <3>1. CASE SetJob(j, "done")
      <4>1. PICK new : new = [old EXCEPT !.at = "done"]
            OBVIOUS
      <4>2. new.at = "done" /\ new.order = old.order /\ new.lines = old.lines
            BY <1>4, <4>1 DEF Job
      <4>3. jobs' = [jobs EXCEPT ![j] = new]
            BY <1>3, <3>1, <4>1 DEF SetJob
      <4> QED BY <4>2, <4>3
    <3>2. CASE Rethrow(j)
      <4>1. PICK at : at = IF old.tries + 1 < Attempts THEN "delayed" ELSE "failed"
            OBVIOUS
      <4>2. PICK new : new = [old EXCEPT !.tries = @ + 1, !.at = at]
            OBVIOUS
      <4>3. new.at = at /\ new.order = old.order /\ new.lines = old.lines
            BY <1>4, <4>2 DEF Job
      <4>4. jobs' = [jobs EXCEPT ![j] = new]
            BY <1>3, <3>2, <4>1, <4>2 DEF Rethrow
      <4> QED BY <4>1, <4>3, <4>4
    <3>3. CASE Stall(j)
      <4>1. PICK at : at = IF old.stalled THEN "failed" ELSE "delayed"
            OBVIOUS
      <4>2. PICK new : new = [old EXCEPT !.stalled = TRUE, !.at = at]
            OBVIOUS
      <4>3. new.at = at /\ new.order = old.order /\ new.lines = old.lines
            BY <1>4, <4>2 DEF Job
      <4>4. jobs' = [jobs EXCEPT ![j] = new]
            BY <1>3, <3>3, <4>1, <4>2 DEF Stall
      <4> QED BY <4>1, <4>3, <4>4
    <3> QED BY <1>7, <3>1, <3>2, <3>3
  <2>2. jobs'[j] = new
        BY <1>4, <2>1
  <2>3. jobs'[j].order = old.order /\ jobs'[j].lines = old.lines
        BY <2>1, <2>2
  <2>4. jobs'[j].at \notin {"active", "fired"}
        BY <2>1, <2>2
  <2> QED BY <1>2, <1>3, <1>7, <2>3, <2>4 DEF Parks, Running
<1> QED BY <1>3, <1>5, <1>6, <1>7 DEF Fire, FireNotify, FireDeduct, FireError, FireStall

\* What becomes of the jobs in a step.
QueuedBy(j, w) ==
  /\ CreateDirectWrite(w) /\ reqs[w].flag
  /\ j \notin DOMAIN jobs /\ j = Len(jobs) + 1
  /\ jobs'[j].order = reqs'[w].order /\ jobs'[j].at = "delayed" /\ jobs'[j].lines = {}

LEMMA JobMoves ==
  ASSUME TypeInv, KitchenInv, Numbered, [Next]_vars, NEW j \in DOMAIN jobs'
  PROVE  \/ j \in DOMAIN jobs /\ (jobs'[j] = jobs[j] \/ Parks(j) \/ Looks(j) \/ Moves(j))
         \/ \E w \in Workers : QueuedBy(j, w)
<1> USE DEF TypeInv, TypeOK
<1>1. CASE UNCHANGED jobs
      BY <1>1
<1>2. UNCHANGED vars => UNCHANGED jobs
      BY DEF vars, queue
<1>3. ASSUME NEW w \in Workers, Receive(w) PROVE UNCHANGED jobs
      BY <1>3 DEF Receive, CreateDirectRead, StatusRead, AssignRead, VoidRead, RefundOrderRead,
                  RefundItemRead, CheckoutRead, queue
<1>4. ASSUME NEW w \in Workers,
             \/ CreateDirectCommit(w) \/ StatusPay(w) \/ StatusTill(w) \/ StatusWrite(w)
             \/ StatusTable(w) \/ AssignWrite(w) \/ VoidCommit(w) \/ RefundTill(w)
             \/ RefundOrderCommit(w) \/ RefundItemCommit(w) \/ CheckoutOrder(w)
             \/ CheckoutTable(w) \/ Fail(w)
      PROVE  UNCHANGED jobs
      BY <1>4 DEF CreateDirectCommit, StatusPay, StatusTill, StatusWrite, StatusTable,
                  AssignWrite, VoidCommit, RefundTill, RefundOrderCommit, RefundItemCommit,
                  CheckoutOrder, CheckoutTable, Fail, queue
<1>5. ASSUME NEW w \in Workers, CreateDirectWrite(w)
      PROVE  (j \in DOMAIN jobs /\ jobs'[j] = jobs[j]) \/ QueuedBy(j, w)
  <2>1. PICK id \in Orders :
          /\ id = IF reqs[w].order = 0 THEN nextId ELSE reqs[w].order
          /\ jobs' = IF reqs[w].flag THEN Append(jobs, NewJob(id)) ELSE jobs
        BY <1>5 DEF CreateDirectWrite, NewJob
  <2>2. CASE ~reqs[w].flag
        BY <2>1, <2>2
  <2>3. CASE reqs[w].flag
    <3>1. NewJob(id) \in Job
          BY InputAssumption DEF NewJob, Job
    <3>2. /\ jobs' \in Seq(Job) /\ Len(jobs') = Len(jobs) + 1
          /\ \A k \in 1 .. Len(jobs) : jobs'[k] = jobs[k]
          /\ jobs'[Len(jobs) + 1] = NewJob(id)
          BY <2>1, <2>3, <3>1, AppendProperties DEF QueueType
    <3>3. DOMAIN jobs = 1 .. Len(jobs) /\ DOMAIN jobs' = 1 .. Len(jobs) + 1 /\ Len(jobs) \in Nat
          BY <3>2, LenProperties DEF QueueType
    <3>4. CASE j \in 1 .. Len(jobs)
          BY <3>2, <3>3, <3>4
    <3>5. CASE j = Len(jobs) + 1
      <4>1. j \notin DOMAIN jobs
            BY <3>3, <3>5
      <4>2. jobs'[j].order = id /\ jobs'[j].at = "delayed" /\ jobs'[j].lines = {}
            BY <3>2, <3>5 DEF NewJob
      <4>3. reqs'[w].order = id
            BY <1>5, <2>1, CommitOpens
      <4> QED BY <1>5, <2>3, <3>5, <4>1, <4>2, <4>3 DEF QueuedBy
    <3> QED BY <3>3, <3>4, <3>5
  <2> QED BY <2>2, <2>3
<1>6. ASSUME NEW i \in Items, VoidItem(i) \/ \E s \in ItemStatuses : UpdateItemStatus(i, s)
      PROVE  UNCHANGED jobs
      BY <1>6 DEF VoidItem, UpdateItemStatus, queue
<1>7. ASSUME NEW k \in DOMAIN jobs, Fire(k) \/ FireError(k) \/ FireStall(k)
      PROVE  j \in DOMAIN jobs /\ (jobs'[j] = jobs[j] \/ Parks(j) \/ Looks(j) \/ Moves(j))
      BY <1>7, FiredJobs
<1> QED BY <1>1, <1>2, <1>3, <1>4, <1>5, <1>6, <1>7 DEF Next, Handle

\* Jobs stay in the queue and stay about their order.
LEMMA JobsStay ==
  ASSUME TypeInv, [Next]_vars, NEW j \in DOMAIN jobs
  PROVE  j \in DOMAIN jobs' /\ jobs'[j].order = jobs[j].order
<1> USE DEF TypeInv, TypeOK
<1>1. QueueStep
      BY QueueSteps
<1>2. CASE UNCHANGED jobs
      BY <1>2
<1>3. ASSUME NEW o \in Orders, jobs' = Append(jobs, NewJob(o))
      PROVE  j \in DOMAIN jobs' /\ jobs'[j].order = jobs[j].order
  <2>1. NewJob(o) \in Job
        BY InputAssumption DEF NewJob, Job
  <2>2. /\ jobs' \in Seq(Job) /\ Len(jobs') = Len(jobs) + 1 /\ Len(jobs) \in Nat
        /\ \A k \in 1 .. Len(jobs) : jobs'[k] = jobs[k]
        BY <1>3, <2>1, AppendProperties, LenProperties DEF QueueType
  <2>3. DOMAIN jobs = 1 .. Len(jobs) /\ DOMAIN jobs' = 1 .. Len(jobs) + 1
        BY <2>2, LenProperties DEF QueueType
  <2> QED BY <2>2, <2>3
<1>4. ASSUME NEW k \in DOMAIN jobs, NEW job \in Job, Becomes(k, job)
      PROVE  j \in DOMAIN jobs' /\ jobs'[j].order = jobs[j].order
      BY <1>4, BecomesKeepsQueue
<1> QED BY <1>1, <1>2, <1>3, <1>4 DEF QueueStep

-----------------------------------------------------------------------------
(* What lines took from stock.                                             *)

\* Line i takes product p when its order commits, or when a job that moved the
\* order deducts it.
LEMMA OutMoves ==
  ASSUME TypeInv, [Next]_vars, NEW i \in Items, NEW p \in Products
  PROVE  \/ out'[i][p] = out[i][p]
         \/ /\ out'[i][p] = out[i][p] + Load[{i}][p]
            /\ \/ \E w \in Workers : CreateDirectCommit(w) /\ ~reqs[w].flag /\ i \in reqs[w].lines
               \/ \E j \in DOMAIN jobs : FireDeduct(j) /\ jobs[j].at = "fired" /\ i \in jobs[j].lines
<1> USE DEF TypeInv, TypeOK
<1>1. CASE UNCHANGED out
      BY <1>1
<1>2. UNCHANGED vars => UNCHANGED out
      BY DEF vars, stock
<1>3. ASSUME NEW w \in Workers, Receive(w) PROVE UNCHANGED out
      BY <1>3 DEF Receive, CreateDirectRead, StatusRead, AssignRead, VoidRead, RefundOrderRead,
                  RefundItemRead, CheckoutRead, stock
<1>4. ASSUME NEW w \in Workers,
             \/ CreateDirectWrite(w) \/ StatusPay(w) \/ StatusTill(w) \/ StatusWrite(w)
             \/ StatusTable(w) \/ AssignWrite(w) \/ VoidCommit(w) \/ RefundTill(w)
             \/ RefundOrderCommit(w) \/ RefundItemCommit(w) \/ CheckoutOrder(w)
             \/ CheckoutTable(w) \/ Fail(w)
      PROVE  UNCHANGED out
      BY <1>4 DEF CreateDirectWrite, StatusPay, StatusTill, StatusWrite, StatusTable,
                  AssignWrite, VoidCommit, RefundTill, RefundOrderCommit, RefundItemCommit,
                  CheckoutOrder, CheckoutTable, Fail, Restore, RestoreUnits, stock
<1>5. ASSUME NEW w \in Workers, CreateDirectCommit(w)
      PROVE  \/ out'[i][p] = out[i][p]
             \/ /\ out'[i][p] = out[i][p] + Load[{i}][p]
                /\ ~reqs[w].flag /\ i \in reqs[w].lines
  <2>1. UNCHANGED stock \/ (Deduct(reqs[w].lines) /\ ~reqs[w].flag)
        BY <1>5 DEF CreateDirectCommit
  <2>2. CASE UNCHANGED stock
        BY <2>2 DEF stock
  <2>3. CASE Deduct(reqs[w].lines) /\ ~reqs[w].flag
    <3>1. out'[i][p] = out[i][p] + IF i \in reqs[w].lines THEN Load[{i}][p] ELSE 0
          BY <2>3 DEF Deduct
    <3>2. out[i][p] \in Nat
          BY DEF StockType
    <3>3. CASE i \in reqs[w].lines
          BY <2>3, <3>1, <3>3
    <3>4. CASE i \notin reqs[w].lines
          BY <3>1, <3>2, <3>4
    <3> QED BY <3>3, <3>4
  <2> QED BY <2>1, <2>2, <2>3
<1>6. ASSUME NEW k \in Items, VoidItem(k) \/ \E s \in ItemStatuses : UpdateItemStatus(k, s)
      PROVE  UNCHANGED out
      BY <1>6 DEF VoidItem, UpdateItemStatus, stock
<1>7. ASSUME NEW j \in DOMAIN jobs,
             FireRead(j) \/ FireUpdate(j) \/ FireNotify(j) \/ FireError(j) \/ FireStall(j)
      PROVE  UNCHANGED out
      BY <1>7 DEF FireRead, FireUpdate, FireNotify, FireError, FireStall, stock
<1>8. ASSUME NEW j \in DOMAIN jobs, FireDeduct(j)
      PROVE  \/ out'[i][p] = out[i][p]
             \/ /\ out'[i][p] = out[i][p] + Load[{i}][p]
                /\ jobs[j].at = "fired" /\ i \in jobs[j].lines
  <2>1. PICK k \in jobs[j].lines, q \in Products :
          jobs[j].at = "fired" /\ out' = [out EXCEPT ![k][q] = @ + Load[{k}][q]]
        BY <1>8 DEF FireDeduct
  <2>2. out \in [Items -> [Products -> Nat]]
        BY DEF StockType
  <2>3. CASE k = i /\ q = p
        BY <2>1, <2>2, <2>3
  <2>4. CASE ~(k = i /\ q = p)
        BY <2>1, <2>2, <2>4
  <2> QED BY <2>3, <2>4
<1> QED BY <1>1, <1>2, <1>3, <1>4, <1>5, <1>6, <1>7, <1>8 DEF Next, Handle, Fire

LEMMA LinesMove ==
  ASSUME TypeInv, StatusNamed, [Next]_vars, NEW i \in Items
  PROVE  \/ items'[i].order = items[i].order
         \/ \E w \in Workers : /\ CreateDirectCommit(w) /\ i \in reqs[w].lines
                               /\ items'[i].order = reqs[w].order
<1>1. CASE RowsKeep
      BY <1>1 DEF RowsKeep
<1>2. ASSUME NEW w \in Workers, CreateDirectCommit(w)
      PROVE  \/ items'[i].order = items[i].order
             \/ i \in reqs[w].lines /\ items'[i].order = reqs[w].order
      BY <1>2, Appends
<1> QED BY <1>1, <1>2, RowMoves

-----------------------------------------------------------------------------
(* Orders being created.                                                   *)

LEMMA ReadsOpen ==
  ASSUME TypeInv, NEW w \in Workers, Receive(w), reqs'[w].op = "create"
  PROVE  /\ reqs'[w].at = "write"
         /\ reqs'[w].order = 0 \/ (reqs'[w].order \in Existing /\ ~Waiting(reqs'[w].order))
<1> USE DEF TypeInv, TypeOK
<1>1. ASSUME NEW r, Begin(w, r) PROVE reqs'[w] = r
      BY <1>1 DEF Begin, SoundRequests
<1>2. CreateDirectRead(w)
  <2>1. ASSUME StatusRead(w) PROVE FALSE
    <3>1. PICK o, to, settle, at :
            Begin(w, [Idle EXCEPT !.op = "status", !.order = o, !.to = to, !.amount = settle, !.at = at])
          BY <2>1, ZenonT(60) DEF StatusRead
    <3>2. reqs'[w].op = "status"
          BY <1>1, <3>1, IdleType DEF Request
    <3> QED BY <3>2
  <2>2. ASSUME AssignRead(w) PROVE FALSE
    <3>1. PICK o, t, flag :
            Begin(w, [Idle EXCEPT !.op = "assign", !.at = "write", !.order = o, !.table = t,
                        !.flag = flag])
          BY <2>2 DEF AssignRead
    <3>2. reqs'[w].op = "assign"
          BY <1>1, <3>1, IdleType DEF Request
    <3> QED BY <3>2
  <2>3. ASSUME VoidRead(w) PROVE FALSE
    <3>1. PICK o, to, t, lines :
            Begin(w, [Idle EXCEPT !.op = "void", !.at = "write", !.order = o, !.to = to,
                        !.table = t, !.lines = lines])
          BY <2>3 DEF VoidRead
    <3>2. reqs'[w].op = "void"
          BY <1>1, <3>1, IdleType DEF Request
    <3> QED BY <3>2
  <2>4. ASSUME RefundOrderRead(w) PROVE FALSE
    <3>1. PICK o, to, amount, lines :
            Begin(w, [Idle EXCEPT !.op = "refund", !.at = "write", !.order = o, !.to = to,
                        !.amount = amount, !.lines = lines])
          BY <2>4 DEF RefundOrderRead
    <3>2. reqs'[w].op = "refund"
          BY <1>1, <3>1, IdleType DEF Request
    <3> QED BY <3>2
  <2>5. ASSUME RefundItemRead(w) PROVE FALSE
    <3>1. PICK o, to, lines, qty, amount :
            Begin(w, [Idle EXCEPT !.op = "refundItem", !.at = "write", !.order = o, !.to = to,
                        !.lines = lines, !.qty = qty, !.amount = amount])
          BY <2>5, ZenonT(60) DEF RefundItemRead
    <3>2. reqs'[w].op = "refundItem"
          BY <1>1, <3>1, IdleType DEF Request
    <3> QED BY <3>2
  <2>6. ASSUME CheckoutRead(w) PROVE FALSE
    <3>1. PICK t, open :
            Begin(w, [Idle EXCEPT !.op = "checkout", !.at = "write", !.table = t, !.todo = open])
          BY <2>6, Zenon DEF CheckoutRead
    <3>2. reqs'[w].op = "checkout"
          BY <1>1, <3>1, IdleType DEF Request
    <3> QED BY <3>2
  <2> QED BY <2>1, <2>2, <2>3, <2>4, <2>5, <2>6 DEF Receive
<1>3. PICK t, to, cart, paid, pre :
        Begin(w, [Idle EXCEPT !.op = "create", !.at = "write", !.order = Newest(OpenAt(t)),
                    !.to = to, !.table = t, !.lines = cart, !.amount = paid, !.flag = pre])
  <2>1. PICK t \in Seats : \E to, cart, paid, pre :
          Begin(w, [Idle EXCEPT !.op = "create", !.at = "write", !.order = Newest(OpenAt(t)),
                      !.to = to, !.table = t, !.lines = cart, !.amount = paid, !.flag = pre])
        BY <1>2, ZenonT(40) DEF CreateDirectRead
  <2> QED BY <2>1
<1>4. reqs'[w].at = "write" /\ reqs'[w].order = Newest(OpenAt(t))
      BY <1>1, <1>3, IdleType DEF Request
<1>5. Newest(OpenAt(t)) = 0 \/ (Newest(OpenAt(t)) \in Existing /\ ~Waiting(Newest(OpenAt(t))))
  <2>1. OpenAt(t) \in SUBSET Orders /\ OpenAt(t) \in SUBSET Existing
        BY DEF OpenAt, Existing
  <2>2. CASE OpenAt(t) = {}
        BY <2>2 DEF Newest
  <2>3. CASE OpenAt(t) # {}
    <3>1. Newest(OpenAt(t)) \in OpenAt(t)
          BY <2>1, <2>3, NewestType
    <3> QED BY <2>1, <3>1 DEF OpenAt, Active, Waiting
  <2> QED BY <2>2, <2>3
<1> QED BY <1>4, <1>5

\* A request that creates an order has just read an open one to append to, is
\* writing, or was there before.
LEMMA CreateMoves ==
  ASSUME TypeInv, [Next]_vars, NEW x \in Workers, reqs'[x].op = "create"
  PROVE  \/ reqs'[x] = reqs[x]
         \/ CreateDirectWrite(x)
         \/ /\ reqs'[x].at = "write"
            /\ reqs'[x].order = 0 \/ (reqs'[x].order \in Existing /\ ~Waiting(reqs'[x].order))
<1> USE DEF TypeInv, TypeOK
<1>1. ASSUME NEW w \in Workers, NEW s, reqs' = [reqs EXCEPT ![w] = s], reqs'[x] # reqs[x]
      PROVE  w = x /\ reqs'[x] = s
      BY <1>1 DEF SoundRequests
<1>2. ASSUME NEW w \in Workers, Receive(w), reqs'[x] # reqs[x]
      PROVE  /\ reqs'[x].at = "write"
             /\ reqs'[x].order = 0 \/ (reqs'[x].order \in Existing /\ ~Waiting(reqs'[x].order))
  <2>1. w = x
        BY <1>1, <1>2, Begins DEF Asked
  <2> QED BY <1>2, <2>1, ReadsOpen
<1>3. ASSUME NEW w \in Workers, Handle(w) \/ Fail(w), reqs'[x] # reqs[x] PROVE CreateDirectWrite(x)
  <2>1. PICK s : reqs' = [reqs EXCEPT ![w] = s] /\ (s = Idle \/ Continues(reqs[w], s))
        BY <1>3, Proceeds
  <2>2. w = x /\ reqs'[x] = s
        BY <1>1, <1>3, <2>1
  <2>3. reqs[x].op = "create" /\ s # Idle
        BY <2>1, <2>2, IdleIs DEF Continues
  <2>4. ~End(x)
        BY <2>2, <2>3 DEF End, SoundRequests
  <2> QED BY <1>3, <2>2, <2>3, <2>4
          DEF Handle, Fail, CreateDirectCommit, StatusPay, StatusTill, StatusWrite, StatusTable,
              AssignWrite, VoidCommit, RefundTill, RefundOrderCommit, RefundItemCommit,
              CheckoutOrder, CheckoutTable
<1>4. UNCHANGED vars => reqs'[x] = reqs[x]
      BY DEF vars
<1>5. ASSUME NEW i \in Items, VoidItem(i) \/ \E s \in ItemStatuses : UpdateItemStatus(i, s)
      PROVE  reqs'[x] = reqs[x]
      BY <1>5 DEF VoidItem, UpdateItemStatus
<1>6. ASSUME NEW j \in DOMAIN jobs, Fire(j) \/ FireError(j) \/ FireStall(j)
      PROVE reqs'[x] = reqs[x]
      BY <1>6 DEF Fire, FireRead, FireUpdate, FireDeduct, FireNotify, FireError, FireStall
<1> QED BY <1>2, <1>3, <1>4, <1>5, <1>6 DEF Next

LEMMA TodoStep ==
  ASSUME TypeInv, Present, Existing \subseteq Existing', [Next]_vars, NEW x \in Workers
  PROVE  reqs'[x].todo \subseteq Existing'
<1> USE DEF TypeInv, TypeOK
<1>1. CASE UNCHANGED reqs
      BY <1>1 DEF Present
<1>2. ASSUME NEW w \in Workers, Receive(w) PROVE reqs'[x].todo \subseteq Existing'
  <2>1. PICK r : Asks(w, r)
        BY <1>2, Received
  <2>2. reqs'[x] = IF x = w THEN r ELSE reqs[x]
        BY <2>1 DEF Asks, SoundRequests
  <2> QED BY <2>1, <2>2 DEF Asks, Present
<1>3. ASSUME NEW w \in Workers, Handle(w) \/ Fail(w) PROVE reqs'[x].todo \subseteq Existing'
  <2>1. PICK r : reqs' = [reqs EXCEPT ![w] = r] /\ r.todo \in SUBSET reqs[w].todo
        BY <1>3, QueueSteps, Handled
  <2>2. reqs'[x] = IF x = w THEN r ELSE reqs[x]
        BY <2>1 DEF SoundRequests
  <2> QED BY <2>1, <2>2 DEF Present
<1>4. ASSUME NEW i \in Items, VoidItem(i) \/ \E s \in ItemStatuses : UpdateItemStatus(i, s)
      PROVE  UNCHANGED reqs
      BY <1>4 DEF VoidItem, UpdateItemStatus
<1>5. ASSUME NEW j \in DOMAIN jobs, Fire(j) \/ FireError(j) \/ FireStall(j) PROVE UNCHANGED reqs
      BY <1>5 DEF Fire, FireRead, FireUpdate, FireDeduct, FireNotify, FireError, FireStall
<1>6. UNCHANGED vars => UNCHANGED reqs
      BY DEF vars
<1> QED BY <1>1, <1>2, <1>3, <1>4, <1>5, <1>6 DEF Next

LEMMA PresentStep ==
  ASSUME TypeInv, KitchenInv, Numbered, StatusNamed, Grounded, Present, [Next]_vars
  PROVE  Present'
<1> USE DEF TypeInv, TypeOK
<1>1. Existing \subseteq Existing'
      BY StatusMoves DEF Existing
<1>2. \A x \in Workers : reqs'[x].todo \subseteq Existing'
      BY <1>1, TodoStep
<1>3. ASSUME NEW x \in Workers, reqs'[x].op = "create", reqs'[x].at # "commit", reqs'[x].order # 0
      PROVE  reqs'[x].order \in Existing'
  <2>1. CASE reqs'[x] = reqs[x]
        BY <1>1, <1>3, <2>1 DEF Present
  <2>2. ~CreateDirectWrite(x)
        BY <1>3, CommitOpens
  <2> QED BY <1>1, <1>3, <2>1, <2>2, CreateMoves
<1>4. ASSUME NEW j \in DOMAIN jobs', Running(j)' PROVE jobs'[j].order \in Existing'
  <2>1. CASE j \in DOMAIN jobs /\ jobs'[j] = jobs[j]
        BY <1>1, <1>4, <2>1 DEF Present, Running
  <2>2. ~Parks(j) /\ \A w \in Workers : ~QueuedBy(j, w)
        BY <1>4 DEF Parks, QueuedBy, Running
  <2>3. CASE j \in DOMAIN jobs /\ Looks(j)
    <3>1. orders[jobs[j].order].status = "SCHEDULED"
          BY <1>4, <2>3 DEF Looks, Running
    <3>2. jobs[j].order \in Orders
      <4>1. jobs[j] \in Job
            BY <2>3, ElementOfSeq DEF QueueType
      <4> QED BY <4>1 DEF Job
    <3> QED BY <1>1, <2>3, <3>1, <3>2 DEF Looks, Existing
  <2>4. CASE j \in DOMAIN jobs /\ Moves(j)
        BY <1>1, <2>4 DEF Moves, Present, Running
  <2> QED BY <2>1, <2>2, <2>3, <2>4, JobMoves
<1> QED BY <1>2, <1>3, <1>4 DEF Present

\* A cart about to be written is of lines that no order has.
LEMMA CartLoose ==
  ASSUME TypeInv, CartsApart, NEW w \in Workers, CreateDirectCommit(w)
  PROVE  /\ reqs[w].op = "create" /\ reqs[w].order \in Orders /\ reqs[w].lines \in SUBSET Items
         /\ \A i \in reqs[w].lines : items[i].order = 0
<1>1. reqs[w].op = "create" /\ reqs[w].at = "commit"
      BY DEF CreateDirectCommit
<1>2. reqs[w] \in Sound
      BY DEF TypeInv, SoundRequests
<1>3. reqs[w] \in Request /\ reqs[w].order # 0
      BY <1>1, <1>2 DEF Sound
<1> QED BY <1>1, <1>3 DEF Request, Orders, CartsApart

\* A line stays in its order.
LEMMA LinesStay ==
  ASSUME TypeInv, CartsApart, StatusNamed, [Next]_vars, NEW i \in Items, items[i].order # 0
  PROVE  items'[i].order = items[i].order
BY LinesMove, CartLoose

LEMMA SnapshotStep ==
  ASSUME TypeInv, KitchenInv, Numbered, CartsApart, StatusNamed, Snapshot, [Next]_vars
  PROVE  Snapshot'
<1> USE DEF TypeInv, TypeOK
<1> SUFFICES ASSUME NEW j \in DOMAIN jobs', NEW i \in jobs'[j].lines
             PROVE  items'[i].order = jobs'[j].order
    BY DEF Snapshot
<1>1. ASSUME j \in DOMAIN jobs
      PROVE  jobs[j].order \in Orders /\ jobs[j].order # 0 /\ jobs[j].lines \subseteq Items
  <2>1. jobs[j] \in Job
        BY <1>1, ElementOfSeq DEF QueueType
  <2> QED BY <2>1 DEF Job, Orders
<1>2. CASE j \in DOMAIN jobs /\ jobs'[j].order = jobs[j].order /\ jobs'[j].lines = jobs[j].lines
      BY <1>1, <1>2, LinesStay DEF Snapshot
<1>3. CASE j \in DOMAIN jobs /\ Looks(j)
  <2>1. i \in Lines(jobs[j].order)
        BY <1>3 DEF Looks
  <2> QED BY <1>1, <1>3, <2>1, LinesStay DEF Looks, Lines
<1>4. ASSUME NEW w \in Workers, QueuedBy(j, w) PROVE FALSE
      BY <1>4 DEF QueuedBy
<1> QED BY <1>2, <1>3, <1>4, JobMoves DEF Parks, Moves

LEMMA LooseStep ==
  ASSUME TypeInv, CartsApart, StatusNamed, Snapshot, Loose, [Next]_vars
  PROVE  Loose'
<1> USE DEF TypeInv, TypeOK
<1> SUFFICES ASSUME NEW i \in Items, items'[i].order = 0, NEW p \in Products
             PROVE  out'[i][p] = 0
    BY DEF Loose, Untaken
<1>1. items[i].order = 0
      BY LinesStay
<1>2. out[i][p] = 0
      BY <1>1 DEF Loose, Untaken
<1>3. ASSUME NEW w \in Workers, CreateDirectCommit(w), i \in reqs[w].lines PROVE FALSE
  <2>1. reqs[w].order # 0 /\ items'[i].order = reqs[w].order
        BY <1>3, CartLoose, Appends DEF Orders
  <2> QED BY <2>1
<1>4. ASSUME NEW j \in DOMAIN jobs, i \in jobs[j].lines PROVE FALSE
  <2>1. jobs[j] \in Job
        BY <1>4, ElementOfSeq DEF QueueType
  <2>2. jobs[j].order # 0
        BY <2>1 DEF Job, Orders
  <2> QED BY <1>1, <1>4, <2>2 DEF Snapshot
<1> QED BY <1>2, <1>3, <1>4, OutMoves

-----------------------------------------------------------------------------
(* One job at a time.                                                      *)

\* What is known of every state already.
Base == /\ TypeInv /\ KitchenInv /\ TotalInv /\ Grounded /\ Numbered /\ OneCommit
        /\ Present /\ Snapshot /\ Loose

LEMMA JobOrder ==
  ASSUME Base, NEW j \in DOMAIN jobs
  PROVE  /\ jobs[j].order \in Orders /\ jobs[j].order # 0 /\ jobs[j].lines \subseteq Items
         /\ \A i \in jobs[j].lines : items[i].order = jobs[j].order
<1>1. jobs[j] \in Job
      BY ElementOfSeq DEF Base, TypeInv, TypeOK, QueueType
<1> QED BY <1>1 DEF Job, Orders, Base, Snapshot

\* A waiting order that a create writes is a new one, and has no job yet.
LEMMA FreshNumber ==
  ASSUME Base, NEW w \in Workers, CreateDirectWrite(w), NEW o \in Orders, reqs'[w].order = o,
         NoAppend(o), Waiting(o)
  PROVE  JobsOf(o) = {} /\ orders[o].status = "none" /\ UNCHANGED orders
<1>1. reqs[w].op = "create" /\ reqs[w].at = "write" /\ UNCHANGED orders
      BY DEF CreateDirectWrite
<1>2. o = IF reqs[w].order = 0 THEN nextId ELSE reqs[w].order
      BY CommitOpens DEF Base
<1>3. CASE reqs[w].order = 0
  <2>1. ~Announced(o)
    <3>1. nextId \in Int
          BY DEF Base, TypeInv, TypeOK, RequestsType
    <3>2. ASSUME Announced(o) PROVE FALSE
      <4>1. nextId < nextId
            BY <1>2, <1>3, <3>2 DEF Base, Numbered
      <4> QED BY <3>1, <4>1
    <3> QED BY <3>2
  <2>2. JobsOf(o) = {} /\ o \notin Existing
        BY <2>1 DEF Announced, JobsOf, Base, KitchenInv
  <2> QED BY <1>1, <2>2 DEF Existing
<1>4. CASE reqs[w].order # 0
  <2>1. o = reqs[w].order /\ o \in Existing
        BY <1>1, <1>2, <1>4 DEF Base, Present
  <2> QED BY <1>1, <2>1 DEF Waiting, Existing, NoAppend
<1> QED BY <1>3, <1>4

\* An order that waits without a mark waited before.
LEMMA WaitedBefore ==
  ASSUME Base, [Next]_vars, NEW o \in Orders, ~Marked(o)', Waiting(o)'
  PROVE  Waiting(o) /\ (orders'[o].status = "none" => orders[o].status = "none")
BY StatusMoves DEF Base, TotalInv, Waiting

\* The jobs of o after a step are those before it and the one a create queued.
LEMMA JobsOfMove ==
  ASSUME Base, [Next]_vars, NEW o \in Orders, NEW j \in JobsOf(o)'
  PROVE  \/ j \in JobsOf(o) /\ (jobs'[j] = jobs[j] \/ Parks(j) \/ Looks(j) \/ Moves(j))
         \/ \E w \in Workers : QueuedBy(j, w) /\ reqs'[w].order = o
<1>1. j \in DOMAIN jobs' /\ jobs'[j].order = o
      BY DEF JobsOf
<1>2. CASE \E w \in Workers : QueuedBy(j, w)
      BY <1>1, <1>2 DEF QueuedBy
<1>3. CASE j \in DOMAIN jobs /\ (jobs'[j] = jobs[j] \/ Parks(j) \/ Looks(j) \/ Moves(j))
  <2>1. jobs[j].order = o
        BY <1>1, <1>3, JobsStay DEF Base
  <2> QED BY <1>3, <2>1 DEF JobsOf
<1> QED BY <1>1, <1>2, <1>3, JobMoves DEF Base

LEMMA OneJobStep ==
  ASSUME Base, [Next]_vars, NEW o \in Orders, OneJob(o), NoAppend(o), ~Marked(o)'
  PROVE  OneJob(o)'
<1>1. ASSUME Waiting(o)', NEW j \in JobsOf(o)', NEW k \in JobsOf(o)' PROVE j = k
  <2>1. Waiting(o)
        BY <1>1, WaitedBefore
  <2>2. ASSUME NEW i \in JobsOf(o)', i \notin JobsOf(o) PROVE JobsOf(o) = {} /\ i = Len(jobs) + 1
    <3>1. PICK w \in Workers : QueuedBy(i, w) /\ reqs'[w].order = o
          BY <2>2, JobsOfMove
    <3> QED BY <2>1, <3>1, FreshNumber DEF QueuedBy
  <2>3. CASE j \in JobsOf(o) /\ k \in JobsOf(o)
        BY <2>1, <2>3 DEF OneJob
  <2>4. CASE ~(j \in JobsOf(o) /\ k \in JobsOf(o))
        BY <1>1, <2>2, <2>4
  <2> QED BY <2>3, <2>4
<1>2. ASSUME NEW j \in JobsOf(o)', Running(j)'
      PROVE  /\ j \in JobsOf(o)
             /\ Running(j) \/ Waiting(o)
             /\ jobs'[j].at = "fired" => ~Waiting(o)'
  <2>1. ~Parks(j) /\ \A w \in Workers : ~QueuedBy(j, w)
        BY <1>2 DEF Running, Parks, QueuedBy
  <2>2. j \in JobsOf(o) /\ (jobs'[j] = jobs[j] \/ Looks(j) \/ Moves(j))
        BY <2>1, JobsOfMove
  <2>3. CASE jobs'[j] = jobs[j]
    <3>1. Running(j)
          BY <1>2, <2>3 DEF Running
    <3>2. jobs'[j].at = "fired" => ~Waiting(o)'
          BY <2>2, <2>3, WaitedBefore DEF OneJob
    <3> QED BY <2>2, <3>1, <3>2
  <2>4. CASE Looks(j)
    <3>1. orders[o].status = "SCHEDULED" /\ jobs'[j].at = "active"
          BY <1>2, <2>2, <2>4 DEF Looks, JobsOf, Running
    <3> QED BY <2>2, <3>1 DEF Waiting
  <2>5. CASE Moves(j)
    <3>1. Running(j) /\ orders'[o].status = "PENDING"
          BY <2>2, <2>5 DEF Moves, Running, JobsOf
    <3> QED BY <2>2, <3>1 DEF Waiting
  <2> QED BY <2>2, <2>3, <2>4, <2>5
<1>3. ASSUME NEW j \in JobsOf(o)', NEW k \in JobsOf(o)', Running(j)', Running(k)' PROVE j = k
      BY <1>2, <1>3 DEF OneJob
<1>4. ASSUME NEW j \in JobsOf(o)', jobs'[j].at = "fired" PROVE ~Waiting(o)'
  <2>1. Running(j)'
        BY <1>4 DEF Running
  <2> QED BY <1>2, <1>4, <2>1
<1> QED BY <1>1, <1>3, <1>4 DEF OneJob

LEMMA NoAppendStep ==
  ASSUME Base, [Next]_vars, NEW o \in Orders, NoAppend(o), ~Marked(o)'
  PROVE  NoAppend(o)'
<1>1. o # 0
      BY DEF Orders
<1>2. ASSUME orders'[o].status = "SCHEDULED", NEW x \in Workers, reqs'[x].op = "create",
             reqs'[x].order = o
      PROVE  FALSE
  <2>1. Waiting(o)
        BY <1>2, WaitedBefore DEF Waiting
  <2>2. CASE reqs'[x] = reqs[x]
    <3>1. orders[o].status = "none"
          BY <1>2, <2>1, <2>2 DEF Waiting, NoAppend
    <3>2. PICK w \in Workers : CreateDirectCommit(w) /\ reqs[w].order = o
          BY <1>2, <3>1, StatusMoves DEF Base, TotalInv
    <3>3. reqs[x].at = "commit"
          BY <1>1, <1>2, <2>2, <3>1 DEF Base, Present, Existing
    <3>4. x = w
          BY <1>2, <2>2, <3>2, <3>3 DEF CreateDirectCommit, Base, OneCommit
    <3>5. reqs'[x] = Idle
          BY <3>2, <3>4, CommitEnds DEF Base
    <3> QED BY <1>2, <3>5, IdleIs
  <2>3. CASE CreateDirectWrite(x)
        BY <1>2, <2>1, <2>3, FreshNumber
  <2> QED BY <1>1, <1>2, <2>1, <2>2, <2>3, CreateMoves DEF Base
<1>3. ASSUME orders'[o].status = "none", NEW x \in Workers, reqs'[x].op = "create",
             reqs'[x].at = "commit", reqs'[x].order = o, ~reqs'[x].flag
      PROVE  JobsOf(o)' = {}
  <2>1. Waiting(o) /\ orders[o].status = "none"
        BY <1>3, WaitedBefore DEF Waiting
  <2>2. reqs'[x] = reqs[x] \/ CreateDirectWrite(x)
        BY <1>3, CreateMoves DEF Base
  <2>3. JobsOf(o) = {}
    <3>1. CASE reqs'[x] = reqs[x]
          BY <1>3, <2>1, <3>1 DEF NoAppend
    <3>2. CASE CreateDirectWrite(x)
          BY <1>3, <2>1, <3>2, FreshNumber
    <3> QED BY <2>2, <3>1, <3>2
  <2>4. ASSUME NEW w \in Workers, NEW j, QueuedBy(j, w), reqs'[w].order = o PROVE FALSE
    <3>1. /\ reqs[w].at = "write" /\ reqs[w].flag /\ CreateDirectWrite(w)
          /\ \A y \in Workers \ {w} : reqs'[y] = reqs[y]
          /\ \A y \in Workers : reqs[y].at = "commit" => reqs[y].order # o
          BY <2>4, CommitOpens DEF QueuedBy, Base
    <3>2. x = w
          BY <1>3, <3>1
    <3>3. reqs'[w].flag = reqs[w].flag
      <4>1. PICK id : reqs' = [reqs EXCEPT ![w].at = "commit", ![w].order = id]
            BY <3>1 DEF CreateDirectWrite
      <4> QED BY <4>1 DEF Base, TypeInv, TypeOK, RequestsType, Request
    <3> QED BY <1>3, <3>1, <3>2, <3>3
  <2> QED BY <2>3, <2>4, JobsOfMove
<1> QED BY <1>2, <1>3 DEF NoAppend

-----------------------------------------------------------------------------
(* A line is taken once.                                                   *)

\* A line that is in an order is taken only by the job that moved the order.
LEMMA TakenByJob ==
  ASSUME Base, [Next]_vars, NEW o \in Orders, NEW i \in Lines(o), NEW p \in Products
  PROVE  \/ out'[i][p] = out[i][p]
         \/ /\ out'[i][p] = out[i][p] + Load[{i}][p]
            /\ \E j \in JobsOf(o) : jobs[j].at = "fired" /\ i \in jobs[j].lines /\ Parks(j)
<1>1. i \in Items /\ items[i].order = o /\ o # 0
      BY DEF Lines, Orders
<1>2. ASSUME NEW w \in Workers, CreateDirectCommit(w) PROVE i \notin reqs[w].lines
      BY <1>1, <1>2, CartLoose DEF Base, TotalInv
<1>3. ASSUME NEW j \in DOMAIN jobs, FireDeduct(j), jobs[j].at = "fired", i \in jobs[j].lines
      PROVE  j \in JobsOf(o) /\ Parks(j)
  <2>1. j \in JobsOf(o)
        BY <1>1, <1>3, JobOrder DEF JobsOf
  <2>2. Parks(j) \/ Looks(j) \/ Moves(j)
        BY <1>3, FiredJobs DEF Fire, Base
  <2> QED BY <1>3, <2>1, <2>2 DEF Looks, Moves
<1> QED BY <1>1, <1>2, <1>3, OutMoves DEF Base

LEMMA CartOfNew ==
  ASSUME Base, NEW w \in Workers, CreateDirectCommit(w), NEW i \in reqs[w].lines
  PROVE  i \in Items /\ items[i].order = 0 /\ Untaken(i)
BY CartLoose DEF Base, TotalInv, Loose

LEMMA LinesUntakenStep ==
  ASSUME Base, [Next]_vars, NEW o \in Orders, OneJob(o), NoAppend(o), LinesUntaken(o), ~Marked(o)'
  PROVE  LinesUntaken(o)'
<1>1. o # 0
      BY DEF Orders
<1>2. ASSUME orders'[o].status = "SCHEDULED", JobsOf(o)' # {}, NEW i \in Lines(o)',
             NEW p \in Products
      PROVE  out'[i][p] = 0
  <2>1. Waiting(o) /\ i \in Items /\ items'[i].order = o
        BY <1>2, WaitedBefore DEF Waiting, Lines
  <2>2. PICK j : j \in JobsOf(o)'
        BY <1>2
  <2>3. CASE orders[o].status = "SCHEDULED"
    <3>1. i \in Lines(o)
      <4>1. ASSUME NEW w \in Workers, CreateDirectCommit(w), reqs[w].order = o PROVE FALSE
            BY <2>3, <4>1 DEF CreateDirectCommit, NoAppend
      <4> QED BY <2>1, <4>1, LinesMove DEF Base, TotalInv, Lines
    <3>2. JobsOf(o) # {}
      <4>1. ASSUME NEW w \in Workers, QueuedBy(j, w), reqs'[w].order = o PROVE FALSE
            BY <2>1, <2>3, <4>1, FreshNumber DEF QueuedBy
      <4> QED BY <2>2, <4>1, JobsOfMove
    <3>3. out[i][p] = 0
          BY <2>3, <3>1, <3>2 DEF LinesUntaken, Untaken
    <3>4. ~\E k \in JobsOf(o) : jobs[k].at = "fired"
          BY <2>1 DEF OneJob
    <3> QED BY <3>1, <3>3, <3>4, TakenByJob
  <2>4. CASE orders[o].status = "none"
    <3>1. PICK w \in Workers : CreateDirectCommit(w) /\ reqs[w].order = o
          BY <1>2, <2>4, StatusMoves DEF Base, TotalInv
    <3>2. reqs[w].op = "create" /\ reqs[w].at = "commit" /\ UNCHANGED jobs
          BY <3>1 DEF CreateDirectCommit, queue
    <3>3. JobsOf(o) # {}
          BY <2>2, <3>2 DEF JobsOf
    <3>4. reqs[w].flag
          BY <2>4, <3>1, <3>2, <3>3 DEF NoAppend
    <3>5. out' = out
          BY <3>1, <3>4 DEF CreateDirectCommit, stock
    <3>6. i \in reqs[w].lines
      <4>1. Lines(o) = {}
            BY <2>4 DEF Base, TotalInv, Unborn
      <4>2. items[i].order # o
            BY <2>1, <4>1 DEF Lines
      <4> QED BY <2>1, <3>1, <4>2, Appends DEF Base, TotalInv
    <3> QED BY <3>1, <3>5, <3>6, CartOfNew DEF Untaken
  <2> QED BY <2>1, <2>3, <2>4 DEF Waiting
<1>3. ASSUME NEW j \in JobsOf(o)', Running(j)', NEW i \in jobs'[j].lines, NEW p \in Products
      PROVE  out'[i][p] = 0
  <2>1. ~Parks(j) /\ \A w \in Workers : ~QueuedBy(j, w)
        BY <1>3 DEF Running, Parks, QueuedBy
  <2>2. j \in JobsOf(o) /\ (jobs'[j] = jobs[j] \/ Looks(j) \/ Moves(j))
        BY <2>1, JobsOfMove
  <2>3. j \in DOMAIN jobs /\ jobs[j].order = o
        BY <2>2 DEF JobsOf
  <2>4. /\ i \in Lines(o) /\ out[i][p] = 0
        /\ Running(j) \/ Waiting(o)
    <3>1. CASE Running(j) /\ jobs'[j].lines = jobs[j].lines
      <4>1. items[i].order = o /\ i \in Items
            BY <1>3, <2>3, <3>1, JobOrder
      <4>2. Untaken(i)
            BY <1>3, <2>2, <3>1 DEF LinesUntaken
      <4> QED BY <3>1, <4>1, <4>2 DEF Lines, Untaken
    <3>2. CASE Looks(j)
      <4>1. orders[o].status = "SCHEDULED" /\ jobs'[j].lines = Lines(o)
            BY <1>3, <2>3, <3>2 DEF Looks, Running
      <4>2. JobsOf(o) # {}
            BY <2>2
      <4>3. Untaken(i)
            BY <1>3, <4>1, <4>2 DEF LinesUntaken
      <4> QED BY <1>3, <4>1, <4>3 DEF Waiting, Untaken
    <3>3. CASE jobs'[j] = jobs[j]
          BY <1>3, <3>1, <3>3 DEF Running
    <3>4. CASE Moves(j)
          BY <3>1, <3>4 DEF Moves, Running
    <3> QED BY <2>2, <3>2, <3>3, <3>4
  <2>5. ASSUME NEW k \in JobsOf(o), jobs[k].at = "fired", Parks(k) PROVE FALSE
    <3>1. Running(k) /\ ~Waiting(o)
          BY <2>5 DEF Running, OneJob
    <3>2. j = k
          BY <2>2, <2>4, <3>1 DEF OneJob
    <3> QED BY <2>1, <2>5, <3>2
  <2> QED BY <2>4, <2>5, TakenByJob
<1> QED BY <1>2, <1>3 DEF LinesUntaken, Untaken

LEMMA TakenOnceStep ==
  ASSUME Base, [Next]_vars, NEW o \in Orders, LinesUntaken(o), TakenOnce(o)
  PROVE  TakenOnce(o)'
<1> SUFFICES ASSUME NEW i \in Lines(o)', NEW p \in Products PROVE out'[i][p] <= Load[{i}][p]
    BY DEF TakenOnce
<1>1. i \in Items /\ items'[i].order = o
      BY DEF Lines
<1>2. out[i][p] \in Nat /\ Load[{i}][p] \in Nat
      BY <1>1, LoadType DEF Base, TypeInv, TypeOK, StockType
<1>3. CASE i \in Lines(o)
  <2>1. out[i][p] <= Load[{i}][p]
        BY <1>3 DEF TakenOnce
  <2>2. ASSUME NEW j \in JobsOf(o), jobs[j].at = "fired", i \in jobs[j].lines PROVE out[i][p] = 0
        BY <2>2 DEF LinesUntaken, Running, Untaken
  <2> QED BY <1>2, <1>3, <2>1, <2>2, TakenByJob
<1>4. CASE i \notin Lines(o)
  <2>1. PICK w \in Workers : CreateDirectCommit(w) /\ i \in reqs[w].lines
        BY <1>1, <1>4, LinesMove DEF Base, TotalInv, Lines
  <2>2. out[i][p] = 0
        BY <2>1, CartOfNew DEF Untaken
  <2>3. out'[i][p] = out[i][p] \/ out'[i][p] = out[i][p] + Load[{i}][p]
        BY <1>1, OutMoves DEF Base
  <2> QED BY <1>2, <2>2, <2>3
<1> QED BY <1>3, <1>4

LEMMA FireInit == Init => FireInv
<1> SUFFICES ASSUME Init PROVE FireInv
    OBVIOUS
<1>1. \A w \in Workers : reqs[w] = Idle
      BY DEF Init
<1>2. DOMAIN jobs = {}
      BY DEF Init
<1>3. \A i \in Items : Untaken(i) /\ items[i].order = 0
      BY DEF Init, Untaken
<1>4. Present /\ Snapshot /\ Loose
      BY <1>1, <1>2, <1>3, IdleIs, IdleFields DEF Present, Snapshot, Loose
<1>5. ASSUME NEW o \in Orders PROVE OneJob(o) /\ NoAppend(o) /\ LinesUntaken(o) /\ TakenOnce(o)
  <2>1. JobsOf(o) = {}
        BY <1>2 DEF JobsOf
  <2>2. Lines(o) = {}
        BY <1>3 DEF Lines, Orders
  <2> QED BY <1>1, <2>1, <2>2, IdleIs DEF OneJob, NoAppend, LinesUntaken, TakenOnce
<1> QED BY <1>4, <1>5 DEF FireInv

LEMMA FireStep ==
  TypeInv /\ KitchenInv /\ TotalInv /\ PaidInv /\ DrawerInv /\ FireInv /\ [Next]_vars => FireInv'
<1> SUFFICES ASSUME TypeInv, KitchenInv, TotalInv, PaidInv, DrawerInv, FireInv, [Next]_vars
             PROVE  FireInv'
    OBVIOUS
<1>1. Base
      BY DEF Base, PaidInv, DrawerInv, FireInv
<1>2. Present'
      BY <1>1, PresentStep DEF Base, TotalInv
<1>3. Snapshot'
      BY <1>1, SnapshotStep DEF Base, TotalInv
<1>4. Loose'
      BY <1>1, LooseStep DEF Base, TotalInv
<1>5. ASSUME NEW o \in Orders, ~Marked(o)'
      PROVE  OneJob(o)' /\ NoAppend(o)' /\ LinesUntaken(o)' /\ TakenOnce(o)'
  <2>1. ~Marked(o)
        BY <1>5, WhyGrows DEF Marked
  <2>2. OneJob(o) /\ NoAppend(o) /\ LinesUntaken(o) /\ TakenOnce(o)
        BY <2>1 DEF FireInv
  <2> QED BY <1>1, <1>5, <2>2, OneJobStep, NoAppendStep, LinesUntakenStep, TakenOnceStep
<1> QED BY <1>2, <1>3, <1>4, <1>5 DEF FireInv

\* However often a fire job is retried, stalled or raced by staff, a line is taken
\* from stock at most once, unless staff put the order back to SCHEDULED
\* (firePreOrder moves the status before it deducts).
THEOREM OnceCorrect == Spec => []DeductedOnce
<1>1. TypeInv /\ FireInv => DeductedOnce
  <2> SUFFICES ASSUME TypeInv, FireInv, NEW i \in Items, NEW p \in Products,
                      items[i].order # 0, "rescheduled" \notin why[items[i].order]
               PROVE  out[i][p] <= Load[{i}][p]
      BY DEF DeductedOnce
  <2>1. items[i].order \in Orders
        BY DEF TypeInv, TypeOK, RowsType, Orders
  <2>2. TakenOnce(items[i].order) /\ i \in Lines(items[i].order)
        BY <2>1 DEF FireInv, Marked, Lines
  <2> QED BY <2>2 DEF TakenOnce
<1>2. Spec => [](TypeInv /\ KitchenInv)
      BY TypeInit, TypeStep, KitchenInit, KitchenStep, PTL DEF Spec
<1>3. Spec => [](TotalInv /\ PaidInv)
      BY <1>2, TotalInit, TotalStep, PaidInit, PaidStep, PTL DEF Spec
<1>4. Spec => []DrawerInv
      BY <1>2, <1>3, DrawerInit, DrawerStep, PTL DEF Spec
<1> QED BY <1>1, <1>2, <1>3, <1>4, FireInit, FireStep, PTL DEF Spec

-----------------------------------------------------------------------------
(* What lines give back to stock.                                          *)

Blamed(o) == why[o] \cap ReturnCause # {}

\* Line i cannot be returned again without a cause.
Spent(i) == items[i].status = "REFUNDED" \/ orders[items[i].order].status \in Closed

\* A return works on lines of its order, and read the order as not closed.
GivesBack(r) == r.op \in {"void", "refund", "refundItem"}
ReturnsOwn(r) == GivesBack(r) => /\ r.to \notin Closed
                                 /\ \A i \in r.lines : items[i].order = r.order

\* A line without an order gave nothing back; a line that gave something back
\* is spent, and gave no more than it took, unless its order is blamed for it.
GaveBack(i) ==
  /\ items[i].order = 0 => \A p \in Products : back[i][p] = 0
  /\ items[i].order # 0 /\ ~Blamed(items[i].order) =>
       \A p \in Products : back[i][p] <= out[i][p] /\ (back[i][p] # 0 => Spent(i))

ReturnInv ==
  /\ \A w \in Workers : ReturnsOwn(reqs[w])
  /\ \A i \in Items : GaveBack(i)

Returns(w) == VoidCommit(w) \/ RefundOrderCommit(w) \/ RefundItemCommit(w)

LEMMA ReturnsAsked ==
  ASSUME TypeInv, NEW w \in Workers, Receive(w), GivesBack(reqs'[w])
  PROVE  /\ reqs'[w].to \notin Closed
         /\ \A i \in reqs'[w].lines : i \in Items /\ items[i].order = reqs'[w].order
<1> USE DEF TypeInv, TypeOK
<1>1. ASSUME NEW r, Begin(w, r) PROVE reqs'[w] = r
      BY <1>1 DEF Begin, SoundRequests
<1>2. CASE CreateDirectRead(w)
  <2>1. PICK cart, t, to, o, paid, pre :
          Begin(w, [Idle EXCEPT !.op = "create", !.at = "write", !.order = o, !.to = to,
                      !.table = t, !.lines = cart, !.amount = paid, !.flag = pre])
        BY <1>2, ZenonT(60) DEF CreateDirectRead
  <2>2. reqs'[w].op = "create"
        BY <1>1, <2>1 DEF Idle
  <2> QED BY <2>2 DEF GivesBack
<1>3. CASE StatusRead(w)
  <2>1. PICK o, to, amount, at :
          Begin(w, [Idle EXCEPT !.op = "status", !.order = o, !.to = to, !.amount = amount,
                      !.at = at])
        BY <1>3, ZenonT(60) DEF StatusRead
  <2>2. reqs'[w].op = "status"
        BY <1>1, <2>1 DEF Idle
  <2> QED BY <2>2 DEF GivesBack
<1>4. CASE AssignRead(w)
  <2>1. PICK o, t, full :
          Begin(w, [Idle EXCEPT !.op = "assign", !.at = "write", !.order = o, !.table = t,
                      !.flag = full])
        BY <1>4, ZenonT(60) DEF AssignRead
  <2>2. reqs'[w].op = "assign"
        BY <1>1, <2>1 DEF Idle
  <2> QED BY <2>2 DEF GivesBack
<1>5. CASE CheckoutRead(w)
  <2>1. PICK t, open :
          Begin(w, [Idle EXCEPT !.op = "checkout", !.at = "write", !.table = t, !.todo = open])
        BY <1>5, ZenonT(60) DEF CheckoutRead
  <2>2. reqs'[w].op = "checkout"
        BY <1>1, <2>1 DEF Idle
  <2> QED BY <2>2 DEF GivesBack
<1>6. CASE VoidRead(w)
  <2>1. PICK o \in Existing :
          /\ orders[o].status \notin Closed
          /\ Begin(w, [Idle EXCEPT !.op = "void", !.at = "write", !.order = o,
                         !.to = orders[o].status, !.table = orders[o].table, !.lines = Lines(o)])
        BY <1>6 DEF VoidRead
  <2>2. reqs'[w].to = orders[o].status /\ reqs'[w].lines = Lines(o) /\ reqs'[w].order = o
        BY <1>1, <2>1 DEF Idle
  <2> QED BY <2>1, <2>2 DEF Lines
<1>7. CASE RefundOrderRead(w)
  <2>1. PICK o \in Existing, left \in SUBSET Items :
          /\ left \subseteq Lines(o) /\ orders[o].status = "COMPLETED"
          /\ Begin(w, [Idle EXCEPT !.op = "refund", !.at = "write", !.order = o,
                         !.to = orders[o].status, !.amount = orders[o].paid, !.lines = left])
    <3>1. PICK o \in Existing :
            /\ orders[o].status = "COMPLETED"
            /\ Begin(w, [Idle EXCEPT !.op = "refund", !.at = "write", !.order = o,
                           !.to = orders[o].status, !.amount = orders[o].paid,
                           !.lines = {i \in Lines(o) : items[i].status # "REFUNDED"}])
          BY <1>7 DEF RefundOrderRead
    <3>2. /\ {i \in Lines(o) : items[i].status # "REFUNDED"} \in SUBSET Items
          /\ {i \in Lines(o) : items[i].status # "REFUNDED"} \subseteq Lines(o)
          BY DEF Lines
    <3> QED BY <3>1, <3>2
  <2>2. reqs'[w].to = "COMPLETED" /\ reqs'[w].lines = left /\ reqs'[w].order = o
        BY <1>1, <2>1, ZenonT(40) DEF Idle
  <2> QED BY <2>1, <2>2 DEF Lines, Closed
<1>8. CASE RefundItemRead(w)
  <2>1. PICK i \in Items, n \in Nat :
          /\ orders[items[i].order].status = "COMPLETED"
          /\ Begin(w, [Idle EXCEPT !.op = "refundItem", !.at = "write",
                         !.order = items[i].order, !.to = orders[items[i].order].status,
                         !.lines = {i}, !.qty = n, !.amount = n * Price[i]])
    <3>1. PICK i \in Items : \E n \in 1 .. Qty[i] :
            /\ orders[items[i].order].status = "COMPLETED"
            /\ Begin(w, [Idle EXCEPT !.op = "refundItem", !.at = "write",
                           !.order = items[i].order, !.to = orders[items[i].order].status,
                           !.lines = {i}, !.qty = n, !.amount = n * Price[i]])
          BY <1>8 DEF RefundItemRead
    <3>2. \A n \in 1 .. Qty[i] : n \in Nat
          BY StockAssumption
    <3> QED BY <3>1, <3>2
  <2>2. /\ reqs'[w].to = "COMPLETED" /\ reqs'[w].lines = {i} /\ reqs'[w].order = items[i].order
        BY <1>1, <2>1, ZenonT(40) DEF Idle
  <2> QED BY <2>2 DEF Closed
<1> QED BY <1>2, <1>3, <1>4, <1>5, <1>6, <1>7, <1>8 DEF Receive

\* A request that gives stock back after a step did so before it, or was just asked.
LEMMA ReturnsMove ==
  ASSUME TypeInv, [Next]_vars, NEW x \in Workers, GivesBack(reqs'[x])
  PROVE  \/ Receive(x)
         \/ /\ reqs'[x].op = reqs[x].op /\ reqs'[x].lines = reqs[x].lines
            /\ reqs'[x].to = reqs[x].to /\ reqs'[x].order = reqs[x].order
<1> USE DEF TypeInv, TypeOK
<1>1. CASE UNCHANGED reqs
      BY <1>1
<1>2. ASSUME NEW w \in Workers, Receive(w) PROVE w = x \/ reqs'[x] = reqs[x]
  <2>1. PICK r : reqs' = [reqs EXCEPT ![w] = r]
        BY <1>2, Begins DEF Asked
  <2> QED BY <2>1 DEF SoundRequests
<1>3. ASSUME NEW w \in Workers, Handle(w) \/ Fail(w)
      PROVE  /\ reqs'[x].op = reqs[x].op /\ reqs'[x].lines = reqs[x].lines
             /\ reqs'[x].to = reqs[x].to /\ reqs'[x].order = reqs[x].order
  <2>1. PICK s : reqs' = [reqs EXCEPT ![w] = s] /\ (s = Idle \/ Continues(reqs[w], s))
        BY <1>3, Proceeds
  <2>2. reqs'[x] = IF x = w THEN s ELSE reqs[x]
        BY <2>1 DEF SoundRequests
  <2>3. s = Idle => x # w
        BY <2>2, IdleIs DEF GivesBack
  <2>4. CASE x = w
        BY <2>1, <2>2, <2>3, <2>4 DEF Continues, GivesBack
  <2> QED BY <2>2, <2>4
<1>4. ASSUME NEW i \in Items, VoidItem(i) \/ \E s \in ItemStatuses : UpdateItemStatus(i, s)
      PROVE  UNCHANGED reqs
      BY <1>4 DEF VoidItem, UpdateItemStatus
<1>5. ASSUME NEW j \in DOMAIN jobs, Fire(j) \/ FireError(j) \/ FireStall(j) PROVE UNCHANGED reqs
      BY <1>5 DEF Fire, FireRead, FireUpdate, FireDeduct, FireNotify, FireError, FireStall
<1>6. UNCHANGED vars => UNCHANGED reqs
      BY DEF vars
<1> QED BY <1>1, <1>2, <1>3, <1>4, <1>5, <1>6 DEF Next

LEMMA ReadsKeepLines == ASSUME NEW w, Receive(w) PROVE UNCHANGED items
BY DEF Receive, CreateDirectRead, StatusRead, AssignRead, VoidRead, RefundOrderRead,
       RefundItemRead, CheckoutRead

LEMMA ReturnsOwnStep ==
  ASSUME TypeInv, Grounded, CartsApart, StatusNamed, [Next]_vars, NEW x \in Workers,
         ReturnsOwn(reqs[x])
  PROVE  ReturnsOwn(reqs[x])'
<1> SUFFICES ASSUME GivesBack(reqs'[x])
             PROVE  /\ reqs'[x].to \notin Closed
                    /\ \A i \in reqs'[x].lines : items'[i].order = reqs'[x].order
    BY DEF ReturnsOwn, GivesBack, Closed
<1>1. CASE Receive(x)
      BY <1>1, ReturnsAsked, ReadsKeepLines
<1>2. CASE /\ reqs'[x].op = reqs[x].op /\ reqs'[x].lines = reqs[x].lines
           /\ reqs'[x].to = reqs[x].to /\ reqs'[x].order = reqs[x].order
  <2>1. GivesBack(reqs[x])
        BY <1>2 DEF GivesBack
  <2>2. reqs[x].order # 0 /\ reqs[x].lines \subseteq Items
    <3>1. reqs[x].order \in Existing
          BY <2>1 DEF GivesBack, Grounded
    <3>2. reqs[x] \in Request
          BY DEF TypeInv, SoundRequests, Sound
    <3> QED BY <3>1, <3>2 DEF Existing, Orders, Request
  <2> QED BY <1>2, <2>1, <2>2, LinesStay DEF ReturnsOwn
<1> QED BY <1>1, <1>2, ReturnsMove


-----------------------------------------------------------------------------
(* Spent lines stay spent.                                                 *)

\* An order stays closed, or the step that opens it is blamed.
LEMMA StaysClosed ==
  ASSUME TypeInv, StatusNamed, Grounded, Present, [Next]_vars, NEW o \in Orders,
         orders[o].status \in Closed
  PROVE  orders'[o].status \in Closed \/ Blamed(o)'
<1> USE DEF TypeInv, TypeOK
<1>1. ASSUME NEW id \in Orders, NEW to, Blame(id, Reopening(id, to)),
             orders'[id].status = to, \A y \in Orders \ {id} : orders'[y] = orders[y]
      PROVE  orders'[o].status \in Closed \/ Blamed(o)'
  <2>1. CASE o = id /\ to \notin Closed
    <3>1. "reopened" \in why'[o]
          BY <1>1, <2>1 DEF Blame, Reopening
    <3> QED BY <3>1 DEF Blamed, ReturnCause
  <2>2. CASE o = id /\ to \in Closed
        BY <1>1, <2>2
  <2>3. CASE o # id
        BY <1>1, <2>3
  <2> QED BY <2>1, <2>2, <2>3
<1>2. CASE UNCHANGED orders
      BY <1>2
<1>3. UNCHANGED vars => UNCHANGED orders
      BY DEF vars
<1>4. ASSUME NEW w \in Workers,
             \/ Receive(w) \/ Fail(w)
             \/ CreateDirectWrite(w) \/ StatusPay(w) \/ StatusTill(w) \/ StatusTable(w)
             \/ RefundTill(w) \/ CheckoutTable(w)
      PROVE  UNCHANGED orders
      BY <1>4 DEF Receive, CreateDirectRead, StatusRead, AssignRead, VoidRead, RefundOrderRead,
                  RefundItemRead, CheckoutRead, Fail, CreateDirectWrite, StatusPay, StatusTill,
                  StatusTable, RefundTill, CheckoutTable
<1>5. ASSUME NEW w \in Workers, CreateDirectCommit(w)
      PROVE  orders'[o].status \in Closed \/ Blamed(o)'
  <2>1. PICK id, to : id = reqs[w].order /\ to = reqs[w].to
        OBVIOUS
  <2>2. id \in Orders /\ \A y \in Orders \ {id} : orders'[y] = orders[y]
        BY <1>5, <2>1, Appends
  <2>3. PICK new :
          /\ new = IF orders[id].status = "none"
                     THEN [status |-> to, table |-> reqs[w].table, total |-> Bill[reqs[w].lines],
                           paid |-> reqs[w].amount]
                     ELSE [orders[id] EXCEPT !.status = to, !.total = @ + Bill[reqs[w].lines],
                                      !.paid = @ + reqs[w].amount]
          /\ orders' = [orders EXCEPT ![id] = new]
          /\ Blame(id, Reopening(id, to))
        BY <1>5, <2>1 DEF CreateDirectCommit
  <2>4. orders[id] \in OrderRow
        BY <2>2 DEF RowsType
  <2>5. new.status = to
    <3>1. CASE orders[id].status = "none"
          BY <2>3, <3>1
    <3>2. CASE orders[id].status # "none"
          BY <2>3, <2>4, <3>2 DEF OrderRow
    <3> QED BY <3>1, <3>2
  <2>6. orders'[id].status = to
        BY <2>2, <2>3, <2>5 DEF RowsType
  <2> QED BY <1>1, <2>2, <2>3, <2>6
<1>6. ASSUME NEW w \in Workers, StatusWrite(w)
      PROVE  orders'[o].status \in Closed \/ Blamed(o)'
  <2>1. PICK id, to : id = reqs[w].order /\ to = reqs[w].to
        OBVIOUS
  <2>2. id \in Orders /\ orders[id] \in OrderRow
        BY <1>6, <2>1, ExistingType DEF StatusWrite, Grounded
  <2>3. /\ orders' = [orders EXCEPT ![id] = [orders[id] EXCEPT !.status = to,
                                               !.paid = @ + reqs[w].amount]]
        /\ Blame(id, Reopening(id, to))
        BY <1>6, <2>1 DEF StatusWrite
  <2>4. orders'[id].status = to /\ \A y \in Orders \ {id} : orders'[y] = orders[y]
        BY <2>2, <2>3 DEF RowsType, OrderRow
  <2> QED BY <1>1, <2>2, <2>3, <2>4
<1>7. ASSUME NEW id \in Existing, NEW to, orders' = [orders EXCEPT ![id].status = to],
             to \in Closed \/ Blame(id, Reopening(id, to))
      PROVE  orders'[o].status \in Closed \/ Blamed(o)'
  <2>1. id \in Orders /\ orders[id] \in OrderRow
        BY ExistingType
  <2>2. orders'[id].status = to /\ \A y \in Orders \ {id} : orders'[y] = orders[y]
        BY <1>7, <2>1 DEF RowsType, OrderRow
  <2>3. CASE to \in Closed
        BY <2>2, <2>3
  <2> QED BY <1>1, <1>7, <2>1, <2>2, <2>3
<1>8. ASSUME NEW w \in Workers, VoidCommit(w) \/ RefundOrderCommit(w)
      PROVE  orders'[o].status \in Closed \/ Blamed(o)'
  <2>1. reqs[w].order \in Existing
        BY <1>8 DEF VoidCommit, RefundOrderCommit, Grounded
  <2>2. PICK to \in Closed : orders' = [orders EXCEPT ![reqs[w].order].status = to]
        BY <1>8 DEF VoidCommit, RefundOrderCommit, Closed
  <2> QED BY <1>7, <2>1, <2>2
<1>9. ASSUME NEW w \in Workers, AssignWrite(w) \/ RefundItemCommit(w)
      PROVE  orders'[o].status = orders[o].status
  <2>1. PICK id : \/ \E t : orders' = [orders EXCEPT ![id].table = t]
                  \/ \E a : orders' = [orders EXCEPT ![id].paid = a]
        BY <1>9 DEF AssignWrite, RefundItemCommit
  <2>2. orders[o] \in OrderRow
        BY DEF RowsType
  <2> QED BY <2>1, <2>2 DEF RowsType, OrderRow
<1>10. ASSUME NEW w \in Workers, CheckoutOrder(w)
       PROVE  orders'[o].status \in Closed \/ Blamed(o)'
  <2>1. PICK id \in reqs[w].todo : /\ orders' = [orders EXCEPT ![id].status = "COMPLETED"]
                                   /\ Blame(id, Reopening(id, "COMPLETED"))
        BY <1>10 DEF CheckoutOrder
  <2>2. id \in Existing
        BY DEF Present
  <2> QED BY <1>7, <2>1, <2>2
<1>11. ASSUME NEW i \in Items, VoidItem(i) \/ \E s \in ItemStatuses : UpdateItemStatus(i, s)
       PROVE  UNCHANGED orders
      BY <1>11 DEF VoidItem, UpdateItemStatus
<1>12. ASSUME NEW j \in DOMAIN jobs,
              FireRead(j) \/ FireDeduct(j) \/ FireNotify(j) \/ FireError(j) \/ FireStall(j)
       PROVE  UNCHANGED orders
      BY <1>12 DEF FireRead, FireDeduct, FireNotify, FireError, FireStall
<1>13. ASSUME NEW j \in DOMAIN jobs, FireUpdate(j)
       PROVE  orders'[o].status \in Closed \/ Blamed(o)'
  <2>1. PICK id : /\ id = jobs[j].order /\ jobs[j].at = "active"
                  /\ orders' = [orders EXCEPT ![id].status = "PENDING"]
                  /\ Blame(id, Reopening(id, "PENDING"))
        BY <1>13 DEF FireUpdate
  <2>2. id \in Existing
        BY <2>1 DEF Present, Running
  <2> QED BY <1>7, <2>1, <2>2
<1> QED BY <1>2, <1>3, <1>4, <1>5, <1>6, <1>8, <1>9, <1>10, <1>11, <1>12, <1>13
        DEF Next, Handle, Fire

\* A line of an order stays REFUNDED, or its order is blamed or closed.
LEMMA StaysRefunded ==
  ASSUME TypeInv, Grounded, CartsApart, StatusNamed, [Next]_vars, NEW i \in Items, items[i].order # 0,
         items[i].status = "REFUNDED"
  PROVE  \/ items'[i].status = "REFUNDED" \/ Blamed(items[i].order)'
         \/ orders'[items[i].order].status \in Closed
<1> USE DEF TypeInv, TypeOK
<1>1. items[i].order \in Orders /\ items[i] \in [order : 0 .. MaxOrders, status : ItemStatus]
      BY DEF RowsType, Orders
<1>2. UNCHANGED vars => UNCHANGED items
      BY DEF vars
<1>3. ASSUME NEW w \in Workers,
             \/ Receive(w) \/ Fail(w)
             \/ CreateDirectWrite(w) \/ StatusPay(w) \/ StatusTill(w) \/ StatusWrite(w)
             \/ StatusTable(w) \/ AssignWrite(w) \/ RefundTill(w) \/ CheckoutOrder(w)
             \/ CheckoutTable(w)
      PROVE  UNCHANGED items
      BY <1>3 DEF Receive, CreateDirectRead, StatusRead, AssignRead, VoidRead, RefundOrderRead,
                  RefundItemRead, CheckoutRead, Fail, CreateDirectWrite, StatusPay, StatusTill,
                  StatusWrite, StatusTable, AssignWrite, RefundTill, CheckoutOrder, CheckoutTable
<1>4. ASSUME NEW w \in Workers, CreateDirectCommit(w) PROVE items'[i] = items[i]
  <2>1. i \notin reqs[w].lines
        BY <1>4, CartLoose
  <2>2. items' = [k \in Items |-> IF k \in reqs[w].lines
                    THEN [order |-> reqs[w].order, status |-> "PENDING"] ELSE items[k]]
        BY <1>4 DEF CreateDirectCommit
  <2> QED BY <2>1, <2>2
<1>5. ASSUME NEW w \in Workers, VoidCommit(w)
      PROVE  items'[i] = items[i] \/ orders'[items[i].order].status \in Closed
  <2>1. PICK id : id = reqs[w].order
        OBVIOUS
  <2>2. id \in Orders /\ orders[id] \in OrderRow
        BY <1>5, <2>1, ExistingType DEF VoidCommit, Grounded
  <2>3. /\ orders' = [orders EXCEPT ![id].status = "CANCELLED"]
        /\ items' = [k \in Items |-> IF items[k].order = id
                       THEN [items[k] EXCEPT !.status = "CANCELLED"] ELSE items[k]]
        BY <1>5, <2>1 DEF VoidCommit
  <2>4. orders'[id].status = "CANCELLED"
        BY <2>2, <2>3 DEF RowsType, OrderRow
  <2>5. items[i].order # id => items'[i] = items[i]
        BY <2>3
  <2> QED BY <2>4, <2>5 DEF Closed
<1>6. ASSUME NEW w \in Workers, RefundOrderCommit(w)
      PROVE  items'[i] = items[i] \/ items'[i].status = "REFUNDED"
  <2>1. PICK id : items' = [k \in Items |-> IF items[k].order = id
                              THEN [items[k] EXCEPT !.status = "REFUNDED"] ELSE items[k]]
        BY <1>6 DEF RefundOrderCommit
  <2>2. items'[i] = IF items[i].order = id THEN [items[i] EXCEPT !.status = "REFUNDED"]
                                           ELSE items[i]
        BY <2>1
  <2> QED BY <1>1, <2>2
<1>7. ASSUME NEW w \in Workers, RefundItemCommit(w)
      PROVE  items'[i] = items[i] \/ items'[i].status = "REFUNDED"
  <2>1. PICK k : items' = [items EXCEPT ![k].status = "REFUNDED"] \/ items' = items
        BY <1>7 DEF RefundItemCommit
  <2> QED BY <1>1, <2>1 DEF RowsType
<1>8. ASSUME NEW k \in Items, VoidItem(k) \/ \E s \in ItemStatuses : UpdateItemStatus(k, s)
      PROVE  items'[i] = items[i] \/ Blamed(items[i].order)'
  <2>1. PICK s : /\ items' = [items EXCEPT ![k].status = s]
                 /\ Blame(items[k].order,
                          IF items[k].status = "REFUNDED" THEN {"relabelled"} ELSE {})
        BY <1>8 DEF VoidItem, UpdateItemStatus
  <2>2. CASE k = i
    <3>1. PICK o \in Orders : o = items[i].order /\ o = items'[i].order
          BY <1>1, LinesStay
    <3>2. Blame(o, {"relabelled"})
          BY <2>1, <2>2, <3>1
    <3>3. "relabelled" \in why'[o]
          BY <3>2 DEF Blame
    <3> QED BY <3>1, <3>3 DEF Blamed, ReturnCause
  <2>3. CASE k # i
        BY <2>1, <2>3 DEF RowsType
  <2> QED BY <2>2, <2>3
<1>9. ASSUME NEW j \in DOMAIN jobs, Fire(j) \/ FireError(j) \/ FireStall(j) PROVE UNCHANGED items
      BY <1>9 DEF Fire, FireRead, FireUpdate, FireDeduct, FireNotify, FireError, FireStall
<1> QED BY <1>2, <1>3, <1>4, <1>5, <1>6, <1>7, <1>8, <1>9 DEF Next, Handle

LEMMA StaysSpent ==
  ASSUME TypeInv, StatusNamed, Grounded, CartsApart, Present, [Next]_vars,
         NEW i \in Items, items[i].order # 0, Spent(i)
  PROVE  Spent(i)' \/ Blamed(items[i].order)'
<1>1. items[i].order \in Orders
      BY DEF TypeInv, TypeOK, RowsType, Orders
<1>2. items'[i].order = items[i].order
      BY LinesStay
<1> QED BY <1>1, <1>2, StaysClosed, StaysRefunded DEF Spent, Closed

-----------------------------------------------------------------------------
(* Returns.                                                                *)

LEMMA BackMoves ==
  ASSUME TypeInv, [Next]_vars
  PROVE  UNCHANGED back \/ \E w \in Workers : Returns(w)
<1>1. UNCHANGED vars => UNCHANGED back
      BY DEF vars, stock
<1>2. ASSUME NEW w \in Workers, Receive(w) PROVE UNCHANGED back
      BY <1>2 DEF Receive, CreateDirectRead, StatusRead, AssignRead, VoidRead, RefundOrderRead,
                  RefundItemRead, CheckoutRead, stock
<1>3. ASSUME NEW w \in Workers,
             \/ CreateDirectWrite(w) \/ CreateDirectCommit(w) \/ StatusPay(w) \/ StatusTill(w)
             \/ StatusWrite(w) \/ StatusTable(w) \/ AssignWrite(w) \/ RefundTill(w)
             \/ CheckoutOrder(w) \/ CheckoutTable(w) \/ Fail(w)
      PROVE  UNCHANGED back
      BY <1>3 DEF CreateDirectWrite, CreateDirectCommit, StatusPay, StatusTill, StatusWrite,
                  StatusTable, AssignWrite, RefundTill, CheckoutOrder, CheckoutTable, Fail,
                  Deduct, stock
<1>4. ASSUME NEW i \in Items, VoidItem(i) \/ \E s \in ItemStatuses : UpdateItemStatus(i, s)
      PROVE  UNCHANGED back
      BY <1>4 DEF VoidItem, UpdateItemStatus, stock
<1>5. ASSUME NEW j \in DOMAIN jobs, Fire(j) \/ FireError(j) \/ FireStall(j) PROVE UNCHANGED back
      BY <1>5 DEF Fire, FireRead, FireUpdate, FireDeduct, FireNotify, FireError, FireStall, stock
<1> QED BY <1>1, <1>2, <1>3, <1>4, <1>5 DEF Next, Handle, Returns


\* A return that leaves its order without blame found the order as it had read it,
\* and every line untouched.
LEMMA Uncaused ==
  ASSUME TypeInv, NEW o \in Orders, NEW S, NEW causes, NEW r, r.order = o,
         Blame(o, causes), ReturnCauses(S) \subseteq causes, Overlap(r) \subseteq causes,
         ~Blamed(o)'
  PROVE  /\ orders[o].status = r.to
         /\ \A i \in S : items[i].status # "REFUNDED" /\ out[i] = Load[{i}]
         /\ causes \cap ReturnCause = {}
<1>1. causes \subseteq why'[o]
      BY DEF Blame, TypeInv, TypeOK
<1>2. causes \cap ReturnCause = {}
      BY <1>1 DEF Blamed
<1>3. "overlap" \notin causes /\ "refunded line" \notin causes /\ "untaken" \notin causes
      BY <1>2 DEF ReturnCause
<1> QED BY <1>2, <1>3 DEF ReturnCauses, Overlap

\* The fault of the order, or the first return of all of an untouched line.
FirstReturn(i, p) ==
  /\ ~Spent(i) /\ Spent(i)'
  /\ out[i][p] = Load[{i}][p]
  /\ back'[i][p] = back[i][p] + Load[{i}][p]

LEMMA WholeReturns ==
  ASSUME TypeInv, Grounded, CartsApart, StatusNamed, [Next]_vars, NEW w \in Workers,
         ReturnsOwn(reqs[w]), VoidCommit(w) \/ RefundOrderCommit(w),
         NEW i \in Items, NEW p \in Products
  PROVE  \/ back'[i][p] = back[i][p]
         \/ items[i].order # 0 /\ (Blamed(items[i].order)' \/ FirstReturn(i, p))
<1> USE DEF TypeInv, TypeOK
<1>1. PICK r, o : r = reqs[w] /\ o = r.order
      OBVIOUS
<1>2. GivesBack(r) /\ r.to \notin Closed /\ \A k \in r.lines : items[k].order = o
      BY <1>1 DEF VoidCommit, RefundOrderCommit, GivesBack, ReturnsOwn
<1>3. o \in Orders /\ orders[o] \in OrderRow
      BY <1>1, <1>2, ExistingType DEF GivesBack, Grounded
<1>4. PICK s \in Closed : orders' = [orders EXCEPT ![o].status = s]
      BY <1>1 DEF VoidCommit, RefundOrderCommit, Closed
<1>5. Restore(r.lines) /\ Blame(o, ReturnCauses(r.lines) \cup Overlap(r))
      BY <1>1 DEF VoidCommit, RefundOrderCommit
<1>6. back'[i][p] = back[i][p] + IF i \in r.lines THEN Load[{i}][p] ELSE 0
      BY <1>5 DEF Restore
<1>7. back[i][p] \in Nat
      BY DEF StockType
<1>8. CASE i \notin r.lines
      BY <1>6, <1>7, <1>8
<1>9. CASE i \in r.lines /\ ~Blamed(o)'
  <2>1. items[i].order = o /\ o # 0 /\ items'[i].order = o
        BY <1>2, <1>3, <1>9, LinesStay DEF Orders
  <2>2. /\ orders[o].status = r.to /\ items[i].status # "REFUNDED" /\ out[i] = Load[{i}]
        BY <1>1, <1>3, <1>5, <1>9, Uncaused
  <2>3. orders'[o].status = s
        BY <1>3, <1>4 DEF RowsType, OrderRow
  <2>4. ~Spent(i) /\ Spent(i)'
        BY <1>2, <1>4, <2>1, <2>2, <2>3 DEF Spent, Closed
  <2> QED BY <1>6, <1>9, <2>1, <2>2, <2>4 DEF FirstReturn
<1>10. CASE i \in r.lines /\ Blamed(o)'
  <2>1. items[i].order = o /\ o # 0 /\ items'[i].order = o
        BY <1>2, <1>3, <1>10, LinesStay DEF Orders
  <2> QED BY <1>10, <2>1
<1> QED BY <1>8, <1>9, <1>10

LEMMA ItemReturns ==
  ASSUME TypeInv, Grounded, CartsApart, StatusNamed, [Next]_vars, NEW w \in Workers,
         ReturnsOwn(reqs[w]), RefundItemCommit(w),
         NEW i \in Items, NEW p \in Products
  PROVE  \/ back'[i][p] = back[i][p]
         \/ items[i].order # 0 /\ (Blamed(items[i].order)' \/ FirstReturn(i, p))
<1> USE DEF TypeInv, TypeOK
<1>1. PICK r, o : r = reqs[w] /\ o = r.order
      OBVIOUS
<1>2. GivesBack(r) /\ r.to \notin Closed /\ \A j \in r.lines : items[j].order = o
      BY <1>1 DEF RefundItemCommit, GivesBack, ReturnsOwn
<1>3. o \in Orders
      BY <1>1, <1>2, ExistingType DEF GivesBack, Grounded
<1>4. PICK k \in r.lines :
        /\ items' = IF r.qty = Qty[k] THEN [items EXCEPT ![k].status = "REFUNDED"] ELSE items
        /\ RestoreUnits(k, r.qty)
        /\ Blame(o, ReturnCauses({k}) \cup (IF r.qty = Qty[k] THEN {} ELSE {"partial"})
                      \cup Overlap(r))
      BY <1>1 DEF RefundItemCommit
<1>5. back' = [back EXCEPT ![k] = [q \in Products |-> @[q] + r.qty * PerUnit[k][q]]]
      BY <1>4 DEF RestoreUnits
<1>6. back \in [Items -> [Products -> Nat]]
      BY DEF StockType
<1>7. CASE i # k
      BY <1>5, <1>6, <1>7
<1>8. CASE i = k /\ ~Blamed(o)'
  <2>1. items[i].order = o /\ o # 0
        BY <1>2, <1>3, <1>4, <1>8 DEF Orders
  <2>2. PICK S, causes :
          /\ S = {k} /\ (r.qty # Qty[k] => "partial" \in causes)
          /\ Blame(o, causes) /\ ReturnCauses(S) \subseteq causes /\ Overlap(r) \subseteq causes
        BY <1>4
  <2>7. r.order = o /\ ~Blamed(o)'
        BY <1>1, <1>8
  <2>8. /\ orders[o].status = r.to /\ causes \cap ReturnCause = {}
        /\ \A x \in S : items[x].status # "REFUNDED" /\ out[x] = Load[{x}]
        BY <1>3, <2>2, <2>7, Uncaused
  <2>3. /\ orders[o].status = r.to /\ items[i].status # "REFUNDED" /\ out[i] = Load[{i}]
        /\ causes \cap ReturnCause = {}
        BY <1>8, <2>2, <2>8
  <2>4. r.qty = Qty[i]
        BY <1>8, <2>2, <2>3 DEF ReturnCause
  <2>5. back'[i][p] = back[i][p] + Load[{i}][p]
    <3>1. back'[i][p] = back[i][p] + r.qty * PerUnit[i][p]
          BY <1>5, <1>6, <1>8
    <3>2. Load[{i}][p] = Qty[i] * PerUnit[i][p]
          BY StockAssumption
    <3> QED BY <2>4, <3>1, <3>2
  <2>6. items'[i].status = "REFUNDED"
        BY <1>4, <1>8, <2>4 DEF RowsType
  <2> QED BY <1>2, <2>1, <2>3, <2>5, <2>6 DEF FirstReturn, Spent
<1>9. CASE i = k /\ Blamed(o)'
  <2>1. items[i].order = o /\ o # 0 /\ items'[i].order = o
        BY <1>2, <1>3, <1>4, <1>9, LinesStay DEF Orders
  <2> QED BY <1>9, <2>1
<1> QED BY <1>7, <1>8, <1>9

LEMMA GaveBackStep ==
  ASSUME TypeInv, StatusNamed, Grounded, CartsApart, Present, [Next]_vars,
         \A w \in Workers : ReturnsOwn(reqs[w]), NEW i \in Items, GaveBack(i)
  PROVE  GaveBack(i)'
<1> USE DEF TypeInv, TypeOK
<1>1. \A p \in Products : back[i][p] \in Nat /\ out[i][p] \in Nat /\ Load[{i}][p] \in Nat
      BY LoadType DEF StockType
<1>2. \A p \in Products :
        \/ back'[i][p] = back[i][p]
        \/ items[i].order # 0 /\ (Blamed(items[i].order)' \/ FirstReturn(i, p))
      BY BackMoves, WholeReturns, ItemReturns DEF Returns
<1>3. \A p \in Products : out'[i][p] = out[i][p] \/ out'[i][p] = out[i][p] + Load[{i}][p]
      BY OutMoves
<1>4. ASSUME NEW p \in Products PROVE out'[i][p] >= out[i][p] /\ out'[i][p] \in Nat
  <2>1. out[i][p] \in Nat /\ Load[{i}][p] \in Nat
        BY <1>1
  <2>2. out'[i][p] = out[i][p] \/ out'[i][p] = out[i][p] + Load[{i}][p]
        BY <1>3
  <2> QED BY <2>1, <2>2
<1>5. CASE items[i].order = 0
  <2>1. \A p \in Products : back'[i][p] = 0
        BY <1>2, <1>5 DEF GaveBack
  <2> QED BY <1>4, <2>1 DEF GaveBack
<1>6. CASE items[i].order # 0
  <2>1. PICK o \in Orders : items[i].order = o /\ items'[i].order = o /\ o # 0
        BY <1>6, LinesStay DEF RowsType, Orders
  <2> SUFFICES ASSUME ~Blamed(o)', NEW p \in Products
               PROVE  back'[i][p] <= out'[i][p] /\ (back'[i][p] # 0 => Spent(i)')
      BY <2>1 DEF GaveBack
  <2>2. ~Blamed(o)
        BY WhyGrows DEF Blamed
  <2>3. back[i][p] <= out[i][p] /\ (back[i][p] # 0 => Spent(i))
        BY <2>1, <2>2 DEF GaveBack
  <2>4. CASE back'[i][p] = back[i][p]
    <3>1. Spent(i) => Spent(i)'
          BY <2>1, StaysSpent
    <3> QED BY <1>1, <1>4, <2>3, <2>4, <3>1
  <2>5. CASE FirstReturn(i, p)
    <3>1. back[i][p] = 0 /\ Spent(i)'
          BY <2>3, <2>5 DEF FirstReturn
    <3>2. back'[i][p] = Load[{i}][p] /\ out[i][p] = Load[{i}][p]
          BY <1>1, <2>5, <3>1 DEF FirstReturn
    <3> QED BY <1>1, <1>4, <3>1, <3>2
  <2> QED BY <1>2, <2>1, <2>4, <2>5
<1> QED BY <1>5, <1>6

LEMMA ReturnInit == Init => ReturnInv
<1> SUFFICES ASSUME Init PROVE ReturnInv
    OBVIOUS
<1>1. \A w \in Workers : reqs[w] = Idle
      BY DEF Init
<1>2. \A i \in Items : items[i].order = 0 /\ \A p \in Products : back[i][p] = 0
      BY DEF Init
<1> QED BY <1>1, <1>2, IdleIs DEF ReturnInv, ReturnsOwn, GivesBack, GaveBack

LEMMA ReturnStep ==
  TypeInv /\ TotalInv /\ PaidInv /\ FireInv /\ ReturnInv /\ [Next]_vars => ReturnInv'
<1> SUFFICES ASSUME TypeInv, TotalInv, PaidInv, FireInv, ReturnInv, [Next]_vars
             PROVE  ReturnInv'
    OBVIOUS
<1>1. StatusNamed /\ Grounded /\ CartsApart /\ Present
      BY DEF TotalInv, PaidInv, FireInv
<1>2. \A w \in Workers : ReturnsOwn(reqs[w]) /\ ReturnsOwn(reqs[w])'
      BY <1>1, ReturnsOwnStep DEF ReturnInv
<1>3. \A i \in Items : GaveBack(i)'
      BY <1>1, <1>2, GaveBackStep DEF ReturnInv
<1> QED BY <1>2, <1>3 DEF ReturnInv

\* A line gives back more stock than it took only when its order was cancelled
\* or refunded by two at once, opened again after that, or returned a line that
\* was refunded, relabelled, partly returned or never taken (voidOrder,
\* refundOrder, refundItem).
THEOREM ReturnCorrect == Spec => []OverReturnHasCause
<1>1. TypeInv /\ ReturnInv => OverReturnHasCause
  <2> SUFFICES ASSUME TypeInv, ReturnInv, NEW i \in Items, NEW p \in Products,
                      back[i][p] > out[i][p]
               PROVE  items[i].order # 0 /\ Blamed(items[i].order)
      BY DEF OverReturnHasCause, Blamed
  <2>1. back[i][p] \in Nat /\ out[i][p] \in Nat
        BY DEF TypeInv, TypeOK, StockType
  <2>2. GaveBack(i)
        BY DEF ReturnInv
  <2> QED BY <2>1, <2>2 DEF GaveBack
<1>2. Spec => [](TypeInv /\ KitchenInv)
      BY TypeInit, TypeStep, KitchenInit, KitchenStep, PTL DEF Spec
<1>3. Spec => [](TotalInv /\ PaidInv)
      BY <1>2, TotalInit, TotalStep, PaidInit, PaidStep, PTL DEF Spec
<1>4. Spec => []DrawerInv
      BY <1>2, <1>3, DrawerInit, DrawerStep, PTL DEF Spec
<1>5. Spec => []FireInv
      BY <1>2, <1>3, <1>4, FireInit, FireStep, PTL DEF Spec
<1> QED BY <1>1, <1>2, <1>3, <1>5, ReturnInit, ReturnStep, PTL DEF Spec

=============================================================================
