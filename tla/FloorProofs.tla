----------------------------- MODULE FloorProofs -----------------------------
(***************************************************************************)
(* Proofs about Floor for any tables, orders, requests and statuses.  What *)
(* a request has read is still so unless another one overtook it, and an   *)
(* order that waits sits at a table that is doubted, shown OCCUPIED, or    *)
(* about to be written by a request that has written the order.            *)
(***************************************************************************)
EXTENDS Floor, TLAPS, NaturalsInduction, WellFoundedInduction

-----------------------------------------------------------------------------
(* The invariant.                                                          *)

\* What a request has, overtaken or not.
Well(r) ==
  /\ r.op = "idle" => r.order = 0 /\ r.at = ""
  /\ r.op \in {"create", "split", "assign", "void", "row", "merge"} => r.at = "write"
  /\ r.op = "status" => r.at = "write" \/ (r.at = "table" /\ r.table \in Tables)
  /\ r.op = "checkout" => r.at \in {"write", "table"} /\ r.order = 0
  /\ r.op = "move" => /\ r.at \in {"source", "clear", "seat", "occupy"}
                      /\ r.target \in Tables
  /\ r.op \in {"move", "merge", "checkout", "assign"} => r.table \in Tables
  /\ r.op \in {"split", "assign", "status", "void", "row"} => r.order \in Orders
  /\ r.op = "move" /\ r.at # "source" => r.order \in Orders
  /\ r.op = "create" /\ r.order # 0 => r.table \in Tables
  /\ r.op = "row" => r.to \in {"PENDING", "REFUNDED"}

TypeInv == TypeOK /\ \A w \in Workers : Well(reqs[w])

\* An order that waits to be paid at a table, or will when its time comes.
Waits(o) == /\ orders[o].status \in Active \cup {"SCHEDULED"}
            /\ orders[o].table # NoTable /\ orders[o].due > 0

\* What request r read or wrote is still so.
Holds(r) ==
  /\ r.op = "create" /\ r.table # NoTable =>
       IF r.order = 0 THEN OpenAt(r.table) = {} ELSE orders[r.order].table = r.table
  /\ r.op = "assign" => orders[r.order].due = r.due
  /\ r.op = "row" /\ r.to = "PENDING" => orders[r.order].status = "SCHEDULED"
  /\ r.op = "status" /\ r.at = "table" =>
       orders[r.order].table = r.table /\ (r.free => ~Waits(r.order))
  /\ r.op = "checkout" => SeatedAt(r.table) \subseteq IF r.at = "write" THEN r.todo ELSE {}
Fresh(r) == r.stale \/ Holds(r)

\* Request r has still to write table t for order o.
Owes(r, o, t) ==
  /\ r.order = o
  /\ \/ r.at = "seat" /\ r.table = t
     \/ r.at = "occupy" /\ r.target = t
     \/ r.at = "table" /\ r.table = t
Owed(o, t) == \E w \in Workers : Owes(reqs[w], o, t)

Kept(o) == tables[orders[o].table].status = "OCCUPIED" \/ Owed(o, orders[o].table)
Seen == \A o \in Orders : Waits(o) => orders[o].table \in doubted \/ Kept(o)

\* The orders that wait at the target of a move are about to be shown there.
Apart(r) ==
  r.op = "move" /\ r.at # "occupy" =>
    \/ r.stale
    \/ r.target \in doubted
    \/ \A o \in Orders : Waits(o) /\ orders[o].table = r.target => Owed(o, r.target)

FloorInv ==
  /\ TypeInv
  /\ \A w \in Workers : Fresh(reqs[w])
  /\ Seen
  /\ \A w \in Workers : Apart(reqs[w])

-----------------------------------------------------------------------------
(* The request that steps, and the others.                                 *)

LEMMA IdleType == Idle \in Request /\ Well(Idle)
BY FloorAssumption DEF Idle, Request, Well, Ops, Steps, Status, Seats

LEMMA IdleFields ==
  /\ Idle.op = "idle" /\ Idle.at = "" /\ Idle.order = 0 /\ Idle.todo = {}
  /\ Idle.table = NoTable /\ Idle.target = NoTable
BY DEF Idle

LEMMA IdleFresh == Holds(Idle) /\ Apart(Idle) /\ Holds(Idle)' /\ Apart(Idle)'
BY DEF Holds, Apart, Idle

\* What a request at work knows when it is not overtaken.
LEMMA Unknown ==
  ASSUME NEW r, NEW O, NEW T, r.op # "idle", ~Knows(r, O, T)
  PROVE  r.order \notin O /\ r.todo \cap O = {} /\ r.table \notin T /\ r.target \notin T
<1>1. r # Idle
      BY IdleFields
<1> QED BY <1>1 DEF Knows

\* s is request r after another one wrote the orders O and the tables T.
Later(r, s, O, T) ==
  /\ s.op = r.op /\ s.at = r.at /\ s.order = r.order /\ s.to = r.to
  /\ s.table = r.table /\ s.target = r.target /\ s.due = r.due
  /\ s.free = r.free /\ s.todo = r.todo
  /\ s.stale \/ (~r.stale /\ ~Knows(r, O, T))

LEMMA AgedFields ==
  ASSUME NEW r \in Request, NEW B \in BOOLEAN
  PROVE  LET s == [r EXCEPT !.stale = B]
         IN /\ s \in Request /\ s.stale = B
            /\ s.op = r.op /\ s.at = r.at /\ s.order = r.order /\ s.to = r.to
            /\ s.table = r.table /\ s.target = r.target /\ s.due = r.due
            /\ s.free = r.free /\ s.todo = r.todo
BY DEF Request

LEMMA StepLater ==
  ASSUME TypeInv, NEW w \in Workers, NEW k, NEW O, NEW T, Step(w, k, O, T), k \in Request
  PROVE  /\ reqs'[w] = k
         /\ reqs' \in [Workers -> Request]
         /\ \A x \in Workers \ {w} : Later(reqs[x], reqs'[x], O, T \cap Tables)
<1> DEFINE B(x) == reqs[x].stale \/ Knows(reqs[x], O, T \cap Tables)
<1>1. reqs' = [x \in Workers |-> IF x = w THEN k ELSE [reqs[x] EXCEPT !.stale = B(x)]]
      BY DEF Step
<1>2. ASSUME NEW x \in Workers \ {w}
      PROVE  reqs'[x] \in Request /\ Later(reqs[x], reqs'[x], O, T \cap Tables)
  <2>1. reqs[x] \in Request
        BY DEF TypeInv, TypeOK
  <2>2. B(x) \in BOOLEAN
    <3>1. reqs[x].stale \in BOOLEAN
          BY <2>1 DEF Request
    <3> QED BY <3>1 DEF Knows
  <2>3. reqs'[x] = [reqs[x] EXCEPT !.stale = B(x)]
        BY <1>1
  <2>4. B(x) = (reqs[x].stale \/ Knows(reqs[x], O, T \cap Tables))
        OBVIOUS
  <2> HIDE DEF B
  <2>5. /\ reqs'[x] \in Request /\ reqs'[x].stale = B(x)
        /\ reqs'[x].op = reqs[x].op /\ reqs'[x].at = reqs[x].at
        /\ reqs'[x].order = reqs[x].order /\ reqs'[x].to = reqs[x].to
        /\ reqs'[x].table = reqs[x].table /\ reqs'[x].target = reqs[x].target
        /\ reqs'[x].due = reqs[x].due
        /\ reqs'[x].free = reqs[x].free /\ reqs'[x].todo = reqs[x].todo
        BY <2>1, <2>2, <2>3, AgedFields
  <2>6. reqs'[x].stale \/ ~B(x)
        BY <2>2, <2>5
  <2>7. reqs'[x].stale \/ (~reqs[x].stale /\ ~Knows(reqs[x], O, T \cap Tables))
        BY <2>4, <2>6
  <2> QED BY <2>5, <2>7 DEF Later
<1>3. reqs'[w] = k
      BY <1>1
<1>4. \A x \in Workers : reqs'[x] \in Request
      BY <1>2, <1>3
<1>5. reqs' = [x \in Workers |-> reqs'[x]]
      BY <1>1
<1> QED BY <1>2, <1>3, <1>4, <1>5

LEMMA LaterOwes ==
  ASSUME NEW r, NEW s, NEW O, NEW T, Later(r, s, O, T), NEW o, NEW t
  PROVE  Owes(s, o, t) <=> Owes(r, o, t)
BY DEF Later, Owes

LEMMA LaterWell ==
  ASSUME NEW r, NEW s, NEW O, NEW T, Later(r, s, O, T), Well(r)
  PROVE  Well(s)
BY DEF Later, Well

\* A step of request w writes the orders O; it writes, seats or unseats an order at
\* the tables T, and writes those of U.  What the others have read is still so unless
\* they knew one of them, and the invariant is left to show for w, for the orders it
\* wrote and for the orders at U.
LEMMA WriteStep ==
  ASSUME FloorInv, NEW w \in Workers, NEW O, NEW T \in SUBSET Tables, NEW U \in SUBSET T,
         TypeOK',
         \A x \in Workers \ {w} : Later(reqs[x], reqs'[x], O, T),
         \A o \in Orders : o \notin O => orders'[o] = orders[o],
         \A o \in Orders : o \in O => orders'[o].table \in T \cup {NoTable},
         \A t \in Tables \ U : tables'[t] = tables[t],
         doubted \subseteq doubted',
         Well(reqs'[w]), Fresh(reqs[w])',
         \/ Apart(reqs[w])'
         \/ /\ reqs[w].op = "move" /\ reqs[w].at # "occupy" /\ reqs[w].target \notin T
            /\ reqs'[w].target = reqs[w].target /\ (reqs[w].stale => reqs'[w].stale),
         \A o \in Orders, t \in Tables : Owes(reqs[w], o, t) /\ orders'[o].table = t =>
            Owes(reqs'[w], o, t) \/ t \in U \/ t \in doubted',
         \A o \in Orders : Waits(o)' /\ (o \in O \/ orders'[o].table \in U) =>
            \/ orders'[o].table \in doubted'
            \/ Kept(o)'
            \/ Waits(o) /\ orders[o].table = orders'[o].table /\ orders'[o].table \notin U
  PROVE  FloorInv'
<1>1. TypeInv'
      BY LaterWell DEF FloorInv, TypeInv
<1>2. ASSUME NEW o \in Orders, orders'[o].table \in Tables \ T
      PROVE  orders'[o] = orders[o]
      BY <1>2, FloorAssumption
<1>3. ASSUME NEW o \in Orders, NEW t \in Tables \ U, Owed(o, t), orders'[o].table = t
      PROVE  Owed(o, t)' \/ t \in doubted'
  <2>1. PICK x \in Workers : Owes(reqs[x], o, t)
        BY <1>3 DEF Owed
  <2>2. CASE x = w
    <3>1. Owes(reqs'[w], o, t) \/ t \in doubted'
          BY <1>3, <2>1, <2>2
    <3> QED BY <3>1 DEF Owed, Owes
  <2>3. CASE x # w
    <3>1. Owes(reqs'[x], o, t)
          BY <2>1, <2>3, LaterOwes
    <3> QED BY <3>1 DEF Owed, Owes
  <2> QED BY <2>2, <2>3
<1>4. ASSUME NEW o \in Orders PROVE Waits(o)' => orders'[o].table \in Tables
      BY <1>1 DEF Waits, TypeInv, TypeOK, OrderRow, Seats
<1>5. Seen'
  <2> SUFFICES ASSUME NEW o \in Orders, Waits(o)', NEW t, t = orders'[o].table
               PROVE  t \in doubted' \/ Kept(o)'
      BY DEF Seen
  <2>1. CASE Waits(o) /\ orders[o].table = t /\ t \notin U
    <3>1. t \in Tables \ U /\ tables'[t] = tables[t]
          BY <1>4, <2>1
    <3>2. t \in doubted \/ Kept(o)
          BY <2>1 DEF FloorInv, Seen
    <3>3. CASE tables[t].status = "OCCUPIED"
          BY <3>1, <3>3 DEF Kept
    <3>4. CASE Owed(o, t)
      <4>1. Owed(o, t)' \/ t \in doubted'
            BY <1>3, <3>1, <3>4
      <4> QED BY <4>1 DEF Kept
    <3> QED BY <2>1, <3>2, <3>3, <3>4 DEF Kept
  <2>2. CASE o \in O \/ t \in U
        BY <2>1, <2>2
  <2>3. CASE o \notin O /\ t \notin U
    <3>1. orders'[o] = orders[o]
          BY <2>3
    <3> QED BY <2>1, <2>3, <3>1 DEF Waits
  <2> QED BY <2>2, <2>3
<1>6. ASSUME NEW x \in Workers \ {w} PROVE Fresh(reqs[x])'
  <2> DEFINE r == reqs[x]
  <2>0. reqs'[x].order = r.order /\ reqs'[x].table = r.table
        BY DEF Later
  <2>1. CASE reqs'[x].stale
        BY <2>1 DEF Fresh
  <2>2. CASE ~reqs'[x].stale
    <3>1. ~r.stale /\ ~Knows(r, O, T) /\ Holds(r) /\ Later(r, reqs'[x], O, T)
          BY <2>2 DEF Later, FloorInv, Fresh
    <3>2. r \in Request /\ Well(r)
          BY DEF FloorInv, TypeInv, TypeOK
    <3>3. ASSUME r.op # "idle"
          PROVE r.order \notin O /\ r.todo \cap O = {} /\ r.table \notin T
          BY <3>1, <3>3, Unknown
    <3>4. ASSUME r.op # "idle", r.table # NoTable
          PROVE  OpenAt(r.table)' \subseteq OpenAt(r.table) /\ SeatedAt(r.table)' \subseteq SeatedAt(r.table)
      <4>1. r.table \in Tables
            BY <3>2, <3>4 DEF Request, Seats
      <4>2. r.table \in Tables \ T
            BY <3>3, <3>4, <4>1
      <4> QED BY <2>0, <1>2, <4>2 DEF OpenAt, SeatedAt, Existing
    <3>5. r.op # "idle" /\ r.order \in Orders => orders'[r.order] = orders[r.order]
          BY <3>3
    <3>6. r.order # 0 => r.order \in Orders
          BY <3>2, FloorAssumption DEF Request, Orders
    <3>7. Holds(reqs[x])'
      <4>1. ASSUME r.op = "create", r.table # NoTable
            PROVE  IF r.order = 0 THEN OpenAt(r.table)' = {} ELSE orders'[r.order].table = r.table
        <5>1. r.op # "idle"
              BY <4>1
        <5> QED BY <3>1, <3>4, <3>5, <3>6, <4>1, <5>1 DEF Holds
      <4>2. ASSUME r.op = "assign" PROVE orders'[r.order].due = r.due
            BY <3>1, <3>2, <3>5, <4>2 DEF Holds, Well
      <4>3. ASSUME r.op = "row", r.to = "PENDING" PROVE orders'[r.order].status = "SCHEDULED"
            BY <3>1, <3>2, <3>5, <4>3 DEF Holds, Well
      <4>4. ASSUME r.op = "status", r.at = "table"
            PROVE  orders'[r.order].table = r.table /\ (r.free => ~Waits(r.order)')
        <5>1. r.op # "idle" /\ r.order \in Orders
              BY <3>2, <4>4 DEF Well
        <5>2. orders'[r.order] = orders[r.order]
              BY <3>5, <5>1
        <5> QED BY <2>0, <3>1, <4>4, <5>2 DEF Holds, Waits
      <4>5. ASSUME r.op = "checkout"
            PROVE  SeatedAt(r.table)' \subseteq IF r.at = "write" THEN r.todo ELSE {}
        <5>1. r.table # NoTable
              BY <3>2, <4>5, FloorAssumption DEF Well
        <5> QED BY <3>1, <3>4, <4>5, <5>1 DEF Holds
      <4> QED BY <3>1, <4>1, <4>2, <4>3, <4>4, <4>5 DEF Holds, Later, OpenAt, SeatedAt, Existing, Waits
    <3> QED BY <3>7 DEF Fresh
  <2> QED BY <2>1, <2>2
<1>7. ASSUME NEW x \in Workers, NEW r, r = reqs[x], r.op = "move", r.at # "occupy",
             r.target \notin T, reqs'[x].target = r.target, r.stale => reqs'[x].stale
      PROVE  Apart(reqs[x])'
  <2> SUFFICES ASSUME ~r.stale, r.target \notin doubted',
                      NEW o \in Orders, Waits(o)', orders'[o].table = r.target
               PROVE  Owed(o, r.target)'
      BY <1>7 DEF Apart, Owed
  <2>1. Well(r)
        BY <1>7 DEF FloorInv, TypeInv
  <2>2. r.target \in Tables \ T
        BY <1>7, <2>1 DEF Well
  <2>3. orders'[o] = orders[o] /\ Waits(o)
        BY <1>2, <2>2 DEF Waits
  <2>4. r.target \notin doubted /\ orders[o].table = r.target
        BY <2>3
  <2>5. Owed(o, r.target)
        BY <1>7, <2>3, <2>4 DEF FloorInv, Apart
  <2> QED BY <1>3, <2>2, <2>5
<1>8. ASSUME NEW x \in Workers \ {w} PROVE Apart(reqs[x])'
  <2>1. CASE reqs'[x].op = "move" /\ reqs'[x].at # "occupy" /\ ~reqs'[x].stale
    <3>1. /\ reqs[x].op = "move" /\ reqs[x].at # "occupy" /\ ~reqs[x].stale
          /\ reqs'[x].target = reqs[x].target /\ ~Knows(reqs[x], O, T)
          BY <2>1 DEF Later
    <3>2. reqs[x].target \notin T
          BY <3>1, Unknown
    <3> QED BY <1>7, <3>1, <3>2
  <2> QED BY <2>1 DEF Apart
<1>9. Apart(reqs[w])'
      BY <1>7
<1> QED BY <1>1, <1>5, <1>6, <1>8, <1>9 DEF FloorInv

-----------------------------------------------------------------------------
(* The same for the operators Step and Begin of Floor.                     *)

Rows ==
  /\ orders \in [Orders -> OrderRow] /\ tables \in [Tables -> TableRow]
  /\ nextId \in 1 .. MaxOrders + 1 /\ served \in 0 .. MaxRequests
  /\ joined \in SUBSET Orders /\ doubted \in SUBSET Tables

\* What is written, and what request r that goes on as k still answers for.
Written(O, T, U) ==
  /\ \A o \in Orders : o \notin O => orders'[o] = orders[o]
  /\ \A o \in Orders : o \in O => orders'[o].table \in T \cup {NoTable}
  /\ \A t \in Tables : t \notin U => tables'[t] = tables[t]
  /\ doubted \subseteq doubted'
Ahead(r, k, T) ==
  \/ Apart(k)'
  \/ /\ r.op = "move" /\ r.at # "occupy" /\ r.target \notin T
     /\ k.target = r.target /\ (r.stale => k.stale)
Handed(r, k, U) ==
  \A o \in Orders, t \in Tables : Owes(r, o, t) /\ orders'[o].table = t =>
     Owes(k, o, t) \/ t \in U \/ t \in doubted'
Answered(O, U) ==
  \A o \in Orders : Waits(o)' /\ (o \in O \/ orders'[o].table \in U) =>
     \/ orders'[o].table \in doubted'
     \/ Kept(o)'
     \/ Waits(o) /\ orders[o].table = orders'[o].table /\ orders'[o].table \notin U

LEMMA StepInv ==
  ASSUME FloorInv, NEW w \in Workers, NEW r, r = reqs[w], NEW k \in Request,
         NEW O, NEW T, NEW U \in SUBSET (T \cap Tables), Step(w, k, O, T), Rows',
         Written(O, T, U), Well(k), k.stale \/ Holds(k)', Ahead(r, k, T),
         Handed(r, k, U), Answered(O, U)
  PROVE  FloorInv'
<1>1. /\ reqs'[w] = k
      /\ reqs' \in [Workers -> Request]
      /\ \A x \in Workers \ {w} : Later(reqs[x], reqs'[x], O, T \cap Tables)
      BY StepLater DEF FloorInv
<1>2. TypeOK'
      BY <1>1 DEF Rows, TypeOK
<1>3. \A o \in Orders : o \in O => orders'[o].table \in (T \cap Tables) \cup {NoTable}
      BY DEF Written, Rows, OrderRow, Seats
<1>4. Fresh(reqs[w])'
      BY <1>1 DEF Fresh
<1>5. \/ Apart(reqs[w])'
      \/ /\ reqs[w].op = "move" /\ reqs[w].at # "occupy" /\ reqs[w].target \notin T \cap Tables
         /\ reqs'[w].target = reqs[w].target /\ (reqs[w].stale => reqs'[w].stale)
      BY <1>1 DEF Ahead
<1>6. /\ \A o \in Orders : o \notin O => orders'[o] = orders[o]
      /\ \A t \in Tables \ U : tables'[t] = tables[t]
      /\ doubted \subseteq doubted'
      BY DEF Written
<1>7. \A o \in Orders, t \in Tables : Owes(reqs[w], o, t) /\ orders'[o].table = t =>
         Owes(reqs'[w], o, t) \/ t \in U \/ t \in doubted'
      BY <1>1 DEF Handed
<1>8. \A o \in Orders : Waits(o)' /\ (o \in O \/ orders'[o].table \in U) =>
         \/ orders'[o].table \in doubted'
         \/ Kept(o)'
         \/ Waits(o) /\ orders[o].table = orders'[o].table /\ orders'[o].table \notin U
      BY DEF Answered
<1>9. Well(reqs'[w])
      BY <1>1
<1> DEFINE V == T \cap Tables
<1>10. V \in SUBSET Tables /\ U \in SUBSET V
      OBVIOUS
<1> HIDE DEF V
<1> QED BY <1>1, <1>2, <1>3, <1>4, <1>5, <1>6, <1>7, <1>8, <1>9, <1>10, WriteStep DEF V

LEMMA BeginStep ==
  ASSUME FloorInv, NEW w \in Workers, NEW k \in Request, Begin(w, k),
         UNCHANGED <<orders, tables, nextId, joined, doubted>>, Well(k), Holds(k),
         k.op = "move" => \A o \in Orders : Waits(o) /\ orders[o].table = k.target =>
                            k.target \in doubted \/ Owed(o, k.target)
  PROVE  FloorInv'
<1>1. /\ reqs'[w] = k /\ reqs' \in [Workers -> Request]
      /\ \A x \in Workers \ {w} : reqs'[x] = reqs[x]
      BY DEF Begin, FloorInv, TypeInv, TypeOK
<1>2. served' \in 0 .. MaxRequests
      BY FloorAssumption DEF Begin, FloorInv, TypeInv, TypeOK
<1>3. TypeOK'
      BY <1>1, <1>2 DEF FloorInv, TypeInv, TypeOK
<1>4. \A x \in Workers \ {w} : Later(reqs[x], reqs'[x], {}, {})
  <2> TAKE x \in Workers \ {w}
  <2>1. reqs[x].stale \in BOOLEAN
        BY DEF FloorInv, TypeInv, TypeOK, Request
  <2> QED BY <1>1, <2>1 DEF Later, Knows
<1>5. reqs[w].at = ""
      BY IdleFields DEF Begin
<1>6. ASSUME NEW o, NEW t, Owed(o, t) PROVE Owed(o, t)'
  <2>1. PICK x \in Workers : Owes(reqs[x], o, t)
        BY <1>6 DEF Owed
  <2>2. x # w
        BY <1>5, <2>1 DEF Owes
  <2> QED BY <1>1, <2>1, <2>2 DEF Owed, Owes
<1>7. Fresh(reqs[w])'
      BY <1>1 DEF Fresh, Holds, OpenAt, SeatedAt, Existing, Waits
<1>8. Apart(reqs[w])'
      BY <1>1, <1>6 DEF Apart, Waits
<1>9. \A o \in Orders, t \in Tables : ~Owes(reqs[w], o, t)
      BY <1>5 DEF Owes
<1> QED BY <1>1, <1>3, <1>4, <1>7, <1>8, <1>9, WriteStep

-----------------------------------------------------------------------------
(* A request that begins has just read what it goes by.                    *)

LEMMA RowTypes ==
  ASSUME FloorInv
  PROVE  /\ Rows
         /\ \A o \in Orders : /\ orders[o].status \in Status /\ orders[o].table \in Seats
                               /\ orders[o].due \in Int
         /\ \A w \in Workers : reqs[w] \in Request /\ Well(reqs[w]) /\ Fresh(reqs[w])
BY DEF FloorInv, TypeInv, TypeOK, Rows, OrderRow

\* The newest of a set of orders is one of them.
LEMMA NewestType == ASSUME NEW S \in SUBSET Orders, S # {} PROVE Newest(S) \in S
<1> DEFINE R == {ss \in Nat \X Nat : ss[1] < ss[2]}
           T == {MaxOrders - x : x \in S}
<1>1. IsWellFoundedOn(R, Nat)
      BY NatLessThanWellFounded DEF OpToRel
<1>2. T \subseteq Nat /\ T # {}
  <2>1. \A x \in S : MaxOrders - x \in Nat
        BY FloorAssumption DEF Orders
  <2> QED BY <2>1
<1>3. PICK a \in T : \A b \in T : <<b, a>> \notin R
  <2> HIDE DEF R, T
  <2> QED BY <1>1, <1>2, WFMin
<1>4. ASSUME NEW b \in T PROVE a <= b
  <2>1. a \in Nat /\ b \in Nat
        BY <1>2
  <2>2. ~(b < a)
        BY <1>3, <2>1
  <2> QED BY <2>1, <2>2
<1>5. PICK x \in S : a = MaxOrders - x
      OBVIOUS
<1>6. ASSUME NEW y \in S PROVE y <= x
  <2>1. x \in Int /\ y \in Int /\ MaxOrders \in Int
        BY FloorAssumption DEF Orders
  <2>2. MaxOrders - x <= MaxOrders - y
        BY <1>4, <1>5
  <2> QED BY <2>1, <2>2
<1> QED BY <1>6 DEF Newest

LEMMA CreateReadInv ==
  ASSUME FloorInv, NEW w \in Workers, CreateRead(w) PROVE FloorInv'
<1> DEFINE Open(t) == IF t = NoTable THEN 0 ELSE Newest(OpenAt(t))
           Tab(t, cart) == IF Open(t) = 0 THEN cart ELSE orders[Open(t)].due + cart
<1>0. PICK t \in Seats, cart \in 0 .. 1, asked \in {"none", "HELD", "SCHEDULED"} :
        \E paid \in {0, cart, Tab(t, cart)} :
          /\ cart = 0 => Open(t) # 0
          /\ paid >= 0
          /\ Begin(w, [Idle EXCEPT !.op = "create", !.at = "write", !.order = Open(t),
                         !.to = StatusFor(Open(t), cart - paid, asked), !.table = t,
                         !.due = cart - paid])
          /\ UNCHANGED <<orders, tables, nextId, joined, doubted>>
      BY DEF CreateRead
<1>1. PICK open, tab, paid :
        /\ open = IF t = NoTable THEN 0 ELSE Newest(OpenAt(t))
        /\ tab = IF open = 0 THEN cart ELSE orders[open].due + cart
        /\ paid \in {0, cart, tab}
        /\ Begin(w, [Idle EXCEPT !.op = "create", !.at = "write", !.order = open,
                       !.to = StatusFor(open, cart - paid, asked), !.table = t,
                       !.due = cart - paid])
        /\ UNCHANGED <<orders, tables, nextId, joined, doubted>>
  <2>1. PICK paid \in {0, cart, Tab(t, cart)} :
          /\ Begin(w, [Idle EXCEPT !.op = "create", !.at = "write", !.order = Open(t),
                         !.to = StatusFor(Open(t), cart - paid, asked), !.table = t,
                         !.due = cart - paid])
          /\ UNCHANGED <<orders, tables, nextId, joined, doubted>>
        BY <1>0
  <2>2. PICK open, tab : open = Open(t) /\ tab = Tab(t, cart)
        OBVIOUS
  <2> QED BY <2>1, <2>2
<1>2. OpenAt(t) \in SUBSET Orders
      BY DEF OpenAt, Existing
<1>3. open # 0 => open \in OpenAt(t) /\ t # NoTable
      BY <1>1, <1>2, NewestType DEF Newest
<1>4. open = 0 /\ t # NoTable => OpenAt(t) = {}
  <2>1. 0 \notin Orders
        BY DEF Orders
  <2> QED BY <1>1, <1>2, <2>1, NewestType
<1>5. open \in 0 .. MaxOrders /\ (open # 0 => open \in Orders)
      BY <1>2, <1>3, FloorAssumption DEF Orders
<1>6. cart - paid \in Int
      BY <1>1, <1>5, RowTypes
<1>7. StatusFor(open, cart - paid, asked) \in Status
      BY <1>5, RowTypes DEF StatusFor, Status, Active, Finished
<1>8. PICK k : k = [Idle EXCEPT !.op = "create", !.at = "write", !.order = open,
                      !.to = StatusFor(open, cart - paid, asked), !.table = t,
                      !.due = cart - paid]
      OBVIOUS
<1>9. /\ k \in Request /\ k.op = "create" /\ k.at = "write" /\ k.order = open
      /\ k.table = t
      BY <1>5, <1>6, <1>7, <1>8, IdleType DEF Idle, Request, Ops, Steps
<1>10. Well(k)
  <2>1. t # NoTable => t \in Tables
        BY DEF Seats
  <2> QED BY <1>3, <1>9, <2>1 DEF Well
<1>11. Holds(k)
      BY <1>3, <1>4, <1>9 DEF Holds, OpenAt
<1> QED BY <1>1, <1>8, <1>9, <1>10, <1>11, BeginStep

\* The handlers that read one order: they know its row.
LEMMA OrderReadInv ==
  ASSUME FloorInv, NEW w \in Workers,
         SplitRead(w) \/ AssignRead(w) \/ StatusRead(w) \/ VoidRead(w) \/ RowRead(w)
  PROVE  FloorInv'
<1>0. Orders \subseteq 0 .. MaxOrders /\ Tables \subseteq Seats /\ NoTable \in Seats
      BY FloorAssumption DEF Orders, Seats
<1>1. ASSUME NEW k \in Request, k.op \in {"split", "assign", "status", "void", "row"},
             k.at = "write", k.order \in Orders,
             k.op = "assign" => k.table \in Tables /\ k.due = orders[k.order].due,
             k.op = "row" => k.to \in {"PENDING", "REFUNDED"},
             k.op = "row" /\ k.to = "PENDING" => orders[k.order].status = "SCHEDULED",
             Begin(w, k), UNCHANGED <<orders, tables, nextId, joined, doubted>>
      PROVE  FloorInv'
  <2>1. Well(k)
        BY <1>1 DEF Well
  <2>2. Holds(k)
        BY <1>1 DEF Holds
  <2>3. k.op # "move"
        BY <1>1
  <2> QED BY <1>1, <2>1, <2>2, <2>3, BeginStep
<1>2. Existing \subseteq Orders
      BY DEF Existing
<1>3. "none" \in Status /\ "PENDING" \in Status /\ "REFUNDED" \in Status
      /\ StaffStatuses \subseteq Status
      BY FloorAssumption DEF Status, Active
<1>4. CASE SplitRead(w)
  <2>1. PICK o \in Existing :
          /\ Begin(w, [Idle EXCEPT !.op = "split", !.at = "write", !.order = o,
                         !.table = orders[o].table, !.due = 2])
          /\ UNCHANGED <<orders, tables, nextId, joined, doubted>>
        BY <1>4 DEF SplitRead
  <2>2. PICK k : k = [Idle EXCEPT !.op = "split", !.at = "write",
                        !.order = o, !.table = orders[o].table, !.due = 2]
        OBVIOUS
  <2>3. o \in Orders /\ orders[o].table \in Seats /\ 2 \in Int
        BY <1>2, RowTypes
  <2>4. /\ k \in Request /\ k.op = "split" /\ k.at = "write" /\ k.order = o
        /\ k.to = "none" /\ k.table = orders[o].table /\ k.due = 2
        BY <1>0, <1>3, <2>1, <2>2, <2>3, IdleType DEF Idle, Request, Ops, Steps
  <2>5. Begin(w, k) /\ UNCHANGED <<orders, tables, nextId, joined, doubted>>
        BY <2>1, <2>2
  <2> QED BY <1>1, <2>1, <2>4, <2>5, <2>3
<1>5. CASE AssignRead(w)
  <2>1. PICK o \in Existing, t \in Tables :
          /\ Begin(w, [Idle EXCEPT !.op = "assign", !.at = "write", !.order = o, !.table = t,
                         !.due = orders[o].due])
          /\ UNCHANGED <<orders, tables, nextId, joined, doubted>>
        BY <1>5 DEF AssignRead
  <2>2. PICK k : k = [Idle EXCEPT !.op = "assign", !.at = "write",
                        !.order = o, !.table = t, !.due = orders[o].due]
        OBVIOUS
  <2>3. o \in Orders /\ orders[o].table \in Seats /\ orders[o].due \in Int
        BY <1>2, RowTypes
  <2>4. /\ k \in Request /\ k.op = "assign" /\ k.at = "write" /\ k.order = o
        /\ k.to = "none" /\ k.table = t /\ k.due = orders[o].due
        BY <1>0, <1>3, <2>1, <2>2, <2>3, IdleType DEF Idle, Request, Ops, Steps
  <2>5. Begin(w, k) /\ UNCHANGED <<orders, tables, nextId, joined, doubted>>
        BY <2>1, <2>2
  <2> QED BY <1>1, <2>1, <2>4, <2>5, <2>3
<1>6. CASE StatusRead(w)
  <2>1. PICK o \in Existing, to \in StaffStatuses :
          /\ Begin(w, [Idle EXCEPT !.op = "status", !.at = "write", !.order = o, !.to = to,
                         !.due = IF to = "COMPLETED" /\ orders[o].due > 0
                                 THEN orders[o].due ELSE 0])
          /\ UNCHANGED <<orders, tables, nextId, joined, doubted>>
        BY <1>6 DEF StatusRead
  <2> DEFINE d == IF to = "COMPLETED" /\ orders[o].due > 0 THEN orders[o].due ELSE 0
  <2>2. PICK k : k = [Idle EXCEPT !.op = "status", !.at = "write",
                        !.order = o, !.to = to, !.due = d]
        OBVIOUS
  <2>3. d \in Int
        BY <1>2, <2>1, RowTypes
  <2>4. o \in Orders /\ orders[o].table \in Seats /\ orders[o].due \in Int
        BY <1>2, RowTypes
  <2>5. /\ k \in Request /\ k.op = "status" /\ k.at = "write" /\ k.order = o
        /\ k.to = to /\ k.table = NoTable /\ k.due = d
        BY <1>0, <1>3, <2>1, <2>2, <2>3, <2>4, IdleType DEF Idle, Request, Ops, Steps
  <2>6. Begin(w, k) /\ UNCHANGED <<orders, tables, nextId, joined, doubted>>
        BY <2>1, <2>2
  <2> QED BY <1>1, <2>1, <2>5, <2>6, <2>4
<1>7. CASE VoidRead(w)
  <2>1. PICK o \in Existing :
          /\ Begin(w, [Idle EXCEPT !.op = "void", !.at = "write", !.order = o,
                         !.table = orders[o].table])
          /\ UNCHANGED <<orders, tables, nextId, joined, doubted>>
        BY <1>7 DEF VoidRead
  <2>2. PICK k : k = [Idle EXCEPT !.op = "void", !.at = "write",
                        !.order = o, !.table = orders[o].table]
        OBVIOUS
  <2>3. o \in Orders /\ orders[o].table \in Seats /\ orders[o].due \in Int
        BY <1>2, RowTypes
  <2>4. /\ k \in Request /\ k.op = "void" /\ k.at = "write" /\ k.order = o
        /\ k.to = "none" /\ k.table = orders[o].table /\ k.due = 0
        BY <1>0, <1>3, <2>1, <2>2, <2>3, IdleType DEF Idle, Request, Ops, Steps
  <2>5. Begin(w, k) /\ UNCHANGED <<orders, tables, nextId, joined, doubted>>
        BY <2>1, <2>2
  <2> QED BY <1>1, <2>1, <2>4, <2>5, <2>3
<1>8. CASE RowRead(w)
  <2>1. PICK o \in Existing, to \in {"PENDING", "REFUNDED"} :
          /\ orders[o].status = IF to = "PENDING" THEN "SCHEDULED" ELSE "COMPLETED"
          /\ Begin(w, [Idle EXCEPT !.op = "row", !.at = "write", !.order = o, !.to = to,
                         !.table = orders[o].table])
          /\ UNCHANGED <<orders, tables, nextId, joined, doubted>>
        BY <1>8 DEF RowRead
  <2>2. PICK k : k = [Idle EXCEPT !.op = "row", !.at = "write",
                        !.order = o, !.to = to, !.table = orders[o].table]
        OBVIOUS
  <2>3. o \in Orders /\ orders[o].table \in Seats /\ orders[o].due \in Int
        BY <1>2, RowTypes
  <2>4. /\ k \in Request /\ k.op = "row" /\ k.at = "write" /\ k.order = o
        /\ k.to = to /\ k.table = orders[o].table /\ k.due = 0
        BY <1>0, <1>3, <2>1, <2>2, <2>3, IdleType DEF Idle, Request, Ops, Steps
  <2>5. Begin(w, k) /\ UNCHANGED <<orders, tables, nextId, joined, doubted>>
        BY <2>1, <2>2
  <2> QED BY <1>1, <2>1, <2>4, <2>5, <2>3
<1> QED BY <1>4, <1>5, <1>6, <1>7, <1>8

\* The handlers that read tables.  A table that shows AVAILABLE and is not doubted has
\* no order that waits, but one whose request is about to write it.
LEMMA TableReadInv ==
  ASSUME FloorInv, NEW w \in Workers, MoveTarget(w) \/ MergeRead(w) \/ CheckoutRead(w)
  PROVE  FloorInv'
<1>0. Tables \subseteq Seats /\ NoTable \in Seats /\ 0 \in 0 .. MaxOrders
      BY FloorAssumption DEF Seats
<1>1. CASE MoveTarget(w)
  <2>1. PICK s \in Tables, t \in Tables :
          /\ tables[t].status = "AVAILABLE"
          /\ Begin(w, [Idle EXCEPT !.op = "move", !.at = "source", !.table = s, !.target = t])
          /\ UNCHANGED <<orders, tables, nextId, joined, doubted>>
        BY <1>1 DEF MoveTarget
  <2>2. PICK k : k = [Idle EXCEPT !.op = "move", !.at = "source", !.table = s, !.target = t]
        OBVIOUS
  <2>3. /\ k \in Request /\ k.op = "move" /\ k.at = "source" /\ k.table = s
        /\ k.target = t
        BY <1>0, <2>2, IdleType DEF Idle, Request, Ops, Steps
  <2>4. Well(k) /\ Holds(k)
        BY <2>1, <2>3 DEF Well, Holds
  <2>5. \A o \in Orders : Waits(o) /\ orders[o].table = t => t \in doubted \/ Owed(o, t)
        BY <2>1 DEF FloorInv, Seen, Kept
  <2> QED BY <2>1, <2>2, <2>3, <2>4, <2>5, BeginStep
<1>2. CASE MergeRead(w)
  <2>1. PICK s \in Tables, t \in Tables :
          /\ Begin(w, [Idle EXCEPT !.op = "merge", !.at = "write", !.table = s, !.target = t])
          /\ UNCHANGED <<orders, tables, nextId, joined, doubted>>
        BY <1>2 DEF MergeRead
  <2>2. PICK k : k = [Idle EXCEPT !.op = "merge", !.at = "write", !.table = s, !.target = t]
        OBVIOUS
  <2>3. k \in Request /\ k.op = "merge" /\ k.at = "write" /\ k.table = s
        BY <1>0, <2>2, IdleType DEF Idle, Request, Ops, Steps
  <2>4. Well(k) /\ Holds(k)
        BY <2>3 DEF Well, Holds
  <2> QED BY <2>1, <2>2, <2>3, <2>4, BeginStep
<1>3. CASE CheckoutRead(w)
  <2>1. PICK t \in Tables :
          /\ Begin(w, [Idle EXCEPT !.op = "checkout", !.at = "write", !.table = t,
                         !.todo = SeatedAt(t)])
          /\ UNCHANGED <<orders, tables, nextId, joined, doubted>>
        BY <1>3 DEF CheckoutRead
  <2>2. PICK k : k = [Idle EXCEPT !.op = "checkout", !.at = "write", !.table = t,
                        !.todo = SeatedAt(t)]
        OBVIOUS
  <2>3. SeatedAt(t) \in SUBSET Orders
        BY DEF SeatedAt, Existing
  <2>4. /\ k \in Request /\ k.op = "checkout" /\ k.at = "write" /\ k.table = t
        /\ k.todo = SeatedAt(t) /\ k.order = 0
        BY <1>0, <2>2, <2>3, IdleType DEF Idle, Request, Ops, Steps
  <2>5. Well(k) /\ Holds(k)
        BY <2>4 DEF Well, Holds
  <2> QED BY <2>1, <2>2, <2>4, <2>5, BeginStep
<1> QED BY <1>1, <1>2, <1>3

-----------------------------------------------------------------------------
(* The steps that write.                                                   *)

\* A table that is written for order o is doubted if another one waits there.
LEMMA SharedDoubted ==
  ASSUME FloorInv, NEW w, NEW t, NEW o, Show(w, t, o),
         NEW p \in Orders, p # o, Waits(p), orders[p].table = t
  PROVE  t \in doubted'
<1>1. t \in Tables
      BY RowTypes DEF Waits, Seats
<1>2. p \in SeatedAt(t)
      BY DEF SeatedAt, Existing, Waits, Active, Finished
<1> QED BY <1>1, <1>2 DEF Show, Shared

LEMMA ShowDoubts ==
  ASSUME FloorInv, NEW w \in Workers, NEW t, NEW o \in Orders, Show(w, t, o)
  PROVE  /\ doubted \subseteq doubted' /\ doubted' \in SUBSET Tables
         /\ reqs[w].stale => {t, orders[o].table} \cap Tables \subseteq doubted'
BY RowTypes DEF Show, Overtaken, Shared, Rows

\* A request with its last row, or none, before it has no more to write.
LEMMA WriteHands ==
  ASSUME NEW r, NEW k, NEW U, r.at \notin {"seat", "occupy", "table"}
  PROVE  Handed(r, k, U)
BY DEF Handed, Owes

LEMMA CreateCommitInv ==
  ASSUME FloorInv, NEW w \in Workers, CreateCommit(w) PROVE FloorInv'
<1>1. PICK r, id, due, shown, old :
        /\ r = reqs[w] /\ id = IF r.order = 0 THEN nextId ELSE r.order
        /\ due = IF r.order = 0 THEN r.due ELSE orders[id].due + r.due
        /\ shown = IF r.to = "HELD" THEN "OCCUPIED" ELSE Shows(due)
        /\ old = orders[id].table
      OBVIOUS
<1>2. /\ r.op = "create" /\ r.at = "write" /\ id \in Orders
      /\ orders' = IF r.order = 0
                     THEN [orders EXCEPT ![id] = [status |-> r.to, table |-> r.table, due |-> due]]
                     ELSE [orders EXCEPT ![id].status = r.to, ![id].due = due]
      /\ nextId' = IF r.order = 0 THEN nextId + 1 ELSE nextId
      /\ joined' \subseteq joined \cup {id}
      /\ tables' = [t \in Tables |-> IF t = r.table THEN [tables[t] EXCEPT !.status = shown]
                                                    ELSE tables[t]]
      /\ Show(w, r.table, id)
      /\ Step(w, Idle, {id}, {r.table, old})
      /\ served' = served
      BY <1>1 DEF CreateCommit, Wake
<1>3. r \in Request /\ Well(r) /\ Fresh(r) /\ Rows /\ old \in Seats /\ orders[id].due \in Int
      BY <1>1, <1>2, RowTypes
<1>4. due \in Int /\ r.to \in Status /\ r.table \in Seats /\ shown \in Shown
      BY <1>1, <1>3 DEF Request, Shows, Shown
<1>5. /\ orders' \in [Orders -> OrderRow]
      /\ \A o \in Orders : o # id => orders'[o] = orders[o]
      /\ orders'[id].due = due /\ orders'[id].status = r.to
      /\ orders'[id].table = IF r.order = 0 THEN r.table ELSE old
      BY <1>1, <1>2, <1>3, <1>4, ZenonT(40) DEF Rows, OrderRow
<1>6. /\ tables' \in [Tables -> TableRow]
      /\ \A t \in Tables : t # r.table => tables'[t] = tables[t]
      /\ r.table \in Tables => tables'[r.table].status = shown
      BY <1>2, <1>3, <1>4 DEF Rows, TableRow
<1>7. Rows'
  <2>1. nextId' \in 1 .. MaxOrders + 1
        BY <1>1, <1>2, <1>3, FloorAssumption DEF Rows, Orders
  <2>2. joined' \in SUBSET Orders /\ doubted' \in SUBSET Tables
        BY <1>2, <1>3, ShowDoubts DEF Rows
  <2> QED BY <1>2, <1>3, <1>5, <1>6, <2>1, <2>2 DEF Rows
<1> DEFINE U == {r.table} \cap Tables
<1>8. Written({id}, {r.table, old}, U)
      BY <1>2, <1>5, <1>6, ShowDoubts DEF Written
<1>9. Answered({id}, U)
  <2> SUFFICES ASSUME NEW o \in Orders, Waits(o)', o = id \/ orders'[o].table \in U
               PROVE  orders'[o].table \in doubted' \/ Kept(o)'
      BY DEF Answered
  <2>1. CASE o # id
        BY <1>2, <1>5, <2>1, SharedDoubted DEF Waits
  <2>2. CASE o = id /\ orders'[id].table = r.table
    <3>1. r.table \in Tables /\ due > 0
          BY <1>4, <1>5, <2>2 DEF Waits, Seats
    <3>2. shown = "OCCUPIED"
          BY <1>1, <1>4, <3>1 DEF Shows
    <3> QED BY <1>6, <2>2, <3>1, <3>2 DEF Kept
  <2>3. CASE o = id /\ orders'[id].table # r.table
    <3>1. r.order # 0 /\ orders'[id].table = old /\ old \in Tables
          BY <1>3, <1>5, <2>3 DEF Waits, Seats
    <3>2. r.table \in Tables
          BY <1>2, <1>3, <3>1 DEF Well
    <3>3. r.stale
          BY <1>1, <1>2, <1>3, <2>3, <3>1, <3>2, FloorAssumption DEF Fresh, Holds
    <3> QED BY <1>1, <1>2, <2>3, <3>1, <3>3, ShowDoubts, ZenonT(40)
  <2> QED BY <2>1, <2>2, <2>3
<1>10. Handed(r, Idle, U) /\ Ahead(r, Idle, {r.table, old})
  <2> HIDE DEF U
  <2> QED BY <1>2, WriteHands, IdleFresh DEF Ahead
<1>11. U \in SUBSET ({r.table, old} \cap Tables)
       OBVIOUS
<1> HIDE DEF U
<1> QED BY <1>1, <1>2, <1>7, <1>8, <1>9, <1>10, <1>11, IdleType, IdleFresh, StepInv

LEMMA GuestOrderInv ==
  ASSUME FloorInv, NEW w \in Workers, CreateGuestOrder(w) PROVE FloorInv'
<1>1. PICK r, id : r = reqs[w] /\ id = nextId
      OBVIOUS
<1>2. PICK t \in Tables, status \in {"PENDING", "SCHEDULED"} :
        /\ id \in Orders
        /\ orders' = [orders EXCEPT ![id] = [status |-> status, table |-> t, due |-> 1]]
        /\ nextId' = nextId + 1
        /\ \/ tables' = [tables EXCEPT ![t].status = "OCCUPIED"] /\ doubted' = doubted
           \/ tables' = tables /\ doubted' = doubted \cup {t}
        /\ r = Idle /\ served < MaxRequests /\ served' = served + 1
        /\ Step(w, Idle, {id}, {t})
        /\ joined' = joined
      BY <1>1 DEF CreateGuestOrder, Doubt, Once
<1>3. Rows
      BY RowTypes
<1>4. status \in Status /\ t \in Seats
      BY DEF Status, Active, Seats
<1>5. /\ orders' \in [Orders -> OrderRow]
      /\ \A o \in Orders : o # id => orders'[o] = orders[o]
      /\ orders'[id].table = t
      BY <1>2, <1>3, <1>4 DEF Rows, OrderRow
<1>6. /\ tables' \in [Tables -> TableRow]
      /\ \A s \in Tables : s # t => tables'[s] = tables[s]
      /\ tables'[t].status = "OCCUPIED" \/ t \in doubted'
      /\ doubted \subseteq doubted' /\ doubted' \in SUBSET Tables
      BY <1>2, <1>3 DEF Rows, TableRow, Shown
<1>7. Rows'
  <2>1. served' \in 0 .. MaxRequests /\ nextId' \in 1 .. MaxOrders + 1
        BY <1>1, <1>2, <1>3, FloorAssumption DEF Rows, Orders
  <2> QED BY <1>2, <1>3, <1>5, <1>6, <2>1 DEF Rows
<1>8. Written({id}, {t}, {t})
      BY <1>2, <1>5, <1>6 DEF Written
<1>9. Answered({id}, {t})
      BY <1>5, <1>6 DEF Answered, Kept
<1>10. Handed(r, Idle, {t}) /\ Ahead(r, Idle, {t})
       BY <1>2, WriteHands, IdleFields, IdleFresh DEF Ahead
<1>11. {t} \in SUBSET ({t} \cap Tables)
       OBVIOUS
<1> QED BY <1>1, <1>2, <1>7, <1>8, <1>9, <1>10, <1>11, IdleType, IdleFresh, StepInv

LEMMA SplitChildInv ==
  ASSUME FloorInv, NEW w \in Workers, SplitChild(w) PROVE FloorInv'
<1>1. PICK r, id, k :
        r = reqs[w] /\ id = nextId /\ k = IF r.due = 1 THEN Idle ELSE [r EXCEPT !.due = 1]
      OBVIOUS
<1>2. /\ r.op = "split" /\ id \in Orders
      /\ orders' = [orders EXCEPT ![id] = [status |-> "PENDING", table |-> r.table, due |-> 1]]
      /\ nextId' = nextId + 1
      /\ doubted' = doubted \cup ({r.table} \cap Tables)
      /\ Step(w, k, {id}, {r.table})
      /\ tables' = tables /\ served' = served /\ joined' = joined
      BY <1>1 DEF SplitChild, Doubt
<1>3. r \in Request /\ Well(r) /\ Rows
      BY <1>1, RowTypes
<1>4. /\ orders' \in [Orders -> OrderRow]
      /\ \A o \in Orders : o # id => orders'[o] = orders[o]
      /\ orders'[id].table = r.table
      BY <1>2, <1>3 DEF Rows, OrderRow, Status, Active, Request
<1>5. Rows'
      BY <1>1, <1>2, <1>3, <1>4, FloorAssumption DEF Rows, Orders
<1>6. Written({id}, {r.table}, {})
      BY <1>2, <1>4 DEF Written
<1>7. Answered({id}, {})
  <2>1. r.table \in Seats
        BY <1>3 DEF Request
  <2> QED BY <1>2, <1>4, <2>1 DEF Answered, Waits, Seats
<1>8. k \in Request /\ Well(k) /\ Holds(k)' /\ Apart(k)'
  <2>1. CASE r.due = 1
        BY <1>1, <2>1, IdleType, IdleFresh
  <2>2. CASE r.due # 1
    <3>1. /\ k \in Request /\ k.op = "split" /\ k.at = r.at /\ k.order = r.order
          BY <1>1, <1>2, <1>3, <2>2 DEF Request
    <3> QED BY <1>2, <1>3, <3>1 DEF Well, Holds, Apart
  <2> QED BY <2>1, <2>2
<1>9. Handed(r, k, {}) /\ Ahead(r, k, {r.table})
  <2>1. r.at = "write"
        BY <1>2, <1>3 DEF Well
  <2> QED BY <1>8, <2>1, WriteHands DEF Ahead
<1>10. {} \in SUBSET ({r.table} \cap Tables)
       OBVIOUS
<1> QED BY <1>1, <1>2, <1>5, <1>6, <1>7, <1>8, <1>9, <1>10, StepInv

LEMMA AssignCommitInv ==
  ASSUME FloorInv, NEW w \in Workers, AssignCommit(w) PROVE FloorInv'
<1>1. PICK r, id, old : r = reqs[w] /\ id = r.order /\ old = orders[id].table
      OBVIOUS
<1>2. /\ r.op = "assign"
      /\ orders' = [orders EXCEPT ![id].table = r.table]
      /\ tables' = [tables EXCEPT ![r.table].status = Shows(r.due)]
      /\ joined' = joined \ {id}
      /\ Show(w, r.table, id)
      /\ Step(w, Idle, {id}, {r.table, old})
      /\ nextId' = nextId /\ served' = served
      BY <1>1 DEF AssignCommit
<1>3. r \in Request /\ Well(r) /\ Fresh(r) /\ Rows
      BY <1>1, RowTypes
<1>4. id \in Orders /\ r.table \in Tables /\ r.at = "write"
      BY <1>1, <1>2, <1>3 DEF Well
<1>5. /\ orders' \in [Orders -> OrderRow]
      /\ \A o \in Orders : o # id => orders'[o] = orders[o]
      /\ orders'[id].table = r.table /\ orders'[id].due = orders[id].due
      BY <1>2, <1>3, <1>4 DEF Rows, OrderRow, Seats
<1>6. /\ tables' \in [Tables -> TableRow]
      /\ \A t \in Tables : t # r.table => tables'[t] = tables[t]
      /\ tables'[r.table].status = Shows(r.due)
      BY <1>2, <1>3, <1>4 DEF Rows, TableRow, Shown, Shows
<1>7. Rows'
  <2>1. doubted' \in SUBSET Tables
        BY <1>2, <1>4, ShowDoubts
  <2> QED BY <1>2, <1>3, <1>5, <1>6, <2>1 DEF Rows
<1>8. Written({id}, {r.table, old}, {r.table})
  <2>1. doubted \subseteq doubted'
        BY <1>2, <1>4, ShowDoubts
  <2> QED BY <1>2, <1>5, <1>6, <2>1 DEF Written
<1>9. Answered({id}, {r.table})
  <2> SUFFICES ASSUME NEW o \in Orders, Waits(o)', o = id \/ orders'[o].table = r.table
               PROVE  orders'[o].table \in doubted' \/ Kept(o)'
      BY DEF Answered
  <2>1. CASE o # id
        BY <1>2, <1>5, <2>1, SharedDoubted DEF Waits
  <2>2. CASE o = id /\ r.stale
    <3>1. r.table \in doubted'
          BY <1>1, <1>2, <1>4, <2>2, ShowDoubts
    <3> QED BY <1>5, <2>2, <3>1
  <2>3. CASE o = id /\ ~r.stale
    <3>1. orders[id].due = r.due
          BY <1>1, <1>2, <1>3, <2>3 DEF Fresh, Holds
    <3>2. Shows(r.due) = "OCCUPIED"
          BY <1>3, <1>5, <2>3, <3>1 DEF Waits, Shows, Request
    <3> QED BY <1>5, <1>6, <2>3, <3>2 DEF Kept
  <2> QED BY <2>1, <2>2, <2>3
<1>10. Handed(r, Idle, {r.table}) /\ Ahead(r, Idle, {r.table, old})
       BY <1>4, WriteHands, IdleFresh DEF Ahead
<1>11. {r.table} \in SUBSET ({r.table, old} \cap Tables)
       BY <1>4
<1> QED BY <1>1, <1>2, <1>7, <1>8, <1>9, <1>10, <1>11, IdleType, IdleFresh, StepInv

LEMMA StatusWriteInv ==
  ASSUME FloorInv, NEW w \in Workers, StatusWrite(w) PROVE FloorInv'
<1>1. PICK r, id, due, t, k :
        /\ r = reqs[w] /\ id = r.order /\ due = orders[id].due - r.due
        /\ t = orders[id].table
        /\ k = IF t = NoTable THEN Idle
               ELSE [r EXCEPT !.at = "table", !.table = t,
                       !.free = r.to \in {"COMPLETED", "CANCELLED", "DELIVERED"} \/ due <= 0]
      OBVIOUS
<1>2. /\ r.op = "status" /\ r.at = "write"
      /\ orders' = [orders EXCEPT ![id].status = r.to, ![id].due = due]
      /\ joined' \subseteq joined
      /\ Step(w, k, {id}, {t})
      /\ tables' = tables /\ nextId' = nextId /\ served' = served /\ doubted' = doubted
      BY <1>1 DEF StatusWrite, Wake
<1>3. r \in Request /\ Well(r) /\ Rows
      BY <1>1, RowTypes
<1>4. id \in Orders
      BY <1>1, <1>2, <1>3 DEF Well
<1>5. due \in Int /\ r.to \in Status /\ t \in Seats
      BY <1>1, <1>3, <1>4, RowTypes DEF Request
<1>6. /\ orders' \in [Orders -> OrderRow]
      /\ \A o \in Orders : o # id => orders'[o] = orders[o]
      /\ orders'[id].table = t /\ orders'[id].due = due /\ orders'[id].status = r.to
      BY <1>1, <1>2, <1>3, <1>4, <1>5, ZenonT(40) DEF Rows, OrderRow
<1>7. Rows'
      BY <1>2, <1>3, <1>6 DEF Rows
<1>8. Written({id}, {t}, {})
      BY <1>2, <1>6 DEF Written
<1>9. CASE t = NoTable
  <2>1. Answered({id}, {})
        BY <1>6, <1>9 DEF Answered, Waits
  <2>2. k = Idle
        BY <1>1, <1>9
  <2>3. Handed(r, k, {}) /\ Ahead(r, k, {t})
        BY <1>2, <2>2, WriteHands, IdleFresh DEF Ahead
  <2> QED BY <1>1, <1>2, <1>7, <1>8, <2>1, <2>2, <2>3, IdleType, IdleFresh, StepInv, ZenonT(40)
<1>10. CASE t # NoTable
  <2>1. t \in Tables
        BY <1>5, <1>10 DEF Seats
  <2>2. /\ k \in Request /\ k.op = "status" /\ k.at = "table" /\ k.order = id /\ k.table = t
        /\ k.free = (r.to \in {"COMPLETED", "CANCELLED", "DELIVERED"} \/ due <= 0)
        BY <1>1, <1>2, <1>3, <1>5, <1>10 DEF Request, Steps
  <2>3. Well(k)
        BY <1>4, <2>1, <2>2 DEF Well
  <2>4. Holds(k)'
    <3>1. ASSUME k.free PROVE ~Waits(id)'
      <4>1. CASE r.to \in {"COMPLETED", "CANCELLED", "DELIVERED"}
            BY <1>6, <4>1 DEF Waits, Active
      <4>2. CASE due <= 0
            BY <1>5, <1>6, <4>2 DEF Waits
      <4> QED BY <2>2, <3>1, <4>1, <4>2
    <3> QED BY <1>6, <2>2, <3>1 DEF Holds
  <2>5. Answered({id}, {})
    <3>1. reqs'[w] = k
          BY <1>2, <2>2, StepLater DEF FloorInv
    <3>2. Owed(id, t)'
          BY <2>2, <3>1 DEF Owed, Owes
    <3> QED BY <1>6, <3>2 DEF Answered, Kept
  <2>6. Handed(r, k, {}) /\ Ahead(r, k, {t})
        BY <1>2, <2>2, WriteHands DEF Ahead, Apart
  <2>7. {} \in SUBSET ({t} \cap Tables)
        OBVIOUS
  <2> QED BY <1>1, <1>2, <1>7, <1>8, <2>2, <2>3, <2>4, <2>5, <2>6, <2>7, StepInv
<1> QED BY <1>9, <1>10

LEMMA StatusTableInv ==
  ASSUME FloorInv, NEW w \in Workers, StatusTable(w) PROVE FloorInv'
<1>1. PICK r, t, shown :
        r = reqs[w] /\ t = r.table /\ shown = IF r.free THEN "AVAILABLE" ELSE "OCCUPIED"
      OBVIOUS
<1>2. /\ r.op = "status" /\ r.at = "table"
      /\ tables' = [tables EXCEPT ![t].status = shown]
      /\ Show(w, t, r.order)
      /\ Step(w, Idle, {}, {t})
      /\ orders' = orders /\ nextId' = nextId /\ served' = served /\ joined' = joined
      BY <1>1 DEF StatusTable
<1>3. r \in Request /\ Well(r) /\ Fresh(r) /\ Rows
      BY <1>1, RowTypes
<1>4. t \in Tables /\ r.order \in Orders
      BY <1>1, <1>2, <1>3 DEF Well
<1>5. /\ tables' \in [Tables -> TableRow]
      /\ \A s \in Tables : s # t => tables'[s] = tables[s]
      /\ tables'[t].status = shown
      BY <1>1, <1>2, <1>3, <1>4 DEF Rows, TableRow, Shown
<1>6. doubted \subseteq doubted' /\ doubted' \in SUBSET Tables
      BY <1>2, <1>4, ShowDoubts
<1>7. Rows'
      BY <1>2, <1>3, <1>5, <1>6 DEF Rows
<1>8. Written({}, {t}, {t})
      BY <1>2, <1>5, <1>6 DEF Written
<1>9. Answered({}, {t})
  <2> SUFFICES ASSUME NEW o \in Orders, Waits(o)', orders'[o].table = t
               PROVE  t \in doubted' \/ Kept(o)'
      BY DEF Answered
  <2>1. Waits(o) /\ orders[o].table = t
        BY <1>2 DEF Waits
  <2>2. CASE o # r.order
        BY <1>2, <2>1, <2>2, SharedDoubted
  <2>3. CASE r.stale
        BY <1>1, <1>2, <1>4, <2>3, ShowDoubts
  <2>4. CASE o = r.order /\ ~r.stale
    <3>1. shown = "OCCUPIED"
          BY <1>1, <1>2, <1>3, <2>1, <2>4 DEF Fresh, Holds
    <3> QED BY <1>2, <1>5, <2>1, <3>1 DEF Kept
  <2> QED BY <2>2, <2>3, <2>4
<1>10. Handed(r, Idle, {t}) /\ Ahead(r, Idle, {t})
       BY <1>1, <1>2, IdleFresh DEF Handed, Owes, Ahead
<1>11. {t} \in SUBSET ({t} \cap Tables)
       BY <1>4
<1> QED BY <1>1, <1>2, <1>7, <1>8, <1>9, <1>10, <1>11, IdleType, IdleFresh, StepInv

LEMMA VoidCommitInv ==
  ASSUME FloorInv, NEW w \in Workers, VoidCommit(w) PROVE FloorInv'
<1>1. PICK r, id, old : r = reqs[w] /\ id = r.order /\ old = orders[id].table
      OBVIOUS
<1>2. /\ r.op = "void"
      /\ orders' = [orders EXCEPT ![id].status = "CANCELLED"]
      /\ tables' = [t \in Tables |-> IF t = r.table THEN [tables[t] EXCEPT !.status = "AVAILABLE"]
                                                    ELSE tables[t]]
      /\ Show(w, r.table, id)
      /\ Step(w, Idle, {id}, {r.table, old})
      /\ nextId' = nextId /\ served' = served /\ joined' = joined
      BY <1>1 DEF VoidCommit
<1>3. r \in Request /\ Well(r) /\ Rows
      BY <1>1, RowTypes
<1>4. id \in Orders /\ r.at = "write"
      BY <1>1, <1>2, <1>3 DEF Well
<1>5. /\ orders' \in [Orders -> OrderRow]
      /\ \A o \in Orders : o # id => orders'[o] = orders[o]
      /\ orders'[id].table = old /\ orders'[id].status = "CANCELLED"
      BY <1>1, <1>2, <1>3, <1>4 DEF Rows, OrderRow, Status, Finished
<1>6. /\ tables' \in [Tables -> TableRow]
      /\ \A t \in Tables : t # r.table => tables'[t] = tables[t]
      BY <1>2, <1>3 DEF Rows, TableRow, Shown
<1>7. doubted \subseteq doubted' /\ doubted' \in SUBSET Tables
      BY <1>2, <1>4, ShowDoubts
<1>8. Rows'
      BY <1>2, <1>3, <1>5, <1>6, <1>7 DEF Rows
<1> DEFINE U == {r.table} \cap Tables
<1>9. Written({id}, {r.table, old}, U)
      BY <1>5, <1>6, <1>7 DEF Written
<1>10. Answered({id}, U)
  <2> SUFFICES ASSUME NEW o \in Orders, Waits(o)', o = id \/ orders'[o].table = r.table
               PROVE  orders'[o].table \in doubted' \/ Kept(o)'
      BY DEF Answered
  <2>1. CASE o # id
        BY <1>2, <1>5, <2>1, SharedDoubted DEF Waits
  <2>2. CASE o = id
        BY <1>5, <2>2 DEF Waits, Active
  <2> QED BY <2>1, <2>2
<1>11. Handed(r, Idle, U) /\ Ahead(r, Idle, {r.table, old})
  <2> HIDE DEF U
  <2> QED BY <1>4, WriteHands, IdleFresh DEF Ahead
<1>12. U \in SUBSET ({r.table, old} \cap Tables)
       OBVIOUS
<1> HIDE DEF U
<1> QED BY <1>1, <1>2, <1>8, <1>9, <1>10, <1>11, <1>12, IdleType, IdleFresh, StepInv

LEMMA RowWriteInv ==
  ASSUME FloorInv, NEW w \in Workers, RowWrite(w) PROVE FloorInv'
<1>1. PICK r, id, t : r = reqs[w] /\ id = r.order /\ t = orders[id].table
      OBVIOUS
<1>2. /\ r.op = "row"
      /\ orders' = [orders EXCEPT ![id].status = r.to]
      /\ joined' \subseteq joined
      /\ doubted' = doubted \cup Overtaken(w, {t})
      /\ Step(w, Idle, {id}, {t})
      /\ tables' = tables /\ nextId' = nextId /\ served' = served
      BY <1>1 DEF RowWrite, Wake
<1>3. r \in Request /\ Well(r) /\ Fresh(r) /\ Rows
      BY <1>1, RowTypes
<1>4. /\ id \in Orders /\ r.at = "write" /\ r.to \in Status
      /\ r.to \in {"PENDING", "REFUNDED"}
      BY <1>1, <1>2, <1>3 DEF Well, Request
<1>5. /\ orders' \in [Orders -> OrderRow]
      /\ \A o \in Orders : o # id => orders'[o] = orders[o]
      /\ orders'[id].table = t /\ orders'[id].due = orders[id].due
      /\ orders'[id].status = r.to
      BY <1>1, <1>2, <1>3, <1>4 DEF Rows, OrderRow
<1>6. /\ doubted \subseteq doubted' /\ doubted' \in SUBSET Tables
      /\ r.stale /\ t \in Tables => t \in doubted'
      BY <1>1, <1>2, <1>3 DEF Rows, Overtaken
<1>7. Rows'
      BY <1>2, <1>3, <1>5, <1>6 DEF Rows
<1>8. Written({id}, {t}, {})
      BY <1>2, <1>5, <1>6 DEF Written
<1>9. Answered({id}, {})
  <2> SUFFICES ASSUME Waits(id)'
               PROVE  t \in doubted' \/ (Waits(id) /\ orders[id].table = t)
      BY <1>5 DEF Answered
  <2>1. t \in Tables
        BY <1>1, <1>4, <1>5, RowTypes DEF Waits, Seats
  <2>2. CASE ~r.stale
    <3>1. r.to = "PENDING"
          BY <1>4, <1>5 DEF Waits, Active
    <3>2. orders[id].status = "SCHEDULED"
          BY <1>1, <1>2, <1>3, <2>2, <3>1 DEF Fresh, Holds
    <3> QED BY <1>1, <1>5, <3>2 DEF Waits
  <2> QED BY <1>6, <2>1, <2>2
<1>10. Handed(r, Idle, {}) /\ Ahead(r, Idle, {t})
       BY <1>4, WriteHands, IdleFresh DEF Ahead
<1>11. {} \in SUBSET ({t} \cap Tables)
       OBVIOUS
<1> QED BY <1>1, <1>2, <1>7, <1>8, <1>9, <1>10, <1>11, IdleType, IdleFresh, StepInv

\* Nothing is written; the request may know its order now.
LEMMA MoveSourceInv ==
  ASSUME FloorInv, NEW w \in Workers, MoveSource(w) PROVE FloorInv'
<1>1. PICK r : r = reqs[w]
      OBVIOUS
<1>2. /\ r.op = "move" /\ r.at = "source"
      /\ orders' = orders /\ tables' = tables /\ nextId' = nextId /\ served' = served
      /\ joined' = joined /\ doubted' = doubted
      BY <1>1 DEF MoveSource
<1>3. r \in Request /\ Well(r) /\ reqs \in [Workers -> Request]
      BY <1>1, RowTypes DEF FloorInv, TypeInv, TypeOK
<1>4. PICK k \in Request :
        /\ reqs' = [reqs EXCEPT ![w] = k]
        /\ Well(k) /\ Holds(k)'
        /\ Apart(k)' \/ (k.target = r.target /\ k.stale = r.stale)
  <2>1. CASE reqs' = [reqs EXCEPT ![w] = Idle]
        BY <2>1, IdleType, IdleFresh
  <2>2. CASE \E o \in SeatedAt(r.table) :
               reqs' = [reqs EXCEPT ![w].at = "clear", ![w].order = o]
    <3>1. PICK o \in SeatedAt(r.table) :
            reqs' = [reqs EXCEPT ![w].at = "clear", ![w].order = o]
          BY <2>2
    <3>2. PICK k : k = [r EXCEPT !.at = "clear", !.order = o]
          OBVIOUS
    <3>3. reqs' = [reqs EXCEPT ![w] = k]
          BY <1>1, <1>3, <3>1, <3>2
    <3>4. o \in Orders /\ o \in 0 .. MaxOrders
          BY FloorAssumption DEF SeatedAt, Existing, Orders
    <3>5. /\ k \in Request /\ k.op = "move" /\ k.at = "clear" /\ k.order = o
          /\ k.table = r.table /\ k.target = r.target /\ k.stale = r.stale
          BY <1>2, <1>3, <3>2, <3>4 DEF Request, Steps
    <3>6. Well(k) /\ Holds(k)'
          BY <1>2, <1>3, <3>4, <3>5 DEF Well, Holds
    <3> QED BY <3>3, <3>5, <3>6
  <2> QED BY <1>1, <2>1, <2>2 DEF MoveSource
<1>5. /\ reqs'[w] = k /\ reqs' \in [Workers -> Request]
      /\ \A x \in Workers \ {w} : reqs'[x] = reqs[x]
      BY <1>3, <1>4
<1>6. TypeOK'
      BY <1>2, <1>5, RowTypes DEF Rows, TypeOK
<1>7. \A x \in Workers \ {w} : Later(reqs[x], reqs'[x], {}, {})
  <2> TAKE x \in Workers \ {w}
  <2>1. reqs[x].stale \in BOOLEAN
        BY RowTypes DEF Request
  <2> QED BY <1>5, <2>1 DEF Later, Knows
<1>8. Well(reqs'[w]) /\ Fresh(reqs[w])'
      BY <1>4, <1>5 DEF Fresh
<1>9. \/ Apart(reqs[w])'
      \/ /\ reqs[w].op = "move" /\ reqs[w].at # "occupy" /\ reqs[w].target \notin {}
         /\ reqs'[w].target = reqs[w].target /\ (reqs[w].stale => reqs'[w].stale)
      BY <1>1, <1>2, <1>4, <1>5
<1>10. \A o \in Orders, t \in Tables : ~Owes(reqs[w], o, t)
       BY <1>1, <1>2 DEF Owes
<1> QED BY <1>2, <1>6, <1>7, <1>8, <1>9, <1>10, WriteStep

LEMMA FailInv ==
  ASSUME FloorInv, NEW w \in Workers, Fail(w) PROVE FloorInv'
<1>1. PICK r : r = reqs[w]
      OBVIOUS
<1>2. /\ orders' = orders /\ tables' = tables /\ nextId' = nextId /\ served' = served
      /\ joined' = joined /\ reqs' = [reqs EXCEPT ![w] = Idle]
      BY <1>1 DEF Fail
<1>3. /\ doubted \subseteq doubted' /\ doubted' \in SUBSET Tables
      /\ r.at \in {"seat", "occupy", "table"} => {r.table, r.target} \cap Tables \subseteq doubted'
      BY <1>1, RowTypes DEF Fail, Rows
<1>4. /\ reqs'[w] = Idle /\ reqs' \in [Workers -> Request]
      /\ \A x \in Workers \ {w} : reqs'[x] = reqs[x]
      BY <1>2, IdleType DEF FloorInv, TypeInv, TypeOK
<1>5. TypeOK'
      BY <1>2, <1>3, <1>4, RowTypes DEF Rows, TypeOK
<1>6. \A x \in Workers \ {w} : Later(reqs[x], reqs'[x], {}, {})
  <2> TAKE x \in Workers \ {w}
  <2>1. reqs[x].stale \in BOOLEAN
        BY RowTypes DEF Request
  <2> QED BY <1>4, <2>1 DEF Later, Knows
<1>7. Well(reqs'[w]) /\ Fresh(reqs[w])' /\ Apart(reqs[w])'
      BY <1>4, IdleType, IdleFresh DEF Fresh
<1>8. \A o \in Orders, t \in Tables : Owes(reqs[w], o, t) => t \in doubted'
      BY <1>1, <1>3 DEF Owes
<1> QED BY <1>2, <1>3, <1>5, <1>6, <1>7, <1>8, WriteStep

LEMMA MoveClearInv ==
  ASSUME FloorInv, NEW w \in Workers, MoveClear(w) PROVE FloorInv'
<1>1. PICK r, t, k : r = reqs[w] /\ t = r.table /\ k = [r EXCEPT !.at = "seat"]
      OBVIOUS
<1>2. /\ r.op = "move" /\ r.at = "clear"
      /\ tables' = [tables EXCEPT ![t] = [status |-> "AVAILABLE", parent |-> NoTable]]
      /\ Show(w, t, r.order)
      /\ Step(w, k, {}, {t})
      /\ orders' = orders /\ nextId' = nextId /\ served' = served /\ joined' = joined
      BY <1>1 DEF MoveClear, Goto
<1>3. r \in Request /\ Well(r) /\ Rows
      BY <1>1, RowTypes
<1>4. t \in Tables /\ r.order \in Orders /\ r.target \in Tables
      BY <1>1, <1>2, <1>3 DEF Well
<1>5. /\ tables' \in [Tables -> TableRow]
      /\ \A s \in Tables : s # t => tables'[s] = tables[s]
      BY <1>2, <1>3 DEF Rows, TableRow, Shown, Seats
<1>6. doubted \subseteq doubted' /\ doubted' \in SUBSET Tables
      BY <1>2, <1>4, ShowDoubts
<1>7. Rows'
      BY <1>2, <1>3, <1>5, <1>6 DEF Rows
<1>8. Written({}, {t}, {t})
      BY <1>2, <1>5, <1>6 DEF Written
<1>9. /\ k \in Request /\ k.op = "move" /\ k.at = "seat" /\ k.order = r.order
      /\ k.table = t /\ k.target = r.target /\ k.stale = r.stale
      BY <1>1, <1>2, <1>3 DEF Request, Steps
<1>10. Well(k) /\ Holds(k)'
       BY <1>4, <1>9 DEF Well, Holds
<1>11. Answered({}, {t})
  <2> SUFFICES ASSUME NEW o \in Orders, Waits(o)', orders'[o].table = t
               PROVE  t \in doubted' \/ Kept(o)'
      BY DEF Answered
  <2>1. Waits(o) /\ orders[o].table = t
        BY <1>2 DEF Waits
  <2>2. CASE o # r.order
        BY <1>2, <2>1, <2>2, SharedDoubted
  <2>3. CASE o = r.order
    <3>1. reqs'[w] = k
          BY <1>2, <1>9, StepLater DEF FloorInv
    <3>2. Owed(o, t)'
          BY <1>9, <2>3, <3>1 DEF Owed, Owes
    <3> QED BY <1>2, <2>1, <3>2 DEF Kept
  <2> QED BY <2>2, <2>3
<1>12. Handed(r, k, {t}) /\ Ahead(r, k, {t})
  <2>1. CASE r.target # t
        BY <1>2, <1>9, <2>1, WriteHands DEF Ahead
  <2>2. CASE r.target = t
    <3>1. ASSUME NEW o \in Orders, Waits(o)', orders'[o].table = t, t \notin doubted'
          PROVE  Owed(o, t)'
      <4>1. Waits(o) /\ orders[o].table = t
            BY <1>2, <3>1 DEF Waits
      <4>2. o = r.order
            BY <1>2, <3>1, <4>1, SharedDoubted
      <4>3. reqs'[w] = k
            BY <1>2, <1>9, StepLater DEF FloorInv
      <4> QED BY <1>9, <4>2, <4>3 DEF Owed, Owes
    <3>2. Apart(k)'
          BY <1>9, <2>2, <3>1 DEF Apart
    <3> QED BY <1>2, <3>2, WriteHands DEF Ahead
  <2> QED BY <2>1, <2>2
<1>13. {t} \in SUBSET ({t} \cap Tables)
       BY <1>4
<1> QED BY <1>1, <1>2, <1>7, <1>8, <1>9, <1>10, <1>11, <1>12, <1>13, StepInv

LEMMA MoveSeatInv ==
  ASSUME FloorInv, NEW w \in Workers, MoveSeat(w) PROVE FloorInv'
<1>1. PICK r, id, old, k :
        /\ r = reqs[w] /\ id = r.order /\ old = orders[id].table
        /\ k = [r EXCEPT !.at = "occupy"]
      OBVIOUS
<1>2. /\ r.op = "move" /\ r.at = "seat"
      /\ orders' = [orders EXCEPT ![id].table = r.target]
      /\ joined' = joined \ {id}
      /\ Step(w, k, {id}, {old, r.target})
      /\ tables' = tables /\ nextId' = nextId /\ served' = served /\ doubted' = doubted
      BY <1>1 DEF MoveSeat, Goto
<1>3. r \in Request /\ Well(r) /\ Rows
      BY <1>1, RowTypes
<1>4. id \in Orders /\ r.table \in Tables /\ r.target \in Tables
      BY <1>1, <1>2, <1>3 DEF Well
<1>5. /\ orders' \in [Orders -> OrderRow]
      /\ \A o \in Orders : o # id => orders'[o] = orders[o]
      /\ orders'[id].table = r.target
      BY <1>2, <1>3, <1>4 DEF Rows, OrderRow, Seats
<1>6. Rows'
      BY <1>2, <1>3, <1>5 DEF Rows
<1>7. Written({id}, {old, r.target}, {})
      BY <1>2, <1>5 DEF Written
<1>8. /\ k \in Request /\ k.op = "move" /\ k.at = "occupy" /\ k.order = id
      /\ k.table = r.table /\ k.target = r.target
      BY <1>1, <1>2, <1>3 DEF Request, Steps
<1>9. Well(k) /\ Holds(k)' /\ Apart(k)'
      BY <1>4, <1>8 DEF Well, Holds, Apart
<1>10. Answered({id}, {})
  <2>1. reqs'[w] = k
        BY <1>2, <1>8, StepLater DEF FloorInv
  <2>2. Owed(id, r.target)'
        BY <1>8, <2>1 DEF Owed, Owes
  <2> QED BY <1>5, <2>2 DEF Answered, Kept
<1>11. Handed(r, k, {}) /\ Ahead(r, k, {old, r.target})
       BY <1>1, <1>2, <1>4, <1>5, <1>8, <1>9 DEF Handed, Owes, Ahead
<1>12. {} \in SUBSET ({old, r.target} \cap Tables)
       OBVIOUS
<1> QED BY <1>1, <1>2, <1>6, <1>7, <1>8, <1>9, <1>10, <1>11, <1>12, StepInv

\* The last row of a move and the one row of a merge: the table shows OCCUPIED.
LEMMA OccupyInv ==
  ASSUME FloorInv, NEW w \in Workers, MoveOccupy(w) \/ MergeWrite(w) PROVE FloorInv'
<1>1. PICK r : r = reqs[w]
      OBVIOUS
<1>2. r \in Request /\ Well(r) /\ Rows
      BY <1>1, RowTypes
<1>3. PICK t \in Tables :
        /\ r.op \in {"move", "merge"}
        /\ r.at = "write" \/ (r.at = "occupy" /\ t = r.target)
        /\ tables' \in [Tables -> TableRow]
        /\ \A s \in Tables : s # t => tables'[s] = tables[s]
        /\ tables'[t].status = "OCCUPIED"
        /\ Step(w, Idle, {}, {t})
        /\ orders' = orders /\ nextId' = nextId /\ served' = served
        /\ joined' = joined /\ doubted' = doubted
  <2>1. CASE MoveOccupy(w)
    <3>1. /\ r.op = "move" /\ r.at = "occupy"
          /\ tables' = [tables EXCEPT ![r.target].status = "OCCUPIED"]
          /\ Step(w, Idle, {}, {r.target})
          /\ orders' = orders /\ nextId' = nextId /\ served' = served
          /\ joined' = joined /\ doubted' = doubted
          BY <1>1, <2>1 DEF MoveOccupy
    <3>2. r.target \in Tables
          BY <1>2, <3>1 DEF Well
    <3>3. /\ tables' \in [Tables -> TableRow]
          /\ \A s \in Tables : s # r.target => tables'[s] = tables[s]
          /\ tables'[r.target].status = "OCCUPIED"
          BY <1>2, <3>1, <3>2 DEF Rows, TableRow, Shown
    <3> QED BY <3>1, <3>2, <3>3
  <2>2. CASE MergeWrite(w)
    <3>1. /\ r.op = "merge"
          /\ tables' = [tables EXCEPT ![r.table] = [status |-> "OCCUPIED", parent |-> r.target]]
          /\ Step(w, Idle, {}, {r.table})
          /\ orders' = orders /\ nextId' = nextId /\ served' = served
          /\ joined' = joined /\ doubted' = doubted
          BY <1>1, <2>2 DEF MergeWrite
    <3>2. r.table \in Tables /\ r.at = "write" /\ r.target \in Seats
          BY <1>2, <3>1 DEF Well, Request
    <3>3. /\ tables' \in [Tables -> TableRow]
          /\ \A s \in Tables : s # r.table => tables'[s] = tables[s]
          /\ tables'[r.table].status = "OCCUPIED"
          BY <1>2, <3>1, <3>2 DEF Rows, TableRow, Shown
    <3> QED BY <3>1, <3>2, <3>3
  <2> QED BY <2>1, <2>2
<1>4. Rows'
      BY <1>2, <1>3 DEF Rows
<1>5. Written({}, {t}, {t})
      BY <1>3 DEF Written
<1>6. Answered({}, {t})
      BY <1>3 DEF Answered, Kept
<1>7. Handed(r, Idle, {t}) /\ Ahead(r, Idle, {t})
      BY <1>3, IdleFresh DEF Handed, Owes, Ahead
<1>8. {t} \in SUBSET ({t} \cap Tables)
      OBVIOUS
<1> QED BY <1>1, <1>3, <1>4, <1>5, <1>6, <1>7, <1>8, IdleType, IdleFresh, StepInv

\* A table written by hand is doubted from there on.
LEMMA HandInv ==
  ASSUME FloorInv, NEW w \in Workers, UnmergeTable(w) \/ UpdateTable(w) PROVE FloorInv'
<1>1. PICK r : r = reqs[w]
      OBVIOUS
<1>2. Rows
      BY RowTypes
<1>3. PICK t \in Tables :
        /\ tables' \in [Tables -> TableRow]
        /\ \A s \in Tables : s # t => tables'[s] = tables[s]
        /\ doubted' = doubted \cup {t}
        /\ r = Idle /\ served < MaxRequests /\ served' = served + 1
        /\ Step(w, Idle, {}, {t})
        /\ orders' = orders /\ nextId' = nextId /\ joined' = joined
  <2>1. CASE UnmergeTable(w)
    <3>1. PICK t \in Tables :
            /\ tables' = [tables EXCEPT ![t] = [status |-> "AVAILABLE", parent |-> NoTable]]
            /\ doubted' = doubted \cup ({t} \cap Tables)
            /\ r = Idle /\ served < MaxRequests /\ served' = served + 1
            /\ Step(w, Idle, {}, {t})
            /\ orders' = orders /\ nextId' = nextId /\ joined' = joined
          BY <1>1, <2>1 DEF UnmergeTable, Once, Doubt
    <3>2. /\ tables' \in [Tables -> TableRow]
          /\ \A s \in Tables : s # t => tables'[s] = tables[s]
          BY <1>2, <3>1 DEF Rows, TableRow, Shown, Seats
    <3>3. doubted' = doubted \cup {t}
          BY <3>1
    <3> QED BY <3>1, <3>2, <3>3
  <2>2. CASE UpdateTable(w)
    <3>1. PICK t \in Tables, label \in Labels :
            /\ tables' = [tables EXCEPT ![t].status = label]
            /\ doubted' = doubted \cup ({t} \cap Tables)
            /\ r = Idle /\ served < MaxRequests /\ served' = served + 1
            /\ Step(w, Idle, {}, {t})
            /\ orders' = orders /\ nextId' = nextId /\ joined' = joined
          BY <1>1, <2>2 DEF UpdateTable, Once, Doubt
    <3>2. /\ tables' \in [Tables -> TableRow]
          /\ \A s \in Tables : s # t => tables'[s] = tables[s]
          BY <1>2, <3>1, FloorAssumption DEF Rows, TableRow
    <3>3. doubted' = doubted \cup {t}
          BY <3>1
    <3> QED BY <3>1, <3>2, <3>3
  <2> QED BY <2>1, <2>2
<1>4. Rows'
  <2>1. served' \in 0 .. MaxRequests
        BY <1>2, <1>3, FloorAssumption DEF Rows
  <2> QED BY <1>2, <1>3, <2>1 DEF Rows
<1>5. Written({}, {t}, {t})
      BY <1>3 DEF Written
<1>6. Answered({}, {t})
      BY <1>3 DEF Answered
<1>7. Handed(r, Idle, {t}) /\ Ahead(r, Idle, {t})
      BY <1>3, WriteHands, IdleFields, IdleFresh DEF Ahead
<1>8. {t} \in SUBSET ({t} \cap Tables)
      OBVIOUS
<1> QED BY <1>1, <1>3, <1>4, <1>5, <1>6, <1>7, <1>8, IdleType, IdleFresh, StepInv

LEMMA CheckoutOrderInv ==
  ASSUME FloorInv, NEW w \in Workers, CheckoutOrder(w) PROVE FloorInv'
<1>1. PICK r : r = reqs[w]
      OBVIOUS
<1>2. r \in Request /\ Well(r) /\ Fresh(r) /\ Rows
      BY <1>1, RowTypes
<1>3. PICK id \in r.todo :
        /\ r.op = "checkout"
        /\ orders' = [orders EXCEPT ![id].status = "COMPLETED"]
        /\ Step(w, [r EXCEPT !.todo = @ \ {id}, !.at = IF r.todo = {id} THEN "table" ELSE "write"],
                {id}, {orders[id].table})
        /\ tables' = tables /\ nextId' = nextId /\ served' = served
        /\ joined' = joined /\ doubted' = doubted
      BY <1>1 DEF CheckoutOrder
<1>4. PICK k, old :
        /\ k = [r EXCEPT !.todo = @ \ {id}, !.at = IF r.todo = {id} THEN "table" ELSE "write"]
        /\ old = orders[id].table
      OBVIOUS
<1>5. id \in Orders
      BY <1>2 DEF Request
<1>6. /\ orders' \in [Orders -> OrderRow]
      /\ \A o \in Orders : o # id => orders'[o] = orders[o]
      /\ orders'[id].table = old /\ orders'[id].status = "COMPLETED"
      BY <1>2, <1>3, <1>4, <1>5 DEF Rows, OrderRow, Status, Finished
<1>7. Rows'
      BY <1>2, <1>3, <1>6 DEF Rows
<1>8. Written({id}, {old}, {})
      BY <1>3, <1>6 DEF Written
<1>9. Answered({id}, {})
      BY <1>6 DEF Answered, Waits, Active
<1>10. /\ k \in Request /\ k.op = "checkout" /\ k.order = r.order /\ k.table = r.table
       /\ k.at = IF r.todo = {id} THEN "table" ELSE "write"
       /\ k.todo = r.todo \ {id} /\ k.stale = r.stale
       BY <1>2, <1>3, <1>4 DEF Request, Steps
<1>11. Well(k)
       BY <1>2, <1>3, <1>10 DEF Well
<1>12. k.stale \/ Holds(k)'
  <2> SUFFICES ASSUME ~r.stale PROVE Holds(k)'
      BY <1>10
  <2>1. SeatedAt(r.table) \subseteq IF r.at = "write" THEN r.todo ELSE {}
        BY <1>2, <1>3 DEF Fresh, Holds
  <2>2. SeatedAt(k.table)' \subseteq SeatedAt(r.table) \ {id}
        BY <1>5, <1>6, <1>10 DEF SeatedAt, Existing, Finished
  <2>3. SeatedAt(k.table)' \subseteq IF k.at = "write" THEN k.todo ELSE {}
        BY <1>10, <2>1, <2>2
  <2> QED BY <1>10, <2>3 DEF Holds
<1>13. r.order = 0
       BY <1>2, <1>3 DEF Well
<1>14. Handed(r, k, {}) /\ Ahead(r, k, {old})
       BY <1>10, <1>13 DEF Handed, Owes, Orders, Ahead, Apart
<1>15. {} \in SUBSET ({old} \cap Tables)
       OBVIOUS
<1> QED BY <1>1, <1>3, <1>4, <1>7, <1>8, <1>9, <1>10, <1>11, <1>12, <1>14, <1>15, StepInv

LEMMA CheckoutTableInv ==
  ASSUME FloorInv, NEW w \in Workers, CheckoutTable(w) PROVE FloorInv'
<1>1. PICK r, sons, T :
        /\ r = reqs[w] /\ sons = {t \in Tables : tables[t].parent = r.table}
        /\ T = sons \cup {r.table}
      OBVIOUS
<1>2. /\ r.op = "checkout" /\ r.at = "table"
      /\ tables' = [t \in Tables |-> IF t \in T
                      THEN [status |-> "AVAILABLE", parent |-> NoTable] ELSE tables[t]]
      /\ doubted' = doubted \cup sons \cup Overtaken(w, {r.table})
      /\ Step(w, Idle, {}, T)
      /\ orders' = orders /\ nextId' = nextId /\ served' = served /\ joined' = joined
      BY <1>1 DEF CheckoutTable
<1>3. r \in Request /\ Well(r) /\ Fresh(r) /\ Rows
      BY <1>1, RowTypes
<1>4. r.table \in Tables /\ r.order = 0 /\ T \in SUBSET Tables
      BY <1>1, <1>2, <1>3 DEF Well
<1>5. /\ tables' \in [Tables -> TableRow]
      /\ \A t \in Tables : t \notin T => tables'[t] = tables[t]
      BY <1>2, <1>3 DEF Rows, TableRow, Shown, Seats
<1>6. /\ doubted \subseteq doubted' /\ doubted' \in SUBSET Tables /\ sons \subseteq doubted'
      /\ r.stale => r.table \in doubted'
      BY <1>1, <1>2, <1>3, <1>4 DEF Rows, Overtaken
<1>7. Rows'
      BY <1>2, <1>3, <1>5, <1>6 DEF Rows
<1>8. Written({}, T, T)
      BY <1>2, <1>5, <1>6 DEF Written
<1>9. Answered({}, T)
  <2> SUFFICES ASSUME NEW o \in Orders, Waits(o)', orders'[o].table = r.table
               PROVE  r.table \in doubted'
      BY <1>1, <1>6 DEF Answered
  <2>1. o \in SeatedAt(r.table)
        BY <1>2 DEF Waits, SeatedAt, Existing, Active, Finished
  <2>2. r.stale
        BY <1>2, <1>3, <2>1 DEF Fresh, Holds
  <2> QED BY <1>6, <2>2
<1>10. Handed(r, Idle, T) /\ Ahead(r, Idle, T)
       BY <1>4, IdleFresh DEF Handed, Owes, Orders, Ahead
<1>11. T \in SUBSET (T \cap Tables)
       BY <1>4
<1> QED BY <1>1, <1>2, <1>7, <1>8, <1>9, <1>10, <1>11, IdleType, IdleFresh, StepInv

-----------------------------------------------------------------------------
(* Tables and orders.                                                      *)

LEMMA FloorInit == Init => FloorInv
<1> SUFFICES ASSUME Init PROVE FloorInv
    OBVIOUS
<1>1. TypeInv
  <2>1. NoOrder \in OrderRow
        BY DEF NoOrder, OrderRow, Status, Seats
  <2>2. [status |-> "AVAILABLE", parent |-> NoTable] \in TableRow
        BY DEF TableRow, Shown, Seats
  <2>3. nextId \in 1 .. MaxOrders + 1 /\ served \in 0 .. MaxRequests
        BY FloorAssumption DEF Init
  <2> QED BY <2>1, <2>2, <2>3, IdleType DEF Init, TypeInv, TypeOK
<1>2. \A w \in Workers : Fresh(reqs[w]) /\ Apart(reqs[w])
      BY IdleFresh DEF Init, Fresh
<1>3. Seen
      BY DEF Init, Seen, Waits, NoOrder
<1> QED BY <1>1, <1>2, <1>3 DEF FloorInv

LEMMA FloorNext == FloorInv /\ [Next]_vars => FloorInv'
<1> SUFFICES ASSUME FloorInv, [Next]_vars PROVE FloorInv'
    OBVIOUS
<1>1. CASE UNCHANGED vars
  <2>1. \A r : Holds(r)' <=> Holds(r)
        BY <1>1 DEF vars, Holds, OpenAt, SeatedAt, Existing, Waits
  <2>2. \A w \in Workers : Fresh(reqs[w])'
        BY <1>1, <2>1 DEF vars, FloorInv, Fresh
  <2>3. TypeInv'
        BY <1>1 DEF vars, FloorInv, TypeInv, TypeOK
  <2>4. \A o, t : Owed(o, t)' <=> Owed(o, t)
        BY <1>1 DEF vars, Owed
  <2>5. Seen'
        BY <1>1, <2>4 DEF vars, FloorInv, Seen, Waits, Kept
  <2>6. \A w \in Workers : Apart(reqs[w])'
        BY <1>1, <2>4 DEF vars, FloorInv, Apart, Waits
  <2> QED BY <2>2, <2>3, <2>5, <2>6 DEF FloorInv
<1>2. ASSUME NEW w \in Workers, Receive(w) PROVE FloorInv'
      BY <1>2, CreateReadInv, GuestOrderInv, OrderReadInv, TableReadInv, HandInv DEF Receive
<1>3. ASSUME NEW w \in Workers, Handle(w) PROVE FloorInv'
      BY <1>3, CreateCommitInv, SplitChildInv, AssignCommitInv, StatusWriteInv, StatusTableInv,
         VoidCommitInv, RowWriteInv, MoveSourceInv, MoveClearInv, MoveSeatInv, OccupyInv,
         CheckoutOrderInv, CheckoutTableInv DEF Handle
<1> QED BY <1>1, <1>2, <1>3, FailInv DEF Next

LEMMA FloorAlways == Spec => []FloorInv
BY FloorInit, FloorNext, PTL DEF Spec

\* Every reachable state of the floor is well typed (all the handlers of Floor).
THEOREM TypeCorrect == Spec => []TypeOK
<1>1. FloorInv => TypeOK
      BY DEF FloorInv, TypeInv
<1> QED BY <1>1, FloorAlways, PTL

\* A table with an order that waits to be paid shows OCCUPIED unless it is doubted or
\* a request is half way through its rows (createDirect, assignTable, updateStatus,
\* voidOrder and TableService).
THEOREM OccupiedCorrect == Spec => []OwingIsOccupied
<1>1. FloorInv => OwingIsOccupied
  <2> SUFFICES ASSUME FloorInv, NEW o \in Orders, Owing(o), ~HalfWay(o),
                      orders[o].table \notin doubted
               PROVE  tables[orders[o].table].status = "OCCUPIED"
      BY DEF OwingIsOccupied
  <2>1. Waits(o)
        BY DEF Owing, Waits
  <2>2. ~Owed(o, orders[o].table)
        BY DEF HalfWay, Owed, Owes
  <2> QED BY <2>1, <2>2 DEF FloorInv, Seen, Kept
<1> QED BY <1>1, FloorAlways, PTL

\* moveOrder seats its order with no other one that waits, unless it was overtaken or
\* the target was doubted (TableService.moveOrder).
THEOREM MoveCorrect == Spec => MovesToEmptyTable
<1> DEFINE Moved ==
      \A w \in Workers : reqs[w].at = "seat" /\ MoveSeat(w) =>
         \/ reqs[w].stale
         \/ reqs[w].target \in doubted
         \/ \A o \in Orders \ {reqs[w].order} :
              Owing(o) /\ orders[o].table = reqs[w].target => HalfWay(o)
<1>1. FloorInv /\ [Next]_vars => [Moved]_vars
  <2> SUFFICES ASSUME FloorInv, NEW w \in Workers, reqs[w].at = "seat", MoveSeat(w),
                      ~reqs[w].stale, reqs[w].target \notin doubted,
                      NEW o \in Orders, Owing(o), orders[o].table = reqs[w].target
               PROVE  HalfWay(o)
      OBVIOUS
  <2>1. Waits(o) /\ reqs[w].op = "move"
        BY DEF Owing, Waits, MoveSeat
  <2>2. Owed(o, reqs[w].target)
        BY <2>1 DEF FloorInv, Apart
  <2> QED BY <2>2 DEF Owed, Owes, HalfWay
<1> QED BY <1>1, FloorAlways, PTL DEF Spec, MovesToEmptyTable

-----------------------------------------------------------------------------
(* The tills' orders for a table.                                          *)

\* An order that createDirect opened is one of those already created.
JoinInv == TabsJoin /\ \A o \in joined : o \in Orders /\ o < nextId

\* Nothing joins, moves or wakes.
LEMMA JoinKept ==
  ASSUME JoinInv, joined' \subseteq joined, nextId' \in Int, nextId \in Int, nextId <= nextId',
         \A o \in joined' : /\ orders'[o].table = orders[o].table
                            /\ orders'[o].status \in Active => orders[o].status \in Active
  PROVE  JoinInv'
<1>1. TabsJoin'
      BY DEF JoinInv, TabsJoin
<1>2. \A o \in joined' : o \in Orders /\ o < nextId'
      BY DEF JoinInv, Orders
<1> QED BY <1>1, <1>2 DEF JoinInv

\* A step that writes one order of those that exist.
LEMMA JoinWrite ==
  ASSUME FloorInv, JoinInv, NEW o \in Orders, joined' \subseteq joined, nextId' = nextId,
         \A p \in Orders : p # o => orders'[p] = orders[p],
         o \in joined' => /\ orders'[o].table = orders[o].table
                          /\ orders'[o].status \in Active => orders[o].status \in Active
  PROVE  JoinInv'
<1>1. nextId \in Int
      BY RowTypes DEF Rows
<1>2. \A p \in joined' : p \in Orders
      BY DEF JoinInv
<1> QED BY <1>1, <1>2, JoinKept

\* A step that creates an order and does not join it.
LEMMA JoinFresh ==
  ASSUME FloorInv, JoinInv, nextId \in Orders, joined' \subseteq joined, nextId' = nextId + 1,
         \A p \in Orders : p # nextId => orders'[p] = orders[p]
  PROVE  JoinInv'
<1>1. nextId \in Int /\ nextId' \in Int /\ nextId <= nextId'
  <2>1. nextId \in Int
        BY RowTypes DEF Rows
  <2> QED BY <2>1
<1>2. ASSUME NEW p \in joined' PROVE orders'[p] = orders[p]
  <2>1. p \in Orders /\ p < nextId
        BY DEF JoinInv
  <2>2. p # nextId
        BY <1>1, <2>1 DEF Orders
  <2> QED BY <2>1, <2>2
<1> QED BY <1>1, <1>2, JoinKept

LEMMA JoinCreate ==
  ASSUME FloorInv, JoinInv, NEW w \in Workers, CreateCommit(w) PROVE JoinInv'
<1>1. PICK r, id : r = reqs[w] /\ id = IF r.order = 0 THEN nextId ELSE r.order
      OBVIOUS
<1>2. r \in Request /\ Well(r) /\ Fresh(r) /\ Rows
      BY <1>1, RowTypes
<1>3. r.op = "create" /\ id \in Orders
      BY <1>1 DEF CreateCommit
<1>4. CASE r.order # 0
  <2>1. /\ \E d : orders' = [orders EXCEPT ![id].status = r.to, ![id].due = d]
        /\ nextId' = nextId
        /\ Wake(id, r.to)
        BY <1>1, <1>4 DEF CreateCommit
  <2>2. /\ \A p \in Orders : p # id => orders'[p] = orders[p]
        /\ orders'[id].table = orders[id].table /\ orders'[id].status = r.to
        BY <1>2, <1>3, <2>1 DEF Rows, OrderRow
  <2>3. joined' \subseteq joined
        BY <2>1 DEF Wake
  <2>4. id \in joined' => (r.to \in Active => orders[id].status \in Active)
        BY <2>1 DEF Wake
  <2> QED BY <1>3, <2>1, <2>2, <2>3, <2>4, JoinWrite
<1>5. CASE r.order = 0
  <2>1. /\ \E d : orders' = [orders EXCEPT ![id] = [status |-> r.to, table |-> r.table, due |-> d]]
        /\ nextId' = nextId + 1 /\ id = nextId
        /\ joined' = IF r.stale THEN joined ELSE joined \cup {id}
        BY <1>1, <1>5 DEF CreateCommit
  <2>2. /\ \A p \in Orders : p # id => orders'[p] = orders[p]
        /\ orders'[id].table = r.table /\ orders'[id].status = r.to
        BY <1>2, <1>3, <2>1 DEF Rows
  <2>3. CASE r.stale
        BY <1>3, <2>1, <2>2, <2>3, JoinFresh
  <2>4. CASE ~r.stale
    <3>1. nextId \in Int
          BY <1>2 DEF Rows
    <3>2. \A p \in joined : p \in Orders /\ p < nextId /\ p # id /\ orders'[p] = orders[p]
          BY <2>1, <2>2, <3>1 DEF JoinInv, Orders
    <3>3. \A p \in joined' : p \in Orders /\ p < nextId'
          BY <1>3, <2>1, <2>4, <3>1, <3>2 DEF Orders
    <3>4. ASSUME NEW p \in joined, orders'[p].table = r.table, r.table # NoTable,
                 orders'[p].status \in Active
          PROVE  FALSE
      <4>1. p \in OpenAt(r.table)
            BY <3>2, <3>4 DEF OpenAt, Existing, Active
      <4> QED BY <1>2, <1>3, <1>5, <2>4, <3>4, <4>1 DEF Fresh, Holds
    <3>5. TabsJoin'
      <4> SUFFICES ASSUME NEW o \in joined', NEW p \in joined', o # p,
                          orders'[o].table = orders'[p].table, orders'[o].table # NoTable,
                          orders'[o].status \in Active, orders'[p].status \in Active
                   PROVE  FALSE
          BY DEF TabsJoin
      <4>1. CASE o \in joined /\ p \in joined
            BY <3>2, <4>1 DEF JoinInv, TabsJoin
      <4>2. CASE o = id /\ p \in joined
            BY <2>2, <3>4, <4>2
      <4>3. CASE p = id /\ o \in joined
            BY <2>2, <3>4, <4>3
      <4> QED BY <2>1, <2>4, <4>1, <4>2, <4>3
    <3> QED BY <3>3, <3>5 DEF JoinInv
  <2> QED BY <2>3, <2>4
<1> QED BY <1>4, <1>5

LEMMA JoinNext == FloorInv /\ JoinInv /\ [Next]_vars => JoinInv'
<1> SUFFICES ASSUME FloorInv, JoinInv, [Next]_vars PROVE JoinInv'
    OBVIOUS
<1>1. Rows /\ nextId \in Int /\ nextId <= nextId
      BY RowTypes DEF Rows
<1>2. ASSUME orders' = orders, joined' = joined, nextId' = nextId PROVE JoinInv'
      BY <1>1, <1>2, JoinKept
<1>3. ASSUME NEW w \in Workers, Receive(w) PROVE JoinInv'
  <2>1. CASE CreateGuestOrder(w)
    <3>1. PICK t \in Tables, status \in {"PENDING", "SCHEDULED"} :
            /\ nextId \in Orders
            /\ orders' = [orders EXCEPT ![nextId] = [status |-> status, table |-> t, due |-> 1]]
            /\ nextId' = nextId + 1 /\ joined' = joined
          BY <2>1 DEF CreateGuestOrder
    <3>2. \A p \in Orders : p # nextId => orders'[p] = orders[p]
          BY <1>1, <3>1 DEF Rows
    <3> QED BY <3>1, <3>2, JoinFresh
  <2>2. CASE ~CreateGuestOrder(w)
    <3>1. orders' = orders /\ joined' = joined /\ nextId' = nextId
          BY <1>3, <2>2, ZenonT(40) DEF Receive, CreateRead, SplitRead, AssignRead, StatusRead, VoidRead,
             RowRead, MoveTarget, MergeRead, UnmergeTable, UpdateTable, CheckoutRead
    <3> QED BY <1>2, <3>1
  <2> QED BY <2>1, <2>2
<1>4. ASSUME NEW w \in Workers, Handle(w) PROVE JoinInv'
  <2>1. PICK r : r = reqs[w]
        OBVIOUS
  <2>2. r \in Request /\ Well(r)
        BY <2>1, RowTypes
  <2>3. CASE SplitChild(w)
    <3>1. /\ nextId \in Orders /\ nextId' = nextId + 1 /\ joined' = joined
          /\ orders' = [orders EXCEPT ![nextId] =
                          [status |-> "PENDING", table |-> r.table, due |-> 1]]
          BY <2>1, <2>3 DEF SplitChild
    <3>2. \A p \in Orders : p # nextId => orders'[p] = orders[p]
          BY <1>1, <3>1 DEF Rows
    <3> QED BY <3>1, <3>2, JoinFresh
  <2>4. CASE AssignCommit(w) \/ MoveSeat(w)
    <3>1. r.order \in Orders
          BY <2>1, <2>2, <2>4 DEF AssignCommit, MoveSeat, Well
    <3>2. /\ \E t : orders' = [orders EXCEPT ![r.order].table = t]
          /\ joined' = joined \ {r.order} /\ nextId' = nextId
          BY <2>1, <2>4 DEF AssignCommit, MoveSeat
    <3>3. \A p \in Orders : p # r.order => orders'[p] = orders[p]
          BY <1>1, <3>2 DEF Rows
    <3> QED BY <3>1, <3>2, <3>3, JoinWrite
  <2>5. CASE StatusWrite(w) \/ RowWrite(w)
    <3>1. r.order \in Orders
          BY <2>1, <2>2, <2>5 DEF StatusWrite, RowWrite, Well
    <3>2. /\ \/ \E d : orders' = [orders EXCEPT ![r.order].status = r.to, ![r.order].due = d]
             \/ orders' = [orders EXCEPT ![r.order].status = r.to]
          /\ Wake(r.order, r.to) /\ nextId' = nextId
          BY <2>1, <2>5 DEF StatusWrite, RowWrite
    <3>3. /\ \A p \in Orders : p # r.order => orders'[p] = orders[p]
          /\ orders'[r.order].table = orders[r.order].table
          /\ orders'[r.order].status = r.to
          BY <1>1, <3>1, <3>2, ZenonT(40) DEF Rows, OrderRow
    <3>4. joined' \subseteq joined
          BY <3>2 DEF Wake
    <3>5. r.order \in joined' => (r.to \in Active => orders[r.order].status \in Active)
          BY <3>2 DEF Wake
    <3> QED BY <3>1, <3>2, <3>3, <3>4, <3>5, JoinWrite
  <2>6. CASE VoidCommit(w) \/ CheckoutOrder(w)
    <3>1. PICK o \in Orders, to \in {"CANCELLED", "COMPLETED"} :
            /\ orders' = [orders EXCEPT ![o].status = to]
            /\ joined' = joined /\ nextId' = nextId
      <4>1. CASE VoidCommit(w)
        <5>1. r.order \in Orders
              BY <2>1, <2>2, <4>1 DEF VoidCommit, Well
        <5> QED BY <2>1, <4>1, <5>1 DEF VoidCommit
      <4>2. CASE CheckoutOrder(w)
        <5>1. r.todo \subseteq Orders
              BY <2>2 DEF Request
        <5> QED BY <2>1, <4>2, <5>1 DEF CheckoutOrder
      <4> QED BY <2>6, <4>1, <4>2
    <3>2. /\ \A p \in Orders : p # o => orders'[p] = orders[p]
          /\ orders'[o].table = orders[o].table /\ orders'[o].status = to
          BY <1>1, <3>1 DEF Rows, OrderRow
    <3>3. to \notin Active
          BY DEF Active
    <3> QED BY <3>1, <3>2, <3>3, JoinWrite
  <2>7. CASE \/ StatusTable(w) \/ MoveSource(w) \/ MoveClear(w) \/ MoveOccupy(w)
            \/ MergeWrite(w) \/ CheckoutTable(w)
    <3>1. orders' = orders /\ joined' = joined /\ nextId' = nextId
          BY <2>7 DEF StatusTable, MoveSource, MoveClear, MoveOccupy, MergeWrite, CheckoutTable
    <3> QED BY <1>2, <3>1
  <2> QED BY <1>4, <2>3, <2>4, <2>5, <2>6, <2>7, JoinCreate DEF Handle
<1>5. ASSUME NEW w \in Workers, Fail(w) PROVE JoinInv'
      BY <1>2, <1>5 DEF Fail
<1> QED BY <1>2, <1>3, <1>4, <1>5 DEF Next, vars

\* Two open orders at a table are never both the work of createDirect alone, unless one
\* of its requests was overtaken (createDirect looks for the table's open order).
THEOREM JoinCorrect == Spec => []TabsJoin
<1>1. Init => JoinInv
      BY DEF Init, JoinInv, TabsJoin
<1>2. JoinInv => TabsJoin
      BY DEF JoinInv
<1> QED BY <1>1, <1>2, JoinNext, FloorAlways, PTL DEF Spec
=============================================================================
