--------------------------- MODULE CustomersProofs ---------------------------
(***************************************************************************)
(* Proofs about Customers for any customers, carts, rewards and number of   *)
(* calls.  A balance is explained step by step; that it does not fall below *)
(* zero needs the row locks: who has redeemed points holds the row, alone,  *)
(* and the balance still covers what it took.  That spend is the sum of the *)
(* orders that earned needs to know who may still earn for an order, and    *)
(* what one more element does to a sum.                                    *)
(***************************************************************************)
EXTENDS Customers, FiniteSetTheorems, TLAPS

-----------------------------------------------------------------------------
(* Types.                                                                  *)

LEMMA VisitsNat == \A c : Visits(c) \in Nat
<1> TAKE c
<1> DEFINE V == {o \in Requests : orders[o].customer = c /\ orders[o].status = "COMPLETED"}
<1>1. IsFiniteSet(Requests)
      BY CustomersAssumption, FS_Interval DEF Requests
<1>2. V \subseteq Requests
      OBVIOUS
<1>3. IsFiniteSet(V)
      BY <1>1, <1>2, FS_Subset
<1>4. Cardinality(V) \in Nat
      BY <1>3, FS_CardinalityType
<1> QED BY <1>4 DEF Visits

LEMMA SnapshotType == ASSUME TypeOK, NEW c \in Customers PROVE Snapshot(c) \in Seen
BY VisitsNat DEF TypeOK, Customer, Snapshot, Seen

LEMMA PointsInt == ASSUME NEW a \in Int, NEW t \in Tiers PROVE PointsFor(a, t) \in Int
<1>1. a * 2 \in Int /\ (a * 3) \div 2 \in Int
      OBVIOUS
<1> QED BY <1>1 DEF PointsFor

LEMMA BonusNat == \A s : Bonus(s) \in Nat
BY CustomersAssumption DEF Bonus

LEMMA EarnedType ==
  ASSUME NEW w \in Customer, NEW s \in Seen, NEW a \in Int, NEW n \in Nat
  PROVE  Earned(w, s, a, n) \in Customer
<1> DEFINE base == PointsFor(a, s.tier)
<1>1. base \in Int
      BY PointsInt DEF Seen
<1>2. Bonus(s) \in Nat /\ Logged(base) \in Int
      BY <1>1, BonusNat DEF Logged
<1>3. TierOf(s.spend + a) \in Tiers
      BY DEF TierOf, Tiers
<1>4. s.spend + a \in Int
      BY DEF Seen
<1>6. /\ w.points - n + base + Bonus(s) \in Int
      /\ w.ledger - n + Logged(base) + Bonus(s) \in Int
      BY <1>1, <1>2 DEF Customer
<1>7. (IF Referral(s) THEN FALSE ELSE w.referred) \in BOOLEAN
      BY DEF Customer
<1>8. (IF Referral(s) THEN w.rewards + 1 ELSE w.rewards) \in Nat
      BY DEF Customer
<1>9. Reasons(w, s, base) \in SUBSET Causes
      BY DEF Customer, Causes, Reasons
<1> HIDE DEF base
<1>10. [w EXCEPT !.points = @ - n + base + Bonus(s),
                 !.ledger = @ - n + Logged(base) + Bonus(s),
                 !.spend = s.spend + a, !.tier = TierOf(s.spend + a),
                 !.referred = IF Referral(s) THEN FALSE ELSE @,
                 !.rewards = IF Referral(s) THEN @ + 1 ELSE @,
                 !.why = Reasons(w, s, base)] \in Customer
       BY <1>3, <1>4, <1>6, <1>7, <1>8, <1>9 DEF Customer
<1> QED BY <1>10 DEF Earned, base

LEMMA RewardedType == ASSUME NEW w \in Customer PROVE Rewarded(w) \in Customer
<1>1. ReferrerReward \in Nat
      BY CustomersAssumption
<1>2. w.points + ReferrerReward \in Int /\ w.ledger + ReferrerReward \in Int
      BY <1>1 DEF Customer
<1> QED BY <1>2 DEF Rewarded, Customer

LEMMA RedeemedType ==
  ASSUME NEW w \in Customer, NEW n \in Nat PROVE Redeemed(w, n) \in Customer
<1>1. w.points - n \in Int /\ w.ledger - n \in Int
      BY DEF Customer
<1> QED BY <1>1 DEF Redeemed, Customer

LEMMA IdleType == Idle \in Request /\ Nothing \in Seen
BY DEF Idle, Request, Nothing, Seen, Ops, Steps, Tiers, Statuses

LEMMA EndType == ASSUME TypeOK, NEW r \in Requests, End(r) PROVE reqs' \in [Requests -> Request]
<1>1. [Idle EXCEPT !.at = "done"] \in Request
      BY IdleType DEF Idle, Request, Steps
<1> QED BY <1>1 DEF TypeOK, End

LEMMA TypeInit == Init => TypeOK
<1> SUFFICES ASSUME Init PROVE TypeOK
    OBVIOUS
<1>1. customers \in [Customers -> Customer]
      BY CustomersAssumption DEF Init, Customer, Tiers
<1>2. orders \in [Requests -> Order]
      BY DEF Init, NoOrder, Order, Statuses
<1>3. reqs \in [Requests -> Request]
      BY IdleType DEF Init
<1> QED BY <1>1, <1>2, <1>3 DEF TypeOK

LEMMA GotoType ==
  ASSUME NEW q \in Request, NEW step \in Steps PROVE [q EXCEPT !.at = step] \in Request
BY DEF Request

LEMMA ReadingType ==
  ASSUME NEW q \in Request, NEW step \in Steps, NEW s \in Seen
  PROVE  [q EXCEPT !.at = step, !.seen = s] \in Request
BY DEF Request

LEMMA TakeType ==
  ASSUME NEW q \in Request, NEW step \in Steps
  PROVE  [q EXCEPT !.at = step, !.locks = TRUE] \in Request
BY DEF Request

LEMMA PutType ==
  ASSUME TypeOK, NEW r \in Requests, NEW q \in Request, reqs' = [reqs EXCEPT ![r] = q]
  PROVE  reqs' \in [Requests -> Request] /\ reqs'[r] = q
BY DEF TypeOK

\* Where a call goes with its order: only a customer it names redeems or earns.
LEMMA OnwardStep ==
  ASSUME NEW c, NEW n \in Nat, NEW d
  PROVE  /\ Onward(c, n, d) \in {"points", "read", "commit"}
         /\ Onward(c, n, d) = "points" => n > 0
         /\ Onward(c, n, d) # "points" => n = 0
         /\ Onward(c, n, d) = "read" => c # NoCustomer
<1>1. CASE n > 0
      BY <1>1, Zenon DEF Onward
<1>2. CASE ~(n > 0)
  <2>1. n = 0
        BY <1>2
  <2>2. Onward(c, n, d) = IF c # NoCustomer /\ d <= 0 THEN "read" ELSE "commit"
        BY <1>2, Zenon DEF Onward
  <2> QED BY <2>1, <2>2, Zenon
<1> QED BY <1>1, <1>2

LEMMA CallType ==
  ASSUME NEW c \in Customers \cup {NoCustomer}, NEW o \in Requests, NEW cart \in Carts,
         NEW d \in Int, NEW status \in Given, NEW step \in Steps
  PROVE  Call(c, o, cart, d, status, step) \in Request
<1>1. cart.total \in Int /\ cart.redeem \in Nat
      BY CustomersAssumption
<1>2. status \in Statuses
      BY DEF Statuses
<1> QED BY <1>1, <1>2, IdleType DEF Call, Request, Ops

\* A call that x has just begun to make an order, or to add to one.
Begun(x, q) ==
  /\ q \in Request /\ q.op = "order" /\ q.locks = FALSE /\ q.order \in Requests
  /\ q.at \in {"append", "points", "read", "commit"}
  /\ q.redeem > 0 => q.customer # NoCustomer
  /\ q.at = "points" => q.redeem > 0
  /\ q.at \in {"read", "commit"} => q.redeem = 0
  /\ q.at = "read" => q.customer # NoCustomer

LEMMA OrderBegun ==
  ASSUME TypeOK, NEW x \in Requests, BeginOrder(x) \/ BeginAppend(x)
  PROVE  Begun(x, reqs'[x]) /\ reqs' \in [Requests -> Request]
<1>1. ASSUME NEW q, Begun(x, q), reqs' = [reqs EXCEPT ![x] = q]
      PROVE  Begun(x, reqs'[x]) /\ reqs' \in [Requests -> Request]
      BY <1>1, PutType DEF Begun
<1>2. CASE BeginOrder(x)
  <2>0. PICK c \in Customers \cup {NoCustomer}, cart \in Carts : \E d \in {0, cart.total} :
          \E status \in Asked \cup {IF d <= 0 THEN "COMPLETED" ELSE "OPEN"} :
            /\ c = NoCustomer => cart.redeem = 0
            /\ reqs' = [reqs EXCEPT ![x] =
                 Call(c, x, cart, d, status, Onward(c, cart.redeem, d))]
        BY <1>2 DEF BeginOrder
  <2>9. PICK d \in {0, cart.total} :
          \E status \in Asked \cup {IF d <= 0 THEN "COMPLETED" ELSE "OPEN"} :
            /\ c = NoCustomer => cart.redeem = 0
            /\ reqs' = [reqs EXCEPT ![x] =
                 Call(c, x, cart, d, status, Onward(c, cart.redeem, d))]
        BY <2>0
  <2>1. PICK status \in Given :
          /\ c = NoCustomer => cart.redeem = 0
          /\ reqs' = [reqs EXCEPT ![x] = Call(c, x, cart, d, status, Onward(c, cart.redeem, d))]
        BY <2>9, CustomersAssumption DEF Given
  <2>2. d \in Int /\ cart.redeem \in Nat
        BY CustomersAssumption
  <2> DEFINE step == Onward(c, cart.redeem, d)
  <2>3. /\ step \in {"points", "read", "commit"}
        /\ step = "points" => cart.redeem > 0
        /\ step # "points" => cart.redeem = 0
        /\ step = "read" => c # NoCustomer
        BY <2>2, OnwardStep
  <2>4. step \in Steps
        BY <2>3 DEF Steps
  <2>5. PICK q : q = Call(c, x, cart, d, status, step) /\ reqs' = [reqs EXCEPT ![x] = q]
        BY <2>1
  <2> HIDE DEF step
  <2>6. /\ q.op = "order" /\ q.at = step /\ q.customer = c /\ q.order = x
        /\ q.redeem = cart.redeem /\ q.locks = FALSE
        BY <2>5 DEF Call, Idle
  <2>8. q \in Request
        BY <2>2, <2>4, <2>5, CallType
  <2>7. Begun(x, q)
        BY <2>1, <2>2, <2>3, <2>6, <2>8 DEF Begun
  <2> QED BY <1>1, <2>5, <2>7
<1>3. CASE BeginAppend(x)
  <2>0. PICK c \in Customers \cup {NoCustomer}, cart \in Carts, o \in Requests :
          \E d \in {cart.total, -orders[o].due} :
            /\ c = NoCustomer => cart.redeem = 0
            /\ orders[o].status = "OPEN"
            /\ reqs' = [reqs EXCEPT ![x] = Call(c, o, cart, d,
                 IF orders[o].due + d <= 0 THEN "COMPLETED" ELSE "OPEN", "append")]
        BY <1>3 DEF BeginAppend
  <2>1. PICK d \in {cart.total, -orders[o].due} :
          /\ c = NoCustomer => cart.redeem = 0
          /\ reqs' = [reqs EXCEPT ![x] = Call(c, o, cart, d,
               IF orders[o].due + d <= 0 THEN "COMPLETED" ELSE "OPEN", "append")]
        BY <2>0
  <2> DEFINE status == IF orders[o].due + d <= 0 THEN "COMPLETED" ELSE "OPEN"
  <2>2. d \in Int /\ cart.redeem \in Nat
        BY CustomersAssumption DEF TypeOK, Order
  <2>3. status \in Given /\ "append" \in Steps
        BY DEF Given, Steps
  <2>4. PICK q : q = Call(c, o, cart, d, status, "append") /\ reqs' = [reqs EXCEPT ![x] = q]
        BY <2>1
  <2> HIDE DEF status
  <2>5. /\ q.op = "order" /\ q.at = "append" /\ q.customer = c /\ q.order = o
        /\ q.redeem = cart.redeem /\ q.locks = FALSE
        BY <2>4 DEF Call, Idle
  <2>7. q \in Request
        BY <2>2, <2>3, <2>4, CallType
  <2>6. Begun(x, q)
        BY <2>1, <2>2, <2>5, <2>7 DEF Begun
  <2> QED BY <1>1, <2>4, <2>6
<1> QED BY <1>2, <1>3

\* What updateStatus makes of its order and of its call.
LEMMA OrderMarked ==
  ASSUME TypeOK, NEW x \in Requests, Mark(x)
  PROVE  \E o \in Requests, status \in Given, earns \in BOOLEAN, left \in Int :
           /\ orders' = [orders EXCEPT ![o] = Marked(o, status, left, earns)]
           /\ earns => orders[o].customer # NoCustomer
           /\ reqs' = [reqs EXCEPT ![x] = IF earns THEN Earning(o) ELSE [Idle EXCEPT !.at = "done"]]
<1>1. PICK o \in Requests, status \in Given :
       LET earns == status = "COMPLETED" /\ orders[o].customer # NoCustomer
       IN /\ orders[o].status # "none" /\ Unlocked(x, o)
          /\ \E left \in Settled(status, orders[o].due) :
               orders' = [orders EXCEPT ![o] = Marked(o, status, left, earns)]
          /\ reqs' = [reqs EXCEPT ![x] = IF earns THEN Earning(o) ELSE [Idle EXCEPT !.at = "done"]]
      BY DEF Mark
<1> DEFINE earns == status = "COMPLETED" /\ orders[o].customer # NoCustomer
<1>2. PICK left \in Settled(status, orders[o].due) :
        orders' = [orders EXCEPT ![o] = Marked(o, status, left, earns)]
      BY <1>1
<1>3. left \in Int
  <2>1. orders[o].due \in Int
        BY DEF TypeOK, Order
  <2>2. Settled(status, orders[o].due) \subseteq {0, orders[o].due}
        BY Zenon DEF Settled
  <2> QED BY <2>1, <2>2
<1>4. earns \in BOOLEAN /\ (earns => orders[o].customer # NoCustomer)
      OBVIOUS
<1>5. reqs' = [reqs EXCEPT ![x] = IF earns THEN Earning(o) ELSE [Idle EXCEPT !.at = "done"]]
      BY <1>1
<1> HIDE DEF earns
<1> QED BY <1>2, <1>3, <1>4, <1>5

LEMMA EarningFields ==
  ASSUME TypeOK, NEW o \in Requests
  PROVE  /\ Earning(o) \in Request
         /\ Earning(o).op = "complete" /\ Earning(o).at = "read"
         /\ Earning(o).customer = orders[o].customer /\ Earning(o).order = o
         /\ Earning(o).amount = orders[o].amount
         /\ Earning(o).redeem = 0 /\ Earning(o).locks = FALSE
<1>1. orders[o].customer \in Customers \cup {NoCustomer} /\ orders[o].amount \in Int
      BY DEF TypeOK, Order
<1>2. Earning(o) \in Request
      BY <1>1, IdleType DEF Earning, Request, Ops, Steps
<1> QED BY <1>2 DEF Earning, Idle

LEMMA MarkedFields ==
  ASSUME TypeOK, NEW o \in Requests, NEW status \in Given, NEW left \in Int, NEW earns \in BOOLEAN
  PROVE  /\ Marked(o, status, left, earns) \in Order
         /\ Marked(o, status, left, earns).amount = orders[o].amount
         /\ Marked(o, status, left, earns).earners = orders[o].earners
         /\ Marked(o, status, left, earns).claims =
              (IF earns THEN orders[o].claims + 1 ELSE orders[o].claims)
<1>1. status \in Statuses /\ (IF earns THEN orders[o].claims + 1 ELSE orders[o].claims) \in Nat
      BY DEF Statuses, TypeOK, Order
<1> QED BY <1>1 DEF Marked, TypeOK, Order

LEMMA AdjustBegun ==
  ASSUME TypeOK, NEW x \in Requests, BeginAdjust(x)
  PROVE  /\ reqs' \in [Requests -> Request]
         /\ reqs'[x].op = "adjust" /\ reqs'[x].at = "read" /\ reqs'[x].customer \in Customers
         /\ reqs'[x].redeem = 0 /\ reqs'[x].locks = FALSE
<1>1. PICK c \in Customers, n \in Adjustments, sign \in {1, -1} :
        reqs' = [reqs EXCEPT ![x] = [Idle EXCEPT
                   !.op = "adjust", !.at = "read", !.customer = c, !.change = sign * n]]
      BY DEF BeginAdjust
<1>2. sign * n \in Int
      BY CustomersAssumption
<1> DEFINE q == [Idle EXCEPT !.op = "adjust", !.at = "read", !.customer = c, !.change = sign * n]
<1>3. q \in Request
      BY <1>2, IdleType DEF Request, Ops, Steps
<1>4. q.op = "adjust" /\ q.at = "read" /\ q.customer = c /\ q.redeem = 0 /\ q.locks = FALSE
      BY DEF Idle
<1>5. reqs' = [reqs EXCEPT ![x] = q]
      BY <1>1
<1> HIDE DEF q
<1> QED BY <1>3, <1>4, <1>5, PutType

-----------------------------------------------------------------------------
(* Who a call is for, and what it is about.                                *)

\* A call that touches a customer names one, and a call about an order names that.
WellNamed(q) ==
  /\ q.at \in {"points", "take", "read", "earn", "write"} => q.customer \in Customers
  /\ q.redeem > 0 \/ q.locks => q.customer \in Customers
  /\ q.at \notin {"idle", "done"} /\ q.op # "adjust" => q.order \in Requests
  /\ q.at \in {"append", "points", "take", "commit"} => q.op = "order"
  /\ q.at = "earn" => q.op # "adjust"

Named == \A r \in Requests : WellNamed(reqs[r])

LEMMA IdleNamed == WellNamed(Idle) /\ WellNamed([Idle EXCEPT !.at = "done"])
BY DEF WellNamed, Idle

LEMMA NamedInit == Init => Named
BY IdleNamed DEF Init, Named

LEMMA NamedStep == ASSUME TypeOK, Named, [Next]_vars PROVE Named'
<1> SUFFICES ASSUME NEW x \in Requests PROVE WellNamed(reqs'[x])
    BY DEF Named
<1>0. WellNamed(reqs[x]) /\ reqs[x] \in Request
      BY DEF Named, TypeOK
<1>1. CASE UNCHANGED vars
      BY <1>0, <1>1 DEF vars
<1>2. ASSUME NEW r \in Requests, r # x,
             \/ BeginOrder(r) \/ BeginAppend(r) \/ Append(r) \/ ReadPoints(r) \/ Take(r)
             \/ Commit(r) \/ ReadCustomer(r) \/ Earn(r) \/ Mark(r) \/ BeginAdjust(r)
             \/ Adjust(r) \/ Fail(r)
      PROVE  reqs'[x] = reqs[x]
      BY <1>2 DEF TypeOK, BeginOrder, BeginAppend, Append, ReadPoints, Take, Commit,
                  ReadCustomer, Earn, Mark, BeginAdjust, Adjust, Fail, Goto, End
<1>3. ASSUME End(x) PROVE WellNamed(reqs'[x])
      BY <1>3, IdleNamed DEF TypeOK, End
<1>4. ASSUME BeginOrder(x) \/ BeginAppend(x) PROVE WellNamed(reqs'[x])
      BY <1>4, OrderBegun DEF Begun, WellNamed, Request
<1>5. ASSUME Append(x) PROVE WellNamed(reqs'[x])
  <2> DEFINE step == Onward(reqs[x].customer, reqs[x].redeem, Due(x))
  <2>1. reqs[x].redeem \in Nat
        BY <1>0 DEF Request
  <2>2. /\ step \in {"points", "read", "commit"}
        /\ step = "points" => reqs[x].redeem > 0
        /\ step = "read" => reqs[x].customer # NoCustomer
        BY <2>1, OnwardStep
  <2>3. reqs[x].at = "append" /\ reqs' = [reqs EXCEPT ![x].at = step]
        BY <1>5 DEF Append, Goto
  <2> HIDE DEF step
  <2>4. /\ reqs'[x].at = step /\ reqs'[x].op = reqs[x].op /\ reqs'[x].order = reqs[x].order
        /\ reqs'[x].customer = reqs[x].customer /\ reqs'[x].redeem = reqs[x].redeem
        /\ reqs'[x].locks = reqs[x].locks
        BY <1>0, <2>3 DEF TypeOK, Request
  <2>5. reqs[x].customer \in Customers \cup {NoCustomer}
        BY <1>0 DEF Request
  <2> QED BY <1>0, <2>2, <2>3, <2>4, <2>5 DEF WellNamed
<1>6. ASSUME ReadPoints(x), ~End(x) PROVE WellNamed(reqs'[x])
  <2>1. /\ reqs[x].at = "points"
        /\ reqs' = [reqs EXCEPT ![x].at = "take", ![x].seen = Snapshot(reqs[x].customer)]
        BY <1>6 DEF ReadPoints
  <2>2. /\ reqs'[x].at = "take" /\ reqs'[x].op = reqs[x].op /\ reqs'[x].order = reqs[x].order
        /\ reqs'[x].customer = reqs[x].customer /\ reqs'[x].redeem = reqs[x].redeem
        /\ reqs'[x].locks = reqs[x].locks
        BY <1>0, <2>1 DEF TypeOK, Request
  <2> QED BY <1>0, <2>1, <2>2 DEF WellNamed
<1>7. ASSUME Take(x) PROVE WellNamed(reqs'[x])
  <2> DEFINE step == Onward(reqs[x].customer, 0, Due(x))
  <2>1. step \in {"read", "commit"}
        BY OnwardStep
  <2>2. /\ reqs[x].at = "take"
        /\ reqs' = [reqs EXCEPT ![x].at = step, ![x].locks = TRUE]
        BY <1>7 DEF Take
  <2> HIDE DEF step
  <2>3. /\ reqs'[x].at = step /\ reqs'[x].op = reqs[x].op /\ reqs'[x].order = reqs[x].order
        /\ reqs'[x].customer = reqs[x].customer /\ reqs'[x].redeem = reqs[x].redeem
        BY <1>0, <2>2 DEF TypeOK, Request
  <2> QED BY <1>0, <2>1, <2>2, <2>3 DEF WellNamed
<1>8. ASSUME ReadCustomer(x) PROVE WellNamed(reqs'[x])
  <2>1. /\ reqs[x].at = "read"
        /\ reqs'[x].at = (IF reqs[x].op = "adjust" THEN "write" ELSE "earn")
        /\ reqs'[x].op = reqs[x].op /\ reqs'[x].order = reqs[x].order
        /\ reqs'[x].customer = reqs[x].customer /\ reqs'[x].redeem = reqs[x].redeem
        /\ reqs'[x].locks = reqs[x].locks
        BY <1>8 DEF ReadCustomer, TypeOK, Request
  <2> QED BY <1>0, <2>1 DEF WellNamed
<1>9. ASSUME Mark(x) PROVE WellNamed(reqs'[x])
  <2>1. PICK o \in Requests, earns \in BOOLEAN :
          /\ earns => orders[o].customer # NoCustomer
          /\ reqs' = [reqs EXCEPT ![x] = IF earns THEN Earning(o) ELSE [Idle EXCEPT !.at = "done"]]
        BY <1>9, OrderMarked
  <2>2. CASE earns
    <3>1. reqs'[x] = Earning(o)
          BY <2>1, <2>2 DEF TypeOK
    <3>2. orders[o].customer \in Customers
          BY <2>1, <2>2 DEF TypeOK, Order
    <3>3. /\ Earning(o).op = "complete" /\ Earning(o).at = "read" /\ Earning(o).order = o
          /\ Earning(o).customer \in Customers /\ Earning(o).redeem = 0
          BY <3>2, EarningFields
    <3> QED BY <3>1, <3>3 DEF WellNamed
  <2>3. CASE ~earns
        BY <2>1, <2>3, IdleNamed DEF TypeOK
  <2> QED BY <2>2, <2>3
<1>10. ASSUME BeginAdjust(x) PROVE WellNamed(reqs'[x])
       BY <1>10, AdjustBegun DEF WellNamed
<1>11. ASSUME Commit(x) \/ Earn(x) \/ Adjust(x) \/ Fail(x) PROVE End(x)
       BY <1>11 DEF Commit, Earn, Adjust, Fail
<1> QED BY <1>1, <1>0, <1>2, <1>3, <1>4, <1>5, <1>6, <1>7, <1>8, <1>9, <1>10, <1>11 DEF Next

-----------------------------------------------------------------------------
(* Types, step by step.                                                    *)

LEMMA BillType ==
  ASSUME TypeOK, NEW r \in Requests, reqs[r].op = "order" => reqs[r].order \in Requests
  PROVE  Bill(r) \in Int
<1>1. reqs[r].amount \in Int
      BY DEF TypeOK, Request
<1>2. reqs[r].op = "order" => orders[reqs[r].order].amount \in Int
      BY DEF TypeOK, Order
<1> QED BY <1>1, <1>2 DEF Bill

\* What a call that commits makes of its order.
LEMMA PlacedOrder ==
  ASSUME TypeOK, NEW r \in Requests, reqs[r].op = "order", reqs[r].order \in Requests,
         NEW earns \in BOOLEAN, earns => reqs[r].customer \in Customers, Placed(r, earns),
         NEW o, o = reqs[r].order
  PROVE  /\ orders' \in [Requests -> Order]
         /\ \A p \in Requests \ {o} : orders'[p] = orders[p]
         /\ orders'[o].amount = Bill(r)
         /\ orders'[o].earners = orders[o].earners \cup (IF earns THEN {reqs[r].customer} ELSE {})
         /\ orders'[o].claims = (IF earns \/ orders[o].claims > 0 THEN orders[o].claims + 1 ELSE 0)
<1> DEFINE claims == IF earns \/ orders[o].claims > 0 THEN orders[o].claims + 1 ELSE 0
           new == [status |-> reqs[r].status,
                   customer |-> IF reqs[r].customer = NoCustomer THEN orders[o].customer
                                                                 ELSE reqs[r].customer,
                   amount |-> Bill(r), due |-> Due(r),
                   earners |-> orders[o].earners \cup (IF earns THEN {reqs[r].customer} ELSE {}),
                   claims |-> claims]
<1>1. orders' = [orders EXCEPT ![o] = new]
      BY DEF Placed
<1>2. /\ orders[o] \in Order /\ reqs[r] \in Request /\ orders \in [Requests -> Order]
      BY DEF TypeOK
<1>3. Bill(r) \in Int
      BY BillType
<1>4. Due(r) \in Int
      BY <1>2 DEF Due, Order, Request
<1>5. claims \in Nat
      BY <1>2 DEF Order
<1> HIDE DEF claims
<1>6. new \in Order
  <2>1. orders[o].earners \cup (IF earns THEN {reqs[r].customer} ELSE {}) \in SUBSET Customers
        BY <1>2 DEF Order
  <2>2. (IF reqs[r].customer = NoCustomer THEN orders[o].customer ELSE reqs[r].customer)
          \in Customers \cup {NoCustomer}
        BY <1>2 DEF Order, Request
  <2>3. reqs[r].status \in Statuses
        BY <1>2 DEF Request
  <2> QED BY <1>3, <1>4, <1>5, <2>1, <2>2, <2>3 DEF Order
<1>7. /\ new.amount = Bill(r) /\ new.claims = claims
      /\ new.earners = orders[o].earners \cup (IF earns THEN {reqs[r].customer} ELSE {})
      OBVIOUS
<1> HIDE DEF new
<1>8. /\ orders' \in [Requests -> Order] /\ orders'[o] = new
      /\ \A p \in Requests \ {o} : orders'[p] = orders[p]
      BY <1>1, <1>2, <1>6
<1> QED BY <1>7, <1>8 DEF claims

\* What a completion that earned makes of its order.
LEMMA EarnedOrder ==
  ASSUME TypeOK, NEW r \in Requests, reqs[r].op # "order", reqs[r].order \in Requests,
         reqs[r].customer \in Customers, Earn(r), NEW o, o = reqs[r].order
  PROVE  /\ orders' \in [Requests -> Order]
         /\ \A p \in Requests \ {o} : orders'[p] = orders[p]
         /\ orders'[o].amount = orders[o].amount
         /\ orders'[o].earners = orders[o].earners \cup {reqs[r].customer}
         /\ orders'[o].claims = orders[o].claims
<1>1. orders' = [orders EXCEPT ![o].earners = @ \cup {reqs[r].customer}]
      BY DEF Earn
<1>2. orders[o] \in Order /\ orders \in [Requests -> Order]
      BY DEF TypeOK
<1>3. [orders[o] EXCEPT !.earners = @ \cup {reqs[r].customer}] \in Order
      BY <1>2 DEF Order
<1> QED BY <1>1, <1>2, <1>3 DEF Order

LEMMA ReadSeen ==
  ASSUME TypeOK, Named, NEW r \in Requests, reqs[r].at \in {"points", "read"}
  PROVE  Snapshot(reqs[r].customer) \in Seen
BY SnapshotType DEF Named, WellNamed

LEMMA TypeStep == ASSUME TypeOK, Named, [Next]_vars PROVE TypeOK'
<1> USE DEF TypeOK
<1>1. CASE UNCHANGED vars
      BY <1>1 DEF vars
<1>2. ASSUME NEW r \in Requests, BeginOrder(r) \/ BeginAppend(r) PROVE TypeOK'
      BY <1>2, OrderBegun DEF BeginOrder, BeginAppend
<1>3. ASSUME NEW r \in Requests, ReadPoints(r) PROVE TypeOK'
  <2>1. CASE End(r)
        BY <1>3, <2>1, EndType DEF ReadPoints
  <2>2. CASE ~End(r)
    <3>1. reqs' = [reqs EXCEPT ![r] = [reqs[r] EXCEPT !.at = "take", !.seen = Snapshot(reqs[r].customer)]]
          BY <1>3, <2>2 DEF ReadPoints
    <3>2. [reqs[r] EXCEPT !.at = "take", !.seen = Snapshot(reqs[r].customer)] \in Request
          BY <1>3, ReadSeen, ReadingType DEF ReadPoints, Steps
    <3> QED BY <1>3, <3>1, <3>2, PutType DEF ReadPoints
  <2> QED BY <2>1, <2>2
<1>4. ASSUME NEW r \in Requests, Take(r) PROVE TypeOK'
  <2> DEFINE step == Onward(reqs[r].customer, 0, Due(r))
  <2>0. step \in Steps
        BY OnwardStep DEF Steps
  <2>1. reqs' = [reqs EXCEPT ![r] = [reqs[r] EXCEPT !.at = step, !.locks = TRUE]]
        BY <1>4 DEF Take
  <2> HIDE DEF step
  <2>2. reqs' \in [Requests -> Request]
        BY <2>0, <2>1, TakeType, PutType
  <2>3. customers' \in [Customers -> Customer]
    <3>1. CASE customers' = customers
          BY <3>1
    <3>2. CASE customers' = [customers EXCEPT ![reqs[r].customer].why = @ \cup {"redeemed"}]
      <4>1. \A c \in Customers : [customers[c] EXCEPT !.why = @ \cup {"redeemed"}] \in Customer
            BY DEF Customer, Causes
      <4> QED BY <3>2, <4>1
    <3> QED BY <1>4, <3>1, <3>2 DEF Take
  <2> QED BY <1>4, <2>2, <2>3 DEF Take
<1>5. ASSUME NEW r \in Requests, Commit(r) PROVE TypeOK'
  <2>1. reqs[r].redeem \in Nat
        BY DEF Request
  <2>2. \A c \in Customers : Redeemed(customers[c], reqs[r].redeem) \in Customer
        BY <2>1, RedeemedType
  <2>3. customers' \in [Customers -> Customer]
        BY <1>5, <2>2 DEF Commit
  <2>4. reqs[r].op = "order" /\ reqs[r].order \in Requests /\ Placed(r, FALSE)
        BY <1>5 DEF Commit, Named, WellNamed
  <2>5. orders' \in [Requests -> Order]
        BY <2>4, PlacedOrder
  <2> QED BY <1>5, <2>3, <2>5, EndType DEF Commit
<1>6. ASSUME NEW r \in Requests, ReadCustomer(r) PROVE TypeOK'
  <2> DEFINE step == IF reqs[r].op = "adjust" THEN "write" ELSE "earn"
  <2>1. reqs' = [reqs EXCEPT ![r] = [reqs[r] EXCEPT !.at = step, !.seen = Snapshot(reqs[r].customer)]]
        BY <1>6 DEF ReadCustomer
  <2>2. [reqs[r] EXCEPT !.at = step, !.seen = Snapshot(reqs[r].customer)] \in Request
        BY <1>6, ReadSeen, ReadingType DEF ReadCustomer, Steps
  <2> QED BY <1>6, <2>1, <2>2, PutType DEF ReadCustomer
<1>7. ASSUME NEW r \in Requests, Earn(r) PROVE TypeOK'
  <2>0. reqs[r].customer \in Customers /\ reqs[r].order \in Requests
        BY <1>7 DEF Earn, Named, WellNamed
  <2>1. reqs[r].redeem \in Nat /\ Bill(r) \in Int /\ reqs[r].seen \in Seen
        BY <2>0, BillType DEF Request
  <2>2. \A c \in Customers : Earned(customers[c], reqs[r].seen, Bill(r), reqs[r].redeem) \in Customer
        BY <2>1, EarnedType
  <2>3. \A c \in Customers : Rewarded(customers[c]) \in Customer
        BY RewardedType
  <2>4. customers' \in [Customers -> Customer]
        BY <1>7, <2>2, <2>3 DEF Earn
  <2>5. CASE reqs[r].op = "order"
    <3>1. Placed(r, TRUE)
          BY <1>7, <2>5 DEF Earn
    <3>2. orders' \in [Requests -> Order]
          BY <2>0, <2>5, <3>1, PlacedOrder
    <3> QED BY <1>7, <2>4, <3>2, EndType DEF Earn
  <2>6. CASE reqs[r].op # "order"
    <3>1. orders' \in [Requests -> Order]
          BY <1>7, <2>0, <2>6, EarnedOrder
    <3> QED BY <1>7, <2>4, <3>1, EndType DEF Earn
  <2> QED BY <2>5, <2>6
<1>8. ASSUME NEW r \in Requests, Mark(r) PROVE TypeOK'
  <2>1. PICK o \in Requests, status \in Given, earns \in BOOLEAN, left \in Int :
           /\ orders' = [orders EXCEPT ![o] = Marked(o, status, left, earns)]
           /\ reqs' = [reqs EXCEPT ![r] = IF earns THEN Earning(o) ELSE [Idle EXCEPT !.at = "done"]]
        BY <1>8, OrderMarked
  <2>2. [Idle EXCEPT !.at = "done"] \in Request
        BY IdleType DEF Request, Steps
  <2>3. reqs' \in [Requests -> Request]
        BY <2>1, <2>2, EarningFields, PutType
  <2>4. Marked(o, status, left, earns) \in Order
        BY MarkedFields
  <2>5. orders' \in [Requests -> Order]
        BY <2>1, <2>4
  <2> QED BY <1>8, <2>3, <2>5 DEF Mark
<1>9. ASSUME NEW r \in Requests, BeginAdjust(r) PROVE TypeOK'
      BY <1>9, AdjustBegun DEF BeginAdjust
<1>10. ASSUME NEW r \in Requests, Adjust(r) PROVE TypeOK'
  <2>1. reqs[r].seen.points + reqs[r].change \in Int /\ reqs[r].change \in Int
        BY DEF Request, Seen
  <2>2. \A c \in Customers :
          [customers[c] EXCEPT !.points = reqs[r].seen.points + reqs[r].change,
             !.ledger = @ + reqs[r].change,
             !.why = IF customers[c].points # reqs[r].seen.points THEN @ \cup {"points"} ELSE @] \in Customer
    <3> TAKE c \in Customers
    <3>1. customers[c].ledger + reqs[r].change \in Int
          BY <2>1 DEF Customer
    <3>2. customers[c].why \cup {"points"} \in SUBSET Causes /\ customers[c].why \in SUBSET Causes
          BY DEF Customer, Causes
    <3> QED BY <2>1, <3>1, <3>2 DEF Customer
  <2> DEFINE c == reqs[r].customer
             row == [customers[c] EXCEPT !.points = reqs[r].seen.points + reqs[r].change,
                       !.ledger = @ + reqs[r].change,
                       !.why = IF customers[c].points # reqs[r].seen.points THEN @ \cup {"points"} ELSE @]
  <2>3. UNCHANGED customers \/ customers' = [customers EXCEPT ![c] = row]
        BY <1>10 DEF Adjust
  <2>4. c \in Customers => row \in Customer
        BY <2>2
  <2> HIDE DEF row
  <2>5. customers' \in [Customers -> Customer]
        BY <2>3, <2>4
  <2> QED BY <1>10, <2>5, EndType DEF Adjust
<1>11. ASSUME NEW r \in Requests, Fail(r) PROVE TypeOK'
      BY <1>11, EndType DEF Fail
<1>12. ASSUME NEW r \in Requests, Append(r) PROVE TypeOK'
  <2> DEFINE step == Onward(reqs[r].customer, reqs[r].redeem, Due(r))
  <2>1. step \in Steps
        BY OnwardStep DEF Steps, Request
  <2>2. reqs' = [reqs EXCEPT ![r] = [reqs[r] EXCEPT !.at = step]]
        BY <1>12 DEF Append, Goto
  <2> HIDE DEF step
  <2>3. [reqs[r] EXCEPT !.at = step] \in Request
        BY <2>1, GotoType
  <2> QED BY <1>12, <2>2, <2>3, PutType DEF Append
<1> QED BY <1>1, <1>2, <1>3, <1>4, <1>5, <1>6, <1>7, <1>8, <1>9, <1>10, <1>11, <1>12 DEF Next

LEMMA NamedCorrect == Spec => [](TypeOK /\ Named)
<1>1. Init => TypeOK /\ Named
      BY TypeInit, NamedInit
<1>2. TypeOK /\ Named /\ [Next]_vars => TypeOK' /\ Named'
      BY TypeStep, NamedStep
<1> QED BY <1>1, <1>2, PTL DEF Spec

\* Every row, order and call is of its type, for any customers, carts and number of calls,
\* negative totals and orders without a customer included.
THEOREM TypeCorrect == Spec => []TypeOK
BY NamedCorrect, PTL

-----------------------------------------------------------------------------
(* What the steps do to a row.                                             *)

LEMMA EarnedFields ==
  ASSUME NEW w \in Customer, NEW s \in Seen, NEW a \in Int, NEW n \in Nat
  PROVE  \E base \in Int, bonus \in Nat :
           /\ Earned(w, s, a, n).points = w.points - n + base + bonus
           /\ Earned(w, s, a, n).ledger = w.ledger - n + Logged(base) + bonus
           /\ Earned(w, s, a, n).referred = (IF Referral(s) THEN FALSE ELSE w.referred)
           /\ Earned(w, s, a, n).rewards = (IF Referral(s) THEN w.rewards + 1 ELSE w.rewards)
           /\ Earned(w, s, a, n).why = Reasons(w, s, base)
<1> DEFINE base == PointsFor(a, s.tier)
<1>1. base \in Int /\ Bonus(s) \in Nat
      BY PointsInt, BonusNat DEF Seen
<1>2. /\ Earned(w, s, a, n).points = w.points - n + base + Bonus(s)
      /\ Earned(w, s, a, n).ledger = w.ledger - n + Logged(base) + Bonus(s)
      /\ Earned(w, s, a, n).referred = (IF Referral(s) THEN FALSE ELSE w.referred)
      /\ Earned(w, s, a, n).rewards = (IF Referral(s) THEN w.rewards + 1 ELSE w.rewards)
      /\ Earned(w, s, a, n).why = Reasons(w, s, base)
      BY DEF Earned, Customer
<1> HIDE DEF base
<1> QED BY <1>1, <1>2

LEMMA RewardedFields ==
  ASSUME NEW w \in Customer
  PROVE  /\ Rewarded(w).points = w.points + ReferrerReward
         /\ Rewarded(w).ledger = w.ledger + ReferrerReward
         /\ Rewarded(w).referred = w.referred
         /\ Rewarded(w).rewards = w.rewards
         /\ Rewarded(w).why = w.why
BY DEF Rewarded, Customer

LEMMA RedeemedFields ==
  ASSUME NEW w \in Customer, NEW n \in Nat
  PROVE  /\ Redeemed(w, n).points = w.points - n
         /\ Redeemed(w, n).ledger = w.ledger - n
         /\ Redeemed(w, n).referred = w.referred
         /\ Redeemed(w, n).rewards = w.rewards
         /\ Redeemed(w, n).why = w.why
BY DEF Redeemed, Customer

\* Points that are earned are logged and do not lower the balance, but for a negative total.
LEMMA EarnedPoints ==
  ASSUME NEW w \in Customer, NEW s \in Seen, NEW a \in Int, NEW n \in Nat
  PROVE  /\ w.why \subseteq Earned(w, s, a, n).why
         /\ "negative" \notin Earned(w, s, a, n).why =>
              /\ w.points = w.ledger => Earned(w, s, a, n).points = Earned(w, s, a, n).ledger
              /\ Earned(w, s, a, n).points >= w.points - n
<1> DEFINE x == Earned(w, s, a, n)
<1>1. PICK base \in Int, bonus \in Nat :
        /\ x.points = w.points - n + base + bonus /\ x.ledger = w.ledger - n + Logged(base) + bonus
        /\ x.why = Reasons(w, s, base)
      BY EarnedFields
<1>2. w.points \in Int /\ w.ledger \in Int
      BY DEF Customer
<1> HIDE DEF x
<1>3. w.why \subseteq x.why /\ (base < 0 => "negative" \in x.why)
      BY <1>1 DEF Reasons
<1>4. ASSUME ~(base < 0)
      PROVE  /\ w.points = w.ledger => x.points = x.ledger
             /\ x.points >= w.points - n
  <2>1. Logged(base) = base
        BY <1>4 DEF Logged
  <2> QED BY <1>1, <1>2, <1>4, <2>1
<1>5. /\ w.why \subseteq x.why
      /\ "negative" \notin x.why => /\ w.points = w.ledger => x.points = x.ledger
                                    /\ x.points >= w.points - n
      BY <1>3, <1>4
<1> QED BY <1>5 DEF x

\* How a step may turn row w of customer c into v, and which call does it.
RowStep(c, w, v) ==
  \/ v = w
  \/ v = [w EXCEPT !.why = @ \cup {"redeemed"}]
  \/ \E r \in Requests :
       /\ Commit(r) /\ reqs[r].customer = c
       /\ v = Redeemed(w, reqs[r].redeem)
  \/ \E r \in Requests :
       /\ Earn(r) /\ reqs[r].customer = c
       /\ v = Earned(w, reqs[r].seen, Bill(r), reqs[r].redeem)
  \/ \E r \in Requests :
       /\ Earn(r) /\ Referral(reqs[r].seen) /\ c = Referrer[reqs[r].customer]
       /\ v = Rewarded(w)
  \/ \E r \in Requests :
       /\ Adjust(r) /\ reqs[r].customer = c
       /\ reqs[r].seen.points + reqs[r].change >= 0
       /\ v = [w EXCEPT !.points = reqs[r].seen.points + reqs[r].change,
                  !.ledger = @ + reqs[r].change,
                  !.why = IF w.points # reqs[r].seen.points THEN @ \cup {"points"} ELSE @]

LEMMA RowSteps ==
  ASSUME TypeOK, [Next]_vars, NEW c \in Customers
  PROVE  RowStep(c, customers[c], customers'[c])
<1> USE DEF TypeOK
<1>1. CASE UNCHANGED customers
      BY <1>1 DEF RowStep
<1>2. ASSUME NEW r \in Requests, Take(r) PROVE RowStep(c, customers[c], customers'[c])
  <2>1. customers'[c] \in {customers[c], [customers[c] EXCEPT !.why = @ \cup {"redeemed"}]}
        BY <1>2 DEF Take
  <2> QED BY <2>1 DEF RowStep
<1>3. ASSUME NEW r \in Requests, Commit(r) PROVE RowStep(c, customers[c], customers'[c])
  <2>1. customers'[c] = IF c = reqs[r].customer THEN Redeemed(customers[c], reqs[r].redeem)
                                                ELSE customers[c]
        BY <1>3 DEF Commit
  <2> QED BY <1>3, <2>1 DEF RowStep
<1>4. ASSUME NEW r \in Requests, Earn(r) PROVE RowStep(c, customers[c], customers'[c])
  <2>1. CASE reqs[r].customer = c
    <3>1. customers'[c] = Earned(customers[c], reqs[r].seen, Bill(r), reqs[r].redeem)
          BY <1>4, <2>1 DEF Earn
    <3> QED BY <1>4, <2>1, <3>1 DEF RowStep
  <2>2. CASE reqs[r].customer # c /\ Referral(reqs[r].seen) /\ c = Referrer[reqs[r].customer]
    <3>1. customers'[c] = Rewarded(customers[c])
          BY <1>4, <2>2 DEF Earn
    <3> QED BY <1>4, <2>2, <3>1 DEF RowStep
  <2>3. CASE reqs[r].customer # c /\ ~(Referral(reqs[r].seen) /\ c = Referrer[reqs[r].customer])
    <3>1. customers'[c] = customers[c]
          BY <1>4, <2>3 DEF Earn
    <3> QED BY <3>1 DEF RowStep
  <2> QED BY <2>1, <2>2, <2>3
<1>5. ASSUME NEW r \in Requests, Adjust(r) PROVE RowStep(c, customers[c], customers'[c])
  <2> DEFINE new == reqs[r].seen.points + reqs[r].change
             x   == reqs[r].customer
             row == [customers[x] EXCEPT !.points = new, !.ledger = @ + reqs[r].change,
                       !.why = IF customers[x].points # reqs[r].seen.points
                                 THEN @ \cup {"points"} ELSE @]
  <2>1. new \in Int
        BY DEF Request, Seen
  <2>2. UNCHANGED customers \/ (~(new < 0) /\ customers' = [customers EXCEPT ![x] = row])
        BY <1>5 DEF Adjust
  <2>3. CASE x = c /\ new >= 0 /\ customers' = [customers EXCEPT ![x] = row]
    <3>1. customers'[c] = row
          BY <2>3
    <3> QED BY <1>5, <2>3, <3>1 DEF RowStep
  <2>4. CASE x # c /\ customers' = [customers EXCEPT ![x] = row]
    <3>1. customers'[c] = customers[c]
          BY <2>4
    <3> QED BY <3>1 DEF RowStep
  <2> QED BY <1>1, <2>1, <2>2, <2>3, <2>4
<1> QED BY <1>1, <1>2, <1>3, <1>4, <1>5
        DEF Next, vars, BeginOrder, BeginAppend, Append, ReadPoints, ReadCustomer, Mark, BeginAdjust, Fail

\* What an earning works with.
LEMMA EarnTypes ==
  ASSUME TypeOK, Named, NEW r \in Requests, Earn(r)
  PROVE  /\ reqs[r].seen \in Seen /\ Bill(r) \in Int /\ reqs[r].redeem \in Nat
         /\ reqs[r].customer \in Customers /\ reqs[r].order \in Requests
<1>1. reqs[r].customer \in Customers /\ reqs[r].order \in Requests
      BY DEF Earn, Named, WellNamed
<1> QED BY <1>1, BillType DEF TypeOK, Request

-----------------------------------------------------------------------------
(* Balances and referrals, row by row.                                     *)

\* The property speaks of the row.
Plain(w) == w.why \cap {"points", "negative"} = {}

LEMMA ExplainedRow ==
  ASSUME TypeOK, Named, NEW c, NEW w \in Customer, NEW v, RowStep(c, w, v),
         Plain(w) => w.points = w.ledger, Plain(v)
  PROVE  v.points = v.ledger
<1>1. CASE v = w \/ v = [w EXCEPT !.why = @ \cup {"redeemed"}]
      BY <1>1 DEF Customer, Plain
<1>2. ASSUME NEW r \in Requests, v = Redeemed(w, reqs[r].redeem)
      PROVE  v.points = v.ledger
  <2>1. reqs[r].redeem \in Nat
        BY DEF TypeOK, Request
  <2> QED BY <1>2, <2>1, RedeemedFields DEF Plain
<1>3. ASSUME NEW r \in Requests, Earn(r), v = Earned(w, reqs[r].seen, Bill(r), reqs[r].redeem)
      PROVE  v.points = v.ledger
  <2>1. reqs[r].seen \in Seen /\ Bill(r) \in Int /\ reqs[r].redeem \in Nat
        BY <1>3, EarnTypes
  <2>2. w.why \subseteq v.why
        BY <1>3, <2>1, EarnedPoints
  <2>3. w.points = w.ledger /\ "negative" \notin v.why
        BY <2>2 DEF Plain
  <2> QED BY <1>3, <2>1, <2>3, EarnedPoints
<1>4. CASE v = Rewarded(w)
      BY <1>4, RewardedFields DEF Plain
<1>5. ASSUME NEW r \in Requests,
             v = [w EXCEPT !.points = reqs[r].seen.points + reqs[r].change,
                    !.ledger = @ + reqs[r].change,
                    !.why = IF w.points # reqs[r].seen.points THEN @ \cup {"points"} ELSE @]
      PROVE  v.points = v.ledger
      BY <1>5 DEF Customer, Plain
<1> QED BY <1>1, <1>2, <1>3, <1>4, <1>5 DEF RowStep

LEMMA ExplainedStep ==
  ASSUME TypeOK, Named, PointsExplained, [Next]_vars PROVE PointsExplained'
<1> SUFFICES ASSUME NEW c \in Customers, Plain(customers'[c])
             PROVE  customers'[c].points = customers'[c].ledger
    BY DEF PointsExplained, Plain
<1>1. customers[c] \in Customer /\ RowStep(c, customers[c], customers'[c])
      BY RowSteps DEF TypeOK
<1>2. Plain(customers[c]) => customers[c].points = customers[c].ledger
      BY DEF PointsExplained, Plain
<1> QED BY <1>1, <1>2, ExplainedRow

\* A balance is what the loyalty rows add up to in every reachable state, but for an
\* adjustment that wrote over a change and an order that earned less than nothing.
THEOREM PointsCorrect == Spec => []PointsExplained
<1>1. Init => PointsExplained
      BY DEF Init, PointsExplained
<1>2. TypeOK /\ Named /\ PointsExplained /\ [Next]_vars => PointsExplained'
      BY ExplainedStep
<1> QED BY <1>1, <1>2, NamedCorrect, PTL DEF Spec

\* While nothing overlapped, a customer with a referrer was not rewarded yet.
Unrewarded(w) == "referral" \notin w.why => w.rewards <= 1 /\ (w.referred => w.rewards = 0)

LEMMA UnrewardedRow ==
  ASSUME TypeOK, Named, NEW c, NEW w \in Customer, NEW v, RowStep(c, w, v), Unrewarded(w)
  PROVE  Unrewarded(v)
<1>1. ASSUME v.rewards = w.rewards, v.referred = w.referred, w.why \subseteq v.why
      PROVE  Unrewarded(v)
      BY <1>1 DEF Unrewarded
<1>2. CASE v = w \/ v = [w EXCEPT !.why = @ \cup {"redeemed"}]
      BY <1>1, <1>2 DEF Customer
<1>3. ASSUME NEW r \in Requests, v = Redeemed(w, reqs[r].redeem)
      PROVE  Unrewarded(v)
  <2>1. reqs[r].redeem \in Nat
        BY DEF TypeOK, Request
  <2> QED BY <1>1, <1>3, <2>1, RedeemedFields
<1>4. ASSUME NEW r \in Requests, Earn(r), v = Earned(w, reqs[r].seen, Bill(r), reqs[r].redeem)
      PROVE  Unrewarded(v)
  <2>1. reqs[r].seen \in Seen /\ Bill(r) \in Int /\ reqs[r].redeem \in Nat
        BY <1>4, EarnTypes
  <2> DEFINE s == reqs[r].seen
  <2>2. PICK base \in Int :
           /\ v.referred = (IF Referral(s) THEN FALSE ELSE w.referred)
           /\ v.rewards = (IF Referral(s) THEN w.rewards + 1 ELSE w.rewards)
           /\ v.why = Reasons(w, s, base)
        BY <1>4, <2>1, EarnedFields
  <2>3. w.why \subseteq v.why /\ (Referral(s) /\ ~w.referred => "referral" \in v.why)
        BY <2>2 DEF Reasons
  <2>4. CASE ~Referral(s)
        BY <1>1, <2>2, <2>3, <2>4
  <2>5. CASE Referral(s)
        BY <2>2, <2>3, <2>5 DEF Unrewarded, Customer
  <2> QED BY <2>4, <2>5
<1>5. CASE v = Rewarded(w)
      BY <1>1, <1>5, RewardedFields
<1>6. ASSUME NEW r \in Requests,
             v = [w EXCEPT !.points = reqs[r].seen.points + reqs[r].change,
                    !.ledger = @ + reqs[r].change,
                    !.why = IF w.points # reqs[r].seen.points THEN @ \cup {"points"} ELSE @]
      PROVE  Unrewarded(v)
      BY <1>1, <1>6 DEF Customer
<1> QED BY <1>2, <1>3, <1>4, <1>5, <1>6 DEF RowStep

\* A referral is rewarded at most once unless two first orders overlapped.
THEOREM ReferralCorrect == Spec => []ReferralOnce
<1> DEFINE Inv == \A c \in Customers : Unrewarded(customers[c])
<1>1. Init => Inv
      BY DEF Init, Unrewarded
<1>2. TypeOK /\ Named /\ Inv /\ [Next]_vars => Inv'
  <2> SUFFICES ASSUME TypeOK, Named, Inv, [Next]_vars, NEW c \in Customers
               PROVE  Unrewarded(customers'[c])
      OBVIOUS
  <2>1. customers[c] \in Customer /\ RowStep(c, customers[c], customers'[c])
        BY RowSteps DEF TypeOK
  <2> QED BY <2>1, UnrewardedRow
<1>3. Inv => ReferralOnce
      BY DEF Unrewarded, ReferralOnce
<1> HIDE DEF Inv
<1> QED BY <1>1, <1>2, <1>3, NamedCorrect, PTL DEF Spec

-----------------------------------------------------------------------------
(* Overdrafts: the row locks.                                              *)

\* A call holds its customer's row from its decrement to its end, and gets there only if
\* the balance it tested covers what it redeems.
Sound(q) ==
  /\ q.locks => q.op = "order" /\ q.at \in {"read", "earn", "commit"}
  /\ q.at \in {"read", "earn", "commit"} /\ q.redeem > 0 => q.locks
  /\ q.at = "take" => q.seen.points >= q.redeem

AllSound == \A r \in Requests : Sound(reqs[r])

Exclusive == \A r, q \in Requests :
  reqs[r].locks /\ reqs[q].locks /\ reqs[r].customer = reqs[q].customer => r = q

Sure(w) == w.why \cap {"points", "redeemed", "negative"} = {}

\* What a call has taken and not committed, the balance still covers.
Covered == \A r \in Requests :
  reqs[r].locks /\ Sure(customers[reqs[r].customer])
    => customers[reqs[r].customer].points >= reqs[r].redeem

LEMMA SoundIdle == Sound(Idle) /\ Sound([Idle EXCEPT !.at = "done"])
BY DEF Sound, Idle

\* What a step makes of a call, as far as locks go.
LEMMA LockSteps ==
  ASSUME TypeOK, Named, AllSound, [Next]_vars, NEW x \in Requests
  PROVE  \/ reqs'[x] = reqs[x]
         \/ Sound(reqs'[x]) /\ ~reqs'[x].locks
         \/ /\ Sound(reqs'[x]) /\ reqs'[x].redeem = reqs[x].redeem
            /\ reqs'[x].customer = reqs[x].customer
            /\ reqs[x].locks \/ Take(x)
<1> DEFINE Goal == \/ reqs'[x] = reqs[x]
                   \/ Sound(reqs'[x]) /\ ~reqs'[x].locks
                   \/ /\ Sound(reqs'[x]) /\ reqs'[x].redeem = reqs[x].redeem
                      /\ reqs'[x].customer = reqs[x].customer
                      /\ reqs[x].locks \/ Take(x)
<1>0. Sound(reqs[x]) /\ WellNamed(reqs[x]) /\ reqs[x] \in Request
      BY DEF AllSound, Named, TypeOK
<1>2. ASSUME NEW r \in Requests, r # x,
             \/ BeginOrder(r) \/ BeginAppend(r) \/ Append(r) \/ ReadPoints(r) \/ Take(r)
             \/ Commit(r) \/ ReadCustomer(r) \/ Earn(r) \/ Mark(r) \/ BeginAdjust(r)
             \/ Adjust(r) \/ Fail(r)
      PROVE  reqs'[x] = reqs[x]
      BY <1>2 DEF TypeOK, BeginOrder, BeginAppend, Append, ReadPoints, Take, Commit,
                  ReadCustomer, Earn, Mark, BeginAdjust, Adjust, Fail, Goto, End
<1>3. ASSUME End(x) PROVE Sound(reqs'[x]) /\ ~reqs'[x].locks
  <2>1. reqs'[x] = [Idle EXCEPT !.at = "done"]
        BY <1>3 DEF TypeOK, End
  <2> QED BY <2>1, SoundIdle DEF Idle
<1>4. ASSUME BeginOrder(x) \/ BeginAppend(x) PROVE Sound(reqs'[x]) /\ ~reqs'[x].locks
  <2>1. Begun(x, reqs'[x])
        BY <1>4, OrderBegun
  <2>2. /\ reqs'[x].locks = FALSE /\ reqs'[x].at \in {"append", "points", "read", "commit"}
        /\ reqs'[x].at \in {"read", "commit"} => reqs'[x].redeem = 0
        BY <2>1 DEF Begun
  <2> QED BY <2>2 DEF Sound
<1>5. ASSUME BeginAdjust(x) PROVE Sound(reqs'[x]) /\ ~reqs'[x].locks
  <2>1. reqs'[x].at = "read" /\ reqs'[x].redeem = 0 /\ reqs'[x].locks = FALSE
        BY <1>5, AdjustBegun
  <2> QED BY <2>1 DEF Sound
<1>11. ASSUME Mark(x) PROVE Sound(reqs'[x]) /\ ~reqs'[x].locks
  <2>1. PICK o \in Requests, earns \in BOOLEAN :
          reqs' = [reqs EXCEPT ![x] = IF earns THEN Earning(o) ELSE [Idle EXCEPT !.at = "done"]]
        BY <1>11, OrderMarked
  <2>2. CASE earns
    <3>1. reqs'[x] = Earning(o)
          BY <2>1, <2>2 DEF TypeOK
    <3>2. Earning(o).at = "read" /\ Earning(o).redeem = 0 /\ Earning(o).locks = FALSE
          BY EarningFields
    <3> QED BY <3>1, <3>2 DEF Sound
  <2>3. CASE ~earns
    <3>1. reqs'[x] = [Idle EXCEPT !.at = "done"]
          BY <2>1, <2>3 DEF TypeOK
    <3> QED BY <3>1, SoundIdle DEF Idle
  <2> QED BY <2>2, <2>3
<1>12. ASSUME Append(x) PROVE Sound(reqs'[x]) /\ ~reqs'[x].locks
  <2> DEFINE step == Onward(reqs[x].customer, reqs[x].redeem, Due(x))
  <2>1. /\ step \in {"points", "read", "commit"}
        /\ step # "points" => reqs[x].redeem = 0
        BY <1>0, OnwardStep DEF Request
  <2>2. reqs[x].at = "append" /\ reqs' = [reqs EXCEPT ![x].at = step]
        BY <1>12 DEF Append, Goto
  <2> HIDE DEF step
  <2>3. reqs'[x].at = step /\ reqs'[x].redeem = reqs[x].redeem /\ reqs'[x].locks = reqs[x].locks
        BY <1>0, <2>2 DEF TypeOK, Request
  <2>4. ~reqs[x].locks
        BY <1>0, <2>2 DEF Sound
  <2> QED BY <2>1, <2>3, <2>4 DEF Sound
<1>6. ASSUME ReadPoints(x) PROVE Sound(reqs'[x]) /\ ~reqs'[x].locks
  <2>1. CASE End(x)
        BY <1>3, <2>1
  <2>2. CASE ~End(x)
    <3> DEFINE w == customers[reqs[x].customer]
    <3>1. /\ reqs[x].at = "points" /\ ~(w.points < reqs[x].redeem)
          /\ reqs' = [reqs EXCEPT ![x].at = "take", ![x].seen = Snapshot(reqs[x].customer)]
          BY <1>6, <2>2 DEF ReadPoints
    <3>2. /\ reqs'[x].at = "take" /\ reqs'[x].seen = Snapshot(reqs[x].customer)
          /\ reqs'[x].redeem = reqs[x].redeem /\ reqs'[x].locks = reqs[x].locks
          BY <3>1 DEF TypeOK, Request
    <3>3. Snapshot(reqs[x].customer).points = w.points
          BY DEF Snapshot
    <3>4. ~reqs[x].locks
          BY <1>0, <3>1 DEF Sound
    <3>5. reqs[x].customer \in Customers /\ reqs[x].redeem \in Nat
          BY <1>0, <3>1 DEF WellNamed, Request
    <3>6. w.points \in Int
          BY <3>5 DEF TypeOK, Customer
    <3>7. reqs'[x].seen.points >= reqs'[x].redeem
          BY <3>1, <3>2, <3>3, <3>5, <3>6
    <3> QED BY <3>2, <3>4, <3>7 DEF Sound
  <2> QED BY <2>1, <2>2
<1>7. ASSUME Take(x) PROVE Goal
  <2> DEFINE step == Onward(reqs[x].customer, 0, Due(x))
  <2>1. step \in {"read", "commit"}
        BY OnwardStep
  <2>2. reqs[x].at = "take" /\ reqs' = [reqs EXCEPT ![x].at = step, ![x].locks = TRUE]
        BY <1>7 DEF Take
  <2> HIDE DEF step
  <2>3. /\ reqs'[x].at = step /\ reqs'[x].locks
        /\ reqs'[x].redeem = reqs[x].redeem /\ reqs'[x].customer = reqs[x].customer
        /\ reqs'[x].op = reqs[x].op
        BY <1>0, <2>2 DEF TypeOK, Request
  <2>4. reqs[x].op = "order"
        BY <1>0, <2>2 DEF WellNamed
  <2> QED BY <1>7, <2>1, <2>3, <2>4 DEF Sound
<1>8. ASSUME ReadCustomer(x) PROVE Goal
  <2>1. /\ reqs[x].at = "read"
        /\ reqs'[x].at = (IF reqs[x].op = "adjust" THEN "write" ELSE "earn")
        /\ reqs'[x].locks = reqs[x].locks /\ reqs'[x].op = reqs[x].op
        /\ reqs'[x].redeem = reqs[x].redeem /\ reqs'[x].customer = reqs[x].customer
        BY <1>8 DEF ReadCustomer, TypeOK, Request
  <2>2. reqs[x].locks \in BOOLEAN
        BY <1>0 DEF Request
  <2> QED BY <1>0, <2>1, <2>2 DEF Sound
<1>9. ASSUME Commit(x) \/ Earn(x) \/ Adjust(x) \/ Fail(x) PROVE End(x)
      BY <1>9 DEF Commit, Earn, Adjust, Fail
<1> HIDE DEF Goal
<1>10. Goal
  <2>1. ASSUME Sound(reqs'[x]) /\ ~reqs'[x].locks PROVE Goal
        BY <2>1 DEF Goal
  <2>2. ASSUME reqs'[x] = reqs[x] PROVE Goal
        BY <2>2 DEF Goal
  <2>3. CASE Next
    <3>1. PICK r \in Requests :
             \/ BeginOrder(r) \/ BeginAppend(r) \/ Append(r) \/ ReadPoints(r) \/ Take(r)
             \/ Commit(r) \/ ReadCustomer(r) \/ Earn(r) \/ Mark(r) \/ BeginAdjust(r)
             \/ Adjust(r) \/ Fail(r)
          BY <2>3 DEF Next
    <3>2. CASE r # x
          BY <1>2, <2>2, <3>1, <3>2
    <3>3. CASE r = x
          BY <1>3, <1>4, <1>5, <1>6, <1>7, <1>8, <1>9, <1>11, <1>12, <2>1, <3>1, <3>3
    <3> QED BY <3>2, <3>3
  <2>4. CASE UNCHANGED vars
        BY <2>2, <2>4 DEF vars
  <2> QED BY <2>3, <2>4
<1> QED BY <1>10 DEF Goal

LEMMA LocksStep ==
  ASSUME TypeOK, Named, AllSound, Exclusive, [Next]_vars PROVE AllSound' /\ Exclusive'
<1>1. AllSound'
      BY LockSteps DEF AllSound
<1>2. ASSUME NEW r \in Requests, NEW q \in Requests, r # q,
             reqs'[r].locks, reqs'[q].locks, reqs'[r].customer = reqs'[q].customer
      PROVE  FALSE
  <2>1. ASSUME NEW x \in Requests, reqs'[x].locks
        PROVE  /\ reqs'[x].customer = reqs[x].customer
               /\ reqs[x].locks \/ Take(x)
        BY <2>1, LockSteps
  <2>2. ASSUME NEW x \in Requests, NEW y \in Requests, x # y, Take(x), reqs'[y].locks
        PROVE  reqs[y].locks /\ reqs[y].customer # reqs[x].customer
    <3>1. reqs'[y] = reqs[y]
          BY <2>2 DEF Take, TypeOK
    <3> QED BY <2>2, <3>1 DEF Take, Free
  <2>3. CASE Take(r)
        BY <1>2, <2>1, <2>2, <2>3
  <2>4. CASE Take(q)
        BY <1>2, <2>1, <2>2, <2>4
  <2> QED BY <1>2, <2>1, <2>3, <2>4 DEF Exclusive
<1> QED BY <1>1, <1>2 DEF Exclusive

\* Who commits a redemption holds the row, so the balance covers it.
LEMMA RedeemCovered ==
  ASSUME TypeOK, AllSound, Covered, NEW r \in Requests, reqs[r].at \in {"commit", "earn"},
         NEW c \in Customers, reqs[r].customer = c, Sure(customers[c]), customers[c].points >= 0
  PROVE  customers[c].points - reqs[r].redeem >= 0
<1>1. reqs[r].redeem \in Nat /\ customers[c].points \in Int
      BY DEF TypeOK, Request, Customer
<1>2. CASE reqs[r].redeem = 0
      BY <1>1, <1>2
<1>3. CASE reqs[r].redeem # 0
  <2>1. reqs[r].redeem > 0
        BY <1>1, <1>3
  <2>2. reqs[r].locks
        BY <2>1 DEF AllSound, Sound
  <2>3. customers[c].points >= reqs[r].redeem
        BY <2>2 DEF Covered
  <2> QED BY <1>1, <2>3
<1> QED BY <1>2, <1>3

LEMMA OverdraftStep ==
  ASSUME TypeOK, Named, AllSound, Covered, NoOverdraft, [Next]_vars PROVE NoOverdraft'
<1> SUFFICES ASSUME NEW c \in Customers, Sure(customers'[c]) PROVE customers'[c].points >= 0
    BY DEF NoOverdraft, Sure
<1> DEFINE W == customers[c]
           V == customers'[c]
<1> SUFFICES ASSUME NEW w, NEW v, w = W, v = V PROVE v.points >= 0
    OBVIOUS
<1>1. w \in Customer /\ w.points \in Int /\ RowStep(c, w, v)
      BY RowSteps DEF TypeOK, Customer
<1>2. Sure(w) => w.points >= 0
      BY DEF NoOverdraft, Sure
<1>3. CASE v = w
      BY <1>2, <1>3
<1>4. CASE v = [w EXCEPT !.why = @ \cup {"redeemed"}]
      BY <1>1, <1>4 DEF Customer, Sure
<1>5. ASSUME NEW r \in Requests, Commit(r), reqs[r].customer = c,
             v = Redeemed(w, reqs[r].redeem)
      PROVE  v.points >= 0
  <2>0. reqs[r].redeem \in Nat
        BY DEF TypeOK, Request
  <2>1. Sure(w) /\ v.points = w.points - reqs[r].redeem
        BY <1>1, <1>5, <2>0, RedeemedFields DEF Sure
  <2> QED BY <1>2, <1>5, <2>1, RedeemCovered DEF Commit
<1>6. ASSUME NEW r \in Requests, Earn(r), reqs[r].customer = c,
             v = Earned(w, reqs[r].seen, Bill(r), reqs[r].redeem)
      PROVE  v.points >= 0
  <2>1. reqs[r].seen \in Seen /\ Bill(r) \in Int /\ reqs[r].redeem \in Nat
        BY <1>6, EarnTypes
  <2>7. w.why \subseteq v.why
        BY <1>1, <1>6, <2>1, EarnedPoints
  <2>2. v.points >= w.points - reqs[r].redeem
        BY <1>1, <1>6, <2>1, EarnedPoints DEF Sure
  <2>3. Sure(w)
        BY <2>7 DEF Sure
  <2>4. reqs[r].at = "earn"
        BY <1>6 DEF Earn
  <2>5. w.points - reqs[r].redeem >= 0
        BY <1>2, <1>6, <2>3, <2>4, RedeemCovered
  <2>6. v.points \in Int
    <3>1. v \in Customer
          BY <1>1, <1>6, <2>1, EarnedType
    <3> QED BY <3>1 DEF Customer
  <2> QED BY <1>1, <2>1, <2>2, <2>5, <2>6
<1>7. CASE v = Rewarded(w)
  <2>1. v.points = w.points + ReferrerReward /\ v.why = w.why
        BY <1>1, <1>7, RewardedFields
  <2>2. ReferrerReward \in Nat
        BY CustomersAssumption
  <2>3. Sure(w)
        BY <2>1 DEF Sure
  <2> QED BY <1>1, <1>2, <2>1, <2>2, <2>3
<1>8. ASSUME NEW r \in Requests, reqs[r].seen.points + reqs[r].change >= 0,
             v = [w EXCEPT !.points = reqs[r].seen.points + reqs[r].change,
                    !.ledger = @ + reqs[r].change,
                    !.why = IF w.points # reqs[r].seen.points THEN @ \cup {"points"} ELSE @]
      PROVE  v.points >= 0
      BY <1>1, <1>8 DEF Customer
<1> HIDE DEF W, V
<1> QED BY <1>1, <1>3, <1>4, <1>5, <1>6, <1>7, <1>8 DEF RowStep

\* While x holds the row of c, no other call takes from it.
LEMMA KeptRow ==
  ASSUME TypeOK, AllSound, Exclusive, [Next]_vars, NEW x \in Requests, NEW c \in Customers,
         reqs[x].locks, reqs'[x].locks, reqs[x].customer = c, Sure(customers'[c])
  PROVE  Sure(customers[c]) /\ customers'[c].points >= customers[c].points
<1> DEFINE W == customers[c]
           V == customers'[c]
<1> SUFFICES ASSUME NEW w, NEW v, w = W, v = V PROVE Sure(w) /\ v.points >= w.points
    OBVIOUS
<1>1. w \in Customer /\ w.points \in Int /\ RowStep(c, w, v)
      BY RowSteps DEF TypeOK, Customer
<1>2. ASSUME NEW r \in Requests, Commit(r) \/ Earn(r) \/ Adjust(r) PROVE r # x
  <2>1. End(r)
        BY <1>2 DEF Commit, Earn, Adjust
  <2>2. ~reqs'[r].locks
        BY <2>1 DEF End, TypeOK, Idle
  <2> QED BY <2>2
<1>3. CASE v = w
      BY <1>1, <1>3
<1>4. CASE v = [w EXCEPT !.why = @ \cup {"redeemed"}]
      BY <1>1, <1>4 DEF Customer, Sure
<1>5. ASSUME NEW r \in Requests, Commit(r), reqs[r].customer = c,
             v = Redeemed(w, reqs[r].redeem)
      PROVE  Sure(w) /\ v.points >= w.points
  <2>1. ~reqs[r].locks
        BY <1>2, <1>5 DEF Exclusive
  <2>2. reqs[r].redeem \in Nat /\ reqs[r].at = "commit"
        BY <1>5 DEF Commit, TypeOK, Request
  <2>3. ~(reqs[r].redeem > 0)
        BY <2>1, <2>2 DEF AllSound, Sound
  <2>4. reqs[r].redeem = 0
        BY <2>2, <2>3
  <2>5. v.why = w.why /\ v.points = w.points - reqs[r].redeem
        BY <1>1, <1>5, <2>2, RedeemedFields
  <2> QED BY <1>1, <2>4, <2>5 DEF Sure
<1>6. ASSUME NEW r \in Requests, Earn(r) \/ Adjust(r) PROVE reqs[r].customer # c
  <2>1. Free(r, reqs[r].customer)
        BY <1>6 DEF Earn, Adjust
  <2> QED BY <1>2, <1>6, <2>1 DEF Free
<1>7. CASE v = Rewarded(w)
  <2>1. v.points = w.points + ReferrerReward /\ v.why = w.why
        BY <1>1, <1>7, RewardedFields
  <2>2. ReferrerReward \in Nat
        BY CustomersAssumption
  <2> QED BY <1>1, <2>1, <2>2 DEF Sure
<1> HIDE DEF W, V
<1> QED BY <1>1, <1>3, <1>4, <1>5, <1>6, <1>7 DEF RowStep

LEMMA CoveredStep ==
  ASSUME TypeOK, TypeOK', Named, Named', AllSound, AllSound', Exclusive, Covered, [Next]_vars
  PROVE  Covered'
<1> SUFFICES ASSUME NEW x \in Requests, reqs'[x].locks, NEW c, c = reqs'[x].customer,
                    Sure(customers'[c])
             PROVE  customers'[c].points >= reqs'[x].redeem
    BY DEF Covered
<1>1. c \in Customers
  <2>1. WellNamed(reqs'[x])
        BY DEF Named
  <2> QED BY <2>1 DEF WellNamed
<1>2. /\ reqs'[x].customer = reqs[x].customer /\ reqs'[x].redeem = reqs[x].redeem
      /\ reqs[x].locks \/ Take(x)
      BY LockSteps
<1>3. /\ customers[c].points \in Int /\ customers'[c].points \in Int /\ reqs[x].redeem \in Nat
      BY <1>1 DEF TypeOK, Customer, Request
<1>4. CASE reqs[x].locks
  <2>1. Sure(customers[c]) /\ customers'[c].points >= customers[c].points
        BY <1>1, <1>2, <1>4, KeptRow
  <2>2. customers[c].points >= reqs[x].redeem
        BY <1>2, <1>4, <2>1 DEF Covered
  <2> QED BY <1>2, <1>3, <2>1, <2>2
<1>5. CASE Take(x)
  <2>1. reqs[x].seen.points >= reqs[x].redeem
        BY <1>5 DEF Take, AllSound, Sound
  <2>2. ASSUME customers' = [customers EXCEPT ![c].why = @ \cup {"redeemed"}]
        PROVE  FALSE
    <3>1. customers'[c] = [customers[c] EXCEPT !.why = @ \cup {"redeemed"}]
          BY <1>1, <2>2 DEF TypeOK
    <3>2. customers[c] \in Customer
          BY <1>1 DEF TypeOK
    <3>3. "redeemed" \in customers'[c].why
          BY <3>1, <3>2 DEF Customer
    <3> QED BY <3>3 DEF Sure
  <2>3. /\ customers' = customers
        /\ (customers[c].points >= reqs[x].redeem \/ customers[c].points = reqs[x].seen.points)
        BY <1>2, <1>5, <2>2 DEF Take
  <2> QED BY <1>2, <2>1, <2>3
<1> QED BY <1>2, <1>4, <1>5

\* A balance falls below zero only for the causes it records, a negative total among them:
\* no order that holds the row takes more than is there.
THEOREM OverdraftCorrect == Spec => []NoOverdraft
<1> DEFINE Inv == AllSound /\ Exclusive /\ Covered /\ NoOverdraft
<1>1. Init => Inv
  <2> SUFFICES ASSUME Init PROVE Inv
      OBVIOUS
  <2>1. \A r \in Requests : reqs[r] = Idle /\ ~reqs[r].locks
        BY DEF Init, Idle
  <2>2. NoOverdraft
        BY CustomersAssumption DEF Init, NoOverdraft
  <2> QED BY <2>1, <2>2, SoundIdle DEF AllSound, Exclusive, Covered
<1>2. TypeOK /\ Named /\ TypeOK' /\ Named' /\ Inv /\ [Next]_vars => Inv'
      BY LocksStep, CoveredStep, OverdraftStep
<1>3. Inv => NoOverdraft
      OBVIOUS
<1> HIDE DEF Inv
<1> QED BY <1>1, <1>2, <1>3, NamedCorrect, PTL DEF Spec

-----------------------------------------------------------------------------
(* Sums over a set.  The sizes of two sets of pairs, one for what is above  *)
(* zero and one for what is below, say what the recursion of MapThenSumSet  *)
(* says, and need no induction when an element is added.                   *)

\* One pair for each unit of f over S.
Units(f, S) == UNION {{x} \X (1 .. f[x]) : x \in S}
Total(f, S) == Cardinality(Units(f, S))

\* A block of n pairs has n of them.
LEMMA PairsFinite ==
  ASSUME NEW x, NEW n \in Nat
  PROVE  IsFiniteSet({x} \X (1 .. n)) /\ Cardinality({x} \X (1 .. n)) = n
<1>1. IsFiniteSet(1 .. n) /\ Cardinality(1 .. n) = n
      BY FS_Interval
<1>2. IsFiniteSet({x}) /\ Cardinality({x}) = 1
      BY FS_Singleton
<1> QED BY <1>1, <1>2, FS_Product

\* Over a finite set the units are finitely many, so their count is a number.
LEMMA UnitsFinite ==
  ASSUME NEW S, IsFiniteSet(S), NEW f, \A x \in S : f[x] \in Nat
  PROVE  IsFiniteSet(Units(f, S)) /\ Total(f, S) \in Nat
<1> DEFINE U == {{x} \X (1 .. f[x]) : x \in S}
           g == [x \in S |-> {x} \X (1 .. f[x])]
<1>1. g \in Surjection(S, U)
      BY DEF Surjection
<1>2. IsFiniteSet(U)
      BY <1>1, FS_Surjection
<1>3. ASSUME NEW T \in U PROVE IsFiniteSet(T)
  <2>1. PICK x \in S : T = {x} \X (1 .. f[x])
        OBVIOUS
  <2> QED BY <2>1, PairsFinite
<1>4. IsFiniteSet(UNION U)
      BY <1>2, <1>3, FS_UNION
<1> QED BY <1>4, FS_CardinalityType DEF Units, Total

\* Nothing adds up to nothing.
LEMMA TotalEmpty == \A f : Total(f, {}) = 0
<1>1. \A f : Units(f, {}) = {}
      BY DEF Units
<1> QED BY <1>1, FS_EmptySet DEF Total

\* A new element adds its value: its pairs are none of the others'.
LEMMA TotalAdd ==
  ASSUME NEW S, IsFiniteSet(S), NEW f, NEW y, y \notin S, \A x \in S : f[x] \in Nat, f[y] \in Nat
  PROVE  Total(f, S \cup {y}) = Total(f, S) + f[y]
<1> DEFINE Y == {y} \X (1 .. f[y])
<1>1. Units(f, S \cup {y}) = Units(f, S) \cup Y
      BY DEF Units
<1>2. Units(f, S) \cap Y = {}
      BY DEF Units
<1>3. IsFiniteSet(Y) /\ Cardinality(Y) = f[y]
      BY PairsFinite
<1>4. IsFiniteSet(Units(f, S)) /\ Total(f, S) \in Nat
      BY UnitsFinite
<1>5. Cardinality(Units(f, S) \cap Y) = 0
      BY <1>2, FS_EmptySet
<1> HIDE DEF Y
<1>6. Cardinality(Units(f, S) \cup Y)
        = Cardinality(Units(f, S)) + Cardinality(Y) - Cardinality(Units(f, S) \cap Y)
      BY <1>3, <1>4, FS_Union
<1>7. Total(f, S) = Cardinality(Units(f, S)) /\ Total(f, S \cup {y}) = Cardinality(Units(f, S) \cup Y)
      BY <1>1 DEF Total
<1> QED BY <1>3, <1>4, <1>5, <1>6, <1>7

\* Only the values over the set count.
LEMMA TotalSame ==
  ASSUME NEW S, NEW f, NEW g, \A x \in S : f[x] = g[x]
  PROVE  Total(f, S) = Total(g, S)
<1>1. Units(f, S) = Units(g, S)
      BY DEF Units
<1> QED BY <1>1 DEF Total

\* What is above zero less what is below.
Over(f, S)  == [x \in S |-> IF f[x] > 0 THEN f[x] ELSE 0]
Under(f, S) == [x \in S |-> IF f[x] < 0 THEN -f[x] ELSE 0]
SumOf(f, S) == Total(Over(f, S), S) - Total(Under(f, S), S)

LEMMA PartsNat ==
  ASSUME NEW S, NEW f, NEW x \in S, f[x] \in Int
  PROVE  /\ Over(f, S)[x] \in Nat /\ Under(f, S)[x] \in Nat
         /\ Over(f, S)[x] - Under(f, S)[x] = f[x]
<1>1. /\ Over(f, S)[x] = IF f[x] > 0 THEN f[x] ELSE 0
      /\ Under(f, S)[x] = IF f[x] < 0 THEN -f[x] ELSE 0
      BY DEF Over, Under
<1> QED BY <1>1

LEMMA SumInt ==
  ASSUME NEW S, IsFiniteSet(S), NEW f, \A x \in S : f[x] \in Int
  PROVE  SumOf(f, S) \in Int
<1>1. \A x \in S : Over(f, S)[x] \in Nat /\ Under(f, S)[x] \in Nat
      BY PartsNat
<1>2. Total(Over(f, S), S) \in Nat /\ Total(Under(f, S), S) \in Nat
      BY <1>1, UnitsFinite
<1> QED BY <1>2 DEF SumOf

LEMMA SumEmpty == \A f : SumOf(f, {}) = 0
BY TotalEmpty DEF SumOf

\* A new element adds its value, whatever its sign.
LEMMA SumAdd ==
  ASSUME NEW S, IsFiniteSet(S), NEW f, NEW y, y \notin S, \A x \in S : f[x] \in Int, f[y] \in Int
  PROVE  SumOf(f, S \cup {y}) = SumOf(f, S) + f[y]
<1> DEFINE T == S \cup {y}
           u == Over(f, T)
           v == Under(f, T)
<1>1. \A x \in T : u[x] \in Nat /\ v[x] \in Nat /\ u[x] - v[x] = f[x]
      BY PartsNat
<1>2. \A x \in S : u[x] = Over(f, S)[x] /\ v[x] = Under(f, S)[x]
      BY DEF Over, Under
<1> HIDE DEF u, v
<1>3. Total(u, S) = Total(Over(f, S), S) /\ Total(v, S) = Total(Under(f, S), S)
      BY <1>2, TotalSame
<1>4. (\A x \in S : u[x] \in Nat /\ v[x] \in Nat) /\ u[y] \in Nat /\ v[y] \in Nat
      BY <1>1
<1>5. Total(u, S \cup {y}) = Total(u, S) + u[y]
      BY <1>4, TotalAdd
<1>6. Total(v, S \cup {y}) = Total(v, S) + v[y]
      BY <1>4, TotalAdd
<1>7. Total(u, S) \in Nat /\ Total(v, S) \in Nat
      BY <1>4, UnitsFinite
<1>8. u[y] - v[y] = f[y]
      BY <1>1
<1>9. Total(u, S \cup {y}) - Total(v, S \cup {y}) = Total(u, S) - Total(v, S) + f[y]
      BY <1>4, <1>5, <1>6, <1>7, <1>8
<1> QED BY <1>3, <1>9 DEF SumOf, u, v

\* Only the values over the set count.
LEMMA SumSame ==
  ASSUME NEW S, NEW f, NEW g, \A x \in S : f[x] = g[x]
  PROVE  SumOf(f, S) = SumOf(g, S)
<1>1. Over(f, S) = Over(g, S) /\ Under(f, S) = Under(g, S)
      BY DEF Over, Under
<1> QED BY <1>1 DEF SumOf

\* The recursion of MapThenSumSet.
Any(s) == CHOOSE x \in s : TRUE
Recurses(g, f, S) ==
  g = [s \in SUBSET S |-> IF s = {} THEN 0 ELSE f[Any(s)] + g[s \ {Any(s)}]]

\* The difference solves it.
LEMMA SumRecurses ==
  ASSUME NEW S, IsFiniteSet(S), NEW f, \A x \in S : f[x] \in Int
  PROVE  Recurses([s \in SUBSET S |-> SumOf(f, s)], f, S)
<1> SUFFICES ASSUME NEW s \in SUBSET S
             PROVE  SumOf(f, s) = IF s = {} THEN 0 ELSE f[Any(s)] + SumOf(f, s \ {Any(s)})
    BY DEF Recurses
<1>1. CASE s = {}
      BY <1>1, SumEmpty
<1>2. CASE s # {}
  <2> DEFINE y == Any(s)
             t == s \ {y}
  <2>1. y \in s
        BY <1>2 DEF Any
  <2> HIDE DEF y
  <2>2. IsFiniteSet(t) /\ y \notin t /\ t \cup {y} = s
        BY <2>1, FS_Subset
  <2>3. \A x \in s : f[x] \in Int
        OBVIOUS
  <2>4. SumOf(f, t) \in Int
        BY <2>2, <2>3, SumInt
  <2>5. f[y] \in Int
        BY <2>1, <2>3
  <2> HIDE DEF t
  <2>7. \A x \in t : f[x] \in Int
        BY <2>2, <2>3
  <2>6. SumOf(f, t \cup {y}) = SumOf(f, t) + f[y]
    <3>1. IsFiniteSet(t) /\ y \notin t
          BY <2>2
    <3> HIDE DEF SumOf
    <3> QED BY <2>5, <2>7, <3>1, SumAdd, Zenon
  <2>8. SumOf(f, t \cup {y}) = f[y] + SumOf(f, t)
    <3> HIDE DEF SumOf
    <3> QED BY <2>4, <2>5, <2>6
  <2>9. SumOf(f, s) = f[y] + SumOf(f, t)
        BY <2>2, <2>8, Zenon
  <2> HIDE DEF SumOf
  <2> QED BY <1>2, <2>9, Zenon DEF y, t
<1> QED BY <1>1, <1>2

\* It has no other solution: a smallest set where two solutions differ is not empty,
\* and without the chosen element they agree.
LEMMA RecursionUnique ==
  ASSUME NEW S, IsFiniteSet(S), NEW f, NEW g, NEW h, Recurses(g, f, S), Recurses(h, f, S)
  PROVE  g[S] = h[S]
<1> DEFINE T == {s \in SUBSET S : g[s] # h[s]}
<1>1. SUFFICES ASSUME T # {} PROVE FALSE
      OBVIOUS
<1>2. FiniteSubsetsOf(S) = SUBSET S
      BY FS_FiniteSubsetsOfFinite
<1>3. IsWellFoundedOn(StrictSubsetOrdering(S), SUBSET S)
      BY <1>2, FS_StrictSubsetOrderingWellFounded
<1>4. PICK s \in T : \A t \in T : <<t, s>> \notin StrictSubsetOrdering(S)
  <2> HIDE DEF T
  <2>1. T \subseteq SUBSET S
        BY DEF T
  <2> QED BY <1>1, <1>3, <2>1, WFMin
<1>5. /\ g[s] = IF s = {} THEN 0 ELSE f[Any(s)] + g[s \ {Any(s)}]
      /\ h[s] = IF s = {} THEN 0 ELSE f[Any(s)] + h[s \ {Any(s)}]
      BY DEF Recurses
<1>6. s # {} /\ s \in SUBSET S
      BY <1>5
<1>7. Any(s) \in s
      BY <1>6 DEF Any
<1>8. <<s \ {Any(s)}, s>> \in StrictSubsetOrdering(S)
      BY <1>6, <1>7 DEF StrictSubsetOrdering
<1>9. g[s \ {Any(s)}] = h[s \ {Any(s)}]
      BY <1>4, <1>6, <1>8
<1> QED BY <1>4, <1>5, <1>9

\* So whatever solves it gives the difference.
LEMMA RecursionSum ==
  ASSUME NEW S, IsFiniteSet(S), NEW f, \A x \in S : f[x] \in Int, NEW g, Recurses(g, f, S)
  PROVE  g[S] = SumOf(f, S)
<1> DEFINE h == [s \in SUBSET S |-> SumOf(f, s)]
<1>1. Recurses(h, f, S)
      BY SumRecurses
<1>2. g[S] = h[S]
  <2> HIDE DEF h
  <2> QED BY <1>1, RecursionUnique
<1> QED BY <1>2

\* What the community modules' sum over a set is.
LEMMA SumIsSum ==
  ASSUME NEW rows, NEW S, IsFiniteSet(S), \A x \in S : rows[x].amount \in Int
  PROVE  MapThenSumSet(LAMBDA o : rows[o].amount, S) = SumOf([x \in S |-> rows[x].amount], S)
<1> DEFINE f == [x \in S |-> rows[x].amount]
           Is(g) == g = [s \in SUBSET S |->
                          IF s = {} THEN 0
                            ELSE rows[CHOOSE x \in s : TRUE].amount + g[s \ {CHOOSE x \in s : TRUE}]]
           it == CHOOSE g : Is(g)
<1>1. MapThenSumSet(LAMBDA o : rows[o].amount, S) = it[S]
      BY DEF MapThenSumSet, MapThenFoldSet
<1>2. \A g : Is(g) <=> Recurses(g, f, S)
  <2>1. \A s \in SUBSET S : s # {} => f[Any(s)] = rows[CHOOSE x \in s : TRUE].amount
        BY DEF Any
  <2> QED BY <2>1 DEF Recurses, Any
<1>3. \A x \in S : f[x] \in Int
      OBVIOUS
<1>4. Is([s \in SUBSET S |-> SumOf(f, s)])
  <2> HIDE DEF f, Is
  <2> QED BY <1>2, <1>3, SumRecurses
<1>5. Is(it)
  <2> HIDE DEF Is
  <2> QED BY <1>4
<1>6. Recurses(it, f, S)
  <2> HIDE DEF Is, it
  <2> QED BY <1>2, <1>5
<1> HIDE DEF f, it
<1>7. it[S] = SumOf(f, S)
      BY <1>3, <1>6, RecursionSum
<1> QED BY <1>1, <1>7 DEF f


-----------------------------------------------------------------------------
(* Spend.                                                                  *)

\* The call is to earn for an order whose status it has written.
Completes(r) == reqs[r].op = "complete" /\ reqs[r].at \notin {"idle", "done"}

\* An order nobody claimed earned for nobody.  Of one claimed once, the claim is still to be
\* earned by one call, for the order as it stands, or was.
Claimed(o) ==
  /\ orders[o].claims = 0 => orders[o].earners = {}
  /\ orders[o].claims <= 1 =>
       \A r \in Requests : Completes(r) /\ reqs[r].order = o =>
         /\ orders[o].claims = 1 /\ orders[o].earners = {}
         /\ reqs[r].amount = orders[o].amount
         /\ \A q \in Requests : Completes(q) /\ reqs[q].order = o => q = r

OneClaim == \A o \in Requests : Claimed(o)

\* The amounts, as a function to add up.
Amount == [o \in Requests |-> orders[o].amount]

\* SpendIsOrders speaks of c.
Undoubted(c) ==
  /\ "spend" \notin customers[c].why
  /\ \A o \in Paying(c) : orders[o].claims <= 1

SpendCounts == \A c \in Customers : Undoubted(c) => customers[c].spend = SumOf(Amount, Paying(c))

\* The inductive invariant.
SpendInv == OneClaim /\ SpendCounts

LEMMA RequestsFinite == IsFiniteSet(Requests)
BY CustomersAssumption, FS_Interval DEF Requests

\* At first there is no order, and nobody spent anything.
LEMMA SpendInit == Init => SpendInv
<1> SUFFICES ASSUME Init PROVE SpendInv
    OBVIOUS
<1>1. \A o \in Requests : orders[o] = NoOrder /\ reqs[o].at = "idle"
      BY DEF Init, Idle
<1>2. OneClaim
      BY <1>1 DEF OneClaim, Claimed, Completes, NoOrder
<1>3. ASSUME NEW c \in Customers PROVE customers[c].spend = SumOf(Amount, Paying(c))
  <2>1. Paying(c) = {}
        BY <1>1 DEF Paying, NoOrder
  <2>2. customers[c].spend = 0
        BY DEF Init
  <2> HIDE DEF SumOf
  <2> QED BY <2>1, <2>2, SumEmpty, Zenon
<1> QED BY <1>2, <1>3 DEF SpendInv, SpendCounts

\* A call that earns for an order, if it is one after the step, was one before.
Fewer(o) == \A x \in Requests : Completes(x)' /\ reqs'[x].order = o =>
  /\ Completes(x) /\ reqs[x].order = o /\ reqs'[x].amount = reqs[x].amount

\* What is known of an order stays where neither it nor, but for fewer, its calls change.
LEMMA ClaimedStays ==
  ASSUME OneClaim, NEW o \in Requests, Fewer(o),
         orders'[o].claims = orders[o].claims, orders'[o].earners = orders[o].earners,
         orders'[o].amount = orders[o].amount
  PROVE  Claimed(o)'
BY DEF OneClaim, Claimed, Fewer

\* Doubts about a customer's spend do not go away.
LEMMA DoubtStays ==
  ASSUME TypeOK, TypeOK', NEW c \in Customers, Undoubted(c)',
         customers[c].why \subseteq customers'[c].why,
         \A p \in Requests : /\ orders[p].earners \subseteq orders'[p].earners
                             /\ orders[p].claims <= orders'[p].claims
  PROVE  Undoubted(c)
<1>1. \A p \in Requests : orders[p].claims \in Nat /\ orders'[p].claims \in Nat
      BY DEF TypeOK, Order
<1>2. Paying(c) \subseteq Paying(c)'
      BY DEF Paying
<1>3. ASSUME NEW p \in Paying(c) PROVE orders[p].claims <= 1
  <2>1. p \in Requests /\ orders'[p].claims <= 1
        BY <1>2, <1>3 DEF Undoubted, Paying
  <2> QED BY <1>1, <2>1
<1> QED BY <1>3 DEF Undoubted

\* Two functions agree on S, and y is not in it.
Agree(f, g, S, y) ==
  /\ IsFiniteSet(S) /\ y \notin S /\ f[y] \in Int
  /\ \A x \in S : g[x] = f[x] /\ f[x] \in Int

\* What one more element does to a sum, where another function agrees on the rest.
LEMMA SumMore ==
  ASSUME NEW S, NEW f, NEW g, NEW y, Agree(f, g, S, y)
  PROVE  SumOf(f, S) = SumOf(g, S) /\ SumOf(f, S \cup {y}) = SumOf(g, S) + f[y]
<1>1. /\ IsFiniteSet(S) /\ y \notin S /\ f[y] \in Int
      /\ \A x \in S : f[x] \in Int
      /\ \A x \in S : g[x] = f[x]
      BY DEF Agree
<1>2. SumOf(g, S) = SumOf(f, S)
      BY <1>1, SumSame, Zenon
<1>3. SumOf(f, S \cup {y}) = SumOf(f, S) + f[y]
      BY <1>1, SumAdd, Zenon
<1> QED BY <1>2, <1>3, Zenon

\* What one order does to the sum: o was not in it, and comes to it or not.
LEMMA SumStep ==
  ASSUME TypeOK, TypeOK', NEW c \in Customers, NEW o \in Requests,
         \A p \in Requests \ {o} : orders'[p] = orders[p], o \notin Paying(c)
  PROVE  /\ o \notin Paying(c)' => SumOf(Amount', Paying(c)') = SumOf(Amount, Paying(c))
         /\ o \in Paying(c)' =>
              SumOf(Amount', Paying(c)') = SumOf(Amount, Paying(c)) + orders'[o].amount
<1>1. IsFiniteSet(Paying(c))
      BY RequestsFinite, FS_Subset DEF Paying
<1>2. /\ \A x \in Paying(c) : Amount[x] = Amount'[x]
      /\ \A x \in Paying(c) : Amount'[x] \in Int
      /\ Amount'[o] = orders'[o].amount /\ Amount'[o] \in Int
      BY DEF Amount, Paying, TypeOK, Order
<1>3. /\ o \notin Paying(c)' => Paying(c)' = Paying(c)
      /\ o \in Paying(c)' => Paying(c)' = Paying(c) \cup {o}
      BY DEF Paying
<1>4. Agree(Amount', Amount, Paying(c), o)
      BY <1>1, <1>2 DEF Agree
<1>5. /\ SumOf(Amount', Paying(c)) = SumOf(Amount, Paying(c))
      /\ SumOf(Amount', Paying(c) \cup {o}) = SumOf(Amount, Paying(c)) + Amount'[o]
  <2> DEFINE S == Paying(c)
             f == Amount'
             g == Amount
  <2>1. Agree(f, g, S, o)
        BY <1>4
  <2> HIDE DEF S, f, g
  <2>2. /\ SumOf(f, S) = SumOf(g, S)
        /\ SumOf(f, S \cup {o}) = SumOf(g, S) + f[o]
        BY <2>1, SumMore
  <2> QED BY <2>2 DEF S, f, g
<1> QED BY <1>2, <1>3, <1>5, Zenon

\* Where no order's amount and earners change, nor any spend, the sums are what they were.
LEMMA SumStays ==
  ASSUME TypeOK, TypeOK', SpendCounts,
         \A p \in Requests : /\ orders'[p].earners = orders[p].earners
                             /\ orders'[p].amount = orders[p].amount
                             /\ orders[p].claims <= orders'[p].claims,
         \A c \in Customers : /\ customers'[c].spend = customers[c].spend
                              /\ customers[c].why \subseteq customers'[c].why
  PROVE  SpendCounts'
<1> SUFFICES ASSUME NEW c \in Customers, Undoubted(c)'
             PROVE  customers'[c].spend = SumOf(Amount', Paying(c)')
    BY DEF SpendCounts
<1>1. Undoubted(c)
      BY DoubtStays
<1>2. Amount' = Amount /\ Paying(c)' = Paying(c)
      BY DEF Amount, Paying
<1>3. customers[c].spend = SumOf(Amount, Paying(c))
      BY <1>1 DEF SpendCounts
<1> HIDE DEF SumOf
<1> QED BY <1>2, <1>3

-----------------------------------------------------------------------------
(* Spend, step by step.                                                    *)

\* Every step but three leaves orders and spend alone, and begins no earning of a status.
QuietStep ==
  /\ orders' = orders
  /\ \A c \in Customers : /\ customers'[c].spend = customers[c].spend
                          /\ customers[c].why \subseteq customers'[c].why
  /\ \A o \in Requests : Fewer(o)

LEMMA QuietKeepsSpend ==
  ASSUME TypeOK, TypeOK', SpendInv, QuietStep PROVE SpendInv'
<1>1. \A p \in Requests : /\ orders'[p].earners = orders[p].earners
                          /\ orders'[p].amount = orders[p].amount
                          /\ orders'[p].claims = orders[p].claims
                          /\ orders[p].claims <= orders'[p].claims
      BY DEF QuietStep, TypeOK, Order
<1>2. OneClaim'
      BY <1>1, ClaimedStays DEF QuietStep, SpendInv, OneClaim
<1>3. SpendCounts'
      BY <1>1, SumStays DEF QuietStep, SpendInv
<1> QED BY <1>2, <1>3 DEF SpendInv

\* A call that ends leaves the others, and has nothing left to earn.
LEMMA EndedCall ==
  ASSUME TypeOK, NEW r \in Requests, End(r)
  PROVE  /\ ~Completes(r)'
         /\ \A x \in Requests \ {r} : reqs'[x] = reqs[x]
         /\ \A o \in Requests : Fewer(o)
<1>1. ~Completes(r)' /\ \A x \in Requests \ {r} : reqs'[x] = reqs[x]
      BY DEF TypeOK, End, Idle, Completes
<1> QED BY <1>1 DEF Fewer, Completes

\* So does a call whose new state completes nothing, or what it did.
LEMMA OneCall ==
  ASSUME TypeOK, NEW r \in Requests, \A x \in Requests \ {r} : reqs'[x] = reqs[x],
         Completes(r)' => /\ Completes(r) /\ reqs'[r].order = reqs[r].order
                          /\ reqs'[r].amount = reqs[r].amount
  PROVE  \A o \in Requests : Fewer(o)
BY DEF Fewer, Completes

LEMMA QuietSteps ==
  ASSUME TypeOK, [Next]_vars
  PROVE  QuietStep \/ \E r \in Requests : Commit(r) \/ Earn(r) \/ Mark(r)
<1> DEFINE Still == \A c \in Customers : /\ customers'[c].spend = customers[c].spend
                                        /\ customers[c].why \subseteq customers'[c].why
<1>0. ASSUME customers' = customers PROVE Still
      BY <1>0
<1>1. CASE UNCHANGED vars
      BY <1>1 DEF vars, QuietStep, Fewer, Completes
<1>2. ASSUME NEW r \in Requests, Take(r) \/ Adjust(r) PROVE Still
      BY <1>2 DEF Take, Adjust, TypeOK, Customer
<1>3. ASSUME NEW r \in Requests,
             BeginOrder(r) \/ BeginAppend(r) \/ Append(r) \/ ReadPoints(r) \/ Take(r)
               \/ ReadCustomer(r) \/ BeginAdjust(r) \/ Adjust(r) \/ Fail(r)
      PROVE  QuietStep
  <2>1. orders' = orders
        BY <1>3 DEF BeginOrder, BeginAppend, Append, ReadPoints, Take, ReadCustomer,
                    BeginAdjust, Adjust, Fail
  <2>2. Still
    <3>1. Take(r) \/ Adjust(r) \/ customers' = customers
          BY <1>3 DEF BeginOrder, BeginAppend, Append, ReadPoints, ReadCustomer, BeginAdjust, Fail
    <3> HIDE DEF Still
    <3> QED BY <1>0, <1>2, <3>1
  <2>3. \A x \in Requests \ {r} : reqs'[x] = reqs[x]
        BY <1>3 DEF TypeOK, BeginOrder, BeginAppend, Append, ReadPoints, Take, ReadCustomer,
                    BeginAdjust, Adjust, Fail, Goto, End
  <2>4. reqs[r] \in Request
        BY DEF TypeOK
  <2>5. CASE End(r)
        BY <2>1, <2>2, <2>5, EndedCall DEF QuietStep
  <2>6. CASE BeginOrder(r) \/ BeginAppend(r)
    <3>1. reqs'[r].op = "order"
          BY <2>6, OrderBegun DEF Begun
    <3>2. ~Completes(r)'
          BY <3>1 DEF Completes
    <3> QED BY <2>1, <2>2, <2>3, <3>2, OneCall DEF QuietStep
  <2>7. CASE BeginAdjust(r)
    <3>1. ~Completes(r)'
          BY <2>7, AdjustBegun DEF Completes
    <3> QED BY <2>1, <2>2, <2>3, <3>1, OneCall DEF QuietStep
  <2>8. CASE (Append(r) \/ ReadPoints(r) \/ Take(r) \/ ReadCustomer(r)) /\ ~End(r)
    <3>2. /\ reqs'[r].op = reqs[r].op /\ reqs'[r].order = reqs[r].order
          /\ reqs'[r].amount = reqs[r].amount
      <4>1. CASE Append(r)
            BY <2>4, <4>1 DEF TypeOK, Request, Append, Goto
      <4>2. CASE ReadPoints(r)
            BY <2>4, <2>8, <4>2 DEF TypeOK, Request, ReadPoints
      <4>3. CASE Take(r)
            BY <2>4, <4>3 DEF TypeOK, Request, Take
      <4>4. CASE ReadCustomer(r)
            BY <2>4, <4>4 DEF TypeOK, Request, ReadCustomer
      <4> QED BY <2>8, <4>1, <4>2, <4>3, <4>4
    <3>3. reqs[r].at \notin {"idle", "done"}
          BY <2>8 DEF Append, ReadPoints, Take, ReadCustomer
    <3> QED BY <2>1, <2>2, <2>3, <3>2, <3>3, OneCall DEF QuietStep, Completes
  <2>9. CASE Adjust(r) \/ Fail(r)
        BY <2>5, <2>9 DEF Adjust, Fail
  <2> QED BY <1>3, <2>5, <2>6, <2>7, <2>8, <2>9
<1> QED BY <1>1, <1>3 DEF Next

\* What committing an order makes of what is known of it, whether it earns or not: who had
\* claimed it is in doubt, and if nobody had, no call is to earn for it.
LEMMA PlaceKeepsClaims ==
  ASSUME TypeOK, OneClaim, NEW r \in Requests, End(r), NEW o \in Requests,
         \A p \in Requests \ {o} : orders'[p] = orders[p],
         NEW earns \in BOOLEAN,
         orders'[o].claims = (IF earns \/ orders[o].claims > 0 THEN orders[o].claims + 1 ELSE 0),
         ~earns => orders'[o].earners = orders[o].earners
  PROVE  OneClaim'
<1>1. \A p \in Requests : Fewer(p)
      BY EndedCall
<1>2. ASSUME NEW p \in Requests, p # o PROVE Claimed(p)'
      BY <1>1, <1>2, ClaimedStays
<1>3. Claimed(o)'
  <2>1. orders[o].claims \in Nat
        BY DEF TypeOK, Order
  <2>2. CASE orders[o].claims = 0
    <3>1. orders[o].earners = {} /\ \A x \in Requests : ~(Completes(x) /\ reqs[x].order = o)
          BY <2>2 DEF OneClaim, Claimed
    <3>2. \A x \in Requests : ~(Completes(x)' /\ reqs'[x].order = o)
          BY <1>1, <3>1 DEF Fewer
    <3>3. orders'[o].claims = 0 => orders'[o].earners = {}
          BY <2>2, <3>1
    <3> QED BY <3>2, <3>3 DEF Claimed
  <2>3. CASE orders[o].claims # 0
    <3>1. orders'[o].claims = orders[o].claims + 1 /\ orders[o].claims >= 1
          BY <2>1, <2>3
    <3>2. ~(orders'[o].claims <= 1) /\ orders'[o].claims # 0
          BY <2>1, <3>1
    <3> QED BY <3>2 DEF Claimed
  <2> QED BY <2>2, <2>3
<1> QED BY <1>2, <1>3 DEF OneClaim

\* An undoubted customer had no part in an order that is committed once more.
LEMMA NotYetPaid ==
  ASSUME TypeOK, TypeOK', OneClaim, NEW o \in Requests, NEW c \in Customers, Undoubted(c)',
         o \in Paying(c) => o \in Paying(c)',
         orders[o].claims > 0 => orders'[o].claims = orders[o].claims + 1
  PROVE  o \notin Paying(c)
<1> SUFFICES ASSUME o \in Paying(c) PROVE FALSE
    OBVIOUS
<1>1. orders[o].claims \in Nat /\ orders'[o].claims \in Nat
      BY DEF TypeOK, Order
<1>2. orders[o].claims # 0
      BY DEF Paying, OneClaim, Claimed
<1>3. orders'[o].claims <= 1
      BY DEF Undoubted
<1> QED BY <1>1, <1>2, <1>3

\* An order that earns nothing adds nothing to the sum.
LEMMA CommitKeepsSpend ==
  ASSUME TypeOK, TypeOK', Named, SpendInv, NEW r \in Requests, Commit(r) PROVE SpendInv'
<1>1. reqs[r].op = "order" /\ reqs[r].order \in Requests /\ Placed(r, FALSE) /\ End(r)
      BY DEF Commit, Named, WellNamed
<1>2. PICK o \in Requests : o = reqs[r].order
      BY <1>1
<1>3. /\ \A p \in Requests \ {o} : orders'[p] = orders[p]
      /\ orders'[o].earners = orders[o].earners
      /\ orders'[o].claims = (IF FALSE \/ orders[o].claims > 0 THEN orders[o].claims + 1 ELSE 0)
  <2>1. PICK earns \in BOOLEAN : earns = FALSE
        OBVIOUS
  <2>2. Placed(r, earns) /\ (earns => reqs[r].customer \in Customers)
        BY <1>1, <2>1
  <2>3. /\ \A p \in Requests \ {o} : orders'[p] = orders[p]
        /\ orders'[o].earners = orders[o].earners \cup (IF earns THEN {reqs[r].customer} ELSE {})
        /\ orders'[o].claims = (IF earns \/ orders[o].claims > 0 THEN orders[o].claims + 1 ELSE 0)
        BY <1>1, <1>2, <2>2, PlacedOrder
  <2> QED BY <2>1, <2>3
<1>4. OneClaim'
      BY <1>1, <1>3, PlaceKeepsClaims DEF SpendInv
<1>5. ASSUME NEW c \in Customers
      PROVE  customers'[c].spend = customers[c].spend /\ customers'[c].why = customers[c].why
      BY DEF Commit, Redeemed, TypeOK, Customer
<1>6. ASSUME NEW p \in Requests
      PROVE  orders[p].earners \subseteq orders'[p].earners /\ orders[p].claims <= orders'[p].claims
      BY <1>3 DEF TypeOK, Order
<1>7. ASSUME NEW c \in Customers, Undoubted(c)'
      PROVE  customers'[c].spend = SumOf(Amount', Paying(c)')
  <2>1. Undoubted(c)
        BY <1>5, <1>6, <1>7, DoubtStays
  <2>2. o \notin Paying(c)
        BY <1>3, <1>7, NotYetPaid DEF SpendInv, Paying
  <2>3. o \notin Paying(c)'
        BY <1>3, <2>2 DEF Paying
  <2>4. SumOf(Amount', Paying(c)') = SumOf(Amount, Paying(c))
        BY <1>3, <2>2, <2>3, SumStep
  <2> QED BY <1>5, <2>1, <2>4 DEF SpendInv, SpendCounts
<1> QED BY <1>4, <1>7 DEF SpendInv, SpendCounts

\* An earning adds the amount to its customer's spend, or leaves its mark.
LEMMA EarnedSpend ==
  ASSUME NEW w \in Customer, NEW s \in Seen, NEW a \in Int, NEW n \in Nat
  PROVE  /\ Earned(w, s, a, n).spend = s.spend + a
         /\ w.why \subseteq Earned(w, s, a, n).why
         /\ "spend" \notin Earned(w, s, a, n).why => w.spend = s.spend
<1> DEFINE x == Earned(w, s, a, n)
<1>1. \E base \in Int : x.why = Reasons(w, s, base)
      BY EarnedFields
<1>2. x.spend = s.spend + a
      BY DEF Earned, Customer
<1> HIDE DEF x
<1>3. w.why \subseteq x.why /\ ("spend" \notin x.why => w.spend = s.spend)
      BY <1>1 DEF Reasons
<1> QED BY <1>2, <1>3 DEF x

\* What an earning makes of the rows, the referrer's included.
LEMMA EarnRows ==
  ASSUME TypeOK, Named, NEW r \in Requests, Earn(r), NEW c \in Customers
  PROVE  /\ customers[c].why \subseteq customers'[c].why
         /\ c # reqs[r].customer => customers'[c].spend = customers[c].spend
         /\ c = reqs[r].customer /\ "spend" \notin customers'[c].why =>
              customers'[c].spend = customers[c].spend + Bill(r)
<1>0. customers[c] \in Customer
      BY DEF TypeOK
<1>1. reqs[r].seen \in Seen /\ Bill(r) \in Int /\ reqs[r].redeem \in Nat
      BY EarnTypes
<1>2. CASE c = reqs[r].customer
  <2>1. customers'[c] = Earned(customers[c], reqs[r].seen, Bill(r), reqs[r].redeem)
        BY <1>2 DEF Earn
  <2> QED BY <1>0, <1>1, <1>2, <2>1, EarnedSpend
<1>3. CASE c # reqs[r].customer
  <2>1. customers'[c] \in {customers[c], Rewarded(customers[c])}
        BY <1>3 DEF Earn
  <2> QED BY <1>0, <1>3, <2>1 DEF Rewarded, Customer
<1> QED BY <1>2, <1>3

\* Once the orders show the earning of one more order o, the sum has its amount.
LEMMA EarnCounts ==
  ASSUME TypeOK, TypeOK', Named, SpendInv, NEW r \in Requests, Earn(r), NEW o \in Requests,
         \A p \in Requests \ {o} : orders'[p] = orders[p],
         orders'[o].amount = Bill(r),
         orders'[o].earners = orders[o].earners \cup {reqs[r].customer},
         NEW c \in Customers, Undoubted(c)', Undoubted(c), o \notin Paying(c)
  PROVE  customers'[c].spend = SumOf(Amount', Paying(c)')
<1>1. customers[c].spend = SumOf(Amount, Paying(c))
      BY DEF SpendInv, SpendCounts
<1>2. CASE c = reqs[r].customer
  <2>1. o \in Paying(c)'
        BY <1>2 DEF Paying
  <2>2. SumOf(Amount', Paying(c)') = SumOf(Amount, Paying(c)) + Bill(r)
        BY <2>1, SumStep
  <2>3. customers'[c].spend = customers[c].spend + Bill(r)
        BY <1>2, EarnRows DEF Undoubted
  <2> QED BY <1>1, <2>2, <2>3
<1>3. CASE c # reqs[r].customer
  <2>1. o \notin Paying(c)'
        BY <1>3 DEF Paying
  <2>2. SumOf(Amount', Paying(c)') = SumOf(Amount, Paying(c))
        BY <2>1, SumStep
  <2>3. customers'[c].spend = customers[c].spend
        BY <1>3, EarnRows
  <2> QED BY <1>1, <2>2, <2>3
<1> QED BY <1>2, <1>3

\* An order earns as it is committed, or by the one call that claims it; one claimed more
\* than once puts its customers in doubt.
LEMMA EarnKeepsSpend ==
  ASSUME TypeOK, TypeOK', Named, SpendInv, NEW r \in Requests, Earn(r) PROVE SpendInv'
<1>1. reqs[r].at = "earn" /\ End(r) /\ reqs[r].op \in {"order", "complete"}
      BY DEF Earn, Named, WellNamed, TypeOK, Request, Ops
<1>2. reqs[r].customer \in Customers /\ reqs[r].order \in Requests /\ reqs[r].amount \in Int
      BY EarnTypes DEF TypeOK, Request
<1>3. PICK o \in Requests : o = reqs[r].order
      BY <1>2
<1>4. CASE reqs[r].op = "order"
  <2>1. PICK earns \in BOOLEAN : earns = TRUE
        OBVIOUS
  <2>2. Placed(r, earns)
        BY <1>4, <2>1 DEF Earn
  <2>3. /\ \A p \in Requests \ {o} : orders'[p] = orders[p]
        /\ orders'[o].amount = Bill(r)
        /\ orders'[o].earners = orders[o].earners \cup (IF earns THEN {reqs[r].customer} ELSE {})
        /\ orders'[o].claims = (IF earns \/ orders[o].claims > 0 THEN orders[o].claims + 1 ELSE 0)
        BY <1>2, <1>3, <1>4, <2>2, PlacedOrder
  <2>4. OneClaim'
        BY <1>1, <2>1, <2>3, PlaceKeepsClaims DEF SpendInv
  <2>5. /\ orders'[o].earners = orders[o].earners \cup {reqs[r].customer}
        /\ orders'[o].claims = orders[o].claims + 1
        BY <2>1, <2>3
  <2>6. ASSUME NEW p \in Requests
        PROVE  orders[p].earners \subseteq orders'[p].earners /\ orders[p].claims <= orders'[p].claims
        BY <2>3, <2>5 DEF TypeOK, Order
  <2>7. ASSUME NEW c \in Customers, Undoubted(c)'
        PROVE  customers'[c].spend = SumOf(Amount', Paying(c)')
    <3>1. customers[c].why \subseteq customers'[c].why
          BY EarnRows
    <3>2. Undoubted(c)
          BY <2>6, <2>7, <3>1, DoubtStays
    <3>3. o \in Paying(c) => o \in Paying(c)'
          BY <2>5 DEF Paying
    <3>4. o \notin Paying(c)
          BY <2>5, <2>7, <3>3, NotYetPaid DEF SpendInv
    <3> QED BY <2>3, <2>5, <2>7, <3>2, <3>4, EarnCounts
  <2> QED BY <2>4, <2>7 DEF SpendInv, SpendCounts
<1>5. CASE reqs[r].op = "complete"
  <2>1. Completes(r)
        BY <1>1, <1>5 DEF Completes
  <2>2. /\ \A p \in Requests \ {o} : orders'[p] = orders[p]
        /\ orders'[o].amount = orders[o].amount
        /\ orders'[o].earners = orders[o].earners \cup {reqs[r].customer}
        /\ orders'[o].claims = orders[o].claims
        BY <1>2, <1>3, <1>5, EarnedOrder
  <2>3. orders[o].claims <= 1 =>
          /\ orders[o].claims = 1 /\ orders[o].earners = {} /\ reqs[r].amount = orders[o].amount
          /\ \A q \in Requests : Completes(q) /\ reqs[q].order = o => q = r
        BY <1>3, <2>1 DEF SpendInv, OneClaim, Claimed
  <2>4. Bill(r) = reqs[r].amount
        BY <1>2, <1>5 DEF Bill
  <2>5. ~Completes(r)' /\ \A p \in Requests : Fewer(p)
        BY <1>1, EndedCall
  <2>6. orders[o].claims \in Nat
        BY DEF TypeOK, Order
  <2>7. OneClaim'
    <3>1. ASSUME NEW p \in Requests, p # o PROVE Claimed(p)'
          BY <2>2, <2>5, <3>1, ClaimedStays DEF SpendInv
    <3>2. orders'[o].claims # 0
          BY <2>2, <2>3, <2>6
    <3>3. orders'[o].claims <= 1 => \A x \in Requests : ~(Completes(x)' /\ reqs'[x].order = o)
          BY <2>2, <2>3, <2>5 DEF Fewer
    <3>4. Claimed(o)'
          BY <3>2, <3>3 DEF Claimed
    <3> QED BY <3>1, <3>4 DEF OneClaim
  <2>8. ASSUME NEW p \in Requests
        PROVE  orders[p].earners \subseteq orders'[p].earners /\ orders[p].claims <= orders'[p].claims
        BY <2>2 DEF TypeOK, Order
  <2>9. ASSUME NEW c \in Customers, Undoubted(c)'
        PROVE  customers'[c].spend = SumOf(Amount', Paying(c)')
    <3>1. customers[c].why \subseteq customers'[c].why
          BY EarnRows
    <3>2. Undoubted(c)
          BY <2>8, <2>9, <3>1, DoubtStays
    <3>3. CASE orders[o].claims <= 1
      <4>1. o \notin Paying(c) /\ orders'[o].amount = Bill(r)
            BY <2>2, <2>3, <2>4, <3>3 DEF Paying
      <4> QED BY <2>2, <2>9, <3>2, <4>1, EarnCounts
    <3>4. CASE ~(orders[o].claims <= 1)
      <4>1. o \notin Paying(c)'
            BY <2>2, <2>9, <3>4 DEF Undoubted
      <4>2. c # reqs[r].customer
            BY <2>2, <4>1 DEF Paying
      <4>3. o \notin Paying(c)
            BY <2>2, <4>1 DEF Paying
      <4>4. SumOf(Amount', Paying(c)') = SumOf(Amount, Paying(c))
            BY <2>2, <4>1, <4>3, SumStep
      <4>5. customers'[c].spend = customers[c].spend
            BY <4>2, EarnRows
      <4> QED BY <3>2, <4>4, <4>5 DEF SpendInv, SpendCounts
    <3> QED BY <3>3, <3>4
  <2> QED BY <2>7, <2>9 DEF SpendInv, SpendCounts
<1> QED BY <1>1, <1>4, <1>5

\* COMPLETED claims the order once more; nothing has earned if it is the first time.
LEMMA MarkKeepsSpend ==
  ASSUME TypeOK, TypeOK', SpendInv, NEW r \in Requests, Mark(r) PROVE SpendInv'
<1>1. PICK o \in Requests, status \in Given, earns \in BOOLEAN, left \in Int :
         /\ orders' = [orders EXCEPT ![o] = Marked(o, status, left, earns)]
         /\ reqs' = [reqs EXCEPT ![r] = IF earns THEN Earning(o) ELSE [Idle EXCEPT !.at = "done"]]
      BY OrderMarked
<1>2. reqs[r].at = "idle" /\ customers' = customers
      BY DEF Mark, InTurn, Started
<1>3. orders'[o] = Marked(o, status, left, earns) /\ \A p \in Requests \ {o} : orders'[p] = orders[p]
      BY <1>1 DEF TypeOK
<1>4. /\ orders'[o].amount = orders[o].amount /\ orders'[o].earners = orders[o].earners
      /\ orders'[o].claims = (IF earns THEN orders[o].claims + 1 ELSE orders[o].claims)
      BY <1>3, MarkedFields
<1>5. \A x \in Requests \ {r} : reqs'[x] = reqs[x]
      BY <1>1 DEF TypeOK
<1>6. /\ earns => reqs'[r] = Earning(o)
      /\ ~earns => reqs'[r] = [Idle EXCEPT !.at = "done"]
      BY <1>1 DEF TypeOK
<1>7. /\ Completes(r)' => earns
      /\ earns => reqs'[r].order = o /\ reqs'[r].amount = orders[o].amount
      /\ ~Completes(r)
  <2>1. ~earns => ~Completes(r)'
        BY <1>6 DEF Completes, Idle
  <2>2. earns => reqs'[r].order = o /\ reqs'[r].amount = orders[o].amount
        BY <1>6, EarningFields
  <2> QED BY <1>2, <2>1, <2>2 DEF Completes
<1>8. \A p \in Requests : p # o \/ ~earns => Fewer(p)
      BY <1>5, <1>7 DEF Fewer, Completes
<1>9. OneClaim'
  <2>1. ASSUME NEW p \in Requests, p # o \/ ~earns PROVE Claimed(p)'
        BY <1>3, <1>4, <1>8, <2>1, ClaimedStays DEF SpendInv
  <2>2. ASSUME earns PROVE Claimed(o)'
    <3>1. orders[o].claims \in Nat /\ orders'[o].claims = orders[o].claims + 1
          BY <1>4, <2>2 DEF TypeOK, Order
    <3>2. CASE orders[o].claims = 0
      <4>1. orders'[o].claims = 1 /\ orders'[o].earners = {}
            BY <1>4, <3>1, <3>2 DEF SpendInv, OneClaim, Claimed
      <4>2. \A x \in Requests : ~(Completes(x) /\ reqs[x].order = o)
            BY <3>2 DEF SpendInv, OneClaim, Claimed
      <4>3. \A x \in Requests : Completes(x)' /\ reqs'[x].order = o => x = r
            BY <1>5, <4>2 DEF Completes
      <4>4. reqs'[r].amount = orders'[o].amount
            BY <1>4, <1>7, <2>2
      <4> QED BY <4>1, <4>3, <4>4 DEF Claimed
    <3>3. CASE orders[o].claims # 0
      <4>1. orders'[o].claims # 0 /\ ~(orders'[o].claims <= 1)
            BY <3>1, <3>3
      <4> QED BY <4>1 DEF Claimed
    <3> QED BY <3>2, <3>3
  <2> QED BY <2>1, <2>2 DEF OneClaim
<1>10. \A p \in Requests : /\ orders'[p].earners = orders[p].earners
                           /\ orders'[p].amount = orders[p].amount
                           /\ orders[p].claims <= orders'[p].claims
       BY <1>3, <1>4 DEF TypeOK, Order
<1>11. SpendCounts'
       BY <1>2, <1>10, SumStays DEF SpendInv
<1> QED BY <1>9, <1>11 DEF SpendInv

\* So every step keeps the invariant.
LEMMA SpendStep ==
  ASSUME TypeOK, TypeOK', Named, SpendInv, [Next]_vars PROVE SpendInv'
<1>1. QuietStep \/ \E r \in Requests : Commit(r) \/ Earn(r) \/ Mark(r)
      BY QuietSteps
<1> QED BY <1>1, QuietKeepsSpend, CommitKeepsSpend, EarnKeepsSpend, MarkKeepsSpend

\* The difference of the two counts is the sum the property speaks of.
LEMMA CountedSpend == ASSUME TypeOK, SpendCounts PROVE SpendIsOrders
<1>1. ASSUME NEW c \in Customers
      PROVE  MapThenSumSet(LAMBDA o : orders[o].amount, Paying(c)) = SumOf(Amount, Paying(c))
  <2>1. IsFiniteSet(Paying(c))
        BY RequestsFinite, FS_Subset DEF Paying
  <2>2. \A o \in Paying(c) : orders[o].amount \in Int
        BY DEF Paying, TypeOK, Order
  <2> DEFINE f == [o \in Paying(c) |-> orders[o].amount]
  <2>3. MapThenSumSet(LAMBDA o : orders[o].amount, Paying(c)) = SumOf(f, Paying(c))
        BY <2>1, <2>2, SumIsSum
  <2>4. \A o \in Paying(c) : f[o] = Amount[o]
        BY DEF Amount, Paying
  <2> HIDE DEF f
  <2>5. SumOf(f, Paying(c)) = SumOf(Amount, Paying(c))
        BY <2>4, SumSame
  <2> QED BY <2>3, <2>5
<1> QED BY <1>1 DEF SpendIsOrders, SpendCounts, Undoubted

\* What a customer spent is the sum of the orders that earned for it, each as it stands and
\* of either sign, unless two earnings overlapped, or such an order was completed again or
\* added to after it earned: processLoyaltyForOrder writes the spend it had read plus the
\* whole total, however calls interleave, fail or are repeated.
THEOREM SpendCorrect == Spec => []SpendIsOrders
<1>1. TypeOK /\ TypeOK' /\ Named /\ SpendInv /\ [Next]_vars => SpendInv'
      BY SpendStep
<1>2. TypeOK /\ SpendInv => SpendIsOrders
      BY CountedSpend DEF SpendInv
<1> QED BY <1>1, <1>2, SpendInit, NamedCorrect, PTL DEF Spec
=============================================================================
