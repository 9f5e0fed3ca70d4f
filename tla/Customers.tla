------------------------------ MODULE Customers ------------------------------
(***************************************************************************)
(* Loyalty points, spend, tiers and referrals: CrmService, and the parts of *)
(* OrderService.createDirect and updateStatus that reach a Customer row.    *)
(*                                                                         *)
(* A Customer is always read on a connection of its own (the client         *)
(* extension turns findUnique into a query of the plain client), so a call  *)
(* reads what is committed, even inside its transaction.  A transaction     *)
(* locks the rows it writes and its writes are seen once it commits; the    *)
(* model applies them at the commit.                                       *)
(*                                                                         *)
(* An order to which createDirect may append is the newest open one of its  *)
(* table; here every order has a table of its own, so it may be any open    *)
(* one.  A total may be negative: cashback is taken off without a floor.    *)
(***************************************************************************)
EXTENDS Integers, FiniteSets, FiniteSetsExt

CONSTANTS
  Customers,
  NoCustomer,
  Referrer,        \* Referrer[c]: who brought c, or NoCustomer
  FirstPoints,     \* the points a customer starts with
  MaxRequests,     \* bound: calls
  Carts,           \* what a call adds to an order: its total less the cashback, and
                   \* the points it redeems, 0 for none
  Asked,           \* statuses a caller gives a new order
  Adjustments,     \* points entered by hand
  ReferrerReward,  \* MarketingCampaignRule, with referralActive
  FriendReward

\* OPEN: PENDING, PREPARING, READY or HELD, to which createDirect may append.
\* OTHER: any other status but COMPLETED.
Given == {"OPEN", "OTHER", "COMPLETED"}

ASSUME CustomersAssumption ==
  /\ NoCustomer \notin Customers
  /\ Referrer \in [Customers -> Customers \cup {NoCustomer}]
  /\ \A c \in Customers : Referrer[c] # c
  /\ FirstPoints \in Nat
  /\ MaxRequests \in Nat
  /\ Carts \subseteq [total: Int, redeem: Nat]
  /\ Asked \subseteq Given
  /\ Adjustments \subseteq Nat
  /\ ReferrerReward \in Nat /\ FriendReward \in Nat

Requests == 1 .. MaxRequests   \* in the order they arrive

VARIABLES
  customers,  \* Customer, its CustomerLoyalty rows summed up, and history
  orders,     \* orders[r]: the Order that call r created
  reqs        \* the calls

vars == <<customers, orders, reqs>>

Tiers    == {"BRONZE", "SILVER", "GOLD"}
Ops      == {"order", "complete", "adjust"}
Steps    == {"idle", "append", "points", "take", "read", "earn", "write", "commit", "done"}
Causes   == {"points", "redeemed", "spend", "referral", "negative"}

Statuses == {"none"} \cup Given

Customer == [points: Int, spend: Int, tier: Tiers, referred: BOOLEAN,
             ledger: Int,         \* history: points given less points taken
             rewards: Nat,        \* history: how often it earned the referral rewards
             why: SUBSET Causes]  \* history: what a call had read before another changed it,
                                  \* or that it earned less than nothing

Order == [status: Statuses, customer: Customers \cup {NoCustomer},
          amount: Int,   \* totalAmount
          due: Int,      \* totalAmount - paidAmount
          earners: SUBSET Customers,  \* history: who earned points by it
          claims: Nat]   \* history: calls that set out to earn, or added to it afterwards
NoOrder == [status |-> "none", customer |-> NoCustomer, amount |-> 0, due |-> 0,
            earners |-> {}, claims |-> 0]

\* What a call has read of its customer: visits counts the completed orders.
Seen    == [points: Int, spend: Int, tier: Tiers, referred: BOOLEAN, visits: Nat]
Nothing == [points |-> 0, spend |-> 0, tier |-> "BRONZE", referred |-> FALSE, visits |-> 0]

Request == [op: Ops, at: Steps, customer: Customers \cup {NoCustomer},
            order: {0} \cup Requests, amount: Int, redeem: Nat,
            due: Int,                \* the part of amount it does not pay
            status: Statuses,        \* the status it will write
            change: Int,             \* points entered by hand, signed
            seen: Seen,
            locks: BOOLEAN]          \* it has written its customer's row
Idle == [op |-> "order", at |-> "idle", customer |-> NoCustomer, order |-> 0, amount |-> 0,
         redeem |-> 0, due |-> 0, status |-> "none", change |-> 0, seen |-> Nothing,
         locks |-> FALSE]

Init ==
  /\ customers = [c \in Customers |->
       [points |-> FirstPoints, spend |-> 0, tier |-> "BRONZE", referred |-> Referrer[c] # NoCustomer,
        ledger |-> FirstPoints, rewards |-> 0, why |-> {}]]
  /\ orders = [r \in Requests |-> NoOrder]
  /\ reqs = [r \in Requests |-> Idle]

-----------------------------------------------------------------------------
(* Helpers.                                                                *)

\* Mistaken: below the first threshold there is no tier.
TierOfNone(spend) == IF spend >= 5000 THEN "GOLD" ELSE IF spend >= 1000 THEN "SILVER" ELSE "NONE"

\* The thresholds and the multipliers of processLoyaltyForOrder, at an earning ratio of 1.
TierOf(spend) == IF spend >= 5000 THEN "GOLD" ELSE IF spend >= 1000 THEN "SILVER" ELSE "BRONZE"

PointsFor(amount, tier) ==
  CASE tier = "GOLD"   -> amount * 2
    [] tier = "SILVER" -> (amount * 3) \div 2
    [] OTHER           -> amount

Goto(r, step) == reqs' = [reqs EXCEPT ![r].at = step]
End(r)        == reqs' = [reqs EXCEPT ![r] = [Idle EXCEPT !.at = "done"]]

\* No other transaction has the row of customer c, or of order o.
Free(r, c)     == \A q \in Requests \ {r} : ~(reqs[q].locks /\ reqs[q].customer = c)
Unlocked(r, o) == \A q \in Requests \ {r} :
  ~(reqs[q].op = "order" /\ reqs[q].order = o /\ reqs[q].at \notin {"idle", "append", "done"})

Visits(c) == Cardinality({o \in Requests : orders[o].customer = c /\ orders[o].status = "COMPLETED"})

Snapshot(c) == [points |-> customers[c].points, spend |-> customers[c].spend,
                tier |-> customers[c].tier, referred |-> customers[c].referred, visits |-> Visits(c)]

Started(r) == reqs[r].at # "idle"
InTurn(r)  == ~Started(r) /\ \A q \in 1 .. r - 1 : Started(q)

-----------------------------------------------------------------------------
(* createDirect.                                                           *)

\* With the order and the stock: points to redeem come next, then points to earn if the
\* order is fully paid, both only for a customer the caller names.
Onward(c, redeem, due) ==
  IF redeem > 0 THEN "points" ELSE IF c # NoCustomer /\ due <= 0 THEN "read" ELSE "commit"

\* The call of customer c to add the cart to order o; of its total, `due` stays unpaid.
Call(c, o, cart, due, status, step) ==
  [Idle EXCEPT !.op = "order", !.customer = c, !.order = o, !.amount = cart.total,
               !.redeem = cart.redeem, !.due = due, !.status = status, !.at = step]

\* A new order.  A pre-order is SCHEDULED, the caller may name a status, and without one
\* it is COMPLETED if fully paid and PENDING if not.
BeginOrder(r) ==
  /\ InTurn(r)
  /\ \E c \in Customers \cup {NoCustomer}, cart \in Carts : \E due \in {0, cart.total} :
       \E status \in Asked \cup {IF due <= 0 THEN "COMPLETED" ELSE "OPEN"} :
         /\ c = NoCustomer => cart.redeem = 0
         /\ reqs' = [reqs EXCEPT ![r] =
              Call(c, r, cart, due, status, Onward(c, cart.redeem, due))]
  /\ UNCHANGED <<customers, orders>>

\* The cart goes to an open order, of which nothing or all that is due is paid: what is
\* read now says whether that completes it.
BeginAppend(r) ==
  /\ InTurn(r)
  /\ \E c \in Customers \cup {NoCustomer}, cart \in Carts, o \in Requests :
       \E due \in {cart.total, -orders[o].due} :
         /\ c = NoCustomer => cart.redeem = 0
         /\ orders[o].status = "OPEN"
         /\ reqs' = [reqs EXCEPT ![r] = Call(c, o, cart, due,
               IF orders[o].due + due <= 0 THEN "COMPLETED" ELSE "OPEN", "append")]
  /\ UNCHANGED <<customers, orders>>

\* What the order then comes to, and what of it is unpaid.
Bill(r) == reqs[r].amount + (IF reqs[r].op = "order" THEN orders[reqs[r].order].amount ELSE 0)
Due(r)  == reqs[r].due + orders[reqs[r].order].due

\* The update waits for the order's row, and keeps it.
Append(r) ==
  /\ reqs[r].at = "append" /\ Unlocked(r, reqs[r].order)
  /\ Goto(r, Onward(reqs[r].customer, reqs[r].redeem, Due(r)))
  /\ UNCHANGED <<customers, orders>>

\* Mistaken: any customer may redeem.
ReadPointsUnchecked(r) ==
  /\ reqs[r].at = "points"
  /\ reqs' = [reqs EXCEPT ![r].at = "take", ![r].seen = Snapshot(reqs[r].customer)]
  /\ UNCHANGED <<customers, orders>>

\* The balance is tested before the row is locked; too few points undo the order.
ReadPoints(r) ==
  /\ reqs[r].at = "points"
  /\ IF customers[reqs[r].customer].points < reqs[r].redeem
       THEN End(r)
       ELSE reqs' = [reqs EXCEPT ![r].at = "take", ![r].seen = Snapshot(reqs[r].customer)]
  /\ UNCHANGED <<customers, orders>>

\* The decrement waits for the row, and keeps it.
Take(r) ==
  /\ reqs[r].at = "take" /\ Free(r, reqs[r].customer)
  /\ reqs' = [reqs EXCEPT ![r].at = Onward(reqs[r].customer, 0, Due(r)), ![r].locks = TRUE]
  /\ LET now == customers[reqs[r].customer].points
     IN customers' = IF now >= reqs[r].redeem \/ now = reqs[r].seen.points THEN customers
                       ELSE [customers EXCEPT ![reqs[r].customer].why = @ \cup {"redeemed"}]
  /\ UNCHANGED orders

\* The order once the call commits: new, or the old one and what is added to it.
Placed(r, earns) ==
  LET q == reqs[r]
  IN orders' = [orders EXCEPT ![q.order] =
       [status |-> q.status,
        customer |-> IF q.customer = NoCustomer THEN @.customer ELSE q.customer,
        amount |-> Bill(r), due |-> Due(r),
        earners |-> @.earners \cup (IF earns THEN {q.customer} ELSE {}),
        claims |-> IF earns \/ @.claims > 0 THEN @.claims + 1 ELSE 0]]

Redeemed(w, redeem) == [w EXCEPT !.points = @ - redeem, !.ledger = @ - redeem]

\* Nothing to earn: the redemption, if any, and the order are committed.
Commit(r) ==
  /\ reqs[r].at = "commit"
  /\ customers' = [c \in Customers |->
       IF c = reqs[r].customer THEN Redeemed(customers[c], reqs[r].redeem) ELSE customers[c]]
  /\ Placed(r, FALSE)
  /\ End(r)

-----------------------------------------------------------------------------
(* processLoyaltyForOrder.                                                 *)

\* getCustomerById.
ReadCustomer(r) ==
  /\ reqs[r].at = "read"
  /\ reqs' = [reqs EXCEPT ![r].at = IF reqs[r].op = "adjust" THEN "write" ELSE "earn",
                          ![r].seen = Snapshot(reqs[r].customer)]
  /\ UNCHANGED <<customers, orders>>

\* The first completed order of a customer somebody brought.
Referral(s) == s.referred /\ s.visits = 0

\* The history of a row w that had been read as s, after it earned `base` for the order.
Reasons(w, s, base) ==
  w.why \cup (IF w.spend # s.spend THEN {"spend"} ELSE {})
        \cup (IF Referral(s) /\ ~w.referred THEN {"referral"} ELSE {})
        \cup (IF base < 0 THEN {"negative"} ELSE {})

Bonus(s)     == IF Referral(s) THEN FriendReward ELSE 0
Logged(base) == IF base > 0 THEN base ELSE 0

\* Mistaken: the points are set to what was read and earned, too.
EarnedSetsPoints(w, s, amount, redeem) ==
  LET base == PointsFor(amount, s.tier)
  IN [w EXCEPT !.points = s.points - redeem + base + Bonus(s),
               !.ledger = @ - redeem + Logged(base) + Bonus(s),
               !.spend = s.spend + amount, !.tier = TierOf(s.spend + amount),
               !.referred = IF Referral(s) THEN FALSE ELSE @,
               !.rewards = IF Referral(s) THEN @ + 1 ELSE @,
               !.why = Reasons(w, s, base)]

\* Mistaken: the link to the referrer stays.
EarnedKeepsLink(w, s, amount, redeem) ==
  LET base == PointsFor(amount, s.tier)
  IN [w EXCEPT !.points = @ - redeem + base + Bonus(s),
               !.ledger = @ - redeem + Logged(base) + Bonus(s),
               !.spend = s.spend + amount, !.tier = TierOf(s.spend + amount),
               !.rewards = IF Referral(s) THEN @ + 1 ELSE @,
               !.why = Reasons(w, s, base)]

\* Row w after an order of `amount` that had read s: points move by what is earned and
\* redeemed, a loyalty row says so only if more than nothing is earned, and spend and tier
\* become what the reading says.
Earned(w, s, amount, redeem) ==
  LET base == PointsFor(amount, s.tier)
  IN [w EXCEPT !.points = @ - redeem + base + Bonus(s),
               !.ledger = @ - redeem + Logged(base) + Bonus(s),
               !.spend = s.spend + amount, !.tier = TierOf(s.spend + amount),
               !.referred = IF Referral(s) THEN FALSE ELSE @,
               !.rewards = IF Referral(s) THEN @ + 1 ELSE @,
               !.why = Reasons(w, s, base)]

Rewarded(w) == [w EXCEPT !.points = @ + ReferrerReward, !.ledger = @ + ReferrerReward]

\* The update, the referral and the commit of the transaction they run in: createDirect's,
\* with the order, which earns by all it comes to, or one of their own.
Earn(r) ==
  LET q == reqs[r]
      c == q.customer
      s == q.seen
  IN /\ q.at = "earn" /\ Free(r, c)
     /\ Referral(s) => Free(r, Referrer[c])
     /\ customers' = [x \in Customers |->
          CASE x = c                               -> Earned(customers[c], s, Bill(r), q.redeem)
            [] Referral(s) /\ x = Referrer[c] /\ x # c -> Rewarded(customers[x])
            [] OTHER                               -> customers[x]]
     /\ IF q.op = "order" THEN Placed(r, TRUE)
          ELSE orders' = [orders EXCEPT ![q.order].earners = @ \cup {c}]
     /\ End(r)

-----------------------------------------------------------------------------
(* updateStatus, and adjustments.                                          *)

\* Order o with its status written; to complete it settles what is due, in whole or in part.
Marked(o, status, left, earns) ==
  [orders[o] EXCEPT !.status = status, !.due = left, !.claims = IF earns THEN @ + 1 ELSE @]

Settled(status, due) == IF status = "COMPLETED" /\ due > 0 THEN {0, due} ELSE {due}

Earning(o) == [Idle EXCEPT !.op = "complete", !.at = "read", !.customer = orders[o].customer,
                           !.order = o, !.amount = orders[o].amount]

\* Mistaken: every change of status earns.
MarkEarnsAnyway(r) ==
  /\ InTurn(r)
  /\ \E o \in Requests, status \in Given :
       LET named == orders[o].customer # NoCustomer
           earns == status = "COMPLETED" /\ named
       IN /\ orders[o].status # "none" /\ Unlocked(r, o)
          /\ \E left \in Settled(status, orders[o].due) :
               orders' = [orders EXCEPT ![o] = Marked(o, status, left, earns)]
          /\ reqs' = [reqs EXCEPT ![r] = IF named THEN Earning(o) ELSE [Idle EXCEPT !.at = "done"]]
  /\ UNCHANGED customers

\* The status is written whatever it was; COMPLETED then earns, once more if it was, for
\* the customer of the order.
Mark(r) ==
  /\ InTurn(r)
  /\ \E o \in Requests, status \in Given :
       LET earns == status = "COMPLETED" /\ orders[o].customer # NoCustomer
       IN /\ orders[o].status # "none" /\ Unlocked(r, o)
          /\ \E left \in Settled(status, orders[o].due) :
               orders' = [orders EXCEPT ![o] = Marked(o, status, left, earns)]
          /\ reqs' = [reqs EXCEPT ![r] = IF earns THEN Earning(o) ELSE [Idle EXCEPT !.at = "done"]]
  /\ UNCHANGED customers

\* addLoyaltyTransaction.
BeginAdjust(r) ==
  /\ InTurn(r)
  /\ \E c \in Customers, n \in Adjustments, sign \in {1, -1} :
       reqs' = [reqs EXCEPT ![r] = [Idle EXCEPT
                  !.op = "adjust", !.at = "read", !.customer = c, !.change = sign * n]]
  /\ UNCHANGED <<customers, orders>>

\* The new balance comes from the reading, and replaces what is there.
Adjust(r) ==
  LET c   == reqs[r].customer
      new == reqs[r].seen.points + reqs[r].change
  IN /\ reqs[r].at = "write" /\ Free(r, c)
     /\ IF new < 0
          THEN UNCHANGED customers
          ELSE customers' = [customers EXCEPT
                 ![c].points = new, ![c].ledger = @ + reqs[r].change,
                 ![c].why = IF customers[c].points # reqs[r].seen.points THEN @ \cup {"points"} ELSE @]
     /\ End(r)
     /\ UNCHANGED orders

\* The database or the process fails: a transaction leaves nothing, but a status that was
\* written stays, its points unearned.
Fail(r) ==
  /\ reqs[r].at \notin {"idle", "done"}
  /\ End(r)
  /\ UNCHANGED <<customers, orders>>

Next ==
  \E r \in Requests :
    \/ BeginOrder(r) \/ BeginAppend(r) \/ Append(r) \/ ReadPoints(r) \/ Take(r) \/ Commit(r)
    \/ ReadCustomer(r) \/ Earn(r)
    \/ Mark(r) \/ BeginAdjust(r) \/ Adjust(r)
    \/ Fail(r)

Spec == Init /\ [][Next]_vars

-----------------------------------------------------------------------------
(* Properties.                                                             *)

TypeOK ==
  /\ customers \in [Customers -> Customer]
  /\ orders \in [Requests -> Order]
  /\ reqs \in [Requests -> Request]

\* A balance is what the loyalty rows add up to, unless an adjustment by hand replaced a
\* balance that had changed since it was read, or an order with a negative total took
\* points by earning them, of which no row tells.
PointsExplained ==
  \A c \in Customers :
    customers[c].why \cap {"points", "negative"} = {} => customers[c].points = customers[c].ledger

\* A balance falls below zero only if an order redeems points that were gone since it
\* tested them, by such an adjustment, or by such an order.
NoOverdraft ==
  \A c \in Customers :
    customers[c].why \cap {"points", "redeemed", "negative"} = {} => customers[c].points >= 0

\* What a customer spent is the sum of the orders that earned for it, each as it stands and
\* once, unless two earnings overlapped, or such an order was completed again or added to
\* after it earned (createDirect then earns by the whole of it once more).
Paying(c) == {o \in Requests : c \in orders[o].earners}

SpendIsOrders ==
  \A c \in Customers :
    /\ "spend" \notin customers[c].why
    /\ \A o \in Paying(c) : orders[o].claims <= 1
    => customers[c].spend = MapThenSumSet(LAMBDA o : orders[o].amount, Paying(c))

\* A referral is rewarded once, unless two first orders overlapped.
ReferralOnce ==
  \A c \in Customers : "referral" \notin customers[c].why => customers[c].rewards <= 1
=============================================================================
