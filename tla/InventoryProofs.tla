---------------------------- MODULE InventoryProofs ----------------------------
(***************************************************************************)
(* Proofs about Inventory for any bins, documents, carts and calls.  Level  *)
(* and movements of a bin agree because every call writes the same change   *)
(* to both, or says why not; a stocktake may say nothing only while the     *)
(* level it read is still there.                                           *)
(***************************************************************************)
EXTENDS Inventory, SequenceTheorems, TLAPS

-----------------------------------------------------------------------------
(* Types.                                                                  *)

Whys == SUBSET {"set", "created", "raced"}

\* What a transaction wrote: the same change to level and movements, or a reason.
Paired(e) ==
  /\ e \in [Bins -> Effect]
  /\ \A b \in Bins : e[b].why = {} => e[b].change = e[b].log

\* A call at work has a bin to work on, and its document.
Good(q) ==
  /\ q \in Request
  /\ q.at \in {"read", "write", "level", "log"} => q.todo # << >>
  /\ q.at \notin Ended /\ q.op = "transfer" => q.doc \in Transfers /\ q.new \in TransferStatuses
  /\ q.at \notin Ended /\ q.op = "purchase" => q.doc \in Purchases /\ q.new \in PurchaseStatuses
  /\ q.at = "read" => q.op \in {"adjust", "stocktake"}
  /\ q.at = "mark" => q.op = "transfer"
  /\ q.at \in {"fetch", "level", "log", "status"} => q.op = "purchase"
  /\ Paired(q.effect)

\* A stocktake whose reading is not marked stale has read what is there.
Fresh(q, R) ==
  q.op = "stocktake" /\ q.at = "write" /\ ~q.stale => q.seen = R[Head(q.todo)].level

CallsGood == \A r \in Requests : Good(reqs[r]) /\ Fresh(reqs[r], rows)

LEMMA BinType == ASSUME NEW q, Good(q), q.todo # << >>
                 PROVE  Head(q.todo) \in Bins /\ Tail(q.todo) \in Seq(Bins)
BY HeadTailProperties DEF Good, Request

LEMMA IdleGood == Good(Idle) /\ Good([Idle EXCEPT !.at = "done"])
<1>1. << >> \in Seq(Bins)
      OBVIOUS
<1>2. [b \in Bins |-> NoEffect] \in [Bins -> Effect]
      BY DEF NoEffect, Effect
<1>3. Paired([b \in Bins |-> NoEffect])
      BY <1>2 DEF Paired, NoEffect
<1> DEFINE e == [b \in Bins |-> NoEffect]
           i == [op |-> "sale", at |-> "idle", doc |-> "none", new |-> "PENDING", kind |-> "ADD",
                 qty |-> 0, todo |-> << >>, seen |-> 0, found |-> FALSE, stale |-> FALSE,
                 held |-> {}, effect |-> e]
<1>4. Idle = i
      BY DEF Idle
<1>5. e \in [Bins -> Effect] /\ Paired(e)
      BY <1>2, <1>3
<1> HIDE DEF e
<1>6. i \in Request /\ [i EXCEPT !.at = "done"] \in Request
  <2>1. "PENDING" \in TransferStatuses \cup PurchaseStatuses /\ "ADD" \in Kinds /\ "sale" \in Ops
        /\ "idle" \in Steps /\ "done" \in Steps
        BY DEF TransferStatuses, Kinds, Ops, Steps
  <2>2. i \in Request
        BY <1>1, <1>5, <2>1 DEF Request
  <2> HIDE DEF i
  <2> QED BY <2>1, <2>2 DEF Request
<1>7. Good(i) /\ Good([i EXCEPT !.at = "done"])
      BY <1>5, <1>6 DEF Good, Ended
<1> QED BY <1>4, <1>7

LEMMA InitGood == Init => TypeOK /\ CallsGood
<1> SUFFICES ASSUME Init PROVE TypeOK /\ CallsGood
    OBVIOUS
<1>1. rows \in [Bins -> Row]
      BY DEF Init, Row
<1>2. transfers \in [Transfers -> Transfer]
      BY DEF Init, Transfer, TransferStatuses
<1>3. purchases \in [Purchases -> Purchase]
      BY DEF Init, Purchase, PurchaseStatuses
<1>4. \A r \in Requests : reqs[r] = Idle
      BY DEF Init
<1>5. Fresh(Idle, rows) /\ Idle \in Request
      BY IdleGood DEF Fresh, Idle, Good
<1>6. reqs \in [Requests -> Request]
      BY <1>5 DEF Init
<1> QED BY <1>1, <1>2, <1>3, <1>4, <1>5, <1>6, IdleGood DEF TypeOK, CallsGood

\* One call goes on as v and no level changes.
LEMMA PutGood ==
  ASSUME TypeOK, CallsGood, NEW r \in Requests, NEW v, reqs' = [reqs EXCEPT ![r] = v],
         Good(v), Fresh(v, rows), \A b \in Bins : rows'[b].level = rows[b].level
  PROVE  reqs' \in [Requests -> Request] /\ CallsGood'
<1>1. v \in Request
      BY DEF Good
<1>2. reqs' \in [Requests -> Request]
      BY <1>1 DEF TypeOK
<1>3. \A x \in Requests : Good(reqs'[x]) /\ Fresh(reqs'[x], rows)
      BY DEF TypeOK, CallsGood
<1>4. ASSUME NEW q, Good(q), Fresh(q, rows) PROVE Fresh(q, rows')
  <2>1. q.at = "write" => Head(q.todo) \in Bins
        BY <1>4, BinType DEF Good
  <2> QED BY <1>4, <2>1 DEF Fresh
<1> QED BY <1>2, <1>3, <1>4 DEF CallsGood

\* One call goes on as v; the levels of the bins in B may change, and who counts one of
\* them is marked.
LEMMA AfterGood ==
  ASSUME TypeOK, CallsGood, NEW r \in Requests, NEW v, NEW B, After(r, v, B),
         Good(v), v.at # "write", \A b \in Bins \ B : rows'[b].level = rows[b].level
  PROVE  reqs' \in [Requests -> Request] /\ CallsGood'
<1>1. ASSUME NEW x \in Requests PROVE Good(reqs'[x]) /\ Fresh(reqs'[x], rows')
  <2>1. CASE x = r
        BY <2>1 DEF After, Fresh
  <2>2. CASE x # r /\ \E b \in B : Counting(x, b)
    <3>1. reqs'[x] = [reqs[x] EXCEPT !.stale = TRUE]
          BY <2>2 DEF After
    <3>2. Good(reqs[x])
          BY DEF CallsGood
    <3>3. reqs'[x].stale /\ Good(reqs'[x])
          BY <3>1, <3>2 DEF Good, Request
    <3> QED BY <3>3 DEF Fresh
  <2>3. CASE x # r /\ ~ \E b \in B : Counting(x, b)
    <3>1. reqs'[x] = reqs[x]
          BY <2>3 DEF After
    <3>2. Good(reqs[x]) /\ Fresh(reqs[x], rows)
          BY DEF CallsGood
    <3>3. reqs[x].op = "stocktake" /\ reqs[x].at = "write" =>
            Head(reqs[x].todo) \in Bins /\ Head(reqs[x].todo) \notin B
          BY <2>3, <3>2, BinType DEF Counting, Bin, Good
    <3> QED BY <3>1, <3>2, <3>3 DEF Fresh
  <2> QED BY <2>1, <2>2, <2>3
<1>2. \A x \in Requests : reqs'[x] \in Request
      BY <1>1 DEF Good
<1>3. reqs' \in [Requests -> Request]
      BY <1>2 DEF After
<1> QED BY <1>1, <1>3 DEF CallsGood

-----------------------------------------------------------------------------
(* A transaction goes on, or commits.                                      *)

Kept == TypeOK' /\ CallsGood' /\ LevelExplained'

\* What a commit makes of a bin's row.
CommittedRow(w, e) == [w EXCEPT !.on = TRUE, !.level = @ + e.change, !.moved = @ + e.log,
                                !.why = @ \cup e.why]

LEMMA CommittedRowGood ==
  ASSUME NEW w \in Row, NEW e \in Effect, e.why = {} => e.change = e.log,
         w.why = {} => w.level = w.moved + w.owed
  PROVE  /\ CommittedRow(w, e) \in Row
         /\ CommittedRow(w, e).why = {} =>
              CommittedRow(w, e).level = CommittedRow(w, e).moved + CommittedRow(w, e).owed
<1>1. w.level + e.change \in Int /\ w.moved + e.log \in Int /\ w.why \cup e.why \in Whys
      BY DEF Row, Effect, Whys
<1>2. CommittedRow(w, e) \in Row
      BY <1>1 DEF CommittedRow, Row, Whys
<1>3. /\ CommittedRow(w, e).level = w.level + e.change
      /\ CommittedRow(w, e).moved = w.moved + e.log
      /\ CommittedRow(w, e).owed = w.owed
      /\ CommittedRow(w, e).why = w.why \cup e.why
      BY DEF CommittedRow, Row
<1>4. /\ w.level \in Int /\ w.moved \in Int /\ w.owed \in Int /\ e.change \in Int /\ e.log \in Int
      BY DEF Row, Effect
<1>5. CASE w.why = {} /\ e.why = {}
      BY <1>2, <1>3, <1>4, <1>5
<1>6. CASE ~(w.why = {} /\ e.why = {})
  <2>1. w.why \cup e.why # {}
        BY <1>6
  <2> QED BY <1>2, <1>3, <2>1
<1> QED BY <1>5, <1>6

LEMMA ProceedGood ==
  ASSUME TypeOK, CallsGood, LevelExplained, NEW r \in Requests, reqs[r].at = "write",
         reqs[r].op # "purchase", NEW held \in SUBSET Bins, NEW e, Paired(e),
         Proceed(r, held, e), UNCHANGED purchases
  PROVE  Kept
<1> DEFINE q    == reqs[r]
           rest == Tail(q.todo)
           next == [q EXCEPT !.todo = rest, !.held = held, !.effect = e]
           step == IF q.op = "stocktake" THEN "read" ELSE "write"
<1>1. Good(q) /\ q \in Request /\ rest \in Seq(Bins) /\ e \in [Bins -> Effect]
      BY BinType DEF CallsGood, Good, Paired
<1>2. CASE rest # << >>
  <2> DEFINE v == [next EXCEPT !.at = step]
  <2>1. reqs' = [reqs EXCEPT ![r] = v] /\ UNCHANGED <<rows, transfers>>
        BY <1>2 DEF Proceed, Goto
  <2>2. step \in Steps
        BY DEF Steps
  <2>3. /\ v \in Request /\ v.todo = rest /\ v.effect = e /\ v.at = step /\ v.op = q.op
        /\ v.doc = q.doc /\ v.new = q.new
        BY <1>1, <2>2 DEF Request
  <2> HIDE DEF v
  <2>4. Good(v)
        BY <1>1, <1>2, <2>3 DEF Good, Ended
  <2>5. Fresh(v, rows)
        BY <2>3 DEF Fresh
  <2>6. reqs' \in [Requests -> Request] /\ CallsGood'
        BY <2>1, <2>4, <2>5, PutGood
  <2> QED BY <2>1, <2>6 DEF Kept, TypeOK, LevelExplained
<1>3. CASE rest = << >>
  <2>1. /\ rows' = [b \in Bins |-> IF b \notin held THEN rows[b] ELSE CommittedRow(rows[b], e[b])]
        /\ transfers' = IF q.op = "transfer"
                           THEN [transfers EXCEPT ![q.doc].moves = @ + 1] ELSE transfers
        /\ After(r, [Idle EXCEPT !.at = "done"], held)
        BY <1>3 DEF Proceed, Committed, CommittedRow
  <2>2. \A b \in Bins : /\ CommittedRow(rows[b], e[b]) \in Row
                        /\ CommittedRow(rows[b], e[b]).why = {} =>
                             CommittedRow(rows[b], e[b]).level =
                               CommittedRow(rows[b], e[b]).moved + CommittedRow(rows[b], e[b]).owed
        BY <1>1, CommittedRowGood DEF TypeOK, LevelExplained, Paired
  <2>3. rows' \in [Bins -> Row] /\ LevelExplained'
        BY <2>1, <2>2 DEF TypeOK, LevelExplained
  <2>4. transfers' \in [Transfers -> Transfer]
    <3>1. \A t \in Transfers : [transfers[t] EXCEPT !.moves = @ + 1] \in Transfer
          BY DEF TypeOK, Transfer
    <3> QED BY <2>1, <3>1 DEF TypeOK
  <2>5. [Idle EXCEPT !.at = "done"].at # "write"
        BY DEF Idle
  <2>6. \A b \in Bins \ held : rows'[b].level = rows[b].level
        BY <2>1
  <2>7. reqs' \in [Requests -> Request] /\ CallsGood'
        BY <2>1, <2>5, <2>6, IdleGood, AfterGood
  <2> QED BY <2>3, <2>4, <2>7 DEF Kept, TypeOK
<1> QED BY <1>2, <1>3

LEMMA PutKept ==
  ASSUME TypeOK, CallsGood, LevelExplained, NEW r \in Requests, reqs[r].at = "write",
         reqs[r].op # "purchase", NEW n \in Int, NEW m \in Int, NEW why \in Whys,
         why = {} => n = m, Put(r, n, m, why), UNCHANGED purchases
  PROVE  Kept
<1> DEFINE new == [change |-> n, log |-> m, why |-> why]
           e   == [reqs[r].effect EXCEPT ![Bin(r)] = new]
<1>1. Good(reqs[r]) /\ Bin(r) \in Bins /\ reqs[r].held \in SUBSET Bins
      BY BinType DEF CallsGood, Good, Bin, Request
<1>2. new \in Effect /\ (new.why = {} => new.change = new.log)
      BY DEF Effect, Whys
<1>3. Paired(reqs[r].effect)
      BY <1>1 DEF Good
<1> HIDE DEF new
<1>4. Paired(e)
      BY <1>1, <1>2, <1>3 DEF Paired
<1>5. Proceed(r, reqs[r].held \cup {Bin(r)}, e)
      BY DEF Put, new
<1> HIDE DEF e
<1> QED BY <1>1, <1>4, <1>5, ProceedGood

LEMMA SkipKept ==
  ASSUME TypeOK, CallsGood, LevelExplained, NEW r \in Requests, reqs[r].at = "write",
         reqs[r].op # "purchase", Skip(r), UNCHANGED purchases
  PROVE  Kept
<1>1. Paired(reqs[r].effect) /\ reqs[r].held \in SUBSET Bins
      BY DEF CallsGood, Good, Request
<1> QED BY <1>1, ProceedGood DEF Skip

\* A call that writes no row goes on as v.
LEMMA MoveKept ==
  ASSUME TypeOK, CallsGood, LevelExplained, NEW r \in Requests, NEW v,
         reqs' = [reqs EXCEPT ![r] = v], Good(v), Fresh(v, rows), UNCHANGED rows,
         transfers' \in [Transfers -> Transfer], purchases' \in [Purchases -> Purchase]
  PROVE  Kept
<1>1. reqs' \in [Requests -> Request] /\ CallsGood'
      BY PutGood
<1> QED BY <1>1 DEF Kept, TypeOK, LevelExplained

-----------------------------------------------------------------------------
(* Every action.                                                           *)

\* A call that begins is Idle but for what it was asked.
Begun(op, at, doc, new, kind, n, todo) ==
  [Idle EXCEPT !.op = op, !.doc = doc, !.new = new, !.kind = kind, !.qty = n,
               !.todo = todo, !.at = at]

\* A call that neither moves a transfer nor receives goods.
Still(q) ==
  (q.op # "transfer" \/ q.at # "write") /\ q.at \notin {"level", "log", "status"}

LEMMA BegunGood ==
  ASSUME NEW op \in Ops, NEW at \in {"read", "write", "mark", "fetch"},
         NEW doc \in Transfers \cup Purchases \cup {"none"},
         NEW new \in TransferStatuses \cup PurchaseStatuses, NEW kind \in Kinds, NEW n \in Int,
         NEW todo \in Seq(Bins),
         at \in {"read", "write"} => todo # << >>,
         op = "transfer" => at = "mark" /\ doc \in Transfers /\ new \in TransferStatuses,
         op = "purchase" => at = "fetch" /\ doc \in Purchases /\ new \in PurchaseStatuses,
         at = "mark" => op = "transfer", at = "fetch" => op = "purchase",
         at = "read" => op \in {"adjust", "stocktake"},
         op = "stocktake" => at = "read"
  PROVE  /\ Good(Begun(op, at, doc, new, kind, n, todo))
         /\ \A R : Fresh(Begun(op, at, doc, new, kind, n, todo), R)
         /\ Still(Begun(op, at, doc, new, kind, n, todo))
<1> DEFINE v == Begun(op, at, doc, new, kind, n, todo)
<1>1. Idle \in Request /\ Paired(Idle.effect)
      BY IdleGood DEF Good
<1>2. at \in Steps
      BY DEF Steps
<1>3. /\ v \in Request /\ v.op = op /\ v.doc = doc /\ v.new = new /\ v.todo = todo
      /\ v.at = at /\ v.effect = Idle.effect
  <2> HIDE DEF Idle
  <2> QED BY <1>1, <1>2 DEF Request, Begun
<1> HIDE DEF v
<1>4. Good(v)
      BY <1>1, <1>3 DEF Good, Ended
<1>5. \A R : Fresh(v, R)
      BY <1>3 DEF Fresh
<1>6. Still(v)
      BY <1>3 DEF Still
<1> QED BY <1>4, <1>5, <1>6 DEF v

LEMMA BeginGood ==
  ASSUME TypeOK, CallsGood, LevelExplained, NEW r \in Requests, Begin(r)
  PROVE  \E v : /\ reqs' = [reqs EXCEPT ![r] = v] /\ Good(v)
                /\ \A R : Fresh(v, R)
                /\ Still(v)
<1>1. Idle \in Request /\ Idle.doc = "none" /\ Idle.new = "PENDING" /\ Idle.kind = "ADD"
      /\ Idle.qty = 0 /\ Idle.todo = << >>
      BY IdleGood DEF Good, Idle
<1>2. "PENDING" \in TransferStatuses \cup PurchaseStatuses /\ "ADD" \in Kinds
      BY DEF TransferStatuses, Kinds
<1> DEFINE Shape == \E v : /\ reqs' = [reqs EXCEPT ![r] = v] /\ Good(v)
                           /\ \A R : Fresh(v, R)
                           /\ Still(v)
<1>3. ASSUME NEW b \in Bins, NEW kind \in Kinds, NEW n \in Adjustments,
             Goto(r, [Idle EXCEPT !.op = "adjust", !.kind = kind, !.qty = n, !.todo = <<b>>], "read")
      PROVE  Shape
  <2> DEFINE v == Begun("adjust", "read", "none", "PENDING", kind, n, <<b>>)
  <2>1. reqs' = [reqs EXCEPT ![r] = v]
        BY <1>1, <1>3 DEF Goto, Request, Begun
  <2>2. n \in Int /\ <<b>> \in Seq(Bins) /\ <<b>> # << >> /\ "adjust" \in Ops
        BY InventoryAssumption DEF Ops
  <2>3. Good(v) /\ (\A R : Fresh(v, R)) /\ Still(v)
        BY <1>2, <2>2, BegunGood
  <2> HIDE DEF v
  <2> QED BY <2>1, <2>3
<1>4. ASSUME NEW sheet \in Sheets \ {<< >>},
             Goto(r, [Idle EXCEPT !.op = "stocktake", !.todo = sheet], "read")
      PROVE  Shape
  <2> DEFINE v == Begun("stocktake", "read", "none", "PENDING", "ADD", 0, sheet)
  <2>1. reqs' = [reqs EXCEPT ![r] = v]
        BY <1>1, <1>4, ZenonT(60) DEF Goto, Request, Begun
  <2>2. sheet \in Seq(Bins) /\ sheet # << >> /\ "stocktake" \in Ops /\ 0 \in Int
        BY InventoryAssumption DEF Ops
  <2>3. Good(v) /\ (\A R : Fresh(v, R)) /\ Still(v)
        BY <1>2, <2>2, BegunGood
  <2> HIDE DEF v
  <2> QED BY <2>1, <2>3
<1>5. ASSUME NEW cart \in Carts \ {<< >>},
             Goto(r, [Idle EXCEPT !.op = "sale", !.qty = 1, !.todo = cart], "write")
      PROVE  Shape
  <2> DEFINE v == Begun("sale", "write", "none", "PENDING", "ADD", 1, cart)
  <2>1. reqs' = [reqs EXCEPT ![r] = v]
        BY <1>1, <1>5, ZenonT(60) DEF Goto, Request, Begun
  <2>2. cart \in Seq(Bins) /\ cart # << >> /\ "sale" \in Ops /\ 1 \in Int
        BY InventoryAssumption DEF Ops
  <2>3. Good(v) /\ (\A R : Fresh(v, R)) /\ Still(v)
        BY <1>2, <2>2, BegunGood
  <2> HIDE DEF v
  <2> QED BY <2>1, <2>3
<1>6. ASSUME NEW t \in Transfers, NEW new \in TransferStatuses \cap NewStatuses,
             Goto(r, [Idle EXCEPT !.op = "transfer", !.doc = t, !.new = new, !.qty = Moves[t]],
                  "mark")
      PROVE  Shape
  <2> DEFINE v == Begun("transfer", "mark", t, new, "ADD", Moves[t], << >>)
  <2>1. reqs' = [reqs EXCEPT ![r] = v]
        BY <1>1, <1>6 DEF Goto, Request, Begun
  <2>2. Moves[t] \in Int /\ << >> \in Seq(Bins) /\ "transfer" \in Ops
        BY InventoryAssumption DEF Ops
  <2>3. Good(v) /\ (\A R : Fresh(v, R)) /\ Still(v)
        BY <1>2, <2>2, BegunGood
  <2> HIDE DEF v
  <2> QED BY <2>1, <2>3
<1>7. ASSUME NEW p \in Purchases, NEW new \in PurchaseStatuses \cap NewStatuses,
             NEW n \in Quantities,
             Goto(r, [Idle EXCEPT !.op = "purchase", !.doc = p, !.new = new, !.qty = n], "fetch")
      PROVE  Shape
  <2> DEFINE v == Begun("purchase", "fetch", p, new, "ADD", n, << >>)
  <2>1. reqs' = [reqs EXCEPT ![r] = v]
        BY <1>1, <1>7 DEF Goto, Request, Begun
  <2>2. n \in Int /\ << >> \in Seq(Bins) /\ "purchase" \in Ops
        BY InventoryAssumption DEF Ops
  <2>3. Good(v) /\ (\A R : Fresh(v, R)) /\ Still(v)
        BY <1>2, <2>2, BegunGood
  <2> HIDE DEF v
  <2> QED BY <2>1, <2>3
<1> QED BY <1>3, <1>4, <1>5, <1>6, <1>7 DEF Begin

LEMMA BeginKept ==
  ASSUME TypeOK, CallsGood, LevelExplained, NEW r \in Requests, Begin(r)
  PROVE  Kept
<1>1. UNCHANGED rows /\ transfers' \in [Transfers -> Transfer]
      /\ purchases' \in [Purchases -> Purchase]
      BY DEF Begin, TypeOK
<1> QED BY <1>1, BeginGood, MoveKept

LEMMA EndKept ==
  ASSUME TypeOK, CallsGood, LevelExplained, NEW r \in Requests, Goto(r, Idle, "done"),
         UNCHANGED rows, transfers' \in [Transfers -> Transfer],
         purchases' \in [Purchases -> Purchase]
  PROVE  Kept
<1> DEFINE v == [Idle EXCEPT !.at = "done"]
<1>1. Good(v) /\ Fresh(v, rows)
      BY IdleGood DEF Fresh, Idle
<1>2. reqs' = [reqs EXCEPT ![r] = v]
      BY DEF Goto
<1> HIDE DEF v
<1> QED BY <1>1, <1>2, MoveKept

LEMMA ReadBinKept ==
  ASSUME TypeOK, CallsGood, LevelExplained, NEW r \in Requests, ReadBin(r)
  PROVE  Kept
<1> DEFINE q == reqs[r]
           v == [q EXCEPT !.seen = rows[Bin(r)].level, !.found = rows[Bin(r)].on,
                          !.stale = FALSE, !.at = "write"]
<1>1. Good(q) /\ q \in Request /\ q.at = "read"
      BY DEF CallsGood, Good, ReadBin
<1>2. Bin(r) \in Bins /\ Bin(r) = Head(q.todo)
      BY <1>1, BinType DEF Bin, Good
<1>3. rows[Bin(r)].level \in Int /\ rows[Bin(r)].on \in BOOLEAN /\ "write" \in Steps
      BY <1>2 DEF TypeOK, Row, Steps
<1>4. /\ v \in Request /\ v.op = q.op /\ v.todo = q.todo /\ v.doc = q.doc /\ v.new = q.new
      /\ v.at = "write" /\ v.effect = q.effect /\ v.seen = rows[Bin(r)].level
      BY <1>1, <1>3 DEF Request
<1>5. reqs' = [reqs EXCEPT ![r] = v]
      BY DEF ReadBin, Goto
<1> HIDE DEF v
<1>6. Good(v) /\ Fresh(v, rows)
      BY <1>1, <1>2, <1>4 DEF Good, Fresh, Ended
<1> QED BY <1>5, <1>6, MoveKept DEF ReadBin, TypeOK

LEMMA DeltaType ==
  ASSUME NEW q \in Request
  PROVE  q.qty \in Int /\ Delta(q.kind, q.qty) \in Int
BY DEF Request, Delta, Size

LEMMA AdjustRowKept ==
  ASSUME TypeOK, CallsGood, LevelExplained, NEW r \in Requests, AdjustRow(r)
  PROVE  Kept
<1>1. Good(reqs[r]) /\ reqs[r] \in Request /\ reqs[r].at = "write" /\ reqs[r].op # "purchase"
      /\ UNCHANGED purchases
      BY DEF CallsGood, Good, AdjustRow
<1>2. PICK n \in Int : n = Delta(reqs[r].kind, reqs[r].qty)
      BY <1>1, DeltaType
<1>3. {} \in Whys /\ {"set"} \in Whys /\ {"set"} # {}
      BY DEF Whys
<1>4. n - rows[Bin(r)].level \in Int
  <2>1. rows[Bin(r)] \in Row
        BY <1>1, BinType DEF Good, Bin, TypeOK
  <2>2. rows[Bin(r)].level \in Int
        BY <2>1 DEF Row
  <2> QED BY <1>2, <2>2
<1>5. Put(r, n, n, {}) \/ Put(r, n - rows[Bin(r)].level, n, {"set"})
      BY <1>2 DEF AdjustRow
<1>6. CASE Put(r, n, n, {})
      BY <1>1, <1>2, <1>3, <1>6, PutKept
<1>7. CASE Put(r, n - rows[Bin(r)].level, n, {"set"})
      BY <1>1, <1>2, <1>3, <1>4, <1>7, PutKept
<1> QED BY <1>5, <1>6, <1>7

LEMMA AdjustNewKept ==
  ASSUME TypeOK, CallsGood, LevelExplained, NEW r \in Requests, AdjustNew(r)
  PROVE  Kept
<1>1. Good(reqs[r]) /\ reqs[r] \in Request /\ reqs[r].at = "write" /\ reqs[r].op # "purchase"
      /\ UNCHANGED purchases
      BY DEF CallsGood, Good, AdjustNew
<1>2. PICK held, log : /\ held = IF reqs[r].qty < 0 THEN 0 ELSE reqs[r].qty
                       /\ log = Delta(reqs[r].kind, reqs[r].qty)
      OBVIOUS
<1>3. PICK why : why = IF held = log THEN {} ELSE {"created"}
      OBVIOUS
<1>4. held \in Int /\ log \in Int /\ why \in Whys /\ (why = {} => held = log)
      BY <1>1, <1>2, <1>3, DeltaType DEF Whys
<1>5. CASE rows[Bin(r)].on
      BY <1>1, <1>5, EndKept DEF AdjustNew, TypeOK
<1>6. CASE ~rows[Bin(r)].on
  <2>1. Put(r, held, log, why)
        BY <1>2, <1>3, <1>6 DEF AdjustNew
  <2> QED BY <1>1, <1>4, <2>1, PutKept
<1> QED BY <1>5, <1>6

\* What a stocktake read is still there, unless it is marked stale: then the change of
\* the level and the movement differ, and the row says so.
LEMMA StocktakeRowKept ==
  ASSUME TypeOK, CallsGood, LevelExplained, NEW r \in Requests, StocktakeRow(r)
  PROVE  Kept
<1> DEFINE q   == reqs[r]
           old == rows[Bin(r)].level
           why == IF q.stale THEN {"raced"} ELSE {}
<1>1. Good(q) /\ Fresh(q, rows) /\ q \in Request /\ q.at = "write" /\ q.op = "stocktake"
      /\ UNCHANGED purchases
      BY DEF CallsGood, Good, StocktakeRow
<1>2. old \in Int /\ q.seen \in Int
      BY <1>1, BinType DEF Good, Bin, TypeOK, Row, Request
<1>3. why \in Whys
      BY DEF Whys
<1>4. why = {} => q.seen = old
      BY <1>1 DEF Fresh, Bin
<1>5. PICK n \in Quantities \cup {0} : IF n = q.seen THEN Skip(r) ELSE Put(r, n - old, n - q.seen, why)
      BY DEF StocktakeRow
<1>6. n \in Int
      BY InventoryAssumption
<1>7. n - old \in Int /\ n - q.seen \in Int /\ (why = {} => n - old = n - q.seen)
      BY <1>2, <1>4, <1>6
<1> HIDE DEF why
<1>8. CASE n = q.seen
      BY <1>1, <1>5, <1>8, SkipKept
<1>9. CASE n # q.seen
      BY <1>1, <1>3, <1>5, <1>7, <1>9, PutKept
<1> QED BY <1>8, <1>9

LEMMA SaleRowKept ==
  ASSUME TypeOK, CallsGood, LevelExplained, NEW r \in Requests, SaleRow(r)
  PROVE  Kept
<1>1. Good(reqs[r]) /\ reqs[r] \in Request /\ reqs[r].at = "write" /\ reqs[r].op # "purchase"
      /\ UNCHANGED purchases
      BY DEF CallsGood, Good, SaleRow
<1>2. 0 - reqs[r].qty \in Int /\ {} \in Whys
      BY <1>1 DEF Request, Whys
<1>3. CASE Skip(r)
      BY <1>1, <1>3, SkipKept
<1>4. CASE Put(r, 0 - reqs[r].qty, 0 - reqs[r].qty, {})
      BY <1>1, <1>2, <1>4, PutKept
<1> QED BY <1>3, <1>4 DEF SaleRow

LEMMA TransferMarkKept ==
  ASSUME TypeOK, CallsGood, LevelExplained, NEW r \in Requests, TransferMark(r)
  PROVE  Kept
<1> DEFINE q == reqs[r]
           t == q.doc
           w == transfers[t]
           v == [q EXCEPT !.todo = <<Source[t], Destination[t]>>, !.at = "write"]
<1>1. /\ Good(q) /\ q \in Request /\ q.at = "mark" /\ q.op = "transfer" /\ t \in Transfers
      /\ q.new \in TransferStatuses
      BY DEF CallsGood, Good, TransferMark, Ended
<1>2. w \in Transfer
      BY <1>1 DEF TypeOK
<1>3. [w EXCEPT !.status = q.new, !.done = @ \/ q.new = "COMPLETED",
                !.why = IF w.done /\ q.new = "COMPLETED" THEN @ \cup {"again"} ELSE @] \in Transfer
      BY <1>1, <1>2 DEF Transfer
<1>4. transfers' \in [Transfers -> Transfer] /\ UNCHANGED <<rows, purchases>>
      BY <1>3 DEF TransferMark, TypeOK
<1>5. purchases' \in [Purchases -> Purchase]
      BY <1>4 DEF TypeOK
<1>6. CASE q.new = "COMPLETED"
  <2>1. <<Source[t], Destination[t]>> \in Seq(Bins) /\ <<Source[t], Destination[t]>> # << >>
        BY <1>1, InventoryAssumption
  <2>2. "write" \in Steps
        BY DEF Steps
  <2>3. /\ v \in Request /\ v.op = q.op /\ v.todo # << >> /\ v.doc = q.doc /\ v.new = q.new
        /\ v.at = "write" /\ v.effect = q.effect
        BY <1>1, <2>1, <2>2 DEF Request
  <2>4. reqs' = [reqs EXCEPT ![r] = v]
        BY <1>6 DEF TransferMark, Goto
  <2> HIDE DEF v
  <2>5. Good(v) /\ Fresh(v, rows)
        BY <1>1, <2>3 DEF Good, Fresh, Ended
  <2> QED BY <1>4, <1>5, <2>4, <2>5, MoveKept
<1>7. CASE q.new # "COMPLETED"
      BY <1>4, <1>5, <1>7, EndKept DEF TransferMark
<1> QED BY <1>6, <1>7

LEMMA TransferRowKept ==
  ASSUME TypeOK, CallsGood, LevelExplained, NEW r \in Requests, TransferRow(r)
  PROVE  Kept
<1> DEFINE n == IF Bin(r) = Source[reqs[r].doc] THEN 0 - reqs[r].qty ELSE reqs[r].qty
<1>1. Good(reqs[r]) /\ reqs[r] \in Request /\ reqs[r].at = "write" /\ reqs[r].op # "purchase"
      /\ UNCHANGED purchases
      BY DEF CallsGood, Good, TransferRow
<1>2. n \in Int /\ {} \in Whys
      BY <1>1 DEF Request, Whys
<1>3. Put(r, n, n, {})
      BY DEF TransferRow
<1> HIDE DEF n
<1> QED BY <1>1, <1>2, <1>3, PutKept

LEMMA PurchaseFetchKept ==
  ASSUME TypeOK, CallsGood, LevelExplained, NEW r \in Requests, PurchaseFetch(r)
  PROVE  Kept
<1> DEFINE q == reqs[r]
           p == q.doc
<1>1. /\ Good(q) /\ q \in Request /\ q.at = "fetch" /\ q.op = "purchase" /\ p \in Purchases
      /\ q.new \in PurchaseStatuses
      BY DEF CallsGood, Good, PurchaseFetch, Ended
<1>2. UNCHANGED <<rows, transfers>> /\ transfers' \in [Transfers -> Transfer]
      BY DEF PurchaseFetch, TypeOK
<1>3. ASSUME NEW at \in {"status", "level"}, NEW todo \in Seq(Bins),
             at = "level" => todo # << >>
      PROVE  Good([q EXCEPT !.todo = todo, !.at = at]) /\ Fresh([q EXCEPT !.todo = todo, !.at = at], rows)
  <2> DEFINE v == [q EXCEPT !.todo = todo, !.at = at]
  <2>1. at \in Steps
        BY DEF Steps
  <2>2. /\ v \in Request /\ v.op = q.op /\ v.todo = todo /\ v.doc = q.doc /\ v.new = q.new
        /\ v.at = at /\ v.effect = q.effect
        BY <1>1, <2>1 DEF Request
  <2> HIDE DEF v
  <2>3. Good(v) /\ Fresh(v, rows)
        BY <1>1, <1>3, <2>2 DEF Good, Fresh, Ended
  <2> QED BY <2>3 DEF v
<1>4. ASSUME NEW lines \in Deliveries[p],
             Goto(r, [q EXCEPT !.todo = lines], IF lines = << >> THEN "status" ELSE "level"),
             NEW why \in SUBSET {"reopened", "raced", "interrupted"},
             purchases' = [purchases EXCEPT ![p].asked = {lines[i] : i \in DOMAIN lines},
                                            ![p].why = why]
      PROVE  Kept
  <2> DEFINE at == IF lines = << >> THEN "status" ELSE "level"
             v  == [q EXCEPT !.todo = lines, !.at = at]
             asked == {lines[i] : i \in DOMAIN lines}
  <2>1. lines \in Seq(Bins)
        BY <1>1, InventoryAssumption
  <2>2. asked \subseteq Bins
        BY <2>1
  <2> HIDE DEF asked
  <2>3. [purchases[p] EXCEPT !.asked = asked, !.why = why] \in Purchase
    <3>1. purchases[p] \in Purchase /\ asked \in SUBSET Bins
          BY <1>1, <2>2 DEF TypeOK
    <3> QED BY <3>1 DEF Purchase
  <2>4. purchases' = [purchases EXCEPT ![p] = [purchases[p] EXCEPT !.asked = asked, !.why = why]]
        BY <1>1, <1>4 DEF asked, TypeOK
  <2>5. purchases' \in [Purchases -> Purchase]
        BY <2>3, <2>4 DEF TypeOK
  <2>6. reqs' = [reqs EXCEPT ![r] = v]
        BY <1>4 DEF Goto
  <2>7. at \in {"status", "level"} /\ (at = "level" => lines # << >>)
        OBVIOUS
  <2> HIDE DEF at
  <2>8. Good(v) /\ Fresh(v, rows)
        BY <1>3, <2>1, <2>7
  <2> HIDE DEF v
  <2> QED BY <1>2, <2>5, <2>6, <2>8, MoveKept
<1>5. ASSUME Goto(r, q, "status"), UNCHANGED purchases
      PROVE  Kept
  <2> DEFINE v == [q EXCEPT !.todo = q.todo, !.at = "status"]
  <2>1. reqs' = [reqs EXCEPT ![r] = v]
        BY <1>1, <1>5 DEF Goto, Request
  <2>2. Good(v) /\ Fresh(v, rows)
        BY <1>1, <1>3 DEF Request
  <2> HIDE DEF v
  <2> QED BY <1>2, <1>5, <2>1, <2>2, MoveKept DEF TypeOK
<1>6. ASSUME NEW raced \in BOOLEAN, NEW lines \in Deliveries[p],
             Goto(r, [q EXCEPT !.todo = lines], IF lines = << >> THEN "status" ELSE "level"),
             purchases' = [purchases EXCEPT
               ![p].asked = {lines[i] : i \in DOMAIN lines},
               ![p].why = IF raced THEN @ \cup {"raced"} ELSE @]
      PROVE  Kept
  <2> DEFINE why == IF raced THEN purchases[p].why \cup {"raced"} ELSE purchases[p].why
  <2>1. why \in SUBSET {"reopened", "raced", "interrupted"}
        BY <1>1 DEF TypeOK, Purchase
  <2>2. purchases' = [purchases EXCEPT ![p].asked = {lines[i] : i \in DOMAIN lines},
                                       ![p].why = why]
        BY <1>1, <1>6 DEF TypeOK, Purchase
  <2> HIDE DEF why
  <2> QED BY <1>4, <1>6, <2>1, <2>2
<1> QED BY <1>5, <1>6 DEF PurchaseFetch

\* A delivered line: the level grows, and what its movement owes with it.
LEMMA PurchaseLevelKept ==
  ASSUME TypeOK, CallsGood, LevelExplained, NEW r \in Requests, PurchaseLevel(r)
  PROVE  Kept
<1> DEFINE q == reqs[r]
           p == q.doc
           b == Bin(r)
           w == rows[b]
           n == [w EXCEPT !.on = TRUE, !.level = w.level + q.qty, !.owed = w.owed + q.qty]
           v == [q EXCEPT !.at = "log"]
<1>1. /\ Good(q) /\ q \in Request /\ q.at = "level" /\ q.op = "purchase" /\ p \in Purchases
      /\ q.new \in PurchaseStatuses /\ q.todo # << >>
      BY DEF CallsGood, Good, PurchaseLevel, Ended
<1>2. b \in Bins /\ w \in Row /\ q.qty \in Int
      BY <1>1, BinType DEF Bin, TypeOK, Request
<1>3. /\ w.level \in Int /\ w.moved \in Int /\ w.owed \in Int
      /\ w.level + q.qty \in Int /\ w.owed + q.qty \in Int
      BY <1>2 DEF Row
<1>4. /\ n \in Row /\ n.level = w.level + q.qty /\ n.owed = w.owed + q.qty
      /\ n.moved = w.moved /\ n.why = w.why
      BY <1>2, <1>3 DEF Row
<1>5. rows' = [rows EXCEPT ![b] = n]
      BY <1>2 DEF PurchaseLevel, TypeOK, Row
<1>6. w.why = {} => w.level = w.moved + w.owed
      BY <1>2 DEF LevelExplained
<1> HIDE DEF n
<1>7. rows' \in [Bins -> Row] /\ (n.why = {} => n.level = n.moved + n.owed)
      BY <1>2, <1>3, <1>4, <1>5, <1>6 DEF TypeOK
<1>8. LevelExplained'
      BY <1>5, <1>7 DEF LevelExplained, TypeOK
<1>9. purchases' \in [Purchases -> Purchase]
  <2>1. purchases[p] \in Purchase /\ purchases[p].got \in [Bins -> Nat]
        BY <1>1 DEF TypeOK, Purchase
  <2>2. [purchases[p].got EXCEPT ![b] = @ + 1] \in [Bins -> Nat]
        BY <1>2, <2>1
  <2>3. [purchases[p] EXCEPT !.got = [purchases[p].got EXCEPT ![b] = @ + 1]] \in Purchase
        BY <2>1, <2>2 DEF Purchase
  <2>4. purchases' = [purchases EXCEPT ![p] =
          [purchases[p] EXCEPT !.got = [purchases[p].got EXCEPT ![b] = @ + 1]]]
        BY <1>1 DEF PurchaseLevel, TypeOK
  <2> QED BY <2>3, <2>4 DEF TypeOK
<1>10. "log" \in Steps
      BY DEF Steps
<1>11. /\ v \in Request /\ v.op = q.op /\ v.todo = q.todo /\ v.doc = q.doc /\ v.new = q.new
       /\ v.at = "log" /\ v.effect = q.effect
      BY <1>1, <1>10 DEF Request
<1>12. After(r, v, {b}) /\ UNCHANGED transfers
      BY DEF PurchaseLevel
<1> HIDE DEF v
<1>13. Good(v)
      BY <1>1, <1>11 DEF Good, Ended
<1>14. \A x \in Bins \ {b} : rows'[x].level = rows[x].level
      BY <1>5 DEF TypeOK
<1>15. reqs' \in [Requests -> Request] /\ CallsGood'
      BY <1>11, <1>12, <1>13, <1>14, AfterGood
<1> QED BY <1>7, <1>8, <1>9, <1>12, <1>15 DEF Kept, TypeOK

LEMMA PurchaseLogKept ==
  ASSUME TypeOK, CallsGood, LevelExplained, NEW r \in Requests, PurchaseLog(r)
  PROVE  Kept
<1> DEFINE q  == reqs[r]
           b  == Bin(r)
           w  == rows[b]
           n  == [w EXCEPT !.moved = w.moved + q.qty, !.owed = w.owed - q.qty]
           at == IF Tail(q.todo) = << >> THEN "status" ELSE "level"
           v  == [q EXCEPT !.todo = Tail(q.todo), !.at = at]
<1>1. /\ Good(q) /\ q \in Request /\ q.at = "log" /\ q.op = "purchase" /\ q.doc \in Purchases
      /\ q.new \in PurchaseStatuses /\ q.todo # << >>
      BY DEF CallsGood, Good, PurchaseLog, Ended
<1>2. b \in Bins /\ w \in Row /\ q.qty \in Int /\ Tail(q.todo) \in Seq(Bins)
      BY <1>1, BinType DEF Bin, TypeOK, Request
<1>3. /\ w.level \in Int /\ w.moved \in Int /\ w.owed \in Int
      /\ w.moved + q.qty \in Int /\ w.owed - q.qty \in Int
      BY <1>2 DEF Row
<1>4. /\ n \in Row /\ n.level = w.level /\ n.owed = w.owed - q.qty
      /\ n.moved = w.moved + q.qty /\ n.why = w.why
      BY <1>2, <1>3 DEF Row
<1>5. rows' = [rows EXCEPT ![b] = n]
      BY <1>2 DEF PurchaseLog, TypeOK, Row
<1>6. w.why = {} => w.level = w.moved + w.owed
      BY <1>2 DEF LevelExplained
<1> HIDE DEF n
<1>7. rows' \in [Bins -> Row] /\ (n.why = {} => n.level = n.moved + n.owed)
      BY <1>2, <1>3, <1>4, <1>5, <1>6 DEF TypeOK
<1>8. LevelExplained'
      BY <1>5, <1>7 DEF LevelExplained, TypeOK
<1>9. at \in {"status", "level"} /\ at \in Steps /\ (at = "level" => Tail(q.todo) # << >>)
      BY DEF Steps
<1> HIDE DEF at
<1>10. /\ v \in Request /\ v.op = q.op /\ v.todo = Tail(q.todo) /\ v.doc = q.doc
       /\ v.new = q.new /\ v.at = at /\ v.effect = q.effect
      BY <1>1, <1>2, <1>9 DEF Request
<1>11. reqs' = [reqs EXCEPT ![r] = v] /\ UNCHANGED <<transfers, purchases>>
      BY <1>1 DEF PurchaseLog, Goto, at, Request
<1> HIDE DEF v
<1>12. Good(v) /\ Fresh(v, rows)
      BY <1>1, <1>9, <1>10 DEF Good, Fresh, Ended
<1>13. \A x \in Bins : rows'[x].level = rows[x].level
      BY <1>4, <1>5 DEF TypeOK
<1>14. reqs' \in [Requests -> Request] /\ CallsGood'
      BY <1>11, <1>12, <1>13, PutGood
<1> QED BY <1>7, <1>8, <1>11, <1>14 DEF Kept, TypeOK

LEMMA PurchaseStatusKept ==
  ASSUME TypeOK, CallsGood, LevelExplained, NEW r \in Requests, PurchaseStatus(r)
  PROVE  Kept
<1> DEFINE q == reqs[r]
           p == q.doc
           w == purchases[p]
<1>1. p \in Purchases /\ q.new \in PurchaseStatuses
      BY DEF CallsGood, Good, PurchaseStatus, Ended
<1>2. w \in Purchase
      BY <1>1 DEF TypeOK
<1>3. [w EXCEPT !.status = q.new, !.done = @ \/ q.new = "RECEIVED",
                !.why = IF w.done /\ q.new # "RECEIVED" THEN @ \cup {"reopened"} ELSE @]
        \in Purchase
      BY <1>1, <1>2 DEF Purchase
<1>4. purchases' = [purchases EXCEPT ![p] =
        [w EXCEPT !.status = q.new, !.done = @ \/ q.new = "RECEIVED",
                  !.why = IF w.done /\ q.new # "RECEIVED" THEN @ \cup {"reopened"} ELSE @]]
      BY <1>1 DEF PurchaseStatus, TypeOK
<1>5. purchases' \in [Purchases -> Purchase]
      BY <1>3, <1>4 DEF TypeOK
<1> QED BY <1>5, EndKept DEF PurchaseStatus, TypeOK

LEMMA FailKept ==
  ASSUME TypeOK, CallsGood, LevelExplained, NEW r \in Requests, Fail(r)
  PROVE  Kept
<1>1. transfers' \in [Transfers -> Transfer]
  <2>1. \A t \in Transfers :
          [transfers[t] EXCEPT !.why = @ \cup {"interrupted"}] \in Transfer
        BY DEF TypeOK, Transfer
  <2> QED BY <2>1 DEF Fail, TypeOK
<1>2. purchases' \in [Purchases -> Purchase]
  <2>1. \A p \in Purchases :
          [purchases[p] EXCEPT !.why = @ \cup {"interrupted"}] \in Purchase
        BY DEF TypeOK, Purchase
  <2> QED BY <2>1 DEF Fail, TypeOK
<1> QED BY <1>1, <1>2, EndKept DEF Fail

-----------------------------------------------------------------------------
(* The theorems.                                                           *)

LEMMA NextKept ==
  ASSUME TypeOK, CallsGood, LevelExplained, Next
  PROVE  Kept
<1> PICK r \in Requests : Begin(r) \/ Step(r) \/ Fail(r)
    BY DEF Next
<1> QED BY BeginKept, ReadBinKept, AdjustRowKept, AdjustNewKept, StocktakeRowKept, SaleRowKept,
           TransferMarkKept, TransferRowKept, PurchaseFetchKept, PurchaseLevelKept,
           PurchaseLogKept, PurchaseStatusKept, FailKept DEF Step

LEMMA StutterKept ==
  ASSUME TypeOK, CallsGood, LevelExplained, UNCHANGED vars
  PROVE  Kept
BY DEF Kept, TypeOK, CallsGood, LevelExplained, vars, Fresh

LEMMA LevelInductive == Spec => [](TypeOK /\ CallsGood /\ LevelExplained)
<1>1. Init => TypeOK /\ CallsGood /\ LevelExplained
  <2>1. Init => LevelExplained
        BY DEF Init, LevelExplained
  <2> QED BY <2>1, InitGood
<1>2. TypeOK /\ CallsGood /\ LevelExplained /\ [Next]_vars =>
        (TypeOK /\ CallsGood /\ LevelExplained)'
      BY NextKept, StutterKept DEF Kept
<1> QED BY <1>1, <1>2, PTL DEF Spec

\* Every call, row and document of the stock room keeps its type, whatever the calls.
THEOREM TypeCorrect == Spec => []TypeOK
BY LevelInductive, PTL

\* The level of a bin is what its movements say, counting what a delivery has not logged
\* yet, unless one of the named causes parted them: for any calls on any number of bins.
THEOREM LevelCorrect == Spec => []LevelExplained
BY LevelInductive, PTL

-----------------------------------------------------------------------------
(* Transfers.  Who completed a transfer for the first time moves its stock  *)
(* before it ends, and nobody else does.                                    *)

Mover(q, t) == q.op = "transfer" /\ q.at = "write" /\ q.doc = t

Movers(t) == {r \in Requests : Mover(reqs[r], t)}

MovesOf(t) ==
  transfers[t].why = {} =>
    /\ ~transfers[t].done => transfers[t].moves = 0 /\ Movers(t) = {}
    /\ transfers[t].done =>
         \/ transfers[t].moves = 0 /\ \E r \in Requests : Movers(t) = {r}
         \/ transfers[t].moves = 1 /\ Movers(t) = {}

Moved == \A t \in Transfers : MovesOf(t)

\* Nothing moved when no transfer changed and the same calls move.
LEMMA SameMovers ==
  ASSUME Moved, UNCHANGED transfers,
         \A t \in Transfers, x \in Requests : Mover(reqs'[x], t) <=> Mover(reqs[x], t)
  PROVE  Moved'
<1>1. \A t \in Transfers : Movers(t)' = Movers(t)
      BY DEF Movers
<1> QED BY <1>1 DEF Moved, MovesOf

\* A call that does not move a transfer goes on as v, which does not either.
LEMMA NoMove ==
  ASSUME Moved, TypeOK, NEW r \in Requests, NEW v, reqs' = [reqs EXCEPT ![r] = v],
         UNCHANGED transfers, \A t \in Transfers : ~Mover(reqs[r], t) /\ ~Mover(v, t)
  PROVE  Moved'
<1>1. \A x \in Requests : reqs'[x] = IF x = r THEN v ELSE reqs[x]
      BY DEF TypeOK
<1> QED BY <1>1, SameMovers

\* Marking calls stale moves nothing.
LEMMA AfterMoves ==
  ASSUME TypeOK, NEW r \in Requests, NEW v, NEW B, After(r, v, B), NEW t
  PROVE  \A x \in Requests \ {r} : Mover(reqs'[x], t) <=> Mover(reqs[x], t)
<1> TAKE x \in Requests \ {r}
<1>1. reqs'[x] = reqs[x] \/ reqs'[x] = [reqs[x] EXCEPT !.stale = TRUE]
      BY DEF After
<1>2. reqs[x] \in Request
      BY DEF TypeOK
<1>3. reqs'[x].op = reqs[x].op /\ reqs'[x].at = reqs[x].at /\ reqs'[x].doc = reqs[x].doc
      BY <1>1, <1>2 DEF Request
<1> QED BY <1>3 DEF Mover

LEMMA ProceedMoves ==
  ASSUME TypeOK, CallsGood, Moved, NEW r \in Requests, reqs[r].at = "write",
         NEW held, NEW e, Proceed(r, held, e)
  PROVE  Moved'
<1> DEFINE q    == reqs[r]
           rest == Tail(q.todo)
           step == IF q.op = "stocktake" THEN "read" ELSE "write"
           v    == [[q EXCEPT !.todo = rest, !.held = held, !.effect = e] EXCEPT !.at = step]
           z    == [Idle EXCEPT !.at = "done"]
<1>1. q \in Request /\ Good(q)
      BY DEF TypeOK, CallsGood
<1>2. CASE rest # << >>
  <2>1. reqs' = [reqs EXCEPT ![r] = v] /\ UNCHANGED transfers
        BY <1>2 DEF Proceed, Goto
  <2>2. v.op = q.op /\ v.at = step /\ v.doc = q.doc
        BY <1>1 DEF Request
  <2>3. \A x \in Requests : reqs'[x] = IF x = r THEN v ELSE reqs[x]
        BY <2>1 DEF TypeOK
  <2> HIDE DEF v
  <2>4. \A t : Mover(v, t) <=> Mover(q, t)
        BY <2>2 DEF Mover
  <2> QED BY <2>1, <2>3, <2>4, SameMovers
<1>3. CASE rest = << >>
  <2>1. /\ transfers' = IF q.op = "transfer"
                           THEN [transfers EXCEPT ![q.doc].moves = @ + 1] ELSE transfers
        /\ After(r, z, held)
        BY <1>3 DEF Proceed, Committed
  <2>2. reqs'[r] = z /\ \A t : ~Mover(z, t)
        BY <2>1 DEF After, Mover, Idle
  <2>3. \A t : \A x \in Requests : Mover(reqs'[x], t) <=> x # r /\ Mover(reqs[x], t)
        BY <2>1, <2>2, AfterMoves
  <2>4. CASE q.op # "transfer"
    <3>1. \A t : ~Mover(q, t)
          BY <2>4 DEF Mover
    <3>2. \A t \in Transfers, x \in Requests : Mover(reqs'[x], t) <=> Mover(reqs[x], t)
          BY <2>3, <3>1
    <3>3. UNCHANGED transfers
          BY <2>1, <2>4
    <3> QED BY <3>2, <3>3, SameMovers
  <2>5. CASE q.op = "transfer"
    <3>1. q.doc \in Transfers /\ Mover(q, q.doc) /\ \A t : Mover(q, t) => t = q.doc
          BY <1>1, <2>5 DEF Good, Mover, Ended
    <3>2. \A t \in Transfers : Movers(t)' = Movers(t) \ {r}
          BY <2>3 DEF Movers
    <3>3. ASSUME NEW t \in Transfers, t # q.doc PROVE MovesOf(t)'
      <4>1. transfers'[t] = transfers[t]
            BY <2>1, <2>5, <3>3 DEF TypeOK
      <4>2. r \notin Movers(t)
            BY <3>1, <3>3 DEF Movers
      <4>3. Movers(t)' = Movers(t)
            BY <3>2, <4>2
      <4> QED BY <4>1, <4>3 DEF Moved, MovesOf
    <3>4. ASSUME NEW t \in Transfers, t = q.doc PROVE MovesOf(t)'
      <4>1. transfers[t] \in Transfer
            BY DEF TypeOK
      <4>2. /\ transfers'[t].moves = transfers[t].moves + 1
            /\ transfers'[t].done = transfers[t].done
            /\ transfers'[t].why = transfers[t].why
            BY <2>1, <2>5, <3>4, <4>1 DEF TypeOK, Transfer
      <4>3. r \in Movers(t) /\ Movers(t)' = Movers(t) \ {r}
            BY <3>1, <3>2, <3>4 DEF Movers
      <4>4. MovesOf(t)
            BY DEF Moved
      <4>5. transfers[t].why = {} =>
              transfers[t].done /\ transfers[t].moves = 0 /\ Movers(t) \ {r} = {}
            BY <4>3, <4>4 DEF MovesOf
      <4> QED BY <4>2, <4>3, <4>5 DEF MovesOf
    <3> QED BY <3>3, <3>4 DEF Moved
  <2> QED BY <2>4, <2>5
<1> QED BY <1>2, <1>3

LEMMA MarkMoves ==
  ASSUME TypeOK, CallsGood, Moved, NEW r \in Requests, TransferMark(r)
  PROVE  Moved'
<1> DEFINE q == reqs[r]
           t == q.doc
           w == transfers[t]
<1>1. q \in Request /\ q.at = "mark" /\ t \in Transfers /\ w \in Transfer /\ q.op = "transfer"
      BY DEF TransferMark, CallsGood, Good, Ended, TypeOK
<1>2. /\ transfers'[t].moves = w.moves
      /\ transfers'[t].done = (w.done \/ q.new = "COMPLETED")
      /\ transfers'[t].why = IF w.done /\ q.new = "COMPLETED" THEN w.why \cup {"again"} ELSE w.why
      /\ \A u \in Transfers \ {t} : transfers'[u] = transfers[u]
      BY <1>1 DEF TransferMark, TypeOK, Transfer
<1>3. PICK v : /\ reqs' = [reqs EXCEPT ![r] = v]
               /\ \A u : Mover(v, u) <=> u = t /\ q.new = "COMPLETED"
  <2>1. CASE q.new = "COMPLETED"
    <3> DEFINE v == [[q EXCEPT !.todo = <<Source[t], Destination[t]>>] EXCEPT !.at = "write"]
    <3>1. reqs' = [reqs EXCEPT ![r] = v]
          BY <2>1 DEF TransferMark, Goto
    <3>2. v.op = "transfer" /\ v.at = "write" /\ v.doc = t
          BY <1>1 DEF Request
    <3> HIDE DEF v
    <3> QED BY <2>1, <3>1, <3>2 DEF Mover
  <2>2. CASE q.new # "COMPLETED"
    <3>1. reqs' = [reqs EXCEPT ![r] = [Idle EXCEPT !.at = "done"]]
          BY <2>2 DEF TransferMark, Goto
    <3>2. \A u : ~Mover([Idle EXCEPT !.at = "done"], u)
          BY DEF Mover, Idle
    <3> QED BY <2>2, <3>1, <3>2
  <2> QED BY <2>1, <2>2
<1>4. \A x \in Requests : \A u : Mover(reqs'[x], u) <=>
        IF x = r THEN u = t /\ q.new = "COMPLETED" ELSE Mover(reqs[x], u)
      BY <1>3 DEF TypeOK
<1>5. \A u : ~Mover(q, u)
      BY <1>1 DEF Mover
<1>6. ASSUME NEW u \in Transfers, u # t \/ q.new # "COMPLETED" PROVE MovesOf(u)'
  <2>1. Movers(u)' = Movers(u)
        BY <1>4, <1>5, <1>6 DEF Movers
  <2>2. /\ transfers'[u].moves = transfers[u].moves /\ transfers'[u].done = transfers[u].done
        /\ transfers'[u].why = transfers[u].why
        BY <1>1, <1>2, <1>6 DEF Transfer
  <2> QED BY <2>1, <2>2 DEF Moved, MovesOf
<1>7. ASSUME NEW u \in Transfers, u = t, q.new = "COMPLETED" PROVE MovesOf(u)'
  <2>1. MovesOf(u)
        BY DEF Moved
  <2>2. CASE w.done
    <3>1. transfers'[u].why # {}
          BY <1>2, <1>7, <2>2
    <3> QED BY <3>1 DEF MovesOf
  <2>3. CASE ~w.done /\ w.why = {}
    <3>1. w.moves = 0 /\ Movers(u) = {}
          BY <1>7, <2>1, <2>3 DEF MovesOf
    <3>2. Movers(u)' = {r}
          BY <1>4, <1>7, <3>1 DEF Movers
    <3>3. transfers'[u].moves = 0 /\ transfers'[u].done
          BY <1>2, <1>7, <3>1
    <3> QED BY <3>2, <3>3 DEF MovesOf
  <2>4. CASE ~w.done /\ w.why # {}
    <3>1. transfers'[u].why # {}
          BY <1>2, <1>7, <2>4
    <3> QED BY <3>1 DEF MovesOf
  <2> QED BY <2>2, <2>3, <2>4
<1> QED BY <1>6, <1>7 DEF Moved

LEMMA FailMoves ==
  ASSUME TypeOK, CallsGood, Moved, NEW r \in Requests, Fail(r)
  PROVE  Moved'
<1> DEFINE q == reqs[r]
           z == [Idle EXCEPT !.at = "done"]
<1>1. reqs' = [reqs EXCEPT ![r] = z] /\ Good(q) /\ q.at \notin Ended
      BY DEF Fail, Goto, CallsGood
<1>2. \A u : ~Mover(z, u)
      BY DEF Mover, Idle
<1>3. CASE ~(q.op = "transfer" /\ q.at = "write")
  <2>1. \A u : ~Mover(q, u)
        BY <1>3 DEF Mover
  <2>2. UNCHANGED transfers
        BY <1>3 DEF Fail
  <2> HIDE DEF z
  <2> QED BY <1>1, <1>2, <2>1, <2>2, NoMove
<1>4. CASE q.op = "transfer" /\ q.at = "write"
  <2>1. transfers' = [transfers EXCEPT ![q.doc].why = @ \cup {"interrupted"}]
        BY <1>4 DEF Fail
  <2>2. q.doc \in Transfers
        BY <1>1, <1>4 DEF Good
  <2>3. transfers'[q.doc].why # {}
        BY <2>1, <2>2 DEF TypeOK, Transfer
  <2>4. ASSUME NEW u \in Transfers, u # q.doc PROVE MovesOf(u)'
    <3>1. transfers'[u] = transfers[u]
          BY <2>1, <2>4 DEF TypeOK
    <3>2. \A x \in Requests : reqs'[x] = IF x = r THEN z ELSE reqs[x]
          BY <1>1 DEF TypeOK
    <3>3. ~Mover(q, u)
          BY <2>4 DEF Mover
    <3> HIDE DEF z
    <3>4. Movers(u)' = Movers(u)
          BY <1>2, <3>2, <3>3 DEF Movers
    <3> QED BY <3>1, <3>4 DEF Moved, MovesOf
  <2> QED BY <2>3, <2>4 DEF Moved, MovesOf
<1> QED BY <1>3, <1>4

\* A call that is not a transfer goes on, or ends.
LEMMA OtherMoves ==
  ASSUME TypeOK, Moved, NEW r \in Requests, NEW v, reqs' = [reqs EXCEPT ![r] = v],
         UNCHANGED transfers, reqs[r].op # "transfer" \/ reqs[r].at # "write",
         v.op # "transfer" \/ v.at # "write"
  PROVE  Moved'
BY NoMove DEF Mover

LEMMA StepMoves ==
  ASSUME TypeOK, CallsGood, Moved, NEW r \in Requests, Step(r)
  PROVE  Moved'
<1> DEFINE q == reqs[r]
<1>1. q \in Request /\ Good(q)
      BY DEF TypeOK, CallsGood
<1>2. [Idle EXCEPT !.at = "done"].at = "done"
      BY DEF Idle
<1>3. ASSUME NEW held, NEW e, Proceed(r, held, e), q.at = "write" PROVE Moved'
      BY <1>3, ProceedMoves
<1>4. CASE ReadBin(r)
  <2> DEFINE v == [q EXCEPT !.seen = rows[Bin(r)].level, !.found = rows[Bin(r)].on,
                            !.stale = FALSE, !.at = "write"]
  <2>1. reqs' = [reqs EXCEPT ![r] = v] /\ UNCHANGED transfers /\ q.at = "read"
        BY <1>4 DEF ReadBin, Goto
  <2>2. v.op = q.op /\ q.op # "transfer"
        BY <1>1, <2>1 DEF Request, Good
  <2> HIDE DEF v
  <2> QED BY <2>1, <2>2, OtherMoves
<1>5. CASE AdjustRow(r)
  <2>1. \E held, e : Proceed(r, held, e)
        BY <1>1, <1>5 DEF AdjustRow, Put, Request, Kinds
  <2> QED BY <1>3, <1>5, <2>1 DEF AdjustRow
<1>6. CASE AdjustNew(r)
  <2>1. CASE rows[Bin(r)].on
    <3>1. reqs' = [reqs EXCEPT ![r] = [Idle EXCEPT !.at = "done"]] /\ UNCHANGED transfers
          /\ q.op = "adjust"
          BY <1>6, <2>1 DEF AdjustNew, Goto
    <3> QED BY <1>2, <3>1, OtherMoves
  <2>2. CASE ~rows[Bin(r)].on
    <3>1. \E held, e : Proceed(r, held, e)
          BY <1>6, <2>2 DEF AdjustNew, Put
    <3> QED BY <1>3, <1>6, <3>1 DEF AdjustNew
  <2> QED BY <2>1, <2>2
<1>7. CASE StocktakeRow(r)
  <2>1. \E held, e : Proceed(r, held, e)
        BY <1>7 DEF StocktakeRow, Put, Skip
  <2> QED BY <1>3, <1>7, <2>1 DEF StocktakeRow
<1>8. CASE SaleRow(r)
  <2>1. \E held, e : Proceed(r, held, e)
        BY <1>8 DEF SaleRow, Put, Skip
  <2> QED BY <1>3, <1>8, <2>1 DEF SaleRow
<1>9. CASE TransferMark(r)
      BY <1>9, MarkMoves
<1>10. CASE TransferRow(r)
  <2>1. \E held, e : Proceed(r, held, e)
        BY <1>10 DEF TransferRow, Put
  <2> QED BY <1>3, <1>10, <2>1 DEF TransferRow
<1>11. CASE PurchaseFetch(r)
  <2>1. UNCHANGED transfers /\ q.at = "fetch"
        BY <1>11 DEF PurchaseFetch
  <2>2. \/ \E lines : reqs' = [reqs EXCEPT ![r] = [[q EXCEPT !.todo = lines] EXCEPT !.at =
                                 IF lines = << >> THEN "status" ELSE "level"]]
        \/ reqs' = [reqs EXCEPT ![r] = [q EXCEPT !.at = "status"]]
        BY <1>11 DEF PurchaseFetch, Goto
  <2>3. \E v : reqs' = [reqs EXCEPT ![r] = v] /\ v.at # "write"
    <3>1. \A lines, at : [[q EXCEPT !.todo = lines] EXCEPT !.at = at].at = at
          BY <1>1 DEF Request
    <3>2. [q EXCEPT !.at = "status"].at = "status"
          BY <1>1 DEF Request
    <3>3. CASE reqs' = [reqs EXCEPT ![r] = [q EXCEPT !.at = "status"]]
          BY <3>2, <3>3
    <3>4. CASE \E lines : reqs' = [reqs EXCEPT ![r] = [[q EXCEPT !.todo = lines] EXCEPT !.at =
                                     IF lines = << >> THEN "status" ELSE "level"]]
      <4>1. PICK lines : reqs' = [reqs EXCEPT ![r] = [[q EXCEPT !.todo = lines] EXCEPT !.at =
                                     IF lines = << >> THEN "status" ELSE "level"]]
            BY <3>4
      <4> DEFINE v == [[q EXCEPT !.todo = lines] EXCEPT !.at =
                         IF lines = << >> THEN "status" ELSE "level"]
      <4>2. v.at # "write"
            BY <3>1
      <4> HIDE DEF v
      <4> QED BY <4>1, <4>2 DEF v
    <3> QED BY <2>2, <3>3, <3>4
  <2> QED BY <2>1, <2>3, OtherMoves
<1>12. CASE PurchaseLevel(r)
  <2> DEFINE v == [q EXCEPT !.at = "log"]
  <2>1. After(r, v, {Bin(r)}) /\ UNCHANGED transfers /\ q.at = "level"
        BY <1>12 DEF PurchaseLevel
  <2>2. v.at = "log" /\ reqs'[r] = v
        BY <1>1, <2>1 DEF Request, After
  <2> HIDE DEF v
  <2>3. \A t : \A x \in Requests : Mover(reqs'[x], t) <=> Mover(reqs[x], t)
        BY <2>1, <2>2, AfterMoves DEF Mover
  <2> QED BY <2>1, <2>3, SameMovers
<1>13. CASE PurchaseLog(r)
  <2> DEFINE at == IF Tail(q.todo) = << >> THEN "status" ELSE "level"
             v  == [[q EXCEPT !.todo = Tail(@)] EXCEPT !.at = at]
  <2>1. reqs' = [reqs EXCEPT ![r] = v] /\ UNCHANGED transfers /\ q.at = "log"
        BY <1>13 DEF PurchaseLog, Goto
  <2>2. v.at # "write"
        BY <1>1 DEF Request
  <2> HIDE DEF v
  <2> QED BY <2>1, <2>2, OtherMoves
<1>14. CASE PurchaseStatus(r)
  <2>1. reqs' = [reqs EXCEPT ![r] = [Idle EXCEPT !.at = "done"]] /\ UNCHANGED transfers
        /\ q.at = "status"
        BY <1>14 DEF PurchaseStatus, Goto
  <2> QED BY <1>2, <2>1, OtherMoves
<1> QED BY <1>4, <1>5, <1>6, <1>7, <1>8, <1>9, <1>10, <1>11, <1>12, <1>13, <1>14 DEF Step

LEMMA BeginMoves ==
  ASSUME TypeOK, CallsGood, LevelExplained, Moved, NEW r \in Requests, Begin(r)
  PROVE  Moved'
<1>1. UNCHANGED transfers /\ reqs[r].at = "idle"
      BY DEF Begin
<1> QED BY <1>1, BeginGood, OtherMoves DEF Still

LEMMA MovedInductive == Spec => []Moved
<1>1. Init => Moved
      BY DEF Init, Moved, MovesOf, Movers, Mover, Idle
<1>2. TypeOK /\ CallsGood /\ LevelExplained /\ Moved /\ [Next]_vars => Moved'
  <2> SUFFICES ASSUME TypeOK, CallsGood, LevelExplained, Moved, [Next]_vars PROVE Moved'
      OBVIOUS
  <2>1. CASE UNCHANGED vars
        BY <2>1 DEF vars, Moved, MovesOf, Movers
  <2>2. CASE Next
    <3> PICK r \in Requests : Begin(r) \/ Step(r) \/ Fail(r)
        BY <2>2 DEF Next
    <3> QED BY BeginMoves, StepMoves, FailMoves
  <2> QED BY <2>1, <2>2
<1> QED BY <1>1, <1>2, LevelInductive, PTL DEF Spec

\* A transfer completed once and left alone has moved its stock exactly once when nobody
\* works on it, one never completed has not: for any number of calls and transfers.
THEOREM MovedCorrect == Spec => []MovedOnce
<1>1. Moved => MovedOnce
  <2> SUFFICES ASSUME Moved, NEW t \in Transfers, transfers[t].why = {},
                      \A r \in Requests : reqs[r].doc = t => reqs[r].at \in Ended
               PROVE  transfers[t].moves = IF transfers[t].done THEN 1 ELSE 0
      BY DEF MovedOnce
  <2>1. Movers(t) = {}
        BY DEF Movers, Mover, Ended
  <2>2. MovesOf(t)
        BY DEF Moved
  <2> QED BY <2>1, <2>2 DEF MovesOf
<1> QED BY <1>1, MovedInductive, PTL

-----------------------------------------------------------------------------
(* Receipts of goods.  Until an order is received for the first time one    *)
(* call at most has added lines of it, and what it has still to add is what *)
(* is missing; after that the status keeps the others out.                  *)

Receiving == {"level", "log", "status"}

Receiver(q, p) == q.op = "purchase" /\ q.doc = p /\ q.new = "RECEIVED" /\ q.at \in Receiving

Receivers(p) == {r \in Requests : Receiver(reqs[r], p)}

Lines(s) == {s[i] : i \in DOMAIN s}

Distinct(s) == \A i, j \in DOMAIN s : s[i] = s[j] => i = j

\* The bins a receiver has still to add to.
Left(q) == CASE q.at = "level"  -> Lines(q.todo)
             [] q.at = "log"    -> Lines(Tail(q.todo))
             [] q.at = "status" -> {}

Orderly(q) == q.at \in {"level", "log"} => Distinct(q.todo) /\ q.new = "RECEIVED"

GotAllBut(p, B) ==
  \A b \in Bins : purchases[p].got[b] = IF b \in purchases[p].asked \ B THEN 1 ELSE 0

ReceiptOf(p) ==
  purchases[p].why = {} =>
    /\ ~purchases[p].done =>
         /\ purchases[p].status # "RECEIVED"
         /\ \/ Receivers(p) = {} /\ \A b \in Bins : purchases[p].got[b] = 0
            \/ \E r \in Requests : /\ Receivers(p) = {r}
                                   /\ Left(reqs[r]) \subseteq purchases[p].asked
                                   /\ GotAllBut(p, Left(reqs[r]))
    /\ purchases[p].done =>
         /\ purchases[p].status = "RECEIVED"
         /\ GotAllBut(p, {})
         /\ \A r \in Receivers(p) : Left(reqs[r]) = {}

Received == (\A r \in Requests : Orderly(reqs[r])) /\ \A p \in Purchases : ReceiptOf(p)

LEMMA LinesOf ==
  ASSUME NEW s \in Seq(Bins), s # << >>, Distinct(s)
  PROVE  /\ Distinct(Tail(s)) /\ Lines(s) = Lines(Tail(s)) \cup {Head(s)}
         /\ Head(s) \notin Lines(Tail(s))
<1>1. Len(s) \in Nat /\ Len(s) >= 1 /\ DOMAIN s = 1 .. Len(s) /\ Head(s) = s[1]
      BY EmptySeq, LenProperties
<1>2. /\ Tail(s) \in Seq(Bins) /\ Len(Tail(s)) = Len(s) - 1
      /\ \A i \in 1 .. Len(s) - 1 : Tail(s)[i] = s[i + 1]
      BY HeadTailProperties
<1>3. DOMAIN Tail(s) = 1 .. Len(s) - 1
      BY <1>1, <1>2, LenProperties
<1>4. \A i \in DOMAIN Tail(s) : i + 1 \in DOMAIN s /\ i + 1 # 1 /\ Tail(s)[i] = s[i + 1]
      BY <1>1, <1>2, <1>3
<1>5. Distinct(Tail(s))
  <2> SUFFICES ASSUME NEW i \in DOMAIN Tail(s), NEW j \in DOMAIN Tail(s), Tail(s)[i] = Tail(s)[j]
               PROVE  i = j
      BY DEF Distinct
  <2>1. s[i + 1] = s[j + 1] /\ i + 1 \in DOMAIN s /\ j + 1 \in DOMAIN s
        BY <1>4
  <2>2. i + 1 = j + 1
        BY <2>1 DEF Distinct
  <2> QED BY <1>3, <2>2
<1>6. 1 \in DOMAIN s
      BY <1>1
<1>7. Head(s) \notin Lines(Tail(s))
  <2>1. ASSUME NEW i \in DOMAIN Tail(s), Tail(s)[i] = Head(s) PROVE FALSE
        BY <1>1, <1>4, <1>6, <2>1 DEF Distinct
  <2> QED BY <2>1 DEF Lines
<1>8. \A b \in Lines(Tail(s)) \cup {Head(s)} : b \in Lines(s)
      BY <1>1, <1>4, <1>6 DEF Lines
<1>9. \A b \in Lines(s) : b \in Lines(Tail(s)) \cup {Head(s)}
  <2> SUFFICES ASSUME NEW i \in DOMAIN s, i # 1 PROVE s[i] \in Lines(Tail(s))
      BY <1>1 DEF Lines
  <2>1. i - 1 \in DOMAIN Tail(s) /\ (i - 1) + 1 = i
        BY <1>1, <1>3
  <2>2. Tail(s)[i - 1] = s[i]
        BY <1>4, <2>1
  <2> QED BY <2>1, <2>2 DEF Lines
<1> QED BY <1>5, <1>7, <1>8, <1>9

\* Nothing changed that a receipt looks at.
Alike(q, z) ==
  q.at \in Receiving \/ z.at \in Receiving =>
    z.op = q.op /\ z.at = q.at /\ z.doc = q.doc /\ z.new = q.new /\ z.todo = q.todo

LEMMA SameReceipt ==
  ASSUME Received, UNCHANGED purchases, \A x \in Requests : Alike(reqs[x], reqs'[x])
  PROVE  Received'
<1>1. \A x \in Requests : \A p : Receiver(reqs'[x], p) <=> Receiver(reqs[x], p)
      BY DEF Alike, Receiver
<1>2. \A p : Receivers(p)' = Receivers(p)
      BY <1>1 DEF Receivers
<1>3. \A p : \A x \in Receivers(p) : Left(reqs'[x]) = Left(reqs[x])
      BY DEF Receivers, Receiver, Alike, Left
<1>4. \A x \in Requests : Orderly(reqs'[x])
      BY DEF Received, Orderly, Alike, Receiving
<1>5. ASSUME NEW p \in Purchases PROVE ReceiptOf(p)'
  <2>1. ReceiptOf(p)
        BY DEF Received
  <2>2. \A B : GotAllBut(p, B)' <=> GotAllBut(p, B)
        BY DEF GotAllBut
  <2> QED BY <1>2, <1>3, <2>1, <2>2 DEF ReceiptOf
<1> QED BY <1>4, <1>5 DEF Received

LEMMA GoAlike ==
  ASSUME TypeOK, NEW r \in Requests, NEW v, reqs' = [reqs EXCEPT ![r] = v],
         reqs[r].at \notin Receiving, v.at \notin Receiving
  PROVE  \A x \in Requests : Alike(reqs[x], reqs'[x])
BY DEF Alike, TypeOK

LEMMA AfterAlike ==
  ASSUME TypeOK, NEW r \in Requests, NEW v, NEW B, After(r, v, B)
  PROVE  \A x \in Requests \ {r} : Alike(reqs[x], reqs'[x])
<1> TAKE x \in Requests \ {r}
<1>1. reqs'[x] = reqs[x] \/ reqs'[x] = [reqs[x] EXCEPT !.stale = TRUE]
      BY DEF After
<1>2. reqs[x] \in Request
      BY DEF TypeOK
<1>3. /\ reqs'[x].op = reqs[x].op /\ reqs'[x].at = reqs[x].at /\ reqs'[x].doc = reqs[x].doc
      /\ reqs'[x].new = reqs[x].new /\ reqs'[x].todo = reqs[x].todo
      BY <1>1, <1>2 DEF Request
<1> QED BY <1>3 DEF Alike

LEMMA ProceedAlike ==
  ASSUME TypeOK, NEW r \in Requests, reqs[r].at = "write", NEW held, NEW e, Proceed(r, held, e)
  PROVE  \A x \in Requests : Alike(reqs[x], reqs'[x])
<1> DEFINE q    == reqs[r]
           step == IF q.op = "stocktake" THEN "read" ELSE "write"
           v    == [[q EXCEPT !.todo = Tail(reqs[r].todo), !.held = held, !.effect = e]
                      EXCEPT !.at = step]
           z    == [Idle EXCEPT !.at = "done"]
<1>1. CASE Tail(reqs[r].todo) # << >>
  <2>1. reqs' = [reqs EXCEPT ![r] = v]
        BY <1>1 DEF Proceed, Goto
  <2>2. q \in Request
        BY DEF TypeOK
  <2>3. v.at = step /\ step \notin Receiving /\ q.at \notin Receiving
        BY <2>2 DEF Request, Receiving
  <2> HIDE DEF v, step
  <2> QED BY <2>1, <2>3, GoAlike
<1>2. CASE Tail(reqs[r].todo) = << >>
  <2>1. After(r, z, held)
        BY <1>2 DEF Proceed, Committed
  <2>2. z.at \notin Receiving /\ q.at \notin Receiving
        BY DEF Receiving, Idle
  <2>3. Alike(q, reqs'[r])
        BY <2>1, <2>2 DEF Alike, After
  <2> QED BY <2>1, <2>3, AfterAlike
<1> QED BY <1>1, <1>2

\* The calls that receive nothing.
LEMMA QuietReceipt ==
  ASSUME TypeOK, CallsGood, LevelExplained, Received, NEW r \in Requests,
         \/ Begin(r) \/ ReadBin(r) \/ AdjustRow(r) \/ AdjustNew(r) \/ StocktakeRow(r)
         \/ SaleRow(r) \/ TransferMark(r) \/ TransferRow(r)
  PROVE  Received'
<1> DEFINE q == reqs[r]
           z == [Idle EXCEPT !.at = "done"]
<1>1. q \in Request /\ UNCHANGED purchases
      BY DEF TypeOK, Begin, ReadBin, AdjustRow, AdjustNew, StocktakeRow, SaleRow, TransferMark,
             TransferRow
<1>2. ASSUME q.at = "write", \E held, e : Proceed(r, held, e) PROVE Received'
      BY <1>1, <1>2, ProceedAlike, SameReceipt
<1>3. ASSUME q.at \notin Receiving,
             \E v : reqs' = [reqs EXCEPT ![r] = v] /\ v.at \notin Receiving
      PROVE  Received'
      BY <1>1, <1>3, GoAlike, SameReceipt
<1>4. z.at = "done" /\ z.at \notin Receiving
      BY DEF Idle, Receiving
<1>5. CASE Begin(r)
  <2>1. q.at \notin Receiving
        BY <1>5 DEF Begin, Receiving
  <2>2. PICK v : reqs' = [reqs EXCEPT ![r] = v] /\ Still(v)
        BY <1>5, BeginGood
  <2>3. v.at \notin Receiving
        BY <2>2 DEF Still, Receiving
  <2> QED BY <1>3, <2>1, <2>2, <2>3
<1>6. CASE ReadBin(r)
  <2> DEFINE v == [q EXCEPT !.seen = rows[Bin(r)].level, !.found = rows[Bin(r)].on,
                            !.stale = FALSE, !.at = "write"]
  <2>1. reqs' = [reqs EXCEPT ![r] = v] /\ q.at = "read"
        BY <1>6 DEF ReadBin, Goto
  <2>2. v.at = "write"
        BY <1>1 DEF Request
  <2> HIDE DEF v
  <2> QED BY <1>3, <2>1, <2>2 DEF Receiving
<1>7. CASE AdjustRow(r)
  <2>1. \E held, e : Proceed(r, held, e)
        BY <1>1, <1>7 DEF AdjustRow, Put, Request, Kinds
  <2> QED BY <1>2, <1>7, <2>1 DEF AdjustRow
<1>8. CASE AdjustNew(r)
  <2>1. CASE rows[Bin(r)].on
    <3>1. reqs' = [reqs EXCEPT ![r] = z] /\ q.at = "write"
          BY <1>8, <2>1 DEF AdjustNew, Goto
    <3> HIDE DEF z
    <3> QED BY <1>3, <1>4, <3>1 DEF Receiving
  <2>2. CASE ~rows[Bin(r)].on
    <3>1. \E held, e : Proceed(r, held, e)
          BY <1>8, <2>2 DEF AdjustNew, Put
    <3> QED BY <1>2, <1>8, <3>1 DEF AdjustNew
  <2> QED BY <2>1, <2>2
<1>9. CASE StocktakeRow(r)
  <2>1. \E held, e : Proceed(r, held, e)
        BY <1>9 DEF StocktakeRow, Put, Skip
  <2> QED BY <1>2, <1>9, <2>1 DEF StocktakeRow
<1>10. CASE SaleRow(r)
  <2>1. \E held, e : Proceed(r, held, e)
        BY <1>10 DEF SaleRow, Put, Skip
  <2> QED BY <1>2, <1>10, <2>1 DEF SaleRow
<1>11. CASE TransferMark(r)
  <2> DEFINE v == [[q EXCEPT !.todo = <<Source[q.doc], Destination[q.doc]>>] EXCEPT !.at = "write"]
  <2>1. q.at = "mark" /\ (reqs' = [reqs EXCEPT ![r] = v] \/ reqs' = [reqs EXCEPT ![r] = z])
        BY <1>11 DEF TransferMark, Goto
  <2>2. v.at = "write"
        BY <1>1 DEF Request
  <2> HIDE DEF v, z
  <2> QED BY <1>3, <1>4, <2>1, <2>2 DEF Receiving
<1>12. CASE TransferRow(r)
  <2>1. \E held, e : Proceed(r, held, e)
        BY <1>12 DEF TransferRow, Put
  <2> QED BY <1>2, <1>12, <2>1 DEF TransferRow
<1> QED BY <1>5, <1>6, <1>7, <1>8, <1>9, <1>10, <1>11, <1>12

\* r goes on as v, working on p; the receipts of the other orders are as they were.
LEMMA OtherReceipts ==
  ASSUME TypeOK, Received, NEW r \in Requests, NEW v, NEW p \in Purchases,
         reqs'[r] = v, \A x \in Requests \ {r} : Alike(reqs[x], reqs'[x]),
         reqs[r].doc = p, v.doc = p \/ v.at \notin Receiving,
         \A d \in Purchases \ {p} : purchases'[d] = purchases[d]
  PROVE  /\ \A d \in Purchases \ {p} : ReceiptOf(d)'
         /\ \A x \in Requests : x # r =>
              /\ Orderly(reqs'[x])
              /\ Left(reqs'[x]) = Left(reqs[x]) \/ ~Receiver(reqs[x], p)
         /\ Receivers(p) \ {r} = Receivers(p)' \ {r}
         /\ r \in Receivers(p)' <=> Receiver(v, p)
<1>1. \A x \in Requests \ {r} : \A d : Receiver(reqs'[x], d) <=> Receiver(reqs[x], d)
      BY DEF Alike, Receiver
<1>2. \A x \in Requests \ {r} : reqs[x].at \in Receiving => Left(reqs'[x]) = Left(reqs[x])
      BY DEF Alike, Left
<1>3. \A x \in Requests \ {r} : Orderly(reqs'[x])
      BY DEF Received, Orderly, Alike, Receiving
<1>4. ASSUME NEW d \in Purchases \ {p} PROVE ReceiptOf(d)'
  <2>1. ~Receiver(reqs[r], d) /\ ~Receiver(reqs'[r], d)
        BY DEF Receiver
  <2>2. Receivers(d)' = Receivers(d) /\ r \notin Receivers(d)
        BY <1>1, <2>1 DEF Receivers
  <2>3. \A x \in Receivers(d) : Left(reqs'[x]) = Left(reqs[x])
        BY <1>2, <2>2 DEF Receivers, Receiver
  <2>4. \A B : GotAllBut(d, B)' <=> GotAllBut(d, B)
        BY DEF GotAllBut
  <2>5. ReceiptOf(d)
        BY DEF Received
  <2> QED BY <2>2, <2>3, <2>4, <2>5 DEF ReceiptOf
<1> QED BY <1>1, <1>2, <1>3, <1>4 DEF Receivers, Receiver

LEMMA FetchReceipt ==
  ASSUME TypeOK, CallsGood, Received, NEW r \in Requests, PurchaseFetch(r)
  PROVE  Received'
<1>1. PICK q, p : q = reqs[r] /\ p = q.doc
      OBVIOUS
<1>2. /\ q \in Request /\ q.at = "fetch" /\ q.op = "purchase" /\ p \in Purchases
      /\ q.new \in PurchaseStatuses
      BY <1>1 DEF CallsGood, Good, PurchaseFetch, Ended
<1> DEFINE P == purchases[p]
<1>3. P \in Purchase /\ ReceiptOf(p)
      BY <1>2 DEF TypeOK, Received
<1>4. r \notin Receivers(p)
      BY <1>1, <1>2 DEF Receivers, Receiver, Receiving
<1>5. CASE q.new = "RECEIVED" /\ P.status # "RECEIVED"
  <2>1. PICK lines \in Deliveries[p], raced \in BOOLEAN :
          /\ reqs' = [reqs EXCEPT ![r] = [[q EXCEPT !.todo = lines] EXCEPT
                        !.at = IF lines = << >> THEN "status" ELSE "level"]]
          /\ purchases' = [purchases EXCEPT ![p].asked = Lines(lines),
               ![p].why = IF raced THEN P.why \cup {"raced"} ELSE P.why]
          /\ raced <=> \E x \in Rivals(r) : reqs[x].new = "RECEIVED" /\ reqs[x].at # "fetch"
    <3>1. PICK lines \in Deliveries[p] :
            /\ reqs' = [reqs EXCEPT ![r] = [[q EXCEPT !.todo = lines] EXCEPT
                          !.at = IF lines = << >> THEN "status" ELSE "level"]]
            /\ purchases' = [purchases EXCEPT
                 ![p].asked = {lines[i] : i \in DOMAIN lines},
                 ![p].why = IF \E x \in Rivals(r) : reqs[x].new = "RECEIVED" /\ reqs[x].at # "fetch"
                              THEN @ \cup {"raced"} ELSE @]
          BY <1>1, <1>5, ZenonT(60) DEF PurchaseFetch, Goto
    <3> DEFINE v == [[q EXCEPT !.todo = lines] EXCEPT
                          !.at = IF lines = << >> THEN "status" ELSE "level"]
               raced == \E x \in Rivals(r) : reqs[x].new = "RECEIVED" /\ reqs[x].at # "fetch"
    <3>2. raced \in BOOLEAN
          OBVIOUS
    <3>3. purchases' = [purchases EXCEPT ![p].asked = Lines(lines),
             ![p].why = IF raced THEN P.why \cup {"raced"} ELSE P.why]
          BY <1>2, <1>3, <3>1 DEF Lines, TypeOK, Purchase
    <3>4. raced <=> \E x \in Rivals(r) : reqs[x].new = "RECEIVED" /\ reqs[x].at # "fetch"
          OBVIOUS
    <3>5. reqs' = [reqs EXCEPT ![r] = v]
          BY <3>1
    <3> HIDE DEF raced
    <3> QED BY <3>2, <3>3, <3>4, <3>5
  <2> DEFINE at == IF lines = << >> THEN "status" ELSE "level"
             v  == [[q EXCEPT !.todo = lines] EXCEPT !.at = at]
             why == IF raced THEN P.why \cup {"raced"} ELSE P.why
  <2>2. lines \in Seq(Bins) /\ Distinct(lines)
        BY <1>2, InventoryAssumption DEF Distinct
  <2>3. /\ reqs'[r] = v /\ \A x \in Requests \ {r} : reqs'[x] = reqs[x]
        BY <2>1 DEF TypeOK
  <2>4. v.at = at /\ v.todo = lines /\ v.op = "purchase" /\ v.doc = p /\ v.new = "RECEIVED"
        BY <1>1, <1>2, <1>5 DEF Request
  <2> HIDE DEF v
  <2>5. Orderly(v) /\ Receiver(v, p)
        BY <2>2, <2>4 DEF Orderly, Receiver, Receiving
  <2>6. Left(v) = Lines(lines)
    <3>1. CASE lines = << >>
      <4>1. Lines(lines) = {}
            BY <3>1 DEF Lines
      <4> QED BY <2>4, <3>1, <4>1 DEF Left
    <3>2. CASE lines # << >>
          BY <2>4, <3>2 DEF Left
    <3> QED BY <3>1, <3>2
  <2>7. /\ \A d \in Purchases \ {p} : purchases'[d] = purchases[d]
        /\ purchases'[p].asked = Lines(lines) /\ purchases'[p].why = why
        /\ purchases'[p].got = P.got /\ purchases'[p].done = P.done
        /\ purchases'[p].status = P.status
        BY <1>2, <1>3, <2>1 DEF TypeOK, Purchase
  <2>8. /\ \A d \in Purchases \ {p} : ReceiptOf(d)'
        /\ \A x \in Requests : x # r => Orderly(reqs'[x])
        /\ Receivers(p) \ {r} = Receivers(p)' \ {r} /\ r \in Receivers(p)'
        BY <1>1, <1>2, <2>3, <2>4, <2>5, <2>7, OtherReceipts DEF Alike
  <2>9. ReceiptOf(p)'
    <3>1. CASE raced
      <4>1. "raced" \in purchases'[p].why
            BY <2>7, <3>1
      <4> QED BY <4>1 DEF ReceiptOf
    <3>2. CASE P.why # {}
      <4>1. P.why \subseteq purchases'[p].why
            BY <2>7
      <4>2. purchases'[p].why # {}
            BY <3>2, <4>1
      <4> QED BY <4>2 DEF ReceiptOf
    <3>3. CASE ~raced /\ P.why = {}
      <4>1. Receivers(p) = {}
        <5>1. \A x \in Receivers(p) : x \in Rivals(r) /\ reqs[x].new = "RECEIVED" /\ reqs[x].at # "fetch"
              BY <1>1, <1>4 DEF Receivers, Receiver, Rivals, Receiving, Ended
        <5> QED BY <2>1, <3>3, <5>1
      <4>2. ~P.done /\ \A b \in Bins : P.got[b] = 0
        <5>1. ~P.done
              BY <1>3, <1>5, <3>3 DEF ReceiptOf
        <5>2. \A x \in Requests : Receivers(p) # {x}
              BY <4>1
        <5> QED BY <1>3, <3>3, <5>1, <5>2 DEF ReceiptOf
      <4>3. Receivers(p)' = {r}
            BY <2>8, <4>1
      <4>4. GotAllBut(p, Lines(lines))'
            BY <2>7, <4>2 DEF GotAllBut
      <4>5. Left(reqs'[r]) = Lines(lines)
            BY <2>3, <2>6
      <4> QED BY <1>5, <2>7, <4>2, <4>3, <4>4, <4>5 DEF ReceiptOf
    <3> QED BY <3>1, <3>2, <3>3
  <2> QED BY <2>3, <2>5, <2>8, <2>9 DEF Received
<1>6. CASE ~(q.new = "RECEIVED" /\ P.status # "RECEIVED")
  <2> DEFINE v == [q EXCEPT !.at = "status"]
  <2>1. reqs' = [reqs EXCEPT ![r] = v] /\ UNCHANGED purchases
        BY <1>1, <1>6 DEF PurchaseFetch, Goto
  <2>2. /\ reqs'[r] = v /\ \A x \in Requests \ {r} : reqs'[x] = reqs[x]
        BY <2>1 DEF TypeOK
  <2>3. v.at = "status" /\ v.op = "purchase" /\ v.doc = p /\ v.new = q.new
        BY <1>1, <1>2 DEF Request
  <2> HIDE DEF v
  <2>4. Orderly(v) /\ Left(v) = {} /\ (Receiver(v, p) <=> q.new = "RECEIVED")
        BY <2>3 DEF Orderly, Left, Receiver, Receiving
  <2>5. /\ \A d \in Purchases \ {p} : ReceiptOf(d)'
        /\ \A x \in Requests : x # r => Orderly(reqs'[x])
        /\ Receivers(p) \ {r} = Receivers(p)' \ {r}
        /\ r \in Receivers(p)' <=> Receiver(v, p)
        BY <1>1, <1>2, <2>1, <2>2, <2>3, OtherReceipts DEF Alike
  <2>6. ReceiptOf(p)'
    <3>1. \A x \in Receivers(p) : reqs'[x] = reqs[x]
          BY <1>4, <2>2 DEF Receivers
    <3>2. \A B : GotAllBut(p, B)' <=> GotAllBut(p, B)
          BY <2>1 DEF GotAllBut
    <3>3. CASE q.new # "RECEIVED"
      <4>1. Receivers(p)' = Receivers(p)
            BY <1>4, <2>4, <2>5, <3>3
      <4> QED BY <1>3, <2>1, <3>1, <3>2, <4>1 DEF ReceiptOf
    <3>4. CASE q.new = "RECEIVED" /\ P.why = {}
      <4>1. P.status = "RECEIVED" /\ P.done
            BY <1>3, <1>6, <3>4 DEF ReceiptOf
      <4>2. GotAllBut(p, {}) /\ \A x \in Receivers(p) : Left(reqs[x]) = {}
            BY <1>3, <3>4, <4>1 DEF ReceiptOf
      <4>3. \A x \in Receivers(p)' : x = r \/ x \in Receivers(p)
            BY <2>5
      <4>4. \A x \in Receivers(p)' : Left(reqs'[x]) = {}
            BY <2>2, <2>4, <3>1, <4>2, <4>3
      <4>5. GotAllBut(p, {})'
            BY <3>2, <4>2
      <4> QED BY <2>1, <4>1, <4>4, <4>5 DEF ReceiptOf
    <3>5. CASE P.why # {}
          BY <2>1, <3>5 DEF ReceiptOf
    <3> QED BY <3>3, <3>4, <3>5
  <2> QED BY <2>2, <2>4, <2>5, <2>6 DEF Received
<1> QED BY <1>5, <1>6

LEMMA LevelReceipt ==
  ASSUME TypeOK, CallsGood, Received, NEW r \in Requests, PurchaseLevel(r)
  PROVE  Received'
<1>1. PICK q, p, c : q = reqs[r] /\ p = q.doc /\ c = Bin(r)
      OBVIOUS
<1>2. /\ q \in Request /\ q.at = "level" /\ q.op = "purchase" /\ p \in Purchases
      /\ q.todo # << >> /\ q.todo \in Seq(Bins) /\ c \in Bins /\ c = Head(q.todo)
      /\ Distinct(q.todo) /\ q.new = "RECEIVED"
      BY <1>1, BinType DEF CallsGood, Good, PurchaseLevel, Ended, Bin, Received, Orderly, Request
<1> DEFINE P == purchases[p]
           v == [q EXCEPT !.at = "log"]
<1>3. P \in Purchase /\ P.got \in [Bins -> Nat] /\ ReceiptOf(p)
      BY <1>2 DEF TypeOK, Received, Purchase
<1>4. r \in Receivers(p) /\ Left(q) = Lines(q.todo)
      BY <1>1, <1>2 DEF Receivers, Receiver, Receiving, Left
<1>5. /\ v.at = "log" /\ v.todo = q.todo /\ v.op = "purchase" /\ v.doc = p /\ v.new = "RECEIVED"
      BY <1>1, <1>2 DEF Request
<1>6. reqs'[r] = v /\ \A x \in Requests \ {r} : Alike(reqs[x], reqs'[x])
  <2>1. After(r, v, {Bin(r)})
        BY <1>1 DEF PurchaseLevel
  <2> HIDE DEF v
  <2>2. reqs'[r] = v
        BY <2>1 DEF After
  <2> QED BY <2>1, <2>2, AfterAlike
<1> HIDE DEF v
<1>7. Orderly(v) /\ Receiver(v, p) /\ Left(v) = Lines(Tail(q.todo))
      BY <1>2, <1>5 DEF Orderly, Receiver, Receiving, Left
<1>8. /\ \A d \in Purchases \ {p} : purchases'[d] = purchases[d]
      /\ purchases'[p].asked = P.asked /\ purchases'[p].why = P.why
      /\ purchases'[p].got = [P.got EXCEPT ![c] = @ + 1] /\ purchases'[p].done = P.done
      /\ purchases'[p].status = P.status
      BY <1>1, <1>2, <1>3 DEF PurchaseLevel, TypeOK, Purchase
<1>9. /\ \A d \in Purchases \ {p} : ReceiptOf(d)'
      /\ \A x \in Requests : x # r => Orderly(reqs'[x])
      /\ Receivers(p) \ {r} = Receivers(p)' \ {r} /\ r \in Receivers(p)'
      BY <1>1, <1>2, <1>5, <1>6, <1>7, <1>8, OtherReceipts
<1>10. Lines(q.todo) = Lines(Tail(q.todo)) \cup {c} /\ c \notin Lines(Tail(q.todo))
      BY <1>2, LinesOf
<1>11. ASSUME P.why = {} PROVE ReceiptOf(p)'
  <2>1. ~P.done
        BY <1>1, <1>3, <1>4, <1>10, <1>11 DEF ReceiptOf
  <2>2. /\ P.status # "RECEIVED" /\ Receivers(p) = {r}
        /\ Left(q) \subseteq P.asked /\ GotAllBut(p, Left(q))
    <3>1. PICK x \in Requests : /\ Receivers(p) = {x} /\ Left(reqs[x]) \subseteq P.asked
                                /\ GotAllBut(p, Left(reqs[x])) /\ P.status # "RECEIVED"
          BY <1>3, <1>4, <1>11, <2>1 DEF ReceiptOf
    <3>2. x = r
          BY <1>4, <3>1
    <3> QED BY <1>1, <3>1, <3>2
  <2>3. Receivers(p)' = {r}
        BY <1>9, <2>2
  <2>4. GotAllBut(p, Left(v))'
    <3> SUFFICES ASSUME NEW b \in Bins
                 PROVE  purchases'[p].got[b] = IF b \in P.asked \ Lines(Tail(q.todo)) THEN 1 ELSE 0
        BY <1>7, <1>8, <1>5, <1>6 DEF GotAllBut, Left
    <3>1. P.got[b] = IF b \in P.asked \ Lines(q.todo) THEN 1 ELSE 0
          BY <1>4, <2>2 DEF GotAllBut
    <3>2. CASE b = c
      <4>1. P.got[b] = 0 /\ b \in P.asked
            BY <1>4, <1>10, <2>2, <3>1, <3>2
      <4> QED BY <1>3, <1>8, <1>10, <3>2, <4>1
    <3>3. CASE b # c
          BY <1>3, <1>8, <1>10, <3>1, <3>3
    <3> QED BY <3>2, <3>3
  <2>5. Left(reqs'[r]) = Left(v) /\ Left(v) \subseteq P.asked
        BY <1>4, <1>6, <1>7, <1>10, <2>2
  <2> QED BY <1>8, <2>1, <2>2, <2>3, <2>4, <2>5 DEF ReceiptOf
<1>12. ASSUME P.why # {} PROVE ReceiptOf(p)'
      BY <1>8, <1>12 DEF ReceiptOf
<1>13. ReceiptOf(p)'
      BY <1>11, <1>12
<1> QED BY <1>6, <1>7, <1>9, <1>13 DEF Received

LEMMA LogReceipt ==
  ASSUME TypeOK, CallsGood, Received, NEW r \in Requests, PurchaseLog(r)
  PROVE  Received'
<1>1. PICK q, p : q = reqs[r] /\ p = q.doc
      OBVIOUS
<1>2. /\ q \in Request /\ q.at = "log" /\ q.op = "purchase" /\ p \in Purchases
      /\ q.todo # << >> /\ q.todo \in Seq(Bins) /\ Distinct(q.todo) /\ q.new = "RECEIVED"
      BY <1>1 DEF CallsGood, Good, PurchaseLog, Ended, Received, Orderly, Request
<1> DEFINE at == IF Tail(q.todo) = << >> THEN "status" ELSE "level"
           v  == [[q EXCEPT !.todo = Tail(q.todo)] EXCEPT !.at = at]
<1>3. reqs' = [reqs EXCEPT ![r] = v] /\ UNCHANGED purchases
      BY <1>1, <1>2 DEF PurchaseLog, Goto, Request
<1>4. reqs'[r] = v /\ \A x \in Requests \ {r} : reqs'[x] = reqs[x]
      BY <1>3 DEF TypeOK
<1>5. /\ v.at = at /\ v.todo = Tail(q.todo) /\ v.op = "purchase" /\ v.doc = p
      /\ v.new = "RECEIVED"
      BY <1>1, <1>2 DEF Request
<1> HIDE DEF v
<1>6. Distinct(Tail(q.todo))
      BY <1>2, LinesOf
<1>7. Orderly(v) /\ Receiver(v, p)
      BY <1>5, <1>6 DEF Orderly, Receiver, Receiving
<1>8. Left(v) = Left(q)
  <2>1. CASE Tail(q.todo) = << >>
    <3>1. Lines(Tail(q.todo)) = {}
          BY <2>1 DEF Lines
    <3> QED BY <1>2, <1>5, <2>1, <3>1 DEF Left
  <2>2. CASE Tail(q.todo) # << >>
        BY <1>2, <1>5, <2>2 DEF Left
  <2> QED BY <2>1, <2>2
<1>9. /\ \A d \in Purchases \ {p} : ReceiptOf(d)'
      /\ \A x \in Requests : x # r => Orderly(reqs'[x])
      /\ Receivers(p) \ {r} = Receivers(p)' \ {r} /\ r \in Receivers(p)'
  <2>1. \A x \in Requests \ {r} : Alike(reqs[x], reqs'[x])
        BY <1>4 DEF Alike
  <2>2. \A d \in Purchases \ {p} : purchases'[d] = purchases[d]
        BY <1>3
  <2>3. reqs'[r] = v /\ reqs[r].doc = p /\ v.doc = p
        BY <1>1, <1>4, <1>5
  <2> QED BY <1>2, <1>7, <2>1, <2>2, <2>3, OtherReceipts
<1>10. Receivers(p)' = Receivers(p)
  <2>1. r \in Receivers(p)
        BY <1>1, <1>2 DEF Receivers, Receiver, Receiving
  <2> QED BY <1>9, <2>1
<1>11. \A x \in Requests : Left(reqs'[x]) = Left(reqs[x])
      BY <1>1, <1>4, <1>8
<1>12. \A B : GotAllBut(p, B)' <=> GotAllBut(p, B)
      BY <1>3 DEF GotAllBut
<1>13. ReceiptOf(p)
      BY <1>2 DEF Received
<1>14. ReceiptOf(p)'
      BY <1>3, <1>10, <1>11, <1>12, <1>13 DEF ReceiptOf
<1> QED BY <1>4, <1>7, <1>9, <1>14 DEF Received

LEMMA StatusReceipt ==
  ASSUME TypeOK, CallsGood, Received, NEW r \in Requests, PurchaseStatus(r)
  PROVE  Received'
<1>1. PICK q, p : q = reqs[r] /\ p = q.doc
      OBVIOUS
<1>2. /\ q \in Request /\ q.at = "status" /\ q.op = "purchase" /\ p \in Purchases
      BY <1>1 DEF CallsGood, Good, PurchaseStatus, Ended
<1> DEFINE P == purchases[p]
           z == [Idle EXCEPT !.at = "done"]
<1>3. P \in Purchase /\ ReceiptOf(p)
      BY <1>2 DEF TypeOK, Received
<1>4. reqs'[r] = z /\ \A x \in Requests \ {r} : reqs'[x] = reqs[x]
      BY <1>1 DEF PurchaseStatus, Goto, TypeOK
<1>5. z.at = "done"
      BY DEF Idle
<1> HIDE DEF z
<1>6. Orderly(z) /\ z.at \notin Receiving /\ ~Receiver(z, p)
      BY <1>5 DEF Orderly, Receiving, Receiver
<1>7. /\ \A d \in Purchases \ {p} : purchases'[d] = purchases[d]
      /\ purchases'[p].asked = P.asked /\ purchases'[p].got = P.got
      /\ purchases'[p].status = q.new
      /\ purchases'[p].done = (P.done \/ q.new = "RECEIVED")
      /\ purchases'[p].why = IF P.done /\ q.new # "RECEIVED" THEN P.why \cup {"reopened"} ELSE P.why
      BY <1>1, <1>2, <1>3 DEF PurchaseStatus, TypeOK, Purchase
<1>8. /\ \A d \in Purchases \ {p} : ReceiptOf(d)'
      /\ \A x \in Requests : x # r => Orderly(reqs'[x])
      /\ Receivers(p)' = Receivers(p) \ {r}
  <2>1. \A x \in Requests \ {r} : Alike(reqs[x], reqs'[x])
        BY <1>4 DEF Alike
  <2>2. /\ \A d \in Purchases \ {p} : ReceiptOf(d)'
        /\ \A x \in Requests : x # r => Orderly(reqs'[x])
        /\ Receivers(p) \ {r} = Receivers(p)' \ {r} /\ ~(r \in Receivers(p)')
        BY <1>1, <1>2, <1>4, <1>6, <1>7, <2>1, OtherReceipts
  <2> QED BY <2>2
<1>9. \A B : GotAllBut(p, B)' <=> GotAllBut(p, B)
      BY <1>7 DEF GotAllBut
<1>10. \A x \in Requests \ {r} : Left(reqs'[x]) = Left(reqs[x])
      BY <1>4
<1>11. ASSUME purchases'[p].why = {} PROVE ReceiptOf(p)'
  <2>1. P.why = {} /\ (P.done => q.new = "RECEIVED")
    <3>1. CASE P.done /\ q.new # "RECEIVED"
      <4>1. "reopened" \in purchases'[p].why
            BY <1>7, <3>1
      <4> QED BY <1>11, <4>1
    <3> QED BY <1>7, <1>11, <3>1
  <2>2. CASE P.done
    <3>1. P.status = "RECEIVED" /\ GotAllBut(p, {}) /\ \A x \in Receivers(p) : Left(reqs[x]) = {}
          BY <1>3, <2>1, <2>2 DEF ReceiptOf
    <3>2. \A x \in Receivers(p)' : Left(reqs'[x]) = {}
          BY <1>8, <1>10, <3>1 DEF Receivers
    <3>3. GotAllBut(p, {})'
          BY <1>9, <3>1
    <3> QED BY <1>7, <2>1, <2>2, <3>2, <3>3 DEF ReceiptOf
  <2>3. CASE ~P.done /\ q.new = "RECEIVED"
    <3>1. r \in Receivers(p)
          BY <1>1, <1>2, <2>3 DEF Receivers, Receiver, Receiving
    <3>2. PICK x \in Requests : Receivers(p) = {x} /\ GotAllBut(p, Left(reqs[x]))
          BY <1>3, <2>1, <2>3, <3>1 DEF ReceiptOf
    <3>3. x = r /\ Left(q) = {}
          BY <1>2, <3>1, <3>2 DEF Left
    <3>4. GotAllBut(p, {})' /\ Receivers(p)' = {}
          BY <1>1, <1>8, <1>9, <3>2, <3>3
    <3> QED BY <1>7, <2>3, <3>4 DEF ReceiptOf
  <2>4. CASE ~P.done /\ q.new # "RECEIVED"
    <3>1. r \notin Receivers(p)
          BY <1>1, <2>4 DEF Receivers, Receiver
    <3>2. Receivers(p)' = Receivers(p)
          BY <1>8, <3>1
    <3>3. CASE Receivers(p) = {} /\ \A b \in Bins : P.got[b] = 0
          BY <1>7, <2>4, <3>2, <3>3 DEF ReceiptOf
    <3>4. CASE \E x \in Requests : /\ Receivers(p) = {x} /\ Left(reqs[x]) \subseteq P.asked
                                   /\ GotAllBut(p, Left(reqs[x]))
      <4>1. PICK x \in Requests : /\ Receivers(p) = {x} /\ Left(reqs[x]) \subseteq P.asked
                                  /\ GotAllBut(p, Left(reqs[x]))
            BY <3>4
      <4>2. Left(reqs'[x]) = Left(reqs[x])
            BY <1>10, <3>1, <4>1
      <4>3. GotAllBut(p, Left(reqs[x]))'
        <5>1. PICK B : B = Left(reqs[x])
              OBVIOUS
        <5>2. GotAllBut(p, B)'
              BY <1>9, <4>1, <5>1
        <5> QED BY <4>2, <5>1, <5>2
      <4> QED BY <1>7, <2>4, <3>2, <4>1, <4>2, <4>3 DEF ReceiptOf
    <3> QED BY <1>3, <2>1, <2>4, <3>3, <3>4 DEF ReceiptOf
  <2> QED BY <2>1, <2>2, <2>3, <2>4
<1>12. ReceiptOf(p)'
      BY <1>11 DEF ReceiptOf
<1> QED BY <1>4, <1>6, <1>8, <1>12 DEF Received

LEMMA FailReceipt ==
  ASSUME TypeOK, CallsGood, Received, NEW r \in Requests, Fail(r)
  PROVE  Received'
<1>1. PICK q, p : q = reqs[r] /\ p = q.doc
      OBVIOUS
<1> DEFINE z == [Idle EXCEPT !.at = "done"]
<1>2. reqs' = [reqs EXCEPT ![r] = z] /\ Good(q) /\ q.at \notin Ended
      BY <1>1 DEF Fail, Goto, CallsGood
<1>3. z.at \notin Receiving /\ z.at = "done"
      BY DEF Idle, Receiving
<1>4. reqs'[r] = z /\ \A x \in Requests \ {r} : reqs'[x] = reqs[x]
      BY <1>2 DEF TypeOK
<1> HIDE DEF z
<1>5. CASE q.at \notin Receiving
  <2>1. UNCHANGED purchases
        BY <1>1, <1>5 DEF Fail, Receiving
  <2> QED BY <1>1, <1>2, <1>3, <1>5, <2>1, GoAlike, SameReceipt
<1>6. CASE q.at \in Receiving
  <2>1. q.op = "purchase" /\ p \in Purchases /\ purchases[p] \in Purchase
        BY <1>1, <1>2, <1>6 DEF Good, Receiving, TypeOK
  <2>2. \A x \in Requests \ {r} : Alike(reqs[x], reqs'[x])
        BY <1>4 DEF Alike
  <2>3. Orderly(z) /\ ~Receiver(z, p)
        BY <1>3 DEF Orderly, Receiver
  <2>4. \A d \in Purchases \ {p} : purchases'[d] = purchases[d]
        BY <1>1, <2>1 DEF Fail, TypeOK
  <2>5. /\ \A d \in Purchases \ {p} : ReceiptOf(d)'
        /\ \A x \in Requests : x # r => Orderly(reqs'[x])
        /\ Receivers(p) \ {r} = Receivers(p)' \ {r} /\ ~(r \in Receivers(p)')
        BY <1>1, <1>3, <1>4, <2>1, <2>2, <2>3, <2>4, OtherReceipts
  <2>6. CASE q.new = "RECEIVED"
    <3>1. purchases' = [purchases EXCEPT ![p].why = @ \cup {"interrupted"}]
          BY <1>1, <1>6, <2>6 DEF Fail, Receiving
    <3>2. "interrupted" \in purchases'[p].why
          BY <2>1, <3>1 DEF TypeOK, Purchase
    <3>3. ReceiptOf(p)'
          BY <3>2 DEF ReceiptOf
    <3> QED BY <1>4, <2>3, <2>5, <3>3 DEF Received
  <2>7. CASE q.new # "RECEIVED"
    <3>1. UNCHANGED purchases /\ r \notin Receivers(p)
          BY <1>1, <2>7 DEF Fail, Receivers, Receiver
    <3>2. Receivers(p)' = Receivers(p)
          BY <2>5, <3>1
    <3>3. \A x \in Receivers(p) : Left(reqs'[x]) = Left(reqs[x])
          BY <1>4, <3>1 DEF Receivers
    <3>4. \A B : GotAllBut(p, B)' <=> GotAllBut(p, B)
          BY <3>1 DEF GotAllBut
    <3>5. ReceiptOf(p)
          BY <2>1 DEF Received
    <3>6. ReceiptOf(p)'
          BY <3>1, <3>2, <3>3, <3>4, <3>5 DEF ReceiptOf
    <3> QED BY <1>4, <2>3, <2>5, <3>6 DEF Received
  <2> QED BY <2>6, <2>7
<1> QED BY <1>5, <1>6

LEMMA ReceivedInductive == Spec => []Received
<1>1. Init => Received
  <2> SUFFICES ASSUME Init PROVE Received
      OBVIOUS
  <2>1. \A r \in Requests : reqs[r].at = "idle"
        BY DEF Init, Idle
  <2>2. \A r \in Requests : Orderly(reqs[r])
        BY <2>1 DEF Orderly
  <2>3. \A p : Receivers(p) = {}
        BY <2>1 DEF Receivers, Receiver, Receiving
  <2>4. \A p \in Purchases : /\ ~purchases[p].done /\ purchases[p].status # "RECEIVED"
                             /\ \A b \in Bins : purchases[p].got[b] = 0
        BY DEF Init
  <2> QED BY <2>2, <2>3, <2>4 DEF Received, ReceiptOf
<1>2. TypeOK /\ CallsGood /\ LevelExplained /\ Received /\ [Next]_vars => Received'
  <2> SUFFICES ASSUME TypeOK, CallsGood, LevelExplained, Received, [Next]_vars PROVE Received'
      OBVIOUS
  <2>1. CASE UNCHANGED vars
    <3>1. \A x \in Requests : Alike(reqs[x], reqs'[x])
          BY <2>1 DEF vars, Alike
    <3> QED BY <2>1, <3>1, SameReceipt DEF vars
  <2>2. CASE Next
    <3> PICK r \in Requests : Begin(r) \/ Step(r) \/ Fail(r)
        BY <2>2 DEF Next
    <3> QED BY QuietReceipt, FetchReceipt, LevelReceipt, LogReceipt, StatusReceipt, FailReceipt
            DEF Step
  <2> QED BY <2>1, <2>2
<1> QED BY <1>1, <1>2, LevelInductive, PTL DEF Spec

\* A line of an order is received at most once, and an order that reads RECEIVED has the
\* lines it was told, unless calls raced, one stopped halfway or the order was reopened:
\* for any number of calls, orders and lines.
THEOREM ReceivedCorrect == Spec => []ReceivedOnce
<1>1. TypeOK /\ Received => ReceivedOnce
  <2> SUFFICES ASSUME TypeOK, Received, NEW p \in Purchases, purchases[p].why = {}
               PROVE  /\ \A b \in Bins : purchases[p].got[b] <= 1
                      /\ purchases[p].status = "RECEIVED" =>
                           \A b \in purchases[p].asked : purchases[p].got[b] = 1
      BY DEF ReceivedOnce
  <2>1. ReceiptOf(p) /\ purchases[p].asked \subseteq Bins
        BY DEF Received, TypeOK, Purchase
  <2>2. CASE purchases[p].done
        BY <2>1, <2>2 DEF ReceiptOf, GotAllBut
  <2>3. CASE ~purchases[p].done
        BY <2>1, <2>3 DEF ReceiptOf, GotAllBut
  <2> QED BY <2>2, <2>3
<1> QED BY <1>1, LevelInductive, ReceivedInductive, PTL

=============================================================================
