---------------------------- MODULE OrdersProofs ----------------------------
(***************************************************************************)
(* Proofs about Orders for any number of orders, lines, products, tables,  *)
(* requests and attempts.                                                  *)
(***************************************************************************)
EXTENDS Orders, SequenceTheorems, WellFoundedInduction, TLAPS

-----------------------------------------------------------------------------
(* Stock.                                                                  *)

LEMMA LoadType == \A S \in SUBSET Items : Load[S] \in [Products -> Nat]
BY StockAssumption

LEMMA UnitsType ==
  ASSUME NEW i \in Items, NEW p \in Products, NEW n \in Nat
  PROVE  n * PerUnit[i][p] \in Nat
<1>1. PerUnit[i][p] \in Nat
      BY StockAssumption
<1>2. \A a, b \in Nat : a * b \in Nat
      OBVIOUS
<1> QED BY <1>1, <1>2

\* The worker decrements one product for one line of an order it fired.
Slipping == \E i \in Items, p \in Products : \E n \in Nat \ {0} :
  /\ level' = [level EXCEPT ![p] = @ - n]
  /\ slipped' = [slipped EXCEPT ![p] = @ + n]
  /\ out' = [out EXCEPT ![i][p] = @ + n]
  /\ UNCHANGED <<moved, back>>

\* All a step of the order desk can do to the stock tables.
StockStep ==
  \/ UNCHANGED stock
  \/ \E S \in SUBSET Items : Deduct(S) \/ Restore(S)
  \/ \E i \in Items, n \in Nat : RestoreUnits(i, n)
  \/ Slipping

LEMMA StockSteps == ASSUME RequestsType, QueueType, [Next]_vars PROVE StockStep
<1>1. CASE UNCHANGED vars
      BY <1>1 DEF vars, StockStep
<1>2. ASSUME NEW w \in Workers, Receive(w) PROVE UNCHANGED stock
      BY <1>2 DEF Receive, CreateDirectRead, StatusRead, AssignRead, VoidRead, RefundOrderRead,
                  RefundItemRead, CheckoutRead
<1>3. ASSUME NEW w \in Workers, CreateDirectCommit(w) PROVE StockStep
  <2>1. reqs[w].lines \in SUBSET Items
        BY DEF RequestsType, Request
  <2> QED BY <1>3, <2>1 DEF CreateDirectCommit, StockStep
<1>4. ASSUME NEW w \in Workers, VoidCommit(w) \/ RefundOrderCommit(w) PROVE StockStep
  <2>1. reqs[w].lines \in SUBSET Items
        BY DEF RequestsType, Request
  <2> QED BY <1>4, <2>1 DEF VoidCommit, RefundOrderCommit, StockStep
<1>5. ASSUME NEW w \in Workers, RefundItemCommit(w) PROVE StockStep
  <2>1. reqs[w].lines \in SUBSET Items /\ reqs[w].qty \in Nat
        BY DEF RequestsType, Request
  <2> QED BY <1>5, <2>1 DEF RefundItemCommit, StockStep
<1>6. ASSUME NEW w \in Workers,
             \/ CreateDirectWrite(w) \/ StatusPay(w) \/ StatusTill(w) \/ StatusWrite(w)
             \/ StatusTable(w) \/ AssignWrite(w) \/ RefundTill(w) \/ CheckoutOrder(w)
             \/ CheckoutTable(w) \/ Fail(w)
      PROVE UNCHANGED stock
      BY <1>6 DEF CreateDirectWrite, StatusPay, StatusTill, StatusWrite, StatusTable,
                  AssignWrite, RefundTill, CheckoutOrder, CheckoutTable, Fail
<1>7. ASSUME NEW i \in Items, NEW s \in ItemStatuses, UpdateItemStatus(i, s)
      PROVE UNCHANGED stock
      BY <1>7 DEF UpdateItemStatus
<1>8. ASSUME NEW i \in Items, VoidItem(i) PROVE UNCHANGED stock
      BY <1>8 DEF VoidItem
<1>9. ASSUME NEW j \in DOMAIN jobs,
             FireRead(j) \/ FireUpdate(j) \/ FireNotify(j) \/ FireError(j) \/ FireStall(j)
      PROVE UNCHANGED stock
      BY <1>9 DEF FireRead, FireUpdate, FireNotify, FireError, FireStall
<1>10. ASSUME NEW j \in DOMAIN jobs, FireDeduct(j) PROVE Slipping
  <2>1. PICK i \in jobs[j].lines, p \in Products :
          /\ Load[{i}][p] > 0
          /\ level' = [level EXCEPT ![p] = @ - Load[{i}][p]]
          /\ slipped' = [slipped EXCEPT ![p] = @ + Load[{i}][p]]
          /\ out' = [out EXCEPT ![i][p] = @ + Load[{i}][p]]
          /\ UNCHANGED <<moved, back>>
        BY <1>10 DEF FireDeduct
  <2>2. jobs[j] \in Job
        BY ElementOfSeq DEF QueueType
  <2>3. i \in Items
        BY <2>1, <2>2 DEF Job
  <2>4. Load[{i}][p] \in Nat \ {0}
        BY <2>1, <2>3, LoadType
  <2> QED BY <2>1, <2>3, <2>4 DEF Slipping
<1> QED BY <1>1, <1>2, <1>3, <1>4, <1>5, <1>6, <1>7, <1>8, <1>9, <1>10
        DEF Next, Handle, Fire, StockStep

LEMMA StockTypeStep == ASSUME StockType, StockStep PROVE StockType'
<1> USE DEF StockType
<1>1. CASE UNCHANGED stock
      BY <1>1 DEF stock
<1>2. ASSUME NEW S \in SUBSET Items, Deduct(S) PROVE StockType'
  <2>1. /\ \A p \in Products : Load[S][p] \in Nat
        /\ \A i \in S, p \in Products : Load[{i}][p] \in Nat
        BY LoadType
  <2>2. level' \in [Products -> Int] /\ moved' \in [Products -> Int]
        BY <1>2, <2>1 DEF Deduct
  <2>3. ASSUME NEW i \in Items, NEW p \in Products
        PROVE  out[i][p] + (IF i \in S THEN Load[{i}][p] ELSE 0) \in Nat
    <3>1. out[i][p] \in Nat /\ (i \in S => Load[{i}][p] \in Nat)
          BY <2>1
    <3> QED BY <3>1
  <2>4. out' = [i \in Items |-> [p \in Products |->
                   out[i][p] + IF i \in S THEN Load[{i}][p] ELSE 0]]
        BY <1>2 DEF Deduct
  <2>5. out' \in [Items -> [Products -> Nat]]
        BY <2>3, <2>4
  <2> QED BY <1>2, <2>2, <2>5 DEF Deduct
<1>3. ASSUME NEW S \in SUBSET Items, Restore(S) PROVE StockType'
  <2>1. /\ \A p \in Products : Load[S][p] \in Nat
        /\ \A i \in S, p \in Products : Load[{i}][p] \in Nat
        BY LoadType
  <2>2. level' \in [Products -> Int] /\ moved' \in [Products -> Int]
        BY <1>3, <2>1 DEF Restore
  <2>3. ASSUME NEW i \in Items, NEW p \in Products
        PROVE  back[i][p] + (IF i \in S THEN Load[{i}][p] ELSE 0) \in Nat
    <3>1. back[i][p] \in Nat /\ (i \in S => Load[{i}][p] \in Nat)
          BY <2>1
    <3> QED BY <3>1
  <2>4. back' = [i \in Items |-> [p \in Products |->
                   back[i][p] + IF i \in S THEN Load[{i}][p] ELSE 0]]
        BY <1>3 DEF Restore
  <2>5. back' \in [Items -> [Products -> Nat]]
        BY <2>3, <2>4
  <2> QED BY <1>3, <2>2, <2>5 DEF Restore
<1>4. ASSUME NEW i \in Items, NEW n \in Nat, RestoreUnits(i, n) PROVE StockType'
  <2> DEFINE units == [p \in Products |-> n * PerUnit[i][p]]
  <2>1. units \in [Products -> Nat]
        BY UnitsType
  <2>2. /\ level' = [p \in Products |-> level[p] + units[p]]
        /\ moved' = [p \in Products |-> moved[p] + units[p]]
        /\ back' = [back EXCEPT ![i] = [p \in Products |-> @[p] + units[p]]]
        /\ UNCHANGED <<slipped, out>>
        BY <1>4 DEF RestoreUnits
  <2> HIDE DEF units
  <2>3. level' \in [Products -> Int] /\ moved' \in [Products -> Int]
        BY <2>1, <2>2
  <2>4. back' \in [Items -> [Products -> Nat]]
        BY <2>1, <2>2
  <2> QED BY <2>2, <2>3, <2>4
<1>5. CASE Slipping
  <2>1. PICK i \in Items, p \in Products, n \in Nat \ {0} :
          /\ level' = [level EXCEPT ![p] = @ - n]
          /\ slipped' = [slipped EXCEPT ![p] = @ + n]
          /\ out' = [out EXCEPT ![i][p] = @ + n]
          /\ UNCHANGED <<moved, back>>
        BY <1>5 DEF Slipping
  <2>2. level' \in [Products -> Int] /\ slipped' \in [Products -> Nat]
        BY <2>1
  <2>3. out' \in [Items -> [Products -> Nat]]
        BY <2>1
  <2> QED BY <2>1, <2>2, <2>3
<1> QED BY <1>1, <1>2, <1>3, <1>4, <1>5 DEF StockStep

\* A step of the order desk is a posting or a slip of the stock ledger.
LEMMA LedgerStep == ASSUME StockType, StockStep PROVE [L!Post \/ L!Slip]_(L!ledger)
<1> USE DEF StockType
<1>1. CASE UNCHANGED stock
      BY <1>1 DEF stock, L!ledger
<1>2. ASSUME NEW S \in SUBSET Items, Deduct(S) \/ Restore(S) PROVE L!Post
  <2>1. \A p \in Products : Load[S][p] \in Nat
        BY LoadType
  <2>2. CASE Deduct(S)
        BY <2>1, <2>2 DEF Deduct, L!Post
  <2>3. CASE Restore(S)
        BY <2>1, <2>3 DEF Restore, L!Post
  <2> QED BY <1>2, <2>2, <2>3
<1>3. ASSUME NEW i \in Items, NEW n \in Nat, RestoreUnits(i, n) PROVE L!Post
  <2> DEFINE units == [p \in Products |-> n * PerUnit[i][p]]
  <2>1. units \in [Products -> Nat]
        BY UnitsType
  <2>2. /\ level' = [p \in Products |-> level[p] + units[p]]
        /\ moved' = [p \in Products |-> moved[p] + units[p]]
        BY <1>3 DEF RestoreUnits
  <2> HIDE DEF units
  <2> QED BY <2>1, <2>2 DEF L!Post
<1>4. CASE Slipping
  <2>1. PICK p \in Products, n \in Nat \ {0} :
          level' = [level EXCEPT ![p] = @ - n] /\ UNCHANGED moved
        BY <1>4 DEF Slipping
  <2> QED BY <2>1 DEF L!Slip
<1> QED BY <1>1, <1>2, <1>3, <1>4 DEF StockStep

\* The same change to both tables keeps what is true of one product.
LEMMA SameChange ==
  ASSUME NEW a \in Int, NEW b \in Int, NEW c \in Int, NEW d \in Int, NEW n \in Int,
         a + b = c + d
  PROVE  /\ (a + n) + b = c + (d + n)
         /\ (a - n) + b = c + (d - n)
         /\ (a - n) + (b + n) = c + d
OBVIOUS

LEMMA LedgerMatchesStep ==
  ASSUME StockType, StockStep, StockMatchesLedger PROVE StockMatchesLedger'
<1> SUFFICES ASSUME NEW p \in Products
             PROVE  level'[p] + slipped'[p] = Opening[p] + moved'[p]
    BY DEF StockMatchesLedger
<1>1. /\ level[p] \in Int /\ moved[p] \in Int /\ slipped[p] \in Int /\ Opening[p] \in Int
      /\ level[p] + slipped[p] = Opening[p] + moved[p]
      BY StockAssumption DEF StockType, StockMatchesLedger
<1>2. CASE UNCHANGED stock
      BY <1>1, <1>2 DEF stock
<1>3. ASSUME NEW S \in SUBSET Items, Deduct(S) \/ Restore(S)
      PROVE  level'[p] + slipped'[p] = Opening[p] + moved'[p]
  <2>1. Load[S][p] \in Int
        BY LoadType
  <2>2. \/ level'[p] = level[p] - Load[S][p] /\ moved'[p] = moved[p] - Load[S][p]
        \/ level'[p] = level[p] + Load[S][p] /\ moved'[p] = moved[p] + Load[S][p]
        BY <1>3 DEF Deduct, Restore
  <2>3. slipped'[p] = slipped[p]
        BY <1>3 DEF Deduct, Restore
  <2> QED BY <1>1, <2>1, <2>2, <2>3, SameChange
<1>4. ASSUME NEW i \in Items, NEW n \in Nat, RestoreUnits(i, n)
      PROVE  level'[p] + slipped'[p] = Opening[p] + moved'[p]
  <2>1. n * PerUnit[i][p] \in Int
        BY UnitsType
  <2>2. /\ level'[p] = level[p] + n * PerUnit[i][p]
        /\ moved'[p] = moved[p] + n * PerUnit[i][p]
        /\ slipped'[p] = slipped[p]
        BY <1>4 DEF RestoreUnits
  <2> QED BY <1>1, <2>1, <2>2, SameChange
<1>5. CASE Slipping
  <2>1. PICK q \in Products, n \in Nat \ {0} :
          /\ level' = [level EXCEPT ![q] = @ - n]
          /\ slipped' = [slipped EXCEPT ![q] = @ + n]
          /\ UNCHANGED moved
        BY <1>5 DEF Slipping
  <2>2. CASE p = q
    <3>1. level'[p] = level[p] - n /\ slipped'[p] = slipped[p] + n
          BY <2>1, <2>2 DEF StockType
    <3> QED BY <1>1, <2>1, <3>1, SameChange
  <2>3. CASE p # q
        BY <1>1, <2>1, <2>3 DEF StockType
  <2> QED BY <2>2, <2>3
<1> QED BY <1>2, <1>3, <1>4, <1>5 DEF StockStep

-----------------------------------------------------------------------------
(* The queue.                                                              *)

\* A job that can still run has an attempt left.
AttemptsLeft ==
  \A j \in DOMAIN jobs : jobs[j].at \in {"delayed", "active", "fired"} => jobs[j].tries < Attempts

\* Job j becomes job, an attempt left if it can still run.
Becomes(j, job) ==
  /\ job \in Job
  /\ job.order = jobs[j].order
  /\ job.at \in {"delayed", "active", "fired"} => job.tries < Attempts
  /\ jobs' = [jobs EXCEPT ![j] = job]

LEMMA BecomesKeepsQueue ==
  ASSUME QueueType, AttemptsLeft, NEW j \in DOMAIN jobs, NEW job, Becomes(j, job)
  PROVE  /\ jobs' \in Seq(Job) /\ AttemptsLeft'
         /\ DOMAIN jobs' = DOMAIN jobs
         /\ \A k \in DOMAIN jobs : jobs'[k].order = jobs[k].order
<1>1. j \in 1 .. Len(jobs) /\ DOMAIN jobs = 1 .. Len(jobs)
      BY LenProperties DEF QueueType
<1>2. /\ jobs' \in Seq(Job) /\ Len(jobs') = Len(jobs)
      /\ \A k \in 1 .. Len(jobs) : jobs'[k] = IF k = j THEN job ELSE jobs[k]
      BY <1>1, ExceptSeq DEF QueueType, Becomes
<1>3. DOMAIN jobs' = 1 .. Len(jobs)
      BY <1>2, LenProperties
<1> QED BY <1>1, <1>2, <1>3 DEF AttemptsLeft, Becomes

\* Whatever happens to a job, it stays a job for the same order.
LEMMA JobSteps ==
  ASSUME QueueType, AttemptsLeft, NEW j \in DOMAIN jobs,
         Fire(j) \/ FireError(j) \/ FireStall(j)
  PROVE  \E job : Becomes(j, job)
<1> DEFINE old == jobs[j]
<1>1. old \in Job /\ (old.at \in {"delayed", "active", "fired"} => old.tries < Attempts)
      BY ElementOfSeq DEF QueueType, AttemptsLeft
<1>2. CASE FireRead(j)
  <2> DEFINE job == [old EXCEPT !.at = IF orders[old.order].status = "SCHEDULED" THEN "active" ELSE "done",
                                !.lines = Lines(old.order)]
  <2>1. jobs' = [jobs EXCEPT ![j] = job]
        BY <1>2 DEF FireRead
  <2>2. job \in Job /\ job.order = old.order /\ job.tries = old.tries
        BY <1>1, <1>2 DEF FireRead, Job, Lines
  <2> QED BY <1>1, <1>2, <2>1, <2>2 DEF FireRead, Becomes
<1>3. CASE FireUpdate(j)
  <2> DEFINE job == [old EXCEPT !.at = "fired", !.moved = TRUE]
  <2>1. jobs' = [jobs EXCEPT ![j] = job]
        BY <1>3 DEF FireUpdate
  <2>2. job \in Job /\ job.order = old.order /\ job.tries = old.tries
        BY <1>1 DEF Job
  <2> QED BY <1>1, <1>3, <2>1, <2>2 DEF FireUpdate, Becomes
<1>4. CASE FireNotify(j)
  <2> DEFINE job == [old EXCEPT !.at = "done"]
  <2>1. jobs' = [jobs EXCEPT ![j] = job]
        BY <1>4 DEF FireNotify, SetJob
  <2>2. job \in Job /\ job.order = old.order /\ job.at = "done"
        BY <1>1 DEF Job
  <2> QED BY <2>1, <2>2 DEF Becomes
<1>5. CASE Rethrow(j) /\ old.at \in {"active", "fired"}
  <2> DEFINE job == [old EXCEPT !.tries = @ + 1,
                                !.at = IF old.tries + 1 < Attempts THEN "delayed" ELSE "failed"]
  <2>1. jobs' = [jobs EXCEPT ![j] = job]
        BY <1>5 DEF Rethrow
  <2>2. old.tries + 1 \in 0 .. Attempts
        BY <1>1, <1>5, InputAssumption DEF Job
  <2>3. job \in Job /\ job.order = old.order
        BY <1>1, <2>2 DEF Job
  <2>4. job.at \in {"delayed", "active", "fired"} => job.tries < Attempts
        BY <1>1 DEF Job
  <2> QED BY <2>1, <2>3, <2>4 DEF Becomes
<1>6. CASE Stall(j) /\ old.at \in {"active", "fired"}
  <2> DEFINE job == [old EXCEPT !.stalled = TRUE, !.at = IF old.stalled THEN "failed" ELSE "delayed"]
  <2>1. jobs' = [jobs EXCEPT ![j] = job]
        BY <1>6 DEF Stall
  <2>2. job \in Job /\ job.order = old.order /\ job.tries = old.tries
        BY <1>1 DEF Job
  <2> QED BY <1>1, <1>6, <2>1, <2>2 DEF Becomes
<1> QED BY <1>2, <1>3, <1>4, <1>5, <1>6 DEF Fire, FireDeduct, FireError, FireStall

NewJob(o) == [order |-> o, at |-> "delayed", tries |-> 0, stalled |-> FALSE,
              moved |-> FALSE, lines |-> {}]

\* All a step can do to the queue and to what the kitchen was told.
QueueStep ==
  /\ kds' \in SUBSET Orders /\ kds \subseteq kds'
  /\ \/ UNCHANGED jobs
     \/ \E o \in Orders : jobs' = Append(jobs, NewJob(o))
     \/ \E j \in DOMAIN jobs, job \in Job : Becomes(j, job)

LEMMA QueueSteps ==
  ASSUME RowsType, QueueType, AttemptsLeft, [Next]_vars PROVE QueueStep
<1> USE DEF QueueType
<1>1. CASE UNCHANGED queue
      BY <1>1 DEF queue, QueueStep
<1>2. UNCHANGED vars => UNCHANGED queue
      BY DEF vars
<1>3. ASSUME NEW w \in Workers, Receive(w) PROVE UNCHANGED queue
      BY <1>3 DEF Receive, CreateDirectRead, StatusRead, AssignRead, VoidRead, RefundOrderRead,
                  RefundItemRead, CheckoutRead
<1>4. ASSUME NEW w \in Workers,
             \/ CreateDirectCommit(w) \/ StatusPay(w) \/ StatusTill(w) \/ StatusWrite(w)
             \/ StatusTable(w) \/ AssignWrite(w) \/ VoidCommit(w) \/ RefundTill(w)
             \/ RefundOrderCommit(w) \/ RefundItemCommit(w) \/ CheckoutOrder(w)
             \/ CheckoutTable(w) \/ Fail(w)
      PROVE  UNCHANGED queue
      BY <1>4 DEF CreateDirectCommit, StatusPay, StatusTill, StatusWrite, StatusTable,
                  AssignWrite, VoidCommit, RefundTill, RefundOrderCommit, RefundItemCommit,
                  CheckoutOrder, CheckoutTable, Fail
<1>5. ASSUME NEW w \in Workers, CreateDirectWrite(w) PROVE QueueStep
  <2>1. PICK id \in Orders :
          /\ kds' = (IF reqs[w].flag THEN kds ELSE kds \cup {id})
          /\ jobs' = IF reqs[w].flag THEN Append(jobs, NewJob(id)) ELSE jobs
        BY <1>5 DEF CreateDirectWrite, NewJob
  <2> QED BY <2>1 DEF QueueStep
<1>6. ASSUME NEW i \in Items, VoidItem(i) PROVE UNCHANGED queue
      BY <1>6 DEF VoidItem
<1>7. ASSUME NEW i \in Items, NEW s \in ItemStatuses, UpdateItemStatus(i, s) PROVE QueueStep
  <2>1. items[i].order \in Orders
        BY <1>7, InputAssumption DEF UpdateItemStatus, RowsType, Orders
  <2> QED BY <1>7, <2>1 DEF UpdateItemStatus, QueueStep
<1>8. ASSUME NEW j \in DOMAIN jobs, Fire(j) \/ FireError(j) \/ FireStall(j) PROVE QueueStep
  <2>1. \E job \in Job : Becomes(j, job)
        BY <1>8, JobSteps DEF Becomes
  <2>2. jobs[j].order \in Orders
    <3>1. jobs[j] \in Job
          BY ElementOfSeq
    <3> QED BY <3>1 DEF Job
  <2>3. kds' = kds \/ kds' = kds \cup {jobs[j].order}
        BY <1>8 DEF Fire, FireRead, FireUpdate, FireDeduct, FireNotify, FireError, FireStall
  <2> QED BY <2>1, <2>2, <2>3 DEF QueueStep
<1> QED BY <1>1, <1>2, <1>3, <1>4, <1>5, <1>6, <1>7, <1>8 DEF Next, Handle

LEMMA QueueStepKeeps ==
  ASSUME QueueType, AttemptsLeft, QueueStep PROVE QueueType' /\ AttemptsLeft'
<1>1. CASE UNCHANGED jobs
      BY <1>1 DEF QueueStep, QueueType, AttemptsLeft
<1>2. ASSUME NEW o \in Orders, jobs' = Append(jobs, NewJob(o)) PROVE QueueType' /\ AttemptsLeft'
  <2>1. NewJob(o) \in Job
        BY InputAssumption DEF NewJob, Job
  <2>2. /\ jobs' \in Seq(Job) /\ Len(jobs') = Len(jobs) + 1
        /\ \A k \in 1 .. Len(jobs) : jobs'[k] = jobs[k]
        /\ jobs'[Len(jobs) + 1] = NewJob(o)
        BY <1>2, <2>1, AppendProperties DEF QueueType
  <2>3. DOMAIN jobs = 1 .. Len(jobs) /\ DOMAIN jobs' = 1 .. Len(jobs) + 1 /\ Len(jobs) \in Nat
        BY <2>2, LenProperties DEF QueueType
  <2>4. NewJob(o).tries < Attempts
        BY InputAssumption DEF NewJob
  <2> QED BY <2>2, <2>3, <2>4 DEF QueueStep, QueueType, AttemptsLeft
<1>3. ASSUME NEW j \in DOMAIN jobs, NEW job \in Job, Becomes(j, job) PROVE QueueType' /\ AttemptsLeft'
      BY <1>3, BecomesKeepsQueue DEF QueueStep, QueueType
<1> QED BY <1>1, <1>2, <1>3 DEF QueueStep

-----------------------------------------------------------------------------
(* Requests.                                                               *)

\* A request that has come to write an order names one; only a checkout and a
\* new order that has no id yet do without.
Sound == {r \in Request :
            r.order = 0 => \/ r.op \in {"idle", "checkout"}
                           \/ r.op = "create" /\ r.at = "write"}

SoundRequests ==
  /\ reqs \in [Workers -> Sound]
  /\ nextId \in 1 .. MaxOrders + 1
  /\ served \in 0 .. MaxRequests

LEMMA SoundRequestsType == SoundRequests => RequestsType
BY DEF SoundRequests, Sound, RequestsType

LEMMA IdleType == Idle \in Request
BY InputAssumption DEF Idle, Request, Ops, Steps, Status, Seats

LEMMA IdleSound == Idle \in Sound
BY IdleType DEF Idle, Sound

\* The values the fields of a request start from.
LEMMA OpsType ==
  /\ Ops = {"idle", "create", "status", "assign", "void", "refund", "refundItem", "checkout"}
  /\ Steps = {"", "write", "commit", "pay", "till", "table"}
  /\ 0 \in 0 .. MaxOrders /\ Orders \subseteq 0 .. MaxOrders /\ 0 \notin Orders
BY InputAssumption DEF Ops, Steps, Orders

LEMMA BillType == \A S \in SUBSET Items : Bill[S] \in Nat
BY MoneyAssumption

LEMMA BeginKeeps ==
  ASSUME SoundRequests, NEW w \in Workers, NEW r \in Sound, Begin(w, r), UNCHANGED nextId
  PROVE  SoundRequests'
<1>1. served' \in 0 .. MaxRequests
      BY InputAssumption DEF Begin, SoundRequests
<1> QED BY <1>1 DEF Begin, SoundRequests

LEMMA GoesOn ==
  ASSUME SoundRequests, NEW w \in Workers, NEW r \in Sound,
         reqs' = [reqs EXCEPT ![w] = r], UNCHANGED <<nextId, served>>
  PROVE  SoundRequests'
BY DEF SoundRequests

LEMMA EndKeeps ==
  ASSUME SoundRequests, NEW w \in Workers, End(w), UNCHANGED <<nextId, served>>
  PROVE  SoundRequests'
BY IdleSound, GoesOn DEF End

LEMMA GotoKeeps ==
  ASSUME SoundRequests, NEW w \in Workers, NEW step \in Steps, Goto(w, step),
         UNCHANGED <<nextId, served>>, reqs[w].order # 0
  PROVE  SoundRequests'
<1> DEFINE r == [reqs[w] EXCEPT !.at = step]
<1>1. r \in Sound
      BY DEF SoundRequests, Sound, Request
<1>2. reqs' = [reqs EXCEPT ![w] = r]
      BY DEF Goto
<1> HIDE DEF r
<1> QED BY <1>1, <1>2, GoesOn

LEMMA ExistingType == RowsType => \A o \in Existing : o \in Orders /\ o # 0 /\ orders[o] \in OrderRow
BY DEF Existing, RowsType, Orders

LEMMA RowType ==
  ASSUME RowsType, NEW o \in Orders
  PROVE  /\ orders[o].total \in Int /\ orders[o].paid \in Int
         /\ orders[o].table \in Seats /\ orders[o].status \in Status
BY DEF RowsType, OrderRow

\* The newest of a set of orders is one of them.
LEMMA NewestType == ASSUME NEW S \in SUBSET Orders, S # {} PROVE Newest(S) \in S
<1> DEFINE R == {ss \in Nat \X Nat : ss[1] < ss[2]}
           T == {MaxOrders - x : x \in S}
<1>1. IsWellFoundedOn(R, Nat)
      BY NatLessThanWellFounded DEF OpToRel
<1>2. T \subseteq Nat /\ T # {}
  <2>1. \A x \in S : MaxOrders - x \in Nat
        BY InputAssumption DEF Orders
  <2> QED BY <2>1
<1>3. PICK a \in T : \A b \in T : <<b, a>> \notin R
  <2> HIDE DEF R, T
  <2> QED BY <1>1, <1>2, WFMin
<1>4. ASSUME NEW b \in T PROVE a <= b
  <2>1. a \in Nat /\ b \in Nat
        BY <1>2
  <2>2. ~(b < a)
        BY <1>3, <2>1
  <2> QED BY <2>1, <2>2
<1>5. PICK x \in S : a = MaxOrders - x
      OBVIOUS
<1>6. ASSUME NEW y \in S PROVE y <= x
  <2>1. x \in Int /\ y \in Int /\ MaxOrders \in Int
        BY InputAssumption DEF Orders
  <2>2. MaxOrders - x <= MaxOrders - y
        BY <1>4, <1>5
  <2> QED BY <2>1, <2>2
<1> QED BY <1>6 DEF Newest

\* A request that names an order is sound.
LEMMA NamesOrder == ASSUME NEW r \in Request, r.order # 0 PROVE r \in Sound
BY DEF Sound

LEMMA TablesSeats == Tables \subseteq Seats
BY DEF Seats

LEMMA ReceiveTypes ==
  ASSUME RowsType, SoundRequests, NEW w \in Workers, Receive(w) PROVE SoundRequests'
<1>1. CASE CreateDirectRead(w)
  <2>1. PICK cart \in SUBSET FreeItems, t \in Seats, pre \in PreOrder,
             asked \in DtoStatuses \cup {"none"} :
          \E paid \in Amounts \cup {Bill[cart], Bill[Tab(Newest(OpenAt(t)), cart)]} :
            Begin(w, [Idle EXCEPT !.op = "create", !.at = "write", !.order = Newest(OpenAt(t)),
                        !.to = StatusFor(Newest(OpenAt(t)), cart, paid, pre, asked), !.table = t,
                        !.lines = cart, !.amount = paid, !.flag = pre])
        BY <1>1, ZenonT(60) DEF CreateDirectRead
  <2> DEFINE open == Newest(OpenAt(t))
  <2>2. open \in {0} \cup Orders
    <3>1. OpenAt(t) \in SUBSET Orders
          BY DEF OpenAt, Existing
    <3> QED BY <3>1, NewestType DEF Newest
  <2>3. PICK paid \in Amounts \cup {Bill[cart], Bill[Tab(open, cart)]} :
          Begin(w, [Idle EXCEPT !.op = "create", !.at = "write", !.order = open,
                      !.to = StatusFor(open, cart, paid, pre, asked), !.table = t,
                      !.lines = cart, !.amount = paid, !.flag = pre])
        BY <2>1
  <2> HIDE DEF open
  <2> DEFINE to == StatusFor(open, cart, paid, pre, asked)
  <2>4. to \in Status
    <3>1. asked \in Status /\ {"COMPLETED", "SCHEDULED", "PENDING"} \subseteq Status
          BY InputAssumption DEF Status
    <3>2. open # 0 => orders[open].status \in Status
          BY <2>2, RowType
    <3> QED BY <3>1, <3>2 DEF StatusFor
  <2> HIDE DEF to
  <2>5. cart \in SUBSET Items
        BY DEF FreeItems
  <2>6. paid \in Int
    <3>1. Tab(open, cart) \in SUBSET Items
          BY <2>5 DEF Tab
    <3> QED BY <3>1, <2>5, BillType, MoneyAssumption
  <2>9. pre \in BOOLEAN
        BY InputAssumption
  <2> DEFINE r == [Idle EXCEPT !.op = "create", !.at = "write", !.order = open,
                         !.to = to, !.table = t, !.lines = cart, !.amount = paid, !.flag = pre]
  <2>7. r \in Request /\ r.op = "create" /\ r.at = "write"
        BY <2>2, <2>4, <2>5, <2>6, <2>9, IdleType, OpsType DEF Request
  <2>8. UNCHANGED nextId
        BY <1>1 DEF CreateDirectRead
  <2> QED BY <2>3, <2>7, <2>8, BeginKeeps DEF Sound, to
<1>2. CASE StatusRead(w)
  <2>1. PICK o \in Existing, to \in StaffStatuses, given \in Amounts \cup {0} :
          LET due    == orders[o].total - orders[o].paid
              settle == IF to = "COMPLETED" /\ due > 0
                          THEN IF given > 0 THEN given ELSE due
                          ELSE 0
          IN /\ Begin(w, [Idle EXCEPT !.op = "status", !.order = o, !.to = to, !.amount = settle,
                            !.at = IF settle > 0 THEN "pay" ELSE "write"])
             /\ UNCHANGED nextId
        BY <1>2 DEF StatusRead
  <2>2. PICK amount \in Int, at \in Steps :
          /\ Begin(w, [Idle EXCEPT !.op = "status", !.order = o, !.to = to, !.amount = amount,
                            !.at = at])
          /\ UNCHANGED nextId
    <3> DEFINE due    == orders[o].total - orders[o].paid
               settle == IF to = "COMPLETED" /\ due > 0
                           THEN IF given > 0 THEN given ELSE due
                           ELSE 0
    <3>1. due \in Int
          BY ExistingType, RowType
    <3>2. settle \in Int
          BY <3>1, MoneyAssumption
    <3>3. (IF settle > 0 THEN "pay" ELSE "write") \in Steps
          BY OpsType
    <3> HIDE DEF settle
    <3> QED BY <2>1, <3>2, <3>3 DEF settle
  <2>3. o \in Orders /\ o # 0
        BY ExistingType
  <2> DEFINE r == [Idle EXCEPT !.op = "status", !.order = o, !.to = to, !.amount = amount,
                               !.at = at]
  <2>4. to \in Status
        BY InputAssumption
  <2>5. r \in Request /\ r.order # 0
        BY <2>3, <2>4, IdleType, OpsType DEF Request
  <2> QED BY <2>2, <2>5, NamesOrder, BeginKeeps
<1>3. CASE AssignRead(w)
  <2>1. PICK o \in Existing, t \in Tables :
          /\ Begin(w, [Idle EXCEPT !.op = "assign", !.at = "write", !.order = o, !.table = t,
                         !.flag = FullyPaid(orders[o])])
          /\ UNCHANGED nextId
        BY <1>3 DEF AssignRead
  <2>2. FullyPaid(orders[o]) \in BOOLEAN
        BY DEF FullyPaid
  <2>3. o \in Orders /\ o # 0
        BY ExistingType
  <2> DEFINE r == [Idle EXCEPT !.op = "assign", !.at = "write", !.order = o, !.table = t,
                         !.flag = FullyPaid(orders[o])]
  <2>4. r \in Request /\ r.order # 0
        BY <2>2, <2>3, TablesSeats, IdleType, OpsType DEF Request
  <2> QED BY <2>1, <2>4, NamesOrder, BeginKeeps
<1>4. CASE VoidRead(w)
  <2>1. PICK o \in Existing :
          /\ Begin(w, [Idle EXCEPT !.op = "void", !.at = "write", !.order = o,
                         !.to = orders[o].status, !.table = orders[o].table, !.lines = Lines(o)])
          /\ UNCHANGED nextId
        BY <1>4 DEF VoidRead
  <2>2. Lines(o) \in SUBSET Items
        BY DEF Lines
  <2>3. o \in Orders /\ o # 0
        BY ExistingType
  <2>4. orders[o].status \in Status /\ orders[o].table \in Seats
        BY <2>3, RowType
  <2> DEFINE r == [Idle EXCEPT !.op = "void", !.at = "write", !.order = o,
                         !.to = orders[o].status, !.table = orders[o].table, !.lines = Lines(o)]
  <2>5. r \in Request /\ r.order # 0
        BY <2>2, <2>3, <2>4, IdleType, OpsType DEF Request
  <2> QED BY <2>1, <2>5, NamesOrder, BeginKeeps
<1>5. CASE RefundOrderRead(w)
  <2>1. PICK o \in Existing :
          /\ Begin(w, [Idle EXCEPT !.op = "refund", !.at = "write", !.order = o,
                   !.to = orders[o].status, !.amount = orders[o].paid,
                   !.lines = {i \in Lines(o) : items[i].status # "REFUNDED"}])
          /\ UNCHANGED nextId
        BY <1>5 DEF RefundOrderRead
  <2>2. {i \in Lines(o) : items[i].status # "REFUNDED"} \in SUBSET Items
        BY DEF Lines
  <2>3. o \in Orders /\ o # 0
        BY ExistingType
  <2>4. orders[o].status \in Status /\ orders[o].paid \in Int
        BY <2>3, RowType
  <2> DEFINE r == [Idle EXCEPT !.op = "refund", !.at = "write", !.order = o,
                   !.to = orders[o].status, !.amount = orders[o].paid,
                   !.lines = {i \in Lines(o) : items[i].status # "REFUNDED"}]
  <2>5. r \in Request /\ r.order # 0
        BY <2>2, <2>3, <2>4, IdleType, OpsType DEF Request
  <2> QED BY <2>1, <2>5, NamesOrder, BeginKeeps
<1>6. CASE RefundItemRead(w)
  <2>1. PICK i \in Items : \E n \in 1 .. Qty[i] :
          /\ items[i].order # 0
          /\ Begin(w, [Idle EXCEPT !.op = "refundItem", !.at = "write",
                   !.order = items[i].order, !.to = orders[items[i].order].status,
                   !.lines = {i}, !.qty = n, !.amount = n * Price[i]])
          /\ UNCHANGED nextId
        BY <1>6 DEF RefundItemRead
  <2>7. PICK n \in 1 .. Qty[i] :
          /\ items[i].order # 0
          /\ Begin(w, [Idle EXCEPT !.op = "refundItem", !.at = "write",
                   !.order = items[i].order, !.to = orders[items[i].order].status,
                   !.lines = {i}, !.qty = n, !.amount = n * Price[i]])
          /\ UNCHANGED nextId
        BY <2>1
  <2>2. n \in Nat /\ Price[i] \in Nat
        BY StockAssumption, MoneyAssumption
  <2>3. n * Price[i] \in Int
        BY <2>2
  <2>4. items[i].order \in Orders /\ items[i].order # 0
        BY <2>1 DEF RowsType, Orders
  <2>5. orders[items[i].order].status \in Status
        BY <2>4, RowType
  <2> DEFINE r == [Idle EXCEPT !.op = "refundItem", !.at = "write",
                   !.order = items[i].order, !.to = orders[items[i].order].status,
                   !.lines = {i}, !.qty = n, !.amount = n * Price[i]]
  <2>6. r \in Request /\ r.order # 0
        BY <2>2, <2>3, <2>4, <2>5, IdleType, OpsType DEF Request
  <2> QED BY <2>7, <2>6, NamesOrder, BeginKeeps
<1>7. CASE CheckoutRead(w)
  <2>1. PICK t \in Tables, open \in SUBSET Existing :
          /\ Begin(w, [Idle EXCEPT !.op = "checkout", !.at = "write", !.table = t, !.todo = open])
          /\ UNCHANGED nextId
        BY <1>7, ZenonT(40) DEF CheckoutRead
  <2>2. open \in SUBSET Orders
        BY DEF Existing
  <2> DEFINE r == [Idle EXCEPT !.op = "checkout", !.at = "write", !.table = t, !.todo = open]
  <2>3. r \in Request /\ r.op = "checkout"
        BY <2>2, IdleType, OpsType, TablesSeats DEF Request
  <2> QED BY <2>1, <2>3, BeginKeeps DEF Sound
<1> QED BY <1>1, <1>2, <1>3, <1>4, <1>5, <1>6, <1>7 DEF Receive

\* A handler keeps working on the order it has.
LEMMA HandleTypes ==
  ASSUME RowsType, SoundRequests, NEW w \in Workers, Handle(w) PROVE SoundRequests'
<1>1. reqs[w] \in Request /\ reqs[w] \in Sound
      BY DEF SoundRequests, Sound
<1>2. CASE CreateDirectWrite(w)
  <2>1. PICK id \in Orders :
          /\ reqs' = [reqs EXCEPT ![w].at = "commit", ![w].order = id]
          /\ nextId' = IF reqs[w].order = 0 THEN nextId + 1 ELSE nextId
          /\ reqs[w].order = 0 => id = nextId
          /\ served' = served
        BY <1>2 DEF CreateDirectWrite
  <2> DEFINE r == [reqs[w] EXCEPT !.at = "commit", !.order = id]
  <2>2. r \in Request /\ r.order # 0
        BY <1>1, OpsType DEF Request
  <2>3. nextId' \in 1 .. MaxOrders + 1
        BY <2>1, InputAssumption DEF SoundRequests, Orders
  <2>4. r \in Sound
        BY <2>2, NamesOrder
  <2>5. reqs' = [reqs EXCEPT ![w] = r]
        BY <2>1
  <2> HIDE DEF r
  <2> QED BY <2>1, <2>3, <2>4, <2>5 DEF SoundRequests
<1>3. CASE StatusPay(w) \/ StatusTill(w) \/ RefundTill(w)
  <2>1. reqs[w].order # 0
        BY <1>1, <1>3 DEF Sound, StatusPay, StatusTill, RefundTill
  <2>2. PICK step \in Steps : Goto(w, step) /\ UNCHANGED <<nextId, served>>
        BY <1>3, OpsType DEF StatusPay, StatusTill, RefundTill
  <2> QED BY <2>1, <2>2, GotoKeeps
<1>4. CASE StatusWrite(w)
  <2> DEFINE new  == [orders[reqs[w].order] EXCEPT !.status = reqs[w].to, !.paid = @ + reqs[w].amount]
             free == FullyPaid(new) \/ reqs[w].to \in {"COMPLETED", "CANCELLED", "DELIVERED"}
             r == [reqs[w] EXCEPT !.at = "table", !.table = new.table, !.flag = free]
  <2>1. reqs[w].order \in Orders /\ reqs[w].order # 0
        BY <1>1, <1>4 DEF Sound, Request, StatusWrite, Orders
  <2>2. new.table \in Seats
        BY <2>1, RowType DEF RowsType, OrderRow
  <2>3. free \in BOOLEAN
        BY DEF FullyPaid
  <2> HIDE DEF new, free
  <2>4. r \in Request /\ r.order # 0
        BY <1>1, <2>1, <2>2, <2>3, OpsType DEF Request
  <2>5. r \in Sound
        BY <2>4, NamesOrder
  <2>6. \/ End(w)
        \/ reqs' = [reqs EXCEPT ![w].at = "table", ![w].table = new.table, ![w].flag = free]
        BY <1>4 DEF StatusWrite, new, free
  <2>7. End(w) \/ reqs' = [reqs EXCEPT ![w] = r]
        BY <2>6
  <2>8. UNCHANGED <<nextId, served>>
        BY <1>4 DEF StatusWrite
  <2> HIDE DEF r
  <2> QED BY <2>5, <2>7, <2>8, EndKeeps, GoesOn
<1>5. CASE CheckoutOrder(w)
  <2>1. PICK todo \in SUBSET Orders, step \in Steps :
          reqs' = [reqs EXCEPT ![w].todo = todo, ![w].at = step]
    <3>1. PICK o \in reqs[w].todo :
            reqs' = [reqs EXCEPT ![w].todo = @ \ {o},
                                 ![w].at = IF reqs[w].todo = {o} THEN "table" ELSE "write"]
          BY <1>5 DEF CheckoutOrder
    <3>2. reqs' = [reqs EXCEPT ![w].todo = reqs[w].todo \ {o},
                               ![w].at = IF reqs[w].todo = {o} THEN "table" ELSE "write"]
          BY <3>1
    <3>3. reqs[w].todo \ {o} \in SUBSET Orders
          BY <1>1 DEF Request
    <3>4. (IF reqs[w].todo = {o} THEN "table" ELSE "write") \in Steps
          BY OpsType
    <3> QED BY <3>2, <3>3, <3>4
  <2> DEFINE r == [reqs[w] EXCEPT !.todo = todo, !.at = step]
  <2>2. r \in Request /\ r.op = "checkout"
        BY <1>1, <1>5 DEF Request, CheckoutOrder
  <2>3. reqs' = [reqs EXCEPT ![w] = r]
        BY <2>1
  <2>4. UNCHANGED <<nextId, served>>
        BY <1>5 DEF CheckoutOrder
  <2>5. r \in Sound
        BY <2>2 DEF Sound
  <2> HIDE DEF r
  <2> QED BY <2>3, <2>4, <2>5, GoesOn
<1>6. CASE \/ CreateDirectCommit(w) \/ StatusTable(w) \/ AssignWrite(w) \/ VoidCommit(w)
           \/ RefundOrderCommit(w) \/ RefundItemCommit(w) \/ CheckoutTable(w)
  <2>1. End(w) /\ UNCHANGED <<nextId, served>>
        BY <1>6 DEF CreateDirectCommit, StatusTable, AssignWrite, VoidCommit, RefundOrderCommit,
                    RefundItemCommit, CheckoutTable
  <2> QED BY <2>1, EndKeeps
<1> QED BY <1>2, <1>3, <1>4, <1>5, <1>6 DEF Handle

LEMMA RequestSteps ==
  ASSUME RowsType, SoundRequests, [Next]_vars PROVE SoundRequests'
<1>1. CASE UNCHANGED vars
      BY <1>1 DEF vars, SoundRequests
<1>2. ASSUME NEW w \in Workers, Fail(w) PROVE SoundRequests'
      BY <1>2, EndKeeps DEF Fail
<1>3. ASSUME NEW i \in Items, NEW s \in ItemStatuses, VoidItem(i) \/ UpdateItemStatus(i, s)
      PROVE SoundRequests'
      BY <1>3 DEF VoidItem, UpdateItemStatus, SoundRequests
<1>4. ASSUME NEW i \in Items, VoidItem(i) PROVE SoundRequests'
      BY <1>4 DEF VoidItem, SoundRequests
<1>5. ASSUME NEW j \in DOMAIN jobs, Fire(j) \/ FireError(j) \/ FireStall(j) PROVE SoundRequests'
      BY <1>5 DEF Fire, FireRead, FireUpdate, FireDeduct, FireNotify, FireError, FireStall,
                  SoundRequests
<1> QED BY <1>1, <1>2, <1>3, <1>4, <1>5, ReceiveTypes, HandleTypes DEF Next

-----------------------------------------------------------------------------
(* Rows, money and the history of an order.                                *)

\* An order whose status, table or amount paid is written stays an order row.
LEMMA RowEdits ==
  ASSUME RowsType, NEW o \in Orders
  PROVE  /\ \A s \in Status : [orders EXCEPT ![o].status = s] \in [Orders -> OrderRow]
         /\ \A t \in Seats : [orders EXCEPT ![o].table = t] \in [Orders -> OrderRow]
         /\ \A n \in Int : [orders EXCEPT ![o].paid = @ - n] \in [Orders -> OrderRow]
         /\ \A s \in Status, n \in Int :
              [orders[o] EXCEPT !.status = s, !.paid = @ + n] \in OrderRow
<1>1. orders[o] \in OrderRow
      BY DEF RowsType
<1>2. ASSUME NEW row \in OrderRow
      PROVE  /\ row.paid \in Int
             /\ \A s \in Status : [row EXCEPT !.status = s] \in OrderRow
             /\ \A t \in Seats : [row EXCEPT !.table = t] \in OrderRow
             /\ \A n \in Int : [row EXCEPT !.paid = n] \in OrderRow
             /\ \A s \in Status, n \in Int : [row EXCEPT !.status = s, !.paid = n] \in OrderRow
      BY DEF OrderRow
<1>3. ASSUME NEW n \in Int PROVE orders[o].paid - n \in Int /\ orders[o].paid + n \in Int
  <2>1. orders[o].paid \in Int
        BY <1>1, <1>2
  <2> QED BY <2>1
<1>4. ASSUME NEW s \in Status, NEW n \in Int
      PROVE  [orders[o] EXCEPT !.status = s, !.paid = @ + n] \in OrderRow
  <2>1. [orders[o] EXCEPT !.status = s, !.paid = orders[o].paid + n] \in OrderRow
        BY <1>1, <1>2, <1>3
  <2> QED BY <2>1, <1>1 DEF OrderRow
<1>5. ASSUME NEW n \in Int PROVE [orders EXCEPT ![o].paid = @ - n] \in [Orders -> OrderRow]
  <2>1. [orders[o] EXCEPT !.paid = orders[o].paid - n] \in OrderRow
        BY <1>1, <1>2, <1>3
  <2> QED BY <2>1 DEF RowsType
<1>6. ASSUME NEW s \in Status PROVE [orders EXCEPT ![o].status = s] \in [Orders -> OrderRow]
      BY <1>1, <1>2 DEF RowsType
<1>7. ASSUME NEW t \in Seats PROVE [orders EXCEPT ![o].table = t] \in [Orders -> OrderRow]
      BY <1>1, <1>2 DEF RowsType
<1> QED BY <1>4, <1>5, <1>6, <1>7

\* Relabelling all lines of an order keeps them lines.
LEMMA Relabelled ==
  ASSUME RowsType, NEW o, NEW s \in ItemStatus,
         items' = [i \in Items |-> IF items[i].order = o
                     THEN [items[i] EXCEPT !.status = s] ELSE items[i]]
  PROVE  items' \in [Items -> [order : 0 .. MaxOrders, status : ItemStatus]]
<1>1. ASSUME NEW i \in Items
      PROVE  [items[i] EXCEPT !.status = s] \in [order : 0 .. MaxOrders, status : ItemStatus]
      BY DEF RowsType
<1> QED BY <1>1 DEF RowsType

LEMMA RowsHandled ==
  ASSUME RowsType, SoundRequests, NEW w \in Workers, Handle(w) PROVE RowsType'
<1>1. reqs[w] \in Request /\ reqs[w] \in Sound
      BY DEF SoundRequests, Sound
<1>2. /\ {"PENDING", "CANCELLED", "REFUNDED", "COMPLETED"} \subseteq Status
      /\ {"PENDING", "CANCELLED", "REFUNDED"} \subseteq ItemStatus
      BY DEF Status, ItemStatus
<1>3. reqs[w].order # 0 => reqs[w].order \in Orders
      BY <1>1 DEF Request, Orders
<1>4. CASE CreateDirectWrite(w) \/ StatusPay(w) \/ StatusTill(w) \/ RefundTill(w)
      BY <1>4 DEF CreateDirectWrite, StatusPay, StatusTill, RefundTill, RowsType
<1>5. CASE CreateDirectCommit(w)
  <2> DEFINE r   == reqs[w]
             old == orders[r.order]
             new == IF old.status = "none"
                      THEN [status |-> r.to, table |-> r.table, total |-> Bill[r.lines],
                            paid |-> r.amount]
                      ELSE [old EXCEPT !.status = r.to, !.total = @ + Bill[r.lines],
                                       !.paid = @ + r.amount]
  <2>1. r.order \in Orders
        BY <1>1, <1>3, <1>5 DEF Sound, CreateDirectCommit
  <2>2. new \in OrderRow
    <3>1. /\ Bill[r.lines] \in Nat /\ r.to \in Status /\ r.table \in Seats /\ r.amount \in Int
          /\ old \in OrderRow
          BY <1>1, <2>1, BillType DEF Request, RowsType
    <3>2. /\ old.total + Bill[r.lines] \in Nat
          /\ old.paid + r.amount \in Int
          BY <3>1 DEF OrderRow
    <3>3. [status |-> r.to, table |-> r.table, total |-> Bill[r.lines], paid |-> r.amount] \in OrderRow
          BY <3>1 DEF OrderRow
    <3>4. [old EXCEPT !.status = r.to, !.total = old.total + Bill[r.lines],
                      !.paid = old.paid + r.amount] \in OrderRow
      <4> HIDE DEF r, old
      <4> QED BY <3>1, <3>2 DEF OrderRow
    <3>5. [old EXCEPT !.status = r.to, !.total = @ + Bill[r.lines],
                      !.paid = @ + r.amount] \in OrderRow
      <4> HIDE DEF r, old
      <4> QED BY <3>1, <3>4 DEF OrderRow
    <3> QED BY <3>3, <3>5
  <2>3. orders' \in [Orders -> OrderRow]
    <3>1. orders' = [orders EXCEPT ![r.order] = new]
          BY <1>5 DEF CreateDirectCommit
    <3> HIDE DEF new
    <3> QED BY <2>2, <3>1 DEF RowsType
  <2>4. items' \in [Items -> [order : 0 .. MaxOrders, status : ItemStatus]]
    <3>1. items' = [i \in Items |-> IF i \in r.lines
                      THEN [order |-> r.order, status |-> "PENDING"] ELSE items[i]]
          BY <1>5 DEF CreateDirectCommit
    <3> QED BY <1>2, <2>1, <3>1, OpsType DEF RowsType
  <2>5. tables' \in [Tables -> {"AVAILABLE", "OCCUPIED"}]
        BY <1>5 DEF CreateDirectCommit, RowsType
  <2> QED BY <2>3, <2>4, <2>5 DEF RowsType
<1>6. CASE StatusWrite(w)
  <2> DEFINE new == [orders[reqs[w].order] EXCEPT !.status = reqs[w].to, !.paid = @ + reqs[w].amount]
  <2>1. reqs[w].order \in Orders
        BY <1>1, <1>3, <1>6 DEF Sound, StatusWrite
  <2>2. reqs[w].to \in Status /\ reqs[w].amount \in Int
        BY <1>1 DEF Request
  <2>3. new \in OrderRow
        BY <2>1, <2>2, RowEdits
  <2>4. orders' = [orders EXCEPT ![reqs[w].order] = new] /\ UNCHANGED <<items, tables>>
        BY <1>6 DEF StatusWrite
  <2> HIDE DEF new
  <2> QED BY <2>1, <2>3, <2>4 DEF RowsType
<1>7. CASE StatusTable(w) \/ CheckoutTable(w)
  <2>1. /\ \E v \in {"AVAILABLE", "OCCUPIED"} : tables' = [tables EXCEPT ![reqs[w].table] = v]
        /\ UNCHANGED <<orders, items>>
        BY <1>7 DEF StatusTable, CheckoutTable
  <2> QED BY <2>1 DEF RowsType
<1>8. CASE AssignWrite(w)
  <2>1. reqs[w].order \in Orders /\ reqs[w].table \in Seats
        BY <1>1, <1>3, <1>8 DEF Sound, Request, AssignWrite
  <2>2. /\ orders' = [orders EXCEPT ![reqs[w].order].table = reqs[w].table]
        /\ \E v \in {"AVAILABLE", "OCCUPIED"} : tables' = [tables EXCEPT ![reqs[w].table] = v]
        /\ UNCHANGED items
        BY <1>8 DEF AssignWrite
  <2>3. orders' \in [Orders -> OrderRow]
        BY <2>1, <2>2, RowEdits
  <2> QED BY <2>2, <2>3 DEF RowsType
<1>9. CASE VoidCommit(w) \/ RefundOrderCommit(w)
  <2>1. reqs[w].order \in Orders
        BY <1>1, <1>3, <1>9 DEF Sound, VoidCommit, RefundOrderCommit
  <2>2. PICK s \in Status : orders' = [orders EXCEPT ![reqs[w].order].status = s]
        BY <1>2, <1>9 DEF VoidCommit, RefundOrderCommit
  <2>3. PICK label \in ItemStatus :
          items' = [i \in Items |-> IF items[i].order = reqs[w].order
                      THEN [items[i] EXCEPT !.status = label] ELSE items[i]]
        BY <1>2, <1>9 DEF VoidCommit, RefundOrderCommit
  <2>4. \/ UNCHANGED tables
        \/ tables' = [tables EXCEPT ![reqs[w].table] = "AVAILABLE"]
        BY <1>9 DEF VoidCommit, RefundOrderCommit
  <2>5. orders' \in [Orders -> OrderRow]
        BY <2>1, <2>2, RowEdits
  <2> QED BY <2>3, <2>4, <2>5, Relabelled DEF RowsType
<1>10. CASE RefundItemCommit(w)
  <2>1. reqs[w].order \in Orders /\ reqs[w].amount \in Int
        BY <1>1, <1>3, <1>10 DEF Sound, Request, RefundItemCommit
  <2>2. orders' = [orders EXCEPT ![reqs[w].order].paid = @ - reqs[w].amount]
        BY <1>10 DEF RefundItemCommit
  <2>3. \/ UNCHANGED items
        \/ \E i \in reqs[w].lines : items' = [items EXCEPT ![i].status = "REFUNDED"]
        BY <1>10 DEF RefundItemCommit
  <2>4. UNCHANGED tables
        BY <1>10 DEF RefundItemCommit
  <2>5. orders' \in [Orders -> OrderRow]
        BY <2>1, <2>2, RowEdits
  <2> QED BY <1>2, <2>3, <2>4, <2>5 DEF RowsType
<1>11. CASE CheckoutOrder(w)
  <2>1. PICK o \in Orders : orders' = [orders EXCEPT ![o].status = "COMPLETED"]
        BY <1>1, <1>11 DEF CheckoutOrder, Request
  <2>2. orders' \in [Orders -> OrderRow]
        BY <1>2, <2>1, RowEdits
  <2> QED BY <1>11, <2>2 DEF CheckoutOrder, RowsType
<1> QED BY <1>4, <1>5, <1>6, <1>7, <1>8, <1>9, <1>10, <1>11 DEF Handle

LEMMA RowsSteps ==
  ASSUME RowsType, SoundRequests, QueueType, [Next]_vars PROVE RowsType'
<1>1. CASE UNCHANGED vars
      BY <1>1 DEF vars, RowsType
<1>2. ASSUME NEW w \in Workers, Receive(w) \/ Fail(w) PROVE RowsType'
      BY <1>2 DEF Receive, CreateDirectRead, StatusRead, AssignRead, VoidRead, RefundOrderRead,
                  RefundItemRead, CheckoutRead, Fail, RowsType
<1>3. ASSUME NEW i \in Items, VoidItem(i) PROVE RowsType'
  <2>1. "VOIDED" \in ItemStatus
        BY DEF ItemStatus
  <2> QED BY <1>3, <2>1 DEF VoidItem, RowsType
<1>4. ASSUME NEW i \in Items, NEW s \in ItemStatuses, UpdateItemStatus(i, s) PROVE RowsType'
  <2>1. s \in ItemStatus
        BY InputAssumption
  <2> QED BY <1>4, <2>1 DEF UpdateItemStatus, RowsType
<1>5. ASSUME NEW j \in DOMAIN jobs, FireUpdate(j) PROVE RowsType'
  <2>1. jobs[j].order \in Orders
    <3>1. jobs[j] \in Job
          BY ElementOfSeq DEF QueueType
    <3> QED BY <3>1 DEF Job
  <2>2. "PENDING" \in Status
        BY DEF Status
  <2>3. orders' \in [Orders -> OrderRow]
        BY <1>5, <2>1, <2>2, RowEdits DEF FireUpdate
  <2> QED BY <1>5, <2>3 DEF FireUpdate, RowsType
<1>6. ASSUME NEW j \in DOMAIN jobs,
             FireRead(j) \/ FireDeduct(j) \/ FireNotify(j) \/ FireError(j) \/ FireStall(j)
      PROVE  RowsType'
      BY <1>6 DEF FireRead, FireDeduct, FireNotify, FireError, FireStall, RowsType
<1> QED BY <1>1, <1>2, <1>3, <1>4, <1>5, <1>6, RowsHandled DEF Next, Fire

\* Booking an amount on one order.
LEMMA Booked ==
  ASSUME NEW f \in [Orders -> Int], NEW o, NEW n \in Int
  PROVE  /\ [f EXCEPT ![o] = @ + n] \in [Orders -> Int]
         /\ [f EXCEPT ![o] = @ - n] \in [Orders -> Int]
<1>1. \A x \in Orders : f[x] + n \in Int /\ f[x] - n \in Int
      OBVIOUS
<1>2. CASE o \in Orders
      BY <1>1, <1>2
<1>3. CASE o \notin Orders
      BY <1>3
<1> QED BY <1>2, <1>3

LEMMA MoneySteps ==
  ASSUME MoneyType, SoundRequests, [Next]_vars PROVE MoneyType'
<1> USE DEF MoneyType
<1>1. CASE UNCHANGED vars
      BY <1>1 DEF vars, money
<1>2. ASSUME NEW w \in Workers, Receive(w) \/ Fail(w) PROVE UNCHANGED money
      BY <1>2 DEF Receive, CreateDirectRead, StatusRead, AssignRead, VoidRead, RefundOrderRead,
                  RefundItemRead, CheckoutRead, Fail
<1>3. ASSUME NEW w \in Workers, Handle(w) PROVE MoneyType'
  <2>1. reqs[w].amount \in Int
        BY DEF SoundRequests, Sound, Request
  <2> DEFINE o == reqs[w].order
             n == reqs[w].amount
  <2>2. CASE \E id \in Orders : till' = [till EXCEPT ![id] = @ + n]
             /\ UNCHANGED <<payments, refunds, refunded>>
        BY <2>1, <2>2, Booked
  <2>3. CASE UNCHANGED <<refunds, refunded, till>> /\ payments' = [payments EXCEPT ![o] = @ + n]
        BY <2>1, <2>3, Booked
  <2>4. CASE /\ till' = [till EXCEPT ![o] = @ + n] \/ till' = [till EXCEPT ![o] = @ - n]
             /\ UNCHANGED <<payments, refunds, refunded>>
        BY <2>1, <2>4, Booked
  <2>5. CASE UNCHANGED <<payments, refunds, till>> /\ refunded' = [refunded EXCEPT ![o] = @ + n]
        BY <2>1, <2>5, Booked
  <2>6. CASE UNCHANGED <<payments, refunded, till>> /\ refunds' = [refunds EXCEPT ![o] = @ + n]
        BY <2>1, <2>6, Booked
  <2>7. CASE UNCHANGED money
        BY <2>7 DEF money
  <2>8. CASE CreateDirectWrite(w)
        BY <2>8, <2>2 DEF CreateDirectWrite
  <2>9. CASE CreateDirectCommit(w) \/ StatusPay(w)
        BY <2>9, <2>3 DEF CreateDirectCommit, StatusPay
  <2>10. CASE StatusTill(w) \/ RefundTill(w)
        BY <2>10, <2>4 DEF StatusTill, RefundTill
  <2>11. CASE RefundOrderCommit(w)
        BY <2>11, <2>5 DEF RefundOrderCommit
  <2>12. CASE RefundItemCommit(w)
        BY <2>12, <2>6 DEF RefundItemCommit
  <2>13. CASE \/ StatusWrite(w) \/ StatusTable(w) \/ AssignWrite(w) \/ VoidCommit(w)
              \/ CheckoutOrder(w) \/ CheckoutTable(w)
        BY <2>13, <2>7 DEF StatusWrite, StatusTable, AssignWrite, VoidCommit, CheckoutOrder,
                           CheckoutTable
  <2> QED BY <1>3, <2>8, <2>9, <2>10, <2>11, <2>12, <2>13 DEF Handle
<1>4. ASSUME NEW i \in Items, VoidItem(i) PROVE UNCHANGED money
      BY <1>4 DEF VoidItem
<1>5. ASSUME NEW i \in Items, NEW s \in ItemStatuses, UpdateItemStatus(i, s)
      PROVE UNCHANGED money
      BY <1>5 DEF UpdateItemStatus
<1>6. ASSUME NEW j \in DOMAIN jobs, Fire(j) \/ FireError(j) \/ FireStall(j) PROVE UNCHANGED money
      BY <1>6 DEF Fire, FireRead, FireUpdate, FireDeduct, FireNotify, FireError, FireStall
<1> QED BY <1>1, <1>2, <1>3, <1>4, <1>5, <1>6 DEF Next, money

LEMMA BlameKeeps ==
  ASSUME why \in [Orders -> SUBSET Cause], NEW o, NEW causes \in SUBSET Cause, Blame(o, causes)
  PROVE  why' \in [Orders -> SUBSET Cause]
BY DEF Blame

LEMMA CauseTypes ==
  /\ \A o, to : Reopening(o, to) \in SUBSET Cause
  /\ \A S : ReturnCauses(S) \in SUBSET Cause
  /\ \A r : Overlap(r) \in SUBSET Cause
  /\ {"torn"} \in SUBSET Cause /\ {"partial"} \in SUBSET Cause /\ {"relabelled"} \in SUBSET Cause
BY DEF Reopening, ReturnCauses, Overlap, Cause, ReturnCause

LEMMA WhySteps ==
  ASSUME why \in [Orders -> SUBSET Cause], [Next]_vars PROVE why' \in [Orders -> SUBSET Cause]
<1>1. CASE UNCHANGED why
      BY <1>1
<1>2. ASSUME NEW o, NEW causes \in SUBSET Cause, Blame(o, causes)
      PROVE  why' \in [Orders -> SUBSET Cause]
      BY <1>2, BlameKeeps
<1>3. UNCHANGED vars => UNCHANGED why
      BY DEF vars
<1>4. ASSUME NEW w \in Workers, Receive(w) PROVE UNCHANGED why
      BY <1>4 DEF Receive, CreateDirectRead, StatusRead, AssignRead, VoidRead, RefundOrderRead,
                  RefundItemRead, CheckoutRead
<1>5. ASSUME NEW w \in Workers, Handle(w) \/ Fail(w)
      PROVE  UNCHANGED why \/ \E o : \E causes \in SUBSET Cause : Blame(o, causes)
  <2>1. CASE \/ CreateDirectWrite(w) \/ StatusPay(w) \/ StatusTill(w) \/ StatusTable(w)
             \/ AssignWrite(w) \/ RefundTill(w) \/ CheckoutTable(w)
        BY <2>1 DEF CreateDirectWrite, StatusPay, StatusTill, StatusTable, AssignWrite,
                    RefundTill, CheckoutTable
  <2>2. CASE CreateDirectCommit(w) \/ StatusWrite(w)
        BY <2>2, CauseTypes DEF CreateDirectCommit, StatusWrite
  <2>3. CASE VoidCommit(w) \/ RefundOrderCommit(w)
    <3>1. \E S : Blame(reqs[w].order, ReturnCauses(S) \cup Overlap(reqs[w]))
          BY <2>3 DEF VoidCommit, RefundOrderCommit
    <3> QED BY <3>1, CauseTypes
  <2>4. CASE RefundItemCommit(w)
    <3>1. PICK i \in reqs[w].lines :
            Blame(reqs[w].order,
                  ReturnCauses({i}) \cup (IF reqs[w].qty = Qty[i] THEN {} ELSE {"partial"})
                    \cup Overlap(reqs[w]))
          BY <2>4 DEF RefundItemCommit
    <3>2. ReturnCauses({i}) \cup (IF reqs[w].qty = Qty[i] THEN {} ELSE {"partial"})
            \cup Overlap(reqs[w]) \in SUBSET Cause
          BY CauseTypes
    <3> QED BY <3>1, <3>2
  <2>5. CASE CheckoutOrder(w)
        BY <2>5, CauseTypes DEF CheckoutOrder
  <2>6. CASE Fail(w)
        BY <2>6, CauseTypes DEF Fail
  <2> QED BY <1>5, <2>1, <2>2, <2>3, <2>4, <2>5, <2>6 DEF Handle
<1>6. ASSUME NEW i \in Items,
             VoidItem(i) \/ \E s \in ItemStatuses : UpdateItemStatus(i, s)
      PROVE  \E o : \E causes \in SUBSET Cause : Blame(o, causes)
      BY <1>6, CauseTypes DEF VoidItem, UpdateItemStatus
<1>7. ASSUME NEW j \in DOMAIN jobs, Fire(j) \/ FireError(j) \/ FireStall(j)
      PROVE  UNCHANGED why \/ \E o : \E causes \in SUBSET Cause : Blame(o, causes)
      BY <1>7, CauseTypes DEF Fire, FireRead, FireUpdate, FireDeduct, FireNotify, FireError,
                              FireStall
<1> QED BY <1>1, <1>2, <1>3, <1>4, <1>5, <1>6, <1>7 DEF Next

-----------------------------------------------------------------------------
(* Type correctness and the stock ledger.                                  *)

\* TypeOK is not inductive: a request must name the order it writes, and a job
\* that can still run must have an attempt left.
TypeInv == TypeOK /\ SoundRequests /\ AttemptsLeft

LEMMA TypeInit == Init => TypeInv
<1> SUFFICES ASSUME Init PROVE TypeInv
    OBVIOUS
<1>1. RowsType
  <2>1. NoOrder \in OrderRow
        BY DEF NoOrder, OrderRow, Status, Seats
  <2>2. "none" \in ItemStatus
        BY DEF ItemStatus
  <2> QED BY <2>1, <2>2, OpsType DEF Init, RowsType
<1>2. StockType
      BY StockAssumption DEF Init, StockType
<1>3. MoneyType
      BY DEF Init, MoneyType
<1>4. QueueType /\ AttemptsLeft
      BY DEF Init, QueueType, AttemptsLeft
<1>5. SoundRequests
      BY IdleSound, InputAssumption DEF Init, SoundRequests
<1>6. why \in [Orders -> SUBSET Cause]
      BY DEF Init
<1> QED BY <1>1, <1>2, <1>3, <1>4, <1>5, <1>6, SoundRequestsType DEF TypeInv, TypeOK

LEMMA TypeStep == TypeInv /\ [Next]_vars => TypeInv'
<1> SUFFICES ASSUME TypeInv, [Next]_vars PROVE TypeInv'
    OBVIOUS
<1> USE DEF TypeInv, TypeOK
<1>1. SoundRequests'
      BY RequestSteps
<1>2. RequestsType'
  <2>1. SoundRequests' => RequestsType'
        BY SoundRequestsType, PTL
  <2> QED BY <1>1, <2>1
<1>3. RowsType'
      BY RowsSteps
<1>4. StockType'
      BY StockSteps, StockTypeStep
<1>5. MoneyType'
      BY MoneySteps
<1>6. QueueType' /\ AttemptsLeft'
      BY QueueSteps, QueueStepKeeps
<1>7. why' \in [Orders -> SUBSET Cause]
      BY WhySteps
<1> QED BY <1>1, <1>2, <1>3, <1>4, <1>5, <1>6, <1>7

\* Every variable keeps its type, and no fire job is tried more often than its
\* attempts allow, whatever is in flight and whatever fails.
THEOREM TypeCorrect == Spec => []TypeOK
<1>1. TypeInv => TypeOK
      BY DEF TypeInv
<1> QED BY TypeInit, TypeStep, <1>1, PTL DEF Spec

\* Stock on hand is what was counted at opening plus every StockMovement, less
\* exactly what fire jobs took without a movement.
THEOREM LedgerCorrect == Spec => []StockMatchesLedger
<1>1. Init => StockMatchesLedger
      BY StockAssumption DEF Init, StockMatchesLedger
<1>2. TypeInv /\ StockMatchesLedger /\ [Next]_vars => StockMatchesLedger'
      BY StockSteps, LedgerMatchesStep DEF TypeInv, TypeOK
<1> QED BY TypeInit, TypeStep, <1>1, <1>2, PTL DEF Spec

\* The order desk implements the stock ledger: every step posts one change to
\* both tables, or is a slip of a fire job, or leaves them alone.
THEOREM ImplementsCorrect == Spec => ImplementsLedger
<1>1. Init => L!Start
      BY DEF Init, L!Start
<1>2. TypeInv /\ [Next]_vars => [L!Post \/ L!Slip]_(L!ledger)
      BY StockSteps, LedgerStep DEF TypeInv, TypeOK
<1> QED BY TypeInit, TypeStep, <1>1, <1>2, PTL DEF Spec, ImplementsLedger, L!Spec

-----------------------------------------------------------------------------
(* The kitchen.                                                            *)

Announced(o) == o \in kds \/ \E j \in DOMAIN jobs : jobs[j].order = o

\* Announced after the step.
AnnouncedNext(o) == o \in kds' \/ \E j \in DOMAIN jobs' : jobs'[j].order = o

\* The kitchen knows, or will be told by a job, of every order there is and of
\* every order a request is about to write.
KitchenInv ==
  /\ \A o \in Existing : Announced(o)
  /\ \A w \in Workers : reqs[w].order # 0 => Announced(reqs[w].order)
  /\ \A w \in Workers : \A o \in reqs[w].todo : Announced(o)

LEMMA AnnouncedStays ==
  ASSUME QueueType, AttemptsLeft, QueueStep, NEW o, Announced(o) PROVE Announced(o)'
<1>1. CASE o \in kds
      BY <1>1 DEF QueueStep, Announced
<1>2. CASE UNCHANGED jobs
      BY <1>2 DEF QueueStep, Announced
<1>3. ASSUME NEW j \in DOMAIN jobs, jobs[j].order = o,
             NEW x \in Orders, jobs' = Append(jobs, NewJob(x))
      PROVE  Announced(o)'
  <2>1. NewJob(x) \in Job
        BY InputAssumption DEF NewJob, Job
  <2>2. /\ jobs' \in Seq(Job) /\ Len(jobs') = Len(jobs) + 1
        /\ \A k \in 1 .. Len(jobs) : jobs'[k] = jobs[k]
        BY <1>3, <2>1, AppendProperties DEF QueueType
  <2>3. DOMAIN jobs = 1 .. Len(jobs) /\ DOMAIN jobs' = 1 .. Len(jobs) + 1 /\ Len(jobs) \in Nat
        BY <2>2, LenProperties DEF QueueType
  <2>4. j \in DOMAIN jobs' /\ jobs'[j] = jobs[j]
        BY <2>2, <2>3
  <2> QED BY <1>3, <2>4 DEF Announced
<1>4. ASSUME NEW j \in DOMAIN jobs, jobs[j].order = o,
             NEW k \in DOMAIN jobs, NEW job \in Job, Becomes(k, job)
      PROVE  Announced(o)'
      BY <1>4, BecomesKeepsQueue DEF Announced
<1> QED BY <1>1, <1>2, <1>3, <1>4 DEF QueueStep, Announced

\* Every order a handler or a job writes is one the kitchen knows of.
WritesOnly(o) == \A x \in Orders \ {o} : orders'[x] = orders[x]

LEMMA RowWriters ==
  ASSUME TypeInv, KitchenInv, [Next]_vars
  PROVE  UNCHANGED orders \/ \E o : Announced(o) /\ WritesOnly(o)
<1> USE DEF TypeInv, TypeOK
<1>1. UNCHANGED vars => UNCHANGED orders
      BY DEF vars
<1>2. ASSUME NEW w \in Workers,
             \/ Receive(w) \/ Fail(w)
             \/ CreateDirectWrite(w) \/ StatusPay(w) \/ StatusTill(w) \/ StatusTable(w)
             \/ RefundTill(w) \/ CheckoutTable(w)
      PROVE  UNCHANGED orders
      BY <1>2 DEF Receive, CreateDirectRead, StatusRead, AssignRead, VoidRead, RefundOrderRead,
                  RefundItemRead, CheckoutRead, Fail, CreateDirectWrite, StatusPay, StatusTill,
                  StatusTable, RefundTill, CheckoutTable
<1>3. ASSUME NEW w \in Workers,
             \/ CreateDirectCommit(w) \/ StatusWrite(w) \/ AssignWrite(w) \/ VoidCommit(w)
             \/ RefundOrderCommit(w) \/ RefundItemCommit(w)
      PROVE  \E o : Announced(o) /\ WritesOnly(o)
  <2>1. reqs[w].order # 0
    <3>1. reqs[w] \in Sound
          BY DEF SoundRequests
    <3> QED BY <1>3, <3>1 DEF Sound, CreateDirectCommit, StatusWrite, AssignWrite, VoidCommit,
                              RefundOrderCommit, RefundItemCommit
  <2>2. Announced(reqs[w].order)
        BY <2>1 DEF KitchenInv
  <2>3. \E row : orders' = [orders EXCEPT ![reqs[w].order] = row]
        BY <1>3 DEF CreateDirectCommit, StatusWrite, AssignWrite, VoidCommit, RefundOrderCommit,
                    RefundItemCommit
  <2>4. WritesOnly(reqs[w].order)
        BY <2>3 DEF WritesOnly, RowsType
  <2> QED BY <2>2, <2>4
<1>4. ASSUME NEW w \in Workers, CheckoutOrder(w) PROVE \E o : Announced(o) /\ WritesOnly(o)
  <2>1. PICK o \in reqs[w].todo : orders' = [orders EXCEPT ![o].status = "COMPLETED"]
        BY <1>4 DEF CheckoutOrder
  <2>2. Announced(o)
        BY <2>1 DEF KitchenInv
  <2>3. WritesOnly(o)
        BY <2>1 DEF WritesOnly, RowsType
  <2> QED BY <2>2, <2>3
<1>5. ASSUME NEW i \in Items, VoidItem(i) \/ \E s \in ItemStatuses : UpdateItemStatus(i, s)
      PROVE  UNCHANGED orders
      BY <1>5 DEF VoidItem, UpdateItemStatus
<1>6. ASSUME NEW j \in DOMAIN jobs,
             FireRead(j) \/ FireDeduct(j) \/ FireNotify(j) \/ FireError(j) \/ FireStall(j)
      PROVE  UNCHANGED orders
      BY <1>6 DEF FireRead, FireDeduct, FireNotify, FireError, FireStall
<1>7. ASSUME NEW j \in DOMAIN jobs, FireUpdate(j) PROVE \E o : Announced(o) /\ WritesOnly(o)
  <2>1. Announced(jobs[j].order)
        BY DEF Announced
  <2>2. WritesOnly(jobs[j].order)
        BY <1>7 DEF FireUpdate, WritesOnly, RowsType
  <2> QED BY <2>1, <2>2
<1> QED BY <1>1, <1>2, <1>3, <1>4, <1>5, <1>6, <1>7 DEF Next, Handle, Fire

LEMMA IdleFields == Idle.order = 0 /\ Idle.todo = {}
BY DEF Idle

\* Request r of worker w is about orders that exist.
Asks(w, r) ==
  /\ reqs' = [reqs EXCEPT ![w] = r]
  /\ r.order \in {0} \cup Existing
  /\ r.todo \in SUBSET Existing

\* A request is about existing orders from the moment it is received.
LEMMA Received == ASSUME TypeInv, NEW w \in Workers, Receive(w) PROVE \E r : Asks(w, r)
<1> USE DEF TypeInv, TypeOK
<1>1. CASE CreateDirectRead(w)
  <2>1. PICK t \in Seats : \E to, cart, paid, pre :
          Begin(w, [Idle EXCEPT !.op = "create", !.at = "write", !.order = Newest(OpenAt(t)),
                      !.to = to, !.table = t, !.lines = cart, !.amount = paid, !.flag = pre])
        BY <1>1, ZenonT(40) DEF CreateDirectRead
  <2>2. Newest(OpenAt(t)) \in {0} \cup Existing
    <3>1. OpenAt(t) \in SUBSET Orders /\ OpenAt(t) \in SUBSET Existing
          BY DEF OpenAt, Existing
    <3> QED BY <3>1, NewestType DEF Newest
  <2>3. PICK to, cart, paid, pre :
          Begin(w, [Idle EXCEPT !.op = "create", !.at = "write", !.order = Newest(OpenAt(t)),
                      !.to = to, !.table = t, !.lines = cart, !.amount = paid, !.flag = pre])
        BY <2>1
  <2> DEFINE r == [Idle EXCEPT !.op = "create", !.at = "write", !.order = Newest(OpenAt(t)),
                      !.to = to, !.table = t, !.lines = cart, !.amount = paid, !.flag = pre]
  <2>4. r.order = Newest(OpenAt(t)) /\ r.todo = {}
        BY IdleType, IdleFields DEF Request
  <2>5. reqs' = [reqs EXCEPT ![w] = r]
        BY <2>3 DEF Begin
  <2> HIDE DEF r
  <2> QED BY <2>2, <2>4, <2>5 DEF Asks
<1>2. CASE StatusRead(w)
  <2>1. PICK o \in Existing : \E to, settle, at :
          Begin(w, [Idle EXCEPT !.op = "status", !.order = o, !.to = to, !.amount = settle, !.at = at])
        BY <1>2 DEF StatusRead
  <2>2. PICK to, settle, at :
          Begin(w, [Idle EXCEPT !.op = "status", !.order = o, !.to = to, !.amount = settle, !.at = at])
        BY <2>1
  <2> DEFINE r == [Idle EXCEPT !.op = "status", !.order = o, !.to = to, !.amount = settle, !.at = at]
  <2>3. r.order = o /\ r.todo = {}
        BY IdleType, IdleFields DEF Request
  <2> QED BY <2>2, <2>3 DEF Begin, Asks
<1>3. CASE AssignRead(w)
  <2>1. PICK o \in Existing, t \in Tables :
          Begin(w, [Idle EXCEPT !.op = "assign", !.at = "write", !.order = o, !.table = t,
                      !.flag = FullyPaid(orders[o])])
        BY <1>3 DEF AssignRead
  <2> DEFINE r == [Idle EXCEPT !.op = "assign", !.at = "write", !.order = o, !.table = t,
                      !.flag = FullyPaid(orders[o])]
  <2>2. r.order = o /\ r.todo = {}
        BY IdleType, IdleFields DEF Request
  <2> QED BY <2>1, <2>2 DEF Begin, Asks
<1>4. CASE VoidRead(w)
  <2>1. PICK o \in Existing :
          Begin(w, [Idle EXCEPT !.op = "void", !.at = "write", !.order = o,
                      !.to = orders[o].status, !.table = orders[o].table, !.lines = Lines(o)])
        BY <1>4 DEF VoidRead
  <2> DEFINE r == [Idle EXCEPT !.op = "void", !.at = "write", !.order = o,
                      !.to = orders[o].status, !.table = orders[o].table, !.lines = Lines(o)]
  <2>2. r.order = o /\ r.todo = {}
        BY IdleType, IdleFields DEF Request
  <2> QED BY <2>1, <2>2 DEF Begin, Asks
<1>5. CASE RefundOrderRead(w)
  <2>1. PICK o \in Existing : \E to, amount, lines :
          Begin(w, [Idle EXCEPT !.op = "refund", !.at = "write", !.order = o, !.to = to,
                      !.amount = amount, !.lines = lines])
        BY <1>5 DEF RefundOrderRead
  <2>2. PICK to, amount, lines :
          Begin(w, [Idle EXCEPT !.op = "refund", !.at = "write", !.order = o, !.to = to,
                      !.amount = amount, !.lines = lines])
        BY <2>1
  <2> DEFINE r == [Idle EXCEPT !.op = "refund", !.at = "write", !.order = o, !.to = to,
                      !.amount = amount, !.lines = lines]
  <2>3. r.order = o /\ r.todo = {}
        BY IdleType, IdleFields DEF Request
  <2> QED BY <2>2, <2>3 DEF Begin, Asks
<1>6. CASE RefundItemRead(w)
  <2>1. PICK i \in Items : \E to, lines, qty, amount :
          /\ items[i].order # 0
          /\ orders[items[i].order].status = "COMPLETED"
          /\ Begin(w, [Idle EXCEPT !.op = "refundItem", !.at = "write", !.order = items[i].order,
                         !.to = to, !.lines = lines, !.qty = qty, !.amount = amount])
        BY <1>6 DEF RefundItemRead
  <2>2. items[i].order \in Existing
    <3>1. items[i].order \in Orders
          BY <2>1 DEF RowsType, Orders
    <3> QED BY <2>1, <3>1 DEF Existing
  <2>3. PICK to, lines, qty, amount :
          Begin(w, [Idle EXCEPT !.op = "refundItem", !.at = "write", !.order = items[i].order,
                      !.to = to, !.lines = lines, !.qty = qty, !.amount = amount])
        BY <2>1
  <2> DEFINE r == [Idle EXCEPT !.op = "refundItem", !.at = "write", !.order = items[i].order,
                      !.to = to, !.lines = lines, !.qty = qty, !.amount = amount]
  <2>4. r.order = items[i].order /\ r.todo = {}
        BY IdleType, IdleFields DEF Request
  <2> QED BY <2>2, <2>3, <2>4 DEF Begin, Asks
<1>7. CASE CheckoutRead(w)
  <2>1. PICK t \in Tables, open \in SUBSET Existing :
          Begin(w, [Idle EXCEPT !.op = "checkout", !.at = "write", !.table = t, !.todo = open])
        BY <1>7, Zenon DEF CheckoutRead
  <2> DEFINE r == [Idle EXCEPT !.op = "checkout", !.at = "write", !.table = t, !.todo = open]
  <2>2. r.order = 0 /\ r.todo = open
        BY IdleType, IdleFields DEF Request
  <2> QED BY <2>1, <2>2 DEF Begin, Asks
<1> QED BY <1>1, <1>2, <1>3, <1>4, <1>5, <1>6, <1>7 DEF Receive

\* What a request is about stays the same, or is a new order that was announced
\* in the same step.
LEMMA Handled ==
  ASSUME TypeInv, QueueStep, NEW w \in Workers, Handle(w) \/ Fail(w)
  PROVE  \E r : /\ reqs' = [reqs EXCEPT ![w] = r]
                /\ r.order \in {0, reqs[w].order} \/ AnnouncedNext(r.order)
                /\ r.todo \in SUBSET reqs[w].todo
<1> USE DEF TypeInv, TypeOK
<1>1. reqs[w] \in Request
      BY DEF RequestsType
<1>2. CASE End(w)
      BY <1>2, IdleFields DEF End
<1>3. ASSUME NEW step, Goto(w, step)
      PROVE  \E r : /\ reqs' = [reqs EXCEPT ![w] = r]
                    /\ r.order = reqs[w].order
                    /\ r.todo = reqs[w].todo
  <2> DEFINE r == [reqs[w] EXCEPT !.at = step]
  <2>1. r.order = reqs[w].order /\ r.todo = reqs[w].todo
        BY <1>1 DEF Request
  <2>2. reqs' = [reqs EXCEPT ![w] = r]
        BY <1>3 DEF Goto
  <2> HIDE DEF r
  <2> QED BY <2>1, <2>2
<1>4. CASE CreateDirectWrite(w)
  <2>1. PICK id \in Orders :
          /\ reqs' = [reqs EXCEPT ![w].at = "commit", ![w].order = id]
          /\ kds' = (IF reqs[w].flag THEN kds ELSE kds \cup {id})
          /\ jobs' = IF reqs[w].flag THEN Append(jobs, NewJob(id)) ELSE jobs
          /\ reqs[w].order # 0 => id = reqs[w].order
        BY <1>4 DEF CreateDirectWrite, NewJob
  <2> DEFINE r == [reqs[w] EXCEPT !.at = "commit", !.order = id]
  <2>2. r.order = id /\ r.todo = reqs[w].todo
        BY <1>1 DEF Request
  <2>3. reqs' = [reqs EXCEPT ![w] = r]
        BY <2>1
  <2>4. AnnouncedNext(id)
    <3>1. CASE ~reqs[w].flag
          BY <2>1, <3>1 DEF AnnouncedNext
    <3>2. CASE reqs[w].flag
      <4>1. NewJob(id) \in Job
            BY InputAssumption DEF NewJob, Job
      <4>2. /\ jobs' \in Seq(Job) /\ Len(jobs') = Len(jobs) + 1
            /\ jobs'[Len(jobs) + 1] = NewJob(id)
            BY <2>1, <3>2, <4>1, AppendProperties DEF QueueType
      <4>3. Len(jobs) + 1 \in DOMAIN jobs'
            BY <4>2, LenProperties DEF QueueType
      <4>4. jobs'[Len(jobs) + 1].order = id
            BY <4>2 DEF NewJob
      <4> QED BY <4>3, <4>4 DEF AnnouncedNext
    <3> QED BY <3>1, <3>2
  <2> HIDE DEF r
  <2> QED BY <2>2, <2>3, <2>4
<1>5. CASE StatusWrite(w)
  <2>1. \/ End(w)
        \/ \E t, free : reqs' = [reqs EXCEPT ![w].at = "table", ![w].table = t, ![w].flag = free]
        BY <1>5 DEF StatusWrite
  <2>2. ASSUME NEW t, NEW free,
               reqs' = [reqs EXCEPT ![w].at = "table", ![w].table = t, ![w].flag = free]
        PROVE  \E r : /\ reqs' = [reqs EXCEPT ![w] = r]
                      /\ r.order = reqs[w].order
                      /\ r.todo = reqs[w].todo
    <3> DEFINE r == [reqs[w] EXCEPT !.at = "table", !.table = t, !.flag = free]
    <3>1. r.order = reqs[w].order /\ r.todo = reqs[w].todo
          BY <1>1 DEF Request
    <3>2. reqs' = [reqs EXCEPT ![w] = r]
          BY <2>2
    <3> HIDE DEF r
    <3> QED BY <3>1, <3>2
  <2> QED BY <1>2, <2>1, <2>2
<1>6. CASE CheckoutOrder(w)
  <2>1. PICK todo \in SUBSET reqs[w].todo, step \in Steps :
          reqs' = [reqs EXCEPT ![w].todo = todo, ![w].at = step]
    <3>1. PICK o \in reqs[w].todo, step \in Steps :
            reqs' = [reqs EXCEPT ![w].todo = @ \ {o}, ![w].at = step]
          BY <1>6, OpsType DEF CheckoutOrder
    <3>2. reqs' = [reqs EXCEPT ![w].todo = reqs[w].todo \ {o}, ![w].at = step]
          BY <3>1
    <3> QED BY <3>2
  <2> DEFINE r == [reqs[w] EXCEPT !.todo = todo, !.at = step]
  <2>2. r.order = reqs[w].order /\ r.todo = todo
        BY <1>1 DEF Request
  <2>3. reqs' = [reqs EXCEPT ![w] = r]
        BY <2>1
  <2> HIDE DEF r
  <2> QED BY <2>2, <2>3
<1>7. \/ End(w) \/ CreateDirectWrite(w) \/ StatusWrite(w) \/ CheckoutOrder(w)
      \/ \E step : Goto(w, step)
      BY DEF Handle, Fail, CreateDirectCommit, StatusPay, StatusTill, StatusTable, AssignWrite,
             VoidCommit, RefundTill, RefundOrderCommit, RefundItemCommit, CheckoutTable
<1> QED BY <1>2, <1>3, <1>4, <1>5, <1>6, <1>7

LEMMA KitchenStep ==
  ASSUME TypeInv, KitchenInv, [Next]_vars PROVE KitchenInv'
<1> USE DEF TypeInv, TypeOK
<1>1. QueueStep
      BY QueueSteps
<1>2. \A o : Announced(o) => AnnouncedNext(o)
      BY <1>1, AnnouncedStays DEF Announced, AnnouncedNext
<1>3. \A o \in Existing' : AnnouncedNext(o)
  <2>1. UNCHANGED orders \/ \E o : Announced(o) /\ WritesOnly(o)
        BY RowWriters
  <2>2. ASSUME NEW o \in Existing' PROVE o \in Existing \/ Announced(o)
    <3>1. o \in Orders /\ orders'[o].status # "none"
          BY DEF Existing
    <3> QED BY <2>1, <3>1 DEF Existing, WritesOnly
  <2> QED BY <1>2, <2>2 DEF KitchenInv
<1>4. ASSUME NEW v \in Workers
      PROVE  /\ reqs'[v].order # 0 => AnnouncedNext(reqs'[v].order)
             /\ \A o \in reqs'[v].todo : AnnouncedNext(o)
  <2>1. CASE UNCHANGED reqs
        BY <1>2, <2>1 DEF KitchenInv
  <2>2. ASSUME NEW w \in Workers, Receive(w)
        PROVE  /\ reqs'[v].order # 0 => AnnouncedNext(reqs'[v].order)
               /\ \A o \in reqs'[v].todo : AnnouncedNext(o)
    <3>1. PICK r : Asks(w, r)
          BY <2>2, Received
    <3>2. reqs'[v] = IF v = w THEN r ELSE reqs[v]
          BY <3>1 DEF Asks, RequestsType
    <3> QED BY <1>2, <3>1, <3>2 DEF Asks, KitchenInv
  <2>3. ASSUME NEW w \in Workers, Handle(w) \/ Fail(w)
        PROVE  /\ reqs'[v].order # 0 => AnnouncedNext(reqs'[v].order)
               /\ \A o \in reqs'[v].todo : AnnouncedNext(o)
    <3>1. PICK r : /\ reqs' = [reqs EXCEPT ![w] = r]
                   /\ r.order \in {0, reqs[w].order} \/ AnnouncedNext(r.order)
                   /\ r.todo \in SUBSET reqs[w].todo
          BY <1>1, <2>3, Handled
    <3>2. reqs'[v] = IF v = w THEN r ELSE reqs[v]
          BY <3>1 DEF RequestsType
    <3> QED BY <1>2, <3>1, <3>2 DEF KitchenInv
  <2>4. ASSUME NEW i \in Items, VoidItem(i) \/ \E s \in ItemStatuses : UpdateItemStatus(i, s)
        PROVE  UNCHANGED reqs
        BY <2>4 DEF VoidItem, UpdateItemStatus
  <2>5. ASSUME NEW j \in DOMAIN jobs, Fire(j) \/ FireError(j) \/ FireStall(j) PROVE UNCHANGED reqs
        BY <2>5 DEF Fire, FireRead, FireUpdate, FireDeduct, FireNotify, FireError, FireStall
  <2>6. UNCHANGED vars => UNCHANGED reqs
        BY DEF vars
  <2> QED BY <2>1, <2>2, <2>3, <2>4, <2>5, <2>6 DEF Next
<1>5. KitchenInv' <=> /\ \A o \in Existing' : AnnouncedNext(o)
                      /\ \A v \in Workers : reqs'[v].order # 0 => AnnouncedNext(reqs'[v].order)
                      /\ \A v \in Workers : \A o \in reqs'[v].todo : AnnouncedNext(o)
      BY DEF KitchenInv, Announced, AnnouncedNext
<1> QED BY <1>3, <1>4, <1>5

\* No committed order is forgotten by the kitchen, whatever is rolled back, voided,
\* refunded, checked out or retried around it.
THEOREM KitchenCorrect == Spec => []NoOrderForgotten
<1>1. Init => KitchenInv
      BY IdleFields DEF Init, KitchenInv, Existing, NoOrder
<1>2. TypeInv /\ KitchenInv /\ [Next]_vars => KitchenInv'
      BY KitchenStep
<1>3. KitchenInv => NoOrderForgotten
      BY DEF KitchenInv, Announced, NoOrderForgotten
<1> QED BY TypeInit, TypeStep, <1>1, <1>2, <1>3, PTL DEF Spec
=============================================================================
