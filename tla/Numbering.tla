------------------------------ MODULE Numbering ------------------------------
(***************************************************************************)
(* NumberingService inside the transactions of createDirect: how an order  *)
(* of one tenant gets its receipt number (per branch and business day,     *)
(* wrapping) and its invoice number (per tenant and business day), when    *)
(* several orders are created at once on Postgres, READ COMMITTED.         *)
(*                                                                         *)
(* A counter row is known by the request that inserted it.  A row a        *)
(* transaction wrote stays locked until it ends; what it wrote is kept by  *)
(* the request and reaches the tables at its commit.                       *)
(***************************************************************************)
EXTENDS Naturals, FiniteSets

CONSTANTS
  Requests,      \* orders being created, each in one transaction
  Branches,
  NoBranch,      \* the request has no branch: ReceiptCounter.branchId is NULL
  Branch,        \* Branch[r]: branch of request r
  ReceiptWrap,   \* the last receipt number (999 in the code)
  LastDay        \* bound: business days 1 .. LastDay

Days == 1 .. LastDay

ASSUME NumberingAssumption ==
  /\ NoBranch \notin Branches
  /\ Branch \in [Requests -> Branches \cup {NoBranch}]
  /\ ReceiptWrap \in Nat \ {0}
  /\ LastDay \in Nat \ {0}

VARIABLES
  today,       \* the business day the clock shows
  pc,          \* where createDirect is in each request
  receiptDay,  \* the day nextReceiptNumber computed
  target,      \* the counter rows its UPDATE saw when it started
  locks,       \* the counter rows it wrote: updated ones, or its own new one
  receipt,     \* the receipt number it got
  invoiceDay,  \* the day nextInvoiceNumber computed
  invoice,     \* the sequence of the invoice number it got
  receiptSeq,  \* ReceiptCounter: sequence of the row r inserted, 0 for none
  invoiceSeq   \* InvoiceCounter: sequence of each day, 0 for no row

local  == <<pc, receiptDay, target, locks, receipt, invoiceDay, invoice>>
tables == <<receiptSeq, invoiceSeq>>
vars   == <<today, local, tables>>

Steps == {"start", "update", "insert", "invoice", "upsert", "write", "done", "aborted"}

TypeOK ==
  /\ today \in Days
  /\ pc \in [Requests -> Steps]
  /\ receiptDay \in [Requests -> Days]
  /\ target \in [Requests -> SUBSET Requests]
  /\ locks \in [Requests -> SUBSET Requests]
  /\ receipt \in [Requests -> 0 .. ReceiptWrap]
  /\ invoiceDay \in [Requests -> Days]
  /\ invoice \in [Requests -> Nat]
  /\ receiptSeq \in [Requests -> 0 .. ReceiptWrap]
  /\ invoiceSeq \in [Days -> Nat]

Init ==
  /\ today = 1
  /\ pc = [r \in Requests |-> "start"]
  /\ receiptDay = [r \in Requests |-> 1]
  /\ target = [r \in Requests |-> {}]
  /\ locks = [r \in Requests |-> {}]
  /\ receipt = [r \in Requests |-> 0]
  /\ invoiceDay = [r \in Requests |-> 1]
  /\ invoice = [r \in Requests |-> 0]
  /\ receiptSeq = [r \in Requests |-> 0]
  /\ invoiceSeq = [d \in Days |-> 0]

-----------------------------------------------------------------------------
Done == {r \in Requests : pc[r] = "done"}

\* Mistaken: the wrap comes one number late.
SuccLate(n) == IF n > ReceiptWrap THEN 1 ELSE n + 1

\* CASE WHEN sequence >= 999 THEN 1 ELSE sequence + 1 END; a new row is the
\* successor of nothing.
Succ(n) == IF n >= ReceiptWrap THEN 1 ELSE n + 1

\* Committed counter rows of a branch and day.
Rows(b, d) == {q \in Requests : receiptSeq[q] > 0 /\ Branch[q] = b /\ receiptDay[q] = d}

\* Row q was inserted or updated by another transaction that has not ended.
ReceiptLocked(r, q) == \E o \in Requests \ {r} : q \in locks[o]

\* Another transaction has inserted a row with r's key and has not ended.
KeyPending(r) ==
  \E o \in Requests \ {r} : /\ o \in locks[o]
                            /\ Branch[o] = Branch[r]
                            /\ receiptDay[o] = receiptDay[r]

\* Mistaken: a transaction that has committed keeps the day's invoice row.
InvoiceLockedForEver(r) ==
  \E o \in Requests \ {r} : pc[o] \in {"write", "done"} /\ invoiceDay[o] = invoiceDay[r]

\* The invoice row of r's day is held by another transaction.
InvoiceLocked(r) ==
  \E o \in Requests \ {r} : pc[o] = "write" /\ invoiceDay[o] = invoiceDay[r]

-----------------------------------------------------------------------------
Tick ==
  /\ today < LastDay
  /\ today' = today + 1
  /\ UNCHANGED <<local, tables>>

\* getBusinessDate, then the UPDATE starts: the committed rows it sees.
StartReceipt(r) ==
  /\ pc[r] = "start"
  /\ receiptDay' = [receiptDay EXCEPT ![r] = today]
  /\ target' = [target EXCEPT ![r] = Rows(Branch[r], today)]
  /\ pc' = [pc EXCEPT ![r] = IF Rows(Branch[r], today) = {} THEN "insert" ELSE "update"]
  /\ UNCHANGED <<today, locks, receipt, invoiceDay, invoice, tables>>

\* Mistaken: the UPDATE does not wait for a row another transaction wrote.
UpdateReceiptUnlocked(r) ==
  /\ pc[r] = "update"
  /\ \E q \in target[r] : receipt' = [receipt EXCEPT ![r] = Succ(receiptSeq[q])]
  /\ locks' = [locks EXCEPT ![r] = target[r]]
  /\ pc' = [pc EXCEPT ![r] = "invoice"]
  /\ UNCHANGED <<today, receiptDay, target, invoiceDay, invoice, tables>>

\* The UPDATE waits for the rows it saw and increments what is in them then; of
\* several rows (branchId IS NULL only) it returns any one first.
UpdateReceipt(r) ==
  /\ pc[r] = "update"
  /\ \A q \in target[r] : ~ReceiptLocked(r, q)
  /\ \E q \in target[r] : receipt' = [receipt EXCEPT ![r] = Succ(receiptSeq[q])]
  /\ locks' = [locks EXCEPT ![r] = target[r]]
  /\ pc' = [pc EXCEPT ![r] = "invoice"]
  /\ UNCHANGED <<today, receiptDay, target, invoiceDay, invoice, tables>>

\* The INSERT waits while another row of the same key is uncommitted; NULLs are
\* not equal to each other, so without a branch there is no such row.
InsertReceipt(r) ==
  /\ pc[r] = "insert"
  /\ \/ Branch[r] = NoBranch
     \/ ~KeyPending(r) /\ Rows(Branch[r], receiptDay[r]) = {}
  /\ locks' = [locks EXCEPT ![r] = {r}]
  /\ receipt' = [receipt EXCEPT ![r] = Succ(0)]
  /\ pc' = [pc EXCEPT ![r] = "invoice"]
  /\ UNCHANGED <<today, receiptDay, target, invoiceDay, invoice, tables>>

\* The key exists by now: the INSERT fails and with it the transaction, so the
\* UPDATE of the catch block is refused and the order is not created.
InsertRefused(r) ==
  /\ pc[r] = "insert"
  /\ Branch[r] # NoBranch
  /\ ~KeyPending(r)
  /\ Rows(Branch[r], receiptDay[r]) # {}
  /\ pc' = [pc EXCEPT ![r] = "aborted"]
  /\ UNCHANGED <<today, receiptDay, target, locks, receipt, invoiceDay, invoice, tables>>

\* nextInvoiceNumber asks the clock again.
StartInvoice(r) ==
  /\ pc[r] = "invoice"
  /\ invoiceDay' = [invoiceDay EXCEPT ![r] = today]
  /\ pc' = [pc EXCEPT ![r] = "upsert"]
  /\ UNCHANGED <<today, receiptDay, target, locks, receipt, invoice, tables>>

\* Mistaken: the upsert reads the sequence without waiting for its row.
UpsertInvoiceUnlocked(r) ==
  /\ pc[r] = "upsert"
  /\ invoice' = [invoice EXCEPT ![r] = invoiceSeq[invoiceDay[r]] + 1]
  /\ pc' = [pc EXCEPT ![r] = "write"]
  /\ UNCHANGED <<today, receiptDay, target, locks, receipt, invoiceDay, tables>>

\* INSERT ... ON CONFLICT DO UPDATE waits for the row, inserted or updated.
UpsertInvoice(r) ==
  /\ pc[r] = "upsert"
  /\ ~InvoiceLocked(r)
  /\ invoice' = [invoice EXCEPT ![r] = invoiceSeq[invoiceDay[r]] + 1]
  /\ pc' = [pc EXCEPT ![r] = "write"]
  /\ UNCHANGED <<today, receiptDay, target, locks, receipt, invoiceDay, tables>>

\* createDirect writes the order and commits.
Commit(r) ==
  /\ pc[r] = "write"
  /\ receiptSeq' = [q \in Requests |-> IF q \in locks[r] THEN Succ(receiptSeq[q])
                                                         ELSE receiptSeq[q]]
  /\ invoiceSeq' = [invoiceSeq EXCEPT ![invoiceDay[r]] = invoice[r]]
  /\ locks' = [locks EXCEPT ![r] = {}]
  /\ pc' = [pc EXCEPT ![r] = "done"]
  /\ UNCHANGED <<today, receiptDay, target, receipt, invoiceDay, invoice>>

\* Mistaken: a rollback keeps the number it drew, as a database sequence would.
AbortBurnsNumber(r) ==
  /\ pc[r] \in {"update", "insert", "invoice", "upsert", "write"}
  /\ locks' = [locks EXCEPT ![r] = {}]
  /\ pc' = [pc EXCEPT ![r] = "aborted"]
  /\ invoiceSeq' = IF pc[r] = "write"
                     THEN [invoiceSeq EXCEPT ![invoiceDay[r]] = invoice[r]] ELSE invoiceSeq
  /\ UNCHANGED <<today, receiptDay, target, receipt, invoiceDay, invoice, receiptSeq>>

\* Anything later in createDirect fails, or its transaction times out: both
\* counters go back with the rollback.
Abort(r) ==
  /\ pc[r] \in {"update", "insert", "invoice", "upsert", "write"}
  /\ locks' = [locks EXCEPT ![r] = {}]
  /\ pc' = [pc EXCEPT ![r] = "aborted"]
  /\ UNCHANGED <<today, receiptDay, target, receipt, invoiceDay, invoice, tables>>

-----------------------------------------------------------------------------
Work(r) ==
  \/ UpdateReceipt(r) \/ InsertReceipt(r) \/ InsertRefused(r)
  \/ StartInvoice(r) \/ UpsertInvoice(r) \/ Commit(r)

Next == Tick \/ \E r \in Requests : StartReceipt(r) \/ Work(r) \/ Abort(r)

Spec == Init /\ [][Next]_vars

\* A transaction that can take its next step takes it; none has to start or fail.
FairSpec == Spec /\ \A r \in Requests : WF_vars(Work(r))

-----------------------------------------------------------------------------
(* Properties.                                                             *)

\* The committed invoices of a day are numbered 1, 2, ... without a hole or a
\* repetition, whatever was rolled back in between (nextInvoiceNumber).
InvoicesGapless ==
  /\ \A d \in Days : {invoice[r] : r \in {q \in Done : invoiceDay[q] = d}} = 1 .. invoiceSeq[d]
  /\ \A r, q \in Done : invoiceDay[r] = invoiceDay[q] /\ invoice[r] = invoice[q] => r = q

\* What makes InvoicesGapless inductive: the transaction that holds the day's row
\* holds it alone and has drawn the number after the last committed one.
HolderDrawsNext ==
  \A r \in Requests : pc[r] = "write" =>
    /\ invoice[r] = invoiceSeq[invoiceDay[r]] + 1
    /\ ~InvoiceLocked(r)

\* Concurrent first orders without a branch have left several counter rows.
Split(b, d) == b = NoBranch /\ \E q, p \in Rows(b, d) : q # p

\* The orders a branch printed in a day carry 1, 2, ..., ReceiptWrap, 1, 2, ... in
\* turn: none shares its number before all the others were used, and a rollback
\* leaves no hole; so do those without a branch, unless there are several counter
\* rows for them (nextReceiptNumber).
ReceiptsInTurn ==
  \A b \in Branches \cup {NoBranch}, d \in Days :
    LET printed == {r \in Done : Branch[r] = b /\ receiptDay[r] = d}
    IN ~Split(b, d) =>
         \A n \in 1 .. ReceiptWrap :
           Cardinality({r \in printed : receipt[r] = n})
             = (Cardinality(printed) + ReceiptWrap - n) \div ReceiptWrap

\* Orders waiting for each other's counters all end: receipt row first, invoice
\* row second, is an order without cycles.
CreatesEnd == \A r \in Requests : pc[r] # "start" ~> pc[r] \in {"done", "aborted"}

\* Numbers are issued by commits, in order, as the tax authority reads them.
Book == INSTANCE InvoiceBook WITH
          last   <- invoiceSeq,
          issued <- [r \in Requests |->
                      IF pc[r] = "done"
                        THEN [day |-> invoiceDay[r], number |-> invoice[r]]
                        ELSE [day |-> 0, number |-> 0]]
ImplementsBook == Book!Spec

\* lookupByReceipt finds at most one order for a receipt number, the date in the
\* invoice number and a branch ("Invoice queryable by receipt number + date +
\* terminal").
LookupUnambiguous ==
  \A r, q \in Done :
    /\ Branch[r] = Branch[q] /\ Branch[r] # NoBranch
    /\ receipt[r] = receipt[q] /\ invoiceDay[r] = invoiceDay[q]
    => r = q
=============================================================================
