--------------------------- MODULE NumberingProofs ---------------------------
(***************************************************************************)
(* Proofs about Numbering for any number of requests, branches and days.   *)
(* Invoices: whoever holds a day's row holds it alone and has drawn the    *)
(* number after the last committed one, so that the committed numbers of a *)
(* day stay 1, 2, ... and every commit issues the next.                    *)
(* Receipts: a branch and day have one counter row, in the table or about  *)
(* to be, one transaction at a time holds it and has drawn the successor   *)
(* of what is in it, and what is in it counts what was printed.            *)
(***************************************************************************)
EXTENDS Numbering, FiniteSetTheorems, TLAPS

\* What UPDATE ... SET sequence = CASE ... leaves in a row is a receipt number.
LEMMA SuccInRange == \A n \in 0 .. ReceiptWrap : Succ(n) \in 0 .. ReceiptWrap
BY NumberingAssumption DEF Succ

LEMMA TypeInit == Init => TypeOK
BY NumberingAssumption DEF Init, TypeOK, Days, Steps

LEMMA TypeStep == TypeOK /\ [Next]_vars => TypeOK'
<1> SUFFICES ASSUME TypeOK, [Next]_vars PROVE TypeOK'
    OBVIOUS
<1> USE NumberingAssumption DEF TypeOK, Days, Steps
<1>1. CASE UNCHANGED vars
      BY <1>1 DEF vars, local, tables
<1>2. CASE Tick
      BY <1>2 DEF Tick, local, tables
<1>3. ASSUME NEW r \in Requests, StartReceipt(r) PROVE TypeOK'
      BY <1>3 DEF StartReceipt, Rows, tables
<1>4. ASSUME NEW r \in Requests, UpdateReceipt(r) PROVE TypeOK'
  <2>1. PICK q \in target[r] : receipt' = [receipt EXCEPT ![r] = Succ(receiptSeq[q])]
        BY <1>4 DEF UpdateReceipt
  <2>2. receiptSeq[q] \in 0 .. ReceiptWrap
        BY <2>1
  <2>3. Succ(receiptSeq[q]) \in 0 .. ReceiptWrap
        BY <2>2, SuccInRange
  <2>4. receipt' \in [Requests -> 0 .. ReceiptWrap]
        BY <2>1, <2>3
  <2> QED BY <1>4, <2>4 DEF UpdateReceipt, tables
<1>5. ASSUME NEW r \in Requests, InsertReceipt(r) PROVE TypeOK'
  <2>1. Succ(0) \in 0 .. ReceiptWrap
        BY 0 \in 0 .. ReceiptWrap, SuccInRange
  <2> QED BY <1>5, <2>1 DEF InsertReceipt, tables
<1>6. ASSUME NEW r \in Requests, InsertRefused(r) PROVE TypeOK'
      BY <1>6 DEF InsertRefused, tables
<1>7. ASSUME NEW r \in Requests, StartInvoice(r) PROVE TypeOK'
      BY <1>7 DEF StartInvoice, tables
<1>8. ASSUME NEW r \in Requests, UpsertInvoice(r) PROVE TypeOK'
      BY <1>8, SMTT(40) DEF UpsertInvoice, tables
<1>9. ASSUME NEW r \in Requests, Commit(r) PROVE TypeOK'
  <2>1. \A q \in Requests : Succ(receiptSeq[q]) \in 0 .. ReceiptWrap
        BY SuccInRange
  <2>2. receiptSeq' \in [Requests -> 0 .. ReceiptWrap]
        BY <1>9, <2>1 DEF Commit
  <2> QED BY <1>9, <2>2 DEF Commit
<1>10. ASSUME NEW r \in Requests, Abort(r) PROVE TypeOK'
       BY <1>10 DEF Abort, tables
<1> QED BY <1>1, <1>2, <1>3, <1>4, <1>5, <1>6, <1>7, <1>8, <1>9, <1>10 DEF Next, Work

\* Every variable of the numbering keeps its type in every reachable state.
THEOREM TypeCorrect == Spec => []TypeOK
BY TypeInit, TypeStep, PTL DEF Spec

-----------------------------------------------------------------------------
(* What a step can do to the invoice numbers.                              *)

\* All steps but a clock reading, an upsert and a commit leave invoices alone.
Elsewhere ==
  /\ UNCHANGED <<invoiceDay, invoice, invoiceSeq>>
  /\ \A r \in Requests : pc'[r] = "write" => pc[r] = "write"
  /\ \A r \in Requests : pc'[r] = "done" <=> pc[r] = "done"

LEMMA InvoiceSteps ==
  ASSUME TypeOK, [Next]_vars
  PROVE  \/ Elsewhere
         \/ \E r \in Requests : StartInvoice(r) \/ UpsertInvoice(r) \/ Commit(r)
<1> USE DEF TypeOK, Elsewhere
<1>1. CASE UNCHANGED vars
      BY <1>1 DEF vars, local, tables
<1>2. CASE Tick
      BY <1>2 DEF Tick, local, tables
<1>3. ASSUME NEW r \in Requests, StartReceipt(r) PROVE Elsewhere
      BY <1>3 DEF StartReceipt, tables
<1>4. ASSUME NEW r \in Requests, UpdateReceipt(r) PROVE Elsewhere
      BY <1>4 DEF UpdateReceipt, tables
<1>5. ASSUME NEW r \in Requests, InsertReceipt(r) PROVE Elsewhere
      BY <1>5 DEF InsertReceipt, tables
<1>6. ASSUME NEW r \in Requests, InsertRefused(r) PROVE Elsewhere
      BY <1>6 DEF InsertRefused, tables
<1>7. ASSUME NEW r \in Requests, Abort(r) PROVE Elsewhere
      BY <1>7 DEF Abort, tables
<1> QED BY <1>1, <1>2, <1>3, <1>4, <1>5, <1>6, <1>7 DEF Next, Work
-----------------------------------------------------------------------------
(* The inductive invariant.                                                *)

\* InvoicesGapless without sets of numbers: every committed number is in its
\* day's series, the series has no hole, and no number is there twice.
InSeries == \A r \in Done : invoice[r] \in 1 .. invoiceSeq[invoiceDay[r]]
NoHole == \A d \in Days : \A n \in 1 .. invoiceSeq[d] :
            \E r \in Done : invoiceDay[r] = d /\ invoice[r] = n
NoRepeat == \A r, q \in Done :
              invoiceDay[r] = invoiceDay[q] /\ invoice[r] = invoice[q] => r = q

Inv == TypeOK /\ HolderDrawsNext /\ InSeries /\ NoHole /\ NoRepeat

LEMMA InvInit == Init => Inv
<1> SUFFICES ASSUME Init PROVE Inv
    OBVIOUS
<1>1. TypeOK
      BY TypeInit
<1>2. Done = {} /\ \A r \in Requests : pc[r] # "write"
      BY DEF Init, Done
<1>3. \A d \in Days : 1 .. invoiceSeq[d] = {}
      BY DEF Init
<1> QED BY <1>1, <1>2, <1>3 DEF Inv, HolderDrawsNext, InSeries, NoHole, NoRepeat

LEMMA ElsewhereKeepsInv ==
  ASSUME Inv, TypeOK', Elsewhere PROVE Inv'
<1>1. Done' = Done
      BY DEF Elsewhere, Done
<1>2. HolderDrawsNext'
      BY DEF Inv, Elsewhere, HolderDrawsNext, InvoiceLocked
<1>3. InSeries' /\ NoHole' /\ NoRepeat'
      BY <1>1 DEF Inv, Elsewhere, InSeries, NoHole, NoRepeat
<1> QED BY <1>2, <1>3 DEF Inv

LEMMA StartKeepsInv ==
  ASSUME Inv, TypeOK', NEW r \in Requests, StartInvoice(r) PROVE Inv'
<1> USE DEF Inv, TypeOK
<1>1. Done' = Done /\ r \notin Done
      BY DEF StartInvoice, Done
<1>2. /\ UNCHANGED <<invoice, invoiceSeq>>
      /\ \A q \in Requests \ {r} : pc'[q] = pc[q] /\ invoiceDay'[q] = invoiceDay[q]
      /\ pc'[r] = "upsert"
      BY DEF StartInvoice, tables
<1>3. HolderDrawsNext'
      BY <1>2 DEF HolderDrawsNext, InvoiceLocked
<1>4. \A q \in Done : invoiceDay'[q] = invoiceDay[q]
      BY <1>1, <1>2 DEF Done
<1>5. InSeries' /\ NoHole' /\ NoRepeat'
      BY <1>1, <1>2, <1>4 DEF InSeries, NoHole, NoRepeat
<1> QED BY <1>3, <1>5

LEMMA UpsertKeepsInv ==
  ASSUME Inv, TypeOK', NEW r \in Requests, UpsertInvoice(r) PROVE Inv'
<1> USE DEF Inv, TypeOK
<1>1. Done' = Done /\ r \notin Done
      BY DEF UpsertInvoice, Done
<1>2. /\ UNCHANGED <<invoiceDay, invoiceSeq>>
      /\ \A q \in Requests \ {r} : pc'[q] = pc[q] /\ invoice'[q] = invoice[q]
      /\ invoice'[r] = invoiceSeq[invoiceDay[r]] + 1
      /\ ~InvoiceLocked(r)
      BY DEF UpsertInvoice, tables
<1>3. HolderDrawsNext'
  <2> SUFFICES ASSUME NEW q \in Requests, pc'[q] = "write"
               PROVE  /\ invoice'[q] = invoiceSeq'[invoiceDay'[q]] + 1
                      /\ ~InvoiceLocked(q)'
      BY DEF HolderDrawsNext
  <2>1. CASE q = r
        BY <1>2, <2>1 DEF InvoiceLocked
  <2>2. CASE q # r
    <3>1. pc[q] = "write" /\ ~InvoiceLocked(q) /\ invoiceDay[q] # invoiceDay[r]
          BY <1>2, <2>2 DEF HolderDrawsNext, InvoiceLocked
    <3> QED BY <1>2, <2>2, <3>1 DEF HolderDrawsNext, InvoiceLocked
  <2> QED BY <2>1, <2>2
<1>4. \A q \in Done : invoice'[q] = invoice[q]
      BY <1>1, <1>2 DEF Done
<1>5. InSeries'
      BY <1>1, <1>2, <1>4 DEF InSeries
<1>6. NoHole'
      BY <1>1, <1>2, <1>4 DEF NoHole
<1>7. NoRepeat'
      BY <1>1, <1>2, <1>4 DEF NoRepeat
<1> QED BY <1>3, <1>5, <1>6, <1>7

LEMMA CommitKeepsInv ==
  ASSUME Inv, TypeOK', NEW r \in Requests, Commit(r) PROVE Inv'
<1> USE DEF Inv, TypeOK
<1> DEFINE d == invoiceDay[r]
<1>1. Done' = Done \cup {r} /\ r \notin Done
      BY DEF Commit, Done
<1>2. /\ UNCHANGED <<invoiceDay, invoice>>
      /\ \A q \in Requests \ {r} : pc'[q] = pc[q]
      /\ pc[r] = "write" /\ pc'[r] = "done"
      BY DEF Commit
<1>3. invoice[r] = invoiceSeq[d] + 1 /\ ~InvoiceLocked(r)
      BY <1>2 DEF HolderDrawsNext
<1>4. /\ invoiceSeq'[d] = invoiceSeq[d] + 1
      /\ \A e \in Days \ {d} : invoiceSeq'[e] = invoiceSeq[e]
      BY <1>3 DEF Commit
<1>5. HolderDrawsNext'
  <2> SUFFICES ASSUME NEW q \in Requests, pc'[q] = "write"
               PROVE  /\ invoice'[q] = invoiceSeq'[invoiceDay'[q]] + 1
                      /\ ~InvoiceLocked(q)'
      BY DEF HolderDrawsNext
  <2>1. q # r /\ pc[q] = "write" /\ invoiceDay[q] # d
        BY <1>2, <1>3 DEF InvoiceLocked
  <2> QED BY <1>2, <1>4, <2>1 DEF HolderDrawsNext, InvoiceLocked
<1>6. InSeries'
  <2> SUFFICES ASSUME NEW q \in Done' PROVE invoice[q] \in 1 .. invoiceSeq'[invoiceDay[q]]
      BY <1>2 DEF InSeries
  <2>1. CASE q = r
        BY <1>3, <1>4, <2>1
  <2>2. CASE q # r
    <3>1. q \in Requests /\ invoice[q] \in 1 .. invoiceSeq[invoiceDay[q]]
          BY <1>1, <2>2 DEF InSeries, Done
    <3> QED BY <1>4, <3>1
  <2> QED BY <2>1, <2>2
<1>7. NoHole'
  <2> SUFFICES ASSUME NEW e \in Days, NEW n \in 1 .. invoiceSeq'[e]
               PROVE  \E q \in Done' : invoiceDay[q] = e /\ invoice[q] = n
      BY <1>2 DEF NoHole
  <2>1. CASE e = d /\ n = invoiceSeq[d] + 1
        BY <1>1, <1>3, <2>1
  <2>2. CASE ~(e = d /\ n = invoiceSeq[d] + 1)
    <3>1. n \in 1 .. invoiceSeq[e]
      <4>1. invoiceSeq[e] \in Nat /\ invoiceSeq'[e] \in Nat
            OBVIOUS
      <4>2. CASE e # d
            BY <1>4, <4>2
      <4>3. CASE e = d
        <5>1. invoiceSeq'[e] = invoiceSeq[e] + 1 /\ n # invoiceSeq[e] + 1
              BY <1>4, <2>2, <4>3
        <5> HIDE DEF d
        <5> QED BY <4>1, <5>1
      <4> QED BY <4>2, <4>3
    <3> QED BY <1>1, <3>1 DEF NoHole
  <2> QED BY <2>1, <2>2
<1>8. NoRepeat'
  <2>1. \A q \in Done : invoiceDay[q] = d => invoice[q] # invoice[r]
        BY <1>3 DEF InSeries, Done
  <2> QED BY <1>1, <1>2, <2>1 DEF NoRepeat
<1> QED BY <1>5, <1>6, <1>7, <1>8

LEMMA InvStep == Inv /\ [Next]_vars => Inv'
<1> SUFFICES ASSUME Inv, [Next]_vars PROVE Inv'
    OBVIOUS
<1>1. TypeOK /\ TypeOK'
      BY TypeStep DEF Inv
<1> QED BY <1>1, InvoiceSteps, ElsewhereKeepsInv, StartKeepsInv, UpsertKeepsInv, CommitKeepsInv

LEMMA Invariance == Spec => []Inv
BY InvInit, InvStep, PTL DEF Spec

\* Whoever holds a day's invoice row holds it alone and has drawn the number
\* after the last one committed, however many orders are created at once.
THEOREM HolderCorrect == Spec => []HolderDrawsNext
<1>1. Inv => HolderDrawsNext
      BY DEF Inv
<1> QED BY <1>1, Invariance, PTL

\* The committed invoices of every day are numbered without hole or repetition.
THEOREM GaplessCorrect == Spec => []InvoicesGapless
<1>1. Inv => InvoicesGapless
  <2> SUFFICES ASSUME Inv PROVE InvoicesGapless
      OBVIOUS
  <2>1. ASSUME NEW d \in Days
        PROVE  {invoice[r] : r \in {q \in Done : invoiceDay[q] = d}} = 1 .. invoiceSeq[d]
    <3>1. \A n \in 1 .. invoiceSeq[d] :
            n \in {invoice[r] : r \in {q \in Done : invoiceDay[q] = d}}
          BY DEF Inv, NoHole
    <3>2. \A r \in {q \in Done : invoiceDay[q] = d} : invoice[r] \in 1 .. invoiceSeq[d]
          BY DEF Inv, InSeries
    <3> QED BY <3>1, <3>2
  <2> QED BY <2>1 DEF Inv, NoRepeat, InvoicesGapless
<1> QED BY <1>1, Invariance, PTL

-----------------------------------------------------------------------------
(* Numbering implements InvoiceBook.                                       *)

\* The invoice an order shows to the outside.
Shown == [r \in Requests |->
            IF pc[r] = "done" THEN [day |-> invoiceDay[r], number |-> invoice[r]]
                              ELSE [day |-> 0, number |-> 0]]

LEMMA BookInit == Init => Book!Empty
BY DEF Init, Book!Empty, Book!NoInvoice

LEMMA BookStep ==
  ASSUME Inv, [Next]_vars
  PROVE  [\E r \in Requests, d \in Days : Book!Issue(r, d)]_(Book!book)
<1> USE DEF Inv, TypeOK
<1>1. CASE Elsewhere
  <2>1. Shown' = Shown
        BY <1>1 DEF Elsewhere, Shown
  <2> QED BY <1>1, <2>1 DEF Elsewhere, Shown, Book!book
<1>2. ASSUME NEW r \in Requests, StartInvoice(r) PROVE UNCHANGED Book!book
  <2>1. Shown' = Shown
        BY <1>2 DEF StartInvoice, Shown
  <2> QED BY <1>2, <2>1 DEF StartInvoice, tables, Shown, Book!book
<1>3. ASSUME NEW r \in Requests, UpsertInvoice(r) PROVE UNCHANGED Book!book
  <2>1. Shown' = Shown
        BY <1>3 DEF UpsertInvoice, Shown
  <2> QED BY <1>3, <2>1 DEF UpsertInvoice, tables, Shown, Book!book
<1>4. ASSUME NEW r \in Requests, Commit(r)
      PROVE  \E d \in Days : Book!Issue(r, d)
  <2> DEFINE d == invoiceDay[r]
  <2>1. pc[r] = "write" /\ invoice[r] = invoiceSeq[d] + 1
        BY <1>4 DEF Commit, HolderDrawsNext
  <2>2. Shown[r] = [day |-> 0, number |-> 0]
        BY <2>1 DEF Shown
  <2>3. invoiceSeq' = [invoiceSeq EXCEPT ![d] = @ + 1]
        BY <1>4, <2>1 DEF Commit
  <2>4. Shown' = [Shown EXCEPT ![r] = [day |-> d, number |-> invoiceSeq[d] + 1]]
        BY <1>4, <2>1 DEF Commit, Shown
  <2>5. Book!Issue(r, d)
        BY <2>2, <2>3, <2>4 DEF Shown, Book!Issue, Book!NoInvoice
  <2>6. d \in Days
        OBVIOUS
  <2> HIDE DEF d
  <2> QED BY <2>5, <2>6 DEF Book!Issue
<1>5. CASE Elsewhere
      BY <1>1, <1>5
<1>6. CASE \E r \in Requests : StartInvoice(r) \/ UpsertInvoice(r) \/ Commit(r)
      BY <1>2, <1>3, <1>4, <1>6
<1> QED BY <1>5, <1>6, InvoiceSteps

\* Every behaviour of the numbering is a behaviour of the invoice book: a commit
\* issues the next number of its day and nothing else issues or takes back one.
THEOREM BookCorrect == Spec => ImplementsBook
BY BookInit, BookStep, Invariance, PTL DEF Spec, ImplementsBook, Book!Spec

-----------------------------------------------------------------------------
(* The receipt numbers.                                                    *)

Keys    == Branches \cup {NoBranch}
Holding == {"invoice", "upsert", "write"}   \* past the receipt counter, not ended

\* The orders of a branch and day that were committed.
Printed(b, d) == {r \in Done : Branch[r] = b /\ receiptDay[r] = d}

\* r has inserted a counter row of its own, which nobody has seen.
Inserts(r) ==
  /\ locks[r] = {r} /\ receiptSeq[r] = 0 /\ receipt[r] = Succ(0)
  /\ Branch[r] # NoBranch => Rows(Branch[r], receiptDay[r]) = {}

\* r has updated the rows it saw, all committed, and drew the successor of one.
Updates(r) ==
  /\ locks[r] = target[r]
  /\ locks[r] \subseteq Rows(Branch[r], receiptDay[r])
  /\ \E q \in locks[r] : receipt[r] = Succ(receiptSeq[q])

\* k rounds of numbers and the first s of the next are printed.
Counted(P, drawn, s) ==
  \E k \in Nat :
    /\ Cardinality(P) = k * ReceiptWrap + s
    /\ \A n \in 1 .. ReceiptWrap :
         Cardinality({r \in P : drawn[r] = n}) = k + (IF n <= s THEN 1 ELSE 0)

\* Only a committed order has a counter row others see, and it has a number.
RowsDone ==
  \A r \in Requests : /\ receiptSeq[r] > 0 => pc[r] = "done"
                      /\ pc[r] = "done" => receipt[r] > 0

\* Who has to wait for the counter has seen rows that are still there.
SeesRows ==
  \A r \in Requests : pc[r] = "update" =>
    target[r] # {} /\ target[r] \subseteq Rows(Branch[r], receiptDay[r])

HoldsRows == \A r \in Requests : pc[r] \in Holding => Inserts(r) \/ Updates(r)
FreesRows == \A r \in Requests : pc[r] \notin Holding => locks[r] = {}

\* A row is held by one transaction, and a branch has one row, in the table or
\* about to be.
HeldOnce == \A r, o \in Requests : r # o => locks[r] \cap locks[o] = {}
OneInsert ==
  \A r, o \in Requests :
    /\ r \in locks[r] /\ o \in locks[o]
    /\ Branch[r] = Branch[o] /\ Branch[r] # NoBranch /\ receiptDay[r] = receiptDay[o]
    => r = o
OneRow == \A b \in Branches, d \in Days : \A q, p \in Rows(b, d) : q = p

\* The only row of a key counts what was printed under it.
RowCounts ==
  \A b \in Keys, d \in Days :
    /\ IsFiniteSet(Printed(b, d))
    /\ Rows(b, d) = {} => Printed(b, d) = {}
    /\ \A q \in Rows(b, d) :
         (\A p \in Rows(b, d) : p = q) => Counted(Printed(b, d), receipt, receiptSeq[q])

RInv == /\ TypeOK /\ RowsDone /\ SeesRows /\ HoldsRows /\ FreesRows
        /\ HeldOnce /\ OneInsert /\ OneRow /\ RowCounts

LEMMA RInvInit == Init => RInv
<1> SUFFICES ASSUME Init PROVE RInv
    OBVIOUS
<1>1. TypeOK
      BY TypeInit
<1>2. \A r \in Requests : pc[r] = "start" /\ locks[r] = {} /\ receiptSeq[r] = 0
      BY DEF Init
<1>3. \A b \in Keys, d \in Days : Rows(b, d) = {} /\ Printed(b, d) = {}
      BY <1>2 DEF Rows, Printed, Done
<1>4. RowsDone /\ SeesRows /\ HoldsRows /\ FreesRows
      BY <1>2 DEF RowsDone, SeesRows, HoldsRows, FreesRows, Holding
<1>5. HeldOnce /\ OneInsert /\ OneRow
      BY <1>2, <1>3 DEF HeldOnce, OneInsert, OneRow, Keys
<1>6. RowCounts
      BY <1>3, FS_EmptySet DEF RowCounts
<1> QED BY <1>1, <1>4, <1>5, <1>6 DEF RInv
\* The other steps leave the receipt counter alone.
Quiet ==
  /\ UNCHANGED <<receiptDay, target, locks, receipt, receiptSeq>>
  /\ \A r \in Requests :
       /\ pc'[r] = "done" <=> pc[r] = "done"
       /\ pc'[r] \in Holding <=> pc[r] \in Holding
       /\ pc'[r] = "update" => pc[r] = "update"

LEMMA ReceiptSteps ==
  ASSUME TypeOK, [Next]_vars
  PROVE  \/ Quiet
         \/ \E r \in Requests : \/ StartReceipt(r) \/ UpdateReceipt(r) \/ InsertReceipt(r)
                                \/ Commit(r) \/ Abort(r)
<1> USE DEF TypeOK, Quiet, Holding
<1>1. CASE UNCHANGED vars
      BY <1>1 DEF vars, local, tables
<1>2. CASE Tick
      BY <1>2 DEF Tick, local, tables
<1>3. ASSUME NEW r \in Requests, InsertRefused(r) PROVE Quiet
      BY <1>3 DEF InsertRefused, tables
<1>4. ASSUME NEW r \in Requests, StartInvoice(r) PROVE Quiet
      BY <1>4 DEF StartInvoice, tables
<1>5. ASSUME NEW r \in Requests, UpsertInvoice(r) PROVE Quiet
      BY <1>5 DEF UpsertInvoice, tables
<1> QED BY <1>1, <1>2, <1>3, <1>4, <1>5 DEF Next, Work

\* While no order is committed and no row written, rows and counts stay.
LEMMA SameCounts ==
  ASSUME RInv, TypeOK', Done' = Done, receiptSeq' = receiptSeq,
         \A q \in Done : receiptDay'[q] = receiptDay[q] /\ receipt'[q] = receipt[q]
  PROVE  /\ \A b \in Keys, d \in Days : Rows(b, d)' = Rows(b, d)
         /\ RowsDone' /\ OneRow' /\ RowCounts'
<1> USE DEF RInv
<1>1. RowsDone'
      BY DEF RowsDone, Done
<1>2. \A b, d : Rows(b, d)' = Rows(b, d)
      BY DEF Rows, RowsDone, Done
<1>3. \A b, d : Printed(b, d)' = Printed(b, d)
      BY DEF Printed
<1>4. OneRow'
      BY <1>2 DEF OneRow
<1>5. \A b, d, s : Counted(Printed(b, d), receipt, s) => Counted(Printed(b, d), receipt', s)
  <2> SUFFICES ASSUME NEW b, NEW d, NEW s, Counted(Printed(b, d), receipt, s)
               PROVE  Counted(Printed(b, d), receipt', s)
      OBVIOUS
  <2>1. \A n : {r \in Printed(b, d) : receipt'[r] = n} = {r \in Printed(b, d) : receipt[r] = n}
        BY DEF Printed
  <2> QED BY <2>1 DEF Counted
<1>6. RowCounts'
  BY <1>2, <1>3, <1>5 DEF RowCounts
<1> QED BY <1>1, <1>2, <1>4, <1>6
LEMMA QuietKeepsRInv == ASSUME RInv, TypeOK', Quiet PROVE RInv'
<1> USE DEF RInv
<1>1. Done' = Done
      BY DEF Quiet, Done
<1>2. (\A b, d : Rows(b, d)' = Rows(b, d)) /\ RowsDone' /\ OneRow' /\ RowCounts'
  <2>1. \A b, d : Rows(b, d)' = Rows(b, d)
        BY DEF Quiet, Rows
  <2> QED BY <1>1, <2>1, SameCounts DEF Quiet
<1>3. SeesRows'
      BY <1>2 DEF Quiet, SeesRows
<1>4. HoldsRows' /\ FreesRows'
      BY <1>2 DEF Quiet, HoldsRows, FreesRows, Inserts, Updates
<1>5. HeldOnce' /\ OneInsert'
      BY DEF Quiet, HeldOnce, OneInsert
<1> QED BY <1>2, <1>3, <1>4, <1>5

LEMMA StartKeepsRInv ==
  ASSUME RInv, TypeOK', NEW r \in Requests, StartReceipt(r) PROVE RInv'
<1> USE DEF RInv, TypeOK
<1>1. /\ pc[r] = "start" /\ pc'[r] \in {"insert", "update"}
      /\ pc'[r] = "update" => target'[r] # {}
      /\ target'[r] = Rows(Branch[r], receiptDay'[r])
      /\ UNCHANGED <<locks, receipt, receiptSeq>>
      BY DEF StartReceipt, tables
<1>2. \A q \in Requests \ {r} : pc'[q] = pc[q] /\ receiptDay'[q] = receiptDay[q] /\ target'[q] = target[q]
      BY DEF StartReceipt
<1>3. Done' = Done /\ r \notin Done
      BY <1>1, <1>2 DEF Done
<1>4. \A b, d : Rows(b, d)' = Rows(b, d)
      BY <1>1, <1>2 DEF Rows, RowsDone
<1>5. RowsDone' /\ OneRow' /\ RowCounts'
      BY <1>1, <1>2, <1>3, SameCounts DEF Done
<1>6. SeesRows'
      BY <1>1, <1>2, <1>4 DEF SeesRows
<1>7. HoldsRows'
      BY <1>1, <1>2, <1>4 DEF HoldsRows, Holding, Inserts, Updates
<1>8. locks[r] = {}
      BY <1>1 DEF FreesRows, Holding
<1>9. FreesRows' /\ HeldOnce' /\ OneInsert'
      BY <1>1, <1>2, <1>8 DEF FreesRows, HeldOnce, OneInsert, Holding
<1> QED BY <1>5, <1>6, <1>7, <1>9

LEMMA AbortKeepsRInv ==
  ASSUME RInv, TypeOK', NEW r \in Requests, Abort(r) PROVE RInv'
<1> USE DEF RInv, TypeOK
<1>1. /\ pc[r] \in {"update", "insert", "invoice", "upsert", "write"} /\ pc'[r] = "aborted"
      /\ locks'[r] = {}
      /\ UNCHANGED <<receiptDay, target, receipt, receiptSeq>>
      BY DEF Abort, tables
<1>2. \A q \in Requests \ {r} : pc'[q] = pc[q] /\ locks'[q] = locks[q]
      BY DEF Abort
<1>3. Done' = Done
      BY <1>1, <1>2 DEF Done
<1>4. \A b, d : Rows(b, d)' = Rows(b, d)
      BY <1>1 DEF Rows
<1>5. RowsDone' /\ OneRow' /\ RowCounts'
      BY <1>1, <1>3, SameCounts
<1>6. SeesRows'
      BY <1>1, <1>2, <1>4 DEF SeesRows
<1>7. HoldsRows' /\ FreesRows'
      BY <1>1, <1>2, <1>4 DEF HoldsRows, FreesRows, Holding, Inserts, Updates
<1>8. HeldOnce' /\ OneInsert'
      BY <1>1, <1>2 DEF HeldOnce, OneInsert
<1> QED BY <1>5, <1>6, <1>7, <1>8

LEMMA UpdateKeepsRInv ==
  ASSUME RInv, TypeOK', NEW r \in Requests, UpdateReceipt(r) PROVE RInv'
<1> USE DEF RInv, TypeOK
<1>1. /\ pc[r] = "update" /\ pc'[r] = "invoice" /\ locks'[r] = target[r]
      /\ \A q \in target[r] : ~ReceiptLocked(r, q)
      /\ \E q \in target[r] : receipt'[r] = Succ(receiptSeq[q])
      /\ UNCHANGED <<receiptDay, target, receiptSeq>>
      BY DEF UpdateReceipt, tables
<1>2. \A q \in Requests \ {r} : pc'[q] = pc[q] /\ locks'[q] = locks[q] /\ receipt'[q] = receipt[q]
      BY DEF UpdateReceipt
<1>3. Done' = Done /\ r \notin Done
      BY <1>1, <1>2 DEF Done
<1>4. \A b, d : Rows(b, d)' = Rows(b, d)
      BY <1>1 DEF Rows
<1>5. RowsDone' /\ OneRow' /\ RowCounts'
      BY <1>1, <1>2, <1>3, SameCounts DEF Done
<1>6. SeesRows'
      BY <1>1, <1>2, <1>4 DEF SeesRows
<1>7. target[r] \subseteq Rows(Branch[r], receiptDay[r])
      BY <1>1 DEF SeesRows
<1>8. HoldsRows' /\ FreesRows'
  <2>1. Updates(r)'
        BY <1>1, <1>4, <1>7 DEF Updates
  <2>2. \A q \in Requests \ {r} : (Inserts(q) => Inserts(q)') /\ (Updates(q) => Updates(q)')
        BY <1>1, <1>2, <1>4 DEF Inserts, Updates
  <2> QED BY <1>1, <1>2, <2>1, <2>2 DEF HoldsRows, FreesRows, Holding
<1>9. \A o \in Requests \ {r} : locks[o] \cap target[r] = {}
      BY <1>1 DEF ReceiptLocked
<1>10. HeldOnce'
       BY <1>1, <1>2, <1>9 DEF HeldOnce
<1>11. r \notin target[r]
       BY <1>1, <1>7 DEF Rows, RowsDone
<1>12. OneInsert'
       BY <1>1, <1>2, <1>11 DEF OneInsert
<1> QED BY <1>5, <1>6, <1>8, <1>10, <1>12

LEMMA InsertKeepsRInv ==
  ASSUME RInv, TypeOK', NEW r \in Requests, InsertReceipt(r) PROVE RInv'
<1> USE DEF RInv, TypeOK
<1>1. /\ pc[r] = "insert" /\ pc'[r] = "invoice" /\ locks'[r] = {r} /\ receipt'[r] = Succ(0)
      /\ Branch[r] # NoBranch => ~KeyPending(r) /\ Rows(Branch[r], receiptDay[r]) = {}
      /\ UNCHANGED <<receiptDay, target, receiptSeq>>
      BY DEF InsertReceipt, tables
<1>2. \A q \in Requests \ {r} : pc'[q] = pc[q] /\ locks'[q] = locks[q] /\ receipt'[q] = receipt[q]
      BY DEF InsertReceipt
<1>3. Done' = Done /\ r \notin Done
      BY <1>1, <1>2 DEF Done
<1>4. \A b, d : Rows(b, d)' = Rows(b, d)
      BY <1>1 DEF Rows
<1>5. RowsDone' /\ OneRow' /\ RowCounts'
      BY <1>1, <1>2, <1>3, SameCounts DEF Done
<1>6. SeesRows'
      BY <1>1, <1>2, <1>4 DEF SeesRows
<1>7. receiptSeq[r] = 0
      BY <1>1 DEF RowsDone
<1>8. HoldsRows' /\ FreesRows'
  <2>1. Inserts(r)'
        BY <1>1, <1>4, <1>7 DEF Inserts
  <2>2. \A q \in Requests \ {r} : (Inserts(q) => Inserts(q)') /\ (Updates(q) => Updates(q)')
        BY <1>1, <1>2, <1>4 DEF Inserts, Updates
  <2> QED BY <1>1, <1>2, <2>1, <2>2 DEF HoldsRows, FreesRows, Holding
<1>9. \A o \in Requests \ {r} : r \notin locks[o]
      BY <1>7 DEF HoldsRows, FreesRows, Inserts, Updates, Rows
<1>10. HeldOnce'
       BY <1>1, <1>2, <1>9 DEF HeldOnce
<1>11. OneInsert'
       BY <1>1, <1>2 DEF OneInsert, KeyPending
<1> QED BY <1>5, <1>6, <1>8, <1>10, <1>11
LEMMA CountedFirst ==
  ASSUME NEW r, NEW drawn, drawn[r] = 1 PROVE Counted({r}, drawn, 1)
<1>1. Cardinality({r}) = 0 * ReceiptWrap + 1
  <2>1. Cardinality({r}) = 1
        BY FS_Singleton
  <2> QED BY <2>1, NumberingAssumption
<1>2. ASSUME NEW n \in 1 .. ReceiptWrap
      PROVE  Cardinality({q \in {r} : drawn[q] = n}) = 0 + (IF n <= 1 THEN 1 ELSE 0)
  <2>1. CASE n = 1
    <3>1. {q \in {r} : drawn[q] = n} = {r}
          BY <2>1
    <3> QED BY <2>1, <3>1, FS_Singleton
  <2>2. CASE n # 1
    <3>1. {q \in {r} : drawn[q] = n} = {}
          BY <2>2
    <3> QED BY <2>2, <3>1, FS_EmptySet, NumberingAssumption
  <2> QED BY <2>1, <2>2
<1> QED BY <1>1, <1>2 DEF Counted

LEMMA CountedNext ==
  ASSUME NEW P, IsFiniteSet(P), NEW s \in 1 .. ReceiptWrap, NEW r, r \notin P,
         NEW drawn, drawn[r] = Succ(s), Counted(P, drawn, s)
  PROVE  Counted(P \cup {r}, drawn, Succ(s))
<1> DEFINE Those(S, n) == {q \in S : drawn[q] = n}
<1> USE NumberingAssumption
<1>1. PICK k \in Nat :
        /\ Cardinality(P) = k * ReceiptWrap + s
        /\ \A n \in 1 .. ReceiptWrap :
             Cardinality(Those(P, n)) = k + (IF n <= s THEN 1 ELSE 0)
      BY DEF Counted
<1>2. Cardinality(P \cup {r}) = Cardinality(P) + 1
      BY FS_AddElement
<1>3. ASSUME NEW n \in 1 .. ReceiptWrap
      PROVE  Cardinality(Those(P \cup {r}, n))
               = Cardinality(Those(P, n)) + (IF n = Succ(s) THEN 1 ELSE 0)
  <2>1. IsFiniteSet(Those(P, n)) /\ Cardinality(Those(P, n)) \in Nat
        BY FS_Subset, FS_CardinalityType
  <2>2. CASE n = Succ(s)
    <3>1. Those(P \cup {r}, n) = Those(P, n) \cup {r} /\ r \notin Those(P, n)
          BY <2>2
    <3> HIDE DEF Those
    <3> QED BY <2>1, <2>2, <3>1, FS_AddElement
  <2>3. CASE n # Succ(s)
    <3>1. Those(P \cup {r}, n) = Those(P, n)
          BY <2>3
    <3> HIDE DEF Those
    <3> QED BY <2>1, <2>3, <3>1
  <2> QED BY <2>2, <2>3
<1> HIDE DEF Those
<1>4. CASE s < ReceiptWrap
  <2>1. Succ(s) = s + 1
        BY <1>4 DEF Succ
  <2>2. Cardinality(P \cup {r}) = k * ReceiptWrap + Succ(s)
        BY <1>1, <1>2, <2>1
  <2>3. \A n \in 1 .. ReceiptWrap :
          Cardinality(Those(P \cup {r}, n)) = k + (IF n <= Succ(s) THEN 1 ELSE 0)
        BY <1>1, <1>3, <2>1
  <2> QED BY <2>2, <2>3 DEF Counted, Those
<1>5. CASE s = ReceiptWrap
  <2>1. Succ(s) = 1
        BY <1>5 DEF Succ
  <2>2. PICK j \in Nat : j = k + 1
        OBVIOUS
  <2>3. Cardinality(P \cup {r}) = j * ReceiptWrap + Succ(s)
        BY <1>1, <1>2, <1>5, <2>1, <2>2
  <2>4. ASSUME NEW n \in 1 .. ReceiptWrap
        PROVE  Cardinality(Those(P \cup {r}, n)) = j + (IF n <= Succ(s) THEN 1 ELSE 0)
    <3>1. Cardinality(Those(P, n)) = j
          BY <1>1, <1>5, <2>2
    <3> QED BY <1>3, <2>1, <3>1
  <2> QED BY <2>3, <2>4 DEF Counted, Those
<1> QED BY <1>4, <1>5

LEMMA CommitKeepsRInv ==
  ASSUME RInv, TypeOK', NEW r \in Requests, Commit(r) PROVE RInv'
<1> USE DEF RInv, TypeOK
<1>0. PICK b \in Keys, d \in Days : b = Branch[r] /\ d = receiptDay[r]
      BY NumberingAssumption DEF Keys
<1>1. /\ pc[r] = "write" /\ pc'[r] = "done" /\ locks'[r] = {}
      /\ UNCHANGED <<receiptDay, target, receipt>>
      BY DEF Commit
<1>2. \A q \in Requests \ {r} : pc'[q] = pc[q] /\ locks'[q] = locks[q]
      BY DEF Commit
<1>3. \A q \in Requests :
        receiptSeq'[q] = IF q \in locks[r] THEN Succ(receiptSeq[q]) ELSE receiptSeq[q]
      BY DEF Commit
<1>4. Inserts(r) \/ Updates(r)
      BY <1>1 DEF HoldsRows, Holding
<1>5. r \notin Rows(b, d)
      BY <1>1 DEF Rows, RowsDone
<1>6. \A n \in 0 .. ReceiptWrap : Succ(n) \in 1 .. ReceiptWrap
      BY NumberingAssumption DEF Succ
<1>7. /\ \A e, f : b # e \/ d # f => Rows(e, f)' = Rows(e, f)
      /\ Rows(b, d)' = IF Inserts(r) THEN Rows(b, d) \cup {r} ELSE Rows(b, d)
      /\ \A e, f : Rows(e, f) \subseteq Rows(e, f)'
  <2>1. \A q \in Requests : receiptSeq[q] \in 0 .. ReceiptWrap
        OBVIOUS
  <2>2. \A q \in Requests : receiptSeq'[q] > 0 <=> q \in locks[r] \/ receiptSeq[q] > 0
        BY <1>3, <1>6, <2>1
  <2>3. CASE Inserts(r)
        BY <1>0, <1>1, <2>2, <2>3 DEF Rows, Inserts
  <2>4. CASE ~Inserts(r)
    <3>1. locks[r] \subseteq Rows(b, d)
          BY <1>0, <1>4, <2>4 DEF Updates
    <3>2. \A q \in Requests : receiptSeq'[q] > 0 <=> receiptSeq[q] > 0
          BY <2>2, <3>1 DEF Rows
    <3>3. \A e, f : Rows(e, f)' = Rows(e, f)
          BY <1>1, <3>2 DEF Rows
    <3>4. \A e, f : Rows(e, f) \subseteq Rows(e, f)'
          BY <3>3
    <3>5. Rows(b, d)' = Rows(b, d)
          BY <3>3
    <3> QED BY <2>4, <3>3, <3>4, <3>5
  <2> QED BY <2>3, <2>4
<1>8. RowsDone'
  <2>1. \A q \in locks[r] : q = r \/ pc[q] = "done"
        BY <1>4 DEF Inserts, Updates, Rows, RowsDone
  <2>2. receipt[r] > 0
    <3>1. \A q \in locks[r] : receiptSeq[q] \in 0 .. ReceiptWrap
          BY <1>4 DEF Inserts, Updates, Rows
    <3>2. Succ(0) > 0
          BY <1>6, NumberingAssumption
    <3> QED BY <1>4, <1>6, <3>1, <3>2 DEF Inserts, Updates
  <2> QED BY <1>1, <1>2, <1>3, <2>1, <2>2 DEF RowsDone
<1>9. SeesRows'
      BY <1>1, <1>2, <1>7 DEF SeesRows
<1>10. FreesRows' /\ HeldOnce' /\ OneInsert'
       BY <1>1, <1>2 DEF FreesRows, HeldOnce, OneInsert
<1>11. HoldsRows'
  <2> SUFFICES ASSUME NEW o \in Requests, pc'[o] \in Holding PROVE Inserts(o)' \/ Updates(o)'
      BY DEF HoldsRows
  <2>1. o # r /\ pc[o] \in Holding /\ locks[o] \cap locks[r] = {}
        BY <1>1, <1>2 DEF Holding, HeldOnce
  <2>2. CASE Inserts(o)
    <3>1. o \notin locks[r]
          BY <2>1, <2>2 DEF Inserts
    <3>2. receiptSeq'[o] = 0
          BY <1>3, <2>2, <3>1 DEF Inserts
    <3>3. ASSUME Branch[o] # NoBranch PROVE Rows(Branch[o], receiptDay[o])' = {}
      <4>1. Rows(Branch[o], receiptDay[o]) = {}
            BY <2>2, <3>3 DEF Inserts
      <4>2. CASE Branch[o] = b /\ receiptDay[o] = d
        <5>1. ~Updates(r)
              BY <1>0, <4>1, <4>2 DEF Updates
        <5>2. r \in locks[r] /\ o \in locks[o]
              BY <1>4, <2>2, <5>1 DEF Inserts
        <5> QED BY <1>0, <2>1, <3>3, <4>2, <5>2 DEF OneInsert
      <4>3. CASE ~(Branch[o] = b /\ receiptDay[o] = d)
            BY <1>1, <1>7, <4>1, <4>3
      <4> QED BY <4>2, <4>3
    <3> QED BY <1>1, <1>2, <2>1, <2>2, <3>2, <3>3 DEF Inserts
  <2>3. CASE Updates(o)
    <3>1. \A q \in locks[o] : q \in Requests /\ receiptSeq'[q] = receiptSeq[q]
          BY <1>3, <2>1
    <3>2. Rows(Branch[o], receiptDay[o]) \subseteq Rows(Branch[o], receiptDay[o])'
          BY <1>1, <1>7
    <3> QED BY <1>1, <1>2, <2>1, <2>3, <3>1, <3>2 DEF Updates
  <2> QED BY <2>1, <2>2, <2>3 DEF HoldsRows
<1>12. OneRow'
  <2> SUFFICES ASSUME NEW e \in Branches, NEW f \in Days PROVE \A q, p \in Rows(e, f)' : q = p
      BY DEF OneRow
  <2>1. CASE b = e /\ d = f /\ Inserts(r)
    <3>1. Rows(b, d) = {}
          BY <1>0, <2>1, NumberingAssumption DEF Inserts
    <3> QED BY <1>7, <2>1, <3>1
  <2>2. CASE ~(b = e /\ d = f /\ Inserts(r))
        BY <1>7, <2>2 DEF OneRow
  <2> QED BY <2>1, <2>2
<1>13. /\ \A e, f : b # e \/ d # f => Printed(e, f)' = Printed(e, f)
       /\ Printed(b, d)' = Printed(b, d) \cup {r} /\ r \notin Printed(b, d)
  <2>1. Done' = Done \cup {r} /\ r \notin Done
        BY <1>1, <1>2 DEF Done
  <2> QED BY <1>0, <1>1, <2>1 DEF Printed
<1>14. ASSUME NEW q \in Rows(b, d)', \A p \in Rows(b, d)' : p = q
       PROVE  Counted(Printed(b, d)', receipt', receiptSeq'[q])
  <2>1. CASE Inserts(r)
    <3>1. Rows(b, d) = {} /\ q = r
          BY <1>5, <1>7, <1>14, <2>1
    <3>2. Printed(b, d)' = {r}
          BY <1>13, <3>1 DEF RowCounts
    <3>3. Succ(0) = 1
          BY NumberingAssumption DEF Succ
    <3>4. receipt'[r] = 1 /\ receiptSeq'[q] = 1
          BY <1>1, <1>3, <2>1, <3>1, <3>3 DEF Inserts
    <3> QED BY <3>2, <3>4, CountedFirst
  <2>2. CASE Updates(r) /\ ~Inserts(r)
    <3>1. Rows(b, d)' = Rows(b, d)
          BY <1>7, <2>2
    <3>2. q \in locks[r] /\ receipt[r] = Succ(receiptSeq[q])
          BY <1>0, <1>14, <2>2, <3>1 DEF Updates
    <3>3. q \in Requests /\ receiptSeq[q] \in 1 .. ReceiptWrap
          BY <1>14, <3>1, <3>2 DEF Rows
    <3>4. IsFiniteSet(Printed(b, d)) /\ Counted(Printed(b, d), receipt, receiptSeq[q])
          BY <1>14, <3>1 DEF RowCounts
    <3>5. Counted(Printed(b, d) \cup {r}, receipt, Succ(receiptSeq[q]))
          BY <1>13, <3>2, <3>3, <3>4, CountedNext
    <3>6. receiptSeq'[q] = Succ(receiptSeq[q])
          BY <1>3, <3>2, <3>3
    <3> QED BY <1>1, <1>13, <3>5, <3>6
  <2> QED BY <1>4, <2>1, <2>2
<1>15. ASSUME NEW e \in Keys, NEW f \in Days, ~(e = b /\ f = d), NEW q \in Rows(e, f),
              Counted(Printed(e, f), receipt, receiptSeq[q])
       PROVE  Counted(Printed(e, f)', receipt', receiptSeq'[q])
  <2>1. q \notin locks[r]
        BY <1>0, <1>4, <1>5, <1>15 DEF Inserts, Updates, Rows
  <2>2. receiptSeq'[q] = receiptSeq[q]
        BY <1>3, <2>1 DEF Rows
  <2> QED BY <1>1, <1>13, <1>15, <2>2
<1>16. RowCounts'
  <2> SUFFICES ASSUME NEW e \in Keys, NEW f \in Days
               PROVE  /\ IsFiniteSet(Printed(e, f)')
                      /\ Rows(e, f)' = {} => Printed(e, f)' = {}
                      /\ \A q \in Rows(e, f)' : (\A p \in Rows(e, f)' : p = q)
                           => Counted(Printed(e, f)', receipt', receiptSeq'[q])
      BY DEF RowCounts
  <2>1. CASE e = b /\ f = d
    <3>1. IsFiniteSet(Printed(b, d))
          BY DEF RowCounts
    <3>2. IsFiniteSet(Printed(b, d)')
          BY <1>13, <3>1, FS_AddElement
    <3>3. Rows(b, d)' # {}
          BY <1>0, <1>4, <1>7 DEF Updates
    <3> QED BY <1>14, <2>1, <3>2, <3>3
  <2>2. CASE ~(e = b /\ f = d)
    <3>1. Rows(e, f)' = Rows(e, f) /\ Printed(e, f)' = Printed(e, f)
          BY <1>7, <1>13, <2>2
    <3>2. IsFiniteSet(Printed(e, f)) /\ (Rows(e, f) = {} => Printed(e, f) = {})
          BY DEF RowCounts
    <3>3. ASSUME NEW q \in Rows(e, f), \A p \in Rows(e, f) : p = q
          PROVE  Counted(Printed(e, f)', receipt', receiptSeq'[q])
      <4>1. Counted(Printed(e, f), receipt, receiptSeq[q])
            BY <3>3 DEF RowCounts
      <4> QED BY <1>15, <2>2, <4>1
    <3> QED BY <3>1, <3>2, <3>3
  <2> QED BY <2>1, <2>2
<1> QED BY <1>8, <1>9, <1>10, <1>11, <1>12, <1>16
LEMMA RInvStep == RInv /\ [Next]_vars => RInv'
<1> SUFFICES ASSUME RInv, [Next]_vars PROVE RInv'
    OBVIOUS
<1>1. TypeOK /\ TypeOK'
      BY TypeStep DEF RInv
<1> QED BY <1>1, ReceiptSteps, QuietKeepsRInv, StartKeepsRInv, UpdateKeepsRInv,
           InsertKeepsRInv, CommitKeepsRInv, AbortKeepsRInv

LEMMA RInvariance == Spec => []RInv
BY RInvInit, RInvStep, PTL DEF Spec

\* A quotient is known from the product and a remainder below the divisor.
LEMMA Quotient ==
  ASSUME NEW w \in Nat \ {0}, NEW a \in Nat, NEW m \in 0 .. w - 1
  PROVE  (a * w + m) \div w = a
<1>1. a * w \in Nat
      OBVIOUS
<1>2. PICK x \in Nat : x = a * w + m
      BY <1>1
<1>3. PICK q \in Int : q = x \div w /\ q * w <= x /\ x < q * w + w
      BY <1>2
<1>4. ASSUME q < a PROVE FALSE
  <2>1. (q + 1) * w <= a * w
        BY <1>4
  <2> QED BY <1>1, <1>2, <1>3, <2>1
<1>5. ASSUME q > a PROVE FALSE
  <2>1. (a + 1) * w <= q * w
        BY <1>5
  <2> QED BY <1>1, <1>2, <1>3, <2>1
<1> QED BY <1>2, <1>3, <1>4, <1>5

\* How many of the first k * ReceiptWrap + s numbers are n.
LEMMA TurnsOf ==
  ASSUME NEW k \in Nat, NEW s \in 1 .. ReceiptWrap, NEW n \in 1 .. ReceiptWrap
  PROVE  (k * ReceiptWrap + s + ReceiptWrap - n) \div ReceiptWrap
           = k + (IF n <= s THEN 1 ELSE 0)
<1> USE NumberingAssumption
<1>1. CASE n <= s
  <2>1. PICK j \in Nat, m \in 0 .. ReceiptWrap - 1 : j = k + 1 /\ m = s - n
        BY <1>1
  <2>2. k * ReceiptWrap + s + ReceiptWrap - n = j * ReceiptWrap + m
        BY <2>1
  <2>3. (j * ReceiptWrap + m) \div ReceiptWrap = j
        BY Quotient
  <2> QED BY <1>1, <2>1, <2>2, <2>3
<1>2. CASE n > s
  <2>1. PICK m \in 0 .. ReceiptWrap - 1 : m = s + ReceiptWrap - n
        BY <1>2
  <2>2. k * ReceiptWrap + s + ReceiptWrap - n = k * ReceiptWrap + m
        BY <2>1
  <2>3. (k * ReceiptWrap + m) \div ReceiptWrap = k
        BY Quotient
  <2> QED BY <1>2, <2>2, <2>3
<1> QED BY <1>1, <1>2

\* The receipts of a branch and day come in turn, whatever orders are created at
\* once, wait for each other, fail or are rolled back.
THEOREM ReceiptsCorrect == Spec => []ReceiptsInTurn
<1>1. RInv => ReceiptsInTurn
  <2> SUFFICES ASSUME RInv, NEW b \in Keys, NEW d \in Days, ~Split(b, d),
                      NEW n \in 1 .. ReceiptWrap
               PROVE  Cardinality({r \in Printed(b, d) : receipt[r] = n})
                        = (Cardinality(Printed(b, d)) + ReceiptWrap - n) \div ReceiptWrap
      BY DEF ReceiptsInTurn, Printed, Keys
  <2> USE DEF RInv
  <2>1. CASE Rows(b, d) = {}
    <3>1. Printed(b, d) = {}
          BY <2>1 DEF RowCounts
    <3>2. {r \in Printed(b, d) : receipt[r] = n} = {}
          BY <3>1
    <3>3. Cardinality({}) = 0
          BY FS_EmptySet
    <3>4. ReceiptWrap - n \in 0 .. ReceiptWrap - 1
          BY NumberingAssumption
    <3>5. (0 * ReceiptWrap + (ReceiptWrap - n)) \div ReceiptWrap = 0
          BY <3>4, Quotient, NumberingAssumption
    <3> QED BY <3>1, <3>2, <3>3, <3>5, NumberingAssumption
  <2>2. CASE Rows(b, d) # {}
    <3>1. PICK q \in Rows(b, d) : TRUE
          BY <2>2
    <3>2. \A p \in Rows(b, d) : p = q
          BY <3>1 DEF Split, OneRow, Keys
    <3>3. receiptSeq[q] \in 1 .. ReceiptWrap
          BY <3>1 DEF Rows, TypeOK
    <3>4. Counted(Printed(b, d), receipt, receiptSeq[q])
          BY <3>1, <3>2 DEF RowCounts
    <3> QED BY <3>3, <3>4, TurnsOf DEF Counted
  <2> QED BY <2>1, <2>2
<1> QED BY <1>1, RInvariance, PTL
\* No two of the first ReceiptWrap orders of a branch and day carry one number.
UniqueReceipts ==
  \A b \in Keys, d \in Days :
    ~Split(b, d) /\ Cardinality(Printed(b, d)) <= ReceiptWrap =>
      \A r, q \in Printed(b, d) : receipt[r] = receipt[q] => r = q

\* Until the counter wraps, a receipt number names one order of its branch and day:
\* what lookupByReceipt relies on.
THEOREM UniqueReceiptsCorrect == Spec => []UniqueReceipts
<1>1. RInv /\ ReceiptsInTurn => UniqueReceipts
  <2> SUFFICES ASSUME RInv, ReceiptsInTurn, NEW b \in Keys, NEW d \in Days, ~Split(b, d),
                      Cardinality(Printed(b, d)) <= ReceiptWrap,
                      NEW r \in Printed(b, d), NEW q \in Printed(b, d), receipt[r] = receipt[q]
               PROVE  r = q
      BY DEF UniqueReceipts
  <2> DEFINE C    == Cardinality(Printed(b, d))
             n    == receipt[r]
             Same == {o \in Printed(b, d) : receipt[o] = n}
  <2> USE NumberingAssumption
  <2>1. IsFiniteSet(Printed(b, d)) /\ C \in Nat /\ C <= ReceiptWrap
        BY FS_CardinalityType DEF RInv, RowCounts
  <2>2. IsFiniteSet(Same) /\ Cardinality(Same) \in Nat
        BY <2>1, FS_Subset, FS_CardinalityType
  <2>3. n \in 0 .. ReceiptWrap
        BY DEF RInv, TypeOK, Printed, Done
  <2>4. n > 0
        BY DEF RInv, RowsDone, Printed, Done
  <2>5. CASE n \in 1 .. ReceiptWrap
    <3>1. Cardinality(Same) = (C + ReceiptWrap - n) \div ReceiptWrap
          BY <2>5 DEF ReceiptsInTurn, Printed, Keys
    <3>2. Cardinality(Same) <= 1
      <4>1. PICK w \in Nat \ {0}, x \in Nat : w = ReceiptWrap /\ x = C + ReceiptWrap - n
            BY <2>1, <2>5
      <4>2. x < w + w
            BY <2>1, <2>5, <4>1
      <4>3. PICK a \in Int : a = x \div w /\ a * w <= x
            BY <4>1
      <4>4. ASSUME a > 1 PROVE FALSE
        <5>1. 2 * w <= a * w
              BY <4>4
        <5> QED BY <4>2, <4>3, <5>1
      <4> QED BY <3>1, <4>1, <4>3, <4>4
    <3>3. Same # {}
          OBVIOUS
    <3>4. Cardinality(Same) = 1
          BY <2>2, <3>2, <3>3, FS_EmptySet
    <3>5. PICK x : Same = {x}
          BY <2>2, <3>4, FS_Singleton
    <3> QED BY <3>5
  <2> QED BY <2>3, <2>4, <2>5
<1>2. Spec => []ReceiptsInTurn
      BY ReceiptsCorrect
<1> QED BY <1>1, <1>2, RInvariance, PTL
=============================================================================
