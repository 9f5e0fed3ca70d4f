----------------------------- MODULE InvoiceBook -----------------------------
(***************************************************************************)
(* What the invoice numbers of one tenant promise its tax authority: each  *)
(* business day has its own series, a number is issued by the commit of    *)
(* the order that carries it, and every issue takes the next number of its *)
(* day, so that a series has neither a hole nor a repetition.              *)
(***************************************************************************)
EXTENDS Naturals

CONSTANTS Requests, Days

VARIABLES last,    \* last number issued on each day
          issued   \* the invoice of each order: its day and number, 0 for none

book == <<last, issued>>

NoInvoice == [day |-> 0, number |-> 0]

Empty ==
  /\ last = [d \in Days |-> 0]
  /\ issued = [r \in Requests |-> NoInvoice]

Issue(r, d) ==
  /\ issued[r] = NoInvoice
  /\ last' = [last EXCEPT ![d] = @ + 1]
  /\ issued' = [issued EXCEPT ![r] = [day |-> d, number |-> last[d] + 1]]

Spec == Empty /\ [][\E r \in Requests, d \in Days : Issue(r, d)]_book
=============================================================================
