---------------------------- MODULE StockLedger ----------------------------
(***************************************************************************)
(* What every stock-writing service of the back end promises about the    *)
(* two tables it writes: StockLevel (the quantity on hand) and            *)
(* StockMovement (the audit ledger).  A step posts the same change to      *)
(* both, for any number of products at once; the one exception is a        *)
(* slip, a decrement of one product whose ledger row is never written      *)
(* (firePreOrder in the Bull worker, where the insert is refused).         *)
(* Opening is the stock counted before the ledger starts.                  *)
(***************************************************************************)
EXTENDS Integers

CONSTANTS Products, Opening

VARIABLES level,    \* StockLevel.quantity of each product
          moved     \* the sum of the product's StockMovement quantities

ledger == <<level, moved>>

Start ==
  /\ level = Opening
  /\ moved = [p \in Products |-> 0]

\* One committed transaction: what it adds to a level it also adds to the ledger.
Post ==
  /\ level' \in [Products -> Int]
  /\ moved' \in [Products -> Int]
  /\ \A p \in Products : level'[p] - level[p] = moved'[p] - moved[p]

\* Stock leaves the shelf and the ledger does not hear of it.
Slip ==
  /\ UNCHANGED moved
  /\ level' \in [Products -> Int]
  /\ \E p \in Products :
       /\ level'[p] < level[p]
       /\ \A q \in Products \ {p} : level'[q] = level[q]

Spec == Start /\ [][Post \/ Slip]_ledger
=============================================================================
