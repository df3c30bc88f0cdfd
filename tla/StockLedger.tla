----------------------------- MODULE StockLedger -----------------------------
(***************************************************************************)
(* The inventory of product batches and every operation that moves stock:  *)
(* receiving and editing a batch, the FEFO deduction of a sale, stock      *)
(* adjustments, and the cancellation of a sale.                            *)
(*                                                                         *)
(* Each operation runs in one database transaction that holds the row      *)
(* locks of every batch it changes, so it is one action here.  (What       *)
(* happens between those locks is the subject of other modules.)           *)
(*                                                                         *)
(* Quantities are DecimalField(2) amounts counted in cents, hence naturals.*)
(* Dates are day numbers; today is timezone.localdate().                   *)
(***************************************************************************)
EXTENDS Integers, FiniteSets, FiniteSetsExt

CONSTANTS
    Products,     \* active products of the catalogue
    NumBatches,   \* bound: ProductBatch rows that can ever exist
    NumSales,     \* bound: Transaction rows that can ever exist
    MaxQty,       \* bound: largest quantity of a delivery, a sale line, an adjustment
    MaxDay,       \* bound: last calendar day of the model
    ShelfLife,    \* bound: largest number of days a batch may outlive MaxDay
    Legacy        \* batches present before this version of the code

ASSUME BoundsAssumption ==
    /\ NumBatches \in Nat
    /\ NumSales \in Nat
    /\ MaxQty \in Nat \ {0}
    /\ MaxDay \in Nat
    /\ ShelfLife \in Nat
    /\ Legacy \subseteq 1..NumBatches

Batches == 1..NumBatches          \* primary keys, in creation order
Sales   == 1..NumSales
Days    == 0..MaxDay
Dates   == 0..(MaxDay + ShelfLife)

\* STATUS_TYPES, and "none" for a primary key that has no row.
STATUS_TYPES == {"available", "depleted", "expired", "disposed"}

\* ADJUSTMENT_TYPES.  Only spoilage, expired and correction are treated
\* specially; complimentary, free_taste, spillage, taste_test and
\* processing_use share one behaviour and are represented by "spillage".
ADJUSTMENT_TYPES == {"expired", "spoilage", "spillage", "correction"}

VARIABLES
    today,      \* the business-local date
    product,    \* product[b]: the product of batch b
    initial,    \* initial_quantity
    remaining,  \* remaining_quantity
    status,     \* status, "none" when b has no row
    expiration, \* expiration_date
    received,   \* date_received
    sale,       \* sale[s] \in {"none", "active", "voided"}: Transaction.is_voided
    line,       \* line[s][b]: quantity of the TransactionItem of sale s on batch b
    returned,   \* returned[s][b]: quantity of its StockReturn, -1 when it has none
    adjusted    \* adjusted[b]: sum of the quantities of the StockAdjustments of b

batchVars == <<product, initial, remaining, status, expiration, received>>
saleVars  == <<sale, line, returned>>
vars      == <<today, batchVars, saleVars, adjusted>>

NoReturn == -1

TypeOK ==
    /\ today \in Days
    /\ product \in [Batches -> Products]
    /\ initial \in [Batches -> 0..MaxQty]
    /\ remaining \in [Batches -> Int]
    /\ status \in [Batches -> STATUS_TYPES \union {"none"}]
    /\ expiration \in [Batches -> Dates]
    /\ received \in [Batches -> Days]
    /\ sale \in [Sales -> {"none", "active", "voided"}]
    /\ line \in [Sales -> [Batches -> Nat]]
    /\ returned \in [Sales -> [Batches -> Int]]
    /\ adjusted \in [Batches -> Int]

-----------------------------------------------------------------------------
(***************************************************************************)
(* Eligibility and the FEFO order.                                         *)
(***************************************************************************)

Minimum(x, y) == IF x <= y THEN x ELSE y

Exists(b) == status[b] # "none"

\* Batches a sale may draw from: available, not past expiration, received.
Sellable(p, b) ==
    /\ product[b] = p
    /\ status[b] = "available"
    /\ expiration[b] >= today
    /\ received[b] <= today

\* ORDER BY expiration_date, pk
FefoBefore(b, c) ==
    \/ expiration[b] < expiration[c]
    \/ expiration[b] = expiration[c] /\ b < c

SumOver(f, S) == MapThenSumSet(LAMBDA x : f[x], S)

(***************************************************************************)
(* take[b] is what the sale lines of a cart take from batch b: each line   *)
(* (a product and its quantity, at most one line per product) is one call  *)
(* of deduct_product_batch.  It draws on sellable batches only, never more *)
(* than a batch holds, the quantity of the line in all, and it touches a   *)
(* batch only after every earlier one was emptied.  There is exactly one   *)
(* such take when the sellable stock covers the cart and none when the     *)
(* code raises "Insufficient Products.".  The loop that computes it is in  *)
(* module BatchLocks.                                                      *)
(***************************************************************************)
Deducts(cart, take) ==
    /\ \A b \in Batches :
          take[b] > 0 => /\ Sellable(product[b], b)
                         /\ take[b] <= remaining[b]
    /\ \A b, c \in Batches :
          /\ take[c] > 0
          /\ Sellable(product[c], b)
          /\ FefoBefore(b, c)
          => take[b] = remaining[b]
    /\ \A p \in Products :
          SumOver(take, {b \in Batches : product[b] = p}) = cart[p]

-----------------------------------------------------------------------------
(***************************************************************************)
(* Initial states: an empty inventory, except for the rows an earlier      *)
(* version left behind.  Those are batches explicitly marked expired       *)
(* (nothing in this version sets that status) and the empty reference rows *)
(* of imported history (is_historical_reference).                          *)
(***************************************************************************)
Init ==
    /\ today = 0
    /\ product \in [Batches -> Products]
    /\ \E marked \in SUBSET Legacy :
         /\ initial   = [b \in Batches |-> IF b \in marked THEN MaxQty ELSE 0]
         /\ remaining = [b \in Batches |-> IF b \in marked THEN MaxQty ELSE 0]
         /\ status    = [b \in Batches |-> IF b \in marked THEN "expired"
                                           ELSE IF b \in Legacy THEN "depleted"
                                           ELSE "none"]
    /\ expiration = [b \in Batches |-> 0]
    /\ received = [b \in Batches |-> 0]
    /\ sale = [s \in Sales |-> "none"]
    /\ line = [s \in Sales |-> [b \in Batches |-> 0]]
    /\ returned = [s \in Sales |-> [b \in Batches |-> NoReturn]]
    /\ adjusted = [b \in Batches |-> 0]

\* Midnight in the business time zone.
NextDay ==
    /\ today < MaxDay
    /\ today' = today + 1
    /\ UNCHANGED <<batchVars, saleVars, adjusted>>

\* ProdBatchSerializer.validate on the dates of a batch.
DatesValid(rec, exp) ==
    /\ exp >= rec
    /\ rec <= today

\* POST product batch: a new row after all others.  Keys matter by their order
\* only, so the key of a destroyed last row can name the next one.
ReceiveBatch(b, p, q, rec, exp) ==
    /\ ~Exists(b)
    /\ \A c \in Batches \ {b} : Exists(c) <=> c < b
    /\ q > 0
    /\ DatesValid(rec, exp)
    /\ product' = [product EXCEPT ![b] = p]
    /\ initial' = [initial EXCEPT ![b] = q]
    /\ remaining' = [remaining EXCEPT ![b] = q]
    /\ status' = [status EXCEPT ![b] = "available"]
    /\ received' = [received EXCEPT ![b] = rec]
    /\ expiration' = [expiration EXCEPT ![b] = exp]
    /\ UNCHANGED <<today, saleVars, adjusted>>

\* PATCH product batch: the locked row is reloaded and validated again; product
\* and quantities cannot change, dates can, whatever the status.
EditBatch(b, rec, exp) ==
    /\ Exists(b)
    /\ DatesValid(rec, exp)
    /\ received' = [received EXCEPT ![b] = rec]
    /\ expiration' = [expiration EXCEPT ![b] = exp]
    /\ UNCHANGED <<today, product, initial, remaining, status, saleVars, adjusted>>

\* DELETE product batch: refused for any batch that ever held stock, and by
\* the PROTECT foreign keys of sale lines and adjustments.
DestroyBatch(b) ==
    /\ Exists(b)
    /\ ~(initial[b] > 0 \/ remaining[b] > 0)
    /\ \A s \in Sales : line[s][b] = 0
    /\ status' = [status EXCEPT ![b] = "none"]
    /\ UNCHANGED <<today, product, initial, remaining, expiration, received, saleVars, adjusted>>

(***************************************************************************)
(* checkout (also inside place_order and encode_transaction): the cart is  *)
(* deducted product by product and each consumed batch gets one sale line. *)
(***************************************************************************)
Checkout(s, cart) ==
    /\ sale[s] = "none"
    /\ \A r \in Sales : r < s => sale[r] # "none"
    /\ \E p \in Products : cart[p] > 0
    /\ \E take \in [Batches -> 0..MaxQty] :
         /\ Deducts(cart, take)
         /\ remaining' = [b \in Batches |-> remaining[b] - take[b]]
         /\ status' = [b \in Batches |->
                          IF take[b] > 0 /\ take[b] = remaining[b] THEN "depleted"
                          ELSE status[b]]
         /\ line' = [line EXCEPT ![s] = take]
    /\ sale' = [sale EXCEPT ![s] = "active"]
    /\ UNCHANGED <<today, product, initial, expiration, received, returned, adjusted>>

\* Mutation: the status of the batch is not looked at.
ReturnSkippedByDate(b) == expiration[b] < today

\* A batch past its date, marked expired or written off takes no stock back.
ReturnSkipped(b) ==
    \/ status[b] \in {"expired", "disposed"}
    \/ expiration[b] < today

\* Mutations: no cap at the delivery; everything missing is put back.
RestoreUncapped(b, q) == IF ReturnSkipped(b) THEN 0 ELSE q
RestoreAllMissing(b, q) == IF ReturnSkipped(b) THEN 0 ELSE initial[b] - remaining[b]

\* What voiding a line of quantity q puts back into batch b.
RestoreAmount(b, q) ==
    IF ReturnSkipped(b) \/ initial[b] - remaining[b] <= 0 THEN 0
    ELSE Minimum(q, initial[b] - remaining[b])

\* void_transaction: one StockReturn per line, then the sale is voided.
VoidTransaction(s) ==
    /\ sale[s] = "active"
    /\ LET back == [b \in Batches |->
                      IF line[s][b] > 0 THEN RestoreAmount(b, line[s][b]) ELSE 0]
       IN  /\ remaining' = [b \in Batches |-> remaining[b] + back[b]]
           /\ status' = [b \in Batches |->
                            IF back[b] > 0 /\ status[b] = "depleted" THEN "available"
                            ELSE status[b]]
           /\ returned' = [returned EXCEPT ![s] = [b \in Batches |->
                              IF line[s][b] > 0 THEN back[b] ELSE NoReturn]]
    /\ sale' = [sale EXCEPT ![s] = "voided"]
    /\ UNCHANGED <<today, product, initial, expiration, received, line, adjusted>>

\* Mutation: the quantity is not compared with the stock of the batch.
AdjustableBeyondStock(b, type, q) ==
    /\ type # "correction" => q > 0
    /\ status[b] # "disposed"
    /\ (status[b] = "expired" \/ expiration[b] < today) => type \in {"expired", "spoilage"}
    /\ received[b] <= today
    /\ remaining[b] - q <= initial[b]

(***************************************************************************)
(* create_stock_adjustment.  The refusals are Adjustable's conjuncts; a    *)
(* positive quantity removes stock, a negative one (corrections only) adds *)
(* it.  A correction of zero is accepted by the code and moves nothing, so *)
(* it is no step here.                                                     *)
(***************************************************************************)
Adjustable(b, type, q) ==
    /\ type # "correction" => q > 0
    /\ status[b] # "disposed"
    /\ (status[b] = "expired" \/ expiration[b] < today) => type \in {"expired", "spoilage"}
    /\ received[b] <= today
    /\ q > 0 => q <= remaining[b]
    /\ remaining[b] - q <= initial[b]

\* Mutations: a correction does not make a depleted batch available again; the
\* reason of a write-off is stored as the status.
StatusNotRevived(b, type, left) ==
    IF left <= 0 THEN IF type \in {"spoilage", "expired"} THEN "disposed" ELSE "depleted"
    ELSE status[b]
StatusIsReason(b, type, left) == IF left <= 0 THEN type ELSE status[b]

StatusAfterAdjustment(b, type, left) ==
    IF left <= 0 THEN IF type \in {"spoilage", "expired"} THEN "disposed" ELSE "depleted"
    ELSE IF type = "correction" /\ status[b] = "depleted" THEN "available"
    ELSE status[b]

StockAdjustment(b, type, q) ==
    /\ Exists(b)
    /\ q # 0
    /\ Adjustable(b, type, q)
    /\ remaining' = [remaining EXCEPT ![b] = IF @ - q <= 0 THEN 0 ELSE @ - q]
    /\ status' = [status EXCEPT ![b] = StatusAfterAdjustment(b, type, remaining[b] - q)]
    /\ adjusted' = [adjusted EXCEPT ![b] = @ + q]
    /\ UNCHANGED <<today, product, initial, expiration, received, saleVars>>

-----------------------------------------------------------------------------
Next ==
    \/ NextDay
    \/ \E b \in Batches, rec \in Days, exp \in Dates :
         \/ \E p \in Products, q \in 1..MaxQty : ReceiveBatch(b, p, q, rec, exp)
         \/ EditBatch(b, rec, exp)
    \/ \E b \in Batches : DestroyBatch(b)
    \/ \E s \in Sales :
         \/ \E cart \in [Products -> 0..MaxQty] : Checkout(s, cart)
         \/ VoidTransaction(s)
    \/ \E b \in Batches, type \in ADJUSTMENT_TYPES, q \in (-MaxQty)..MaxQty :
         StockAdjustment(b, type, q)

Spec == Init /\ [][Next]_vars

-----------------------------------------------------------------------------
(***************************************************************************)
(* Properties.                                                             *)
(***************************************************************************)

\* No sequence of sales, cancellations, corrections and edits leaves a batch
\* with negative stock or with more than was delivered: the cap of
\* void_transaction and the checks of create_stock_adjustment and
\* deduct_product_batch together keep remaining_quantity within the receipt.
StockWithinReceipt ==
    \A b \in Batches : 0 <= remaining[b] /\ remaining[b] <= initial[b]

\* The stored status agrees with the stored quantity after every operation:
\* an available batch holds stock, a depleted or disposed one holds none.
\* FEFO, the stock totals and the expiry reports filter by status alone.
StatusMatchesStock ==
    \A b \in Batches :
        /\ status[b] = "available" => remaining[b] > 0
        /\ status[b] \in {"depleted", "disposed"} => remaining[b] = 0

\* The stock of a batch is its delivery less what its sale lines took, plus
\* what cancellations actually returned, less its adjustments: the equation
\* inventory_ledger relies on to reconstruct past balances from the rows.
Conservation ==
    \A b \in Batches :
        remaining[b] =
            initial[b]
            - SumOver([s \in Sales |-> line[s][b]], Sales)
            + SumOver([s \in Sales |-> returned[s][b]],
                      {s \in Sales : returned[s][b] # NoReturn})
            - adjusted[b]

\* A sale line has a StockReturn exactly when its sale is voided, and a
\* cancellation never returns more than the line took (void_transaction,
\* reached from the transaction and the order routes).
ReturnsMatchVoids ==
    \A s \in Sales, b \in Batches :
        /\ returned[s][b] # NoReturn <=> sale[s] = "voided" /\ line[s][b] > 0
        /\ returned[s][b] <= line[s][b]

\* Once stock is written off, no cancellation, correction or edit brings the
\* batch back: disposed is final.
WrittenOffIsFinal ==
    [][\A b \in Batches :
         status[b] = "disposed" => status'[b] = "disposed" /\ remaining'[b] = 0]_vars
=============================================================================
