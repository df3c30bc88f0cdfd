--------------------------- MODULE CheckoutProofs ---------------------------
(***************************************************************************)
(* The writes at the counter, for every value of the constants: the stock  *)
(* ledger that sales, deliveries and adjustments keep, and the request IDs *)
(* under which they are submitted.                                         *)
(***************************************************************************)
EXTENDS InventoryLedger, KeyedSubmission, FiniteSums

-----------------------------------------------------------------------------
(***************************************************************************)
(* For every catalogue, number of batches and sales, quantities and dates: *)
(* the type invariant and the safety properties of StockLedger, and of the *)
(* movement report that InventoryLedger puts on top of it.                 *)
(*                                                                         *)
(* The properties are not inductive one by one.  StockInv is: a write-off  *)
(* stays final only because a disposed batch holds nothing, holds nothing  *)
(* only because stock never exceeds the receipt, and cannot be deleted     *)
(* only because it once held stock (DisposedHadStock).  Conservation needs *)
(* also that a key without a batch has no rows (RowsInv), and the report   *)
(* that the dated rows of a batch sum to what was taken and lie between    *)
(* its receipt and today (MovementInv).                                    *)
(***************************************************************************)

\* A batch is disposed of by an adjustment of a positive quantity, so it was
\* delivered with stock; this is what keeps DestroyBatch away from it.
DisposedHadStock ==
    \A b \in Batches : status[b] = "disposed" => initial[b] > 0

StockInv ==
    /\ TypeOK
    /\ StockWithinReceipt
    /\ StatusMatchesStock
    /\ ReturnsMatchVoids
    /\ DisposedHadStock

USE DEF NoReturn

\* What a cancellation puts back is a quantity of the line that fits the batch.
LEMMA RestoreAmountFits ==
    ASSUME TypeOK, StockWithinReceipt,
           NEW b \in Batches, NEW q \in Nat
    PROVE  /\ RestoreAmount(b, q) \in 0..q
           /\ remaining[b] + RestoreAmount(b, q) <= initial[b]
           /\ RestoreAmount(b, q) > 0 => status[b] \notin {"expired", "disposed"}
<1>1. initial[b] \in Nat /\ remaining[b] \in Nat /\ remaining[b] <= initial[b]
    BY BoundsAssumption DEF TypeOK, StockWithinReceipt
<1>2. CASE RestoreAmount(b, q) = 0
    BY <1>1, <1>2
<1>3. CASE RestoreAmount(b, q) # 0
  <2>1. ~ReturnSkipped(b)
      BY <1>3 DEF RestoreAmount
  <2>2. RestoreAmount(b, q) = Minimum(q, initial[b] - remaining[b])
      BY <1>3 DEF RestoreAmount
  <2> QED
      BY <1>1, <2>1, <2>2 DEF Minimum, ReturnSkipped
<1> QED
    BY <1>2, <1>3

\* The initial inventory satisfies the invariant.
LEMMA InitStockInv == Init => StockInv
<1> SUFFICES ASSUME Init PROVE StockInv
    OBVIOUS
<1>1. PICK marked \in SUBSET Legacy :
        /\ initial   = [b \in Batches |-> IF b \in marked THEN MaxQty ELSE 0]
        /\ remaining = [b \in Batches |-> IF b \in marked THEN MaxQty ELSE 0]
        /\ status    = [b \in Batches |-> IF b \in marked THEN "expired"
                                           ELSE IF b \in Legacy THEN "depleted"
                                           ELSE "none"]
    BY DEF Init
<1>2. TypeOK
    BY <1>1, BoundsAssumption DEF Init, TypeOK, STATUS_TYPES, Days, Dates
<1>3. StockWithinReceipt /\ StatusMatchesStock /\ DisposedHadStock
    BY <1>1, BoundsAssumption DEF StockWithinReceipt, StatusMatchesStock, DisposedHadStock
<1>4. ReturnsMatchVoids
    BY DEF Init, ReturnsMatchVoids
<1> QED
    BY <1>2, <1>3, <1>4 DEF StockInv

\* A checkout keeps the invariant.
LEMMA CheckoutStockInv ==
    ASSUME StockInv, NEW s \in Sales, NEW cart, Checkout(s, cart)
    PROVE  StockInv'
<1> USE DEF StockInv
<1>1. PICK take \in [Batches -> 0..MaxQty] :
        /\ Deducts(cart, take)
        /\ remaining' = [b \in Batches |-> remaining[b] - take[b]]
        /\ status' = [b \in Batches |->
                        IF take[b] > 0 /\ take[b] = remaining[b] THEN "depleted"
                        ELSE status[b]]
        /\ line' = [line EXCEPT ![s] = take]
    BY DEF Checkout
<1>2. \A b \in Batches : take[b] > 0 => status[b] = "available" /\ take[b] <= remaining[b]
    BY <1>1 DEF Deducts, Sellable
<1>3. TypeOK'
    BY <1>1 DEF Checkout, TypeOK, STATUS_TYPES
<1>4. StockWithinReceipt'
    BY <1>1, <1>2 DEF Checkout, TypeOK, StockWithinReceipt
<1>5. StatusMatchesStock'
  <2> SUFFICES ASSUME NEW b \in Batches
               PROVE  /\ status'[b] = "available" => remaining'[b] > 0
                      /\ status'[b] \in {"depleted", "disposed"} => remaining'[b] = 0
      BY DEF StatusMatchesStock
  <2>1. /\ remaining[b] \in Int /\ take[b] \in Nat /\ 0 <= remaining[b]
        /\ remaining'[b] = remaining[b] - take[b]
      BY <1>1, BoundsAssumption DEF TypeOK, StockWithinReceipt
  <2>2. CASE take[b] = 0
      BY <1>1, <2>1, <2>2 DEF StatusMatchesStock
  <2>3. CASE take[b] > 0
      BY <1>1, <1>2, <2>1, <2>3
  <2> QED
      BY <2>1, <2>2, <2>3
<1>6. ReturnsMatchVoids'
    BY <1>1 DEF Checkout, TypeOK, ReturnsMatchVoids
<1>7. DisposedHadStock'
    BY <1>1 DEF Checkout, TypeOK, DisposedHadStock
<1> QED
    BY <1>3, <1>4, <1>5, <1>6, <1>7

\* A cancellation keeps the invariant.
LEMMA VoidStockInv ==
    ASSUME StockInv, NEW s \in Sales, VoidTransaction(s)
    PROVE  StockInv'
<1> DEFINE back == [b \in Batches |->
                      IF line[s][b] > 0 THEN RestoreAmount(b, line[s][b]) ELSE 0]
<1> USE DEF StockInv
<1>1. /\ remaining' = [b \in Batches |-> remaining[b] + back[b]]
      /\ status' = [b \in Batches |->
                      IF back[b] > 0 /\ status[b] = "depleted" THEN "available"
                      ELSE status[b]]
      /\ returned' = [returned EXCEPT ![s] = [b \in Batches |->
                        IF line[s][b] > 0 THEN back[b] ELSE NoReturn]]
    BY DEF VoidTransaction
<1>2. \A b \in Batches :
        /\ back[b] \in 0..line[s][b]
        /\ remaining[b] + back[b] <= initial[b]
        /\ back[b] > 0 => status[b] \notin {"expired", "disposed"}
    BY RestoreAmountFits DEF TypeOK, StockWithinReceipt
<1> HIDE DEF back
<1>3. TypeOK'
  <2>1. remaining' \in [Batches -> Int] /\ returned' \in [Sales -> [Batches -> Int]]
      BY <1>1, <1>2 DEF TypeOK
  <2>2. /\ status' \in [Batches -> STATUS_TYPES \union {"none"}]
        /\ sale' \in [Sales -> {"none", "active", "voided"}]
      BY <1>1 DEF VoidTransaction, TypeOK, STATUS_TYPES
  <2> QED
      BY <2>1, <2>2 DEF VoidTransaction, TypeOK
<1>4. StockWithinReceipt'
    BY <1>1, <1>2 DEF VoidTransaction, TypeOK, StockWithinReceipt
<1>5. StatusMatchesStock'
    BY <1>1, <1>2 DEF TypeOK, StatusMatchesStock, StockWithinReceipt
<1>6. ReturnsMatchVoids'
    BY <1>1, <1>2 DEF VoidTransaction, TypeOK, ReturnsMatchVoids
<1>7. DisposedHadStock'
    BY <1>1 DEF VoidTransaction, TypeOK, DisposedHadStock
<1> QED
    BY <1>3, <1>4, <1>5, <1>6, <1>7

\* An adjustment keeps the invariant.
LEMMA AdjustmentStockInv ==
    ASSUME StockInv, NEW b \in Batches, NEW type \in ADJUSTMENT_TYPES,
           NEW q \in Int, StockAdjustment(b, type, q)
    PROVE  StockInv'
<1> USE DEF StockInv, StockAdjustment, Adjustable, StatusAfterAdjustment
<1>1. TypeOK'
  <2>1. StatusAfterAdjustment(b, type, remaining[b] - q) \in STATUS_TYPES \union {"none"}
      BY DEF TypeOK, STATUS_TYPES
  <2> HIDE DEF StatusAfterAdjustment
  <2>2. /\ status' \in [Batches -> STATUS_TYPES \union {"none"}]
        /\ remaining' \in [Batches -> Int]
        /\ adjusted' \in [Batches -> Int]
      BY <2>1 DEF TypeOK
  <2> QED
      BY <2>2 DEF TypeOK, saleVars
<1>2. StockWithinReceipt'
    BY DEF TypeOK, StockWithinReceipt
<1>3. StatusMatchesStock'
    BY DEF TypeOK, StatusMatchesStock, StockWithinReceipt
<1>4. ReturnsMatchVoids'
    BY DEF ReturnsMatchVoids, saleVars
<1>5. DisposedHadStock'
    BY DEF TypeOK, DisposedHadStock, StockWithinReceipt
<1> QED
    BY <1>1, <1>2, <1>3, <1>4, <1>5

\* The operations on the batch rows themselves keep the invariant.
LEMMA BatchRowStockInv ==
    ASSUME StockInv, NEW b \in Batches,
           \/ \E rec \in Days, exp \in Dates :
                \/ \E p \in Products, q \in 1..MaxQty : ReceiveBatch(b, p, q, rec, exp)
                \/ EditBatch(b, rec, exp)
           \/ DestroyBatch(b)
    PROVE  StockInv'
<1> USE DEF StockInv
<1>1. ASSUME NEW rec \in Days, NEW exp \in Dates, NEW p \in Products, NEW q \in 1..MaxQty,
             ReceiveBatch(b, p, q, rec, exp)
      PROVE  StockInv'
  <2> USE <1>1 DEF ReceiveBatch
  <2>1. TypeOK'
      BY DEF TypeOK, STATUS_TYPES, saleVars
  <2>2. StockWithinReceipt' /\ StatusMatchesStock' /\ DisposedHadStock'
      BY DEF TypeOK, StockWithinReceipt, StatusMatchesStock, DisposedHadStock
  <2>3. ReturnsMatchVoids'
      BY DEF ReturnsMatchVoids, saleVars
  <2> QED
      BY <2>1, <2>2, <2>3
<1>2. ASSUME NEW rec \in Days, NEW exp \in Dates, EditBatch(b, rec, exp)
      PROVE  StockInv'
    BY <1>2 DEF EditBatch, TypeOK, saleVars, StockWithinReceipt, StatusMatchesStock,
                DisposedHadStock, ReturnsMatchVoids
<1>3. ASSUME DestroyBatch(b)
      PROVE  StockInv'
    BY <1>3 DEF DestroyBatch, TypeOK, STATUS_TYPES, saleVars, StockWithinReceipt,
                StatusMatchesStock, DisposedHadStock, ReturnsMatchVoids
<1> QED
    BY <1>1, <1>2, <1>3

\* The invariant is inductive.
LEMMA NextStockInv == StockInv /\ [Next]_vars => StockInv'
<1> SUFFICES ASSUME StockInv, [Next]_vars PROVE StockInv'
    OBVIOUS
<1>1. CASE NextDay
  <2>1. today' \in Days
      BY <1>1, BoundsAssumption DEF NextDay, StockInv, TypeOK, Days
  <2> QED
      BY <1>1, <2>1 DEF NextDay, StockInv, TypeOK, batchVars, saleVars, StockWithinReceipt,
                        StatusMatchesStock, DisposedHadStock, ReturnsMatchVoids
<1>2. ASSUME NEW b \in Batches, NEW rec \in Days, NEW exp \in Dates,
             \/ \E p \in Products, q \in 1..MaxQty : ReceiveBatch(b, p, q, rec, exp)
             \/ EditBatch(b, rec, exp)
      PROVE  StockInv'
    BY <1>2, BatchRowStockInv
<1>3. ASSUME NEW b \in Batches, DestroyBatch(b) PROVE StockInv'
    BY <1>3, BatchRowStockInv
<1>4. ASSUME NEW s \in Sales, NEW cart \in [Products -> 0..MaxQty], Checkout(s, cart)
      PROVE  StockInv'
    BY <1>4, CheckoutStockInv
<1>5. ASSUME NEW s \in Sales, VoidTransaction(s) PROVE StockInv'
    BY <1>5, VoidStockInv
<1>6. ASSUME NEW b \in Batches, NEW type \in ADJUSTMENT_TYPES, NEW q \in (-MaxQty)..MaxQty,
             StockAdjustment(b, type, q)
      PROVE  StockInv'
  <2>1. q \in Int
      OBVIOUS
  <2> QED
      BY <1>6, <2>1, AdjustmentStockInv
<1>7. CASE UNCHANGED vars
    BY <1>7 DEF vars, StockInv, TypeOK, batchVars, saleVars, StockWithinReceipt,
                StatusMatchesStock, DisposedHadStock, ReturnsMatchVoids
<1> QED
    BY <1>1, <1>2, <1>3, <1>4, <1>5, <1>6, <1>7 DEF Next

\* Every reachable inventory satisfies the invariant.
LEMMA StockInvHolds == Spec => []StockInv
BY InitStockInv, NextStockInv, PTL DEF Spec

-----------------------------------------------------------------------------
(***************************************************************************)
(* Conservation.  The equation holds for a new batch only because a key    *)
(* without a row has no rows that refer to it, and for a new sale only     *)
(* because it had no lines before (RowsInv).                               *)
(***************************************************************************)
NoRowNoStock ==
    \A b \in Batches : status[b] = "none" =>
        initial[b] = 0 /\ remaining[b] = 0 /\ \A s \in Sales : line[s][b] = 0

NoSaleNoLines ==
    \A s \in Sales : sale[s] = "none" => \A b \in Batches : line[s][b] = 0

RowsInv == NoRowNoStock /\ NoSaleNoLines

\* What the sale lines took from batch b, and what cancellations returned.
Taken(b) == SumOver([s \in Sales |-> line[s][b]], Sales)
Given(b) == SumOver([s \in Sales |-> returned[s][b]], {s \in Sales : returned[s][b] # NoReturn})

\* The sums of StockLedger are those of the lemmas.
LEMMA SumOverIsSigma == \A f, S : SumOver(f, S) = Sigma(f, S)
BY DEF SumOver, Sigma

\* There are finitely many sales, so the sums are integers.
LEMMA SumsTyped ==
    ASSUME TypeOK, NEW b \in Batches
    PROVE  /\ IsFiniteSet(Sales) /\ IsFiniteSet({s \in Sales : returned[s][b] # NoReturn})
           /\ Taken(b) \in Int /\ Given(b) \in Int
<1>1. IsFiniteSet(Sales)
    BY BoundsAssumption, FS_Interval DEF Sales
<1>2. IsFiniteSet({s \in Sales : returned[s][b] # NoReturn})
    BY <1>1, FS_Subset
<1>3. \A s \in Sales : [r \in Sales |-> line[r][b]][s] \in Int /\ [r \in Sales |-> returned[r][b]][s] \in Int
    BY DEF TypeOK
<1>4. Taken(b) \in Int
    BY <1>1, <1>3, SumInt, SumOverIsSigma DEF Taken
<1>5. Given(b) \in Int
    BY <1>2, <1>3, SumInt, SumOverIsSigma DEF Given
<1> QED
    BY <1>1, <1>2, <1>4, <1>5

\* The terms of the equation are integers.
LEMMA TermsTyped ==
    ASSUME TypeOK, NEW b \in Batches
    PROVE  /\ remaining[b] \in Int /\ initial[b] \in Int /\ adjusted[b] \in Int
           /\ Taken(b) \in Int /\ Given(b) \in Int
<1>1. remaining[b] \in Int /\ initial[b] \in Int /\ adjusted[b] \in Int
    BY DEF TypeOK
<1> QED
    BY <1>1, SumsTyped

\* Where sales and returns stay, so do their sums.
LEMMA SumsStand ==
    ASSUME NEW b \in Batches, UNCHANGED <<line, returned>>
    PROVE  Taken(b)' = Taken(b) /\ Given(b)' = Given(b)
BY DEF Taken, Given

\* Nothing was sold, returned or adjusted at first.
LEMMA InitRows == Init => RowsInv /\ Conservation
<1> SUFFICES ASSUME Init PROVE RowsInv /\ Conservation
    OBVIOUS
<1>1. RowsInv
    BY DEF Init, RowsInv, NoRowNoStock, NoSaleNoLines
<1>2. ASSUME NEW b \in Batches PROVE remaining[b] = initial[b] /\ adjusted[b] = 0 /\ initial[b] \in Int
    BY BoundsAssumption DEF Init
<1>3. ASSUME NEW b \in Batches PROVE Taken(b) = 0 /\ Given(b) = 0
  <2>1. IsFiniteSet(Sales)
      BY BoundsAssumption, FS_Interval DEF Sales
  <2>2. \A s \in Sales : [r \in Sales |-> line[r][b]][s] = 0
      BY DEF Init
  <2>3. {s \in Sales : returned[s][b] # NoReturn} = {}
      BY DEF Init
  <2>4. Taken(b) = 0
      BY <2>1, <2>2, SumZero, SumOverIsSigma DEF Taken
  <2>5. \A f : Sigma(f, {}) = 0
      BY FS_EmptySet, SumZero
  <2> QED
      BY <2>3, <2>4, <2>5, SumOverIsSigma DEF Given
<1>4. Conservation
    BY <1>2, <1>3 DEF Conservation, Taken, Given
<1> QED
    BY <1>1, <1>4

\* A checkout adds to the lines of its sale what it takes from the batches.
LEMMA CheckoutRows ==
    ASSUME StockInv, RowsInv, Conservation, NEW s \in Sales, NEW cart, Checkout(s, cart), TypeOK'
    PROVE  RowsInv' /\ Conservation'
<1> USE DEF StockInv
<1>1. PICK take \in [Batches -> 0..MaxQty] :
        /\ Deducts(cart, take)
        /\ remaining' = [b \in Batches |-> remaining[b] - take[b]]
        /\ status' = [b \in Batches |->
                        IF take[b] > 0 /\ take[b] = remaining[b] THEN "depleted"
                        ELSE status[b]]
        /\ line' = [line EXCEPT ![s] = take]
    BY DEF Checkout
<1>2. \A b \in Batches : take[b] \in Nat /\ (take[b] > 0 => status[b] = "available")
    BY <1>1, BoundsAssumption DEF Deducts, Sellable
<1>3. UNCHANGED <<initial, returned, adjusted>> /\ sale[s] = "none" /\ sale' = [sale EXCEPT ![s] = "active"]
    BY DEF Checkout
<1>4. RowsInv'
    BY <1>1, <1>2, <1>3 DEF RowsInv, NoRowNoStock, NoSaleNoLines, TypeOK
<1>5. ASSUME NEW b \in Batches
      PROVE  remaining'[b] = initial'[b] - Taken(b)' + Given(b)' - adjusted'[b]
  <2>1. line[s][b] = 0 /\ line'[s][b] = take[b] /\ \A r \in Sales \ {s} : line'[r][b] = line[r][b]
      BY <1>1, <1>3 DEF RowsInv, NoSaleNoLines, TypeOK
  <2>2. Taken(b)' = Taken(b) + take[b]
    <3> DEFINE f == [r \in Sales |-> line[r][b]]
    <3> DEFINE g == [r \in Sales |-> line'[r][b]]
    <3>1. /\ \A r \in Sales : f[r] \in Int /\ g[r] \in Int
          /\ \A r \in Sales \ {s} : f[r] = g[r]
          /\ f[s] = 0 /\ g[s] = take[b]
        BY <2>1 DEF TypeOK
    <3>2. Sigma(f, Sales) = Taken(b) /\ Sigma(g, Sales) = Taken(b)' /\ IsFiniteSet(Sales)
        BY SumOverIsSigma, SumsTyped DEF Taken
    <3>3. Sigma(f, Sales) \in Int
        BY <3>2, SumsTyped
    <3> HIDE DEF f, g
    <3>4. Sigma(g, Sales) = Sigma(f, Sales) + g[s] - f[s]
        BY <3>1, <3>2, SumChange
    <3> QED
        BY <1>2, <3>1, <3>2, <3>3, <3>4
  <2>3. Given(b)' = Given(b)
      BY <1>3 DEF Given
  <2>4. remaining[b] = initial[b] - Taken(b) + Given(b) - adjusted[b]
      BY DEF Conservation, Taken, Given
  <2>5. remaining[b] \in Int /\ initial[b] \in Int /\ adjusted[b] \in Int /\ Taken(b) \in Int /\ Given(b) \in Int
      BY TermsTyped
  <2> QED
      BY <1>1, <1>2, <1>3, <2>2, <2>3, <2>4, <2>5
<1>6. Conservation'
    BY <1>5 DEF Conservation, Taken, Given
<1> QED
    BY <1>4, <1>6

\* A cancellation records for each line what it puts back.
LEMMA VoidRows ==
    ASSUME StockInv, RowsInv, Conservation, NEW s \in Sales, VoidTransaction(s), TypeOK'
    PROVE  RowsInv' /\ Conservation'
<1> DEFINE back == [b \in Batches |->
                      IF line[s][b] > 0 THEN RestoreAmount(b, line[s][b]) ELSE 0]
<1> USE DEF StockInv
<1>1. /\ remaining' = [b \in Batches |-> remaining[b] + back[b]]
      /\ status' = [b \in Batches |->
                      IF back[b] > 0 /\ status[b] = "depleted" THEN "available"
                      ELSE status[b]]
      /\ returned' = [returned EXCEPT ![s] = [b \in Batches |->
                        IF line[s][b] > 0 THEN back[b] ELSE NoReturn]]
    BY DEF VoidTransaction
<1>2. \A b \in Batches : /\ back[b] \in 0..line[s][b] /\ line[s][b] \in Nat
                         /\ line[s][b] = 0 => back[b] = 0
    BY RestoreAmountFits DEF TypeOK, StockWithinReceipt
<1> HIDE DEF back
<1>3. UNCHANGED <<initial, line, adjusted>> /\ sale[s] = "active" /\ sale' = [sale EXCEPT ![s] = "voided"]
    BY DEF VoidTransaction
<1>4. RowsInv'
  <2>1. NoRowNoStock'
    <3> SUFFICES ASSUME NEW b \in Batches, status'[b] = "none"
                 PROVE  initial'[b] = 0 /\ remaining'[b] = 0 /\ \A r \in Sales : line'[r][b] = 0
        BY DEF NoRowNoStock
    <3>1. status[b] = "none"
        BY <1>1
    <3>2. initial[b] = 0 /\ remaining[b] = 0 /\ \A r \in Sales : line[r][b] = 0
        BY <3>1 DEF RowsInv, NoRowNoStock
    <3> QED
        BY <1>1, <1>2, <1>3, <3>2
  <2>2. NoSaleNoLines'
      BY <1>3 DEF RowsInv, NoSaleNoLines, TypeOK
  <2> QED
      BY <2>1, <2>2 DEF RowsInv
<1>5. ASSUME NEW b \in Batches
      PROVE  remaining'[b] = initial'[b] - Taken(b)' + Given(b)' - adjusted'[b]
  <2>1. /\ returned'[s][b] = IF line[s][b] > 0 THEN back[b] ELSE NoReturn
        /\ \A r \in Sales \ {s} : returned'[r][b] = returned[r][b]
      BY <1>1 DEF TypeOK
  <2>2. returned[s][b] = NoReturn
      BY <1>3 DEF ReturnsMatchVoids
  <2>3. Taken(b)' = Taken(b)
      BY <1>3 DEF Taken
  <2> DEFINE f == [r \in Sales |-> returned[r][b]]
  <2> DEFINE g == [r \in Sales |-> returned'[r][b]]
  <2> DEFINE R == {r \in Sales : returned[r][b] # NoReturn}
  <2> DEFINE Q == {r \in Sales : returned'[r][b] # NoReturn}
  <2>4. Sigma(f, R) = Given(b) /\ Sigma(g, Q) = Given(b)' /\ IsFiniteSet(R) /\ Given(b) \in Int
      BY SumOverIsSigma, SumsTyped DEF Given
  <2>5. s \notin R /\ \A r \in R : f[r] \in Int /\ f[r] = g[r]
      BY <2>1, <2>2 DEF TypeOK
  <2>6. Given(b)' = Given(b) + back[b]
    <3>1. CASE line[s][b] > 0
      <4>1. Q = R \union {s} /\ g[s] = back[b] /\ back[b] \in Int
          BY <1>2, <2>1, <3>1
      <4> HIDE DEF f, g, R, Q
      <4> QED
          BY <2>4, <2>5, <4>1, SumAdd
    <3>2. CASE line[s][b] = 0
      <4>1. Q = R /\ back[b] = 0
          BY <1>2, <2>1, <2>2, <3>2
      <4> HIDE DEF f, g, R, Q
      <4>2. Sigma(f, R) = Sigma(g, R)
          BY <2>4, <2>5, SumSame
      <4> QED
          BY <2>4, <4>1, <4>2
    <3> QED
        BY <1>2, <3>1, <3>2
  <2>7. remaining[b] = initial[b] - Taken(b) + Given(b) - adjusted[b]
      BY DEF Conservation, Taken, Given
  <2>8. remaining[b] \in Int /\ initial[b] \in Int /\ adjusted[b] \in Int /\ Taken(b) \in Int /\ Given(b) \in Int
      BY TermsTyped
  <2>9. back[b] \in Int /\ remaining'[b] = remaining[b] + back[b]
      BY <1>1, <1>2
  <2> HIDE DEF f, g, R, Q
  <2> QED
      BY <1>3, <2>3, <2>6, <2>7, <2>8, <2>9
<1>6. Conservation'
    BY <1>5 DEF Conservation, Taken, Given
<1> QED
    BY <1>4, <1>6

\* Deliveries, edits, deletions and adjustments leave the lines alone.
LEMMA OtherRows ==
    ASSUME StockInv, RowsInv, Conservation, NEW b \in Batches, UNCHANGED saleVars,
           \/ \E rec \in Days, exp \in Dates :
                \/ \E p \in Products, q \in 1..MaxQty : ReceiveBatch(b, p, q, rec, exp)
                \/ EditBatch(b, rec, exp)
           \/ DestroyBatch(b)
           \/ \E type \in ADJUSTMENT_TYPES, q \in (-MaxQty)..MaxQty : StockAdjustment(b, type, q)
    PROVE  RowsInv' /\ Conservation'
<1> USE DEF StockInv
<1>1. UNCHANGED <<sale, line, returned>>
    BY DEF saleVars
<1>2. \A c \in Batches : Taken(c)' = Taken(c) /\ Given(c)' = Given(c)
    BY <1>1, SumsStand
<1>3. ASSUME NEW c \in Batches
      PROVE  /\ remaining[c] = initial[c] - Taken(c) + Given(c) - adjusted[c]
             /\ remaining[c] \in Int /\ initial[c] \in Int /\ adjusted[c] \in Int
             /\ Taken(c) \in Int /\ Given(c) \in Int
    BY TermsTyped DEF Conservation, Taken, Given
<1>4. NoSaleNoLines'
    BY <1>1 DEF RowsInv, NoSaleNoLines
<1>5. ASSUME \A c \in Batches : initial'[c] - adjusted'[c] - remaining'[c] = initial[c] - adjusted[c] - remaining[c]
                                /\ initial'[c] \in Int /\ adjusted'[c] \in Int /\ remaining'[c] \in Int
      PROVE  Conservation'
  <2>1. ASSUME NEW c \in Batches PROVE remaining'[c] = initial'[c] - Taken(c)' + Given(c)' - adjusted'[c]
    <3>1. /\ initial'[c] - adjusted'[c] - remaining'[c] = initial[c] - adjusted[c] - remaining[c]
          /\ initial'[c] \in Int /\ adjusted'[c] \in Int /\ remaining'[c] \in Int
        BY <1>5
    <3>2. Taken(c)' = Taken(c) /\ Given(c)' = Given(c)
        BY <1>2
    <3>3. /\ remaining[c] = initial[c] - Taken(c) + Given(c) - adjusted[c]
          /\ remaining[c] \in Int /\ initial[c] \in Int /\ adjusted[c] \in Int
          /\ Taken(c) \in Int /\ Given(c) \in Int
        BY <1>3
    <3>4. remaining'[c] = initial'[c] - Taken(c) + Given(c) - adjusted'[c]
        BY <3>1, <3>3
    <3> QED
        BY <3>2, <3>4
  <2> QED
      BY <2>1 DEF Conservation, Taken, Given
<1>6. ASSUME NEW rec \in Days, NEW exp \in Dates, NEW p \in Products, NEW q \in 1..MaxQty,
             ReceiveBatch(b, p, q, rec, exp)
      PROVE  RowsInv' /\ Conservation'
  <2>1. /\ status[b] = "none" /\ status' = [status EXCEPT ![b] = "available"]
        /\ initial' = [initial EXCEPT ![b] = q] /\ remaining' = [remaining EXCEPT ![b] = q]
        /\ UNCHANGED adjusted
      BY <1>6 DEF ReceiveBatch, Exists
  <2>2. initial[b] = 0 /\ remaining[b] = 0
      BY <2>1 DEF RowsInv, NoRowNoStock
  <2>3. NoRowNoStock'
      BY <1>1, <2>1 DEF RowsInv, NoRowNoStock, TypeOK
  <2>4. Conservation'
    <3>1. q \in Int
        OBVIOUS
    <3> QED
        BY <1>3, <1>5, <2>1, <2>2, <3>1 DEF TypeOK
  <2> QED
      BY <1>4, <2>3, <2>4 DEF RowsInv
<1>7. ASSUME NEW rec \in Days, NEW exp \in Dates, EditBatch(b, rec, exp)
      PROVE  RowsInv' /\ Conservation'
  <2>1. UNCHANGED <<initial, remaining, status, adjusted>>
      BY <1>7 DEF EditBatch
  <2> QED
      BY <1>1, <1>3, <1>4, <1>5, <2>1 DEF RowsInv, NoRowNoStock
<1>8. ASSUME DestroyBatch(b) PROVE RowsInv' /\ Conservation'
  <2>1. /\ UNCHANGED <<initial, remaining, adjusted>> /\ status' = [status EXCEPT ![b] = "none"]
        /\ \A s \in Sales : line[s][b] = 0
        /\ ~(initial[b] > 0 \/ remaining[b] > 0)
      BY <1>8 DEF DestroyBatch
  <2>2. initial[b] = 0 /\ remaining[b] = 0
      BY <2>1 DEF TypeOK, StockWithinReceipt
  <2> QED
      BY <1>1, <1>3, <1>4, <1>5, <2>1, <2>2 DEF RowsInv, NoRowNoStock, TypeOK
<1>9. ASSUME NEW type \in ADJUSTMENT_TYPES, NEW q \in (-MaxQty)..MaxQty, StockAdjustment(b, type, q)
      PROVE  RowsInv' /\ Conservation'
  <2>0. q \in Int /\ remaining[b] \in Int /\ 0 <= remaining[b]
      BY DEF TypeOK, StockWithinReceipt
  <2>1. /\ remaining' = [remaining EXCEPT ![b] = remaining[b] - q]
        /\ adjusted' = [adjusted EXCEPT ![b] = adjusted[b] + q]
        /\ UNCHANGED initial
    <3>1. remaining' = [remaining EXCEPT ![b] = IF remaining[b] - q <= 0 THEN 0 ELSE remaining[b] - q]
          /\ adjusted' = [adjusted EXCEPT ![b] = adjusted[b] + q] /\ UNCHANGED initial
          /\ (q > 0 => q <= remaining[b])
        BY <1>9 DEF StockAdjustment, Adjustable
    <3>2. (IF remaining[b] - q <= 0 THEN 0 ELSE remaining[b] - q) = remaining[b] - q
        BY <2>0, <3>1
    <3> QED
        BY <3>1, <3>2
  <2>2. /\ status' = [status EXCEPT ![b] = StatusAfterAdjustment(b, type, remaining[b] - q)]
        /\ StatusAfterAdjustment(b, type, remaining[b] - q) # "none"
      BY <1>9 DEF StockAdjustment, StatusAfterAdjustment, Exists
  <2>3. NoRowNoStock'
      BY <1>1, <2>1, <2>2 DEF RowsInv, NoRowNoStock, TypeOK
  <2>4. Conservation'
      BY <1>3, <1>5, <2>0, <2>1 DEF TypeOK
  <2> QED
      BY <1>4, <2>3, <2>4 DEF RowsInv
<1> QED
    BY <1>6, <1>7, <1>8, <1>9

\* Every step keeps the equation.
LEMMA NextRows ==
    StockInv /\ StockInv' /\ RowsInv /\ Conservation /\ [Next]_vars => RowsInv' /\ Conservation'
<1> SUFFICES ASSUME StockInv, StockInv', RowsInv, Conservation, [Next]_vars
             PROVE  RowsInv' /\ Conservation'
    OBVIOUS
<1>1. ASSUME UNCHANGED <<initial, remaining, status, adjusted, sale, line, returned>>
      PROVE  RowsInv' /\ Conservation'
    BY <1>1 DEF RowsInv, NoRowNoStock, NoSaleNoLines, Conservation
<1>2. CASE NextDay
    BY <1>1, <1>2 DEF NextDay, batchVars, saleVars
<1>3. ASSUME NEW b \in Batches, NEW rec \in Days, NEW exp \in Dates,
             \/ \E p \in Products, q \in 1..MaxQty : ReceiveBatch(b, p, q, rec, exp)
             \/ EditBatch(b, rec, exp)
      PROVE  RowsInv' /\ Conservation'
  <2>1. UNCHANGED saleVars
      BY <1>3 DEF ReceiveBatch, EditBatch
  <2> QED
      BY <1>3, <2>1, OtherRows
<1>4. ASSUME NEW b \in Batches, DestroyBatch(b) PROVE RowsInv' /\ Conservation'
  <2>1. UNCHANGED saleVars
      BY <1>4 DEF DestroyBatch
  <2> QED
      BY <1>4, <2>1, OtherRows
<1>5. ASSUME NEW s \in Sales, NEW cart \in [Products -> 0..MaxQty], Checkout(s, cart)
      PROVE  RowsInv' /\ Conservation'
    BY <1>5, CheckoutRows DEF StockInv
<1>6. ASSUME NEW s \in Sales, VoidTransaction(s) PROVE RowsInv' /\ Conservation'
    BY <1>6, VoidRows DEF StockInv
<1>7. ASSUME NEW b \in Batches, NEW type \in ADJUSTMENT_TYPES, NEW q \in (-MaxQty)..MaxQty,
             StockAdjustment(b, type, q)
      PROVE  RowsInv' /\ Conservation'
  <2>1. UNCHANGED saleVars
      BY <1>7 DEF StockAdjustment
  <2> QED
      BY <1>7, <2>1, OtherRows
<1>8. CASE UNCHANGED vars
    BY <1>1, <1>8 DEF vars, batchVars, saleVars
<1> QED
    BY <1>2, <1>3, <1>4, <1>5, <1>6, <1>7, <1>8 DEF Next

-----------------------------------------------------------------------------
\* The state variables keep their types.
THEOREM TypeCorrect == Spec => []TypeOK
<1>1. StockInv => TypeOK
    BY DEF StockInv
<1> QED
    BY <1>1, StockInvHolds, PTL

\* No sequence of deliveries, sales, cancellations, adjustments and edits
\* leaves a batch with negative stock or with more than was delivered.
THEOREM StockNeverLeavesReceipt == Spec => []StockWithinReceipt
<1>1. StockInv => StockWithinReceipt
    BY DEF StockInv
<1> QED
    BY <1>1, StockInvHolds, PTL

\* The stored status always agrees with the stored quantity.
THEOREM StatusAlwaysMatchesStock == Spec => []StatusMatchesStock
<1>1. StockInv => StatusMatchesStock
    BY DEF StockInv
<1> QED
    BY <1>1, StockInvHolds, PTL

\* Every cancelled line, and no other, has a stock return within its quantity.
THEOREM ReturnsAlwaysMatchVoids == Spec => []ReturnsMatchVoids
<1>1. StockInv => ReturnsMatchVoids
    BY DEF StockInv
<1> QED
    BY <1>1, StockInvHolds, PTL

\* At any time the stock of every batch is its delivery less its sale lines and
\* adjustments plus what cancellations returned: the rows account for all of it.
THEOREM StockIsAccountedFor == Spec => []Conservation
BY StockInvHolds, InitRows, NextRows, PTL DEF Spec

\* A written-off batch is never brought back by any operation.
THEOREM WriteOffIsFinal == Spec => WrittenOffIsFinal
<1>1. StockInv /\ StockInv' /\ [Next]_vars =>
        [\A b \in Batches :
           status[b] = "disposed" => status'[b] = "disposed" /\ remaining'[b] = 0]_vars
  <2> SUFFICES ASSUME StockInv, StockInv', [Next]_vars, ~UNCHANGED vars,
                      NEW b \in Batches, status[b] = "disposed"
               PROVE  status'[b] = "disposed"
      BY DEF StockInv, StatusMatchesStock
  <2> USE DEF StockInv
  <2>1. CASE NextDay
      BY <2>1 DEF NextDay, batchVars
  <2>2. ASSUME NEW c \in Batches, NEW rec \in Days, NEW exp \in Dates,
               NEW p \in Products, NEW q \in 1..MaxQty, ReceiveBatch(c, p, q, rec, exp)
        PROVE  status'[b] = "disposed"
      BY <2>2 DEF ReceiveBatch, Exists, TypeOK
  <2>3. ASSUME NEW c \in Batches, NEW rec \in Days, NEW exp \in Dates, EditBatch(c, rec, exp)
        PROVE  status'[b] = "disposed"
      BY <2>3 DEF EditBatch
  <2>4. ASSUME NEW c \in Batches, DestroyBatch(c) PROVE status'[b] = "disposed"
      BY <2>4 DEF DestroyBatch, DisposedHadStock, TypeOK
  <2>5. ASSUME NEW s \in Sales, NEW cart \in [Products -> 0..MaxQty], Checkout(s, cart)
        PROVE  status'[b] = "disposed"
      BY <2>5 DEF Checkout, Deducts, Sellable, TypeOK
  <2>6. ASSUME NEW s \in Sales, VoidTransaction(s) PROVE status'[b] = "disposed"
      BY <2>6 DEF VoidTransaction, TypeOK
  <2>7. ASSUME NEW c \in Batches, NEW type \in ADJUSTMENT_TYPES, NEW q \in (-MaxQty)..MaxQty,
               StockAdjustment(c, type, q)
        PROVE  status'[b] = "disposed"
      BY <2>7 DEF StockAdjustment, Adjustable, TypeOK
  <2> QED
      BY <2>1, <2>2, <2>3, <2>4, <2>5, <2>6, <2>7 DEF Next
<1> QED
    BY <1>1, StockInvHolds, PTL DEF Spec, WrittenOffIsFinal

-----------------------------------------------------------------------------
(***************************************************************************)
(* The movement report.  No balance is stored, so the invariant is about   *)
(* rows: what the rows of a batch moved is what it is short of             *)
(* (NetIsUsed), none of them lies before the batch or after today          *)
(* (MovedWhileThere), and therefore the rows up to a past day still give   *)
(* the stock of that day (ClosingKept), whatever was sold, returned,       *)
(* corrected, received or deleted since.                                   *)
(***************************************************************************)

\* What was deducted from batch b on each day, and its stock when day d ended.
Net(b) == [d \in Days |-> issued[b][d] + writtenOff[b][d] - credited[b][d]]
UpTo(d) == {e \in Days : e <= d}
Balance(b, d) == initial[b] - Sigma(Net(b), UpTo(d))

\* What batch b had of product p when day d ended.
Share(p, d) ==
    [b \in Batches |-> IF product[b] = p /\ Exists(b) /\ created[b] <= d THEN Balance(b, d) ELSE 0]

RowTypes ==
    /\ created \in [Batches -> Days]
    /\ issued \in [Batches -> [Days -> Int]]
    /\ writtenOff \in [Batches -> [Days -> Int]]
    /\ credited \in [Batches -> [Days -> Int]]
    /\ closing = [d \in Days |-> closing[d]]

CreatedByNow == \A b \in Batches : created[b] <= today

MovedWhileThere ==
    \A b \in Batches, d \in Days : Net(b)[d] # 0 => created[b] <= d /\ d <= today /\ initial[b] # 0

NetIsUsed == \A b \in Batches : Sigma(Net(b), Days) = initial[b] - remaining[b]

ClosingKept ==
    \A d \in Days, p \in Products : d < today => closing[d][p] = Sigma(Share(p, d), Batches)

MovementInv ==
    /\ RowTypes
    /\ CreatedByNow
    /\ MovedWhileThere
    /\ NetIsUsed
    /\ ClosingKept

LedgerInv == StockInv /\ RowsInv /\ Conservation /\ MovementInv

\* Days and batches are finitely many, and movements are integers.
LEMMA LedgerFacts ==
    ASSUME TypeOK, RowTypes
    PROVE  /\ IsFiniteSet(Days) /\ IsFiniteSet(Batches) /\ IsFiniteSet(Sales) /\ Days \subseteq Nat
           /\ today \in Days
           /\ \A b \in Batches, d \in Days :
                /\ Net(b)[d] \in Int /\ Net(b)[d] = issued[b][d] + writtenOff[b][d] - credited[b][d]
                /\ issued[b][d] \in Int /\ writtenOff[b][d] \in Int /\ credited[b][d] \in Int
                /\ created[b] \in Days /\ initial[b] \in Int /\ remaining[b] \in Int
<1>1. IsFiniteSet(Days) /\ IsFiniteSet(Batches) /\ IsFiniteSet(Sales)
    BY BoundsAssumption, FS_Interval DEF Days, Batches, Sales
<1>2. Days \subseteq Nat /\ today \in Days
    BY DEF Days, TypeOK
<1>3. ASSUME NEW b \in Batches, NEW d \in Days
      PROVE  issued[b][d] \in Int /\ writtenOff[b][d] \in Int /\ credited[b][d] \in Int
             /\ created[b] \in Days /\ initial[b] \in Int /\ remaining[b] \in Int
    BY DEF RowTypes, TypeOK
<1> QED
    BY <1>1, <1>2, <1>3 DEF Net

\* A key keeps its batch, gets one that never had stock before, or loses one
\* that never had any.
BatchStep(b) ==
    \/ /\ product'[b] = product[b] /\ initial'[b] = initial[b]
       /\ status'[b] = "none" <=> status[b] = "none"
    \/ status[b] = "none" /\ status'[b] # "none" /\ initial[b] = 0 /\ initial'[b] > 0
    \/ status[b] # "none" /\ status'[b] = "none" /\ initial[b] = 0 /\ initial'[b] = 0

\* What an operation other than the change of day does to batches and returns.
LEMMA StepFacts ==
    ASSUME StockInv, RowsInv, Next, today' = today
    PROVE  /\ \A b \in Batches : BatchStep(b)
           /\ \A s \in Sales, b \in Batches :
                returned[s][b] # NoReturn => returned'[s][b] = returned[s][b]
<1> USE DEF StockInv
<1>0. ~NextDay
    BY DEF NextDay, TypeOK, Days
<1>1. ASSUME NEW b \in Batches, NEW rec \in Days, NEW exp \in Dates, NEW p \in Products, NEW q \in 1..MaxQty,
             ReceiveBatch(b, p, q, rec, exp)
      PROVE  (\A c \in Batches : BatchStep(c)) /\ UNCHANGED returned
  <2>1. /\ status[b] = "none" /\ status' = [status EXCEPT ![b] = "available"]
        /\ initial' = [initial EXCEPT ![b] = q] /\ product' = [product EXCEPT ![b] = p] /\ UNCHANGED returned
      BY <1>1 DEF ReceiveBatch, Exists, saleVars
  <2>2. q > 0 /\ initial[b] = 0
      BY <2>1 DEF RowsInv, NoRowNoStock
  <2> QED
      BY <2>1, <2>2 DEF BatchStep, TypeOK
<1>2. ASSUME NEW b \in Batches, NEW rec \in Days, NEW exp \in Dates, EditBatch(b, rec, exp)
      PROVE  (\A c \in Batches : BatchStep(c)) /\ UNCHANGED returned
    BY <1>2 DEF EditBatch, BatchStep, saleVars
<1>3. ASSUME NEW b \in Batches, DestroyBatch(b)
      PROVE  (\A c \in Batches : BatchStep(c)) /\ UNCHANGED returned
  <2>1. /\ UNCHANGED <<initial, product, returned>> /\ status' = [status EXCEPT ![b] = "none"]
        /\ ~(initial[b] > 0) /\ status[b] # "none"
      BY <1>3 DEF DestroyBatch, saleVars, Exists
  <2>2. initial[b] = 0
      BY <2>1 DEF TypeOK
  <2> QED
      BY <2>1, <2>2 DEF BatchStep, TypeOK
<1>4. ASSUME NEW s \in Sales, NEW cart \in [Products -> 0..MaxQty], Checkout(s, cart)
      PROVE  (\A c \in Batches : BatchStep(c)) /\ UNCHANGED returned
    BY <1>4 DEF Checkout, Deducts, Sellable, BatchStep
<1>5. ASSUME NEW s \in Sales, VoidTransaction(s)
      PROVE  /\ \A c \in Batches : BatchStep(c)
             /\ \A r \in Sales, b \in Batches : returned[r][b] # NoReturn => returned'[r][b] = returned[r][b]
  <2>1. /\ UNCHANGED <<product, initial>> /\ \A c \in Batches : status'[c] \in {status[c], "available"}
                                          /\ (status'[c] # status[c] => status[c] = "depleted")
      BY <1>5 DEF VoidTransaction
  <2>2. \A b \in Batches : returned[s][b] = NoReturn
      BY <1>5 DEF VoidTransaction, ReturnsMatchVoids
  <2>3. \A r \in Sales \ {s} : returned'[r] = returned[r]
      BY <1>5 DEF VoidTransaction, TypeOK
  <2> QED
      BY <2>1, <2>2, <2>3 DEF BatchStep
<1>6. ASSUME NEW b \in Batches, NEW type \in ADJUSTMENT_TYPES, NEW q \in (-MaxQty)..MaxQty,
             StockAdjustment(b, type, q)
      PROVE  (\A c \in Batches : BatchStep(c)) /\ UNCHANGED returned
  <2>1. /\ UNCHANGED <<product, initial, returned>> /\ status[b] # "none"
        /\ status' = [status EXCEPT ![b] = StatusAfterAdjustment(b, type, remaining[b] - q)]
        /\ StatusAfterAdjustment(b, type, remaining[b] - q) # "none"
      BY <1>6 DEF StockAdjustment, StatusAfterAdjustment, Exists, saleVars
  <2> QED
      BY <2>1 DEF BatchStep, TypeOK
<1> QED
    BY <1>0, <1>1, <1>2, <1>3, <1>4, <1>5, <1>6 DEF Next

\* DateRows: the rows of today grow by what the batch got short of.
LEMMA NetStep ==
    ASSUME StockInv, StockInv', Conservation, Conservation', RowTypes, RowTypes', DateRows,
           NEW b \in Batches,
           \A s \in Sales : returned[s][b] # NoReturn => returned'[s][b] = returned[s][b]
    PROVE  /\ \A d \in Days \ {today} : Net(b)'[d] = Net(b)[d]
           /\ Net(b)'[today] = Net(b)[today] + (initial'[b] - remaining'[b]) - (initial[b] - remaining[b])
<1> USE DEF StockInv
<1> DEFINE f == [s \in Sales |-> line[s][b]]
<1> DEFINE g == [s \in Sales |-> line'[s][b]]
<1> DEFINE z == [s \in Sales |-> 0]
<1> DEFINE h == [s \in Sales |-> line'[s][b] - line[s][b]]
<1> DEFINE v == [s \in Sales |-> returned[s][b]]
<1> DEFINE w == [s \in Sales |-> returned'[s][b]]
<1> DEFINE R == {s \in Sales : returned[s][b] # NoReturn}
<1> DEFINE N == {s \in Sales : returned[s][b] = NoReturn /\ returned'[s][b] # NoReturn}
<1> DEFINE Q == {s \in Sales : returned'[s][b] # NoReturn}
<1>1. IsFiniteSet(Sales) /\ IsFiniteSet(R) /\ IsFiniteSet(N)
  <2>1. IsFiniteSet(Sales) /\ R \in SUBSET Sales /\ N \in SUBSET Sales
      BY LedgerFacts
  <2> QED
      BY <2>1, FS_Subset
<1>2. /\ Sigma(f, Sales) = Taken(b) /\ Sigma(g, Sales) = Taken(b)'
      /\ Sigma(v, R) = Given(b) /\ Sigma(w, Q) = Given(b)'
    BY SumOverIsSigma DEF Taken, Given
<1>3. /\ issued'[b] = [issued[b] EXCEPT ![today] = issued[b][today] + Sigma(h, Sales)]
      /\ writtenOff'[b] = [writtenOff[b] EXCEPT ![today] = writtenOff[b][today] + adjusted'[b] - adjusted[b]]
      /\ credited'[b] = [credited[b] EXCEPT ![today] = credited[b][today] + Sigma(w, N)]
    BY SumOverIsSigma DEF DateRows
<1>4. \A s \in Sales : f[s] \in Int /\ g[s] \in Int /\ z[s] \in Int /\ z[s] = 0 /\ h[s] = g[s] + z[s] - f[s]
                       /\ v[s] \in Int /\ w[s] \in Int
  <2>1. ASSUME NEW s \in Sales PROVE line[s][b] \in Nat /\ line'[s][b] \in Nat
                                     /\ returned[s][b] \in Int /\ returned'[s][b] \in Int
      BY DEF TypeOK
  <2> QED
      BY <2>1
<1>5. Q = R \union N /\ R \intersect N = {} /\ (\A s \in R : v[s] = w[s]) /\ R \subseteq Sales /\ N \subseteq Sales
    OBVIOUS
<1> HIDE DEF f, g, z, h, v, w, R, N, Q
<1>6. Sigma(h, Sales) = Taken(b)' - Taken(b)
  <2>1. Sigma(h, Sales) = Sigma(g, Sales) + Sigma(z, Sales) - Sigma(f, Sales)
      BY <1>1, <1>4, SumLinear
  <2>2. Sigma(z, Sales) = 0 /\ Sigma(g, Sales) \in Int /\ Sigma(f, Sales) \in Int
      BY <1>1, <1>4, SumZero, SumInt
  <2> QED
      BY <1>2, <2>1, <2>2
<1>7. Sigma(w, N) = Given(b)' - Given(b)
  <2>1. Sigma(w, R \union N) = Sigma(w, R) + Sigma(w, N)
      BY <1>1, <1>4, <1>5, SumSplit
  <2>2. Sigma(v, R) = Sigma(w, R)
      BY <1>1, <1>5, SumSame
  <2>3. Sigma(w, R) \in Int /\ Sigma(w, N) \in Int
      BY <1>1, <1>4, <1>5, SumInt
  <2> QED
      BY <1>2, <1>5, <2>1, <2>2, <2>3
<1>8. /\ remaining[b] = initial[b] - Taken(b) + Given(b) - adjusted[b]
      /\ remaining'[b] = initial'[b] - Taken(b)' + Given(b)' - adjusted'[b]
    BY DEF Conservation, Taken, Given
<1>9. /\ remaining[b] \in Int /\ initial[b] \in Int /\ adjusted[b] \in Int /\ Taken(b) \in Int /\ Given(b) \in Int
      /\ remaining'[b] \in Int /\ initial'[b] \in Int /\ adjusted'[b] \in Int /\ Taken(b)' \in Int /\ Given(b)' \in Int
  <2>1. /\ remaining[b] \in Int /\ initial[b] \in Int /\ adjusted[b] \in Int
        /\ remaining'[b] \in Int /\ initial'[b] \in Int /\ adjusted'[b] \in Int
      BY DEF TypeOK
  <2>2. /\ Taken(b) \in Int /\ Given(b) \in Int
      BY TermsTyped
  <2>3. Sigma(g, Sales) \in Int /\ Sigma(w, Q) \in Int
    <3>1. IsFiniteSet(Q) /\ Q \subseteq Sales
        BY <1>1, <1>5, FS_Union
    <3> QED
        BY <1>1, <1>4, <3>1, SumInt
  <2> QED
      BY <1>2, <2>1, <2>2, <2>3
<1>10. /\ today \in Days
       /\ issued[b] \in [Days -> Int] /\ writtenOff[b] \in [Days -> Int] /\ credited[b] \in [Days -> Int]
    BY LedgerFacts DEF RowTypes
<1>11. \A d \in Days \ {today} : Net(b)'[d] = Net(b)[d]
    BY <1>3, <1>10 DEF Net
<1>12. /\ Net(b)[today] = issued[b][today] + writtenOff[b][today] - credited[b][today]
       /\ Net(b)'[today] = (issued[b][today] + Sigma(h, Sales)) + (writtenOff[b][today] + adjusted'[b] - adjusted[b])
                           - (credited[b][today] + Sigma(w, N))
    BY <1>3, <1>10 DEF Net
<1>13. issued[b][today] \in Int /\ writtenOff[b][today] \in Int /\ credited[b][today] \in Int
    BY <1>10
<1>14. Net(b)'[today] = Net(b)[today] + (initial'[b] - remaining'[b]) - (initial[b] - remaining[b])
    BY <1>6, <1>7, <1>8, <1>9, <1>12, <1>13
<1> QED
    BY <1>11, <1>14

\* The rows keep their types.
LEMMA RowTypesStep ==
    ASSUME StockInv, StockInv', RowTypes, DateRows, closing' = closing
    PROVE  RowTypes'
<1> USE DEF StockInv
<1>1. IsFiniteSet(Sales) /\ today \in Days
    BY LedgerFacts
<1>2. ASSUME NEW b \in Batches
      PROVE  SumOver([s \in Sales |-> line'[s][b] - line[s][b]], Sales) \in Int
  <2>1. \A s \in Sales : [r \in Sales |-> line'[r][b] - line[r][b]][s] \in Int
    <3>1. \A s \in Sales : line[s][b] \in Nat /\ line'[s][b] \in Nat
        BY DEF TypeOK
    <3> QED
        BY <3>1
  <2> QED
      BY <1>1, <2>1, SumInt, SumOverIsSigma
<1>3. ASSUME NEW b \in Batches
      PROVE  SumOver([s \in Sales |-> returned'[s][b]],
                     {s \in Sales : returned[s][b] = NoReturn /\ returned'[s][b] # NoReturn}) \in Int
  <2> DEFINE N == {s \in Sales : returned[s][b] = NoReturn /\ returned'[s][b] # NoReturn}
  <2>1. N \in SUBSET Sales /\ \A s \in N : [r \in Sales |-> returned'[r][b]][s] \in Int
      BY DEF TypeOK
  <2>2. IsFiniteSet(N)
      BY <1>1, <2>1, FS_Subset
  <2> HIDE DEF N
  <2>3. Sigma([r \in Sales |-> returned'[r][b]], N) \in Int
      BY <2>1, <2>2, SumInt
  <2> QED
      BY <2>3, SumOverIsSigma DEF N
<1> DEFINE sold(b) == SumOver([s \in Sales |-> line'[s][b] - line[s][b]], Sales)
<1> DEFINE back(b) == SumOver([s \in Sales |-> returned'[s][b]],
                     {s \in Sales : returned[s][b] = NoReturn /\ returned'[s][b] # NoReturn})
<1>4. /\ issued' = [b \in Batches |-> [issued[b] EXCEPT ![today] = @ + sold(b)]]
      /\ credited' = [b \in Batches |-> [credited[b] EXCEPT ![today] = @ + back(b)]]
    BY DEF DateRows
<1>5. \A b \in Batches : sold(b) \in Int /\ back(b) \in Int
    BY <1>2, <1>3
<1> HIDE DEF sold, back
<1>6. issued' \in [Batches -> [Days -> Int]]
    BY <1>1, <1>4, <1>5 DEF RowTypes
<1>7. writtenOff' \in [Batches -> [Days -> Int]]
  <2>1. \A b \in Batches : adjusted[b] \in Int /\ adjusted'[b] \in Int
      BY DEF TypeOK
  <2> QED
      BY <1>1, <2>1 DEF DateRows, RowTypes
<1>8. credited' \in [Batches -> [Days -> Int]]
    BY <1>1, <1>4, <1>5 DEF RowTypes
<1>9. created' \in [Batches -> Days]
    BY <1>1 DEF DateRows, RowTypes
<1> QED
    BY <1>6, <1>7, <1>8, <1>9 DEF RowTypes

\* The rows of the past days are those of then.
LEMMA ShareStands ==
    ASSUME StockInv, RowTypes, MovedWhileThere, NEW b \in Batches, BatchStep(b),
           created'[b] = IF status[b] = "none" /\ status'[b] # "none" THEN today ELSE created[b],
           \A d \in Days \ {today} : Net(b)'[d] = Net(b)[d],
           NEW p \in Products, NEW d \in Days, d < today
    PROVE  Share(p, d)'[b] = Share(p, d)[b]
<1> USE DEF StockInv
<1>1. /\ IsFiniteSet(Days) /\ Days \subseteq Nat /\ today \in Days /\ initial[b] \in Int
      /\ created[b] \in Days /\ \A e \in Days : Net(b)[e] \in Int
    BY LedgerFacts
<1>2. IsFiniteSet(UpTo(d)) /\ UpTo(d) \subseteq Days \ {today}
  <2>1. UpTo(d) \in SUBSET Days
      BY DEF UpTo
  <2>2. today \notin UpTo(d)
      BY <1>1 DEF UpTo
  <2> QED
      BY <1>1, <2>1, <2>2, FS_Subset
<1>3. /\ Share(p, d)[b] = IF product[b] = p /\ status[b] # "none" /\ created[b] <= d THEN Balance(b, d) ELSE 0
      /\ Share(p, d)'[b] = IF product'[b] = p /\ status'[b] # "none" /\ created'[b] <= d THEN Balance(b, d)' ELSE 0
    BY DEF Share, Exists
<1>4. CASE product'[b] = product[b] /\ initial'[b] = initial[b] /\ (status'[b] = "none" <=> status[b] = "none")
  <2>1. Sigma(Net(b)', UpTo(d)) = Sigma(Net(b), UpTo(d))
      BY <1>2, SumSame
  <2>2. Balance(b, d)' = Balance(b, d)
      BY <1>4, <2>1 DEF Balance, UpTo
  <2> QED
      BY <1>3, <1>4, <2>2
<1>5. CASE status[b] = "none" /\ status'[b] # "none"
    BY <1>1, <1>3, <1>5
<1>6. CASE status[b] # "none" /\ status'[b] = "none" /\ initial[b] = 0
  <2>1. \A e \in UpTo(d) : Net(b)[e] = 0
      BY <1>2, <1>6 DEF MovedWhileThere
  <2>2. Balance(b, d) = 0
      BY <1>2, <1>6, <2>1, SumZero DEF Balance
  <2> QED
      BY <1>3, <1>6, <2>2
<1> QED
    BY <1>4, <1>5, <1>6 DEF BatchStep

\* An operation of the day keeps the invariant.
LEMMA OperationMoves ==
    ASSUME LedgerInv, StockInv', RowsInv', Conservation', Next, today' = today, DateRows, closing' = closing
    PROVE  MovementInv'
<1> USE DEF StockInv
<1>0. StockInv /\ RowsInv /\ Conservation /\ RowTypes /\ CreatedByNow /\ MovedWhileThere /\ NetIsUsed /\ ClosingKept
    BY DEF LedgerInv, MovementInv
<1>1. RowTypes'
    BY <1>0, RowTypesStep
<1>2. \A b \in Batches : BatchStep(b) /\ created'[b] = IF status[b] = "none" /\ status'[b] # "none" THEN today ELSE created[b]
    BY <1>0, StepFacts DEF DateRows, Exists
<1>3. ASSUME NEW b \in Batches
      PROVE  /\ \A d \in Days \ {today} : Net(b)'[d] = Net(b)[d]
             /\ Net(b)'[today] = Net(b)[today] + (initial'[b] - remaining'[b]) - (initial[b] - remaining[b])
  <2>1. \A s \in Sales : returned[s][b] # NoReturn => returned'[s][b] = returned[s][b]
      BY <1>0, StepFacts
  <2> QED
      BY <1>0, <1>1, <2>1, NetStep
<1>4. IsFiniteSet(Days) /\ Days \subseteq Nat /\ today \in Days /\ IsFiniteSet(Batches)
    BY <1>0, LedgerFacts
<1>5. ASSUME NEW b \in Batches
      PROVE  /\ \A d \in Days : Net(b)[d] \in Int /\ Net(b)'[d] \in Int
             /\ remaining[b] \in Int /\ initial[b] \in Int /\ remaining'[b] \in Int /\ initial'[b] \in Int
             /\ 0 <= remaining[b] /\ remaining[b] <= initial[b] /\ 0 <= remaining'[b] /\ remaining'[b] <= initial'[b]
             /\ created[b] \in Days
  <2>1. (\A d \in Days : Net(b)[d] \in Int) /\ created[b] \in Days
      BY <1>0, <1>4, LedgerFacts
  <2>2. \A d \in Days : Net(b)'[d] \in Int
    <3>1. \A d \in Days : issued'[b][d] \in Int /\ writtenOff'[b][d] \in Int /\ credited'[b][d] \in Int
        BY <1>1 DEF RowTypes
    <3> QED
        BY <3>1 DEF Net
  <2>3. /\ remaining[b] \in Int /\ initial[b] \in Int /\ remaining'[b] \in Int /\ initial'[b] \in Int
        /\ 0 <= remaining[b] /\ remaining[b] <= initial[b] /\ 0 <= remaining'[b] /\ remaining'[b] <= initial'[b]
      BY <1>0 DEF TypeOK, StockWithinReceipt
  <2> QED
      BY <2>1, <2>2, <2>3
<1>6. CreatedByNow'
    BY <1>0, <1>2, <1>4 DEF CreatedByNow
<1>7. MovedWhileThere'
  <2> SUFFICES ASSUME NEW b \in Batches, NEW d \in Days, Net(b)'[d] # 0
               PROVE  created'[b] <= d /\ d <= today /\ initial'[b] # 0
      BY DEF MovedWhileThere
  <2>1. CASE d # today
    <3>1. created[b] <= d /\ d <= today /\ initial[b] # 0
        BY <1>0, <1>3, <2>1 DEF MovedWhileThere
    <3> QED
        BY <1>2, <3>1 DEF BatchStep
  <2>2. CASE d = today
    <3>1. created'[b] <= today /\ today <= today
        BY <1>4, <1>6 DEF CreatedByNow
    <3>2. ASSUME initial'[b] = 0 PROVE FALSE
      <4>1. initial[b] = 0
          BY <1>2, <1>5, <3>2 DEF BatchStep
      <4>2. remaining[b] = 0 /\ remaining'[b] = 0
          BY <1>5, <3>2, <4>1
      <4>3. Net(b)'[today] = Net(b)[today]
          BY <1>3, <1>4, <1>5, <3>2, <4>1, <4>2
      <4> QED
          BY <1>0, <1>4, <2>2, <4>1, <4>3 DEF MovedWhileThere
    <3> QED
        BY <2>2, <3>1, <3>2
  <2> QED
      BY <2>1, <2>2
<1>8. NetIsUsed'
  <2> SUFFICES ASSUME NEW b \in Batches PROVE Sigma(Net(b)', Days) = initial'[b] - remaining'[b]
      BY DEF NetIsUsed
  <2>1. Sigma(Net(b)', Days) = Sigma(Net(b), Days) + Net(b)'[today] - Net(b)[today]
      BY <1>3, <1>4, <1>5, SumChange
  <2>2. Sigma(Net(b), Days) = initial[b] - remaining[b]
      BY <1>0 DEF NetIsUsed
  <2>3. Net(b)[today] \in Int /\ Net(b)'[today] \in Int
      BY <1>4, <1>5
  <2>4. Net(b)'[today] = Net(b)[today] + (initial'[b] - remaining'[b]) - (initial[b] - remaining[b])
      BY <1>3
  <2> QED
      BY <1>5, <2>1, <2>2, <2>3, <2>4
<1>9. ClosingKept'
  <2> SUFFICES ASSUME NEW d \in Days, NEW p \in Products, d < today
               PROVE  closing[d][p] = Sigma(Share(p, d)', Batches)
      BY DEF ClosingKept
  <2>1. \A b \in Batches : Share(p, d)[b] = Share(p, d)'[b]
      BY <1>0, <1>2, <1>3, ShareStands
  <2>2. Sigma(Share(p, d), Batches) = Sigma(Share(p, d)', Batches)
      BY <1>4, <2>1, SumSame
  <2> QED
      BY <1>0, <2>2 DEF ClosingKept
<1> QED
    BY <1>1, <1>6, <1>7, <1>8, <1>9 DEF MovementInv

\* The rows up to today give the stock of today.
LEMMA BalanceNow ==
    ASSUME LedgerInv, NEW b \in Batches
    PROVE  Balance(b, today) = remaining[b]
<1>0. TypeOK /\ RowTypes /\ MovedWhileThere /\ NetIsUsed
    BY DEF LedgerInv, MovementInv, StockInv
<1>1. IsFiniteSet(Days) /\ Days \subseteq Nat /\ today \in Days
      /\ (\A d \in Days : Net(b)[d] \in Int) /\ initial[b] \in Int /\ remaining[b] \in Int
    BY <1>0, LedgerFacts
<1>2. UpTo(today) \in SUBSET Days /\ \A d \in Days \ UpTo(today) : Net(b)[d] = 0
    BY <1>0 DEF UpTo, MovedWhileThere
<1>3. Sigma(Net(b), Days) = Sigma(Net(b), UpTo(today))
    BY <1>1, <1>2, SumFilter
<1>4. Sigma(Net(b), Days) = initial[b] - remaining[b]
    BY <1>0 DEF NetIsUsed
<1> QED
    BY <1>1, <1>3, <1>4 DEF Balance

\* They give the stock on hand of a product.
LEMMA OnHandIsShare ==
    ASSUME LedgerInv, NEW p \in Products
    PROVE  OnHand(p) = Sigma(Share(p, today), Batches)
<1>0. TypeOK /\ RowTypes /\ CreatedByNow
    BY DEF LedgerInv, MovementInv, StockInv
<1> DEFINE T == {b \in Batches : product[b] = p /\ Exists(b)}
<1>1. IsFiniteSet(Batches) /\ \A b \in Batches : remaining[b] \in Int
  <2>1. IsFiniteSet(Batches)
      BY <1>0, LedgerFacts
  <2> QED
      BY <1>0, <2>1 DEF TypeOK
<1>2. /\ T \in SUBSET Batches
      /\ \A b \in T : Share(p, today)[b] = remaining[b]
      /\ \A b \in Batches \ T : Share(p, today)[b] = 0
    BY <1>0, BalanceNow DEF Share, CreatedByNow
<1>3. OnHand(p) = Sigma(remaining, T)
    BY SumOverIsSigma DEF OnHand
<1> HIDE DEF T
<1>4. Sigma(Share(p, today), Batches) = Sigma(remaining, T)
    BY <1>1, <1>2, SumFilter
<1> QED
    BY <1>3, <1>4

\* The change of day keeps the invariant: the stock of the day is on record.
LEMMA DayMoves ==
    ASSUME LedgerInv, StockInv', NextDay, UNCHANGED rowVars,
           closing' = [closing EXCEPT ![today] = [p \in Products |-> OnHand(p)]]
    PROVE  MovementInv'
<1> USE DEF StockInv
<1>0. TypeOK /\ RowTypes /\ CreatedByNow /\ MovedWhileThere /\ NetIsUsed /\ ClosingKept
    BY DEF LedgerInv, MovementInv
<1>1. /\ today' = today + 1
      /\ UNCHANGED <<product, initial, remaining, status, created, issued, writtenOff, credited>>
    BY DEF NextDay, batchVars, rowVars
<1>2. Days \subseteq Nat /\ today \in Days /\ today \in Nat /\ \A b \in Batches : created[b] \in Nat
  <2>1. Days \subseteq Nat /\ today \in Days
      BY <1>0, LedgerFacts
  <2> QED
      BY <1>0, <2>1 DEF RowTypes
<1>3. RowTypes'
    BY <1>0, <1>1 DEF RowTypes
<1>4. CreatedByNow'
    BY <1>0, <1>1, <1>2 DEF CreatedByNow
<1>5. \A b \in Batches : Net(b)' = Net(b)
    BY <1>1 DEF Net
<1>6. MovedWhileThere'
    BY <1>0, <1>1, <1>2, <1>5 DEF MovedWhileThere
<1>7. NetIsUsed'
    BY <1>0, <1>1, <1>5 DEF NetIsUsed
<1>8. ClosingKept'
  <2> SUFFICES ASSUME NEW d \in Days, NEW p \in Products, d < today'
               PROVE  closing'[d][p] = Sigma(Share(p, d)', Batches)
      BY DEF ClosingKept
  <2>1. Share(p, d)' = Share(p, d)
      BY <1>1, <1>5 DEF Share, Balance, UpTo, Exists
  <2>2. CASE d = today
    <3>1. closing'[d][p] = OnHand(p)
        BY <1>0, <2>2 DEF RowTypes
    <3> QED
        BY <2>1, <2>2, <3>1, OnHandIsShare
  <2>3. CASE d # today
    <3>1. closing'[d] = closing[d]
        BY <1>0, <2>3 DEF RowTypes
    <3>2. d < today
      <4>1. d \in Nat /\ today \in Nat
          BY <1>2
      <4> QED
          BY <1>1, <2>3, <4>1
    <3> QED
        BY <1>0, <2>1, <3>1, <3>2 DEF ClosingKept
  <2> QED
      BY <2>2, <2>3
<1> QED
    BY <1>3, <1>4, <1>6, <1>7, <1>8 DEF MovementInv

\* No rows yet.
LEMMA InitMoves == LedgerInit => LedgerInv
<1> SUFFICES ASSUME LedgerInit PROVE LedgerInv
    OBVIOUS
<1>1. StockInv /\ RowsInv /\ Conservation
    BY InitStockInv, InitRows DEF LedgerInit
<1>2. today = 0 /\ today \in Days /\ Days \subseteq Nat
    BY BoundsAssumption DEF LedgerInit, Init, Days
<1>3. RowTypes /\ CreatedByNow
    BY <1>2 DEF LedgerInit, RowTypes, CreatedByNow
<1>4. \A b \in Batches, d \in Days : Net(b)[d] = 0
    BY DEF LedgerInit, Net
<1>5. MovedWhileThere
    BY <1>4 DEF MovedWhileThere
<1>6. NetIsUsed
  <2> SUFFICES ASSUME NEW b \in Batches PROVE Sigma(Net(b), Days) = initial[b] - remaining[b]
      BY DEF NetIsUsed
  <2>1. IsFiniteSet(Days)
      BY <1>1, <1>3, LedgerFacts DEF StockInv
  <2>2. Sigma(Net(b), Days) = 0
      BY <1>4, <2>1, SumZero
  <2>3. initial[b] = remaining[b] /\ initial[b] \in Int
      BY <1>1 DEF LedgerInit, Init, StockInv, TypeOK
  <2> QED
      BY <2>2, <2>3
<1>7. ClosingKept
    BY <1>2 DEF ClosingKept
<1> QED
    BY <1>1, <1>3, <1>5, <1>6, <1>7 DEF LedgerInv, MovementInv

\* Every step of the inventory with its dated rows keeps the invariant.
LEMMA NextMoves == LedgerInv /\ [LedgerNext]_ledgerVars => LedgerInv'
<1> SUFFICES ASSUME LedgerInv, [LedgerNext]_ledgerVars PROVE LedgerInv'
    OBVIOUS
<1>0. StockInv /\ RowsInv /\ Conservation /\ MovementInv
    BY DEF LedgerInv
<1>1. [Next]_vars
    BY DEF LedgerNext, Next, ledgerVars
<1>2. StockInv' /\ RowsInv' /\ Conservation'
  <2>1. StockInv'
      BY <1>0, <1>1, NextStockInv
  <2> QED
      BY <1>0, <1>1, <2>1, NextRows
<1>3. MovementInv'
  <2>1. CASE Next /\ today' = today /\ DateRows /\ closing' = closing
      BY <1>2, <2>1, OperationMoves
  <2>2. CASE NextDay /\ UNCHANGED rowVars /\ closing' = [closing EXCEPT ![today] = [p \in Products |-> OnHand(p)]]
      BY <1>2, <2>2, DayMoves
  <2>3. CASE UNCHANGED ledgerVars
    <3>1. UNCHANGED <<today, product, initial, remaining, status, created, issued, writtenOff, credited, closing>>
        BY <2>3 DEF ledgerVars, vars, batchVars, rowVars
    <3>2. \A b \in Batches : Net(b)' = Net(b)
        BY <3>1 DEF Net
    <3>3. \A p \in Products, d \in Days : Share(p, d)' = Share(p, d)
        BY <3>1, <3>2 DEF Share, Balance, UpTo, Exists
    <3>4. RowTypes' /\ CreatedByNow' /\ MovedWhileThere' /\ NetIsUsed'
        BY <1>0, <3>1, <3>2 DEF MovementInv, RowTypes, CreatedByNow, MovedWhileThere, NetIsUsed
    <3>5. ClosingKept'
        BY <1>0, <3>1, <3>3 DEF MovementInv, ClosingKept
    <3> QED
        BY <3>4, <3>5 DEF MovementInv
  <2> QED
      BY <2>1, <2>2, <2>3 DEF LedgerNext
<1> QED
    BY <1>2, <1>3 DEF LedgerInv

-----------------------------------------------------------------------------
\* The three sums of the report over days D are the net movements on them.
LEMMA DeductionsAreNet ==
    ASSUME LedgerInv, NEW B \in SUBSET Batches, NEW D \in SUBSET Days
    PROVE  /\ Deductions(B, D) = Sigma([b \in B |-> Sigma(Net(b), D)], B)
           /\ \A b \in B : Sigma(Net(b), D) \in Int
           /\ IsFiniteSet(B) /\ IsFiniteSet(D)
<1>0. TypeOK /\ RowTypes
    BY DEF LedgerInv, MovementInv, StockInv
<1>1. IsFiniteSet(B) /\ IsFiniteSet(D)
  <2>1. IsFiniteSet(Batches) /\ IsFiniteSet(Days)
      BY <1>0, LedgerFacts
  <2> QED
      BY <2>1, FS_Subset
<1>2. ASSUME NEW b \in B
      PROVE  /\ Sigma(Net(b), D) = SumOver(issued[b], D) + SumOver(writtenOff[b], D) - SumOver(credited[b], D)
             /\ Sigma(Net(b), D) \in Int
  <2>1. \A d \in D : /\ issued[b][d] \in Int /\ writtenOff[b][d] \in Int /\ credited[b][d] \in Int
                     /\ Net(b)[d] = issued[b][d] + writtenOff[b][d] - credited[b][d] /\ Net(b)[d] \in Int
      BY <1>0, LedgerFacts
  <2>2. Sigma(Net(b), D) = Sigma(issued[b], D) + Sigma(writtenOff[b], D) - Sigma(credited[b], D)
      BY <1>1, <2>1, SumLinear
  <2> QED
      BY <1>1, <2>1, <2>2, SumInt, SumOverIsSigma
<1>3. [b \in B |-> SumOver(issued[b], D) + SumOver(writtenOff[b], D) - SumOver(credited[b], D)]
        = [b \in B |-> Sigma(Net(b), D)]
    BY <1>2
<1> QED
    BY <1>1, <1>2, <1>3, SumOverIsSigma DEF Deductions

\* Where receipt dates were kept, the batches of a report are those of its end.
LEMMA ReportBatchesAre ==
    ASSUME LedgerInv, NEW p \in Products, NEW end \in Days, ReceiptDatesKept(p)
    PROVE  ReportBatches(p, end, TRUE) = {b \in Batches : product[b] = p /\ Exists(b) /\ created[b] <= end}
<1>0. TypeOK /\ RowTypes /\ Days \subseteq Nat
    BY LedgerFacts DEF LedgerInv, MovementInv, StockInv
<1>1. \A b \in Batches : received[b] \in Nat /\ created[b] \in Nat /\ end \in Nat
    BY <1>0 DEF TypeOK, RowTypes
<1>2. \A b \in Batches : product[b] = p /\ Exists(b) /\ created[b] <= end => received[b] <= end
    BY <1>1 DEF ReceiptDatesKept
<1> QED
    BY <1>2 DEF ReportBatches

\* Undoing the rows after a day gives the balance of the day, batch by batch.
LEMMA EndingIsShare ==
    ASSUME LedgerInv, NEW p \in Products, NEW end \in Days, ReceiptDatesKept(p)
    PROVE  ReportEnding(p, end, TRUE) = Sigma(Share(p, end), Batches)
<1>0. TypeOK /\ RowTypes /\ NetIsUsed
    BY DEF LedgerInv, MovementInv, StockInv
<1> DEFINE B == {b \in Batches : product[b] = p /\ Exists(b) /\ created[b] <= end}
<1> DEFINE D == {d \in Days : d > end}
<1> DEFINE g == [b \in B |-> Sigma(Net(b), D)]
<1> DEFINE h == [b \in B |-> Balance(b, end)]
<1> DEFINE z == [b \in B |-> 0]
<1>1. ReportEnding(p, end, TRUE) = Sigma(remaining, B) + Deductions(B, D)
    BY ReportBatchesAre, SumOverIsSigma DEF ReportEnding
<1>2. Deductions(B, D) = Sigma(g, B) /\ IsFiniteSet(B) /\ IsFiniteSet(D)
    BY DeductionsAreNet
<1>3. IsFiniteSet(Batches) /\ IsFiniteSet(Days) /\ Days \subseteq Nat
    BY <1>0, LedgerFacts
<1>4. ASSUME NEW b \in B
      PROVE  /\ remaining[b] \in Int /\ g[b] \in Int /\ z[b] = 0
             /\ h[b] = remaining[b] + g[b] - z[b]
             /\ Share(p, end)[b] = h[b] /\ h[b] \in Int
  <2>1. remaining[b] \in Int /\ initial[b] \in Int /\ \A d \in Days : Net(b)[d] \in Int
      BY <1>0, <1>3, LedgerFacts
  <2>2. Sigma(Net(b), Days) = initial[b] - remaining[b]
      BY <1>0 DEF NetIsUsed
  <2>3. Days = UpTo(end) \union D /\ UpTo(end) \intersect D = {} /\ UpTo(end) \in SUBSET Days
    <3>1. \A d \in Days : d <= end <=> ~(d > end)
        BY <1>3
    <3> QED
        BY <3>1 DEF UpTo
  <2>4. IsFiniteSet(UpTo(end))
      BY <1>3, <2>3, FS_Subset
  <2> HIDE DEF D
  <2>5. Sigma(Net(b), UpTo(end) \union D) = Sigma(Net(b), UpTo(end)) + Sigma(Net(b), D)
      BY <1>2, <2>1, <2>3, <2>4, SumSplit
  <2>6. Sigma(Net(b), UpTo(end)) \in Int /\ Sigma(Net(b), D) \in Int
      BY <1>2, <2>1, <2>3, <2>4, SumInt
  <2>7. Sigma(Net(b), Days) = Sigma(Net(b), UpTo(end)) + Sigma(Net(b), D)
      BY <2>3, <2>5
  <2>8. Balance(b, end) = remaining[b] + Sigma(Net(b), D) /\ Balance(b, end) \in Int
      BY <2>1, <2>2, <2>6, <2>7 DEF Balance
  <2> QED
      BY <2>1, <2>6, <2>8 DEF Share
<1>5. \A b \in Batches \ B : Share(p, end)[b] = 0
    BY DEF Share
<1>6. B \in SUBSET Batches
    OBVIOUS
<1> HIDE DEF B, D, g, h, z
<1>7. Sigma(h, B) = Sigma(remaining, B) + Sigma(g, B) - Sigma(z, B)
    BY <1>2, <1>4, SumLinear
<1>8. Sigma(z, B) = 0 /\ Sigma(g, B) \in Int /\ Sigma(remaining, B) \in Int
    BY <1>2, <1>4, SumZero, SumInt
<1>9. Sigma(Share(p, end), Batches) = Sigma(h, B)
    BY <1>3, <1>4, <1>5, <1>6, SumFilter
<1>10. Sigma(h, B) = Sigma(remaining, B) + Sigma(g, B)
    BY <1>7, <1>8
<1> QED
    BY <1>1, <1>2, <1>9, <1>10

\* ... and undoing the rows and the deliveries of a range gives its opening.
LEMMA BeginningIsShare ==
    ASSUME LedgerInv, NEW p \in Products, NEW start \in Days, NEW end \in Days, ReceiptDatesKept(p),
           start <= end, start > 0
    PROVE  ReportBeginning(p, start, end, TRUE) = Sigma(Share(p, start - 1), Batches)
<1>0. TypeOK /\ RowTypes /\ MovedWhileThere
    BY DEF LedgerInv, MovementInv, StockInv
<1> DEFINE B == {b \in Batches : product[b] = p /\ Exists(b) /\ created[b] <= end}
<1> DEFINE D == start..end
<1> DEFINE R == {b \in B : created[b] \in D}
<1> DEFINE f == Share(p, end)
<1> DEFINE g == [b \in Batches |-> IF b \in B THEN Sigma(Net(b), D) ELSE 0]
<1> DEFINE k == [b \in Batches |-> IF b \in R THEN initial[b] ELSE 0]
<1> DEFINE h == Share(p, start - 1)
<1>1. IsFiniteSet(Batches) /\ IsFiniteSet(Days) /\ Days \subseteq Nat
    BY <1>0, LedgerFacts
<1>2. D \in SUBSET Days /\ start - 1 \in Days
    BY BoundsAssumption DEF Days
<1>3. B \in SUBSET Batches /\ R \in SUBSET Batches /\ R \subseteq B
    OBVIOUS
<1>4. ReportBatches(p, end, TRUE) = B
    BY ReportBatchesAre
<1>5. ReportReceived(p, start, end, TRUE) = Sigma(initial, R)
  <2>1. \A b \in B : ReceivedOn(b, TRUE) = created[b]
    <3>1. \A b \in B : received[b] \in Nat /\ created[b] \in Nat
        BY <1>0, <1>1 DEF TypeOK, RowTypes
    <3> QED
        BY <3>1 DEF ReceivedOn, ReceiptDatesKept
  <2>2. {b \in ReportBatches(p, end, TRUE) : ReceivedOn(b, TRUE) \in start..end} = R
      BY <1>4, <2>1
  <2> QED
      BY <2>2, SumOverIsSigma DEF ReportReceived
<1>6. Deductions(B, D) = Sigma([b \in B |-> Sigma(Net(b), D)], B) /\ IsFiniteSet(B) /\ IsFiniteSet(D)
      /\ \A b \in B : Sigma(Net(b), D) \in Int
    BY <1>2, <1>3, DeductionsAreNet
<1>7. ReportBeginning(p, start, end, TRUE) = Sigma(f, Batches) + Deductions(B, D) - Sigma(initial, R)
    BY <1>4, <1>5, EndingIsShare DEF ReportBeginning
<1>8. ASSUME NEW b \in Batches
      PROVE  f[b] \in Int /\ g[b] \in Int /\ k[b] \in Int /\ h[b] = f[b] + g[b] - k[b]
  <2>1. /\ initial[b] \in Int /\ created[b] \in Nat /\ \A d \in Days : Net(b)[d] \in Int
      BY <1>0, <1>1, <1>2, LedgerFacts
  <2>2. /\ UpTo(end) = UpTo(start - 1) \union D /\ UpTo(start - 1) \intersect D = {}
        /\ UpTo(start - 1) \in SUBSET Days
    <3>1. start \in Nat /\ end \in Nat /\ \A d \in Days : d \in Nat
        BY <1>1
    <3>2. \A d \in Days : d <= end <=> (d <= start - 1 \/ d \in D)
        BY <3>1
    <3>3. \A d \in Days : ~(d <= start - 1 /\ d \in D)
        BY <3>1
    <3> QED
        BY <1>2, <3>2, <3>3 DEF UpTo
  <2>3. IsFiniteSet(UpTo(start - 1))
      BY <1>1, <2>2, FS_Subset
  <2> DEFINE U == UpTo(start - 1)
  <2>4. Sigma(Net(b), U) \in Int /\ Sigma(Net(b), D) \in Int
    <3> HIDE DEF U, D
    <3> QED
        BY <1>2, <1>6, <2>1, <2>2, <2>3, SumInt DEF U
  <2>5. Sigma(Net(b), UpTo(end)) = Sigma(Net(b), U) + Sigma(Net(b), D)
    <3> HIDE DEF D
    <3>1. Sigma(Net(b), U \union D) = Sigma(Net(b), U) + Sigma(Net(b), D)
      <4>1. IsFiniteSet(U) /\ U \intersect D = {} /\ \A d \in U \union D : Net(b)[d] \in Int
          BY <1>2, <2>1, <2>2, <2>3
      <4> HIDE DEF U
      <4> QED
          BY <1>6, <4>1, SumSplit
    <3> QED
        BY <2>2, <3>1
  <2>6. Balance(b, end) = initial[b] - (Sigma(Net(b), U) + Sigma(Net(b), D))
        /\ Balance(b, start - 1) = initial[b] - Sigma(Net(b), U)
      BY <2>5 DEF Balance
  <2>7. /\ f[b] = IF b \in B THEN Balance(b, end) ELSE 0
        /\ h[b] = IF b \in B /\ created[b] <= start - 1 THEN Balance(b, start - 1) ELSE 0
    <3>1. created[b] <= start - 1 => created[b] <= end
        BY <1>1, <2>1
    <3> QED
        BY <3>1 DEF Share
  <2>8. g[b] = (IF b \in B THEN Sigma(Net(b), D) ELSE 0) /\ k[b] = (IF b \in R THEN initial[b] ELSE 0)
      OBVIOUS
  <2>9. b \in B => (b \in R <=> ~(created[b] <= start - 1))
      BY <1>1, <2>1
  <2>10. ASSUME b \in R PROVE Sigma(Net(b), U) = 0
    <3>1. \A d \in U : Net(b)[d] = 0
      <4>1. \A d \in U : d \in Days /\ ~(created[b] <= d)
        <5>1. \A d \in U : d \in Nat /\ d <= start - 1 /\ d \in Days
            BY <1>1 DEF UpTo
        <5>2. created[b] >= start /\ start \in Nat
            BY <1>1, <2>10
        <5> QED
            BY <2>1, <5>1, <5>2
      <4> QED
          BY <1>0, <4>1 DEF MovedWhileThere
    <3> QED
        BY <2>3, <3>1, SumZero
  <2> HIDE DEF f, g, k, h, B, D, R, U
  <2>11. CASE b \notin B
      BY <1>3, <2>7, <2>8, <2>11
  <2>12. CASE b \in B /\ b \in R
      BY <2>1, <2>4, <2>6, <2>7, <2>8, <2>9, <2>10, <2>12
  <2>13. CASE b \in B /\ b \notin R
      BY <2>1, <2>4, <2>6, <2>7, <2>8, <2>9, <2>13
  <2> QED
      BY <2>11, <2>12, <2>13
<1>9. Sigma(g, Batches) = Deductions(B, D)
  <2> DEFINE e == [b \in B |-> Sigma(Net(b), D)]
  <2>1. (\A b \in B : e[b] \in Int /\ g[b] = e[b]) /\ \A b \in Batches \ B : g[b] = 0
      BY <1>6
  <2> HIDE DEF e, g, B
  <2>2. Sigma(g, Batches) = Sigma(e, B)
      BY <1>1, <1>3, <2>1, SumFilter
  <2> QED
      BY <1>6, <2>2 DEF e
<1>10. Sigma(k, Batches) = Sigma(initial, R)
  <2>1. (\A b \in R : initial[b] \in Int /\ k[b] = initial[b]) /\ \A b \in Batches \ R : k[b] = 0
      BY <1>0, <1>3 DEF TypeOK
  <2> HIDE DEF k, R
  <2> QED
      BY <1>1, <1>3, <2>1, SumFilter
<1> HIDE DEF f, g, k, h, B, D, R
<1>11. Sigma(h, Batches) = Sigma(f, Batches) + Sigma(g, Batches) - Sigma(k, Batches)
    BY <1>1, <1>8, SumLinear
<1> QED
    BY <1>7, <1>9, <1>10, <1>11 DEF h

\* inventory_ledger: a report of any past range, generated at any later time,
\* shows the true opening and closing stock, for every catalogue and calendar.
THEOREM ReportsReconstructThePast == LedgerSpec => []RangeReportReconstructs
<1>1. LedgerInv => RangeReportReconstructs
  <2> SUFFICES ASSUME LedgerInv, NEW p \in Products, NEW start \in Days, NEW end \in Days,
                      ReceiptDatesKept(p), start <= end, end <= today
               PROVE  /\ ReportEnding(p, end, TRUE) = ClosingStock(p, end)
                      /\ start > 0 => ReportBeginning(p, start, end, TRUE) = closing[start - 1][p]
      BY DEF RangeReportReconstructs
  <2>0. ClosingKept /\ Days \subseteq Nat /\ today \in Days
      BY LedgerFacts DEF LedgerInv, MovementInv, StockInv
  <2>1. ReportEnding(p, end, TRUE) = ClosingStock(p, end)
    <3>1. CASE end = today
        BY <3>1, EndingIsShare, OnHandIsShare DEF ClosingStock
    <3>2. CASE end # today
      <4>1. end < today
          BY <2>0, <3>2
      <4> QED
          BY <2>0, <3>2, <4>1, EndingIsShare DEF ClosingStock, ClosingKept
    <3> QED
        BY <3>1, <3>2
  <2>2. ASSUME start > 0 PROVE ReportBeginning(p, start, end, TRUE) = closing[start - 1][p]
    <3>1. start - 1 \in Days /\ start - 1 < today
        BY <2>0, <2>2, BoundsAssumption DEF Days
    <3> QED
        BY <2>0, <2>2, <3>1, BeginningIsShare DEF ClosingKept
  <2> QED
      BY <2>1, <2>2
<1> QED
    BY <1>1, InitMoves, NextMoves, PTL DEF LedgerSpec

-----------------------------------------------------------------------------
(***************************************************************************)
(* For every set of submissions and attempts: a request ID takes effect    *)
(* once, and the protocol of locks, lookups and rollbacks implements the   *)
(* atomic service.                                                         *)
(*                                                                         *)
(* Committed sales differ in their ID because the commit checks it; that   *)
(* the answers tell the truth needs more.  A submission that found no use  *)
(* of its ID must still find none when its rows are locked, although       *)
(* others commit meanwhile: it holds the advisory lock (LockTaken), no two *)
(* submissions of one ID hold it together (LockExclusive), so what others  *)
(* commit has other IDs (LookupStands).  In the same way the stock read    *)
(* under the row locks is still there at the commit (StockStands).         *)
(***************************************************************************)

\* The holder of the row locks is the submission that is about to commit.
RowLockHeld ==
    \A r \in Requests : pc[r] = "commit" <=> rowLock = r

\* What the holder of the row locks writes fits the stock that it read.
StockStands ==
    \A r \in Requests : pc[r] = "commit" => asked[r].qty <= stock

\* From its lookup on, a submission with a request ID holds the advisory lock.
LockTaken ==
    \A r \in Requests :
        /\ keyLock[r] => asked[r].key # NoKey /\ pc[r] \in {"lookup", "rows", "commit"}
        /\ pc[r] \in {"lookup", "rows", "commit"} /\ asked[r].key # NoKey => keyLock[r]

\* Only submissions with a request ID look for it and wait for its lock.
KeyedPath ==
    \A r \in Requests : pc[r] \in {"precheck", "lock", "lookup"} => asked[r].key # NoKey

\* Two submissions that compete for one ID never hold its lock together.
LockExclusive ==
    \A o, r \in Requests :
        o # r /\ keyLock[o] /\ keyLock[r] => ~SameKey(asked[o], asked[r])

\* Between lookup and commit nothing is committed under the ID.
LookupStands ==
    \A r \in Requests :
        pc[r] \in {"rows", "commit"} => \A w \in ledger : ~SameKey(w.of, asked[r])

\* A submission is answered once, at its end, and asks something before that.
AnsweredAtEnd ==
    \A r \in Requests :
        /\ pc[r] = "idle" <=> asked[r] = Unasked
        /\ pc[r] # "done" => reply[r] = "none"

\* Committed writes that compete for one ID are one write.
LedgerUnique ==
    \A v, w \in ledger : SameKey(v.of, w.of) => v = w

SubmissionInv ==
    /\ SubmissionTypeOK
    /\ RowLockHeld
    /\ StockStands
    /\ LockTaken
    /\ KeyedPath
    /\ LockExclusive
    /\ LookupStands
    /\ AnsweredAtEnd
    /\ LedgerUnique

\* What the proof uses of an attempt: it is a submission, and asks for stock.
LEMMA AttemptFacts ==
    /\ \A a \in Attempts : a # Unasked /\ a.qty \in Nat \ {0}
    /\ Unasked.key = NoKey
BY ServiceAssumption DEF Unasked

\* The competition for an ID is symmetric, and needs an ID.
LEMMA SameKeySymmetric ==
    ASSUME NEW a, NEW b
    PROVE  /\ SameKey(a, b) <=> SameKey(b, a)
           /\ SameKey(a, b) => a.key # NoKey /\ b.key # NoKey
BY DEF SameKey

\* The initial state satisfies the invariant.
LEMMA InitSubmissionInv == SubmissionInit => SubmissionInv
BY ServiceAssumption, NoneAssumption
   DEF SubmissionInit, ServiceInit, SubmissionInv, SubmissionTypeOK, Steps, RowLockHeld, StockStands, LockTaken,
       KeyedPath, LockExclusive, LookupStands, AnsweredAtEnd, LedgerUnique

\* A submission that ends without a write, answered or cut off, keeps the
\* invariant: it gives its locks back.
LEMMA AnswerSubmissionInv ==
    ASSUME SubmissionInv, NEW r \in Requests, pc[r] \notin {"idle"},
           NEW value \in {"replayed", "conflict", "insufficient", "invalid", "lost"},
           Answer(r, value), UNCHANGED <<sellable, stock, ledger, asked>>
    PROVE  SubmissionInv'
<1> USE DEF SubmissionInv, Answer, Goto
<1>1. SubmissionTypeOK'
    BY DEF SubmissionTypeOK, Steps
<1>2. RowLockHeld'
    BY NoneAssumption DEF SubmissionTypeOK, RowLockHeld
<1>3. StockStands' /\ LookupStands' /\ LedgerUnique'
    BY DEF SubmissionTypeOK, StockStands, LookupStands, LedgerUnique
<1>4. LockTaken' /\ KeyedPath'
    BY DEF SubmissionTypeOK, LockTaken, KeyedPath
<1>5. LockExclusive'
    BY DEF SubmissionTypeOK, LockExclusive
<1>6. AnsweredAtEnd'
    BY DEF SubmissionTypeOK, AnsweredAtEnd
<1> QED
    BY <1>1, <1>2, <1>3, <1>4, <1>5, <1>6

\* A submission that goes on to a step before its lookup, and takes nothing,
\* keeps the invariant.
LEMMA EarlyStepSubmissionInv ==
    ASSUME SubmissionInv, NEW r \in Requests, pc[r] \in {"validate", "precheck"},
           NEW step \in {"precheck", "lock"}, Goto(r, step),
           asked[r].key # NoKey, UNCHANGED <<serviceVars, keyLock, rowLock>>
    PROVE  SubmissionInv'
BY DEF SubmissionInv, Goto, serviceVars, SubmissionTypeOK, Steps, RowLockHeld, StockStands, LockTaken,
       KeyedPath, LockExclusive, LookupStands, AnsweredAtEnd, LedgerUnique

\* A submission enters with its attempt, and holds nothing yet.
LEMMA SendSubmissionInv ==
    ASSUME SubmissionInv, NEW r \in Requests, NEW a \in Attempts, Send(r, a)
    PROVE  SubmissionInv'
<1> USE AttemptFacts DEF SubmissionInv, Send, Ask, Goto
<1>1. ~keyLock[r]
    BY DEF LockTaken
<1>2. SubmissionTypeOK'
    BY DEF SubmissionTypeOK, Steps
<1>3. RowLockHeld' /\ StockStands' /\ LookupStands' /\ LedgerUnique'
    BY DEF SubmissionTypeOK, RowLockHeld, StockStands, LookupStands, LedgerUnique
<1>4. LockTaken' /\ LockExclusive' /\ KeyedPath'
    BY <1>1 DEF SubmissionTypeOK, LockTaken, LockExclusive, KeyedPath
<1>5. AnsweredAtEnd'
    BY DEF SubmissionTypeOK, AnsweredAtEnd
<1> QED
    BY <1>2, <1>3, <1>4, <1>5

\* An unkeyed submission skips the lookup: it competes with nobody.
LEMMA ValidateSubmissionInv ==
    ASSUME SubmissionInv, NEW r \in Requests, Validate(r)
    PROVE  SubmissionInv'
<1>1. CASE ~sellable /\ asked[r].kind # "adjustment"
    BY <1>1, AnswerSubmissionInv DEF Validate
<1>2. CASE (sellable \/ asked[r].kind = "adjustment") /\ asked[r].key # NoKey
    BY <1>2, EarlyStepSubmissionInv DEF Validate, serviceVars
<1>3. CASE (sellable \/ asked[r].kind = "adjustment") /\ asked[r].key = NoKey
  <2>1. /\ pc[r] = "validate" /\ Goto(r, "rows")
        /\ UNCHANGED <<sellable, stock, ledger, asked, reply, keyLock, rowLock>>
      BY <1>3 DEF Validate
  <2>2. \A w \in ledger : ~SameKey(w.of, asked[r])
      BY <1>3 DEF SameKey
  <2> QED
      BY <1>3, <2>1, <2>2
      DEF SubmissionInv, Goto, SubmissionTypeOK, Steps, RowLockHeld, StockStands, LockTaken,
          KeyedPath, LockExclusive, LookupStands, AnsweredAtEnd, LedgerUnique
<1> QED
    BY <1>1, <1>2, <1>3

\* The lock is granted while no competitor holds it.
LEMMA AcquireKeySubmissionInv ==
    ASSUME SubmissionInv, NEW r \in Requests, AcquireKey(r)
    PROVE  SubmissionInv'
<1> USE DEF SubmissionInv, AcquireKey, Goto, serviceVars
<1>1. LockExclusive'
    BY SameKeySymmetric DEF SubmissionTypeOK, LockExclusive
<1> QED
    BY <1>1 DEF SubmissionTypeOK, Steps, RowLockHeld, StockStands, LockTaken, KeyedPath, LookupStands,
                AnsweredAtEnd, LedgerUnique

\* What Precheck and Lookup answer when the ID was used before.
LEMMA AnswerPreviousSubmissionInv ==
    ASSUME SubmissionInv, NEW r \in Requests, pc[r] \notin {"idle"},
           AnswerPrevious(r), UNCHANGED <<sellable, stock, ledger, asked>>
    PROVE  SubmissionInv'
BY AnswerSubmissionInv DEF AnswerPrevious

\* A lookup that finds nothing lets the submission write.
LEMMA LookupSubmissionInv ==
    ASSUME SubmissionInv, NEW r \in Requests, Lookup(r)
    PROVE  SubmissionInv'
<1>1. CASE Previous(r) # {}
    BY <1>1, AnswerPreviousSubmissionInv DEF Lookup
<1>2. CASE Previous(r) = {}
  <2>1. \A w \in ledger : ~SameKey(w.of, asked[r])
      BY <1>2 DEF Previous
  <2> QED
      BY <1>2, <2>1
      DEF Lookup, SubmissionInv, Goto, SubmissionTypeOK, Steps, RowLockHeld, StockStands, LockTaken,
          KeyedPath, LockExclusive, LookupStands, AnsweredAtEnd, LedgerUnique
<1> QED
    BY <1>1, <1>2

\* The row locks are taken one submission at a time, with enough stock.
LEMMA AcquireRowsSubmissionInv ==
    ASSUME SubmissionInv, NEW r \in Requests, AcquireRows(r)
    PROVE  SubmissionInv'
<1>1. CASE stock < asked[r].qty
    BY <1>1, AnswerSubmissionInv DEF AcquireRows
<1>2. CASE ~(stock < asked[r].qty)
  <2> USE <1>2 DEF AcquireRows, SubmissionInv, Goto
  <2>1. asked[r].qty \in Nat /\ stock \in Nat
      BY AttemptFacts, ServiceAssumption DEF SubmissionTypeOK, Unasked
  <2>2. SubmissionTypeOK' /\ StockStands'
      BY <2>1 DEF SubmissionTypeOK, Steps, StockStands, RowLockHeld
  <2>3. RowLockHeld'
      BY NoneAssumption DEF SubmissionTypeOK, RowLockHeld
  <2> QED
      BY <2>2, <2>3
      DEF SubmissionTypeOK, LockTaken, KeyedPath, LockExclusive, LookupStands, AnsweredAtEnd, LedgerUnique
<1> QED
    BY <1>1, <1>2

\* The write.  Those that passed their lookup meanwhile do not compete for
\* its ID: of two that do, only one holds the advisory lock.
LEMMA CommitSubmissionInv ==
    ASSUME SubmissionInv, NEW r \in Requests, Commit(r)
    PROVE  SubmissionInv'
<1>1. CASE Previous(r) # {}
  <2>1. CASE asked[r].kind = "encoding"
      BY <1>1, <2>1, AnswerPreviousSubmissionInv DEF Commit
  <2>2. CASE asked[r].kind # "encoding"
      BY <1>1, <2>2, AnswerSubmissionInv DEF Commit
  <2> QED
      BY <2>1, <2>2
<1>2. CASE Previous(r) = {}
  <2> DEFINE new == [by |-> r, of |-> asked[r]]
  <2> USE DEF SubmissionInv
  <2>1. /\ pc[r] = "commit"
        /\ stock' = stock - asked[r].qty
        /\ ledger' = ledger \union {new}
        /\ Answer(r, "created")
        /\ UNCHANGED <<sellable, asked>>
      BY <1>2 DEF Commit
  <2>2. \A w \in ledger : ~SameKey(w.of, new.of) /\ ~SameKey(new.of, w.of)
      BY <1>2, SameKeySymmetric DEF Previous
  <2>3. asked[r] \in Attempts
      BY <2>1 DEF SubmissionTypeOK, AnsweredAtEnd
  <2>4. stock' \in 0..Units
      BY <2>1, <2>3, AttemptFacts, ServiceAssumption DEF SubmissionTypeOK, StockStands
  <2>5. SubmissionTypeOK'
      BY <2>1, <2>3, <2>4 DEF SubmissionTypeOK, Steps, Answer, Goto
  <2>6. \A o \in Requests : o # r => pc[o] # "commit"
      BY <2>1, NoneAssumption DEF RowLockHeld
  <2>7. RowLockHeld' /\ StockStands'
      BY <2>1, <2>6, NoneAssumption DEF RowLockHeld, StockStands, SubmissionTypeOK, Answer, Goto
  <2>8. LockTaken' /\ KeyedPath' /\ LockExclusive' /\ AnsweredAtEnd'
      BY <2>1 DEF SubmissionTypeOK, LockTaken, KeyedPath, LockExclusive, AnsweredAtEnd, Answer, Goto
  <2>9. LookupStands'
    <3> SUFFICES ASSUME NEW o \in Requests, pc'[o] \in {"rows", "commit"}
                 PROVE  ~SameKey(asked[r], asked[o])
        BY <2>1 DEF LookupStands, SubmissionTypeOK, Answer, Goto
    <3>1. o # r /\ pc[o] = pc'[o]
        BY <2>1 DEF SubmissionTypeOK, Answer, Goto
    <3>2. CASE asked[r].key = NoKey \/ asked[o].key = NoKey
        BY <3>2, SameKeySymmetric
    <3>3. CASE asked[r].key # NoKey /\ asked[o].key # NoKey
        BY <2>1, <3>1, <3>3 DEF LockTaken, LockExclusive
    <3> QED
        BY <3>2, <3>3
  <2>10. LedgerUnique'
      BY <2>1, <2>2 DEF LedgerUnique
  <2> QED
      BY <2>5, <2>7, <2>8, <2>9, <2>10
<1> QED
    BY <1>1, <1>2

\* The invariant is inductive.
LEMMA NextSubmissionInv == SubmissionInv /\ [SubmissionNext]_submissionVars => SubmissionInv'
<1> SUFFICES ASSUME SubmissionInv, [SubmissionNext]_submissionVars PROVE SubmissionInv'
    OBVIOUS
<1>1. ASSUME NEW r \in Requests, NEW a \in Attempts, Send(r, a) PROVE SubmissionInv'
    BY <1>1, SendSubmissionInv
<1>2. ASSUME NEW r \in Requests, Validate(r) PROVE SubmissionInv'
    BY <1>2, ValidateSubmissionInv
<1>3. ASSUME NEW r \in Requests, Precheck(r) PROVE SubmissionInv'
  <2>1. CASE Previous(r) # {}
      BY <1>3, <2>1, AnswerPreviousSubmissionInv DEF Precheck
  <2>2. CASE Previous(r) = {}
    <3>1. asked[r].key # NoKey
        BY <1>3 DEF Precheck, SubmissionInv, KeyedPath
    <3> QED
        BY <1>3, <2>2, <3>1, EarlyStepSubmissionInv DEF Precheck, serviceVars
  <2> QED
      BY <2>1, <2>2
<1>4. ASSUME NEW r \in Requests, AcquireKey(r) PROVE SubmissionInv'
    BY <1>4, AcquireKeySubmissionInv
<1>5. ASSUME NEW r \in Requests, Lookup(r) PROVE SubmissionInv'
    BY <1>5, LookupSubmissionInv
<1>6. ASSUME NEW r \in Requests, AcquireRows(r) PROVE SubmissionInv'
    BY <1>6, AcquireRowsSubmissionInv
<1>7. ASSUME NEW r \in Requests, Commit(r) PROVE SubmissionInv'
    BY <1>7, CommitSubmissionInv
<1>8. ASSUME NEW r \in Requests, Crash(r) PROVE SubmissionInv'
    BY <1>8, AnswerSubmissionInv DEF Crash
<1>9. CASE ToggleActive
    BY <1>9 DEF ToggleActive, SubmissionInv, SubmissionTypeOK, RowLockHeld, StockStands, LockTaken, KeyedPath,
                LockExclusive, LookupStands, AnsweredAtEnd, LedgerUnique
<1>10. CASE Restock
  <2>1. \A r \in Requests : pc[r] # "commit"
      BY <1>10, NoneAssumption DEF Restock, SubmissionInv, RowLockHeld
  <2> QED
      BY <1>10, <2>1, ServiceAssumption
      DEF Restock, SubmissionInv, SubmissionTypeOK, RowLockHeld, StockStands, LockTaken, KeyedPath,
          LockExclusive, LookupStands, AnsweredAtEnd, LedgerUnique
<1>11. CASE UNCHANGED submissionVars
    BY <1>11 DEF submissionVars, serviceVars, SubmissionInv, SubmissionTypeOK, RowLockHeld, StockStands, LockTaken,
                 KeyedPath, LockExclusive, LookupStands, AnsweredAtEnd, LedgerUnique
<1> QED
    BY <1>1, <1>2, <1>3, <1>4, <1>5, <1>6, <1>7, <1>8, <1>9, <1>10, <1>11
    DEF SubmissionNext, Serve

\* Every reachable state of the protocol satisfies the invariant.
LEMMA SubmissionInvHolds == SubmissionSpec => []SubmissionInv
BY InitSubmissionInv, NextSubmissionInv, PTL DEF SubmissionSpec

-----------------------------------------------------------------------------
\* The state variables keep their types: stock is never sold below zero.
THEOREM SubmissionTypeCorrect == SubmissionSpec => []SubmissionTypeOK
<1>1. SubmissionInv => SubmissionTypeOK
    BY DEF SubmissionInv
<1> QED
    BY <1>1, SubmissionInvHolds, PTL

\* However retries, crashes and competitors interleave, a request ID takes
\* effect at most once.
THEOREM KeyAlwaysTakesEffectOnce == SubmissionSpec => []KeyTakesEffectOnce
<1>1. SubmissionInv => KeyTakesEffectOnce
  <2> SUFFICES ASSUME SubmissionInv, NEW v \in ledger, NEW w \in ledger,
                      v.of.key # NoKey, v.of.key = w.of.key,
                      \/ v.of.kind = "encoding" /\ w.of.kind = "encoding"
                      \/ /\ v.of.user = w.of.user
                         /\ \/ v.of.kind = w.of.kind
                            \/ v.of.kind = "checkout" /\ w.of.kind = "order"
               PROVE  v = w
      BY DEF KeyTakesEffectOnce
  <2>1. v.of \in Attempts /\ w.of \in Attempts
      BY DEF SubmissionInv, SubmissionTypeOK
  <2>2. SameKey(v.of, w.of)
      BY <2>1, ServiceAssumption DEF SameKey
  <2> QED
      BY <2>2 DEF SubmissionInv, LedgerUnique
<1> QED
    BY <1>1, SubmissionInvHolds, PTL

\* The protocol starts where the atomic service starts.
LEMMA InitRefines == SubmissionInit => Service!ServiceInit
BY DEF SubmissionInit, ServiceInit, Service!ServiceInit, Unasked, Service!Unasked

\* What is answered from an earlier use of the ID is what that use implies.
LEMMA AnswerPreviousRefines ==
    ASSUME SubmissionInv, NEW r \in Requests, pc[r] \notin {"idle", "done"},
           Previous(r) # {}, AnswerPrevious(r), UNCHANGED <<sellable, stock, ledger, asked>>
    PROVE  Service!ServiceNext
<1>1. asked[r] # Service!Unasked /\ reply[r] = "none"
    BY DEF SubmissionInv, AnsweredAtEnd, Unasked, Service!Unasked
<1>2. Service!Refuse(r)
    BY DEF AnswerPrevious, Answer, Previous, Service!Refuse, SameKey, Service!SameKey
<1> QED
    BY <1>1, <1>2 DEF Service!ServiceNext

\* Every step of the protocol is one answer of the atomic service, a change of
\* its environment, or invisible to it.
LEMMA StepRefines == SubmissionInv /\ [SubmissionNext]_submissionVars => [Service!ServiceNext]_serviceVars
<1> SUFFICES ASSUME SubmissionInv, [SubmissionNext]_submissionVars PROVE [Service!ServiceNext]_serviceVars
    OBVIOUS
<1>1. ASSUME NEW r \in Requests, pc[r] \notin {"idle", "done"}
      PROVE  asked[r] # Service!Unasked /\ reply[r] = "none"
    BY <1>1 DEF SubmissionInv, AnsweredAtEnd, Unasked, Service!Unasked
<1>2. ASSUME NEW r \in Requests, NEW a \in Attempts, Send(r, a) PROVE Service!ServiceNext
    BY <1>2 DEF Send, Ask, Service!ServiceNext, Service!Ask, Unasked, Service!Unasked
<1>3. ASSUME NEW r \in Requests, Validate(r) PROVE [Service!ServiceNext]_serviceVars
  <2>1. CASE ~sellable /\ asked[r].kind # "adjustment"
    <3>1. Service!Refuse(r)
        BY <1>3, <2>1 DEF Validate, Answer, Service!Refuse
    <3> QED
        BY <1>1, <1>3, <3>1 DEF Validate, Service!ServiceNext
  <2>2. CASE ~(~sellable /\ asked[r].kind # "adjustment")
      BY <1>3, <2>2 DEF Validate, serviceVars
  <2> QED
      BY <2>1, <2>2
<1>4. ASSUME NEW r \in Requests, Precheck(r) \/ Lookup(r) PROVE [Service!ServiceNext]_serviceVars
  <2>1. CASE Previous(r) # {}
      BY <1>4, <2>1, AnswerPreviousRefines DEF Precheck, Lookup
  <2>2. CASE Previous(r) = {}
      BY <1>4, <2>2 DEF Precheck, Lookup, serviceVars
  <2> QED
      BY <2>1, <2>2
<1>5. ASSUME NEW r \in Requests, AcquireKey(r) PROVE [Service!ServiceNext]_serviceVars
    BY <1>5 DEF AcquireKey
<1>6. ASSUME NEW r \in Requests, AcquireRows(r) PROVE [Service!ServiceNext]_serviceVars
  <2>1. CASE stock < asked[r].qty
    <3>1. asked[r].qty \in Nat /\ stock \in Nat
        BY AttemptFacts, ServiceAssumption DEF SubmissionInv, SubmissionTypeOK, Unasked
    <3>2. \A w \in ledger : ~Service!SameKey(w.of, asked[r])
        BY <1>6 DEF AcquireRows, SubmissionInv, LookupStands, SameKey, Service!SameKey
    <3>3. Service!Refuse(r)
        BY <1>6, <2>1, <3>1, <3>2 DEF AcquireRows, Answer, Service!Refuse
    <3> QED
        BY <1>1, <1>6, <3>3 DEF AcquireRows, Service!ServiceNext
  <2>2. CASE ~(stock < asked[r].qty)
      BY <1>6, <2>2 DEF AcquireRows, serviceVars
  <2> QED
      BY <2>1, <2>2
<1>7. ASSUME NEW r \in Requests, Commit(r) PROVE [Service!ServiceNext]_serviceVars
  <2>1. CASE Previous(r) = {}
    <3>1. \A w \in ledger : ~Service!SameKey(w.of, asked[r])
        BY <2>1 DEF Previous, SameKey, Service!SameKey
    <3>2. asked[r].qty <= stock
        BY <1>7 DEF Commit, SubmissionInv, StockStands
    <3>3. Service!Create(r)
        BY <1>7, <2>1, <3>1, <3>2 DEF Commit, Answer, Service!Create
    <3> QED
        BY <1>1, <1>7, <3>3 DEF Commit, Service!ServiceNext
  <2>2. CASE Previous(r) # {} /\ asked[r].kind = "encoding"
      BY <1>7, <2>2, AnswerPreviousRefines DEF Commit
  <2>3. CASE Previous(r) # {} /\ asked[r].kind # "encoding"
    <3>1. Service!Refuse(r)
        BY <1>7, <2>3 DEF Commit, Answer, Service!Refuse
    <3> QED
        BY <1>1, <1>7, <3>1 DEF Commit, Service!ServiceNext
  <2> QED
      BY <2>1, <2>2, <2>3
<1>8. ASSUME NEW r \in Requests, Crash(r) PROVE [Service!ServiceNext]_serviceVars
  <2>1. Service!Refuse(r)
      BY <1>8 DEF Crash, Answer, Service!Refuse
  <2> QED
      BY <1>1, <1>8, <2>1 DEF Crash, Service!ServiceNext
<1>9. CASE ToggleActive \/ Restock
    BY <1>9 DEF ToggleActive, Restock, Service!ServiceNext, Service!Environment
<1>10. CASE UNCHANGED submissionVars
    BY <1>10 DEF submissionVars, serviceVars
<1> QED
    BY <1>2, <1>3, <1>4, <1>5, <1>6, <1>7, <1>8, <1>9, <1>10 DEF SubmissionNext, Serve

\* The locks, lookups, rollbacks and crashes implement the atomic service:
\* every answer is true of the committed state at one instant, and a request
\* that was rolled back leaves nothing behind.
THEOREM ProtocolImplementsService == SubmissionSpec => ImplementsService
<1>1. SubmissionInv /\ [SubmissionNext]_submissionVars => [Service!ServiceNext]_Service!serviceVars
    BY StepRefines DEF serviceVars, Service!serviceVars
<1> QED
    BY <1>1, InitRefines, SubmissionInvHolds, PTL
    DEF SubmissionSpec, ImplementsService, Service!ServiceSpec
=============================================================================
