--------------------------- MODULE BatchLocksProofs ---------------------------
(***************************************************************************)
(* For every number of batches, products and requests: no update of a      *)
(* stock row is lost, stock is returned once, earlier batches are emptied  *)
(* first, and only an edit of an expiration date can make requests wait    *)
(* for each other in a circle.                                             *)
(*                                                                         *)
(* Everything rests on who holds which lock.  A job saves copies only of   *)
(* rows that it has locked (CopiesHeld), so the committed row is still the *)
(* one that the copy was computed from (CopiesFit).  A job that waits for  *)
(* a row holds only rows that come before it (LocksAscend), which rules    *)
(* out a circle as long as the dates stand still (DatesStand).             *)
(***************************************************************************)
EXTENDS BatchLocks, FiniteSetTheorems, TLAPS

Active == {"query", "lock", "take", "commit"}

\* Whoever holds a lock is in the middle of its transaction, and who saved a
\* row or may take from one holds it.
LocksHeld ==
    /\ \A b \in Batches : lock[b] # Free =>
         /\ pc[lock[b]] \in Active
         /\ Kind(lock[b]) \in {"sale", "void"}
         /\ Kind(lock[b]) = "void" => pc[lock[b]] = "lock"
    /\ \A y \in Years : yearLock[y] # Free => pc[yearLock[y]] \in Active
    /\ saleLock # Free => pc[saleLock] \in Active

CopiesHeld ==
    \A j \in Jobs :
        /\ \A b \in DOMAIN copy[j] \union batches[j] : lock[b] = j
        /\ Kind(j) = "void" /\ pc[j] \in Active => saleLock = j /\ ~voided
        /\ pc[j] # "lock" => queue[j] = {}
        /\ pc[j] \notin {"lock", "take"} \/ Kind(j) # "sale" => batches[j] = {}

\* What is going to be committed was computed from the committed row.
CopiesFit ==
    \A j \in Jobs : \A b \in DOMAIN copy[j] :
        LET new == copy[j][b].row
            q   == copy[j][b].quantity
        IN  /\ new.expiration = row[b].expiration
            /\ Kind(j) = "sale" => new.left = row[b].left - q /\ q <= row[b].left
            /\ Kind(j) = "void" =>
                 new.left = row[b].left + q /\ q <= Sold[b] /\ new.left <= Initial[b]

NothingReturnedYet ==
    \A b \in Batches : 0 <= returns[b] /\ (~voided => returns[b] = 0)

LocksInv ==
    /\ TypeOK
    /\ LocksHeld
    /\ CopiesHeld
    /\ CopiesFit
    /\ NothingReturnedYet
    /\ UpdatesCountOnce

-----------------------------------------------------------------------------
\* What sale j has still to lock or to take belongs to the product in turn, what
\* it has locked comes before that.
LineInTurn(j) ==
    /\ pc[j] \in {"lock", "take"} =>
         /\ \A b \in queue[j] \union batches[j] : IsNextProduct(j, Product[b])
         /\ \A b \in Batches : lock[b] = j /\ Product[b] \in products[j] =>
              IsNextProduct(j, Product[b])
         /\ \A b, c \in Batches :
              lock[b] = j /\ IsNextProduct(j, Product[b]) /\ c \in queue[j] =>
                  Before(found[j], b, c)
    /\ pc[j] = "query" => \A b \in Batches : lock[b] = j => Product[b] \notin products[j]

\* Of the rows of the product in turn that sale j holds, those that can still be
\* sold are about to be taken from, or were.
HeldIsTaken(j) ==
    \A b \in Batches :
        lock[b] = j /\ IsNextProduct(j, Product[b]) /\ Eligible(Product[b], b, row[b]) =>
            \/ b \in batches[j]
            \/ /\ pc[j] = "take" /\ b \in DOMAIN copy[j]
               /\ needed[j] > 0 => copy[j][b].row.left = 0

TurnInv == \A j \in Jobs : Kind(j) = "sale" => LineInTurn(j) /\ HeldIsTaken(j)

-----------------------------------------------------------------------------
\* Dates change only by edits.
Edited == \E e \in Jobs : Kind(e) = "edit" /\ pc[e] = "done"

DatesStand ==
    /\ \A b \in Batches : row[b].expiration = Expiry[b]
    /\ \A j \in Jobs, b \in Batches : found[j][b].expiration = Expiry[b]

\* The order in which rows are locked while the dates stand still.
Precedes(b, c) == Before(Delivered, b, c)

\* Who is going to lock a row holds only rows that precede it.
LocksAscend ==
    \A j \in Jobs, b, c \in Batches :
        /\ lock[b] = j /\ c \in queue[j] => Precedes(b, c)
        /\ lock[b] = j /\ Kind(j) = "sale" /\ Product[c] \in products[j]
             => Product[b] <= Product[c]

OrderInv == ~Edited => DatesStand /\ LocksAscend

-----------------------------------------------------------------------------
\* What the assumptions say of the requests and of the earlier sale.
LEMMA RequestFacts ==
    /\ Free \notin Jobs
    /\ \A j \in Jobs : Kind(j) \in {"sale", "void", "adjust", "edit"}
    /\ \A j \in Jobs : Kind(j) = "sale" => \A p \in Products : Job[j].cart[p] \in Nat
    /\ \A j \in Jobs : Kind(j) = "sale" => Job[j].year \in Years
    /\ \A j \in Jobs : Kind(j) \in {"adjust", "edit"} => Job[j].batch \in Batches
    /\ \A b \in Batches : Sold[b] \in Nat /\ Initial[b] \in Nat /\ Sold[b] <= Initial[b]
    /\ \A b \in Batches : b \in Nat /\ Product[b] \in Nat /\ Product[b] \in Products
    /\ \A b \in Batches : Expiry[b] \in Int
    /\ Products \subseteq Nat
BY LocksAssumption DEF Kind, Products, Years

\* The rows of the earlier sale are rows.
LEMMA DeliveredTyped == Delivered \in [Batches -> Row]
BY RequestFacts DEF Delivered, Row

LEMMA InitLocks == Init => LocksInv
<1> SUFFICES ASSUME Init PROVE LocksInv
    OBVIOUS
<1> USE RequestFacts, DeliveredTyped DEF Init
<1>1. TypeOK
  <2>1. row \in [Batches -> Row] /\ found \in [Jobs -> [Batches -> Row]]
      BY DeliveredTyped
  <2>2. \A j \in Jobs : DOMAIN copy[j] = {}
      BY DEF EmptyCopy
  <2>3. DOMAIN copy = Jobs
      OBVIOUS
  <2>4. /\ lock \in [Batches -> Jobs \union {Free}] /\ yearLock \in [Years -> Jobs \union {Free}]
        /\ saleLock \in Jobs \union {Free} /\ voided \in BOOLEAN
      OBVIOUS
  <2>5. lines \in [Batches -> Int] /\ returns \in [Batches -> Int] /\ adjusted \in [Batches -> Int]
      OBVIOUS
  <2>6. products \in [Jobs -> SUBSET Products] /\ needed \in [Jobs -> Nat]
      OBVIOUS
  <2>7. queue \in [Jobs -> SUBSET Batches] /\ batches \in [Jobs -> SUBSET Batches]
      OBVIOUS
  <2>8. pc \in [Jobs -> {"begin", "query", "lock", "take", "commit", "done", "refused", "aborted"}]
      OBVIOUS
  <2> QED
      BY <2>1, <2>2, <2>3, <2>4, <2>8, <2>6, <2>7, <2>5 DEF TypeOK
<1>2. LocksHeld /\ CopiesHeld /\ CopiesFit /\ NothingReturnedYet
    BY DEF LocksHeld, CopiesHeld, CopiesFit, NothingReturnedYet, EmptyCopy, Active
<1>3. UpdatesCountOnce
    BY DEF UpdatesCountOnce, NoLostUpdate, RestoredOnce, Delivered
<1> QED
    BY <1>1, <1>2, <1>3 DEF LocksInv

-----------------------------------------------------------------------------
\* A transaction that is rolled back leaves the rows and the locks of others.
LEMMA RollbackLocks ==
    ASSUME LocksInv, NEW j \in Jobs, NEW outcome \in {"refused", "aborted"}, Rollback(j, outcome)
    PROVE  LocksInv'
<1> USE RequestFacts, DeliveredTyped DEF Rollback, ReleaseLocks, Goto, tables, LocksInv
<1>1. TypeOK'
    BY DEF TypeOK, EmptyCopy
<1>2. LocksHeld'
    BY DEF LocksHeld, TypeOK, Active
<1>3. CopiesHeld'
    BY DEF CopiesHeld, TypeOK, Active, EmptyCopy
<1>4. CopiesFit' /\ NothingReturnedYet' /\ UpdatesCountOnce'
    BY DEF CopiesFit, NothingReturnedYet, UpdatesCountOnce, NoLostUpdate, RestoredOnce, TypeOK, EmptyCopy
<1> QED
    BY <1>1, <1>2, <1>3, <1>4

\* The statements of a sale up to its total leave rows and copies alone.
LEMMA SaleQueryLocks ==
    ASSUME LocksInv, NEW j \in Jobs,
           AssignInvoice(j) \/ FindBatches(j) \/ LockFound(j) \/ CheckTotal(j)
    PROVE  LocksInv'
<1> USE RequestFacts DEF LocksInv
<1>1. CASE AssignInvoice(j)
  <2> USE <1>1 DEF AssignInvoice, Goto, tables
  <2>1. TypeOK'
      BY DEF TypeOK
  <2>2. LocksHeld'
      BY DEF LocksHeld, TypeOK, Active
  <2>3. CopiesHeld'
      BY DEF CopiesHeld, TypeOK, Active
  <2>4. CopiesFit' /\ NothingReturnedYet' /\ UpdatesCountOnce'
      BY DEF CopiesFit, NothingReturnedYet, UpdatesCountOnce, NoLostUpdate, RestoredOnce
  <2> QED
      BY <2>1, <2>2, <2>4, <2>3
<1>2. CASE FindBatches(j)
  <2> USE <1>2 DEF FindBatches, Goto, tables, locks
  <2>1. TypeOK'
      BY DEF TypeOK
  <2>2. LocksHeld'
      BY DEF LocksHeld, TypeOK, Active
  <2>3. CopiesHeld'
      BY DEF CopiesHeld, TypeOK, Active
  <2>4. CopiesFit' /\ NothingReturnedYet' /\ UpdatesCountOnce'
      BY DEF CopiesFit, NothingReturnedYet, UpdatesCountOnce, NoLostUpdate, RestoredOnce
  <2> QED
      BY <2>1, <2>2, <2>4, <2>3
<1>3. CASE LockFound(j)
  <2> USE <1>3 DEF LockFound, Goto, tables, IsFirst
  <2>1. TypeOK'
      BY DEF TypeOK
  <2>2. LocksHeld'
      BY DEF LocksHeld, TypeOK, Active
  <2>3. CopiesHeld'
      BY DEF CopiesHeld, TypeOK, Active
  <2>4. CopiesFit' /\ NothingReturnedYet' /\ UpdatesCountOnce'
      BY DEF CopiesFit, NothingReturnedYet, UpdatesCountOnce, NoLostUpdate, RestoredOnce
  <2> QED
      BY <2>1, <2>2, <2>3, <2>4
<1>4. CASE CheckTotal(j)
  <2>1. CASE Rollback(j, "refused")
      BY <2>1, RollbackLocks
  <2>2. CASE ~Rollback(j, "refused")
    <3>1. PICK p \in products[j] :
              /\ needed' = [needed EXCEPT ![j] = Job[j].cart[p]]
              /\ pc' = [pc EXCEPT ![j] = "take"]
              /\ UNCHANGED <<tables, locks, products, queue, found, batches, copy>>
        BY <1>4, <2>2 DEF CheckTotal, Goto
    <3>2. Kind(j) = "sale" /\ pc[j] = "lock" /\ queue[j] = {}
        BY <1>4 DEF CheckTotal
    <3> USE <3>2, <3>1 DEF tables, locks
    <3>3. Job[j].cart[p] \in Nat
        BY DEF TypeOK
    <3>4. TypeOK'
        BY <3>1, <3>3 DEF TypeOK
    <3>5. LocksHeld'
        BY DEF LocksHeld, TypeOK, Active
    <3>6. CopiesHeld'
        BY DEF CopiesHeld, TypeOK, Active
    <3>7. CopiesFit' /\ NothingReturnedYet' /\ UpdatesCountOnce'
        BY DEF CopiesFit, NothingReturnedYet, UpdatesCountOnce, NoLostUpdate, RestoredOnce
    <3> QED
        BY <3>4, <3>5, <3>7, <3>6
  <2> QED
      BY <2>1, <2>2
<1> QED
    BY <1>1, <1>2, <1>3, <1>4

\* What a row becomes when a part of it is sold.
LEMMA AfterTakeRow ==
    ASSUME NEW r \in Row, NEW take \in Nat, take <= r.left
    PROVE  /\ AfterTake(r, take) \in Row
           /\ AfterTake(r, take).left = r.left - take
           /\ AfterTake(r, take).expiration = r.expiration
<1> DEFINE s == IF r.left = take THEN "depleted" ELSE r.status
<1>1. AfterTake(r, take) = [r EXCEPT !.left = r.left - take, !.status = s]
    BY DEF AfterTake
<1>2. s \in {"available", "depleted", "disposed"} /\ r.left - take \in Nat
    BY DEF Row
<1> HIDE DEF s
<1> QED
    BY <1>1, <1>2 DEF Row

\* What a row becomes when a quantity of either sign is adjusted.
LEMMA AfterAdjustRow ==
    ASSUME NEW r \in Row, NEW q \in Int, r.left - q \in Nat, NEW writeOff
    PROVE  /\ AfterAdjust(r, q, writeOff) \in Row
           /\ AfterAdjust(r, q, writeOff).left = r.left - q
           /\ AfterAdjust(r, q, writeOff).expiration = r.expiration
<1> DEFINE s == IF r.left = q THEN IF writeOff THEN "disposed" ELSE "depleted"
                ELSE IF r.status = "depleted" THEN "available" ELSE r.status
<1>1. AfterAdjust(r, q, writeOff) = [r EXCEPT !.left = r.left - q, !.status = s]
    BY DEF AfterAdjust
<1>2. s \in {"available", "depleted", "disposed"}
    BY DEF Row
<1> HIDE DEF s
<1> QED
    BY <1>1, <1>2 DEF Row

\* A job that saves a row it has locked, the row being as it was committed.
LEMMA SaveFits ==
    ASSUME LocksInv, NEW j \in Jobs, NEW b \in Batches, NEW r \in Row, NEW q \in Nat,
           Save(j, b, r, q), UNCHANGED <<row, returns, voided>>,
           r.expiration = row[b].expiration,
           Kind(j) = "sale" => r.left = row[b].left - q /\ q <= row[b].left,
           Kind(j) = "void" => r.left = row[b].left + q /\ q <= Sold[b] /\ r.left <= Initial[b]
    PROVE  /\ CopiesFit'
           /\ DOMAIN copy' = Jobs
           /\ \A i \in Jobs :
                /\ DOMAIN copy'[i] \subseteq Batches
                /\ \A c \in DOMAIN copy'[i] :
                     /\ copy'[i][c] \in [row : Row, quantity : Nat]
                     /\ c \in DOMAIN copy[i] \/ (i = j /\ c = b)
<1> USE DEF LocksInv
<1>1. /\ DOMAIN copy' = DOMAIN copy
      /\ \A i \in Jobs \ {j} : copy'[i] = copy[i]
      /\ DOMAIN copy'[j] = DOMAIN copy[j] \union {b}
      /\ copy'[j][b] = [row |-> r, quantity |-> q]
      /\ \A c \in DOMAIN copy[j] \ {b} : copy'[j][c] = copy[j][c]
    BY DEF Save, TypeOK
<1>2. \A i \in Jobs : DOMAIN copy'[i] \subseteq Batches
    BY <1>1 DEF TypeOK
<1>3. \A i \in Jobs, c \in Batches :
        c \in DOMAIN copy'[i] =>
            \/ (i = j /\ c = b)
            \/ (c \in DOMAIN copy[i] /\ copy'[i][c] = copy[i][c])
    BY <1>1
<1>4. /\ copy'[j][b].row = r /\ copy'[j][b].quantity = q
      /\ copy'[j][b] \in [row : Row, quantity : Nat]
    BY <1>1
<1>5. \A i \in Jobs : \A c \in DOMAIN copy'[i] : copy'[i][c] \in [row : Row, quantity : Nat]
  <2>1. \A i \in Jobs : \A c \in DOMAIN copy[i] : copy[i][c] \in [row : Row, quantity : Nat]
      BY DEF TypeOK
  <2> QED
      BY <1>2, <1>3, <1>4, <2>1
<1>6. CopiesFit'
    BY <1>2, <1>3, <1>4 DEF CopiesFit
<1>7. DOMAIN copy' = Jobs
    BY <1>1 DEF TypeOK
<1> QED
    BY <1>2, <1>3, <1>5, <1>6, <1>7

\* The loop over the rows saves what is left of each; the rows are still as read.
LEMMA SaleLoopLocks ==
    ASSUME LocksInv, NEW j \in Jobs, TakeBatch(j) \/ EndLine(j)
    PROVE  LocksInv'
<1> USE RequestFacts DEF LocksInv
<1>1. CASE TakeBatch(j)
  <2>1. PICK b \in batches[j] :
          LET take == IF row[b].left <= needed[j] THEN row[b].left ELSE needed[j]
          IN  /\ Save(j, b, AfterTake(row[b], take), take)
              /\ needed' = [needed EXCEPT ![j] = @ - take]
              /\ batches' = [batches EXCEPT ![j] = @ \ {b}]
      BY <1>1 DEF TakeBatch
  <2> DEFINE take == IF row[b].left <= needed[j] THEN row[b].left ELSE needed[j]
  <2> DEFINE left == AfterTake(row[b], take)
  <2>2. /\ b \in Batches /\ row[b] \in Row /\ needed[j] \in Nat
        /\ Kind(j) = "sale" /\ pc[j] = "take" /\ lock[b] = j
        /\ UNCHANGED <<tables, locks, pc, products, queue, found>>
      BY <1>1 DEF TakeBatch, TypeOK, CopiesHeld
  <2>3. take \in Nat /\ take <= row[b].left /\ take <= needed[j]
      BY <2>2 DEF Row
  <2>4. left \in Row /\ left.left = row[b].left - take /\ left.expiration = row[b].expiration
      BY <2>2, <2>3, AfterTakeRow
  <2>5. /\ needed' = [needed EXCEPT ![j] = @ - take]
        /\ batches' = [batches EXCEPT ![j] = @ \ {b}]
        /\ Save(j, b, left, take)
      BY <2>1
  <2> HIDE DEF take, left
  <2> USE <2>2, <2>3, <2>4, <2>5 DEF tables, locks
  <2>6. /\ CopiesFit'
        /\ DOMAIN copy' = Jobs
        /\ \A i \in Jobs :
             /\ DOMAIN copy'[i] \subseteq Batches
             /\ \A c \in DOMAIN copy'[i] :
                  /\ copy'[i][c] \in [row : Row, quantity : Nat]
                  /\ c \in DOMAIN copy[i] \/ (i = j /\ c = b)
      BY SaveFits
  <2>7. needed' \in [Jobs -> Nat] /\ batches' \in [Jobs -> SUBSET Batches]
      BY DEF TypeOK
  <2>8. TypeOK'
      BY <2>6, <2>7 DEF TypeOK
  <2>9. LocksHeld'
      BY DEF LocksHeld
  <2>10. CopiesHeld'
      BY <2>6 DEF CopiesHeld, TypeOK
  <2>11. NothingReturnedYet' /\ UpdatesCountOnce'
      BY DEF NothingReturnedYet, UpdatesCountOnce, NoLostUpdate, RestoredOnce
  <2> QED
      BY <2>6, <2>8, <2>9, <2>10, <2>11
<1>2. CASE EndLine(j)
  <2>1. PICK p \in products[j] :
          /\ products' = [products EXCEPT ![j] = @ \ {p}]
          /\ pc' = [pc EXCEPT ![j] = IF products[j] = {p} THEN "commit" ELSE "query"]
      BY <1>2 DEF EndLine, Goto
  <2> USE <1>2, <2>1 DEF EndLine, tables, locks
  <2>2. TypeOK'
      BY DEF TypeOK
  <2>3. LocksHeld'
      BY DEF LocksHeld, TypeOK, Active
  <2>4. CopiesHeld'
      BY DEF CopiesHeld, TypeOK, Active
  <2>5. CopiesFit' /\ NothingReturnedYet' /\ UpdatesCountOnce'
      BY DEF CopiesFit, NothingReturnedYet, UpdatesCountOnce, NoLostUpdate, RestoredOnce
  <2> QED
      BY <2>2, <2>3, <2>4, <2>5
<1> QED
    BY <1>1, <1>2

\* What a commit writes: the copies of the job, which it had locked, and nothing
\* that another job has saved.
LEMMA CommitFacts ==
    ASSUME LocksInv, NEW j \in Jobs, row' = [b \in Batches |-> Written(j, b)], ReleaseLocks(j)
    PROVE  /\ row' \in [Batches -> Row]
           /\ \A b \in Batches :
                /\ b \in DOMAIN copy[j] => row'[b] = copy[j][b].row
                /\ b \notin DOMAIN copy[j] => row'[b] = row[b]
           /\ \A i \in Jobs \ {j}, b \in Batches : b \in DOMAIN copy[i] => row'[b] = row[b]
           /\ \A b \in Batches : Recorded(j, b) \in Nat
<1> USE DEF Written, Recorded, LocksInv
<1>1. \A b \in DOMAIN copy[j] : copy[j][b] \in [row : Row, quantity : Nat]
    BY DEF TypeOK
<1>2. row \in [Batches -> Row]
    BY DEF TypeOK
<1>3. \A i \in Jobs \ {j}, b \in Batches : b \in DOMAIN copy[i] => b \notin DOMAIN copy[j]
    BY DEF CopiesHeld
<1> QED
    BY <1>1, <1>2, <1>3

LEMMA CommitSaleLocks ==
    ASSUME LocksInv, NEW j \in Jobs, CommitSale(j)
    PROVE  LocksInv'
<1> USE RequestFacts DEF LocksInv
<1>1. /\ Kind(j) = "sale" /\ pc[j] = "commit"
      /\ row' = [b \in Batches |-> Written(j, b)]
      /\ lines' = [b \in Batches |-> lines[b] + Recorded(j, b)]
      /\ ReleaseLocks(j)
      /\ pc' = [pc EXCEPT ![j] = "done"]
      /\ UNCHANGED <<voided, returns, adjusted>>
    BY DEF CommitSale, Goto
<1>2. /\ row' \in [Batches -> Row]
      /\ \A b \in Batches :
           /\ b \in DOMAIN copy[j] => row'[b] = copy[j][b].row
           /\ b \notin DOMAIN copy[j] => row'[b] = row[b]
      /\ \A i \in Jobs \ {j}, b \in Batches : b \in DOMAIN copy[i] => row'[b] = row[b]
      /\ \A b \in Batches : Recorded(j, b) \in Nat
    BY <1>1, CommitFacts
<1> USE <1>1, DeliveredTyped DEF ReleaseLocks
<1>3. TypeOK'
    BY <1>2 DEF TypeOK, EmptyCopy
<1>4. LocksHeld'
    BY DEF LocksHeld, TypeOK, Active
<1>5. CopiesHeld'
    BY DEF CopiesHeld, TypeOK, Active, EmptyCopy
<1>6. CopiesFit'
    BY <1>2 DEF CopiesFit, TypeOK, EmptyCopy
<1>7. NothingReturnedYet'
    BY DEF NothingReturnedYet
<1>8. \A b \in Batches :
          row'[b].left = row[b].left - Recorded(j, b) /\ Recorded(j, b) <= row[b].left
    BY <1>2 DEF CopiesFit, Recorded, TypeOK, Row
<1>9. UpdatesCountOnce'
    BY <1>2, <1>8 DEF UpdatesCountOnce, NoLostUpdate, RestoredOnce, TypeOK, Row
<1> QED
    BY <1>3, <1>4, <1>5, <1>6, <1>7, <1>9

\* A sale is cancelled only once: who cancels it holds its row.
LEMMA VoidQueryLocks ==
    ASSUME LocksInv, NEW j \in Jobs, LockSale(j) \/ FindItems(j)
    PROVE  LocksInv'
<1> USE RequestFacts DEF LocksInv
<1>1. CASE LockSale(j) /\ voided
  <2>1. Rollback(j, "refused")
      BY <1>1 DEF LockSale
  <2> QED
      BY <2>1, RollbackLocks
<1>2. CASE LockSale(j) /\ ~voided
  <2>1. /\ Kind(j) = "void" /\ pc[j] = "begin" /\ saleLock = Free /\ ~voided
        /\ saleLock' = j /\ pc' = [pc EXCEPT ![j] = "query"]
        /\ UNCHANGED <<tables, lock, yearLock, products, queue, found, batches, needed, copy>>
      BY <1>2 DEF LockSale, Goto
  <2> USE <2>1 DEF tables
  <2>2. TypeOK'
      BY DEF TypeOK
  <2>3. LocksHeld'
      BY DEF LocksHeld, TypeOK, Active
  <2>4. CopiesHeld'
      BY DEF CopiesHeld, TypeOK, Active
  <2>5. CopiesFit' /\ NothingReturnedYet' /\ UpdatesCountOnce'
      BY DEF CopiesFit, NothingReturnedYet, UpdatesCountOnce, NoLostUpdate, RestoredOnce
  <2> QED
      BY <2>2, <2>3, <2>4, <2>5
<1>3. CASE FindItems(j)
  <2> USE <1>3 DEF FindItems, Goto, tables, locks
  <2>1. TypeOK'
      BY DEF TypeOK
  <2>2. LocksHeld'
      BY DEF LocksHeld, TypeOK, Active
  <2>3. CopiesHeld'
      BY DEF CopiesHeld, TypeOK, Active
  <2>4. CopiesFit' /\ NothingReturnedYet' /\ UpdatesCountOnce'
      BY DEF CopiesFit, NothingReturnedYet, UpdatesCountOnce, NoLostUpdate, RestoredOnce
  <2> QED
      BY <2>1, <2>2, <2>3, <2>4
<1> QED
    BY <1>1, <1>2, <1>3

\* What a row becomes when stock is put back.
LEMMA AfterRestoreRow ==
    ASSUME NEW b \in Batches, NEW r \in Row, r.left <= Initial[b]
    PROVE  LET amount == Restored(b, r)
           IN  /\ amount \in Nat /\ amount <= Sold[b] /\ r.left + amount <= Initial[b]
               /\ AfterRestore(r, amount) \in Row
               /\ AfterRestore(r, amount).left = r.left + amount
               /\ AfterRestore(r, amount).expiration = r.expiration
<1> DEFINE amount == Restored(b, r)
<1>1. r.left \in Nat /\ Sold[b] \in Nat /\ Initial[b] \in Nat
    BY RequestFacts DEF Row
<1>2. amount \in Nat /\ amount <= Sold[b] /\ r.left + amount <= Initial[b]
    BY <1>1 DEF Restored
<1> HIDE DEF amount
<1> DEFINE s == IF amount > 0 /\ r.status = "depleted" THEN "available" ELSE r.status
<1>3. AfterRestore(r, amount) = [r EXCEPT !.left = r.left + amount, !.status = s]
    BY DEF AfterRestore
<1>4. s \in {"available", "depleted", "disposed"} /\ r.left + amount \in Nat
    BY <1>1, <1>2 DEF Row
<1> HIDE DEF s
<1>5. /\ AfterRestore(r, amount) \in Row
      /\ AfterRestore(r, amount).left = r.left + amount
      /\ AfterRestore(r, amount).expiration = r.expiration
    BY <1>3, <1>4 DEF Row
<1> QED
    BY <1>2, <1>5 DEF amount


LEMMA RestoreItemLocks ==
    ASSUME LocksInv, NEW j \in Jobs, RestoreItem(j)
    PROVE  LocksInv'
<1> USE RequestFacts DEF LocksInv
<1>1. PICK b \in queue[j] :
        /\ lock[b] = Free
        /\ lock' = [lock EXCEPT ![b] = j]
        /\ Save(j, b, AfterRestore(row[b], Restored(b, row[b])), Restored(b, row[b]))
        /\ queue' = [queue EXCEPT ![j] = @ \ {b}]
    BY DEF RestoreItem
<1>2. /\ Kind(j) = "void" /\ pc[j] = "lock" /\ b \in Batches /\ row[b] \in Row
      /\ UNCHANGED <<tables, yearLock, saleLock, pc, products, found, batches, needed>>
    BY DEF RestoreItem, TypeOK
<1>3. row[b].left <= Initial[b]
    BY <1>2 DEF UpdatesCountOnce, RestoredOnce
<1> DEFINE amount == Restored(b, row[b])
<1> DEFINE new == AfterRestore(row[b], amount)
<1>4. /\ amount \in Nat /\ amount <= Sold[b] /\ row[b].left + amount <= Initial[b]
      /\ new \in Row /\ new.left = row[b].left + amount /\ new.expiration = row[b].expiration
    BY <1>2, <1>3, AfterRestoreRow
<1>5. Save(j, b, new, amount)
    BY <1>1
<1> HIDE DEF amount, new
<1> USE <1>1, <1>2 DEF tables
<1>6. /\ CopiesFit'
      /\ DOMAIN copy' = Jobs
      /\ \A i \in Jobs :
           /\ DOMAIN copy'[i] \subseteq Batches
           /\ \A c \in DOMAIN copy'[i] :
                /\ copy'[i][c] \in [row : Row, quantity : Nat]
                /\ c \in DOMAIN copy[i] \/ (i = j /\ c = b)
    BY <1>4, <1>5, SaveFits
<1>7. lock' \in [Batches -> Jobs \union {Free}] /\ queue' \in [Jobs -> SUBSET Batches]
    BY DEF TypeOK
<1>8. TypeOK'
    BY <1>6, <1>7 DEF TypeOK
<1>9. LocksHeld'
    BY DEF LocksHeld, TypeOK, Active
<1>10. CopiesHeld'
    BY <1>6 DEF CopiesHeld, TypeOK, Active
<1>11. NothingReturnedYet' /\ UpdatesCountOnce'
    BY DEF NothingReturnedYet, UpdatesCountOnce, NoLostUpdate, RestoredOnce
<1> QED
    BY <1>6, <1>8, <1>9, <1>10, <1>11

LEMMA CommitVoidLocks ==
    ASSUME LocksInv, NEW j \in Jobs, CommitVoid(j)
    PROVE  LocksInv'
<1> USE RequestFacts DEF LocksInv
<1>1. /\ Kind(j) = "void" /\ pc[j] = "lock" /\ queue[j] = {}
      /\ row' = [b \in Batches |-> Written(j, b)]
      /\ returns' = [b \in Batches |-> returns[b] + Recorded(j, b)]
      /\ voided' = TRUE
      /\ ReleaseLocks(j)
      /\ pc' = [pc EXCEPT ![j] = "done"]
      /\ UNCHANGED <<lines, adjusted>>
    BY DEF CommitVoid, Goto
<1>2. /\ row' \in [Batches -> Row]
      /\ \A b \in Batches :
           /\ b \in DOMAIN copy[j] => row'[b] = copy[j][b].row
           /\ b \notin DOMAIN copy[j] => row'[b] = row[b]
      /\ \A i \in Jobs \ {j}, b \in Batches : b \in DOMAIN copy[i] => row'[b] = row[b]
      /\ \A b \in Batches : Recorded(j, b) \in Nat
    BY <1>1, CommitFacts
<1>3. ~voided /\ saleLock = j /\ \A b \in Batches : returns[b] = 0
    BY <1>1 DEF CopiesHeld, NothingReturnedYet, Active
<1>4. \A i \in Jobs : i # j /\ Kind(i) = "void" => pc[i] \notin Active
    BY <1>3 DEF CopiesHeld
<1> USE <1>1, DeliveredTyped DEF ReleaseLocks
<1>5. TypeOK'
    BY <1>2 DEF TypeOK, EmptyCopy
<1>6. LocksHeld'
    BY DEF LocksHeld, TypeOK, Active
<1>7. CopiesHeld'
    BY <1>4 DEF CopiesHeld, TypeOK, Active, EmptyCopy
<1>8. CopiesFit'
    BY <1>2 DEF CopiesFit, TypeOK, EmptyCopy
<1>9. \A b \in Batches :
        /\ row'[b].left = row[b].left + Recorded(j, b)
        /\ Recorded(j, b) <= Sold[b]
        /\ row'[b].left <= Initial[b]
    BY <1>2 DEF CopiesFit, Recorded, TypeOK, Row, UpdatesCountOnce, RestoredOnce
<1>10. NothingReturnedYet'
    BY <1>2, <1>3 DEF NothingReturnedYet
<1>11. UpdatesCountOnce'
    BY <1>2, <1>3, <1>9 DEF UpdatesCountOnce, NoLostUpdate, RestoredOnce, TypeOK, Row
<1> QED
    BY <1>5, <1>6, <1>7, <1>8, <1>10, <1>11

\* Requests on one row that nobody has locked disturb no copy.
LEMMA SingleRowLocks ==
    ASSUME LocksInv, NEW j \in Jobs, Adjust(j) \/ EditExpiration(j)
    PROVE  LocksInv'
<1> USE RequestFacts DEF LocksInv
<1> DEFINE b == Job[j].batch
<1>1. /\ Kind(j) \in {"adjust", "edit"} /\ pc[j] = "begin" /\ lock[b] = Free
      /\ UNCHANGED <<locks, products, queue, found, batches, needed, copy, voided, lines, returns>>
    BY DEF Adjust, EditExpiration, tables
<1>2. b \in Batches /\ row[b] \in Row
    BY <1>1 DEF TypeOK
<1>3. PICK step \in {"done", "refused"} : pc' = [pc EXCEPT ![j] = step]
    BY DEF Adjust, EditExpiration, Goto
<1>4. /\ \A c \in Batches \ {b} : row'[c] = row[c] /\ adjusted'[c] = adjusted[c]
      /\ row' \in [Batches -> Row] /\ adjusted' \in [Batches -> Int]
      /\ row'[b].left - row[b].left = adjusted[b] - adjusted'[b]
      /\ row'[b].left \in 0..Initial[b]
  <2>1. CASE UNCHANGED <<row, adjusted>>
      BY <1>2, <2>1 DEF TypeOK, Row, UpdatesCountOnce, RestoredOnce
  <2>2. CASE EditExpiration(j)
    <3> DEFINE e == Job[j].expiration
    <3>1. row' = [row EXCEPT ![b] = [row[b] EXCEPT !.expiration = e]] /\ adjusted' = adjusted
        BY <2>2 DEF EditExpiration
    <3>2. e \in Int
        BY <2>2, LocksAssumption DEF EditExpiration, Kind
    <3> HIDE DEF e, b
    <3>3. [row[b] EXCEPT !.expiration = e] \in Row /\ [row[b] EXCEPT !.expiration = e].left = row[b].left
        BY <1>2, <3>2 DEF Row
    <3>4. row[b].left \in 0..Initial[b] /\ row[b].left \in Int
        BY <1>2 DEF Row, UpdatesCountOnce, RestoredOnce
    <3> QED
        BY <1>2, <3>1, <3>3, <3>4 DEF TypeOK
  <2>3. CASE Adjust(j) /\ ~UNCHANGED <<row, adjusted>>
    <3> DEFINE q == Job[j].quantity
    <3> DEFINE new == AfterAdjust(row[b], q, Job[j].writeOff)
    <3>1. ~(\/ row[b].status = "disposed"
            \/ row[b].expiration < Today /\ ~Job[j].writeOff
            \/ q > row[b].left
            \/ row[b].left - q > Initial[b])
        BY <2>3 DEF Adjust, tables
    <3>2. row' = [row EXCEPT ![b] = new] /\ adjusted' = [adjusted EXCEPT ![b] = @ + q]
        BY <2>3 DEF Adjust, tables
    <3>3. row[b].left \in Int /\ q \in Int /\ Initial[b] \in Int
      <4>1. q \in Int
          BY <2>3, LocksAssumption DEF Adjust, Kind
      <4>2. row[b].left \in Int /\ Initial[b] \in Int
        <5> HIDE DEF b
        <5> QED
            BY <1>2 DEF Row
      <4> QED
          BY <4>1, <4>2
    <3>4. row[b].left - q \in 0..Initial[b]
        BY <3>1, <3>3
    <3> HIDE DEF q, b
    <3>5. new \in Row /\ new.left = row[b].left - q
        BY <1>2, <3>3, <3>4, AfterAdjustRow
    <3>6. adjusted[b] \in Int /\ adjusted'[b] = adjusted[b] + q /\ adjusted' \in [Batches -> Int]
        BY <1>2, <3>3, <3>2 DEF TypeOK
    <3> HIDE DEF new
    <3> QED
        BY <1>2, <3>3, <3>2, <3>5, <3>6, <3>4 DEF TypeOK
  <2> QED
      BY <2>1, <2>2, <2>3
<1> HIDE DEF b
<1> USE <1>1, <1>2, <1>3, <1>4 DEF locks
<1>5. TypeOK'
    BY DEF TypeOK
<1>6. LocksHeld'
    BY DEF LocksHeld, TypeOK, Active
<1>7. CopiesHeld'
    BY DEF CopiesHeld, TypeOK, Active
<1>8. CopiesFit'
  <2>1. \A i \in Jobs : \A c \in DOMAIN copy[i] : c \in Batches /\ c # b
      BY DEF CopiesHeld, TypeOK
  <2> QED
      BY <2>1 DEF CopiesFit
<1>9. NothingReturnedYet'
    BY DEF NothingReturnedYet
<1>10. UpdatesCountOnce'
  <2>1. \A c \in Batches : row[c].left \in Int /\ row'[c].left \in Int
      BY DEF TypeOK, Row
  <2>2. \A c \in Batches :
          /\ adjusted[c] \in Int /\ adjusted'[c] \in Int /\ Sold[c] \in Int /\ Initial[c] \in Int
          /\ lines'[c] = lines[c] /\ lines[c] \in Int /\ returns'[c] = returns[c] /\ returns[c] \in Int
      BY DEF TypeOK
  <2>3. \A c \in Batches : row'[c].left - row[c].left = adjusted[c] - adjusted'[c]
    <3> TAKE c \in Batches
    <3>1. CASE c = b
        BY <3>1
    <3>2. CASE c # b
      <4>1. row'[c].left = row[c].left /\ adjusted'[c] = adjusted[c]
          BY <3>2
      <4> QED
          BY <4>1, <2>1, <2>2
    <3> QED
        BY <3>1, <3>2
  <2>4. NoLostUpdate'
    <3> SUFFICES ASSUME NEW c \in Batches
                 PROVE  row'[c].left = Initial[c] - Sold[c] - lines[c] + returns[c] - adjusted'[c]
        BY <2>2 DEF NoLostUpdate
    <3>1. row[c].left = Initial[c] - Sold[c] - lines[c] + returns[c] - adjusted[c]
        BY DEF UpdatesCountOnce, NoLostUpdate
    <3>2. row'[c].left - row[c].left = adjusted[c] - adjusted'[c]
        BY <2>3
    <3>3. /\ row[c].left \in Int /\ row'[c].left \in Int /\ adjusted[c] \in Int /\ adjusted'[c] \in Int
          /\ Sold[c] \in Int /\ Initial[c] \in Int /\ lines[c] \in Int /\ returns[c] \in Int
        BY <2>1, <2>2
    <3> QED
        BY ONLY <3>1, <3>2, <3>3
  <2>5. RestoredOnce'
      BY DEF UpdatesCountOnce, RestoredOnce
  <2> QED
      BY <2>4, <2>5 DEF UpdatesCountOnce
<1> QED
    BY <1>5, <1>6, <1>7, <1>8, <1>9, <1>10

LEMMA NextLocks == LocksInv /\ [Next]_vars => LocksInv'
<1> SUFFICES ASSUME LocksInv, [Next]_vars PROVE LocksInv'
    OBVIOUS
<1>1. ASSUME NEW j \in Jobs, Step(j) PROVE LocksInv'
  <2>1. CASE DeadlockAbort(j)
      BY <2>1, RollbackLocks DEF DeadlockAbort
  <2> QED
      BY <1>1, <2>1, SaleQueryLocks, SaleLoopLocks, CommitSaleLocks, VoidQueryLocks,
         RestoreItemLocks, CommitVoidLocks, SingleRowLocks DEF Step
<1>2. CASE UNCHANGED vars
    BY <1>2 DEF vars, tables, locks, local, LocksInv, TypeOK, LocksHeld, CopiesHeld, CopiesFit,
       NothingReturnedYet, UpdatesCountOnce, NoLostUpdate, RestoredOnce
<1> QED
    BY <1>1, <1>2 DEF Next, Finished

-----------------------------------------------------------------------------
\* A step of one request leaves what the others know and hold as it is.
LEMMA OthersStand ==
    ASSUME LocksInv, NEW j \in Jobs, Step(j), NEW i \in Jobs, i # j
    PROVE  /\ pc'[i] = pc[i] /\ products'[i] = products[i] /\ queue'[i] = queue[i]
           /\ found'[i] = found[i] /\ batches'[i] = batches[i] /\ needed'[i] = needed[i]
           /\ copy'[i] = copy[i]
           /\ \A b \in Batches :
                /\ lock'[b] = i <=> lock[b] = i
                /\ lock[b] = i => row'[b] = row[b]
<1> USE RequestFacts DEF LocksInv
<1>1. CASE \E outcome : Rollback(j, outcome)
    BY <1>1 DEF Rollback, ReleaseLocks, Goto, tables, TypeOK
<1>2. CASE AssignInvoice(j) \/ FindBatches(j) \/ EndLine(j) \/ FindItems(j)
    BY <1>2 DEF AssignInvoice, FindBatches, EndLine, FindItems, Goto, tables, locks, TypeOK
<1>3. CASE LockFound(j)
    BY <1>3 DEF LockFound, Goto, tables, TypeOK
<1>4. CASE TakeBatch(j) \/ RestoreItem(j)
    BY <1>4 DEF TakeBatch, RestoreItem, Save, tables, locks, TypeOK
<1>5. CASE CommitSale(j) \/ CommitVoid(j)
  <2>1. row' = [b \in Batches |-> Written(j, b)] /\ ReleaseLocks(j)
      BY <1>5 DEF CommitSale, CommitVoid
  <2>2. \A b \in Batches : lock[b] = i => row'[b] = row[b]
    <3>1. \A b \in Batches : lock[b] = i => b \notin DOMAIN copy[j]
        BY DEF CopiesHeld
    <3> QED
        BY <2>1, <3>1 DEF Written
  <2>3. pc'[i] = pc[i]
      BY <1>5 DEF CommitSale, CommitVoid, Goto, TypeOK
  <2> QED
      BY <2>1, <2>2, <2>3 DEF ReleaseLocks, TypeOK
<1>6. CASE Adjust(j) \/ EditExpiration(j)
  <2>1. \A b \in Batches : lock[b] = i => b # Job[j].batch
      BY <1>6 DEF Adjust, EditExpiration
  <2>2. \A b \in Batches : b # Job[j].batch => row'[b] = row[b]
      BY <1>6 DEF Adjust, EditExpiration, tables, TypeOK
  <2>3. pc'[i] = pc[i]
      BY <1>6 DEF Adjust, EditExpiration, Goto, TypeOK
  <2>4. UNCHANGED <<locks, products, queue, found, batches, needed, copy>>
      BY <1>6 DEF Adjust, EditExpiration
  <2> QED
      BY <2>1, <2>2, <2>3, <2>4 DEF locks
<1>7. CASE CheckTotal(j) /\ ~\E outcome : Rollback(j, outcome)
    BY <1>7 DEF CheckTotal, Goto, tables, locks, TypeOK
<1>8. CASE LockSale(j) /\ ~\E outcome : Rollback(j, outcome)
    BY <1>8 DEF LockSale, Goto, tables, TypeOK
<1>9. CASE DeadlockAbort(j)
    BY <1>1, <1>9 DEF DeadlockAbort
<1> QED
    BY <1>1, <1>2, <1>3, <1>4, <1>5, <1>6, <1>7, <1>8, <1>9 DEF Step

\* The turns of the others stand as well.
LEMMA TurnStands ==
    ASSUME LocksInv, NEW j \in Jobs, Step(j), NEW i \in Jobs, i # j, LineInTurn(i), HeldIsTaken(i)
    PROVE  LineInTurn(i)' /\ HeldIsTaken(i)'
<1>1. /\ pc'[i] = pc[i] /\ products'[i] = products[i] /\ queue'[i] = queue[i]
      /\ found'[i] = found[i] /\ batches'[i] = batches[i] /\ needed'[i] = needed[i]
      /\ copy'[i] = copy[i]
      /\ \A b \in Batches :
           /\ lock'[b] = i <=> lock[b] = i
           /\ lock[b] = i => row'[b] = row[b]
    BY OthersStand
<1>2. LineInTurn(i)'
    BY <1>1 DEF LineInTurn, IsNextProduct, Before
<1>3. HeldIsTaken(i)'
    BY <1>1 DEF HeldIsTaken, IsNextProduct, Eligible
<1> QED
    BY <1>2, <1>3

\* A released transaction holds nothing.
LEMMA ReleasedTurn ==
    ASSUME TypeOK, NEW j \in Jobs, ReleaseLocks(j)
    PROVE  LineInTurn(j)' /\ HeldIsTaken(j)'
<1>1. /\ \A b \in Batches : lock'[b] # j
      /\ queue'[j] = {} /\ batches'[j] = {}
    BY RequestFacts DEF ReleaseLocks, TypeOK
<1> QED
    BY <1>1 DEF LineInTurn, HeldIsTaken

\* The next row is locked behind all that the sale holds.
LEMMA LockFoundTurn ==
    ASSUME LocksInv, NEW j \in Jobs, LockFound(j), LineInTurn(j), HeldIsTaken(j)
    PROVE  LineInTurn(j)' /\ HeldIsTaken(j)'
<1> USE RequestFacts DEF LocksInv
<1>1. PICK b \in queue[j] :
        /\ IsFirst(j, b, queue[j])
        /\ lock[b] = Free
        /\ lock' = [lock EXCEPT ![b] = j]
        /\ batches' = [batches EXCEPT ![j] = @ \union {c \in {b} : Eligible(Product[c], c, row[c])}]
        /\ queue' = [queue EXCEPT ![j] = @ \ {b}]
    BY DEF LockFound
<1>2. /\ pc[j] = "lock" /\ b \in Batches
      /\ UNCHANGED <<tables, pc, products, found, needed, copy>>
    BY DEF LockFound, TypeOK
<1>3. IsNextProduct(j, Product[b])
    BY <1>1, <1>2 DEF LineInTurn
<1>4. /\ queue'[j] = queue[j] \ {b}
      /\ batches'[j] = batches[j] \union {c \in {b} : Eligible(Product[c], c, row[c])}
      /\ \A c \in Batches : lock'[c] = j <=> (lock[c] = j \/ c = b)
      /\ \A c \in queue[j] \ {b} : Before(found[j], b, c)
    BY <1>1, <1>2 DEF TypeOK, IsFirst
<1>5. LineInTurn(j)'
    BY <1>2, <1>3, <1>4 DEF LineInTurn, IsNextProduct, Before
<1>6. HeldIsTaken(j)'
    BY <1>2, <1>4 DEF HeldIsTaken, IsNextProduct, Eligible, tables
<1> QED
    BY <1>5, <1>6

\* A row that gave less than was needed is empty.
LEMMA TakeBatchTurn ==
    ASSUME LocksInv, NEW j \in Jobs, TakeBatch(j), LineInTurn(j), HeldIsTaken(j)
    PROVE  LineInTurn(j)' /\ HeldIsTaken(j)'
<1> USE RequestFacts DEF LocksInv
<1>1. PICK b \in batches[j] :
        LET take == IF row[b].left <= needed[j] THEN row[b].left ELSE needed[j]
        IN  /\ Save(j, b, AfterTake(row[b], take), take)
            /\ needed' = [needed EXCEPT ![j] = @ - take]
            /\ batches' = [batches EXCEPT ![j] = @ \ {b}]
    BY DEF TakeBatch
<1> DEFINE take == IF row[b].left <= needed[j] THEN row[b].left ELSE needed[j]
<1>2. /\ b \in Batches /\ row[b] \in Row /\ needed[j] \in Nat /\ needed[j] > 0 /\ pc[j] = "take"
      /\ UNCHANGED <<tables, locks, pc, products, queue, found>>
    BY DEF TakeBatch, TypeOK
<1>3. take \in Nat /\ take <= row[b].left
    BY <1>2 DEF Row
<1>4. needed[j] - take > 0 => row[b].left - take = 0
    BY <1>2 DEF Row
<1>5. /\ needed'[j] = needed[j] - take
      /\ batches'[j] = batches[j] \ {b}
      /\ DOMAIN copy'[j] = DOMAIN copy[j] \union {b}
      /\ copy'[j][b].row = AfterTake(row[b], take)
      /\ \A c \in DOMAIN copy[j] \ {b} : copy'[j][c] = copy[j][c]
    BY <1>1 DEF Save, TypeOK
<1>6. AfterTake(row[b], take).left = row[b].left - take
    BY <1>2, <1>3, AfterTakeRow
<1> HIDE DEF take
<1>7. LineInTurn(j)'
    BY <1>2, <1>5 DEF LineInTurn, IsNextProduct, Before, locks
<1>8. HeldIsTaken(j)'
  <2>1. SUFFICES ASSUME NEW c \in Batches,
                        lock[c] = j, IsNextProduct(j, Product[c]), Eligible(Product[c], c, row[c])
                 PROVE  \/ c \in batches'[j]
                        \/ /\ pc[j] = "take" /\ c \in DOMAIN copy'[j]
                           /\ needed'[j] > 0 => copy'[j][c].row.left = 0
      BY <1>2 DEF HeldIsTaken, IsNextProduct, Eligible, locks, tables
  <2>2. CASE c = b
      BY <2>2, <1>2, <1>4, <1>5, <1>6
  <2>3. CASE c # b /\ c \notin batches[j]
    <3>1. c \in DOMAIN copy[j] /\ (needed[j] > 0 => copy[j][c].row.left = 0)
        BY <2>1, <2>3 DEF HeldIsTaken
    <3> QED
        BY <2>3, <3>1, <1>2, <1>5
  <2>4. CASE c # b /\ c \in batches[j]
      BY <2>4, <1>5
  <2> QED
      BY <2>2, <2>3, <2>4
<1> QED
    BY <1>7, <1>8

LEMMA NextTurn == LocksInv /\ TurnInv /\ [Next]_vars => TurnInv'
<1> SUFFICES ASSUME LocksInv, TurnInv, [Next]_vars PROVE TurnInv'
    OBVIOUS
<1> USE RequestFacts DEF LocksInv
<1>1. ASSUME NEW j \in Jobs, Step(j), NEW i \in Jobs, Kind(i) = "sale"
      PROVE  LineInTurn(i)' /\ HeldIsTaken(i)'
  <2>1. CASE i # j
      BY <1>1, <2>1, TurnStands DEF TurnInv
  <2>2. CASE i = j
    <3> USE <2>2
    <3>1. LineInTurn(j) /\ HeldIsTaken(j)
        BY <1>1 DEF TurnInv
    <3>2. CASE \E outcome : Rollback(j, outcome)
        BY <3>2, ReleasedTurn DEF Rollback
    <3>3. CASE CommitSale(j)
        BY <3>3, ReleasedTurn DEF CommitSale
    <3>4. CASE AssignInvoice(j)
      <4>1. /\ pc[j] = "begin" /\ pc'[j] = "query"
            /\ UNCHANGED <<lock, queue, batches>>
          BY <3>4 DEF AssignInvoice, Goto, TypeOK
      <4>2. \A b \in Batches : lock'[b] # j
          BY <4>1 DEF LocksHeld, Active
      <4> QED
          BY <4>1, <4>2 DEF LineInTurn, HeldIsTaken
    <3>5. CASE FindBatches(j)
      <4>1. PICK p \in products[j] :
              /\ IsNextProduct(j, p)
              /\ queue'[j] = {b \in Batches : Eligible(p, b, row[b])}
          BY <3>5 DEF FindBatches, TypeOK
      <4>2. /\ pc[j] = "query" /\ pc'[j] = "lock"
            /\ UNCHANGED <<lock, products, batches>> /\ batches[j] = {}
          BY <3>5 DEF FindBatches, Goto, TypeOK, CopiesHeld, locks
      <4>3. \A b \in Batches : lock'[b] = j => Product[b] \notin products'[j]
          BY <4>2, <3>1 DEF LineInTurn
      <4>4. \A b \in queue'[j] : Product[b] = p
          BY <4>1 DEF Eligible
      <4>5. LineInTurn(j)'
          BY <4>1, <4>2, <4>3, <4>4 DEF LineInTurn, IsNextProduct
      <4>6. HeldIsTaken(j)'
          BY <4>3 DEF HeldIsTaken, IsNextProduct
      <4> QED
          BY <4>5, <4>6
    <3>6. CASE LockFound(j)
        BY <3>1, <3>6, LockFoundTurn
    <3>7. CASE CheckTotal(j) /\ ~\E outcome : Rollback(j, outcome)
      <4>1. /\ pc[j] = "lock" /\ pc'[j] = "take"
            /\ UNCHANGED <<tables, locks, products, queue, found, batches, copy>>
          BY <3>7 DEF CheckTotal, Goto, TypeOK
      <4>2. LineInTurn(j)'
          BY <3>1, <4>1 DEF LineInTurn, IsNextProduct, Before, locks
      <4>3. HeldIsTaken(j)'
          BY <3>1, <4>1 DEF HeldIsTaken, IsNextProduct, Eligible, locks, tables
      <4> QED
          BY <4>2, <4>3
    <3>8. CASE TakeBatch(j)
        BY <3>1, <3>8, TakeBatchTurn
    <3>9. CASE EndLine(j)
      <4>1. PICK p \in products[j] : IsNextProduct(j, p) /\ products'[j] = products[j] \ {p}
          BY <3>9 DEF EndLine, TypeOK
      <4>2. /\ pc[j] = "take" /\ pc'[j] \in {"query", "commit"}
            /\ UNCHANGED <<locks, queue>> /\ queue[j] = {} /\ batches'[j] = {}
          BY <3>9 DEF EndLine, Goto, TypeOK, CopiesHeld
      <4>3. products[j] \subseteq Nat
          BY DEF TypeOK
      <4>4. \A b \in Batches : lock'[b] = j => Product[b] \notin products'[j]
          BY <3>1, <4>1, <4>2, <4>3 DEF LineInTurn, IsNextProduct, locks
      <4> QED
          BY <4>2, <4>4 DEF LineInTurn, HeldIsTaken, IsNextProduct
    <3> QED
        BY <1>1, <3>2, <3>3, <3>4, <3>5, <3>6, <3>7, <3>8, <3>9
        DEF Step, DeadlockAbort, LockSale, FindItems, RestoreItem, CommitVoid, Adjust, EditExpiration
  <2> QED
      BY <2>1, <2>2
<1>2. CASE UNCHANGED vars
  <2> USE <1>2 DEF vars, tables, locks, local
  <2>1. \A i \in Jobs : LineInTurn(i) => LineInTurn(i)'
      BY DEF LineInTurn, IsNextProduct, Before
  <2>2. \A i \in Jobs : HeldIsTaken(i) => HeldIsTaken(i)'
      BY DEF HeldIsTaken, IsNextProduct, Eligible
  <2> QED
      BY <2>1, <2>2 DEF TurnInv
<1>3. CASE \E j \in Jobs : Step(j)
    BY <1>1, <1>3 DEF TurnInv
<1> QED
    BY <1>2, <1>3 DEF Next, Finished

-----------------------------------------------------------------------------
\* The order of the delivered rows, without the rows.
LEMMA PrecedesByDate ==
    \A b, c \in Batches :
        Precedes(b, c) <=>
            \/ Product[b] < Product[c]
            \/ /\ Product[b] = Product[c]
               /\ Expiry[b] < Expiry[c] \/ (Expiry[b] = Expiry[c] /\ b < c)
<1>1. \A b \in Batches : Delivered[b].expiration = Expiry[b]
    BY DEF Delivered
<1> QED
    BY <1>1 DEF Precedes, Before

\* While the dates stand, every query finds the rows in that order.
LEMMA FoundInOrder ==
    ASSUME DatesStand, NEW j \in Jobs, NEW b \in Batches, NEW c \in Batches
    PROVE  Before(found[j], b, c) <=> Precedes(b, c)
BY PrecedesByDate DEF DatesStand, Before

\* No request is answered twice.
LEMMA EditedStays ==
    ASSUME LocksInv, NEW j \in Jobs, Step(j), Edited
    PROVE  Edited'
<1>1. PICK e \in Jobs : Kind(e) = "edit" /\ pc[e] = "done"
    BY DEF Edited
<1>2. ~DeadlockAbort(e)
    BY <1>1 DEF DeadlockAbort, InCycle, Waiting, WaitsFor
<1>3. e # j
    BY <1>1, <1>2 DEF Step, AssignInvoice, FindBatches, LockFound, CheckTotal, TakeBatch, EndLine,
       CommitSale, LockSale, FindItems, RestoreItem, CommitVoid, Adjust, EditExpiration
<1>4. pc'[e] = pc[e]
    BY <1>3, OthersStand
<1> QED
    BY <1>1, <1>4 DEF Edited

\* Only an edit changes a date; a query sees the dates of the committed rows.
LEMMA DatesKept ==
    ASSUME LocksInv, NEW j \in Jobs, Step(j), ~EditExpiration(j), DatesStand
    PROVE  DatesStand'
<1> USE RequestFacts DEF LocksInv
<1>1. \A b \in Batches : Delivered[b].expiration = Expiry[b]
    BY DEF Delivered
<1>2. ASSUME NEW rows, row' = row, found' = [found EXCEPT ![j] = rows],
             \A b \in Batches : rows[b].expiration = Expiry[b]
      PROVE  DatesStand'
  <2>1. found'[j] = rows /\ \A i \in Jobs \ {j} : found'[i] = found[i]
      BY <1>2 DEF TypeOK
  <2>2. \A i \in Jobs, b \in Batches : found'[i][b].expiration = Expiry[b]
    <3> TAKE i \in Jobs, b \in Batches
    <3>1. CASE i = j
        BY <1>2, <2>1, <3>1
    <3>2. CASE i # j
        BY <2>1, <3>2 DEF DatesStand
    <3> QED
        BY <3>1, <3>2
  <2> QED
      BY <1>2, <2>2 DEF DatesStand
<1>3. CASE (\E outcome : Rollback(j, outcome)) \/ FindBatches(j) \/ FindItems(j)
  <2>1. CASE \E outcome : Rollback(j, outcome)
      BY <1>1, <1>2, <2>1 DEF Rollback, ReleaseLocks, tables
  <2>2. CASE FindBatches(j) \/ FindItems(j)
      BY <1>2, <2>2 DEF FindBatches, FindItems, tables, DatesStand
  <2> QED
      BY <1>3, <2>1, <2>2
<1>4. CASE CommitSale(j) \/ CommitVoid(j)
  <2>1. row' = [b \in Batches |-> Written(j, b)] /\ ReleaseLocks(j)
      BY <1>4 DEF CommitSale, CommitVoid
  <2>2. \A b \in Batches : row'[b].expiration = row[b].expiration
      BY <2>1 DEF Written, CopiesFit
  <2>3. \A i \in Jobs, b \in Batches : found'[i][b].expiration \in {found[i][b].expiration, Expiry[b]}
      BY <2>1, <1>1 DEF ReleaseLocks, TypeOK
  <2> QED
      BY <2>2, <2>3 DEF DatesStand
<1>5. CASE Adjust(j)
  <2> DEFINE b == Job[j].batch
  <2> DEFINE q == Job[j].quantity
  <2> DEFINE writeOff == Job[j].writeOff
  <2>1. found' = found
      BY <1>5 DEF Adjust
  <2>2. b \in Batches /\ row[b] \in Row /\ row[b].left \in 0..Initial[b]
      BY <1>5 DEF Adjust, TypeOK, UpdatesCountOnce, RestoredOnce
  <2>3. \/ row' = row
        \/ /\ row' = [row EXCEPT ![b] = AfterAdjust(row[b], q, writeOff)]
           /\ q <= row[b].left
    <3>1. q \in Int
        BY <1>5, LocksAssumption DEF Adjust, Kind
    <3>2. row[b].left \in Int
      <4> HIDE DEF b
      <4> QED
          BY <2>2 DEF Row
    <3> QED
        BY <1>5, <3>1, <3>2 DEF Adjust, tables
  <2>4. q \in Int
      BY <1>5, LocksAssumption DEF Adjust, Kind
  <2> HIDE DEF b, q, writeOff
  <2>5. q <= row[b].left => AfterAdjust(row[b], q, writeOff).expiration = row[b].expiration
    <3>1. row[b].left \in Nat
        BY <2>2 DEF Row
    <3> QED
        BY <2>2, <2>4, <3>1, AfterAdjustRow
  <2>6. \A d \in Batches : row'[d].expiration = row[d].expiration
    <3> DEFINE new == AfterAdjust(row[b], q, writeOff)
    <3> HIDE DEF new
    <3>1. CASE row' = row
        BY <3>1
    <3>2. CASE row' = [row EXCEPT ![b] = new] /\ new.expiration = row[b].expiration
        BY <3>2 DEF TypeOK
    <3> QED
        BY <2>3, <2>5, <3>1, <3>2 DEF new
  <2> QED
      BY <2>1, <2>6 DEF DatesStand
<1>6. CASE /\ ~\E outcome : Rollback(j, outcome)
           /\ \/ AssignInvoice(j) \/ LockFound(j) \/ CheckTotal(j) \/ TakeBatch(j) \/ EndLine(j)
              \/ LockSale(j) \/ RestoreItem(j)
  <2>1. row' = row /\ found' = found
      BY <1>6 DEF AssignInvoice, LockFound, CheckTotal, TakeBatch, EndLine, LockSale, RestoreItem, tables
  <2> QED
      BY <2>1 DEF DatesStand
<1> QED
    BY <1>3, <1>4, <1>5, <1>6 DEF Step, DeadlockAbort

\* A row that is locked comes after those that its job holds, before those that
\* it has found.
LEMMA LocksKeepAscending ==
    ASSUME LocksInv, TurnInv, NEW j \in Jobs, Step(j), DatesStand, LocksAscend,
           NEW b \in Batches, NEW c \in Batches
    PROVE  /\ lock'[b] = j /\ c \in queue'[j] => Precedes(b, c)
           /\ lock'[b] = j /\ Kind(j) = "sale" /\ Product[c] \in products'[j]
                => Product[b] <= Product[c]
<1> USE RequestFacts DEF LocksInv
<1>1. CASE \A d \in Batches : lock'[d] # j
    BY <1>1
<1>2. CASE lock' = lock /\ queue'[j] \subseteq queue[j] /\ products'[j] \subseteq products[j]
    BY <1>2 DEF LocksAscend
<1>3. CASE FindBatches(j)
  <2>1. PICK p \in products[j] : queue'[j] = {d \in Batches : Eligible(p, d, row[d])}
      BY <1>3 DEF FindBatches, TypeOK
  <2>2. /\ Kind(j) = "sale" /\ lock' = lock /\ products' = products
        /\ \A d \in Batches : lock[d] = j => Product[d] \notin products[j]
      BY <1>3 DEF FindBatches, locks, TurnInv, LineInTurn
  <2>3. c \in queue'[j] => Product[c] = p
      BY <2>1 DEF Eligible
  <2>4. lock[b] = j /\ c \in queue'[j] => Product[b] < Product[c]
    <3>1. lock[b] = j /\ c \in queue'[j] => Product[b] <= Product[c] /\ Product[b] # Product[c]
        BY <2>2, <2>3 DEF LocksAscend
    <3> QED
        BY <3>1
  <2> QED
      BY <2>2, <2>4, PrecedesByDate DEF LocksAscend
<1>4. CASE LockFound(j) \/ RestoreItem(j)
  <2>1. PICK d \in queue[j] :
          /\ IsFirst(j, d, queue[j])
          /\ lock' = [lock EXCEPT ![d] = j]
          /\ queue' = [queue EXCEPT ![j] = @ \ {d}]
      BY <1>4 DEF LockFound, RestoreItem
  <2>2. products' = products /\ pc[j] = "lock" /\ d \in Batches
      BY <1>4 DEF LockFound, RestoreItem, TypeOK
  <2>3. /\ queue'[j] = queue[j] \ {d}
        /\ lock'[b] = j <=> (lock[b] = j \/ b = d)
      BY <2>1, <2>2 DEF TypeOK
  <2>4. c \in queue[j] \ {d} => Precedes(d, c)
      BY <2>1, <2>2, FoundInOrder DEF IsFirst
  <2>5. Kind(j) = "sale" /\ Product[c] \in products[j] => Product[d] <= Product[c]
      BY <2>2 DEF TurnInv, LineInTurn, IsNextProduct
  <2> QED
      BY <2>2, <2>3, <2>4, <2>5 DEF LocksAscend
<1>5. ASSUME \E outcome : Rollback(j, outcome)
      PROVE  \A d \in Batches : lock'[d] # j
    BY <1>5 DEF Rollback, ReleaseLocks
<1>6. ASSUME CommitSale(j) \/ CommitVoid(j)
      PROVE  \A d \in Batches : lock'[d] # j
    BY <1>6 DEF CommitSale, CommitVoid, ReleaseLocks
<1>7. ASSUME AssignInvoice(j) \/ FindItems(j)
      PROVE  \A d \in Batches : lock'[d] # j
    BY <1>7 DEF AssignInvoice, FindItems, locks, LocksHeld, Active
<1>8. ASSUME /\ ~\E outcome : Rollback(j, outcome)
             /\ \/ CheckTotal(j) \/ TakeBatch(j) \/ EndLine(j)
                \/ LockSale(j) \/ Adjust(j) \/ EditExpiration(j)
      PROVE  lock' = lock /\ queue'[j] \subseteq queue[j] /\ products'[j] \subseteq products[j]
    BY <1>8 DEF CheckTotal, TakeBatch, EndLine, LockSale, Adjust, EditExpiration, locks, TypeOK
<1> QED
    BY <1>1, <1>2, <1>3, <1>4, <1>5, <1>6, <1>7, <1>8 DEF Step, DeadlockAbort

LEMMA InitOrder == Init => OrderInv
BY RequestFacts DEF Init, OrderInv, DatesStand, LocksAscend, Delivered

LEMMA NextOrder == LocksInv /\ TurnInv /\ OrderInv /\ [Next]_vars => OrderInv'
<1> SUFFICES ASSUME LocksInv, TurnInv, OrderInv, [Next]_vars PROVE OrderInv'
    OBVIOUS
<1>1. ASSUME NEW j \in Jobs, Step(j) PROVE OrderInv'
  <2> SUFFICES ASSUME ~Edited' PROVE DatesStand' /\ LocksAscend'
      BY DEF OrderInv
  <2>1. DatesStand /\ LocksAscend
      BY <1>1, EditedStays DEF OrderInv
  <2>2. ~EditExpiration(j)
    <3>1. EditExpiration(j) => Edited'
        BY DEF EditExpiration, Goto, Edited, Kind, LocksInv, TypeOK
    <3> QED
        BY <3>1
  <2>3. DatesStand'
      BY <1>1, <2>1, <2>2, DatesKept
  <2>4. ASSUME NEW i \in Jobs, NEW b \in Batches, NEW c \in Batches
        PROVE  /\ lock'[b] = i /\ c \in queue'[i] => Precedes(b, c)
               /\ lock'[b] = i /\ Kind(i) = "sale" /\ Product[c] \in products'[i]
                    => Product[b] <= Product[c]
    <3>1. CASE i = j
        BY <1>1, <2>1, <3>1, LocksKeepAscending
    <3>2. CASE i # j
        BY <1>1, <2>1, <3>2, OthersStand DEF LocksAscend
    <3> QED
        BY <3>1, <3>2
  <2>5. LocksAscend'
      BY <2>4 DEF LocksAscend, Precedes, Kind
  <2> QED
      BY <2>3, <2>5
<1>2. CASE UNCHANGED vars
    BY <1>2 DEF vars, tables, locks, local, OrderInv, Edited, DatesStand, LocksAscend
<1> QED
    BY <1>1, <1>2 DEF Next, Finished

-----------------------------------------------------------------------------
LEMMA InitTurn == Init => TurnInv
<1> SUFFICES ASSUME Init, NEW j \in Jobs PROVE LineInTurn(j) /\ HeldIsTaken(j)
    BY DEF TurnInv
<1>1. \A b \in Batches : lock[b] # j
    BY RequestFacts DEF Init
<1> QED
    BY <1>1 DEF Init, LineInTurn, HeldIsTaken

\* The three hold together.
LEMMA LocksInvariant == Spec => [](LocksInv /\ TurnInv /\ OrderInv)
<1>1. Init => LocksInv /\ TurnInv /\ OrderInv
    BY InitLocks, InitTurn, InitOrder
<1>2. LocksInv /\ TurnInv /\ OrderInv /\ [Next]_vars => (LocksInv /\ TurnInv /\ OrderInv)'
    BY NextLocks, NextTurn, NextOrder
<1> QED
    BY <1>1, <1>2, PTL DEF Spec

\* Of some rows one precedes none of the others.
LEMMA LastRow ==
    ASSUME NEW W \in SUBSET Batches, W # {}
    PROVE  \E b \in W : \A c \in W : ~Precedes(b, c)
<1>1. \A b, c, d \in Batches :
        /\ ~Precedes(b, b)
        /\ Precedes(b, c) /\ Precedes(c, d) => Precedes(b, d)
    BY PrecedesByDate, RequestFacts
<1> DEFINE from(b) == {c \in W : c = b \/ Precedes(b, c)}
<1> DEFINE ends == {from(b) : b \in W}
<1>2. ends \subseteq FiniteSubsetsOf(W) /\ ends # {}
  <2>1. IsFiniteSet(W)
      BY FS_Subset, LocksAssumption
  <2>2. \A b \in W : from(b) \in SUBSET W /\ IsFiniteSet(from(b))
      BY <2>1, FS_Subset
  <2> QED
      BY <2>2 DEF FiniteSubsetsOf
<1>3. PICK x \in ends : \A y \in ends : <<y, x>> \notin StrictSubsetOrdering(W)
  <2>1. IsFiniteSet(W)
      BY FS_Subset, LocksAssumption
  <2> HIDE DEF ends
  <2> QED
      BY <1>2, <2>1, FS_StrictSubsetOrderingWellFounded, WFMin, Zenon
<1>4. PICK b \in W : x = from(b)
    OBVIOUS
<1>5. ASSUME NEW c \in W, Precedes(b, c) PROVE FALSE
  <2>1. from(c) \subseteq from(b) /\ b \in from(b) /\ b \notin from(c)
      BY <1>1, <1>5
  <2>2. <<from(c), x>> \in StrictSubsetOrdering(W)
      BY <1>4, <2>1 DEF StrictSubsetOrdering
  <2> QED
      BY <1>3, <2>2
<1> QED
    BY <1>5

\* Who waits at its first statement holds nothing that another could wait for.
LEMMA NobodyWaitsForBeginners ==
    ASSUME LocksInv, NEW i \in Jobs, NEW k \in Jobs, WaitsFor(k, i)
    PROVE  pc[i] \in Active
BY RequestFacts DEF WaitsFor, IsFirst, LocksInv, LocksHeld, TypeOK

\* checkout, deduct_product_batch and void_transaction lock rows in one order:
\* unless a date was edited, no circle of requests waits for each other.
THEOREM NoCircleWithoutEdit == Spec => []NoWaitCycle
<1>1. ASSUME LocksInv, OrderInv, ~Edited, NEW j \in Jobs, InCycle(j)
      PROVE  FALSE
  <2>1. PICK S \in SUBSET Waiting :
          /\ j \in S
          /\ \A i \in S : (\E k \in S : WaitsFor(i, k)) /\ (\E k \in S : WaitsFor(k, i))
      BY <1>1 DEF InCycle
  <2>2. S \subseteq Jobs
      BY DEF Waiting
  <2>3. \A i \in S : pc[i] \in Active
      BY <1>1, <2>1, <2>2, NobodyWaitsForBeginners
  <2> DEFINE Awaits(i, b) == b \in queue[i] /\ IsFirst(i, b, queue[i]) /\ lock[b] \in S
  <2>4. \A i \in S : \E b \in Batches : Awaits(i, b)
    <3> TAKE i \in S
    <3>1. PICK k \in S : WaitsFor(i, k)
        BY <2>1
    <3>2. pc[i] # "begin"
        BY <2>3 DEF Active
    <3>3. PICK b \in queue[i] : IsFirst(i, b, queue[i]) /\ lock[b] = k
        BY <3>1, <3>2 DEF WaitsFor
    <3>4. b \in Batches
        BY <1>1, <2>2, <3>3 DEF LocksInv, TypeOK
    <3> QED
        BY <3>1, <3>3, <3>4
  <2> DEFINE W == {b \in Batches : \E i \in S : Awaits(i, b)}
  <2>5. PICK b \in W : \A c \in W : ~Precedes(b, c)
    <3>1. W \in SUBSET Batches /\ W # {}
        BY <2>1, <2>4
    <3> HIDE DEF W
    <3> QED
        BY <3>1, LastRow
  <2>6. lock[b] \in S /\ b \in Batches
      OBVIOUS
  <2>7. PICK c \in Batches : Awaits(lock[b], c)
      BY <2>4, <2>6
  <2>8. c \in W
      BY <2>6, <2>7
  <2>9. Precedes(b, c)
      BY <1>1, <2>2, <2>6, <2>7 DEF OrderInv, LocksAscend
  <2> QED
      BY <2>5, <2>8, <2>9
<1>2. LocksInv /\ OrderInv => NoWaitCycle
    BY <1>1 DEF NoWaitCycle, Edited
<1> QED
    BY <1>2, LocksInvariant, PTL

\* Every sale line, return and adjustment was computed from the row that it
\* replaces: none is lost, and a cancelled sale is restored once.
THEOREM UpdatesAlwaysCountOnce == Spec => []UpdatesCountOnce
<1>1. LocksInv => UpdatesCountOnce
    BY DEF LocksInv
<1> QED
    BY <1>1, LocksInvariant, PTL

\* deduct_product_batch: what a sale takes from a batch, it could not take from
\* the batches that come earlier, which it leaves empty.
THEOREM EarlierBatchesEmptied == Spec => EarlierFoundEmptied
<1>1. ASSUME LocksInv, TurnInv, [Next]_vars, NEW j \in Jobs, NEW b \in Batches, NEW c \in Batches,
             c \in DOMAIN copy'[j] \ DOMAIN copy[j],
             Kind(j) = "sale",
             lock[b] = j,
             Product[b] = Product[c],
             Eligible(Product[b], b, row[b]),
             \/ found[j][b].expiration < found[j][c].expiration
             \/ found[j][b].expiration = found[j][c].expiration /\ b < c
      PROVE  b \in DOMAIN copy'[j] /\ copy'[j][b].row.left = 0
  <2> USE <1>1 DEF LocksInv
  <2>1. TakeBatch(j)
    <3>1. PICK i \in Jobs : Step(i)
        BY DEF Next, Finished, vars, local
    <3>2. i = j
        BY <3>1, OthersStand
    <3>3. ~ReleaseLocks(j)
        BY DEF ReleaseLocks, TypeOK, EmptyCopy
    <3> QED
        BY <3>1, <3>2, <3>3 DEF Step, AssignInvoice, FindBatches, LockFound, CheckTotal, EndLine,
           CommitSale, LockSale, FindItems, RestoreItem, CommitVoid, Adjust, EditExpiration,
           DeadlockAbort, Rollback
  <2>2. PICK d \in batches[j] : IsFirst(j, d, batches[j]) /\ \E r, q : Save(j, d, r, q)
      BY <2>1 DEF TakeBatch
  <2>3. /\ DOMAIN copy'[j] = DOMAIN copy[j] \union {d}
        /\ \A e \in DOMAIN copy[j] \ {d} : copy'[j][e] = copy[j][e]
      BY <2>2 DEF Save, TypeOK
  <2>4. c = d
      BY <2>3
  <2>5. pc[j] = "take" /\ needed[j] > 0
      BY <2>1 DEF TakeBatch
  <2>6. IsNextProduct(j, Product[b])
      BY <2>2, <2>4, <2>5 DEF TurnInv, LineInTurn
  <2>7. b # c /\ ~Before(found[j], c, b)
    <3>1. found[j][b].expiration \in Int /\ found[j][c].expiration \in Int
        BY DEF TypeOK, Row
    <3> QED
        BY <3>1, RequestFacts DEF Before
  <2>8. b \notin batches[j]
      BY <2>2, <2>4, <2>7 DEF IsFirst
  <2>9. b \in DOMAIN copy[j] /\ copy[j][b].row.left = 0
      BY <2>5, <2>6, <2>8 DEF TurnInv, HeldIsTaken
  <2> QED
      BY <2>3, <2>4, <2>7, <2>9
<1> DEFINE Emptied ==
      \A j \in Jobs, b, c \in Batches :
         /\ c \in DOMAIN copy'[j] \ DOMAIN copy[j]
         /\ Kind(j) = "sale"
         /\ lock[b] = j
         /\ Product[b] = Product[c]
         /\ Eligible(Product[b], b, row[b])
         /\ \/ found[j][b].expiration < found[j][c].expiration
            \/ found[j][b].expiration = found[j][c].expiration /\ b < c
         => b \in DOMAIN copy'[j] /\ copy'[j][b].row.left = 0
<1>2. LocksInv /\ TurnInv /\ [Next]_vars => [Emptied]_vars
    BY <1>1
<1> QED
    BY <1>2, LocksInvariant, PTL DEF Spec, EarlierFoundEmptied
=============================================================================
