------------------------------ MODULE BatchLocks ------------------------------
(***************************************************************************)
(* The row locks under the stock operations of module StockLedger.         *)
(*                                                                         *)
(* Each job is one request and runs in one database transaction, statement *)
(* by statement, concurrently with the others: sales (checkout, which calls*)
(* deduct_product_batch product by product), cancellations of an earlier   *)
(* sale (void_transaction), adjustments and edits of a batch.  A           *)
(* transaction works on copies of the rows it locked (SELECT ... FOR       *)
(* UPDATE), and its copies become visible to the others when it commits.   *)
(*                                                                         *)
(* The database runs at READ COMMITTED: a query finds its rows in the      *)
(* committed state at its start, then locks them one by one in the order   *)
(* found; a row that changed meanwhile is tested again in its new version, *)
(* but rows that match only now are not looked for again.                  *)
(***************************************************************************)
EXTENDS Integers, FiniteSets, FiniteSetsExt

CONSTANTS
    Batches,    \* primary keys, a set of integers
    Product,    \* Product[b]: primary key of the product of b, an integer
    Initial,    \* initial_quantity
    Sold,       \* Sold[b]: quantity of b in the earlier sale that may be voided
    Expiry,     \* expiration_date of each batch at the start
    Today,      \* the business-local date during the requests
    Jobs,       \* the requests
    Job,        \* Job[j]: what request j asks for
    Free        \* no holder

ASSUME LocksAssumption ==
    /\ Batches \subseteq Nat /\ IsFiniteSet(Batches)
    /\ Product \in [Batches -> Nat] /\ Initial \in [Batches -> Nat]
    /\ \A b \in Batches : Sold[b] \in 0..Initial[b]
    /\ Expiry \in [Batches -> Int] /\ Today \in Int
    /\ Free \notin Jobs
    /\ \A j \in Jobs :
         /\ Job[j].kind \in {"sale", "void", "adjust", "edit"}
         /\ Job[j].kind = "sale" => \A b \in Batches : Job[j].cart[Product[b]] \in Nat
         /\ Job[j].kind \in {"adjust", "edit"} => Job[j].batch \in Batches
         /\ Job[j].kind = "adjust" => Job[j].quantity \in Int
         /\ Job[j].kind = "edit" => Job[j].expiration \in Int

Products == {Product[b] : b \in Batches}
Years    == {Job[j].year : j \in {k \in Jobs : Job[k].kind = "sale"}}

VARIABLES
    row,        \* row[b]: the committed row, [left, status, expiration]
    lock,       \* lock[b]: the job that holds the row lock of b
    yearLock,   \* yearLock[y]: holder of the invoice counter row of year y
    saleLock,   \* holder of the Transaction row of the earlier sale
    voided,     \* is_voided of the earlier sale
    lines,      \* lines[b]: sum of the committed sale lines of the jobs
    returns,    \* returns[b]: sum of the committed StockReturns
    adjusted,   \* adjusted[b]: sum of the committed StockAdjustments
    pc,         \* pc[j]: next statement of job j
    products,   \* products[j]: products whose cart line is still to be deducted
    queue,      \* queue[j]: rows found by its current query, still to be locked
    found,      \* found[j]: the committed rows when its query sorted them
    batches,    \* batches[j]: rows its query returned, still to be taken from
    needed,     \* needed[j]: quantity of the line still to be taken
    copy        \* copy[j]: the rows it saved, not committed yet

locks   == <<lock, yearLock, saleLock>>
tables  == <<row, voided, lines, returns, adjusted>>
local   == <<pc, products, queue, found, batches, needed, copy>>
vars    == <<tables, locks, local>>

EmptyCopy == [b \in {} |-> 0]

Row == [left : Nat, status : {"available", "depleted", "disposed"}, expiration : Int]

TypeOK ==
    /\ row \in [Batches -> Row]
    /\ lock \in [Batches -> Jobs \union {Free}]
    /\ yearLock \in [Years -> Jobs \union {Free}]
    /\ saleLock \in Jobs \union {Free}
    /\ voided \in BOOLEAN
    /\ lines \in [Batches -> Int] /\ returns \in [Batches -> Int] /\ adjusted \in [Batches -> Int]
    /\ pc \in [Jobs -> {"begin", "query", "lock", "take", "commit", "done", "refused", "aborted"}]
    /\ products \in [Jobs -> SUBSET Products]
    /\ queue \in [Jobs -> SUBSET Batches] /\ batches \in [Jobs -> SUBSET Batches]
    /\ found \in [Jobs -> [Batches -> Row]]
    /\ needed \in [Jobs -> Nat]
    /\ DOMAIN copy = Jobs
    /\ \A j \in Jobs :
         /\ DOMAIN copy[j] \subseteq Batches
         /\ \A b \in DOMAIN copy[j] : copy[j][b] \in [row : Row, quantity : Nat]

\* The rows after the earlier sale.
Delivered ==
    [b \in Batches |->
        [left |-> Initial[b] - Sold[b],
         status |-> IF Initial[b] = Sold[b] THEN "depleted" ELSE "available",
         expiration |-> Expiry[b]]]

Init ==
    /\ row = Delivered
    /\ lock = [b \in Batches |-> Free]
    /\ yearLock = [y \in Years |-> Free]
    /\ saleLock = Free
    /\ voided = FALSE
    /\ lines = [b \in Batches |-> 0]
    /\ returns = [b \in Batches |-> 0]
    /\ adjusted = [b \in Batches |-> 0]
    /\ pc = [j \in Jobs |-> "begin"]
    /\ products = [j \in Jobs |-> {}]
    /\ queue = [j \in Jobs |-> {}]
    /\ found = [j \in Jobs |-> Delivered]
    /\ batches = [j \in Jobs |-> {}]
    /\ needed = [j \in Jobs |-> 0]
    /\ copy = [j \in Jobs |-> EmptyCopy]

-----------------------------------------------------------------------------
Goto(j, step) == pc' = [pc EXCEPT ![j] = step]

Kind(j) == Job[j].kind

\* The end of a transaction, COMMIT or ROLLBACK, releases every lock it holds.
ReleaseLocks(j) ==
    /\ lock' = [b \in Batches |-> IF lock[b] = j THEN Free ELSE lock[b]]
    /\ yearLock' = [y \in Years |-> IF yearLock[y] = j THEN Free ELSE yearLock[y]]
    /\ saleLock' = IF saleLock = j THEN Free ELSE saleLock
    /\ products' = [products EXCEPT ![j] = {}]
    /\ queue' = [queue EXCEPT ![j] = {}]
    /\ found' = [found EXCEPT ![j] = Delivered]
    /\ batches' = [batches EXCEPT ![j] = {}]
    /\ needed' = [needed EXCEPT ![j] = 0]
    /\ copy' = [copy EXCEPT ![j] = EmptyCopy]

\* Mutation: a request that cannot be served is tried again.
RollbackAndRetry(j, outcome) ==
    /\ ReleaseLocks(j)
    /\ Goto(j, "begin")
    /\ UNCHANGED tables

Rollback(j, outcome) ==
    /\ ReleaseLocks(j)
    /\ Goto(j, outcome)
    /\ UNCHANGED tables

\* The WHERE clause of deduct_product_batch; all batches here were received.
Eligible(p, b, r) ==
    /\ Product[b] = p
    /\ r.status = "available"
    /\ r.expiration >= Today

\* ORDER BY (product,) expiration_date, pk on the given rows.
Before(rows, b, c) ==
    \/ Product[b] < Product[c]
    \/ /\ Product[b] = Product[c]
       /\ \/ rows[b].expiration < rows[c].expiration
          \/ rows[b].expiration = rows[c].expiration /\ b < c

\* Mutation: the rows come in the opposite order.
IsLast(j, b, S) == b \in S /\ \A c \in S \ {b} : Before(found[j], c, b)

\* Row b is the first of the rows S in the order in which the query of j found them.
IsFirst(j, b, S) == b \in S /\ \A c \in S \ {b} : Before(found[j], b, c)

\* Job j saves row b as r, and with it a sale line or return of that quantity.
Save(j, b, r, q) ==
    copy' = [copy EXCEPT ![j] =
               [c \in DOMAIN @ \union {b} |-> IF c = b THEN [row |-> r, quantity |-> q] ELSE @[c]]]

\* What job j commits: its copies, and the quantities it recorded.
Written(j, b)  == IF b \in DOMAIN copy[j] THEN copy[j][b].row ELSE row[b]
Recorded(j, b) == IF b \in DOMAIN copy[j] THEN copy[j][b].quantity ELSE 0

-----------------------------------------------------------------------------
(***************************************************************************)
(* A sale.                                                                 *)
(***************************************************************************)

\* assign_invoice locks the counter row of the sale's year first.
AssignInvoice(j) ==
    /\ Kind(j) = "sale"
    /\ pc[j] = "begin"
    /\ yearLock[Job[j].year] = Free
    /\ yearLock' = [yearLock EXCEPT ![Job[j].year] = j]
    /\ products' = [products EXCEPT ![j] = {p \in Products : Job[j].cart[p] > 0}]
    /\ Goto(j, "query")
    /\ UNCHANGED <<tables, lock, saleLock, queue, found, batches, needed, copy>>

\* The products of a cart are deducted in the order of their keys.
IsNextProduct(j, p) == p \in products[j] /\ \A q \in products[j] : p <= q

\* The query of deduct_product_batch finds and sorts its rows.
FindBatches(j) ==
    /\ Kind(j) = "sale"
    /\ pc[j] = "query"
    /\ \E p \in products[j] :
         /\ IsNextProduct(j, p)
         /\ queue' = [queue EXCEPT ![j] = {b \in Batches : Eligible(p, b, row[b])}]
    /\ found' = [found EXCEPT ![j] = row]
    /\ Goto(j, "lock")
    /\ UNCHANGED <<tables, locks, products, batches, needed, copy>>

\* Mutation: the query has no FOR UPDATE.
ReadFound(j) ==
    /\ Kind(j) = "sale"
    /\ pc[j] = "lock"
    /\ \E b \in queue[j] :
         /\ IsFirst(j, b, queue[j])
         /\ batches' = [batches EXCEPT ![j] = @ \union {b}]
         /\ queue' = [queue EXCEPT ![j] = @ \ {b}]
    /\ UNCHANGED <<tables, locks, pc, products, found, needed, copy>>

\* ... and locks them; a row that no longer matches is not returned.
LockFound(j) ==
    /\ Kind(j) = "sale"
    /\ pc[j] = "lock"
    /\ \E b \in queue[j] :
         /\ IsFirst(j, b, queue[j])
         /\ lock[b] = Free
         /\ lock' = [lock EXCEPT ![b] = j]
         /\ batches' = [batches EXCEPT ![j] =
                          @ \union {c \in {b} : Eligible(Product[c], c, row[c])}]
         /\ queue' = [queue EXCEPT ![j] = @ \ {b}]
    /\ UNCHANGED <<tables, yearLock, saleLock, pc, products, found, needed, copy>>

\* total_available of the rows that were returned.
TotalAvailable(j) == MapThenSumSet(LAMBDA b : row[b].left, batches[j])

\* The line is refused, or the loop over the rows begins.
CheckTotal(j) ==
    /\ Kind(j) = "sale"
    /\ pc[j] = "lock"
    /\ queue[j] = {}
    /\ \E p \in products[j] :
         /\ IsNextProduct(j, p)
         /\ IF TotalAvailable(j) < Job[j].cart[p] THEN Rollback(j, "refused")
            ELSE /\ needed' = [needed EXCEPT ![j] = Job[j].cart[p]]
                 /\ Goto(j, "take")
                 /\ UNCHANGED <<tables, locks, products, queue, found, batches, copy>>

AfterTake(r, take) ==
    [r EXCEPT !.left = @ - take,
              !.status = IF r.left = take THEN "depleted" ELSE @]

\* One turn of the loop: the next row gives what it has, or what is needed.
TakeBatch(j) ==
    /\ Kind(j) = "sale"
    /\ pc[j] = "take"
    /\ needed[j] > 0
    /\ \E b \in batches[j] :
         /\ IsFirst(j, b, batches[j])
         /\ LET take == IF row[b].left <= needed[j] THEN row[b].left ELSE needed[j]
            IN  /\ Save(j, b, AfterTake(row[b], take), take)
                /\ needed' = [needed EXCEPT ![j] = @ - take]
         /\ batches' = [batches EXCEPT ![j] = @ \ {b}]
    /\ UNCHANGED <<tables, locks, pc, products, queue, found>>

\* The loop ends, and with it the line of the product.
EndLine(j) ==
    /\ Kind(j) = "sale"
    /\ pc[j] = "take"
    /\ needed[j] = 0 \/ batches[j] = {}
    /\ \E p \in products[j] :
         /\ IsNextProduct(j, p)
         /\ products' = [products EXCEPT ![j] = @ \ {p}]
         /\ Goto(j, IF products[j] = {p} THEN "commit" ELSE "query")
    /\ batches' = [batches EXCEPT ![j] = {}]
    /\ needed' = [needed EXCEPT ![j] = 0]
    /\ UNCHANGED <<tables, locks, queue, found, copy>>

CommitSale(j) ==
    /\ Kind(j) = "sale"
    /\ pc[j] = "commit"
    /\ row' = [b \in Batches |-> Written(j, b)]
    /\ lines' = [b \in Batches |-> lines[b] + Recorded(j, b)]
    /\ ReleaseLocks(j)
    /\ Goto(j, "done")
    /\ UNCHANGED <<voided, returns, adjusted>>

-----------------------------------------------------------------------------
(***************************************************************************)
(* A cancellation, from the order or the transaction route.                *)
(***************************************************************************)

LockSale(j) ==
    /\ Kind(j) = "void"
    /\ pc[j] = "begin"
    /\ saleLock = Free
    /\ IF voided THEN Rollback(j, "refused")
       ELSE /\ saleLock' = j
            /\ Goto(j, "query")
            /\ UNCHANGED <<tables, lock, yearLock, products, queue, found, batches, needed, copy>>

\* Mutation: the latest dates come first.
FindItemsBackwards(j) ==
    /\ Kind(j) = "void"
    /\ pc[j] = "query"
    /\ queue' = [queue EXCEPT ![j] = {b \in Batches : Sold[b] > 0}]
    /\ found' = [found EXCEPT ![j] = [b \in Batches |-> [row[b] EXCEPT !.expiration = -@]]]
    /\ Goto(j, "lock")
    /\ UNCHANGED <<tables, locks, products, batches, needed, copy>>

\* The items of the sale, sorted by the batches that will be locked.
FindItems(j) ==
    /\ Kind(j) = "void"
    /\ pc[j] = "query"
    /\ queue' = [queue EXCEPT ![j] = {b \in Batches : Sold[b] > 0}]
    /\ found' = [found EXCEPT ![j] = row]
    /\ Goto(j, "lock")
    /\ UNCHANGED <<tables, locks, products, batches, needed, copy>>

Restored(b, r) ==
    IF r.status = "disposed" \/ r.expiration < Today THEN 0
    ELSE IF Sold[b] <= Initial[b] - r.left THEN Sold[b] ELSE Initial[b] - r.left

AfterRestore(r, amount) ==
    [r EXCEPT !.left = @ + amount,
              !.status = IF amount > 0 /\ @ = "depleted" THEN "available" ELSE @]

\* One turn of the loop: lock the batch, read it, put the stock back.
RestoreItem(j) ==
    /\ Kind(j) = "void"
    /\ pc[j] = "lock"
    /\ \E b \in queue[j] :
         /\ IsFirst(j, b, queue[j])
         /\ lock[b] = Free
         /\ lock' = [lock EXCEPT ![b] = j]
         /\ LET amount == Restored(b, row[b])
            IN  Save(j, b, AfterRestore(row[b], amount), amount)
         /\ queue' = [queue EXCEPT ![j] = @ \ {b}]
    /\ UNCHANGED <<tables, yearLock, saleLock, pc, products, found, batches, needed>>

CommitVoid(j) ==
    /\ Kind(j) = "void"
    /\ pc[j] = "lock"
    /\ queue[j] = {}
    /\ row' = [b \in Batches |-> Written(j, b)]
    /\ returns' = [b \in Batches |-> returns[b] + Recorded(j, b)]
    /\ voided' = TRUE
    /\ ReleaseLocks(j)
    /\ Goto(j, "done")
    /\ UNCHANGED <<lines, adjusted>>

-----------------------------------------------------------------------------
(***************************************************************************)
(* Transactions on a single batch row: they wait for its lock while        *)
(* holding none, read the row and commit, so each is one step.             *)
(***************************************************************************)

AfterAdjust(r, q, writeOff) ==
    [r EXCEPT !.left = r.left - q,
              !.status = IF r.left = q THEN IF writeOff THEN "disposed" ELSE "depleted"
                         ELSE IF r.status = "depleted" THEN "available" ELSE r.status]

Adjust(j) ==
    /\ Kind(j) = "adjust"
    /\ pc[j] = "begin"
    /\ lock[Job[j].batch] = Free
    /\ LET b == Job[j].batch
           q == Job[j].quantity
       IN  IF \/ row[b].status = "disposed"
              \/ row[b].expiration < Today /\ ~Job[j].writeOff
              \/ q > row[b].left
              \/ row[b].left - q > Initial[b]
           THEN UNCHANGED tables /\ Goto(j, "refused")
           ELSE /\ row' = [row EXCEPT ![b] = AfterAdjust(row[b], q, Job[j].writeOff)]
                /\ adjusted' = [adjusted EXCEPT ![b] = @ + q]
                /\ Goto(j, "done")
                /\ UNCHANGED <<voided, lines, returns>>
    /\ UNCHANGED <<locks, products, queue, found, batches, needed, copy>>

\* ProdBatchSerializer.update moves the expiration date of a batch.
EditExpiration(j) ==
    /\ Kind(j) = "edit"
    /\ pc[j] = "begin"
    /\ lock[Job[j].batch] = Free
    /\ row' = [row EXCEPT ![Job[j].batch].expiration = Job[j].expiration]
    /\ Goto(j, "done")
    /\ UNCHANGED <<voided, lines, returns, adjusted, locks, products, queue, found, batches, needed, copy>>

-----------------------------------------------------------------------------
\* Job j waits for a row that job k has locked.
WaitsFor(j, k) ==
    \/ pc[j] = "lock" /\ \E b \in queue[j] : IsFirst(j, b, queue[j]) /\ lock[b] = k
    \/ pc[j] = "begin" /\ Kind(j) = "sale" /\ yearLock[Job[j].year] = k
    \/ pc[j] = "begin" /\ Kind(j) = "void" /\ saleLock = k

Waiting == {j \in Jobs : \E k \in Jobs : WaitsFor(j, k)}

\* Job j is one of a set of jobs that wait for each other: as each waits for one
\* only, those are circles.
InCycle(j) ==
    \E S \in SUBSET Waiting :
        /\ j \in S
        /\ \A i \in S : (\E k \in S : WaitsFor(i, k)) /\ (\E k \in S : WaitsFor(k, i))

\* The database breaks a cycle of waiting transactions by aborting one of them.
DeadlockAbort(j) ==
    /\ InCycle(j)
    /\ Rollback(j, "aborted")

Step(j) ==
    \/ AssignInvoice(j)
    \/ FindBatches(j)
    \/ LockFound(j)
    \/ CheckTotal(j)
    \/ TakeBatch(j)
    \/ EndLine(j)
    \/ CommitSale(j)
    \/ LockSale(j)
    \/ FindItems(j)
    \/ RestoreItem(j)
    \/ CommitVoid(j)
    \/ Adjust(j)
    \/ EditExpiration(j)
    \/ DeadlockAbort(j)

\* Every request has been answered.
Finished ==
    /\ \A j \in Jobs : pc[j] \in {"done", "refused", "aborted"}
    /\ UNCHANGED vars

Next == (\E j \in Jobs : Step(j)) \/ Finished

Spec == Init /\ [][Next]_vars

\* As long as some request can take a step, some request does: the threads keep
\* running, a released lock is granted and a circle of waits is broken.
FairSpec == Spec /\ WF_vars(\E j \in Jobs : Step(j))

-----------------------------------------------------------------------------
\* No update is lost: however the statements of sales, cancellations and
\* adjustments interleave, the committed stock of a batch is its delivery less
\* all committed sale lines and adjustments, plus what was returned.  Each of
\* them writes back an absolute quantity it read under the row lock.
NoLostUpdate ==
    \A b \in Batches :
        row[b].left = Initial[b] - Sold[b] - lines[b] + returns[b] - adjusted[b]

\* Two cancellations of one sale, over the order and the transaction route,
\* never return more than the sale took ("cannot restore the same stock
\* twice", void_transaction), and no batch ends above its delivery.
RestoredOnce ==
    \A b \in Batches : returns[b] <= Sold[b] /\ row[b].left \in 0..Initial[b]

\* Every update counts, and counts once: both of the above.
UpdatesCountOnce == NoLostUpdate /\ RestoredOnce

\* Sales, cancellations and adjustments never wait for each other in a circle:
\* the invoice counter first, then products in key order, then batches in FEFO
\* order (checkout, deduct_product_batch and void_transaction).  It takes an
\* edit of an expiration date to break this.
NoWaitCycle ==
    \A j \in Jobs : InCycle(j) =>
        \E e \in Jobs : Kind(e) = "edit" /\ pc[e] = "done"

\* A sale takes from a batch only when it empties every batch that came earlier
\* in its query and that is still eligible once locked (the loop of
\* deduct_product_batch over rows tested again after a wait).
EarlierFoundEmptied ==
    [][\A j \in Jobs, b, c \in Batches :
         /\ c \in DOMAIN copy'[j] \ DOMAIN copy[j]
         /\ Kind(j) = "sale"
         /\ lock[b] = j
         /\ Product[b] = Product[c]
         /\ Eligible(Product[b], b, row[b])
         /\ \/ found[j][b].expiration < found[j][c].expiration
            \/ found[j][b].expiration = found[j][c].expiration /\ b < c
         => b \in DOMAIN copy'[j] /\ copy'[j][b].row.left = 0]_vars

\* Every request is answered: a cycle that an edit causes is broken, and all
\* locks are released by commit, refusal and abort alike.
EveryJobEnds ==
    <>(\A j \in Jobs : pc[j] \in {"done", "refused", "aborted"})
=============================================================================
