--------------------------- MODULE KeyedSubmission ---------------------------
(***************************************************************************)
(* Submitting sales and stock adjustments with a request ID: submit_sale   *)
(* (checkout and order routes), encode_transaction and                     *)
(* submit_stock_adjustment, each running concurrently with its retries.    *)
(*                                                                         *)
(* A submission validates its input, begins a transaction, takes the       *)
(* advisory lock of its request ID, looks for an earlier use of the ID,    *)
(* takes the row locks of the write (the yearly invoice counter, then the  *)
(* batches), and commits the write together with the replay record.        *)
(* A worker may die at any point before the commit: the database rolls the *)
(* transaction back and releases its locks.                                *)
(***************************************************************************)
EXTENDS SubmissionService

CONSTANT None   \* no holder of a lock

ASSUME NoneAssumption == None \notin Requests

VARIABLES
    pc,         \* pc[r]: the next step of submission r
    keyLock,    \* keyLock[r]: r holds the advisory lock of its request ID
    rowLock     \* holder of the row locks of a sale or an adjustment

submissionVars == <<serviceVars, pc, keyLock, rowLock>>

Steps == {"idle", "validate", "precheck", "lock", "lookup", "rows", "commit", "done"}

SubmissionTypeOK ==
    /\ sellable \in BOOLEAN
    /\ stock \in 0..Units
    /\ ledger \subseteq [by : Requests, of : Attempts]
    /\ asked \in [Requests -> Attempts \union {Unasked}]
    /\ reply \in [Requests -> {"none", "created", "replayed", "conflict",
                               "insufficient", "invalid", "lost"}]
    /\ pc \in [Requests -> Steps]
    /\ keyLock \in [Requests -> BOOLEAN]
    /\ rowLock \in Requests \union {None}

SubmissionInit ==
    /\ ServiceInit
    /\ pc = [r \in Requests |-> "idle"]
    /\ keyLock = [r \in Requests |-> FALSE]
    /\ rowLock = None

Goto(r, step) == pc' = [pc EXCEPT ![r] = step]

\* Mutation: the advisory lock outlives the transaction (a session lock).
AnswerHolding(r, value) ==
    /\ reply' = [reply EXCEPT ![r] = value]
    /\ Goto(r, "done")
    /\ rowLock' = IF rowLock = r THEN None ELSE rowLock
    /\ UNCHANGED keyLock

\* Commit or rollback: the answer is sent and every lock of r is released.
Answer(r, value) ==
    /\ reply' = [reply EXCEPT ![r] = value]
    /\ Goto(r, "done")
    /\ keyLock' = [keyLock EXCEPT ![r] = FALSE]
    /\ rowLock' = IF rowLock = r THEN None ELSE rowLock

-----------------------------------------------------------------------------
Send(r, a) ==
    /\ pc[r] = "idle"
    /\ Ask(r, a)
    /\ Goto(r, "validate")
    /\ UNCHANGED <<keyLock, rowLock>>

\* The views resolve customer and products among the active ones, before any
\* lookup of the request ID.  Adjustments of an admin have no such filter.
Validate(r) ==
    /\ pc[r] = "validate"
    /\ IF ~sellable /\ asked[r].kind # "adjustment"
       THEN Answer(r, "invalid")
       ELSE /\ Goto(r, IF asked[r].key = NoKey THEN "rows"
                       ELSE IF asked[r].kind = "encoding" THEN "precheck" ELSE "lock")
            /\ UNCHANGED <<reply, keyLock, rowLock>>
    /\ UNCHANGED <<sellable, stock, ledger, asked>>

\* Mutation: each route looks for the request ID among its own submissions.
PreviousOnRoute(r) ==
    {w \in ledger : SameKey(w.of, asked[r]) /\ w.of.kind = asked[r].kind}

\* The committed writes that already used the request ID of r.
Previous(r) == {w \in ledger : SameKey(w.of, asked[r])}

\* _replayed, and its counterparts: the original when user, endpoint and
\* fingerprint agree, 409 otherwise.
AnswerPrevious(r) ==
    Answer(r, IF \E w \in Previous(r) : w.of = asked[r] THEN "replayed" ELSE "conflict")

\* encode_transaction looks for the ID once before its transaction.
Precheck(r) ==
    /\ pc[r] = "precheck"
    /\ IF Previous(r) # {} THEN AnswerPrevious(r)
       ELSE Goto(r, "lock") /\ UNCHANGED <<reply, keyLock, rowLock>>
    /\ UNCHANGED <<sellable, stock, ledger, asked>>

\* Mutation: the request goes on without waiting for the lock.
AcquireKeyUnlocked(r) ==
    /\ pc[r] = "lock"
    /\ Goto(r, "lookup")
    /\ UNCHANGED <<serviceVars, keyLock, rowLock>>

\* pg_advisory_xact_lock: blocks while another submission of the ID holds it.
AcquireKey(r) ==
    /\ pc[r] = "lock"
    /\ \A o \in Requests : keyLock[o] => ~SameKey(asked[o], asked[r])
    /\ keyLock' = [keyLock EXCEPT ![r] = TRUE]
    /\ Goto(r, "lookup")
    /\ UNCHANGED <<serviceVars, rowLock>>

Lookup(r) ==
    /\ pc[r] = "lookup"
    /\ IF Previous(r) # {} THEN AnswerPrevious(r)
       ELSE Goto(r, "rows") /\ UNCHANGED <<reply, keyLock, rowLock>>
    /\ UNCHANGED <<sellable, stock, ledger, asked>>

\* The row locks are taken, then the stock is read; too little of it raises
\* and rolls everything back.
AcquireRows(r) ==
    /\ pc[r] = "rows"
    /\ rowLock = None
    /\ IF stock < asked[r].qty
       THEN Answer(r, "insufficient")
       ELSE /\ rowLock' = r
            /\ Goto(r, "commit")
            /\ UNCHANGED <<reply, keyLock>>
    /\ UNCHANGED <<sellable, stock, ledger, asked>>

\* The write and the replay record become visible together.  The unique
\* constraints on the request ID turn a duplicate into an IntegrityError: the
\* write is rolled back, and encode_transaction answers from the winner.
Commit(r) ==
    /\ pc[r] = "commit"
    /\ IF Previous(r) = {}
       THEN /\ stock' = stock - asked[r].qty
            /\ ledger' = ledger \union {[by |-> r, of |-> asked[r]]}
            /\ Answer(r, "created")
       ELSE /\ IF asked[r].kind = "encoding" THEN AnswerPrevious(r) ELSE Answer(r, "lost")
            /\ UNCHANGED <<stock, ledger>>
    /\ UNCHANGED <<sellable, asked>>

\* The worker or its database connection dies before the commit.
Crash(r) ==
    /\ pc[r] \notin {"idle", "done"}
    /\ Answer(r, "lost")
    /\ UNCHANGED <<sellable, stock, ledger, asked>>

\* Deactivating or reactivating a product or customer.
ToggleActive ==
    /\ sellable' = ~sellable
    /\ UNCHANGED <<stock, ledger, asked, reply, pc, keyLock, rowLock>>

\* A delivery, in a transaction of its own.
Restock ==
    /\ rowLock = None
    /\ stock < Units
    /\ stock' = Units
    /\ UNCHANGED <<sellable, ledger, asked, reply, pc, keyLock, rowLock>>

Serve(r) ==
    \/ Validate(r)
    \/ Precheck(r)
    \/ AcquireKey(r)
    \/ Lookup(r)
    \/ AcquireRows(r)
    \/ Commit(r)

SubmissionNext ==
    \/ \E r \in Requests :
         \/ \E a \in Attempts : Send(r, a)
         \/ Serve(r)
         \/ Crash(r)
    \/ ToggleActive
    \/ Restock

SubmissionSpec == SubmissionInit /\ [][SubmissionNext]_submissionVars

\* As long as some submission can take a step, some submission does: workers
\* keep running and PostgreSQL grants a free lock to a waiter.
FairSubmissionSpec == SubmissionSpec /\ WF_submissionVars(\E r \in Requests : Serve(r))

-----------------------------------------------------------------------------
\* The atomic service, seen through the committed rows and the answers: program
\* counters and locks are hidden, uncommitted writes are no part of it.
Service == INSTANCE SubmissionService
             WITH sellable <- sellable, stock <- stock, ledger <- ledger,
                  asked <- asked, reply <- reply

\* The detailed protocol implements the atomic service: every answer agrees
\* with the committed state at one instant, and nothing a rolled back
\* submission did is ever visible.  In particular a concurrent retry is
\* answered with the original sale also when that sale took the last stock.
ImplementsService == Service!ServiceSpec

\* A request ID takes effect once: no two committed sales of one account share
\* an ID over the checkout and order routes, no two encodings share one at
\* all, no two adjustments of one account share one.
KeyTakesEffectOnce ==
    \A v, w \in ledger :
        /\ v.of.key # NoKey
        /\ v.of.key = w.of.key
        /\ \/ v.of.kind = "encoding" /\ w.of.kind = "encoding"
           \/ /\ v.of.user = w.of.user
              /\ \/ v.of.kind = w.of.kind
                 \/ v.of.kind = "checkout" /\ w.of.kind = "order"
        => v = w

\* Every submission that is not cut off by a crash is answered: the advisory
\* lock and the row locks are always taken in that order, so retries, other
\* keys and unkeyed writers cannot wait for each other in a circle.
EveryRequestAnswered ==
    []<>(\A r \in Requests : pc[r] \in {"idle", "done"})
=============================================================================
