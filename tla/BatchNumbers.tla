---------------------------- MODULE BatchNumbers ----------------------------
(***************************************************************************)
(* Monthly batch numbers: ProdBatchSerializer.create and next_sequence     *)
(* inside the transaction of a delivery, statement by statement.           *)
(***************************************************************************)
EXTENDS Integers, Sequences

CONSTANTS
    Deliveries,     \* requests that receive a batch
    Months,         \* months of the calendar, 1..n
    Nobody          \* no holder of a row lock

ASSUME BatchAssumption == Months \subseteq Nat /\ 1 \in Months /\ Nobody \notin Deliveries

VARIABLES
    month,      \* the month of the clock
    seq,        \* seq[k]: last_seq of the committed row, 0 without one
    lock,       \* lock[k]: the delivery that holds or inserts the row of month k
    batches,    \* the batch numbers committed, in order
    stage,      \* stage[d]: next statement of delivery d
    captured,   \* captured[d]: the month of its business_date
    allotted    \* allotted[d]: its uncommitted sequence number

batchVars == <<month, seq, lock, batches, stage, captured, allotted>>

BatchInit ==
    /\ month = 1
    /\ seq = [k \in Months |-> 0]
    /\ lock = [k \in Months |-> Nobody]
    /\ batches = <<>>
    /\ stage = [d \in Deliveries |-> "begin"]
    /\ captured = [d \in Deliveries |-> 1]
    /\ allotted = [d \in Deliveries |-> 0]

\* create reads the date once, for the sequence and for the number.
Begin(d) ==
    /\ stage[d] = "begin"
    /\ captured' = [captured EXCEPT ![d] = month]
    /\ stage' = [stage EXCEPT ![d] = "row"]
    /\ UNCHANGED <<month, seq, lock, batches, allotted>>

\* Mutation: the row is read without its lock.
AllotUnlocked(d) ==
    /\ stage[d] = "row"
    /\ allotted' = [allotted EXCEPT ![d] = seq[captured[d]] + 1]
    /\ stage' = [stage EXCEPT ![d] = "save"]
    /\ UNCHANGED <<month, seq, lock, batches, captured>>

\* get_or_create locks the row of the month, or inserts it; either waits for a
\* delivery that has it.  A lost race for the insertion ends in the same place:
\* get_or_create, and next_sequence after it, look for the row again.
Allot(d) ==
    /\ stage[d] = "row"
    /\ lock[captured[d]] = Nobody
    /\ lock' = [lock EXCEPT ![captured[d]] = d]
    /\ allotted' = [allotted EXCEPT ![d] = seq[captured[d]] + 1]
    /\ stage' = [stage EXCEPT ![d] = "save"]
    /\ UNCHANGED <<month, seq, batches, captured>>

BatchNumber(d) == <<captured[d], allotted[d]>>

Unlock(d) == lock' = [lock EXCEPT ![captured[d]] = IF @ = d THEN Nobody ELSE @]

\* The batch is saved and committed; batch_number is unique, a second one fails.
CommitBatch(d) ==
    /\ stage[d] = "save"
    /\ IF \E i \in DOMAIN batches : batches[i] = BatchNumber(d)
       THEN /\ stage' = [stage EXCEPT ![d] = "duplicate"]
            /\ UNCHANGED <<seq, batches>>
       ELSE /\ stage' = [stage EXCEPT ![d] = "received"]
            /\ batches' = Append(batches, BatchNumber(d))
            /\ seq' = [seq EXCEPT ![captured[d]] = allotted[d]]
    /\ Unlock(d)
    /\ UNCHANGED <<month, captured, allotted>>

\* The delivery is refused or its worker dies: the number is rolled back.
AbandonBatch(d) ==
    /\ stage[d] \in {"row", "save"}
    /\ stage' = [stage EXCEPT ![d] = "abandoned"]
    /\ Unlock(d)
    /\ UNCHANGED <<month, seq, batches, captured, allotted>>

NextMonth ==
    /\ month + 1 \in Months
    /\ month' = month + 1
    /\ UNCHANGED <<seq, lock, batches, stage, captured, allotted>>

BatchStep(d) == Begin(d) \/ Allot(d) \/ CommitBatch(d)

BatchNext == NextMonth \/ \E d \in Deliveries : BatchStep(d) \/ AbandonBatch(d)

-----------------------------------------------------------------------------
\* No delivery is refused because of its own batch number: the numbers of
\* concurrent deliveries of a month never collide and leave no gap, also across
\* midnight of its last day and after deliveries that were rolled back
\* (next_sequence).
NumbersNeverCollide ==
    /\ \A d \in Deliveries : stage[d] # "duplicate"
    /\ \A k \in Months, n \in 1..Len(batches) :
          n <= seq[k] <=> \E i \in DOMAIN batches : batches[i] = <<k, n>>
=============================================================================
