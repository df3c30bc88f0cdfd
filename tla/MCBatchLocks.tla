---------------------------- MODULE MCBatchLocks ----------------------------
(* Instances of BatchLocks.  Batches 1 and 2 hold product 1, batch 3 holds   *)
(* product 2.  The earlier sale emptied batch 1 and took part of batch 2.    *)
EXTENDS BatchLocks

MCBatches == 1..3
MCProduct == <<1, 1, 2>>
MCInitial == <<1, 2, 1>>
MCSold    == <<1, 1, 0>>
MCExpiry  == <<1, 2, 1>>

Sale(year, first, second) ==
    [kind |-> "sale", year |-> year, cart |-> <<first, second>>]
Void == [kind |-> "void"]
Adjustment(batch, quantity, writeOff) ==
    [kind |-> "adjust", batch |-> batch, quantity |-> quantity, writeOff |-> writeOff]
Edit(batch, expiration) ==
    [kind |-> "edit", batch |-> batch, expiration |-> expiration]

\* Two sales of different years, which do not exclude each other at the invoice
\* counter, both routes of cancellation, a physical count that finds stock, a
\* write-off, and an edit that makes the two batches change places.
MCJob ==
    [c1 |-> Sale(1, 1, 0), c2 |-> Sale(2, 2, 1),
     v1 |-> Void, v2 |-> Void,
     a1 |-> Adjustment(1, -1, FALSE), a2 |-> Adjustment(2, 1, TRUE),
     e1 |-> Edit(1, 3)]
MCJobs == DOMAIN MCJob
=============================================================================
