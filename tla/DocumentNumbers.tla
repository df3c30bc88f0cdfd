--------------------------- MODULE DocumentNumbers ---------------------------
(***************************************************************************)
(* The two counters of the system, yearly invoice numbers and monthly      *)
(* batch numbers.  Their transactions share no row, so a behaviour follows *)
(* the requests of one of them.                                            *)
(***************************************************************************)
EXTENDS InvoiceNumbers, BatchNumbers

VARIABLE numbering      \* bound: the counter that the behaviour is about

allVars == <<invoiceVars, batchVars, numbering>>

NumbersInit ==
    /\ InvoiceInit
    /\ BatchInit
    /\ numbering \in {"invoices", "batches"}

Received == {"received", "abandoned", "duplicate"}

AllReceived ==
    /\ \A d \in Deliveries : stage[d] \in Received
    /\ UNCHANGED batchVars

NumbersNext ==
    /\ UNCHANGED numbering
    /\ \/ numbering = "invoices" /\ InvoiceNext /\ UNCHANGED batchVars
       \/ numbering = "batches" /\ (BatchNext \/ AllReceived) /\ UNCHANGED invoiceVars

\* As long as some request can take a step, some request does: the threads keep
\* running and a released row lock is granted.
Progress ==
    /\ UNCHANGED numbering
    /\ \/ numbering = "invoices" /\ (\E s \in Sales : Step(s)) /\ UNCHANGED batchVars
       \/ numbering = "batches" /\ (\E d \in Deliveries : BatchStep(d)) /\ UNCHANGED invoiceVars

NumbersSpec ==
    /\ NumbersInit
    /\ [][NumbersNext]_allVars
    /\ WF_allVars(Progress)

-----------------------------------------------------------------------------
\* Every sale and every delivery ends: the race for a new counter row has no
\* waiting circle, and a rollback wakes the requests that wait for its row or its
\* insertion (assign_invoice, next_sequence).
EveryRequestEnds ==
    <>(IF numbering = "invoices" THEN \A s \in Sales : pc[s] \in Done
                                 ELSE \A d \in Deliveries : stage[d] \in Received)
=============================================================================
