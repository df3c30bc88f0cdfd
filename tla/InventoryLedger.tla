--------------------------- MODULE InventoryLedger ---------------------------
(***************************************************************************)
(* The inventory movement report, reporting.services.inventory_ledger.     *)
(*                                                                         *)
(* No balance is stored: the report starts from the current stock of the   *)
(* batches and reverses the dated rows (sale lines, adjustments, returns)  *)
(* to find the balances of a past range.  This module adds the dates of    *)
(* those rows to StockLedger, defines the report, and remembers the true   *)
(* closing stock of each day to compare it with.                           *)
(***************************************************************************)
EXTENDS StockLedger

VARIABLES
    created,    \* created[b]: the date of ProductBatch.created_at
    issued,     \* issued[b][d]: sale lines of batch b with movement_at on day d
    writtenOff, \* writtenOff[b][d]: StockAdjustments of batch b created on day d
    credited,   \* credited[b][d]: StockReturns of batch b created on day d
    closing     \* history: closing[d][p], the stock of p when day d ended

rowVars    == <<created, issued, writtenOff, credited>>
ledgerVars == <<vars, rowVars, closing>>

\* Stock of product p physically on hand, whatever its status.
OnHand(p) == SumOver(remaining, {b \in Batches : product[b] = p /\ Exists(b)})

LedgerInit ==
    /\ Init
    /\ created = [b \in Batches |-> 0]
    /\ issued = [b \in Batches |-> [d \in Days |-> 0]]
    /\ writtenOff = [b \in Batches |-> [d \in Days |-> 0]]
    /\ credited = [b \in Batches |-> [d \in Days |-> 0]]
    /\ closing = [d \in Days |-> [p \in Products |-> 0]]

\* Every row an operation inserts carries the date on which it ran; a
\* backdated encoding keeps its entry date in encoded_at.
DateRows ==
    /\ created' = [b \in Batches |-> IF ~Exists(b) /\ Exists(b)' THEN today ELSE created[b]]
    /\ issued' = [b \in Batches |-> [issued[b] EXCEPT
         ![today] = @ + SumOver([s \in Sales |-> line'[s][b] - line[s][b]], Sales)]]
    /\ writtenOff' = [b \in Batches |-> [writtenOff[b] EXCEPT
         ![today] = @ + adjusted'[b] - adjusted[b]]]
    /\ credited' = [b \in Batches |-> [credited[b] EXCEPT
         ![today] = @ + SumOver([s \in Sales |-> returned'[s][b]],
                          {s \in Sales : returned[s][b] = NoReturn /\ returned'[s][b] # NoReturn})]]

LedgerNext ==
    \/ /\ Next
       /\ today' = today
       /\ DateRows
       /\ closing' = closing
    \/ /\ NextDay
       /\ closing' = [closing EXCEPT ![today] = [p \in Products |-> OnHand(p)]]
       /\ UNCHANGED rowVars

LedgerSpec == LedgerInit /\ [][LedgerNext]_ledgerVars

-----------------------------------------------------------------------------
(***************************************************************************)
(* The report row of product p for the days start..end.  custom says that  *)
(* the caller selected the range; otherwise start = end = today.           *)
(***************************************************************************)

\* Mutation: batches that were entered after the range are not left out.
BatchesByReceipt(p, end, custom) ==
    {b \in Batches : product[b] = p /\ Exists(b) /\ received[b] <= end}

\* The batches queryset.
ReportBatches(p, end, custom) ==
    {b \in Batches : /\ product[b] = p
                     /\ Exists(b)
                     /\ received[b] <= end
                     /\ custom => created[b] <= end}

\* Net deductions of the batches B on the days D: sales and adjustments less returns.
Deductions(B, D) ==
    SumOver([b \in B |-> SumOver(issued[b], D) + SumOver(writtenOff[b], D)
                         - SumOver(credited[b], D)], B)

ReportEnding(p, end, custom) ==
    LET B == ReportBatches(p, end, custom)
    IN  SumOver(remaining, B)
        + (IF custom THEN Deductions(B, {d \in Days : d > end}) ELSE 0)

\* received_on of a batch
ReceivedOn(b, custom) ==
    IF custom /\ received[b] > created[b] THEN received[b] ELSE created[b]

ReportReceived(p, start, end, custom) ==
    SumOver(initial, {b \in ReportBatches(p, end, custom) :
                        ReceivedOn(b, custom) \in start..end})

ReportBeginning(p, start, end, custom) ==
    ReportEnding(p, end, custom)
    + Deductions(ReportBatches(p, end, custom), start..end)
    - ReportReceived(p, start, end, custom)

-----------------------------------------------------------------------------
\* The true stock of product p when day d ended, or now for the current day.
ClosingStock(p, d) == IF d = today THEN OnHand(p) ELSE closing[d][p]

\* No batch of p has a receipt date after the day its row was created.
\* Receiving guarantees it (validate refuses future dates); only a later edit
\* of date_received can break it.
ReceiptDatesKept(p) ==
    \A b \in Batches : Exists(b) /\ product[b] = p => received[b] <= created[b]

\* A report of any past range, generated at any later time, shows the true
\* opening and closing stock of the range: reversing the dated rows undoes
\* every later sale, partial return and correction.
RangeReportReconstructs ==
    \A p \in Products, start, end \in Days :
        /\ ReceiptDatesKept(p)
        /\ start <= end
        /\ end <= today
        => /\ ReportEnding(p, end, TRUE) = ClosingStock(p, end)
           /\ start > 0 => ReportBeginning(p, start, end, TRUE) = closing[start - 1][p]
=============================================================================
