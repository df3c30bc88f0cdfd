------------------------------ MODULE Workbooks ------------------------------
(***************************************************************************)
(* The annual sales workbooks: how the rows of a monthly sheet become      *)
(* receipts (sales.importers.annual_sales) and which part of them the      *)
(* dairy-only refresh keeps (refresh_annual_sales.build_plan).             *)
(*                                                                         *)
(* A row is a record of its cells after clean_label and money: a cell that *)
(* is empty or not a number is None; a date cell says whether Excel holds  *)
(* it as a date or as text.  Amounts are whole cents.  formula is what the *)
(* total column holds in the second reading of the file: the sum of the    *)
(* invoice from its first line ("sum"), the row's own amount ("own"), or   *)
(* anything else (None).                                                   *)
(***************************************************************************)
EXTENDS Integers, Sequences, FiniteSets, SequencesExt

CONSTANTS
    Sheets,          \* the monthly sheets
    MonthOf,         \* MonthOf[s]: month number of sheet s
    DuplicateSheets, \* pairs of sheets: receipts of the first repeat the second
    Rows,            \* the row contents considered
    MaxRows,         \* bound: rows of all sheets
    CustomerNameOf,  \* canonical_customer of each customer label
    CustomerKeyOf,   \* customer_key: the name without regard to case
    CancelledLabels, FeedingLabels,  \* customer labels with these words
    ProductKeyOf,    \* product_key of each product label
    DairyKeys,       \* product keys the policy keeps
    SizeCodes,       \* SizeCodes[p]: code to which a bare size is added
    SizeLabels,      \* product labels that are only a size
    Tolerance,       \* cents by which a monthly total may differ
    TruncatedYear, RestoredYear,  \* a year with a digit missing, and what it is read as
    Unreadable, None  \* a cell that cannot be read as a date; an empty cell

AmountCells == Int \union {None}   \* what a cell holds after money

ASSUME WorkbookAssumption ==
    /\ MaxRows \in Nat /\ Tolerance \in Nat /\ IsFiniteSet(Sheets)
    /\ DuplicateSheets \subseteq Sheets \X Sheets
    /\ \A s \in Sheets : MonthOf[s] \in 1..12
    /\ None \notin Int /\ "discount" # None
    /\ \A l, m \in DOMAIN CustomerKeyOf :
          CustomerNameOf[l] = CustomerNameOf[m] => CustomerKeyOf[l] = CustomerKeyOf[m]
    /\ \A row \in Rows :
          /\ row.customer \in DOMAIN CustomerKeyOf \union {None}
          /\ {row.quantity, row.price, row.amount, row.total} \subseteq AmountCells

VARIABLES
    sheets,  \* sheets[s]: the rows of sheet s read so far
    parse    \* parse[<<s, separate>>]: the parser's state after them, in either mode

\* The sum of the values of a function, of the elements of a sequence.
Summed(f) == MapThenSumSet(LAMBDA x : f[x], DOMAIN f)
AmountOr0(x) == IF x = None THEN 0 ELSE x
Distinct(x, y) == IF x > y THEN x - y ELSE y - x

\* A date written as text whose year lacks a digit.
Truncated(cell) == cell \notin {None, Unreadable} /\ ~cell.excel /\ cell.year = TruncatedYear

\* source_date: the date of a cell and what is wrong with it.  Excel dates
\* whose day and month were exchanged are put right; a truncated year is
\* restored, and such a date is not compared with the sheet.
SourceDate(cell, month) ==
    IF cell = None \/ cell = Unreadable THEN [date |-> None, issue |-> cell]
    ELSE LET date == [year |-> cell.year, month |-> cell.month, day |-> cell.day]
         IN  IF Truncated(cell)
             THEN [date |-> [date EXCEPT !.year = RestoredYear], issue |-> "corrected_truncated_year"]
             ELSE IF cell.month = month THEN [date |-> date, issue |-> None]
             ELSE IF cell.excel /\ cell.day = month
             THEN [date |-> [date EXCEPT !.month = cell.day, !.day = cell.month], issue |-> "swapped_excel_date"]
             ELSE [date |-> date, issue |-> "sheet_mismatch"]

\* A bare size belongs to the last product of the receipt that comes in sizes.
SizedProduct(product, lines) ==
    LET bases == {i \in 1..Len(lines) : lines[i].product \in DOMAIN SizeCodes}
    IN  IF product \in SizeLabels /\ bases # {}
        THEN SizeCodes[lines[CHOOSE i \in bases : \A j \in bases : j <= i].product]
        ELSE product

\* The amount of a line: recorded, else calculated; a line without a price
\* after lines without amounts carries the invoice total, not its own amount.
LineAmount(row, lines) ==
    IF row.price = None /\ lines # <<>> /\ (\A i \in 1..Len(lines) : lines[i].amount = None) THEN None
    ELSE IF row.amount = None /\ row.price # None THEN row.quantity * row.price
    ELSE row.amount

\* The line of a product row; none when its quantity is missing or not positive.
LineOf(row, n, lines) ==
    IF row.product = None \/ row.quantity = None THEN <<>>
    ELSE IF row.quantity <= 0 THEN <<>>
    ELSE <<[row |-> n, product |-> SizedProduct(row.product, lines),
            quantity |-> row.quantity, price |-> row.price, amount |-> LineAmount(row, lines)]>>

Blank(row) == row.customer = None /\ row.invoice = None /\ row.product = None

\* The row opens a receipt of its own although it names neither customer nor invoice.
Independent(p, row, separate) ==
    /\ separate /\ p.closed
    /\ row.customer = None /\ row.invoice = None /\ row.product # None
    /\ row.formula = "own"

Repeated(p, row, active) ==
    LET current == Last(p.tickets)
    IN  row.invoice = current.invoice /\ row.customer = None /\ active = current.date

\* Mutation: a row that names only an invoice stays with the receipt before it.
OpensAtCustomer(p, row, date, active, separate) ==
    \/ p.tickets = <<>>
    \/ Independent(p, row, separate)
    \/ row.customer # None
    \/ date # None /\ Last(p.tickets).date # date

\* new_ticket
OpensTicket(p, row, date, active, separate) ==
    \/ p.tickets = <<>>
    \/ Independent(p, row, separate)
    \/ row.invoice # None /\ ~Repeated(p, row, active)
    \/ row.customer # None
    \/ date # None /\ Last(p.tickets).date # date

NewTicket(p, s, n, row, active, flags, separate) ==
    [sheet |-> s, row |-> n, date |-> active, customer |-> row.customer, invoice |-> row.invoice,
     lines |-> <<>>, adjustments |-> <<>>, reported |-> None,
     flags |-> flags \union (IF Independent(p, row, separate) THEN {"unlabelled_separate_total"} ELSE {})]

\* The row's effect on the receipt it belongs to.
AddRow(t, row, n) ==
    LET line  == IF row.product = "discount" THEN <<>> ELSE LineOf(row, n, t.lines)
        extra == IF row.product = "discount" /\ row.amount # None THEN <<row.amount>> ELSE <<>>
    IN  [t EXCEPT !.lines = @ \o line, !.adjustments = @ \o extra,
                  !.reported = IF row.total = None THEN @ ELSE row.total]

\* One row of the loop of parse_workbooks.
ParseRow(p, s, row, separate) ==
    LET n      == p.row + 1
        cell   == SourceDate(row.date, MonthOf[s])
        active == IF cell.date = None THEN p.active ELSE cell.date
        flags  == IF cell.date = None THEN p.flags
                  ELSE IF cell.issue = "sheet_mismatch" THEN {"date_sheet_mismatch"} ELSE {}
        opens  == OpensTicket(p, row, cell.date, active, separate)
        before == IF opens THEN NewTicket(p, s, n, row, active, flags, separate) ELSE Last(p.tickets)
        ticket == AddRow(before, row, n)
    IN  IF Blank(row) THEN [p EXCEPT !.row = n, !.active = active, !.flags = flags]
        ELSE [row |-> n, active |-> active, flags |-> flags,
              tickets |-> IF opens THEN Append(p.tickets, ticket)
                          ELSE [p.tickets EXCEPT ![Len(p.tickets)] = ticket],
              closed |-> IF row.product = "discount" \/ ~separate \/ ticket.lines = <<>>
                         THEN ~opens /\ p.closed ELSE row.formula = "sum"]

\* The receipts of a sheet; separate is separate_unlabelled_totals.
ParseSheet(s, separate) == parse[<<s, separate>>].tickets

WorkbooksInit ==
    /\ sheets = [s \in Sheets |-> <<>>]
    /\ parse = [x \in Sheets \X BOOLEAN |->
                   [row |-> 0, active |-> None, flags |-> {}, tickets |-> <<>>, closed |-> FALSE]]

RowsRead == Summed([s \in Sheets |-> Len(sheets[s])])

\* The next row of a sheet is read.
ReadRow(s, row) ==
    /\ RowsRead < MaxRows
    /\ sheets' = [sheets EXCEPT ![s] = Append(@, row)]
    /\ parse' = [x \in Sheets \X BOOLEAN |->
                    IF x[1] = s THEN ParseRow(parse[x], s, row, x[2]) ELSE parse[x]]

Tickets(separate) == UNION {ToSet(ParseSheet(s, separate)) : s \in Sheets}

Reference(t) == <<t.sheet, t.row>>
Cancelled(t) == t.customer \in CancelledLabels
CustomerKey(label) == IF label = None THEN None ELSE CustomerKeyOf[label]
CustomerName(label) == IF label = None THEN None ELSE CustomerNameOf[label]

Unresolved(t) == \E i \in 1..Len(t.lines) : t.lines[i].amount = None

\* What the lines at some positions of a receipt come to.
Gross(t, positions) == Summed([i \in positions |-> AmountOr0(t.lines[i].amount)])

\* amount: the reported total stands in for lines without amounts.
TicketAmount(t) ==
    IF t.reported # None /\ Unresolved(t) THEN t.reported
    ELSE Gross(t, 1..Len(t.lines)) + Summed(t.adjustments)

\* The second copy of a receipt entered on two sheets.
Duplicate(t, separate) ==
    \E u \in Tickets(separate) :
        /\ t.invoice # None /\ u.invoice = t.invoice
        /\ CustomerName(u.customer) = CustomerName(t.customer)
        /\ <<t.sheet, u.sheet>> \in DuplicateSheets

\* The receipts that are sales.
Sold(separate) ==
    {t \in Tickets(separate) : ~Cancelled(t) /\ ~Duplicate(t, separate) /\ t.lines # <<>>}

\* Parsed total of a sheet, to be compared with its TOTAL row.
SheetTotal(s, separate) ==
    LET tickets == ParseSheet(s, separate)
        dated   == {i \in 1..Len(tickets) : tickets[i].date # None}
    IN  Summed([i \in dated |-> TicketAmount(tickets[i])])

Reconciles(reported, separate) ==
    \A s \in Sheets : Distinct(reported[s], SheetTotal(s, separate)) <= Tolerance

-----------------------------------------------------------------------------
(***************************************************************************)
(* build_plan: what the dairy-only refresh keeps of a receipt, as a set of  *)
(* positions of its lines.                                                 *)
(***************************************************************************)
ProductKey(label) == ProductKeyOf[label]

DairyLines(t) == {i \in 1..Len(t.lines) : ProductKey(t.lines[i].product) \in DairyKeys}

\* A mixed invoice without line amounts is held back as a whole.
KeptLines(t) ==
    IF Unresolved(t) /\ DairyLines(t) # 1..Len(t.lines) THEN {} ELSE DairyLines(t)

\* Integer division rounded half away from zero.
RoundHalfUp(a, b) == IF a >= 0 THEN (2 * a + b) \div (2 * b) ELSE -((b - 2 * a) \div (2 * b))

\* The kept amount, with its share of the receipt's discounts.
KeptAmount(t) ==
    LET keep == KeptLines(t)
        gross == Gross(t, 1..Len(t.lines))
    IN  IF keep = {} THEN 0
        ELSE IF keep = 1..Len(t.lines) THEN TicketAmount(t)
        ELSE Gross(t, keep) + (IF gross <= 0 THEN 0
                               ELSE RoundHalfUp(Summed(t.adjustments) * Gross(t, keep), gross))

QualityFlags(t) ==
    t.flags \union (IF CustomerKey(t.customer) = None THEN {"missing_customer"} ELSE {})
            \union (IF Unresolved(t) THEN {"unallocated_invoice_total"} ELSE {})
            \union (IF \E i \in KeptLines(t) : t.lines[i].price = None
                    THEN {"missing_unit_price"} ELSE {})

Segment(t) ==
    IF QualityFlags(t) # {} THEN "unclassified"
    ELSE IF t.customer \in FeedingLabels THEN "feeding" ELSE "regular"

\* build_plan refuses sources it cannot date or whose discounts it cannot share out.
PlanPossible(reported) ==
    /\ Reconciles(reported, TRUE)
    /\ \A t \in Sold(TRUE) :
          /\ t.date # None
          /\ KeptLines(t) \notin {{}, 1..Len(t.lines)} =>
                Gross(t, 1..Len(t.lines)) > 0 \/ Summed(t.adjustments) = 0

Planned == {t \in Sold(TRUE) : KeptLines(t) # {}}

-----------------------------------------------------------------------------
\* A receipt never takes in a row that is labelled with another customer, another
\* invoice number or another day: whatever cells are left empty, the labelled rows
\* among those from which a receipt is made agree with it (new_ticket).
NoMixedTicket ==
    \A s \in Sheets, separate \in BOOLEAN :
        LET tickets == ParseSheet(s, separate)
        IN  \A i \in 1..Len(tickets) :
              LET t   == tickets[i]
                  end == IF i = Len(tickets) THEN Len(sheets[s]) ELSE tickets[i + 1].row - 1
              IN  \A n \in t.row..end :
                    LET row == sheets[s][n]
                    IN  ~Blank(row) =>
                          /\ row.customer \in {None, t.customer}
                          /\ row.invoice \in {None, t.invoice}
                          /\ SourceDate(row.date, MonthOf[s]).date \in {None, t.date}

\* Every line with an amount, and every discount, is in the sheet's total exactly
\* once, however the rows are grouped: on a sheet whose lines all have positive
\* quantities, prices and amounts the dated receipts add up to its rows (what the
\* comparison with TOTAL relies on).
NothingLostInGrouping ==
    \A s \in Sheets, separate \in BOOLEAN :
        LET named == {n \in 1..Len(sheets[s]) : sheets[s][n].product # None}
            plain == /\ \A n \in named : sheets[s][n].amount # None
                     /\ \A n \in named : sheets[s][n].product # "discount" =>
                           /\ sheets[s][n].quantity # None /\ sheets[s][n].price # None
                           /\ sheets[s][n].quantity > 0
                     /\ \A t \in ToSet(ParseSheet(s, separate)) : t.date # None
        IN  plain => SheetTotal(s, separate) = Summed([n \in named |-> sheets[s][n].amount])

\* The row whose date the receipt has is a text date with a truncated year.
DatedByTruncatedText(t) ==
    LET rows == sheets[t.sheet]
    IN  \E n \in 1..t.row :
          /\ Truncated(rows[n].date) /\ SourceDate(rows[n].date, MonthOf[t.sheet]).date = t.date
          /\ \A m \in (n + 1)..t.row : SourceDate(rows[m].date, MonthOf[t.sheet]).date = None

\* No amount is guessed, and no date but one.  Of a receipt that also has other
\* products, dairy lines are kept only when every line has its own amount; and only
\* receipts beyond doubt are counted as regular or feeding sales (build_plan): a
\* known customer, a recorded price for every kept line, and a date in the sheet's
\* own month, unless the date is a text with a truncated year, whose month
\* source_date never compares with the sheet.
PlannedSalesAreCertain ==
    \A t \in Planned :
        /\ KeptLines(t) # 1..Len(t.lines) => \A i \in 1..Len(t.lines) : t.lines[i].amount # None
        /\ Segment(t) # "unclassified" =>
              /\ t.customer # None
              /\ t.date # None => t.date.month = MonthOf[t.sheet] \/ DatedByTruncatedText(t)
              /\ \A i \in KeptLines(t) : t.lines[i].price # None

\* What is read from the workbooks is what they say, for all workbooks of MaxRows
\* rows: receipts are not mixed, nothing is lost in grouping, nothing is guessed.
ImportIsFaithful == NoMixedTicket /\ NothingLostInGrouping /\ PlannedSalesAreCertain
=============================================================================
