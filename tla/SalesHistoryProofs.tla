-------------------------- MODULE SalesHistoryProofs --------------------------
(***************************************************************************)
(* For every set of sheets and rows, every catalogue and every number of   *)
(* uses and commands: the workbooks are read faithfully, and no command    *)
(* damages what it does not maintain.                                      *)
(***************************************************************************)
EXTENDS SalesHistory, FiniteSums, SequenceTheorems

-----------------------------------------------------------------------------
(***************************************************************************)
(* Reading the workbooks.                                                  *)
(***************************************************************************)
Labels   == DOMAIN CustomerKeyOf
Dates    == {SourceDate(row.date, MonthOf[s]).date : row \in Rows, s \in Sheets} \union {None}
Invoices == {row.invoice : row \in Rows}
Flags    == {"date_sheet_mismatch", "unlabelled_separate_total"}
Line     == [row : Nat, product : ProductIds, quantity : Int, price : AmountCells, amount : AmountCells]
Ticket   ==
    [sheet : Sheets, row : Nat, date : Dates, customer : Labels \union {None}, invoice : Invoices,
     lines : Seq(Line), adjustments : Seq(Int), reported : AmountCells, flags : SUBSET Flags]
Parser   == [row : Nat, active : Dates, flags : SUBSET Flags, tickets : Seq(Ticket), closed : BOOLEAN]

\* What a ticket whose lines all have amounts comes to, and what a row adds to it.
Value(t)      == Gross(t, 1..Len(t.lines)) + Summed(t.adjustments)
RowValue(row) == IF row.product = None THEN 0 ELSE row.amount

\* A row that tells its amount.
PlainRow(row) ==
    row.product # None =>
        /\ row.amount # None
        /\ row.product # "discount" => row.quantity # None /\ row.price # None /\ row.quantity > 0

LEMMA SummedIsSigma == \A f : Summed(f) = Sigma(f, DOMAIN f)
BY DEF Summed, Sigma

LEMMA RowFacts ==
    ASSUME NEW row \in Rows
    PROVE  /\ row.customer \in Labels \union {None}
           /\ row.quantity \in AmountCells /\ row.price \in AmountCells
           /\ row.amount \in AmountCells /\ row.total \in AmountCells
           /\ row.product \in ProductIds \union {None, "discount"}
           /\ row.invoice \in Invoices
BY WorkbookAssumption, HistoryAssumption DEF Labels, Invoices

\* The last element of a sequence is replaced, or one is added: so changes the sum.
LEMMA SumAppend ==
    ASSUME NEW f, NEW m \in Nat, DOMAIN f = 1..m, \A i \in 1..m : f[i] \in Int,
           NEW g, DOMAIN g = 1..(m + 1), \A i \in 1..m : g[i] = f[i], g[m + 1] \in Int
    PROVE  Summed(g) = Summed(f) + g[m + 1]
<1>1. PICK S, y : S = 1..m /\ y = m + 1
    OBVIOUS
<1>2. /\ IsFiniteSet(S) /\ y \notin S /\ g[y] \in Int
      /\ \A x \in S : f[x] \in Int /\ f[x] = g[x]
      /\ DOMAIN f = S /\ DOMAIN g = S \union {y}
  <2>1. IsFiniteSet(1..m)
      BY FS_Interval
  <2>2. m + 1 \notin 1..m /\ 1..(m + 1) = (1..m) \union {m + 1}
      OBVIOUS
  <2> QED
      BY <1>1, <2>1, <2>2
<1>3. Sigma(g, S \union {y}) = Sigma(f, S) + g[y]
    BY ONLY <1>2, SumAdd
<1> QED
    BY <1>1, <1>2, <1>3, SummedIsSigma

\* A sequence to which one element is added.
LEMMA Lengthened ==
    ASSUME NEW S, NEW q \in Seq(S), NEW x \in S
    PROVE  LET c == q \o <<x>>
           IN  /\ c \in Seq(S) /\ Len(c) = Len(q) + 1 /\ c[Len(q) + 1] = x
               /\ \A i \in 1..Len(q) : c[i] = q[i]
BY AppendIsConcat, AppendProperties

LEMMA Replaced ==
    ASSUME NEW S, NEW q \in Seq(S), NEW x \in S, NEW k \in 1..Len(q)
    PROVE  LET c == [q EXCEPT ![k] = x]
           IN  /\ c \in Seq(S) /\ Len(c) = Len(q) /\ c[k] = x
               /\ \A i \in 1..Len(q) : i # k => c[i] = q[i]
OBVIOUS

\* The line of a row carries the row's amount.
LEMMA LineFacts ==
    ASSUME NEW row \in Rows, row.product # "discount", NEW n \in Nat, NEW lines \in Seq(Line)
    PROVE  /\ LineOf(row, n, lines) # <<>> =>
                \E x \in Line : /\ LineOf(row, n, lines) = <<x>>
                                /\ PlainRow(row) => x.amount = row.amount
           /\ PlainRow(row) => (LineOf(row, n, lines) = <<>> <=> row.product = None)
<1>1. CASE row.product = None \/ row.quantity = None
    BY <1>1 DEF LineOf, PlainRow
<1>2. CASE row.product # None /\ row.quantity # None
  <2>1. row.product \in ProductIds /\ row.quantity \in Int
      BY <1>2, RowFacts DEF AmountCells
  <2>2. CASE row.quantity <= 0
      BY <1>2, <2>1, <2>2 DEF LineOf, PlainRow
  <2>3. CASE ~(row.quantity <= 0)
    <3> DEFINE x == [row |-> n, product |-> SizedProduct(row.product, lines),
                     quantity |-> row.quantity, price |-> row.price, amount |-> LineAmount(row, lines)]
    <3>1. LineOf(row, n, lines) = <<x>>
        BY <1>2, <2>3 DEF LineOf
    <3>2. SizedProduct(row.product, lines) \in ProductIds
      <4> DEFINE bases == {i \in 1..Len(lines) : lines[i].product \in DOMAIN SizeCodes}
      <4>1. CASE row.product \in SizeLabels /\ bases # {}
        <5>1. \E i \in bases : \A j \in bases : j <= i
          <6>1. Len(lines) \in Nat /\ bases \in SUBSET (0..Len(lines)) /\ bases # {}
              BY <4>1
          <6> QED
              BY <6>1, GreatestNatural
        <5> DEFINE base == CHOOSE i \in bases : \A j \in bases : j <= i
        <5>2. SizedProduct(row.product, lines) = SizeCodes[lines[base].product]
            BY <4>1 DEF SizedProduct
        <5>3. base \in bases
            BY <5>1
        <5> QED
            BY <5>2, <5>3, HistoryAssumption
      <4>2. CASE ~(row.product \in SizeLabels /\ bases # {})
          BY <2>1, <4>2 DEF SizedProduct
      <4> QED
          BY <4>1, <4>2
    <3>3. LineAmount(row, lines) \in AmountCells
        BY <2>1, RowFacts DEF LineAmount, AmountCells
    <3>4. x \in Line
        BY <2>1, <3>2, <3>3, RowFacts DEF Line
    <3>5. PlainRow(row) => LineAmount(row, lines) = row.amount
        BY <1>2 DEF PlainRow, LineAmount
    <3> QED
        BY <1>2, <3>1, <3>4, <3>5
  <2> QED
      BY <2>1, <2>2, <2>3
<1> QED
    BY <1>1, <1>2

LEMMA GrossInt ==
    ASSUME NEW t \in Ticket, NEW m \in Nat, m <= Len(t.lines)
    PROVE  Gross(t, 1..m) \in Int
<1> DEFINE f == [i \in 1..m |-> AmountOr0(t.lines[i].amount)]
<1>1. IsFiniteSet(1..m)
    BY FS_Interval
<1>2. \A i \in 1..m : f[i] \in Int
  <2>1. t.lines \in Seq(Line) /\ \A i \in 1..m : i \in 1..Len(t.lines)
      BY DEF Ticket
  <2>2. \A i \in 1..m : t.lines[i] \in Line
      BY <2>1
  <2>3. \A x \in Line : AmountOr0(x.amount) \in Int
      BY DEF Line, AmountCells, AmountOr0
  <2> QED
      BY <2>2, <2>3
<1>3. Sigma(f, 1..m) \in Int
    BY <1>1, <1>2, SumInt
<1> QED
    BY <1>3, SummedIsSigma DEF Gross

LEMMA AdjustmentsInt ==
    ASSUME NEW t \in Ticket
    PROVE  Summed(t.adjustments) \in Int
<1>1. DOMAIN t.adjustments = 1..Len(t.adjustments) /\ Len(t.adjustments) \in Nat
      /\ \A i \in 1..Len(t.adjustments) : t.adjustments[i] \in Int
    BY DEF Ticket
<1>2. IsFiniteSet(1..Len(t.adjustments))
    BY <1>1, FS_Interval
<1> QED
    BY <1>1, <1>2, SumInt, SummedIsSigma

\* What a row does to its ticket: it labels nothing, and adds its amount.
LEMMA AddRowFacts ==
    ASSUME NEW t \in Ticket, NEW row \in Rows, NEW n \in Nat
    PROVE  LET u == AddRow(t, row, n)
           IN  /\ u \in Ticket
               /\ u.sheet = t.sheet /\ u.row = t.row /\ u.date = t.date /\ u.customer = t.customer
               /\ u.invoice = t.invoice /\ u.flags = t.flags
               /\ PlainRow(row) /\ ~Unresolved(t) => ~Unresolved(u) /\ Value(u) = Value(t) + RowValue(row)
<1> DEFINE line  == IF row.product = "discount" THEN <<>> ELSE LineOf(row, n, t.lines)
           extra == IF row.product = "discount" /\ row.amount # None THEN <<row.amount>> ELSE <<>>
           u     == AddRow(t, row, n)
<1>1. u = [t EXCEPT !.lines = t.lines \o line, !.adjustments = t.adjustments \o extra,
                    !.reported = IF row.total = None THEN t.reported ELSE row.total]
    BY DEF AddRow
<1>2. /\ line = <<>> \/ \E x \in Line : line = <<x>> /\ (PlainRow(row) => x.amount = row.amount)
      /\ PlainRow(row) => (line = <<>> <=> row.product \in {None, "discount"})
    BY LineFacts, WorkbookAssumption DEF Ticket
<1>3. /\ extra = <<>> \/ (extra = <<row.amount>> /\ row.amount \in Int)
      /\ PlainRow(row) => (extra = <<>> <=> row.product # "discount")
  <2>1. row.amount \in Int \/ row.amount = None
      BY RowFacts DEF AmountCells
  <2>2. PlainRow(row) /\ row.product = "discount" => row.amount # None
      BY WorkbookAssumption DEF PlainRow
  <2>3. extra = IF row.product = "discount" /\ row.amount # None THEN <<row.amount>> ELSE <<>>
      OBVIOUS
  <2>4. <<row.amount>> # <<>>
      OBVIOUS
  <2> HIDE DEF extra
  <2> QED
      BY <2>1, <2>2, <2>3, <2>4
<1>4. t.lines \in Seq(Line) /\ t.adjustments \in Seq(Int)
    BY DEF Ticket
<1> HIDE DEF line, extra
<1>5. t.lines \o line \in Seq(Line) /\ t.adjustments \o extra \in Seq(Int)
  <2>1. t.lines \o line \in Seq(Line)
    <3>1. CASE line = <<>>
        BY <1>4, <3>1, ConcatEmptySeq
    <3>2. CASE line # <<>>
      <4>1. PICK x \in Line : line = <<x>>
          BY <1>2, <3>2
      <4> QED
          BY <1>4, <4>1, Lengthened
    <3> QED
        BY <3>1, <3>2
  <2>2. t.adjustments \o extra \in Seq(Int)
    <3>1. CASE extra = <<>>
        BY <1>4, <3>1, ConcatEmptySeq
    <3>2. CASE extra # <<>>
        BY <1>3, <1>4, <3>2, Lengthened
    <3> QED
        BY <3>1, <3>2
  <2> QED
      BY <2>1, <2>2
<1>6. u \in Ticket /\ u.sheet = t.sheet /\ u.row = t.row /\ u.date = t.date /\ u.customer = t.customer
      /\ u.invoice = t.invoice /\ u.flags = t.flags
    BY <1>1, <1>5, RowFacts DEF Ticket
<1>7. u.lines = t.lines \o line /\ u.adjustments = t.adjustments \o extra
    BY <1>1 DEF Ticket
<1> HIDE DEF u
<1>8. ASSUME PlainRow(row), ~Unresolved(t)
      PROVE  ~Unresolved(u) /\ Value(u) = Value(t) + RowValue(row)
  <2>1. CASE row.product = None
    <3>1. u.lines = t.lines /\ u.adjustments = t.adjustments
      <4>1. line = <<>> /\ extra = <<>>
          BY <1>2, <1>3, <1>8, <2>1, WorkbookAssumption
      <4> QED
          BY <1>4, <1>7, <4>1, ConcatEmptySeq
    <3>2. Value(u) = Value(t) /\ ~Unresolved(u)
        BY <1>8, <3>1 DEF Value, Gross, Unresolved
    <3> QED
        BY <2>1, <3>2, GrossInt, AdjustmentsInt DEF Value, RowValue, Ticket
  <2>2. CASE row.product = "discount"
    <3>1. u.lines = t.lines /\ u.adjustments = t.adjustments \o <<row.amount>> /\ row.amount \in Int
      <4>1. line = <<>> /\ extra = <<row.amount>> /\ row.amount \in Int
          BY <1>2, <1>3, <1>8, <2>2
      <4> QED
          BY <1>4, <1>7, <4>1, ConcatEmptySeq
    <3>2. Summed(u.adjustments) = Summed(t.adjustments) + row.amount
      <4> DEFINE m == Len(t.adjustments)
      <4>1. /\ m \in Nat /\ DOMAIN t.adjustments = 1..m /\ \A i \in 1..m : t.adjustments[i] \in Int
            /\ DOMAIN u.adjustments = 1..(m + 1) /\ \A i \in 1..m : u.adjustments[i] = t.adjustments[i]
            /\ u.adjustments[m + 1] = row.amount
        <5>1. /\ u.adjustments \in Seq(Int) /\ Len(u.adjustments) = m + 1
              /\ \A i \in 1..m : u.adjustments[i] = t.adjustments[i]
              /\ u.adjustments[m + 1] = row.amount
            BY <1>4, <3>1, Lengthened
        <5> QED
            BY <1>4, <5>1
      <4>2. PICK f, g, k : f = t.adjustments /\ g = u.adjustments /\ k = m
          OBVIOUS
      <4>3. Summed(g) = Summed(f) + g[k + 1]
          BY ONLY <3>1, <4>1, <4>2, SumAppend
      <4> QED
          BY <4>1, <4>2, <4>3
    <3>3. Gross(u, 1..Len(u.lines)) = Gross(t, 1..Len(t.lines)) /\ ~Unresolved(u)
        BY <1>8, <3>1 DEF Gross, Unresolved
    <3>4. Gross(t, 1..Len(t.lines)) \in Int /\ Summed(t.adjustments) \in Int
        BY GrossInt, AdjustmentsInt DEF Ticket
    <3> QED
        BY <2>2, <3>1, <3>2, <3>3, <3>4, WorkbookAssumption DEF Value, RowValue
  <2>3. CASE row.product \notin {None, "discount"}
    <3>1. PICK x \in Line : line = <<x>> /\ x.amount = row.amount
        BY <1>2, <1>8, <2>3
    <3>2. u.lines = t.lines \o <<x>> /\ u.adjustments = t.adjustments
      <4>1. extra = <<>>
          BY <1>3, <1>8, <2>3
      <4> QED
          BY <1>4, <1>7, <3>1, <4>1, ConcatEmptySeq
    <3>3. row.amount \in Int /\ row.amount # None
        BY <1>8, <2>3, RowFacts DEF PlainRow, AmountCells
    <3> DEFINE m == Len(t.lines)
    <3> DEFINE f == [i \in 1..m |-> AmountOr0(t.lines[i].amount)]
    <3> DEFINE g == [i \in 1..(m + 1) |-> AmountOr0(u.lines[i].amount)]
    <3>4. /\ m \in Nat /\ Len(u.lines) = m + 1 /\ \A i \in 1..m : u.lines[i] = t.lines[i] /\ t.lines[i] \in Line
          /\ u.lines[m + 1] = x
        BY <1>4, <3>2, Lengthened
    <3>5. \A i \in 1..m : f[i] \in Int /\ f[i] = g[i]
        BY <3>4 DEF Line, AmountCells, AmountOr0
    <3>6. g[m + 1] = row.amount
        BY <3>1, <3>3, <3>4 DEF AmountOr0
    <3>7. Summed(g) = Summed(f) + g[m + 1]
      <4> HIDE DEF m
      <4>1. DOMAIN f = 1..m /\ DOMAIN g = 1..(m + 1)
          OBVIOUS
      <4> HIDE DEF f, g
      <4> QED
          BY <3>3, <3>4, <3>5, <3>6, <4>1, SumAppend
    <3>8. Gross(u, 1..Len(u.lines)) = Gross(t, 1..Len(t.lines)) + row.amount
        BY <3>4, <3>6, <3>7 DEF Gross
    <3>9. ~Unresolved(u)
        BY <1>8, <3>1, <3>3, <3>4 DEF Unresolved
    <3>10. Gross(t, 1..Len(t.lines)) \in Int /\ Summed(t.adjustments) \in Int
        BY GrossInt, AdjustmentsInt DEF Ticket
    <3> QED
        BY <2>3, <3>2, <3>3, <3>8, <3>9, <3>10 DEF Value, RowValue
  <2> QED
      BY <2>1, <2>2, <2>3
<1> QED
    BY <1>6, <1>8 DEF u

-----------------------------------------------------------------------------
\* The row is labelled as the ticket it is part of.
Agrees(row, s, t) ==
    ~Blank(row) =>
        /\ row.customer \in {None, t.customer}
        /\ row.invoice \in {None, t.invoice}
        /\ SourceDate(row.date, MonthOf[s]).date \in {None, t.date}

LastRow(p, i) == IF i = Len(p.tickets) THEN p.row ELSE p.tickets[i + 1].row - 1

\* A date of the sheet's own month.
InMonth(date, s) == date # None => date.month = MonthOf[s]

\* The last date in the first n rows is a text with a truncated year.
TextDated(rows, s, date, n) ==
    \E k \in 1..n :
        /\ Truncated(rows[k].date) /\ SourceDate(rows[k].date, MonthOf[s]).date = date
        /\ \A m \in (k + 1)..n : SourceDate(rows[m].date, MonthOf[s]).date = None

\* A date that no flag has to accompany.
Certain(date, rows, s, n) == InMonth(date, s) \/ TextDated(rows, s, date, n)

TicketOK(t, rows, s) ==
    /\ t.sheet = s /\ t.row \in 1..Len(rows)
    /\ t.customer = rows[t.row].customer
    /\ t.flags = {} => Certain(t.date, rows, s, t.row)

PlainRows(rows) == \A n \in 1..Len(rows) : PlainRow(rows[n])

Values(tickets) == [i \in 1..Len(tickets) |-> Value(tickets[i])]
RowValues(rows) == [n \in 1..Len(rows) |-> RowValue(rows[n])]

Balanced(tickets, rows) ==
    PlainRows(rows) =>
        /\ \A i \in 1..Len(tickets) : ~Unresolved(tickets[i])
        /\ Summed(Values(tickets)) = Summed(RowValues(rows))

\* What holds of the parser after the rows of a sheet.
ReaderOK(p, rows, s) ==
    /\ p \in Parser /\ p.row = Len(rows)
    /\ p.flags = {} => Certain(p.active, rows, s, p.row)
    /\ \A i \in 1..Len(p.tickets) :
          /\ TicketOK(p.tickets[i], rows, s)
          /\ \A j \in 1..Len(p.tickets) : i < j => p.tickets[i].row < p.tickets[j].row
          /\ \A n \in p.tickets[i].row..LastRow(p, i) : Agrees(rows[n], s, p.tickets[i])
    /\ Balanced(p.tickets, rows)

\* Rows that are added do not change what dates the first ones.
LEMMA CertainKept ==
    ASSUME NEW rows \in Seq(Rows), NEW row \in Rows, NEW s, NEW date, NEW n \in Nat, n <= Len(rows)
    PROVE  Certain(date, rows, s, n) => Certain(date, Append(rows, row), s, n)
<1>1. \A k \in 1..n : Append(rows, row)[k] = rows[k]
    BY AppendProperties
<1>2. \A k \in 1..n : \A m \in (k + 1)..n : m \in 1..n
    OBVIOUS
<1> QED
    BY <1>1, <1>2 DEF Certain, TextDated

\* The date a row gives, and the flags that come with it.
LEMMA DateFacts ==
    ASSUME NEW p \in Parser, NEW s \in Sheets, NEW row \in Rows, NEW rows \in Seq(Rows),
           p.flags = {} => Certain(p.active, rows, s, Len(rows))
    PROVE  LET cell   == SourceDate(row.date, MonthOf[s])
               active == IF cell.date = None THEN p.active ELSE cell.date
               flags  == IF cell.date = None THEN p.flags
                         ELSE IF cell.issue = "sheet_mismatch" THEN {"date_sheet_mismatch"} ELSE {}
           IN  /\ active \in Dates /\ flags \in SUBSET Flags
               /\ flags = {} => Certain(active, Append(rows, row), s, Len(rows) + 1)
<1> DEFINE cell == SourceDate(row.date, MonthOf[s])
           all  == Append(rows, row)
           end  == Len(rows)
<1>1. cell.date \in Dates
    BY DEF Dates
<1>2. cell.date # None /\ cell.issue # "sheet_mismatch" => cell.date.month = MonthOf[s] \/ Truncated(row.date)
    BY DEF SourceDate
<1>3. p.active \in Dates /\ p.flags \in SUBSET Flags
    BY DEF Parser
<1>4. /\ end \in Nat /\ Len(all) = end + 1 /\ all[end + 1] = row
      /\ \A n \in 1..end : all[n] = rows[n]
    BY AppendProperties
<1>5. cell = SourceDate(all[end + 1].date, MonthOf[s])
    BY <1>4
<1> HIDE DEF cell, all, end
<1>6. "date_sheet_mismatch" \in Flags
    BY DEF Flags
<1>7. ASSUME cell.date = None, Certain(p.active, rows, s, end)
      PROVE  Certain(p.active, all, s, end + 1)
  <2>1. CASE InMonth(p.active, s)
      BY <2>1 DEF Certain
  <2>2. CASE TextDated(rows, s, p.active, end)
    <3>1. PICK k \in 1..end :
              /\ Truncated(rows[k].date) /\ SourceDate(rows[k].date, MonthOf[s]).date = p.active
              /\ \A m \in (k + 1)..end : SourceDate(rows[m].date, MonthOf[s]).date = None
        BY <2>2 DEF TextDated
    <3>2. k \in 1..(end + 1) /\ \A m \in (k + 1)..(end + 1) : m = end + 1 \/ (m \in (k + 1)..end /\ m \in 1..end)
        BY <1>4
    <3>3. \A m \in (k + 1)..(end + 1) : SourceDate(all[m].date, MonthOf[s]).date = None
        BY <1>4, <1>5, <1>7, <3>1, <3>2
    <3> QED
        BY <1>4, <3>1, <3>2, <3>3 DEF Certain, TextDated
  <2> QED
      BY <1>7, <2>1, <2>2 DEF Certain
<1>8. ASSUME cell.date # None, cell.issue # "sheet_mismatch"
      PROVE  Certain(cell.date, all, s, end + 1)
  <2>1. CASE Truncated(row.date)
    <3>1. end + 1 \in 1..(end + 1) /\ \A m \in (end + 1 + 1)..(end + 1) : FALSE
        BY <1>4
    <3> QED
        BY <1>4, <1>5, <2>1, <3>1 DEF Certain, TextDated
  <2> QED
      BY <1>2, <1>8, <2>1 DEF Certain, InMonth
<1> QED
    BY <1>1, <1>3, <1>6, <1>7, <1>8 DEF cell, all, end

\* A value of a ticket is a number; so is one of a row that tells its amount.
LEMMA ValueInt ==
    ASSUME NEW t \in Ticket
    PROVE  Value(t) \in Int
<1>1. Len(t.lines) \in Nat /\ Len(t.lines) <= Len(t.lines)
    BY DEF Ticket
<1> QED
    BY <1>1, GrossInt, AdjustmentsInt DEF Value

LEMMA RowValueInt ==
    ASSUME NEW row \in Rows, PlainRow(row)
    PROVE  RowValue(row) \in Int
BY RowFacts DEF PlainRow, RowValue, AmountCells

\* One more row adds its value.
LEMMA RowsLengthened ==
    ASSUME NEW rows \in Seq(Rows), NEW row \in Rows, PlainRows(Append(rows, row))
    PROVE  /\ PlainRows(rows) /\ PlainRow(row)
           /\ Summed(RowValues(rows)) \in Int
           /\ Summed(RowValues(Append(rows, row))) = Summed(RowValues(rows)) + RowValue(row)
<1> DEFINE m == Len(rows)
<1> DEFINE all == Append(rows, row)
<1>1. /\ m \in Nat /\ Len(all) = m + 1 /\ all[m + 1] = row
      /\ \A n \in 1..m : all[n] = rows[n] /\ rows[n] \in Rows
    BY AppendProperties
<1> HIDE DEF m, all
<1>2. PlainRow(row) /\ \A n \in 1..m : PlainRow(rows[n])
    BY <1>1 DEF PlainRows, all
<1>3. PlainRows(rows)
    BY <1>2 DEF PlainRows, m
<1> DEFINE f == RowValues(rows)
<1> DEFINE g == RowValues(all)
<1>4. /\ DOMAIN f = 1..m /\ DOMAIN g = 1..(m + 1)
      /\ \A n \in 1..m : f[n] = RowValue(rows[n]) /\ g[n] = RowValue(rows[n])
      /\ g[m + 1] = RowValue(row)
    BY <1>1 DEF RowValues, m
<1>5. /\ \A n \in 1..m : f[n] \in Int /\ g[n] = f[n]
      /\ g[m + 1] \in Int
    BY <1>1, <1>2, <1>4, RowValueInt
<1> HIDE DEF f, g
<1>6. Summed(g) = Summed(f) + g[m + 1]
    BY ONLY <1>1, <1>4, <1>5, SumAppend
<1>7. Summed(f) \in Int
    BY <1>1, <1>4, <1>5, FS_Interval, SumInt, SummedIsSigma
<1> QED
    BY <1>2, <1>3, <1>4, <1>6, <1>7 DEF f, g, all

\* One more ticket adds its value; a ticket that is replaced changes the sum by
\* the difference.
LEMMA TicketsLengthened ==
    ASSUME NEW tickets \in Seq(Ticket), NEW u \in Ticket
    PROVE  Summed(Values(Append(tickets, u))) = Summed(Values(tickets)) + Value(u)
<1> DEFINE m == Len(tickets)
<1> DEFINE all == Append(tickets, u)
<1>1. /\ m \in Nat /\ Len(all) = m + 1 /\ all[m + 1] = u
      /\ \A i \in 1..m : all[i] = tickets[i] /\ tickets[i] \in Ticket
    BY AppendProperties
<1> HIDE DEF m, all
<1> DEFINE f == Values(tickets)
<1> DEFINE g == Values(all)
<1>2. /\ DOMAIN f = 1..m /\ DOMAIN g = 1..(m + 1)
      /\ \A i \in 1..m : f[i] = Value(tickets[i]) /\ g[i] = Value(tickets[i])
      /\ g[m + 1] = Value(u)
    BY <1>1 DEF Values, m
<1>3. /\ \A i \in 1..m : f[i] \in Int /\ g[i] = f[i]
      /\ g[m + 1] \in Int
    BY <1>1, <1>2, ValueInt
<1> HIDE DEF f, g
<1>4. Summed(g) = Summed(f) + g[m + 1]
    BY ONLY <1>1, <1>2, <1>3, SumAppend
<1> QED
    BY <1>2, <1>4 DEF f, g, all

LEMMA TicketReplaced ==
    ASSUME NEW tickets \in Seq(Ticket), tickets # <<>>, NEW u \in Ticket
    PROVE  LET m == Len(tickets)
           IN  Summed(Values([tickets EXCEPT ![m] = u])) = Summed(Values(tickets)) + Value(u) - Value(tickets[m])
<1> DEFINE m == Len(tickets)
<1> DEFINE all == [tickets EXCEPT ![m] = u]
<1>1. /\ m \in Nat /\ m \in 1..m /\ Len(all) = m /\ all[m] = u
      /\ \A i \in 1..m : tickets[i] \in Ticket /\ all[i] \in Ticket /\ (i # m => all[i] = tickets[i])
    OBVIOUS
<1> HIDE DEF m, all
<1> DEFINE f == Values(tickets)
<1> DEFINE g == Values(all)
<1>2. /\ DOMAIN f = 1..m /\ DOMAIN g = 1..m
      /\ \A i \in 1..m : f[i] = Value(tickets[i]) /\ g[i] = Value(all[i])
    BY <1>1 DEF Values, m
<1>3. PICK S : S = 1..m
    OBVIOUS
<1>4. /\ \A i \in S : f[i] \in Int /\ g[i] \in Int
      /\ \A i \in S \ {m} : f[i] = g[i]
      /\ IsFiniteSet(S) /\ m \in S
  <2>1. \A i \in 1..m : f[i] \in Int /\ g[i] \in Int
      BY <1>1, <1>2, ValueInt
  <2>2. \A i \in (1..m) \ {m} : f[i] = g[i]
      BY <1>1, <1>2
  <2>3. IsFiniteSet(1..m)
      BY <1>1, FS_Interval
  <2> QED
      BY <1>1, <1>3, <2>1, <2>2, <2>3
<1> HIDE DEF f, g
<1>5. Sigma(g, S) = Sigma(f, S) + g[m] - f[m]
    BY ONLY <1>4, SumChange
<1>6. Summed(g) = Summed(f) + g[m] - f[m]
    BY <1>2, <1>3, <1>5, SummedIsSigma
<1> QED
    BY <1>1, <1>2, <1>6 DEF f, g, all, m

LEMMA TicketsSumInt ==
    ASSUME NEW tickets \in Seq(Ticket)
    PROVE  Summed(Values(tickets)) \in Int
<1> DEFINE f == Values(tickets)
<1>1. /\ DOMAIN f = 1..Len(tickets) /\ Len(tickets) \in Nat
      /\ \A i \in 1..Len(tickets) : f[i] \in Int
    BY ValueInt DEF Values
<1> HIDE DEF f
<1>2. IsFiniteSet(1..Len(tickets))
    BY <1>1, FS_Interval
<1> QED
    BY <1>1, <1>2, SumInt, SummedIsSigma DEF f

-----------------------------------------------------------------------------
\* What the next row does to the tickets, in the three cases of the parser.
LEMMA ParseFacts ==
    ASSUME NEW s \in Sheets, NEW rows \in Seq(Rows), NEW row \in Rows, NEW separate \in BOOLEAN,
           NEW p, ReaderOK(p, rows, s)
    PROVE  LET q   == ParseRow(p, s, row, separate)
               all == Append(rows, row)
               m   == Len(p.tickets)
           IN  /\ q \in Parser /\ q.row = Len(all) /\ (q.flags = {} => Certain(q.active, all, s, Len(all)))
               /\ \/ Blank(row) /\ q.tickets = p.tickets
                  \/ \E t \in Ticket :
                        /\ TicketOK(t, all, s) /\ t.row = Len(all) /\ t.lines = <<>> /\ t.adjustments = <<>>
                        /\ Agrees(row, s, t)
                        /\ q.tickets = Append(p.tickets, AddRow(t, row, Len(all)))
                  \/ /\ p.tickets # <<>> /\ Agrees(row, s, p.tickets[m])
                     /\ q.tickets = [p.tickets EXCEPT ![m] = AddRow(p.tickets[m], row, Len(all))]
<1> DEFINE n      == p.row + 1
           cell   == SourceDate(row.date, MonthOf[s])
           active == IF cell.date = None THEN p.active ELSE cell.date
           flags  == IF cell.date = None THEN p.flags
                     ELSE IF cell.issue = "sheet_mismatch" THEN {"date_sheet_mismatch"} ELSE {}
           opens  == OpensTicket(p, row, cell.date, active, separate)
           new    == NewTicket(p, s, n, row, active, flags, separate)
           before == IF opens THEN new ELSE Last(p.tickets)
           ticket == AddRow(before, row, n)
           all    == Append(rows, row)
           m      == Len(p.tickets)
           q      == ParseRow(p, s, row, separate)
<1>1. /\ p \in Parser /\ n = Len(all) /\ n \in Nat /\ n \in 1..Len(all) /\ all[n] = row
      /\ p.tickets \in Seq(Ticket)
    BY DEF ReaderOK, Parser
<1>2. active \in Dates /\ flags \in SUBSET Flags /\ (flags = {} => Certain(active, all, s, n))
  <2>1. p \in Parser /\ (p.flags = {} => Certain(p.active, rows, s, Len(rows))) /\ n = Len(rows) + 1
      BY DEF ReaderOK, Parser
  <2> QED
      BY <2>1, DateFacts
<1>3. q = IF Blank(row) THEN [p EXCEPT !.row = n, !.active = active, !.flags = flags]
          ELSE [row |-> n, active |-> active, flags |-> flags,
                tickets |-> IF opens THEN Append(p.tickets, ticket) ELSE [p.tickets EXCEPT ![m] = ticket],
                closed |-> IF row.product = "discount" \/ ~separate \/ ticket.lines = <<>>
                           THEN ~opens /\ p.closed ELSE row.formula = "sum"]
    BY DEF ParseRow
<1>4. CASE Blank(row)
    BY <1>1, <1>2, <1>3, <1>4 DEF Parser
<1>5. CASE ~Blank(row) /\ opens
  <2>1. /\ new \in Ticket /\ TicketOK(new, all, s) /\ new.row = n /\ new.lines = <<>> /\ new.adjustments = <<>>
        /\ new.customer = row.customer /\ new.invoice = row.invoice /\ new.date = active
    <3> DEFINE more == IF Independent(p, row, separate) THEN {"unlabelled_separate_total"} ELSE {}
    <3>1. new = [sheet |-> s, row |-> n, date |-> active, customer |-> row.customer, invoice |-> row.invoice,
                 lines |-> <<>>, adjustments |-> <<>>, reported |-> None, flags |-> flags \union more]
        BY DEF NewTicket
    <3>2. more \in SUBSET Flags
        BY DEF Flags
    <3> HIDE DEF more, new, active, flags, n
    <3>3. flags \union more \in SUBSET Flags /\ (flags \union more = {} => flags = {})
        BY <1>2, <3>2
    <3>4. new \in Ticket
        BY <1>1, <1>2, <3>1, <3>3, RowFacts DEF Ticket, AmountCells
    <3>5. TicketOK(new, all, s)
        BY <1>1, <1>2, <3>1, <3>3 DEF TicketOK
    <3> QED
        BY <3>1, <3>4, <3>5
  <2>2. Agrees(row, s, new)
      BY <2>1 DEF Agrees
  <2>3. q = [row |-> n, active |-> active, flags |-> flags, tickets |-> Append(p.tickets, ticket),
             closed |-> IF row.product = "discount" \/ ~separate \/ ticket.lines = <<>>
                        THEN ~opens /\ p.closed ELSE row.formula = "sum"]
      BY <1>3, <1>5
  <2>4. ticket = AddRow(new, row, n) /\ ticket \in Ticket
      BY <1>1, <1>5, <2>1, AddRowFacts
  <2> HIDE DEF new, active, flags, n, opens, ticket, q, all
  <2>5. Append(p.tickets, ticket) \in Seq(Ticket)
      BY <1>1, <2>4, AppendProperties
  <2>6. q \in Parser
      BY <1>1, <1>2, <2>3, <2>5 DEF Parser
  <2>7. q.tickets = Append(p.tickets, AddRow(new, row, Len(all)))
      BY <1>1, <2>3, <2>4
  <2>8. q.row = Len(all) /\ (q.flags = {} => Certain(q.active, all, s, Len(all)))
      BY <1>1, <1>2, <2>3
  <2> QED
      BY <1>1, <2>1, <2>2, <2>6, <2>7, <2>8 DEF q, all
<1>6. CASE ~Blank(row) /\ ~opens
  <2>1. p.tickets # <<>> /\ Last(p.tickets) = p.tickets[m] /\ m \in 1..m /\ p.tickets[m] \in Ticket
      BY <1>1, <1>6 DEF OpensTicket, Last
  <2>2. Agrees(row, s, p.tickets[m])
      BY <1>6, <2>1 DEF OpensTicket, Repeated, Agrees
  <2>3. q = [row |-> n, active |-> active, flags |-> flags, tickets |-> [p.tickets EXCEPT ![m] = ticket],
             closed |-> IF row.product = "discount" \/ ~separate \/ ticket.lines = <<>>
                        THEN ~opens /\ p.closed ELSE row.formula = "sum"]
      BY <1>3, <1>6
  <2>4. ticket = AddRow(p.tickets[m], row, n) /\ ticket \in Ticket
      BY <1>1, <1>6, <2>1, AddRowFacts
  <2> HIDE DEF new, active, flags, n, opens, ticket, q, all
  <2>5. [p.tickets EXCEPT ![m] = ticket] \in Seq(Ticket)
      BY <1>1, <2>1, <2>4, Replaced
  <2>6. q \in Parser
      BY <1>1, <1>2, <2>3, <2>5 DEF Parser
  <2>7. q.tickets = [p.tickets EXCEPT ![m] = AddRow(p.tickets[m], row, Len(all))]
      BY <1>1, <2>3, <2>4
  <2>8. q.row = Len(all) /\ (q.flags = {} => Certain(q.active, all, s, Len(all)))
      BY <1>1, <1>2, <2>3
  <2> QED
      BY <1>1, <2>1, <2>2, <2>6, <2>7, <2>8 DEF q, all
<1> QED
    BY <1>4, <1>5, <1>6

\* The labels that a row cannot change.
SameLabels(t, u) ==
    u.sheet = t.sheet /\ u.row = t.row /\ u.date = t.date /\ u.customer = t.customer
    /\ u.invoice = t.invoice /\ u.flags = t.flags

LEMMA TicketKept ==
    ASSUME NEW t, NEW u, SameLabels(t, u), NEW rows \in Seq(Rows), NEW row \in Rows, NEW s
    PROVE  /\ TicketOK(t, rows, s) => TicketOK(u, Append(rows, row), s)
           /\ TicketOK(t, rows, s) => TicketOK(u, rows, s)
           /\ \A x : Agrees(x, s, t) => Agrees(x, s, u)
<1>1. /\ Len(Append(rows, row)) = Len(rows) + 1 /\ Len(rows) \in Nat
      /\ \A n \in 1..Len(rows) : Append(rows, row)[n] = rows[n] /\ n \in 1..Len(Append(rows, row))
    BY AppendProperties
<1>2. TicketOK(t, rows, s) => t.row \in Nat /\ t.row <= Len(rows)
    BY <1>1 DEF TicketOK
<1> QED
    BY <1>1, <1>2, CertainKept DEF SameLabels, TicketOK, Agrees

\* The next row of a sheet is read into the ticket it is labelled for, and counted.
LEMMA ParseStep ==
    ASSUME NEW s \in Sheets, NEW rows \in Seq(Rows), NEW row \in Rows, NEW separate \in BOOLEAN,
           NEW p, ReaderOK(p, rows, s)
    PROVE  ReaderOK(ParseRow(p, s, row, separate), Append(rows, row), s)
<1> DEFINE q   == ParseRow(p, s, row, separate)
           all == Append(rows, row)
           m   == Len(p.tickets)
           end == Len(rows)
<1>1. /\ end \in Nat /\ Len(all) = end + 1 /\ all[end + 1] = row
      /\ \A n \in 1..end : all[n] = rows[n]
    BY AppendProperties
<1>2. p \in Parser /\ p.row = end /\ p.tickets \in Seq(Ticket) /\ m \in Nat
    BY DEF ReaderOK, Parser
<1>3. \A i \in 1..m :
          /\ TicketOK(p.tickets[i], rows, s)
          /\ p.tickets[i].row \in 1..end
          /\ \A j \in 1..m : i < j => p.tickets[i].row < p.tickets[j].row
          /\ i < m => p.tickets[i].row < p.tickets[i + 1].row /\ p.tickets[i + 1].row \in 1..end
          /\ \A n \in p.tickets[i].row..LastRow(p, i) : Agrees(rows[n], s, p.tickets[i])
  <2>1. \A i \in 1..m : i < m => i + 1 \in 1..m /\ i < i + 1
      BY <1>2
  <2> QED
      BY <2>1 DEF ReaderOK, TicketOK
<1>4. /\ q \in Parser /\ q.row = end + 1 /\ (q.flags = {} => Certain(q.active, all, s, end + 1))
  <2>1. q \in Parser
      BY ParseFacts
  <2>2. q.row = end + 1
      BY <1>2 DEF ParseRow, Parser
  <2>3. q.flags = {} => Certain(q.active, all, s, Len(all))
      BY ParseFacts
  <2> QED
      BY <1>1, <2>1, <2>2, <2>3
<1>5. ASSUME NEW i \in 1..m, NEW u, SameLabels(p.tickets[i], u)
      PROVE  /\ TicketOK(u, all, s)
             /\ \A n \in p.tickets[i].row..LastRow(p, i) : n \in 1..end /\ Agrees(all[n], s, u)
  <2>1. LastRow(p, i) \in Int /\ LastRow(p, i) <= end
      BY <1>1, <1>2, <1>3 DEF LastRow
  <2>2. \A n \in p.tickets[i].row..LastRow(p, i) : n \in 1..end
      BY <1>3, <2>1
  <2>3. \A n \in p.tickets[i].row..LastRow(p, i) : Agrees(all[n], s, p.tickets[i])
      BY <1>1, <1>3, <2>2
  <2> QED
      BY <1>3, <1>5, <2>2, <2>3, TicketKept
<1>6. Balanced(p.tickets, rows)
    BY DEF ReaderOK
<1>7. PlainRows(all) =>
          /\ PlainRows(rows) /\ PlainRow(row)
          /\ Summed(RowValues(rows)) \in Int /\ RowValue(row) \in Int
          /\ Summed(RowValues(all)) = Summed(RowValues(rows)) + RowValue(row)
    BY RowsLengthened, RowValueInt
<1>8. \A t : SameLabels(t, t)
    BY DEF SameLabels
<1> HIDE DEF q, all
<1>9. CASE Blank(row) /\ q.tickets = p.tickets
  <2>1. ASSUME NEW i \in 1..m
        PROVE  /\ TicketOK(q.tickets[i], all, s)
               /\ \A n \in q.tickets[i].row..LastRow(q, i) : Agrees(all[n], s, q.tickets[i])
    <3>1. CASE i = m
      <4>1. LastRow(p, i) = end /\ LastRow(q, i) = end + 1
          BY <1>2, <1>4, <1>9, <3>1 DEF LastRow
      <4>2. \A n \in p.tickets[i].row..end : Agrees(all[n], s, p.tickets[i])
          BY <1>5, <1>8, <4>1
      <4>3. Agrees(all[end + 1], s, p.tickets[i])
          BY <1>1, <1>9 DEF Agrees, all
      <4>4. \A n \in p.tickets[i].row..(end + 1) : n = end + 1 \/ n \in p.tickets[i].row..end
          BY <1>1, <1>3
      <4> QED
          BY <1>5, <1>8, <1>9, <4>1, <4>2, <4>3, <4>4
    <3>2. CASE i # m
      <4>1. LastRow(p, i) = LastRow(q, i)
          BY <1>9, <3>2 DEF LastRow
      <4> QED
          BY <1>5, <1>8, <1>9, <4>1
    <3> QED
        BY <3>1, <3>2
  <2>2. Balanced(q.tickets, all)
    <3> SUFFICES ASSUME PlainRows(all)
                 PROVE  /\ \A i \in 1..Len(q.tickets) : ~Unresolved(q.tickets[i])
                        /\ Summed(Values(q.tickets)) = Summed(RowValues(all))
        BY DEF Balanced
    <3>1. RowValue(row) = 0
        BY <1>9 DEF RowValue, Blank
    <3> QED
        BY <1>6, <1>7, <1>9, <3>1 DEF Balanced
  <2> QED
      BY <1>1, <1>3, <1>4, <1>9, <2>1, <2>2 DEF ReaderOK, all, q
<1>10. ASSUME NEW t \in Ticket, TicketOK(t, all, s), t.row = end + 1, t.lines = <<>>, t.adjustments = <<>>,
              Agrees(row, s, t), q.tickets = Append(p.tickets, AddRow(t, row, end + 1))
       PROVE  ReaderOK(q, all, s)
  <2> DEFINE u == AddRow(t, row, end + 1)
  <2>1. /\ u \in Ticket /\ SameLabels(t, u)
        /\ PlainRow(row) /\ ~Unresolved(t) => ~Unresolved(u) /\ Value(u) = Value(t) + RowValue(row)
      BY <1>1, AddRowFacts DEF SameLabels
  <2>2. TicketOK(u, all, s) /\ Agrees(row, s, u) /\ u.row = end + 1
    <3>1. TicketOK(u, all, s)
        BY <1>10, <2>1 DEF SameLabels, TicketOK
    <3> QED
        BY <1>10, <2>1, <3>1, TicketKept DEF SameLabels
  <2> HIDE DEF u
  <2>3. /\ Len(q.tickets) = m + 1 /\ q.tickets[m + 1] = u
        /\ \A i \in 1..m : q.tickets[i] = p.tickets[i]
      BY <1>2, <1>10, <2>1, AppendProperties DEF u
  <2>4. ASSUME NEW i \in 1..(m + 1)
        PROVE  /\ TicketOK(q.tickets[i], all, s)
               /\ \A j \in 1..(m + 1) : i < j => q.tickets[i].row < q.tickets[j].row
               /\ \A n \in q.tickets[i].row..LastRow(q, i) : Agrees(all[n], s, q.tickets[i])
    <3>1. CASE i = m + 1
      <4>1. LastRow(q, i) = end + 1 /\ q.tickets[i] = u
          BY <1>4, <2>3, <3>1 DEF LastRow
      <4>2. \A n \in u.row..(end + 1) : n = end + 1
          BY <1>1, <2>2
      <4>3. \A j \in 1..(m + 1) : ~(i < j)
          BY <1>2, <3>1
      <4> QED
          BY <1>1, <2>2, <4>1, <4>2, <4>3 DEF all
    <3>2. CASE i # m + 1
      <4>1. i \in 1..m /\ q.tickets[i] = p.tickets[i]
          BY <1>2, <2>3, <3>2
      <4>2. LastRow(p, i) = LastRow(q, i)
        <5>1. CASE i = m
          <6>1. LastRow(p, i) = end
              BY <1>2, <5>1 DEF LastRow
          <6>2. LastRow(q, i) = q.tickets[m + 1].row - 1
              BY <1>2, <2>3, <5>1 DEF LastRow
          <6>3. p.tickets[i].row \in 1..end
              BY <1>3, <4>1
          <6> QED
              BY <1>1, <2>2, <2>3, <5>1, <6>1, <6>2, <6>3
        <5>2. CASE i # m
          <6>1. i < m /\ i + 1 \in 1..m
              BY <1>2, <4>1, <5>2
          <6> QED
              BY <1>2, <1>3, <2>3, <4>1, <5>2, <6>1 DEF LastRow
        <5> QED
            BY <5>1, <5>2
      <4>3. ASSUME NEW j \in 1..(m + 1), i < j
            PROVE  q.tickets[i].row < q.tickets[j].row
        <5>1. CASE j = m + 1
            BY <1>1, <1>3, <2>2, <2>3, <4>1, <5>1
        <5>2. CASE j # m + 1
          <6>1. j \in 1..m
              BY <1>2, <5>2
          <6> QED
              BY <1>3, <2>3, <4>1, <4>3, <6>1
        <5> QED
            BY <5>1, <5>2
      <4> QED
          BY <1>5, <1>8, <4>1, <4>2, <4>3
    <3> QED
        BY <3>1, <3>2
  <2>5. Balanced(q.tickets, all)
    <3> SUFFICES ASSUME PlainRows(all)
                 PROVE  /\ \A i \in 1..Len(q.tickets) : ~Unresolved(q.tickets[i])
                        /\ Summed(Values(q.tickets)) = Summed(RowValues(all))
        BY DEF Balanced
    <3>1. ~Unresolved(t) /\ Value(t) = 0
      <4>1. Len(t.lines) = 0 /\ 1..Len(t.lines) = {} /\ DOMAIN t.adjustments = {}
          BY <1>10
      <4>2. Summed(t.adjustments) = 0
          BY <4>1, FS_EmptySet, SumZero, SummedIsSigma
      <4> DEFINE f == [i \in 1..Len(t.lines) |-> AmountOr0(t.lines[i].amount)]
      <4>3. DOMAIN f = {}
          BY <4>1
      <4> HIDE DEF f
      <4>4. Summed(f) = 0
          BY <4>3, FS_EmptySet, SumZero, SummedIsSigma
      <4> QED
          BY <4>1, <4>2, <4>4 DEF Unresolved, Value, Gross, f
    <3>2. ~Unresolved(u) /\ Value(u) = RowValue(row)
        BY <1>7, <2>1, <3>1
    <3>3. Summed(Values(q.tickets)) = Summed(Values(p.tickets)) + Value(u)
        BY <1>2, <1>10, <2>1, TicketsLengthened DEF u
    <3>4. \A i \in 1..(m + 1) : ~Unresolved(q.tickets[i])
      <4>1. \A i \in 1..m : ~Unresolved(p.tickets[i])
          BY <1>6, <1>7 DEF Balanced
      <4>2. \A i \in 1..(m + 1) : i \in 1..m \/ i = m + 1
          BY <1>2
      <4> QED
          BY <2>3, <3>2, <4>1, <4>2
    <3> QED
        BY <1>6, <1>7, <2>3, <3>2, <3>3, <3>4 DEF Balanced
  <2> QED
      BY <1>1, <1>4, <2>3, <2>4, <2>5 DEF ReaderOK, all, q
<1>11. CASE /\ p.tickets # <<>> /\ Agrees(row, s, p.tickets[m])
            /\ q.tickets = [p.tickets EXCEPT ![m] = AddRow(p.tickets[m], row, end + 1)]
  <2> DEFINE t == p.tickets[m]
  <2> DEFINE u == AddRow(t, row, end + 1)
  <2>1. m \in 1..m /\ t \in Ticket
      BY <1>2, <1>11
  <2>2. /\ u \in Ticket /\ SameLabels(t, u)
        /\ PlainRow(row) /\ ~Unresolved(t) => ~Unresolved(u) /\ Value(u) = Value(t) + RowValue(row)
      BY <1>1, <2>1, AddRowFacts DEF SameLabels
  <2>3. q.tickets = [p.tickets EXCEPT ![m] = u]
      BY <1>11
  <2> HIDE DEF u, t
  <2>4. /\ Len(q.tickets) = m /\ q.tickets[m] = u
        /\ \A i \in 1..m : i # m => q.tickets[i] = p.tickets[i]
      BY <1>2, <2>1, <2>2, <2>3, Replaced
  <2>5. \A i \in 1..m : SameLabels(p.tickets[i], q.tickets[i])
      BY <1>8, <2>2, <2>4 DEF t
  <2>6. ASSUME NEW i \in 1..m
        PROVE  /\ TicketOK(q.tickets[i], all, s)
               /\ \A j \in 1..m : i < j => q.tickets[i].row < q.tickets[j].row
               /\ \A n \in q.tickets[i].row..LastRow(q, i) : Agrees(all[n], s, q.tickets[i])
    <3>1. \A j \in 1..m : q.tickets[j].row = p.tickets[j].row
        BY <2>5 DEF SameLabels
    <3>2. CASE i = m
      <4>1. LastRow(p, i) = end /\ LastRow(q, i) = end + 1
          BY <1>2, <1>4, <2>4, <3>2 DEF LastRow
      <4>2. \A n \in q.tickets[i].row..end : Agrees(all[n], s, q.tickets[i])
          BY <1>5, <2>5, <3>1, <4>1
      <4>3. Agrees(all[end + 1], s, q.tickets[i])
        <5>1. Agrees(row, s, u)
            BY <1>11, <2>2 DEF Agrees, SameLabels, t
        <5> QED
            BY <1>1, <2>4, <3>2, <5>1 DEF all
      <4>4. \A n \in q.tickets[i].row..(end + 1) : n = end + 1 \/ n \in q.tickets[i].row..end
          BY <1>1, <1>3, <3>1
      <4> QED
          BY <1>3, <1>5, <2>5, <3>1, <4>1, <4>2, <4>3, <4>4
    <3>3. CASE i # m
      <4>1. i < m /\ i + 1 \in 1..m
          BY <1>2, <3>3
      <4>2. q.tickets[i + 1].row = p.tickets[i + 1].row
          BY <2>5, <4>1 DEF SameLabels
      <4>3. LastRow(p, i) = LastRow(q, i)
          BY <2>4, <3>3, <4>2 DEF LastRow
      <4>4. TicketOK(q.tickets[i], all, s) /\ \A n \in p.tickets[i].row..LastRow(p, i) : Agrees(all[n], s, q.tickets[i])
          BY <1>5, <2>5
      <4> QED
          BY <1>3, <3>1, <4>1, <4>2, <4>3, <4>4
    <3> QED
        BY <3>2, <3>3
  <2>7. Balanced(q.tickets, all)
    <3> SUFFICES ASSUME PlainRows(all)
                 PROVE  /\ \A i \in 1..Len(q.tickets) : ~Unresolved(q.tickets[i])
                        /\ Summed(Values(q.tickets)) = Summed(RowValues(all))
        BY DEF Balanced
    <3>1. \A i \in 1..m : ~Unresolved(p.tickets[i])
        BY <1>6, <1>7 DEF Balanced
    <3>2. ~Unresolved(u) /\ Value(u) = Value(t) + RowValue(row)
        BY <1>7, <2>1, <2>2, <3>1 DEF t
    <3>3. Summed(Values(q.tickets)) = Summed(Values(p.tickets)) + Value(u) - Value(t)
        BY <1>2, <1>11, <2>2, <2>3, TicketReplaced DEF t
    <3>4. Value(t) \in Int
        BY <2>1, ValueInt
    <3>5. \A i \in 1..m : ~Unresolved(q.tickets[i])
        BY <2>4, <3>1, <3>2
    <3>6. Summed(Values(p.tickets)) = Summed(RowValues(rows))
        BY <1>6, <1>7 DEF Balanced
    <3> QED
        BY <1>7, <2>4, <3>2, <3>3, <3>4, <3>5, <3>6
  <2> QED
      BY <1>1, <1>4, <2>4, <2>6, <2>7 DEF ReaderOK, all, q
<1> QED
  <2>1. \/ Blank(row) /\ q.tickets = p.tickets
        \/ \E t \in Ticket :
              /\ TicketOK(t, all, s) /\ t.row = end + 1 /\ t.lines = <<>> /\ t.adjustments = <<>>
              /\ Agrees(row, s, t)
              /\ q.tickets = Append(p.tickets, AddRow(t, row, end + 1))
        \/ /\ p.tickets # <<>> /\ Agrees(row, s, p.tickets[m])
           /\ q.tickets = [p.tickets EXCEPT ![m] = AddRow(p.tickets[m], row, end + 1)]
      BY <1>1, ParseFacts DEF q, all
  <2> QED
      BY <1>9, <1>10, <1>11, <2>1 DEF q, all

-----------------------------------------------------------------------------
(***************************************************************************)
(* The workbooks are read faithfully.                                      *)
(***************************************************************************)
BooksOK ==
    /\ sheets \in [Sheets -> Seq(Rows)]
    /\ DOMAIN parse = Sheets \X BOOLEAN
    /\ \A s \in Sheets, separate \in BOOLEAN : ReaderOK(parse[<<s, separate>>], sheets[s], s)

LEMMA BooksInit ==
    ASSUME WorkbooksInit
    PROVE  BooksOK
<1> DEFINE p == [row |-> 0, active |-> None, flags |-> {}, tickets |-> <<>>, closed |-> FALSE]
<1>1. sheets = [s \in Sheets |-> <<>>] /\ parse = [x \in Sheets \X BOOLEAN |-> p]
    BY DEF WorkbooksInit
<1>2. ASSUME NEW s \in Sheets
      PROVE  ReaderOK(p, <<>>, s)
  <2>1. p \in Parser
      BY DEF Parser, Dates
  <2>2. Len(<<>>) = 0 /\ 1..Len(<<>>) = {}
      OBVIOUS
  <2>3. Balanced(<<>>, <<>>)
    <3>1. DOMAIN Values(<<>>) = {} /\ DOMAIN RowValues(<<>>) = {}
        BY <2>2 DEF Values, RowValues
    <3>2. Summed(Values(<<>>)) = 0 /\ Summed(RowValues(<<>>)) = 0
        BY <3>1, FS_EmptySet, SumZero, SummedIsSigma
    <3> QED
        BY <2>2, <3>2 DEF Balanced
  <2> QED
      BY <2>1, <2>2, <2>3 DEF ReaderOK, Certain, InMonth
<1> HIDE DEF p
<1> QED
    BY <1>1, <1>2 DEF BooksOK

\* Only WriteRow changes the workbooks.
LEMMA OtherSteps ==
    ASSUME Next
    PROVE  UNCHANGED bookVars \/ \E s \in Sheets, row \in Rows : WriteRow(s, row)
<1>1. \A older : Load(older) => UNCHANGED bookVars
    BY DEF Load
<1>2. /\ \A p : CreateProduct(p) \/ DeleteProduct(p) => UNCHANGED bookVars
      /\ \A p, name : RenameProduct(p, name) => UNCHANGED bookVars
      /\ \A p, active : SetProductActive(p, active) => UNCHANGED bookVars
    BY DEF CreateProduct, RenameProduct, SetProductActive, DeleteProduct
<1>3. /\ \A c, name, contact : CreateCustomer(c, name, contact) => UNCHANGED bookVars
      /\ \A c, name : RenameCustomer(c, name) => UNCHANGED bookVars
      /\ \A c, contact : SetContact(c, contact) => UNCHANGED bookVars
      /\ \A c : DeleteCustomer(c) \/ ReactivateCustomer(c) => UNCHANGED bookVars
    BY DEF CreateCustomer, RenameCustomer, SetContact, DeleteCustomer, ReactivateCustomer
<1>4. ASSUME NEW r, NEW cart, NEW c, NEW ordered, NEW historical, LiveSale(r, cart, c, ordered, historical)
      PROVE  UNCHANGED bookVars
    BY <1>4, Zenon DEF LiveSale
<1>5. ApplyRefresh \/ ConsolidateProducts \/ ConsolidateCustomers \/ RemoveDummyData => UNCHANGED bookVars
    BY DEF ApplyRefresh, ConsolidateProducts, ConsolidateCustomers, RemoveDummyData, MaintenanceCommand
<1>6. CASE \E older \in BOOLEAN : Load(older)
    BY <1>1, <1>6
<1>7. CASE \/ \E p \in ProductIds : CreateProduct(p) \/ DeleteProduct(p)
           \/ \E p, name \in ProductIds : RenameProduct(p, name)
           \/ \E p \in ProductIds, active \in BOOLEAN : SetProductActive(p, active)
    BY <1>2, <1>7
<1>8. CASE \/ \E c \in NewCustomers, k \in DOMAIN Canonical, contact \in Contact \union {None} :
                 CreateCustomer(c, Canonical[k], contact)
           \/ \E c \in CustomerIds, contact \in Contact : SetContact(c, contact)
           \/ \E c \in CustomerIds, k \in DOMAIN Canonical : RenameCustomer(c, Canonical[k])
           \/ \E c \in CustomerIds : DeleteCustomer(c) \/ ReactivateCustomer(c)
    BY <1>3, <1>8
<1>9. CASE \E r \in LiveIds \union DemoIds, cart \in Carts, c \in CustomerIds \union {None},
              ordered, historical \in BOOLEAN : LiveSale(r, cart, c, ordered, historical)
    BY <1>4, <1>9
<1>10. CASE \E r \in LiveIds : VoidReceipt(r)
    BY <1>10 DEF VoidReceipt
<1> QED
    BY <1>5, <1>6, <1>7, <1>8, <1>9, <1>10 DEF Next

LEMMA BooksStep ==
    ASSUME BooksOK, [Next]_vars
    PROVE  BooksOK'
<1>1. CASE UNCHANGED bookVars
    BY <1>1 DEF BooksOK, bookVars
<1>2. ASSUME NEW s \in Sheets, NEW row \in Rows, WriteRow(s, row)
      PROVE  BooksOK'
  <2>1. /\ sheets' = [sheets EXCEPT ![s] = Append(@, row)]
        /\ parse' = [x \in Sheets \X BOOLEAN |->
                        IF x[1] = s THEN ParseRow(parse[x], s, row, x[2]) ELSE parse[x]]
      BY <1>2 DEF WriteRow, ReadRow
  <2>2. sheets' \in [Sheets -> Seq(Rows)] /\ DOMAIN parse' = Sheets \X BOOLEAN
    <3>1. sheets[s] \in Seq(Rows) /\ Append(sheets[s], row) \in Seq(Rows)
        BY AppendProperties DEF BooksOK
    <3> QED
        BY <2>1, <3>1 DEF BooksOK
  <2>3. ASSUME NEW s1 \in Sheets, NEW separate \in BOOLEAN
        PROVE  ReaderOK(parse'[<<s1, separate>>], sheets'[s1], s1)
    <3>1. ReaderOK(parse[<<s1, separate>>], sheets[s1], s1) /\ sheets[s1] \in Seq(Rows)
        BY DEF BooksOK
    <3>2. CASE s1 = s
      <4>1. /\ parse'[<<s1, separate>>] = ParseRow(parse[<<s1, separate>>], s, row, separate)
            /\ sheets'[s1] = Append(sheets[s1], row)
          BY <2>1, <3>2 DEF BooksOK
      <4> QED
          BY <3>1, <3>2, <4>1, ParseStep
    <3>3. CASE s1 # s
        BY <2>1, <3>1, <3>3 DEF BooksOK
    <3> QED
        BY <3>2, <3>3
  <2> QED
      BY <2>2, <2>3 DEF BooksOK
<1> QED
    BY <1>1, <1>2, OtherSteps DEF vars

LEMMA TicketsRead ==
    ASSUME BooksOK, NEW separate \in BOOLEAN, NEW t \in Tickets(separate)
    PROVE  /\ t \in Ticket /\ TicketOK(t, sheets[t.sheet], t.sheet)
           /\ \E i \in 1..Len(ParseSheet(t.sheet, separate)) : t = ParseSheet(t.sheet, separate)[i]
<1>1. PICK s \in Sheets : t \in ToSet(ParseSheet(s, separate))
    BY DEF Tickets
<1> DEFINE p == parse[<<s, separate>>]
<1>2. ReaderOK(p, sheets[s], s)
    BY DEF BooksOK
<1>3. p.tickets \in Seq(Ticket) /\ ParseSheet(s, separate) = p.tickets
    BY <1>2 DEF ReaderOK, Parser, ParseSheet
<1>4. PICK i \in 1..Len(p.tickets) : t = p.tickets[i]
    BY <1>1, <1>3 DEF ToSet
<1>5. TicketOK(t, sheets[s], s)
    BY <1>2, <1>4 DEF ReaderOK
<1> HIDE DEF p
<1>6. t.sheet = s
    BY <1>5 DEF TicketOK
<1> QED
    BY <1>3, <1>4, <1>5, <1>6

LEMMA NothingIsMixed ==
    ASSUME BooksOK
    PROVE  NoMixedTicket
<1> SUFFICES ASSUME NEW s \in Sheets, NEW separate \in BOOLEAN, NEW i \in 1..Len(ParseSheet(s, separate)),
                    NEW n \in ParseSheet(s, separate)[i].row..LastRow(parse[<<s, separate>>], i)
             PROVE  Agrees(sheets[s][n], s, ParseSheet(s, separate)[i])
  <2>1. \A s \in Sheets, separate \in BOOLEAN : parse[<<s, separate>>].row = Len(sheets[s])
      BY DEF BooksOK, ReaderOK
  <2> QED
      BY <2>1 DEF NoMixedTicket, Agrees, LastRow, ParseSheet
<1> DEFINE p == parse[<<s, separate>>]
<1>1. ReaderOK(p, sheets[s], s)
    BY DEF BooksOK
<1> HIDE DEF p
<1> QED
    BY <1>1 DEF ReaderOK, ParseSheet, p

LEMMA NothingIsLost ==
    ASSUME BooksOK
    PROVE  NothingLostInGrouping
<1> SUFFICES ASSUME NEW s \in Sheets, NEW separate \in BOOLEAN,
                    \A n \in 1..Len(sheets[s]) : sheets[s][n].product # None =>
                        /\ sheets[s][n].amount # None
                        /\ sheets[s][n].product # "discount" =>
                              /\ sheets[s][n].quantity # None /\ sheets[s][n].price # None
                              /\ sheets[s][n].quantity > 0,
                    \A t \in ToSet(ParseSheet(s, separate)) : t.date # None
             PROVE  SheetTotal(s, separate)
                        = Summed([n \in {k \in 1..Len(sheets[s]) : sheets[s][k].product # None} |-> sheets[s][n].amount])
    BY DEF NothingLostInGrouping
<1> DEFINE rows == sheets[s]
           tickets == ParseSheet(s, separate)
           named == {n \in 1..Len(rows) : rows[n].product # None}
           amounts == [n \in named |-> rows[n].amount]
<1>1. rows \in Seq(Rows) /\ ReaderOK(parse[<<s, separate>>], rows, s)
    BY DEF BooksOK
<1>2. tickets \in Seq(Ticket) /\ Balanced(tickets, rows)
    BY <1>1 DEF ReaderOK, Parser, ParseSheet
<1>3. PlainRows(rows)
    BY DEF PlainRows, PlainRow
<1>4. /\ \A i \in 1..Len(tickets) : ~Unresolved(tickets[i])
      /\ Summed(Values(tickets)) = Summed(RowValues(rows))
    BY <1>2, <1>3 DEF Balanced
<1>5. SheetTotal(s, separate) = Summed(Values(tickets))
  <2>1. \A i \in 1..Len(tickets) : tickets[i].date # None
      BY <1>2 DEF ToSet
  <2>2. {i \in 1..Len(tickets) : tickets[i].date # None} = 1..Len(tickets)
      BY <2>1
  <2>3. \A i \in 1..Len(tickets) : TicketAmount(tickets[i]) = Value(tickets[i])
      BY <1>4 DEF TicketAmount, Value
  <2>4. [i \in 1..Len(tickets) |-> TicketAmount(tickets[i])] = Values(tickets)
      BY <2>3 DEF Values
  <2> QED
      BY <2>2, <2>4 DEF SheetTotal
<1>6. Summed(RowValues(rows)) = Summed(amounts)
  <2> DEFINE h == RowValues(rows)
  <2>1. PICK S, T : S = 1..Len(rows) /\ T = named
      OBVIOUS
  <2>2. /\ DOMAIN h = S /\ DOMAIN amounts = T /\ T \in SUBSET S
        /\ \A n \in S : h[n] = RowValue(rows[n])
        /\ \A n \in T : amounts[n] = rows[n].amount
      BY <2>1 DEF RowValues
  <2>3. IsFiniteSet(S)
    <3>1. Len(rows) \in Nat
        BY <1>1
    <3> QED
        BY <2>1, <3>1, FS_Interval
  <2>4. \A n \in S : rows[n] \in Rows /\ PlainRow(rows[n])
      BY <1>1, <1>3, <2>1 DEF PlainRows
  <2>5. \A n \in S : h[n] \in Int
      BY <2>2, <2>4, RowValueInt
  <2>6. /\ \A n \in T : amounts[n] \in Int /\ h[n] = amounts[n]
        /\ \A n \in S \ T : h[n] = 0
      BY <2>1, <2>2, <2>5 DEF RowValue
  <2> HIDE DEF h, amounts
  <2>7. Sigma(h, S) = Sigma(amounts, T)
      BY ONLY <2>2, <2>3, <2>6, SumFilter
  <2> QED
      BY <2>2, <2>7, SummedIsSigma DEF h
<1> QED
    BY <1>4, <1>5, <1>6

LEMMA NothingIsGuessed ==
    ASSUME BooksOK
    PROVE  PlannedSalesAreCertain
<1> SUFFICES ASSUME NEW t \in Planned
             PROVE  /\ KeptLines(t) # 1..Len(t.lines) => \A i \in 1..Len(t.lines) : t.lines[i].amount # None
                    /\ Segment(t) # "unclassified" =>
                          /\ t.customer # None
                          /\ t.date # None => t.date.month = MonthOf[t.sheet] \/ DatedByTruncatedText(t)
                          /\ \A i \in KeptLines(t) : t.lines[i].price # None
    BY DEF PlannedSalesAreCertain
<1>1. t \in Tickets(TRUE) /\ KeptLines(t) # {}
    BY DEF Planned, Sold
<1>2. TicketOK(t, sheets[t.sheet], t.sheet)
    BY <1>1, TicketsRead
<1>3. KeptLines(t) # 1..Len(t.lines) => ~Unresolved(t)
    BY <1>1 DEF KeptLines
<1>4. ASSUME Segment(t) # "unclassified"
      PROVE  /\ t.flags = {} /\ CustomerKey(t.customer) # None
             /\ \A i \in KeptLines(t) : t.lines[i].price # None
    BY <1>4 DEF Segment, QualityFlags
<1> QED
  <2>1. TextDated(sheets[t.sheet], t.sheet, t.date, t.row) => DatedByTruncatedText(t)
      BY DEF TextDated, DatedByTruncatedText
  <2> QED
      BY <1>2, <1>3, <1>4, <2>1 DEF Unresolved, TicketOK, Certain, InMonth, CustomerKey

\* Whatever rows the sheets have, in either mode: no receipt takes in a row of
\* another customer, invoice or day, no amount is lost or counted twice, and no
\* amount or price is guessed, nor a month other than that of a text date with a
\* truncated year (parse_workbooks, source_date, build_plan).
THEOREM WorkbooksReadFaithfully == Spec => []ImportIsFaithful
<1>1. Init => BooksOK
    BY BooksInit DEF Init
<1>2. BooksOK /\ [Next]_vars => BooksOK'
    BY BooksStep
<1>3. BooksOK => ImportIsFaithful
    BY NothingIsMixed, NothingIsLost, NothingIsGuessed DEF ImportIsFaithful
<1> QED
    BY <1>1, <1>2, <1>3, PTL DEF Spec

-----------------------------------------------------------------------------
(***************************************************************************)
(* The tables: what every command keeps of them.                           *)
(***************************************************************************)
PhaseOK ==
    /\ reading => DOMAIN products = {} /\ DOMAIN batches = {} /\ DOMAIN customers = {} /\ DOMAIN receipts = {}
    /\ refreshed => ~reading

ProductsOK ==
    /\ DOMAIN products \subseteq ProductIds
    /\ products \in [DOMAIN products -> [name : ProductIds, active : BOOLEAN]]

\* A product that has the batch created for it owns it.
BatchesOK ==
    /\ DOMAIN batches \subseteq ProductIds
    /\ \A b \in DOMAIN batches : batches[b] \in DOMAIN products
    /\ \A p \in DOMAIN batches \intersect DOMAIN products : batches[p] = p

\* The key of an account's name.
NameKey(c) == CustomerKeyOf[customers[c].name]

CustomersOK ==
    /\ DOMAIN customers \subseteq CustomerIds
    /\ customers \in [DOMAIN customers -> [name : CustomerIds, contact : Contact \union {None}, active : BOOLEAN]]
    /\ \A c \in DOMAIN customers : NameKey(c) \in DOMAIN Canonical

IsItem(x)    == x = [f \in {"batch", "product", "name", "line"} |-> x[f]]
IsOrder(x)   == x = [f \in {"customer", "products", "cancelled"} |-> x[f]]
IsReceipt(x) == x = [f \in {"total", "customer", "items", "segment", "voided", "orders"} |-> x[f]]

\* The fields of a receipt, its items and its order.
ShapesOK ==
    \A r \in DOMAIN receipts :
        LET t == receipts[r]
        IN  /\ IsReceipt(t)
            /\ \A i \in DOMAIN t.items : IsItem(t.items[i])
            /\ \A o \in t.orders : IsOrder(o)

\* An imported receipt has a row in its sheet and a customer exactly when there is a
\* label, of the label's key unless accounts were renamed.
SheetLabel(r) == sheets[r[1]][r[2]].customer
CustomerIsOf(c, label) ==
    IF CustomerKey(label) = None THEN c = None
    ELSE c \in DOMAIN customers /\ (~renamed => NameKey(c) = CustomerKey(label))

ReceiptsOK ==
    /\ DOMAIN receipts \subseteq References \union LiveIds \union DemoIds
    /\ \A r \in Imported : r[2] \in 1..Len(sheets[r[1]]) /\ CustomerIsOf(receipts[r].customer, SheetLabel(r))

\* The imported receipts are the planned ones.
PlanOK ==
    refreshed =>
        /\ Imported = {Reference(t) : t \in Planned}
        /\ \A t \in Planned :
              LET r == receipts[Reference(t)]
              IN  /\ r.total = KeptAmount(t) /\ r.segment = Segment(t)
                  /\ DOMAIN r.items = KeptLines(t)
                  /\ \A i \in KeptLines(t) : r.items[i].line = t.lines[i]

TablesOK ==
    /\ PhaseOK /\ ProductsOK /\ BatchesOK /\ CustomersOK /\ ShapesOK /\ ReceiptsOK
    /\ LinksResolve /\ OrderMirrorsSale /\ PlanOK

-----------------------------------------------------------------------------
\* The sheets are no longer than the bound.
SizesOK == \A s \in Sheets : Len(sheets[s]) <= MaxRows

LEMMA SumNat ==
    ASSUME NEW f, NEW S, IsFiniteSet(S), \A x \in S : f[x] \in Nat
    PROVE  Sigma(f, S) \in Nat
<1> DEFINE G == {T \in SUBSET S : Sigma(f, T) \in Nat}
<1>1. ASSUME NEW T \in SUBSET S, \A U \in SUBSET T : U # T => U \in G
      PROVE  T \in G
  <2>1. Sigma(f, T) = IF T = {} THEN 0 ELSE f[OneOf(T)] + Sigma(f, T \ {OneOf(T)})
      BY FS_Subset, SumSteps
  <2>2. T # {} => OneOf(T) \in T /\ (T \ {OneOf(T)}) \in G
      BY <1>1 DEF OneOf
  <2>3. T # {} => f[OneOf(T)] \in Nat /\ Sigma(f, T \ {OneOf(T)}) \in Nat
      BY <2>2
  <2> QED
      BY <2>1, <2>3
<1> HIDE DEF G
<1>2. S \in G
    BY <1>1, SetInduction
<1> QED
    BY <1>2 DEF G

LEMMA SizesStep ==
    ASSUME BooksOK, SizesOK, [Next]_vars
    PROVE  SizesOK'
<1>1. CASE UNCHANGED bookVars
    BY <1>1 DEF SizesOK, bookVars
<1>2. ASSUME NEW s \in Sheets, NEW row \in Rows, WriteRow(s, row)
      PROVE  SizesOK'
  <2> DEFINE f == [x \in Sheets |-> Len(sheets[x])]
  <2>1. \A x \in Sheets : f[x] \in Nat
      BY DEF BooksOK
  <2>2. DOMAIN f = Sheets /\ f[s] = Len(sheets[s])
      OBVIOUS
  <2>3. IsFiniteSet(Sheets) /\ MaxRows \in Nat
      BY WorkbookAssumption
  <2> HIDE DEF f
  <2>4. IsFiniteSet(Sheets \ {s}) /\ \A x \in Sheets \ {s} : f[x] \in Nat
      BY <2>1, <2>3, FS_Subset
  <2>5. Sigma(f, Sheets \ {s}) \in Nat
      BY <2>4, SumNat
  <2>6. \A x \in Sheets : f[x] \in Int
      BY <2>1
  <2>7. Sigma(f, Sheets) = f[s] + Sigma(f, Sheets \ {s})
      BY <2>3, <2>6, SumRemove
  <2>8. RowsRead = Sigma(f, Sheets)
      BY <2>2, SummedIsSigma DEF RowsRead, f
  <2>9. RowsRead < MaxRows /\ sheets' = [sheets EXCEPT ![s] = Append(@, row)]
      BY <1>2 DEF WriteRow, ReadRow
  <2>10. Len(sheets[s]) < MaxRows
      BY <2>1, <2>2, <2>3, <2>5, <2>7, <2>8, <2>9
  <2>11. Len(Append(sheets[s], row)) = Len(sheets[s]) + 1 /\ Len(sheets[s]) \in Nat
      BY AppendProperties DEF BooksOK
  <2>12. ASSUME NEW x \in Sheets
         PROVE  Len(sheets'[x]) <= MaxRows
      BY <2>3, <2>9, <2>10, <2>11 DEF SizesOK, BooksOK
  <2> QED
      BY <2>12 DEF SizesOK
<1> QED
    BY <1>1, <1>2, OtherSteps DEF vars

\* Receipts have references of their own.
LEMMA TicketsApart ==
    ASSUME BooksOK, SizesOK, NEW separate \in BOOLEAN, NEW t \in Tickets(separate)
    PROVE  /\ Reference(t) \in References
           /\ Reference(t)[1] = t.sheet /\ Reference(t)[2] = t.row
           /\ t.row \in 1..Len(sheets[t.sheet])
           /\ t.customer = SheetLabel(Reference(t))
           /\ t.customer \in Labels \union {None}
           /\ \A u \in Tickets(separate) : Reference(u) = Reference(t) => u = t
<1>1. /\ t \in Ticket /\ t.sheet \in Sheets /\ t.row \in 1..Len(sheets[t.sheet])
      /\ t.customer = sheets[t.sheet][t.row].customer
    BY TicketsRead DEF TicketOK, Ticket
<1>2. Reference(t) \in References
  <2>1. Len(sheets[t.sheet]) <= MaxRows /\ Len(sheets[t.sheet]) \in Nat /\ MaxRows \in Nat
      BY <1>1, WorkbookAssumption DEF SizesOK, BooksOK
  <2>2. t.row \in 1..MaxRows
      BY <1>1, <2>1
  <2> QED
      BY <1>1, <2>2 DEF Reference, References
<1>3. ASSUME NEW u \in Tickets(separate), Reference(u) = Reference(t)
      PROVE  u = t
  <2>1. u.sheet = t.sheet /\ u.row = t.row
      BY <1>3 DEF Reference
  <2> DEFINE p == parse[<<t.sheet, separate>>]
  <2>2. ReaderOK(p, sheets[t.sheet], t.sheet)
      BY <1>1 DEF BooksOK
  <2>3. PICK i, j \in 1..Len(p.tickets) : t = p.tickets[i] /\ u = p.tickets[j]
    <3>1. PICK i \in 1..Len(p.tickets) : t = p.tickets[i]
        BY TicketsRead DEF ParseSheet
    <3>2. PICK j \in 1..Len(p.tickets) : u = p.tickets[j]
        BY <2>1, TicketsRead DEF ParseSheet
    <3> QED
        BY <3>1, <3>2
  <2>4. ~(i < j) /\ ~(j < i)
    <3>1. t.row \in Int
        BY <1>1
    <3>2. i < j => t.row < u.row
        BY <2>2, <2>3 DEF ReaderOK
    <3>3. j < i => u.row < t.row
        BY <2>2, <2>3 DEF ReaderOK
    <3> QED
        BY <2>1, <3>1, <3>2, <3>3
  <2> QED
      BY <2>3, <2>4
<1> QED
    BY <1>1, <1>2, <1>3 DEF Reference, SheetLabel, Ticket

\* A label has a key, and only a row without label has none.
LEMMA KeyOfLabel ==
    ASSUME NEW label \in Labels \union {None}
    PROVE  /\ CustomerKey(label) = None <=> label = None
           /\ label # None => CustomerKey(label) = CustomerKeyOf[label] /\ CustomerKey(label) \in DOMAIN Canonical
BY HistoryAssumption DEF CustomerKey, Labels

-----------------------------------------------------------------------------
\* The oldest of some rows.
LEMMA OldestExists ==
    ASSUME NEW S, S # {}, NEW age, \A x \in S : age[x] \in Nat
    PROVE  Oldest(S, age) \in S /\ \A y \in S : age[Oldest(S, age)] <= age[y]
<1> DEFINE T == {age[x] : x \in S}
<1>1. T \in SUBSET Nat /\ T # {}
    OBVIOUS
<1>2. PICK n \in T : \A k \in T : n <= k
    BY <1>1, LeastNatural
<1>3. PICK x \in S : age[x] = n
    OBVIOUS
<1>4. x \in S /\ \A y \in S : age[x] <= age[y]
    BY <1>2, <1>3
<1> QED
    BY <1>4 DEF Oldest

\* Two rows of a set of less than two are the same.
LEMMA AtMostOne ==
    ASSUME NEW S, IsFiniteSet(S), Cardinality(S) < 2, NEW x \in S, NEW y \in S
    PROVE  x = y
<1>1. /\ IsFiniteSet(S \ {x}) /\ Cardinality(S \ {x}) = Cardinality(S) - 1
      /\ Cardinality(S) \in Nat /\ Cardinality(S \ {x}) \in Nat
    BY FS_RemoveElement, FS_CardinalityType
<1>2. Cardinality(S \ {x}) = 0
    BY <1>1
<1>3. S \ {x} = {}
    BY <1>1, <1>2, FS_EmptySet
<1> QED
    BY <1>3

LEMMA NotNone ==
    None \notin ProductIds /\ None \notin CustomerIds /\ None \notin DOMAIN Canonical
BY HistoryAssumption

-----------------------------------------------------------------------------
(***************************************************************************)
(* The commands, one by one.                                               *)
(***************************************************************************)
\* What a step keeps of the sales of the application and of contact details.
LiveKept ==
    \A r \in LiveIds \intersect DOMAIN receipts :
        LET t == receipts[r]  u == receipts'[r]
        IN  /\ r \in DOMAIN receipts'
            /\ u.total = t.total /\ (t.voided => u.voided)
            /\ \/ u.customer = t.customer
               \/ CustomerKeyOf[customers'[u.customer].name] = CustomerKeyOf[customers[t.customer].name]
            /\ DOMAIN u.items = DOMAIN t.items
            /\ \A i \in DOMAIN t.items :
                  /\ u.items[i].line = t.items[i].line
                  /\ \/ u.items[i].product = t.items[i].product
                     \/ ProductKeyOf[products'[u.items[i].product].name] = Key(t.items[i].product)

ContactsKept ==
    \A r \in DOMAIN receipts \intersect DOMAIN receipts' :
        LET c == receipts[r].customer  d == receipts'[r].customer
        IN  c # d /\ c # None /\ d # None
               /\ CustomerKeyOf[customers'[d].name] = CustomerKeyOf[customers[c].name] =>
               customers[c].contact \in {None, customers'[d].contact}

StepKeeps == TablesOK' /\ LiveKept /\ ContactsKept

\* What is planned depends on the sheets only.
LEMMA PlanStands ==
    ASSUME UNCHANGED bookVars
    PROVE  /\ Planned' = Planned /\ sheets' = sheets
           /\ \A r : SheetLabel(r)' = SheetLabel(r)
<1>1. sheets' = sheets /\ parse' = parse
    BY DEF bookVars
<1>2. Tickets(TRUE)' = Tickets(TRUE)
    BY <1>1 DEF Tickets, ParseSheet
<1>3. \A t : Duplicate(t, TRUE)' = Duplicate(t, TRUE)
    BY <1>2 DEF Duplicate
<1>4. Sold(TRUE)' = Sold(TRUE)
    BY <1>2, <1>3 DEF Sold
<1>5. Planned' = Planned
    BY <1>4 DEF Planned
<1> QED
    BY <1>1, <1>5 DEF SheetLabel

LEMMA PlanKept ==
    ASSUME PlanOK, UNCHANGED <<bookVars, refreshed>>, Imported' = Imported,
           \A r \in Imported :
              /\ receipts'[r].total = receipts[r].total /\ receipts'[r].segment = receipts[r].segment
              /\ DOMAIN receipts'[r].items = DOMAIN receipts[r].items
              /\ \A i \in DOMAIN receipts[r].items : receipts'[r].items[i].line = receipts[r].items[i].line
    PROVE  PlanOK'
<1> SUFFICES ASSUME refreshed PROVE PlanOK'
    BY DEF PlanOK
<1>1. Planned' = Planned
    BY PlanStands
<1>2. Imported = {Reference(t) : t \in Planned}
    BY DEF PlanOK
<1>3. Imported' = {Reference(t) : t \in Planned'}
    BY <1>1, <1>2
<1>4. ASSUME NEW t \in Planned
      PROVE  LET r == receipts'[Reference(t)]
             IN  /\ r.total = KeptAmount(t) /\ r.segment = Segment(t)
                 /\ DOMAIN r.items = KeptLines(t)
                 /\ \A i \in KeptLines(t) : r.items[i].line = t.lines[i]
  <2>1. Reference(t) \in Imported
      BY <1>2
  <2>2. LET r == receipts[Reference(t)]
        IN  /\ r.total = KeptAmount(t) /\ r.segment = Segment(t)
            /\ DOMAIN r.items = KeptLines(t)
            /\ \A i \in KeptLines(t) : r.items[i].line = t.lines[i]
      BY DEF PlanOK
  <2> QED
      BY <2>1, <2>2
<1> QED
    BY <1>1, <1>3, <1>4 DEF PlanOK

\* A receipt keeps its imported customer as long as the account keeps its key.
LEMMA CustomerStays ==
    ASSUME NEW c, NEW d, NEW label, CustomerIsOf(c, label), c = None => d = None,
           c # None => d \in DOMAIN customers', renamed => renamed',
           c # None /\ ~renamed' => NameKey(d)' = NameKey(c),
           None \notin DOMAIN customers
    PROVE  CustomerIsOf(d, label)'
BY DEF CustomerIsOf, NameKey

\* A receipt of the application is not an imported one.
LEMMA LiveFacts ==
    ASSUME NEW r \in LiveIds \union DemoIds
    PROVE  r \notin References /\ r \notin Imported
BY HistoryAssumption DEF Imported

\* The steps that change products, and nothing that refers to them.
LEMMA ProductsStep ==
    ASSUME TablesOK, UNCHANGED <<bookVars, reading, batches, customers, receipts, refreshed, renamed>>, ~reading,
           ProductsOK',
           \A b \in DOMAIN batches : batches[b] \in DOMAIN products',
           \A p \in DOMAIN batches : p \in DOMAIN products' => p \in DOMAIN products,
           \A r \in DOMAIN receipts : \A i \in DOMAIN receipts[r].items : receipts[r].items[i].product \in DOMAIN products'
    PROVE  StepKeeps
<1> USE DEF TablesOK
<1>1. PhaseOK' /\ BatchesOK'
    BY DEF PhaseOK, BatchesOK
<1>2. CustomersOK' /\ ShapesOK'
    BY DEF CustomersOK, NameKey, ShapesOK
<1>3. OrderMirrorsSale'
    BY DEF OrderMirrorsSale, OrderLine
<1>4. Imported' = Imported
    BY DEF Imported
<1>5. ReceiptsOK'
    BY <1>4, PlanStands DEF ReceiptsOK, CustomerIsOf, NameKey
<1>6. LinksResolve'
    BY DEF LinksResolve
<1>7. PlanOK'
    BY <1>4, PlanKept
<1>8. LiveKept /\ ContactsKept
    BY DEF LiveKept, ContactsKept
<1> QED
    BY <1>1, <1>2, <1>3, <1>5, <1>6, <1>7, <1>8 DEF StepKeeps

LEMMA CreateProductStep ==
    ASSUME TablesOK, NEW p \in ProductIds, CreateProduct(p)
    PROVE  StepKeeps
<1>1. /\ ~reading /\ p \notin DOMAIN products \union DOMAIN batches
      /\ products' = [q \in DOMAIN products \union {p} |-> IF q = p THEN [name |-> p, active |-> TRUE] ELSE products[q]]
      /\ UNCHANGED <<bookVars, reading, batches, customers, receipts, commands, refreshed, renamed>>
    BY DEF CreateProduct, Use
<1>2. DOMAIN products \subseteq DOMAIN products'
    BY <1>1
<1>3. ProductsOK'
  <2>1. [name |-> p, active |-> TRUE] \in [name : ProductIds, active : BOOLEAN]
      OBVIOUS
  <2>2. \A q \in DOMAIN products' : products'[q] \in [name : ProductIds, active : BOOLEAN]
      BY <1>1, <2>1 DEF TablesOK, ProductsOK
  <2> QED
      BY <1>1, <2>2 DEF TablesOK, ProductsOK
<1>4. /\ \A b \in DOMAIN batches : batches[b] \in DOMAIN products'
      /\ \A q \in DOMAIN batches : q \in DOMAIN products' => q \in DOMAIN products
    BY <1>1, <1>2 DEF TablesOK, BatchesOK
<1>5. \A r \in DOMAIN receipts : \A i \in DOMAIN receipts[r].items : receipts[r].items[i].product \in DOMAIN products'
    BY <1>2 DEF TablesOK, LinksResolve
<1> QED
    BY <1>1, <1>3, <1>4, <1>5, ProductsStep

\* An edit of a product keeps its row.
LEMMA EditProductStep ==
    ASSUME TablesOK, NEW p \in ProductIds, NEW name \in ProductIds, NEW active \in BOOLEAN,
           RenameProduct(p, name) \/ SetProductActive(p, active)
    PROVE  StepKeeps
<1>1. /\ ~reading /\ p \in DOMAIN products
      /\ products' = [products EXCEPT ![p].name = name] \/ products' = [products EXCEPT ![p].active = active]
      /\ UNCHANGED <<bookVars, reading, batches, customers, receipts, commands, refreshed, renamed>>
    BY DEF RenameProduct, SetProductActive, Use
<1>2. DOMAIN products' = DOMAIN products
    BY <1>1
<1>3. ProductsOK'
    BY <1>1, <1>2 DEF TablesOK, ProductsOK
<1>4. /\ \A b \in DOMAIN batches : batches[b] \in DOMAIN products'
      /\ \A r \in DOMAIN receipts : \A i \in DOMAIN receipts[r].items : receipts[r].items[i].product \in DOMAIN products'
    BY <1>2 DEF TablesOK, BatchesOK, LinksResolve
<1> QED
    BY <1>1, <1>2, <1>3, <1>4, ProductsStep

LEMMA DeleteProductStep ==
    ASSUME TablesOK, NEW p \in ProductIds, DeleteProduct(p)
    PROVE  StepKeeps
<1>1. /\ ~reading /\ p \in DOMAIN products
      /\ \A b \in DOMAIN batches : batches[b] # p
      /\ \A r \in DOMAIN receipts : \A i \in DOMAIN receipts[r].items : receipts[r].items[i].product # p
      /\ products' = [q \in DOMAIN products \ {p} |-> products[q]]
      /\ UNCHANGED <<bookVars, reading, batches, customers, receipts, commands, refreshed, renamed>>
    BY DEF DeleteProduct, Use
<1>2. ProductsOK'
    BY <1>1 DEF TablesOK, ProductsOK
<1>3. /\ \A b \in DOMAIN batches : batches[b] \in DOMAIN products'
      /\ \A q \in DOMAIN batches : q \in DOMAIN products' => q \in DOMAIN products
      /\ \A r \in DOMAIN receipts : \A i \in DOMAIN receipts[r].items : receipts[r].items[i].product \in DOMAIN products'
    BY <1>1 DEF TablesOK, BatchesOK, LinksResolve
<1> QED
    BY <1>1, <1>2, <1>3, ProductsStep

\* The steps that change accounts, and no receipt.
LEMMA AccountsStep ==
    ASSUME TablesOK, UNCHANGED <<bookVars, reading, products, batches, receipts, refreshed>>, ~reading,
           CustomersOK', renamed => renamed',
           \A r \in DOMAIN receipts :
              LET c == receipts[r].customer
              IN  c # None => c \in DOMAIN customers' /\ (~renamed' => NameKey(c)' = NameKey(c))
    PROVE  StepKeeps
<1> USE DEF TablesOK
<1>1. PhaseOK' /\ ProductsOK' /\ BatchesOK' /\ ShapesOK'
    BY DEF PhaseOK, ProductsOK, BatchesOK, ShapesOK
<1>2. OrderMirrorsSale'
    BY DEF OrderMirrorsSale, OrderLine
<1>3. Imported' = Imported
    BY DEF Imported
<1>4. \A r \in Imported : CustomerIsOf(receipts[r].customer, SheetLabel(r))'
  <2> SUFFICES ASSUME NEW r \in Imported PROVE CustomerIsOf(receipts[r].customer, SheetLabel(r))'
      OBVIOUS
  <2> DEFINE c == receipts[r].customer
  <2>1. CustomerIsOf(c, SheetLabel(r))
      BY DEF ReceiptsOK
  <2>2. c # None => c \in DOMAIN customers' /\ (~renamed' => NameKey(c)' = NameKey(c))
      BY DEF NameKey, Imported
  <2>3. SheetLabel(r)' = SheetLabel(r) /\ None \notin DOMAIN customers
      BY PlanStands, NotNone DEF CustomersOK
  <2>4. receipts' = receipts
      OBVIOUS
  <2> HIDE DEF TablesOK
  <2> QED
      BY <2>1, <2>2, <2>3, <2>4 DEF CustomerIsOf
<1>5. ReceiptsOK'
    BY <1>3, <1>4, PlanStands DEF ReceiptsOK
<1>6. LinksResolve'
    BY DEF LinksResolve
<1>7. PlanOK'
    BY <1>3, PlanKept
<1>8. LiveKept /\ ContactsKept
    BY DEF LiveKept, ContactsKept
<1> QED
    BY <1>1, <1>2, <1>5, <1>6, <1>7, <1>8 DEF StepKeeps

LEMMA CreateCustomerStep ==
    ASSUME TablesOK, NEW c \in NewCustomers, NEW k \in DOMAIN Canonical, NEW contact \in Contact \union {None},
           CreateCustomer(c, Canonical[k], contact)
    PROVE  StepKeeps
<1> USE DEF TablesOK
<1> DEFINE x == [name |-> Canonical[k], contact |-> contact, active |-> TRUE]
<1>1. /\ ~reading /\ c \notin DOMAIN customers
      /\ customers' = [d \in DOMAIN customers \union {c} |-> IF d = c THEN x ELSE customers[d]]
      /\ UNCHANGED <<bookVars, reading, products, batches, receipts, commands, refreshed, renamed>>
    BY DEF CreateCustomer, Use
<1>2. c \in CustomerIds /\ Canonical[k] \in CustomerIds /\ CustomerKeyOf[Canonical[k]] = k
    BY HistoryAssumption
<1>3. x \in [name : CustomerIds, contact : Contact \union {None}, active : BOOLEAN] /\ x.name = Canonical[k]
    BY <1>2
<1> HIDE DEF x
<1>4. DOMAIN customers' = DOMAIN customers \union {c} /\ customers'[c] = x
    BY <1>1
<1>5. \A d \in DOMAIN customers : customers'[d] = customers[d]
    BY <1>1
<1>6. CustomersOK'
  <2>1. \A d \in DOMAIN customers' : customers'[d] \in [name : CustomerIds, contact : Contact \union {None}, active : BOOLEAN]
      BY <1>3, <1>4, <1>5 DEF CustomersOK
  <2>2. customers' \in [DOMAIN customers' -> [name : CustomerIds, contact : Contact \union {None}, active : BOOLEAN]]
      BY <1>1, <2>1
  <2>3. \A d \in DOMAIN customers' : CustomerKeyOf[customers'[d].name] \in DOMAIN Canonical
      BY <1>2, <1>3, <1>4, <1>5 DEF CustomersOK, NameKey
  <2>4. DOMAIN customers' \subseteq CustomerIds
      BY <1>2, <1>4 DEF CustomersOK
  <2> QED
      BY <2>2, <2>3, <2>4 DEF CustomersOK, NameKey
<1>7. \A r \in DOMAIN receipts :
          LET d == receipts[r].customer
          IN  d # None => d \in DOMAIN customers' /\ (~renamed' => NameKey(d)' = NameKey(d))
    BY <1>1, <1>4, <1>5 DEF LinksResolve, NameKey
<1> QED
    BY <1>1, <1>6, <1>7, AccountsStep

\* The edits of an account that leave its name.
LEMMA EditCustomerStep ==
    ASSUME TablesOK, ~reading, UNCHANGED <<bookVars, reading, products, batches, receipts, refreshed, renamed>>,
           CustomersOK', DOMAIN customers' = DOMAIN customers,
           \A d \in DOMAIN customers : customers'[d].name = customers[d].name
    PROVE  StepKeeps
<1>1. \A r \in DOMAIN receipts :
          LET d == receipts[r].customer
          IN  d # None => d \in DOMAIN customers' /\ (~renamed' => NameKey(d)' = NameKey(d))
    BY DEF TablesOK, LinksResolve, NameKey
<1> QED
    BY <1>1, AccountsStep

LEMMA SetContactStep ==
    ASSUME TablesOK, NEW c \in CustomerIds, NEW contact \in Contact, SetContact(c, contact)
    PROVE  StepKeeps
<1>1. /\ ~reading /\ c \in DOMAIN customers /\ customers' = [customers EXCEPT ![c].contact = contact]
      /\ UNCHANGED <<bookVars, reading, products, batches, receipts, commands, refreshed, renamed>>
    BY DEF SetContact, Use
<1>2. DOMAIN customers' = DOMAIN customers /\ \A d \in DOMAIN customers : customers'[d].name = customers[d].name
    BY <1>1 DEF TablesOK, CustomersOK
<1>3. CustomersOK'
    BY <1>1, <1>2 DEF TablesOK, CustomersOK, NameKey
<1> QED
    BY <1>1, <1>2, <1>3, EditCustomerStep

LEMMA ReactivateCustomerStep ==
    ASSUME TablesOK, NEW c \in CustomerIds, ReactivateCustomer(c)
    PROVE  StepKeeps
<1>1. /\ ~reading /\ c \in DOMAIN customers /\ customers' = [customers EXCEPT ![c].active = TRUE]
      /\ UNCHANGED <<bookVars, reading, products, batches, receipts, commands, refreshed, renamed>>
    BY DEF ReactivateCustomer, Use
<1>2. DOMAIN customers' = DOMAIN customers /\ \A d \in DOMAIN customers : customers'[d].name = customers[d].name
    BY <1>1 DEF TablesOK, CustomersOK
<1>3. CustomersOK'
    BY <1>1, <1>2 DEF TablesOK, CustomersOK, NameKey
<1> QED
    BY <1>1, <1>2, <1>3, EditCustomerStep

LEMMA RenameCustomerStep ==
    ASSUME TablesOK, NEW c \in CustomerIds, NEW k \in DOMAIN Canonical, RenameCustomer(c, Canonical[k])
    PROVE  StepKeeps
<1> USE DEF TablesOK
<1>1. /\ ~reading /\ c \in DOMAIN customers /\ customers' = [customers EXCEPT ![c].name = Canonical[k]]
      /\ renamed' = (renamed \/ CustomerKeyOf[Canonical[k]] # CustomerKeyOf[customers[c].name])
      /\ UNCHANGED <<bookVars, reading, products, batches, receipts, commands, refreshed>>
    BY DEF RenameCustomer, Use
<1>2. /\ DOMAIN customers' = DOMAIN customers /\ customers'[c].name = Canonical[k]
      /\ \A d \in DOMAIN customers : d # c => customers'[d] = customers[d]
    BY <1>1 DEF CustomersOK
<1>3. Canonical[k] \in CustomerIds /\ CustomerKeyOf[Canonical[k]] = k
    BY HistoryAssumption
<1>4. CustomersOK'
  <2>1. customers' \in [DOMAIN customers' -> [name : CustomerIds, contact : Contact \union {None}, active : BOOLEAN]]
      BY <1>1, <1>3 DEF CustomersOK
  <2>2. \A d \in DOMAIN customers' : CustomerKeyOf[customers'[d].name] \in DOMAIN Canonical
      BY <1>2, <1>3 DEF CustomersOK, NameKey
  <2> QED
      BY <1>2, <2>1, <2>2 DEF CustomersOK, NameKey
<1>5. renamed => renamed'
    BY <1>1
<1>6. ~renamed' => \A d \in DOMAIN customers : NameKey(d)' = NameKey(d)
  <2>1. ~renamed' => CustomerKeyOf[Canonical[k]] = CustomerKeyOf[customers[c].name]
      BY <1>1
  <2> QED
      BY <1>2, <2>1 DEF NameKey
<1>7. \A r \in DOMAIN receipts :
          LET d == receipts[r].customer
          IN  d # None => d \in DOMAIN customers' /\ (~renamed' => NameKey(d)' = NameKey(d))
    BY <1>1, <1>2, <1>6 DEF LinksResolve, NameKey
<1> HIDE DEF TablesOK
<1> QED
    BY <1>1, <1>4, <1>5, <1>7, AccountsStep

LEMMA DeleteCustomerStep ==
    ASSUME TablesOK, NEW c \in CustomerIds, DeleteCustomer(c)
    PROVE  StepKeeps
<1> USE DEF TablesOK
<1>1. /\ ~reading /\ c \in DOMAIN customers
      /\ UNCHANGED <<bookVars, reading, products, batches, receipts, commands, refreshed, renamed>>
    BY DEF DeleteCustomer, Use
<1>2. CASE \E r \in DOMAIN receipts : receipts[r].customer = c
  <2>1. customers' = [customers EXCEPT ![c].active = FALSE]
      BY <1>2 DEF DeleteCustomer
  <2>2. DOMAIN customers' = DOMAIN customers /\ \A d \in DOMAIN customers : customers'[d].name = customers[d].name
      BY <1>1, <2>1 DEF CustomersOK
  <2>3. CustomersOK'
      BY <1>1, <2>1, <2>2 DEF CustomersOK, NameKey
  <2>4. \A r \in DOMAIN receipts :
            LET d == receipts[r].customer
            IN  d # None => d \in DOMAIN customers' /\ (~renamed' => NameKey(d)' = NameKey(d))
      BY <1>1, <2>2 DEF LinksResolve, NameKey
  <2> QED
      BY <1>1, <2>3, <2>4, AccountsStep
<1>3. CASE ~\E r \in DOMAIN receipts : receipts[r].customer = c
  <2>1. customers' = [d \in DOMAIN customers \ {c} |-> customers[d]]
      BY <1>3 DEF DeleteCustomer
  <2>2. DOMAIN customers' = DOMAIN customers \ {c} /\ \A d \in DOMAIN customers' : customers'[d] = customers[d]
      BY <2>1
  <2>3. CustomersOK'
      BY <2>1, <2>2 DEF CustomersOK, NameKey
  <2>4. \A r \in DOMAIN receipts :
            LET d == receipts[r].customer
            IN  d # None => d \in DOMAIN customers' /\ (~renamed' => NameKey(d)' = NameKey(d))
      BY <1>1, <1>3, <2>2 DEF LinksResolve, NameKey
  <2> QED
      BY <1>1, <2>3, <2>4, AccountsStep
<1> QED
    BY <1>2, <1>3

\* The line of an order that an item of a receipt belongs to.
LineFor(r, x, i) == IF r \in References THEN i ELSE x.items[i].line

\* A receipt and its order agree.
Mirrored(r, x) ==
    /\ r \in References => (x.orders = {} <=> x.customer = None)
    /\ \A o \in x.orders :
          /\ IsOrder(o) /\ o.customer = x.customer /\ o.cancelled = x.voided
          /\ DOMAIN o.products = {LineFor(r, x, i) : i \in DOMAIN x.items}
          /\ \A i \in DOMAIN x.items : o.products[LineFor(r, x, i)] = x.items[i].product

\* An item and what it refers to.
GoodItem(y) ==
    /\ IsItem(y) /\ y.product \in DOMAIN products'
    /\ y.batch # None => y.batch \in DOMAIN batches' /\ batches'[y.batch] = y.product

\* What a step must leave in the place of a receipt.
GoodReceipt(r, x) ==
    /\ IsReceipt(x)
    /\ x.customer # None => x.customer \in DOMAIN customers'
    /\ \A i \in DOMAIN x.items : GoodItem(x.items[i])
    /\ Mirrored(r, x)

LEMMA GoodReceipts ==
    ASSUME \A r \in DOMAIN receipts' : GoodReceipt(r, receipts'[r])
    PROVE  ShapesOK' /\ LinksResolve' /\ OrderMirrorsSale'
<1>1. ShapesOK'
    BY DEF GoodReceipt, GoodItem, Mirrored, ShapesOK
<1>2. LinksResolve'
    BY DEF GoodReceipt, GoodItem, LinksResolve
<1>3. OrderMirrorsSale'
    BY DEF GoodReceipt, Mirrored, LineFor, OrderMirrorsSale, OrderLine
<1> QED
    BY <1>1, <1>2, <1>3

\* What is known of a receipt.
LEMMA ReceiptFacts ==
    ASSUME ShapesOK, LinksResolve, OrderMirrorsSale, NEW r \in DOMAIN receipts
    PROVE  LET t == receipts[r]
           IN  /\ IsReceipt(t) /\ Mirrored(r, t)
               /\ t.customer # None => t.customer \in DOMAIN customers
               /\ \A i \in DOMAIN t.items :
                     /\ IsItem(t.items[i]) /\ t.items[i].product \in DOMAIN products
                     /\ t.items[i].batch # None => /\ t.items[i].batch \in DOMAIN batches
                                                   /\ batches[t.items[i].batch] = t.items[i].product
<1>1. /\ IsReceipt(receipts[r]) /\ \A i \in DOMAIN receipts[r].items : IsItem(receipts[r].items[i])
    BY DEF ShapesOK
<1>2. Mirrored(r, receipts[r])
    BY DEF ShapesOK, OrderMirrorsSale, OrderLine, Mirrored, LineFor
<1> QED
    BY <1>1, <1>2 DEF LinksResolve

\* A receipt that stays is as good as it was, when nothing it refers to goes.
LEMMA GoodRemains ==
    ASSUME ShapesOK, LinksResolve, OrderMirrorsSale,
           DOMAIN customers \subseteq DOMAIN customers', DOMAIN products \subseteq DOMAIN products',
           \A b \in DOMAIN batches : b \in DOMAIN batches' /\ batches'[b] = batches[b],
           NEW r \in DOMAIN receipts
    PROVE  GoodReceipt(r, receipts[r])
BY ReceiptFacts DEF GoodReceipt, GoodItem

\* A historical batch is one of its product's.
LEMMA HistoricalBatchFacts ==
    ASSUME NEW owner, NEW p, DOMAIN owner \subseteq ProductIds, \E b \in DOMAIN owner : owner[b] = p
    PROVE  LET b == HistoricalBatch(owner, p)
           IN  b \in DOMAIN owner /\ owner[b] = p /\ b # None
<1> DEFINE S == {b \in DOMAIN owner : owner[b] = p}
<1>1. S # {} /\ \A b \in S : ProductAge[b] \in Nat
    BY HistoryAssumption
<1>2. Oldest(S, ProductAge) \in S
    BY <1>1, OldestExists
<1>3. HistoricalBatch(owner, p) = Oldest(S, ProductAge)
    BY DEF HistoricalBatch
<1> HIDE DEF S
<1>4. HistoricalBatch(owner, p) \in S
    BY <1>2, <1>3
<1> QED
    BY <1>4, NotNone DEF S

\* Items that stand for the lines of a cart, one or more for each, are mirrored by
\* an order of the lines.
LEMMA CartMirrored ==
    ASSUME NEW r, r \notin References, NEW cart \in Carts, NEW x,
           DOMAIN x.items = DOMAIN cart.lines, x.voided = FALSE,
           \A i \in DOMAIN cart.lines :
              x.items[i].line = cart.lines[i] /\ x.items[i].product = cart.products[cart.lines[i]],
           \A o \in x.orders :
              IsOrder(o) /\ o.customer = x.customer /\ o.products = cart.products /\ o.cancelled = FALSE
    PROVE  Mirrored(r, x)
<1>1. ToSet(cart.lines) = DOMAIN cart.products /\ cart.lines \in Seq(Nat)
    BY HistoryAssumption
<1>2. ToSet(cart.lines) = {cart.lines[i] : i \in DOMAIN cart.lines}
    BY DEF ToSet
<1>3. \A i \in DOMAIN x.items : LineFor(r, x, i) = cart.lines[i]
    BY DEF LineFor
<1>4. {LineFor(r, x, i) : i \in DOMAIN x.items} = {cart.lines[i] : i \in DOMAIN cart.lines}
    BY <1>3
<1>5. DOMAIN cart.products = {LineFor(r, x, i) : i \in DOMAIN x.items}
    BY <1>1, <1>2, <1>4
<1>6. \A i \in DOMAIN x.items : cart.products[LineFor(r, x, i)] = x.items[i].product
    BY <1>3
<1> QED
    BY <1>5, <1>6 DEF Mirrored

LEMMA LiveSaleStep ==
    ASSUME TablesOK, NEW r \in LiveIds \union DemoIds, NEW cart \in Carts, NEW c \in CustomerIds \union {None},
           NEW ordered \in BOOLEAN, NEW historical \in BOOLEAN, LiveSale(r, cart, c, ordered, historical)
    PROVE  StepKeeps
<1> USE DEF TablesOK
<1> DEFINE product(i) == cart.products[cart.lines[i]]
           item(i) == [batch |-> IF historical THEN HistoricalBatch(batches, product(i)) ELSE None,
                       product |-> product(i), name |-> products[product(i)].name, line |-> cart.lines[i]]
           items == [i \in DOMAIN cart.lines |-> item(i)]
           orders == IF ordered THEN {[customer |-> c, products |-> cart.products, cancelled |-> FALSE]} ELSE {}
           sale  == [total |-> 1, customer |-> c, items |-> items, segment |-> None, voided |-> FALSE, orders |-> orders]
<1>1. /\ ~reading /\ r \notin DOMAIN receipts
      /\ \A n \in DOMAIN cart.products : cart.products[n] \in DOMAIN products
      /\ c # None => c \in DOMAIN customers
      /\ historical => \A n \in DOMAIN cart.products : \E b \in DOMAIN batches : batches[b] = cart.products[n]
      /\ UNCHANGED <<bookVars, reading, products, batches, customers, commands, refreshed, renamed>>
    BY DEF LiveSale, Use
<1>2. receipts' = [q \in DOMAIN receipts \union {r} |-> IF q = r THEN sale ELSE receipts[q]]
    BY DEF LiveSale
<1>3. \A i \in DOMAIN cart.lines : cart.lines[i] \in DOMAIN cart.products
  <2>1. ToSet(cart.lines) = DOMAIN cart.products
      BY HistoryAssumption
  <2> QED
      BY <2>1 DEF ToSet
<1>4. ASSUME NEW i \in DOMAIN cart.lines
      PROVE  /\ IsItem(item(i)) /\ item(i).product = product(i) /\ item(i).line = cart.lines[i]
             /\ product(i) \in DOMAIN products
             /\ item(i).batch # None => item(i).batch \in DOMAIN batches /\ batches[item(i).batch] = product(i)
  <2>1. cart.lines[i] \in DOMAIN cart.products
      BY <1>3
  <2>2. product(i) \in DOMAIN products
      BY <1>1, <2>1
  <2>3. /\ IsItem(item(i)) /\ item(i).product = product(i) /\ item(i).line = cart.lines[i]
        /\ item(i).batch = IF historical THEN HistoricalBatch(batches, product(i)) ELSE None
      BY DEF IsItem
  <2>4. historical => \E b \in DOMAIN batches : batches[b] = product(i)
      BY <1>1, <2>1
  <2>5. DOMAIN batches \subseteq ProductIds
      BY DEF BatchesOK
  <2> HIDE DEF item, product, TablesOK
  <2>6. historical => /\ HistoricalBatch(batches, product(i)) \in DOMAIN batches
                      /\ batches[HistoricalBatch(batches, product(i))] = product(i)
      BY <2>4, <2>5, HistoricalBatchFacts
  <2> QED
      BY <2>2, <2>3, <2>6
<1>5. \A o \in orders :
          IsOrder(o) /\ o.customer = c /\ o.products = cart.products /\ o.cancelled = FALSE
    BY DEF IsOrder
<1> HIDE DEF item, orders
<1>6. DOMAIN items = DOMAIN cart.lines /\ \A i \in DOMAIN items : items[i] = item(i)
    OBVIOUS
<1> HIDE DEF items
<1>7. /\ IsReceipt(sale) /\ sale.total = 1 /\ sale.customer = c /\ sale.items = items /\ sale.voided = FALSE
      /\ sale.orders = orders
    BY DEF IsReceipt
<1> HIDE DEF sale
<1>8. r \notin References
    BY LiveFacts
<1>9. GoodReceipt(r, sale)
  <2>1. Mirrored(r, sale)
    <3>1. \A i \in DOMAIN cart.lines :
              sale.items[i].line = cart.lines[i] /\ sale.items[i].product = cart.products[cart.lines[i]]
        BY <1>4, <1>6, <1>7
    <3> HIDE DEF TablesOK
    <3> QED
        BY <1>5, <1>6, <1>7, <1>8, <3>1, CartMirrored
  <2>2. \A i \in DOMAIN sale.items : GoodItem(sale.items[i])
      BY <1>1, <1>4, <1>6, <1>7 DEF GoodItem
  <2> QED
      BY <1>1, <1>7, <2>1, <2>2 DEF GoodReceipt
<1>10. /\ DOMAIN receipts' = DOMAIN receipts \union {r} /\ receipts'[r] = sale
       /\ \A q \in DOMAIN receipts : receipts'[q] = receipts[q]
    BY <1>1, <1>2
<1>11. PhaseOK' /\ ProductsOK' /\ BatchesOK' /\ CustomersOK'
    BY <1>1 DEF PhaseOK, ProductsOK, BatchesOK, CustomersOK, NameKey
<1>12. ShapesOK' /\ LinksResolve' /\ OrderMirrorsSale'
  <2>1. \A q \in DOMAIN receipts' : GoodReceipt(q, receipts'[q])
      BY <1>1, <1>9, <1>10, GoodRemains
  <2> QED
      BY <2>1, GoodReceipts
<1>13. Imported' = Imported
    BY <1>8, <1>10 DEF Imported
<1>14. ReceiptsOK'
  <2>1. DOMAIN receipts' \subseteq References \union LiveIds \union DemoIds
      BY <1>10 DEF ReceiptsOK
  <2>2. ASSUME NEW q \in Imported
        PROVE  q[2] \in 1..Len(sheets'[q[1]]) /\ CustomerIsOf(receipts[q].customer, SheetLabel(q))'
    <3>1. sheets' = sheets /\ SheetLabel(q)' = SheetLabel(q) /\ receipts'[q] = receipts[q]
        BY <1>1, <1>10, PlanStands DEF Imported
    <3>2. q[2] \in 1..Len(sheets[q[1]]) /\ CustomerIsOf(receipts[q].customer, SheetLabel(q))
        BY DEF ReceiptsOK
    <3> HIDE DEF TablesOK
    <3> QED
        BY <1>1, <3>1, <3>2 DEF CustomerIsOf, NameKey
  <2> QED
      BY <1>13, <2>1, <2>2 DEF ReceiptsOK
<1>15. PlanOK'
    BY <1>1, <1>10, <1>13, PlanKept DEF Imported
<1>16. LiveKept /\ ContactsKept
    BY <1>10 DEF LiveKept, ContactsKept
<1> QED
    BY <1>11, <1>12, <1>14, <1>15, <1>16 DEF StepKeeps

\* The steps that void or remove receipts and change nothing else.
LEMMA ReceiptsStep ==
    ASSUME TablesOK, UNCHANGED <<bookVars, reading, products, batches, customers, refreshed, renamed>>, ~reading,
           DOMAIN receipts' \subseteq DOMAIN receipts,
           DOMAIN receipts \ DOMAIN receipts' \subseteq DemoIds,
           \A r \in DOMAIN receipts' :
              LET t == receipts[r]  u == receipts'[r]
              IN  /\ GoodReceipt(r, u) /\ u.total = t.total /\ u.customer = t.customer /\ u.items = t.items
                  /\ u.segment = t.segment /\ (t.voided => u.voided)
    PROVE  StepKeeps
<1> USE DEF TablesOK
<1>1. PhaseOK' /\ ProductsOK' /\ BatchesOK' /\ CustomersOK'
    BY DEF PhaseOK, ProductsOK, BatchesOK, CustomersOK, NameKey
<1>2. ShapesOK' /\ LinksResolve' /\ OrderMirrorsSale'
    BY GoodReceipts
<1>3. Imported' = Imported
    BY HistoryAssumption DEF Imported
<1>4. \A r \in Imported : receipts'[r].customer = receipts[r].customer /\ r \in DOMAIN receipts'
    BY <1>3 DEF Imported
<1>5. \A r \in Imported' : r[2] \in 1..Len(sheets'[r[1]]) /\ CustomerIsOf(receipts[r].customer, SheetLabel(r))'
  <2> SUFFICES ASSUME NEW r \in Imported PROVE r[2] \in 1..Len(sheets'[r[1]]) /\ CustomerIsOf(receipts[r].customer, SheetLabel(r))'
      BY <1>3
  <2>1. r[2] \in 1..Len(sheets[r[1]]) /\ CustomerIsOf(receipts[r].customer, SheetLabel(r))
      BY DEF ReceiptsOK
  <2>2. sheets' = sheets /\ SheetLabel(r)' = SheetLabel(r) /\ receipts'[r].customer = receipts[r].customer
      BY <1>4, PlanStands
  <2> HIDE DEF TablesOK
  <2> QED
      BY <2>1, <2>2 DEF CustomerIsOf, NameKey
<1>6. ReceiptsOK'
    BY <1>5 DEF ReceiptsOK
<1>7. PlanOK'
    BY <1>3, <1>4, PlanKept
<1>8. LiveKept
  <2>1. \A r \in LiveIds \intersect DOMAIN receipts : r \in DOMAIN receipts'
      BY HistoryAssumption
  <2> QED
      BY <2>1 DEF LiveKept
<1>9. ContactsKept
    BY DEF ContactsKept
<1> QED
    BY <1>1, <1>2, <1>6, <1>7, <1>8, <1>9 DEF StepKeeps

LEMMA VoidReceiptStep ==
    ASSUME TablesOK, NEW r \in LiveIds, VoidReceipt(r)
    PROVE  StepKeeps
<1>1. /\ ~reading /\ r \in DOMAIN receipts
      /\ UNCHANGED <<bookVars, reading, products, batches, customers, commands, refreshed, renamed>>
    BY DEF VoidReceipt, Use
<1> DEFINE t == receipts[r]
           orders == {[o EXCEPT !.cancelled = TRUE] : o \in t.orders}
           u == receipts'[r]
<1>2. /\ DOMAIN receipts' = DOMAIN receipts
      /\ \A q \in DOMAIN receipts : q # r => receipts'[q] = receipts[q]
      /\ u = [t EXCEPT !.voided = TRUE, !.orders = orders]
    BY <1>1 DEF VoidReceipt, TablesOK, ShapesOK, IsReceipt
<1>3. \A q \in DOMAIN receipts : GoodReceipt(q, receipts[q])
    BY <1>1, GoodRemains DEF TablesOK
<1>4. IsReceipt(t) /\ Mirrored(r, t) /\ r \notin References
    BY <1>1, <1>3, LiveFacts DEF GoodReceipt
<1> HIDE DEF t
<1>5. ASSUME NEW o \in orders
      PROVE  \E q \in t.orders : IsOrder(o) /\ o.customer = q.customer /\ o.products = q.products /\ o.cancelled = TRUE
  <2>1. PICK q \in t.orders : o = [q EXCEPT !.cancelled = TRUE]
      OBVIOUS
  <2>2. IsOrder(q)
      BY <1>4 DEF Mirrored
  <2> QED
      BY <2>1, <2>2 DEF IsOrder
<1> HIDE DEF orders, u
<1>7. /\ IsReceipt(u) /\ u.total = t.total /\ u.customer = t.customer /\ u.items = t.items
      /\ u.segment = t.segment /\ u.voided = TRUE /\ u.orders = orders
    BY <1>2, <1>4 DEF IsReceipt
<1>8. Mirrored(r, u)
  <2>1. \A i : LineFor(r, u, i) = LineFor(r, t, i)
      BY <1>7 DEF LineFor
  <2>2. {LineFor(r, u, i) : i \in DOMAIN u.items} = {LineFor(r, t, i) : i \in DOMAIN t.items}
      BY <1>7, <2>1
  <2>3. ASSUME NEW o \in u.orders
        PROVE  /\ IsOrder(o) /\ o.customer = u.customer /\ o.cancelled = u.voided
               /\ DOMAIN o.products = {LineFor(r, u, i) : i \in DOMAIN u.items}
               /\ \A i \in DOMAIN u.items : o.products[LineFor(r, u, i)] = u.items[i].product
    <3>1. PICK q \in t.orders : IsOrder(o) /\ o.customer = q.customer /\ o.products = q.products /\ o.cancelled = TRUE
        BY <1>5, <1>7, <2>3
    <3> QED
        BY <1>4, <1>7, <2>1, <2>2, <3>1 DEF Mirrored
  <2> QED
      BY <1>4, <2>3 DEF Mirrored
<1>9. GoodReceipt(r, u)
  <2>1. GoodReceipt(r, t)
      BY <1>1, <1>3 DEF t
  <2> QED
      BY <1>7, <1>8, <2>1 DEF GoodReceipt
<1>10. ASSUME NEW q \in DOMAIN receipts'
       PROVE  LET x == receipts[q]  y == receipts'[q]
              IN  /\ GoodReceipt(q, y) /\ y.total = x.total /\ y.customer = x.customer /\ y.items = x.items
                  /\ y.segment = x.segment /\ (x.voided => y.voided)
  <2>1. CASE q = r
      BY <1>7, <1>9, <2>1 DEF t, u
  <2>2. CASE q # r
      BY <1>2, <1>3, <2>2
  <2> QED
      BY <2>1, <2>2
<1> QED
    BY <1>1, <1>2, <1>10, ReceiptsStep

LEMMA RemoveDummyDataStep ==
    ASSUME TablesOK, RemoveDummyData
    PROVE  StepKeeps
<1>1. /\ ~reading /\ receipts' = [r \in DOMAIN receipts \ DemoIds |-> receipts[r]]
      /\ UNCHANGED <<bookVars, reading, products, batches, customers, refreshed, renamed>>
    BY DEF RemoveDummyData, MaintenanceCommand
<1>2. DOMAIN receipts' = DOMAIN receipts \ DemoIds /\ \A r \in DOMAIN receipts' : receipts'[r] = receipts[r]
    BY <1>1
<1>3. \A q \in DOMAIN receipts : GoodReceipt(q, receipts[q])
    BY <1>1, GoodRemains DEF TablesOK
<1> QED
    BY <1>1, <1>2, <1>3, ReceiptsStep

\* The item of a product that owns a batch.
LEMMA ItemFacts ==
    ASSUME NEW p, NEW line, DOMAIN batches' \subseteq ProductIds,
           \E b \in DOMAIN batches' : batches'[b] = p, p \in DOMAIN products'
    PROVE  LET x == Item(p, line)
           IN  GoodItem(x) /\ x.product = p /\ x.line = line
<1> DEFINE x == Item(p, line)
<1>1. x = [batch |-> HistoricalBatch(batches', p), product |-> p, name |-> products'[p].name, line |-> line]
    BY DEF Item
<1>2. x.batch = HistoricalBatch(batches', p) /\ x.product = p /\ x.line = line /\ IsItem(x)
    BY <1>1 DEF IsItem
<1> HIDE DEF x
<1>3. \A owner : owner = batches' => LET b == HistoricalBatch(owner, p) IN b \in DOMAIN owner /\ owner[b] = p
    BY HistoricalBatchFacts
<1>4. HistoricalBatch(batches', p) \in DOMAIN batches' /\ batches'[HistoricalBatch(batches', p)] = p
    BY <1>3
<1> QED
    BY <1>2, <1>4 DEF x, GoodItem

\* An imported receipt with the order that Order gives it.
LEMMA ReceiptMade ==
    \A r, total, customer, items, segment : r \in References =>
        LET x == [total |-> total, customer |-> customer, items |-> items, segment |-> segment,
                  voided |-> FALSE, orders |-> Orders(customer, items)]
        IN  /\ IsReceipt(x) /\ x.total = total /\ x.customer = customer /\ x.items = items
            /\ x.segment = segment /\ Mirrored(r, x)
<1> SUFFICES ASSUME NEW r \in References, NEW total, NEW customer, NEW items, NEW segment
             PROVE  LET x == [total |-> total, customer |-> customer, items |-> items, segment |-> segment,
                              voided |-> FALSE, orders |-> Orders(customer, items)]
                    IN  /\ IsReceipt(x) /\ x.total = total /\ x.customer = customer /\ x.items = items
                        /\ x.segment = segment /\ Mirrored(r, x)
    OBVIOUS
<1> DEFINE orders == Orders(customer, items)
           ordered == [i \in DOMAIN items |-> items[i].product]
<1>1. /\ orders = {} <=> customer = None
      /\ \A o \in orders : IsOrder(o) /\ o.customer = customer /\ o.products = ordered /\ o.cancelled = FALSE
  <2>1. CASE customer = None
      BY <2>1 DEF Orders
  <2>2. CASE customer # None
    <3> DEFINE o == [customer |-> customer, products |-> ordered, cancelled |-> FALSE]
    <3>1. orders = {o}
        BY <2>2 DEF Orders
    <3> HIDE DEF orders, ordered
    <3>2. IsOrder(o) /\ o.customer = customer /\ o.products = ordered /\ o.cancelled = FALSE
        BY DEF IsOrder
    <3> HIDE DEF o
    <3> QED
        BY <2>2, <3>1, <3>2
  <2> QED
      BY <2>1, <2>2
<1>2. DOMAIN ordered = DOMAIN items /\ \A i \in DOMAIN items : ordered[i] = items[i].product
    OBVIOUS
<1> HIDE DEF orders, ordered
<1> DEFINE x == [total |-> total, customer |-> customer, items |-> items, segment |-> segment,
                 voided |-> FALSE, orders |-> orders]
<1>3. /\ IsReceipt(x) /\ x.total = total /\ x.customer = customer /\ x.items = items
      /\ x.segment = segment /\ x.voided = FALSE /\ x.orders = orders
    BY DEF IsReceipt
<1> HIDE DEF x
<1>4. \A i : LineFor(r, x, i) = i
    BY DEF LineFor
<1>5. {LineFor(r, x, i) : i \in DOMAIN x.items} = DOMAIN items
    BY <1>3, <1>4
<1>6. Mirrored(r, x)
    BY <1>1, <1>2, <1>3, <1>4, <1>5 DEF Mirrored
<1> QED
    BY <1>3, <1>6 DEF x, orders

LEMMA LoadStep ==
    ASSUME BooksOK, SizesOK, TablesOK, NEW older \in BOOLEAN, Load(older)
    PROVE  StepKeeps
<1> USE DEF TablesOK
<1> DEFINE sold == UNION {{t.lines[i].product : i \in 1..Len(t.lines)} : t \in Sold(FALSE)}
           account(label) == IF label = None THEN None
                             ELSE IF older THEN OlderName[label] ELSE Canonical[CustomerKeyOf[label]]
           named == {account(t.customer) : t \in {t \in Tickets(FALSE) : ~Duplicate(t, FALSE)}} \ {None}
           items(t) == [i \in 1..Len(t.lines) |-> Item(t.lines[i].product, t.lines[i])]
           entry(t) == [total |-> TicketAmount(t), customer |-> account(t.customer), items |-> items(t),
                        segment |-> None, voided |-> FALSE, orders |-> Orders(account(t.customer), items(t))]
<1>1. /\ reading /\ reading' = FALSE
      /\ UNCHANGED <<bookVars, uses, commands, refreshed, renamed>>
      /\ products' = [p \in sold |-> [name |-> p, active |-> TRUE]]
      /\ batches' = [p \in sold |-> p]
      /\ customers' = [c \in named |-> [name |-> c, contact |-> None, active |-> TRUE]]
      /\ receipts' = [r \in {Reference(t) : t \in Sold(FALSE)} |-> entry(CHOOSE t \in Sold(FALSE) : Reference(t) = r)]
    BY DEF Load
<1>2. ~refreshed /\ DOMAIN receipts = {}
    BY <1>1 DEF PhaseOK
<1>3. \A t \in Sold(FALSE) : t \in Tickets(FALSE) /\ ~Duplicate(t, FALSE)
    BY DEF Sold
<1>4. sold \subseteq ProductIds
  <2>1. ASSUME NEW t \in Sold(FALSE), NEW i \in 1..Len(t.lines)
        PROVE  t.lines[i].product \in ProductIds
    <3>1. t \in Ticket
        BY <1>3, TicketsRead
    <3>2. t.lines[i] \in Line
        BY <3>1 DEF Ticket
    <3> QED
        BY <3>2 DEF Line
  <2>2. \A p \in sold : \E t \in Sold(FALSE) : \E i \in 1..Len(t.lines) : p = t.lines[i].product
      OBVIOUS
  <2> HIDE DEF sold
  <2> QED
      BY <2>1, <2>2
<1>5. ASSUME NEW label \in Labels \union {None}
      PROVE  /\ account(label) = None <=> label = None
             /\ label # None =>
                   /\ account(label) \in CustomerIds
                   /\ CustomerKeyOf[account(label)] = CustomerKey(label)
                   /\ CustomerKey(label) \in DOMAIN Canonical
  <2>1. label # None => /\ label \in DOMAIN CustomerKeyOf /\ CustomerKeyOf[label] \in DOMAIN Canonical
                        /\ CustomerKey(label) = CustomerKeyOf[label]
      BY KeyOfLabel DEF Labels
  <2>2. label # None => account(label) \in CustomerIds /\ CustomerKeyOf[account(label)] = CustomerKeyOf[label]
      BY <2>1, HistoryAssumption
  <2> QED
      BY <2>1, <2>2, NotNone
<1>6. \A t \in Tickets(FALSE) : t.customer \in Labels \union {None}
    BY TicketsApart
<1>8. ASSUME NEW u \in Sold(FALSE), account(u.customer) # None
      PROVE  account(u.customer) \in named
  <2> DEFINE first == {t \in Tickets(FALSE) : ~Duplicate(t, FALSE)}
  <2>1. u \in first
      BY <1>3
  <2>2. named = {account(t.customer) : t \in first} \ {None}
      OBVIOUS
  <2> HIDE DEF first, named, account
  <2> QED
      BY <1>8, <2>1, <2>2
<1> HIDE DEF account, items
<1>7. ASSUME NEW c \in named
      PROVE  c \in CustomerIds /\ CustomerKeyOf[c] \in DOMAIN Canonical
    BY <1>5, <1>6
<1>9. \A t \in Sold(FALSE) : \A i \in 1..Len(t.lines) : t.lines[i].product \in sold
  <2>1. ASSUME NEW u \in Sold(FALSE), NEW k \in 1..Len(u.lines)
        PROVE  u.lines[k].product \in sold
    <3>1. u.lines[k].product \in {u.lines[i].product : i \in 1..Len(u.lines)}
        OBVIOUS
    <3>2. {u.lines[i].product : i \in 1..Len(u.lines)} \in {{t.lines[i].product : i \in 1..Len(t.lines)} : t \in Sold(FALSE)}
        OBVIOUS
    <3> QED
        BY <3>1, <3>2
  <2> HIDE DEF sold
  <2> QED
      BY <2>1
<1> HIDE DEF sold, named
<1>10. ProductsOK'
  <2>1. \A p \in sold : [name |-> p, active |-> TRUE] \in [name : ProductIds, active : BOOLEAN]
      BY <1>4
  <2> QED
      BY <1>1, <1>4, <2>1 DEF ProductsOK
<1>11. BatchesOK'
    BY <1>1, <1>4 DEF BatchesOK
<1>12. CustomersOK'
  <2>1. \A c \in named : [name |-> c, contact |-> None, active |-> TRUE]
                            \in [name : CustomerIds, contact : Contact \union {None}, active : BOOLEAN]
      BY <1>7
  <2>2. \A c \in named : customers'[c].name = c
      BY <1>1
  <2> QED
      BY <1>1, <1>7, <2>1, <2>2 DEF CustomersOK, NameKey
<1>13. ASSUME NEW r \in DOMAIN receipts'
       PROVE  \E t \in Sold(FALSE) : Reference(t) = r /\ receipts'[r] = entry(t)
  <2> HIDE DEF entry
  <2>1. PICK t \in Sold(FALSE) : Reference(t) = r
      BY <1>1
  <2>2. (CHOOSE u \in Sold(FALSE) : Reference(u) = r) = t
      BY <1>3, <2>1, TicketsApart
  <2>3. receipts'[r] = entry(CHOOSE u \in Sold(FALSE) : Reference(u) = r)
      BY <1>1, <2>1
  <2> QED
      BY <2>1, <2>2, <2>3
<1>14. ASSUME NEW t \in Sold(FALSE)
       PROVE  GoodReceipt(Reference(t), entry(t)) /\ entry(t).customer = account(t.customer)
  <2> DEFINE x == entry(t)
  <2>1. Reference(t) \in References
      BY <1>3, TicketsApart
  <2>2. /\ IsReceipt(x) /\ x.customer = account(t.customer) /\ x.items = items(t)
        /\ Mirrored(Reference(t), x)
      BY <2>1, ReceiptMade
  <2> HIDE DEF x
  <2>3. x.customer # None => x.customer \in DOMAIN customers'
      BY <1>1, <1>8, <2>2
  <2>4. ASSUME NEW i \in DOMAIN x.items
        PROVE  GoodItem(x.items[i])
    <3>1. i \in 1..Len(t.lines) /\ x.items[i] = Item(t.lines[i].product, t.lines[i])
        BY <2>2, <2>4 DEF items
    <3>2. t.lines[i].product \in sold
        BY <1>9, <3>1
    <3>3. DOMAIN batches' \subseteq ProductIds /\ \E b \in DOMAIN batches' : batches'[b] = t.lines[i].product
        BY <1>1, <1>4, <3>2
    <3> QED
        BY <1>1, <3>1, <3>2, <3>3, ItemFacts
  <2>5. GoodReceipt(Reference(t), x)
      BY <2>2, <2>3, <2>4 DEF GoodReceipt
  <2> QED
      BY <2>2, <2>5 DEF x
<1> HIDE DEF entry
<1>15. ShapesOK' /\ LinksResolve' /\ OrderMirrorsSale'
    BY <1>13, <1>14, GoodReceipts
<1>16. ASSUME NEW r \in DOMAIN receipts'
       PROVE  /\ r \in References /\ r[2] \in 1..Len(sheets[r[1]])
              /\ CustomerIsOf(receipts[r].customer, SheetLabel(r))'
  <2>1. PICK t \in Sold(FALSE) : Reference(t) = r /\ receipts'[r] = entry(t)
      BY <1>13
  <2>2. /\ r \in References /\ r[2] \in 1..Len(sheets[r[1]])
        /\ t.customer = SheetLabel(r) /\ t.customer \in Labels \union {None}
    <3>1. t \in Tickets(FALSE)
        BY <1>3
    <3>2. /\ Reference(t) \in References /\ Reference(t)[1] = t.sheet /\ Reference(t)[2] = t.row
          /\ t.row \in 1..Len(sheets[t.sheet]) /\ t.customer = SheetLabel(Reference(t))
          /\ t.customer \in Labels \union {None}
        BY <3>1, TicketsApart
    <3> QED
        BY <2>1, <3>2
  <2>3. SheetLabel(r)' = t.customer
      BY <1>1, <2>2, PlanStands
  <2>4. receipts'[r].customer = account(t.customer) /\ (account(t.customer) # None => account(t.customer) \in named)
      BY <1>8, <1>14, <2>1
  <2>5. ASSUME t.customer = None
        PROVE  CustomerIsOf(receipts[r].customer, SheetLabel(r))'
    <3>1. account(t.customer) = None /\ CustomerKey(t.customer) = None
        BY <1>5, <2>2, <2>5, KeyOfLabel
    <3> HIDE DEF TablesOK
    <3> QED
        BY <2>3, <2>4, <3>1 DEF CustomerIsOf
  <2>6. ASSUME t.customer # None
        PROVE  CustomerIsOf(receipts[r].customer, SheetLabel(r))'
    <3>1. /\ account(t.customer) \in DOMAIN customers' /\ customers'[account(t.customer)].name = account(t.customer)
        BY <1>1, <1>5, <2>2, <2>4, <2>6
    <3>2. CustomerKeyOf[account(t.customer)] = CustomerKey(t.customer) /\ CustomerKey(t.customer) # None
        BY <1>5, <2>2, <2>6, KeyOfLabel
    <3> HIDE DEF TablesOK
    <3> QED
        BY <2>3, <2>4, <3>1, <3>2 DEF CustomerIsOf, NameKey
  <2> QED
      BY <2>2, <2>5, <2>6
<1>17. ReceiptsOK'
  <2>1. sheets' = sheets
      BY <1>1, PlanStands
  <2>2. DOMAIN receipts' \subseteq References /\ Imported' \subseteq DOMAIN receipts'
      BY <1>16 DEF Imported
  <2>3. \A r \in Imported' : r[2] \in 1..Len(sheets'[r[1]]) /\ CustomerIsOf(receipts[r].customer, SheetLabel(r))'
      BY <1>16, <2>1, <2>2
  <2> HIDE DEF TablesOK
  <2> QED
      BY <2>2, <2>3 DEF ReceiptsOK
<1>18. PhaseOK' /\ PlanOK'
    BY <1>1, <1>2 DEF PhaseOK, PlanOK
<1>19. LiveKept /\ ContactsKept
    BY <1>2 DEF LiveKept, ContactsKept
<1> QED
    BY <1>10, <1>11, <1>12, <1>15, <1>17, <1>18, <1>19 DEF StepKeeps

\* What an account chosen for a planned receipt is: none for a receipt without
\* customer, else one of the ticket's key, or a new one of that key.
LEMMA AccountFacts ==
    ASSUME BooksOK, SizesOK, TablesOK, EnoughIds, NEW t \in Planned
    PROVE  LET a == AccountOf(t)  k == CustomerKey(t.customer)
           IN  /\ k = None => a = None
               /\ k # None =>
                     /\ a \in CustomerIds /\ a # None /\ k \in DOMAIN Canonical
                     /\ IF a \in DOMAIN customers THEN NameKey(a) = k ELSE KeyOfRow(a) = k
<1> DEFINE a == AccountOf(t)
           k == CustomerKey(t.customer)
<1>1. t.customer \in Labels \union {None}
    BY TicketsApart DEF Planned, Sold
<1>2. k = None \/ k \in DOMAIN Canonical
    BY <1>1, KeyOfLabel
<1>3. \A c \in Accounts(t.customer) : c \in DOMAIN customers /\ NameKey(c) = k /\ c \in CustomerIds
    BY DEF Accounts, NameKey, TablesOK, CustomersOK
<1>4. CASE k = None
    BY <1>4 DEF AccountOf
<1>5. CASE k # None /\ (Recognized(t) \/ Accounts(t.customer) # {})
  <2>1. a \in Accounts(t.customer)
      BY <1>5 DEF AccountOf, Recognized
  <2> QED
      BY <1>2, <1>3, <1>5, <2>1, NotNone
<1>6. CASE k # None /\ ~Recognized(t) /\ Accounts(t.customer) = {}
  <2>1. a = NewAccount(k)
      BY <1>6 DEF AccountOf
  <2>2. a \in {Canonical[k], SpareId[k]} /\ k \in DOMAIN Canonical
      BY <1>2, <1>6, <2>1 DEF NewAccount
  <2>3. a \in CustomerIds
      BY <2>2, HistoryAssumption
  <2>4. \A j \in DOMAIN Canonical : a \in {Canonical[j], SpareId[j]} => j = k
    <3> SUFFICES ASSUME NEW j \in DOMAIN Canonical, a \in {Canonical[j], SpareId[j]} PROVE j = k
        OBVIOUS
    <3>1. {Canonical[j], SpareId[j]} \intersect {Canonical[k], SpareId[k]} # {}
        BY <2>2
    <3> HIDE DEF a, k
    <3> QED
        BY <2>2, <3>1, HistoryAssumption
  <2>5. KeyOfRow(a) = k
    <3> HIDE DEF a, k
    <3> QED
        BY <2>2, <2>4 DEF KeyOfRow
  <2>6. a \notin DOMAIN customers
      BY <1>6 DEF EnoughIds
  <2> QED
      BY <2>2, <2>3, <2>5, <2>6, NotNone
<1> QED
    BY <1>4, <1>5, <1>6

LEMMA ApplyRefreshStep ==
    ASSUME BooksOK, SizesOK, TablesOK, ApplyRefresh
    PROVE  StepKeeps
<1> DEFINE used     == UNION {{ProductFor(t.lines[i]) : i \in KeptLines(t)} : t \in Planned}
           unowned  == {p \in used : \A b \in DOMAIN batches : batches[b] # p}
           accounts == {AccountOf(t) : t \in Planned} \ {None}
           planned  == {Reference(t) : t \in Planned}
           new(c)   == [name |-> Canonical[KeyOfRow(c)], contact |-> None, active |-> TRUE]
<1>1. /\ ~reading /\ MayRefresh /\ EnoughIds /\ products' = products /\ refreshed' = TRUE /\ renamed' = FALSE
      /\ UNCHANGED <<bookVars, reading, uses>>
      /\ batches' = [p \in DOMAIN batches \union unowned |-> IF p \in unowned THEN p ELSE batches[p]]
      /\ customers' = [c \in DOMAIN customers \union accounts |-> IF c \in DOMAIN customers THEN customers[c] ELSE new(c)]
      /\ receipts' = [r \in planned \union Unaffected |->
            IF r \in planned THEN RefreshedReceipt(CHOOSE t \in Planned : Reference(t) = r) ELSE receipts[r]]
    BY DEF ApplyRefresh, MaintenanceCommand
<1>2. /\ PhaseOK /\ ProductsOK /\ BatchesOK /\ CustomersOK /\ ShapesOK /\ ReceiptsOK
      /\ LinksResolve /\ OrderMirrorsSale
    BY DEF TablesOK
<1>3. Planned \subseteq Tickets(TRUE)
    BY DEF Planned, Sold
<1>4. ASSUME NEW t \in Planned, NEW i \in KeptLines(t)
      PROVE  ProductFor(t.lines[i]) \in DOMAIN products
  <2>1. Cardinality(Candidates(t.lines[i].product)) = 1
      BY <1>1 DEF MayRefresh
  <2>2. Candidates(t.lines[i].product) # {}
      BY <2>1, FS_EmptySet
  <2>3. ProductFor(t.lines[i]) \in Candidates(t.lines[i].product)
      BY <2>2 DEF ProductFor
  <2> QED
      BY <2>3 DEF Candidates
<1>5. used \subseteq DOMAIN products
  <2>1. \A p \in used : \E t \in Planned : \E i \in KeptLines(t) : p = ProductFor(t.lines[i])
      OBVIOUS
  <2> HIDE DEF used
  <2> QED
      BY <1>4, <2>1
<1>6. ASSUME NEW u \in Planned, NEW k \in KeptLines(u)
      PROVE  ProductFor(u.lines[k]) \in used
  <2>1. ProductFor(u.lines[k]) \in {ProductFor(u.lines[i]) : i \in KeptLines(u)}
      OBVIOUS
  <2>2. {ProductFor(u.lines[i]) : i \in KeptLines(u)} \in {{ProductFor(t.lines[i]) : i \in KeptLines(t)} : t \in Planned}
      OBVIOUS
  <2> QED
      BY <2>1, <2>2
<1> HIDE DEF used
<1>7. /\ \A b \in DOMAIN batches : b \in DOMAIN batches' /\ batches'[b] = batches[b]
      /\ \A p \in unowned : p \in DOMAIN batches' /\ batches'[p] = p
      /\ DOMAIN batches' = DOMAIN batches \union unowned
  <2>1. ASSUME NEW b \in DOMAIN batches PROVE b \notin unowned
      BY <1>2, <1>5 DEF BatchesOK
  <2> HIDE DEF unowned
  <2> QED
      BY <1>1, <2>1
<1>8. \A p \in used : \E b \in DOMAIN batches' : batches'[b] = p
    BY <1>7
<1>9. BatchesOK'
  <2>1. unowned \subseteq DOMAIN products
      BY <1>5
  <2> HIDE DEF unowned
  <2>2. DOMAIN batches' \subseteq ProductIds
      BY <1>2, <1>7, <2>1 DEF BatchesOK, ProductsOK
  <2>3. \A b \in DOMAIN batches' : batches'[b] \in DOMAIN products'
      BY <1>1, <1>2, <1>7, <2>1 DEF BatchesOK
  <2>4. \A p \in DOMAIN batches' \intersect DOMAIN products' : batches'[p] = p
      BY <1>1, <1>2, <1>7 DEF BatchesOK
  <2> QED
      BY <2>2, <2>3, <2>4 DEF BatchesOK
<1>10. \A c \in accounts : \E t \in Planned : c = AccountOf(t) /\ CustomerKey(t.customer) # None
    BY <1>1, AccountFacts
<1>11. ASSUME NEW t \in Planned
       PROVE  CustomerKey(t.customer) # None => AccountOf(t) \in accounts
    BY <1>1, AccountFacts
<1> HIDE DEF accounts
<1>12. ASSUME NEW c \in DOMAIN customers', c \notin DOMAIN customers
       PROVE  /\ c \in CustomerIds /\ KeyOfRow(c) \in DOMAIN Canonical
              /\ customers'[c] = new(c) /\ CustomerKeyOf[customers'[c].name] = KeyOfRow(c)
  <2>1. c \in accounts /\ customers'[c] = new(c)
      BY <1>1, <1>12
  <2>2. new(c).name = Canonical[KeyOfRow(c)]
      OBVIOUS
  <2> HIDE DEF new
  <2>3. c \in CustomerIds /\ KeyOfRow(c) \in DOMAIN Canonical
      BY <1>1, <1>10, <1>12, <2>1, AccountFacts
  <2>4. CustomerKeyOf[Canonical[KeyOfRow(c)]] = KeyOfRow(c)
      BY <2>3, HistoryAssumption
  <2> QED
      BY <2>1, <2>2, <2>3, <2>4
<1>13. DOMAIN customers \subseteq DOMAIN customers' /\ \A c \in DOMAIN customers : customers'[c] = customers[c]
    BY <1>1
<1>14. CustomersOK'
  <2> DEFINE Account == [name : CustomerIds, contact : Contact \union {None}, active : BOOLEAN]
  <2>1. \A c : KeyOfRow(c) \in DOMAIN Canonical => new(c) \in Account
      BY HistoryAssumption
  <2> HIDE DEF Account, new
  <2>2. \A c \in DOMAIN customers : customers[c] \in Account
      BY <1>2 DEF CustomersOK, Account
  <2>3. \A c \in DOMAIN customers' : customers'[c] \in Account
      BY <1>12, <1>13, <2>1, <2>2
  <2>4. customers' \in [DOMAIN customers' -> Account]
      BY <1>1, <2>3
  <2>5. DOMAIN customers' \subseteq CustomerIds
      BY <1>2, <1>12 DEF CustomersOK
  <2>6. \A c \in DOMAIN customers' : CustomerKeyOf[customers'[c].name] \in DOMAIN Canonical
      BY <1>2, <1>12, <1>13 DEF CustomersOK, NameKey
  <2> QED
      BY <2>4, <2>5, <2>6 DEF CustomersOK, Account, NameKey
<1>15. ASSUME NEW t \in Planned
       PROVE  /\ CustomerKey(t.customer) = None => AccountOf(t) = None
              /\ CustomerKey(t.customer) # None =>
                    /\ AccountOf(t) # None /\ AccountOf(t) \in DOMAIN customers'
                    /\ CustomerKeyOf[customers'[AccountOf(t)].name] = CustomerKey(t.customer)
  <2> SUFFICES ASSUME CustomerKey(t.customer) # None
               PROVE  /\ AccountOf(t) # None /\ AccountOf(t) \in DOMAIN customers'
                      /\ CustomerKeyOf[customers'[AccountOf(t)].name] = CustomerKey(t.customer)
      BY <1>1, AccountFacts
  <2>1. AccountOf(t) \in DOMAIN customers' /\ AccountOf(t) # None
      BY <1>1, <1>11, AccountFacts
  <2>2. CASE AccountOf(t) \in DOMAIN customers
      BY <1>1, <1>13, <2>1, <2>2, AccountFacts DEF NameKey
  <2>3. CASE AccountOf(t) \notin DOMAIN customers
      BY <1>1, <1>12, <2>1, <2>3, AccountFacts
  <2> QED
      BY <2>1, <2>2, <2>3
<1>16. ASSUME NEW t \in Planned
       PROVE  LET x == RefreshedReceipt(t)
              IN  /\ GoodReceipt(Reference(t), x) /\ x.customer = AccountOf(t)
                  /\ x.total = KeptAmount(t) /\ x.segment = Segment(t)
                  /\ DOMAIN x.items = KeptLines(t)
                  /\ \A i \in KeptLines(t) : x.items[i].line = t.lines[i]
  <2> DEFINE items == [i \in KeptLines(t) |-> Item(ProductFor(t.lines[i]), t.lines[i])]
             x     == RefreshedReceipt(t)
  <2>1. /\ IsReceipt(x) /\ x.total = KeptAmount(t) /\ x.customer = AccountOf(t) /\ x.items = items
        /\ x.segment = Segment(t) /\ Mirrored(Reference(t), x)
    <3> HIDE DEF items
    <3>1. x = [total |-> KeptAmount(t), customer |-> AccountOf(t), items |-> items, segment |-> Segment(t),
               voided |-> FALSE, orders |-> Orders(AccountOf(t), items)]
        BY DEF RefreshedReceipt, items
    <3>2. Reference(t) \in References
        BY <1>3, TicketsApart
    <3> HIDE DEF x
    <3> QED
        BY <3>1, <3>2, ReceiptMade
  <2> HIDE DEF x
  <2>2. x.customer # None => x.customer \in DOMAIN customers'
      BY <1>15, <2>1
  <2>3. ASSUME NEW i \in KeptLines(t)
        PROVE  GoodItem(x.items[i]) /\ x.items[i].line = t.lines[i]
    <3>1. x.items[i] = Item(ProductFor(t.lines[i]), t.lines[i])
        BY <2>1
    <3>2. \E b \in DOMAIN batches' : batches'[b] = ProductFor(t.lines[i])
        BY <1>6, <1>8
    <3>3. DOMAIN batches' \subseteq ProductIds /\ ProductFor(t.lines[i]) \in DOMAIN products'
        BY <1>1, <1>4, <1>9 DEF BatchesOK
    <3> QED
        BY <3>1, <3>2, <3>3, ItemFacts
  <2>4. DOMAIN x.items = KeptLines(t)
      BY <2>1
  <2>5. GoodReceipt(Reference(t), x)
      BY <2>1, <2>2, <2>3, <2>4 DEF GoodReceipt
  <2> QED
      BY <2>1, <2>3, <2>4, <2>5 DEF x
<1>17. ASSUME NEW t \in Planned
       PROVE  /\ Reference(t) \in References /\ Reference(t) \in planned
              /\ receipts'[Reference(t)] = RefreshedReceipt(t)
  <2>1. (CHOOSE u \in Planned : Reference(u) = Reference(t)) = t
      BY <1>3, TicketsApart
  <2>2. Reference(t) \in References
      BY <1>3, TicketsApart
  <2>3. Reference(t) \in planned
      OBVIOUS
  <2> HIDE DEF planned
  <2> QED
      BY <1>1, <2>1, <2>2, <2>3
<1>18. \A r \in planned : \E t \in Planned : r = Reference(t)
    OBVIOUS
<1> HIDE DEF planned
<1>19. /\ DOMAIN receipts' = planned \union Unaffected
       /\ \A r \in Unaffected : r \notin planned /\ receipts'[r] = receipts[r] /\ r \in DOMAIN receipts
    BY <1>1, <1>17, <1>18 DEF Unaffected
<1>20. ShapesOK' /\ LinksResolve' /\ OrderMirrorsSale'
  <2>1. \A r \in Unaffected : GoodReceipt(r, receipts'[r])
      BY <1>1, <1>2, <1>7, <1>13, <1>19, GoodRemains
  <2>2. \A r \in planned : GoodReceipt(r, receipts'[r])
      BY <1>16, <1>17, <1>18
  <2> QED
      BY <1>19, <2>1, <2>2, GoodReceipts
<1>21. Imported' = planned
    BY <1>17, <1>18, <1>19 DEF Imported, Unaffected
<1>22. ReceiptsOK'
  <2>1. DOMAIN receipts' \subseteq References \union LiveIds \union DemoIds
      BY <1>2, <1>17, <1>18, <1>19 DEF ReceiptsOK
  <2>3. ASSUME NEW r \in planned
        PROVE  r[2] \in 1..Len(sheets'[r[1]]) /\ CustomerIsOf(receipts[r].customer, SheetLabel(r))'
    <3>1. PICK t \in Planned : r = Reference(t)
        BY <1>18
    <3>2. /\ Reference(t)[1] = t.sheet /\ Reference(t)[2] = t.row
          /\ t.row \in 1..Len(sheets[t.sheet]) /\ t.customer = SheetLabel(Reference(t))
        BY <1>3, TicketsApart
    <3>3. receipts'[r].customer = AccountOf(t)
        BY <1>16, <1>17, <3>1
    <3>4. sheets' = sheets /\ SheetLabel(r)' = t.customer
        BY <1>1, <3>1, <3>2, PlanStands
    <3> QED
        BY <1>15, <3>1, <3>2, <3>3, <3>4 DEF CustomerIsOf, NameKey
  <2> QED
      BY <1>21, <2>1, <2>3 DEF ReceiptsOK
<1>23. PlanOK'
  <2>1. Planned' = Planned
      BY <1>1, PlanStands
  <2>2. Imported' = {Reference(t) : t \in Planned'}
      BY <1>21, <2>1 DEF planned
  <2> QED
      BY <1>16, <1>17, <2>1, <2>2 DEF PlanOK
<1>24. PhaseOK' /\ ProductsOK'
    BY <1>1, <1>2 DEF PhaseOK, ProductsOK
<1>25. ASSUME NEW r \in DOMAIN receipts, r \notin References
       PROVE  r \in DOMAIN receipts' /\ receipts'[r] = receipts[r]
    BY <1>19, <1>25 DEF Unaffected
<1>26. LiveKept
    BY <1>25, LiveFacts DEF LiveKept
<1>27. ContactsKept
  <2> SUFFICES ASSUME NEW r \in DOMAIN receipts \intersect DOMAIN receipts',
                      receipts'[r].customer # receipts[r].customer, receipts[r].customer # None,
                      receipts'[r].customer # None,
                      CustomerKeyOf[customers'[receipts'[r].customer].name] = NameKey(receipts[r].customer)
               PROVE  FALSE
      BY DEF ContactsKept, NameKey
  <2>1. CASE r \in planned
    <3>1. PICK t \in Planned : r = Reference(t)
        BY <1>18, <2>1
    <3>2. receipts'[r].customer = AccountOf(t) /\ receipts[r].customer \in DOMAIN customers
        BY <1>2, <1>16, <1>17, <3>1 DEF LinksResolve
    <3>3. CustomerKey(t.customer) # None /\ NameKey(receipts[r].customer) = CustomerKey(t.customer)
        BY <1>15, <3>2
    <3>4. Recognized(t)
        BY <3>1, <3>2, <3>3 DEF Recognized, Accounts, NameKey
    <3>5. AccountOf(t) = receipts[r].customer
        BY <3>1, <3>3, <3>4 DEF AccountOf
    <3> QED
        BY <3>2, <3>5
  <2>2. CASE r \notin planned
      BY <1>19, <2>2
  <2> QED
      BY <2>1, <2>2
<1> QED
    BY <1>9, <1>14, <1>20, <1>22, <1>23, <1>24, <1>26, <1>27 DEF StepKeeps, TablesOK

\* A group of products has one keeper, a member, and one label, a member's.
LEMMA ProductGroups ==
    ASSUME ProductsOK, NEW p \in DOMAIN products
    PROVE  /\ p \in ProductGroup(p) /\ ProductGroup(p) \subseteq DOMAIN products
           /\ ProductKeeper(p) \in ProductGroup(p) /\ ProductGroup(ProductKeeper(p)) = ProductGroup(p)
           /\ ProductKeeper(ProductKeeper(p)) = ProductKeeper(p)
           /\ \E q \in ProductGroup(p) : GroupLabel(ProductGroup(p)) = products[q].name
<1> DEFINE G == ProductGroup(p)
<1>1. p \in G /\ G \subseteq DOMAIN products /\ G \subseteq ProductIds /\ \A q \in G : Key(q) = Key(p)
    BY DEF ProductGroup, ProductsOK
<1>2. ProductKeeper(p) \in G
    BY <1>1, OldestExists, HistoryAssumption DEF ProductKeeper
<1>3. \A q \in G : ProductGroup(q) = G
    BY DEF ProductGroup
<1>4. ProductKeeper(ProductKeeper(p)) = ProductKeeper(p)
    BY <1>2, <1>3 DEF ProductKeeper
<1> HIDE DEF G
<1>5. \E q \in G : GroupLabel(G) = products[q].name
  <2> DEFINE length(q) == NameLength[products[q].name]
             lengths   == {length(q) : q \in G}
  <2>1. \A q \in G : length(q) \in Nat /\ ProductAge[q] \in Nat
      BY <1>1, HistoryAssumption DEF ProductsOK
  <2>2. PICK l \in lengths : \A k \in lengths : l <= k
    <3>1. lengths \in SUBSET Nat /\ lengths # {}
        BY <1>1, <2>1
    <3> QED
        BY <3>1, LeastNatural
  <2> DEFINE shortest == {q \in G : length(q) = l}
  <2>3. shortest # {} /\ \A q \in shortest : ProductAge[q] \in Nat
      BY <2>1
  <2>4. PICK q \in shortest : \A x \in shortest : ProductAge[q] <= ProductAge[x]
      BY <2>3, OldestExists
  <2>5. \A x \in G : length(q) < length(x) \/ (length(q) = length(x) /\ ProductAge[q] <= ProductAge[x])
    <3> SUFFICES ASSUME NEW x \in G
                 PROVE  length(q) < length(x) \/ (length(q) = length(x) /\ ProductAge[q] <= ProductAge[x])
        OBVIOUS
    <3>1. q \in G /\ length(q) = l /\ length(x) \in lengths
        OBVIOUS
    <3>2. l <= length(x) /\ l \in Nat /\ length(x) \in Nat
        BY <2>1, <2>2, <3>1
    <3>3. length(x) = l => ProductAge[q] <= ProductAge[x]
        BY <2>4
    <3> HIDE DEF length
    <3> QED
        BY <3>1, <3>2, <3>3
  <2>6. q \in G
      OBVIOUS
  <2> QED
      BY <2>5, <2>6 DEF GroupLabel
<1> QED
    BY <1>1, <1>2, <1>3, <1>4, <1>5 DEF G

\* A moved item is of the keeper.
LEMMA MovedItems ==
    ASSUME ProductsOK, NEW x, IsItem(x), x.product \in DOMAIN products
    PROVE  LET y == MovedItem(x)
           IN  /\ IsItem(y) /\ y.product = ProductKeeper(x.product) /\ y.batch = x.batch /\ y.line = x.line
<1> DEFINE G == ProductGroup(x.product)
<1>1. CASE Cardinality(G) < 2
  <2>1. IsFiniteSet(G)
      BY HistoryAssumption, FS_Subset DEF ProductGroup, ProductsOK
  <2>2. ProductKeeper(x.product) = x.product
      BY <1>1, <2>1, ProductGroups, AtMostOne
  <2>3. MovedItem(x) = x
      BY <1>1 DEF MovedItem
  <2> QED
      BY <2>2, <2>3
<1>2. CASE ~(Cardinality(G) < 2)
  <2>1. MovedItem(x) = [x EXCEPT !.product = ProductKeeper(x.product), !.name = GroupLabel(G)]
      BY <1>2 DEF MovedItem
  <2> HIDE DEF G
  <2> QED
      BY <2>1 DEF IsItem
<1> QED
    BY <1>1, <1>2

LEMMA ConsolidateProductsStep ==
    ASSUME TablesOK, ConsolidateProducts
    PROVE  StepKeeps
<1>1. /\ ~reading /\ UNCHANGED <<bookVars, reading, uses, customers, refreshed, renamed>>
      /\ products' = [p \in {ProductKeeper(q) : q \in DOMAIN products} |-> MergedProduct(p)]
      /\ batches' = [b \in DOMAIN batches |-> MovedBatch(b)]
      /\ receipts' = [r \in DOMAIN receipts |->
            [receipts[r] EXCEPT !.items = [i \in DOMAIN receipts[r].items |-> MovedItem(receipts[r].items[i])],
                                !.orders = {MovedOrder(o) : o \in receipts[r].orders}]]
    BY DEF ConsolidateProducts, MaintenanceCommand
<1>2. /\ PhaseOK /\ ProductsOK /\ BatchesOK /\ CustomersOK /\ ShapesOK /\ ReceiptsOK
      /\ LinksResolve /\ OrderMirrorsSale /\ PlanOK
    BY DEF TablesOK
<1>3. \A p \in DOMAIN products :
          /\ ProductKeeper(p) \in DOMAIN products' /\ ProductKeeper(p) \in DOMAIN products
          /\ ProductKeeper(ProductKeeper(p)) = ProductKeeper(p)
          /\ ProductGroup(ProductKeeper(p)) = ProductGroup(p)
    BY <1>1, <1>2, ProductGroups
<1>4. \A p \in DOMAIN products' : p \in DOMAIN products /\ ProductKeeper(p) = p /\ products'[p] = MergedProduct(p)
    BY <1>1, <1>3
<1>5. ProductsOK'
  <2>1. ASSUME NEW p \in DOMAIN products'
        PROVE  products'[p] \in [name : ProductIds, active : BOOLEAN]
    <3>1. PICK q \in ProductGroup(p) : GroupLabel(ProductGroup(p)) = products[q].name
        BY <1>2, <1>4, ProductGroups
    <3>2. GroupLabel(ProductGroup(p)) \in ProductIds
        BY <1>2, <1>4, <3>1, ProductGroups DEF ProductsOK
    <3>3. products'[p] = [name |-> GroupLabel(ProductGroup(p)), active |-> \E x \in ProductGroup(p) : products[x].active]
        BY <1>4 DEF MergedProduct
    <3>4. (\E x \in ProductGroup(p) : products[x].active) \in BOOLEAN
        OBVIOUS
    <3> QED
        BY <3>2, <3>3, <3>4
  <2> QED
      BY <1>1, <1>2, <1>4, <2>1 DEF ProductsOK
<1>6. ASSUME NEW p \in DOMAIN products
      PROVE  ProductKeyOf[products'[ProductKeeper(p)].name] = Key(p)
  <2>1. products'[ProductKeeper(p)].name = GroupLabel(ProductGroup(p))
      BY <1>3, <1>4 DEF MergedProduct
  <2>2. PICK q \in ProductGroup(p) : GroupLabel(ProductGroup(p)) = products[q].name
      BY <1>2, ProductGroups
  <2> QED
      BY <2>1, <2>2 DEF ProductGroup, Key
<1>7. BatchesOK'
  <2>1. DOMAIN batches' = DOMAIN batches /\ \A b \in DOMAIN batches : batches'[b] = ProductKeeper(batches[b])
      BY <1>1 DEF MovedBatch
  <2> QED
      BY <1>2, <1>3, <1>4, <2>1 DEF BatchesOK
<1>8. ASSUME NEW r \in DOMAIN receipts
      PROVE  LET t == receipts[r]  u == receipts'[r]
             IN  /\ GoodReceipt(r, u)
                 /\ u.total = t.total /\ u.customer = t.customer /\ u.segment = t.segment /\ u.voided = t.voided
                 /\ DOMAIN u.items = DOMAIN t.items
                 /\ \A i \in DOMAIN t.items :
                       u.items[i].line = t.items[i].line /\ u.items[i].product = ProductKeeper(t.items[i].product)
  <2> DEFINE t == receipts[r]
             u == receipts'[r]
             items == [i \in DOMAIN t.items |-> MovedItem(t.items[i])]
             orders == {MovedOrder(o) : o \in t.orders}
  <2>1. u = [t EXCEPT !.items = items, !.orders = orders]
      BY <1>1
  <2>2. /\ IsReceipt(t) /\ Mirrored(r, t)
        /\ t.customer # None => t.customer \in DOMAIN customers
        /\ \A i \in DOMAIN t.items :
              /\ IsItem(t.items[i]) /\ t.items[i].product \in DOMAIN products
              /\ t.items[i].batch # None => /\ t.items[i].batch \in DOMAIN batches
                                            /\ batches[t.items[i].batch] = t.items[i].product
      BY <1>2, ReceiptFacts
  <2>3. \A i \in DOMAIN t.items :
            /\ IsItem(items[i]) /\ items[i].product = ProductKeeper(t.items[i].product)
            /\ items[i].batch = t.items[i].batch /\ items[i].line = t.items[i].line
      BY <1>2, <2>2, MovedItems
  <2>4. DOMAIN items = DOMAIN t.items /\ (orders = {} <=> t.orders = {})
      OBVIOUS
  <2>5. ASSUME NEW o \in orders
        PROVE  \E q \in t.orders :
                  /\ IsOrder(o) /\ o.customer = q.customer /\ o.cancelled = q.cancelled
                  /\ DOMAIN o.products = DOMAIN q.products
                  /\ \A n \in DOMAIN q.products : o.products[n] = ProductKeeper(q.products[n])
    <3>1. PICK q \in t.orders : o = MovedOrder(q)
        OBVIOUS
    <3>2. IsOrder(q)
        BY <2>2 DEF Mirrored
    <3> DEFINE moved == [n \in DOMAIN q.products |-> ProductKeeper(q.products[n])]
    <3>3. o = [q EXCEPT !.products = moved]
        BY <3>1 DEF MovedOrder
    <3>4. DOMAIN moved = DOMAIN q.products /\ \A n \in DOMAIN q.products : moved[n] = ProductKeeper(q.products[n])
        OBVIOUS
    <3> HIDE DEF moved
    <3>5. IsOrder(o) /\ o.customer = q.customer /\ o.cancelled = q.cancelled /\ o.products = moved
        BY <3>2, <3>3 DEF IsOrder
    <3> QED
        BY <3>4, <3>5
  <2> HIDE DEF t, u, items, orders
  <2>6. /\ IsReceipt(u) /\ u.total = t.total /\ u.customer = t.customer /\ u.segment = t.segment
        /\ u.voided = t.voided /\ u.items = items /\ u.orders = orders
      BY <2>1, <2>2 DEF IsReceipt
  <2>7. \A i \in DOMAIN items : GoodItem(items[i])
    <3>1. \A b \in DOMAIN batches : b \in DOMAIN batches' /\ batches'[b] = ProductKeeper(batches[b])
        BY <1>1 DEF MovedBatch
    <3> QED
        BY <1>3, <2>2, <2>3, <2>4, <3>1 DEF GoodItem
  <2>8. Mirrored(r, u)
    <3>1. \A i \in DOMAIN t.items : LineFor(r, u, i) = LineFor(r, t, i)
        BY <2>3, <2>4, <2>6 DEF LineFor
    <3>2. {LineFor(r, u, i) : i \in DOMAIN u.items} = {LineFor(r, t, i) : i \in DOMAIN t.items}
        BY <2>4, <2>6, <3>1
    <3>3. r \in References => (u.orders = {} <=> u.customer = None)
        BY <2>2, <2>4, <2>6 DEF Mirrored
    <3>4. ASSUME NEW o \in u.orders
          PROVE  /\ IsOrder(o) /\ o.customer = u.customer /\ o.cancelled = u.voided
                 /\ DOMAIN o.products = {LineFor(r, u, i) : i \in DOMAIN u.items}
                 /\ \A i \in DOMAIN u.items : o.products[LineFor(r, u, i)] = u.items[i].product
      <4>1. PICK q \in t.orders :
                  /\ IsOrder(o) /\ o.customer = q.customer /\ o.cancelled = q.cancelled
                  /\ DOMAIN o.products = DOMAIN q.products
                  /\ \A n \in DOMAIN q.products : o.products[n] = ProductKeeper(q.products[n])
          BY <2>5, <2>6, <3>4
      <4>2. /\ q.customer = t.customer /\ q.cancelled = t.voided
            /\ DOMAIN q.products = {LineFor(r, t, i) : i \in DOMAIN t.items}
            /\ \A i \in DOMAIN t.items : q.products[LineFor(r, t, i)] = t.items[i].product
          BY <2>2 DEF Mirrored
      <4>3. \A i \in DOMAIN t.items : o.products[LineFor(r, u, i)] = ProductKeeper(t.items[i].product)
          BY <3>1, <4>1, <4>2
      <4> QED
          BY <2>3, <2>4, <2>6, <3>2, <4>1, <4>2, <4>3
    <3> QED
        BY <3>3, <3>4 DEF Mirrored
  <2>9. GoodReceipt(r, u)
    <3>1. t.customer # None => t.customer \in DOMAIN customers'
        BY <1>1, <2>2
    <3> QED
        BY <2>6, <2>7, <2>8, <3>1 DEF GoodReceipt
  <2> QED
      BY <2>3, <2>4, <2>6, <2>9 DEF t, u
<1>9. DOMAIN receipts' = DOMAIN receipts /\ Imported' = Imported /\ Imported \subseteq DOMAIN receipts
    BY <1>1 DEF Imported
<1>10. ShapesOK' /\ LinksResolve' /\ OrderMirrorsSale'
    BY <1>8, <1>9, GoodReceipts
<1>11. ReceiptsOK'
  <2>1. ASSUME NEW r \in Imported
        PROVE  r[2] \in 1..Len(sheets'[r[1]]) /\ CustomerIsOf(receipts[r].customer, SheetLabel(r))'
    <3>1. r[2] \in 1..Len(sheets[r[1]]) /\ CustomerIsOf(receipts[r].customer, SheetLabel(r))
        BY <1>2 DEF ReceiptsOK
    <3>2. receipts'[r].customer = receipts[r].customer /\ sheets' = sheets /\ SheetLabel(r)' = SheetLabel(r)
        BY <1>1, <1>8, <1>9, PlanStands
    <3> QED
        BY <1>1, <3>1, <3>2 DEF CustomerIsOf, NameKey
  <2> QED
      BY <1>2, <1>8, <1>9, <2>1 DEF ReceiptsOK
<1>12. PlanOK'
  <2>1. \A r \in Imported :
            /\ receipts'[r].total = receipts[r].total /\ receipts'[r].segment = receipts[r].segment
            /\ DOMAIN receipts'[r].items = DOMAIN receipts[r].items
            /\ \A i \in DOMAIN receipts[r].items : receipts'[r].items[i].line = receipts[r].items[i].line
      BY <1>8, <1>9
  <2>2. UNCHANGED <<bookVars, refreshed, renamed>>
      BY <1>1
  <2> QED
      BY <1>2, <1>9, <2>1, <2>2, PlanKept
<1>13. PhaseOK' /\ CustomersOK'
    BY <1>1, <1>2 DEF PhaseOK, CustomersOK, NameKey
<1>14. LiveKept
  <2> SUFFICES ASSUME NEW r \in LiveIds \intersect DOMAIN receipts
               PROVE  LET t == receipts[r]  u == receipts'[r]
                      IN  /\ r \in DOMAIN receipts'
                          /\ u.total = t.total /\ (t.voided => u.voided) /\ u.customer = t.customer
                          /\ DOMAIN u.items = DOMAIN t.items
                          /\ \A i \in DOMAIN t.items :
                                /\ u.items[i].line = t.items[i].line
                                /\ ProductKeyOf[products'[u.items[i].product].name] = Key(t.items[i].product)
      BY DEF LiveKept
  <2>1. \A i \in DOMAIN receipts[r].items :
            ProductKeyOf[products'[ProductKeeper(receipts[r].items[i].product)].name] = Key(receipts[r].items[i].product)
      BY <1>2, <1>6 DEF LinksResolve
  <2> QED
      BY <1>8, <1>9, <2>1
<1>15. ContactsKept
    BY <1>8 DEF ContactsKept
<1> QED
    BY <1>5, <1>7, <1>10, <1>11, <1>12, <1>13, <1>14, <1>15 DEF StepKeeps, TablesOK

\* A group of accounts has one keeper, a member.
LEMMA CustomerGroups ==
    ASSUME CustomersOK, NEW c \in DOMAIN customers
    PROVE  LET G == CustomerGroup(c)
           IN  /\ c \in G /\ G \subseteq DOMAIN customers /\ IsFiniteSet(G)
               /\ \A d \in G : CustomerGroup(d) = G /\ NameKey(d) = NameKey(c)
               /\ MovedCustomer(c) \in G /\ MovedCustomer(MovedCustomer(c)) = MovedCustomer(c)
               /\ ~Mergeable(G) => MovedCustomer(c) = c
<1> DEFINE G == CustomerGroup(c)
<1>1. c \in G /\ G \subseteq DOMAIN customers /\ G \subseteq CustomerIds
    BY DEF CustomerGroup, CustomersOK
<1>2. IsFiniteSet(G)
    BY <1>1, HistoryAssumption, FS_Subset
<1>3. \A d \in G : CustomerGroup(d) = G /\ NameKey(d) = NameKey(c)
    BY DEF CustomerGroup, NameKey
<1> HIDE DEF G
<1>4. CustomerKeeper(G) \in G
  <2> DEFINE named == {d \in G : customers[d].name = Canonical[CustomerKeyOf[customers[d].name]]}
             S == IF named # {} THEN named ELSE G
  <2>1. S # {} /\ S \subseteq G
      BY <1>1
  <2>2. \A d \in S : CustomerAge[d] \in Nat
      BY <1>1, <2>1, HistoryAssumption
  <2>3. CustomerKeeper(G) = Oldest(S, CustomerAge)
      BY DEF CustomerKeeper
  <2> HIDE DEF S
  <2> QED
      BY <2>1, <2>2, <2>3, OldestExists
<1>5. MovedCustomer(c) = IF Mergeable(G) THEN CustomerKeeper(G) ELSE c
    BY DEF MovedCustomer, G
<1>6. MovedCustomer(c) \in G
    BY <1>1, <1>4, <1>5
<1>7. MovedCustomer(MovedCustomer(c)) = MovedCustomer(c)
  <2>1. CustomerGroup(MovedCustomer(c)) = G
      BY <1>3, <1>6
  <2>2. MovedCustomer(MovedCustomer(c)) = IF Mergeable(G) THEN CustomerKeeper(G) ELSE MovedCustomer(c)
      BY <2>1 DEF MovedCustomer
  <2> QED
      BY <1>5, <2>2
<1> QED
    BY <1>1, <1>2, <1>3, <1>5, <1>6, <1>7 DEF G

\* The row that is left of a group has the key of its names and their contact.
LEMMA MergedRows ==
    ASSUME CustomersOK, NEW c \in DOMAIN customers, NEW d \in CustomerGroup(c)
    PROVE  LET row == MergedCustomer(d)
           IN  /\ row \in [name : CustomerIds, contact : Contact \union {None}, active : BOOLEAN]
               /\ CustomerKeyOf[row.name] = NameKey(c)
               /\ Mergeable(CustomerGroup(c)) => customers[c].contact \in {None, row.contact}
<1> DEFINE G == CustomerGroup(c)
           known == Contacts(G)
           key == NameKey(c)
           row == MergedCustomer(d)
<1>1. c \in G /\ d \in DOMAIN customers /\ G \subseteq DOMAIN customers /\ IsFiniteSet(G) /\ CustomerGroup(d) = G /\ NameKey(d) = key
    BY CustomerGroups
<1>2. key \in DOMAIN Canonical /\ \A x \in DOMAIN customers : customers[x] \in [name : CustomerIds, contact : Contact \union {None}, active : BOOLEAN]
    BY DEF CustomersOK
<1>3. Canonical[key] \in CustomerIds /\ CustomerKeyOf[Canonical[key]] = key
    BY <1>2, HistoryAssumption
<1> HIDE DEF G, key
<1>4. CASE ~Mergeable(G)
  <2>1. row = customers[d]
      BY <1>1, <1>4 DEF MergedCustomer
  <2> QED
      BY <1>1, <1>2, <1>4, <2>1 DEF NameKey, G, key
<1>5. CASE Mergeable(G)
  <2> DEFINE contact == IF known = {} THEN None ELSE CHOOSE x \in known : TRUE
             active  == \E x \in G : customers[x].active
  <2>1. row = [name |-> Canonical[key], contact |-> contact, active |-> active]
      BY <1>1, <1>5 DEF MergedCustomer, NameKey
  <2>2. known \subseteq Contact /\ active \in BOOLEAN
      BY <1>1, <1>2 DEF Contacts
  <2>3. contact \in Contact \union {None} /\ (known # {} => contact \in known)
      BY <2>2
  <2>4. customers[c].contact # None => customers[c].contact \in known
      BY <1>1 DEF Contacts
  <2>5. IsFiniteSet(known) /\ Cardinality(known) < 2
    <3> DEFINE contactOf == [x \in G |-> customers[x].contact]
    <3>1. IsFiniteSet({contactOf[x] : x \in G})
      <4>1. IsFiniteSet(G)
          BY <1>1
      <4> HIDE DEF contactOf
      <4> QED
          BY <4>1, LabelsFinite
    <3>2. IsFiniteSet(known)
      <4>1. known \subseteq {contactOf[x] : x \in G}
          BY DEF Contacts
      <4> QED
          BY <3>1, <4>1, FS_Subset
    <3>3. Cardinality(known) <= 1 /\ Cardinality(known) \in Nat
        BY <1>5, <3>2, FS_CardinalityType DEF Mergeable
    <3> QED
        BY <3>2, <3>3
  <2> HIDE DEF known, contact, active
  <2>6. customers[c].contact # None => customers[c].contact = contact
      BY <2>3, <2>4, <2>5, AtMostOne
  <2>7. row \in [name : CustomerIds, contact : Contact \union {None}, active : BOOLEAN]
      BY <1>3, <2>1, <2>2, <2>3
  <2>8. row.name = Canonical[key] /\ row.contact = contact
      BY <2>1
  <2> HIDE DEF row
  <2>9. CustomerKeyOf[row.name] = key /\ customers[c].contact \in {None, row.contact}
      BY <1>3, <2>6, <2>8
  <2> QED
      BY <2>7, <2>9 DEF row, key
<1> QED
    BY <1>4, <1>5

LEMMA ConsolidateCustomersStep ==
    ASSUME TablesOK, ConsolidateCustomers
    PROVE  StepKeeps
<1>1. /\ ~reading /\ UNCHANGED <<bookVars, reading, uses, products, batches, refreshed, renamed>>
      /\ customers' = [c \in {MovedCustomer(d) : d \in DOMAIN customers} |-> MergedCustomer(c)]
      /\ receipts' = [r \in DOMAIN receipts |-> MovedReceipt(receipts[r])]
    BY DEF ConsolidateCustomers, MaintenanceCommand
<1>2. /\ PhaseOK /\ ProductsOK /\ BatchesOK /\ CustomersOK /\ ShapesOK /\ ReceiptsOK
      /\ LinksResolve /\ OrderMirrorsSale /\ PlanOK
    BY DEF TablesOK
<1>3. ASSUME NEW c \in DOMAIN customers
      PROVE  /\ MovedCustomer(c) \in DOMAIN customers' /\ MovedCustomer(c) \in DOMAIN customers
             /\ customers'[MovedCustomer(c)] \in [name : CustomerIds, contact : Contact \union {None}, active : BOOLEAN]
             /\ CustomerKeyOf[customers'[MovedCustomer(c)].name] = NameKey(c)
             /\ MovedCustomer(c) # c => customers[c].contact \in {None, customers'[MovedCustomer(c)].contact}
             /\ MovedCustomer(MovedCustomer(c)) = MovedCustomer(c)
  <2>1. /\ MovedCustomer(c) \in CustomerGroup(c) /\ MovedCustomer(MovedCustomer(c)) = MovedCustomer(c)
        /\ CustomerGroup(c) \subseteq DOMAIN customers
        /\ MovedCustomer(c) # c => Mergeable(CustomerGroup(c))
      BY <1>2, CustomerGroups
  <2>2. customers'[MovedCustomer(c)] = MergedCustomer(MovedCustomer(c)) /\ MovedCustomer(c) \in DOMAIN customers'
      BY <1>1
  <2> QED
      BY <1>2, <2>1, <2>2, MergedRows
<1>4. \A c \in DOMAIN customers' : c \in DOMAIN customers /\ MovedCustomer(c) = c
    BY <1>1, <1>3
<1>5. CustomersOK'
  <2>1. ASSUME NEW c \in DOMAIN customers'
        PROVE  /\ customers'[c] \in [name : CustomerIds, contact : Contact \union {None}, active : BOOLEAN]
               /\ NameKey(c)' \in DOMAIN Canonical
    <3>1. customers'[c] \in [name : CustomerIds, contact : Contact \union {None}, active : BOOLEAN] /\ NameKey(c)' = NameKey(c)
        BY <1>3, <1>4 DEF NameKey
    <3> QED
        BY <1>2, <1>4, <3>1 DEF CustomersOK
  <2>2. customers' \in [DOMAIN customers' -> [name : CustomerIds, contact : Contact \union {None}, active : BOOLEAN]]
      BY <1>1, <2>1
  <2>3. DOMAIN customers' \subseteq CustomerIds
      BY <1>2, <1>4 DEF CustomersOK
  <2> QED
      BY <2>1, <2>2, <2>3 DEF CustomersOK
<1>6. None \notin DOMAIN customers
    BY <1>2, NotNone DEF CustomersOK
<1>7. ASSUME NEW r \in DOMAIN receipts
      PROVE  LET t == receipts[r]  u == receipts'[r]
             IN  /\ GoodReceipt(r, u)
                 /\ u.total = t.total /\ u.items = t.items /\ u.segment = t.segment /\ u.voided = t.voided
                 /\ u.customer = IF t.customer = None THEN None ELSE MovedCustomer(t.customer)
  <2> DEFINE t == receipts[r]
             u == receipts'[r]
             d == MovedCustomer(t.customer)
  <2>1. u = MovedReceipt(t)
      BY <1>1
  <2>2. /\ IsReceipt(t) /\ Mirrored(r, t)
        /\ t.customer # None => t.customer \in DOMAIN customers
        /\ \A i \in DOMAIN t.items :
              /\ IsItem(t.items[i]) /\ t.items[i].product \in DOMAIN products
              /\ t.items[i].batch # None => /\ t.items[i].batch \in DOMAIN batches
                                            /\ batches[t.items[i].batch] = t.items[i].product
      BY <1>2, ReceiptFacts
  <2>3. \A i \in DOMAIN t.items : GoodItem(t.items[i])
      BY <1>1, <2>2 DEF GoodItem
  <2>4. CASE t.customer = None
    <3>1. u = t
        BY <2>1, <2>4 DEF MovedReceipt
    <3> QED
        BY <2>2, <2>3, <2>4, <3>1 DEF GoodReceipt
  <2>5. CASE t.customer # None
    <3> DEFINE orders == {[o EXCEPT !.customer = MovedCustomer(o.customer)] : o \in t.orders}
    <3>1. u = [t EXCEPT !.customer = d, !.orders = orders]
        BY <2>1, <2>2, <2>5 DEF MovedReceipt, IsReceipt
    <3>2. d \in DOMAIN customers' /\ d # None
        BY <1>3, <1>6, <2>2, <2>5
    <3>3. orders = {} <=> t.orders = {}
        OBVIOUS
    <3>4. ASSUME NEW o \in orders
          PROVE  \E q \in t.orders :
                    IsOrder(o) /\ o.customer = d /\ o.products = q.products /\ o.cancelled = q.cancelled
      <4>1. PICK q \in t.orders : o = [q EXCEPT !.customer = MovedCustomer(q.customer)]
          OBVIOUS
      <4>2. IsOrder(q) /\ q.customer = t.customer
          BY <2>2 DEF Mirrored
      <4> HIDE DEF orders
      <4>3. o = [q EXCEPT !.customer = d]
          BY <4>1, <4>2
      <4> HIDE DEF d
      <4> QED
          BY <4>2, <4>3 DEF IsOrder
    <3> HIDE DEF t, u, d, orders
    <3>5. /\ IsReceipt(u) /\ u.total = t.total /\ u.customer = d /\ u.items = t.items /\ u.segment = t.segment
          /\ u.voided = t.voided /\ u.orders = orders
        BY <2>2, <3>1 DEF IsReceipt
    <3>6. \A i : LineFor(r, u, i) = LineFor(r, t, i)
        BY <3>5 DEF LineFor
    <3>7. Mirrored(r, u)
      <4>1. {LineFor(r, u, i) : i \in DOMAIN u.items} = {LineFor(r, t, i) : i \in DOMAIN t.items}
          BY <3>5, <3>6
      <4>2. r \in References => (u.orders = {} <=> u.customer = None)
          BY <2>2, <2>5, <3>2, <3>3, <3>5 DEF Mirrored
      <4>3. ASSUME NEW o \in u.orders
            PROVE  /\ IsOrder(o) /\ o.customer = u.customer /\ o.cancelled = u.voided
                   /\ DOMAIN o.products = {LineFor(r, u, i) : i \in DOMAIN u.items}
                   /\ \A i \in DOMAIN u.items : o.products[LineFor(r, u, i)] = u.items[i].product
        <5>1. PICK q \in t.orders :
                  IsOrder(o) /\ o.customer = d /\ o.products = q.products /\ o.cancelled = q.cancelled
            BY <3>4, <3>5, <4>3
        <5> QED
            BY <2>2, <3>5, <3>6, <4>1, <5>1 DEF Mirrored
      <4> QED
          BY <4>2, <4>3 DEF Mirrored
    <3>8. GoodReceipt(r, u)
        BY <2>3, <3>2, <3>5, <3>7 DEF GoodReceipt
    <3> QED
        BY <2>5, <3>5, <3>8 DEF t, u, d
  <2> QED
      BY <2>4, <2>5
<1>8. DOMAIN receipts' = DOMAIN receipts /\ Imported' = Imported /\ Imported \subseteq DOMAIN receipts
    BY <1>1 DEF Imported
<1>9. ShapesOK' /\ LinksResolve' /\ OrderMirrorsSale'
    BY <1>7, <1>8, GoodReceipts
<1>10. ReceiptsOK'
  <2>1. ASSUME NEW r \in Imported
        PROVE  r[2] \in 1..Len(sheets'[r[1]]) /\ CustomerIsOf(receipts[r].customer, SheetLabel(r))'
    <3>1. r[2] \in 1..Len(sheets[r[1]]) /\ CustomerIsOf(receipts[r].customer, SheetLabel(r))
        BY <1>2 DEF ReceiptsOK
    <3>2. sheets' = sheets /\ SheetLabel(r)' = SheetLabel(r)
        BY <1>1, PlanStands
    <3>3. receipts'[r].customer = IF receipts[r].customer = None THEN None ELSE MovedCustomer(receipts[r].customer)
        BY <1>7, <1>8
    <3>4. receipts[r].customer # None =>
             /\ MovedCustomer(receipts[r].customer) \in DOMAIN customers'
             /\ CustomerKeyOf[customers'[MovedCustomer(receipts[r].customer)].name] = NameKey(receipts[r].customer)
        BY <1>2, <1>3, <1>8 DEF LinksResolve
    <3> QED
        BY <1>1, <1>6, <3>1, <3>2, <3>3, <3>4 DEF CustomerIsOf, NameKey
  <2> QED
      BY <1>2, <1>8, <2>1 DEF ReceiptsOK
<1>11. PlanOK'
  <2>1. \A r \in Imported :
            /\ receipts'[r].total = receipts[r].total /\ receipts'[r].segment = receipts[r].segment
            /\ DOMAIN receipts'[r].items = DOMAIN receipts[r].items
            /\ \A i \in DOMAIN receipts[r].items : receipts'[r].items[i].line = receipts[r].items[i].line
      BY <1>7, <1>8
  <2>2. UNCHANGED <<bookVars, refreshed, renamed>>
      BY <1>1
  <2> QED
      BY <1>2, <1>8, <2>1, <2>2, PlanKept
<1>12. PhaseOK' /\ ProductsOK' /\ BatchesOK'
    BY <1>1, <1>2 DEF PhaseOK, ProductsOK, BatchesOK
<1>13. LiveKept
  <2> SUFFICES ASSUME NEW r \in LiveIds \intersect DOMAIN receipts
               PROVE  LET t == receipts[r]  u == receipts'[r]
                      IN  /\ r \in DOMAIN receipts'
                          /\ u.total = t.total /\ (t.voided => u.voided) /\ u.items = t.items
                          /\ \/ u.customer = t.customer
                             \/ CustomerKeyOf[customers'[u.customer].name] = CustomerKeyOf[customers[t.customer].name]
      BY DEF LiveKept
  <2>1. receipts[r].customer # None =>
            CustomerKeyOf[customers'[receipts'[r].customer].name] = CustomerKeyOf[customers[receipts[r].customer].name]
      BY <1>2, <1>3, <1>7 DEF NameKey, LinksResolve
  <2> QED
      BY <1>7, <1>8, <2>1
<1>14. ContactsKept
  <2> SUFFICES ASSUME NEW r \in DOMAIN receipts, receipts'[r].customer # receipts[r].customer,
                      receipts[r].customer # None
               PROVE  customers[receipts[r].customer].contact \in {None, customers'[receipts'[r].customer].contact}
      BY DEF ContactsKept
  <2>1. receipts[r].customer \in DOMAIN customers /\ receipts'[r].customer = MovedCustomer(receipts[r].customer)
      BY <1>2, <1>7 DEF LinksResolve
  <2> QED
      BY <1>3, <2>1
<1> QED
    BY <1>5, <1>9, <1>10, <1>11, <1>12, <1>13, <1>14 DEF StepKeeps, TablesOK

-----------------------------------------------------------------------------
(***************************************************************************)
(* All steps together, and what follows.                                   *)
(***************************************************************************)
LEMMA TablesInit ==
    ASSUME Init
    PROVE  TablesOK
<1>1. /\ DOMAIN products = {} /\ DOMAIN batches = {} /\ DOMAIN customers = {} /\ DOMAIN receipts = {}
      /\ refreshed = FALSE
    BY DEF Init
<1>2. \A S, T : <<>> \in [{} -> S]
    OBVIOUS
<1>3. products \in [DOMAIN products -> [name : ProductIds, active : BOOLEAN]]
    BY <1>1, <1>2 DEF Init
<1>4. customers \in [DOMAIN customers -> [name : CustomerIds, contact : Contact \union {None}, active : BOOLEAN]]
    BY <1>1, <1>2 DEF Init
<1>5. PhaseOK /\ ProductsOK /\ BatchesOK /\ CustomersOK
    BY <1>1, <1>3, <1>4 DEF PhaseOK, ProductsOK, BatchesOK, CustomersOK
<1>6. ShapesOK /\ ReceiptsOK /\ LinksResolve /\ OrderMirrorsSale /\ PlanOK
    BY <1>1 DEF ShapesOK, ReceiptsOK, LinksResolve, OrderMirrorsSale, PlanOK, Imported
<1> QED
    BY <1>5, <1>6 DEF TablesOK

\* While the workbooks are written the tables are empty.
LEMMA WriteRowStep ==
    ASSUME TablesOK, NEW s \in Sheets, NEW row \in Rows, WriteRow(s, row)
    PROVE  StepKeeps
<1>1. reading /\ UNCHANGED <<reading, products, batches, customers, receipts, uses, commands, refreshed, renamed>>
    BY DEF WriteRow, tables
<1>2. /\ PhaseOK /\ ProductsOK /\ BatchesOK /\ CustomersOK /\ ShapesOK /\ LinksResolve /\ OrderMirrorsSale
      /\ DOMAIN receipts = {} /\ ~refreshed
    BY <1>1 DEF TablesOK, PhaseOK
<1>3. PhaseOK' /\ ProductsOK' /\ BatchesOK' /\ CustomersOK' /\ ShapesOK' /\ LinksResolve' /\ OrderMirrorsSale'
    BY <1>1, <1>2 DEF PhaseOK, ProductsOK, BatchesOK, CustomersOK, NameKey, ShapesOK, LinksResolve, OrderMirrorsSale, OrderLine
<1>4. ReceiptsOK' /\ PlanOK'
    BY <1>1, <1>2 DEF ReceiptsOK, PlanOK, Imported
<1>5. LiveKept /\ ContactsKept
    BY <1>2 DEF LiveKept, ContactsKept
<1> QED
    BY <1>3, <1>4, <1>5 DEF StepKeeps, TablesOK

LEMMA StutterStep ==
    ASSUME TablesOK, UNCHANGED vars
    PROVE  StepKeeps
<1>1. UNCHANGED <<bookVars, reading, products, batches, customers, receipts, refreshed, renamed>>
    BY DEF vars, tables
<1>2. /\ PhaseOK /\ ProductsOK /\ BatchesOK /\ CustomersOK /\ ShapesOK /\ ReceiptsOK
      /\ LinksResolve /\ OrderMirrorsSale /\ PlanOK
    BY DEF TablesOK
<1>3. PhaseOK' /\ ProductsOK' /\ BatchesOK' /\ CustomersOK' /\ ShapesOK' /\ LinksResolve' /\ OrderMirrorsSale'
    BY <1>1, <1>2 DEF PhaseOK, ProductsOK, BatchesOK, CustomersOK, NameKey, ShapesOK, LinksResolve, OrderMirrorsSale, OrderLine
<1>4. Imported' = Imported
    BY <1>1 DEF Imported
<1>5. ReceiptsOK'
    BY <1>1, <1>2, <1>4, PlanStands DEF ReceiptsOK, CustomerIsOf, NameKey
<1>6. PlanOK'
    BY <1>1, <1>2, <1>4, PlanKept
<1>7. LiveKept /\ ContactsKept
    BY <1>1 DEF LiveKept, ContactsKept, Key
<1> QED
    BY <1>3, <1>5, <1>6, <1>7 DEF StepKeeps, TablesOK

LEMMA StepKept ==
    ASSUME BooksOK, SizesOK, TablesOK, [Next]_vars
    PROVE  StepKeeps
<1>1. CASE UNCHANGED vars
    BY <1>1, StutterStep
<1>2. CASE \E s \in Sheets, row \in Rows : WriteRow(s, row)
    BY <1>2, WriteRowStep
<1>3. CASE \E older \in BOOLEAN : Load(older)
    BY <1>3, LoadStep
<1>4. CASE \E p \in ProductIds : CreateProduct(p) \/ DeleteProduct(p)
    BY <1>4, CreateProductStep, DeleteProductStep
<1>5. CASE \E p, name \in ProductIds : RenameProduct(p, name)
  <2>1. TRUE \in BOOLEAN
      OBVIOUS
  <2> QED
      BY <1>5, <2>1, EditProductStep
<1>6. CASE \E p \in ProductIds, active \in BOOLEAN : SetProductActive(p, active)
    BY <1>6, EditProductStep
<1>7. CASE \E c \in NewCustomers, k \in DOMAIN Canonical, contact \in Contact \union {None} :
              CreateCustomer(c, Canonical[k], contact)
    BY <1>7, CreateCustomerStep
<1>8. CASE \E c \in CustomerIds, contact \in Contact : SetContact(c, contact)
    BY <1>8, SetContactStep
<1>9. CASE \E c \in CustomerIds, k \in DOMAIN Canonical : RenameCustomer(c, Canonical[k])
    BY <1>9, RenameCustomerStep
<1>10. CASE \E c \in CustomerIds : DeleteCustomer(c) \/ ReactivateCustomer(c)
    BY <1>10, DeleteCustomerStep, ReactivateCustomerStep
<1>11. CASE \E r \in LiveIds \union DemoIds, cart \in Carts, c \in CustomerIds \union {None}, ordered, historical \in BOOLEAN :
              LiveSale(r, cart, c, ordered, historical)
    BY <1>11, LiveSaleStep
<1>12. CASE \E r \in LiveIds : VoidReceipt(r)
    BY <1>12, VoidReceiptStep
<1>13. CASE ApplyRefresh \/ ConsolidateProducts \/ ConsolidateCustomers \/ RemoveDummyData
    BY <1>13, ApplyRefreshStep, ConsolidateProductsStep, ConsolidateCustomersStep, RemoveDummyDataStep
<1> QED
    BY <1>1, <1>2, <1>3, <1>4, <1>5, <1>6, <1>7, <1>8, <1>9, <1>10, <1>11, <1>12, <1>13 DEF Next

HistoryInv == BooksOK /\ SizesOK /\ TablesOK

LEMMA HistoryInvariant == Spec => []HistoryInv
<1>1. Init => HistoryInv
  <2> SUFFICES ASSUME Init PROVE HistoryInv
      OBVIOUS
  <2>1. BooksOK
      BY BooksInit DEF Init
  <2>2. SizesOK
      BY WorkbookAssumption DEF Init, WorkbooksInit, SizesOK
  <2> QED
      BY <2>1, <2>2, TablesInit DEF HistoryInv
<1>2. HistoryInv /\ [Next]_vars => HistoryInv'
    BY BooksStep, SizesStep, StepKept DEF HistoryInv, StepKeeps
<1> QED
    BY <1>1, <1>2, PTL DEF Spec

\* The rows of a backup: receipts of the start only, batches of the first pass,
\* and rows that refer to nothing.
LEMMA BackupIsClosed == BackupIsSelfContained
<1> DEFINE start == {<<"receipt", r>> : r \in Imported}
                    \union UNION {{<<"product", receipts[r].items[i].product>> : i \in DOMAIN receipts[r].items} : r \in Imported}
           first  == Pass(start)
           second == Pass(first)
           third  == Pass(second)
<1>1. SelectRows = third
    BY DEF SelectRows, Closure
<1>2. \A row : \A x \in RowReferences(row) :
          /\ x[1] # "receipt" /\ row[1] \in {"receipt", "batch"}
          /\ x[1] = "batch" => row[1] = "receipt"
    BY DEF RowReferences
<1>3. \A R : R \subseteq Pass(R) /\ \A x : x \in Pass(R) => x \in R \/ (x[2] # None /\ \E row \in R : x \in RowReferences(row))
  <2> TAKE R
  <2>1. Pass(R) = R \union {x \in UNION {RowReferences(row) : row \in R} : x[2] # None}
      BY DEF Pass
  <2> QED
      BY <2>1
<1>4. ASSUME NEW R, NEW row \in R, NEW x \in RowReferences(row), x[2] # None
      PROVE  x \in Pass(R)
  <2>1. RowReferences(row) \in {RowReferences(y) : y \in R}
      OBVIOUS
  <2>2. x \in UNION {RowReferences(y) : y \in R}
      BY <2>1
  <2> QED
      BY <1>4, <2>2 DEF Pass
<1> HIDE DEF start, first, second, third
<1>5. start \subseteq first /\ first \subseteq second /\ second \subseteq third
    BY <1>3 DEF first, second, third
<1>6. \A row \in third : row[1] = "receipt" => row \in start
    BY <1>2, <1>3 DEF first, second, third
<1>7. \A row \in third : row[1] = "batch" => row \in first
  <2>1. ASSUME NEW R, R \subseteq third, NEW row \in Pass(R), row[1] = "batch", row \notin R
        PROVE  row \in first
    <3>1. PICK origin \in R : row \in RowReferences(origin) /\ row[2] # None
        BY <1>3, <2>1
    <3>2. origin \in start
        BY <1>2, <1>6, <2>1, <3>1
    <3> QED
        BY <1>4, <3>1, <3>2 DEF first
  <2>2. first \subseteq third /\ second \subseteq third
      BY <1>5
  <2> QED
      BY <2>1, <2>2 DEF second, third
<1>8. ASSUME NEW row \in third, NEW x \in RowReferences(row), x[2] # None
      PROVE  x \in third
  <2>1. row \in start \/ row \in first
      BY <1>2, <1>6, <1>7
  <2>2. x \in first \/ x \in second
      BY <1>4, <1>8, <2>1 DEF first, second
  <2> QED
      BY <1>5, <2>2
<1> QED
    BY <1>1, <1>8 DEF BackupIsSelfContained

\* For all workbooks, tables and bounds: whatever is imported, refreshed,
\* consolidated, sold, voided and removed, in any order, every receipt refers to
\* rows that exist and agree with its order, and a backup holds all that its rows
\* refer to (apply_plan, consolidate_products, consolidate_customers, select_rows).
THEOREM RowsAlwaysAgree == Spec => []RowsAgree
<1>1. HistoryInv => RowsAgree
    BY BackupIsClosed DEF HistoryInv, TablesOK, RowsAgree
<1> QED
    BY <1>1, HistoryInvariant, PTL

\* For all workbooks, tables and bounds: after a refresh the imported receipts are
\* those of the plan, with its amounts, segments and lines, and a customer exactly
\* where the source has one, of the label's key until an account is renamed to
\* another (apply_plan; no other command undoes it).
THEOREM HistoryStaysThePlan == Spec => []HistoryIsThePlan
<1>1. HistoryInv => HistoryIsThePlan
  <2> SUFFICES ASSUME HistoryInv, refreshed PROVE HistoryIsThePlan
      BY DEF HistoryIsThePlan
  <2>1. BooksOK /\ SizesOK /\ ReceiptsOK /\ PlanOK
      BY DEF HistoryInv, TablesOK
  <2>2. ASSUME NEW t \in Planned
        PROVE  LET c == receipts[Reference(t)].customer
               IN  /\ c = None <=> CustomerKey(t.customer) = None
                   /\ c # None /\ ~renamed => CustomerKeyOf[customers[c].name] = CustomerKey(t.customer)
    <3>1. t \in Tickets(TRUE) /\ Reference(t) \in Imported
        BY <2>1 DEF Planned, Sold, PlanOK
    <3>2. t.customer = SheetLabel(Reference(t))
        BY <2>1, <3>1, TicketsApart
    <3>3. CustomerIsOf(receipts[Reference(t)].customer, SheetLabel(Reference(t)))
        BY <2>1, <3>1 DEF ReceiptsOK
    <3>4. None \notin DOMAIN customers
        BY NotNone DEF HistoryInv, TablesOK, CustomersOK
    <3> QED
        BY <3>2, <3>3, <3>4 DEF CustomerIsOf, NameKey
  <2> QED
      BY <2>1, <2>2 DEF PlanOK, HistoryIsThePlan
<1> QED
    BY <1>1, HistoryInvariant, PTL

\* For all workbooks, tables and bounds: no step of any command changes the amount,
\* the lines or the void of a live sale, deletes one or gives it to another customer
\* or product of another key, and no receipt that is given to another account of the
\* same key loses the contact on record (apply_plan, consolidate_customers).
THEOREM MaintenanceAlwaysKeeps == Spec => MaintenanceKeeps
<1>1. HistoryInv /\ [Next]_vars => LiveKept /\ ContactsKept
    BY StepKept DEF HistoryInv, StepKeeps
<1>2. Spec => [][LiveKept]_vars
    BY <1>1, HistoryInvariant, PTL DEF Spec
<1>3. Spec => [][ContactsKept]_vars
    BY <1>1, HistoryInvariant, PTL DEF Spec
<1>4. [][LiveKept]_vars => LiveSalesUntouched
    BY DEF LiveKept, LiveSalesUntouched
<1>5. [][ContactsKept]_vars => ContactsSurvive
    BY DEF ContactsKept, ContactsSurvive
<1> QED
    BY <1>2, <1>3, <1>4, <1>5 DEF MaintenanceKeeps
=============================================================================
