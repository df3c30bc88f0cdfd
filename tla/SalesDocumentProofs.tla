------------------------ MODULE SalesDocumentProofs -------------------------
(***************************************************************************)
(* What a recorded sale is known by afterwards, for every value of the     *)
(* constants: the reports that are drawn from it, and the numbers that were *)
(* given to it and to the deliveries.                                      *)
(***************************************************************************)
EXTENDS SalesReports, DocumentNumbers, FiniteSums, SequenceTheorems

-----------------------------------------------------------------------------
(***************************************************************************)
(* For every catalogue, calendar, history of sales and number of requests: *)
(* all reports of a range tell the same, what was recorded stands, and     *)
(* every request gets its own answer.                                      *)
(***************************************************************************)

(***************************************************************************)
(* What is recorded.  The reports agree because every sale has finitely    *)
(* many typed lines and none lies in the future (RecordsTyped); a repeated *)
(* payment is recognized because what it was compared with does not change *)
(* any more (PaymentsStand).                                               *)
(***************************************************************************)
Answers == {"saved", "locked", "refused", "not found", Absent}

RecordsTyped ==
    /\ today \in Nat
    /\ sales \in Seq(Sale)
    /\ \A i \in DOMAIN sales : sales[i].day <= today /\ IsFiniteSet(sales[i].lines)
    /\ products \in [Products -> Product]
    /\ payments \in [Senders -> [state : {"none", "found", "answered"}, user : Users, sale : Nat,
                                 body : Payloads \union {Absent}, answer : Answers, earlier : Answers]]

\* The saved payment is the one this body asks for.
IsSaved(i, body) == sales[i].status = "paid" /\ SameAsSaved(sales[i], body)

\* A request that was found, or saved once, is about a sale its user may pay; an
\* answer "saved" to a payment, present or earlier, says what is still in the row.
PaymentStands(p) ==
    p.state # "none" =>
        /\ p.body \in Payloads
        /\ p.sale \in DOMAIN sales
        /\ p.state = "found" \/ p.answer = "saved" \/ p.earlier = "saved" =>
             /\ sales[p.sale].encoded
             /\ p.user \in Staff => sales[p.sale].handler = p.user
        /\ p.body.status = "paid" /\ (p.answer = "saved" \/ p.earlier = "saved") => IsSaved(p.sale, p.body)

PaymentsStand == \A q \in Senders : PaymentStands(payments[q])

\* The lines of a sale of this version are its total, and so is its gross.
FullyBilled(sale) ==
    /\ sale.gross = sale.total
    /\ sale.total = Summed([line \in sale.lines |-> LineRevenue(line)])

RecordedInFull == \A i \in DOMAIN sales : i > Len(History) => FullyBilled(sales[i])

RecordsInv == RecordsTyped /\ PaymentsStand /\ RecordedInFull

\* What happens to a sale that is recorded.
Keeps(old, new) ==
    /\ new.day = old.day /\ new.lines = old.lines /\ new.gross = old.gross /\ new.total = old.total
    /\ new.handler = old.handler /\ new.encoded = old.encoded
    /\ old.voided => new.voided
    /\ old.status = "paid" \/ old.voided =>
         /\ new.status = old.status /\ new.method = old.method
         /\ new.tendered = old.tendered /\ new.change = old.change

SalesKept ==
    /\ sales' \in Seq(Sale)
    /\ DOMAIN sales \subseteq DOMAIN sales'
    /\ \A i \in DOMAIN sales : Keeps(sales[i], sales'[i])
    /\ \A i \in DOMAIN sales' \ DOMAIN sales : /\ sales'[i].day <= today /\ IsFiniteSet(sales'[i].lines)
                                              /\ FullyBilled(sales'[i])

\* The sum of a function is that of the lemmas.
LEMMA SummedIsSigma == \A f : Summed(f) = Sigma(f, DOMAIN f)
BY DEF Summed, Sigma

\* A finite set of lines has an integer total.
LEMMA LinesTotal ==
    ASSUME NEW lines, IsFiniteSet(lines), \A line \in lines : line.quantity \in Nat /\ line.price \in Nat
    PROVE  Summed([line \in lines |-> Subtotal(line)]) \in Int
<1> DEFINE f == [line \in lines |-> Subtotal(line)]
<1>1. \A line \in lines : f[line] \in Int
    BY DEF Subtotal
<1>2. DOMAIN f = lines
    OBVIOUS
<1> HIDE DEF f
<1>3. Sigma(f, lines) \in Int
    BY <1>1, SumInt
<1>4. Summed(f) \in Int
    BY <1>2, <1>3, SummedIsSigma
<1> QED
    BY <1>4 DEF f

LEMMA SaleFacts ==
    ASSUME RecordsTyped, NEW i \in DOMAIN sales
    PROVE  /\ DOMAIN sales = 1..Len(sales) /\ Len(sales) \in Nat
           /\ sales[i] \in Sale
           /\ sales[i].day \in Nat /\ sales[i].day <= today
           /\ IsFiniteSet(sales[i].lines)
           /\ \A line \in sales[i].lines : line.quantity \in Nat /\ line.price \in Nat
           /\ sales[i].total \in Int /\ sales[i].gross \in Int
           /\ \A line \in sales[i].lines : LineRevenue(line) \in Int
<1>1. DOMAIN sales = 1..Len(sales) /\ Len(sales) \in Nat
    BY LenProperties DEF RecordsTyped
<1>2. sales[i] \in Sale
    BY <1>1, ElementOfSeq DEF RecordsTyped
<1>3. IsFiniteSet(sales[i].lines) /\ sales[i].day <= today
    BY DEF RecordsTyped
<1>4. \A line \in sales[i].lines : line.quantity \in Nat /\ line.price \in Nat
    BY <1>2 DEF Sale, SaleLine
<1>5. sales[i].total \in Int /\ sales[i].gross \in Int /\ \A line \in sales[i].lines : LineRevenue(line) \in Int
  <2>1. sales[i].total \in Int /\ sales[i].gross \in Int /\ \A line \in sales[i].lines : line.amount \in Nat \union {Absent}
      BY <1>2 DEF Sale, SaleLine
  <2> QED
      BY <1>4, <2>1 DEF LineRevenue, Subtotal
<1>6. sales[i].day \in Nat
    BY <1>2 DEF Sale
<1> QED
    BY <1>1, <1>2, <1>3, <1>4, <1>5, <1>6

\* One more sale.
LEMMA SaleAdded ==
    ASSUME RecordsTyped, NEW s \in Sale, s.day <= today, IsFiniteSet(s.lines), FullyBilled(s),
           sales' = Append(sales, s)
    PROVE  SalesKept
<1>1. sales \in Seq(Sale)
    BY DEF RecordsTyped
<1>2. /\ Append(sales, s) \in Seq(Sale)
      /\ Len(Append(sales, s)) = Len(sales) + 1
      /\ \A i \in 1..Len(sales) : Append(sales, s)[i] = sales[i]
      /\ Append(sales, s)[Len(sales) + 1] = s
    BY <1>1, AppendProperties
<1>3. DOMAIN sales = 1..Len(sales) /\ DOMAIN sales' = 1..(Len(sales) + 1) /\ Len(sales) \in Nat
    BY <1>1, <1>2, LenProperties
<1>4. \A i \in DOMAIN sales : Keeps(sales[i], sales'[i])
    BY <1>2, <1>3 DEF Keeps
<1>5. \A i \in DOMAIN sales' \ DOMAIN sales : sales'[i] = s
    BY <1>2, <1>3
<1> QED
    BY <1>2, <1>3, <1>4, <1>5 DEF SalesKept

\* A sale that changes.
LEMMA SaleChanged ==
    ASSUME RecordsTyped, NEW i \in DOMAIN sales, NEW e \in Sale, Keeps(sales[i], e),
           sales' = [sales EXCEPT ![i] = e]
    PROVE  SalesKept
<1>1. sales \in Seq(Sale) /\ DOMAIN sales = 1..Len(sales)
    BY LenProperties DEF RecordsTyped
<1>2. /\ sales' \in Seq(Sale)
      /\ Len(sales') = Len(sales)
      /\ \A j \in 1..Len(sales) : sales'[j] = IF j = i THEN e ELSE sales[j]
    BY <1>1, ExceptSeq
<1>3. DOMAIN sales' = DOMAIN sales
    BY <1>1, <1>2, LenProperties
<1>4. \A j \in DOMAIN sales : Keeps(sales[j], sales'[j])
    BY <1>1, <1>2 DEF Keeps
<1> QED
    BY <1>2, <1>3, <1>4 DEF SalesKept

LEMMA RecordSaleKeeps ==
    ASSUME RecordsInv, NEW u \in Users, NEW cart \in Carts, NEW customer \in Customers \union {Absent},
           NEW day \in 1..today, NEW encoded \in BOOLEAN, NEW body \in Payloads,
           RecordSale(u, cart, customer, day, encoded, body)
    PROVE  SalesKept
<1> DEFINE total == Summed([line \in cart |-> Subtotal(line)])
<1> DEFINE row == [line \in cart |->
        [product |-> line.product, quantity |-> line.quantity, price |-> line.price, amount |-> Subtotal(line),
         name |-> products[line.product].name, variant |-> products[line.product].variant,
         category |-> products[line.product].category]]
<1> DEFINE s == [day |-> day, lines |-> Snapshot(cart), gross |-> total, total |-> total, customer |-> customer, handler |-> u,
                 encoded |-> encoded, imported |-> FALSE, voided |-> FALSE,
                 status |-> body.status, method |-> body.method,
                 tendered |-> SavedTendered(body.status, body.tendered),
                 change |-> ChangeDue(total, body.method, body.status, body.tendered)]
<1>1. RecordsTyped /\ today \in Nat
    BY DEF RecordsInv, RecordsTyped
<1>2. cart \subseteq CartLine /\ IsFiniteSet(cart) /\ body \in Payload
    BY RecordsAssumption
<1>3. Snapshot(cart) = {row[line] : line \in cart}
    BY DEF Snapshot
<1>4. IsFiniteSet(Snapshot(cart)) /\ Snapshot(cart) \in SUBSET SaleLine
  <2>1. \A line \in cart : row[line] \in SaleLine
    <3>1. \A line \in cart : Subtotal(line) \in Nat
        BY <1>2 DEF CartLine, Subtotal
    <3> QED
        BY <1>1, <1>2, <3>1 DEF SaleLine, CartLine, Product, RecordsTyped
  <2> HIDE DEF row
  <2>2. IsFiniteSet({row[line] : line \in cart})
      BY <1>2, LabelsFinite
  <2> QED
      BY <1>3, <2>1, <2>2
<1>5. total \in Int
    BY <1>2, LinesTotal DEF CartLine
<1>6. /\ body.method # Absent
      /\ AcceptablePayment(total, body.method, body.status, body.tendered)
      /\ sales' = Append(sales, s)
    BY DEF RecordSale
<1> HIDE DEF total
<1>7. ChangeDue(total, body.method, body.status, body.tendered) \in Int \union {Absent}
    BY <1>2, <1>5, <1>6 DEF ChangeDue, AcceptablePayment, Payload
<1>8. SavedTendered(body.status, body.tendered) \in Nat \union {Absent}
    BY <1>2 DEF SavedTendered, Payload
<1>9. body.status \in PAYMENT_STATES /\ body.method \in Methods /\ day \in Nat /\ day <= today
    BY <1>1, <1>2, <1>6 DEF Payload, PAYMENT_STATES, Methods
<1>10. s \in Sale
    BY <1>4, <1>5, <1>7, <1>8, <1>9 DEF Sale
<1>11. s.day <= today /\ IsFiniteSet(s.lines)
    BY <1>4, <1>9
\* The lines that are saved have the subtotals of the cart.
<1>12. total = Summed([line \in Snapshot(cart) |-> LineRevenue(line)])
  <2> DEFINE sub == [line \in cart |-> Subtotal(line)]
  <2> DEFINE rev == [line \in Snapshot(cart) |-> LineRevenue(line)]
  <2>1. \A line \in cart : row[line] \in Snapshot(cart) /\ sub[line] \in Int /\ rev[row[line]] = sub[line]
      BY <1>2, <1>3 DEF LineRevenue, Subtotal, CartLine
  <2>2. \A x, y \in cart : row[x] = row[y] => x = y
      BY <1>2 DEF CartLine
  <2>3. DOMAIN sub = cart /\ DOMAIN rev = Snapshot(cart) /\ total = Summed(sub)
      BY DEF total
  <2> HIDE DEF row, sub, rev
  <2>4. Sigma(rev, {row[line] : line \in cart}) = Sigma(sub, cart)
      BY <1>2, <2>1, <2>2, SumRenamed
  <2> QED
      BY <1>3, <2>3, <2>4, SummedIsSigma DEF rev
<1>13. FullyBilled(s)
    BY <1>12 DEF FullyBilled
<1> HIDE DEF s
<1> QED
    BY <1>1, <1>6, <1>10, <1>11, <1>13, SaleAdded

LEMMA VoidSaleKeeps ==
    ASSUME RecordsInv, NEW i \in DOMAIN sales, VoidSale(i)
    PROVE  SalesKept
<1> DEFINE e == [sales[i] EXCEPT !.voided = TRUE]
<1>1. RecordsTyped
    BY DEF RecordsInv
<1>2. sales[i] \in Sale
    BY <1>1, SaleFacts
<1>3. e \in Sale /\ Keeps(sales[i], e)
    BY <1>2 DEF Sale, Keeps
<1>4. sales' = [sales EXCEPT ![i] = e]
    BY DEF VoidSale
<1> HIDE DEF e
<1> QED
    BY <1>1, <1>3, <1>4, SaleChanged

\* The answer of the service to a request that was found.
LEMMA PaymentFacts ==
    ASSUME RecordsInv, NEW q \in Senders, payments[q].state = "found"
    PROVE  LET i == payments[q].sale  body == payments[q].body
               answer == PaymentAnswer(sales[i], payments[q].user, body)
           IN  /\ i \in DOMAIN sales /\ body \in Payload /\ sales[i] \in Sale
               /\ answer \in {"refused", "saved", "locked", "updated"}
               /\ answer = "saved" => sales[i].status = "paid" /\ SameAsSaved(sales[i], body)
               /\ answer = "updated" =>
                    /\ ~sales[i].voided /\ sales[i].status # "paid"
                    /\ AcceptablePayment(sales[i].total, OrSaved(body.method, sales[i].method),
                                         body.status, body.tendered)
               /\ IsSaved(i, body) => answer = "saved" \/ sales[i].voided
<1>1. PaymentStands(payments[q])
    BY DEF RecordsInv, PaymentsStand
<1>2. payments[q].sale \in DOMAIN sales /\ payments[q].body \in Payload
    BY <1>1, RecordsAssumption DEF PaymentStands
<1>3. sales[payments[q].sale] \in Sale
    BY <1>2, SaleFacts DEF RecordsInv
<1> QED
    BY <1>1, <1>2, <1>3 DEF PaymentAnswer, Unavailable, PaymentStands, IsSaved, Sale

LEMMA UpdateKeeps ==
    ASSUME RecordsInv, NEW q \in Senders, UpdateEncodingPayment(q)
    PROVE  /\ SalesKept \/ sales' = sales
           /\ LET i == payments[q].sale  body == payments[q].body
                  answer == PaymentAnswer(sales[i], payments[q].user, body)
              IN  answer = "updated" /\ body.status = "paid" =>
                    sales'[i].status = "paid" /\ SameAsSaved(sales'[i], body)
<1> DEFINE i == payments[q].sale
<1> DEFINE body == payments[q].body
<1> DEFINE answer == PaymentAnswer(sales[i], payments[q].user, body)
<1> DEFINE method == OrSaved(body.method, sales[i].method)
<1> DEFINE e == [sales[i] EXCEPT !.status = body.status, !.method = method,
                            !.tendered = SavedTendered(body.status, body.tendered),
                            !.change = ChangeDue(sales[i].total, method, body.status, body.tendered)]
<1>1. CASE answer # "updated"
    BY <1>1 DEF UpdateEncodingPayment
<1>2. CASE answer = "updated"
  <2>1. RecordsTyped /\ payments[q].state = "found"
      BY DEF RecordsInv, UpdateEncodingPayment
  <2>2. /\ i \in DOMAIN sales /\ body \in Payload /\ sales[i] \in Sale
        /\ ~sales[i].voided /\ sales[i].status # "paid"
        /\ AcceptablePayment(sales[i].total, method, body.status, body.tendered)
      BY <1>2, <2>1, PaymentFacts
  <2>3. sales[i].total \in Int
      BY <2>1, <2>2, SaleFacts
  <2>4. sales' = [sales EXCEPT ![i] = e]
      BY <1>2 DEF UpdateEncodingPayment
  <2> HIDE DEF answer
  <2>5. /\ body.status \in PAYMENT_STATES /\ method \in Methods
        /\ SavedTendered(body.status, body.tendered) \in Nat \union {Absent}
        /\ ChangeDue(sales[i].total, method, body.status, body.tendered) \in Int \union {Absent}
    <3> HIDE DEF i, body
    <3>1. body.status \in {"paid", "pending"} /\ body.method \in {"cash", "online", Absent}
          /\ body.tendered \in Nat \union {Absent} /\ sales[i].method \in Methods
        BY <2>2 DEF Payload, Sale
    <3> HIDE DEF method
    <3>2. ChangeDue(sales[i].total, method, body.status, body.tendered) \in Int \union {Absent}
        BY <2>2, <2>3, <3>1 DEF ChangeDue, AcceptablePayment
    <3> QED
        BY <3>1, <3>2 DEF PAYMENT_STATES, Methods, OrSaved, SavedTendered, method
  <2>6. e \in Sale
    <3> HIDE DEF i, body, method
    <3> QED
        BY <2>2, <2>5 DEF Sale
  <2>7. Keeps(sales[i], e)
    <3> HIDE DEF i, body, method
    <3> QED
        BY <2>2 DEF Sale, Keeps
  <2>8. body.status = "paid" => e.status = "paid" /\ SameAsSaved(e, body)
    <3> HIDE DEF i, body
    <3> QED
        BY <2>2 DEF Sale, SameAsSaved, OrSaved, SavedTendered
  <2>9. sales'[i] = e
      BY <2>1, <2>2, <2>4 DEF RecordsTyped
  <2> HIDE DEF e
  <2>10. SalesKept
      BY <2>1, <2>2, <2>4, <2>6, <2>7, SaleChanged
  <2> QED
      BY <2>8, <2>9, <2>10
<1> QED
    BY <1>1, <1>2

\* The conclusion of RetryFindsPayment for one request, from old to new.
RetryFound(old, new) ==
    /\ new # old /\ new.state = "answered" /\ new.answer # "saved"
    /\ new.earlier = "saved" /\ new.body.status = "paid"
    => \/ sales[new.sale].voided
       \/ /\ new.answer = "not found" /\ new.user \in Staff
          /\ \E line \in sales[new.sale].lines : ~Offered(line.product)

\* Nothing that happens to sales takes away what a request relies on.
LEMMA PaymentStandsOn ==
    ASSUME RecordsTyped, SalesKept \/ sales' = sales, NEW p, PaymentStands(p)
    PROVE  PaymentStands(p)'
<1>1. CASE sales' = sales
    BY <1>1 DEF PaymentStands, IsSaved
<1>2. CASE SalesKept
  <2>1. CASE p.state = "none"
      BY <2>1 DEF PaymentStands
  <2>2. CASE p.state # "none"
    <3>1. p.sale \in DOMAIN sales /\ p.sale \in DOMAIN sales' /\ Keeps(sales[p.sale], sales'[p.sale])
        BY <1>2, <2>2 DEF PaymentStands, SalesKept
    <3>2. sales[p.sale] \in Sale /\ sales'[p.sale] \in Sale
        BY <1>2, <3>1, SaleFacts, ElementOfSeq, LenProperties DEF SalesKept
    <3> QED
        BY <2>2, <3>1, <3>2 DEF PaymentStands, IsSaved, SameAsSaved, Keeps, Sale
  <2> QED
      BY <2>1, <2>2
<1> QED
    BY <1>1, <1>2

\* Nor does it change what a sale of this version is billed.
LEMMA BillsStand ==
    ASSUME RecordsInv, SalesKept \/ sales' = sales
    PROVE  RecordedInFull'
<1>1. CASE sales' = sales
    BY <1>1 DEF RecordsInv, RecordedInFull, FullyBilled
<1>2. CASE SalesKept
    BY <1>2 DEF RecordsInv, RecordedInFull, FullyBilled, SalesKept, Keeps
<1> QED
    BY <1>1, <1>2

\* Steps that leave the payment requests alone.
LEMMA OthersKeepRecords ==
    ASSUME RecordsInv, SalesKept \/ sales' = sales, today' \in Nat, today <= today', UNCHANGED payments,
           products' \in [Products -> Product]
    PROVE  RecordsInv'
<1>1. RecordsTyped
    BY DEF RecordsInv
<1>2. RecordsTyped'
  <2>1. sales' \in Seq(Sale) /\ \A i \in DOMAIN sales' : sales'[i].day <= today' /\ IsFiniteSet(sales'[i].lines)
    <3>1. CASE sales' = sales
      <4>1. \A i \in DOMAIN sales : sales[i].day \in Nat /\ sales[i].day <= today /\ today \in Nat
          BY <1>1, SaleFacts DEF RecordsTyped
      <4> QED
          BY <1>1, <3>1, <4>1 DEF RecordsTyped
    <3>2. CASE SalesKept
      <4>1. sales' \in Seq(Sale) /\ DOMAIN sales' = 1..Len(sales') /\ today \in Nat
          BY <1>1, <3>2, LenProperties DEF SalesKept, RecordsTyped
      <4>2. \A i \in DOMAIN sales' : sales'[i].day <= today /\ IsFiniteSet(sales'[i].lines)
          BY <1>1, <3>2 DEF SalesKept, Keeps, RecordsTyped
      <4>3. \A i \in DOMAIN sales' : sales'[i] \in Sale
          BY <4>1, ElementOfSeq
      <4>4. \A i \in DOMAIN sales' : sales'[i].day \in Nat
          BY <4>3 DEF Sale
      <4> QED
          BY <4>1, <4>2, <4>4
    <3> QED
        BY <3>1, <3>2
  <2> QED
      BY <1>1, <2>1 DEF RecordsTyped
<1>3. \A q \in Senders : PaymentStands(payments[q])'
  <2> SUFFICES ASSUME NEW q \in Senders PROVE PaymentStands(payments[q])'
      OBVIOUS
  <2> DEFINE p == payments[q]
  <2>1. p' = p
      OBVIOUS
  <2>2. PaymentStands(p)
      BY DEF RecordsInv, PaymentsStand
  <2>3. \A r : r = p => PaymentStands(r)'
    <3> SUFFICES ASSUME NEW r, r = p PROVE PaymentStands(r)'
        OBVIOUS
    <3> QED
        BY <1>1, <2>2, PaymentStandsOn
  <2> QED
      BY <2>1, <2>3 DEF PaymentStands, IsSaved
<1> QED
    BY <1>2, <1>3, BillsStand DEF RecordsInv, PaymentsStand

\* A request p is sent, by somebody whose earlier one may have been saved.
LEMMA AtViewStands ==
    ASSUME RecordsTyped,
           NEW p \in [state : {"none", "found", "answered"}, user : Users, sale : Nat,
                      body : Payloads \union {Absent}, answer : Answers, earlier : Answers],
           p.body \in Payloads, p.sale \in DOMAIN sales,
           p.earlier = "saved" =>
              /\ sales[p.sale].encoded
              /\ p.user \in Staff => sales[p.sale].handler = p.user
              /\ p.body.status = "paid" => IsSaved(p.sale, p.body)
    PROVE  /\ PaymentStands(AtView(p))
           /\ AtView(p) \in [state : {"none", "found", "answered"}, user : Users, sale : Nat,
                               body : Payloads \union {Absent}, answer : Answers, earlier : Answers]
           /\ \A old : RetryFound(old, AtView(p))
<1>1. CASE p.sale \in VisibleTransactions(p.user) /\ sales[p.sale].encoded
  <2> DEFINE r == [p EXCEPT !.state = "found", !.answer = Absent]
  <2>1. AtView(p) = r
      BY <1>1 DEF AtView
  <2>2. /\ r.state = "found" /\ r.answer = Absent /\ r.sale = p.sale /\ r.body = p.body
        /\ r.user = p.user /\ r.earlier = p.earlier
        /\ r \in [state : {"none", "found", "answered"}, user : Users, sale : Nat,
                  body : Payloads \union {Absent}, answer : Answers, earlier : Answers]
      BY DEF Answers
  <2> HIDE DEF r
  <2>3. p.user \in Staff => sales[p.sale].handler = p.user
      BY <1>1 DEF VisibleTransactions
  <2> QED
      BY <1>1, <2>1, <2>2, <2>3, RecordsAssumption DEF PaymentStands, RetryFound
<1>2. CASE ~(p.sale \in VisibleTransactions(p.user) /\ sales[p.sale].encoded)
  <2> DEFINE r == [p EXCEPT !.state = "answered", !.answer = "not found"]
  <2>1. AtView(p) = r
      BY <1>2 DEF AtView
  <2>2. /\ r.state = "answered" /\ r.answer = "not found" /\ r.sale = p.sale /\ r.body = p.body
        /\ r.user = p.user /\ r.earlier = p.earlier
        /\ r \in [state : {"none", "found", "answered"}, user : Users, sale : Nat,
                  body : Payloads \union {Absent}, answer : Answers, earlier : Answers]
      BY DEF Answers
  <2> HIDE DEF r
  <2>3. PaymentStands(r)
      BY <2>2 DEF PaymentStands
  <2>4. p.earlier = "saved" =>
          p.user \in Staff /\ \E line \in sales[p.sale].lines : ~Offered(line.product)
      BY <1>2 DEF VisibleTransactions
  <2> QED
      BY <2>1, <2>2, <2>3, <2>4 DEF RetryFound
<1> QED
    BY <1>1, <1>2

\* A request is sent, or sent again.
LEMMA SendRecords ==
    ASSUME RecordsInv, NEW q \in Senders,
           \/ ResendPayment(q)
           \/ \E u \in Users, i \in DOMAIN sales, body \in Payloads : SendPayment(q, u, i, body)
    PROVE  RecordsInv' /\ \A r \in Senders : RetryFound(payments[r], payments'[r])
<1>1. RecordsTyped /\ UNCHANGED <<today, sales, products>>
    BY DEF RecordsInv, SendPayment, ResendPayment
<1>2. \A r \in Senders : PaymentStands(payments[r])
    BY DEF RecordsInv, PaymentsStand
<1> DEFINE Sent(p) ==
        /\ payments' = [payments EXCEPT ![q] = p]
        /\ p \in [state : {"none", "found", "answered"}, user : Users, sale : Nat,
                  body : Payloads \union {Absent}, answer : Answers, earlier : Answers]
        /\ PaymentStands(p) /\ \A old : RetryFound(old, p)
<1>3. \E p : Sent(p)
  <2>1. ASSUME ResendPayment(q)
        PROVE  \E p : Sent(p)
    <3> DEFINE p == [payments[q] EXCEPT !.earlier = payments[q].answer]
    <3>1. payments' = [payments EXCEPT ![q] = AtView(p)]
        BY <1>1, <2>1 DEF ResendPayment, RecordsTyped
    <3>2. /\ p \in [state : {"none", "found", "answered"}, user : Users, sale : Nat,
                    body : Payloads \union {Absent}, answer : Answers, earlier : Answers]
          /\ p.earlier = payments[q].answer /\ p.body = payments[q].body
          /\ p.sale = payments[q].sale /\ p.user = payments[q].user
        BY <1>1 DEF RecordsTyped, Answers
    <3>3. PaymentStands(payments[q]) /\ payments[q].state = "answered"
        BY <1>2, <2>1 DEF ResendPayment
    <3> HIDE DEF p
    <3> QED
        BY <1>1, <3>1, <3>2, <3>3, AtViewStands DEF PaymentStands
  <2>2. ASSUME NEW u \in Users, NEW i \in DOMAIN sales, NEW body \in Payloads, SendPayment(q, u, i, body)
        PROVE  \E p : Sent(p)
    <3> DEFINE p == [NoRequest EXCEPT !.user = u, !.sale = i, !.body = body]
    <3>1. payments' = [payments EXCEPT ![q] = AtView(p)]
        BY <2>2 DEF SendPayment
    <3>2. i \in Nat
        BY <1>1, SaleFacts
    <3>3. /\ p \in [state : {"none", "found", "answered"}, user : Users, sale : Nat,
                    body : Payloads \union {Absent}, answer : Answers, earlier : Answers]
          /\ p.earlier = Absent /\ p.body = body /\ p.sale = i
        BY <3>2 DEF NoRequest, Answers
    <3> HIDE DEF p
    <3> QED
        BY <1>1, <3>1, <3>3, RecordsAssumption, AtViewStands
  <2> QED
      BY <2>1, <2>2
<1>4. PICK p : Sent(p)
    BY <1>3
<1>5. RecordsTyped'
    BY <1>1, <1>4 DEF RecordsTyped
<1>6. \A r \in Senders : payments'[r] = IF r = q THEN p ELSE payments[r]
    BY <1>1, <1>4 DEF RecordsTyped
<1>7. \A r \in Senders : PaymentStands(payments'[r])
    BY <1>2, <1>4, <1>6
<1>8. \A r \in Senders : RetryFound(payments[r], payments'[r])
  <2> SUFFICES ASSUME NEW r \in Senders PROVE RetryFound(payments[r], payments'[r])
      OBVIOUS
  <2>1. CASE r = q
      BY <1>4, <1>6, <2>1
  <2>2. CASE r # q
      BY <1>6, <2>2 DEF RetryFound
  <2> QED
      BY <2>1, <2>2
<1> QED
    BY <1>1, <1>5, <1>7, <1>8, BillsStand DEF RecordsInv, PaymentsStand, PaymentStands, IsSaved

\* An update answers one request; the others find what they found before.
LEMMA UpdateRecords ==
    ASSUME RecordsInv, NEW q \in Senders, UpdateEncodingPayment(q)
    PROVE  RecordsInv' /\ \A r \in Senders : RetryFound(payments[r], payments'[r])
<1> DEFINE i == payments[q].sale
<1> DEFINE body == payments[q].body
<1> DEFINE answer == PaymentAnswer(sales[i], payments[q].user, body)
<1> DEFINE told == IF answer = "updated" THEN "saved" ELSE answer
<1> DEFINE p == [payments[q] EXCEPT !.state = "answered", !.answer = told]
<1>1. /\ RecordsTyped /\ payments[q].state = "found"
      /\ UNCHANGED <<today, products>> /\ payments' = [payments EXCEPT ![q] = p]
    BY DEF RecordsInv, UpdateEncodingPayment
<1>2. /\ i \in DOMAIN sales /\ body \in Payload
      /\ answer \in {"refused", "saved", "locked", "updated"}
      /\ answer = "saved" => sales[i].status = "paid" /\ SameAsSaved(sales[i], body)
      /\ IsSaved(i, body) => answer = "saved" \/ sales[i].voided
    BY <1>1, PaymentFacts
<1>3. SalesKept \/ sales' = sales
    BY UpdateKeeps
<1>4. answer = "updated" /\ body.status = "paid" => sales'[i].status = "paid" /\ SameAsSaved(sales'[i], body)
    BY UpdateKeeps
<1>5. answer # "updated" => sales' = sales
    BY DEF UpdateEncodingPayment
<1> HIDE DEF answer
<1>6. \A r \in Senders : PaymentStands(payments[r])
    BY DEF RecordsInv, PaymentsStand
\* The old requests still stand after the step.
<1>7. \A r \in Senders : \A o : o = payments[r] => PaymentStands(o)'
  <2> SUFFICES ASSUME NEW r \in Senders, NEW o, o = payments[r] PROVE PaymentStands(o)'
      OBVIOUS
  <2> QED
      BY <1>1, <1>3, <1>6, PaymentStandsOn
<1>8. p \in [state : {"none", "found", "answered"}, user : Users, sale : Nat,
             body : Payloads \union {Absent}, answer : Answers, earlier : Answers]
  <2>1. told \in Answers
      BY <1>2 DEF Answers
  <2> HIDE DEF told
  <2> QED
      BY <1>1, <2>1 DEF RecordsTyped
<1>9. \A o : o = p => PaymentStands(o)' /\ RetryFound(payments[q], o)
  <2> SUFFICES ASSUME NEW o, o = p PROVE PaymentStands(o)' /\ RetryFound(payments[q], o)
      OBVIOUS
  <2>1. \A x : x = payments[q] => PaymentStands(x)'
      BY <1>7
  <2>2. /\ o.state = "answered" /\ o.answer = told /\ o.earlier = payments[q].earlier
        /\ o.body = payments[q].body /\ o.sale = payments[q].sale /\ o.user = payments[q].user
      BY <1>1 DEF RecordsTyped
  <2>3. told = "saved" /\ body.status = "paid" => sales'[i].status = "paid" /\ SameAsSaved(sales'[i], body)
      BY <1>2, <1>4, <1>5
  <2>4. /\ body \in Payloads /\ i \in DOMAIN sales' /\ sales'[i].encoded
        /\ payments[q].user \in Staff => sales'[i].handler = payments[q].user
        /\ body.status = "paid" /\ payments[q].earlier = "saved" =>
              sales'[i].status = "paid" /\ SameAsSaved(sales'[i], body)
      BY <1>1, <2>1 DEF PaymentStands, IsSaved
  <2>5. body.status = "paid" /\ payments[q].earlier = "saved" => IsSaved(i, body)
      BY <1>1, <1>6 DEF PaymentStands
  <2>6. body.status = "paid" /\ payments[q].earlier = "saved" /\ told # "saved" => sales[i].voided
      BY <1>2, <2>5
  <2> HIDE DEF told, i, body, p
  <2> QED
      BY <2>2, <2>3, <2>4, <2>6 DEF PaymentStands, RetryFound, IsSaved, i, body
<1>10. RecordsTyped'
  <2>1. sales' \in Seq(Sale) /\ \A j \in DOMAIN sales' : sales'[j].day <= today /\ IsFiniteSet(sales'[j].lines)
    <3>1. CASE sales' = sales
        BY <1>1, <3>1 DEF RecordsTyped
    <3>2. CASE SalesKept
      <4>1. sales' \in Seq(Sale)
          BY <3>2 DEF SalesKept
      <4> QED
          BY <1>1, <3>2, <4>1 DEF SalesKept, Keeps, RecordsTyped
    <3> QED
        BY <1>3, <3>1, <3>2
  <2> HIDE DEF p
  <2> QED
      BY <1>1, <1>8, <2>1 DEF RecordsTyped
<1>11. \A r \in Senders : payments'[r] = IF r = q THEN p ELSE payments[r]
  <2> HIDE DEF p
  <2> QED
      BY <1>1 DEF RecordsTyped
<1>12. \A r \in Senders : RetryFound(payments[r], payments'[r]) /\ \A o : o = payments'[r] => PaymentStands(o)'
  <2> HIDE DEF p
  <2> QED
      BY <1>7, <1>9, <1>11 DEF RetryFound
<1> HIDE DEF p
<1> QED
    BY <1>3, <1>10, <1>12, BillsStand DEF RecordsInv, PaymentsStand, PaymentStands, IsSaved

LEMMA InitRecords == Init => RecordsInv
<1> SUFFICES ASSUME Init PROVE RecordsInv
    OBVIOUS
<1>1. /\ today = 1 /\ sales = History /\ payments = [q \in Senders |-> NoRequest]
      /\ products = [p \in Products |-> [name |-> p, variant |-> FirstVariant[p], category |-> FirstCategory[p]]]
    BY DEF Init, RecordsInit
<1>2. RecordsTyped
    BY <1>1, RecordsAssumption DEF RecordsTyped, NoRequest, Answers, Users, Product
<1>3. RecordedInFull
    BY <1>1, <1>2, SaleFacts DEF RecordedInFull
<1> QED
    BY <1>1, <1>2, <1>3 DEF RecordsInv, PaymentsStand, PaymentStands, NoRequest

LEMMA NextRecords ==
    ASSUME RecordsInv, [Next]_vars
    PROVE  /\ RecordsInv' /\ (SalesKept \/ sales' = sales)
           /\ \A q \in Senders : RetryFound(payments[q], payments'[q])
<1>1. RecordsTyped
    BY DEF RecordsInv
<1>11. UNCHANGED payments => \A q \in Senders : RetryFound(payments[q], payments'[q])
    BY DEF RetryFound
<1>2. ASSUME UNCHANGED <<sales, products, payments>>, today' = today \/ today' = today + 1
      PROVE  RecordsInv' /\ sales' = sales
    BY <1>1, <1>2, OthersKeepRecords DEF RecordsTyped
<1>3. ASSUME SalesKept, UNCHANGED <<today, products, payments>>
      PROVE  RecordsInv'
    BY <1>1, <1>3, OthersKeepRecords DEF RecordsTyped
<1>4. CASE UNCHANGED vars
    BY <1>2, <1>4, <1>11 DEF vars, recordVars
<1>5. CASE NextDay
    BY <1>2, <1>5, <1>11 DEF NextDay
<1>6. ASSUME NEW i \in DOMAIN sales, VoidSale(i)
      PROVE  RecordsInv' /\ SalesKept /\ UNCHANGED payments
    BY <1>3, <1>6, VoidSaleKeeps DEF VoidSale
<1>7. CASE Edit
  <2>1. UNCHANGED <<today, sales, payments>>
      BY <1>7 DEF Edit, EditProduct, ToggleVisible, ToggleActive
  <2>2. products' \in [Products -> Product]
      BY <1>1, <1>7 DEF Edit, EditProduct, ToggleVisible, ToggleActive, RecordsTyped, Product
  <2> QED
      BY <1>1, <1>11, <2>1, <2>2, OthersKeepRecords DEF RecordsTyped
<1>8. CASE Sell
  <2>1. SalesKept
      BY <1>8, RecordSaleKeeps DEF Sell
  <2>2. UNCHANGED <<today, products, payments>>
      BY <1>8 DEF Sell, RecordSale
  <2> QED
      BY <1>3, <1>11, <2>1, <2>2
<1>9. CASE Pay
    BY <1>9, SendRecords, UpdateRecords, UpdateKeeps DEF Pay, SendPayment, ResendPayment
<1>10. CASE UNCHANGED recordVars
    BY <1>2, <1>10, <1>11 DEF recordVars
<1> QED
    BY <1>4, <1>5, <1>6, <1>7, <1>8, <1>9, <1>10, <1>11 DEF Next

-----------------------------------------------------------------------------
(***************************************************************************)
(* Serving.  A cached report is at least as new as its key says, in the    *)
(* version of the data and in the day, and is that of the user its key     *)
(* names; a request that builds has a key of its own user, not newer than  *)
(* the present.                                                            *)
(***************************************************************************)
Stamp == [version : Nat, scope : Users, day : Nat]

AsNew(report, key) ==
    /\ report \in Stamp /\ key \in Stamp
    /\ report.scope = key.scope
    /\ report.version >= key.version
    /\ report.day >= key.day

CachedStands == \A key \in DOMAIN cached : AsNew(cached[key], key)

\* A request at data version n on day d.
AskStands(req, n, d) ==
    /\ req.state = "building" => /\ req.key = req.asOf
                                 /\ AsNew([version |-> n, scope |-> req.viewer, day |-> d], req.asOf)
    /\ req.state = "answered" => /\ AsNew(req.answer, req.asOf)
                                 /\ req.answer.scope = req.viewer

Asked == [state : {"none", "building", "answered"}, viewer : Users, asOf : Stamp \union {None},
          key : Stamp \union {None}, refresh : BOOLEAN, answer : Stamp \union {None}]

ServingInv ==
    /\ version \in Nat /\ today \in Nat
    /\ asks \in [Askers -> Asked]
    /\ CachedStands
    /\ \A k \in Askers : AskStands(asks[k], version, today)

LEMMA InitServing == Init => ServingInv
BY DEF Init, RecordsInit, ReportsInit, ServingInv, Asked, CachedStands, AskStands, NoAsk, Users

\* What was asked and cached stays good when the data and the calendar move on.
LEMMA ServingOn ==
    ASSUME ServingInv, version' \in Nat, version <= version', today' \in Nat, today <= today',
           UNCHANGED <<cached, asks>>
    PROVE  ServingInv'
<1>1. CachedStands'
    BY DEF ServingInv, CachedStands, AsNew
<1>2. \A k \in Askers : AskStands(asks'[k], version', today')
    BY DEF ServingInv, AskStands, AsNew, Asked, Stamp
<1> QED
    BY <1>1, <1>2 DEF ServingInv, AskStands

\* A request moves on.
LEMMA AskMoves ==
    ASSUME ServingInv, NEW k \in Askers, NEW req \in Asked, asks' = [asks EXCEPT ![k] = req],
           AskStands(req, version', today'), version' \in Nat, version <= version', UNCHANGED today, CachedStands'
    PROVE  ServingInv'
<1>1. asks' \in [Askers -> Asked] /\ today' \in Nat
    BY DEF ServingInv
<1>2. \A j \in Askers : asks'[j] = IF j = k THEN req ELSE asks[j]
    BY DEF ServingInv
<1>3. ASSUME NEW j \in Askers PROVE AskStands(asks'[j], version', today')
  <2>1. CASE j = k
      BY <1>2, <2>1 DEF AskStands
  <2>2. CASE j # k
    <3>1. asks'[j] = asks[j] /\ AskStands(asks[j], version, today)
        BY <1>2, <2>2 DEF ServingInv
    <3>2. asks[j] \in Asked
        BY DEF ServingInv
    <3> QED
        BY <3>1, <3>2 DEF AskStands, AsNew, Asked, Stamp, ServingInv
  <2> QED
      BY <2>1, <2>2
<1> QED
    BY <1>1, <1>3 DEF ServingInv

LEMMA NextServing ==
    ASSUME ServingInv, [Next]_vars
    PROVE  ServingInv'
<1>1. version \in Nat /\ today \in Nat
    BY DEF ServingInv
<1>2. ASSUME UNCHANGED <<cached, asks>>, version' = version \/ version' = version + 1,
             today' = today \/ today' = today + 1
      PROVE  ServingInv'
    BY <1>1, <1>2, ServingOn
<1>3. CASE UNCHANGED vars
    BY <1>2, <1>3 DEF vars, recordVars, reportVars
<1>4. CASE Committed
  <2>1. UNCHANGED <<cached, asks>> /\ (version' = version \/ version' = version + 1)
      BY <1>4 DEF Committed
  <2>2. today' = today \/ today' = today + 1
    <3>1. Edit => UNCHANGED today
        BY DEF Edit, EditProduct, ToggleVisible, ToggleActive
    <3>2. Sell => UNCHANGED today
        BY DEF Sell, RecordSale
    <3>3. Pay => UNCHANGED today
        BY DEF Pay, SendPayment, ResendPayment, UpdateEncodingPayment
    <3> QED
        BY <3>1, <3>2, <3>3 DEF Next, NextDay, VoidSale, recordVars, vars
  <2> QED
      BY <1>2, <2>1, <2>2
<1>5. ASSUME UNCHANGED today, NEW k \in Askers, NEW v \in Users, AskReport(k, v)
      PROVE  ServingInv'
  <2> DEFINE key == Identity(v)
  <2> DEFINE req == [NoAsk EXCEPT !.viewer = v, !.asOf = Source(v), !.key = key]
  <2>1. key \in Stamp /\ Source(v) = key /\ AsNew([version |-> version, scope |-> v, day |-> today], key)
      BY <1>1 DEF Identity, Source, Stamp, AsNew
  <2>2. CachedStands' /\ version' = version
      BY <1>5 DEF AskReport, ServingInv, CachedStands
  <2>3. CASE key \in DOMAIN cached /\ asks' = [asks EXCEPT ![k] = [req EXCEPT !.state = "answered", !.answer = cached[key]]]
    <3> DEFINE new == [req EXCEPT !.state = "answered", !.answer = cached[key]]
    <3>1. AsNew(cached[key], key) /\ key.scope = v
        BY <2>3 DEF ServingInv, CachedStands, Identity
    <3>2. new \in Asked /\ new.state = "answered" /\ new.answer = cached[key] /\ new.asOf = key /\ new.viewer = v
        BY <2>1, <3>1 DEF NoAsk, Asked, AsNew
    <3> HIDE DEF key
    <3>3. AskStands(new, version', today')
        BY <3>1, <3>2 DEF AskStands, AsNew
    <3>4. asks' = [asks EXCEPT ![k] = new]
        BY <2>3
    <3>5. version' \in Nat /\ version <= version'
        BY <1>1, <2>2
    <3> HIDE DEF new
    <3> QED
        BY <1>5, <2>2, <3>2, <3>3, <3>4, <3>5, AskMoves
  <2>4. CASE asks' = [asks EXCEPT ![k] = [req EXCEPT !.state = "building"]]
    <3> DEFINE new == [req EXCEPT !.state = "building"]
    <3>1. new \in Asked /\ new.state = "building" /\ new.key = key /\ new.asOf = key /\ new.viewer = v
        BY <2>1 DEF NoAsk, Asked
    <3> HIDE DEF key
    <3>2. AskStands(new, version', today')
        BY <1>5, <2>1, <2>2, <3>1 DEF AskStands, AsNew
    <3>3. asks' = [asks EXCEPT ![k] = new]
        BY <2>4
    <3>4. version' \in Nat /\ version <= version'
        BY <1>1, <2>2
    <3> HIDE DEF new
    <3> QED
        BY <1>5, <2>2, <3>1, <3>2, <3>3, <3>4, AskMoves
  <2> QED
      BY <1>5, <2>3, <2>4 DEF AskReport
<1>6. ASSUME UNCHANGED today, NEW k \in Askers, NEW v \in Users, RefreshReports(k, v)
      PROVE  ServingInv'
  <2> DEFINE key == [version |-> version + 1, scope |-> v, day |-> today]
  <2> DEFINE new == [NoAsk EXCEPT !.state = "building", !.viewer = v, !.refresh = TRUE, !.asOf = key, !.key = key]
  <2>1. key \in Stamp /\ key = [version |-> version', scope |-> v, day |-> today'] /\ version' = version + 1
      BY <1>1, <1>6 DEF RefreshReports, Stamp
  <2>2. asks' = [asks EXCEPT ![k] = new]
    <3>1. [Source(v) EXCEPT !.version = version + 1] = key /\ [Identity(v) EXCEPT !.version = version + 1] = key
        BY DEF Source, Identity
    <3> HIDE DEF key
    <3> QED
        BY <1>6, <3>1 DEF RefreshReports
  <2>3. CachedStands'
      BY <1>6 DEF RefreshReports, ServingInv, CachedStands
  <2> HIDE DEF key
  <2>4. new \in Asked /\ new.state = "building" /\ new.key = key /\ new.asOf = key /\ new.viewer = v
      BY <2>1 DEF NoAsk, Asked
  <2>5. AskStands(new, version', today')
      BY <1>1, <2>1, <2>4 DEF AskStands, AsNew, Stamp
  <2>6. version' \in Nat /\ version <= version'
      BY <1>1, <2>1
  <2> HIDE DEF new
  <2> QED
      BY <1>6, <2>2, <2>3, <2>4, <2>5, <2>6, AskMoves
<1>7. ASSUME UNCHANGED today, NEW k \in Askers, BuildReport(k)
      PROVE  ServingInv'
  <2> DEFINE req == asks[k]
  <2> DEFINE built == Source(req.viewer)
  <2> DEFINE new == [req EXCEPT !.state = "answered", !.answer = built]
  <2>1. req \in Asked /\ req.state = "building" /\ AskStands(req, version, today) /\ version' = version
      BY <1>7 DEF BuildReport, ServingInv
  <2>2. built = [version |-> version, scope |-> req.viewer, day |-> today]
      BY DEF Source
  <2>3. req.key = req.asOf /\ AsNew(built, req.asOf) /\ built.scope = req.viewer
      BY <2>1, <2>2 DEF AskStands
  <2>4. asks' = [asks EXCEPT ![k] = new] /\ cached' \in {cached, [key \in {req.key} |-> built]}
      BY <1>7 DEF BuildReport
  <2> HIDE DEF built, req
  <2>5. new \in Asked /\ new.asOf = req.asOf /\ new.viewer = req.viewer /\ new.state = "answered" /\ new.answer = built
      BY <2>1, <2>3 DEF Asked, AsNew
  <2>6. AskStands(new, version', today')
      BY <2>3, <2>5 DEF AskStands, AsNew
  <2>7. CachedStands'
      BY <2>3, <2>4 DEF CachedStands, ServingInv
  <2>8. version' \in Nat /\ version <= version'
      BY <1>1, <2>1
  <2> HIDE DEF new
  <2> QED
      BY <1>7, <2>4, <2>5, <2>6, <2>7, <2>8, AskMoves
<1>8. CASE Serve /\ UNCHANGED recordVars
  <2>1. UNCHANGED today
      BY <1>8 DEF recordVars
  <2>2. CASE Cooled
      BY <1>2, <2>1, <2>2 DEF Cooled
  <2> QED
      BY <1>5, <1>6, <1>7, <1>8, <2>1, <2>2 DEF Serve
<1> QED
    BY <1>3, <1>4, <1>8 DEF Next

-----------------------------------------------------------------------------
(***************************************************************************)
(* What the administrator is shown of the past depends on the sales alone. *)
(***************************************************************************)
LEMMA AdminSeesAll == VisibleTransactions(Admin) = DOMAIN sales
BY RecordsAssumption DEF VisibleTransactions

\* The same with primes.
LEMMA AdminSeesAllNext == VisibleTransactions(Admin)' = DOMAIN sales'
BY RecordsAssumption DEF VisibleTransactions

LEMMA SalesStand ==
    ASSUME sales' = sales
    PROVE  \A a, b : SalesIn(Admin, a, b)' = SalesIn(Admin, a, b)
BY AdminSeesAll, AdminSeesAllNext DEF SalesIn

LEMMA SummaryStands ==
    ASSUME sales' = sales
    PROVE  \A a, b : SalesSummary(Admin, a, b)' = SalesSummary(Admin, a, b)
BY SalesStand DEF SalesSummary, Tally, TotalOf

LEMMA ItemsStand ==
    ASSUME sales' = sales
    PROVE  \A a, b : PeriodItems(Admin, a, b)' = PeriodItems(Admin, a, b)
BY SalesStand DEF PeriodItems

\* Rows that group the same items by the same labels are the same.
LEMMA TotalsStand ==
    ASSUME NEW items, NEW column, Labelled(items, column)' = Labelled(items, column)
    PROVE  Totals(items, column)' = Totals(items, column)
BY DEF Totals, LineRevenue, Subtotal

\* Families and categories are labels of the lines.  A product's is too, but for
\* the variant it has now where the line has none.
LEMMA RowsStand ==
    ASSUME sales' = sales, NEW a, NEW b, NEW column \in {"family", "category", "product", "identity"},
           column \in {"product", "identity"} =>
               \A item \in PeriodItems(Admin, a, b) :
                   item.line.variant = Absent => UNCHANGED products[item.line.product].variant
    PROVE  Totals(PeriodItems(Admin, a, b), column)' = Totals(PeriodItems(Admin, a, b), column)
<1>1. PICK items : items = PeriodItems(Admin, a, b)
    OBVIOUS
<1>2. items = PeriodItems(Admin, a, b)'
    BY <1>1, ItemsStand
<1>3. \A item \in items : /\ FamilyLabel(item)' = FamilyLabel(item)
                          /\ CategoryLabel(item)' = CategoryLabel(item)
                          /\ column \in {"product", "identity"} => ProductLabel(item)' = ProductLabel(item)
    BY <1>1 DEF FamilyLabel, CategoryLabel, ProductLabel
<1>4. Labelled(items, column)' = Labelled(items, column)
  <2>1. CASE column = "family"
      BY <1>3, <2>1 DEF Labelled
  <2>2. CASE column = "category"
      BY <1>3, <2>2 DEF Labelled
  <2>3. CASE column = "product"
      BY <1>3, <2>3 DEF Labelled
  <2>4. CASE column = "identity"
      BY <1>3, <2>4 DEF Labelled
  <2> QED
      BY <2>1, <2>2, <2>3, <2>4
<1>5. Totals(items, column)' = Totals(items, column)
    BY <1>4, TotalsStand
<1> QED
    BY <1>1, <1>2, <1>5

LEMMA DriversStand ==
    ASSUME sales' = sales
    PROVE  \A a, b : SalesDrivers(Admin, a, b)' = SalesDrivers(Admin, a, b)
<1> SUFFICES ASSUME NEW a, NEW b PROVE SalesDrivers(Admin, a, b)' = SalesDrivers(Admin, a, b)
    OBVIOUS
<1> DEFINE ids == SalesIn(Admin, a, b)
<1>1. ids' = ids /\ PeriodItems(Admin, a, b)' = PeriodItems(Admin, a, b)
    BY SalesStand, ItemsStand
<1>2. \A S : Tally(S)' = Tally(S) /\ TotalOf(S)' = TotalOf(S)
    BY DEF Tally, TotalOf
<1>3. [m \in {sales[i].method : i \in ids} |-> Tally({i \in ids : sales[i].method = m})]'
        = [m \in {sales[i].method : i \in ids} |-> Tally({i \in ids : sales[i].method = m})]
    BY <1>1, <1>2
<1>4. /\ Totals(PeriodItems(Admin, a, b), "category")' = Totals(PeriodItems(Admin, a, b), "category")
      /\ Totals(PeriodItems(Admin, a, b), "family")' = Totals(PeriodItems(Admin, a, b), "family")
    BY RowsStand
<1>5. UNCHANGED Summed([i \in ids |-> sales[i].gross])
    BY <1>1
<1> QED
    BY <1>3, <1>4, <1>5 DEF SalesDrivers

\* HistoryNotRewritten for one range.
RangeStands(a, b) ==
    /\ UNCHANGED [DailySales(Admin, a, b) EXCEPT !.items = None]
    /\ UNCHANGED [WeeklySales(Admin, a, b) EXCEPT !.top = None]
    /\ UNCHANGED [MonthlySales(Admin, a, b, TRUE) EXCEPT !.top = None]
    /\ UNCHANGED SalesByCategory(a, b)
    /\ (\A item \in PeriodItems(Admin, a, b) :
           item.line.variant = Absent => UNCHANGED products[item.line.product].variant) =>
         UNCHANGED <<TopProducts(Admin, a, b), BestSellers(a, b)>>

LEMMA ReportsStand ==
    ASSUME sales' = sales, NEW a, NEW b
    PROVE  RangeStands(a, b)
<1>1. /\ UNCHANGED SalesSummary(Admin, a, b)
      /\ UNCHANGED PreviousSummary(Admin, a, b)
      /\ UNCHANGED SalesDrivers(Admin, a, b)
    BY SummaryStands, DriversStand DEF PreviousSummary
<1>2. UNCHANGED WeeklyBreakdown(Admin, a, b) /\ UNCHANGED DailyBreakdown(Admin, a, b)
    BY SummaryStands DEF WeeklyBreakdown, DailyBreakdown
<1>3. UNCHANGED SalesByCategory(a, b)
    BY RowsStand DEF SalesByCategory
<1>4. (\A item \in PeriodItems(Admin, a, b) :
           item.line.variant = Absent => UNCHANGED products[item.line.product].variant) =>
         UNCHANGED TopProducts(Admin, a, b) /\ UNCHANGED BestSellers(a, b)
    BY RowsStand DEF TopProducts, BestSellers
<1>5. /\ [DailySales(Admin, a, b) EXCEPT !.items = None] =
            [summary |-> SalesSummary(Admin, a, b), previous |-> PreviousSummary(Admin, a, b),
             items |-> None, drivers |-> SalesDrivers(Admin, a, b)]
      /\ [WeeklySales(Admin, a, b) EXCEPT !.top = None] =
            [summary |-> SalesSummary(Admin, a, b), previous |-> PreviousSummary(Admin, a, b),
             days |-> DailyBreakdown(Admin, a, b), top |-> None, drivers |-> SalesDrivers(Admin, a, b)]
      /\ [MonthlySales(Admin, a, b, TRUE) EXCEPT !.top = None] =
            [summary |-> SalesSummary(Admin, a, b), previous |-> PreviousSummary(Admin, a, b),
             weeks |-> WeeklyBreakdown(Admin, a, b), top |-> None, drivers |-> SalesDrivers(Admin, a, b)]
    BY DEF DailySales, WeeklySales, MonthlySales
<1>6. /\ [DailySales(Admin, a, b) EXCEPT !.items = None]' =
            [summary |-> SalesSummary(Admin, a, b)', previous |-> PreviousSummary(Admin, a, b)',
             items |-> None, drivers |-> SalesDrivers(Admin, a, b)']
      /\ [WeeklySales(Admin, a, b) EXCEPT !.top = None]' =
            [summary |-> SalesSummary(Admin, a, b)', previous |-> PreviousSummary(Admin, a, b)',
             days |-> DailyBreakdown(Admin, a, b)', top |-> None, drivers |-> SalesDrivers(Admin, a, b)']
      /\ [MonthlySales(Admin, a, b, TRUE) EXCEPT !.top = None]' =
            [summary |-> SalesSummary(Admin, a, b)', previous |-> PreviousSummary(Admin, a, b)',
             weeks |-> WeeklyBreakdown(Admin, a, b)', top |-> None, drivers |-> SalesDrivers(Admin, a, b)']
    BY DEF DailySales, WeeklySales, MonthlySales
<1> QED
    BY <1>1, <1>2, <1>3, <1>4, <1>5, <1>6 DEF RangeStands

LEMMA NextStands ==
    ASSUME RecordsInv, [Next]_vars
    PROVE  /\ \A i \in DOMAIN sales :
                sales[i].status = "paid" \/ sales[i].voided =>
                    /\ sales'[i].status = sales[i].status
                    /\ sales'[i].method = sales[i].method
                    /\ sales'[i].tendered = sales[i].tendered
                    /\ sales'[i].change = sales[i].change
           /\ UNCHANGED sales => \A r \in Ranges : RangeStands(r[1], r[2])
<1>1. SalesKept \/ sales' = sales
    BY NextRecords
<1>2. ASSUME UNCHANGED sales, NEW r \in Ranges
      PROVE  RangeStands(r[1], r[2])
    BY <1>2, ReportsStand
<1> QED
    BY <1>1, <1>2 DEF SalesKept, Keeps

\* What was recorded stands: a recorded payment is read-only, and renaming, moving
\* or hiding what was sold, or the passing of a day, rewrites no report of the
\* administrator, but for the rows of products sold without a variant that get
\* one (update_encoding_payment, _sales_drivers, _top_products).
THEOREM RecordsNeverRewritten == Spec => RecordsStand
<1>1. Init => RecordsInv
    BY InitRecords
<1>2. RecordsInv /\ [Next]_vars => RecordsInv'
    BY NextRecords
<1>3. RecordsInv /\ [Next]_vars =>
         [\A i \in DOMAIN sales :
            sales[i].status = "paid" \/ sales[i].voided =>
              /\ sales'[i].status = sales[i].status
              /\ sales'[i].method = sales[i].method
              /\ sales'[i].tendered = sales[i].tendered
              /\ sales'[i].change = sales[i].change]_vars
    BY NextStands
<1>4. RecordsInv /\ [Next]_vars =>
         [UNCHANGED sales /\ ~UNCHANGED <<products, categories, today>> =>
            \A r \in Ranges :
              /\ UNCHANGED [DailySales(Admin, r[1], r[2]) EXCEPT !.items = None]
              /\ UNCHANGED [WeeklySales(Admin, r[1], r[2]) EXCEPT !.top = None]
              /\ UNCHANGED [MonthlySales(Admin, r[1], r[2], TRUE) EXCEPT !.top = None]
              /\ UNCHANGED SalesByCategory(r[1], r[2])
              /\ (\A item \in PeriodItems(Admin, r[1], r[2]) :
                     item.line.variant = Absent => UNCHANGED products[item.line.product].variant) =>
                   UNCHANGED <<TopProducts(Admin, r[1], r[2]), BestSellers(r[1], r[2])>>]_vars
    BY NextStands DEF RangeStands
<1> QED
    BY <1>1, <1>2, <1>3, <1>4, PTL DEF Spec, RecordsStand, PaidIsFinal, HistoryNotRewritten

\* Requests get their own answer: the retry of a recorded payment finds it unless
\* its sale is cancelled or hidden, and no served report is older than its request
\* or another user's (update_encoding_payment, get_report).
THEOREM AnswersAlwaysOwn == Spec => AnswersAreOwn
<1>1. Init => RecordsInv /\ ServingInv
    BY InitRecords, InitServing
<1>2. RecordsInv /\ ServingInv /\ [Next]_vars => (RecordsInv /\ ServingInv)'
    BY NextRecords, NextServing
<1>3. ServingInv => ServedReportIsOwn
    BY DEF ServingInv, AskStands, AsNew, ServedReportIsOwn
<1>4. RecordsInv /\ [Next]_vars =>
         [\A q \in Senders :
            LET p == payments'[q]
            IN  /\ p # payments[q] /\ p.state = "answered" /\ p.answer # "saved"
                /\ p.earlier = "saved" /\ p.body.status = "paid"
                => \/ sales[p.sale].voided
                   \/ /\ p.answer = "not found" /\ p.user \in Staff
                      /\ \E line \in sales[p.sale].lines : ~Offered(line.product)]_vars
    BY NextRecords DEF RetryFound
<1> QED
    BY <1>1, <1>2, <1>3, <1>4, PTL DEF Spec, AnswersAreOwn, RetryFindsPayment

-----------------------------------------------------------------------------
(***************************************************************************)
(* All reports of a range tell the same: every one of them groups the same *)
(* finite set, of sales or of lines, by labels that all of them have.      *)
(***************************************************************************)
Amount == [i \in DOMAIN sales |-> sales[i].total]

LEMMA TotalOfFacts ==
    ASSUME RecordsTyped, NEW ids \in SUBSET DOMAIN sales
    PROVE  /\ IsFiniteSet(ids)
           /\ \A i \in ids : Amount[i] \in Int
           /\ TotalOf(ids) = Sigma(Amount, ids)
           /\ TotalOf(ids) \in Int /\ Cardinality(ids) \in Nat
<1>1. IsFiniteSet(ids)
  <2>1. DOMAIN sales = 1..Len(sales) /\ Len(sales) \in Nat
      BY LenProperties DEF RecordsTyped
  <2>2. IsFiniteSet(DOMAIN sales)
      BY <2>1, FS_Interval
  <2> QED
      BY <2>2, FS_Subset
<1>2. \A i \in ids : Amount[i] = sales[i].total /\ Amount[i] \in Int
    BY SaleFacts DEF Amount
<1>3. TotalOf(ids) = Sigma(Amount, ids)
  <2> DEFINE f == [i \in ids |-> sales[i].total]
  <2>1. DOMAIN f = ids /\ \A i \in ids : f[i] = Amount[i]
      BY <1>2
  <2>2. TotalOf(ids) = Summed(f)
      BY DEF TotalOf
  <2> HIDE DEF f
  <2> QED
      BY <1>1, <2>1, <2>2, SummedIsSigma, SumSame
<1>4. TotalOf(ids) \in Int
    BY <1>1, <1>2, <1>3, SumInt
<1> QED
    BY <1>1, <1>2, <1>3, <1>4, FS_CardinalityType

\* Rows that tally the groups of some sales add up to the tally of these sales.
LEMMA TallyGroups ==
    ASSUME RecordsTyped, NEW ids \in SUBSET DOMAIN sales, NEW lab, NEW L, IsFiniteSet(L),
           \A i \in ids : lab[i] \in L, NEW rows, DOMAIN rows = L,
           \A l \in L : rows[l] = Tally(Group(ids, lab, l))
    PROVE  SumOf(rows) = Tally(ids)
<1> DEFINE f == [x \in DOMAIN rows |-> rows[x].revenue]
<1> DEFINE g == [x \in DOMAIN rows |-> rows[x].count]
<1>1. DOMAIN f = L /\ DOMAIN g = L
    OBVIOUS
<1>2. \A l \in L : Group(ids, lab, l) \in SUBSET DOMAIN sales
    BY DEF Group
<1>3. \A l \in L : f[l] = Sigma(Amount, Group(ids, lab, l)) /\ g[l] = Cardinality(Group(ids, lab, l))
    BY <1>2, TotalOfFacts DEF Tally
<1>4. SumOf(rows) = [revenue |-> Summed(f), count |-> Summed(g)]
    BY DEF SumOf
<1> HIDE DEF f, g
<1>5. IsFiniteSet(ids) /\ \A i \in ids : Amount[i] \in Int
    BY TotalOfFacts
<1>6. Sigma(f, L) = Sigma(Amount, ids)
    BY <1>3, <1>5, SumGroups
<1>7. Sigma(g, L) = Cardinality(ids)
    BY <1>3, <1>5, CountGroups
<1> QED
    BY <1>1, <1>4, <1>6, <1>7, SummedIsSigma, TotalOfFacts DEF Tally

\* Two days are in the same period of w days exactly when one lies in the other's.
LEMMA PeriodOfDay ==
    ASSUME NEW w \in Nat \ {0}, NEW d \in Nat, NEW x \in Nat
    PROVE  /\ x - (x % w) = d - (d % w) <=> d - (d % w) <= x /\ x <= d - (d % w) + w - 1
           /\ d - (d % w) \in Nat /\ d - (d % w) <= d
<1> DEFINE p == x \div w
<1> DEFINE q == d \div w
<1> DEFINE r == x % w
<1> DEFINE s == d % w
<1>1. p \in Nat /\ q \in Nat /\ r \in 0..(w - 1) /\ s \in 0..(w - 1) /\ x = w * p + r /\ d = w * q + s
    BY SMT
<1> HIDE DEF p, q, r, s
<1>2. w * q <= x /\ x <= w * q + w - 1 => p = q
  <2> SUFFICES ASSUME w * q <= x, x <= w * q + w - 1 PROVE p = q
      OBVIOUS
  <2>1. ~(p + 1 <= q)
    <3> SUFFICES ASSUME p + 1 <= q PROVE FALSE
        OBVIOUS
    <3>1. w * (p + 1) <= w * q
        BY <1>1, SMT
    <3>2. w * (p + 1) = w * p + w
        BY <1>1, SMT
    <3> QED
        BY <1>1, <3>1, <3>2, SMT
  <2>2. ~(q + 1 <= p)
    <3> SUFFICES ASSUME q + 1 <= p PROVE FALSE
        OBVIOUS
    <3>1. w * (q + 1) <= w * p
        BY <1>1, SMT
    <3>2. w * (q + 1) = w * q + w
        BY <1>1, SMT
    <3> QED
        BY <1>1, <3>1, <3>2, SMT
  <2> QED
      BY <1>1, <2>1, <2>2
<1>3. w * p \in Nat /\ w * q \in Nat
    BY <1>1, SMT
<1>4. x - r = w * p /\ d - s = w * q
    BY <1>1, <1>3, SMT
<1>5. w * p = w * q => p = q
  <2> SUFFICES ASSUME w * p = w * q PROVE p = q
      OBVIOUS
  <2> QED
      BY <1>1, <1>2, <1>3, SMT
<1>6. p = q => w * q <= x /\ x <= w * q + w - 1
    BY <1>1, <1>3, SMT
<1>7. d - s \in Nat /\ d - s <= d
    BY <1>1, <1>3, <1>4, SMT
<1>8. x - r = d - s <=> d - s <= x /\ x <= d - s + w - 1
    BY <1>1, <1>2, <1>3, <1>4, <1>5, <1>6, SMT
<1> QED
    BY <1>7, <1>8 DEF r, s

\* The starts of the periods of a range.
LEMMA PeriodStarts ==
    ASSUME NEW a \in Nat, NEW b \in Nat, NEW start
    PROVE  IsFiniteSet({start[d] : d \in a..b})
<1>1. IsFiniteSet(a..b)
    BY FS_Interval
<1> QED
    BY <1>1, LabelsFinite

LEMMA SalesInFacts ==
    ASSUME RecordsTyped, NEW v, NEW a, NEW b
    PROVE  /\ SalesIn(v, a, b) \in SUBSET DOMAIN sales
           /\ SalesSummary(v, a, b) = Tally(SalesIn(v, a, b))
           /\ \A i \in SalesIn(v, a, b) : sales[i].day \in a..b /\ sales[i] \in Sale
BY SaleFacts DEF SalesIn, VisibleTransactions, SalesSummary

\* The days add up.
LEMMA DaysAgree ==
    ASSUME RecordsTyped, NEW v \in Users, NEW a \in Nat, NEW b \in Nat
    PROVE  SumOf(DailyBreakdown(v, a, b)) = SalesSummary(v, a, b)
<1> DEFINE ids == SalesIn(v, a, b)
<1> DEFINE lab == [i \in ids |-> sales[i].day]
<1> DEFINE rows == DailyBreakdown(v, a, b)
<1>1. \A i \in ids : lab[i] \in a..b
    BY SalesInFacts
<1>2. ASSUME NEW d \in a..b PROVE rows[d] = Tally(Group(ids, lab, d))
  <2>1. SalesIn(v, d, d) = Group(ids, lab, d)
      BY SaleFacts DEF SalesIn, Group, VisibleTransactions
  <2> QED
      BY <2>1 DEF DailyBreakdown, SalesSummary
<1>3. DOMAIN rows = a..b /\ IsFiniteSet(a..b)
    BY FS_Interval DEF DailyBreakdown
<1> HIDE DEF lab, rows
<1> QED
    BY <1>1, <1>2, <1>3, TallyGroups, SalesInFacts DEF rows

\* The weeks add up, the ones that the range cuts included.
LEMMA WeeksAgree ==
    ASSUME RecordsTyped, NEW v \in Users, NEW a \in Nat, NEW b \in Nat
    PROVE  SumOf(WeeklyBreakdown(v, a, b)) = SalesSummary(v, a, b)
<1> DEFINE ids == SalesIn(v, a, b)
<1> DEFINE lab == [i \in ids |-> WeekStart(sales[i].day)]
<1> DEFINE L == {WeekStart(d) : d \in a..b}
<1> DEFINE rows == WeeklyBreakdown(v, a, b)
<1>1. \A i \in ids : lab[i] \in L
    BY SalesInFacts
<1>2. ASSUME NEW w \in L PROVE rows[w] = Tally(Group(ids, lab, w))
  <2>1. PICK d \in a..b : w = WeekStart(d)
      OBVIOUS
  <2>2. d \in Nat /\ w \in Nat
      BY <2>1, PeriodOfDay, ReportsAssumption DEF WeekStart
  <2>3. \A x \in Nat : WeekStart(x) = w <=> w <= x /\ x <= w + WeekLength - 1
      BY <2>1, <2>2, PeriodOfDay, ReportsAssumption DEF WeekStart
  <2>4. \A x \in Nat : x \in Higher(w, a)..Lower(w + WeekLength - 1, b) <=> x \in a..b /\ WeekStart(x) = w
    <3> SUFFICES ASSUME NEW x \in Nat
                 PROVE  x \in Higher(w, a)..Lower(w + WeekLength - 1, b) <=>
                            x \in a..b /\ w <= x /\ x <= w + WeekLength - 1
        BY <2>3
    <3> HIDE DEF L
    <3> QED
        BY <2>2, ReportsAssumption DEF Higher, Lower
  <2>5. SalesIn(v, Higher(w, a), Lower(w + WeekLength - 1, b)) = Group(ids, lab, w)
    <3> HIDE DEF L
    <3>1. \A i \in DOMAIN sales : sales[i].day \in Nat
        BY SaleFacts
    <3> QED
        BY <2>4, <3>1 DEF SalesIn, Group, VisibleTransactions
  <2> QED
      BY <2>5 DEF WeeklyBreakdown, SalesSummary
<1>3. DOMAIN rows = L
    BY DEF WeeklyBreakdown
<1>4. IsFiniteSet(L)
  <2> DEFINE start == [d \in a..b |-> WeekStart(d)]
  <2>1. L = {start[d] : d \in a..b}
      OBVIOUS
  <2> HIDE DEF start, L
  <2> QED
      BY <2>1, PeriodStarts
<1> HIDE DEF lab, rows, L
<1> QED
    BY <1>1, <1>2, <1>3, <1>4, TallyGroups, SalesInFacts DEF rows

\* The payment methods add up.
LEMMA MethodsAgree ==
    ASSUME RecordsTyped, NEW v \in Users, NEW a \in Nat, NEW b \in Nat
    PROVE  SumOf(SalesDrivers(v, a, b).payment) = SalesSummary(v, a, b)
<1> DEFINE ids == SalesIn(v, a, b)
<1> DEFINE lab == [i \in ids |-> sales[i].method]
<1> DEFINE L == {sales[i].method : i \in ids}
<1> DEFINE rows == [m \in L |-> Tally({i \in ids : sales[i].method = m})]
<1>1. SalesDrivers(v, a, b).payment = rows
    BY DEF SalesDrivers
<1>2. \A i \in ids : lab[i] \in L
    OBVIOUS
<1>3. ASSUME NEW m \in L PROVE rows[m] = Tally(Group(ids, lab, m))
  <2>1. {i \in ids : sales[i].method = m} = Group(ids, lab, m)
      BY DEF Group
  <2> QED
      BY <2>1
<1>4. DOMAIN rows = L
    OBVIOUS
<1>5. IsFiniteSet(L)
  <2>1. L = {lab[i] : i \in ids}
      OBVIOUS
  <2> HIDE DEF lab, L
  <2> QED
      BY <2>1, LabelsFinite, SalesInFacts, TotalOfFacts
<1> HIDE DEF lab, rows, L
<1> QED
    BY <1>1, <1>2, <1>3, <1>4, <1>5, TallyGroups, SalesInFacts

\* So do the weeks of the chart of the administrator.
LEMMA ChartAgrees ==
    ASSUME RecordsTyped, NEW a \in Nat, NEW b \in Nat
    PROVE  SumOf(RevenueReport([d \in a..b |-> WeekStart(d)], a, b)) = SalesSummary(Admin, a, b)
<1> DEFINE bucket == [d \in a..b |-> WeekStart(d)]
<1> DEFINE ids == SalesIn(Admin, a, b)
<1> DEFINE lab == [i \in ids |-> bucket[sales[i].day]]
<1> DEFINE L == {bucket[sales[i].day] : i \in ids}
<1> DEFINE rows == [x \in L |-> Tally({i \in ids : bucket[sales[i].day] = x})]
<1> HIDE DEF bucket
<1>1. ids = {i \in DOMAIN sales : ~sales[i].voided /\ sales[i].day \in a..b}
    BY AdminSeesAll DEF SalesIn
<1>2. RevenueReport(bucket, a, b) = rows
    BY <1>1 DEF RevenueReport
<1>3. \A i \in ids : lab[i] \in L
    OBVIOUS
<1>4. ASSUME NEW x \in L PROVE rows[x] = Tally(Group(ids, lab, x))
  <2>1. {i \in ids : bucket[sales[i].day] = x} = Group(ids, lab, x)
      BY DEF Group
  <2> QED
      BY <2>1
<1>5. DOMAIN rows = L
    OBVIOUS
<1>6. IsFiniteSet(L)
  <2>1. L = {lab[i] : i \in ids}
      OBVIOUS
  <2> HIDE DEF lab, L
  <2> QED
      BY <2>1, LabelsFinite, SalesInFacts, TotalOfFacts
<1> HIDE DEF lab, rows, L
<1>7. SumOf(RevenueReport(bucket, a, b)) = SalesSummary(Admin, a, b)
    BY <1>2, <1>3, <1>4, <1>5, <1>6, TallyGroups, SalesInFacts
<1> QED
    BY <1>7 DEF bucket

\* Whatever lines are grouped by, the groups add up to the lines.
LEMMA TotalsAgree ==
    ASSUME NEW items, IsFiniteSet(items),
           \A item \in items : item.line.quantity \in Nat /\ LineRevenue(item.line) \in Int, NEW column
    PROVE  SumOf(Totals(items, column)) =
              [revenue |-> Sigma([item \in items |-> LineRevenue(item.line)], items),
               count   |-> Sigma([item \in items |-> item.line.quantity], items)]
<1> DEFINE rev == [item \in items |-> LineRevenue(item.line)]
<1> DEFINE qty == [item \in items |-> item.line.quantity]
<1> DEFINE lab == Labelled(items, column)
<1> DEFINE L == {lab[item] : item \in items}
<1> DEFINE rows == Totals(items, column)
<1> DEFINE f == [x \in DOMAIN rows |-> rows[x].revenue]
<1> DEFINE g == [x \in DOMAIN rows |-> rows[x].count]
<1>1. IsFiniteSet(L)
  <2> HIDE DEF lab
  <2> QED
      BY LabelsFinite
<1>2. \A item \in items : rev[item] \in Int /\ qty[item] \in Int
    OBVIOUS
<1>3. DOMAIN rows = L
    BY DEF Totals
<1>4. ASSUME NEW l \in L
      PROVE  f[l] = Sigma(rev, Group(items, lab, l)) /\ g[l] = Sigma(qty, Group(items, lab, l))
  <2> DEFINE group == Group(items, lab, l)
  <2> DEFINE r == [item \in group |-> LineRevenue(item.line)]
  <2> DEFINE q == [item \in group |-> item.line.quantity]
  <2>1. group = {item \in items : lab[item] = l}
      BY DEF Group
  <2>2. rows[l] = [revenue |-> Summed(r), count |-> Summed(q)]
      BY <2>1 DEF Totals
  <2>3. f[l] = Summed(r) /\ g[l] = Summed(q)
      BY <1>3, <2>2
  <2>4. /\ DOMAIN r = group /\ DOMAIN q = group
        /\ \A item \in group : r[item] = rev[item] /\ q[item] = qty[item]
      BY <2>1
  <2>5. IsFiniteSet(group)
      BY <2>1, FS_Subset
  <2> HIDE DEF r, q, f, g, rev, qty, group
  <2> QED
      BY <2>3, <2>4, <2>5, SummedIsSigma, SumSame DEF group
<1>5. SumOf(rows) = [revenue |-> Summed(f), count |-> Summed(g)]
    BY DEF SumOf
<1>6. DOMAIN f = L /\ DOMAIN g = L /\ \A item \in items : lab[item] \in L
    BY <1>3
<1> HIDE DEF f, g, rev, qty, lab, L, rows
<1>7. Sigma(f, L) = Sigma(rev, items) /\ Sigma(g, L) = Sigma(qty, items)
    BY <1>1, <1>2, <1>4, <1>6, SumGroups
<1> QED
    BY <1>5, <1>6, <1>7, SummedIsSigma DEF rev, qty, rows

\* What the lines of each sale add up to.
Billed == [i \in DOMAIN sales |-> Summed([line \in sales[i].lines |-> LineRevenue(line)])]

\* The lines of the sales of a range are finitely many and add up to their bills.
LEMMA ItemsAgree ==
    ASSUME RecordsTyped, NEW v \in Users, NEW a \in Nat, NEW b \in Nat
    PROVE  LET items == PeriodItems(v, a, b)
           IN  /\ IsFiniteSet(items)
               /\ \A item \in items : item.line.quantity \in Nat /\ LineRevenue(item.line) \in Int
               /\ Sigma([item \in items |-> LineRevenue(item.line)], items) = Sigma(Billed, SalesIn(v, a, b))
<1> DEFINE ids == SalesIn(v, a, b)
<1> DEFINE of(i) == {[sale |-> i, line |-> line] : line \in sales[i].lines}
<1> DEFINE items == PeriodItems(v, a, b)
<1> DEFINE rev == [item \in items |-> LineRevenue(item.line)]
<1> DEFINE lab == [item \in items |-> item.sale]
<1>1. items = UNION {of(i) : i \in ids}
    BY DEF PeriodItems
<1>2. ids \in SUBSET DOMAIN sales /\ IsFiniteSet(ids)
    BY SalesInFacts, TotalOfFacts
<1>3. \A i \in ids : /\ IsFiniteSet(sales[i].lines)
                     /\ \A line \in sales[i].lines : line.quantity \in Nat /\ LineRevenue(line) \in Int
    BY <1>2, SaleFacts
<1>4. \A i \in ids : of(i) \in SUBSET items /\ \A item \in of(i) : item.sale = i /\ item.line \in sales[i].lines
    BY <1>1
<1>5. \A item \in items : item.sale \in ids /\ item \in of(item.sale)
    BY <1>1
<1>6. \A item \in items : item.line.quantity \in Nat /\ LineRevenue(item.line) \in Int
    BY <1>3, <1>4, <1>5
<1>7. \A item \in items : rev[item] \in Int /\ rev[item] = LineRevenue(item.line)
    BY <1>6
\* The lines of one sale add up to its bill.
<1>8. ASSUME NEW i \in ids
      PROVE  IsFiniteSet(of(i)) /\ Sigma(rev, of(i)) = Billed[i]
  <2> DEFINE lines == sales[i].lines
  <2> DEFINE sub == [line \in lines |-> LineRevenue(line)]
  <2> DEFINE h == [line \in lines |-> [sale |-> i, line |-> line]]
  <2>1. \A line \in lines : h[line] \in of(i) /\ h[line].line = line
      OBVIOUS
  <2>2. \A x, y \in lines : h[x] = h[y] => x = y
      BY <2>1
  <2>3. \A line \in lines : h[line] \in items /\ sub[line] \in Int /\ rev[h[line]] = sub[line]
    <3>1. \A line \in lines : h[line] \in items
        BY <1>4, <2>1
    <3> HIDE DEF items, rev
    <3> QED
        BY <1>7, <2>1, <3>1
  <2>4. of(i) = {h[line] : line \in lines}
      OBVIOUS
  <2>5. DOMAIN sub = lines /\ Billed[i] = Summed(sub)
      BY <1>2 DEF Billed
  <2>6. IsFiniteSet(lines)
      BY <1>3
  <2> HIDE DEF of, sub, h, lines, rev, items
  <2>7. IsFiniteSet({h[line] : line \in lines}) /\ Sigma(rev, {h[line] : line \in lines}) = Sigma(sub, lines)
      BY <2>2, <2>3, <2>6, SumRenamed
  <2> QED
      BY <2>4, <2>5, <2>7, SummedIsSigma
<1>9. IsFiniteSet(items)
  <2> DEFINE ofs == [i \in ids |-> of(i)]
  <2>1. {of(i) : i \in ids} = {ofs[i] : i \in ids} /\ \A i \in ids : ofs[i] = of(i)
      OBVIOUS
  <2> HIDE DEF ofs, of, items
  <2>2. IsFiniteSet({ofs[i] : i \in ids})
      BY <1>2, LabelsFinite
  <2> QED
      BY <1>1, <1>8, <2>1, <2>2, FS_UNION
<1>10. \A i \in ids : Group(items, lab, i) = of(i)
  <2> SUFFICES ASSUME NEW i \in ids PROVE Group(items, lab, i) = of(i)
      OBVIOUS
  <2>1. \A item \in items : lab[item] = item.sale
      OBVIOUS
  <2> HIDE DEF items, of, lab
  <2> QED
      BY <1>4, <1>5, <2>1 DEF Group
<1>11. \A item \in items : lab[item] \in ids
    BY <1>5
<1> HIDE DEF items, of, lab, rev, ids
<1>12. Sigma(Billed, ids) = Sigma(rev, items)
    BY <1>2, <1>7, <1>8, <1>9, <1>10, <1>11, SumGroups
<1> QED
    BY <1>6, <1>9, <1>12 DEF items, rev, ids

\* What the customers of some sales owe or paid in one payment state.
LEMMA OwedAgrees ==
    ASSUME RecordsTyped, NEW ids \in SUBSET DOMAIN sales, NEW s \in PAYMENT_STATES, NEW rows,
           DOMAIN rows = {sales[i].customer : i \in ids},
           \A c \in DOMAIN rows : rows[c].states = ByState({i \in ids : sales[i].customer = c})
    PROVE  Summed([c \in DOMAIN rows |-> rows[c].states[s]]) = TotalOf({i \in ids : sales[i].status = s})
<1> DEFINE those == {i \in ids : sales[i].status = s}
<1> DEFINE lab == [i \in ids |-> sales[i].customer]
<1> DEFINE g == [c \in DOMAIN rows |-> rows[c].states[s]]
<1>1. /\ those \in SUBSET DOMAIN sales /\ IsFiniteSet(those) /\ \A i \in those : Amount[i] \in Int
      /\ TotalOf(those) = Sigma(Amount, those) /\ IsFiniteSet(ids)
    BY TotalOfFacts
<1>2. DOMAIN rows = {lab[i] : i \in ids} /\ \A i \in those : lab[i] \in DOMAIN rows
    OBVIOUS
<1>3. IsFiniteSet(DOMAIN rows)
  <2> HIDE DEF lab
  <2> QED
      BY <1>1, <1>2, LabelsFinite
<1>4. ASSUME NEW c \in DOMAIN rows PROVE g[c] = Sigma(Amount, Group(those, lab, c))
  <2> DEFINE his == {i \in ids : sales[i].customer = c}
  <2>1. g[c] = ByState(his)[s]
      OBVIOUS
  <2>2. {i \in his : sales[i].status = s} = Group(those, lab, c)
      BY DEF Group
  <2> HIDE DEF his, g
  <2>3. g[c] = TotalOf({i \in his : sales[i].status = s})
      BY <2>1 DEF ByState
  <2>4. Group(those, lab, c) \in SUBSET DOMAIN sales
      BY DEF Group
  <2> HIDE DEF lab, those
  <2> QED
      BY <2>2, <2>3, <2>4, TotalOfFacts
<1>5. DOMAIN g = DOMAIN rows
    OBVIOUS
<1> HIDE DEF g, lab, those
<1>6. Sigma(g, DOMAIN rows) = Sigma(Amount, those)
    BY <1>1, <1>2, <1>3, <1>4, SumGroups
<1> QED
    BY <1>1, <1>5, <1>6, SummedIsSigma DEF g, those

\* Sales in the three payment states are all sales.
LEMMA StatesAgree ==
    ASSUME RecordsTyped, NEW ids \in SUBSET DOMAIN sales
    PROVE  TotalOf(ids) = TotalOf({i \in ids : sales[i].status = "paid"})
                            + TotalOf({i \in ids : sales[i].status = "pending"})
                            + TotalOf({i \in ids : sales[i].status = "unknown"})
<1> DEFINE A == {i \in ids : sales[i].status = "paid"}
<1> DEFINE B == {i \in ids : sales[i].status = "pending"}
<1> DEFINE C == {i \in ids : sales[i].status = "unknown"}
<1>1. \A i \in ids : sales[i].status \in {"paid", "pending", "unknown"}
    BY SaleFacts DEF Sale, PAYMENT_STATES
<1>2. A \intersect B = {} /\ (A \union B) \intersect C = {} /\ ids = (A \union B) \union C
    BY <1>1
<1>3. /\ A \in SUBSET DOMAIN sales /\ B \in SUBSET DOMAIN sales /\ C \in SUBSET DOMAIN sales
      /\ A \union B \in SUBSET DOMAIN sales
    OBVIOUS
<1> HIDE DEF A, B, C
<1>4. /\ IsFiniteSet(A) /\ TotalOf(A) = Sigma(Amount, A) /\ \A i \in A : Amount[i] \in Int
      /\ IsFiniteSet(B) /\ TotalOf(B) = Sigma(Amount, B) /\ \A i \in B : Amount[i] \in Int
      /\ IsFiniteSet(C) /\ TotalOf(C) = Sigma(Amount, C) /\ \A i \in C : Amount[i] \in Int
      /\ IsFiniteSet(A \union B)
      /\ TotalOf(ids) = Sigma(Amount, ids)
    BY <1>3, TotalOfFacts
<1>5. Sigma(Amount, A \union B) = Sigma(Amount, A) + Sigma(Amount, B)
    BY <1>2, <1>4, SumSplit
<1>6. \A i \in (A \union B) \union C : Amount[i] \in Int
    BY <1>4
<1>7. Sigma(Amount, (A \union B) \union C) = Sigma(Amount, A \union B) + Sigma(Amount, C)
    BY <1>2, <1>4, <1>6, SumSplit
<1> QED
    BY <1>2, <1>4, <1>5, <1>7 DEF A, B, C

\* The sales of a range, with and without a customer.
LEMMA UnassignedAgree ==
    ASSUME RecordsTyped, NEW ids \in SUBSET DOMAIN sales, NEW T \in SUBSET ids
    PROVE  TotalOf(ids) = TotalOf(ids \ T) + TotalOf(T) /\ Cardinality(ids) = Cardinality(ids \ T) + Cardinality(T)
<1> DEFINE R == ids \ T
<1>1. R \in SUBSET DOMAIN sales /\ T \in SUBSET DOMAIN sales /\ R \union T = ids /\ R \intersect T = {}
    OBVIOUS
<1>2. /\ IsFiniteSet(R) /\ TotalOf(R) = Sigma(Amount, R) /\ \A i \in R : Amount[i] \in Int
      /\ IsFiniteSet(T) /\ TotalOf(T) = Sigma(Amount, T) /\ \A i \in T : Amount[i] \in Int
      /\ Cardinality(R) \in Nat /\ Cardinality(T) \in Nat
      /\ TotalOf(ids) = Sigma(Amount, ids)
    BY <1>1, TotalOfFacts
<1> HIDE DEF R
<1>3. Sigma(Amount, R \union T) = Sigma(Amount, R) + Sigma(Amount, T)
    BY <1>1, <1>2, SumSplit
<1>4. Cardinality(R \union T) = Cardinality(R) + Cardinality(T)
  <2>1. Cardinality(R \union T) = Cardinality(R) + Cardinality(T) - Cardinality(R \intersect T)
      BY <1>2, FS_Union
  <2>2. Cardinality(R \intersect T) = 0
      BY <1>1, FS_EmptySet
  <2> QED
      BY <1>2, <2>1, <2>2
<1> QED
    BY <1>1, <1>2, <1>3, <1>4 DEF R

\* The customer report: the customers by payment state and the sales without a
\* customer add up, and so do the months of the identified customers.
LEMMA CustomersAgree ==
    ASSUME RecordsTyped, NEW v \in Users, NEW a \in Nat, NEW b \in Nat
    PROVE  LET total     == SalesSummary(v, a, b)
               customers == CustomerReport(v, a, b)
               buyers    == DOMAIN customers.customers
               owed(s)   == Summed([c \in buyers |-> customers.customers[c].states[s]])
           IN  /\ total.revenue = customers.unassigned.revenue + owed("paid") + owed("pending") + owed("unknown")
               /\ SumOf(customers.months).count = total.count - customers.unassigned.count
<1> DEFINE all == SalesIn(v, a, b)
<1> DEFINE identified == {i \in all : sales[i].customer # Absent}
<1> DEFINE buyers == {sales[i].customer : i \in identified}
<1> DEFINE rows == [c \in buyers |->
        [tally |-> Tally({i \in identified : sales[i].customer = c}),
         states |-> ByState({i \in identified : sales[i].customer = c})]]
<1> DEFINE L == {MonthStart(d) : d \in a..b}
<1> DEFINE months == [m \in L |-> Tally({i \in identified : MonthStart(sales[i].day) = m})]
<1>1. {i \in {j \in VisibleTransactions(v) : ~sales[j].voided /\ sales[j].day <= today} : sales[i].day \in a..b} = all
    BY SaleFacts DEF SalesIn, VisibleTransactions
<1>2. /\ CustomerReport(v, a, b).customers = rows
      /\ CustomerReport(v, a, b).months = months
      /\ CustomerReport(v, a, b).unassigned = Tally(all \ identified)
    BY <1>1 DEF CustomerReport
<1>3. all \in SUBSET DOMAIN sales /\ identified \in SUBSET all /\ SalesSummary(v, a, b) = Tally(all)
    BY SalesInFacts
<1>4. DOMAIN rows = buyers
      /\ \A c \in buyers : rows[c].states = ByState({i \in identified : sales[i].customer = c})
    OBVIOUS
<1>5. \A m \in L : months[m] = Tally({i \in identified : MonthStart(sales[i].day) = m})
    OBVIOUS
<1>6. DOMAIN months = L /\ \A i \in identified : MonthStart(sales[i].day) \in L
    BY SalesInFacts
<1> DEFINE lab == [i \in identified |-> MonthStart(sales[i].day)]
<1>7. \A m \in L : months[m] = Tally(Group(identified, lab, m))
  <2> SUFFICES ASSUME NEW m \in L PROVE months[m] = Tally(Group(identified, lab, m))
      OBVIOUS
  <2>1. Group(identified, lab, m) = {i \in identified : MonthStart(sales[i].day) = m}
      BY DEF Group
  <2> QED
      BY <2>1
<1>8. IsFiniteSet(L)
  <2> DEFINE start == [d \in a..b |-> MonthStart(d)]
  <2>1. L = {start[d] : d \in a..b}
      OBVIOUS
  <2> HIDE DEF start, L
  <2> QED
      BY <2>1, PeriodStarts
<1>9. \A i \in identified : lab[i] \in L
    BY <1>6
<1> HIDE DEF rows, months, L, lab
<1>10. SumOf(months) = Tally(identified)
  <2> HIDE DEF identified, all
  <2> QED
      BY <1>3, <1>6, <1>7, <1>8, <1>9, TallyGroups
<1>11. \A s \in PAYMENT_STATES :
          Summed([c \in DOMAIN rows |-> rows[c].states[s]]) = TotalOf({i \in identified : sales[i].status = s})
  <2> HIDE DEF all
  <2>1. identified \in SUBSET DOMAIN sales
      BY <1>3
  <2>2. \A c \in DOMAIN rows : rows[c].states = ByState({i \in identified : sales[i].customer = c})
      BY <1>4
  <2>3. DOMAIN rows = {sales[i].customer : i \in identified}
      BY <1>4
  <2> HIDE DEF identified, buyers
  <2> QED
      BY <2>1, <2>2, <2>3, OwedAgrees
<1> HIDE DEF buyers, identified, all
<1>12. identified \in SUBSET DOMAIN sales
    BY <1>3
<1>13. TotalOf(identified) = TotalOf({i \in identified : sales[i].status = "paid"})
                            + TotalOf({i \in identified : sales[i].status = "pending"})
                            + TotalOf({i \in identified : sales[i].status = "unknown"})
    BY <1>12, StatesAgree
<1>14. /\ TotalOf(all) = TotalOf(all \ identified) + TotalOf(identified)
       /\ Cardinality(all) = Cardinality(all \ identified) + Cardinality(identified)
    BY <1>3, UnassignedAgree
<1>15. /\ \A S \in SUBSET DOMAIN sales : TotalOf(S) \in Int /\ Cardinality(S) \in Nat
       /\ all \ identified \in SUBSET DOMAIN sales
    BY <1>3, TotalOfFacts
<1>16. SumOf(months).count = Cardinality(all) - Cardinality(all \ identified)
    BY <1>3, <1>10, <1>14, <1>15 DEF Tally
<1>17. Tally(all).count = Cardinality(all) /\ Tally(all).revenue = TotalOf(all)
       /\ Tally(all \ identified).count = Cardinality(all \ identified)
       /\ Tally(all \ identified).revenue = TotalOf(all \ identified)
    BY DEF Tally
<1>18. TotalOf(all) = TotalOf(all \ identified)
              + Summed([c \in DOMAIN rows |-> rows[c].states["paid"]])
              + Summed([c \in DOMAIN rows |-> rows[c].states["pending"]])
              + Summed([c \in DOMAIN rows |-> rows[c].states["unknown"]])
  <2>1. /\ TotalOf(all \ identified) \in Int
        /\ TotalOf({i \in identified : sales[i].status = "paid"}) \in Int
        /\ TotalOf({i \in identified : sales[i].status = "pending"}) \in Int
        /\ TotalOf({i \in identified : sales[i].status = "unknown"}) \in Int
    <3>1. \A s : {i \in identified : sales[i].status = s} \in SUBSET DOMAIN sales
        BY <1>12
    <3> QED
        BY <1>15, <3>1
  <2> QED
      BY <1>11, <1>13, <1>14, <2>1 DEF PAYMENT_STATES
<1> QED
    BY <1>2, <1>3, <1>16, <1>17, <1>18

\* In a range without older sales the lines, and the gross sales, are the total.
LEMMA NewSalesAgree ==
    ASSUME RecordsInv, NEW v \in Users, NEW a \in Nat, NEW b \in Nat,
           \A i \in SalesIn(v, a, b) : i > Len(History)
    PROVE  /\ Sigma(Billed, SalesIn(v, a, b)) = SalesSummary(v, a, b).revenue
           /\ SalesDrivers(v, a, b).gross = SalesSummary(v, a, b).revenue
<1> DEFINE ids == SalesIn(v, a, b)
<1> DEFINE gross == [i \in ids |-> sales[i].gross]
<1>1. /\ RecordsTyped /\ ids \in SUBSET DOMAIN sales /\ IsFiniteSet(ids)
      /\ SalesSummary(v, a, b).revenue = Sigma(Amount, ids)
    BY SalesInFacts, TotalOfFacts DEF RecordsInv, Tally
<1>2. \A i \in ids : Billed[i] = Amount[i] /\ gross[i] = Amount[i] /\ Amount[i] \in Int
    BY <1>1, TotalOfFacts DEF RecordsInv, RecordedInFull, FullyBilled, Billed, Amount
<1>3. SalesDrivers(v, a, b).gross = Summed(gross) /\ DOMAIN gross = ids
    BY DEF SalesDrivers
<1> HIDE DEF gross, ids
<1>4. Sigma(Billed, ids) = Sigma(Amount, ids) /\ Sigma(gross, ids) = Sigma(Amount, ids)
    BY <1>1, <1>2, SumSame
<1> QED
    BY <1>1, <1>3, <1>4, SummedIsSigma DEF ids

LEMMA RecordsAgree == RecordsInv => ReportsAgree
<1> SUFFICES ASSUME RecordsInv, NEW r \in Ranges, NEW v \in Users
             PROVE  LET total     == SalesSummary(v, r[1], r[2])
                        drivers   == SalesDrivers(v, r[1], r[2])
                        sold      == SumOf(TopProducts(v, r[1], r[2]))
                        customers == CustomerReport(v, r[1], r[2])
                        history   == HistorySummary(v, r[1], r[2])
                        buyers    == DOMAIN customers.customers
                        owed(s)   == Summed([c \in buyers |-> customers.customers[c].states[s]])
                    IN  /\ SumOf(DailyBreakdown(v, r[1], r[2])) = total
                        /\ SumOf(WeeklyBreakdown(v, r[1], r[2])) = total
                        /\ SumOf(drivers.payment) = total
                        /\ total.revenue = customers.unassigned.revenue + owed("paid") + owed("pending") + owed("unknown")
                        /\ SumOf(customers.months).count = total.count - customers.unassigned.count
                        /\ history.total = total
                        /\ v = Admin => SumOf(RevenueReport([d \in r[1]..r[2] |-> WeekStart(d)], r[1], r[2])) = total
                        /\ SumOf(drivers.category) = sold /\ SumOf(drivers.family) = sold
                        /\ v = Admin => /\ SumOf(BestSellers(r[1], r[2])).count = sold.count
                                        /\ SumOf(SalesByCategory(r[1], r[2])).count = sold.count
                        /\ (\A i \in SalesIn(v, r[1], r[2]) : i > Len(History)) =>
                               sold.revenue = total.revenue /\ drivers.gross = total.revenue
    BY DEF ReportsAgree
<1>1. r[1] \in Nat /\ r[2] \in Nat /\ RecordsTyped
    BY ReportsAssumption DEF RecordsInv
<1>2. /\ SumOf(DailyBreakdown(v, r[1], r[2])) = SalesSummary(v, r[1], r[2])
      /\ SumOf(WeeklyBreakdown(v, r[1], r[2])) = SalesSummary(v, r[1], r[2])
      /\ SumOf(SalesDrivers(v, r[1], r[2]).payment) = SalesSummary(v, r[1], r[2])
    BY <1>1, DaysAgree, WeeksAgree, MethodsAgree
<1> DEFINE items == PeriodItems(v, r[1], r[2])
<1> DEFINE rev == Sigma([item \in items |-> LineRevenue(item.line)], items)
<1> DEFINE qty == Sigma([item \in items |-> item.line.quantity], items)
<1>3. \A column : SumOf(Totals(items, column)) = [revenue |-> rev, count |-> qty]
    BY <1>1, ItemsAgree, TotalsAgree
<1>4. rev = Sigma(Billed, SalesIn(v, r[1], r[2]))
    BY <1>1, ItemsAgree
<1>5. /\ SumOf(SalesDrivers(v, r[1], r[2]).category) = [revenue |-> rev, count |-> qty]
      /\ SumOf(SalesDrivers(v, r[1], r[2]).family) = [revenue |-> rev, count |-> qty]
      /\ SumOf(TopProducts(v, r[1], r[2])) = [revenue |-> rev, count |-> qty]
  <2> HIDE DEF rev, qty
  <2> QED
      BY <1>3 DEF SalesDrivers, TopProducts
<1>6. v = Admin => /\ SumOf(BestSellers(r[1], r[2])) = [revenue |-> rev, count |-> qty]
                   /\ SumOf(SalesByCategory(r[1], r[2])) = [revenue |-> rev, count |-> qty]
  <2> HIDE DEF rev, qty
  <2> QED
      BY <1>3 DEF BestSellers, SalesByCategory
<1>7. v = Admin => SumOf(RevenueReport([d \in r[1]..r[2] |-> WeekStart(d)], r[1], r[2])) = SalesSummary(v, r[1], r[2])
    BY <1>1, ChartAgrees
<1>8. HistorySummary(v, r[1], r[2]).total = SalesSummary(v, r[1], r[2])
  <2>1. {i \in VisibleTransactions(v) : sales[i].day \in r[1]..r[2] /\ ~sales[i].voided} = SalesIn(v, r[1], r[2])
      BY DEF SalesIn
  <2> QED
      BY <2>1 DEF HistorySummary, SalesSummary
<1>9. (\A i \in SalesIn(v, r[1], r[2]) : i > Len(History)) =>
          /\ rev = SalesSummary(v, r[1], r[2]).revenue
          /\ SalesDrivers(v, r[1], r[2]).gross = SalesSummary(v, r[1], r[2]).revenue
    BY <1>1, <1>4, NewSalesAgree
<1> HIDE DEF rev, qty, items
<1>10. /\ SumOf(SalesDrivers(v, r[1], r[2]).category) = SumOf(TopProducts(v, r[1], r[2]))
       /\ SumOf(SalesDrivers(v, r[1], r[2]).family) = SumOf(TopProducts(v, r[1], r[2]))
       /\ v = Admin => /\ SumOf(BestSellers(r[1], r[2])).count = SumOf(TopProducts(v, r[1], r[2])).count
                       /\ SumOf(SalesByCategory(r[1], r[2])).count = SumOf(TopProducts(v, r[1], r[2])).count
    BY <1>5, <1>6
<1>11. (\A i \in SalesIn(v, r[1], r[2]) : i > Len(History)) =>
          /\ SumOf(TopProducts(v, r[1], r[2])).revenue = SalesSummary(v, r[1], r[2]).revenue
          /\ SalesDrivers(v, r[1], r[2]).gross = SalesSummary(v, r[1], r[2]).revenue
    BY <1>5, <1>9
<1>12. LET total     == SalesSummary(v, r[1], r[2])
           customers == CustomerReport(v, r[1], r[2])
           buyers    == DOMAIN customers.customers
           owed(s)   == Summed([c \in buyers |-> customers.customers[c].states[s]])
       IN  /\ total.revenue = customers.unassigned.revenue + owed("paid") + owed("pending") + owed("unknown")
           /\ SumOf(customers.months).count = total.count - customers.unassigned.count
    BY <1>1, CustomersAgree
<1> QED
    BY <1>2, <1>7, <1>8, <1>10, <1>11, <1>12

\* All reports of a range tell the same, whatever is hidden now and whoever looks:
\* days, weeks, payment methods, customers and history are its total, products,
\* families and categories the same line amounts, which are that total where no
\* older sale with a discount or a missing price is among them
\* (reporting.services, report_service, the summary of the sales history).
THEOREM ReportsAlwaysAgree == Spec => []ReportsAgree
<1>1. Init => RecordsInv
    BY InitRecords
<1>2. RecordsInv /\ [Next]_vars => RecordsInv'
    BY NextRecords
<1>3. RecordsInv => ReportsAgree
    BY RecordsAgree
<1> QED
    BY <1>1, <1>2, <1>3, PTL DEF Spec

-----------------------------------------------------------------------------
(***************************************************************************)
(* For every number of sales, deliveries, years and months: automatic      *)
(* invoice numbers grow, no recorded number is repeated, and the batch     *)
(* numbers of a month are consecutive.                                     *)
(*                                                                         *)
(* Both counters work alike, and so do the invariants: the one request     *)
(* that holds the row of a counter knows its value (it was read under the  *)
(* lock), the others have read nothing yet, and every number given away    *)
(* so far is at most the committed value.                                  *)
(***************************************************************************)

(***************************************************************************)
(* Batch numbers.                                                          *)
(***************************************************************************)

BatchTypeOK ==
    /\ month \in Months
    /\ seq \in [Months -> Nat]
    /\ lock \in [Months -> Deliveries \union {Nobody}]
    /\ batches \in Seq(Months \X Nat)
    /\ stage \in [Deliveries -> {"begin", "row", "save", "received", "abandoned"}]
    /\ captured \in [Deliveries -> Months]
    /\ allotted \in [Deliveries -> Nat]

\* A delivery about to be saved holds the row of its month, and its number is
\* still the next one.
NumberReserved ==
    /\ \A d \in Deliveries :
         stage[d] = "save" => /\ lock[captured[d]] = d
                              /\ allotted[d] = seq[captured[d]] + 1
    /\ \A k \in Months :
         lock[k] # Nobody => stage[lock[k]] = "save" /\ captured[lock[k]] = k

\* The committed batches of a month have exactly the numbers up to its counter.
NumbersConsecutive ==
    /\ \A i \in DOMAIN batches : batches[i][2] \in 1..seq[batches[i][1]]
    /\ \A k \in Months : \A n \in 1..seq[k] : \E i \in DOMAIN batches : batches[i] = <<k, n>>

BatchInv == BatchTypeOK /\ NumberReserved /\ NumbersConsecutive

\* Every step of a delivery, and the turn of a month, keeps the numbers of
\* each month consecutive.
LEMMA NextBatchInv == BatchInv /\ [BatchNext]_batchVars => BatchInv'
<1> SUFFICES ASSUME BatchInv, [BatchNext]_batchVars PROVE BatchInv'
    OBVIOUS
<1> USE DEF BatchInv
<1>1. CASE NextMonth
    BY <1>1 DEF NextMonth, BatchTypeOK, NumberReserved, NumbersConsecutive
<1>2. ASSUME NEW d \in Deliveries, Begin(d) PROVE BatchInv'
    BY <1>2 DEF Begin, BatchTypeOK, NumberReserved, NumbersConsecutive
<1>3. ASSUME NEW d \in Deliveries, Allot(d) PROVE BatchInv'
  <2> USE <1>3 DEF Allot
  <2>1. BatchTypeOK' /\ NumbersConsecutive'
      BY DEF BatchTypeOK, NumbersConsecutive
  <2>2. NumberReserved'
      BY BatchAssumption DEF BatchTypeOK, NumberReserved
  <2> QED
      BY <2>1, <2>2
<1>4. ASSUME NEW d \in Deliveries, CommitBatch(d) PROVE BatchInv'
  <2> USE <1>4 DEF CommitBatch, BatchNumber
  <2> DEFINE k == captured[d]
  <2>1. /\ k \in Months /\ seq[k] \in Nat
        /\ lock[k] = d /\ allotted[d] = seq[k] + 1
      BY DEF BatchTypeOK, NumberReserved
  <2>2. ~ \E i \in DOMAIN batches : batches[i] = <<k, allotted[d]>>
      BY <2>1 DEF NumbersConsecutive
  <2>3. /\ stage' = [stage EXCEPT ![d] = "received"]
        /\ batches' = Append(batches, <<k, allotted[d]>>)
        /\ seq' = [seq EXCEPT ![k] = allotted[d]]
        /\ lock' = [lock EXCEPT ![k] = Nobody]
      BY <2>1, <2>2 DEF Unlock, BatchTypeOK
  <2>4. BatchTypeOK'
      BY <2>1, <2>3 DEF BatchTypeOK
  <2>5. NumberReserved'
      BY <2>1, <2>3, BatchAssumption DEF BatchTypeOK, NumberReserved
  <2>6. NumbersConsecutive'
    <3>1. /\ Len(batches) \in Nat /\ DOMAIN batches = 1..Len(batches)
          /\ DOMAIN batches' = 1..(Len(batches) + 1)
          /\ \A i \in 1..Len(batches) : batches'[i] = batches[i] /\ batches[i] \in Months \X Nat
          /\ batches'[Len(batches) + 1] = <<k, allotted[d]>>
        BY <2>3 DEF BatchTypeOK
    <3>2. \A m \in Months : seq'[m] = IF m = k THEN seq[k] + 1 ELSE seq[m]
        BY <2>1, <2>3 DEF BatchTypeOK
    <3>3. ASSUME NEW i \in DOMAIN batches' PROVE batches'[i][2] \in 1..seq'[batches'[i][1]]
      <4>1. CASE i = Len(batches) + 1
          BY <2>1, <3>1, <3>2, <4>1
      <4>2. CASE i \in 1..Len(batches)
        <5>1. /\ batches'[i] = batches[i] /\ batches[i][1] \in Months
              /\ batches[i][2] \in 1..seq[batches[i][1]]
            BY <3>1, <4>2 DEF NumbersConsecutive
        <5>2. \A m \in Months : seq[m] \in Nat /\ seq'[m] \in Nat /\ seq[m] <= seq'[m]
            BY <2>1, <3>2 DEF BatchTypeOK
        <5> QED
            BY <5>1, <5>2
      <4> QED
          BY <3>1, <4>1, <4>2
    <3>4. ASSUME NEW m \in Months, NEW n \in 1..seq'[m]
          PROVE  \E i \in DOMAIN batches' : batches'[i] = <<m, n>>
      <4>1. CASE m = k /\ n = seq[k] + 1
          BY <2>1, <3>1, <4>1
      <4>2. CASE n \in 1..seq[m]
          BY <3>1, <4>2 DEF NumbersConsecutive
      <4> QED
          BY <2>1, <3>2, <4>1, <4>2 DEF BatchTypeOK
    <3> QED
        BY <3>3, <3>4 DEF NumbersConsecutive
  <2> QED
      BY <2>4, <2>5, <2>6
<1>5. ASSUME NEW d \in Deliveries, AbandonBatch(d) PROVE BatchInv'
  <2> USE <1>5 DEF AbandonBatch, Unlock
  <2>1. BatchTypeOK' /\ NumbersConsecutive'
      BY DEF BatchTypeOK, NumbersConsecutive
  <2>2. NumberReserved'
      BY BatchAssumption DEF BatchTypeOK, NumberReserved
  <2> QED
      BY <2>1, <2>2
<1>6. CASE UNCHANGED batchVars
    BY <1>6 DEF batchVars, BatchTypeOK, NumberReserved, NumbersConsecutive
<1> QED
    BY <1>1, <1>2, <1>3, <1>4, <1>5, <1>6 DEF BatchNext, BatchStep

\* A month starts without numbers.
LEMMA InitBatchInv == BatchInit => BatchInv
BY BatchAssumption DEF BatchInit, BatchInv, BatchTypeOK, NumberReserved, NumbersConsecutive

\* The invariant says what NumbersNeverCollide asks for.
LEMMA BatchInvSuffices == BatchInv => NumbersNeverCollide
<1> SUFFICES ASSUME BatchInv PROVE NumbersNeverCollide
    OBVIOUS
<1>1. \A d \in Deliveries : stage[d] # "duplicate"
    BY DEF BatchInv, BatchTypeOK
<1>2. ASSUME NEW k \in Months, NEW n \in 1..Len(batches)
      PROVE  n <= seq[k] <=> \E i \in DOMAIN batches : batches[i] = <<k, n>>
    BY <1>2 DEF BatchInv, BatchTypeOK, NumbersConsecutive
<1> QED
    BY <1>1, <1>2 DEF NumbersNeverCollide

-----------------------------------------------------------------------------
(***************************************************************************)
(* Invoice numbers.                                                        *)
(***************************************************************************)

InvoiceTypeOK ==
    /\ TypeOK
    /\ ask \in [Sales -> Asks]
    /\ default \in [Sales -> 0..MaxValue]
    /\ entry \in [Sales -> [last : NoRow..MaxValue, number : Numbers,
                            source : {"none", "manual", "automatic"}]]
    /\ log \in Seq([sale : Sales, year : Years, number : Numbers, source : {"none", "manual", "automatic"}])

\* A sale that has read the counter holds its row until it ends, so that the
\* counter cannot overtake what it read.
RowHeld ==
    /\ \A s \in Sales :
         pc[s] \in {"assign", "sell"} => /\ holder[Year(s)] = s
                                         /\ counter[Year(s)] <= entry[s].last
    /\ \A y \in Years :
         holder[y] # Free => Year(holder[y]) = y /\ pc[holder[y]] \in {"assign", "sell"}

\* The number of a sale about to be committed is still not recorded.
NumberFree ==
    \A s \in Sales : pc[s] = "sell" =>
        \/ /\ entry[s].source = "automatic"
           /\ entry[s].number = Padded(entry[s].last)
           /\ counter[Year(s)] < entry[s].last
           /\ entry[s].number \notin Recorded(s, {"automatic", "manual", "legacy"})
        \/ /\ entry[s].source = "manual"
           /\ entry[s].number \notin Recorded(s, {"manual", "legacy"})

\* The automatic numbers of a year that were ever committed are at most its
\* counter, whether their sales still exist or not.
LogWithinCounter ==
    \A i \in DOMAIN log :
        log[i].source = "automatic" =>
            \E n \in Nat : log[i].number = Padded(n) /\ n <= counter[log[i].year]

InvoiceInv ==
    /\ InvoiceTypeOK
    /\ RowHeld
    /\ NumberFree
    /\ LogWithinCounter
    /\ AutomaticNumbersGrow

\* The places of a history are finite in number.
LEMMA LatestPlainNumber ==
    ASSUME NEW y \in Years, PlainHistory(y) # {}
    PROVE  PastNumbers[y][Max(PlainHistory(y))][1] \in 0..MaxValue
<1>1. PastNumbers[y] \in Seq(Nat \X {"padded", "plain", "other"})
    BY InvoiceAssumption
<1>2. PlainHistory(y) \subseteq 1..Len(PastNumbers[y]) /\ Len(PastNumbers[y]) \in Nat
    BY <1>1 DEF PlainHistory
<1>3. PlainHistory(y) \in SUBSET (0..Len(PastNumbers[y]))
    BY <1>2
<1>4. Max(PlainHistory(y)) \in PlainHistory(y)
    BY <1>2, <1>3, GreatestNatural
<1> QED
    BY <1>1, <1>4, InvoiceAssumption DEF PlainHistory

\* The initial state satisfies the invariant.
LEMMA InitInvoiceInv == InvoiceInit => InvoiceInv
<1> SUFFICES ASSUME InvoiceInit PROVE InvoiceInv
    OBVIOUS
<1>1. \A t \in recorded : t.year \in Years /\ t.source = "legacy"
    BY DEF InvoiceInit
<1>2. InvoiceTypeOK
    BY <1>1, InvoiceAssumption DEF InvoiceInit, InvoiceTypeOK, TypeOK, NoRow, NoEntry, Numbers
<1> QED
    BY <1>2 DEF InvoiceInit, InvoiceInv, RowHeld, NumberFree, LogWithinCounter, AutomaticNumbersGrow

\* A rollback keeps the invariant.
LEMMA AbandonInvoiceInv ==
    ASSUME InvoiceInv, NEW s \in Sales, NEW outcome \in {"failed", "conflict", "exhausted"},
           Abandon(s, outcome)
    PROVE  InvoiceInv'
<1> USE DEF InvoiceInv, Abandon, Goto
<1>1. /\ Year(s) \in Years
      /\ \A r \in Sales : Year(r)' = Year(r)
    BY InvoiceAssumption DEF InvoiceTypeOK, Year
<1>2. InvoiceTypeOK'
  <2>1. NoEntry \in [last : NoRow..MaxValue, number : Numbers,
                     source : {"none", "manual", "automatic"}]
      BY InvoiceAssumption DEF NoEntry, NoRow, Numbers
  <2>2. entry' \in [Sales -> [last : NoRow..MaxValue, number : Numbers,
                              source : {"none", "manual", "automatic"}]]
      BY <2>1 DEF InvoiceTypeOK
  <2>3. default' \in [Sales -> 0..MaxValue]
      BY InvoiceAssumption DEF InvoiceTypeOK
  <2> QED
      BY <1>1, <2>2, <2>3 DEF InvoiceTypeOK, TypeOK
<1>3. RowHeld'
    BY <1>1, InvoiceAssumption DEF InvoiceTypeOK, TypeOK, RowHeld
<1>4. NumberFree'
    BY <1>1 DEF InvoiceTypeOK, TypeOK, NumberFree, Recorded
<1>5. LogWithinCounter' /\ AutomaticNumbersGrow'
    BY DEF LogWithinCounter, AutomaticNumbersGrow
<1> QED
    BY <1>2, <1>3, <1>4, <1>5

\* Reading the row of the year under its lock keeps the invariant, whether the
\* row existed or is inserted with the default.
LEMMA ReadInvoiceInv ==
    ASSUME InvoiceInv, NEW s \in Sales, NEW value \in NoRow..MaxValue,
           counter[Year(s)] <= value, pc[s] \notin {"assign", "sell"},
           holder[Year(s)] = Free,
           holder' = [holder EXCEPT ![Year(s)] = s],
           entry' = [entry EXCEPT ![s].last = value],
           Goto(s, "assign"),
           UNCHANGED <<counter, recorded, log, ask, default>>
    PROVE  InvoiceInv'
<1> USE DEF InvoiceInv, Goto
<1>1. /\ Year(s) \in Years
      /\ \A r \in Sales : Year(r)' = Year(r)
    BY InvoiceAssumption DEF InvoiceTypeOK, Year
<1>2. InvoiceTypeOK'
    BY <1>1 DEF InvoiceTypeOK, TypeOK
<1>3. RowHeld'
    BY <1>1, InvoiceAssumption DEF InvoiceTypeOK, TypeOK, RowHeld
<1>4. NumberFree'
    BY <1>1 DEF InvoiceTypeOK, TypeOK, NumberFree, Recorded
<1>5. LogWithinCounter' /\ AutomaticNumbersGrow'
    BY DEF LogWithinCounter, AutomaticNumbersGrow
<1> QED
    BY <1>2, <1>3, <1>4, <1>5

\* Moving on without touching a row keeps the invariant.
LEMMA MoveInvoiceInv ==
    ASSUME InvoiceInv, NEW s \in Sales, pc[s] \notin {"assign", "sell"},
           NEW step \in {"default", "insert", "again"}, Goto(s, step),
           NEW value \in 0..MaxValue,
           default' = default \/ default' = [default EXCEPT ![s] = value],
           UNCHANGED <<counter, holder, recorded, log, ask, entry>>
    PROVE  InvoiceInv'
<1> USE DEF InvoiceInv, Goto
<1>1. \A r \in Sales : Year(r)' = Year(r)
    BY DEF InvoiceTypeOK, Year
<1>2. InvoiceTypeOK'
  <2>1. default' \in [Sales -> 0..MaxValue]
      BY DEF InvoiceTypeOK
  <2> QED
      BY <2>1 DEF InvoiceTypeOK, TypeOK
<1>3. RowHeld'
    BY <1>1, InvoiceAssumption DEF InvoiceTypeOK, TypeOK, RowHeld
<1>4. NumberFree'
    BY <1>1 DEF InvoiceTypeOK, TypeOK, NumberFree, Recorded
<1>5. LogWithinCounter' /\ AutomaticNumbersGrow'
    BY DEF LogWithinCounter, AutomaticNumbersGrow
<1> QED
    BY <1>2, <1>3, <1>4, <1>5

\* A number that is not recorded keeps the invariant: a paper number leaves the
\* counter alone, an automatic one is above it.
LEMMA AssignInvoiceInv ==
    ASSUME InvoiceInv, NEW s \in Sales, pc[s] = "assign",
           NEW e \in [last : NoRow..MaxValue, number : Numbers, source : {"manual", "automatic"}],
           entry' = [entry EXCEPT ![s] = e],
           \/ /\ e.source = "manual"
              /\ e.last = entry[s].last
              /\ e.number \notin Recorded(s, {"manual", "legacy"})
           \/ /\ e.source = "automatic"
              /\ entry[s].last < e.last
              /\ e.number = Padded(e.last)
              /\ e.number \notin Recorded(s, {"automatic", "manual", "legacy"}),
           Goto(s, "sell"),
           UNCHANGED <<counter, holder, recorded, log, ask, default>>
    PROVE  InvoiceInv'
<1> USE DEF InvoiceInv, Goto
<1>1. /\ \A r \in Sales : Year(r)' = Year(r) /\ Year(r) \in Years
      /\ \A y \in Years : counter[y] \in Int
      /\ \A r \in Sales : entry[r].last \in Int
      /\ e.last \in Int
    BY InvoiceAssumption DEF InvoiceTypeOK, TypeOK, Year, NoRow
<1>2. InvoiceTypeOK'
    BY DEF InvoiceTypeOK, TypeOK
<1>3. counter[Year(s)] <= entry[s].last
    BY DEF RowHeld
<1>4. RowHeld'
    BY <1>1, <1>3 DEF InvoiceTypeOK, TypeOK, RowHeld
<1>5. \A r \in Sales : \A S : Recorded(r, S)' = Recorded(r, S)
    BY <1>1 DEF Recorded
<1>6. NumberFree'
    BY <1>1, <1>3, <1>5 DEF InvoiceTypeOK, TypeOK, NumberFree
<1>7. LogWithinCounter' /\ AutomaticNumbersGrow'
    BY DEF LogWithinCounter, AutomaticNumbersGrow
<1> QED
    BY <1>2, <1>4, <1>6, <1>7

\* What appending to a sequence does.
LEMMA AppendFacts ==
    ASSUME NEW S, NEW q \in Seq(S), NEW x \in S
    PROVE  /\ Len(q) \in Nat
           /\ DOMAIN q = 1..Len(q)
           /\ DOMAIN Append(q, x) = 1..(Len(q) + 1)
           /\ \A i \in 1..Len(q) : Append(q, x)[i] = q[i]
           /\ Append(q, x)[Len(q) + 1] = x
OBVIOUS

\* The log of the committed numbers gets the one of the sale at its end.
LEMMA LogGrows ==
    ASSUME InvoiceTypeOK, NEW s \in Sales, CommitSale(s),
           NEW t \in [sale : Sales, year : Years, number : Numbers, source : {"manual", "automatic"}],
           t = [sale |-> s, year |-> Year(s), number |-> entry[s].number, source |-> entry[s].source]
    PROVE  /\ Len(log) \in Nat
           /\ DOMAIN log = 1..Len(log)
           /\ DOMAIN log' = 1..(Len(log) + 1)
           /\ \A i \in 1..Len(log) : log'[i] = log[i] /\ log[i].year \in Years
           /\ log'[Len(log) + 1] = t
<1> DEFINE Entries == [sale : Sales, year : Years, number : Numbers, source : {"none", "manual", "automatic"}]
<1>1. log' = Append(log, t)
    BY DEF CommitSale
<1>2. log \in Seq(Entries) /\ t \in Entries
    BY DEF InvoiceTypeOK
<1> HIDE DEF Entries
<1>3. \A i \in 1..Len(log) : log[i] \in Entries
    BY <1>2
<1>4. \A i \in 1..Len(log) : log[i].year \in Years
    BY <1>3 DEF Entries
<1> QED
    BY <1>1, <1>2, <1>4, AppendFacts

\* The commit keeps the invariant: the counter takes the value the sale holds,
\* and nobody else is about to record a number in its year.
LEMMA CommitInvoiceInv ==
    ASSUME InvoiceInv, NEW s \in Sales, CommitSale(s)
    PROVE  InvoiceInv'
<1> DEFINE t == [sale |-> s, year |-> Year(s), number |-> entry[s].number, source |-> entry[s].source]
<1> USE DEF InvoiceInv, Goto, CommitSale
<1>1. /\ \A r \in Sales : Year(r)' = Year(r) /\ Year(r) \in Years
      /\ \A y \in Years : counter[y] \in Int /\ counter[y] >= NoRow
      /\ entry[s].last \in NoRow..MaxValue
      /\ holder[Year(s)] = s
      /\ counter[Year(s)] <= entry[s].last
      /\ NoRow \in Int
    BY InvoiceAssumption DEF InvoiceTypeOK, TypeOK, Year, RowHeld, NoRow
<1>2. t \in [sale : Sales, year : Years, number : Numbers, source : {"manual", "automatic"}]
    BY <1>1 DEF InvoiceTypeOK, NumberFree
<1>3. InvoiceTypeOK'
  <2>1. NoEntry \in [last : NoRow..MaxValue, number : Numbers,
                     source : {"none", "manual", "automatic"}]
      BY InvoiceAssumption DEF NoEntry, NoRow, Numbers
  <2>2. /\ entry' \in [Sales -> [last : NoRow..MaxValue, number : Numbers,
                                 source : {"none", "manual", "automatic"}]]
        /\ default' \in [Sales -> 0..MaxValue]
      BY <2>1, InvoiceAssumption DEF InvoiceTypeOK
  <2>3. counter' \in [Years -> NoRow..MaxValue] /\ holder' \in [Years -> Sales \union {Free}]
      BY <1>1 DEF InvoiceTypeOK, TypeOK
  <2>4. /\ pc' \in [Sales -> {"start", "default", "insert", "again", "assign", "sell",
                              "committed", "failed", "conflict", "exhausted"}]
        /\ \A u \in recorded' : u.year \in Years /\ u.source \in {"automatic", "manual", "legacy"}
      BY <1>2 DEF InvoiceTypeOK, TypeOK
  <2>5. log' \in Seq([sale : Sales, year : Years, number : Numbers, source : {"none", "manual", "automatic"}])
      BY <1>2 DEF InvoiceTypeOK
  <2> QED
      BY <2>2, <2>3, <2>4, <2>5 DEF InvoiceTypeOK, TypeOK
<1>4. \A r \in Sales : r # s /\ pc[r] \in {"assign", "sell"} => Year(r) # Year(s)
    BY <1>1 DEF RowHeld
<1>5. RowHeld'
    BY <1>1, <1>4, InvoiceAssumption DEF InvoiceTypeOK, TypeOK, RowHeld
<1>6. NumberFree'
  <2> SUFFICES ASSUME NEW r \in Sales, pc'[r] = "sell"
               PROVE  /\ r # s /\ pc[r] = "sell" /\ Year(r) # Year(s)
                      /\ entry'[r] = entry[r] /\ counter'[Year(r)] = counter[Year(r)]
                      /\ \A S : Recorded(r, S)' = Recorded(r, S)
      BY <1>1 DEF NumberFree
  <2>1. r # s /\ pc[r] = "sell" /\ Year(r) # Year(s)
      BY <1>4 DEF InvoiceTypeOK, TypeOK
  <2>2. \A S : {u \in recorded' : u.year = Year(r) /\ u.source \in S}
                 = {u \in recorded : u.year = Year(r) /\ u.source \in S}
      BY <2>1
  <2>3. \A S : Recorded(r, S)' = Recorded(r, S)
      BY <1>1, <2>2 DEF Recorded
  <2> QED
      BY <1>1, <2>1, <2>3 DEF InvoiceTypeOK, TypeOK
<1>7. /\ Len(log) \in Nat /\ DOMAIN log = 1..Len(log) /\ DOMAIN log' = 1..(Len(log) + 1)
      /\ \A i \in 1..Len(log) : log'[i] = log[i] /\ log[i].year \in Years
      /\ log'[Len(log) + 1] = t
    BY <1>2, LogGrows
<1>8. \A y \in Years : counter[y] <= counter'[y] /\ counter'[y] \in Int
    BY <1>1 DEF InvoiceTypeOK, TypeOK
<1>9. t.source = "automatic" =>
        /\ t.number = Padded(entry[s].last)
        /\ counter[Year(s)] < entry[s].last
        /\ entry[s].last \in Nat
    BY <1>1 DEF NumberFree, NoRow
<1>10. LogWithinCounter'
  <2> SUFFICES ASSUME NEW i \in DOMAIN log', log'[i].source = "automatic"
               PROVE  \E n \in Nat : log'[i].number = Padded(n) /\ n <= counter'[log'[i].year]
      BY DEF LogWithinCounter
  <2>1. CASE i \in 1..Len(log)
    <3>1. PICK n \in Nat : log[i].number = Padded(n) /\ n <= counter[log[i].year]
        BY <1>7, <2>1 DEF LogWithinCounter
    <3>2. n <= counter'[log[i].year]
        BY <1>1, <1>7, <1>8, <2>1, <3>1
    <3> QED
        BY <1>7, <2>1, <3>1, <3>2
  <2>2. CASE i = Len(log) + 1
      BY <1>1, <1>7, <1>9, <2>2 DEF InvoiceTypeOK, TypeOK
  <2> QED
      BY <1>7, <2>1, <2>2
<1>11. AutomaticNumbersGrow'
  <2> SUFFICES ASSUME NEW i \in DOMAIN log', NEW j \in DOMAIN log', i < j,
                      log'[i].year = log'[j].year,
                      log'[i].source = "automatic", log'[j].source = "automatic"
               PROVE  log'[i].number[1] < log'[j].number[1]
      BY DEF AutomaticNumbersGrow
  <2>1. CASE j \in 1..Len(log)
      BY <1>7, <2>1 DEF AutomaticNumbersGrow
  <2>2. CASE j = Len(log) + 1
    <3>1. i \in 1..Len(log) /\ log[i].year = Year(s)
        BY <1>7, <2>2
    <3>2. PICK n \in Nat : log[i].number = Padded(n) /\ n <= counter[Year(s)]
        BY <1>7, <3>1 DEF LogWithinCounter
    <3>3. n < entry[s].last
        BY <1>1, <1>7, <1>9, <2>2, <3>2
    <3> QED
        BY <1>7, <1>9, <2>2, <3>1, <3>2, <3>3 DEF Padded
  <2> QED
      BY <1>7, <2>1, <2>2
<1> QED
    BY <1>3, <1>5, <1>6, <1>10, <1>11

\* The next automatic number lies above the counter and is not recorded.
LEMMA AutomaticInvoiceInv ==
    ASSUME InvoiceInv, NEW s \in Sales, AssignAutomatic(s)
    PROVE  InvoiceInv'
<1> DEFINE free == {n \in (entry[s].last + 1)..MaxValue :
                      Padded(n) \notin Recorded(s, {"automatic", "manual", "legacy"})}
<1>1. CASE free = {}
    BY <1>1, AbandonInvoiceInv DEF AssignAutomatic
<1>2. CASE free # {}
  <2> DEFINE e == [last |-> Min(free), number |-> Padded(Min(free)), source |-> "automatic"]
  <2>1. entry[s].last \in NoRow..MaxValue /\ NoRow = -1 /\ MaxValue \in Nat
      BY InvoiceAssumption DEF InvoiceInv, InvoiceTypeOK, NoRow
  <2>2. free \in SUBSET Nat
      BY <2>1
  <2>3. Min(free) \in free
      BY <1>2, <2>2, LeastNatural
  <2>4. Min(free) \in Nat /\ Min(free) <= MaxValue /\ entry[s].last < Min(free)
      BY <2>1, <2>3
  <2>5. e \in [last : NoRow..MaxValue, number : Numbers, source : {"manual", "automatic"}]
    <3>1. Padded(Min(free)) \in Numbers
        BY <2>4 DEF Numbers, Padded
    <3>2. Min(free) \in NoRow..MaxValue
        BY <2>1, <2>4
    <3> HIDE DEF free
    <3> QED
        BY <3>1, <3>2
  <2>6. e.number \notin Recorded(s, {"automatic", "manual", "legacy"})
      BY <2>3
  <2>7. /\ pc[s] = "assign"
        /\ entry' = [entry EXCEPT ![s] = e]
        /\ Goto(s, "sell")
        /\ UNCHANGED <<counter, holder, recorded, log, ask, default>>
      BY <1>2 DEF AssignAutomatic
  <2> HIDE DEF free
  <2> QED
      BY <2>4, <2>5, <2>6, <2>7, AssignInvoiceInv
<1> QED
    BY <1>1, <1>2

\* Every step of the sales keeps the invariant.
LEMMA NextInvoiceInv == InvoiceInv /\ [InvoiceNext]_invoiceVars => InvoiceInv'
<1> SUFFICES ASSUME InvoiceInv, [InvoiceNext]_invoiceVars PROVE InvoiceInv'
    OBVIOUS
<1>1. ASSUME NEW s \in Sales
      PROVE  /\ Year(s) \in Years
             /\ counter[Year(s)] \in NoRow..MaxValue
             /\ default[s] \in 0..MaxValue
             /\ MaxValue \in Nat /\ NoRow = -1
    BY InvoiceAssumption DEF InvoiceInv, InvoiceTypeOK, TypeOK, Year, NoRow
<1>2. ASSUME NEW s \in Sales, pc[s] \notin {"assign", "sell"}, LockRow(s) PROVE InvoiceInv'
  <2>1. counter[Year(s)] \in NoRow..MaxValue /\ counter[Year(s)] <= counter[Year(s)]
      BY <1>1, <1>2
  <2> QED
      BY <1>2, <2>1, ReadInvoiceInv DEF LockRow
<1>3. ASSUME NEW s \in Sales, GetRow(s) PROVE InvoiceInv'
  <2>1. CASE counter[Year(s)] = NoRow
      BY <1>1, <1>3, <2>1, MoveInvoiceInv DEF GetRow
  <2>2. CASE counter[Year(s)] # NoRow
      BY <1>2, <1>3, <2>2 DEF GetRow
  <2> QED
      BY <2>1, <2>2
<1>4. ASSUME NEW s \in Sales, InitialValue(s) PROVE InvoiceInv'
  <2> DEFINE value == IF PlainHistory(Year(s)) = {} THEN 0
                      ELSE PastNumbers[Year(s)][Max(PlainHistory(Year(s)))][1]
  <2>1. value \in 0..MaxValue
      BY <1>1, LatestPlainNumber
  <2>2. /\ pc[s] = "default" /\ Goto(s, "insert")
        /\ default' = [default EXCEPT ![s] = value]
        /\ UNCHANGED <<counter, holder, recorded, log, ask, entry>>
      BY <1>4 DEF InitialValue
  <2> HIDE DEF value
  <2> QED
      BY <2>1, <2>2, MoveInvoiceInv
<1>5. ASSUME NEW s \in Sales, InsertRow(s) PROVE InvoiceInv'
  <2>1. CASE counter[Year(s)] # NoRow /\ Goto(s, "again") /\ UNCHANGED <<holder, entry>>
      BY <1>1, <1>5, <2>1, MoveInvoiceInv DEF InsertRow
  <2>2. CASE /\ counter[Year(s)] = NoRow
             /\ holder[Year(s)] = Free
             /\ holder' = [holder EXCEPT ![Year(s)] = s]
             /\ entry' = [entry EXCEPT ![s].last = default[s]]
             /\ Goto(s, "assign")
    <3>1. default[s] \in NoRow..MaxValue /\ counter[Year(s)] <= default[s]
        BY <1>1, <2>2
    <3> QED
        BY <1>5, <2>2, <3>1, ReadInvoiceInv DEF InsertRow
  <2> QED
      BY <1>5, <2>1, <2>2 DEF InsertRow
<1>6. ASSUME NEW s \in Sales, GetAgain(s) PROVE InvoiceInv'
    BY <1>2, <1>6 DEF GetAgain
<1>7. ASSUME NEW s \in Sales, AssignPaper(s) PROVE InvoiceInv'
  <2>1. CASE ask[s].paper \in Recorded(s, {"manual", "legacy"})
      BY <1>7, <2>1, AbandonInvoiceInv DEF AssignPaper
  <2>2. CASE ask[s].paper \notin Recorded(s, {"manual", "legacy"})
    <3> DEFINE e == [entry[s] EXCEPT !.number = ask[s].paper, !.source = "manual"]
    <3>1. /\ pc[s] = "assign" /\ Goto(s, "sell")
          /\ entry' = [entry EXCEPT ![s] = e]
          /\ UNCHANGED <<counter, holder, recorded, log, ask, default>>
        BY <1>7, <2>2 DEF AssignPaper, InvoiceInv, InvoiceTypeOK
    <3>2. /\ e \in [last : NoRow..MaxValue, number : Numbers, source : {"manual", "automatic"}]
          /\ e.source = "manual" /\ e.last = entry[s].last /\ e.number = ask[s].paper
        BY DEF InvoiceInv, InvoiceTypeOK, Numbers
    <3> HIDE DEF e
    <3> QED
        BY <2>2, <3>1, <3>2, AssignInvoiceInv
  <2> QED
      BY <2>1, <2>2
<1>8. ASSUME NEW s \in Sales, AssignAutomatic(s) PROVE InvoiceInv'
    BY <1>8, AutomaticInvoiceInv
<1>9. ASSUME NEW s \in Sales, CommitSale(s) PROVE InvoiceInv'
    BY <1>9, CommitInvoiceInv
<1>10. ASSUME NEW s \in Sales, FailSale(s) PROVE InvoiceInv'
    BY <1>10, AbandonInvoiceInv DEF FailSale
<1>11. CASE DeleteSale
  <2> USE <1>11 DEF DeleteSale, InvoiceInv
  <2>1. recorded' \subseteq recorded
      OBVIOUS
  <2>2. \A r \in Sales : \A S : Recorded(r, S)' \subseteq Recorded(r, S)
      BY <2>1 DEF Recorded, Year
  <2>3. InvoiceTypeOK' /\ RowHeld'
      BY <2>1 DEF InvoiceTypeOK, TypeOK, RowHeld, Year
  <2>4. NumberFree'
      BY <2>2 DEF NumberFree, Year
  <2> QED
      BY <2>3, <2>4 DEF LogWithinCounter, AutomaticNumbersGrow
<1>12. CASE UNCHANGED invoiceVars
    BY <1>12 DEF invoiceVars, InvoiceInv, InvoiceTypeOK, TypeOK, RowHeld, NumberFree, Recorded, Year,
                 LogWithinCounter, AutomaticNumbersGrow
<1> QED
    BY <1>3, <1>4, <1>5, <1>6, <1>7, <1>8, <1>9, <1>10, <1>11, <1>12
    DEF InvoiceNext, Step, Finished

\* A step of one counter leaves the other one alone.
LEMMA CountersApart ==
    [NumbersNext]_allVars => [InvoiceNext]_invoiceVars /\ [BatchNext]_batchVars
BY DEF NumbersNext, AllReceived, allVars, invoiceVars, batchVars

\* Both invariants hold in every reachable state.
LEMMA NumbersInvHolds == NumbersSpec => []InvoiceInv /\ []BatchInv
<1>1. NumbersInit => InvoiceInv /\ BatchInv
    BY InitInvoiceInv, InitBatchInv DEF NumbersInit
<1> QED
    BY <1>1, CountersApart, NextInvoiceInv, NextBatchInv, PTL DEF NumbersSpec

-----------------------------------------------------------------------------
\* The automatic invoice numbers of a year only grow in commit order, whatever
\* sales race to create its counter, fail, or are deleted later.
THEOREM AutomaticNumbersAlwaysGrow == NumbersSpec => []AutomaticNumbersGrow
<1>1. InvoiceInv => AutomaticNumbersGrow
    BY DEF InvoiceInv
<1> QED
    BY <1>1, NumbersInvHolds, PTL

\* No committing sale repeats a number recorded in its year, but for a paper
\* number over an automatic one.
THEOREM RecordedNumberIsNew == NumbersSpec => NumberIsNew
<1>1. InvoiceInv /\ [InvoiceNext]_invoiceVars =>
        [\A t \in recorded' \ recorded : \A u \in recorded :
             u.year = t.year /\ u.number = t.number =>
                 t.source = "manual" /\ u.source = "automatic"]_invoiceVars
  <2> SUFFICES ASSUME InvoiceInv, InvoiceNext,
                      NEW t \in recorded' \ recorded, NEW u \in recorded,
                      u.year = t.year, u.number = t.number
               PROVE  t.source = "manual" /\ u.source = "automatic"
      BY DEF invoiceVars
  <2>1. PICK s \in Sales : CommitSale(s)
      BY DEF InvoiceNext, Step, GetRow, LockRow, InitialValue, InsertRow, GetAgain, AssignPaper,
             AssignAutomatic, Abandon, FailSale, DeleteSale, Finished, invoiceVars
  <2>2. /\ pc[s] = "sell"
        /\ t = [sale |-> s, year |-> Year(s), number |-> entry[s].number, source |-> entry[s].source]
      BY <2>1 DEF CommitSale
  <2>3. u.source \in {"automatic", "manual", "legacy"}
      BY DEF InvoiceInv, InvoiceTypeOK, TypeOK
  <2>4. \A S : u.source \in S => entry[s].number \in Recorded(s, S)
      BY <2>2 DEF Recorded
  <2> QED
      BY <2>2, <2>3, <2>4 DEF InvoiceInv, NumberFree
<1> QED
    BY <1>1, CountersApart, NumbersInvHolds, PTL DEF NumbersSpec, NumberIsNew

\* No delivery is refused for its batch number, and the numbers of a month
\* have no gap.
THEOREM BatchNumbersNeverCollide == NumbersSpec => []NumbersNeverCollide
BY BatchInvSuffices, NumbersInvHolds, PTL
=============================================================================
