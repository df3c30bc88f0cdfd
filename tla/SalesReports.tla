---------------------------- MODULE SalesReports ----------------------------
(***************************************************************************)
(* The sales reports (reporting.services, sales.services.report_service),  *)
(* the summary of the sales history, and get_report, which serves them     *)
(* from the cache.                                                         *)
(*                                                                         *)
(* A report is an operator of the stored sales; v is its viewer, a..b its  *)
(* inclusive range of business days.  The data version of the cache is a   *)
(* counter here that every commit advances: how it really follows the      *)
(* commits is the subject of CacheCoherence.                               *)
(***************************************************************************)
EXTENDS SaleRecords

CONSTANTS
    WeekLength, MonthLength,    \* the calendar, scaled down
    Ranges,         \* the ranges <<a, b>> the properties look at
    MaxVersion,     \* bound: no refresh from this version on
    Askers,         \* report requests in progress at the same time
    None            \* no cached report, or no request

VARIABLES
    version,        \* data_version
    cached,         \* cached[identity]: what the stored report was built from;
                    \*   bound: the cache evicts the others
    asks,           \* asks[k]: a report request
    slot,           \* holder of the advisory lock of refreshes, or None
    cooldown,       \* a refresh took place within the last minute
    desk            \* bound: besides cancellations a behaviour follows new sales
                    \*   or payments, with catalogue edits, or report requests

ASSUME ReportsAssumption ==
    /\ WeekLength \in Nat \ {0} /\ MonthLength \in Nat \ {0}
    /\ Ranges \subseteq Nat \X Nat
    /\ MaxVersion \in Nat
    /\ None \notin Askers

reportVars == <<version, cached, asks, slot, cooldown, desk>>
vars == <<recordVars, reportVars>>

-----------------------------------------------------------------------------
Lower(x, y)  == IF x < y THEN x ELSE y
Higher(x, y) == IF x < y THEN y ELSE x

TotalOf(ids) == Summed([i \in ids |-> sales[i].total])

\* Revenue and number of a set of sales.
Tally(ids) == [revenue |-> TotalOf(ids), count |-> Cardinality(ids)]

SumOf(rows) ==
    [revenue |-> Summed([x \in DOMAIN rows |-> rows[x].revenue]),
     count   |-> Summed([x \in DOMAIN rows |-> rows[x].count])]

\* Valid sales of the range.
SalesIn(v, a, b) == {i \in VisibleTransactions(v) : ~sales[i].voided /\ sales[i].day \in a..b}

SalesSummary(v, a, b) == Tally(SalesIn(v, a, b))

\* The lines of these sales.
PeriodItems(v, a, b) == UNION {{[sale |-> i, line |-> line] : line \in sales[i].lines} : i \in SalesIn(v, a, b)}

\* The amount of a line, or quantity times price where none was stored.
LineRevenue(line) == IF line.amount = Absent THEN Subtotal(line) ELSE line.amount

\* The name saved with the line, with the variant saved with it or, where none
\* was, the one the product has now.
FamilyLabel(item)   == item.line.name
CategoryLabel(item) == item.line.category
ProductLabel(item)  ==
    <<item.line.name, IF item.line.variant = Absent THEN products[item.line.product].variant ELSE item.line.variant>>

Labelled(items, column) ==
    [item \in items |-> CASE column = "family"   -> FamilyLabel(item)
                          [] column = "category" -> CategoryLabel(item)
                          [] column = "product"  -> ProductLabel(item)
                          [] column = "identity" -> <<item.line.product, ProductLabel(item)>>]

\* GROUP BY: quantity and revenue of the items by a column.
Totals(items, column) ==
    LET labels == Labelled(items, column)
    IN  [label \in {labels[item] : item \in items} |->
        LET group == {item \in items : labels[item] = label}
        IN  [revenue |-> Summed([item \in group |-> LineRevenue(item.line)]),
             count   |-> Summed([item \in group |-> item.line.quantity])]]

TopProducts(v, a, b) == Totals(PeriodItems(v, a, b), "product")

SalesDrivers(v, a, b) ==
    LET ids == SalesIn(v, a, b)
    IN  [gross    |-> Summed([i \in ids |-> sales[i].gross]),
         payment  |-> [method \in {sales[i].method : i \in ids} |-> Tally({i \in ids : sales[i].method = method})],
         category |-> Totals(PeriodItems(v, a, b), "category"),
         family   |-> Totals(PeriodItems(v, a, b), "family")]

\* The range of the same length right before a..b.
PreviousSummary(v, a, b) == SalesSummary(v, a - 1 - (b - a), a - 1)

DailySales(v, a, b) ==
    [summary |-> SalesSummary(v, a, b), previous |-> PreviousSummary(v, a, b),
     items |-> TopProducts(v, a, b), drivers |-> SalesDrivers(v, a, b)]

DailyBreakdown(v, a, b) == [d \in a..b |-> SalesSummary(v, d, d)]

WeeklySales(v, a, b) ==
    [summary |-> SalesSummary(v, a, b), previous |-> PreviousSummary(v, a, b),
     days |-> DailyBreakdown(v, a, b),
     top |-> TopProducts(v, a, b), drivers |-> SalesDrivers(v, a, b)]

WeekStart(d)  == d - (d % WeekLength)
MonthStart(d) == d - (d % MonthLength)

\* Mutation: the last week of the range is left out when it is not complete.
FullWeeks(v, a, b) ==
    [w \in {WeekStart(d) : d \in {x \in a..b : WeekStart(x) + WeekLength - 1 <= b}} |->
        SalesSummary(v, Higher(w, a), Lower(w + WeekLength - 1, b))]

\* The weeks that the range touches, cut at its ends.
WeeklyBreakdown(v, a, b) ==
    [w \in {WeekStart(d) : d \in a..b} |-> SalesSummary(v, Higher(w, a), Lower(w + WeekLength - 1, b))]

\* The days compared with this month so far, unless the range was chosen.
PreviousMonthToDate(v, a) ==
    LET start == MonthStart(a - 1)
    IN  SalesSummary(v, start, Lower(a - 1, start + today - MonthStart(today)))

MonthlySales(v, a, b, custom) ==
    [summary |-> SalesSummary(v, a, b),
     previous |-> IF custom THEN PreviousSummary(v, a, b) ELSE PreviousMonthToDate(v, a),
     weeks |-> WeeklyBreakdown(v, a, b),
     top |-> TopProducts(v, a, b), drivers |-> SalesDrivers(v, a, b)]

-----------------------------------------------------------------------------
\* Amounts by payment state.
ByState(ids) == [s \in PAYMENT_STATES |-> TotalOf({i \in ids : sales[i].status = s})]

\* customer_report: identified customers by identity and month, the rest apart.
CustomerReport(v, a, b) ==
    LET history    == {i \in VisibleTransactions(v) : ~sales[i].voided /\ sales[i].day <= today}
        all        == {i \in history : sales[i].day \in a..b}
        identified == {i \in all : sales[i].customer # Absent}
        buyers     == {sales[i].customer : i \in identified}
        of(c, ids) == {i \in ids : sales[i].customer = c}
    IN  [customers  |-> [c \in buyers |-> [tally |-> Tally(of(c, identified)), states |-> ByState(of(c, identified))]],
         months     |-> [m \in {MonthStart(d) : d \in a..b} |->
                           Tally({i \in identified : MonthStart(sales[i].day) = m})],
         unassigned |-> Tally(all \ identified),
         lifetime   |-> TotalOf({i \in history : sales[i].customer # Absent})]

\* The totals above the sales history.
HistorySummary(v, a, b) ==
    LET ids == {i \in VisibleTransactions(v) : sales[i].day \in a..b /\ ~sales[i].voided}
    IN  [total |-> Tally(ids), states |-> ByState(ids)]

\* The charts of the administrator; no visibility rule applies to them.
RevenueReport(bucket, a, b) ==
    LET ids == {i \in DOMAIN sales : ~sales[i].voided /\ sales[i].day \in a..b}
    IN  [x \in {bucket[sales[i].day] : i \in ids} |-> Tally({i \in ids : bucket[sales[i].day] = x})]

BestSellers(a, b) == Totals(PeriodItems(Admin, a, b), "identity")

SalesByCategory(a, b) == Totals(PeriodItems(Admin, a, b), "category")

-----------------------------------------------------------------------------
(***************************************************************************)
(* Serving.  Of a stored report the model keeps what it was built from: by *)
(* the definitions above that determines its contents.                     *)
(***************************************************************************)

\* The cache key of a report with the default range, which ends today.
Identity(v) == [version |-> version, scope |-> v, day |-> today]

\* The state a report is built from now, for v.
Source(v) == [version |-> version, scope |-> v, day |-> today]

NoAsk == [state |-> "none", viewer |-> Admin, asOf |-> None, key |-> None, refresh |-> FALSE, answer |-> None]

ReportsInit ==
    /\ version = 1
    /\ cached = <<>>
    /\ asks = [k \in Askers |-> NoAsk]
    /\ slot = None
    /\ cooldown = FALSE
    /\ desk \in {"counter", "payments", "reports"}

\* A preview or an export: the key is taken first, then the cache is read; a
\* miss or a failing cache makes the request build its report.
AskReport(k, v) ==
    LET key == Identity(v)
        ask == [NoAsk EXCEPT !.viewer = v, !.asOf = Source(v), !.key = key]
    IN  /\ asks[k].state \in {"none", "answered"}
        /\ \/ /\ key \in DOMAIN cached
              /\ asks' = [asks EXCEPT ![k] = [ask EXCEPT !.state = "answered", !.answer = cached[key]]]
           \/ asks' = [asks EXCEPT ![k] = [ask EXCEPT !.state = "building"]]
        /\ UNCHANGED <<version, cached, slot, cooldown, desk>>

\* A refresh takes the slot, retires what is cached and rebuilds.  Without the
\* slot, or within a minute, it is answered at once and changes nothing.
RefreshReports(k, v) ==
    /\ asks[k].state \in {"none", "answered"}
    /\ slot = None
    /\ ~cooldown
    /\ version < MaxVersion
    /\ slot' = k
    /\ cooldown' = TRUE
    /\ version' = version + 1
    /\ asks' = [asks EXCEPT ![k] = [NoAsk EXCEPT !.state = "building", !.viewer = v, !.refresh = TRUE,
                                    !.asOf = [Source(v) EXCEPT !.version = version + 1],
                                    !.key = [Identity(v) EXCEPT !.version = version + 1]]]
    /\ UNCHANGED <<cached, desk>>

\* The report is built from the database as it is now and stored under the key
\* taken before, unless the cache refuses.
BuildReport(k) ==
    LET built == Source(asks[k].viewer)
    IN  /\ asks[k].state = "building"
        /\ cached' \in {cached, [key \in {asks[k].key} |-> built]}
        /\ asks' = [asks EXCEPT ![k].state = "answered", ![k].answer = built]
        /\ slot' = IF slot = k THEN None ELSE slot
        /\ UNCHANGED <<version, cooldown, desk>>

\* The minute after a refresh is over.
Cooled ==
    /\ cooldown
    /\ slot = None
    /\ cooldown' = FALSE
    /\ UNCHANGED <<version, cached, asks, slot, desk>>

-----------------------------------------------------------------------------
Init == RecordsInit /\ ReportsInit

\* A commit advances the data version when it changed something.
Committed ==
    /\ version' = IF sales' = sales /\ products' = products /\ categories' = categories THEN version ELSE version + 1
    /\ UNCHANGED <<cached, asks, slot, cooldown, desk>>

Sell ==
    \E u \in Users, cart \in Carts, customer \in Customers \union {Absent}, day \in 1..today,
       encoded \in BOOLEAN, body \in Payloads : RecordSale(u, cart, customer, day, encoded, body)

Pay ==
    \/ \E q \in Senders, u \in Users, i \in DOMAIN sales, body \in Payloads : SendPayment(q, u, i, body)
    \/ \E q \in Senders : ResendPayment(q) \/ UpdateEncodingPayment(q)

Edit ==
    \/ \E p \in Products, name \in Names, variant \in Variants \union {Absent}, c \in Categories :
             EditProduct(p, name, variant, c)
    \/ \E c \in Categories : ToggleVisible(c) \/ ToggleActive(c)

Serve ==
    \/ \E k \in Askers, v \in Users : AskReport(k, v) \/ RefreshReports(k, v)
    \/ \E k \in Askers : BuildReport(k)
    \/ Cooled

Next ==
    \/ (NextDay \/ \E i \in DOMAIN sales : VoidSale(i)) /\ Committed
    \/ desk # "reports" /\ Edit /\ Committed
    \/ desk = "counter" /\ Sell /\ Committed
    \/ desk = "payments" /\ Pay /\ Committed
    \/ desk = "reports" /\ Serve /\ UNCHANGED recordVars

Spec == Init /\ [][Next]_vars

-----------------------------------------------------------------------------
\* A paid payment is read-only: once it is recorded, no update, repeated update
\* or cancellation changes its method, its amount or its change, and a cancelled
\* sale keeps the payment it had (update_encoding_payment).
PaidIsFinal ==
    [][\A i \in DOMAIN sales :
          sales[i].status = "paid" \/ sales[i].voided =>
              /\ sales'[i].status = sales[i].status
              /\ sales'[i].method = sales[i].method
              /\ sales'[i].tendered = sales[i].tendered
              /\ sales'[i].change = sales[i].change]_vars

\* "A lost response may cause an identical retry": an update that recorded a
\* payment is answered with the saved payment again, whatever other updates came
\* between, unless the sale was cancelled meanwhile or the retry is that of a
\* staff member to whom an item of the sale is hidden now, who gets a 404.
RetryFindsPayment ==
    [][\A q \in Senders :
          LET p == payments'[q]
          IN  /\ p # payments[q] /\ p.state = "answered" /\ p.answer # "saved"
              /\ p.earlier = "saved" /\ p.body.status = "paid"
              => \/ sales[p.sale].voided
                 \/ /\ p.answer = "not found" /\ p.user \in Staff
                    /\ \E line \in sales[p.sale].lines : ~Offered(line.product)]_vars

\* All reports of a range tell the same, whatever discounts and missing prices
\* its receipts have: the days and the weeks of the range add up to its total,
\* and so do the payment methods, the customers by payment state together with
\* the sales without a customer, the history and the charts.  Products, families
\* and categories split the same line amounts; these, and the gross sales, are
\* the total as well in a range without older sales.  For the administrator and
\* each staff member, whatever categories are hidden now.
ReportsAgree ==
    \A r \in Ranges, v \in Users :
        LET total     == SalesSummary(v, r[1], r[2])
            drivers   == SalesDrivers(v, r[1], r[2])
            sold      == SumOf(TopProducts(v, r[1], r[2]))
            customers == CustomerReport(v, r[1], r[2])
            history   == HistorySummary(v, r[1], r[2])
            buyers    == DOMAIN customers.customers
            owed(s)   == Summed([c \in buyers |-> customers.customers[c].states[s]])
        IN  /\ SumOf(DailyBreakdown(v, r[1], r[2])) = total
            /\ SumOf(WeeklyBreakdown(v, r[1], r[2])) = total
            /\ SumOf(drivers.payment) = total
            /\ total.revenue = customers.unassigned.revenue + owed("paid") + owed("pending") + owed("unknown")
            /\ SumOf(customers.months).count = total.count - customers.unassigned.count
            /\ history.total = total
            /\ v = Admin => SumOf(RevenueReport([d \in r[1]..r[2] |-> WeekStart(d)], r[1], r[2])) = total
            /\ SumOf(drivers.category) = sold /\ SumOf(drivers.family) = sold
            /\ v = Admin => /\ SumOf(BestSellers(r[1], r[2])).count = sold.count
                            /\ SumOf(SalesByCategory(r[1], r[2])).count = sold.count
            /\ (\A i \in SalesIn(v, r[1], r[2]) : i > Len(History)) =>
                   sold.revenue = total.revenue /\ drivers.gross = total.revenue

\* Renaming, moving or hiding what was sold rewrites no history: in the
\* administrator's report of a chosen range, totals, categories and families
\* change only when a sale is recorded, cancelled or paid ("renamed catalog
\* entries do not rewrite the history", _sales_drivers).  The rows of products do
\* too, except those of a product that was sold without a variant: they show the
\* one it is given later.
HistoryNotRewritten ==
    [][UNCHANGED sales /\ ~UNCHANGED <<products, categories, today>> =>
          \A r \in Ranges :
              /\ UNCHANGED [DailySales(Admin, r[1], r[2]) EXCEPT !.items = None]
              /\ UNCHANGED [WeeklySales(Admin, r[1], r[2]) EXCEPT !.top = None]
              /\ UNCHANGED [MonthlySales(Admin, r[1], r[2], TRUE) EXCEPT !.top = None]
              /\ UNCHANGED SalesByCategory(r[1], r[2])
              /\ (\A item \in PeriodItems(Admin, r[1], r[2]) :
                     item.line.variant = Absent => UNCHANGED products[item.line.product].variant) =>
                   UNCHANGED <<TopProducts(Admin, r[1], r[2]), BestSellers(r[1], r[2])>>]_vars

\* A report is never older than its request and never somebody else's: neither
\* one cached before the last sale, nor yesterday's, nor another user's, also
\* when the request was overtaken by commits, refreshes or midnight.
ServedReportIsOwn ==
    \A k \in Askers :
        asks[k].state = "answered" =>
            /\ asks[k].answer.scope = asks[k].viewer
            /\ asks[k].answer.version >= asks[k].asOf.version
            /\ asks[k].answer.day >= asks[k].asOf.day

\* What was recorded stands: payments and the history they belong to.
RecordsStand == PaidIsFinal /\ HistoryNotRewritten

\* Requests get their own answer, also when they are repeated or overtaken.
AnswersAreOwn == RetryFindsPayment /\ []ServedReportIsOwn
=============================================================================
