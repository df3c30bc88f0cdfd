----------------------------- MODULE SaleRecords -----------------------------
(***************************************************************************)
(* The sales the reports are about: what checkout, orders and manual       *)
(* encoding record, the payment update of an encoded sale, cancellation,   *)
(* and the edits of the catalogue that the sales refer to.  Stock is the   *)
(* subject of StockLedger, request IDs of KeyedSubmission.                 *)
(***************************************************************************)
EXTENDS Integers, Sequences, FiniteSets, FiniteSetsExt

CONSTANTS
    Admin,          \* the administrator
    Staff,          \* staff accounts
    Customers,
    Products,
    Names,          \* names that products have or get, those of Products included
    Variants,       \* variants that products have or get
    Categories,
    Carts,          \* carts that are sold, sets of [product, quantity, price]
    Payloads,       \* bodies of payment updates, [status, method, tendered]
    Senders,        \* payment requests in progress at the same time
    FirstCategory,  \* FirstCategory[p]: the category of p at first
    FirstVariant,   \* FirstVariant[p]: the variant of p at first, or Absent
    History,        \* the sales of earlier days, imported ones among them
    LastDay,        \* bound on the calendar
    MaxSales,       \* bound on the sales recorded here
    MaxEdits,       \* bound on edits of the catalogue
    Absent          \* SQL NULL, or a field the client does not send

PAYMENT_STATES == {"paid", "pending", "unknown"}
Methods        == {"cash", "online", "unknown"}
Users          == Staff \union {Admin}

\* What a client enters, and the rows of a sale.  The amount of a line and the
\* gross and total of a sale are columns of their own: a receipt of the workbooks
\* has a discount, lines without an amount and lines whose price is not known
\* (0); older sales have discounts.  The parts of a line that come from several
\* batches are one line here: their amounts add up to its own.
CartLine == [product : Products, quantity : Nat, price : Nat]
Payload  == [status : {"paid", "pending"}, method : {"cash", "online", Absent}, tendered : Nat \union {Absent}]
SaleLine == [product : Products, quantity : Nat, price : Nat, amount : Nat \union {Absent},
             name : Names, variant : Variants \union {Absent}, category : Categories]
Product  == [name : Names, variant : Variants \union {Absent}, category : Categories]
Sale ==
    [day : Nat, lines : SUBSET SaleLine, gross : Int, total : Int, customer : Customers \union {Absent}, handler : Users,
     encoded : BOOLEAN, imported : BOOLEAN, voided : BOOLEAN,
     status : PAYMENT_STATES, method : Methods, tendered : Nat \union {Absent}, change : Int \union {Absent}]

ASSUME RecordsAssumption ==
    /\ Admin \notin Staff /\ Absent # "saved"
    /\ Products \subseteq Names /\ FirstCategory \in [Products -> Categories]
    /\ FirstVariant \in [Products -> Variants \union {Absent}]
    /\ \A cart \in Carts : cart \subseteq CartLine /\ IsFiniteSet(cart)
    /\ Payloads \subseteq Payload
    /\ \A i \in DOMAIN History : History[i].day <= 1 /\ IsFiniteSet(History[i].lines)
    /\ History \in Seq(Sale)

VARIABLES
    today,
    sales,          \* Transaction with its items, in the order of their keys
    products,       \* products[p]: [name, variant, category]
    categories,     \* categories[c]: [active, visible]
    edits,          \* number of catalogue edits
    payments        \* payments[q]: a PATCH of a payment, with its answer

recordVars == <<today, sales, products, categories, edits, payments>>

NoRequest == [state |-> "none", user |-> Admin, sale |-> 0, body |-> Absent, answer |-> Absent, earlier |-> Absent]

RecordsInit ==
    /\ today = 1
    /\ sales = History
    /\ products = [p \in Products |-> [name |-> p, variant |-> FirstVariant[p], category |-> FirstCategory[p]]]
    /\ categories = [c \in Categories |-> [active |-> TRUE, visible |-> TRUE]]
    /\ edits = 0
    /\ payments = [q \in Senders |-> NoRequest]

-----------------------------------------------------------------------------
\* The quantity times the entered price of a line; discounts are refused.
Subtotal(line) == line.quantity * line.price

\* The sum of the values of a function.
Summed(f) == MapThenSumSet(LAMBDA x : f[x], DOMAIN f)

\* A payment that payment_values accepts, and the amount and change it saves.
AcceptablePayment(total, method, status, tendered) ==
    /\ method # "unknown"
    /\ status = "pending" => tendered \in {Absent, 0}
    /\ status = "paid" /\ method = "cash" => tendered # Absent /\ tendered >= total

SavedTendered(status, tendered) == IF status = "pending" THEN Absent ELSE tendered

ChangeDue(total, method, status, tendered) ==
    IF status = "paid" /\ method = "cash" THEN tendered - total ELSE Absent

\* Staff can only enter products of active categories that are shown to them.
Offered(p) == categories[products[p].category].active /\ categories[products[p].category].visible

MaySell(u, cart) == u \in Staff => \A line \in cart : Offered(line.product)

\* The items keep the names of the moment of the sale, and no variant of a product
\* that has none.
Snapshot(cart) ==
    {[product |-> line.product, quantity |-> line.quantity, price |-> line.price, amount |-> Subtotal(line),
      name |-> products[line.product].name, variant |-> products[line.product].variant,
      category |-> products[line.product].category] : line \in cart}

\* checkout at the counter (always paid and of today), or a sale encoded later
\* for an earlier day.
RecordSale(u, cart, customer, day, encoded, body) ==
    LET total == Summed([line \in cart |-> Subtotal(line)])
    IN  /\ Len(sales) < Len(History) + MaxSales
        /\ day <= today
        /\ ~encoded => day = today /\ body.status = "paid"
        /\ body.method # Absent
        /\ MaySell(u, cart)
        /\ AcceptablePayment(total, body.method, body.status, body.tendered)
        /\ sales' = Append(sales,
              [day |-> day, lines |-> Snapshot(cart), gross |-> total, total |-> total, customer |-> customer, handler |-> u,
               encoded |-> encoded, imported |-> FALSE, voided |-> FALSE,
               status |-> body.status, method |-> body.method,
               tendered |-> SavedTendered(body.status, body.tendered),
               change |-> ChangeDue(total, body.method, body.status, body.tendered)])
        /\ UNCHANGED <<today, products, categories, edits, payments>>

\* void_transaction; the stock it returns is in StockLedger.
VoidSale(i) ==
    /\ ~sales[i].imported
    /\ ~sales[i].voided
    /\ sales' = [sales EXCEPT ![i].voided = TRUE]
    /\ UNCHANGED <<today, products, categories, edits, payments>>

-----------------------------------------------------------------------------
(***************************************************************************)
(* Payment updates.  The view finds the sale first; the service then locks *)
(* the row and decides on what it reads again.                             *)
(***************************************************************************)

\* Sales in the histories and reports of a user: staff see their own sales, and
\* none with an item whose product is now in a category hidden from them.
VisibleTransactions(u) ==
    {i \in DOMAIN sales :
        u \in Staff => /\ sales[i].handler = u
                       /\ \A line \in sales[i].lines : Offered(line.product)}

\* The request p reaches the view: get_object finds the sale among the encoded
\* ones that the user sees, or answers 404.
AtView(p) ==
    IF p.sale \in VisibleTransactions(p.user) /\ sales[p.sale].encoded
    THEN [p EXCEPT !.state = "found", !.answer = Absent]
    ELSE [p EXCEPT !.state = "answered", !.answer = "not found"]

\* A client sends a payment update, or sends one again whose answer it lost.
SendPayment(q, u, i, body) ==
    /\ payments[q].state \in {"none", "answered"}
    /\ payments' = [payments EXCEPT ![q] = AtView([NoRequest EXCEPT !.user = u, !.sale = i, !.body = body])]
    /\ UNCHANGED <<today, sales, products, categories, edits>>

ResendPayment(q) ==
    /\ payments[q].state = "answered"
    /\ payments[q].earlier = Absent
    /\ payments' = [payments EXCEPT ![q] = AtView([@ EXCEPT !.earlier = payments[q].answer])]
    /\ UNCHANGED <<today, sales, products, categories, edits>>

OrSaved(field, saved) == IF field = Absent THEN saved ELSE field

\* A recorded payment is answered again only to the same request.
SameAsSaved(sale, body) ==
    /\ body.status = "paid"
    /\ OrSaved(body.method, sale.method) = sale.method
    /\ OrSaved(body.tendered, sale.tendered) = sale.tendered

Unavailable(sale, u) ==
    \/ u \in Staff /\ sale.handler # u
    \/ ~sale.encoded
    \/ sale.voided

\* Mutation: the branch is chosen on the status that the view loaded, pending.
AnswerIfPending(sale, u, body) ==
    IF Unavailable(sale, u) THEN "refused"
    ELSE IF AcceptablePayment(sale.total, OrSaved(body.method, sale.method), body.status, body.tendered)
         THEN "updated" ELSE "refused"

\* Mutation: a recorded payment is read-only for the same request too.
AnswerLocked(sale, u, body) ==
    IF Unavailable(sale, u) THEN "refused"
    ELSE IF sale.status = "paid" THEN "locked"
    ELSE IF AcceptablePayment(sale.total, OrSaved(body.method, sale.method), body.status, body.tendered)
         THEN "updated" ELSE "refused"

\* The checks of the service in their order.
PaymentAnswer(sale, u, body) ==
    IF Unavailable(sale, u) THEN "refused"
    ELSE IF sale.status = "paid" THEN IF SameAsSaved(sale, body) THEN "saved" ELSE "locked"
    ELSE IF AcceptablePayment(sale.total, OrSaved(body.method, sale.method), body.status, body.tendered)
         THEN "updated" ELSE "refused"

\* update_encoding_payment, under the lock of the row.
UpdateEncodingPayment(q) ==
    LET i      == payments[q].sale
        body   == payments[q].body
        method == OrSaved(body.method, sales[i].method)
        answer == PaymentAnswer(sales[i], payments[q].user, body)
    IN  /\ payments[q].state = "found"
        /\ payments' = [payments EXCEPT ![q].state = "answered",
                                        ![q].answer = IF answer = "updated" THEN "saved" ELSE answer]
        /\ sales' = IF answer # "updated" THEN sales
                    ELSE [sales EXCEPT ![i].status = body.status, ![i].method = method,
                            ![i].tendered = SavedTendered(body.status, body.tendered),
                            ![i].change = ChangeDue(sales[i].total, method, body.status, body.tendered)]
        /\ UNCHANGED <<today, products, categories, edits>>

-----------------------------------------------------------------------------
\* Admin edits: a product gets another name, variant or (active) category, but not
\* the name and variant of another one (of its unit); a category is hidden from
\* staff or shown; the deactivation endpoint is separate.
EditProduct(p, name, variant, c) ==
    /\ edits < MaxEdits
    /\ categories[c].active
    /\ \A other \in Products \ {p} : products[other].name # name \/ products[other].variant # variant
    /\ products' = [products EXCEPT ![p] = [name |-> name, variant |-> variant, category |-> c]]
    /\ products' # products
    /\ edits' = edits + 1
    /\ UNCHANGED <<today, sales, categories, payments>>

ToggleVisible(c) ==
    /\ edits < MaxEdits
    /\ categories' = [categories EXCEPT ![c].visible = ~@]
    /\ edits' = edits + 1
    /\ UNCHANGED <<today, sales, products, payments>>

ToggleActive(c) ==
    /\ edits < MaxEdits
    /\ categories' = [categories EXCEPT ![c].active = ~@]
    /\ edits' = edits + 1
    /\ UNCHANGED <<today, sales, products, payments>>

NextDay ==
    /\ today < LastDay
    /\ today' = today + 1
    /\ UNCHANGED <<sales, products, categories, edits, payments>>
=============================================================================
