---------------------------- MODULE SalesHistory ----------------------------
(***************************************************************************)
(* Imported sales history and the maintenance commands that rewrite it     *)
(* beside live sales: import_annual_sales, refresh_annual_sales, the       *)
(* consolidation of products and customers, remove_dummy_data and          *)
(* backup_sales_history.  Each command holds locks on all tables (or, for  *)
(* the backup, one snapshot) from its first read to its commit and refuses *)
(* by rolling back, so that it is one step.                                *)
(*                                                                         *)
(* Products, customers and receipts are tables: functions from the ids of  *)
(* their rows to records.  The id of an imported product or customer is    *)
(* the label it was created for (after canonical_product); ids are         *)
(* compared by ProductAge and CustomerAge.                                 *)
(***************************************************************************)
EXTENDS Workbooks, FiniteSetsExt

CONSTANTS
    ProductIds, CustomerIds,  \* ids: at least the labels of the workbooks
    AuditedReference,         \* the one receipt that may lack line amounts on import
    ProductAge, CustomerAge,  \* order of creation of the rows
    NameLength,               \* length of a product label
    KnownGroups,              \* customer keys of the reviewed alias groups
    Canonical,                \* Canonical[k]: display name of customer key k
    OlderName,                \* OlderName[l]: name an older alias table gave label l
    SpareId,                  \* SpareId[k]: id for a row of key k when its own id is taken
    NewCustomers, Contact,    \* ids for accounts entered by hand; contact details
    LiveIds, DemoIds,         \* receipts entered in the application; demo receipts
    Carts,                    \* what is sold: [products, lines], where lines[i] is the
                              \* number of the cart line that item i is taken for
    MaxImported, MaxUses, MaxCommands  \* bounds: rows of workbooks that are imported,
                                       \* uses of the application, maintenance commands

References == Sheets \X (1..MaxRows)

\* The customer keys are those of the names they are written with now; an older
\* release that did not know an alias kept the name of the label.
ASSUME HistoryAssumption ==
    /\ MaxImported \in Nat /\ MaxUses \in Nat /\ MaxCommands \in Nat
    /\ IsFiniteSet(ProductIds) /\ IsFiniteSet(CustomerIds) /\ None \notin ProductIds \union CustomerIds
    /\ NameLength \in [ProductIds -> Nat] /\ ProductAge \in [ProductIds -> Nat] /\ CustomerAge \in [CustomerIds -> Nat]
    /\ \A p, q \in ProductIds : ProductAge[p] = ProductAge[q] => p = q
    /\ \A c, d \in CustomerIds : CustomerAge[c] = CustomerAge[d] => c = d
    /\ \A row \in Rows : row.product \in ProductIds \union {None, "discount"}
    /\ \A p \in DOMAIN SizeCodes : SizeCodes[p] \in ProductIds
    /\ NewCustomers \subseteq CustomerIds /\ None \notin DOMAIN Canonical
    /\ \A k \in DOMAIN Canonical : Canonical[k] \in CustomerIds \ NewCustomers /\ CustomerKeyOf[Canonical[k]] = k
    /\ \A label \in DOMAIN CustomerKeyOf :
          /\ CustomerKeyOf[label] \in DOMAIN Canonical
          /\ OlderName[label] \in CustomerIds \ NewCustomers
          /\ CustomerKeyOf[OlderName[label]] = CustomerKeyOf[label]
    /\ \A k \in DOMAIN Canonical : SpareId[k] \in CustomerIds \ NewCustomers
    /\ \A j, k \in DOMAIN Canonical :
          {Canonical[j], SpareId[j]} \intersect {Canonical[k], SpareId[k]} # {} => j = k
    /\ \A cart \in Carts :
          /\ cart.products \in Seq(ProductIds) /\ IsInjective(cart.products)
          /\ cart.lines \in Seq(Nat) /\ ToSet(cart.lines) = DOMAIN cart.products
    /\ (LiveIds \union DemoIds) \intersect References = {} /\ LiveIds \intersect DemoIds = {}

VARIABLES
    reading,    \* TRUE while the workbooks are being written
    products,   \* products[p]: [name, active]
    batches,    \* batches[p]: product that owns the historical batch created for p
    customers,  \* customers[c]: [name, contact, active]
    receipts,   \* receipts[r]: [total, customer, items, segment, voided, orders], with
                \* orders the set of its orders, of at most one, and
                \* items[i] for the line at position i of the source, or, in the
                \* application, for each batch that a line of the cart is taken from
    uses,       \* uses of the application so far
    commands,   \* maintenance commands so far
    refreshed,  \* history: a refresh has been applied
    renamed     \* history: since then, a customer was given a name of another key

tables == <<products, batches, customers, receipts>>
bookVars == <<sheets, parse>>
vars     == <<bookVars, reading, tables, uses, commands, refreshed, renamed>>

Imported == DOMAIN receipts \intersect References

Key(p)         == ProductKeyOf[products[p].name]
Oldest(S, age) == CHOOSE x \in S : \A y \in S : age[x] <= age[y]

\* The TOTAL rows: sheets whose parsed total is right, as a human wrote them.
Reported(separate) == [s \in Sheets |-> SheetTotal(s, separate)]

\* The historical batch of a product, the oldest if it owns several.
HistoricalBatch(owner, p) == Oldest({b \in DOMAIN owner : owner[b] = p}, ProductAge)

\* An item of an imported receipt: its batch, the product snapshot and the source line.
Item(p, line) ==
    [batch |-> HistoricalBatch(batches', p), product |-> p, name |-> products'[p].name, line |-> line]

\* The order of an imported receipt; none, of a receipt without customer.
Orders(customer, items) ==
    IF customer = None THEN {}
    ELSE {[customer |-> customer, products |-> [i \in DOMAIN items |-> items[i].product], cancelled |-> FALSE]}

-----------------------------------------------------------------------------
Init ==
    /\ WorkbooksInit /\ reading = TRUE
    /\ products = <<>> /\ batches = <<>> /\ customers = <<>> /\ receipts = <<>>
    /\ uses = 0 /\ commands = 0 /\ refreshed = FALSE /\ renamed = FALSE

WriteRow(s, row) ==
    /\ reading
    /\ ReadRow(s, row)
    /\ UNCHANGED <<reading, tables, uses, commands, refreshed, renamed>>

\* load: the first import, only into empty tables.  older tells whether it was
\* made by a release that did not know the alias table of now.
Load(older) ==
    /\ reading /\ RowsRead <= MaxImported
    /\ Sold(FALSE) # {}
    /\ \A t \in Sold(FALSE) : t.date # None /\ (Unresolved(t) => Reference(t) = AuditedReference)
    /\ Reconciles(Reported(FALSE), FALSE)
    /\ LET sold == UNION {{t.lines[i].product : i \in 1..Len(t.lines)} : t \in Sold(FALSE)}
           account(label) == IF label = None THEN None
                             ELSE IF older THEN OlderName[label] ELSE Canonical[CustomerKeyOf[label]]
           named == {account(t.customer) : t \in {t \in Tickets(FALSE) : ~Duplicate(t, FALSE)}} \ {None}
       IN  /\ products' = [p \in sold |-> [name |-> p, active |-> TRUE]]
           /\ batches' = [p \in sold |-> p]
           /\ customers' = [c \in named |-> [name |-> c, contact |-> None, active |-> TRUE]]
           /\ receipts' = [r \in {Reference(t) : t \in Sold(FALSE)} |->
                 LET t == CHOOSE t \in Sold(FALSE) : Reference(t) = r
                     items == [i \in 1..Len(t.lines) |-> Item(t.lines[i].product, t.lines[i])]
                 IN  [total |-> TicketAmount(t), customer |-> account(t.customer), items |-> items,
                      segment |-> None, voided |-> FALSE, orders |-> Orders(account(t.customer), items)]]
    /\ reading' = FALSE
    /\ UNCHANGED <<bookVars, uses, commands, refreshed, renamed>>

-----------------------------------------------------------------------------
(***************************************************************************)
(* Live use of the application.                                            *)
(***************************************************************************)
Use == ~reading /\ uses < MaxUses /\ uses' = uses + 1

\* No two products are given names of one key (unit and variant are left out).
FreeProductName(name, others) == \A q \in others : Key(q) # ProductKeyOf[name]

CreateProduct(p) ==
    /\ Use /\ p \notin DOMAIN products \union DOMAIN batches
    /\ FreeProductName(p, DOMAIN products)
    /\ products' = [q \in DOMAIN products \union {p} |-> IF q = p THEN [name |-> p, active |-> TRUE] ELSE products[q]]
    /\ UNCHANGED <<bookVars, reading, batches, customers, receipts, commands, refreshed, renamed>>

RenameProduct(p, name) ==
    /\ Use /\ p \in DOMAIN products /\ products[p].name # name
    /\ FreeProductName(name, DOMAIN products \ {p})
    /\ products' = [products EXCEPT ![p].name = name]
    /\ UNCHANGED <<bookVars, reading, batches, customers, receipts, commands, refreshed, renamed>>

SetProductActive(p, active) ==
    /\ Use /\ p \in DOMAIN products /\ products[p].active # active
    /\ products' = [products EXCEPT ![p].active = active]
    /\ UNCHANGED <<bookVars, reading, batches, customers, receipts, commands, refreshed, renamed>>

\* destroy: a product with batches or order lines is only deactivated.
DeleteProduct(p) ==
    /\ Use /\ p \in DOMAIN products
    /\ \A b \in DOMAIN batches : batches[b] # p
    /\ \A r \in DOMAIN receipts : \A i \in DOMAIN receipts[r].items : receipts[r].items[i].product # p
    /\ products' = [q \in DOMAIN products \ {p} |-> products[q]]
    /\ UNCHANGED <<bookVars, reading, batches, customers, receipts, commands, refreshed, renamed>>

\* An account of a name that others have is accepted only when its contact
\* details differ from those of every one of them.
FreeCustomerName(name, contact, others) ==
    \A d \in others : customers[d].name = name => contact # None /\ customers[d].contact \notin {None, contact}

\* The name is stored in its canonical spelling.
CreateCustomer(c, name, contact) ==
    /\ Use /\ c \notin DOMAIN customers
    /\ FreeCustomerName(name, contact, DOMAIN customers)
    /\ customers' = [d \in DOMAIN customers \union {c} |->
          IF d = c THEN [name |-> name, contact |-> contact, active |-> TRUE] ELSE customers[d]]
    /\ UNCHANGED <<bookVars, reading, products, batches, receipts, commands, refreshed, renamed>>

\* An administrator gives an account another name, of another key or of the same.
RenameCustomer(c, name) ==
    /\ Use /\ c \in DOMAIN customers /\ customers[c].name # name
    /\ FreeCustomerName(name, customers[c].contact, DOMAIN customers \ {c})
    /\ customers' = [customers EXCEPT ![c].name = name]
    /\ renamed' = (renamed \/ CustomerKeyOf[name] # CustomerKeyOf[customers[c].name])
    /\ UNCHANGED <<bookVars, reading, products, batches, receipts, commands, refreshed>>

SetContact(c, contact) ==
    /\ Use /\ c \in DOMAIN customers /\ customers[c].contact # contact
    /\ customers' = [customers EXCEPT ![c].contact = contact]
    /\ UNCHANGED <<bookVars, reading, products, batches, receipts, commands, refreshed, renamed>>

\* destroy: an account with sales is only deactivated.
DeleteCustomer(c) ==
    /\ Use /\ c \in DOMAIN customers
    /\ IF \E r \in DOMAIN receipts : receipts[r].customer = c
       THEN customers' = [customers EXCEPT ![c].active = FALSE]
       ELSE customers' = [d \in DOMAIN customers \ {c} |-> customers[d]]
    /\ UNCHANGED <<bookVars, reading, products, batches, receipts, commands, refreshed, renamed>>

ReactivateCustomer(c) ==
    /\ Use /\ c \in DOMAIN customers /\ ~customers[c].active
    /\ customers' = [customers EXCEPT ![c].active = TRUE]
    /\ UNCHANGED <<bookVars, reading, products, batches, receipts, commands, refreshed, renamed>>

\* A sale of the application, at the counter (with or without a customer) or as an
\* order.  A cart line is taken from one batch or several, an item for each; the
\* order has the lines as they were entered.  The batches of live stock (None) are
\* none of the historical ones, from which only demo receipts of the retired
\* generator may sell.
LiveSale(r, cart, c, ordered, historical) ==
    /\ Use /\ r \notin DOMAIN receipts
    /\ \A n \in DOMAIN cart.products : cart.products[n] \in DOMAIN products /\ products[cart.products[n]].active
    /\ c # None => c \in DOMAIN customers /\ customers[c].active
    /\ ordered => c # None
    /\ historical => r \in DemoIds /\ \A n \in DOMAIN cart.products : \E b \in DOMAIN batches : batches[b] = cart.products[n]
    /\ LET product(i) == cart.products[cart.lines[i]]
           items == [i \in DOMAIN cart.lines |->
                       [batch |-> IF historical THEN HistoricalBatch(batches, product(i)) ELSE None,
                        product |-> product(i), name |-> products[product(i)].name, line |-> cart.lines[i]]]
           sale  == [total |-> 1, customer |-> c, items |-> items, segment |-> None, voided |-> FALSE,
                     orders |-> IF ordered THEN {[customer |-> c, products |-> cart.products, cancelled |-> FALSE]}
                                ELSE {}]
       IN  receipts' = [q \in DOMAIN receipts \union {r} |-> IF q = r THEN sale ELSE receipts[q]]
    /\ UNCHANGED <<bookVars, reading, products, batches, customers, commands, refreshed, renamed>>

\* A live receipt is voided, and its order, if any, cancelled; imported ones and
\* demo receipts cannot be.
VoidReceipt(r) ==
    /\ Use /\ r \in LiveIds \intersect DOMAIN receipts /\ ~receipts[r].voided
    /\ receipts' = [receipts EXCEPT ![r].voided = TRUE,
                                    ![r].orders = {[o EXCEPT !.cancelled = TRUE] : o \in @}]
    /\ UNCHANGED <<bookVars, reading, products, batches, customers, commands, refreshed, renamed>>

-----------------------------------------------------------------------------
(***************************************************************************)
(* refresh_annual_sales --apply                                            *)
(***************************************************************************)
Candidates(label) == {p \in DOMAIN products : Key(p) = ProductKey(label)}
Accounts(label)   == {c \in DOMAIN customers : CustomerKeyOf[customers[c].name] = CustomerKey(label)}

\* The receipt of a ticket has a customer of the ticket's key.
Recognized(t) == Reference(t) \in DOMAIN receipts /\ receipts[Reference(t)].customer \in Accounts(t.customer)

\* A row that the refresh creates for a key.
NewAccount(k) == IF Canonical[k] \in DOMAIN customers THEN SpareId[k] ELSE Canonical[k]
KeyOfRow(c)   == CHOOSE k \in DOMAIN Canonical : c \in {Canonical[k], SpareId[k]}

\* The customer of a planned receipt: its present one, else the only one of the
\* key, else a new row.
AccountOf(t) ==
    IF CustomerKey(t.customer) = None THEN None
    ELSE IF Recognized(t) THEN receipts[Reference(t)].customer
    ELSE IF Accounts(t.customer) # {} THEN CHOOSE c \in Accounts(t.customer) : TRUE
    ELSE NewAccount(CustomerKey(t.customer))

ProductFor(line) == CHOOSE p \in Candidates(line.product) : TRUE

\* The checks of apply_plan; any of them rolls the command back.
MayRefresh ==
    /\ PlanPossible(Reported(TRUE))
    /\ \A r \in Imported : \E t \in Tickets(TRUE) : Reference(t) = r
    /\ \A r \in Imported : \A i \in DOMAIN receipts[r].items : receipts[r].items[i].batch # None
    /\ \A t \in Planned : \A i \in KeptLines(t) : Cardinality(Candidates(t.lines[i].product)) = 1
    /\ \A t \in Planned :
          CustomerKey(t.customer) = None \/ Recognized(t) \/ Cardinality(Accounts(t.customer)) <= 1

\* Mutation: receipts without kept lines stay.
KeepUnplanned == DOMAIN receipts

\* The receipts that a refresh leaves alone.  An imported one that is not planned
\* is removed.
Unaffected == DOMAIN receipts \ References

\* The row apply_plan leaves for a planned receipt.
RefreshedReceipt(t) ==
    LET items == [i \in KeptLines(t) |-> Item(ProductFor(t.lines[i]), t.lines[i])]
    IN  [total |-> KeptAmount(t), customer |-> AccountOf(t), items |-> items, segment |-> Segment(t),
         voided |-> FALSE, orders |-> Orders(AccountOf(t), items)]

\* The frame of the maintenance commands: the sources are copied, every table is
\* locked, and a full backup is read back before the first change; a failed
\* check rolls all of it back.
MaintenanceCommand ==
    /\ ~reading /\ commands < MaxCommands
    /\ commands' = commands + 1
    /\ UNCHANGED <<bookVars, reading, uses>>

\* Bound: a key has two ids for rows that a refresh creates.
EnoughIds ==
    \A t \in Planned : CustomerKey(t.customer) # None /\ ~Recognized(t) /\ Accounts(t.customer) = {} =>
                          AccountOf(t) \notin DOMAIN customers

ApplyRefresh ==
    /\ MaintenanceCommand
    /\ MayRefresh /\ EnoughIds
    /\ UNCHANGED products
    /\ LET used   == UNION {{ProductFor(t.lines[i]) : i \in KeptLines(t)} : t \in Planned}
           unowned == {p \in used : \A b \in DOMAIN batches : batches[b] # p}
       IN  batches' = [p \in DOMAIN batches \union unowned |-> IF p \in unowned THEN p ELSE batches[p]]
    /\ LET accounts == {AccountOf(t) : t \in Planned} \ {None}
       IN  customers' = [c \in DOMAIN customers \union accounts |->
              IF c \in DOMAIN customers THEN customers[c]
              ELSE [name |-> Canonical[KeyOfRow(c)], contact |-> None, active |-> TRUE]]
    /\ LET planned == {Reference(t) : t \in Planned}
       IN  receipts' = [r \in planned \union Unaffected |->
              IF r \in planned THEN RefreshedReceipt(CHOOSE t \in Planned : Reference(t) = r) ELSE receipts[r]]
    /\ refreshed' = TRUE /\ renamed' = FALSE

-----------------------------------------------------------------------------
(***************************************************************************)
(* consolidate_products --apply: rows that differ only in formatting.      *)
(***************************************************************************)
ProductGroup(p)  == {q \in DOMAIN products : Key(q) = Key(p)}
ProductKeeper(p) == Oldest(ProductGroup(p), ProductAge)

\* The shortest label of the group, of the older row when two are as short.
GroupLabel(G) ==
    products[CHOOSE p \in G : \A q \in G :
        LET lp == NameLength[products[p].name]  lq == NameLength[products[q].name]
        IN  lp < lq \/ (lp = lq /\ ProductAge[p] <= ProductAge[q])].name

MovedBatch(b) == ProductKeeper(batches[b])

\* Lines are found by their snapshot; all of them are relabelled.
MovedItem(item) ==
    IF Cardinality(ProductGroup(item.product)) < 2 THEN item
    ELSE [item EXCEPT !.product = ProductKeeper(item.product), !.name = GroupLabel(ProductGroup(item.product))]

\* Mutation: the order items keep the products that are deleted.
OrderStays(order) == order

MovedOrder(order) == [order EXCEPT !.products = [i \in DOMAIN @ |-> ProductKeeper(@[i])]]

\* The keeper is relabelled, and active if any row of its group is.
MergedProduct(p) == [name |-> GroupLabel(ProductGroup(p)), active |-> \E q \in ProductGroup(p) : products[q].active]

ConsolidateProducts ==
    /\ MaintenanceCommand
    /\ \E p \in DOMAIN products : Cardinality(ProductGroup(p)) > 1
    /\ products' = [p \in {ProductKeeper(q) : q \in DOMAIN products} |-> MergedProduct(p)]
    /\ batches' = [b \in DOMAIN batches |-> MovedBatch(b)]
    /\ receipts' = [r \in DOMAIN receipts |->
          [receipts[r] EXCEPT !.items = [i \in DOMAIN @ |-> MovedItem(@[i])],
                              !.orders = {MovedOrder(o) : o \in @}]]
    /\ UNCHANGED <<customers, refreshed, renamed>>

-----------------------------------------------------------------------------
(***************************************************************************)
(* consolidate_customers --apply: confirmed spellings of one customer.     *)
(***************************************************************************)
CustomerGroup(c) == {d \in DOMAIN customers : CustomerKeyOf[customers[d].name] = CustomerKeyOf[customers[c].name]}
Contacts(G)      == {customers[c].contact : c \in G} \ {None}

\* Mutation: accounts with different contact details are merged too.
MergeableIgnoringContacts(G) == Cardinality(G) > 1

\* Groups with conflicting contacts, or of one unconfirmed name, are left for review.
Mergeable(G) ==
    LET names == {customers[c].name : c \in G}
        key   == CustomerKeyOf[customers[CHOOSE c \in G : TRUE].name]
        sameContact == Cardinality(Contacts(G)) = 1 /\ \A c \in G : customers[c].contact # None
    IN  /\ Cardinality(G) > 1
        /\ Cardinality(Contacts(G)) <= 1
        /\ Cardinality(names) = 1 => key \in KnownGroups \/ sameContact

\* The account with the canonical name, else the oldest.
CustomerKeeper(G) ==
    LET named == {c \in G : customers[c].name = Canonical[CustomerKeyOf[customers[c].name]]}
    IN  Oldest(IF named # {} THEN named ELSE G, CustomerAge)

MovedCustomer(c) == IF Mergeable(CustomerGroup(c)) THEN CustomerKeeper(CustomerGroup(c)) ELSE c

\* The keeper of a merged group gets the canonical name, the contact of the group,
\* and is active if any account of it is.
MergedCustomer(c) ==
    LET G == CustomerGroup(c)
    IN  IF ~Mergeable(G) THEN customers[c]
        ELSE [name |-> Canonical[CustomerKeyOf[customers[c].name]],
              contact |-> IF Contacts(G) = {} THEN None ELSE CHOOSE x \in Contacts(G) : TRUE,
              active |-> \E d \in G : customers[d].active]

MovedReceipt(t) ==
    IF t.customer = None THEN t
    ELSE [t EXCEPT !.customer = MovedCustomer(@),
                   !.orders = {[o EXCEPT !.customer = MovedCustomer(@)] : o \in @}]

ConsolidateCustomers ==
    /\ MaintenanceCommand
    /\ \E c \in DOMAIN customers : Mergeable(CustomerGroup(c))
    /\ customers' = [c \in {MovedCustomer(d) : d \in DOMAIN customers} |-> MergedCustomer(c)]
    /\ receipts' = [r \in DOMAIN receipts |-> MovedReceipt(receipts[r])]
    /\ UNCHANGED <<products, batches, refreshed, renamed>>

-----------------------------------------------------------------------------
\* remove_dummy_data --apply: refused while a demo receipt uses live stock.
RemoveDummyData ==
    /\ MaintenanceCommand
    /\ DemoIds \intersect DOMAIN receipts # {}
    /\ \A r \in DemoIds \intersect DOMAIN receipts :
          \A i \in DOMAIN receipts[r].items : receipts[r].items[i].batch # None
    /\ receipts' = [r \in DOMAIN receipts \ DemoIds |-> receipts[r]]
    /\ UNCHANGED <<products, batches, customers, refreshed, renamed>>

(***************************************************************************)
(* backup_sales_history: the receipts of closed years and all they refer   *)
(* to, table by table until nothing is missing.  A row is a pair of its    *)
(* table and id; a receipt stands for its items, order and order items.    *)
(***************************************************************************)
RowReferences(row) ==
    IF row[1] = "receipt"
    THEN LET t == receipts[row[2]]
         IN  {<<"customer", t.customer>>}
             \union {<<"batch", t.items[i].batch>> : i \in DOMAIN t.items}
             \union {<<"customer", o.customer>> : o \in t.orders}
             \union UNION {{<<"product", o.products[i]>> : i \in DOMAIN o.products} : o \in t.orders}
    ELSE IF row[1] = "batch" THEN {<<"product", batches[row[2]]>>}
    ELSE {}

\* One pass of the loop of select_rows.
Pass(rows) == rows \union {x \in UNION {RowReferences(row) : row \in rows} : x[2] # None}

\* The loop ends when a pass adds nothing: receipts refer to batches, these to
\* products, and products to nothing that is kept here.
Closure(rows) == Pass(Pass(Pass(rows)))

\* Historical years without demo receipts, and the products of their snapshots.
SelectRows ==
    Closure({<<"receipt", r>> : r \in Imported}
            \union UNION {{<<"product", receipts[r].items[i].product>> : i \in DOMAIN receipts[r].items} : r \in Imported})

Next ==
    \/ \E s \in Sheets, row \in Rows : WriteRow(s, row)
    \/ \E older \in BOOLEAN : Load(older)
    \/ \E p \in ProductIds : CreateProduct(p)
    \/ \E p, name \in ProductIds : RenameProduct(p, name)
    \/ \E p \in ProductIds, active \in BOOLEAN : SetProductActive(p, active)
    \/ \E p \in ProductIds : DeleteProduct(p)
    \/ \E c \in NewCustomers, k \in DOMAIN Canonical, contact \in Contact \union {None} : CreateCustomer(c, Canonical[k], contact)
    \/ \E c \in CustomerIds, contact \in Contact : SetContact(c, contact)
    \/ \E c \in CustomerIds, k \in DOMAIN Canonical : RenameCustomer(c, Canonical[k])
    \/ \E c \in CustomerIds : DeleteCustomer(c)
    \/ \E c \in CustomerIds : ReactivateCustomer(c)
    \/ \E r \in LiveIds \union DemoIds, cart \in Carts, c \in CustomerIds \union {None}, ordered, historical \in BOOLEAN :
          LiveSale(r, cart, c, ordered, historical)
    \/ \E r \in LiveIds : VoidReceipt(r)
    \/ ApplyRefresh \/ ConsolidateProducts \/ ConsolidateCustomers \/ RemoveDummyData

Spec == Init /\ [][Next]_vars

-----------------------------------------------------------------------------
\* No command leaves a receipt that points to a row it deleted: the batch, the
\* product and the customer of every line and order exist, and the batch of a line
\* belongs to the product in the line's snapshot.
LinksResolve ==
    \A r \in DOMAIN receipts :
        LET t == receipts[r]
        IN  /\ t.customer # None => t.customer \in DOMAIN customers
            /\ \A i \in DOMAIN t.items :
                  /\ t.items[i].product \in DOMAIN products
                  /\ t.items[i].batch # None =>
                        /\ t.items[i].batch \in DOMAIN batches
                        /\ batches[t.items[i].batch] = t.items[i].product

\* The order line that an item belongs to: the line at its place in the source, or
\* the line of the cart.
OrderLine(r, i) == IF r \in References THEN i ELSE receipts[r].items[i].line

\* A receipt and its order tell the same story whichever of the commands rewrote one
\* or the other: same customer, each item's product on the order line it belongs to,
\* an item for every order line, cancelled when the sale is voided.  An imported
\* receipt has an order exactly when it has a customer.
OrderMirrorsSale ==
    \A r \in DOMAIN receipts :
        LET t == receipts[r]
        IN  /\ r \in References => (t.orders = {} <=> t.customer = None)
            /\ \A o \in t.orders :
                  /\ o.customer = t.customer /\ o.cancelled = t.voided
                  /\ DOMAIN o.products = {OrderLine(r, i) : i \in DOMAIN t.items}
                  /\ \A i \in DOMAIN t.items : o.products[OrderLine(r, i)] = t.items[i].product

\* Once a refresh was applied the imported history is and stays exactly what the
\* policy plans: no receipt too many or too few, each with its planned amount,
\* segment and lines, and a customer exactly if the source names one, whatever was
\* sold, merged, renamed, deleted or refreshed since.  The customer has the key of
\* the source until an account is renamed to another key, and again after the next
\* refresh.
HistoryIsThePlan ==
    refreshed =>
        /\ Imported = {Reference(t) : t \in Planned}
        /\ \A t \in Planned :
              LET r == receipts[Reference(t)]
              IN  /\ r.total = KeptAmount(t) /\ r.segment = Segment(t)
                  /\ DOMAIN r.items = KeptLines(t)
                  /\ \A i \in KeptLines(t) : r.items[i].line = t.lines[i]
                  /\ r.customer = None <=> CustomerKey(t.customer) = None
                  /\ r.customer # None /\ ~renamed =>
                        CustomerKeyOf[customers[r.customer].name] = CustomerKey(t.customer)

\* The maintenance of imported history never touches sales of the application: a
\* live receipt keeps its amount, its lines and its void, and is never deleted; it
\* keeps its customer and products too, or gets others of the same key for them.
LiveSalesUntouched ==
    [][\A r \in LiveIds \intersect DOMAIN receipts :
          LET t == receipts[r]  u == receipts'[r]
          IN  /\ r \in DOMAIN receipts'
              /\ u.total = t.total /\ (t.voided => u.voided)
              /\ \/ u.customer = t.customer
                 \/ CustomerKeyOf[customers'[u.customer].name] = CustomerKeyOf[customers[t.customer].name]
              /\ DOMAIN u.items = DOMAIN t.items
              /\ \A i \in DOMAIN t.items :
                    /\ u.items[i].line = t.items[i].line
                    /\ \/ u.items[i].product = t.items[i].product
                       \/ ProductKeyOf[products'[u.items[i].product].name] = Key(t.items[i].product)]_vars

\* No merge loses a contact: when the account of a receipt is replaced by another of
\* its key, a contact recorded for the old account is recorded for the new one
\* (consolidation_plan leaves conflicting accounts for review).  A refresh may still
\* move a receipt off an account that was renamed to another key.
ContactsSurvive ==
    [][\A r \in DOMAIN receipts \intersect DOMAIN receipts' :
          LET c == receipts[r].customer  d == receipts'[r].customer
          IN  c # d /\ c # None /\ d # None
                 /\ CustomerKeyOf[customers'[d].name] = CustomerKeyOf[customers[c].name] =>
                 customers[c].contact \in {None, customers'[d].contact}]_vars

\* A backup can be restored into empty tables: everything its rows refer to is
\* among its rows, so that the constraints hold (select_rows).
BackupIsSelfContained ==
    \A row \in SelectRows : \A x \in RowReferences(row) : x[2] = None \/ x \in SelectRows

\* Whatever the commands delete, merge and rewrite, the rows that are left refer
\* to each other as the constraints and the views expect, in the tables and in a
\* backup of them.
RowsAgree == LinksResolve /\ OrderMirrorsSale /\ BackupIsSelfContained

\* Maintenance keeps what it must not change: the sales of the application and the
\* contact details of customers.
MaintenanceKeeps == LiveSalesUntouched /\ ContactsSurvive
=============================================================================
