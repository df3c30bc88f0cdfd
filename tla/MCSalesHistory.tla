--------------------------- MODULE MCSalesHistory ---------------------------
(***************************************************************************)
(* Instance of SalesHistory: two sheets of which the first repeats         *)
(* receipts of the second, two spellings of one dairy product, one sweet,  *)
(* two spellings of one customer, a feeding programme, a cancelled receipt *)
(* and a date with a truncated year; carts whose lines are taken from      *)
(* several batches.                                                        *)
(***************************************************************************)
EXTENDS SalesHistory

MCMonthOf == [jan |-> 1, may |-> 5]
MCDuplicateSheets == {<<"jan", "may">>}
MCCustomerKeyOf == [Ana |-> "ana", AnaA |-> "ana", Feeding |-> "feeding", AnaCancelled |-> "ana"]
MCProductKeyOf == [Milk |-> "milk", MilkForm |-> "milk", Sweet |-> "sweet", size |-> "size"]
MCCanonical == [ana |-> "AnaA", feeding |-> "Feeding"]
MCProductAge == [Milk |-> 1, MilkForm |-> 2, Sweet |-> 3, size |-> 4]
MCCustomerAge == [Ana |-> 1, AnaA |-> 2, Feeding |-> 3, second |-> 4, spare |-> 5, spareToo |-> 6]
MCOlderName == [Ana |-> "Ana", AnaA |-> "AnaA", Feeding |-> "Feeding", AnaCancelled |-> "Ana"]
MCNameLength == [Milk |-> 4, MilkForm |-> 3, Sweet |-> 5, size |-> 3]
MCAudited == <<"may", 1>>
MCLive == {<<"live", 1>>}
MCDemo == {<<"demo", 1>>}
MCSizeCodes == [Milk |-> "MilkForm"]

MCCustomerNameOf == [Ana |-> "AnaA", AnaA |-> "AnaA", Feeding |-> "Feeding", AnaCancelled |-> "ANAA"]
MCSpareId == [ana |-> "spare", feeding |-> "spareToo"]
MCCarts == {
    [products |-> <<"Milk">>, lines |-> <<1, 1>>],
    [products |-> <<"MilkForm", "Milk">>, lines |-> <<2, 1, 1>>] }

Date(m, d) == [year |-> 2024, month |-> m, day |-> d, excel |-> TRUE]
Row(date, customer, invoice, product, quantity, price, amount, total, formula) ==
    [date |-> date, customer |-> customer, invoice |-> invoice, product |-> product, quantity |-> quantity,
     price |-> price, amount |-> amount, total |-> total, formula |-> formula]

MCRows == {
    \* a complete receipt, its sum in the total column, a digit missing in the year
    Row([year |-> 223, month |-> 5, day |-> 1, excel |-> FALSE], "Ana", "i1", "Milk", 1, 2, 2, 2, "sum"),
    \* the same customer in another spelling, day and month exchanged on sheet may
    Row(Date(1, 5), "AnaA", "i1", "Milk", 1, 3, None, None, None),
    \* continuation rows: totalled on their own, sweets, a bare size, a discount
    Row(None, None, None, "MilkForm", 1, 1, 1, 1, "own"),
    Row(None, None, None, "Sweet", 1, 1, 1, None, None),
    Row(None, None, None, "size", 2, None, None, 3, None),
    Row(None, None, None, "discount", None, None, -1, None, None),
    \* the invoice again, another invoice without customer
    Row(None, None, "i1", "Milk", 1, 1, 1, None, None),
    Row(None, None, "i2", "Sweet", 1, 2, 2, None, None),
    \* a feeding receipt of which only the total is known
    Row(Date(5, 2), "Feeding", None, "Milk", 1, None, None, 3, None),
    Row(Date(5, 2), "AnaCancelled", "i2", "Milk", 1, 1, 1, None, None),
    \* a date alone
    Row(Date(5, 3), None, None, None, None, None, None, None, None) }
=============================================================================
