-------------------------- MODULE MCSalesReports --------------------------
(* SalesReports over two products in two categories, in weeks and months of  *)
(* two days.                                                                *)
EXTENDS SalesReports, TLC

CONSTANTS milk, cheese, fresh, dairy, feed, ana, s1

\* One cart of one product, one of both; 3 pesos and 7 pesos.
MCCarts == {{[product |-> milk, quantity |-> 1, price |-> 3]},
            {[product |-> milk, quantity |-> 2, price |-> 1], [product |-> cheese, quantity |-> 1, price |-> 5]}}

\* Cash that covers both carts or only the small one, an online payment that
\* leaves the method out, and a payment still to come.
MCPayloads == {[status |-> "paid", method |-> "cash", tendered |-> 7],
               [status |-> "paid", method |-> "cash", tendered |-> 4],
               [status |-> "paid", method |-> Absent, tendered |-> 7],
               [status |-> "pending", method |-> "online", tendered |-> Absent]}

MCFirstCategory == (milk :> dairy) @@ (cheese :> feed)

MCFirstVariant == (milk :> fresh) @@ (cheese :> Absent)

\* A receipt of the workbooks, whose payment, price and line amount are not
\* recorded, and an older sale of both products, with a discount, to be paid.
MCHistory ==
    <<[day |-> 0, lines |-> {[product |-> cheese, quantity |-> 1, price |-> 0, amount |-> Absent,
                              name |-> cheese, variant |-> Absent, category |-> feed]},
       gross |-> 2, total |-> 2,
       customer |-> ana, handler |-> Admin, encoded |-> FALSE, imported |-> TRUE, voided |-> FALSE,
       status |-> "unknown", method |-> "unknown", tendered |-> Absent, change |-> Absent],
      [day |-> 1, lines |-> {[product |-> milk, quantity |-> 1, price |-> 3, amount |-> 3,
                              name |-> milk, variant |-> fresh, category |-> dairy],
                             [product |-> cheese, quantity |-> 1, price |-> 2, amount |-> 2,
                              name |-> cheese, variant |-> Absent, category |-> feed]},
       gross |-> 5, total |-> 4,
       customer |-> ana, handler |-> s1, encoded |-> TRUE, imported |-> FALSE, voided |-> FALSE,
       status |-> "pending", method |-> "cash", tendered |-> Absent, change |-> Absent]>>

MCRanges == {<<0, 2>>, <<1, 1>>}

Symmetry == Permutations(Askers)
=============================================================================
