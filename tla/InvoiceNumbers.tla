---------------------------- MODULE InvoiceNumbers ----------------------------
(***************************************************************************)
(* Yearly sales invoice (SI) numbers: assign_invoice inside the            *)
(* transaction of each sale, statement by statement.                       *)
(*                                                                         *)
(* Every sale of a year takes the row lock of that year's InvoiceSequence; *)
(* the first one creates the row (get_or_create), racing with others.  A   *)
(* sale either records the paper number it was given or allocates the next *)
(* automatic number, and may still fail before its commit.                 *)
(*                                                                         *)
(* A number is <<n, form>>, compared after Upper(Trim(...)): form "padded" *)
(* is the format SI%04d of automatic numbers, "plain" any other spelling   *)
(* of SI and digits, "other" a reference that is not SI and digits.        *)
(***************************************************************************)
EXTENDS Integers, Sequences, FiniteSets, FiniteSetsExt

CONSTANTS
    Years,      \* sales years
    Sales,      \* sale requests
    Asks,       \* what a sale may ask for, [year, paper], paper = Blank for none
    Blank,      \* no paper number
    PastNumbers, \* PastNumbers[y]: numbers recorded before this version, by date
    MaxValue,   \* 2^63 - 1: the largest value of a counter
    Free        \* no holder

ASSUME InvoiceAssumption ==
    /\ MaxValue \in Nat
    /\ \A a \in Asks : a.year \in Years
    /\ PastNumbers \in [Years -> Seq(Nat \X {"padded", "plain", "other"})]
    /\ Free \notin Sales

Padded(n) == <<n, "padded">>

\* The numbers of the history, of papers and automatic ones.
Numbers == (Nat \X {"padded", "plain", "other"}) \union {a.paper : a \in Asks} \union {Blank}

VARIABLES
    counter,    \* counter[y]: last_value of the committed row, NoRow without one
    holder,     \* holder[y]: the sale that holds the row lock or inserts the row
    recorded,   \* committed transactions, [sale, year, number, source]; sale = Free
                \* for those of the history
    log,        \* history: all numbers ever committed by sales, in order
    pc,         \* pc[s]: next statement of sale s
    ask,        \* ask[s]: what s asks for
    default,    \* default[s]: the value of _initial_value for the row s creates
    entry       \* entry[s]: its own uncommitted writes, [last, number, source]

invoiceVars == <<counter, holder, recorded, log, pc, ask, default, entry>>

NoRow   == -1
NoEntry == [last |-> NoRow, number |-> Blank, source |-> "none"]

TypeOK ==
    /\ counter \in [Years -> NoRow..MaxValue]
    /\ holder \in [Years -> Sales \union {Free}]
    /\ recorded \subseteq [sale : Sales \union {Free}, year : Years, number : Numbers,
                            source : {"automatic", "manual", "legacy"}]
    /\ pc \in [Sales -> {"start", "default", "insert", "again", "assign", "sell",
                         "committed", "failed", "conflict", "exhausted"}]
    /\ \A s \in Sales : default[s] \in 0..MaxValue

InvoiceInit ==
    /\ counter = [y \in Years |-> NoRow]
    /\ holder = [y \in Years |-> Free]
    /\ recorded = UNION {{[sale |-> Free, year |-> y, number |-> PastNumbers[y][i], source |-> "legacy"] :
                                  i \in DOMAIN PastNumbers[y]} : y \in Years}
    /\ log = <<>>
    /\ pc = [s \in Sales |-> "start"]
    /\ ask \in [Sales -> Asks]
    /\ default = [s \in Sales |-> 0]
    /\ entry = [s \in Sales |-> NoEntry]

Goto(s, step) == pc' = [pc EXCEPT ![s] = step]
Year(s) == ask[s].year

\* Rollback: the counter row, its increment and the sale disappear together.
Abandon(s, outcome) ==
    /\ holder' = [holder EXCEPT ![Year(s)] = IF @ = s THEN Free ELSE @]
    /\ entry' = [entry EXCEPT ![s] = NoEntry]
    /\ default' = [default EXCEPT ![s] = 0]
    /\ Goto(s, outcome)
    /\ UNCHANGED <<counter, recorded, log, ask>>

-----------------------------------------------------------------------------
\* Mutation: the counter is read without FOR UPDATE.
ReadRow(s) ==
    /\ entry' = [entry EXCEPT ![s].last = counter[Year(s)]]
    /\ Goto(s, "assign")
    /\ UNCHANGED <<counter, holder, recorded, log, ask, default>>

\* The row as s reads it once it holds the lock.
LockRow(s) ==
    /\ holder[Year(s)] = Free
    /\ holder' = [holder EXCEPT ![Year(s)] = s]
    /\ entry' = [entry EXCEPT ![s].last = counter[Year(s)]]
    /\ Goto(s, "assign")
    /\ UNCHANGED <<counter, recorded, log, ask, default>>

\* get_or_create, first get: waits for the lock of an existing row; a row that
\* another sale has not committed yet is invisible.
GetRow(s) ==
    /\ pc[s] = "start"
    /\ IF counter[Year(s)] = NoRow
       THEN /\ Goto(s, "default")
            /\ UNCHANGED <<counter, holder, recorded, log, ask, default, entry>>
       ELSE LockRow(s)

\* The places of the plain numbers below the limit in a year's history.
PlainHistory(y) ==
    {i \in DOMAIN PastNumbers[y] : /\ PastNumbers[y][i][2] \in {"padded", "plain"}
                                  /\ PastNumbers[y][i][1] < MaxValue}

\* _initial_value: the latest dated plain number of the year.  No sale of this
\* version can be recorded in a year without counter row, so it is a number of
\* the history.
InitialValue(s) ==
    /\ pc[s] = "default"
    /\ LET plain == PlainHistory(Year(s))
       IN  default' = [default EXCEPT ![s] =
                         IF plain = {} THEN 0 ELSE PastNumbers[Year(s)][Max(plain)][1]]
    /\ Goto(s, "insert")
    /\ UNCHANGED <<counter, holder, recorded, log, ask, entry>>

\* Mutation: after an IntegrityError the insertion is tried again.
InsertRowAgain(s) ==
    /\ pc[s] = "insert"
    /\ \/ /\ counter[Year(s)] # NoRow
          /\ UNCHANGED <<pc, holder, entry>>
       \/ /\ counter[Year(s)] = NoRow
          /\ holder[Year(s)] = Free
          /\ holder' = [holder EXCEPT ![Year(s)] = s]
          /\ entry' = [entry EXCEPT ![s].last = default[s]]
          /\ Goto(s, "assign")
    /\ UNCHANGED <<counter, recorded, log, ask, default>>

\* The INSERT waits while another sale inserts the same year.  If that one
\* commits, the primary key is taken (IntegrityError) and s gets the row again.
InsertRow(s) ==
    /\ pc[s] = "insert"
    /\ \/ /\ counter[Year(s)] # NoRow
          /\ Goto(s, "again")
          /\ UNCHANGED <<holder, entry>>
       \/ /\ counter[Year(s)] = NoRow
          /\ holder[Year(s)] = Free
          /\ holder' = [holder EXCEPT ![Year(s)] = s]
          /\ entry' = [entry EXCEPT ![s].last = default[s]]
          /\ Goto(s, "assign")
    /\ UNCHANGED <<counter, recorded, log, ask, default>>

GetAgain(s) == pc[s] = "again" /\ LockRow(s)

\* The numbers recorded in the year of s, of the given provenance.
Recorded(s, sources) ==
    {t.number : t \in {u \in recorded : u.year = Year(s) /\ u.source \in sources}}

\* Mutation: only legacy references are compared.
AssignPaperAgain(s) ==
    /\ pc[s] = "assign"
    /\ ask[s].paper # Blank
    /\ IF ask[s].paper \in Recorded(s, {"legacy"})
       THEN Abandon(s, "conflict")
       ELSE /\ entry' = [entry EXCEPT ![s].number = ask[s].paper, ![s].source = "manual"]
            /\ Goto(s, "sell")
            /\ UNCHANGED <<counter, holder, recorded, log, ask, default>>

\* A paper number may not repeat another paper or legacy number of the year.
AssignPaper(s) ==
    /\ pc[s] = "assign"
    /\ ask[s].paper # Blank
    /\ IF ask[s].paper \in Recorded(s, {"manual", "legacy"})
       THEN Abandon(s, "conflict")
       ELSE /\ entry' = [entry EXCEPT ![s].number = ask[s].paper, ![s].source = "manual"]
            /\ Goto(s, "sell")
            /\ UNCHANGED <<counter, holder, recorded, log, ask, default>>

\* The next automatic number that is not recorded yet, of any provenance.
AssignAutomatic(s) ==
    /\ pc[s] = "assign"
    /\ ask[s].paper = Blank
    /\ LET free == {n \in (entry[s].last + 1)..MaxValue :
                      Padded(n) \notin Recorded(s, {"automatic", "manual", "legacy"})}
       IN  IF free = {} THEN Abandon(s, "exhausted")
           ELSE /\ entry' = [entry EXCEPT ![s] = [last |-> Min(free), number |-> Padded(Min(free)),
                                                  source |-> "automatic"]]
                /\ Goto(s, "sell")
                /\ UNCHANGED <<counter, holder, recorded, log, ask, default>>

\* The rest of the sale, then its commit.
CommitSale(s) ==
    /\ pc[s] = "sell"
    /\ LET t == [sale |-> s, year |-> Year(s), number |-> entry[s].number, source |-> entry[s].source]
       IN  /\ recorded' = recorded \union {t}
           /\ log' = Append(log, t)
    /\ counter' = [counter EXCEPT ![Year(s)] = entry[s].last]
    /\ holder' = [holder EXCEPT ![Year(s)] = Free]
    /\ entry' = [entry EXCEPT ![s] = NoEntry]
    /\ default' = [default EXCEPT ![s] = 0]
    /\ Goto(s, "committed")
    /\ UNCHANGED ask

\* Insufficient stock, a refused payment or a dead worker.
FailSale(s) ==
    /\ pc[s] \in {"default", "insert", "again", "assign", "sell"}
    /\ Abandon(s, "failed")

\* remove_dummy_data deletes transactions; the counter stays.
DeleteSale ==
    /\ \E t \in recorded :
         /\ t.source # "legacy"
         /\ recorded' = recorded \ {t}
    /\ UNCHANGED <<counter, holder, log, pc, ask, default, entry>>

-----------------------------------------------------------------------------
Step(s) ==
    \/ GetRow(s)
    \/ InitialValue(s)
    \/ InsertRow(s)
    \/ GetAgain(s)
    \/ AssignPaper(s)
    \/ AssignAutomatic(s)
    \/ CommitSale(s)

Done == {"committed", "failed", "conflict", "exhausted"}

Finished ==
    /\ \A s \in Sales : pc[s] \in Done
    /\ UNCHANGED invoiceVars

InvoiceNext ==
    \/ \E s \in Sales : Step(s) \/ FailSale(s)
    \/ DeleteSale
    \/ Finished

InvoiceSpec == InvoiceInit /\ [][InvoiceNext]_invoiceVars

-----------------------------------------------------------------------------
\* The automatic numbers of a year only ever grow, in commit order: two sales
\* never get the same one, also when they race to create the year's counter,
\* and a number is not issued again after its sale was cancelled or deleted
\* ("The persistent counter never goes backwards after cancellation/deletion").
AutomaticNumbersGrow ==
    \A i, j \in DOMAIN log :
        /\ i < j
        /\ log[i].year = log[j].year
        /\ log[i].source = "automatic"
        /\ log[j].source = "automatic"
        => log[i].number[1] < log[j].number[1]

\* A committing sale never repeats a number recorded in its year: a paper number
\* is no other sale's paper number and no reference of the history, an automatic
\* number is no number of any kind; only a paper number may overlap an automatic
\* one.  (The lock of the counter row covers the time between the check in
\* assign_invoice and the commit.  The unique constraint of the table on year,
\* number and source is not modelled: the property says that it never fires.)
NumberIsNew ==
    [][\A t \in recorded' \ recorded :
         \A u \in recorded :
             u.year = t.year /\ u.number = t.number =>
                 t.source = "manual" /\ u.source = "automatic"]_invoiceVars
=============================================================================
