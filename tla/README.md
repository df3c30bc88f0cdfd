# Formal model of the Rosario Dairy backend

TLA+ modules, TLC configurations and TLAPS proofs for the Django backend in this
repository: a point-of-sale and inventory system of a dairy (sales, batches with
expiration dates, invoices, reports, cached reads, accounts, an imported sales
history) with a forecasting worker, on PostgreSQL and a shared cache.
`PROJECT.json` maps every definition to the lines it models and lists runs,
mutants, findings, hazards and theorems.

## 1. The system

Requests are served by several worker processes. There are no ATOMIC_REQUESTS:
a handler runs in autocommit except where it opens `transaction.atomic()`.
PostgreSQL runs at READ COMMITTED; exclusion comes from `select_for_update`,
advisory locks and unique constraints. Other processes: the forecast watcher
(midnight runs), the child processes of manual forecast refreshes, and offline
management commands.

| Component | State | Operations | What makes it correct |
|---|---|---|---|
| Product batches (`inventory`) | `ProductBatch` rows: initial and remaining quantity, status, dates | receive, edit dates, delete | remaining stays within the receipt, status agrees with quantity |
| FEFO deduction, checkout, orders (`sales`, `inventory`) | batches, `Transaction`, `TransactionItem`, `Order` | `checkout`, `place_order`, `encode_transaction`, each calling `deduct_product_batch` | earliest expiry first, no lost update, no partial sale |
| Adjustments (`inventory`) | `StockAdjustment` rows | `create_stock_adjustment` (eight types, corrections with sign) | never below zero or above the receipt; write-offs are final |
| Cancellation (`sales`) | `is_voided`, `StockReturn` rows | `void_transaction` from two routes | stock restored once, never more than sold, never into written-off batches |
| Movement report (`reporting`) | none: reconstructed from dated rows | `inventory_ledger` | balances of past days are the true ones |
| Request IDs (`sales`, `inventory`) | `SaleSubmission`, `StockAdjustmentSubmission`, `encoding_request_id` | keyed submissions and retries | an ID takes effect once; a retry gets the original |
| Invoice numbers, batch numbers | `InvoiceSequence` per year, `BatchSequence` per month | `assign_invoice`, `next_sequence` | unique, growing, no collision at a rollover |
| Payments (`sales`) | payment columns of an encoded sale | `update_encoding_payment` | paid is final, a repeated update is answered like the first |
| Sales and customer reports (`reporting`, `sales`) | sales with snapshots of the catalogue; cached reports | six reports, history summary, report cache and refresh | all reports of a range agree; a viewer gets own, current data |
| Data cache (`config`) | shared version, payloads, `CacheInvalidation` markers | write signals, `cache_namespace`, `cache_api_response` | no read after a commit sees older data, whatever fails |
| Live events (`config`) | streams and the namespace each has announced | open, check, heartbeat, close | no change is missed for good |
| Accounts (`accounts`) | users, token versions, sessions, one-time codes, lockout | login, refresh, logout, activity, password reset, e-mail change, administration | revoked tokens stay revoked, expired sessions stay expired, a refresh token rotates once, codes match their account, an admin remains |
| History importers (`sales.importers`) | workbooks, imported products, customers, receipts | parse, plan, load, refresh | receipts are not mixed or guessed; the history is what the policy plans |
| Consolidation, clean-up, backup | the same rows beside live sales | merge products, merge customers, remove demonstration rows, select backup rows | references agree; live sales and contacts survive; a backup is self-contained |
| Forecast jobs (`forecasting`) | `ForecastRefreshJob` rows, session advisory lock | start, poll, child run, scheduled run, recovery | one active job, live jobs are left alone, every job ends |
| Forecast lifecycle | model runs, issues, scores, reviews, active model | refresh, issue, score, promote, activate, serve | published amounts never change, evidence is current, deployed models were trained on the present ledger |
| Forecast charts | graph runs, issued predictions, bundles, issues, reviews, scores | refresh, issue, attest, score, report | views are coherent, forecasts were made in advance, the past is frozen |
| Selection of models | histories, findings | compare, select, test, fit, save, validate | the winner was earned on earlier periods and is used for its own history only |

How they interact: a sale takes the advisory lock of its request ID, then the
row of the year's invoice counter, then batches product by product; a
cancellation takes the transaction row, then batches; adjustments and edits take
one batch row. Every save of a business row leaves a cache marker and rotates
the cache version after the commit; live streams and the report cache ask for
that version. The movement report reads what sales, cancellations and
adjustments recorded. Forecast refreshes fit outside any transaction and commit
under a lock that excludes writers of sales, after reading their inputs again.
Maintenance commands lock all tables they rewrite. Account requests share the
rows of the users: a login reads them without a lock, changes by an admin lock
all active admins and then their target, everything else locks the one account.

What is hard to test here: two writers between a query and its row locks,
retries that overtake their original, the first sale of a year or delivery of a
month, failures after a commit (cache, marker deletion, worker), a reader that
stores an old payload late, long histories of sales, corrections and
cancellations of one batch, maintenance commands after each other in any order,
and forecasts computed from a ledger that is corrected meanwhile. `PROJECT.json`
lists these as hazards at their lines, with the properties that cover them.

## 2. Modules

| Module | Models | State and actions |
|---|---|---|
| `StockLedger` | every operation that moves stock, one action per handler | batch columns as functions of the primary key; `ReceiveBatch`, `EditBatch`, `DestroyBatch`, `Checkout`, `VoidTransaction`, `StockAdjustment`, `NextDay` |
| `InventoryLedger` | `inventory_ledger` over `StockLedger` | adds the dates of the rows and a history of true closing stock; the report is the operators `Report...` |
| `SubmissionService` | what the keyed endpoints promise, atomically | `Ask`, `Create`, `Refuse` |
| `KeyedSubmission` | `submit_sale`, `encode_transaction`, `submit_stock_adjustment` step by step; refines `SubmissionService` | program counters, advisory locks, row lock; `Validate` ... `Commit`, `Crash` |
| `BatchLocks` | the row locks below `StockLedger` | committed rows, locks, private copies; a sale and a cancellation by statements and turns of their loops: `AssignInvoice`, `FindBatches`, `LockFound`, `CheckTotal`, `TakeBatch`, `EndLine`, `CommitSale`; `LockSale`, `FindItems`, `RestoreItem`, `CommitVoid`; `Adjust`, `EditExpiration`, `DeadlockAbort` |
| `InvoiceNumbers`, `BatchNumbers`, `DocumentNumbers` | `assign_invoice`; `next_sequence` within a delivery; their composition | counters, holders of their rows, recorded numbers; `Allot`, `CommitBatch`, `AbandonBatch`, `NextMonth` |
| `SaleRecords` | what a sale records, payment updates, catalogue edits | `RecordSale`, `VoidSale`, `SendPayment`, `ResendPayment`, `UpdateEncodingPayment`, `EditProduct`, `ToggleVisible`, `ToggleActive` |
| `SalesReports` | the reports as operators over the stored sales, the report cache | `DailySales`, `WeeklySales`, `MonthlySales`, `CustomerReport`, `RevenueReport`, ...; `AskReport`, `BuildReport`, `RefreshReports`, `Cooled` |
| `CacheCoherence` | `cache_invalidation`, `data_cache`, `cache_payloads` | version, markers, payloads, readers and writers |
| `LiveEvents` | `live_events` over `CacheCoherence` | a stream is a reader that asks again and again: `OpenStream`, `StartCheck`, `EndCheck`, `CloseStream` |
| `UserRows`, `Sessions`, `Recovery`, `AdminChanges`, `Accounts` | rows of `accounts`; login, lockout, tokens; codes, e-mail, profile; `update_user` and `deactivate_user` by statements; composition | user rows, locks, codes, sessions, tokens, requests in progress |
| `Workbooks` | `annual_sales` and `build_plan` | the sheets read so far; `ParseRow`; `Planned` |
| `SalesHistory` | load, refresh, consolidation, clean-up and backup over `Workbooks`, beside live use | tables of products, batches, customers, receipts; `Load`, `ApplyRefresh`, `ConsolidateProducts`, `ConsolidateCustomers`, `RemoveDummyData`; the catalogue (`CreateProduct`, `RenameProduct`, `SetProductActive`, `DeleteProduct`), the accounts of customers (`CreateCustomer`, `RenameCustomer`, `SetContact`, `DeleteCustomer`, `ReactivateCustomer`), `LiveSale`, `VoidReceipt` |
| `ForecastJobs` | `refresh_jobs` and its schedule | job rows, lock, processes |
| `ForecastLifecycle` | `lifecycle`, `learning`, `serving` | ledger, reviews, runs, issues, scores; `RefreshReads`, `RefreshCommits`, `AttestCoverage`, `ActivateModel`, `Serve` |
| `ChartSources` | the inputs shared by the charts | ledger per segment and period, reviews, saved primary fits |
| `BetaGraph` | `beta_graph`, `graph_range`, `graph_sarima` | graphs and issued predictions; `GraphRefreshBuilds`, `GraphRefreshCommits`; `Build`, `Report`, `RangeReport` |
| `Projections` | `provisional`, `prospective` | bundles, issues, reviews, scores; `BundleReads`, `BundleBuilds`, `BundleCommits`, `IssueCurrent`, `AttestProjection`, `ScoreClosed` |
| `ModelSelection` | `train_weekly`, both `train`, `_train`, `_valid_findings`, `weekly_report`, `_regular_backtest` | history with reviewed zero months, sales of other segments, the run in progress and the newest saved one; `FitCandidates`, `ReuseFindings`, `RetainRun`, `ChangeHistory`, `ChangeOthers` |
| `ChartForecasts` | composition of the last four | - |
| `CheckoutProofs`, `BatchLocksProofs`, `SalesDocumentProofs`, `AccountsProofs`, `PublicationProofs`, `ForecastingProofs`, `SalesHistoryProofs` | theorems (section 5) | one module for what a reader would look for together |
| `FiniteSums` | sums over finite sets, least and greatest elements: what the proofs share | lemmas only |
| `MC...` | instances for TLC | requests, histories, rows, symmetry |

`StockLedger` treats a handler as atomic because it runs in one transaction that
holds the row locks of all it changes; `BatchLocks` examines that very claim at
the level of statements: the conservation part of its `UpdatesCountOnce` is the
law of `StockLedger` for interleaved transactions. Likewise `SalesReports` takes
the data version as a counter that every commit advances, and `CacheCoherence`
examines that.

Abstractions.

- Names, wording and formatting are left out; quantities and amounts are whole
  cents and so are integers. In `StockLedger` the five adjustment types that the
  code treats alike are one, a cart has at most one line per product, as
  `price_items` requires, and keys of batches matter by their order only.
- In `BatchLocks` what a query found is a set with the rows as they were then,
  from which the order of locking follows; a transaction on a single row is one
  step. Two waiting jobs are in a circle when both belong to a set of jobs that
  wait for each other.
- In `KeyedSubmission` one stock figure stands for the batches of the cart.
- In `InvoiceNumbers` a number is a pair of its value and its spelling, because
  `SI0007` and `SI7` differ for the comparison and agree for `_initial_value`;
  the limit 2^63 - 1 is the constant `MaxValue`. A recorded number carries the
  sale it belongs to, so that a number given out twice is two records. The unique
  constraint of the column, which would turn such a repeat into a failed save, is
  left out: `NumberIsNew` holds by the lock and the comparisons alone. `DocumentNumbers`
  follows the requests of one counter per behaviour: their transactions share no
  row. When two deliveries race to insert the `BatchSequence` row of a month,
  the loser finds the row in the end; it waits for it as for a held row, in one step.
- In `CacheCoherence` a fresh uuid is the next of a sequence of tokens, and a
  uuid nobody else can learn is `Private`. A publication of `LiveEvents` carries
  only a wakeup and may be lost, so a stream may check at any time.
- In `Accounts` a password hash, a token, a session and a code are named by the
  request that made them (two codes never coincide), a client types the password
  or identity that is current when its request arrives, and a request that its
  first unlocked read refuses does not appear. Token lifetimes are longer than
  idle sessions and are left out.
- In `SalesReports` a stored report is represented by what it was built from
  (viewer, version, day); a behaviour follows one `desk` (counter, payments or
  reports); the limits of rankings are left out. The amount of a line and the
  gross and total of a sale are columns of their own, as they are stored; `History`
  holds receipts whose columns disagree (a discount, lines without an amount or
  with price 0). The parts of a line that come from several batches are one line.
- A workbook row is a record of its cells after cleaning; `formula` is what
  matters of the formula in the total column. A date typed as text with a digit
  missing in the year is restored and not compared with the sheet. A row that carries only a date
  moves the current date, and a following unlabelled row still joins the earlier
  ticket, as in `parse_workbooks`. A refreshed receipt numbers its lines by their
  positions in the ticket, of which it may keep only some. Products, batches,
  customers and receipts are tables: functions whose domain is the set of ids in
  use, so that a deleted row has no value. The orders of a receipt are a set of at
  most one: a sale at the counter has none, even with a customer. Its items may be
  several for one line of the cart (`Carts`), its order has the lines as they were
  entered. Of a product the unit and variant, of a customer two of the three
  contact fields are left out; they only make names distinct. A refresh that needs
  a row for a key has two ids to choose from, the second (`SpareId`) for the case
  that a renamed account occupies the first; `EnoughIds` ends a behaviour that
  needs a third. Maintenance commands are one step: they hold
  locks on all tables from their first read to their commit.
- In the forecasting modules a digest is represented by what it digests, so a
  ledger that is corrected back has its old revision again. What an optimizer
  finds is external: any prediction or none (`ModelSelection`), or success and
  failure with a path that is a function of the rows (`ChartSources`). Errors of
  candidates on the same periods are compared without dividing by their common
  total and without rounding the quotient to four digits; two candidates whose
  errors differ by less are a tie in the code. Of the comparison methods
  `ModelSelection` keeps one. Its history has no gaps, and the sales of other
  segments change only in periods that have regular sales. The rows of
  `ChartSources` end with the last recorded period (`Block`): a full week without a
  sale after it, in the same month, is not in the model; `weekly_rows` starts anew
  after such a week.

Operators whose comment says *Mutation* are deliberately wrong variants of the
definition after them; no specification uses them, they show that a property can
fail.

## 3. Runs

All bounds are constants of the modules, named there.

| Run | Checks | Result |
|---|---|---|
| `inventory_ledger` | quantity within the receipt, status agrees with quantity, conservation, returns match cancellations, write-offs are final; any range of the movement report shows the true balances while receipt dates are not moved past the day of entry | holds; 175,000 states |
| `keyed_submission` | an ID takes effect once; the protocol implements `SubmissionService` (`Service == INSTANCE ... WITH`); everything is answered | holds; 644,000 states |
| `batch_locks` | every update counts once, no circle of waits without an edit, earlier batches emptied first, every request ends | holds; 61,000 states |
| `cache_coherence` | a read that starts after a marked commit is fresh, also through a cached payload; a stream misses no change | holds; 4,430,000 states |
| `document_numbers` | automatic invoice numbers grow and are new, batch numbers never collide, every request ends | holds; 300,000 states |
| `forecast_jobs` | the table tells which one job is alive, every job ends | holds; 12,500 states |
| `accounts` | sign-in safety (revoked tokens, single rotation, lockout), sessions and codes end for a reason, codes match their account, deactivations leave an admin | holds; 354,000 states |
| `accounts_promotions` | an active admin remains, also with promotions in between | violated: two removals with disjoint locks |
| `forecast_lifecycle` | a published amount never changes, evidence is current, models are deployed from the current ledger | holds; 4,761,000 states |
| `sales_history` | the import is faithful, the history is what was planned, rows agree with each other and with a backup, maintenance keeps live sales and contacts | holds; 198,000 states |
| `chart_forecasts` | the graph is honest and its past is frozen, projections and their evidence are current, a used model was earned and is used or shown exactly for the sales it was computed from | holds; 498,000 states |
| `sales_reports` | all reports of a range agree, requests get their own answer, what was recorded stands | holds; 77,000 states |

Why the bounds are enough to be interesting.

- `inventory_ledger`: two batches of one product with up to two units, one
  possibly left by an earlier version (marked expired, or an empty reference),
  one sale and a midnight: the sale can split over batches, a batch can be
  emptied, corrected, voided into, expire and be written off in every order, and
  ranges lie before and around the movements. The theorems cover any number.
- `keyed_submission`: three submissions over eight contents: a retry, a changed
  payload, the other route, another account, an encoding of either account, an
  adjustment and an unkeyed sale.
- `batch_locks`: seven transactions, among them two sales of different years
  (which do not exclude each other at the invoice counter) and an edit that swaps
  the order of two batches.
- `cache_coherence`: two readers or a stream with `MaxBeside` other reader, two
  writers and `RECOVERY_BATCH_SIZE` 1, so that both the ordinary and the overfull
  queue of markers occur; two checks of a stream.
- `document_numbers`: a year with duplicates, a number ahead of the counter and
  an outlier at the limit, and an empty year; three deliveries over two months.
- `forecast_jobs`: two API workers, two jobs and two deaths.
- `accounts`: any three of seventeen requests beside an earlier sign-in, for two
  admins, with a lockout after two failures and clocks of two ticks: enough for a
  login that a revocation overtakes, three failures around a lockout, two uses of
  one refresh token, a late mail failure after a newer code, and two admins
  against each other. `accounts_promotions` fixes five requests for three users.
- `forecast_lifecycle`: three months, two refreshes at a time, three fits that
  pass the retrospective gate or fail, three reviews, and two corrections, so
  that a ledger can be corrected back and an earlier model be activated again;
  one month of evidence suffices for the gate. With amounts 0 and 1 the error is
  0 or 100 percent, so `TARGET_PERCENT` is 101.
- `sales_history`: all workbooks of up to three of the listed rows (labelled,
  continued, dated, subtotal, cancelled, adjustment rows, unknown amounts, a year
  with a digit missing), two sheets one of which repeats the other; histories of
  up to two rows (`MaxImported`) are loaded, then two uses of the application
  (`MaxUses`; any of a sale, a void, or an edit of a product or customer) and two
  maintenance commands (`MaxCommands`) in any order. Two uses and a command are
  enough for a rename that parts a receipt from its label and a refresh after it,
  for contact details on an account that is merged or refreshed, and for sales of
  two spellings of a product that are merged after them.
- `chart_forecasts`: a behaviour follows one engine at one granularity. Periods
  of two days, days 5, 6 and 8 (before, at and after the turn of a period), one
  change of the ledger in a past or the current period, one review, one primary
  fit, two saved runs; a fit of either segment may fail. For the selection, two
  or three periods, months among them reviewed as true zeros, all outcomes of two
  candidates, and one change at any time: a correction, a review, a new period or a
  sale of another segment. Models are compared once; the run of a later source can
  reuse the findings.
- `sales_reports`: history with a discounted receipt and one whose lines lack
  amounts, products with and without variant, and one new sale, days, weeks and months of at most
  two days, one edit, a repeated payment request, an administrator (who also
  sells) and a staff member with two report requests.

`TypeOK` is a property of `inventory_ledger`; the `TypeOK` (`SubmissionTypeOK`) of the other modules
is part of their inductive invariants and proved with them where there are proofs.

Deadlock is checked where the system always has something to do; not in the
cache, account, forecast, history and report runs, where all requests may have
been answered. Where all requests end, an explicit stuttering action marks it in
the other modules.

Fairness. `FairSubmissionSpec`, the `FairSpec` of `BatchLocks` and `NumbersSpec`
of `DocumentNumbers` only say that while some transaction can take a step, one
does: threads keep running, PostgreSQL grants released locks and breaks
deadlocks. As all requests are finite, no fairness among them is needed.
`ForecastJobs` assumes that requests in progress and runs continue, that stages
terminate, that there is a run every midnight and that time passes. It does not
assume that anybody polls or that a process ever wins the lock: a job ends
because every holder of the lock recovers abandoned jobs, and the number of
deaths is bounded by `MaxCrashes`.

## 4. Findings

- **No admin left.** A change locks the admins its query found; one that is
  promoted while the query waits is counted but not locked. A demotion and a
  deactivation that so lock disjoint rows each count the other's target and both
  commit (`accounts_promotions`, five requests). While nobody is promoted or
  reactivated the locks suffice: every change holds all who are still admins
  (`AdminRemainsOfOld`).

Behaviour of the code that the models contain, without a run of its own:

- The receipt date of a batch that was sold from can be edited to a later day; a
  movement report of a past range then opens negative, so `RangeReportReconstructs`
  speaks of ledgers whose receipts were not moved past the day of entry.
- A sale that waits for a cancellation re-reads only the rows its query chose; it
  skips an earlier batch that the cancellation made available, so
  `EarlierFoundEmptied` speaks of the batches the query found.
- A save outside a transaction is committed before its marker is inserted; a
  worker that dies between leaves an old payload valid, so `ReadsFresh` speaks of
  marked commits.
- The views validate customer and products before the request ID is looked up,
  so a retry of a recorded sale after a deactivation is answered 400 (`Validate`
  in `KeyedSubmission`), although the repository's README promises the original.
- A workbook line whose quantity is missing, zero or negative is dropped with its
  amount and reported as an issue; receipts without a date are not totalled.
  `ImportIsFaithful` therefore compares totals of sheets whose lines have positive
  quantities and whose receipts are dated.
- A client that retries a payment whose answer it lost gets 404 instead of the
  recorded payment once a category of the sale was hidden or deactivated meanwhile
  and the client is staff: the view looks the sale up among the visible ones
  (`AtView`). The comment at the service promises the recorded answer to an
  identical retry; `AnswersAreOwn` promises it unless the sale was cancelled or is
  no longer shown.
- A sale of a product without a variant keeps none. Reports fall back to the
  product's present variant (`ProductLabel`), so giving the product a variant
  relabels its past rows; `RecordsStand` exempts the product rows of such ranges.
- The lines of an imported or older receipt need not add up to its total. Product,
  family and category reports sum lines, all others sum totals; `ReportsAgree`
  says that each group agrees, and that both agree in ranges without such receipts.
- A workbook date whose year lacks a digit is restored and never compared with its
  sheet, so such a row can put a receipt into another month than its sheet's
  without a flag; `PlannedSalesAreCertain` exempts these dates.
- An imported receipt is not tied to its label once an administrator renamed its
  customer to another key. The next refresh gives the receipt to an account of the
  label's key, and leaves the renamed account, with its contact details, without
  it. `HistoryIsThePlan` therefore requires the key only until such a rename
  (`renamed`), and `MaintenanceKeeps` speaks of accounts that are replaced by
  another of their key.
- The comparison of a monthly model is withheld as inconsistent when a month it
  was tested on is a reviewed zero, because no sale is recorded for it, although
  nothing changed. And a comparison is withheld when any sale of any segment is
  corrected, because runs are found by the revision of the whole source.
- A failed fit of the graph is reused for the same inputs, a failed fit of the
  projections is tried again at the next refresh.

## 5. Proofs

The theorems hold for every value of the constants that satisfies the named
assumptions, that is, for any number of batches, sales, requests, users, months,
sheets and so on. The assumptions give constants their types, make sets finite
over which something is counted or summed, and keep identifiers apart (a marker
such as `Free` or `None` is no request); the others say what the code guarantees:
what the serializers let through (`AsksAssumption`, `LocksAssumption`,
`RecordsAssumption`), what `train` can return (`LifecycleAssumption`), and of the
name tables (`HistoryAssumption`) that a canonical name has the key it is
canonical for, as had the name an older alias table gave. They are evaluated by
TLC on the instances of section 3. Every inductive invariant was checked by TLC
on the instance of its run before it was proved.

| Module | Theorem | States |
|---|---|---|
| `CheckoutProofs` | `TypeCorrect`, `StockNeverLeavesReceipt`, `StatusAlwaysMatchesStock`, `ReturnsAlwaysMatchVoids`, `WriteOffIsFinal` | `[]TypeOK`, `[]StockWithinReceipt`, `[]StatusMatchesStock`, `[]ReturnsMatchVoids`, `WrittenOffIsFinal` of `StockLedger` |
| | `StockIsAccountedFor` | `[]Conservation` |
| | `ReportsReconstructThePast` | `[]RangeReportReconstructs` of `InventoryLedger` |
| | `SubmissionTypeCorrect`, `KeyAlwaysTakesEffectOnce` | `[]SubmissionTypeOK`, `[]KeyTakesEffectOnce` of `KeyedSubmission` |
| | `ProtocolImplementsService` | the refinement `ImplementsService` |
| `BatchLocksProofs` | `UpdatesAlwaysCountOnce`, `NoCircleWithoutEdit`, `EarlierBatchesEmptied` | `[]UpdatesCountOnce`, `[]NoWaitCycle`, `EarlierFoundEmptied` |
| `SalesDocumentProofs` | `RecordsNeverRewritten`, `AnswersAlwaysOwn`, `ReportsAlwaysAgree` | `RecordsStand`, `AnswersAreOwn`, `[]ReportsAgree` of `SalesReports` |
| | `AutomaticNumbersAlwaysGrow`, `RecordedNumberIsNew`, `BatchNumbersNeverCollide` | `[]AutomaticNumbersGrow`, `NumberIsNew`, `[]NumbersNeverCollide` of `DocumentNumbers` |
| `AccountsProofs` | `AccountsTypeCorrect`, `SignInIsSafe`, `CodesAlwaysMatchAccount`, `OldAdminsLeaveOne` | `[]TypeOK`, `[]SignInSafety`, `[]CodesMatchAccount`, `[]AdminRemainsOfOld` |
| | `NothingEndsWithoutReason` | `EndsForAReason` |
| `PublicationProofs` | `ReadsAlwaysFresh`, `NoChangeEverMissed` | `[]ReadsFresh`, `[]NoChangeMissed` of `LiveEvents` |
| | `PublishedForecastStands`, `EvidenceAlwaysCurrent`, `DeployedOnItsLedger` | `[]PublishedNeverChanges`, `[]EvidenceIsCurrent`, `DeployedFromCurrentLedger` of `ForecastLifecycle` |
| `ForecastingProofs` | `JobsTypeCorrect`, `AlwaysOneLiveJob` | `[]TypeOK`, `[]OneLiveJob` of `ForecastJobs` |
| | `ModelsAlwaysEarned`, `ProjectionsAlwaysCurrent`, `GraphAlwaysHonest`, `PastAlwaysFrozen` | `[]SelectionIsEarned`, `[]ProjectionsCurrent`, `[]GraphIsHonest`, `PastForecastFrozen` of `ChartForecasts` |
| `SalesHistoryProofs` | `WorkbooksReadFaithfully`, `RowsAlwaysAgree`, `HistoryStaysThePlan`, `MaintenanceAlwaysKeeps` | `[]ImportIsFaithful`, `[]RowsAgree`, `[]HistoryIsThePlan`, `MaintenanceKeeps` |

The arguments, and why the properties alone are not inductive:

- **Stock** (`StockInv`, `RowsInv`, `MovementInv`; assumes `BoundsAssumption`). A
  cancellation stays within the receipt only because its amount is capped by what
  is missing (`RestoreAmountFits`); a depleted batch becomes available only with
  stock because the amount is positive; a disposed batch cannot be refilled or
  deleted because `Adjustable` refuses it and it once held stock
  (`DisposedHadStock`). The equation of `Conservation` holds for a new batch or a
  new sale only because nothing refers to it yet (`RowsInv`). The movement report
  is right because the dated rows of a batch sum up to what it lost and lie
  between its receipt and today (`MovementInv`).
- **Row locks** (`LocksInv`, `TurnInv`, `OrderInv`; assumes `LocksAssumption`). A
  job saves copies only of rows it has locked (`CopiesHeld`), so each copy was
  computed from the row that is still committed (`CopiesFit`), and its commit
  adds exactly what it recorded. Whoever cancels the sale holds its row and finds
  it active. A sale works on one product at a time, after those before it
  (`LineInTurn`); of the rows it holds, the sellable ones are still to be taken
  from or were emptied (`HeldIsTaken`). As long as no date was edited, a job that
  is going to lock a row holds only rows that precede it (`LocksAscend`); so in a
  circle of waits the last of the awaited rows has a holder that awaits a later
  one, and nobody can wait for a job that is still at its first lock
  (`NobodyWaitsForBeginners`).
- **Request IDs** (`SubmissionInv`; assumes `ServiceAssumption`,
  `NoneAssumption`). A submission that found no use of its ID must still find none
  when its rows are locked: it holds the advisory lock, nobody else with that ID
  does (`LockExclusive`), so whatever is committed in between has other IDs
  (`LookupStands`), and the stock it read is still there (`StockStands`). With
  that every step of the protocol is a step of `SubmissionService` or changes
  nothing it knows of.
- **Numbers** (`InvoiceInv`, `BatchInv`; assume `InvoiceAssumption`,
  `BatchAssumption`). The one request that holds the row of a counter knows its
  value, and no number given away exceeds the committed value.
- **Forecast jobs** (`JobsInv`; assumes `JobsAssumption`, `ProcessAssumption`).
  Whoever recovers, picks or runs a job has the maintenance lock (`LockHeld`), no
  job becomes active beside its own (`OwnJobAlone`), and a job is launched once
  (`LaunchedOnce`).
- **Accounts** (`Typed`, `TokenInv`, `AdminInv`; assume `AccountsAssumption`,
  `AsksAssumption`). Tokens come from one login by rotations, and a token with
  the present version was made under it (`VersionsBound`, `Lineage`,
  `RotatedOnce`). As long as nobody becomes an admin, whoever is about to remove
  one holds the rows of all that remain (`AdminsHeld`) and has seen another
  (`AnotherAdmin`).
- **Cache and streams** (`CacheInv`; assumes `CacheAssumption`,
  `StreamAssumption`). Payloads and announced namespaces are current when they
  are made; a write that leaves one stale also leaves a marker that nobody may
  delete before the version has been rotated (`StaleIsMarked`).
- **Forecast lifecycle** (`LifecycleInv`; assumes `LifecycleAssumption`).
  Whatever was shown for a month is the amount of its one issue (`ShownIsIssued`),
  and scores hold the revenue of the revision they name (`ScoresKept`).

- **Sales reports** (`RecordsInv`, `ServingInv`; assume `RecordsAssumption`,
  `ReportsAssumption`). An answer "saved" says what is still in the row, because
  a paid row is read-only (`PaymentsStand`); a report in progress was asked under
  the identity it is stored under, and data version and day only grow
  (`AskStands`, `CachedStands`). That all reports agree is a fact about the
  operators, for any sales, whatever their columns hold: one group of reports
  groups the totals of the same sales by a label (day, clamped week, method,
  customer), another their lines (product, category), and a sum over a finite set
  is the sum over its groups (`SumGroups`). A recorded name or variant is never
  written again, so the label of a line with both stands.
- **Selection of models** (`SelectionInv`; assumes `SelectionAssumption`).
  Every run was made of some history (`Made`): its source has the recorded periods
  of that history, its coverage the reviewed ones, its findings the rows of both.
  The folds of a comparison hold the amounts of their periods (`Compares`). So a
  run of the present source was tested on what is recorded now, except for
  reviewed zeros (`MadeIsShown`), and findings that are reused for a later source
  of the same rows are as good as newly made (`FindingsOfRows`).
- **Projections** (`SourcesInv`, `BundlesInv`, `JobInv`, `ScoresInv`; assume
  `ChartAssumption`). A refresh reads the saved fits when it looks for a bundle
  and again when it builds. Fits and reviews only grow, so the basis can only move
  forward (`Precedes`); if it is the same in the end, nothing came in between. A
  score holds what the revision it names says was recorded.
- **Graph** (`DaysInv`, `PredictionsInv`, `GraphsInv`; assume `GraphAssumption`).
  Every saved graph is sound for its own context (`SoundGraph`): parts add up,
  what lies ahead follows from its inputs. A prediction is issued on a day before
  its target begins, and days do not go back; so nothing is added to the issued
  predictions of a past period, and the choice among them stays
  (`PredictionsKept`).
- **Reading of workbooks** (`BooksOK`; assumes `WorkbookAssumption`).
  `ReaderOK` is an invariant of the parser over the rows of one sheet: where each
  ticket begins and which rows it took in (`LastRow`, `Agrees`), that dates
  without a flag are of the sheet's month (`InMonth`), and that the amounts of the
  tickets add up to those of the rows as long as the rows are plain (`Balanced`).
- **Imported history** (`HistoryInv`: `BooksOK`, `SizesOK`, `TablesOK`; assumes
  `HistoryAssumption`). The references alone are not inductive. A batch created
  for a product must belong to it, or a refresh could find two (`BatchesOK`);
  receipts refer to accounts that exist, and until a customer is renamed to
  another key, a receipt's customer has the key of the label in the receipt's row
  of the sheet, with which a second refresh finds it again (`ReceiptsOK`); and the
  shape of a receipt is kept (`ShapesOK`). Each
  command is shown to keep all of that, the sales of the application and the
  contact details (`StepKeeps`), so that the invariants and the action properties
  come out of one case split. Merging moves a product to the oldest row of its key
  and a customer to one of its group (`ProductGroups`, `CustomerGroups`); a row
  that was moved once is moved no further. A backup is closed after three passes
  for a reason that no table matters for: receipts are never referred to, batches
  only by receipts, and products and customers refer to nothing (`BackupIsClosed`).

Sums over sets are folds in an order that nobody knows. `FiniteSums` takes them
from the definition of the fold to the facts the proofs need (`SumRemove`,
`SumChange`, `SumLinear`, `SumSplit`, `SumGroups`) by well-founded induction on
the subsets of a finite set, stated for a set instead of a predicate
(`SetInduction`). The least and greatest of some numbers exist by the same
argument (`LeastNatural`, `GreatestNatural`).

For the provers some definitions were given another form, with the same meaning:
sums are sums of a function (`Summed`), the graph's points are functions of the
view and then of the target, and the fits that a rule finds are the set of their
numbers, the newest of which is used.

Only model-checked: all liveness properties, `EveryRequestAnswered`,
`EveryRequestEnds` (of the row locks and of the document numbers) and
`EveryJobEnds`. They rest on fairness and ENABLED, which the proof system does not
treat.

`AdminRemains` is violated, so only `AdminRemainsOfOld` has a proof. Every other
invariant and action property of a passing run is proved.

## 6. Plan

The models and the safety proofs are complete along the plan. What would come
next:

1. the staff visibility digest and reads inside a transaction in
   `CacheCoherence`, with `ReadsFresh` extended to them;
2. the annual outlook and the yearly chart beside `BetaGraph`;
3. stock checks and expiry alerts as operators over `StockLedger`, compared with
   what `Checkout` may take.

## 7. Not modelled

PDF layout and serialization, permissions and throttling, registration (one
insert), stock checks and notifications (read-only queries), configuration and
deployment scripts, and the numerical content of the forecasts. In the modelled
parts: reads inside an open transaction (`cache_namespace` then does not drain
markers), expiry times of cached payloads, the staff visibility digest, yearly
charts and the annual outlook, the demonstration scope of the graph, checks for
corrupted saved rows, writing and restoring the SQL of a backup, and databases
other than PostgreSQL.
