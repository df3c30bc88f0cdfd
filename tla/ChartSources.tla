---------------------------- MODULE ChartSources ----------------------------
(***************************************************************************)
(* What the chart forecasts are computed from: the recorded sales of each  *)
(* period, the reviews of months, and the saved fits of the primary        *)
(* monthly and weekly models (forecasting.data, lifecycle, weekly,         *)
(* graph_sarima).  Both chart engines, BetaGraph and Projections, read     *)
(* these and never each other, and ModelSelection looks at the fits        *)
(* themselves, so a behaviour follows one of the three, at one             *)
(* granularity, chosen at the start.                                       *)
(*                                                                         *)
(* Days are numbered; period p lasts from day p * DaysPerPeriod.  A        *)
(* digest is represented by what it digests.  A fit may fail; the path it  *)
(* projects is some function of the kind of model and of its rows.         *)
(***************************************************************************)
EXTENDS Integers, FiniteSets, Sequences, FiniteSetsExt, SequencesExt

CONSTANTS
    Engines, Units,  \* subsets of {"graph", "projection", "selection"}, {"monthly", "weekly"}
    DaysPerPeriod,
    BusinessDays,    \* bound: the days on which something happens
    MaxAmount,       \* bound: recorded revenue of a segment in a period
    ChangedPeriods,  \* bound: periods whose sales change
    MaxChanges,      \* bound: recorded, corrected and voided sales
    MaxReviews,      \* bound: rows of MonthlyCoverage or ProjectionCoverage
    MaxFits,         \* bound: saved primary fits
    MaxRuns,         \* bound: saved runs of the engine
    MIN_PERIODS,     \* MIN_MONTHS, MIN_WEEKS: shortest history of a primary model
    FitOutcomes,     \* bound: which segments' fits may converge in one refresh
    MinObserved,     \* fewest observations of a fallback fit
    None

ASSUME ChartAssumption ==
    /\ Engines \subseteq {"graph", "projection", "selection"} /\ Units \subseteq {"monthly", "weekly"}
    /\ DaysPerPeriod \in Nat \ {0}
    /\ BusinessDays \union ChangedPeriods \subseteq Nat /\ IsFiniteSet(BusinessDays) /\ BusinessDays # {}
    /\ FitOutcomes \subseteq SUBSET {"regular", "feeding"}
    /\ MaxAmount \in Nat \ {0} /\ MIN_PERIODS \in Nat \ {0} /\ MinObserved \in Nat \ {0}
    /\ {MaxChanges, MaxReviews, MaxFits, MaxRuns} \subseteq Nat

Segments == {"regular", "feeding"}
VIEWS    == Segments \union {"combined"}
Labels   == Segments \union {"unclassified"}  \* segment of a recorded sale

\* period_start, and the first day of a period.
PeriodOf(day)  == day \div DaysPerPeriod
Start(period)  == period * DaysPerPeriod
FirstDay       == Min(BusinessDays)
Periods        == 0..PeriodOf(Max(BusinessDays))

VARIABLES
    engine, unit, \* what the behaviour follows
    today,        \* the business date
    ledger,       \* ledger[s][p]: revenue of segment s recorded in period p, or None
    changes,      \* changes of the ledger so far
    reviewed,     \* MonthlyCoverage: pairs of a month and its reviewed content
    fits          \* MonthlyModelRun or WeeklyModelRun rows, oldest first

sourceVars == <<engine, unit, today, ledger, changes, reviewed, fits>>

Current == PeriodOf(today)

\* The sum of the values of a function.
Summed(f) == MapThenSumSet(LAMBDA x : f[x], DOMAIN f)

\* Regular and feeding sales are on record up to the first day.
SourcesInit ==
    /\ engine \in Engines /\ unit \in Units
    /\ today = FirstDay
    /\ ledger = [s \in Labels |-> [p \in Periods |->
                    IF s \in Segments /\ p <= PeriodOf(FirstDay) THEN 1 ELSE None]]
    /\ changes = 0 /\ reviewed = {} /\ fits = <<>>

-----------------------------------------------------------------------------
(***************************************************************************)
(* Snapshots and training rows.  A snapshot is what was recorded of the    *)
(* periods before its cutoff when it was loaded.                           *)
(***************************************************************************)

\* load_snapshot.
Snapshot(cutoff) == [s \in Labels |-> [p \in 0..(cutoff - 1) |-> ledger[s][p]]]

\* month_revision: all sales of one period, of every segment.
Content(src, period) == [s \in Labels |-> src[s][period]]

\* valid_coverage: months whose content in the snapshot was reviewed.
ValidCoverage(src) == {p \in DOMAIN src["regular"] : <<p, Content(src, p)>> \in reviewed}

\* _regular_monthly_series, coverage_rows: a reviewed month without a regular
\* sale is a true zero; any other period without one is unknown.
WithZeros(src) ==
    [p \in DOMAIN src["regular"] |->
        IF src["regular"][p] = None /\ p \in ValidCoverage(src) THEN 0 ELSE src["regular"][p]]

Observed(rows) == {p \in DOMAIN rows : rows[p] # None}

\* The rows after the last gap: what a primary model is trained on.
Block(rows) ==
    LET seen == Observed(rows)
    IN  [p \in {q \in seen : q..Max(seen) \subseteq seen} |-> rows[p]]

\* The rows of the primary model of this unit: monthly_rows, weekly_rows.
PrimaryRows(src) == Block(IF unit = "monthly" THEN WithZeros(src) ELSE src["regular"])

IsLong(rows) == Cardinality(DOMAIN rows) >= MIN_PERIODS

\* future_rows of a fitted state: the path of a model of this kind on these rows.
Path(kind, rows, target) ==
    Summed([p \in Observed(rows) |-> rows[p]]) + target + (IF kind = "primary" THEN 1 ELSE 0)

-----------------------------------------------------------------------------
(***************************************************************************)
(* The saved primary fits, selected by their row numbers.                  *)
(***************************************************************************)

CoverageKey(src) == IF unit = "monthly" THEN ValidCoverage(src) ELSE {}

NewestFit(ids) == fits[Max(ids)]

FitsFor(src) == {i \in DOMAIN fits : fits[i].source = src /\ fits[i].coverage = CoverageKey(src)}

\* _primary: a saved candidate of the same source and the same block of rows.
SavedForRows(src, rows) ==
    {i \in DOMAIN fits : fits[i].candidate /\ fits[i].source = src /\ fits[i].rows = Block(rows)}

WeeklyFits(src) == {i \in DOMAIN fits : fits[i].source = src}

\* regular_weekly_dependency: the newest fit of the same source, even a failed one.
WeeklyDependency(src) ==
    LET rows  == PrimaryRows(src)
        saved == WeeklyFits(src)
    IN  CASE ~IsLong(rows) -> "insufficient_history"
          [] IsLong(rows) /\ saved = {} -> "offline_training_required"
          [] IsLong(rows) /\ saved # {} ->
                IF NewestFit(saved).candidate THEN "saved_sarima" ELSE "invalid_saved_artifact"

\* refresh_weekly, refresh of the monthly model: fit the rows before the cutoff
\* once, or repeat the newest fit when its rows are the same.
SavePrimary(cutoff, converged) ==
    /\ Len(fits) < MaxFits
    /\ cutoff <= Current /\ (unit = "monthly" => cutoff = Current)
    /\ LET src  == Snapshot(cutoff)
           rows == PrimaryRows(src)
           same == fits # <<>> /\ Last(fits).rows = rows
       IN  /\ FitsFor(src) = {}
           /\ fits' = Append(fits, [source |-> src, coverage |-> CoverageKey(src), rows |-> rows,
                                    candidate |-> /\ IsLong(rows)
                                                  /\ IF same THEN Last(fits).candidate ELSE converged])
    /\ UNCHANGED <<engine, unit, today, ledger, changes, reviewed>>

\* attest_coverage: a reviewer confirms the present content of a closed month.
AttestMonth(month) ==
    /\ unit = "monthly"
    /\ Cardinality(reviewed) < MaxReviews
    /\ month < Current
    /\ ledger["unclassified"][month] = None
    /\ LET row == <<month, Content(Snapshot(Current), month)>>
       IN  row \notin reviewed /\ reviewed' = reviewed \union {row}
    /\ UNCHANGED <<engine, unit, today, ledger, changes, fits>>

\* A sale of a period that has begun is recorded, corrected, reclassified or voided.
LedgerChange(segment, period, amount) ==
    /\ changes < MaxChanges /\ period \in ChangedPeriods
    /\ period <= Current /\ ledger[segment][period] # amount
    /\ ledger' = [ledger EXCEPT ![segment][period] = amount]
    /\ changes' = changes + 1
    /\ UNCHANGED <<engine, unit, today, reviewed, fits>>

NextDay ==
    /\ \E d \in BusinessDays : d > today
    /\ today' = Min({d \in BusinessDays : d > today})
    /\ UNCHANGED <<engine, unit, ledger, changes, reviewed, fits>>
=============================================================================
