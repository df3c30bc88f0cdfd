--------------------------- MODULE ModelSelection ---------------------------
(***************************************************************************)
(* How forecasting models are chosen and when a chosen one may be used:    *)
(* the weekly and monthly SARIMA models (forecasting.weekly, learning,     *)
(* seasonal), the short-history models of the projections (provisional)    *)
(* and of the graph (beta_graph), and the test that saved findings belong  *)
(* to what is recorded now (graph_sarima, weekly_report, chart).           *)
(*                                                                         *)
(* Candidates are compared on earlier validation periods; the winner is    *)
(* then tested on the last periods and fitted to the whole history.  What  *)
(* an optimizer finds is external: any prediction, or no convergence.      *)
(* All candidates are scored on the same periods, so their percentage      *)
(* errors are in the order of their absolute errors.                       *)
(***************************************************************************)
EXTENDS ChartSources

CONSTANTS
    Trainers,       \* subset of {"weekly", "monthly", "short", "graph"}
    HistoryLengths, \* bound: periods of the history at the start
    MIN_TRAIN,      \* rows before the first fold
    VALIDATION,     \* VALIDATION_WEEKS, VALIDATION_MONTHS, holdout
    TEST,           \* TEST_WEEKS, TEST_MONTHS, holdout
    MaxCorrections  \* bound: corrected or added periods, and changes of other sales

ASSUME SelectionAssumption ==
    /\ Trainers \subseteq {"weekly", "monthly", "short", "graph"}
    /\ HistoryLengths \subseteq Nat \ {0}
    /\ {MIN_TRAIN, VALIDATION, TEST} \subseteq Nat \ {0} /\ MaxCorrections \in Nat
    /\ None \notin 0..MaxAmount

VARIABLES
    trainer,      \* which of the trainers the behaviour follows
    history,      \* the revenue of each period; None: reviewed, nothing was sold
    others,       \* how often the sales of other segments changed
    corrections,  \* changes so far
    fitting,      \* the run of the refresh in progress, or None
    retained      \* the newest saved run, or None

selectionVars == <<trainer, history, others, corrections, fitting, retained>>

\* The models that compete, simpler ones first, and the comparison benchmark.
CONFIGS   == <<"simple", "seasonal">>
BASELINES == <<"previous">>
Names     == ToSet(CONFIGS) \union ToSet(BASELINES)

\* What may be known of a period.  Only months are reviewed: a week without a
\* sale ends the history of the weekly models.
Known == IF trainer = "monthly" THEN (0..MaxAmount) \union {None} ELSE 0..MaxAmount

SelectionInit ==
    /\ trainer \in Trainers
    /\ \E n \in HistoryLengths : history \in [1..n -> Known]
    /\ others = 0 /\ corrections = 0 /\ fitting = None /\ retained = None

\* monthly_rows, weekly_rows: a reviewed month without a sale is a true zero.
TrainingRows(h) == [i \in DOMAIN h |-> IF h[i] = None THEN 0 ELSE h[i]]

\* The revision of a snapshot covers all sales, of every segment.
SalesRevision(h, other) == [regular |-> Restrict(h, {i \in DOMAIN h : h[i] # None}), others |-> other]

\* coverage_revision, as far as it makes rows of months without sales.
CoverageRevision(h) == {i \in DOMAIN h : h[i] = None}

-----------------------------------------------------------------------------
TestStart(rows)       == Len(rows) - TEST + 1
ValidationStart(rows) == TestStart(rows) - VALIDATION
Enough(rows)          == Len(rows) >= MIN_TRAIN + VALIDATION + TEST

\* What the optimizers find for each candidate and each compared period, and at
\* last for the next one: too little, enough, or nothing.
Outcomes(rows) ==
    [ToSet(CONFIGS) -> [ValidationStart(rows)..(Len(rows) + 1) -> {-1, MaxAmount, None}]]

\* fit_sarima: two optimizers, then an exception.
FitSarima(n, o, i) == o[n][i]

\* _currency, predict_model: negative predictions become zero.
PredictModel(value) == IF value = None THEN None ELSE Max({0, value})

\* _baseline with the previous period.
Baseline(rows, i) == rows[i - 1]

\* fit_weekly: the fit of the rows before period i.
FitWeekly(n, rows, o, i) == IF i - 1 < MIN_TRAIN THEN None ELSE FitSarima(n, o, i)

\* fit_model: benchmarks are candidates like the others.
FitModel(n, rows, o, i) ==
    IF i - 1 < MIN_TRAIN THEN None
    ELSE IF n \in ToSet(CONFIGS) THEN FitSarima(n, o, i) ELSE Baseline(rows, i)

\* The comparison of predictions with periods from..to, empty when one fails.
Folds(predicted, rows, from, to) ==
    IF \E i \in from..to : predicted[i] = None THEN <<>>
    ELSE [i \in from..to |-> [actual |-> rows[i], predicted |-> predicted[i]]]

WalkWeekly(n, rows, o, from, to) ==
    Folds([i \in from..to |->
              PredictModel(IF n \in ToSet(CONFIGS) THEN FitWeekly(n, rows, o, i) ELSE Baseline(rows, i))],
          rows, from, to)

WalkForward(n, rows, o, from, to) ==
    Folds([i \in from..to |-> PredictModel(FitModel(n, rows, o, i))], rows, from, to)

\* fit and project of the short-history models: one fit of the rows before the
\* first compared period, which fails as a whole.
FitShort(n, o, i)      == FitSarima(n, o, i)
Project(n, o, from, i) == IF FitShort(n, o, from) = None THEN None ELSE PredictModel(o[n][i])

Evaluate(n, rows, o, from, to) ==
    Folds([i \in from..to |-> Project(n, o, from, i)], rows, from, to)

Deviation(fold) ==
    IF fold.predicted > fold.actual THEN fold.predicted - fold.actual ELSE fold.actual - fold.predicted

\* score: no percentage without revenue.
Score(folds) ==
    IF Summed([i \in DOMAIN folds |-> folds[i].actual]) = 0 THEN None
    ELSE Summed([i \in DOMAIN folds |-> Deviation(folds[i])])

\* The first of the least scores.
Winner(order, scores) ==
    LET eligible == {i \in DOMAIN order : scores[order[i]] # None}
        Beats(i, j) == \/ scores[order[i]] < scores[order[j]]
                       \/ scores[order[i]] = scores[order[j]] /\ i <= j
    IN  IF eligible = {} THEN None
        ELSE order[CHOOSE i \in eligible : \A j \in eligible : Beats(i, j)]

-----------------------------------------------------------------------------
NoFindings(rows, status) ==
    [status |-> status, rows |-> rows, selected |-> None, baseline |-> None,
     validation |-> [n \in Names |-> <<>>], test |-> [n \in Names |-> <<>>]]

\* train_weekly and train.  The winners are fixed by the validation; only names
\* with a score are tested.
Train(rows, o, validation, tested) ==
    LET scores     == [n \in Names |-> Score(validation[n])]
        test       == [n \in Names |-> IF scores[n] = None THEN <<>> ELSE tested[n]]
        selected   == Winner(CONFIGS, scores)
        baseline   == Winner(BASELINES, scores)
        status     == CASE selected = None -> "no_valid_candidates"
                        [] selected # None /\ baseline = None ->
                             IF trainer = "weekly" THEN "no_valid_candidates" ELSE "no_valid_baseline"
                        [] selected # None /\ baseline # None ->
                             IF \/ test[selected] = <<>>
                                \/ trainer = "weekly" /\ test[baseline] = <<>>
                                \/ FitSarima(selected, o, Len(rows) + 1) = None
                             THEN "selected_model_failed" ELSE "research_candidate"
    IN  IF ~Enough(rows) THEN NoFindings(rows, "insufficient_history")
        ELSE [status |-> status, rows |-> rows, selected |-> selected, baseline |-> baseline,
              validation |-> validation, test |-> test]

TrainWeekly(rows, o) ==
    Train(rows, o,
          [n \in Names |-> WalkWeekly(n, rows, o, ValidationStart(rows), TestStart(rows) - 1)],
          [n \in Names |-> WalkWeekly(n, rows, o, TestStart(rows), Len(rows))])

TrainMonthly(rows, o) ==
    Train(rows, o,
          [n \in Names |-> WalkForward(n, rows, o, ValidationStart(rows), TestStart(rows) - 1)],
          [n \in Names |-> WalkForward(n, rows, o, TestStart(rows), Len(rows))])

\* train of the projections.  A test or final fit that fails never selects a
\* runner-up.
TrainShort(rows, o) ==
    LET validation == [n \in Names |-> IF n \notin ToSet(CONFIGS) THEN <<>>
                          ELSE Evaluate(n, rows, o, ValidationStart(rows), TestStart(rows) - 1)]
        selected   == Winner(CONFIGS, [n \in Names |-> Score(validation[n])])
        test       == [n \in Names |-> IF n # selected THEN <<>>
                          ELSE Evaluate(n, rows, o, TestStart(rows), Len(rows))]
        passes     == /\ selected # None
                      /\ test[selected] # <<>>
                      /\ FitShort(selected, o, Len(rows) + 1) # None
    IN  IF ~Enough(rows) THEN NoFindings(rows, "insufficient_data")
        ELSE [status |-> IF passes THEN "provisional" ELSE "fit_failed", rows |-> rows,
              selected |-> selected, baseline |-> None, validation |-> validation, test |-> test]

\* _train of the graph: also very short histories, and histories whose percentage
\* error is undefined, get the simplest model.
TrainGraph(rows, o) ==
    LET result  == TrainShort(rows, o)
        folds   == UNION {Range(result.validation[n]) : n \in Names}
        simple  == FitShort("simple", o, Len(rows) + 1) # None
        useful  == IF Enough(rows) THEN /\ result.status = "fit_failed"
                                        /\ folds # {} /\ \A fold \in folds : fold.actual = 0
                   ELSE Len(rows) >= 2
    IN  IF useful /\ simple THEN [result EXCEPT !.status = "provisional", !.selected = "simple"]
        ELSE result

Findings(rows, o) ==
    CASE trainer = "weekly"  -> TrainWeekly(rows, o)
      [] trainer = "monthly" -> TrainMonthly(rows, o)
      [] trainer = "short"   -> TrainShort(rows, o)
      [] trainer = "graph"   -> TrainGraph(rows, o)

-----------------------------------------------------------------------------
\* Mutation: length and last period identify the history.
SameEnd(f, rows) == Len(f.rows) = Len(rows) /\ Last(f.rows) = Last(rows)

\* The saved, normalized history is the recorded one.
SameHistory(f, rows) == f.rows = rows

\* A run is saved for the source it was computed from.
RunOf(f) == [source |-> SalesRevision(history, others), coverage |-> CoverageRevision(history), findings |-> f]

\* A refresh computes its findings from the rows it read; sales may change in
\* the meantime.  Bound: models are compared once.
FitCandidates(o) ==
    /\ fitting = None /\ retained = None
    /\ fitting' = RunOf(Findings(TrainingRows(history), o))
    /\ UNCHANGED <<trainer, history, others, corrections, retained>>

\* refresh_weekly for a new source: findings of the same rows are not computed again.
ReuseFindings ==
    /\ trainer = "weekly"
    /\ fitting = None /\ retained # None
    /\ retained.source # SalesRevision(history, others)
    /\ SameHistory(retained.findings, TrainingRows(history))
    /\ fitting' = RunOf(retained.findings)
    /\ UNCHANGED <<trainer, history, others, corrections, retained>>

\* refresh_weekly and refresh_models raise when the data changed during fitting.
RetainRun ==
    /\ fitting # None
    /\ retained' = IF /\ fitting.source = SalesRevision(history, others)
                      /\ fitting.coverage = CoverageRevision(history)
                   THEN fitting ELSE retained
    /\ fitting' = None
    /\ UNCHANGED <<trainer, history, others, corrections>>

\* A sale of an earlier period is corrected, a month is reviewed, or the next
\* period ends.
ChangeHistory(h) ==
    /\ corrections < MaxCorrections
    /\ h # history
    /\ history' = h
    /\ corrections' = corrections + 1
    /\ UNCHANGED <<trainer, others, fitting, retained>>

\* A feeding or an unclassified sale is recorded, corrected or voided, in a period
\* with regular sales: in a reviewed zero month it also undoes the review.
ChangeOthers ==
    /\ corrections < MaxCorrections
    /\ others' = others + 1
    /\ corrections' = corrections + 1
    /\ UNCHANGED <<trainer, history, fitting, retained>>

SelectionNext ==
    \/ \E o \in Outcomes(TrainingRows(history)) : FitCandidates(o)
    \/ ReuseFindings
    \/ RetainRun
    \/ ChangeOthers
    \/ \E v \in Known : \/ ChangeHistory(Append(history, v))
                        \/ \E i \in DOMAIN history : ChangeHistory([history EXCEPT ![i] = v])

-----------------------------------------------------------------------------
\* _valid_folds.
ValidFolds(folds, rows, from, to) ==
    /\ DOMAIN folds = from..to
    /\ \A i \in from..to : folds[i].actual = rows[i]

\* _valid_findings: the graph uses a saved weekly fit only if its parameters, its
\* folds and its selection all follow from the rows recorded now.
ValidFindings(f, rows) ==
    LET scores == [n \in Names |-> Score(f.validation[n])]
    IN  /\ f.status = "research_candidate"
        /\ Enough(rows)
        /\ SameHistory(f, rows)
        /\ \A n \in Names : f.validation[n] # <<>> =>
              ValidFolds(f.validation[n], rows, ValidationStart(rows), TestStart(rows) - 1)
        /\ f.selected = Winner(CONFIGS, scores)
        /\ f.baseline = Winner(BASELINES, scores)
        /\ \A n \in {f.selected, f.baseline} :
              ValidFolds(f.test[n], rows, TestStart(rows), Len(rows))

\* regular_weekly_dependency: the run is found by its source.
UsedByGraph(run) ==
    /\ run.source = SalesRevision(history, others)
    /\ ValidFindings(run.findings, TrainingRows(history))

\* weekly_report and _regular_backtest show the comparison of a run of the present
\* source, all of it or nothing: every tested period must have a recorded sale
\* now, of the amount it was compared with.  A true zero has none.
ComparisonShown(run) ==
    LET f     == run.findings
        folds == f.test[f.selected]
    IN  /\ run.source = SalesRevision(history, others)
        /\ f.status = "research_candidate"
        /\ folds # <<>>
        /\ \A i \in DOMAIN folds : /\ i \in DOMAIN history /\ history[i] # None
                                   /\ folds[i].actual = history[i]

\* The periods a run was tested on in which something had been sold.
TestedOnSales(run) ==
    LET rows == run.findings.rows
    IN  \A i \in TestStart(rows)..Len(rows) : i \notin run.coverage

\* A saved weekly fit is used, and a weekly or monthly comparison shown, exactly as
\* long as all recorded sales are those it was computed from, whichever refresh
\* saved it; a monthly comparison only if nothing it was tested on is a reviewed
\* zero.  And the model was earned: no candidate with less error on the earlier
\* periods was passed over because of the later ones, and the winner passed its
\* own test (or there was nothing to compare with).
SelectionIsEarned ==
    retained # None /\ retained.findings.status \in {"research_candidate", "provisional"} =>
        LET f      == retained.findings
            fresh  == retained.source = SalesRevision(history, others)
            scores == [n \in Names |-> Score(f.validation[n])]
        IN  /\ trainer = "weekly" => (UsedByGraph(retained) <=> fresh)
            /\ trainer \in {"weekly", "monthly"} =>
                  (ComparisonShown(retained) <=> fresh /\ TestedOnSales(retained))
            /\ IF f.status = "provisional" /\ \A n \in Names : scores[n] = None
               THEN f.selected = "simple"
               ELSE /\ f.test[f.selected] # <<>>
                    /\ \A n \in ToSet(CONFIGS) : scores[n] # None => scores[f.selected] <= scores[n]
=============================================================================
