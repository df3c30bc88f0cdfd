-------------------------- MODULE ForecastLifecycle --------------------------
(***************************************************************************)
(* The approved monthly forecast: coverage reviews, fitting, first-day     *)
(* issues, scoring, the quality gate, promotion, activation and what the   *)
(* API serves (forecasting.lifecycle, learning, serving).                  *)
(*                                                                         *)
(* A fit runs for a long time outside any transaction.  Only its result is *)
(* saved under _commit_lock, which excludes other commits and all writers  *)
(* of sales and coverage, after everything it was computed from has been   *)
(* read again.  A digest is represented by what it digests, so a month     *)
(* that is corrected back to its old content has its old revision again.   *)
(*                                                                         *)
(* Months are numbered; a month has a first day and a later part.  The     *)
(* regular revenue of a month is 0 when it has no regular sale.  A SARIMA  *)
(* fit may end in any way; its prediction is a function of its rows.       *)
(***************************************************************************)
EXTENDS Integers, Sequences, FiniteSets, FiniteSetsExt

CONSTANTS
    Refreshers,     \* runs of refresh_forecast_models in progress at a time
    MaxMonth,       \* bound: last month
    MaxAmount,      \* bound: monthly revenue and predictions
    MaxChanges,     \* bound: corrections of closed months
    MaxReviews,     \* bound: rows of MonthlyCoverage
    MaxFits,        \* bound: fits
    MIN_MONTHS,     \* shortest history that is trained on
    EvidenceMonths, \* consecutive reviewed months the gate asks for
    TARGET_PERCENT, \* exclusive bound of the error
    FitResults,     \* how a fit may end: a candidate that passed the retrospective
                    \* gate ("accurate"), one that did not ("candidate"), none ("failed")
    None

ASSUME LifecycleAssumption ==
    /\ MaxMonth \in Nat /\ MaxAmount \in Nat
    /\ MaxChanges \in Nat /\ MaxReviews \in Nat /\ MaxFits \in Nat
    /\ FitResults \subseteq {"accurate", "candidate", "failed"}
    /\ MIN_MONTHS \in Nat \ {0} /\ EvidenceMonths \in Nat \ {0} /\ TARGET_PERCENT \in Nat

Months  == 0..MaxMonth
Amounts == 0..MaxAmount

VARIABLES
    month, first,  \* the business date: its month, and whether it is the first day
    revenue,       \* revenue[m]: recorded regular revenue of month m
    changes, fits, \* corrections and fits made so far
    reviewed,      \* MonthlyCoverage rows: pairs of a month and its reviewed content
    runs,          \* MonthlyModelRun rows
    issued,        \* issued[m]: MonthlyIssuedForecast of target month m, or None
    scores,        \* MonthlyForecastScore rows
    deployed,      \* run of MonthlyDeployment, or None
    promotions,    \* MonthlyPromotion rows in order
    job,           \* job[r]: what refresher r has read and fitted, or None
    published      \* history: published[m]: amounts served as the approved forecast of m

dateVars      == <<month, first>>
rowVars       == <<reviewed, runs, issued, scores, deployed, promotions>>
lifecycleVars == <<dateVars, revenue, changes, fits, rowVars, job, published>>

-----------------------------------------------------------------------------
(***************************************************************************)
(* Snapshots.                                                              *)
(***************************************************************************)

\* The ledger of the closed months before cutoff.
Snapshot(cutoff) == [m \in 0..(cutoff - 1) |-> revenue[m]]

\* valid_coverage: months whose present content was reviewed.
ValidCoverage(cutoff) == {m \in 0..(cutoff - 1) : <<m, revenue[m]>> \in reviewed}

\* Months with an observation: regular sales, or a reviewed zero.
Observed(src, cov) == {m \in DOMAIN src : src[m] > 0 \/ m \in cov}

\* monthly_rows: the latest contiguous block of observed months.
TrainingMonths(src, cov) ==
    {m \in Observed(src, cov) :
        \A n \in DOMAIN src : m <= n /\ n <= Max(Observed(src, cov)) => n \in Observed(src, cov)}

\* The model row that would be looked up for what is recorded now.
Key(cutoff) == [cutoff |-> cutoff, src |-> Snapshot(cutoff), cov |-> ValidCoverage(cutoff)]
KeyOf(run)  == [cutoff |-> run.cutoff, src |-> run.src, cov |-> run.cov]

RunsFor(key) == {run \in runs : KeyOf(run) = key}

\* train on the rows of key: too little history, or the outcome of the fits.
\* The prediction stands for fit_model and predict_model of the selected model.
Train(key, result) ==
    LET rows == TrainingMonths(key.src, key.cov)
    IN  [cutoff |-> key.cutoff, src |-> key.src, cov |-> key.cov,
         status |-> IF Cardinality(rows) < MIN_MONTHS THEN "insufficient_history" ELSE result,
         through |-> IF rows = {} THEN None ELSE Max(rows),
         value |-> IF rows = {} THEN 0 ELSE key.src[Min(rows)]]

IsCandidate(run) == run.status \in {"accurate", "candidate"}

\* findings.next_month: the month after the last training row.
NextMonth(run) == run.through + 1

-----------------------------------------------------------------------------
(***************************************************************************)
(* Scoring and the quality gate.                                           *)
(***************************************************************************)

\* _prospective_issue: made on the first day of its month by a model of the
\* month before.
ProspectiveIssue(m) ==
    /\ issued[m] # None
    /\ issued[m].onFirst
    /\ issued[m].run.cutoff = m
    /\ IsCandidate(issued[m].run)
    /\ issued[m].run.through = m - 1

\* _score_issued: one row per issue, content of its month and review state.
ScoreIssued(src, cov) ==
    scores \union {[target |-> m, revision |-> src[m], verified |-> m \in cov, actual |-> src[m]] :
                       m \in {m \in Observed(src, cov) : ProspectiveIssue(m)}}

\* Mutation: a score stays evidence after the month was corrected.
ScoredOnce(rows, m) == \E s \in rows : s.target = m /\ s.verified

\* A verified score of issue m for the present content of its month.
Scored(rows, m) == \E s \in rows : s.target = m /\ s.verified /\ s.revision = revenue[m]

EvidenceOf(rows, cov) == {m \in cov : ProspectiveIssue(m) /\ Scored(rows, m)}

\* The most recent consecutive months of evidence, at most EvidenceMonths.
RecentEvidence(rows, cov) ==
    LET E == EvidenceOf(rows, cov)
    IN  {m \in E : /\ \A n \in m..Max(E) : n \in E
                   /\ Max(E) - m < EvidenceMonths}

Distance(x, y) == IF x >= y THEN x - y ELSE y - x
TotalOver(M, Op(_)) == MapThenSumSet(Op, M)

\* wape_percent below the target, and no worse than the baseline.
EvidenceGood(M) ==
    LET actual == TotalOver(M, LAMBDA m : revenue[m])
        error  == TotalOver(M, LAMBDA m : Distance(issued[m].value, revenue[m]))
        base   == TotalOver(M, LAMBDA m : Distance(issued[m].baseline, revenue[m]))
    IN  /\ actual > 0
        /\ 100 * error < TARGET_PERCENT * actual
        /\ error <= base

\* quality_gate: the conjuncts are the reasons for which it withholds a model.
Eligible(run, rows) ==
    LET cov == ValidCoverage(month)
        M   == RecentEvidence(rows, cov)
    IN  /\ IsCandidate(run)
        /\ NextMonth(run) = month
        /\ \A n \in 0..(EvidenceMonths - 1) : run.through - n \in cov
        /\ run.status = "accurate"
        /\ Cardinality(M) = EvidenceMonths
        /\ Max(M) = month - 1
        /\ EvidenceGood(M)

\* _promote, when the gate lets the run through.
Promote(run, rows) ==
    IF Eligible(run, rows) /\ deployed # run
    THEN /\ promotions' = Append(promotions, [run |-> run, previous |-> deployed])
         /\ deployed' = run
    ELSE UNCHANGED <<promotions, deployed>>

-----------------------------------------------------------------------------
LifecycleInit ==
    /\ month = 1 /\ first = TRUE
    /\ \E x \in Amounts : revenue = [m \in Months |-> IF m = 0 THEN x ELSE 0]
    /\ changes = 0 /\ fits = 0
    /\ reviewed = {} /\ runs = {} /\ scores = {}
    /\ issued = [m \in Months |-> None]
    /\ deployed = None
    /\ promotions = <<>>
    /\ job = [r \in Refreshers |-> None]
    /\ published = [m \in Months |-> {}]

\* The first day ends, or the month does: its sales become a closed month.
NextDay ==
    \/ /\ first
       /\ first' = FALSE
       /\ UNCHANGED <<month, revenue>>
    \/ /\ ~first /\ month < MaxMonth
       /\ first' = TRUE /\ month' = month + 1
       /\ \E x \in Amounts : revenue' = [revenue EXCEPT ![month] = x]

TimePasses == NextDay /\ UNCHANGED <<changes, fits, rowVars, job, published>>

\* A sale of a closed month is encoded late, corrected, cancelled or reclassified.
LedgerChange(m, x) ==
    /\ m < month /\ changes < MaxChanges
    /\ revenue[m] # x
    /\ revenue' = [revenue EXCEPT ![m] = x]
    /\ changes' = changes + 1
    /\ UNCHANGED <<dateVars, fits, rowVars, job, published>>

\* attest_coverage: a review of the present content of a closed month.  (The
\* row names that content, so a change between its two reads is harmless.)
AttestCoverage(m) ==
    /\ m < month /\ Cardinality(reviewed) < MaxReviews
    /\ <<m, revenue[m]>> \notin reviewed
    /\ reviewed' = reviewed \union {<<m, revenue[m]>>}
    /\ UNCHANGED <<dateVars, revenue, changes, fits, runs, issued, scores, deployed, promotions, job, published>>

\* refresh_models up to the commit: read, look for a saved run, fit if there is none.
RefreshReads(r) ==
    /\ job[r] = None
    /\ LET key == Key(month)
       IN  /\ fits < MaxFits
           /\ fits' = fits + 1
           /\ \E run \in IF RunsFor(key) # {} THEN RunsFor(key)
                         ELSE {Train(key, result) : result \in FitResults} :
                job' = [job EXCEPT ![r] = [run |-> run, month |-> month, first |-> first]]
    /\ UNCHANGED <<dateVars, revenue, changes, rowVars, published>>

\* Mutation: the ledger is not read again before the result is saved.
StillOnRecord(run) == TRUE

\* What the fit was computed from is still what is recorded.
SourceUnchanged(run) == KeyOf(run) = Key(run.cutoff)

\* Mutation: a later run replaces the forecast of the month.
IssueLatest(m, forecast) == [issued EXCEPT ![m] = forecast]

\* get_or_create: the first issue of a month stays.
IssueOnce(m, forecast) == IF issued[m] = None THEN [issued EXCEPT ![m] = forecast] ELSE issued

\* The issued amounts: the model's, and those of the selected baseline.
Forecast(run) == [run |-> run, value |-> run.value, baseline |-> run.src[Max(TrainingMonths(run.src, run.cov))], onFirst |-> first]

\* Never a backdated issue, or a current one across a gap.
MayIssue(j, run) ==
    /\ IsCandidate(run)
    /\ j.month = month /\ j.first = first
    /\ first /\ NextMonth(run) = month

\* The commit of refresh_models: nothing is saved when the source changed.
RefreshCommits(r) ==
    /\ job[r] # None
    /\ job' = [job EXCEPT ![r] = None]
    /\ IF ~SourceUnchanged(job[r].run) THEN UNCHANGED rowVars
       ELSE LET saved == RunsFor(KeyOf(job[r].run))
            IN  \E run \in IF saved = {} THEN {job[r].run} ELSE saved :
                  /\ runs' = runs \union {run}
                  /\ scores' = ScoreIssued(run.src, run.cov)
                  /\ issued' = IF MayIssue(job[r], run) THEN IssueOnce(month, Forecast(run)) ELSE issued
                  /\ Promote(run, scores')
                  /\ UNCHANGED reviewed
    /\ UNCHANGED <<dateVars, revenue, changes, fits, published>>

\* activate_model: an operator selects a saved run, under the same gate.
ActivateModel(run) ==
    /\ KeyOf(run) = Key(month)
    /\ Eligible(run, scores)
    /\ deployed # run
    /\ Promote(run, scores)
    /\ UNCHANGED <<dateVars, revenue, changes, fits, reviewed, runs, issued, scores, job, published>>

(***************************************************************************)
(* model_context: what a GET finds without changing anything.              *)
(***************************************************************************)
CurrentRuns == RunsFor(Key(month))

ModelStatus ==
    IF CurrentRuns = {} THEN IF runs = {} THEN "training_required" ELSE "refresh_required"
    ELSE LET run == CHOOSE run \in CurrentRuns : TRUE
         IN  IF ~IsCandidate(run) THEN run.status
             ELSE IF NextMonth(run) # month THEN "stale_data"
             ELSE IF /\ Eligible(run, scores)
                     /\ deployed = run
                     /\ issued[month] # None /\ issued[month].run = run
                  THEN "ready" ELSE "research_only"

\* report: the approved forecast of the month is shown.
Serve ==
    /\ ModelStatus = "ready"
    /\ published' = [published EXCEPT ![month] = @ \union {issued[month].value}]
    /\ UNCHANGED <<dateVars, revenue, changes, fits, rowVars, job>>

LifecycleNext ==
    \/ TimePasses
    \/ \E m \in Months, x \in Amounts : LedgerChange(m, x)
    \/ \E m \in Months : AttestCoverage(m)
    \/ \E r \in Refreshers : RefreshReads(r) \/ RefreshCommits(r)
    \/ \E run \in runs : ActivateModel(run)
    \/ Serve

LifecycleSpec == LifecycleInit /\ [][LifecycleNext]_lifecycleVars

-----------------------------------------------------------------------------
\* The approved forecast of a month never changes once it was shown: later
\* corrections, refits, promotions and rollbacks may withdraw it, and a
\* withdrawn one may return, but no other amount is ever served for the month
\* (get_or_create of the issue, and model_context asking for the issuing run).
PublishedNeverChanges == \A m \in Months : Cardinality(published[m]) <= 1

\* Whatever the gate counts as evidence was reviewed in its present form, was
\* forecast before the month's sales were known, and is scored against the
\* revenue recorded now: a correction removes a month from the evidence until
\* it is reviewed and scored again (prospective_evidence).
EvidenceIsCurrent ==
    \A m \in EvidenceOf(scores, ValidCoverage(month)) :
        /\ <<m, revenue[m]>> \in reviewed
        /\ issued[m].run.cutoff <= m
        /\ \E s \in scores : s.target = m /\ s.verified /\ s.actual = revenue[m]

\* A model is deployed only while the ledger and the reviews are exactly those
\* it was trained on, although they may have changed all through the fit
\* (revalidation in refresh_models and activate_model).
DeployedFromCurrentLedger ==
    [][deployed' # deployed => KeyOf(deployed') = Key(deployed'.cutoff)]_lifecycleVars
=============================================================================
