----------------------------- MODULE Projections -----------------------------
(***************************************************************************)
(* The rough projections of the chart and the evidence collected about     *)
(* them (forecasting.provisional, prospective): an offline refresh saves   *)
(* one bundle of projections per state of its inputs; issue_current keeps  *)
(* the first projection made in each period for each target; closed        *)
(* targets are reviewed segment by segment and scored; corrections of the  *)
(* ledger undo reviews and take their scores out of the evidence.          *)
(***************************************************************************)
EXTENDS ChartSources

CONSTANT Steps  \* periods projected after the current one

VARIABLES
    bundles,      \* ProvisionalForecastRun rows, oldest first
    issues,       \* ProjectionIssue rows: view, origin, target, value, day of issue
    coverage,     \* ProjectionCoverage rows: segment, target, reviewed content
    scores,       \* ProjectionScore rows: issue, reviewed content, actual
    bundleJob     \* the refresh in progress, or None

projectionVars == <<bundles, issues, coverage, scores, bundleJob>>

ProjectionInit ==
    bundles = <<>> /\ issues = {} /\ coverage = {} /\ scores = {} /\ bundleJob = None

-----------------------------------------------------------------------------
(***************************************************************************)
(* The refresh.                                                            *)
(***************************************************************************)

\* primary_monthly: the saved fit of this source and coverage.
PrimaryMonthly(src) ==
    LET saved == FitsFor(src)
        long  == IsLong(PrimaryRows(src))
    IN  CASE saved # {} /\ NewestFit(saved).candidate -> "saved"
          [] saved = {} /\ long -> "primary_refresh_required"
          [] saved # {} /\ ~NewestFit(saved).candidate /\ long -> "primary_model_unavailable"
          [] OTHER -> "fallback"

\* Where the regular component comes from, and what identifies it.
RegularBasis(src) ==
    CASE unit = "monthly" ->
            [status |-> PrimaryMonthly(src), from |-> <<FitsFor(src), CoverageKey(src)>>]
      [] unit = "weekly" /\ WeeklyDependency(src) = "insufficient_history" ->
            [status |-> "fallback", from |-> <<>>]
      [] OTHER -> [status |-> WeeklyDependency(src), from |-> <<src, WeeklyFits(src)>>]

\* context: the identity of a bundle.
BundleContext ==
    LET src == Snapshot(Current)
    IN  [source |-> src, targets |-> (Current + 1)..(Current + Steps), regular |-> RegularBasis(src)]

\* input_signature of a component.
Signature(segment, rows, basis) ==
    IF segment = "regular" THEN <<rows, basis>> ELSE <<rows>>

\* The component of a segment: a saved primary fit, an equal component of the
\* previous bundle that has a state, or a new fit.
Component(segment, src, basis, previous, converged) ==
    LET rows  == src[segment]
        sig   == Signature(segment, rows, basis)
        kind  == IF segment = "regular" /\ basis.status # "fallback" THEN "primary" ELSE "fallback"
        state == [kind |-> kind, rows |-> IF kind = "primary" THEN PrimaryRows(src) ELSE rows]
        old   == {c \in previous : c.segment = segment /\ c.signature = sig /\ c.state # None}
        fitted == CASE kind = "fallback" ->
                            segment \in converged /\ Cardinality(Observed(rows)) >= MinObserved
                    [] kind = "primary" ->
                            \/ basis.status \in {"saved", "saved_sarima"}
                            \/ basis.status = "offline_training_required" /\ segment \in converged
    IN  [segment |-> segment, signature |-> sig,
         state |-> CASE old # {} -> (CHOOSE c \in old : TRUE).state
                     [] old = {} /\ fitted -> state
                     [] OTHER -> None]

\* refresh: nothing to do when a bundle of this identity exists.
BundleReads ==
    /\ bundleJob = None /\ Len(bundles) < MaxRuns
    /\ \A i \in DOMAIN bundles : bundles[i].context # BundleContext
    /\ bundleJob' = [context |-> BundleContext, components |-> None]
    /\ UNCHANGED <<sourceVars, bundles, issues, coverage, scores>>

\* build: fits, with the dependencies of the primary models read again.
BundleBuilds(converged) ==
    /\ bundleJob # None /\ bundleJob.components = None
    /\ LET previous == IF bundles = <<>> THEN {} ELSE Last(bundles).components
       IN  bundleJob' = [bundleJob EXCEPT !.components =
                {Component(s, bundleJob.context.source, RegularBasis(bundleJob.context.source),
                           previous, converged) : s \in Segments}]
    /\ UNCHANGED <<sourceVars, bundles, issues, coverage, scores>>

\* The bundle is saved only when its identity is still the present one.
StillCurrent(context) == context = BundleContext

\* The commit, under _commit_lock.
BundleCommits ==
    /\ bundleJob # None /\ bundleJob.components # None
    /\ IF StillCurrent(bundleJob.context)
         THEN bundles' = Append(bundles, bundleJob) ELSE UNCHANGED bundles
    /\ bundleJob' = None
    /\ UNCHANGED <<sourceVars, issues, coverage, scores>>

\* The point of a view in a bundle; combined needs both components.
Projected(bundle, view, target) ==
    LET of(s) == LET c == CHOOSE c \in bundle.components : c.segment = s
                 IN  IF c.state = None THEN None ELSE Path(c.state.kind, c.state.rows, target)
    IN  CASE view # "combined" -> of(view)
          [] view = "combined" /\ (\E s \in Segments : of(s) = None) -> None
          [] OTHER -> of("regular") + of("feeding")

\* report, issue_current: the bundle of what is recorded now.
BundleNow == {i \in DOMAIN bundles : bundles[i].context = BundleContext}

-----------------------------------------------------------------------------
(***************************************************************************)
(* Prospective evidence.                                                   *)
(***************************************************************************)

\* issue_current: the first projection of an origin for a target is kept, also
\* after a correction in the same period.
IssueCurrent ==
    /\ BundleNow # {}
    /\ LET bundle == bundles[Max(BundleNow)]
           new == {vt \in VIEWS \X bundle.context.targets :
                      /\ Projected(bundle, vt[1], vt[2]) # None
                      /\ \A i \in issues : <<i.view, i.origin, i.target>> # <<vt[1], Current, vt[2]>>}
       IN  /\ new # {}
           /\ issues' = issues \union
                {[view |-> vt[1], origin |-> Current, target |-> vt[2], day |-> today,
                  value |-> Projected(bundle, vt[1], vt[2])] : vt \in new}
    /\ UNCHANGED <<sourceVars, bundles, coverage, scores, bundleJob>>

\* outcome: the rows of a segment with the unresolved ones, which a
\* classification can still move into it.
Fingerprint(segment, target) == <<ledger[segment][target], ledger["unclassified"][target]>>

Closed(target) == target \in Periods /\ Start(target + 1) <= today

\* attest: a reviewer confirms a closed period of a segment; with --confirm-zero
\* when nothing is recorded.  Only targets of issues are reviewed here: other
\* reviews are never read.
AttestProjection(segment, target) ==
    /\ Cardinality(coverage) < MaxReviews
    /\ Closed(target) /\ \E i \in issues : i.target = target
    /\ ledger["unclassified"][target] = None
    /\ LET row == [segment |-> segment, target |-> target, content |-> Fingerprint(segment, target)]
       IN  row \notin coverage /\ coverage' = coverage \union {row}
    /\ UNCHANGED <<sourceVars, bundles, issues, scores, bundleJob>>

Parts(view) == IF view = "combined" THEN Segments ELSE {view}

\* Mutation: a review holds for its period whatever is recorded later.
ReviewedOnce(segment, target) ==
    \E row \in coverage : row.segment = segment /\ row.target = target

\* A review counts while what it reviewed is unchanged.
Reviewed(segment, target) ==
    [segment |-> segment, target |-> target, content |-> Fingerprint(segment, target)] \in coverage

\* reviewed_outcome: known when the target is closed, was issued in advance, and
\* all its parts are reviewed as they stand.
HasOutcome(issue) ==
    /\ Closed(issue.target)
    /\ issue.day < Start(issue.target) /\ PeriodOf(issue.day) = issue.origin
    /\ \A s \in Parts(issue.view) : Reviewed(s, issue.target)

Amount(x) == IF x = None THEN 0 ELSE x
Actual(view, target) == Summed([s \in Parts(view) |-> Amount(ledger[s][target])])

\* The revision of an outcome.
Revision(issue) == [s \in Parts(issue.view) |-> Fingerprint(s, issue.target)]

\* score_closed: every issue with an outcome gets one score for that outcome.
ScoreClosed ==
    /\ LET due == {i \in issues : /\ HasOutcome(i)
                                  /\ \A x \in scores : x.issue = i => x.revision # Revision(i)}
       IN  /\ due # {}
           /\ scores' = scores \union
                {[issue |-> i, revision |-> Revision(i), actual |-> Actual(i.view, i.target)] : i \in due}
    /\ UNCHANGED <<sourceVars, bundles, issues, coverage, bundleJob>>

\* evidence_report: the scores of the present outcomes.
Evidence == {x \in scores : HasOutcome(x.issue) /\ x.revision = Revision(x.issue)}

-----------------------------------------------------------------------------
(***************************************************************************)
(* Properties.                                                             *)
(***************************************************************************)

\* The evidence compares projections made before their target with the revenue
\* that is recorded and reviewed now; a correction withdraws the old scores at
\* once, before any maintenance runs (evidence_report, reviewed_outcome).
ProjectionEvidenceCurrent ==
    \A x \in Evidence :
        /\ x.issue.day < Start(x.issue.target)
        /\ x.actual = Actual(x.issue.view, x.issue.target)
        /\ \A s \in Parts(x.issue.view) :
              \E row \in coverage : /\ row.segment = s /\ row.target = x.issue.target
                                    /\ Amount(row.content[1]) = Amount(ledger[s][x.issue.target])

\* A bundle found for the present inputs was computed from them, although the
\* refresh reads the saved primary fits a second time while it builds (refresh,
\* report).
BundleMatchesInputs ==
    \A i \in BundleNow, s \in Segments :
        LET src   == Snapshot(Current)
            kind  == IF s = "regular" /\ RegularBasis(src).status # "fallback"
                       THEN "primary" ELSE "fallback"
            state == (CHOOSE c \in bundles[i].components : c.segment = s).state
        IN  state # None =>
                state = [kind |-> kind, rows |-> IF kind = "primary" THEN PrimaryRows(src) ELSE src[s]]

\* Bundles and their evidence are those of the present ledger: both of the above.
ProjectionsCurrent == ProjectionEvidenceCurrent /\ BundleMatchesInputs
=============================================================================
