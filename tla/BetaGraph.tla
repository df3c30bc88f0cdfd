------------------------------ MODULE BetaGraph ------------------------------
(***************************************************************************)
(* The centred chart of three views (forecasting.beta_graph, graph_range): *)
(* an offline refresh fits and saves a graph for a business date and       *)
(* issues its future predictions; a GET replays the graph saved for        *)
(* exactly what is recorded now, fits nothing, and shows for past periods  *)
(* the prediction that was issued for them.                                *)
(***************************************************************************)
EXTENDS ChartSources

CONSTANTS
    Radius,   \* periods shown on each side of the current one
    Outlook,  \* periods of the seasonal outlook, from the current one
    LookBack  \* bound: how many days back a graph is asked for

ASSUME GraphAssumption == {Radius, Outlook, LookBack} \subseteq Nat

VARIABLES
    graphs,       \* GraphForecastRun rows, oldest first
    predictions,  \* GraphPrediction rows: run, view, target, value, day of issue
    graphJob      \* the refresh in progress: its context and what it built, or None

graphVars == <<graphs, predictions, graphJob>>

GraphInit == graphs = <<>> /\ predictions = {} /\ graphJob = None

-----------------------------------------------------------------------------
(***************************************************************************)
(* The context of a graph for the business date asOf.                      *)
(***************************************************************************)

\* window, and the periods of the seasonal outlook.
Window(asOf)       == (PeriodOf(asOf) - Radius)..(PeriodOf(asOf) + Radius)
OutlookDates(asOf) == PeriodOf(asOf)..(PeriodOf(asOf) + Outlook - 1)

\* A past target keeps its own origin; the current and later ones share the latest.
Cutoff(target, asOf) == IF target < PeriodOf(asOf) THEN target ELSE PeriodOf(asOf)

\* The rows of a component and where its model comes from.  The record stands for
\* the signature, which digests all of it.
Input(segment, src) ==
    LET zeros  == WithZeros(src)
        saved  == SavedForRows(src, zeros)
        weekly == WeeklyDependency(src)
        fallback == [rows |-> src[segment], basis |-> "fallback", from |-> None]
    IN  CASE segment = "regular" /\ unit = "monthly" ->
                CASE saved # {} -> [rows |-> zeros, basis |-> "saved", from |-> NewestFit(saved)]
                  [] saved = {} /\ IsLong(Block(zeros)) ->
                        [rows |-> zeros, basis |-> "primary_refresh_required", from |-> None]
                  [] OTHER -> [fallback EXCEPT !.rows = zeros]
          [] segment = "regular" /\ unit = "weekly" /\ weekly # "insufficient_history" ->
                [rows |-> PrimaryRows(src), basis |-> weekly, from |-> <<src, WeeklyFits(src)>>]
          [] OTHER -> fallback

\* context: everything a graph depends on.
GraphContext(asOf) ==
    LET src == [t \in Window(asOf) |-> Snapshot(Cutoff(t, asOf))]
    IN  [asOf |-> asOf, sources |-> src,
         inputs |-> [t \in Window(asOf) |-> [s \in Segments |-> Input(s, src[t])]]]

-----------------------------------------------------------------------------
(***************************************************************************)
(* Issued predictions of a past period.                                    *)
(***************************************************************************)

IssuedFor(target, asOf) ==
    {p \in predictions : p.target = target /\ p.day < Start(target) /\ p.day <= asOf}

Bundle(run, records)  == {p \in records : p.run = run}
ValueIn(view, bundle) == (CHOOSE p \in bundle : p.view = view).value

IsCoherent(bundle) ==
    /\ \A v \in VIEWS : \E p \in bundle : p.view = v
    /\ ValueIn("combined", bundle) = ValueIn("regular", bundle) + ValueIn("feeding", bundle)

Newest(view, records) ==
    (CHOOSE p \in records : p.view = view /\ \A q \in records : q.view = view => q.run <= p.run).value

\* _issued_predictions: the newest run that issued all views, else single
\* components, and then no combined value.
IssuedPredictions(target, asOf) ==
    LET records  == IssuedFor(target, asOf)
        complete == {p.run : p \in {q \in records : IsCoherent(Bundle(q.run, records))}}
        parts    == {p.view : p \in records} \intersect Segments
    IN  CASE complete # {} ->
                [v \in VIEWS |-> ValueIn(v, Bundle(Max(complete), records))]
          [] complete = {} /\ parts # {} ->
                [v \in parts \union {"combined"} |->
                    IF v = "combined" THEN None ELSE Newest(v, records)]
          [] OTHER -> [v \in {} |-> None]

-----------------------------------------------------------------------------
(***************************************************************************)
(* Building and showing a graph.                                           *)
(***************************************************************************)

\* The component fitted for an input; converged says which fits succeed.
GraphComponent(segment, input, converged) ==
    LET state(kind) == [kind |-> kind, rows |-> input.rows]
    IN  CASE input.basis \in {"saved", "saved_sarima"} -> state("primary")
          [] input.basis = "offline_training_required" ->
                IF segment \in converged THEN state("primary") ELSE None
          [] input.basis \in {"primary_refresh_required", "invalid_saved_artifact"} -> None
          [] input.basis = "fallback" ->
                IF segment \in converged /\ Cardinality(Observed(input.rows)) >= MinObserved
                  THEN state("fallback") ELSE None

\* The kept artifacts: input and component, for each input of the context.
Artifacts(ctx, prior, converged) ==
    {LET input == ctx.inputs[t][s]
         old   == {a \in prior : a.segment = s /\ a.input = input}
     IN  IF old # {} THEN CHOOSE a \in old : TRUE
         ELSE [segment |-> s, input |-> input, state |-> GraphComponent(s, input, converged)] :
        t \in Window(ctx.asOf), s \in Segments}

\* _point: the path of the component fitted for the origin of a target.
Point(ctx, artifacts, segment, origin, target) ==
    LET state == (CHOOSE a \in artifacts :
                    a.segment = segment /\ a.input = ctx.inputs[origin][segment]).state
    IN  IF state = None THEN None ELSE Path(state.kind, state.rows, target)

AddUp(regular, feeding) ==
    IF regular = None \/ feeding = None THEN None ELSE regular + feeding

\* Mutation: a reconstruction replaces what was issued.
Reconstructed(saved, issued, target, view, asOf) ==
    IF saved = None /\ target < PeriodOf(asOf) /\ view \in DOMAIN issued
      THEN issued[view] ELSE saved

\* The prediction of a point: for a past target what was issued for it, if anything.
PointShown(saved, issued, target, view, asOf) ==
    IF target < PeriodOf(asOf) /\ view \in DOMAIN issued THEN issued[view] ELSE saved

\* build with training: the points of the three views; combined is the sum of
\* its components or missing.
Build(ctx, artifacts) ==
    [v \in VIEWS |-> [t \in Window(ctx.asOf) |->
        LET at(s) == Point(ctx, artifacts, s, t, t)
        IN  PointShown(IF v = "combined" THEN AddUp(at("regular"), at("feeding")) ELSE at(v),
                       IssuedPredictions(t, ctx.asOf), t, v, ctx.asOf)]]

\* build_seasonal_outlook: the chart's own points, continued from the components
\* of the current period.
BuildOutlook(ctx, artifacts, points) ==
    [v \in VIEWS |-> [t \in OutlookDates(ctx.asOf) |->
        LET at(s) == Point(ctx, artifacts, s, PeriodOf(ctx.asOf), t)
        IN  IF t \in Window(ctx.asOf) THEN points[v][t]
            ELSE IF v = "combined" THEN AddUp(at("regular"), at("feeding")) ELSE at(v)]]

\* Mutation: the newest graph of the day, whatever was recorded since.
GraphOfDay(asOf) ==
    {i \in DOMAIN graphs : graphs[i].context.asOf = asOf
        /\ \A j \in DOMAIN graphs : graphs[j].context.asOf = asOf => j <= i}

\* The saved graph of exactly what is recorded now.
GraphFor(asOf) == {i \in DOMAIN graphs : graphs[i].context = GraphContext(asOf)}

\* report: a GET replays the saved points and fits nothing.
Report(asOf) ==
    LET found == GraphFor(asOf)
    IN  [v \in VIEWS |-> [t \in Window(asOf) |->
            PointShown(IF found = {} THEN None ELSE graphs[Max(found)].points[v][t],
                       IssuedPredictions(t, asOf), t, v, asOf)]]

\* historical_comparisons: the one-step tests kept by the primary fit of the
\* present source.
Comparison(target) ==
    LET src   == Snapshot(Current)
        saved == FitsFor(src)
    IN  IF saved # {} /\ NewestFit(saved).candidate /\ target \in DOMAIN NewestFit(saved).rows
          THEN Path("primary", [p \in {q \in DOMAIN NewestFit(saved).rows : q < target} |-> src["regular"][p]],
                    target)
          ELSE None

\* range_report: any periods around today, from the chart, the saved outlook,
\* what was issued, and for the regular view the kept comparisons.
RangeReport(targets) ==
    LET shown == Report(today)
        found == GraphFor(today)
    IN  [v \in VIEWS |-> [t \in targets |->
            LET saved  == CASE t \in Window(today) -> shown[v][t]
                            [] t \in OutlookDates(today) \ Window(today) /\ found # {} ->
                                  graphs[Max(found)].outlook[v][t]
                            [] OTHER -> None
                issued == IssuedPredictions(t, today)
            IN  IF t < Current /\ v = "regular" /\ saved = None /\ v \notin DOMAIN issued
                  THEN Comparison(t)
                  ELSE PointShown(saved, issued, t, v, today)]]

-----------------------------------------------------------------------------
(***************************************************************************)
(* The offline refresh.                                                    *)
(***************************************************************************)

\* Dates a refresh or a GET is asked for: today, or a day not long before.
Dates == {d \in BusinessDays : d <= today /\ d >= today - LookBack}

\* refresh up to the commit: nothing is done when the graph exists.  Fits that
\* were made for the same input are taken from the previous graph.
GraphRefreshBuilds(asOf, converged) ==
    /\ graphJob = None /\ Len(graphs) < MaxRuns
    /\ asOf \in Dates
    /\ GraphFor(asOf) = {}
    /\ LET ctx   == GraphContext(asOf)
           prior == IF graphs = <<>> THEN {} ELSE Last(graphs).artifacts
           built == Artifacts(ctx, prior, converged)
           points == Build(ctx, built)
       IN  graphJob' = [context |-> ctx, artifacts |-> built, points |-> points,
                        outlook |-> BuildOutlook(ctx, built, points)]
    /\ UNCHANGED <<sourceVars, graphs, predictions>>

\* A prediction is issued only on the graph's own date, before its target begins.
MayIssue(asOf, target) == asOf = today /\ Start(target) > asOf /\ Start(target) > today

\* The commit, under _commit_lock: refused when anything it was built from changed.
GraphRefreshCommits ==
    /\ graphJob # None
    /\ IF GraphContext(graphJob.context.asOf) = graphJob.context
         THEN LET asOf == graphJob.context.asOf
                  run  == Len(graphs) + 1
              IN  /\ graphs' = Append(graphs, graphJob)
                  /\ predictions' = predictions \union
                        {[run |-> run, view |-> vt[1], target |-> vt[2], day |-> today, value |-> graphJob.points[vt[1]][vt[2]]] :
                            vt \in {x \in VIEWS \X Window(asOf) :
                                      /\ MayIssue(asOf, x[2]) /\ graphJob.points[x[1]][x[2]] # None}}
         ELSE UNCHANGED <<graphs, predictions>>
    /\ graphJob' = None
    /\ UNCHANGED sourceVars

-----------------------------------------------------------------------------
(***************************************************************************)
(* Properties.                                                             *)
(***************************************************************************)

Targets == 0..(Max(Periods) + Outlook)

\* Whatever mixture of runs, failed fits and single components was issued, a
\* combined prediction is shown only beside both components and is their sum
\* (_issued_predictions, build, build_seasonal_outlook).
CombinedIsSum ==
    LET Adds(shown, targets) ==
            \A t \in targets : shown["combined"][t] # None =>
                /\ shown["regular"][t] # None /\ shown["feeding"][t] # None
                /\ shown["combined"][t] = shown["regular"][t] + shown["feeding"][t]
    IN  /\ \A asOf \in Dates : Adds(Report(asOf), Window(asOf))
        /\ Adds(RangeReport(Targets), Targets)

\* Every saved prediction was issued before its target period began, whenever
\* the refresh ran and whatever date it was asked for (refresh, GraphPrediction).
IssuedInAdvance == \A p \in predictions : p.day < Start(p.target)

\* A current or future point that a GET shows is the path of what is recorded,
\* reviewed and fitted now: never of an earlier state of the ledger (report).
ServedFromCurrentLedger ==
    LET ahead == {t \in Targets : t >= Current}
        shown == RangeReport(ahead)
    IN  \A s \in Segments :
            LET input == Input(s, Snapshot(Current))
                kind  == IF input.basis = "fallback" THEN "fallback" ELSE "primary"
            IN  \A t \in ahead : shown[s][t] # None => shown[s][t] = Path(kind, input.rows, t)

\* The issued prediction shown for a past period never changes again: not by
\* corrections, later refreshes or refits (_issued_predictions).
PastForecastFrozen ==
    [][LET past == {t \in Targets : t < Current /\ IssuedFor(t, today) # {}}
       IN  past # {} =>
           LET before == RangeReport(past)
               after  == RangeReport(Targets)'
           IN  \A t \in past : \A v \in DOMAIN IssuedPredictions(t, today) :
                    after[v][t] = before[v][t]]_<<sourceVars, graphVars>>

\* What the graph shows is what it says: all of the above invariants.
GraphIsHonest == CombinedIsSum /\ IssuedInAdvance /\ ServedFromCurrentLedger
=============================================================================
