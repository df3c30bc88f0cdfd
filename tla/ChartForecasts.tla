--------------------------- MODULE ChartForecasts ---------------------------
(***************************************************************************)
(* The forecasting charts: the centred graph (BetaGraph) or the rough      *)
(* projections with their evidence (Projections), over a ledger that is    *)
(* corrected while refreshes run and days pass.                            *)
(***************************************************************************)
EXTENDS BetaGraph, Projections, ModelSelection

vars == <<sourceVars, graphVars, projectionVars, selectionVars>>

Init ==
    /\ SourcesInit /\ GraphInit /\ ProjectionInit /\ SelectionInit
    /\ engine = "selection" => unit = CHOOSE u \in Units : TRUE
    /\ engine # "selection" =>
         /\ trainer = CHOOSE t \in Trainers : TRUE
         /\ history = [i \in 1..Min(HistoryLengths) |-> 0]

SourceStep ==
    /\ engine # "selection"
    /\ UNCHANGED <<graphVars, projectionVars, selectionVars>>
    /\ \/ NextDay
       \/ \E s \in Labels, p \in Periods, a \in (1..MaxAmount) \union {None} : LedgerChange(s, p, a)
       \/ \E p \in Periods : AttestMonth(p)
       \/ \E p \in Periods, ok \in BOOLEAN : SavePrimary(p, ok)

GraphStep ==
    /\ engine = "graph"
    /\ UNCHANGED <<projectionVars, selectionVars>>
    /\ \/ \E asOf \in Dates, ok \in FitOutcomes : GraphRefreshBuilds(asOf, ok)
       \/ GraphRefreshCommits

ProjectionStep ==
    /\ engine = "projection"
    /\ UNCHANGED <<graphVars, selectionVars>>
    /\ \/ BundleReads
       \/ \E ok \in FitOutcomes : BundleBuilds(ok)
       \/ BundleCommits
       \/ IssueCurrent
       \/ \E s \in Segments, p \in Periods : AttestProjection(s, p)
       \/ ScoreClosed

SelectionStep ==
    /\ engine = "selection"
    /\ UNCHANGED <<sourceVars, graphVars, projectionVars>>
    /\ SelectionNext

Next == SourceStep \/ GraphStep \/ ProjectionStep \/ SelectionStep

Spec == Init /\ [][Next]_vars
=============================================================================
