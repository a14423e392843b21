---------------------------- MODULE MCAttributes ----------------------------
(* HsmAttributes on the nested states of MCCharts. *)
EXTENDS HsmAttributes, HsmCharts
Charts == INSTANCE MCCharts
HierarchyModel == Charts!HierarchyModel
Levels == {"level", "mode"}
LevelDefault == [level |-> "lo", mode |-> None]
LevelChange == [level |-> "level", mode |-> "mode"]
AskEvent == [k \in Caller |-> "ask"]

\* This chart and its entry point meet the hypotheses that the theorems about
\* configurations and stopped machines have.
ASSUME ChartAssumption == PointsEnter /\ PointsJoin /\ ActivitiesApart /\ ModelLeads

\* It is what HsmFinalizerProofs asks of a chart.
ASSUME DeclaredAssumption ==
    LET chart == Charts!Hierarchy
    IN  /\ Charts!IsChart(chart) /\ Charts!WaysOpen(chart)
        /\ Charts!ActivitiesListed(chart) /\ Charts!PointsApart(chart)
=============================================================================
