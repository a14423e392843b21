------------------------------ MODULE MCTimers ------------------------------
(* HsmTimers on the chart with timers of MCCharts. *)
EXTENDS HsmTimers, HsmCharts
Charts == INSTANCE MCCharts
ClockworkModel == Charts!ClockworkModel
ClockworkTimed == {"pAfter", "qEvery"}
ClockworkEvery == {"qEvery"}
ClockworkEvent == [a \in ClockworkTimed |-> IF a = "pAfter" THEN "after" ELSE "every"]

\* This chart meets the hypotheses that the theorems about timers have.
ASSUME ChartAssumption == PointsEnter /\ PointsJoin /\ ActivitiesApart /\ ModelLeads

\* It is what HsmFinalizerProofs asks of a chart.
ASSUME DeclaredAssumption ==
    LET chart == Charts!Clockwork
    IN  /\ Charts!IsChart(chart) /\ Charts!WaysOpen(chart)
        /\ Charts!ActivitiesListed(chart) /\ Charts!PointsApart(chart)
=============================================================================
