------------------------------ MODULE MCRuntime ------------------------------
(* HsmRuntime on each chart of MCCharts: the .cfg files choose one. *)
EXTENDS HsmCharts, HsmRuntimeClaims, HsmContract
Charts == INSTANCE MCCharts
WorkshopModel  == Charts!WorkshopModel
DeferralModel  == Charts!DeferralModel
FragileModel   == Charts!FragileModel
GatewayModel   == Charts!GatewayModel

\* All of these charts meet the hypotheses that the theorems about activities
\* and stopped machines have, and all but one those about points.
ASSUME ChartsAssumption ==
    /\ PointsEnter /\ ActivitiesApart /\ ModelLeads
    /\ PointsJoin <=> Model # GatewayModel

\* They are what HsmFinalizerProofs asks of a chart.
ASSUME DeclaredAssumption ==
    /\ \A chart \in {Charts!Workshop, Charts!Deferral, Charts!Fragile, Charts!Gateway} :
           Charts!IsChart(chart) /\ Charts!WaysOpen(chart) /\ Charts!ActivitiesListed(chart)
    /\ \A chart \in {Charts!Workshop, Charts!Deferral, Charts!Fragile} :
           Charts!PointsApart(chart)
=============================================================================
