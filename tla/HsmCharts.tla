------------------------------ MODULE HsmCharts ------------------------------
(***************************************************************************)
(* HsmRuntime on the tables of the models that DefaultModelValidator       *)
(* accepts and DefaultModelFinalizer finalizes: what the tables of every   *)
(* such model have in common.                                              *)
(***************************************************************************)
EXTENDS HsmRuntimeProps

ASSUME TreeAssumption == TreeShaped

ASSUME PathsAssumption == PathsLead /\ PathsEnd

ASSUME HistoryAssumption == HistoriesReturn

ASSUME BranchAssumption == BranchesLead
=============================================================================
