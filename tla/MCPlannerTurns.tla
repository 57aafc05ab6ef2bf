---------------------------- MODULE MCPlannerTurns ----------------------------
(* Instances of PlannerTurns for TLC.                                        *)
EXTENDS PlannerTurns, TLC
=============================================================================
