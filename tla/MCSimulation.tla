---------------------------- MODULE MCSimulation ----------------------------
(* Constants of the model-checking runs of SimulatedOrchestrator.          *)
EXTENDS SimulationProperties

(* execute() called directly, by one caller at a time, with any boundary   *)
(* in any scenario                                                         *)
DirectCells == [scenario : Scenarios, crash : Boundaries, concurrency : {1}]

AllCells == DirectCells \cup RunnerCells(2)
PoolCells == RunnerCells(2)
=============================================================================
