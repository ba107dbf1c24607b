------------------------------ MODULE DemoMC --------------------------------
(* The demo binary's processes over the code of WorkflowMC. *)
EXTENDS Demo, WorkflowMC

\* The demo's code is what the proof about it takes it to be.
ASSUME DemoAssumption == DemoWorkflow
=============================================================================
