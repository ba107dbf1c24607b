------------------------------ MODULE EngineMC ------------------------------
(* Engine for TLC, over workflow code that promises nothing. *)
EXTENDS EngineInvariant

\* Code that may do anything at any point, and differently when recovered.
AnyCode(definition, input, obs) == Commands \cup Outcomes
=============================================================================
