------------------------------ MODULE ScansMC ------------------------------
(***************************************************************************)
(* The code's scans over sequences, each over every short input: the       *)
(* parser over journals, the trace predicates over pairs of traces.  A run *)
(* grows a journal or a pair of traces, never both.                        *)
(***************************************************************************)
EXTENDS HistoryParse, EquivalenceMC

ScansInit == Init /\ TraceInit

ParseNext == observed = <<>> /\ reference = <<>> /\ Next /\ UNCHANGED <<observed, reference>>

PredicateNext == journal = <<>> /\ TraceNext /\ UNCHANGED journal

ScansSpec == ScansInit /\ [][ParseNext \/ PredicateNext]_<<journal, observed, reference>>
=============================================================================
