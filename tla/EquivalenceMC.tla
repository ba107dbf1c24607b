--------------------------- MODULE EquivalenceMC ---------------------------
(***************************************************************************)
(* The predicates over every pair of short traces, each grown one record   *)
(* at a time, compared with the reference models of tests/trace_predicates *)
(* (remove one record; keep first appearances).                            *)
(***************************************************************************)
EXTENDS Equivalence

CONSTANTS Operations, TracePayloads, MaxTrace

VARIABLES observed, reference

Records == [operation : Operations, step : {"step"}, payload : TracePayloads]

TraceInit == observed = <<>> /\ reference = <<>>

Observe(r) ==
  /\ Len(observed) < MaxTrace + 1
  /\ observed' = Append(observed, r) /\ UNCHANGED reference

Expect(r) ==
  /\ Len(reference) < MaxTrace /\ observed = <<>>
  /\ reference' = Append(reference, r) /\ UNCHANGED observed

TraceNext == \E r \in Records : Observe(r) \/ Expect(r)

TraceSpec == TraceInit /\ [][TraceNext]_<<observed, reference>>

-----------------------------------------------------------------------------
\* Independent model: dropping one of two equal neighbours gives the reference.
OneExtraNeighbour ==
  \E i \in 2 .. Len(observed) :
    observed[i] = observed[i-1] /\ RemoveAt(observed, i) = reference

\* The insertion search finds exactly the traces with one repeated neighbour.
DuplicateIsRemovable ==
  SingleAdjacentDuplicate(observed, reference) <=>
    observed = reference \/ OneExtraNeighbour

\* Independent model: the first appearances, in order, are the reference, and
\* every other record repeats an earlier one.
FirstAt(trace) == {i \in DOMAIN trace : \A k \in 1 .. i - 1 : trace[k] # trace[i]}

FirstAppearances(trace) ==
  [n \in 1 .. Cardinality(FirstAt(trace)) |->
     trace[CHOOSE i \in FirstAt(trace) : Cardinality({k \in FirstAt(trace) : k <= i}) = n]]

\* The scan accepts exactly the traces whose first appearances are the reference.
RetriesKeepFirstAppearances ==
  OrderedRetries(observed, reference) <=>
    UniqueOperations(reference) /\ FirstAppearances(observed) = reference
=============================================================================
