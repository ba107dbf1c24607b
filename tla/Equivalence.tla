---------------------------- MODULE Equivalence ----------------------------
(***************************************************************************)
(* The trace predicates of src/equivalence.rs, as the code computes them.  *)
(* A trace is a sequence of records [operation, step, payload].            *)
(***************************************************************************)
EXTENDS SequencesExt

ExactTrace(observed, reference) == observed = reference

\* Mutation: the repeat may stand at the end.
RepeatedLast(reference, i) == Append(reference, reference[i])

\* Repeat one record of the reference in place.
Repeated(reference, i) == InsertAt(reference, i, reference[i])

SingleAdjacentDuplicate(observed, reference) ==
  \/ observed = reference
  \/ /\ Len(observed) = Len(reference) + 1
     /\ \E i \in DOMAIN reference : Repeated(reference, i) = observed

UniqueOperations(trace) ==
  \A i, k \in DOMAIN trace : trace[i].operation = trace[k].operation => i = k

\* Where the reference has the record, by its operation; nowhere, if the record
\* there is another.
Nowhere == 0

Place(reference, record) ==
  LET known == {i \in DOMAIN reference : reference[i].operation = record.operation}
  IN IF record \in {reference[i] : i \in known} THEN CHOOSE i \in known : TRUE ELSE Nowhere

\* One turn of the scan: `next` counts the reference records seen so far, in
\* order; NoMatch once a record is refused.
NoMatch == -1

\* Mutation: the order of first appearances is not checked.
AdvanceUnordered(next, place) ==
  IF next = NoMatch \/ place = Nowhere THEN NoMatch
  ELSE IF place = next + 1 THEN place ELSE next

Advance(next, place) ==
  IF next = NoMatch \/ place = Nowhere \/ place > next + 1 THEN NoMatch
  ELSE IF place = next + 1 THEN place ELSE next

Places(observed, reference) == [k \in DOMAIN observed |-> Place(reference, observed[k])]

OrderedRetries(observed, reference) ==
  /\ UniqueOperations(reference)
  /\ FoldLeft(Advance, 0, Places(observed, reference)) = Len(reference)
=============================================================================
