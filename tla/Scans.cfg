\* MODULE ScansMC.  Of the journals: one value of each payload; positions 0..2
\* and attempts 1..2, so that both counters reach their maximum within the
\* generated journals.  Of the traces: two payloads, so that a retry can change
\* its payload; one record more in the observation than a full reference, so
\* that one duplicate always fits.
CONSTANTS
  WorkflowNames = {signup}
  WorkflowVersions = {v1}
  StepNames = {charge}
  Payloads = {ok}
  StepErrors = {declined}
  WorkflowErrors = {rejected}
  Timestamps = {t1}
  RandomDraws = {r1}
  MaxSeq = 2
  MaxAttempt = 2
  NoValue = NoValue
  MaxLen = 7
  Operations = {charge, create, notify}
  TracePayloads = {p1, p2}
  MaxTrace = 3
SPECIFICATION ScansSpec
INVARIANTS
  ParseIsTheGrammar
  ErrorLocatesFirstMisfit
  DuplicateIsRemovable
  RetriesKeepFirstAppearances
CHECK_DEADLOCK FALSE
