\* MODULE WorkflowMC: interrupted fewer times than a step has attempts, so that
\* an execution can always be finished.
CONSTANTS
  WorkflowNames = {signup}
  WorkflowVersions = {v1, v2}
  StepNames = {charge, notify}
  Payloads = {ok, card}
  StepErrors = {declined}
  WorkflowErrors = {rejected}
  Timestamps = {t1}
  RandomDraws = {heads, tails}
  MaxSeq = 3
  MaxAttempt = 3
  NoValue = NoValue
  NoOwner = NoOwner
  Engines = {e1, e2}
  MaxInterruptions = 2
  Code <- MixedCode
  charge = charge
  notify = notify
  card = card
  t1 = t1
  heads = heads
  rejected = rejected
  v1 = v1
SPECIFICATION FairSpec
INVARIANTS
  NeverDiverges
  OneInterruptionOneDuplicate
  FinishedWithOrderedRetries
PROPERTIES
  ImplementsDurable
  LeaseIsReleased
  EventuallyTerminal
