CONSTANTS
  WorkflowNames = {signup, renewal}
  WorkflowVersions = {v1, v2}
  StepNames = {charge, notify}
  Payloads = {ok}
  StepErrors = {declined}
  WorkflowErrors = {rejected}
  Timestamps = {t1}
  RandomDraws = {heads}
  MaxSeq = 2
  MaxAttempt = 2
  NoValue = NoValue
  NoOwner = NoOwner
  Engines = {e1, e2}
  MaxInterruptions = 3
  Code <- AnyCode
SPECIFICATION Spec
INVARIANTS
  HistoryLegal
  LeaseExclusive
  ObservedIsDurable
  EffectsFollowAttempts
  RepeatsNeedInterruptions
  OutcomeWasPerformed
  RepliesAreDurable
  ReplayIsTotal
  SnapshotIsCurrent
PROPERTIES
  NoEffectOnceSettled
  SealSawEverything
