CONSTANTS
  WorkflowNames = {signup, trial}
  WorkflowVersions = {v1}
  StepNames = {charge, create}
  Payloads = {ok}
  StepErrors = {declined}
  WorkflowErrors = {rejected}
  Timestamps = {deadline}
  RandomDraws = {heads}
  MaxSeq = 4
  MaxAttempt = 2
  NoValue = NoValue
  NoOwner = NoOwner
  Engines = {e1}
  MaxInterruptions = 1
  Code <- DriverCode
  trial = trial
  charge = charge
  create = create
  deadline = deadline
SPECIFICATION FailpointsFairSpec
INVARIANTS
  OnlyTheWindowAfterTheEffectRepeatsIt
  NoWindowIsSkipped
PROPERTIES
  CrashedRunsRecover
