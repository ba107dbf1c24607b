CONSTANTS
  WorkflowNames = {signup}
  WorkflowVersions = {v1, v2}
  StepNames = {charge, notify}
  Payloads = {ok}
  StepErrors = {}
  WorkflowErrors = {rejected}
  Timestamps = {t1}
  RandomDraws = {heads}
  MaxSeq = 2
  MaxAttempt = 3
  NoValue = NoValue
  NoOwner = NoOwner
  Engines = {e1, e2}
  MaxInterruptions = 2
  Code <- SignupCode
  charge = charge
  notify = notify
  card = ok
  t1 = t1
  heads = heads
  rejected = rejected
  v1 = v1
SPECIFICATION DemoFairSpec
INVARIANTS
  OnlyInterruptionsShow
PROPERTIES
  EventuallySucceeds
