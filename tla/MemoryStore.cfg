CONSTANTS
  Threads = {t1, t2}
  NoThread = NoThread
  Executions = {signup, renewal}
  Records = {a, b}
  MaxEvents = 2
  MaxPanics = 2
SPECIFICATION Spec
INVARIANTS
  OwnersHaveLeases
PROPERTIES
  PoisonFreezesJournals
  ImplementsStore
