\* MODULE FileJournalMC: a kill and a failing call, or two of either, and a
\* power loss.
SPECIFICATION Spec
CONSTANTS
  Nobody = Nobody
  Processes = {p, q}
  Records = {a, b}
  FrameParts = 3
  MaxFrames = 3
  MaxFaults = 2
  MaxOutages = 1
SYMMETRY Symmetry
INVARIANTS
  TypeOK
  AcknowledgedStay
  NoStrayLock
PROPERTIES
  ImplementsStore
