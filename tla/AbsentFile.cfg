\* MODULE FileJournalMC: one process, nobody killed; one failing metadata call.
SPECIFICATION Spec
CONSTANTS
  Nobody = Nobody
  Processes = {p}
  Records = {a, b}
  FrameParts = 3
  MaxFrames = 2
  MaxFaults = 1
  MaxOutages = 0
INVARIANT
  EveryPositionIsRight
