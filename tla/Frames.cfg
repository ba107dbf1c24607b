\* MODULE FramesMC: files of a few frames.
CONSTANTS
  Payloads <- HardPayloads
  MaxLost = 4
  MaxBytes = 45
SPECIFICATION Spec
INVARIANTS
  ParsesWhatWasWritten
  ChecksumIsDivision
