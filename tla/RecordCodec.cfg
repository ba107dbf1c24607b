\* One foreign document and one of this build's, in either order.
CONSTANTS
  Labels = {signup}
  OtherTexts = {Signup}
  Blank = Blank
  Payloads = {json}
  Draws = {draw}
  MaxU32 = 1
  MaxU64 = 2
  MaxEvents = 2
  Unknown = Unknown
  Codec = Codec
SPECIFICATION Spec
INVARIANTS
  EventsReadBack
PROPERTIES
  UnreadableStops
