\* Two requests a minute and four an hour, a minute of two ticks and an hour
\* of six; two inspections compete for one parser slot.
CONSTANTS
  r1 = r1
  r2 = r2
  k1 = k1
  NoClient = NoClient
  Key = {k1}
  Rpm = 2
  Rph = 4
  Minute = 2
  Hour = 6
  Request = {r1, r2}
  Slots = 1
  TurnstileOn = TRUE
SPECIFICATION GateSpec
INVARIANTS
  GateTypeOK
  SlidingMinute
  SlidingHour
  RefusedOnlyOverLimit
  SlotsAreParsers
PROPERTIES
  EveryRequestAnswered
  ReturnedParserFreesSlot
