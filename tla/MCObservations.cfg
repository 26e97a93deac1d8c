SPECIFICATION Spec
CONSTANTS
  Depth = 5
  LotSize = 1000
  Payloads <- MCPayloads
  Samples <- MCSamples
  Prices = {0, 1, 2, 3}
  Low = 1
  High = 2
  Resistance = 2
  KnownAt = 1
  MinTicks = 2
  MinSeconds = 2
  MaxBookAge = 2
  MaxTickGap = 2
  Delays = {0, 1, 3}
  BookAges <- MCBookAges
  Pauses = {0, 1, 3}
  MaxItems = 5
INVARIANTS
  EventsAreConfirmed
  AcceptedIsBook
CHECK_DEADLOCK FALSE
