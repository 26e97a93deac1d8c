SPECIFICATION ApprovalsSpec
CONSTANTS
  breakout = breakout
  rider = rider
  first = first
  renewed = renewed
  other = other
  Nothing = Nothing
  Empty = Empty
  Torn = Torn
  Strategies <- MCStrategies
  Ids <- MCIds
  StrategyOf <- MCStrategyOf
  From <- MCFrom
  Until <- MCUntil
  Modes <- MCModes
  Revoked = {renewed}
  Untrusted = {}
  Legacy = other
  Operators = {p1, p2}
  Warning = 2
  MaxCommands = 3
  MaxDay = 3
INVARIANTS
  LastWordHolds
  ActiveIsStored
  ActiveLastsUntilTheOpen
