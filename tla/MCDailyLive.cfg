CONSTANTS
  INDEX = INDEX
  Accounts <- SimOnly
  LastDay = 2
  ExitStrategies <- MCExitStrategies
  Pipeline <- SimPipeline
  AutoExecute <- MCAuto
  Symbols <- MCSymbols
  Universe <- SimUniverse
  FixedUniverse <- MCFixedUniverse
  Opening <- SimOpening
  Picks <- MCPicks
  Stops <- MCStops
  Late <- SimLate
  ManualTrades <- SimTrades
  MaxEvents = 1
SPECIFICATION Spec
PROPERTY
  EventuallyCompleted
CHECK_DEADLOCK FALSE
