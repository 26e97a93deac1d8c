CONSTANTS
  INDEX = INDEX
  Accounts <- MCAccounts
  LastDay = 2
  ExitStrategies <- MCExitStrategies
  Pipeline <- MCPipeline
  AutoExecute <- MCAuto
  Symbols <- MCSymbols
  Universe <- MCUniverse
  FixedUniverse <- MCFixedUniverse
  Opening <- MCOpening
  Picks <- MCPicks
  Stops <- MCStops
  Late <- MCLate
  ManualTrades <- MCManualTrades
  MaxEvents = 1
SPECIFICATION Spec
INVARIANTS
  IntentsMatchLoader
PROPERTIES
  ExecutionStaysMarked
  SignalsComplete
CHECK_DEADLOCK FALSE
