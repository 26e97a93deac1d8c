CONSTANTS
  MANUAL = MANUAL
  Strategies <- MCStrategies
  Symbols <- MCSymbols
  Scenarios <- MCScenarios
  ManualFills <- MCManualFills
  MaxCrashes = 2
  MaxCommands = 1
  MaxPending = 1
SPECIFICATION Spec
CHECK_DEADLOCK FALSE
INVARIANTS
  BooksBalance
  ExecuteOnce
  DailyLimitsHold
PROPERTIES
  EngineNeverOverdraws
  OpenLimitHolds
  ExitsDoneAtCompletion
  EventuallyExecuted
