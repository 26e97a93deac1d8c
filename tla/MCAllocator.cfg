CONSTANTS
  Strategies <- MCStrategies
  Symbols <- MCSymbols
  Signals <- MCSignals
  Inputs <- MCInputs
SPECIFICATION Spec
CHECK_DEADLOCK FALSE
INVARIANTS
  NoWashTrade
  SpendingWithinMeans
  EnterOnce
  ExitsCloseBuckets
  OpenPositionLimits
