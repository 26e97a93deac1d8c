CONSTANTS
  StrategyIds = {"trend_breakout", "breakout_shadow_filter", "trend_rider", "pullback_rebound", "trend_pullback"}
  Divergence = {5, 6}
SPECIFICATION Spec
INVARIANTS
  NoLookAhead
  HighIsHighest
  ResultsReconcile
PROPERTIES
  ExitsAreAccountedFor
CHECK_DEADLOCK FALSE
