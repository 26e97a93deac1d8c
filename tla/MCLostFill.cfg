CONSTANTS
  Strategies = {"trend"}
  MANUAL = "MANUAL"
  Commands = {"c1"}
  LastDay = 2
  PriceOf <- MCPrices
  Trades <- MCTrades
  Recorded <- MCRecorded
  Deposit = 300
  Amounts = {50}
  CorpActions <- MCActions
  MaxSteps = 4
  MaxCommands = 1
SPECIFICATION Spec
CHECK_DEADLOCK FALSE
PROPERTIES
  FactsAreKept
