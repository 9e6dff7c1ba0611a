SPECIFICATION ScenarioSpec
CONSTANTS
  t1 = t1
  t2 = t2
  orb = orb
  swing = swing
  c1 = c1
  Tasks = {t1, t2}
  Strategies = {orb, swing}
  Signals <- CheapAndJumpy
  Outcomes <- WinOrLoss
  HeatCap = 6
  StockCap = 8
  DailyLimit = 2
  WeeklyLimit = 3
  MonthlyLimit = 4
  SoftBrake = 1
  HardPause = 2
  MaxTrades = 3
  MaxDays = 1
  Scenarios = {"market", "halt"}
  MaxRestarts = 1
  Callers = {c1}
  Operated = TRUE
INVARIANTS TypeOK HeatOverrunBounded BrakesMatchBook
PROPERTIES SizedWithinCaps PreservedForGood HaltDrains
