SPECIFICATION ScenarioSpec
CONSTANTS
  t1 = t1
  t2 = t2
  orb = orb
  swing = swing
  c1 = c1
  Tasks = {t1, t2}
  Strategies = {orb, swing}
  Signals <- AllSignals
  Outcomes <- WinOrLoss
  HeatCap = 6
  StockCap = 9
  DailyLimit = 2
  WeeklyLimit = 3
  MonthlyLimit = 4
  SoftBrake = 1
  HardPause = 2
  MaxTrades = 3
  MaxDays = 1
  Scenarios = {"market"}
  MaxRestarts = 0
  Callers = {}
  Operated = FALSE
INVARIANTS StockCapHolds
