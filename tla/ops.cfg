SPECIFICATION FairSpec
CONSTANTS
  Stocks = {"x"}
  Ideas = {"orb", "swing"}
  Candidates <- Bars
  Wishes <- Signals
  Slip = 1
  Levy <- Rates
  CapDivisor = 10
  StartingNav = 40
  MaxBars = 3
  MaxSignals = 3
  Symbols = {"x", "y"}
  MonthLength = 2
  MaxNow = 3
  Concurrency = 2
  Torn = Torn
  MaxJobs = 2
  Brokers = {"dhan", "groww"}
  Probes = {"p1"}
  MaxRuns = 2
  MaxFlips = 2
  Titles = {"outage"}
  Channels = {"log", "email"}
  Quiet = 2
  Dispatches = {"d1", "d2"}
  MaxClock = 5
  GapHalt = 1
  Kept = 21
  Enough = 20
  LastSecond = 2
  MaxSlow = 2
  Stages = 4
  MinDays = 2
  LastDay = 8
INVARIANTS
  LotsAreThePosition
  CashIsExplained
  DrawdownIsWorst
  ReportIsStored
  RowsAreKept
  LoadIsTheRange
  LogTellsTheRun
  HeldForACause
  VerdictIsTrue
  StagesLast
PROPERTIES
  ShutdownEnds
CHECK_DEADLOCK FALSE
