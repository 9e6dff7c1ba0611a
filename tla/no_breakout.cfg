SPECIFICATION Spec
CONSTANTS
  DayLength = 10
  RangeStart = 2
  RangeEnd = 4
  TimeStop = 7
  Timeframes <- OneAndTwo
  QueueSize = 1
  Times <- Moments
  Deals <- Trades
  Orders <- BothOrders
  Atrs = {0, 3}
  MaxTicks = 4
  MaxUpsets = 1
  None = None
  Snaps <- Snapshots
  Window = 3
  IvrMin = 70
  IvrMax = 30
  WingWidth = 20
  Offset = 10
  EntryTime = 2
  ExitTime = 3
  Budget = 20
  LotSize = 2
  DeltaCap = 6
  Rosters <- Doubled
  MaxSnaps = 3
  MaxDeskRestarts = 1
  DailyBars <- Candles
  LongAvg = 3
  ShortAvg = 2
  Lookback = 2
  DepthMax = 50
  Warmup = 2
  MaxSignals = 2
  NoEntryAfter = 1
  LastDay = 1
  LastTime = 1
  MaxCloses = 7
  MaxReversionRestarts = 1
  Scrips = {"a", "b"}
  MaxCalls = 4
  MaxLosses = 2
PROPERTY
  EntersOnBreakout
CHECK_DEADLOCK FALSE
