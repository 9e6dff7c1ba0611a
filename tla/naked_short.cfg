SPECIFICATION DeskSpec
CONSTANTS
  None = None
  Snaps <- Snapshots
  Window = 3
  IvrMin = 70
  IvrMax = 30
  WingWidth = 20
  Offset = 10
  EntryTime = 2
  ExitTime = 3
  Budget = 20
  LotSize = 2
  DeltaCap = 6
  Rosters <- Plain
  MaxSnaps = 3
  MaxDeskRestarts = 0
INVARIANT
  NoNakedShort
CHECK_DEADLOCK FALSE
