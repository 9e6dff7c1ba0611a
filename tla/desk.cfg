SPECIFICATION ScenarioSpec
CONSTANTS
  x = x
  orb = orb
  swing = swing
  f1 = f1
  f2 = f2
  f3 = f3
  feed = feed
  feed2 = feed2
  Instruments = {x}
  Strategies = {orb, swing}
  Fills = {f1, f2, f3}
  FillOf <- Trade
  Marks = {5}
  Calls = {feed, feed2}
  Redelivered = {f2}
  MaxDbFailures = 1
  MaxRestarts = 1
  MaxAcks = 1
INVARIANTS
  BooksBalance
  RowsAgree
  PnlAttributed
PROPERTY
  ReviewHasACause
CHECK_DEADLOCK FALSE
