SPECIFICATION FairSpec
CONSTANTS
  a = a
  b = b
  Signals = {b}
  Sliced = {b}
  NSlices = 2
  FNO = {}
  Pollers = {}
  Qty = 1
  Attempts = 2
  MaxCrashes = 0
  MaxDbFailures = 1
  Lossy = TRUE
  BrokerSteps <- Short
INVARIANT
  SentIsJournaled
PROPERTY
  SubmitEnds
CHECK_DEADLOCK FALSE
