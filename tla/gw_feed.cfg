SPECIFICATION FairSpec
CONSTANTS
  a = a
  b = b
  Signals = {a, b}
  Sliced = {b}
  NSlices = 2
  FNO = {b}
  Pollers = {}
  Qty = 2
  Attempts = 1
  MaxCrashes = 1
  MaxDbFailures = 1
  Lossy = FALSE
  BrokerSteps <- Conformant
INVARIANTS
  TrueRejection
PROPERTIES
  Settles
CHECK_DEADLOCK FALSE
