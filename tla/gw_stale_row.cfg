SPECIFICATION Spec
CONSTANTS
  a = a
  b = b
  Signals = {a}
  Sliced = {}
  NSlices = 1
  FNO = {}
  Pollers = {}
  Qty = 2
  Attempts = 3
  MaxCrashes = 0
  MaxDbFailures = 0
  Lossy = FALSE
  BrokerSteps <- Conformant
PROPERTY
  NeverBackFromTerminal
CHECK_DEADLOCK FALSE
