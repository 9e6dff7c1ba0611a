SPECIFICATION Spec
CONSTANTS
  a = a
  b = b
  Signals = {a}
  Sliced = {}
  NSlices = 2
  FNO = {}
  Pollers = {"poll"}
  Qty = 2
  Attempts = 1
  MaxCrashes = 1
  MaxDbFailures = 1
  Lossy = TRUE
  BrokerSteps <- Conformant
INVARIANTS
  TypeOK
  MirrorsBroker
  SentIsJournaled
  QuietAgreement
  TrackedUntilSettled
PROPERTIES
  JournalRefinesLedger
CHECK_DEADLOCK FALSE
