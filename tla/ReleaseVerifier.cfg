SPECIFICATION Spec
CONSTANTS
  c1 = c1
  Calls = {c1}
  MaxEntries = 3
  MaxDeliveries = 3
  MaxFaults = 2
  MaxRestarts = 2
INVARIANTS
  VerifierTypeOK
  WorkIsRemembered
PROPERTIES
  KeepsPromise
CHECK_DEADLOCK FALSE
