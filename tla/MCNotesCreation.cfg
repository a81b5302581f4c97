SPECIFICATION RecoverySpec
CONSTANTS
  Nothing = Nothing
  Attempts = {a1, a2}
  Ids = {i1, i2}
  MaxFaults = 2
PROPERTIES EveryCreationSucceeds
CHECK_DEADLOCK FALSE
