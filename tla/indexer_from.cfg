SPECIFICATION Spec
CONSTANTS
  k1 = k1
  fp = fp
  Tx = {k1, fp}
  Inputs <- MCInputs
  Detected <- MCDetected
  Genuine <- MCGenuine
  OceanMarks = {FALSE}
  MaxHeight = 2
  MaxReorgs = 0
  MaxFaults = 0
  MaxCrashes = 0
  NoFrom = NoFrom
  NoEntry = NoEntry
  FromOptions = {NoFrom, 1}
INVARIANTS
  StartsAtFrom
\* The bounds are used up in the end, and an indexer that died stays dead.
CHECK_DEADLOCK FALSE
