SPECIFICATION Spec
CONSTANTS
  k1 = k1
  fp = fp
  Tx = {k1, fp}
  Inputs <- MCInputs
  Detected <- MCDetected
  Genuine <- MCGenuine
  OceanMarks = {TRUE, FALSE}
  MaxHeight = 3
  MaxReorgs = 1
  MaxFaults = 1
  MaxCrashes = 1
  NoFrom = NoFrom
  NoEntry = NoEntry
  FromOptions = {NoFrom, 1}
INVARIANTS
  TypeOK
  NoSilentLoss
  EntryAccurate
  ListenerMatchesStatus
PROPERTIES
  RedoHarmless
  StatusStepsByOne
  ImplementsCatalogue
\* The bounds are used up in the end, and an indexer that died stays dead.
CHECK_DEADLOCK FALSE
