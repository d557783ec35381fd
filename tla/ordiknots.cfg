SPECIFICATION SystemSpec
CONSTANTS
  a1 = a1
  a2 = a2
  b1 = b1
  Tx = {a1, a2, b1}
  Inputs <- MCInputs
  Knotworks <- MCKnotworks
  OceanMarks = {FALSE}
  MaxHeight = 3
  MaxReorgs = 1
  MaxFaults = 1
  MaxTroubles = 1
  MaxCrashes = 1
  NoFrom = NoFrom
  NoEntry = NoEntry
  FromOptions = {NoFrom}
  MAX_OP_RETURN_SIZE = 8
  MIN_LAST_CHUNK_SIZE = 2
  MAX_CHAINED_TRANSACTIONS = 4
  MAX_BLOCKS_TO_SCAN = 1
INVARIANTS
  SystemTypeOK
  IndexedIsPublished
  PublishedIsIndexed
PROPERTIES
  ImplementsIndexer
  CatchesUp
\* The bounds are used up in the end, and an indexer that died stays dead.
CHECK_DEADLOCK FALSE
