SPECIFICATION FairSpec
CONSTANTS
  a1 = a1
  a2 = a2
  a3 = a3
  b1 = b1
  Tx = {a1, a2, a3, b1}
  Inputs <- MCInputs
  Knotworks <- MCKnotworks
  OceanMarks = {FALSE}
  MaxHeight = 3
  MaxReorgs = 1
  MAX_OP_RETURN_SIZE = 8
  MIN_LAST_CHUNK_SIZE = 2
  MAX_CHAINED_TRANSACTIONS = 4
  MAX_BLOCKS_TO_SCAN = 1
  MaxFaults = 1
INVARIANTS
  TypeOK
  OkIsTheFile
  PublishedDecodes
PROPERTIES
  DecodeEnds
