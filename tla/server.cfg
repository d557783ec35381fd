SPECIFICATION Spec
CONSTANTS
  t1 = t1
  t2 = t2
  t3 = t3
  Tx = {t1, t2, t3}
  Detected = {t1, t2, t3}
  Inputs <- MCInputs
  Keys <- MCKeys
  Files <- MCFiles
  OceanMarks = {TRUE}
  NoEntry = NoEntry
  MaxHeight = 2
  MaxReorgs = 0
  Requests = {q}
  MaxExcuses = 1
  PREVIEW_SIZE = 12
INVARIANTS
  TypeOK
  PageIsOneMoment
  PageIsComplete
  CardsShowTheFiles
PROPERTY
  Answered
