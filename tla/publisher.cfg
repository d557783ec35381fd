SPECIFICATION Spec
CONSTANTS
  pair = pair
  dusty = dusty
  single = single
  p2wsh = p2wsh
  Runs = {pair, dusty, single, p2wsh}
  Chained = {pair, dusty, single}
  Size <- MCSize
  Mint = Mint
  Purse <- MCPurse
  CONTINUATION_AMOUNT = 4
  DUST_THRESHOLD = 3
  MAX_CHAINED_TRANSACTIONS = 3
  Fee = 1
  EstimatedFee = 1
  DustLimit = 2
  AncestorLimit = 3
  MaxFaults = 1
  MaxCrashes = 1
INVARIANTS
  TypeOK
  AnnouncedIsPublished
  TornChainExplained
  FundedIsSpent
  ChainWithinLimits
\* Every run ends.
CHECK_DEADLOCK FALSE
