SPECIFICATION EncodeSpec
CONSTANTS
  CONTINUATION_AMOUNT = 10000
  MAX_CHAINED_TRANSACTIONS = 25
  DustLimit = 294
  FeeRates = {1, 2, 5, 13, 25, 600}
  Coins = {500, 10500, 1000000}
  SingleWeights = {640, 641}
  FirstWeights = {764, 765}
  NextWeights = {640, 641}
  DUST_THRESHOLD = 546
  MAX_STANDARD_TX_WEIGHT = 7000
  Wallets <- MCWallets
  MaxInputs = 8
  FundingWeights <- MCFundingWeights
  SpendingWeights <- MCSpendingWeights
INVARIANTS
  EncodeTypeOK
  BookkeepingTracks
  FeeNearRate
  AffordableEncodes
  DustComesBack
  FundedIsSpendable
\* encode returns: the run ends there.
CHECK_DEADLOCK FALSE
