SPECIFICATION FormatsSpec
CONSTANTS
  MAX_OP_RETURN_SIZE = 40
  MIN_LAST_CHUNK_SIZE = 30
  MAX_CHAINED_TRANSACTIONS = 25
  MAX_PUBKEYS_PER_MULTISIG = 20
  DATA_BYTES_PER_PUBKEY = 32
  RealPubkey <- MCRealPubkey
  MaxFile = 1250
  MaxNulls = 2
INVARIANTS
  P2wshRoundTrip
\* The last file is the longest one: the run ends there.
CHECK_DEADLOCK FALSE
