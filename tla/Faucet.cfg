SPECIFICATION FairSpec
CONSTANTS
  w1 = w1
  w2 = w2
  Wallets = {w1, w2}
  Tabs = {t1, t2}
  Cooldown = 2
  Amount = 2
  FLIP_SCALE = 10
  U64 = 256
  ADJECTIVES <- TwoWords
  NOUNS <- TwoWords
  Digest <- SharedDigest
  BareLimit = 2
  SuffixMax = 2
  MIN_SOL_LAMPORTS = 5
  Funds = {60}
  TxFee = 1
  AtaRent = 20
  MaxClock = 2
  MaxMints = 2
  MaxRestarts = 1
  Nobody = Nobody
INVARIANT NamesAreKept
PROPERTIES MintsAreSpaced ClaimsAreReleased
CHECK_DEADLOCK FALSE
