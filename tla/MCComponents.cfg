SPECIFICATION MCSpec
CONSTANTS
  x1 = x1
  x2 = x2
  w1 = w1
  w2 = w2
  q1 = q1
  u1 = u1
  u2 = u2
  u3 = u3
  A = A
  NoId = NoId
  Own = Own
  Nobody = Nobody
  Heights = {1, 2}
  Rounds = {0, 1}
  Values = {x1, x2}
  Stamps = {t1}
  MaxReleased = 5
  alice = alice
  bob = bob
  Accounts <- MCAccounts
  Txs <- MCTxs
  UserTxs <- MCUserTxs
  Batches <- MCBatches
  Blocks <- MCBlocks
  PriceBump = 10
  AccountSlots = 1
  GlobalSlots = 3
  AccountQueue = 1
  GlobalQueue = 1
  PriceLimit = 10
  GasPrices = {11}
  Low = 10
  High = 20
  MaxBlocks = 2
  MaxForks = 1
  MaxEvents = 2
  MaxCrashes = 1
SYMMETRY MCSymmetry
INVARIANTS
  OneSignaturePerHRS
  CatchUpIsBounded
  ProposerIsAgreed
  TurnsAreFair
  IndexesAgree
  PendingIsExecutable
PROPERTIES
  VotesAreKept
  LocalsAreKept
CHECK_DEADLOCK FALSE
