SPECIFICATION MCHandoverSpec
CONSTANTS
  own = own
  other = other
  Self = own
  Genesis <- MCGenesis
  Committees <- MCCommittees
  FirstNewEpochID = 1
  DposForkPoint = 0
  NewEpochLength = 4
  MaxRedeemHeight = 0
  ElectionPoint = 2
  MinimumCommitteeNumber = 2
  MaxHeight = 12
  MaxLag = 4
  MaxRollback = 2
  MaxRestarts = 1
  MaxBlock = 5
  Snail <- MCSnail
  TIP9 = 9
  TIP9Snail = 2
  TriesInMemory = 3
  Retained = 2
  Interval = 1
  MaxCalls = 2
INVARIANTS
  MemberServes
  FirstBlockNamesCommittee
  CacheIsElected
  HeadIsWhole
  NextIsImportable
  FallbackLasts
  QueueIsAccounted
  WorkIsScheduled
PROPERTY
  HeadOnlyGrows
CHECK_DEADLOCK FALSE
