SPECIFICATION Spec
CONSTANTS
  own = own
  other = other
  Self = own
  Genesis <- MCGenesis
  Committees <- MCCommittees
  FirstNewEpochID = 1
  DposForkPoint = 0
  NewEpochLength = 4
  MaxRedeemHeight = 0
  ElectionPoint = 2
  MinimumCommitteeNumber = 2
  MaxHeight = 12
  MaxLag = 4
  MaxRollback = 2
  MaxRestarts = 1
INVARIANT
  EveryMemberServes
CHECK_DEADLOCK FALSE
