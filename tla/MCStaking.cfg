SPECIFICATION Spec
SYMMETRY MCSymmetry
CONSTANTS
    v1 = v1
    v2 = v2
    d = d
    k = k
    Unset = Unset
    Addresses <- MCAddresses
    Genesis <- MCGenesis
    Keys <- MCKeys
    KeyOf <- MCKeyOf
    Funds <- MCFunds
    Fees = {1}
    Base = 2
    Amounts = {1}
    GenesisStake = 2
    GenesisFee = 0
    ElectionMinLimitForStaking = 1
    CountInEpoch = 2
    ElectionPoint = 1
    TIP9 = 8
    Coin = 4
    Fruits = 3
    FirstNewEpochID = 1
    DposForkPoint = 0
    NewEpochLength = 2
    MaxRedeemHeight = 2
    MaxHeight = 9
    MaxStakes = 1
    MaxRedeems = 3
INVARIANTS
    StakeIsAccounted
    RedeemableIsExact
    RewardIsPaid
PROPERTIES
    CommitteeIsSettled
CHECK_DEADLOCK FALSE
