CONSTANTS
    v1 = v1
    v2 = v2
    Nil = Nil
    Validators <- MCValidators
    Quorums <- MCQuorums
    Cast <- MCCast
    ForBlock <- MCForBlock
    LateVotes <- MCLateVotes
    MaxRound = 1
    MaxHeight = 3
    MaxLost = 1
    MaxOther = 1
    MaxNet = 1
SPECIFICATION Spec
INVARIANT MarksAreTrue
CHECK_DEADLOCK FALSE
PROPERTIES
    LaggardGetsCommit
    MajorityIsShared
