SPECIFICATION MCRoundSpec
CONSTANTS
    self = self
    v1 = v1
    v2 = v2
    A = A
    B = B
    nil = nil
    NoId = NoId
    p1 = p1
    Own = Own
    Self = self
    Validators = {self, v1, v2}
    PowerOf <- MCPowerOf
    Peers = {p1}
    Ids = {A, nil}
    Nil = nil
    Turns = {}
    Makes = {NoId}
    Verdicts = {"agree"}
    Outcomes = {"inserted"}
    EmptyWaits = 0
    SkipTimeoutCommit = FALSE
    MaxHeight = 1
    MaxRound = 1
    Ballots <- MCOnlyA
    MaxImports = 1
    MaxResets = 0
INVARIANTS SanityChecksHold TimerCoversStep SignerNeverRefuses
CHECK_DEADLOCK FALSE
