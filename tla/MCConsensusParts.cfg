SPECIFICATION MCMissedSpec
CONSTANTS
    self = self
    v1 = v1
    v2 = v2
    A = A
    B = B
    nil = nil
    NoId = NoId
    p1 = p1
    Own = Own
    Self = self
    Validators = {self, v1, v2}
    PowerOf <- MCPowerOf
    Peers = {p1}
    Ids = {A, B, nil}
    Nil = nil
    Turns = {}
    Makes = {NoId}
    Verdicts = {"agree"}
    Outcomes = {"inserted"}
    EmptyWaits = 0
    SkipTimeoutCommit = FALSE
    MaxHeight = 1
    MaxRound = 1
    Ballots <- MCAnyVote
    MaxImports = 0
    MaxResets = 0
INVARIANTS CommittedPartsMatch
CHECK_DEADLOCK FALSE
