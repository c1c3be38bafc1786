SPECIFICATION MCAgentSpec
CONSTANTS
    self = self
    v1 = v1
    v2 = v2
    A = A
    B = B
    nil = nil
    NoId = NoId
    p1 = p1
    Own = Own
    Self = self
    Validators = {self, v1, v2}
    PowerOf <- MCPowerOf
    Peers = {p1}
    Ids = {A, nil}
    Nil = nil
    Turns = {0}
    Makes = {A}
    Verdicts = {"agree", "against"}
    Outcomes = {"inserted", "unsent"}
    EmptyWaits = 1
    SkipTimeoutCommit = TRUE
    MaxHeight = 1
    MaxRound = 0
    Ballots <- MCMostlyA
    MaxImports = 1
    MaxResets = 0
PROPERTIES ImplementsVoting NodeWaitsEnd NodeCatchesUp TimeoutEndsItsOwnStep StepsEnd
CHECK_DEADLOCK FALSE
