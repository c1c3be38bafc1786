SPECIFICATION MCSpec
CONSTANTS
  c1 = c1
  c2 = c2
  c3 = c3
  f1 = f1
  A = A
  B = B
  Validators = {c1, c2, f1, c3}
  Correct = {c1, c2, c3}
  PowerOf <- MCPowerOf
  Blocks = {A, B}
  Nil = Nil
  Rounds = {0, 1, 2}
  p1 = p1
  p2 = p2
  Peers = {p1, p2}
  Ids = {A, B}
  NoId = NoId
SYMMETRY MCSymmetry
INVARIANTS AgreementInv Agreement SumsCountEachVoterOnce CommitShowsQuorum TwoQuorumsNeedEquivocation
CHECK_DEADLOCK FALSE
