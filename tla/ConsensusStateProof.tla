------------------------- MODULE ConsensusStateProof -------------------------
(***************************************************************************)
(* The invariants of ConsensusState, for every committee, distribution of  *)
(* power, set of peers and of block ids, and for any number of heights,    *)
(* rounds, messages and resets: the sanity checks never fail, the signer   *)
(* is asked for each step once, a lock rests on a polka, and every step    *)
(* that waits for votes has its timeout armed.                             *)
(***************************************************************************)
EXTENDS ConsensusNodeProof

-----------------------------------------------------------------------------
(* Carrying over *)

\* t is where s is: it differs in the proposal, the last commit, the queue or
\* the block store at most.
SamePlace(s, t) ==
    /\ t.height = s.height /\ t.round = s.round /\ t.step = s.step /\ t.commitRound = s.commitRound
    /\ t.lock = s.lock /\ t.valid = s.valid /\ t.votes = s.votes
    /\ t.timer = s.timer /\ t.signer = s.signer /\ t.refused = s.refused
    /\ t.chain = s.chain /\ t.halt = s.halt

\* What depends on the place of the node only is kept.
LEMMA SamePlaceReady ==
    ASSUME NEW s, Ready(s), Locked(s), NEW t \in Nodes, SamePlace(s, t), PartsOK(t)
    PROVE  Ready(t) /\ Locked(t) /\ (Timely(s) => Timely(t))
<1>1. s \in Nodes /\ s.round \in Nat /\ s.step \in Steps
  BY Zenon DEF Ready, Nodes
<1>2. RoundOK(t) /\ CommitOK(t) /\ SignerOK(t) /\ ChainOK(t) /\ TimerUpTo(t, t.round)
  BY Zenon DEF Ready, Control, SamePlace, RoundOK, CommitOK, SignerOK, ChainOK, TimerUpTo
<1>3. Ready(t)
  BY Zenon, <1>2 DEF Ready, Control, SamePlace, running
<1>4. SameLocks(s, t) /\ t.step >= s.step
  BY <1>1 DEF SamePlace, SameLocks, SameVotes, Steps
<1>5. Locked(t)
  BY Zenon, <1>1, <1>4, LockedCarries
<1>6. Timely(s) => Timely(t)
  BY Zenon DEF SamePlace, Timely, Behind, Covered
<1> QED BY Zenon, <1>3, <1>5, <1>6

\* A step within a round keeps the locks.
LEMMA MovedLocks ==
    ASSUME NEW s \in Nodes, NEW t \in Nodes, Moved(s, t)
    PROVE  SameLocks(s, t) /\ t.votes = s.votes /\ t.round = s.round /\ t.height = s.height
<1>1. t.lock = s.lock /\ t.valid = s.valid /\ t.votes = s.votes /\ t.round = s.round
      /\ t.height = s.height /\ s.round \in Nat
  BY Zenon DEF Moved, Nodes
<1> QED BY <1>1 DEF SameLocks, SameVotes

\* A step within a round keeps what is said of the locks.
LEMMA MovedFine ==
    ASSUME NEW s \in Nodes, Locked(s), NEW t, Sane(t), Moved(s, t), t.step >= s.step
    PROVE  Fine(t)
<1>1. t \in Nodes
  BY Zenon, SaneNode
<1>2. Locked(t)
  BY Zenon, <1>1, MovedLocks, LockedCarries
<1> QED BY Zenon, <1>2 DEF Fine, Locked

\* What Timely asks of the steps that no timeout ends
LEMMA TimelyWithoutTimeout ==
    ASSUME NEW s \in Nodes, NEW t \in Nodes, Behind(s), t.timer = s.timer, t.round = s.round,
           t.height = s.height, t.step \in {4, 6, 8}, t.step >= s.step
    PROVE  Timely(t)
<1>1. s.timer \in Timers /\ s.step \in Steps /\ s.round \in Nat
  BY Zenon DEF Nodes
<1> QED BY <1>1 DEF Timely, Behind, Covered, Timers, Steps, RoundStepNewRound

-----------------------------------------------------------------------------
(* The steps of a node at rest *)

\* enterPrevote of a node at rest
LEMMA PrevoteAtRest ==
    ASSUME NEW s, Ready(s), Locked(s), NEW w \in Worlds, NEW t, t = enterPrevote(s, s.round, w)
    PROVE  Fine(t) /\ (Timely(s) => Timely(t)) /\ Moved(s, t)
           /\ (s.step < 4 => t.step = 4 /\ (Behind(s) => Timely(t))) /\ (s.step >= 4 => t = s)
<1>1. s \in Nodes /\ s.step \in Steps
  BY Zenon DEF Ready, Nodes
<1>2. Sane(t) /\ IF s.step < RoundStepPrevote THEN Enters(s, t, RoundStepPrevote) ELSE t = s
  BY Zenon, EnterPrevote
<1>3. CASE s.step < 4
  <2>1. Moved(s, t) /\ t.step = 4 /\ t.timer = s.timer
    BY Zenon, <1>2, <1>3 DEF Enters, RoundStepPrevote
  <2>2. t.step >= s.step /\ ~(s.step >= 4)
    BY <1>1, <1>3, <2>1 DEF Steps
  <2>3. Fine(t)
    BY Zenon, <1>1, <1>2, <2>1, <2>2, MovedFine
  <2>4. t \in Nodes
    BY Zenon, <1>2, SaneNode
  <2>5. Behind(s) => Timely(t)
    BY Zenon, <1>1, <2>1, <2>2, <2>4, MovedLocks, TimelyWithoutTimeout
  <2> QED BY Zenon, <2>1, <2>2, <2>3, <2>5 DEF Timely
<1>4. CASE s.step >= 4
  <2>1. t = s /\ ~(s.step < 4)
    BY <1>1, <1>2, <1>4 DEF RoundStepPrevote, Steps
  <2>2. Moved(s, s)
    BY Zenon, <1>1 DEF Moved, Nodes
  <2> QED BY Zenon, <2>1, <2>2 DEF Fine, Sane, Locked
<1> QED BY <1>1, <1>3, <1>4 DEF Steps

\* enterNewRound of a node at rest, of any round
LEMMA NewRoundAtRest ==
    ASSUME NEW s, Ready(s), Locked(s), NEW r \in Nat, NEW w \in Worlds,
           NEW t, t = enterNewRound(s, r, w)
    PROVE  /\ Fine(t) /\ (Timely(s) => Timely(t))
           /\ SameVotes(s.votes, t.votes) /\ t.height = s.height
           /\ IF r < s.round \/ (r = s.round /\ s.step # RoundStepNewHeight)
              THEN t = s ELSE NewRound(s, t, r)
<1>1. /\ s \in Nodes /\ running(s) /\ ~s.refused /\ Control(s) /\ TimerUpTo(s, s.round)
      /\ s.round \in Nat /\ s.step \in Steps /\ s.timer \in Timers /\ s.height \in Nat
  BY Zenon DEF Ready, Nodes
<1>2. CASE r < s.round \/ (r = s.round /\ s.step # RoundStepNewHeight)
  <2>1. t = s
    BY Zenon, <1>2 DEF enterNewRound
  <2> QED BY Zenon, <1>2, <2>1 DEF Fine, Sane, Locked, SameVotes
<1>3. CASE ~(r < s.round \/ (r = s.round /\ s.step # RoundStepNewHeight))
  <2>1. r > s.round \/ (r = s.round /\ s.step = RoundStepNewHeight)
    BY <1>1, <1>3
  <2>2. TimerUpTo(s, r)
    BY <1>1, <2>1 DEF TimerUpTo, Timers
  <2>3. Sane(t) /\ NewRound(s, t, r)
    BY Zenon, <1>1, <2>1, <2>2, EnterNewRound
  <2>4. t \in Nodes
    BY Zenon, <2>3, SaneNode
  <2>5. SameLocks(s, t)
    BY <1>1, <2>1, <2>3 DEF SameLocks, NewRound
  <2>6. t.round > s.round \/ t.step >= s.step
    BY <1>1, <2>1, <2>3 DEF NewRound, RoundStepNewHeight
  <2>7. Locked(t)
    BY Zenon, <1>1, <2>4, <2>5, <2>6, LockedCarries
  <2> QED BY Zenon, <1>3, <2>3, <2>7 DEF Fine, Locked, NewRound, Timely
<1> QED BY Zenon, <1>2, <1>3

\* enterPrecommit of a node at rest: its assertion on POLInfo holds, and a
\* round without a polka changes no lock.
LEMMA PrecommitAtRest ==
    ASSUME NEW s, Ready(s), Locked(s), NEW w \in Worlds, NEW t, t = enterPrecommit(s, s.round, w)
    PROVE  Fine(t) /\ (Timely(s) => Timely(t)) /\ t.votes = s.votes /\ t.round = s.round
           /\ t.height = s.height
           /\ t.step >= 6 /\ (s.step >= 6 => t = s) /\ (s.step < 6 /\ Behind(s) => Timely(t))
<1>1. s \in Nodes /\ s.step \in Steps /\ s.round \in Nat /\ running(s) /\ s.votes \in HVSets
  BY Zenon DEF Ready, Nodes
<1>2. CASE s.step < 6
  <2>1. s.step < RoundStepPrecommit /\ polka(s, s.round) = NoId
    BY <1>1, <1>2 DEF Locked, PolkaSeen, RoundStepPrecommit, Steps
  <2>2. LockUpTo(s, s.round)
    <3>1. \A q \in Nat : q < s.round => q < s.round + 1
      BY <1>1
    <3> QED BY Zenon, <3>1 DEF Locked, LockUpTo
  <2>3. Sane(t) /\ Precommitted(s, t) /\ LockUpTo(t, t.round + 1)
    BY Zenon, <2>1, <2>2, EnterPrecommit
  <2>4. t \in Nodes
    BY Zenon, <2>3, SaneNode
  <2>5. t.votes = s.votes /\ t.round = s.round /\ t.height = s.height /\ t.timer = s.timer /\ t.step = 6
    BY Zenon, <2>3 DEF Precommitted, RoundStepPrecommit
  <2>6. Locked(t)
    <3>1. NoPolkaAfter(t, t.round)
      BY Zenon, <2>5 DEF Locked, NoPolkaAfter, polka
    <3>2. PolkaSeen(t)
      BY <2>5 DEF PolkaSeen, RoundStepPrecommit
    <3> QED BY Zenon, <2>3, <3>1, <3>2 DEF Locked
  <2>7. Behind(s) => Timely(t)
    <3>1. t.step >= s.step
      BY <1>1, <1>2, <2>5 DEF Steps
    <3> QED BY Zenon, <1>1, <2>4, <2>5, <3>1, TimelyWithoutTimeout
  <2>8. ~(s.step >= 6) /\ t.step >= 6
    BY <1>1, <1>2, <2>5 DEF Steps
  <2> QED BY Zenon, <2>3, <2>5, <2>6, <2>7, <2>8 DEF Fine, Locked, Timely
<1>3. CASE s.step >= 6
  <2>1. t = s
    BY <1>1, <1>3 DEF enterPrecommit, mayEnter, RoundStepPrecommit, Steps
  <2>2. ~(s.step < 6)
    BY <1>1, <1>3 DEF Steps
  <2> QED BY Zenon, <1>3, <2>1, <2>2 DEF Fine, Sane, Locked
<1> QED BY <1>1, <1>2, <1>3 DEF Steps

\* A node that has halted does nothing.
LEMMA HaltedStays ==
    ASSUME NEW s, ~running(s), NEW r, NEW w
    PROVE  /\ enterNewRound(s, r, w) = s /\ enterPrevote(s, r, w) = s /\ enterPrecommit(s, r, w) = s
           /\ enterPrevoteWait(s, r) = s /\ enterPrecommitWait(s, r) = s /\ enterCommit(s, r, w) = s
<1>1. ~mayEnter(s, r, RoundStepPrevote) /\ ~mayEnter(s, r, RoundStepPrevoteWait)
      /\ ~mayEnter(s, r, RoundStepPrecommit) /\ ~mayEnter(s, r, RoundStepPrecommitWait)
  BY Zenon DEF mayEnter
<1>2. enterNewRound(s, r, w) = s
  BY Zenon DEF enterNewRound
<1>3. enterCommit(s, r, w) = s
  BY Zenon DEF enterCommit
<1>4. enterPrevote(s, r, w) = s /\ enterPrecommit(s, r, w) = s
  BY Zenon, <1>1 DEF enterPrevote, enterPrecommit
<1>5. enterPrevoteWait(s, r) = s /\ enterPrecommitWait(s, r) = s
  BY Zenon, <1>1 DEF enterPrevoteWait, enterPrecommitWait
<1> QED BY Zenon, <1>2, <1>3, <1>4, <1>5

\* A node at rest that has not halted
LEMMA FineRunning ==
    ASSUME NEW s, Fine(s)
    PROVE  s \in Nodes /\ (running(s) => Ready(s) /\ Locked(s))
BY Zenon, SaneNode DEF Fine

\* enterCommit of a node at rest
LEMMA CommitAtRest ==
    ASSUME NEW s, Ready(s), Locked(s), NEW r \in Nat, NEW w \in Worlds, ParentsAreThere,
           HasTwoThirdsMajority(Precommits(s.votes, r)), NEW t, t = enterCommit(s, r, w)
    PROVE  Fine(t) /\ (Timely(s) /\ running(t) => Timely(t))
<1>1. s.step \in Steps
  BY Zenon DEF Ready, Nodes
<1>2. CASE s.step < RoundStepCommit
  BY Zenon, <1>2, EnterCommit DEF Timely
<1>3. CASE ~(s.step < RoundStepCommit)
  <2>1. t = s
    BY <1>1, <1>3 DEF enterCommit, RoundStepCommit, Steps
  <2> QED BY Zenon, <2>1 DEF Fine, Sane, Locked
<1> QED BY Zenon, <1>2, <1>3

-----------------------------------------------------------------------------
(* Proposals and block parts *)

\* setProposal (defaultSetProposal)
LEMMA SetProposal ==
    ASSUME NEW s, Ready(s), Locked(s), NEW m \in ProposalMsgs, NEW t, t = setProposal(s, m)
    PROVE  Fine(t) /\ (Timely(s) => Timely(t))
<1>1. s \in Nodes /\ s.step \in Steps /\ PartsOK(s) /\ s.pblock \in AnyId
  BY Zenon DEF Ready, Nodes, Control
<1>2. CASE t = s
  BY Zenon, <1>2 DEF Fine, Sane, Locked
<1>3. CASE s.proposal = NoProposal
           /\ t = [s EXCEPT !.proposal = [block |-> m.block, pol |-> m.pol], !.parts = PartsOf(m.block)]
  <2> DEFINE prop == [block |-> m.block, pol |-> m.pol]
             parts == PartsOf(m.block)
  <2>1. prop \in Proposals /\ parts \in PartSets
    BY Zenon DEF ProposalMsgs, Proposals, PartSets, PartsOf
  <2>2. prop = NoProposal => parts = NoParts
    BY Zenon DEF NoProposal, NoParts, PartsOf
  <2> HIDE DEF prop, parts
  <2>3. t = [s EXCEPT !.proposal = prop, !.parts = parts]
    BY Zenon, <1>3 DEF prop, parts
  <2>4. t \in Nodes
    BY Zenon, <1>1, <2>1, <2>3 DEF Nodes
  <2>5. SamePlace(s, t) /\ t.proposal = prop /\ t.parts = parts /\ t.pblock = s.pblock
    BY Zenon, <1>1, <2>3 DEF Nodes, SamePlace
  <2>6. PartsOK(t)
    BY Zenon, <1>1, <1>3, <2>2, <2>5 DEF PartsOK, SamePlace
  <2> QED BY Zenon, <2>4, <2>5, <2>6, SamePlaceReady DEF Fine, Sane, Locked
<1> QED BY Zenon, <1>2, <1>3 DEF setProposal

\* u is s with another lock or another valid block.
Revalued(s, u) == u = [s EXCEPT !.lock = u.lock, !.valid = u.valid]

\* Another lock or valid block changes nothing else.
LEMMA RevaluedReady ==
    ASSUME NEW s, Ready(s), NEW u \in Nodes, Revalued(s, u)
    PROVE  /\ Ready(u) /\ (Timely(s) => Timely(u)) /\ (Behind(s) => Behind(u))
           /\ u.round = s.round /\ u.votes = s.votes /\ u.step = s.step /\ u.height = s.height
           /\ u.timer = s.timer /\ u.pblock = s.pblock /\ u.commitRound = s.commitRound
<1>1. /\ s \in Nodes /\ running(s) /\ ~s.refused /\ Control(s) /\ TimerUpTo(s, s.round)
  BY Zenon DEF Ready
<1>2. /\ u.height = s.height /\ u.round = s.round /\ u.step = s.step /\ u.commitRound = s.commitRound
      /\ u.proposal = s.proposal /\ u.pblock = s.pblock /\ u.parts = s.parts /\ u.votes = s.votes
      /\ u.timer = s.timer /\ u.signer = s.signer /\ u.refused = s.refused
      /\ u.chain = s.chain /\ u.halt = s.halt
  BY Zenon, <1>1 DEF Revalued, Nodes
<1>3. Control(u) /\ TimerUpTo(u, u.round)
  BY Zenon, <1>1, <1>2 DEF Control, RoundOK, CommitOK, SignerOK, PartsOK, ChainOK, TimerUpTo
<1> QED BY Zenon, <1>1, <1>2, <1>3 DEF Ready, running, Timely, Behind, Covered

\* Valid* is set with the polka of its round.
ValidSet(s, u, r) ==
    /\ u \in Nodes /\ Revalued(s, u) /\ u.lock = s.lock
    /\ u.valid = s.valid
         \/ (r =< s.round /\ u.valid.round = r /\ u.valid.block = polka(s, r))

\* validOn sets Valid* to the block of a polka or leaves it alone.
LEMMA ValidOn ==
    ASSUME NEW s \in Nodes, NEW r \in Nat, NEW u, u = validOn(s, r, polka(s, r))
    PROVE  ValidSet(s, u, r)
<1> DEFINE val == [round |-> r, block |-> s.pblock, parts |-> s.parts]
<1>1. val \in Locks /\ val.round = r /\ val.block = s.pblock
  BY Zenon DEF Nodes, Locks
<1> HIDE DEF val
<1>2. u = s \/ (u = [s EXCEPT !.valid = val] /\ r =< s.round /\ s.pblock = polka(s, r))
  BY Zenon DEF validOn, val
<1>3. CASE u = s
  BY Zenon, <1>3 DEF Nodes, Revalued, ValidSet
<1>4. CASE u = [s EXCEPT !.valid = val] /\ r =< s.round /\ s.pblock = polka(s, r)
  <2>1. u \in Nodes
    BY Zenon, <1>1, <1>4 DEF Nodes
  <2>2. u.lock = s.lock /\ u.valid = val
    BY Zenon, <1>4 DEF Nodes
  <2>3. u = [s EXCEPT !.lock = u.lock, !.valid = u.valid]
    BY Zenon, <1>4, <2>2 DEF Nodes
  <2> QED BY Zenon, <1>1, <1>4, <2>1, <2>2, <2>3 DEF Revalued, ValidSet
<1> QED BY Zenon, <1>2, <1>3, <1>4

\* With Valid* so set the locks are as they were.
LEMMA ValidSetLocks ==
    ASSUME NEW s, Ready(s), NEW n, LockUpTo(s, n), NEW r \in Nat, NEW u, ValidSet(s, u, r)
    PROVE  Ready(u) /\ LockUpTo(u, n) /\ (Locked(s) => Locked(u))
<1>1. Ready(u) /\ u.round = s.round /\ u.votes = s.votes /\ u.step = s.step /\ u.lock = s.lock
  BY Zenon, RevaluedReady DEF ValidSet
<1>2. \A q : polka(u, q) = polka(s, q)
  BY Zenon, <1>1 DEF polka
<1>3. ASSUME NEW k, LockUpTo(s, k) PROVE LockUpTo(u, k)
  BY Zenon, <1>1, <1>2, <1>3 DEF LockUpTo, ValidSet
<1> QED BY Zenon, <1>1, <1>2, <1>3 DEF Locked, NoPolkaAfter, PolkaSeen

\* A part set with its last part
LEMMA DoneParts ==
    ASSUME NEW p \in PartSets
    PROVE  /\ [p EXCEPT !.done = TRUE] = [block |-> p.block, done |-> TRUE]
           /\ [block |-> p.block, done |-> TRUE] \in PartSets /\ p.block \in AnyId
<1>1. [block |-> p.block, done |-> TRUE] \in PartSets /\ p.block \in AnyId
  BY Zenon DEF PartSets
<1>2. ASSUME NEW b PROVE [p EXCEPT !.done = b] = [block |-> p.block, done |-> b]
  BY DEF PartSets
<1>3. [p EXCEPT !.done = TRUE] = [block |-> p.block, done |-> TRUE]
  BY Zenon, <1>2
<1> QED BY Zenon, <1>1, <1>3

\* The last missing part is there.
LEMMA CompletedReady ==
    ASSUME NEW s, Ready(s), Locked(s), s.parts # NoParts, s.parts.block # NoId,
           NEW t, t = [s EXCEPT !.parts.done = TRUE, !.pblock = s.parts.block]
    PROVE  Ready(t) /\ Locked(t) /\ (Timely(s) => Timely(t))
<1>1. s \in Nodes /\ PartsOK(s) /\ s.parts \in PartSets
  BY Zenon DEF Ready, Nodes, Control
<1>2. [s.parts EXCEPT !.done = TRUE] \in PartSets /\ s.parts.block \in AnyId
      /\ [s.parts EXCEPT !.done = TRUE] = [block |-> s.parts.block, done |-> TRUE]
  BY Zenon, <1>1, DoneParts
<1>3. t \in Nodes
  BY Zenon, <1>1, <1>2 DEF Nodes
<1>4. SamePlace(s, t) /\ t.proposal = s.proposal /\ t.pblock = s.parts.block
      /\ t.parts = [block |-> t.pblock, done |-> TRUE]
  BY Zenon, <1>1, <1>2 DEF Nodes, SamePlace
<1>5. PartsOK(t)
  BY Zenon, <1>1, <1>4 DEF PartsOK, SamePlace
<1> QED BY Zenon, <1>3, <1>4, <1>5, SamePlaceReady

\* addProposalBlockPart with the last missing part, and where it leads
LEMMA BlockCompleted ==
    ASSUME NEW s, Ready(s), Locked(s), s.parts # NoParts, ~s.parts.done, s.parts.block # NoId,
           NEW w \in Worlds, ParentsAreThere, NEW x, x = blockCompleted(s, w)
    PROVE  Fine(x) /\ (Timely(s) /\ running(x) => Timely(x))
<1> DEFINE t == [s EXCEPT !.parts.done = TRUE, !.pblock = s.parts.block]
           u == validOn(t, t.round, TwoThirdsMajority(Prevotes(t.votes, t.round)))
<1>1. x = IF u.step =< RoundStepPropose /\ isProposalComplete(u) THEN enterPrevote(u, u.round, w)
          ELSE IF u.step = RoundStepCommit THEN tryFinalizeCommit(u, w)
          ELSE u
  BY Zenon DEF blockCompleted
<1>2. Ready(t) /\ Locked(t) /\ (Timely(s) => Timely(t))
  BY Zenon, CompletedReady
<1> HIDE DEF t
<1>3. t \in Nodes /\ t.round \in Nat
  BY Zenon, <1>2 DEF Ready, Nodes
<1>4. ValidSet(t, u, t.round)
  <2>1. u = validOn(t, t.round, polka(t, t.round))
    BY Zenon DEF polka
  <2> QED BY Zenon, <1>3, <2>1, ValidOn
<1> HIDE DEF u
<1>5. Ready(u) /\ Locked(u) /\ (Timely(t) => Timely(u))
  BY <1>2, <1>3, <1>4, ValidSetLocks, RevaluedReady DEF Locked, ValidSet
<1>6. CASE u.step =< RoundStepPropose /\ isProposalComplete(u)
  <2>1. x = enterPrevote(u, u.round, w)
    BY Zenon, <1>1, <1>6
  <2> QED BY Zenon, <1>2, <1>5, <2>1, PrevoteAtRest
<1>7. CASE u.step = RoundStepCommit /\ x = tryFinalizeCommit(u, w)
  BY Zenon, <1>2, <1>5, <1>7, TryFinalizeCommit DEF Timely
<1>8. CASE x = u
  BY Zenon, <1>2, <1>5, <1>8 DEF Fine, Sane, Locked
<1> QED BY Zenon, <1>1, <1>6, <1>7, <1>8

\* addProposalBlockPart: a nil part is a panic.
LEMMA AddProposalBlockPart ==
    ASSUME NEW s, Ready(s), Locked(s), NEW m \in PartMsgs, NEW w \in Worlds, ParentsAreThere,
           NEW t, t = addProposalBlockPart(s, m, w)
    PROVE  Fine(t) /\ (Timely(s) /\ running(t) => Timely(t))
<1>1. s \in Nodes /\ s.round \in Nat
  BY Zenon DEF Ready, Nodes
<1>2. CASE t = s
  BY Zenon, <1>2 DEF Fine, Sane, Locked
<1>3. CASE t = panic(s, "nil part")
  <2>1. t = [s EXCEPT !.halt = "nil part"]
    BY Zenon, <1>3 DEF panic
  <2>2. t \in Nodes
    <3>1. "nil part" \in Halts
      BY Zenon DEF Halts
    <3> QED BY Zenon, <1>1, <2>1, <3>1 DEF Nodes
  <2>3. t.round = s.round /\ t.lock = s.lock /\ t.valid = s.valid /\ t.votes = s.votes
    BY Zenon, <1>1, <2>1 DEF Nodes
  <2>7. t.refused = s.refused
    BY Zenon, <1>1, <2>1 DEF Nodes
  <2>4. SameLocks(s, t)
    BY <1>1, <2>3 DEF SameLocks, SameVotes
  <2>5. LockUpTo(t, t.round + 1)
    BY <1>1, <2>2, <2>3, <2>4, LocksCarry DEF Locked
  <2>6. ~running(t)
    BY Zenon, <1>1, <2>1 DEF running, Nodes
  <2> QED BY Zenon, <2>2, <2>5, <2>6, <2>7 DEF Ready, Fine, Sane, Halted
<1>4. CASE /\ s.parts # NoParts /\ m.block # NoId /\ m.block = s.parts.block /\ ~s.parts.done
           /\ t = blockCompleted(s, w)
  BY Zenon, <1>4, BlockCompleted
<1> QED BY Zenon, <1>2, <1>3, <1>4 DEF addProposalBlockPart

-----------------------------------------------------------------------------
(* Votes *)

\* A precommit of the height before is added to the last commit.
LEMMA LateVoteReady ==
    ASSUME NEW s, Ready(s), Locked(s), NEW m \in VoteMsgs, s.lastCommit # NoId, NEW t,
           t = [s EXCEPT !.lastCommit.set = addVote(s.lastCommit.set, m.v, ballot(m))]
    PROVE  Ready(t) /\ Locked(t) /\ (Timely(s) => Timely(t))
<1> DEFINE set == s.lastCommit.set
           new == addVote(set, m.v, ballot(m))
<1>1. s \in Nodes /\ PartsOK(s) /\ s.lastCommit \in Commits
  BY Zenon DEF Ready, Nodes, Control
<1>2. s.lastCommit \in [round : Nat, set : GoodSets]
  BY Zenon, <1>1 DEF Commits
<1>3. VoteSetInv(set)
  BY Zenon, <1>2 DEF GoodSets
<1>4. m.v \in Validators /\ ballot(m) \in [id : Ids, res : Results]
  BY Zenon DEF VoteMsgs, ballot
<1>5. new \in GoodSets
  <2>1. VoteSetInv(new)
    BY Zenon, <1>3, <1>4, VoteKeepsInv
  <2> QED BY Zenon, <2>1 DEF VoteSetInv, GoodSets
<1>6. t = [s EXCEPT !.lastCommit.set = new]
  BY Zenon
<1> HIDE DEF new
<1>7. [s.lastCommit EXCEPT !.set = new] \in Commits
  BY Zenon, <1>2, <1>5 DEF Commits
<1>8. t \in Nodes
  BY Zenon, <1>1, <1>6, <1>7 DEF Nodes
<1>9. SamePlace(s, t) /\ t.proposal = s.proposal /\ t.pblock = s.pblock /\ t.parts = s.parts
  BY Zenon, <1>1, <1>6 DEF Nodes, SamePlace
<1>10. PartsOK(t)
  BY Zenon, <1>1, <1>9 DEF PartsOK, SamePlace
<1> QED BY Zenon, <1>8, <1>9, <1>10, SamePlaceReady

\* addVote of a precommit of the height before
LEMMA LateCommitVote ==
    ASSUME NEW s, Ready(s), Locked(s), NEW m \in VoteMsgs, NEW w \in Worlds,
           NEW x, x = lateCommitVote(s, m, w)
    PROVE  Fine(x) /\ (Timely(s) => Timely(x))
<1> DEFINE t == [s EXCEPT !.lastCommit.set = addVote(s.lastCommit.set, m.v, ballot(m))]
<1>1. x = s \/ (s.lastCommit # NoId /\ x \in {t, enterNewRound(t, 0, w)})
  BY Zenon DEF lateCommitVote
<1>2. CASE x = s
  BY Zenon, <1>2 DEF Fine, Sane, Locked
<1>3. CASE s.lastCommit # NoId /\ x \in {t, enterNewRound(t, 0, w)}
  <2>1. Ready(t) /\ Locked(t) /\ (Timely(s) => Timely(t))
    <3>1. s.lastCommit # NoId
      BY Zenon, <1>3
    <3> QED BY Zenon, <3>1, LateVoteReady
  <2> HIDE DEF t
  <2>2. CASE x = t
    BY Zenon, <2>1, <2>2 DEF Fine, Sane, Locked
  <2>3. CASE x = enterNewRound(t, 0, w)
    <3>1. 0 \in Nat
      BY Zenon
    <3> QED BY Zenon, <2>1, <2>3, <3>1, NewRoundAtRest
  <2> QED BY Zenon, <1>3, <2>2, <2>3
<1> QED BY Zenon, <1>1, <1>2, <1>3

\* t is s with the vote sets g.
LEMMA VotesArrive ==
    ASSUME NEW s, Ready(s), NEW g \in HVSets, g.round = s.votes.round,
           \A q \in Nat : HasTwoThirdsMajority(Precommits(s.votes, q)) => HasTwoThirdsMajority(Precommits(g, q)),
           NEW t, t = [s EXCEPT !.votes = g]
    PROVE  /\ Ready(t) /\ (Timely(s) => Timely(t))
           /\ t.votes = g /\ t.round = s.round /\ t.step = s.step /\ t.height = s.height
           /\ t.lock = s.lock /\ t.valid = s.valid
<1>1. s \in Nodes /\ running(s) /\ ~s.refused /\ Control(s) /\ TimerUpTo(s, s.round)
      /\ s.commitRound \in Nat \cup {-1}
  BY Zenon DEF Ready, Nodes
<1>2. t \in Nodes
  BY Zenon, <1>1 DEF Nodes
<1>3. /\ t.height = s.height /\ t.round = s.round /\ t.step = s.step /\ t.commitRound = s.commitRound
      /\ t.proposal = s.proposal /\ t.pblock = s.pblock /\ t.parts = s.parts
      /\ t.lock = s.lock /\ t.valid = s.valid /\ t.votes = g
      /\ t.timer = s.timer /\ t.signer = s.signer /\ t.refused = s.refused
      /\ t.chain = s.chain /\ t.halt = s.halt
  BY Zenon, <1>1 DEF Nodes
<1>4. RoundOK(t)
  BY Zenon, <1>1, <1>3 DEF Control, RoundOK
<1>5. CommitOK(t)
  <2>1. CommitOK(s)
    BY Zenon, <1>1 DEF Control
  <2>2. CASE s.commitRound \in Nat
    BY Zenon, <1>3, <2>1, <2>2 DEF CommitOK
  <2>3. CASE s.commitRound = -1
    BY <1>3, <2>3 DEF CommitOK
  <2> QED BY Zenon, <1>1, <2>2, <2>3
<1>6. SignerOK(t) /\ PartsOK(t) /\ ChainOK(t) /\ TimerUpTo(t, t.round)
  BY Zenon, <1>1, <1>3 DEF Control, SignerOK, PartsOK, ChainOK, TimerUpTo
<1>7. Ready(t)
  BY Zenon, <1>1, <1>2, <1>3, <1>4, <1>5, <1>6 DEF Ready, Control, running
<1>8. Timely(s) => Timely(t)
  BY Zenon, <1>3 DEF Timely, Behind, Covered
<1> QED BY Zenon, <1>3, <1>7, <1>8

-----------------------------------------------------------------------------
(* A prevote of round r has been added *)

\* What the locks satisfy when the prevotes of round r have just changed
LockedBut(s, r) ==
    /\ s.lock.block # NoId =>
        /\ s.lock.round =< s.round
        /\ polka(s, s.lock.round) = s.lock.block
        /\ s.lock.parts = [block |-> s.lock.block, done |-> TRUE]
        /\ \A q \in Nat : s.lock.round < q /\ q =< s.round /\ q # r => polka(s, q) \in {NoId, s.lock.block}
    /\ s.valid.block # NoId =>
        /\ s.valid.round =< s.round
        /\ polka(s, s.valid.round) = s.valid.block
    /\ \A q \in Nat : q > s.round /\ q # r => polka(s, q) = NoId
    /\ r # s.round => PolkaSeen(s)

\* If the votes of round r make no polka nothing is left to do.
LEMMA LockedWithoutPolka ==
    ASSUME NEW s \in Nodes, NEW r \in Nat, LockedBut(s, r), polka(s, r) = NoId
    PROVE  Locked(s)
<1>1. s.round \in Nat /\ s.lock \in Locks
  BY Zenon DEF Nodes
<1>2. LockUpTo(s, s.round + 1)
  <2>1. \A q \in Nat : q < s.round + 1 => q =< s.round
    BY <1>1
  <2> QED BY Zenon, <2>1 DEF LockedBut, LockUpTo
<1> QED BY Zenon, <1>1, <1>2 DEF LockedBut, Locked, NoPolkaAfter, PolkaSeen

\* A polka of a round reached releases a lock on something else.
LEMMA Released ==
    ASSUME NEW s, Ready(s), NEW r \in Nat, LockedBut(s, r), r =< s.round, NEW id,
           id = polka(s, r), id # NoId, NEW u, u = validOn(lockReleased(s, r, id), r, id)
    PROVE  /\ Ready(u) /\ (Timely(s) => Timely(u)) /\ (Behind(s) => Behind(u)) /\ u.votes = s.votes
           /\ u.round = s.round /\ u.step = s.step /\ u.height = s.height /\ u.timer = s.timer
           /\ LockUpTo(u, u.round + 1)
           /\ NoPolkaAfter(u, u.round)
           /\ r # u.round => PolkaSeen(u)
<1> DEFINE v == lockReleased(s, r, id)
<1>1. s \in Nodes /\ s.round \in Nat /\ s.lock \in Locks /\ s.valid \in Locks
  BY Zenon DEF Ready, Nodes
<1>2. v = s \/ (v = unlocked(s) /\ s.lock.round < r)
  BY Zenon DEF lockReleased
<1>3. v = s => s.lock.block \in {NoId, id} \/ s.lock.round >= r
  <2>1. CASE s.lock.block \in {NoId, id} \/ s.lock.round >= r
    BY Zenon, <2>1
  <2>2. CASE ~(s.lock.block \in {NoId, id} \/ s.lock.round >= r)
    <3>1. v = unlocked(s)
      BY <1>1, <2>2 DEF lockReleased, Locks
    <3>2. unlocked(s).lock.block = NoId
      BY Zenon, <1>1 DEF unlocked, Unset, Nodes
    <3> QED BY Zenon, <2>2, <3>1, <3>2
  <2> QED BY Zenon, <2>1, <2>2
<1> HIDE DEF v
<1>4. v \in Nodes /\ Revalued(s, v) /\ v.valid = s.valid
      /\ ((v.lock = s.lock /\ (s.lock.block \in {NoId, id} \/ s.lock.round >= r)) \/ v.lock.block = NoId)
  <2>1. CASE v = s
    BY Zenon, <1>1, <1>3, <2>1 DEF Revalued, Nodes
  <2>2. CASE v = unlocked(s)
    <3>1. v = [s EXCEPT !.lock = Unset] /\ Unset \in Locks /\ Unset.block = NoId
      BY Zenon, <2>2 DEF unlocked, Unset, Locks, NoParts, PartSets, AnyId
    <3>2. v \in Nodes /\ v.lock = Unset /\ v.valid = s.valid
      BY Zenon, <1>1, <3>1 DEF Nodes
    <3>3. v = [s EXCEPT !.lock = v.lock, !.valid = v.valid]
      BY Zenon, <1>1, <3>1, <3>2 DEF Nodes
    <3> QED BY Zenon, <3>1, <3>2, <3>3 DEF Revalued
  <2> QED BY Zenon, <1>2, <2>1, <2>2
<1>5. /\ Ready(v) /\ (Timely(s) => Timely(v)) /\ (Behind(s) => Behind(v))
      /\ v.round = s.round /\ v.votes = s.votes /\ v.step = s.step /\ v.height = s.height
      /\ v.timer = s.timer
  BY Zenon, <1>4, RevaluedReady
<1>6. \A q : polka(v, q) = polka(s, q)
  BY Zenon, <1>5 DEF polka
<1>7. LockUpTo(v, v.round + 1)
  <2>1. \A q \in Nat : q < v.round + 1 => q =< s.round
    BY <1>1, <1>5
  <2>2. ASSUME v.lock.block # NoId
        PROVE  /\ v.lock.round =< v.round
               /\ polka(v, v.lock.round) = v.lock.block
               /\ v.lock.parts = [block |-> v.lock.block, done |-> TRUE]
               /\ \A q \in Nat : v.lock.round < q /\ q < v.round + 1 => polka(v, q) \in {NoId, v.lock.block}
    <3>1. v.lock = s.lock /\ (s.lock.block = id \/ s.lock.round >= r)
      BY Zenon, <1>4, <2>2
    <3>2. /\ v.lock.round =< v.round
          /\ polka(v, v.lock.round) = v.lock.block
          /\ v.lock.parts = [block |-> v.lock.block, done |-> TRUE]
      BY Zenon, <1>5, <1>6, <2>2, <3>1 DEF LockedBut
    <3>3. ASSUME NEW q \in Nat, v.lock.round < q, q < v.round + 1
          PROVE  polka(v, q) \in {NoId, v.lock.block}
      <4>1. CASE q # r
        BY Zenon, <1>5, <1>6, <2>1, <2>2, <3>1, <3>3, <4>1 DEF LockedBut
      <4>2. CASE q = r
        <5>1. s.lock.round \in Nat
          BY Zenon, <1>1 DEF Locks
        <5>2. s.lock.block = id
          BY <3>1, <3>3, <4>2, <5>1
        <5> QED BY Zenon, <1>6, <3>1, <4>2, <5>2
      <4> QED BY Zenon, <4>1, <4>2
    <3> QED BY Zenon, <3>2, <3>3
  <2>3. v.valid.block # NoId => v.valid.round =< v.round /\ polka(v, v.valid.round) = v.valid.block
    BY Zenon, <1>4, <1>5, <1>6 DEF LockedBut
  <2> QED BY Zenon, <2>2, <2>3 DEF LockUpTo
<1>8. ValidSet(v, u, r)
  <2>1. u = validOn(v, r, polka(v, r))
    BY Zenon, <1>6 DEF v
  <2> QED BY Zenon, <1>4, <2>1, ValidOn
<1>9. Ready(u) /\ LockUpTo(u, v.round + 1)
  BY Zenon, <1>5, <1>7, <1>8, ValidSetLocks
<1>10. /\ (Timely(v) => Timely(u)) /\ (Behind(v) => Behind(u)) /\ u.round = v.round /\ u.votes = v.votes
       /\ u.step = v.step /\ u.height = v.height /\ u.timer = v.timer
  BY <1>5, <1>8, RevaluedReady DEF ValidSet
<1>11. \A q : polka(u, q) = polka(s, q)
  BY Zenon, <1>5, <1>10 DEF polka
<1>12. NoPolkaAfter(u, u.round)
  BY <1>1, <1>5, <1>10, <1>11 DEF LockedBut, NoPolkaAfter
<1>13. r # u.round => PolkaSeen(u)
  BY Zenon, <1>5, <1>10, <1>11 DEF LockedBut, PolkaSeen
<1> QED BY Zenon, <1>5, <1>9, <1>10, <1>12, <1>13

\* With the locks up to date the precommit of the round finds no conflict.
LEMMA PrecommitOnPolka ==
    ASSUME NEW s, Ready(s), LockUpTo(s, s.round), NoPolkaAfter(s, s.round),
           LockUpTo(s, s.round + 1) \/ s.pblock = NoId, s.step < 6, NEW w \in Worlds,
           NEW t, t = enterPrecommit(s, s.round, w)
    PROVE  Fine(t) /\ (Behind(s) => Timely(t))
<1>1. s \in Nodes /\ s.round \in Nat /\ s.step \in Steps /\ s.lock \in Locks
  BY Zenon DEF Ready, Nodes
<1>2. s.lock.block \notin {NoId, polka(s, s.round)} /\ polka(s, s.round) # NoId => s.pblock = NoId
  <2>1. CASE LockUpTo(s, s.round + 1)
    <3>1. s.lock.block # NoId => s.lock.round = s.round \/ (s.lock.round < s.round /\ s.round < s.round + 1)
      BY <1>1, <2>1 DEF LockUpTo, Locks
    <3>2. s.lock.block # NoId => polka(s, s.round) \in {NoId, s.lock.block}
      BY Zenon, <1>1, <2>1, <3>1 DEF LockUpTo
    <3> QED BY Zenon, <3>2
  <2> QED BY Zenon, <2>1
<1>3. s.step < RoundStepPrecommit
  BY Zenon DEF RoundStepPrecommit
<1>4. Sane(t) /\ Precommitted(s, t) /\ LockUpTo(t, t.round + 1)
  BY Zenon, <1>2, <1>3, EnterPrecommit
<1>5. t \in Nodes
  BY Zenon, <1>4, SaneNode
<1>6. t.votes = s.votes /\ t.round = s.round /\ t.height = s.height /\ t.timer = s.timer /\ t.step = 6
  BY Zenon, <1>4 DEF Precommitted, RoundStepPrecommit
<1>7. Locked(t)
  <2>1. NoPolkaAfter(t, t.round)
    BY Zenon, <1>6 DEF NoPolkaAfter, polka
  <2>2. PolkaSeen(t)
    BY <1>6 DEF PolkaSeen, RoundStepPrecommit
  <2> QED BY Zenon, <1>4, <2>1, <2>2 DEF Locked
<1>8. Behind(s) => Timely(t)
  <2>1. t.step >= s.step
    BY <1>1, <1>6 DEF Steps
  <2> QED BY Zenon, <1>1, <1>5, <1>6, <2>1, TimelyWithoutTimeout
<1> QED BY Zenon, <1>4, <1>7, <1>8 DEF Fine, Locked

\* No majority yet: enterPrevote and enterPrevoteWait, or nothing
LEMMA PrevotesWithoutPolka ==
    ASSUME NEW s, Ready(s), Locked(s), NEW r \in Nat, s.round =< r, NEW w \in Worlds,
           HasTwoThirdsAny(Prevotes(s.votes, r)),
           NEW t, t = enterPrevoteWait(enterPrevote(enterNewRound(s, r, w), r, w), r)
    PROVE  Fine(t) /\ (Timely(s) => Timely(t))
<1> DEFINE n == enterNewRound(s, r, w)
           p == enterPrevote(n, r, w)
<1>1. s \in Nodes /\ s.round \in Nat
  BY Zenon DEF Ready, Nodes
<1>2. /\ Fine(n) /\ (Timely(s) => Timely(n)) /\ SameVotes(s.votes, n.votes)
      /\ IF r < s.round \/ (r = s.round /\ s.step # RoundStepNewHeight) THEN n = s ELSE NewRound(s, n, r)
  BY Zenon, NewRoundAtRest
<1>3. n.round = r
  BY <1>1, <1>2 DEF NewRound
<1>4. HasTwoThirdsAny(Prevotes(n.votes, r))
  BY Zenon, <1>2 DEF SameVotes, Prevotes, Kinds
<1> HIDE DEF n
<1>5. CASE ~running(n)
  <2>1. t = n
    BY <1>5, HaltedStays DEF n
  <2> QED BY Zenon, <1>2, <2>1
<1>6. CASE running(n)
  <2>1. Ready(n) /\ Locked(n) /\ n \in Nodes
    BY Zenon, <1>2, <1>6, FineRunning
  <2>2. Fine(p) /\ (Timely(n) => Timely(p)) /\ Moved(n, p)
    BY Zenon, <1>3, <2>1, PrevoteAtRest
  <2> HIDE DEF p
  <2>3. p \in Nodes
    BY Zenon, <2>2, FineRunning
  <2>4. p.votes = n.votes /\ p.round = r
    BY Zenon, <1>3, <2>1, <2>2, <2>3, MovedLocks
  <2>5. t = enterPrevoteWait(p, r)
    BY Zenon DEF n, p
  <2>6. CASE ~running(p)
    <3>1. t = p
      BY Zenon, <2>5, <2>6, HaltedStays
    <3> QED BY Zenon, <1>2, <2>2, <3>1
  <2>7. CASE running(p)
    <3>1. Ready(p) /\ Locked(p) /\ p.step \in Steps
      BY Zenon, <2>2, <2>3, <2>7, FineRunning DEF Nodes
    <3>2. /\ Ready(t) /\ Moved(p, t)
          /\ IF p.step < RoundStepPrevoteWait
             THEN t.step = RoundStepPrevoteWait /\ (Behind(p) => Timely(t)) ELSE t = p
      BY <1>4, <2>4, <2>5, <3>1, EnterPrevoteWait
    <3>3. t.step >= p.step
      BY <3>1, <3>2 DEF RoundStepPrevoteWait, Steps
    <3>4. Sane(t)
      BY Zenon, <3>2 DEF Sane
    <3>5. Fine(t)
      BY Zenon, <2>3, <3>1, <3>2, <3>3, <3>4, MovedFine
    <3> QED BY Zenon, <1>2, <2>2, <3>2, <3>5 DEF Timely
  <2> QED BY Zenon, <2>6, <2>7
<1> QED BY Zenon, <1>5, <1>6

\* A polka of a later round: the node goes there and precommits.
LEMMA PolkaOfLaterRound ==
    ASSUME NEW s, Ready(s), NEW r \in Nat, LockedBut(s, r), s.round < r, NEW w \in Worlds,
           NEW t, t = enterPrecommit(enterNewRound(s, r, w), r, w)
    PROVE  Fine(t) /\ (Timely(s) => Timely(t))
<1> DEFINE n == enterNewRound(s, r, w)
<1>1. /\ s \in Nodes /\ running(s) /\ ~s.refused /\ Control(s) /\ TimerUpTo(s, s.round)
      /\ s.round \in Nat /\ s.timer \in Timers /\ s.height \in Nat /\ s.lock \in Locks /\ s.valid \in Locks
  BY Zenon DEF Ready, Nodes
<1>2. TimerUpTo(s, r)
  BY <1>1 DEF TimerUpTo, Timers
<1>3. Sane(n) /\ NewRound(s, n, r)
  BY Zenon, <1>1, <1>2, EnterNewRound
<1> HIDE DEF n
<1>4. /\ running(n) /\ n.pblock = NoId /\ n.round = r /\ n.lock = s.lock /\ n.valid = s.valid
      /\ n.step \in {2, 3, 4} /\ SameVotes(s.votes, n.votes) /\ (Behind(s) => Timely(n))
  BY Zenon, <1>1, <1>3 DEF NewRound
<1>5. Ready(n)
  BY Zenon, <1>3, <1>4 DEF Sane, Halted
<1>6. \A q \in Nat : polka(n, q) = polka(s, q)
  BY Zenon, <1>4, SamePolkas
<1>7. LockUpTo(n, r)
  <2>1. ASSUME n.lock.block # NoId
        PROVE  /\ n.lock.round =< n.round
               /\ polka(n, n.lock.round) = n.lock.block
               /\ n.lock.parts = [block |-> n.lock.block, done |-> TRUE]
    <3>1. s.lock.round \in Nat /\ s.lock.round =< s.round
      BY Zenon, <1>1, <1>4, <2>1 DEF Locks, LockedBut
    <3> QED BY <1>1, <1>4, <1>6, <2>1, <3>1 DEF LockedBut
  <2>2. ASSUME n.lock.block # NoId, NEW q \in Nat, n.lock.round < q, q < r
        PROVE  polka(n, q) \in {NoId, n.lock.block}
    <3>1. CASE q =< s.round
      BY <1>1, <1>4, <1>6, <2>2, <3>1 DEF LockedBut
    <3>2. CASE q > s.round
      BY <1>1, <1>4, <1>6, <2>2, <3>2 DEF LockedBut
    <3> QED BY <1>1, <3>1, <3>2
  <2>3. n.valid.block # NoId => n.valid.round =< n.round /\ polka(n, n.valid.round) = n.valid.block
    <3>1. s.valid.round \in Nat
      BY Zenon, <1>1 DEF Locks
    <3> QED BY <1>1, <1>4, <1>6, <3>1 DEF LockedBut
  <2> QED BY Zenon, <2>1, <2>2, <2>3 DEF LockUpTo
<1>8. NoPolkaAfter(n, n.round)
  BY <1>1, <1>4, <1>6 DEF LockedBut, NoPolkaAfter
<1>9. t = enterPrecommit(n, n.round, w) /\ n.step < 6
  BY <1>4 DEF n
<1>10. Fine(t) /\ (Behind(n) => Timely(t))
  BY Zenon, <1>4, <1>5, <1>7, <1>8, <1>9, PrecommitOnPolka
<1> QED BY Zenon, <1>4, <1>10 DEF Timely

\* A polka of the round of the node
LEMMA PolkaOfThisRound ==
    ASSUME NEW s, Ready(s), LockUpTo(s, s.round + 1), NoPolkaAfter(s, s.round), NEW w \in Worlds,
           NEW t, t = enterPrecommit(enterNewRound(s, s.round, w), s.round, w)
    PROVE  Fine(t) /\ (Timely(s) => Timely(t))
<1> DEFINE r == s.round
           n == enterNewRound(s, r, w)
<1>1. /\ s \in Nodes /\ running(s) /\ ~s.refused /\ Control(s) /\ TimerUpTo(s, r)
      /\ s.round \in Nat /\ s.step \in Steps
  BY Zenon DEF Ready, Nodes
<1>2. \A x : LockUpTo(x, x.round + 1) /\ x.round \in Nat => LockUpTo(x, x.round)
  <2>1. \A x : x.round \in Nat => \A q \in Nat : q < x.round => q < x.round + 1
    OBVIOUS
  <2> QED BY Zenon, <2>1 DEF LockUpTo
<1>3. CASE s.step = RoundStepNewHeight
  <2>1. Sane(n) /\ NewRound(s, n, r)
    BY Zenon, <1>1, <1>3, EnterNewRound
  <2> HIDE DEF n
  <2>2. n \in Nodes
    BY Zenon, <2>1, SaneNode
  <2>3. n.round = r /\ SameLocks(s, n) /\ n.step \in {2, 3, 4} /\ (Behind(s) => Timely(n))
    BY <1>1, <2>1 DEF NewRound, SameLocks
  <2>4. LockUpTo(n, n.round + 1)
    BY <1>1, <2>2, <2>3, LocksCarry
  <2>5. CASE ~running(n)
    <3>1. t = n
      BY <2>5, HaltedStays DEF n
    <3> QED BY Zenon, <2>1, <2>3, <2>4, <2>5, <3>1 DEF Fine, Timely
  <2>6. CASE running(n)
    <3>1. Ready(n)
      BY Zenon, <2>1, <2>6 DEF Sane, Halted
    <3>2. NoPolkaAfter(n, n.round)
      BY Zenon, <2>3, SamePolkas DEF NoPolkaAfter, SameLocks
    <3>3. LockUpTo(n, n.round)
      BY Zenon, <1>1, <1>2, <2>3, <2>4
    <3>4. t = enterPrecommit(n, n.round, w) /\ n.step < 6
      BY <2>3 DEF n
    <3>5. Fine(t) /\ (Behind(n) => Timely(t))
      BY Zenon, <2>4, <3>1, <3>2, <3>3, <3>4, PrecommitOnPolka
    <3> QED BY Zenon, <2>3, <3>5 DEF Timely
  <2> QED BY Zenon, <2>5, <2>6
<1>4. CASE s.step # RoundStepNewHeight
  <2>1. n = s
    BY Zenon, <1>4 DEF enterNewRound
  <2>2. t = enterPrecommit(s, s.round, w)
    BY Zenon, <2>1
  <2>3. CASE s.step < 6
    <3>1. LockUpTo(s, s.round)
      BY Zenon, <1>1, <1>2
    <3> QED BY Zenon, <2>2, <2>3, <3>1, PrecommitOnPolka DEF Timely
  <2>4. CASE s.step >= 6
    <3>1. t = s
      BY <1>1, <2>2, <2>4 DEF enterPrecommit, mayEnter, RoundStepPrecommit, Steps
    <3>2. PolkaSeen(s)
      BY Zenon, <2>4 DEF PolkaSeen, RoundStepPrecommit
    <3> QED BY Zenon, <3>1, <3>2 DEF Fine, Sane, Locked
  <2> QED BY <1>1, <2>3, <2>4 DEF Steps
<1> QED BY Zenon, <1>3, <1>4

\* addVote of a prevote that was added, with all that follows
LEMMA PrevoteAdded ==
    ASSUME NEW s, Ready(s), NEW r \in Nat, LockedBut(s, r), NEW w \in Worlds,
           NEW x, x = prevoteAdded(s, r, w)
    PROVE  Fine(x) /\ (Timely(s) => Timely(x))
<1> DEFINE id == polka(s, r)
           any == HasTwoThirdsAny(Prevotes(s.votes, r))
<1>1. s \in Nodes /\ s.round \in Nat /\ s.votes \in HVSets
  BY Zenon DEF Ready, Nodes
<1>2. CASE id = NoId
  <2>1. Locked(s)
    BY Zenon, <1>1, <1>2, LockedWithoutPolka
  <2>2. \/ /\ s.round =< r /\ any
           /\ x = enterPrevoteWait(enterPrevote(enterNewRound(s, r, w), r, w), r)
        \/ x = enterPrevote(s, s.round, w)
        \/ x = s
    BY Zenon, <1>2 DEF prevoteAdded, polka
  <2>3. CASE /\ s.round =< r /\ any
             /\ x = enterPrevoteWait(enterPrevote(enterNewRound(s, r, w), r, w), r)
    BY Zenon, <2>1, <2>3, PrevotesWithoutPolka
  <2>4. CASE x = enterPrevote(s, s.round, w)
    BY Zenon, <2>1, <2>4, PrevoteAtRest
  <2>5. CASE x = s
    BY Zenon, <2>1, <2>5 DEF Fine, Sane, Locked
  <2> QED BY Zenon, <2>2, <2>3, <2>4, <2>5
<1>3. CASE id # NoId
  <2> DEFINE u == validOn(lockReleased(s, r, id), r, id)
  <2>1. any
    <3>1. Prevotes(s.votes, r) \in GoodSets
      BY Zenon, <1>1, SetsAreGood DEF Prevotes, Kinds
    <3> QED BY Zenon, <1>3, <3>1, MajorityHasAny DEF GoodSets, polka, TwoThirdsMajority
  <2>2. x = IF u.round =< r THEN enterPrecommit(enterNewRound(u, r, w), r, w)
            ELSE IF u.proposal # NoProposal /\ u.proposal.pol = r /\ isProposalComplete(u)
            THEN enterPrevote(u, u.round, w)
            ELSE u
    BY Zenon, <1>3, <2>1 DEF prevoteAdded, polka
  <2>3. CASE s.round < r
    <3>1. u = s
      BY <1>1, <2>3 DEF validOn, lockReleased
    <3>2. x = enterPrecommit(enterNewRound(s, r, w), r, w)
      BY <1>1, <2>2, <2>3, <3>1
    <3> QED BY Zenon, <2>3, <3>2, PolkaOfLaterRound
  <2>4. CASE r =< s.round
    <3>1. /\ Ready(u) /\ (Timely(s) => Timely(u))
          /\ u.round = s.round /\ LockUpTo(u, u.round + 1) /\ NoPolkaAfter(u, u.round)
          /\ r # u.round => PolkaSeen(u)
      BY <1>3, <2>4, Released
    <3> HIDE DEF u
    <3>2. CASE r = s.round
      <4>1. x = enterPrecommit(enterNewRound(u, u.round, w), u.round, w)
        BY <1>1, <2>2, <3>1, <3>2
      <4> QED BY Zenon, <3>1, <4>1, PolkaOfThisRound
    <3>3. CASE r < s.round
      <4>1. Locked(u)
        BY <1>1, <3>1, <3>3 DEF Locked
      <4>2. x \in {u, enterPrevote(u, u.round, w)}
        BY <1>1, <2>2, <3>1, <3>3
      <4>3. CASE x = u
        BY Zenon, <3>1, <4>1, <4>3 DEF Fine, Sane, Locked
      <4>4. CASE x = enterPrevote(u, u.round, w)
        BY Zenon, <3>1, <4>1, <4>4, PrevoteAtRest
      <4> QED BY Zenon, <4>2, <4>3, <4>4
    <3> QED BY <1>1, <2>4, <3>2, <3>3
  <2> QED BY <1>1, <2>3, <2>4
<1> QED BY Zenon, <1>2, <1>3

-----------------------------------------------------------------------------
(* A precommit of round r has been added *)

\* enterNewRound and enterPrecommit of round r, one after the other
LEMMA PrecommitReached ==
    ASSUME NEW s, Ready(s), Locked(s), NEW r \in Nat, NEW w \in Worlds,
           NEW n, n = enterPrecommit(enterNewRound(s, r, w), r, w)
    PROVE  /\ Fine(n) /\ (Timely(s) => Timely(n)) /\ SameVotes(s.votes, n.votes)
           /\ s.round =< r => n.round = r
<1> DEFINE e == enterNewRound(s, r, w)
<1>1. s \in Nodes /\ s.round \in Nat
  BY Zenon DEF Ready, Nodes
<1>2. /\ Fine(e) /\ (Timely(s) => Timely(e)) /\ SameVotes(s.votes, e.votes)
      /\ IF r < s.round \/ (r = s.round /\ s.step # RoundStepNewHeight) THEN e = s ELSE NewRound(s, e, r)
  BY Zenon, NewRoundAtRest
<1>3. s.round =< r => e.round = r
  BY <1>1, <1>2 DEF NewRound
<1>4. CASE s.round =< r
  <2> HIDE DEF e
  <2>1. CASE ~running(e)
    <3>1. n = e
      BY <2>1, HaltedStays DEF e
    <3> QED BY Zenon, <1>2, <1>3, <1>4, <3>1
  <2>2. CASE running(e)
    <3>1. Ready(e) /\ Locked(e)
      BY Zenon, <1>2, <2>2, FineRunning
    <3>2. n = enterPrecommit(e, e.round, w)
      BY Zenon, <1>3, <1>4 DEF e
    <3>3. Fine(n) /\ (Timely(e) => Timely(n)) /\ n.votes = e.votes /\ n.round = e.round
      BY <3>1, <3>2, PrecommitAtRest
    <3> QED BY Zenon, <1>2, <1>3, <3>3
  <2> QED BY Zenon, <2>1, <2>2
<1>5. CASE r < s.round
  <2>1. e = s
    BY Zenon, <1>2, <1>5
  <2>2. n = s
    BY <1>1, <1>5, <2>1 DEF enterPrecommit, mayEnter
  <2> QED BY <1>1, <1>2, <1>5, <2>1, <2>2
<1> QED BY <1>1, <1>4, <1>5

\* Where a precommit of round r leads
PrecommitLeads(s, r, w, x) ==
    LET precommits == Precommits(s.votes, r)
        n == enterPrecommit(enterNewRound(s, r, w), r, w)
        c == enterCommit(n, r, w)
    IN  \/ x = enterNewRound(s, r + 1, w)
        \/ x = enterNewRound(s, s.round + 1, w)
        \/ TwoThirdsMajority(precommits) # NoId /\ x \in {c, enterNewRound(c, 0, w)}
        \/ s.round =< r /\ HasTwoThirdsAny(precommits) /\ x = enterPrecommitWait(n, r)
        \/ x = s

\* precommitAdded goes one of these ways.
LEMMA PrecommitCases ==
    ASSUME NEW s \in Nodes, NEW r \in Nat, NEW w, NEW x, x = precommitAdded(s, r, w)
    PROVE  PrecommitLeads(s, r, w, x)
<1> DEFINE precommits == Precommits(s.votes, r)
           id == TwoThirdsMajority(precommits)
<1>1. id \in Ids \cup {NoId}
  <2>1. precommits \in GoodSets
    BY Zenon, SetsAreGood DEF Precommits, Kinds, Nodes
  <2> QED BY Zenon, <2>1 DEF GoodSets, VoteSets, TwoThirdsMajority
<1>2. Nil \in Ids /\ NoId \notin Ids
  BY Zenon, ConsensusAssumption, NoIdAssumption DEF ConsensusAssumption, NoIdAssumption
<1>3. CASE id = Nil
  BY Zenon, <1>2, <1>3 DEF precommitAdded, PrecommitLeads, Blocks
<1>4. CASE id \in Blocks
  <2>1. id # Nil /\ id # NoId
    BY Zenon, <1>2, <1>4 DEF Blocks
  <2> QED BY Zenon, <1>4, <2>1 DEF precommitAdded, PrecommitLeads
<1>5. CASE id = NoId
  <2>1. id # Nil /\ id \notin Blocks
    BY Zenon, <1>2, <1>5 DEF Blocks
  <2> QED BY Zenon, <1>5, <2>1 DEF precommitAdded, PrecommitLeads
<1> QED BY Zenon, <1>1, <1>3, <1>4, <1>5 DEF Blocks

\* addVote of a precommit that was added, with all that follows
LEMMA PrecommitAdded ==
    ASSUME NEW s, Ready(s), Locked(s), NEW r \in Nat, NEW w \in Worlds, ParentsAreThere,
           NEW x, x = precommitAdded(s, r, w)
    PROVE  Fine(x) /\ (Timely(s) /\ running(x) => Timely(x))
<1> DEFINE precommits == Precommits(s.votes, r)
           id == TwoThirdsMajority(precommits)
           n == enterPrecommit(enterNewRound(s, r, w), r, w)
           c == enterCommit(n, r, w)
<1>1. s \in Nodes /\ s.round \in Nat
  BY Zenon DEF Ready, Nodes
<1>2. /\ Fine(n) /\ (Timely(s) => Timely(n)) /\ SameVotes(s.votes, n.votes)
      /\ s.round =< r => n.round = r
  BY Zenon, PrecommitReached
<1>3. Precommits(n.votes, r) = precommits
  BY Zenon, <1>2 DEF SameVotes, Precommits, Kinds
<1>4. PrecommitLeads(s, r, w, x)
  BY Zenon, <1>1, PrecommitCases
<1>5. CASE x = enterNewRound(s, r + 1, w)
  <2>1. r + 1 \in Nat
    OBVIOUS
  <2> QED BY Zenon, <1>5, <2>1, NewRoundAtRest
<1>6. CASE x = enterNewRound(s, s.round + 1, w)
  <2>1. s.round + 1 \in Nat
    BY <1>1
  <2> QED BY Zenon, <1>6, <2>1, NewRoundAtRest
<1>7. CASE x = s
  BY Zenon, <1>7 DEF Fine, Sane, Locked
<1>8. CASE id # NoId /\ x \in {c, enterNewRound(c, 0, w)}
  <2>1. HasTwoThirdsMajority(Precommits(n.votes, r))
    BY Zenon, <1>3, <1>8 DEF HasTwoThirdsMajority, TwoThirdsMajority
  <2> HIDE DEF n, id
  <2>2. Fine(c) /\ (Timely(n) /\ running(c) => Timely(c))
    <3>1. CASE running(n)
      BY Zenon, <1>2, <2>1, <3>1, FineRunning, CommitAtRest
    <3>2. CASE ~running(n)
      <4>1. c = n
        BY Zenon, <3>2, HaltedStays
      <4> QED BY Zenon, <1>2, <4>1
    <3> QED BY Zenon, <3>1, <3>2
  <2> HIDE DEF c
  <2>3. CASE x = c
    BY Zenon, <1>2, <2>2, <2>3
  <2>4. CASE x = enterNewRound(c, 0, w)
    <3>1. CASE running(c)
      <4>1. 0 \in Nat
        BY Zenon
      <4>2. Fine(x) /\ (Timely(c) => Timely(x))
        BY Zenon, <2>2, <2>4, <3>1, <4>1, FineRunning, NewRoundAtRest
      <4> QED BY Zenon, <1>2, <2>2, <3>1, <4>2
    <3>2. CASE ~running(c)
      <4>1. x = c
        BY <2>4, <3>2, HaltedStays
      <4> QED BY Zenon, <2>2, <3>2, <4>1
    <3> QED BY Zenon, <3>1, <3>2
  <2> QED BY Zenon, <1>8, <2>3, <2>4
<1>9. CASE s.round =< r /\ HasTwoThirdsAny(precommits) /\ x = enterPrecommitWait(n, r)
  <2> HIDE DEF n
  <2>1. CASE ~running(n)
    <3>1. x = n
      BY Zenon, <1>9, <2>1, HaltedStays
    <3> QED BY Zenon, <1>2, <3>1
  <2>2. CASE running(n)
    <3>1. Ready(n) /\ Locked(n) /\ n \in Nodes /\ n.step \in Steps
      BY <1>2, <2>2, FineRunning DEF Nodes
    <3>2. x = enterPrecommitWait(n, n.round) /\ HasTwoThirdsAny(Precommits(n.votes, n.round))
      BY Zenon, <1>2, <1>3, <1>9
    <3>3. /\ Ready(x) /\ Moved(n, x)
          /\ IF n.step < RoundStepPrecommitWait
             THEN x.step = RoundStepPrecommitWait /\ (Behind(n) => Timely(x)) ELSE x = n
      BY <3>1, <3>2, EnterPrecommitWait
    <3>4. x.step >= n.step
      BY <3>1, <3>3 DEF RoundStepPrecommitWait, Steps
    <3>5. Sane(x)
      BY Zenon, <3>3 DEF Sane
    <3>6. Fine(x)
      BY Zenon, <3>1, <3>3, <3>4, <3>5, MovedFine
    <3> QED BY Zenon, <1>2, <3>3, <3>6 DEF Timely
  <2> QED BY Zenon, <2>1, <2>2
<1> QED BY Zenon, <1>4, <1>5, <1>6, <1>7, <1>8, <1>9 DEF PrecommitLeads

\* A vote of any round, from a peer or from the own queue, is added: the
\* majorities found before stay, and one vote makes one new polka at most.
LEMMA VoteCounted ==
    ASSUME NEW s, Ready(s), Locked(s), NEW m \in VoteMsgs, NEW o \in Origins, NEW g,
           g = AddVote(s.votes, m.round, m.kind, m.v, ballot(m), o), NEW t, t = [s EXCEPT !.votes = g]
    PROVE  /\ Ready(t) /\ (Timely(s) => Timely(t))
           /\ t.round = s.round /\ t.height = s.height /\ t.lock = s.lock
           /\ \A q \in Nat : polka(s, q) # NoId => polka(t, q) = polka(s, q)
           /\ ~Added(s.votes, m.round, m.kind, m.v, ballot(m), o) => Locked(t)
           /\ m.kind = "prevote" => LockedBut(t, m.round)
           /\ m.kind # "prevote" => Locked(t)
<1> DEFINE b == ballot(m)
           added == Added(s.votes, m.round, m.kind, m.v, b, o)
<1>1. /\ s \in Nodes /\ s.round \in Nat /\ s.votes \in HVSets /\ s.lock \in Locks /\ s.valid \in Locks
      /\ s.step \in Steps
  BY Zenon DEF Ready, Nodes
<1>2. m.round \in Nat /\ m.kind \in Kinds /\ m.v \in Validators /\ b \in [id : Ids, res : Results]
  BY Zenon DEF VoteMsgs, ballot
<1> HIDE DEF b
<1>3. /\ g \in HVSets /\ g.round = s.votes.round
      /\ \A q \in Nat, j \in Kinds :
            <<q, j>> # <<m.round, m.kind>> => getVoteSet(g, q, j) = getVoteSet(s.votes, q, j)
      /\ \A q \in Nat, j \in Kinds :
            LET k == TwoThirdsMajority(getVoteSet(s.votes, q, j))
                l == TwoThirdsMajority(getVoteSet(g, q, j))
            IN  /\ k # NoId => l = k
                /\ ~added => l = k
  <2>1. g = AddVote(s.votes, m.round, m.kind, m.v, b, o)
    BY Zenon DEF b
  <2> QED BY <1>1, <1>2, <2>1, AddVoteChangesOne
<1>5. \A q \in Nat : HasTwoThirdsMajority(Precommits(s.votes, q)) => HasTwoThirdsMajority(Precommits(g, q))
  BY Zenon, <1>3 DEF HasTwoThirdsMajority, TwoThirdsMajority, Precommits, Kinds
<1>6. /\ Ready(t) /\ (Timely(s) => Timely(t))
      /\ t.votes = g /\ t.round = s.round /\ t.step = s.step /\ t.height = s.height
      /\ t.lock = s.lock /\ t.valid = s.valid
  BY <1>3, <1>5, VotesArrive
<1>7. \A q \in Nat : /\ polka(s, q) # NoId => polka(t, q) = polka(s, q)
                     /\ ~added => polka(t, q) = polka(s, q)
                     /\ q # m.round \/ m.kind # "prevote" => polka(t, q) = polka(s, q)
  <2>1. ASSUME NEW q \in Nat
        PROVE  /\ polka(s, q) # NoId => polka(t, q) = polka(s, q)
               /\ ~added => polka(t, q) = polka(s, q)
    BY Zenon, <1>3, <1>6 DEF polka, Prevotes, Kinds
  <2>2. ASSUME NEW q \in Nat, q # m.round \/ m.kind # "prevote"
        PROVE  polka(t, q) = polka(s, q)
    <3>1. <<q, "prevote">> # <<m.round, m.kind>>
      BY Zenon, <2>2
    <3> QED BY Zenon, <1>3, <1>6, <3>1 DEF polka, Prevotes, Kinds
  <2> QED BY Zenon, <2>1, <2>2
<1>8. ASSUME \A q \in Nat : polka(t, q) = polka(s, q)
      PROVE  Locked(t)
  <2>1. s.lock.round \in Nat /\ s.valid.round \in Nat
    BY Zenon, <1>1 DEF Locks
  <2>2. LockUpTo(t, t.round + 1)
    BY Zenon, <1>6, <1>8, <2>1 DEF Locked, LockUpTo
  <2> QED BY Zenon, <1>1, <1>6, <1>8, <2>2 DEF Locked, NoPolkaAfter, PolkaSeen
<1>9. ASSUME ~added PROVE Locked(t)
  BY Zenon, <1>7, <1>8, <1>9
<1>10. ASSUME m.kind # "prevote" PROVE Locked(t)
  BY Zenon, <1>7, <1>8, <1>10
<1>11. ASSUME m.kind = "prevote" PROVE LockedBut(t, m.round)
  <2>1. s.lock.round \in Nat /\ s.valid.round \in Nat
    BY Zenon, <1>1 DEF Locks
  <2>2. \A q \in Nat : q # m.round => polka(t, q) = polka(s, q)
    BY Zenon, <1>7
  <2>3. s.lock.block # NoId =>
          /\ s.lock.round =< s.round
          /\ polka(t, s.lock.round) = s.lock.block
          /\ s.lock.parts = [block |-> s.lock.block, done |-> TRUE]
    BY Zenon, <1>7, <2>1 DEF Locked, LockUpTo
  <2>4. ASSUME s.lock.block # NoId, NEW q \in Nat, s.lock.round < q, q =< s.round, q # m.round
        PROVE  polka(t, q) \in {NoId, s.lock.block}
    <3>1. q < s.round + 1
      BY <1>1, <2>4
    <3> QED BY Zenon, <2>2, <2>4, <3>1 DEF Locked, LockUpTo
  <2>5. s.valid.block # NoId => s.valid.round =< s.round /\ polka(t, s.valid.round) = s.valid.block
    BY Zenon, <1>7, <2>1 DEF Locked, LockUpTo
  <2>6. \A q \in Nat : q > s.round /\ q # m.round => polka(t, q) = NoId
    BY Zenon, <2>2 DEF Locked, NoPolkaAfter
  <2>7. m.round # s.round => PolkaSeen(t)
    BY Zenon, <1>1, <1>6, <2>2 DEF Locked, PolkaSeen
  <2> QED BY Zenon, <1>6, <2>3, <2>4, <2>5, <2>6, <2>7 DEF LockedBut
<1> QED BY Zenon, <1>6, <1>7, <1>9, <1>10, <1>11 DEF b

\* addVote, with all that follows
LEMMA AddVoteMsg ==
    ASSUME NEW s, Ready(s), Locked(s), NEW m \in VoteMsgs, NEW o \in Origins, NEW w \in Worlds,
           ParentsAreThere, NEW x, x = addVoteMsg(s, m, o, w)
    PROVE  Fine(x) /\ (Timely(s) /\ running(x) => Timely(x))
<1> DEFINE b == ballot(m)
           t == [s EXCEPT !.votes = AddVote(s.votes, m.round, m.kind, m.v, b, o)]
<1>1. m.round \in Nat /\ m.kind \in Kinds
  BY Zenon DEF VoteMsgs
<1>2. x = IF m.height + 1 = s.height THEN lateCommitVote(s, m, w)
          ELSE IF m.height # s.height THEN s
          ELSE IF ~Added(s.votes, m.round, m.kind, m.v, b, o) THEN t
          ELSE IF m.kind = "prevote" THEN prevoteAdded(t, m.round, w)
          ELSE precommitAdded(t, m.round, w)
  BY Zenon DEF addVoteMsg
<1>3. /\ Ready(t) /\ (Timely(s) => Timely(t))
      /\ ~Added(s.votes, m.round, m.kind, m.v, b, o) => Locked(t)
      /\ m.kind = "prevote" => LockedBut(t, m.round)
      /\ m.kind # "prevote" => Locked(t)
  BY VoteCounted
<1> HIDE DEF b, t
<1>4. CASE x = lateCommitVote(s, m, w)
  BY Zenon, <1>4, LateCommitVote
<1>5. CASE x = s
  BY Zenon, <1>5 DEF Fine, Sane, Locked
<1>6. CASE ~Added(s.votes, m.round, m.kind, m.v, b, o) /\ x = t
  BY Zenon, <1>3, <1>6 DEF Fine, Sane, Locked
<1>7. CASE m.kind = "prevote" /\ x = prevoteAdded(t, m.round, w)
  BY Zenon, <1>1, <1>3, <1>7, PrevoteAdded
<1>8. CASE m.kind # "prevote" /\ x = precommitAdded(t, m.round, w)
  BY Zenon, <1>1, <1>3, <1>8, PrecommitAdded
<1> QED BY Zenon, <1>2, <1>4, <1>5, <1>6, <1>7, <1>8

\* handleMsg
LEMMA HandleMsg ==
    ASSUME NEW s, Ready(s), Locked(s), NEW m \in Msgs, NEW o \in Origins, NEW w \in Worlds,
           ParentsAreThere, NEW x, x = handleMsg(s, m, o, w)
    PROVE  Fine(x) /\ (Timely(s) /\ running(x) => Timely(x))
<1>1. CASE m \in VoteMsgs
  <2>1. m.type = "vote"
    BY Zenon, <1>1 DEF VoteMsgs
  <2>2. x = addVoteMsg(s, m, o, w)
    BY Zenon, <2>1 DEF handleMsg
  <2> QED BY Zenon, <1>1, <2>2, AddVoteMsg
<1>2. CASE m \in ProposalMsgs
  <2>1. m.type = "proposal"
    BY Zenon, <1>2 DEF ProposalMsgs
  <2>2. x = setProposal(s, m)
    BY Zenon, <2>1 DEF handleMsg
  <2> QED BY Zenon, <1>2, <2>2, SetProposal
<1>3. CASE m \in PartMsgs
  <2>1. m.type = "part"
    BY Zenon, <1>3 DEF PartMsgs
  <2>2. x = addProposalBlockPart(s, m, w)
    BY Zenon, <2>1 DEF handleMsg
  <2> QED BY Zenon, <1>3, <2>2, AddProposalBlockPart
<1> QED BY Zenon, <1>1, <1>2, <1>3 DEF Msgs

-----------------------------------------------------------------------------
(* Timeouts *)

\* The timer has fired: s has it no longer armed.
LEMMA Disarmed ==
    ASSUME NEW c, Ready(c), Locked(c), NEW s, s = [c EXCEPT !.timer.armed = FALSE]
    PROVE  /\ Ready(s) /\ Locked(s) /\ s.timer.height = c.timer.height /\ s.timer.round = c.timer.round
           /\ s.timer.step = c.timer.step /\ s.timer.wait = c.timer.wait
           /\ s.height = c.height /\ s.round = c.round /\ s.step = c.step
<1>1. /\ c \in Nodes /\ running(c) /\ ~c.refused /\ Control(c) /\ TimerUpTo(c, c.round)
      /\ c.timer \in Timers /\ c.step \in Steps /\ c.round \in Nat
  BY Zenon DEF Ready, Nodes
<1> DEFINE ti == [c.timer EXCEPT !.armed = FALSE]
<1>2. ti \in Timers
  BY Zenon, <1>1 DEF Timers
<1>3. /\ ti.height = c.timer.height /\ ti.round = c.timer.round /\ ti.step = c.timer.step
      /\ ti.wait = c.timer.wait
  BY Zenon, <1>1 DEF Timers
<1>4. ~ti.armed
  BY Zenon, <1>1 DEF Timers
<1>5. s = [c EXCEPT !.timer = ti]
  BY Zenon
<1> HIDE DEF ti
<1>6. s \in Nodes
  BY Zenon, <1>1, <1>2, <1>5 DEF Nodes
<1>7. /\ s.height = c.height /\ s.round = c.round /\ s.step = c.step /\ s.commitRound = c.commitRound
      /\ s.proposal = c.proposal /\ s.pblock = c.pblock /\ s.parts = c.parts
      /\ s.lock = c.lock /\ s.valid = c.valid /\ s.votes = c.votes /\ s.signer = c.signer
      /\ s.chain = c.chain /\ s.halt = c.halt
  BY Zenon, <1>1, <1>5 DEF Nodes
<1>8. s.timer = ti /\ s.refused = c.refused
  BY Zenon, <1>1, <1>5 DEF Nodes
<1>9. Control(s)
  BY Zenon, <1>1, <1>7 DEF Control, RoundOK, CommitOK, SignerOK, PartsOK, ChainOK
<1>10. TimerUpTo(s, s.round)
  BY Zenon, <1>1, <1>3, <1>4, <1>7, <1>8 DEF TimerUpTo
<1>11. Ready(s)
  BY Zenon, <1>1, <1>6, <1>7, <1>8, <1>9, <1>10 DEF Ready, running
<1>12. SameLocks(c, s) /\ s.step >= c.step
  BY <1>1, <1>7 DEF SameLocks, SameVotes, Steps
<1>13. Locked(s)
  BY Zenon, <1>1, <1>6, <1>12, LockedCarries
<1> QED BY Zenon, <1>3, <1>7, <1>8, <1>11, <1>13

\* handleTimeout: the tick is dropped if the node has moved on, and then the
\* step it is in has its own timeout armed or ends without one.
LEMMA HandleTimeout ==
    ASSUME NEW c, Ready(c), Locked(c), c.timer.armed, NEW w \in Worlds,
           NEW x, x = handleTimeout([c EXCEPT !.timer.armed = FALSE], w)
    PROVE  Fine(x) /\ (Timely(c) /\ running(x) => Timely(x))
<1> DEFINE s == [c EXCEPT !.timer.armed = FALSE]
<1>1. /\ Ready(s) /\ Locked(s) /\ s.timer.height = c.timer.height /\ s.timer.round = c.timer.round
      /\ s.timer.step = c.timer.step /\ s.timer.wait = c.timer.wait
      /\ s.height = c.height /\ s.round = c.round /\ s.step = c.step
  BY Zenon, Disarmed
<1> HIDE DEF s
<1>2. x = handleTimeout(s, w)
  BY Zenon DEF s
<1>3. /\ s \in Nodes /\ s.timer \in Timers /\ s.round \in Nat /\ s.step \in Steps /\ s.height \in Nat
      /\ running(s) /\ TimerUpTo(s, s.round) /\ RoundOK(s) /\ s.votes \in HVSets
  BY Zenon, <1>1 DEF Ready, Nodes, Control
<1>4. s.timer.step \in {1, 2, 3, 5, 7} /\ s.timer.wait > 0
  BY Zenon, <1>1 DEF Ready, TimerUpTo
<1>5. s.timer.round \in Nat /\ s.timer.wait \in Nat /\ s.timer.height \in Nat
  BY Zenon, <1>3 DEF Timers
<1>6. Timely(c) => Behind(s)
  BY Zenon, <1>1 DEF Timely, Behind
<1>7. Timely(c) => Covered(s) \/ (/\ s.step \in {1, 2, 3, 5, 7}
                                  /\ s.timer.height = s.height /\ s.timer.round = s.round
                                  /\ s.timer.step = s.step
                                  /\ s.step = 2 => s.round = 0)
  BY Zenon, <1>1 DEF Timely, Covered, RoundStepNewRound
<1> DEFINE early == \/ s.timer.height # s.height \/ s.timer.round < s.round
                    \/ s.timer.round = s.round /\ s.timer.step < s.step
<1>8. CASE early
  <2>1. x = s
    BY Zenon, <1>2, <1>8 DEF handleTimeout
  <2>2. Timely(c) => Timely(s)
    BY <1>3, <1>6, <1>7, <1>8 DEF Timely, Steps
  <2> QED BY Zenon, <1>1, <2>1, <2>2 DEF Fine, Sane, Locked
<1>9. CASE ~early
  <2>1. s.timer.height = s.height /\ s.timer.round = s.round /\ s.timer.step >= s.step
    BY <1>3, <1>4, <1>5, <1>9 DEF TimerUpTo, Steps
  <2>2. Behind(s) => s.step = s.timer.step
    BY <1>3, <1>4, <2>1 DEF Behind, Steps
  <2>3. x = CASE s.timer.step = 1 -> enterNewRound(s, 0, w)
              [] s.timer.step = 2 -> tryEnterProposal(s, 0, s.timer.wait, w)
              [] s.timer.step = 3 -> enterPrevote(s, s.timer.round, w)
              [] s.timer.step = 5 -> enterPrecommit(s, s.timer.round, w)
              [] s.timer.step = 7 -> enterNewRound(s, s.timer.round + 1, w)
    BY Zenon, <1>2, <1>9 DEF handleTimeout, RoundStepNewHeight, RoundStepNewRound, RoundStepPropose,
                      RoundStepPrevoteWait, RoundStepPrecommitWait
  <2>4. CASE s.timer.step = 1
    <3>1. s.step = 1
      BY <1>3, <2>1, <2>4 DEF Steps
    <3>2. s.round = 0
      <4>1. s.votes.round = 0
        BY Zenon, <1>3, <3>1 DEF RoundOK, RoundStepNewHeight
      <4> QED BY <1>3, <4>1 DEF RoundOK
    <3>3. x = enterNewRound(s, s.round, w)
      BY <2>3, <2>4, <3>2
    <3>4. /\ Fine(x)
          /\ IF s.round < s.round \/ (s.round = s.round /\ s.step # RoundStepNewHeight)
             THEN x = s ELSE NewRound(s, x, s.round)
      BY Zenon, <1>1, <1>3, <3>3, NewRoundAtRest
    <3>5. NewRound(s, x, s.round)
      BY <1>3, <3>1, <3>4 DEF RoundStepNewHeight
    <3> QED BY Zenon, <1>6, <3>4, <3>5 DEF NewRound
  <2>5. CASE s.timer.step = 2
    <3>1. x = tryEnterProposal(s, 0, s.timer.wait, w)
      BY <2>3, <2>5
    <3>2. s.step < RoundStepPropose
      BY <1>3, <2>1, <2>5 DEF Steps, RoundStepPropose
    <3>3. CASE s.round = 0
      <4>1. x = tryEnterProposal(s, s.round, s.timer.wait, w)
        BY Zenon, <3>1, <3>3
      <4>2. Sane(x) /\ TriesProposal(s, x)
        BY Zenon, <1>1, <1>4, <1>5, <3>2, <4>1, TryEnterProposal
      <4>3. x.step >= s.step
        BY <1>3, <3>2, <4>2 DEF TriesProposal, Steps, RoundStepPropose
      <4>4. Fine(x)
        BY Zenon, <1>1, <1>3, <4>2, <4>3, MovedFine DEF TriesProposal
      <4>5. Timely(c) => Timely(x)
        <5>1. Earlier(s, s.round, 3)
          BY <2>1, <2>5 DEF Earlier
        <5> QED BY Zenon, <1>6, <2>2, <2>5, <4>2, <5>1 DEF TriesProposal, RoundStepNewRound
      <4> QED BY Zenon, <4>4, <4>5
    <3>4. CASE s.round # 0
      <4>1. x = s
        BY <1>3, <3>1, <3>4 DEF tryEnterProposal, mayEnter
      <4>2. Timely(c) => Timely(s)
        BY Zenon, <1>6, <1>7, <2>2, <2>5, <3>4 DEF Timely
      <4> QED BY Zenon, <1>1, <4>1, <4>2 DEF Fine, Sane, Locked
    <3> QED BY Zenon, <3>3, <3>4
  <2>6. CASE s.timer.step = 3
    <3>1. x = enterPrevote(s, s.round, w)
      BY <2>1, <2>3, <2>6
    <3>2. s.step < 4
      BY <1>3, <2>1, <2>6 DEF Steps
    <3> QED BY Zenon, <1>1, <1>6, <3>1, <3>2, PrevoteAtRest
  <2>7. CASE s.timer.step = 5
    <3>1. x = enterPrecommit(s, s.round, w)
      BY <2>1, <2>3, <2>7
    <3>2. s.step < 6
      BY <1>3, <2>1, <2>7 DEF Steps
    <3> QED BY <1>1, <1>6, <3>1, <3>2, PrecommitAtRest
  <2>8. CASE s.timer.step = 7
    <3>1. PICK r \in Nat : r = s.round + 1
      BY <1>3
    <3>2. x = enterNewRound(s, r, w)
      BY <2>1, <2>3, <2>8, <3>1
    <3>3. /\ Fine(x)
          /\ IF r < s.round \/ (r = s.round /\ s.step # RoundStepNewHeight)
             THEN x = s ELSE NewRound(s, x, r)
      BY Zenon, <1>1, <3>2, NewRoundAtRest
    <3>4. NewRound(s, x, r)
      BY <1>3, <3>1, <3>3
    <3> QED BY Zenon, <1>6, <3>3, <3>4 DEF NewRound
  <2> QED BY Zenon, <1>4, <2>4, <2>5, <2>6, <2>7, <2>8
<1> QED BY Zenon, <1>8, <1>9

-----------------------------------------------------------------------------
(* The start of a height *)

\* A node that starts is at rest.
LEMMA Started ==
    ASSUME NEW h \in Nat, NEW t, t = started(h)
    PROVE  Fine(t) /\ Timely(t)
<1> DEFINE b == [height |-> h + 1, round |-> 0, step |-> RoundStepNewHeight, commitRound |-> -1,
                 proposal |-> NoProposal, pblock |-> NoId, parts |-> NoParts,
                 lock |-> Unset, valid |-> Unset, votes |-> NewHeightVoteSet, lastCommit |-> NoId,
                 timer |-> NoTimer, queue |-> <<>>,
                 signer |-> [height |-> 0, round |-> 0, step |-> 0], refused |-> FALSE,
                 chain |-> h, stored |-> {}, halt |-> "no"]
<1>1. t = scheduleRound0(b)
  BY Zenon DEF started
<1>2. /\ RoundStepNewHeight \in Steps /\ NoProposal \in Proposals /\ NoId \in AnyId
      /\ NoParts \in PartSets /\ Unset \in Locks /\ NoId \in Commits
  BY DEF RoundStepNewHeight, Steps, NoProposal, Proposals, AnyId, NoParts, PartSets, Unset, Locks, Commits
<1>3. NoTimer \in Timers /\ [height |-> 0, round |-> 0, step |-> 0] \in Signers
  BY DEF NoTimer, Timers, Signers
<1>4. NewHeightVoteSet \in HVSets
  BY Zenon, NewVotes
<1>5. "no" \in Halts /\ {} \in SUBSET Stored /\ <<>> \in Seq(Msgs) /\ h + 1 \in Nat /\ 0 \in Nat
      /\ -1 \in Nat \cup {-1} /\ FALSE \in BOOLEAN
  BY DEF Halts
<1>6. b \in Nodes
  BY Zenon, <1>2, <1>3, <1>4, <1>5 DEF Nodes
<1>7. Fresh(b) /\ running(b)
  BY Zenon DEF Fresh, running
<1>8. ~b.refused
  BY Zenon
<1>9. b.signer.height < b.height /\ b.timer.height < b.height
  BY DEF NoTimer
<1> HIDE DEF b
<1>10. Ready(t) /\ Locked(t) /\ LockUpTo(t, t.round + 1) /\ Timely(t)
  BY Zenon, <1>1, <1>6, <1>7, <1>8, <1>9, StartHeight
<1> QED BY Zenon, <1>10 DEF Fine, Sane

\* updateToState and the reset of the signer
LEMMA NextHeightReset ==
    ASSUME NEW c, Ready(c), NEW u, u = updateToState(c), NEW x, x = privReset(u)
    PROVE  /\ x \in Nodes /\ Fresh(x) /\ running(x) /\ ~x.refused /\ running(u)
           /\ x.height = c.chain + 1 /\ u.height = x.height /\ x.timer = c.timer /\ x.signer.height = 0
<1>1. c \in Nodes /\ running(c) /\ ~c.refused /\ CommitOK(c)
  BY Zenon DEF Ready, Control
<1>2. u \in Nodes /\ NextHeight(c, u)
  BY Zenon, <1>1, UpdateToState
<1> DEFINE rec == [height |-> 0, round |-> 0, step |-> 0]
<1>3. rec \in Signers /\ rec.height = 0
  BY DEF Signers
<1>4. x = [u EXCEPT !.signer = rec]
  BY Zenon DEF privReset
<1> HIDE DEF rec
<1>5. x \in Nodes
  BY Zenon, <1>2, <1>3, <1>4 DEF Nodes
<1>6. /\ x.height = u.height /\ x.round = u.round /\ x.step = u.step /\ x.proposal = u.proposal
      /\ x.pblock = u.pblock /\ x.parts = u.parts /\ x.lock = u.lock /\ x.valid = u.valid
      /\ x.votes = u.votes /\ x.commitRound = u.commitRound /\ x.timer = u.timer
      /\ x.chain = u.chain /\ x.halt = u.halt /\ x.signer = rec
  BY Zenon, <1>2, <1>4 DEF Nodes
<1>7. x.refused = u.refused
  BY Zenon, <1>2, <1>4 DEF Nodes
<1> QED BY Zenon, <1>1, <1>2, <1>3, <1>5, <1>6, <1>7 DEF NextHeight, Fresh, running

\* updateStateForSync
LEMMA SyncStep ==
    ASSUME NEW c, Ready(c), c.chain + 1 # c.height,
           NEW t, t = scheduleRound0(privReset(updateToState(c)))
    PROVE  Fine(t) /\ Timely(t)
<1> DEFINE x == privReset(updateToState(c))
<1>1. /\ c \in Nodes /\ ChainOK(c) /\ c.height \in Nat /\ c.chain \in Nat /\ c.timer \in Timers
      /\ TimerUpTo(c, c.round)
  BY Zenon DEF Ready, Control, Nodes
<1>2. /\ x \in Nodes /\ Fresh(x) /\ running(x) /\ ~x.refused
      /\ x.height = c.chain + 1 /\ x.timer = c.timer /\ x.signer.height = 0
  BY NextHeightReset
<1> HIDE DEF x
<1>3. x.signer.height < x.height /\ x.timer.height < x.height
  BY <1>1, <1>2 DEF ChainOK, TimerUpTo, Timers
<1>4. t = scheduleRound0(x)
  BY Zenon DEF x
<1>5. Ready(t) /\ Locked(t) /\ LockUpTo(t, t.round + 1) /\ Timely(t)
  BY Zenon, <1>2, <1>3, <1>4, StartHeight
<1> QED BY Zenon, <1>5 DEF Fine, Sane

\* validatorUpdate: the round the node goes on with is not before the one the
\* ticker has seen.
LEMMA UpdateStep ==
    ASSUME NEW c, Ready(c), NEW u, u = updateToState(c), NEW w \in Worlds, NEW r,
           r = (IF u.height = c.height /\ c.round > 0 THEN c.round + 1 ELSE 0),
           NEW t, t = enterNewRound(privReset(u), r, w)
    PROVE  Fine(t)
<1> DEFINE x == privReset(u)
<1>1. /\ c \in Nodes /\ ChainOK(c) /\ c.height \in Nat /\ c.chain \in Nat /\ c.timer \in Timers
      /\ TimerUpTo(c, c.round) /\ c.round \in Nat
  BY Zenon DEF Ready, Control, Nodes
<1>2. /\ x \in Nodes /\ Fresh(x) /\ running(x) /\ ~x.refused
      /\ x.height = c.chain + 1 /\ u.height = x.height /\ x.timer = c.timer /\ x.signer.height = 0
  BY NextHeightReset
<1> HIDE DEF x
<1>3. r \in Nat
  BY <1>1
<1>4. /\ RoundOK(x) /\ CommitOK(x) /\ PartsOK(x) /\ ChainOK(x)
      /\ Locked(x) /\ LockUpTo(x, x.round + 1) /\ SignerOK(x)
  <2>1. x.signer.height < x.height
    BY <1>1, <1>2
  <2> QED BY Zenon, <1>2, <2>1, FreshNode
<1>5. TimerUpTo(x, r)
  <2>1. x.timer.height =< x.height /\ (x.timer.height = x.height => x.height = c.height /\ x.timer.round =< c.round)
    BY <1>1, <1>2 DEF ChainOK, TimerUpTo, Timers
  <2>2. x.timer.height = x.height => x.timer.round =< r
    <3>1. x.timer.round \in Nat
      BY Zenon, <1>1, <1>2 DEF Timers
    <3> QED BY <1>1, <1>2, <2>1, <3>1
  <2> QED BY Zenon, <1>1, <1>2, <2>1, <2>2 DEF TimerUpTo
<1>6. x.round = 0 /\ x.step = RoundStepNewHeight
  BY Zenon, <1>2 DEF Fresh
<1>7. Sane(t) /\ NewRound(x, t, r)
  <2>1. r > x.round \/ (r = x.round /\ x.step = RoundStepNewHeight)
    BY <1>3, <1>6
  <2>2. t = enterNewRound(x, r, w)
    BY Zenon DEF x
  <2> QED BY Zenon, <1>2, <1>3, <1>4, <1>5, <2>1, <2>2, EnterNewRound DEF Control
<1>8. t \in Nodes
  BY Zenon, <1>7, SaneNode
<1>9. SameLocks(x, t) /\ (t.round > x.round \/ t.step >= x.step)
  BY <1>3, <1>6, <1>7 DEF NewRound, SameLocks, RoundStepNewHeight
<1>10. Locked(t)
  BY Zenon, <1>2, <1>4, <1>8, <1>9, LockedCarries
<1> QED BY Zenon, <1>7, <1>10 DEF Fine, Locked

\* A block that reaches the chain from elsewhere
LEMMA ChainGrows ==
    ASSUME NEW c, Ready(c), Locked(c), c.chain < c.height, NEW t, t = [c EXCEPT !.chain = c.chain + 1]
    PROVE  Fine(t) /\ (Timely(c) => Timely(t))
<1>1. /\ c \in Nodes /\ running(c) /\ ~c.refused /\ Control(c) /\ TimerUpTo(c, c.round)
      /\ c.step \in Steps /\ c.round \in Nat /\ c.chain \in Nat /\ c.height \in Nat
  BY Zenon DEF Ready, Nodes
<1>2. PICK n \in Nat : n = c.chain + 1
  BY <1>1
<1>3. t = [c EXCEPT !.chain = n]
  BY Zenon, <1>2
<1>4. t \in Nodes
  BY Zenon, <1>1, <1>3 DEF Nodes
<1>5. /\ t.height = c.height /\ t.round = c.round /\ t.step = c.step /\ t.commitRound = c.commitRound
      /\ t.proposal = c.proposal /\ t.pblock = c.pblock /\ t.parts = c.parts
      /\ t.lock = c.lock /\ t.valid = c.valid /\ t.votes = c.votes /\ t.signer = c.signer
      /\ t.timer = c.timer /\ t.halt = c.halt /\ t.chain = n /\ t.refused = c.refused
  BY Zenon, <1>1, <1>3 DEF Nodes
<1>6. ChainOK(t)
  BY <1>1, <1>2, <1>5 DEF Control, ChainOK
<1>7. RoundOK(t) /\ CommitOK(t) /\ SignerOK(t) /\ PartsOK(t) /\ TimerUpTo(t, t.round)
  BY Zenon, <1>1, <1>5 DEF Control, RoundOK, CommitOK, SignerOK, PartsOK, TimerUpTo
<1>8. Ready(t)
  BY Zenon, <1>1, <1>4, <1>5, <1>6, <1>7 DEF Ready, Control, running
<1>9. SameLocks(c, t) /\ t.step >= c.step
  BY <1>1, <1>5 DEF SameLocks, SameVotes, Steps
<1>10. Locked(t)
  BY Zenon, <1>1, <1>4, <1>9, LockedCarries
<1>11. Timely(c) => Timely(t)
  BY Zenon, <1>5 DEF Timely, Behind, Covered
<1> QED BY Zenon, <1>8, <1>10, <1>11 DEF Fine, Sane, Locked

-----------------------------------------------------------------------------
(* The state machine *)

\* The inductive invariant
NodeInv == /\ Fine(cs)
           /\ resets \in Nat
           /\ resets = 0 /\ running(cs) => Timely(cs)

\* NodeInv holds at the start.
LEMMA InitNode == Init => NodeInv
<1> SUFFICES ASSUME Init PROVE NodeInv
  BY Zenon
<1>1. cs = started(0) /\ resets = 0
  BY Zenon DEF Init
<1> QED BY Zenon, <1>1, Started DEF NodeInv

\* A message of a peer keeps NodeInv.
LEMMA ReceiveNode ==
    ASSUME ParentsAreThere, NodeInv, NEW m \in Msgs, NEW p \in Peers, Receive(m, p)
    PROVE  NodeInv'
<1>1. running(cs) /\ resets' = resets
  BY Zenon DEF Receive
<1>2. PICK w \in Worlds : cs' = handleMsg(cs, m, p, w)
  BY Zenon DEF Receive
<1>3. Ready(cs) /\ Locked(cs)
  BY Zenon, <1>1, FineRunning DEF NodeInv
<1>4. p \in Origins
  BY Zenon DEF Origins
<1>5. Fine(cs') /\ (Timely(cs) /\ running(cs') => Timely(cs'))
  BY Zenon, <1>2, <1>3, <1>4, HandleMsg
<1> QED BY Zenon, <1>1, <1>5 DEF NodeInv

\* Taking a message out of the own queue leaves the node where it is.
LEMMA TakenReady ==
    ASSUME NEW c, Ready(c), Locked(c), c.queue # <<>>, NEW s, s = [c EXCEPT !.queue = Tail(c.queue)]
    PROVE  /\ Head(c.queue) \in Msgs /\ Ready(s) /\ Locked(s) /\ (Timely(c) => Timely(s))
           /\ s.height = c.height /\ s.votes = c.votes
<1>1. c \in Nodes /\ c.queue \in Seq(Msgs) /\ PartsOK(c)
  BY Zenon DEF Ready, Nodes, Control
<1>2. Head(c.queue) \in Msgs /\ Tail(c.queue) \in Seq(Msgs)
  BY <1>1
<1>3. s \in Nodes
  BY Zenon, <1>1, <1>2 DEF Nodes
<1>4. SamePlace(c, s) /\ s.proposal = c.proposal /\ s.pblock = c.pblock /\ s.parts = c.parts
  BY Zenon, <1>1 DEF Nodes, SamePlace
<1>5. PartsOK(s)
  BY Zenon, <1>1, <1>4 DEF PartsOK, SamePlace
<1>6. Ready(s) /\ Locked(s) /\ (Timely(c) => Timely(s))
  BY Zenon, <1>3, <1>4, <1>5, SamePlaceReady
<1> QED BY Zenon, <1>2, <1>4, <1>6 DEF SamePlace

\* A message of the own queue keeps NodeInv.
LEMMA HandleOwnNode ==
    ASSUME ParentsAreThere, NodeInv, HandleOwn
    PROVE  NodeInv'
<1> DEFINE s == [cs EXCEPT !.queue = Tail(cs.queue)]
<1>1. running(cs) /\ cs.queue # <<>> /\ resets' = resets
  BY Zenon DEF HandleOwn
<1>2. PICK w \in Worlds : cs' = handleMsg(s, Head(cs.queue), Own, w)
  BY Zenon DEF HandleOwn
<1>3. Ready(cs) /\ Locked(cs)
  BY Zenon, <1>1, FineRunning DEF NodeInv
<1>4. Head(cs.queue) \in Msgs /\ Ready(s) /\ Locked(s) /\ (Timely(cs) => Timely(s))
  BY Zenon, <1>1, <1>3, TakenReady
<1>5. Own \in Origins
  BY Zenon DEF Origins
<1> HIDE DEF s
<1>6. Fine(cs') /\ (Timely(s) /\ running(cs') => Timely(cs'))
  BY <1>2, <1>4, <1>5, HandleMsg
<1> QED BY Zenon, <1>1, <1>4, <1>6 DEF NodeInv

\* What peers send are messages, and no votes of the node itself.
LEMMA OthersMessage ==
    ASSUME NEW p \in Peers, ReceiveProposal(p) \/ ReceivePart(p) \/ ReceiveVote(p)
    PROVE  \E m \in Msgs : Receive(m, p) /\ (m \in VoteMsgs => m.v # Self)
<1>1. Heights \subseteq Nat /\ 0..MaxRound \subseteq Nat /\ Blocks \subseteq AnyId /\ Blocks \subseteq Ids
  BY ConsensusAssumption DEF ConsensusAssumption, Heights, Blocks, AnyId
<1>2. CASE ReceiveProposal(p)
  <2>1. PICK h \in Heights, r \in (0..MaxRound) \ Turns, b \in Blocks : \E pol \in -1..r :
          Receive([type |-> "proposal", height |-> h, round |-> r, block |-> b, pol |-> pol], p)
    BY Zenon, <1>2 DEF ReceiveProposal
  <2>2. PICK pol \in -1..r :
          Receive([type |-> "proposal", height |-> h, round |-> r, block |-> b, pol |-> pol], p)
    BY Zenon, <2>1
  <2>3. h \in Nat /\ r \in Nat /\ b \in AnyId /\ pol \in Int
    BY <1>1
  <2>4. [type |-> "proposal", height |-> h, round |-> r, block |-> b, pol |-> pol] \in ProposalMsgs
    BY Zenon, <2>3 DEF ProposalMsgs
  <2>5. PICK m \in ProposalMsgs : Receive(m, p)
    BY Zenon, <2>2, <2>4
  <2>6. m \in Msgs /\ m \notin VoteMsgs
    BY Zenon DEF Msgs, ProposalMsgs, VoteMsgs
  <2> QED BY Zenon, <2>5, <2>6
<1>3. CASE ReceivePart(p)
  <2>1. PICK h \in Heights, b \in Blocks : Receive([type |-> "part", height |-> h, block |-> b], p)
    BY Zenon, <1>3 DEF ReceivePart
  <2>2. h \in Nat /\ b \in AnyId
    BY Zenon, <1>1
  <2>3. [type |-> "part", height |-> h, block |-> b] \in PartMsgs
    BY Zenon, <2>2 DEF PartMsgs
  <2>4. PICK m \in PartMsgs : Receive(m, p)
    BY Zenon, <2>1, <2>3
  <2>5. m \in Msgs /\ m \notin VoteMsgs
    BY Zenon DEF Msgs, PartMsgs, VoteMsgs
  <2> QED BY Zenon, <2>4, <2>5
<1>4. CASE ReceiveVote(p)
  <2>1. PICK h \in Heights, r \in 0..MaxRound, k \in Kinds, v \in Validators \ {Self} :
          \E id \in Ballots[v] : \E res \in IF id = Nil THEN {"agree"} ELSE Verdicts \cap Results :
            /\ isVoteOf(v, h, r, k, [id |-> id, res |-> res])
            /\ Receive([type |-> "vote", height |-> h, round |-> r, kind |-> k, v |-> v,
                        id |-> id, res |-> res], p)
    BY Zenon, <1>4 DEF ReceiveVote
  <2>2. PICK id \in Ballots[v] : \E res \in IF id = Nil THEN {"agree"} ELSE Verdicts \cap Results :
            Receive([type |-> "vote", height |-> h, round |-> r, kind |-> k, v |-> v,
                     id |-> id, res |-> res], p)
    BY Zenon, <2>1
  <2>3. PICK res \in IF id = Nil THEN {"agree"} ELSE Verdicts \cap Results :
            Receive([type |-> "vote", height |-> h, round |-> r, kind |-> k, v |-> v,
                     id |-> id, res |-> res], p)
    BY Zenon, <2>2
  <2>4. h \in Nat /\ r \in Nat /\ k \in Kinds /\ v \in Validators
    BY Zenon, <1>1
  <2>5. id \in Ids
    BY Zenon, <2>4, ConsensusAssumption DEF ConsensusAssumption
  <2>6. res \in Results
    BY Zenon DEF Results
  <2>7. [type |-> "vote", height |-> h, round |-> r, kind |-> k, v |-> v, id |-> id, res |-> res] \in VoteMsgs
    BY Zenon, <2>4, <2>5, <2>6 DEF VoteMsgs
  <2>8. PICK m \in VoteMsgs : Receive(m, p) /\ m.v = v
    BY Zenon, <2>3, <2>7
  <2>9. m \in Msgs /\ m.v # Self
    BY Zenon, <2>8 DEF Msgs
  <2> QED BY Zenon, <2>8, <2>9
<1> QED BY Zenon, <1>2, <1>3, <1>4

\* Every step keeps NodeInv.
LEMMA NextNode ==
    ASSUME ParentsAreThere, NodeInv, [Next]_vars
    PROVE  NodeInv'
<1>0. running(cs) => Ready(cs) /\ Locked(cs)
  BY Zenon, FineRunning DEF NodeInv
<1>1. CASE HandleOwn
  BY Zenon, <1>1, HandleOwnNode
<1>2. ASSUME NEW p \in Peers, ReceiveProposal(p) \/ ReceivePart(p) \/ ReceiveVote(p)
      PROVE  NodeInv'
  <2>1. PICK m \in Msgs : Receive(m, p)
    BY Zenon, <1>2, OthersMessage
  <2> QED BY Zenon, <2>1, ReceiveNode
<1>3. CASE Timeout
  <2>1. running(cs) /\ cs.timer.armed /\ resets' = resets
    BY Zenon, <1>3 DEF Timeout
  <2>2. PICK w \in Worlds : cs' = handleTimeout([cs EXCEPT !.timer.armed = FALSE], w)
    BY Zenon, <1>3 DEF Timeout
  <2>3. Fine(cs') /\ (Timely(cs) /\ running(cs') => Timely(cs'))
    BY Zenon, <1>0, <2>1, <2>2, HandleTimeout
  <2> QED BY Zenon, <2>1, <2>3 DEF NodeInv
<1>4. CASE ChainAdvances
  <2>1. running(cs) /\ cs.chain < cs.height /\ resets' = resets /\ cs' = [cs EXCEPT !.chain = cs.chain + 1]
    BY Zenon, <1>4 DEF ChainAdvances
  <2>2. Fine(cs') /\ (Timely(cs) => Timely(cs'))
    BY Zenon, <1>0, <2>1, ChainGrows
  <2> QED BY Zenon, <2>1, <2>2 DEF NodeInv
<1>5. CASE SyncTask
  <2>1. running(cs) /\ cs.chain + 1 # cs.height /\ resets' = resets
    BY Zenon, <1>5 DEF SyncTask
  <2>2. running(updateToState(cs))
    BY Zenon, <1>0, <2>1, NextHeightReset
  <2>3. cs' = scheduleRound0(privReset(updateToState(cs)))
    BY Zenon, <1>5, <2>2 DEF SyncTask
  <2>4. Fine(cs') /\ Timely(cs')
    BY Zenon, <1>0, <2>1, <2>3, SyncStep
  <2> QED BY Zenon, <2>1, <2>4 DEF NodeInv
<1>6. CASE ValidatorUpdate
  <2> DEFINE u == updateToState(cs)
             r == IF u.height = cs.height /\ cs.round > 0 THEN cs.round + 1 ELSE 0
  <2>1. running(cs) /\ resets' = resets + 1
    BY Zenon, <1>6 DEF ValidatorUpdate
  <2>2. running(u)
    BY Zenon, <1>0, <2>1, NextHeightReset
  <2>3. PICK w \in Worlds : cs' = enterNewRound(privReset(u), r, w)
    BY Zenon, <1>6, <2>2 DEF ValidatorUpdate
  <2> HIDE DEF u
  <2>4. Fine(cs')
    BY Zenon, <1>0, <2>1, <2>3, UpdateStep DEF u
  <2>5. resets' \in Nat /\ resets' # 0
    BY <2>1 DEF NodeInv
  <2> QED BY Zenon, <2>4, <2>5 DEF NodeInv
<1>7. CASE Restart
  <2>1. cs' = started(cs.chain) /\ resets' = resets + 1
    BY Zenon, <1>7 DEF Restart
  <2>2. cs.chain \in Nat
    BY FineRunning DEF NodeInv, Nodes
  <2>3. Fine(cs')
    BY Zenon, <2>1, <2>2, Started
  <2>4. resets' \in Nat /\ resets' # 0
    BY <2>1 DEF NodeInv
  <2> QED BY Zenon, <2>3, <2>4 DEF NodeInv
<1>8. CASE UNCHANGED vars
  <2>1. cs' = cs /\ resets' = resets
    BY Zenon, <1>8 DEF vars
  <2> QED BY Zenon, <2>1 DEF NodeInv
<1> QED BY Zenon, <1>1, <1>2, <1>3, <1>4, <1>5, <1>6, <1>7, <1>8 DEF Next

\* The invariant of the node, for every committee, every distribution of power
\* and any number of heights, rounds, imports, committee updates and restarts
THEOREM NodeInvariant == ParentsAreThere => (Spec => []NodeInv)
<1> SUFFICES ASSUME ParentsAreThere PROVE Spec => []NodeInv
  BY Zenon
<1>1. NodeInv /\ [Next]_vars => NodeInv'
  BY Zenon, NextNode
<1> QED BY <1>1, InitNode, PTL DEF Spec

\* No assertion of enterNewRound (SetRound), enterPrevoteWait, enterPrecommit,
\* enterPrecommitWait, enterCommit and updateToState ever fails.
THEOREM ChecksHold == ParentsAreThere => (Spec => []SanityChecksHold)
<1>1. NodeInv => SanityChecksHold
  <2> SUFFICES ASSUME NodeInv PROVE SanityChecksHold
    BY Zenon
  <2>1. cs \in Nodes
    BY Zenon, FineRunning DEF NodeInv
  <2> QED BY Zenon, <2>1 DEF Nodes, Halts, SanityChecksHold
<1> QED BY <1>1, NodeInvariant, PTL

\* The node never asks its signer for what it has signed already or for
\* anything earlier.
THEOREM SignerIsAskedOnce == ParentsAreThere => (Spec => []SignerNeverRefuses)
<1>1. NodeInv => SignerNeverRefuses
  BY Zenon DEF NodeInv, Fine, Sane, Ready, Halted, SignerNeverRefuses
<1> QED BY <1>1, NodeInvariant, PTL

\* A lock rests on a polka of its round that no later polka the node knows of
\* contradicts, and the valid block has a polka too.
THEOREM LocksRestOnPolkas == ParentsAreThere => (Spec => []LockIsCurrent)
<1>1. NodeInv => LockIsCurrent
  <2> SUFFICES ASSUME NodeInv PROVE LockIsCurrent
    BY Zenon
  <2>1. cs \in Nodes /\ LockUpTo(cs, cs.round + 1)
    BY Zenon, FineRunning DEF NodeInv, Fine
  <2>2. cs.lock.round \in Nat /\ cs.round \in Nat
    BY Zenon, <2>1 DEF Nodes, Locks
  <2>3. \A r \in (cs.lock.round + 1)..cs.round : r \in Nat /\ cs.lock.round < r /\ r < cs.round + 1
    BY <2>2
  <2> QED BY Zenon, <2>1, <2>3 DEF LockUpTo, LockIsCurrent, polka
<1> QED BY <1>1, NodeInvariant, PTL

\* A node without a reset has the timeout of its step armed in every step that
\* a timeout ends.
THEOREM TimerIsArmed == ParentsAreThere => (Spec => []TimerCoversStep)
<1>1. NodeInv => TimerCoversStep
  BY Zenon DEF NodeInv, Timely, Covered, TimerCoversStep, RoundStepNewHeight, RoundStepNewRound,
         RoundStepPropose, RoundStepPrevoteWait, RoundStepPrecommitWait
<1> QED BY <1>1, NodeInvariant, PTL

===============================================================================
