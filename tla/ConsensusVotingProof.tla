------------------------- MODULE ConsensusVotingProof -------------------------
(***************************************************************************)
(* ConsensusState implements TBFTVoting, for every committee, distribution *)
(* of power, set of peers and of block ids, as long as the signer is not   *)
(* reset: what a vote adds and what the state machine does keep the node   *)
(* Honest, and so every step of it is a step of TBFTVoting.                *)
(***************************************************************************)
EXTENDS ConsensusHonestyProof

\* Leaves that name no prover are Zenon's.
USE Zenon

-----------------------------------------------------------------------------
(* Votes *)

\* A vote set counts one vote more for a block: the one added, and only with
\* the Result agree.
LEMMA AgreeingGrows ==
    ASSUME NEW s \in VoteSets, NEW v \in Validators, NEW vote \in [id : Ids, res : Results],
           NEW new, new = addVote(s, v, vote), NEW id \in Ids, NEW u \in Agreeing(new, id)
    PROVE  \/ u \in Agreeing(s, id)
           \/ u = v /\ id = vote.id /\ vote.res = "agree" /\ isAdded(s, v, vote)
<1> DEFINE S == share(s, v, vote)
           B == addToBlock(S.byBlock[vote.id], v, vote)
           T == [S EXCEPT !.byBlock[vote.id] = B]
           C == crowned(T, s.byBlock[vote.id].sum, vote.id)
<1>1. S.byBlock = s.byBlock
  BY SMT DEF share, VoteSets
<1>2. T.byBlock = [s.byBlock EXCEPT ![vote.id] = B]
  <2>1. "byBlock" \in DOMAIN S
    BY SMT DEF share, VoteSets
  <2> HIDE DEF S, B
  <2>2. T.byBlock = [S.byBlock EXCEPT ![vote.id] = B]
    BY SMT, <2>1
  <2> QED BY <1>1, <2>2
<1>3. C.byBlock = T.byBlock
  BY SMT DEF crowned, share, VoteSets
<1>4. new \in {s, S} \/ (isAdded(s, v, vote) /\ new = C)
  BY SMT DEF addVote, addVerifiedVote
<1>5. B.votes = [s.byBlock[vote.id].votes EXCEPT ![v] = vote]
  BY SMT, <1>1 DEF addToBlock, VoteSets, BlockVotes
<1> HIDE DEF S, B, T, C
<1>6. CASE new \in {s, S}
  BY <1>1, <1>6 DEF Agreeing
<1>7. CASE isAdded(s, v, vote) /\ new = C
  <2>1. u \in Validators /\ new.byBlock[id].votes[u].res = "agree"
    BY DEF Agreeing, AgreeingIn
  <2>2. CASE id # vote.id
    <3>1. new.byBlock[id] = s.byBlock[id]
      BY <1>2, <1>3, <1>7, <2>2 DEF VoteSets
    <3> QED BY <2>1, <3>1 DEF Agreeing, AgreeingIn
  <2>3. CASE id = vote.id
    <3>1. new.byBlock[id] = B /\ s.byBlock[id].votes \in [Validators -> Votes]
      BY SMT, <1>2, <1>3, <1>7, <2>3 DEF VoteSets, BlockVotes
    <3>2. CASE u = v
      BY <1>5, <1>7, <2>1, <2>3, <3>1, <3>2
    <3>3. CASE u # v
      <4>1. new.byBlock[id].votes[u] = s.byBlock[id].votes[u]
        BY <1>5, <2>1, <2>3, <3>1, <3>3
      <4> QED BY <2>1, <4>1 DEF Agreeing, AgreeingIn
    <3> QED BY <3>2, <3>3
  <2> QED BY <2>2, <2>3
<1> QED BY <1>4, <1>6, <1>7

\* A vote of height 1 that agrees and that this node adds is on record.
Recorded(s, m, o, rec) ==
    s.height = 1 /\ m.height = 1 /\ m.res = "agree" /\ Added(s.votes, m.round, m.kind, m.v, ballot(m), o)
        => <<m.v, m.round, m.id>> \in rec[m.kind]

\* What the vote sets count with one vote more
LEMMA CountedWithVote ==
    ASSUME NEW s \in Nodes, NEW m \in VoteMsgs, NEW o \in Origins, m.height = s.height,
           NEW g, g = AddVote(s.votes, m.round, m.kind, m.v, ballot(m), o),
           NEW rec, Counted(s, rec), Recorded(s, m, o, rec), s.height = 1,
           NEW r \in Nat, NEW k \in Kinds, NEW id \in Ids, NEW v \in Agreeing(getVoteSet(g, r, k), id)
    PROVE  <<v, r, id>> \in rec[k]
<1> DEFINE b == ballot(m)
           old == getVoteSet(s.votes, r, k)
<1>1. m.round \in Nat /\ m.kind \in Kinds /\ m.v \in Validators /\ b \in [id : Ids, res : Results]
      /\ b.id = m.id /\ b.res = m.res
  BY DEF VoteMsgs, ballot
<1>2. s.votes \in HVSets
  BY DEF Nodes
<1>3. g = AddVote(s.votes, m.round, m.kind, m.v, b, o)
  OBVIOUS
<1> HIDE DEF b
<1>4. /\ <<r, k>> # <<m.round, m.kind>> => getVoteSet(g, r, k) = old
      /\ \/ getVoteSet(g, m.round, m.kind) = getVoteSet(s.votes, m.round, m.kind)
         \/ /\ accepts(s.votes, m.round, o)
            /\ getVoteSet(g, m.round, m.kind) = addVote(getVoteSet(s.votes, m.round, m.kind), m.v, b)
  BY SMT, <1>1, <1>2, <1>3, AddVoteChangesOne
<1>5. CASE getVoteSet(g, r, k) = old
  BY <1>5 DEF Counted
<1>   CASE /\ r = m.round /\ k = m.kind /\ accepts(s.votes, m.round, o)
           /\ getVoteSet(g, r, k) = addVote(old, m.v, b)
  <2>1. old \in VoteSets
    BY <1>2, SetsAreGood DEF GoodSets
  <2>2. \/ v \in Agreeing(old, id)
        \/ v = m.v /\ id = b.id /\ b.res = "agree" /\ isAdded(old, m.v, b)
    <3> HIDE DEF old
    <3> QED BY <1>1, <2>1, AgreeingGrows
  <2> CASE v \in Agreeing(old, id)
    BY DEF Counted
  <2> CASE v = m.v /\ id = b.id /\ b.res = "agree" /\ isAdded(old, m.v, b)
    <3>1. Added(s.votes, m.round, m.kind, m.v, ballot(m), o)
      BY DEF Added, b
    <3> QED BY <1>1, <3>1 DEF Recorded
  <2> QED BY <2>2
<1> QED BY <1>4, <1>5

\* A vote of any round is added.
LEMMA VoteCountedHonest ==
    ASSUME NEW s, Ready(s), Locked(s), NEW m \in VoteMsgs, NEW o \in Origins, m.height = s.height,
           NEW g, g = AddVote(s.votes, m.round, m.kind, m.v, ballot(m), o),
           NEW t, t = [s EXCEPT !.votes = g],
           NEW rec, NEW D, Honest(s, rec, D), Recorded(s, m, o, rec)
    PROVE  Honest(t, rec, D)
<1>1. s \in Nodes
  BY DEF Ready
<1>2. \A q \in Nat : polka(s, q) # NoId => polka(t, q) = polka(s, q)
  BY SMT, VoteCounted
<1>   /\ t.height = s.height /\ t.round = s.round /\ t.lock = s.lock /\ t.queue = s.queue
      /\ t.signer = s.signer /\ t.stored = s.stored /\ t.votes = g
  BY <1>1 DEF Nodes
<1>   /\ Pending(t) = Pending(s)
      /\ \A k, r, x : Casts(t, rec, k, r, x) <=> Casts(s, rec, k, r, x)
  BY SameQueue
<1>5. InOrder(t, rec)
  BY DEF Honest, InOrder
<1>6. Justified(t, rec)
  BY DEF Honest, Justified
<1>7. Holds(t, rec)
  BY <1>2 DEF Honest, Holds, HeldFor
<1>8. Counted(t, rec)
  <2> SUFFICES ASSUME t.height = 1, NEW r \in Nat, NEW k \in Kinds, NEW id \in Ids,
                      NEW v \in Agreeing(getVoteSet(t.votes, r, k), id)
               PROVE  <<v, r, id>> \in rec[k]
    BY DEF Counted
  <2>1. s.height = 1 /\ v \in Agreeing(getVoteSet(g, r, k), id)
    OBVIOUS
  <2> QED BY <1>1, <2>1, CountedWithVote DEF Honest
<1>9. Keeps(t, rec, D)
  BY DEF Honest, Keeps, At1
<1> QED BY <1>5, <1>6, <1>7, <1>8, <1>9 DEF Honest

\* addVote, with all that follows
LEMMA AddVoteMsgHonest ==
    ASSUME VerdictsAreGiven, ParentsAreThere, NEW s, Ready(s), Locked(s), NEW m \in VoteMsgs,
           NEW o \in Origins, NEW w \in Worlds, NEW rec, NEW D, Honest(s, rec, D),
           Recorded(s, m, o, rec), NEW x, x = addVoteMsg(s, m, o, w)
    PROVE  Honest(x, rec, D)
<1> DEFINE b == ballot(m)
           g == AddVote(s.votes, m.round, m.kind, m.v, b, o)
           t == [s EXCEPT !.votes = g]
<1>1. m.round \in Nat /\ m.kind \in Kinds
  BY DEF VoteMsgs
<1>2. x = IF m.height + 1 = s.height THEN lateCommitVote(s, m, w)
          ELSE IF m.height # s.height THEN s
          ELSE IF ~Added(s.votes, m.round, m.kind, m.v, b, o) THEN t
          ELSE IF m.kind = "prevote" THEN prevoteAdded(t, m.round, w)
          ELSE precommitAdded(t, m.round, w)
  BY DEF addVoteMsg
<1>   /\ Ready(t)
      /\ m.kind = "prevote" => LockedBut(t, m.round)
      /\ m.kind # "prevote" => Locked(t)
  BY SMT, VoteCounted
<1> m.height = s.height => Honest(t, rec, D)
  <2>1. g = AddVote(s.votes, m.round, m.kind, m.v, ballot(m), o)
    OBVIOUS
  <2> HIDE DEF g
  <2> QED BY SMT, <2>1, VoteCountedHonest
<1> HIDE DEF b, t
<1> CASE x = lateCommitVote(s, m, w)
  BY LateCommitVoteHonest
<1> CASE m.height = s.height /\ m.kind = "prevote" /\ x = prevoteAdded(t, m.round, w)
  BY <1>1, PrevoteAddedHonest
<1> CASE m.height = s.height /\ m.kind # "prevote" /\ x = precommitAdded(t, m.round, w)
  BY <1>1, PrecommitAddedHonest
<1> QED BY <1>2

\* handleMsg
LEMMA HandleMsgHonest ==
    ASSUME VerdictsAreGiven, ParentsAreThere, NEW s, Ready(s), Locked(s), NEW m \in Msgs,
           NEW o \in Origins, NEW w \in Worlds, NEW rec, NEW D, Honest(s, rec, D),
           m \in VoteMsgs => Recorded(s, m, o, rec), NEW x, x = handleMsg(s, m, o, w)
    PROVE  Honest(x, rec, D)
<1>1. CASE m \in VoteMsgs
  <2>1. m.type = "vote"
    BY <1>1 DEF VoteMsgs
  <2>2. x = addVoteMsg(s, m, o, w)
    BY <2>1 DEF handleMsg
  <2> QED BY <1>1, <2>2, AddVoteMsgHonest
<1> CASE m \in ProposalMsgs
  <2>1. m.type = "proposal"
    BY DEF ProposalMsgs
  <2>2. x = setProposal(s, m) /\ s \in Nodes
    BY <2>1 DEF handleMsg, Ready
  <2>3. x \in Nodes
    BY <2>2, SetProposal, FineRunning
  <2> QED BY <2>2, <2>3, SetProposalHonest
<1> CASE m \in PartMsgs
  <2>1. m.type = "part"
    BY DEF PartMsgs
  <2>2. x = addProposalBlockPart(s, m, w)
    BY <2>1 DEF handleMsg
  <2> QED BY <2>2, AddProposalBlockPartHonest
<1> QED BY <1>1 DEF Msgs

-----------------------------------------------------------------------------
(* Timeouts, the chain and the next height *)

\* handleTimeout
LEMMA HandleTimeoutHonest ==
    ASSUME VerdictsAreGiven, NEW c, Ready(c), Locked(c), c.timer.armed, NEW w \in Worlds,
           NEW rec, NEW D, Honest(c, rec, D),
           NEW x, x = handleTimeout([c EXCEPT !.timer.armed = FALSE], w)
    PROVE  Honest(x, rec, D)
<1> DEFINE s == [c EXCEPT !.timer.armed = FALSE]
<1>1. /\ Ready(s) /\ Locked(s) /\ s.timer.height = c.timer.height /\ s.timer.round = c.timer.round
      /\ s.timer.step = c.timer.step /\ s.timer.wait = c.timer.wait
      /\ s.height = c.height /\ s.round = c.round /\ s.step = c.step
  BY Disarmed
<1>2. s \in Nodes /\ c \in Nodes
  BY <1>1 DEF Ready
<1>3. /\ s.height = c.height /\ s.round = c.round /\ s.lock = c.lock /\ s.votes = c.votes
      /\ s.queue = c.queue /\ s.signer = c.signer /\ s.stored = c.stored
  BY <1>2 DEF Nodes
<1> HIDE DEF s
<1>4. Honest(s, rec, D)
  BY <1>2, <1>3, SteadyAlike, StaysHonest
<1>5. x = handleTimeout(s, w)
  BY DEF s
<1>6. /\ s.timer \in Timers /\ s.round \in Nat /\ s.step \in Steps /\ running(s)
      /\ TimerUpTo(s, s.round) /\ s.timer.round \in Nat /\ s.timer.wait \in Nat /\ s.height \in Nat
  BY <1>1 DEF Ready, Nodes, Timers
<1>7. s.timer.step \in {1, 2, 3, 5, 7} /\ s.timer.wait > 0
  BY <1>1 DEF Ready, TimerUpTo
<1> DEFINE early == \/ s.timer.height # s.height \/ s.timer.round < s.round
                    \/ s.timer.round = s.round /\ s.timer.step < s.step
<1>8. CASE early
  <2>1. x = s
    BY <1>5, <1>8 DEF handleTimeout
  <2> QED BY <1>4, <2>1
<1>9. CASE ~early
  <2>1. s.timer.height = s.height /\ s.timer.round = s.round /\ s.timer.step >= s.step
    BY SMT, <1>6, <1>7, <1>9 DEF TimerUpTo, Steps
  <2>2. x = CASE s.timer.step = 1 -> enterNewRound(s, 0, w)
              [] s.timer.step = 2 -> tryEnterProposal(s, 0, s.timer.wait, w)
              [] s.timer.step = 3 -> enterPrevote(s, s.timer.round, w)
              [] s.timer.step = 5 -> enterPrecommit(s, s.timer.round, w)
              [] s.timer.step = 7 -> enterNewRound(s, s.timer.round + 1, w)
    BY <1>5, <1>9 DEF handleTimeout, RoundStepNewHeight, RoundStepNewRound,
       RoundStepPropose, RoundStepPrevoteWait, RoundStepPrecommitWait
  <2>3. CASE s.timer.step = 1
    <3>1. x = enterNewRound(s, 0, w) /\ 0 \in Nat
      BY SMT, <2>2, <2>3
    <3> QED BY <1>1, <1>4, <3>1, EnterNewRoundHonest
  <2>4. CASE s.timer.step = 2
    <3>1. x = tryEnterProposal(s, 0, s.timer.wait, w)
      BY SMT, <2>2, <2>4
    <3>2. s.step < RoundStepPropose
      BY SMT, <1>6, <2>1, <2>4 DEF Steps, RoundStepPropose
    <3> CASE s.round = 0
      <4>1. x = tryEnterProposal(s, s.round, s.timer.wait, w) /\ Unpolled(s)
        BY <3>1 DEF Unpolled
      <4> QED BY <1>1, <1>4, <1>6, <1>7, <3>2, <4>1, TryEnterProposalHonest
    <3> CASE s.round # 0
      <4>1. x = s
        BY SMT, <1>6, <3>1 DEF tryEnterProposal, mayEnter
      <4> QED BY <1>4, <4>1
    <3> QED OBVIOUS
  <2>5. CASE s.timer.step = 3
    <3>1. x = enterPrevote(s, s.round, w)
      BY SMT, <2>1, <2>2, <2>5
    <3> QED BY <1>1, <1>4, <3>1, PrevoteHonest
  <2> CASE s.timer.step = 5
    <3>1. x = enterPrecommit(s, s.round, w)
      BY SMT, <2>1, <2>2
    <3> QED BY <1>1, <1>4, <3>1, EnterPrecommitHonest
  <2> CASE s.timer.step = 7
    <3>1. PICK r \in Nat : r = s.round + 1
      BY SMT, <1>6
    <3>2. x = enterNewRound(s, r, w)
      BY SMT, <2>1, <2>2, <3>1
    <3> QED BY <1>1, <1>4, <3>2, EnterNewRoundHonest
  <2> QED BY <1>7, <2>3, <2>4, <2>5
<1> QED BY <1>8, <1>9

\* updateStateForSync: the node leaves its height.
LEMMA SyncHonest ==
    ASSUME NEW c, Ready(c), c.chain + 1 # c.height, NEW rec, NEW D, Honest(c, rec, D),
           NEW t, t = scheduleRound0(privReset(updateToState(c)))
    PROVE  Honest(t, rec, D)
<1> DEFINE u == updateToState(c)
           x == privReset(u)
<1>1. c \in Nodes /\ ChainOK(c) /\ c.height \in Nat /\ c.chain \in Nat /\ CommitOK(c)
  BY DEF Ready, Control, Nodes
<1>2. u \in Nodes /\ NextHeight(c, u)
  BY <1>1, UpdateToState
<1>3. x \in Nodes
  BY NextHeightReset
<1> HIDE DEF u
<1>4. x.height = u.height /\ x.queue = u.queue /\ x.stored = u.stored
  BY <1>2 DEF privReset, Nodes
<1> HIDE DEF x
<1>5. t.height = x.height /\ t.queue = x.queue /\ t.stored = x.stored
  <2>1. 0 \in Nat /\ 1 \in Nat /\ RoundStepNewHeight \in {1, 2, 3, 5, 7}
    BY DEF RoundStepNewHeight
  <2>2. t = scheduleTimeout(x, 0, RoundStepNewHeight, 1)
    BY DEF scheduleRound0, x, u
  <2>3. Scheduled(x, t, 0, RoundStepNewHeight, 1)
    BY <1>3, <2>1, <2>2, ScheduleTimeout
  <2>4. OnlyTimer(x, t)
    BY <2>3 DEF Scheduled
  <2> QED BY <1>3, <2>4 DEF OnlyTimer, Nodes
<1> t.height = c.chain + 1 /\ t.queue = c.queue /\ t.stored = c.stored
  BY <1>2, <1>4, <1>5 DEF NextHeight
<1> t.height # 1
  BY SMT, <1>1 DEF ChainOK
<1>8. Keeps(t, rec, D)
  BY DEF Honest, Keeps, At1
<1> QED BY <1>8, LeavesHonest

\* A block that reaches the chain from elsewhere
LEMMA ChainGrowsHonest ==
    ASSUME NEW c \in Nodes, NEW rec, NEW D, Honest(c, rec, D), NEW n, NEW t,
           t = [c EXCEPT !.chain = n], t \in Nodes
    PROVE  Honest(t, rec, D)
<1>1. /\ t.height = c.height /\ t.round = c.round /\ t.lock = c.lock /\ t.votes = c.votes
      /\ t.queue = c.queue /\ t.signer = c.signer /\ t.stored = c.stored
  BY DEF Nodes
<1> QED BY <1>1, SteadyAlike, StaysHonest

-----------------------------------------------------------------------------
(* The record grows *)

\* More votes on record make the polkas and the commits more.
LEMMA RecordGrows ==
    ASSUME NEW rec, NEW new, \A k \in Kinds : rec[k] \subseteq new[k]
    PROVE  /\ \A r, x : PolkaOn(rec, r, x) => PolkaOn(new, r, x)
           /\ \A r, b : CommitOn(rec, r, b) => CommitOn(new, r, b)
<1>1. ASSUME NEW k \in Kinds, NEW r, NEW x, IsQuorum(VotersOn(rec, k, r, x))
      PROVE  IsQuorum(VotersOn(new, k, r, x))
  <2> DEFINE A == VotersOn(rec, k, r, x)
             B == VotersOn(new, k, r, x)
  <2>1. A \subseteq B /\ A \in SUBSET Validators /\ B \in SUBSET Validators
    BY DEF VotersOn
  <2> HIDE DEF A, B
  <2>2. PowerOf[A] \in Nat /\ PowerOf[B] \in Nat /\ PowerOf[A] =< PowerOf[B]
    BY <2>1, PowerMonotone
  <2>3. IsQuorum(A) /\ quorum \in Nat
    BY <1>1, QuorumIsTwoThirds DEF A
  <2>4. IsQuorum(B)
    BY SMT, <2>2, <2>3 DEF IsQuorum
  <2> QED BY <2>4 DEF B
<1>2. "prevote" \in Kinds /\ "precommit" \in Kinds
  BY DEF Kinds
<1> QED BY <1>1, <1>2 DEF PolkaOn, CommitOn

\* The record may grow as long as the order of the own votes stays.
LEMMA MoreOnRecord ==
    ASSUME NEW s, NEW t, NEW rec, NEW new, NEW D, Honest(s, rec, D),
           \A k \in Kinds : rec[k] \subseteq new[k],
           \A k \in Kinds, r \in Nat, x \in Ids : Casts(t, new, k, r, x) => Casts(s, rec, k, r, x),
           t.height = s.height, t.round = s.round, t.lock = s.lock, t.votes = s.votes,
           t.signer = s.signer, t.stored = s.stored,
           \A i \in Pending(t) : t.queue[i].v = Self,
           \A i, j \in Pending(t) : i < j =>
              place(t.queue[i].round, t.queue[i].kind) < place(t.queue[j].round, t.queue[j].kind),
           \A k \in Kinds, r \in Nat, x \in Ids : <<Self, r, x>> \in new[k] =>
              \A i \in Pending(t) : place(r, k) < place(t.queue[i].round, t.queue[i].kind)
    PROVE  Honest(t, new, D)
<1>1. /\ \A r, x : PolkaOn(rec, r, x) => PolkaOn(new, r, x)
      /\ \A r, b : CommitOn(rec, r, b) => CommitOn(new, r, b)
  BY RecordGrows
<1>2. "prevote" \in Kinds /\ "precommit" \in Kinds
  BY DEF Kinds
<1>3. InOrder(t, new)
  BY DEF Honest, InOrder
<1>4. Justified(t, new)
  <2> SUFFICES ASSUME NEW c \in Nat, NEW b \in Blocks, Casts(t, new, "precommit", c, b)
               PROVE  /\ PolkaOn(new, c, b)
                      /\ \A r \in Nat, x \in Ids \ {b} :
                            c < r /\ Casts(t, new, "prevote", r, x) => Overruled(new, c, r, b)
    BY DEF Justified
  <2>1. Casts(s, rec, "precommit", c, b)
    BY <1>2, BlockIds
  <2>2. PolkaOn(new, c, b)
    BY <1>1, <2>1 DEF Honest, Justified
  <2>   ASSUME NEW r \in Nat, NEW x \in Ids \ {b}, c < r, Casts(t, new, "prevote", r, x)
        PROVE  Overruled(new, c, r, b)
    <3>1. Casts(s, rec, "prevote", r, x)
      BY <1>2
    <3>2. Overruled(rec, c, r, b)
      BY <2>1, <3>1 DEF Honest, Justified
    <3> QED BY <1>1, <3>2 DEF Overruled
  <2> QED BY <2>2
<1>5. Holds(t, new)
  <2> SUFFICES ASSUME t.height = 1, NEW c \in Nat, NEW b \in Blocks,
                      Casts(t, new, "precommit", c, b)
               PROVE  c =< t.round /\ HeldFor(t, c, b)
    BY DEF Holds
  <2>1. Casts(s, rec, "precommit", c, b)
    BY <1>2, BlockIds
  <2>2. c =< s.round /\ HeldFor(s, c, b)
    BY <2>1 DEF Honest, Holds
  <2> QED BY <2>2 DEF HeldFor, polka
<1>6. Counted(t, new)
  BY DEF Honest, Counted
<1>7. Keeps(t, new, D)
  BY <1>1 DEF Honest, Keeps, At1
<1> QED BY <1>3, <1>4, <1>5, <1>6, <1>7 DEF Honest

-----------------------------------------------------------------------------
(* Own votes leave the queue, votes of others arrive *)

\* What is in the queue once its first message is taken out
LEMMA QueueShrinks ==
    ASSUME NEW q \in Seq(Msgs), q # <<>>, NEW p, p = Tail(q)
    PROVE  /\ 1 \in DOMAIN q /\ Head(q) = q[1] /\ Head(q) \in Msgs /\ p \in Seq(Msgs)
           /\ \A i \in DOMAIN p : i \in Nat /\ i + 1 \in DOMAIN q /\ p[i] = q[i + 1] /\ 1 < i + 1
           /\ \A i, j \in DOMAIN p : i < j => i + 1 < j + 1
<1>1. Len(q) \in Nat /\ Len(q) > 0 /\ DOMAIN q = 1..Len(q) /\ Len(p) = Len(q) - 1
      /\ DOMAIN p = 1..Len(p) /\ p \in Seq(Msgs)
  BY SMT
<1>2. \A i \in 1..Len(p) : p[i] = q[i + 1]
  BY SMT
<1> QED BY SMT, <1>1, <1>2

\* rec with the vote m as well
With(rec, m) == [rec EXCEPT ![m.kind] = @ \cup {<<m.v, m.round, m.id>>}]

\* new has no other vote than rec and m.
Gains(rec, new, m) ==
    \A k \in Kinds :
        /\ rec[k] \subseteq new[k]
        /\ \A v, r, x : <<v, r, x>> \in new[k] =>
              <<v, r, x>> \in rec[k] \/ (k = m.kind /\ v = m.v /\ r = m.round /\ x = m.id)

\* One vote more is on record.
LEMMA WithOneMore ==
    ASSUME NEW rec \in Records, NEW m \in VoteMsgs, NEW new, new = With(rec, m)
    PROVE  new \in Records /\ Gains(rec, new, m) /\ <<m.v, m.round, m.id>> \in new[m.kind]
<1> m.kind \in Kinds /\ m.v \in Validators /\ m.round \in Nat /\ m.id \in Ids
  BY DEF VoteMsgs
<1>2. DOMAIN rec = Kinds
  BY DEF Records
<1> new[m.kind] = rec[m.kind] \cup {<<m.v, m.round, m.id>>}
  BY <1>2 DEF With
<1>4. \A k \in Kinds : k # m.kind => new[k] = rec[k]
  BY <1>2 DEF With
<1>5. <<m.v, m.round, m.id>> \in Validators \X Nat \X Ids
  OBVIOUS
<1>6. new \in Records
  <2>1. rec[m.kind] \cup {<<m.v, m.round, m.id>>} \in SUBSET (Validators \X Nat \X Ids)
    BY <1>5 DEF Records
  <2> QED BY <2>1 DEF With, Records
<1>   ASSUME NEW k \in Kinds, NEW v, NEW r, NEW x, <<v, r, x>> \in new[k], <<v, r, x>> \notin rec[k]
      PROVE  k = m.kind /\ v = m.v /\ r = m.round /\ x = m.id
  <2>1. k = m.kind
    BY <1>4
  <2>2. <<v, r, x>> = <<m.v, m.round, m.id>>
    BY <2>1
  <2> QED BY SMT, <2>1, <2>2
<1>8. \A k \in Kinds : rec[k] \subseteq new[k]
  BY <1>4
<1> QED BY <1>6, <1>8 DEF Gains

\* The first message of the queue is taken out; if it is a vote of height 1,
\* it may go on record.
LEMMA TakesOut ==
    ASSUME NEW s \in Nodes, s.queue # <<>>, NEW m, m = Head(s.queue),
           NEW t, t = [s EXCEPT !.queue = Tail(s.queue)],
           NEW rec, NEW D, Honest(s, rec, D), NEW new, Gains(rec, new, m),
           new = rec \/ IsPending(m)
    PROVE  Honest(t, new, D)
<1> DEFINE q == s.queue
           p == Tail(q)
<1>1. q \in Seq(Msgs)
  BY DEF Nodes
<1>2. /\ 1 \in DOMAIN q /\ m = q[1]
      /\ \A i \in DOMAIN p : i \in Nat /\ i + 1 \in DOMAIN q /\ p[i] = q[i + 1] /\ 1 < i + 1
      /\ \A i, j \in DOMAIN p : i < j => i + 1 < j + 1
  BY <1>1, QueueShrinks
<1>3. /\ t.height = s.height /\ t.round = s.round /\ t.lock = s.lock /\ t.votes = s.votes
      /\ t.signer = s.signer /\ t.stored = s.stored /\ t.queue = p
  BY DEF Nodes
<1> HIDE DEF p
<1>4. ASSUME NEW i \in Pending(t)
      PROVE  i + 1 \in Pending(s) /\ t.queue[i] = s.queue[i + 1] /\ i \in DOMAIN p /\ 1 < i + 1
  BY <1>2, <1>3 DEF Pending
<1>5. IsPending(m) => 1 \in Pending(s) /\ s.queue[1] = m
  BY <1>2 DEF Pending, IsPending
<1>6. ASSUME NEW k \in Kinds, NEW v, NEW r, NEW x, <<v, r, x>> \in new[k]
      PROVE  \/ <<v, r, x>> \in rec[k]
             \/ IsPending(m) /\ k = m.kind /\ v = m.v /\ r = m.round /\ x = m.id
  BY <1>6 DEF Gains
<1>7. \A k \in Kinds : rec[k] \subseteq new[k]
  BY DEF Gains
<1>8. ASSUME NEW k \in Kinds, NEW r \in Nat, NEW x \in Ids, Casts(t, new, k, r, x)
      PROVE  Casts(s, rec, k, r, x)
  <2>1. CASE <<Self, r, x>> \in new[k]
    BY <1>5, <1>6, <2>1 DEF Casts
  <2>2. CASE \E i \in Pending(t) :
                t.queue[i].kind = k /\ t.queue[i].round = r /\ t.queue[i].id = x
    BY <1>4, <2>2 DEF Casts
  <2> QED BY <1>8, <2>1, <2>2 DEF Casts
<1>9. \A i \in Pending(t) : t.queue[i].v = Self
  BY <1>4 DEF Honest, InOrder
<1>10. \A i, j \in Pending(t) : i < j =>
          place(t.queue[i].round, t.queue[i].kind) < place(t.queue[j].round, t.queue[j].kind)
  <2> SUFFICES ASSUME NEW i \in Pending(t), NEW j \in Pending(t), i < j
               PROVE  place(t.queue[i].round, t.queue[i].kind)
                        < place(t.queue[j].round, t.queue[j].kind)
    OBVIOUS
  <2>1. /\ i + 1 \in Pending(s) /\ t.queue[i] = s.queue[i + 1]
        /\ j + 1 \in Pending(s) /\ t.queue[j] = s.queue[j + 1]
    BY <1>4
  <2>2. i + 1 < j + 1
    BY <1>2, <1>4
  <2> QED BY <2>1, <2>2 DEF Honest, InOrder
<1>11. ASSUME NEW k \in Kinds, NEW r \in Nat, NEW x \in Ids, <<Self, r, x>> \in new[k],
              NEW i \in Pending(t)
       PROVE  place(r, k) < place(t.queue[i].round, t.queue[i].kind)
  <2>1. i + 1 \in Pending(s) /\ t.queue[i] = s.queue[i + 1] /\ 1 < i + 1
    BY <1>4
  <2>2. CASE <<Self, r, x>> \in rec[k]
    BY <2>1, <2>2 DEF Honest, InOrder
  <2>3. CASE IsPending(m) /\ k = m.kind /\ r = m.round
    BY <1>5, <2>1, <2>3 DEF Honest, InOrder
  <2> QED BY <1>6, <1>11, <2>2, <2>3
<1> QED BY <1>3, <1>7, <1>8, <1>9, <1>10, <1>11, MoreOnRecord

\* The vote of another validator goes on record.
LEMMA OthersVote ==
    ASSUME NEW s, NEW m, NEW rec, NEW D, Honest(s, rec, D), NEW new, Gains(rec, new, m),
           new = rec \/ m.v # Self
    PROVE  Honest(s, new, D)
<1>   ASSUME NEW k \in Kinds, NEW r, NEW x, <<Self, r, x>> \in new[k]
      PROVE  <<Self, r, x>> \in rec[k]
  BY DEF Gains
<1>2. \A k \in Kinds : rec[k] \subseteq new[k]
  BY DEF Gains
<1>3. \A k \in Kinds, r \in Nat, x \in Ids : Casts(s, new, k, r, x) => Casts(s, rec, k, r, x)
  BY DEF Casts
<1>4. /\ \A i \in Pending(s) : s.queue[i].v = Self
      /\ \A i, j \in Pending(s) : i < j =>
            place(s.queue[i].round, s.queue[i].kind) < place(s.queue[j].round, s.queue[j].kind)
      /\ \A k \in Kinds, r \in Nat, x \in Ids : <<Self, r, x>> \in new[k] =>
            \A i \in Pending(s) : place(r, k) < place(s.queue[i].round, s.queue[i].kind)
  BY DEF Honest, InOrder
<1> QED BY <1>2, <1>3, <1>4, MoreOnRecord

-----------------------------------------------------------------------------
(* The state machine *)

\* A new vote of the node: after all its others, for nothing that its lock is
\* against, and a precommit for a block with a polka
OwnVote(rec, k, r, x) ==
    /\ \A j \in Kinds, q \in Nat, y \in Ids : <<Self, q, y>> \in rec[j] => place(q, j) < place(r, k)
    /\ k = "prevote" => \A c \in Nat, b \in Blocks \ {x} :
          c < r /\ <<Self, c, b>> \in rec["precommit"] => Overruled(rec, c, r, b)
    /\ k = "precommit" /\ x \in Blocks => PolkaOn(rec, r, x)

\* One vote goes on record at most, and by the rules if it is the node's.
Follows(rec, new) ==
    new = rec \/ \E m \in VoteMsgs : /\ new = With(rec, m)
                                     /\ m.v = Self => OwnVote(rec, m.kind, m.round, m.id)

\* The inductive invariant
VotesInv == /\ NodeInv
            /\ resets = 0
            /\ record \in Records
            /\ Honest(cs, record, At1(cs))

\* What a step does to the votes on record and to the block store
VotesStep == /\ record' \in Records
             /\ Follows(record, record')
             /\ Honest(cs', record', At1(cs))

\* What is stored now is what was stored in the next step.
LEMMA StoreAnew ==
    ASSUME NEW s, NEW rec, NEW D, Honest(s, rec, D)
    PROVE  Honest(s, rec, At1(s))
BY DEF Honest, Keeps

\* The empty vote sets of a new height count nothing.
LEMMA NothingCounted ==
    ASSUME NEW r, NEW k \in Kinds, NEW id \in Ids
    PROVE  Agreeing(getVoteSet(NewHeightVoteSet, r, k), id) = {}
<1>1. newRound[k] = NewVoteSet
  BY DEF newRound
<1>2. NewHeightVoteSet.sets = [q \in {0} |-> newRound]
  BY DEF NewHeightVoteSet
<1>3. getVoteSet(NewHeightVoteSet, r, k) = NewVoteSet
  BY <1>1, <1>2 DEF getVoteSet, Tracked
<1>4. \A v \in Validators : NewVoteSet.byBlock[id].votes[v] = NoVote
  BY DEF NewVoteSet, newBlockVotes
<1>5. NoVote.res # "agree"
  BY SMT DEF NoVote
<1> QED BY <1>3, <1>4, <1>5 DEF Agreeing, AgreeingIn

\* VotesInv holds at the start.
LEMMA InitVotes == Init => VotesInv
<1> SUFFICES ASSUME Init PROVE VotesInv
  OBVIOUS
<1>1. cs = started(0) /\ record = [k \in Kinds |-> {}] /\ resets = 0
  BY DEF Init
<1>2. NodeInv
  BY InitNode
<1> record \in Records /\ \A k \in Kinds : record[k] = {}
  BY <1>1 DEF Records
<1>4. cs.queue = <<>> /\ cs.stored = {} /\ cs.votes = NewHeightVoteSet
  BY SMT, <1>1 DEF started, scheduleRound0, scheduleTimeout
<1>5. "prevote" \in Kinds /\ "precommit" \in Kinds
  BY DEF Kinds
<1> Pending(cs) = {} /\ At1(cs) = {}
  BY SMT, <1>4 DEF Pending, At1
<1> \A k \in Kinds : \A r, x : ~Casts(cs, record, k, r, x)
  BY DEF Casts
<1>8. InOrder(cs, record)
  BY DEF InOrder
<1>9. Justified(cs, record) /\ Holds(cs, record)
  BY <1>5 DEF Justified, Holds
<1>10. Counted(cs, record)
  BY <1>4, NothingCounted DEF Counted
<1>11. Keeps(cs, record, At1(cs))
  BY DEF Keeps
<1> QED BY <1>1, <1>2, <1>8, <1>9, <1>10, <1>11 DEF VotesInv, Honest

\* What a message puts on record
LEMMA RecordAfter ==
    ASSUME record \in Records, NEW m \in Msgs, NEW o \in Origins, NEW new, new = recordAfter(m, o)
    PROVE  /\ new \in Records /\ Gains(record, new, m)
           /\ new = record \/ (m \in VoteMsgs /\ IsPending(m) /\ new = With(record, m))
           /\ m \in VoteMsgs => Recorded(cs, m, o, new)
<1> DEFINE hit == /\ m.type = "vote" /\ m.height = 1 /\ m.res = "agree"
                  /\ \/ cs.height = 1 /\ Added(cs.votes, m.round, m.kind, m.v, ballot(m), o)
                     \/ /\ cs.height = 2 /\ cs.step = RoundStepNewHeight /\ m.kind = "precommit"
                        /\ cs.lastCommit # NoId
                        /\ cs.lastCommit.round = m.round /\ isAdded(cs.lastCommit.set, m.v, ballot(m))
<1>1. new = IF hit THEN With(record, m) ELSE record
  BY DEF recordAfter, With
<1> CASE hit
  <2>1. m \in VoteMsgs
    BY DEF Msgs, VoteMsgs, ProposalMsgs, PartMsgs
  <2>2. new = With(record, m)
    BY <1>1
  <2>3. IsPending(m)
    BY DEF IsPending
  <2> HIDE DEF hit
  <2>4. new \in Records /\ Gains(record, new, m) /\ <<m.v, m.round, m.id>> \in new[m.kind]
    BY <2>1, <2>2, WithOneMore
  <2> QED BY <2>1, <2>2, <2>3, <2>4 DEF Recorded
<1> CASE ~hit
  <2>1. new = record
    BY <1>1
  <2>2. Gains(record, new, m)
    BY <2>1 DEF Gains
  <2>3. m \in VoteMsgs => Recorded(cs, m, o, new)
    <3>1. m \in VoteMsgs => m.type = "vote"
      BY DEF VoteMsgs
    <3> QED BY <3>1 DEF Recorded
  <2> QED BY <2>1, <2>2, <2>3
<1> QED OBVIOUS

\* The node's first pending vote may go on record.
LEMMA OwnVoteFollows ==
    ASSUME NEW s \in Nodes, s.queue # <<>>, NEW m \in VoteMsgs, m = Head(s.queue), IsPending(m),
           NEW rec, InOrder(s, rec), Justified(s, rec)
    PROVE  OwnVote(rec, m.kind, m.round, m.id)
<1> m.round \in Nat /\ m.kind \in Kinds /\ m.id \in Ids
  BY DEF VoteMsgs
<1>2. 1 \in Pending(s) /\ s.queue[1] = m
  <2>1. s.queue \in Seq(Msgs)
    BY DEF Nodes
  <2>2. 1 \in DOMAIN s.queue /\ Head(s.queue) = s.queue[1]
    BY <2>1, QueueShrinks
  <2> QED BY <2>2 DEF Pending, IsPending
<1> Casts(s, rec, m.kind, m.round, m.id)
  BY <1>2 DEF Casts
<1>4. \A j \in Kinds, q \in Nat, y \in Ids :
        <<Self, q, y>> \in rec[j] => place(q, j) < place(m.round, m.kind)
  BY <1>2 DEF InOrder
<1>   ASSUME m.kind = "prevote", NEW c \in Nat, NEW b \in Blocks \ {m.id}, c < m.round,
             <<Self, c, b>> \in rec["precommit"]
      PROVE  Overruled(rec, c, m.round, b)
  <2>1. Casts(s, rec, "precommit", c, b) /\ Casts(s, rec, "prevote", m.round, m.id)
    BY DEF Casts
  <2>2. m.id \in Ids \ {b}
    OBVIOUS
  <2> QED BY <2>1, <2>2 DEF Justified
<1>   ASSUME m.kind = "precommit", m.id \in Blocks
      PROVE  PolkaOn(rec, m.round, m.id)
  BY DEF Justified
<1> QED BY <1>4 DEF OwnVote

\* A message of a peer
LEMMA ReceiveVotes ==
    ASSUME VerdictsAreGiven, ParentsAreThere, VotesInv, NEW m \in Msgs, NEW p \in Peers,
           m \in VoteMsgs => m.v # Self, Receive(m, p)
    PROVE  VotesStep
<1> DEFINE new == recordAfter(m, p)
<1>1. running(cs) /\ record' = new
  BY DEF Receive
<1>2. PICK w \in Worlds : cs' = handleMsg(cs, m, p, w)
  BY DEF Receive
<1>3. Ready(cs) /\ Locked(cs)
  BY <1>1, FineRunning DEF VotesInv, NodeInv
<1> p \in Origins
  BY DEF Origins
<1>   /\ new \in Records /\ Gains(record, new, m)
      /\ new = record \/ (m \in VoteMsgs /\ IsPending(m) /\ new = With(record, m))
      /\ m \in VoteMsgs => Recorded(cs, m, p, new)
  BY RecordAfter DEF VotesInv
<1> HIDE DEF new
<1>6. Honest(cs, new, At1(cs))
  <2>1. new = record \/ m.v # Self
    OBVIOUS
  <2> QED BY <2>1, OthersVote DEF VotesInv
<1>7. Honest(cs', new, At1(cs))
  BY <1>2, <1>3, <1>6, HandleMsgHonest
<1>8. Follows(record, new)
  BY DEF Follows
<1> QED BY <1>1, <1>7, <1>8 DEF VotesStep

\* A message of the own queue
LEMMA HandleOwnVotes ==
    ASSUME VerdictsAreGiven, ParentsAreThere, VotesInv, HandleOwn
    PROVE  VotesStep
<1> DEFINE s == [cs EXCEPT !.queue = Tail(cs.queue)]
           m == Head(cs.queue)
           new == recordAfter(m, Own)
<1> running(cs) /\ cs.queue # <<>> /\ record' = new
  BY DEF HandleOwn
<1>2. PICK w \in Worlds : cs' = handleMsg(s, m, Own, w)
  BY DEF HandleOwn
<1>3. Ready(cs) /\ Locked(cs)
  BY FineRunning DEF VotesInv, NodeInv
<1>4. cs \in Nodes
  BY <1>3 DEF Ready
<1>5. m \in Msgs
  BY <1>3, TakenReady
<1>6. Ready(s) /\ Locked(s) /\ s.height = cs.height /\ s.votes = cs.votes
  BY <1>3, TakenReady
<1>7. Own \in Origins
  BY DEF Origins
<1>   /\ new \in Records /\ Gains(record, new, m)
      /\ new = record \/ (m \in VoteMsgs /\ IsPending(m) /\ new = With(record, m))
      /\ m \in VoteMsgs => Recorded(cs, m, Own, new)
  BY <1>5, <1>7, RecordAfter DEF VotesInv
<1>9. m \in VoteMsgs => Recorded(s, m, Own, new)
  BY <1>6 DEF Recorded
<1> HIDE DEF new
<1>10. Honest(s, new, At1(cs))
  <2>1. new = record \/ IsPending(m)
    OBVIOUS
  <2> QED BY <1>4, <2>1, TakesOut DEF VotesInv
<1>11. Follows(record, new)
  <2>1. CASE new = record
    BY <2>1 DEF Follows
  <2> CASE m \in VoteMsgs /\ IsPending(m) /\ new = With(record, m)
    <3>1. OwnVote(record, m.kind, m.round, m.id)
      BY <1>4, OwnVoteFollows DEF VotesInv, Honest
    <3> QED BY <3>1 DEF Follows
  <2> QED BY <2>1
<1> HIDE DEF s, m
<1>12. Honest(cs', new, At1(cs))
  BY <1>2, <1>5, <1>6, <1>7, <1>9, <1>10, HandleMsgHonest
<1> QED BY <1>11, <1>12 DEF VotesStep

\* Every step of a node whose signer is not reset
LEMMA NextVotes ==
    ASSUME VerdictsAreGiven, ParentsAreThere, MaxResets = 0, VotesInv, [Next]_vars
    PROVE  VotesStep /\ resets' = 0
<1>   /\ NodeInv /\ resets = 0 /\ record \in Records /\ Honest(cs, record, At1(cs)) /\ cs \in Nodes
      /\ running(cs) => Ready(cs) /\ Locked(cs)
  BY FineRunning DEF VotesInv, NodeInv
<1>1. CASE HandleOwn
  <2>1. resets' = resets
    BY <1>1 DEF HandleOwn
  <2> QED BY <1>1, <2>1, HandleOwnVotes
<1>2. ASSUME NEW p \in Peers, ReceiveProposal(p) \/ ReceivePart(p) \/ ReceiveVote(p)
      PROVE  VotesStep /\ resets' = 0
  <2>1. PICK m \in Msgs : Receive(m, p) /\ (m \in VoteMsgs => m.v # Self)
    BY <1>2, OthersMessage
  <2>2. resets' = resets
    BY <2>1 DEF Receive
  <2> QED BY <2>1, <2>2, ReceiveVotes
<1> DEFINE quiet == record' = record /\ resets' = resets
<1>3. ASSUME quiet, Honest(cs', record, At1(cs)) PROVE VotesStep /\ resets' = 0
  BY <1>3 DEF VotesStep, Follows
<1>4. CASE Timeout
  <2>1. running(cs) /\ cs.timer.armed /\ quiet
    BY <1>4 DEF Timeout
  <2>2. PICK w \in Worlds : cs' = handleTimeout([cs EXCEPT !.timer.armed = FALSE], w)
    BY <1>4 DEF Timeout
  <2>3. Honest(cs', record, At1(cs))
    BY <2>1, <2>2, HandleTimeoutHonest
  <2> QED BY <1>3, <2>1, <2>3
<1>5. CASE ChainAdvances
  <2>1. running(cs) /\ cs.chain < cs.height /\ cs' = [cs EXCEPT !.chain = cs.chain + 1] /\ quiet
    BY <1>5 DEF ChainAdvances
  <2>2. Fine(cs')
    BY <2>1, ChainGrows
  <2>3. cs' \in Nodes
    BY <2>2, FineRunning
  <2>4. Honest(cs', record, At1(cs))
    BY <2>1, <2>3, ChainGrowsHonest
  <2> QED BY <1>3, <2>1, <2>4
<1> CASE SyncTask
  <2>1. running(cs) /\ cs.chain + 1 # cs.height /\ quiet
    BY DEF SyncTask
  <2>2. running(updateToState(cs))
    BY <2>1, NextHeightReset
  <2>3. cs' = scheduleRound0(privReset(updateToState(cs)))
    BY <2>2 DEF SyncTask
  <2>4. Honest(cs', record, At1(cs))
    BY <2>1, <2>3, SyncHonest
  <2> QED BY <1>3, <2>1, <2>4
<1> CASE ValidatorUpdate \/ Restart
  BY SMT DEF ValidatorUpdate, Restart
<1> CASE UNCHANGED vars
  <2>1. quiet /\ cs' = cs
    BY DEF vars
  <2> QED BY <1>3, <2>1
<1> QED BY <1>1, <1>2, <1>4, <1>5 DEF Next

\* VotesInv is inductive.
LEMMA VotesInductive ==
    ASSUME VerdictsAreGiven, ParentsAreThere, MaxResets = 0, VotesInv, [Next]_vars
    PROVE  VotesInv'
<1> VotesStep /\ resets' = 0
  BY NextVotes
<1>2. NodeInv'
  BY NextNode DEF VotesInv
<1>3. Honest(cs', record', At1(cs'))
  BY StoreAnew DEF VotesStep
<1> QED BY <1>2, <1>3 DEF VotesInv, VotesStep

-----------------------------------------------------------------------------
(* The steps of TBFTVoting *)

\* TBFTVoting as in Voting, for the votes of all rounds
AnyRound == INSTANCE TBFTVoting WITH
                Correct    <- {Self},
                Rounds     <- Nat,
                prevotes   <- record["prevote"],
                precommits <- {x \in record["precommit"] : x[3] # Nil},
                decided    <- [v \in {Self} |-> IF StoredAt(1) = {} THEN Nil
                                                ELSE CHOOSE b \in StoredAt(1) : TRUE]

\* The polkas of AnyRound are those the record shows.
LEMMA PolkasShown ==
    /\ \A S : AnyRound!IsQuorum(S) <=> IsQuorum(S)
    /\ \A r, x : AnyRound!Polka(r, x) <=> PolkaOn(record, r, x)
    /\ AnyRound!Values = Ids
<1> \A S : AnyRound!IsQuorum(S) <=> IsQuorum(S)
  BY SMT DEF AnyRound!IsQuorum, IsQuorum, AnyRound!quorum, quorum, AnyRound!total, total
<1>2. \A r, x : AnyRound!Polka(r, x) <=> PolkaOn(record, r, x)
  BY DEF AnyRound!Polka, AnyRound!Prevoters, PolkaOn, VotersOn
<1>3. AnyRound!Values = Ids
  BY SMT, ConsensusAssumption DEF ConsensusAssumption, AnyRound!Values, Blocks
<1> QED BY <1>2, <1>3

\* The node's own votes are votes of a correct validator.
LEMMA OwnVoteAllowed ==
    ASSUME NEW k \in Kinds, NEW r \in Nat, NEW x \in Ids, OwnVote(record, k, r, x)
    PROVE  /\ ~AnyRound!Passed(Self, r)
           /\ k = "prevote" => /\ \A y \in AnyRound!Values : <<Self, r, y>> \notin record["prevote"]
                               /\ AnyRound!MayPrevote(Self, r, x)
           /\ k = "precommit" /\ x \in Blocks =>
                 /\ \A b \in Blocks : <<Self, r, b>> \notin record["precommit"]
                 /\ AnyRound!MayPrecommit(Self, r, x)
<1>1. Blocks \subseteq Ids /\ "prevote" \in Kinds /\ "precommit" \in Kinds
  BY SMT, ConsensusAssumption DEF ConsensusAssumption, Blocks, Kinds
<1>2. \A j \in Kinds, q \in Nat, y \in Ids : <<Self, q, y>> \in record[j] => place(q, j) < place(r, k)
  BY DEF OwnVote
<1>3. \A j \in Kinds, q \in Nat : place(q, j) < place(r, k) => ~(q > r) /\ (j = k => q # r)
  BY SMT DEF place, Kinds
<1>4. \A j \in Kinds, q \in Nat, y \in Ids : <<Self, q, y>> \in record[j] => ~(q > r) /\ (j = k => q # r)
  BY <1>2, <1>3
<1>5. ~AnyRound!Passed(Self, r)
  <2> SUFFICES ASSUME AnyRound!Passed(Self, r) PROVE FALSE
    OBVIOUS
  <2>1. PICK q \in Nat : /\ q > r
                         /\ \/ \E y \in AnyRound!Values : <<Self, q, y>> \in record["prevote"]
                            \/ \E b \in Blocks : <<Self, q, b>> \in {y \in record["precommit"] : y[3] # Nil}
    BY DEF AnyRound!Passed
  <2>2. PICK j \in Kinds, y \in Ids : <<Self, q, y>> \in record[j]
    BY <1>1, <2>1, PolkasShown
  <2> QED BY <1>4, <2>1, <2>2
<1> CASE k = "prevote"
  <2>1. \A y \in AnyRound!Values : <<Self, r, y>> \notin record["prevote"]
    BY <1>4, PolkasShown
  <2>2. AnyRound!MayPrevote(Self, r, x)
    <3> SUFFICES ASSUME NEW c \in Nat, NEW b \in Blocks \ {x}, c < r, <<Self, c, b>> \in record["precommit"]
                 PROVE  \E q \in Nat, y \in AnyRound!Values \ {b} : c < q /\ q < r /\ AnyRound!Polka(q, y)
      BY DEF AnyRound!MayPrevote
    <3>1. Overruled(record, c, r, b)
      BY DEF OwnVote
    <3> PICK q \in Nat, y \in Ids \ {b} : c < q /\ q < r /\ PolkaOn(record, q, y)
      BY <3>1 DEF Overruled
    <3>3. AnyRound!Polka(q, y) /\ y \in AnyRound!Values \ {b}
      BY PolkasShown
    <3> QED BY <3>3
  <2>3. k # "precommit"
    BY SMT
  <2> QED BY <1>5, <2>1, <2>2, <2>3
<1> CASE k = "precommit"
  <2>1. \A b \in Blocks : <<Self, r, b>> \notin record["precommit"]
    BY <1>1, <1>4
  <2>2. x \in Blocks => AnyRound!MayPrecommit(Self, r, x)
    BY PolkasShown DEF OwnVote, AnyRound!MayPrecommit
  <2>3. k # "prevote"
    BY SMT
  <2> QED BY <1>5, <2>1, <2>2, <2>3
<1> QED BY DEF Kinds

\* What goes on record is a vote of TBFTVoting.
LEMMA RecordedVote ==
    ASSUME record \in Records, Follows(record, record')
    PROVE  AnyRound!CastVote \/ UNCHANGED <<record["prevote"], {x \in record["precommit"] : x[3] # Nil}>>
<1> DEFINE pc == {x \in record["precommit"] : x[3] # Nil}
<1>1. CASE record' = record
  BY <1>1
<1>2. CASE record' # record
  <2>1. PICK m \in VoteMsgs : /\ record' = With(record, m)
                              /\ m.v = Self => OwnVote(record, m.kind, m.round, m.id)
    BY <1>2 DEF Follows
  <2> DEFINE e == <<m.v, m.round, m.id>>
  <2> m.v \in Validators /\ m.round \in Nat /\ m.kind \in Kinds /\ m.id \in Ids
    BY DEF VoteMsgs
  <2>3. /\ record'[m.kind] = record[m.kind] \cup {e}
        /\ \A k \in Kinds : k # m.kind => record'[k] = record[k]
    BY <2>1 DEF With, Records
  <2>4. m.v = Self \/ m.v \in Validators \ {Self}
    OBVIOUS
  <2>5. CASE m.kind = "prevote"
    <3>1. record'["prevote"] = record["prevote"] \cup {e} /\ record'["precommit"] = record["precommit"]
      BY SMT, <2>3, <2>5 DEF Kinds
    <3>2. pc' = pc
      BY <3>1
    <3>3. m.id \in AnyRound!Values
      BY PolkasShown
    <3>4. CASE m.v = Self
      <4>1. AnyRound!Prevote(Self, m.round, m.id)
        BY <2>1, <2>5, <3>1, <3>2, <3>4, OwnVoteAllowed DEF AnyRound!Prevote
      <4> QED BY <3>3, <4>1 DEF AnyRound!CastVote
    <3> CASE m.v \in Validators \ {Self}
      <4>1. AnyRound!FaultyPrevote(m.v, m.round, m.id)
        BY <3>1, <3>2 DEF AnyRound!FaultyPrevote
      <4> QED BY <3>3, <4>1 DEF AnyRound!CastVote
    <3> QED BY <2>4, <3>4
  <2>6. CASE m.kind = "precommit"
    <3>1. record'["precommit"] = record["precommit"] \cup {e} /\ record'["prevote"] = record["prevote"]
      BY SMT, <2>3, <2>6 DEF Kinds
    <3>2. e[3] = m.id
      BY SMT
    <3>3. CASE m.id = Nil
      <4>1. pc' = pc
        BY <3>1, <3>2, <3>3
      <4> QED BY <3>1, <4>1
    <3>4. CASE m.id # Nil
      <4>1. pc' = pc \cup {e}
        BY <3>1, <3>2, <3>4
      <4> m.id \in Blocks
        BY <3>4 DEF Blocks
      <4> CASE m.v = Self
        <5>1. AnyRound!Precommit(Self, m.round, m.id)
          <6>1. \A b \in Blocks : <<Self, m.round, b>> \notin pc
            BY <2>1, <2>6, OwnVoteAllowed
          <6> QED BY <2>1, <2>6, <3>1, <4>1, <6>1, OwnVoteAllowed DEF AnyRound!Precommit
        <5> QED BY <5>1 DEF AnyRound!CastVote
      <4> CASE m.v \in Validators \ {Self}
        <5>1. AnyRound!FaultyPrecommit(m.v, m.round, m.id)
          BY <3>1, <4>1 DEF AnyRound!FaultyPrecommit
        <5> QED BY <5>1 DEF AnyRound!CastVote
      <4> QED BY <2>4
    <3> QED BY <3>3, <3>4
  <2> QED BY <2>5, <2>6 DEF Kinds
<1> QED BY <1>1, <1>2

\* The commit of height 1 is a decision of TBFTVoting.
LEMMA StoredBlock ==
    ASSUME Keeps(cs', record', At1(cs))
    PROVE  (\E b \in Blocks : AnyRound!Decide(Self, b)) \/
           UNCHANGED [v \in {Self} |-> IF StoredAt(1) = {} THEN Nil ELSE CHOOSE b \in StoredAt(1) : TRUE]
<1> DEFINE d(S) == IF S = {} THEN Nil ELSE CHOOSE b \in S : TRUE
           dec == [v \in {Self} |-> d(StoredAt(1))]
<1>1. StoredAt(1) = At1(cs) /\ StoredAt(1)' = At1(cs')
  BY DEF StoredAt, At1
<1>2. CASE At1(cs') = At1(cs)
  <2>1. StoredAt(1)' = StoredAt(1)
    BY <1>1, <1>2
  <2>2. d(StoredAt(1)') = d(StoredAt(1))
    <3> HIDE DEF d
    <3> QED BY <2>1
  <2>3. dec' = dec
    <3>1. \A S, T : d(S) = d(T) => [v \in {Self} |-> d(S)] = [v \in {Self} |-> d(T)]
      <4> HIDE DEF d
      <4> QED OBVIOUS
    <3> QED BY <2>2, <3>1
  <2> QED BY <2>3
<1>3. CASE At1(cs) = {} /\ \E b \in Blocks, c \in Nat : At1(cs') = {b} /\ CommitOn(record', c, b)
  <2>1. PICK b \in Blocks, c \in Nat : At1(cs') = {b} /\ CommitOn(record', c, b)
    BY <1>3
  <2>2. d({b}) = b
    OBVIOUS
  <2>3. dec = [v \in {Self} |-> Nil] /\ dec' = [v \in {Self} |-> b]
    BY SMT, <1>1, <1>3, <2>1, <2>2
  <2>4. dec[Self] = Nil /\ dec' = [dec EXCEPT ![Self] = b]
    <3>1. /\ [v \in {Self} |-> Nil][Self] = Nil
          /\ [v \in {Self} |-> b] = [[v \in {Self} |-> Nil] EXCEPT ![Self] = b]
      <4> HIDE DEF d, dec
      <4> QED BY SMT
    <3> HIDE DEF d, dec
    <3> QED BY <2>3, <3>1
  <2>5. AnyRound!Committed(c, b)'
    <3>1. b # Nil
      BY DEF Blocks
    <3>2. {v \in Validators : <<v, c, b>> \in {x \in record'["precommit"] : x[3] # Nil}}
            = VotersOn(record', "precommit", c, b)
      BY SMT, <3>1 DEF VotersOn
    <3>3. \A S : AnyRound!IsQuorum(S) <=> IsQuorum(S)
      BY PolkasShown
    <3> QED BY <2>1, <3>2, <3>3 DEF CommitOn, AnyRound!Committed, AnyRound!Precommitters
  <2>6. AnyRound!Decide(Self, b)
    BY <2>4, <2>5 DEF AnyRound!Decide
  <2> QED BY <2>6
<1> QED BY <1>2, <1>3 DEF Keeps

\* Each step of the node is a step of TBFTVoting.
LEMMA StepVotes ==
    ASSUME VerdictsAreGiven, ParentsAreThere, MaxResets = 0, VotesInv, [Next]_vars
    PROVE  AnyRound!Next
<1> record \in Records /\ Follows(record, record') /\ Keeps(cs', record', At1(cs))
  BY NextVotes DEF VotesInv, VotesStep, Honest
<1>2. AnyRound!CastVote \/ UNCHANGED <<record["prevote"], {x \in record["precommit"] : x[3] # Nil}>>
  BY RecordedVote
<1>3. (\E b \in Blocks : AnyRound!Decide(Self, b)) \/
      UNCHANGED [v \in {Self} |-> IF StoredAt(1) = {} THEN Nil ELSE CHOOSE b \in StoredAt(1) : TRUE]
  BY StoredBlock
<1> QED BY <1>2, <1>3 DEF AnyRound!Next

\* The node starts with no votes on record and nothing stored.
LEMMA InitVoting == Init => AnyRound!Init /\ Voting!Init
<1> SUFFICES ASSUME Init PROVE AnyRound!Init /\ Voting!Init
  OBVIOUS
<1> record["prevote"] = {} /\ record["precommit"] = {}
  BY SMT DEF Init, Kinds
<1>2. cs.stored = {}
  BY SMT DEF Init, started, scheduleRound0, scheduleTimeout
<1>3. StoredAt(1) = {} /\ {x \in record["precommit"] : x[3] # Nil} = {}
  BY <1>2 DEF StoredAt
<1> QED BY <1>3 DEF AnyRound!Init, Voting!Init

\* The votes on record and in the queue obey the rules in every state.
THEOREM VotesInvariant ==
    VerdictsAreGiven /\ ParentsAreThere /\ MaxResets = 0 => (Spec => []VotesInv)
<1> SUFFICES ASSUME VerdictsAreGiven, ParentsAreThere, MaxResets = 0
             PROVE  Spec => []VotesInv
  BY SMT
<1>1. Init => VotesInv
  BY InitVotes
<1>2. VotesInv /\ [Next]_vars => VotesInv'
  BY VotesInductive
<1> QED BY <1>1, <1>2, PTL DEF Spec

\* A node that runs the code without its signer being reset is a correct
\* validator: its votes and its commit of height 1 obey TBFTVoting.
THEOREM NodeImplementsVoting ==
    VerdictsAreGiven /\ ParentsAreThere /\ MaxResets = 0 => (Spec => AnyRound!Spec)
<1> SUFFICES ASSUME VerdictsAreGiven, ParentsAreThere, MaxResets = 0
             PROVE  Spec => AnyRound!Spec
  BY SMT
<1>1. Init => AnyRound!Init
  BY InitVoting
<1>2. VotesInv /\ [Next]_vars => [AnyRound!Next]_(AnyRound!vars)
  BY StepVotes
<1>3. Spec => []VotesInv
  BY VotesInvariant
<1> QED BY <1>1, <1>2, <1>3, PTL DEF Spec, AnyRound!Spec

\* The record holds votes of the rounds of Voting.
RoundsInReach == \A k \in Kinds : \A x \in record[k] : x[2] \in 0..(MaxRound + 4)

\* A step of TBFTVoting for votes of rounds in reach is a step of Voting.
LEMMA StepInReach ==
    ASSUME record' \in Records, RoundsInReach', AnyRound!Next
    PROVE  Voting!Next
<1> DEFINE R == 0..(MaxRound + 4)
           pv == record["prevote"]
           pc == {x \in record["precommit"] : x[3] # Nil}
<1>1. MaxRound \in Nat /\ R \subseteq Nat /\ \A q, r \in Nat : q < r /\ r \in R => q \in R
  BY SMT, ConsensusAssumption DEF ConsensusAssumption
<1>2. /\ \A v, r, x : <<v, r, x>> \in pv' => r \in R
      /\ \A v, r, x : <<v, r, x>> \in pc' => r \in R /\ <<v, r, x>> \in record'["precommit"]
  <2>1. \A v, r, x : <<v, r, x>>[2] = r
    BY SMT
  <2>2. "prevote" \in Kinds /\ "precommit" \in Kinds
    BY DEF Kinds
  <2> QED BY <2>1, <2>2 DEF RoundsInReach
<1>3. /\ \A S : Voting!IsQuorum(S) <=> AnyRound!IsQuorum(S)
      /\ Voting!Values = AnyRound!Values
  BY SMT DEF Voting!IsQuorum, AnyRound!IsQuorum, Voting!quorum, AnyRound!quorum,
     Voting!total, AnyRound!total, Voting!Values, AnyRound!Values
<1>4. \A r, x : Voting!Polka(r, x) <=> AnyRound!Polka(r, x)
  BY <1>3 DEF Voting!Polka, AnyRound!Polka, Voting!Prevoters, AnyRound!Prevoters
<1>5. \A v, r : Voting!Passed(v, r) => AnyRound!Passed(v, r)
  BY <1>1, <1>3 DEF Voting!Passed, AnyRound!Passed
<1>6. ASSUME AnyRound!CastVote PROVE Voting!CastVote
  <2>1. PICK r \in Nat :
          \/ \E v \in {Self}, x \in AnyRound!Values : AnyRound!Prevote(v, r, x)
          \/ \E v \in {Self}, b \in Blocks : AnyRound!Precommit(v, r, b)
          \/ \E v \in Validators \ {Self}, x \in AnyRound!Values : AnyRound!FaultyPrevote(v, r, x)
          \/ \E v \in Validators \ {Self}, b \in Blocks : AnyRound!FaultyPrecommit(v, r, b)
    BY <1>6 DEF AnyRound!CastVote
  <2>2. ASSUME NEW v \in {Self}, NEW x \in AnyRound!Values, AnyRound!Prevote(v, r, x)
        PROVE  Voting!CastVote
    <3>1. /\ ~AnyRound!Passed(v, r) /\ \A y \in AnyRound!Values : <<v, r, y>> \notin pv
          /\ AnyRound!MayPrevote(v, r, x) /\ pv' = pv \cup {<<v, r, x>>} /\ pc' = pc
      BY <2>2 DEF AnyRound!Prevote
    <3>2. r \in R
      BY <1>2, <3>1
    <3>3. Voting!MayPrevote(v, r, x)
      <4> SUFFICES ASSUME NEW c \in R, NEW b \in Blocks \ {x}, c < r, <<v, c, b>> \in pc
                   PROVE  \E q \in R, y \in Voting!Values \ {b} : c < q /\ q < r /\ Voting!Polka(q, y)
        BY DEF Voting!MayPrevote
      <4>1. PICK q \in Nat, y \in AnyRound!Values \ {b} : c < q /\ q < r /\ AnyRound!Polka(q, y)
        BY <1>1, <3>1 DEF AnyRound!MayPrevote
      <4> QED BY <1>1, <1>3, <1>4, <3>2, <4>1
    <3>4. Voting!Prevote(v, r, x)
      BY <1>3, <1>5, <3>1, <3>3 DEF Voting!Prevote
    <3> QED BY <1>3, <3>2, <3>4 DEF Voting!CastVote
  <2>3. ASSUME NEW v \in {Self}, NEW b \in Blocks, AnyRound!Precommit(v, r, b)
        PROVE  Voting!CastVote
    <3>1. /\ ~AnyRound!Passed(v, r) /\ \A c \in Blocks : <<v, r, c>> \notin pc
          /\ AnyRound!MayPrecommit(v, r, b) /\ pc' = pc \cup {<<v, r, b>>} /\ pv' = pv
      BY <2>3 DEF AnyRound!Precommit
    <3>2. r \in R
      BY <1>2, <3>1
    <3>3. Voting!Precommit(v, r, b)
      BY <1>4, <1>5, <3>1 DEF Voting!Precommit, Voting!MayPrecommit, AnyRound!MayPrecommit
    <3> QED BY <3>2, <3>3 DEF Voting!CastVote
  <2>4. ASSUME NEW v \in Validators \ {Self}, NEW x \in AnyRound!Values,
               AnyRound!FaultyPrevote(v, r, x)
        PROVE  Voting!CastVote
    <3>1. pv' = pv \cup {<<v, r, x>>} /\ pc' = pc
      BY <2>4 DEF AnyRound!FaultyPrevote
    <3>2. r \in R /\ Voting!FaultyPrevote(v, r, x)
      BY <1>2, <3>1 DEF Voting!FaultyPrevote
    <3> QED BY <1>3, <3>2 DEF Voting!CastVote
  <2>5. ASSUME NEW v \in Validators \ {Self}, NEW b \in Blocks, AnyRound!FaultyPrecommit(v, r, b)
        PROVE  Voting!CastVote
    <3>1. pc' = pc \cup {<<v, r, b>>} /\ pv' = pv
      BY <2>5 DEF AnyRound!FaultyPrecommit
    <3>2. r \in R /\ Voting!FaultyPrecommit(v, r, b)
      BY <1>2, <3>1 DEF Voting!FaultyPrecommit
    <3> QED BY <3>2 DEF Voting!CastVote
  <2> QED BY <2>1, <2>2, <2>3, <2>4, <2>5
<1> ASSUME NEW b \in Blocks, AnyRound!Decide(Self, b) PROVE Voting!Decide(Self, b)
  <2>1. PICK r \in Nat : AnyRound!Committed(r, b)'
    BY DEF AnyRound!Decide
  <2> DEFINE S == {v \in Validators : <<v, r, b>> \in pc'}
  <2>2. IsQuorum(S) /\ Voting!IsQuorum(S)
    BY <1>3, <2>1, PolkasShown DEF AnyRound!Committed, AnyRound!Precommitters
  <2>3. S # {}
    <3>1. ~IsQuorum({})
      BY SMT, QuorumIsTwoThirds, VotingPowerAssumption DEF VotingPowerAssumption, IsQuorum
    <3> QED BY <2>2, <3>1
  <2>4. r \in R
    BY <1>2, <2>3
  <2>5. Voting!Committed(r, b)'
    BY <2>2 DEF Voting!Committed, Voting!Precommitters
  <2> QED BY <2>4, <2>5 DEF AnyRound!Decide, Voting!Decide
<1>8. /\ AnyRound!CastVote \/ UNCHANGED <<pv, pc>>
      /\ (\E b \in Blocks : AnyRound!Decide(Self, b)) \/
         UNCHANGED [v \in {Self} |-> IF StoredAt(1) = {} THEN Nil ELSE CHOOSE b \in StoredAt(1) : TRUE]
  BY DEF AnyRound!Next
<1> QED BY <1>6, <1>8 DEF Voting!Next

\* ImplementsVoting as the runs check it: with the rounds of Voting, which has
\* those that the votes on record are of.
THEOREM NodeImplementsBoundedVoting ==
    VerdictsAreGiven /\ ParentsAreThere /\ MaxResets = 0 =>
        (Spec /\ []RoundsInReach => ImplementsVoting)
<1> SUFFICES ASSUME VerdictsAreGiven, ParentsAreThere, MaxResets = 0
             PROVE  Spec /\ []RoundsInReach => ImplementsVoting
  BY SMT
<1>1. Init => Voting!Init
  BY InitVoting
<1>2. VotesInv /\ VotesInv' /\ RoundsInReach' /\ [Next]_vars =>
        [UNCHANGED Voting!vars \/ Voting!Next]_vars
  <2> SUFFICES ASSUME VotesInv, VotesInv', RoundsInReach', [Next]_vars PROVE Voting!Next
    OBVIOUS
  <2>1. record' \in Records
    BY DEF VotesInv
  <2> QED BY <2>1, StepVotes, StepInReach
<1>3. Spec => []VotesInv
  BY VotesInvariant
<1> QED BY <1>1, <1>2, <1>3, PTL DEF Spec, ImplementsVoting

\* VotingSteps, the part of it that is about the steps
THEOREM NodeTakesVotingSteps ==
    VerdictsAreGiven /\ ParentsAreThere /\ MaxResets = 0 =>
        (Spec /\ []RoundsInReach => VotingSteps)
BY NodeImplementsBoundedVoting, PTL DEF ImplementsVoting, VotingSteps

-----------------------------------------------------------------------------
(* One signature per round and kind *)

\* The node's votes on record are one per round and kind.
RecordedOnce ==
    \A k \in Kinds, r \in Nat, x, y \in Ids :
        <<Self, r, x>> \in record[k] /\ <<Self, r, y>> \in record[k] => x = y

\* The rules for a new vote keep it so.
LEMMA StaysRecordedOnce ==
    ASSUME record \in Records, RecordedOnce, Follows(record, record')
    PROVE  RecordedOnce'
<1>1. CASE record' = record
  BY <1>1 DEF RecordedOnce
<1>2. CASE record' # record
  <2>1. PICK m \in VoteMsgs : /\ record' = With(record, m)
                              /\ m.v = Self => OwnVote(record, m.kind, m.round, m.id)
    BY <1>2 DEF Follows
  <2> m.round \in Nat /\ m.kind \in Kinds /\ m.id \in Ids
    BY DEF VoteMsgs
  <2>3. /\ record'[m.kind] = record[m.kind] \cup {<<m.v, m.round, m.id>>}
        /\ \A k \in Kinds : k # m.kind => record'[k] = record[k]
    BY <2>1 DEF With, Records
  <2>4. m.v = Self => \A y \in Ids : <<Self, m.round, y>> \notin record[m.kind]
    <3>1. place(m.round, m.kind) \in Nat
      BY SMT DEF place
    <3>2. ~(place(m.round, m.kind) < place(m.round, m.kind))
      BY SMT, <3>1
    <3> QED BY <2>1, <3>2 DEF OwnVote
  <2>5. \A k \in Kinds, r \in Nat, x \in Ids : <<Self, r, x>> \in record'[k] =>
          \/ <<Self, r, x>> \in record[k]
          \/ m.v = Self /\ k = m.kind /\ r = m.round /\ x = m.id
    BY SMT, <2>3
  <2> SUFFICES ASSUME NEW k \in Kinds, NEW r \in Nat, NEW x \in Ids, NEW y \in Ids,
                      <<Self, r, x>> \in record'[k], <<Self, r, y>> \in record'[k]
               PROVE  x = y
    BY DEF RecordedOnce
  <2> CASE <<Self, r, x>> \in record[k] /\ <<Self, r, y>> \in record[k]
    BY DEF RecordedOnce
  <2> QED BY <2>4, <2>5
<1> QED BY <1>1, <1>2

\* The node's votes, on record and in the queue, are one per round and kind.
LEMMA OneVote ==
    ASSUME VotesInv, RecordedOnce
    PROVE  NeverDoubleSigns
<1>1. /\ record \in Records /\ cs \in Nodes /\ InOrder(cs, record)
  BY FineRunning DEF VotesInv, Honest, NodeInv
<1>2. \A i \in Pending(cs) : /\ cs.queue[i].round \in Nat /\ cs.queue[i].kind \in Kinds
                             /\ cs.queue[i].id \in Ids /\ i \in Nat
  <2> SUFFICES ASSUME NEW i \in Pending(cs)
               PROVE  /\ cs.queue[i].round \in Nat /\ cs.queue[i].kind \in Kinds
                      /\ cs.queue[i].id \in Ids /\ i \in Nat
    OBVIOUS
  <2>1. cs.queue \in Seq(Msgs) /\ i \in DOMAIN cs.queue /\ cs.queue[i].type = "vote"
    BY <1>1 DEF Nodes, Pending
  <2>2. cs.queue[i] \in Msgs /\ i \in Nat
    BY SMT, <2>1
  <2>3. cs.queue[i] \in VoteMsgs
    BY SMT, <2>1, <2>2 DEF Msgs, VoteMsgs, ProposalMsgs, PartMsgs
  <2> QED BY <2>2, <2>3 DEF VoteMsgs
<1> SUFFICES ASSUME NEW k \in Kinds, NEW e \in OwnVotes(k), NEW f \in OwnVotes(k), e[1] = f[1]
             PROVE  e = f
  BY DEF NeverDoubleSigns
<1>3. \A g \in OwnVotes(k) : \E r \in Nat, x \in Ids :
        /\ g = <<r, x>>
        /\ \/ <<Self, r, x>> \in record[k]
           \/ \E i \in Pending(cs) : cs.queue[i].kind = k /\ cs.queue[i].round = r /\ cs.queue[i].id = x
  <2> SUFFICES ASSUME NEW g \in OwnVotes(k)
               PROVE  \E r \in Nat, x \in Ids :
                        /\ g = <<r, x>>
                        /\ \/ <<Self, r, x>> \in record[k]
                           \/ \E i \in Pending(cs) : /\ cs.queue[i].kind = k /\ cs.queue[i].round = r
                                                     /\ cs.queue[i].id = x
    OBVIOUS
  <2>1. CASE g \in {<<x[2], x[3]>> : x \in {y \in record[k] : y[1] = Self}}
    <3>1. PICK x \in record[k] : x[1] = Self /\ g = <<x[2], x[3]>>
      BY <2>1
    <3>2. record[k] \subseteq Validators \X Nat \X Ids
      BY <1>1 DEF Records
    <3>3. x = <<Self, x[2], x[3]>> /\ x[2] \in Nat /\ x[3] \in Ids
      BY SMT, <3>1, <3>2
    <3> QED BY <3>1, <3>3
  <2>2. CASE g \in {<<m.round, m.id>> :
                      m \in {n \in {cs.queue[i] : i \in DOMAIN cs.queue} :
                               n.type = "vote" /\ n.height = 1 /\ n.kind = k /\ n.res = "agree"}}
    <3>1. PICK i \in DOMAIN cs.queue :
             /\ cs.queue[i].type = "vote" /\ cs.queue[i].height = 1 /\ cs.queue[i].kind = k
             /\ cs.queue[i].res = "agree" /\ g = <<cs.queue[i].round, cs.queue[i].id>>
      BY <2>2
    <3>2. i \in Pending(cs)
      BY <3>1 DEF Pending
    <3> QED BY <1>2, <3>1, <3>2
  <2> QED BY <2>1, <2>2 DEF OwnVotes
<1>   PICK r \in Nat, x \in Ids :
        /\ e = <<r, x>>
        /\ \/ <<Self, r, x>> \in record[k]
           \/ \E i \in Pending(cs) : cs.queue[i].kind = k /\ cs.queue[i].round = r /\ cs.queue[i].id = x
  BY <1>3
<1>   PICK q \in Nat, y \in Ids :
        /\ f = <<q, y>>
        /\ \/ <<Self, q, y>> \in record[k]
           \/ \E i \in Pending(cs) : cs.queue[i].kind = k /\ cs.queue[i].round = q /\ cs.queue[i].id = y
  BY <1>3
<1>6. q = r
  BY SMT
<1> ~(place(r, k) < place(r, k))
  BY SMT DEF place
<1> CASE <<Self, r, x>> \in record[k] /\ <<Self, r, y>> \in record[k]
  BY <1>6 DEF RecordedOnce
<1>   ASSUME NEW z \in Ids, <<Self, r, z>> \in record[k],
             NEW i \in Pending(cs), cs.queue[i].kind = k, cs.queue[i].round = r
      PROVE  FALSE
  BY <1>1 DEF InOrder
<1>    ASSUME NEW i \in Pending(cs), cs.queue[i].kind = k, cs.queue[i].round = r,
              NEW j \in Pending(cs), cs.queue[j].kind = k, cs.queue[j].round = r
       PROVE  i = j
  <2>1. ~(i < j) /\ ~(j < i)
    BY <1>1 DEF InOrder
  <2>2. i \in Nat /\ j \in Nat
    BY <1>2
  <2> QED BY SMT, <2>1, <2>2
<1> QED BY <1>6

\* A node whose signer is not reset signs no two votes of height 1 for one
\* round and kind. (With resets it may, as the run that refutes
\* NeverDoubleSigns shows.)
THEOREM SignsOnce ==
    VerdictsAreGiven /\ ParentsAreThere /\ MaxResets = 0 => (Spec => []NeverDoubleSigns)
<1> SUFFICES ASSUME VerdictsAreGiven, ParentsAreThere, MaxResets = 0
             PROVE  Spec => []NeverDoubleSigns
  BY SMT
<1>1. Spec => []VotesInv
  BY VotesInvariant
<1>2. Init => RecordedOnce
  BY DEF Init, RecordedOnce
<1>3. VotesInv /\ RecordedOnce /\ [Next]_vars => RecordedOnce'
  BY NextVotes, StaysRecordedOnce DEF VotesInv, VotesStep
<1>4. VotesInv /\ RecordedOnce => NeverDoubleSigns
  BY OneVote
<1> QED BY <1>1, <1>2, <1>3, <1>4, PTL DEF Spec

===============================================================================
