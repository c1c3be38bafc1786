---------------------------- MODULE ConsensusState ----------------------------
(***************************************************************************)
(* The consensus state machine of one committee member, consensus/tbft/    *)
(* state.go: the round state, the votes, the lock, the own message queue,  *)
(* the timeout ticker and the signer, driven by the messages of the other  *)
(* members, by timeouts and by the chain.                                  *)
(*                                                                         *)
(* The node is a record, and each method of the source is an operator that *)
(* maps the record to the one the method leaves behind.  The receive       *)
(* routine handles one message or timeout at a time under the mutex, so a  *)
(* handler is one step.  A panic ends the routine: it is the field `halt'. *)
(*                                                                         *)
(* What a handler learns from the agent of the chain while it runs is its  *)
(* argument w: the block MakeBlock returns (NoId on an error), whether it  *)
(* has no transactions, the verdict of ValidateBlock (a handler validates  *)
(* one block at most), and the outcome of ConsensusCommit.  A block stands *)
(* for its hash and for the header of its parts; one message stands for    *)
(* its last missing part.                                                  *)
(***************************************************************************)
EXTENDS HeightVoteSetOps, Sequences

CONSTANTS Self,              \* this node; an observer is not in Validators
          Nil,               \* the zero block id
          Turns,             \* the rounds in which Self is the proposer
          Makes,             \* what MakeBlock may return
          Verdicts,          \* what ValidateBlock may return
          Outcomes,          \* what may become of a block in ConsensusCommit
          EmptyWaits,        \* how often round 0 waits for transactions
          SkipTimeoutCommit, \* config.SkipTimeoutCommit
          MaxHeight,         \* bound: heights the others vote in
          MaxRound,          \* bound: rounds the others vote in
          Ballots,           \* bound: the ids each validator votes for
          MaxImports,        \* bound: blocks that reach the chain from elsewhere
          MaxResets          \* bound: restarts and committee updates

ASSUME ConsensusAssumption ==
    /\ Nil \in Ids
    /\ Makes \subseteq (Ids \ {Nil}) \cup {NoId}
    /\ Verdicts \subseteq {"agree", "against", "none", "missing"}
    /\ SkipTimeoutCommit \in BOOLEAN
    /\ Ballots \in [Validators -> SUBSET Ids]
    /\ Outcomes \subseteq {"inserted", "failed", "unsent", "cached"}
    /\ {EmptyWaits, MaxHeight, MaxRound, MaxImports, MaxResets} \subseteq Nat

Blocks == Ids \ {Nil}

RoundStepNewHeight     == 1
RoundStepNewRound      == 2
RoundStepPropose       == 3
RoundStepPrevote       == 4
RoundStepPrevoteWait   == 5
RoundStepPrecommit     == 6
RoundStepPrecommitWait == 7
RoundStepCommit        == 8

Steps == 1..8

\* The steps of the signer: stepPropose, stepPrevote, stepPrecommit
SignerStep == [proposal |-> 1, prevote |-> 2, precommit |-> 3]

NoParts == [block |-> NoId, done |-> FALSE]

\* NewPartSetFromHeader
PartsOf(b) == [block |-> b, done |-> FALSE]

\* LockedRound, LockedBlock and LockedBlockParts when nothing is locked, and
\* the same for Valid*
Unset == [round |-> 0, block |-> NoId, parts |-> NoParts]

NoProposal == [block |-> NoId, pol |-> -1]

NoTimer == [height |-> 0, round |-> 0, step |-> 0, wait |-> 0, armed |-> FALSE]

\* What a handler may learn from the agent
Worlds == [make : Makes, empty : IF EmptyWaits = 0 THEN {FALSE} ELSE BOOLEAN,
           verdict : Verdicts, outcome : Outcomes]

-----------------------------------------------------------------------------
(* Timeouts, signing and validation *)

running(s) == s.halt = "no"

panic(s, why) == [s EXCEPT !.halt = why]

\* Mutant of ignoresTick: the rounds are not compared.
ignoresTickByStep(t, ti) ==
    ti.wait = 1 /\ ti.height = t.height /\ t.step > 0 /\ ti.step =< t.step

\* The ticker ignores ticks that are not for a later height, round or step.
ignoresTick(t, ti) ==
    /\ ti.wait = 1
    /\ \/ ti.height < t.height
       \/ ti.height = t.height /\ ti.round < t.round
       \/ /\ ti.height = t.height /\ ti.round = t.round
          /\ t.step > 0 /\ ti.step =< t.step

scheduleTimeout(s, r, step, wait) ==
    LET ti == [height |-> s.height, round |-> r, step |-> step, wait |-> wait, armed |-> TRUE]
    IN  IF ignoresTick(s.timer, ti) THEN s ELSE [s EXCEPT !.timer = ti]

\* checkHRS: the record of the signer is before height, round and step k.
mayStillSign(s, k) ==
    LET l == s.signer
    IN  \/ l.height < s.height
        \/ l.height = s.height /\ l.round < s.round
        \/ l.height = s.height /\ l.round = s.round /\ l.step < k

\* Sign and send the messages to the own queue.  What the signer does with a
\* height, round and step it has signed before is the matter of PrivValidator;
\* here it signs nothing and the refusal is remembered.
signAndSend(s, k, msgs) ==
    IF mayStillSign(s, k)
    THEN [s EXCEPT !.signer = [height |-> s.height, round |-> s.round, step |-> k],
                   !.queue = @ \o msgs]
    ELSE [s EXCEPT !.refused = TRUE]

signAddVote(s, kind, id, res) ==
    LET vote == [type |-> "vote", height |-> s.height, round |-> s.round, kind |-> kind,
                 v |-> Self, id |-> id, res |-> res]
    IN  IF Self \in Validators THEN signAndSend(s, SignerStep[kind], <<vote>>) ELSE s

signNil(s, kind) == signAddVote(s, kind, Nil, "agree")

\* validateBlock and the vote it leads to: no verdict (a block outside the
\* heights of the committee) is a nil vote; a missing one (the parent block
\* is not there yet) is dereferenced by ValidateBlock.
voteOn(s, kind, b, w) ==
    CASE w.verdict = "missing" -> panic(s, "no verdict")
      [] w.verdict = "none"    -> signNil(s, kind)
      [] OTHER                    -> signAddVote(s, kind, b, w.verdict)

-----------------------------------------------------------------------------
(* The steps of a round *)

updateRoundStep(s, r, step) == [s EXCEPT !.round = r, !.step = step]

\* Mutant of mayEnter: a step may be entered again.
mayEnterAgain(s, r, step) == running(s) /\ r >= s.round /\ (r = s.round => s.step =< step)

\* The guard at the top of enterPropose, enterPrevote, ..., enterPrecommitWait
mayEnter(s, r, step) ==
    running(s) /\ r >= s.round /\ (r = s.round => s.step < step)

isProposalComplete(s) ==
    /\ s.proposal # NoProposal
    /\ s.pblock # NoId
    /\ s.proposal.pol < 0 \/ HasTwoThirdsMajority(Prevotes(s.votes, s.proposal.pol))

\* Mutant of doPrevote: the lock is not looked at.
doPrevoteUnlocked(s, w) ==
    IF s.pblock # NoId THEN voteOn(s, "prevote", s.pblock, w) ELSE signNil(s, "prevote")

doPrevote(s, w) ==
    CASE s.lock.block # NoId -> voteOn(s, "prevote", s.lock.block, w)
      [] s.lock.block = NoId /\ s.pblock # NoId -> voteOn(s, "prevote", s.pblock, w)
      [] OTHER -> signNil(s, "prevote")

enterPrevote(s, r, w) ==
    IF mayEnter(s, r, RoundStepPrevote)
    THEN updateRoundStep(doPrevote(s, w), r, RoundStepPrevote)
    ELSE s

enterPrevoteWait(s, r) ==
    IF ~mayEnter(s, r, RoundStepPrevoteWait) THEN s
    ELSE IF ~HasTwoThirdsAny(Prevotes(s.votes, r)) THEN panic(s, "enterPrevoteWait")
    ELSE updateRoundStep(scheduleTimeout(s, r, RoundStepPrevoteWait, 1), r, RoundStepPrevoteWait)

enterPrecommitWait(s, r) ==
    IF ~mayEnter(s, r, RoundStepPrecommitWait) THEN s
    ELSE IF ~HasTwoThirdsAny(Precommits(s.votes, r)) THEN panic(s, "enterPrecommitWait")
    ELSE updateRoundStep(scheduleTimeout(s, r, RoundStepPrecommitWait, 1), r, RoundStepPrecommitWait)

-----------------------------------------------------------------------------
(* Proposing *)

\* The block to propose and its parts: the locked one, else the valid one,
\* else the fresh one
blockToPropose(s, w) ==
    CASE s.lock.block # NoId -> s.lock.parts
      [] s.lock.block = NoId /\ s.valid.block # NoId -> s.valid.parts
      [] OTHER -> [block |-> w.make, done |-> TRUE]

\* Of parts that are not all there, some part is nil.
decideProposal(s, w) ==
    LET parts    == blockToPropose(s, w)
        proposal == [type |-> "proposal", height |-> s.height, round |-> s.round,
                     block |-> parts.block, pol |-> POLInfo(s.votes)]
        part     == [type |-> "part", height |-> s.height,
                     block |-> IF parts.done THEN parts.block ELSE NoId]
    IN  signAndSend(s, SignerStep.proposal, <<proposal, part>>)

\* The end of tryEnterProposal and of enterPropose
proposed(s, r, w) ==
    LET t == updateRoundStep(s, r, RoundStepPropose)
    IN  IF isProposalComplete(t) THEN enterPrevote(t, t.round, w) ELSE t

enterPropose(s, r, w) ==
    LET t == scheduleTimeout(s, r, RoundStepPropose, 1)
    IN  proposed(decideProposal(t, w), r, w)

isProposer(r) == Self \in Validators /\ r \in Turns

\* enterPropose is called only from here, with the same guard.
tryEnterProposal(s, r, wait, w) ==
    IF ~mayEnter(s, r, RoundStepPropose) THEN s
    ELSE IF ~isProposer(r) \/ w.make = NoId
         THEN proposed(scheduleTimeout(s, r, RoundStepPropose, 1), r, w)
    ELSE IF w.empty /\ r = 0 /\ wait =< EmptyWaits
         THEN scheduleTimeout(s, r, RoundStepNewRound, wait + 1)
    ELSE enterPropose(s, r, w)

\* What enterNewRound clears: round 0 may have its proposal already.
clearedFor(s, r) ==
    IF r = 0 THEN s
    ELSE [s EXCEPT !.proposal = NoProposal, !.pblock = NoId, !.parts = NoParts]

\* Mutant of enterNewRound: the current round may be entered again.
enterNewRoundAgain(s, r, w) ==
    IF ~running(s) \/ r < s.round THEN s
    ELSE IF SetRoundPanics(s.votes, r + 1) THEN panic(s, "SetRound")
    ELSE tryEnterProposal([updateRoundStep(clearedFor(s, r), r, RoundStepNewRound)
                               EXCEPT !.votes = SetRound(@, r + 1)],
                          r, 1, w)

enterNewRound(s, r, w) ==
    IF ~running(s) \/ r < s.round \/ (r = s.round /\ s.step # RoundStepNewHeight) THEN s
    ELSE IF SetRoundPanics(s.votes, r + 1) THEN panic(s, "SetRound")
    ELSE tryEnterProposal([updateRoundStep(clearedFor(s, r), r, RoundStepNewRound)
                               EXCEPT !.votes = SetRound(@, r + 1)],
                          r, 1, w)

-----------------------------------------------------------------------------
(* Precommit and commit *)

unlocked(s) == [s EXCEPT !.lock = Unset]

\* Fetch the block id, unless its parts are being fetched already.
fetching(s, id) ==
    IF s.parts.block = id THEN s ELSE [s EXCEPT !.pblock = NoId, !.parts = PartsOf(id)]

\* Only a block the node agrees with is locked.
lockedOn(s, r, w) ==
    IF w.verdict = "agree"
    THEN [s EXCEPT !.lock = [round |-> r, block |-> s.pblock, parts |-> s.parts]]
    ELSE s

\* Mutant of precommitVote: a round without a polka unlocks.
precommitVoteUnlocking(s, r, id, w) ==
    IF id = NoId THEN signNil(unlocked(s), "precommit")
    ELSE IF id = Nil THEN signNil(unlocked(s), "precommit")
    ELSE IF s.lock.block = id THEN voteOn([s EXCEPT !.lock.round = r], "precommit", id, w)
    ELSE IF s.pblock = id THEN voteOn(lockedOn(s, r, w), "precommit", id, w)
    ELSE signNil(fetching(unlocked(s), id), "precommit")

\* The vote of enterPrecommit, given the majority id of the prevotes
precommitVote(s, r, id, w) ==
    CASE id = NoId -> signNil(s, "precommit")
      [] id # NoId /\ POLInfo(s.votes) < r -> panic(s, "POLRound")
      [] id = Nil /\ POLInfo(s.votes) >= r -> signNil(unlocked(s), "precommit")
      [] id \in Blocks /\ POLInfo(s.votes) >= r ->
            IF s.lock.block = id THEN voteOn([s EXCEPT !.lock.round = r], "precommit", id, w)
            ELSE IF s.pblock = id THEN voteOn(lockedOn(s, r, w), "precommit", id, w)
            ELSE signNil(fetching(unlocked(s), id), "precommit")

enterPrecommit(s, r, w) ==
    IF mayEnter(s, r, RoundStepPrecommit)
    THEN updateRoundStep(precommitVote(s, r, TwoThirdsMajority(Prevotes(s.votes, r)), w),
                         r, RoundStepPrecommit)
    ELSE s

\* The next height: everything of the old one is dropped but the precommits
\* of the commit round.
updateToState(s) ==
    LET commit == Precommits(s.votes, s.commitRound)
    IN  IF s.commitRound > -1 /\ ~HasTwoThirdsMajority(commit) THEN panic(s, "updateToState")
        ELSE [s EXCEPT !.height = s.chain + 1, !.round = 0, !.step = RoundStepNewHeight,
                       !.proposal = NoProposal, !.pblock = NoId, !.parts = NoParts,
                       !.lock = Unset, !.valid = Unset,
                       !.votes = NewHeightVoteSet, !.commitRound = -1,
                       !.lastCommit = IF s.commitRound > -1
                                      THEN [round |-> s.commitRound, set |-> commit] ELSE NoId]

scheduleRound0(s) == scheduleTimeout(s, 0, RoundStepNewHeight, 1)

\* ConsensusCommit, by its outcome: the block is inserted (or was there), or
\* the insertion fails, or the block is inserted and the signature on it is
\* not sent, or its parent is missing and it is only cached.
committed(s, w) ==
    IF w.outcome \in {"inserted", "unsent"} /\ s.chain < s.height
    THEN [s EXCEPT !.chain = s.height] ELSE s

\* SaveBlock, of a block higher than all the others
saved(s) ==
    IF \A b \in s.stored : b.height < s.height
    THEN [s EXCEPT !.stored = @ \cup {[height |-> s.height, block |-> s.pblock, parts |-> s.parts]}]
    ELSE s

finalizeCommit(s, id, w) ==
    IF s.step # RoundStepCommit THEN s
    ELSE IF s.parts.block # id THEN panic(s, "finalizeCommit")
    ELSE IF w.outcome \in {"failed", "unsent"} THEN committed(s, w)
    ELSE scheduleRound0(updateToState(saved(committed(s, w))))

tryFinalizeCommit(s, w) ==
    LET id == TwoThirdsMajority(Precommits(s.votes, s.commitRound))
    IN  IF running(s) /\ id \in Blocks /\ s.pblock = id THEN finalizeCommit(s, id, w) ELSE s

\* Take over the locked block if it is the committed one; make room for the
\* committed block if another one was being gathered.
commitSetUp(s, id) ==
    LET t == IF s.lock.block = id
             THEN [s EXCEPT !.pblock = s.lock.block, !.parts = s.lock.parts] ELSE s
    IN  IF t.pblock \notin {NoId, id} THEN fetching(t, id) ELSE t

enterCommit(s, c, w) ==
    LET id == TwoThirdsMajority(Precommits(s.votes, c))
    IN  IF ~running(s) \/ RoundStepCommit =< s.step THEN s
        ELSE IF id = NoId THEN panic(s, "enterCommit")
        ELSE tryFinalizeCommit([commitSetUp(s, id) EXCEPT !.step = RoundStepCommit,
                                                          !.commitRound = c], w)

-----------------------------------------------------------------------------
(* Messages *)

\* A proposal is taken once per round, before the commit.  The check of the
\* proposer's signature is in ReceiveProposal: others propose only in the
\* rounds that are not the node's turn.
setProposal(s, m) ==
    IF /\ s.proposal = NoProposal
       /\ m.height = s.height /\ m.round = s.round
       /\ s.step < RoundStepCommit
       /\ m.pol = -1 \/ (m.pol >= 0 /\ m.pol < m.round)
    THEN [s EXCEPT !.proposal = [block |-> m.block, pol |-> m.pol],
                   !.parts = PartsOf(m.block)]
    ELSE s

\* Valid* is set to the proposal block when a polka for it is known.
validOn(s, r, id) ==
    IF id \in Blocks /\ s.valid.round < r /\ r =< s.round /\ s.pblock = id
    THEN [s EXCEPT !.valid = [round |-> r, block |-> s.pblock, parts |-> s.parts]]
    ELSE s

\* The last missing part arrives: the block is there.
blockCompleted(s, w) ==
    LET t == [s EXCEPT !.parts.done = TRUE, !.pblock = s.parts.block]
        u == validOn(t, t.round, TwoThirdsMajority(Prevotes(t.votes, t.round)))
    IN  IF u.step =< RoundStepPropose /\ isProposalComplete(u) THEN enterPrevote(u, u.round, w)
        ELSE IF u.step = RoundStepCommit THEN tryFinalizeCommit(u, w)
        ELSE u

addProposalBlockPart(s, m, w) ==
    IF m.height # s.height \/ s.parts = NoParts THEN s
    ELSE IF m.block = NoId THEN panic(s, "nil part")
    ELSE IF m.block = s.parts.block /\ ~s.parts.done THEN blockCompleted(s, w)
    ELSE s

ballot(m) == [id |-> m.id, res |-> m.res]

\* A precommit of the height before, while the new height has not begun
lateCommitVote(s, m, w) ==
    LET set == s.lastCommit.set
        t   == [s EXCEPT !.lastCommit.set = addVote(set, m.v, ballot(m))]
    IN  IF \/ s.step # RoundStepNewHeight \/ m.kind # "precommit"
           \/ s.lastCommit = NoId \/ s.lastCommit.round # m.round
        THEN s
        ELSE IF isAdded(set, m.v, ballot(m)) /\ SkipTimeoutCommit /\ HasAll(t.lastCommit.set)
        THEN enterNewRound(t, 0, w)
        ELSE t

\* Mutant of lockReleased: only enterPrecommit unlocks.
lockReleasedNever(s, r, id) == s

\* A polka for something else, later than the lock, unlocks.
lockReleased(s, r, id) ==
    IF s.lock.block \notin {NoId, id} /\ s.lock.round < r /\ r =< s.round
    THEN unlocked(s) ELSE s

prevoteAdded(s, r, w) ==
    LET prevotes == Prevotes(s.votes, r)
        id       == TwoThirdsMajority(prevotes)
        t        == IF id = NoId THEN s ELSE validOn(lockReleased(s, r, id), r, id)
        n        == enterNewRound(t, r, w)
    IN  IF t.round =< r /\ HasTwoThirdsAny(prevotes)
        THEN IF id # NoId THEN enterPrecommit(n, r, w)
             ELSE enterPrevoteWait(enterPrevote(n, r, w), r)
        ELSE IF t.proposal # NoProposal /\ t.proposal.pol = r /\ isProposalComplete(t)
        THEN enterPrevote(t, t.round, w)
        ELSE t

precommitAdded(s, r, w) ==
    LET precommits == Precommits(s.votes, r)
        id         == TwoThirdsMajority(precommits)
        n          == enterPrecommit(enterNewRound(s, r, w), r, w)
        c          == enterCommit(n, r, w)
    IN  CASE id = Nil -> enterNewRound(s, r + 1, w)
          [] id \in Blocks -> IF SkipTimeoutCommit /\ HasAll(precommits)
                              THEN enterNewRound(c, 0, w) ELSE c
          [] id = NoId /\ HasAll(precommits) -> enterNewRound(s, s.round + 1, w)
          [] id = NoId /\ ~HasAll(precommits) ->
                IF s.round =< r /\ HasTwoThirdsAny(precommits)
                THEN enterPrecommitWait(n, r) ELSE s

\* addVote of the consensus state
addVoteMsg(s, m, o, w) ==
    LET t == [s EXCEPT !.votes = AddVote(@, m.round, m.kind, m.v, ballot(m), o)]
    IN  IF m.height + 1 = s.height THEN lateCommitVote(s, m, w)
        ELSE IF m.height # s.height THEN s
        ELSE IF ~Added(s.votes, m.round, m.kind, m.v, ballot(m), o) THEN t
        ELSE IF m.kind = "prevote" THEN prevoteAdded(t, m.round, w)
        ELSE precommitAdded(t, m.round, w)

handleMsg(s, m, o, w) ==
    CASE m.type = "proposal" -> setProposal(s, m)
      [] m.type = "part"     -> addProposalBlockPart(s, m, w)
      [] m.type = "vote"     -> addVoteMsg(s, m, o, w)

handleTimeout(s, w) ==
    LET ti == s.timer
    IN  IF \/ ti.height # s.height \/ ti.round < s.round
           \/ ti.round = s.round /\ ti.step < s.step
        THEN s
        ELSE CASE ti.step = RoundStepNewHeight     -> enterNewRound(s, 0, w)
               [] ti.step = RoundStepNewRound      -> tryEnterProposal(s, 0, ti.wait, w)
               [] ti.step = RoundStepPropose       -> enterPrevote(s, ti.round, w)
               [] ti.step = RoundStepPrevoteWait   -> enterPrecommit(s, ti.round, w)
               [] ti.step = RoundStepPrecommitWait -> enterNewRound(s, ti.round + 1, w)

-----------------------------------------------------------------------------
(* The state machine *)

VARIABLES cs,       \* the node
          record,   \* history: the votes of height 1 that agree and that the
                    \* node added to a vote set, <<validator, round, id>>
          resets    \* restarts and committee updates so far

vars == <<cs, record, resets>>

\* NewConsensusState and OnStart on top of a chain of height h
started(h) ==
    scheduleRound0(
        [height |-> h + 1, round |-> 0, step |-> RoundStepNewHeight, commitRound |-> -1,
         proposal |-> NoProposal, pblock |-> NoId, parts |-> NoParts,
         lock |-> Unset, valid |-> Unset, votes |-> NewHeightVoteSet, lastCommit |-> NoId,
         timer |-> NoTimer, queue |-> <<>>,
         signer |-> [height |-> 0, round |-> 0, step |-> 0], refused |-> FALSE,
         chain |-> h, stored |-> {}, halt |-> "no"])

Init == cs = started(0) /\ record = [k \in Kinds |-> {}] /\ resets = 0

\* The votes on record after message m was handled
recordAfter(m, o) ==
    IF /\ m.type = "vote" /\ m.height = 1 /\ m.res = "agree"
       /\ \/ cs.height = 1 /\ Added(cs.votes, m.round, m.kind, m.v, ballot(m), o)
          \/ /\ cs.height = 2 /\ cs.step = RoundStepNewHeight /\ m.kind = "precommit"
             /\ cs.lastCommit # NoId
             /\ cs.lastCommit.round = m.round /\ isAdded(cs.lastCommit.set, m.v, ballot(m))
    THEN [record EXCEPT ![m.kind] = @ \cup {<<m.v, m.round, m.id>>}]
    ELSE record

\* A message from the internal queue
HandleOwn ==
    /\ running(cs) /\ cs.queue # <<>>
    /\ \E w \in Worlds :
          cs' = handleMsg([cs EXCEPT !.queue = Tail(@)], Head(cs.queue), Own, w)
    /\ record' = recordAfter(Head(cs.queue), Own)
    /\ UNCHANGED resets

Receive(m, p) ==
    /\ running(cs)
    /\ \E w \in Worlds : cs' = handleMsg(cs, m, p, w)
    /\ record' = recordAfter(m, p)
    /\ UNCHANGED resets

\* The heights whose messages are not ignored
Heights == {cs.height, cs.height - 1} \cap 1..MaxHeight

\* Others propose in the rounds that are not the node's own; see
\* decideProposal for the rounds they may name as the one of their polka.
ReceiveProposal(p) ==
    \E h \in Heights, r \in (0..MaxRound) \ Turns, b \in Blocks : \E pol \in -1..r :
        Receive([type |-> "proposal", height |-> h, round |-> r, block |-> b, pol |-> pol], p)

ReceivePart(p) ==
    \E h \in Heights, b \in Blocks :
        Receive([type |-> "part", height |-> h, block |-> b], p)

\* The other members sign one vote per height, round and kind.
isVoteOf(v, h, r, k, vote) ==
    LET set == IF h = cs.height THEN getVoteSet(cs.votes, r, k)
               ELSE IF cs.lastCommit = NoId THEN NewVoteSet ELSE cs.lastCommit.set
    IN  set.votes[v] \in {NoVote, vote}

\* A nil vote carries the Result agree.
ReceiveVote(p) ==
    \E h \in Heights, r \in 0..MaxRound, k \in Kinds, v \in Validators \ {Self} :
        \E id \in Ballots[v] : \E res \in IF id = Nil THEN {"agree"} ELSE Verdicts \cap Results :
            /\ isVoteOf(v, h, r, k, [id |-> id, res |-> res])
            /\ Receive([type |-> "vote", height |-> h, round |-> r, kind |-> k, v |-> v,
                        id |-> id, res |-> res], p)

\* The timer fires and the timeout is handled
Timeout ==
    /\ running(cs) /\ cs.timer.armed
    /\ \E w \in Worlds : cs' = handleTimeout([cs EXCEPT !.timer.armed = FALSE], w)
    /\ UNCHANGED <<record, resets>>

\* A block of the current height reaches the chain from elsewhere
ChainAdvances ==
    /\ running(cs) /\ cs.chain < cs.height /\ cs.chain < MaxImports
    /\ cs' = [cs EXCEPT !.chain = @ + 1]
    /\ UNCHANGED <<record, resets>>

privReset(s) == [s EXCEPT !.signer = [height |-> 0, round |-> 0, step |-> 0]]

\* Mutant of SyncTask: only a chain that is further behind counts.
SyncTaskBehind ==
    /\ running(cs) /\ cs.chain + 1 < cs.height
    /\ cs' = scheduleRound0(privReset(updateToState(cs)))
    /\ UNCHANGED <<record, resets>>

\* updateStateForSync, on the timeout of the task ticker
SyncTask ==
    /\ running(cs) /\ cs.chain + 1 # cs.height
    /\ cs' = LET s == updateToState(cs)
             IN  IF running(s) THEN scheduleRound0(privReset(s)) ELSE s
    /\ UNCHANGED <<record, resets>>

\* validatorUpdate, with a committee of the same members
ValidatorUpdate ==
    /\ running(cs) /\ resets < MaxResets
    /\ \E w \in Worlds :
          LET s == updateToState(cs)
              r == IF s.height = cs.height /\ cs.round > 0 THEN cs.round + 1 ELSE 0
          IN  cs' = IF running(s) THEN enterNewRound(privReset(s), r, w) ELSE s
    /\ resets' = resets + 1
    /\ UNCHANGED record

\* The process ends at any point and starts again: the round state, the
\* block store and the signer live in memory only.
Restart ==
    /\ resets < MaxResets
    /\ cs' = started(cs.chain)
    /\ resets' = resets + 1
    /\ UNCHANGED record

Next == \/ HandleOwn
        \/ \E p \in Peers : ReceiveProposal(p) \/ ReceivePart(p) \/ ReceiveVote(p)
        \/ Timeout \/ ChainAdvances \/ SyncTask \/ ValidatorUpdate \/ Restart

Spec == Init /\ [][Next]_vars

\* The tickers keep running and the receive routine reads their channels.
LiveSpec == Spec /\ WF_vars(Timeout) /\ WF_vars(SyncTask)

-----------------------------------------------------------------------------
(* Properties *)

\* The assertions of enterNewRound (SetRound), enterPrevoteWait, enterPrecommit,
\* enterPrecommitWait, enterCommit and updateToState never fail, whatever the
\* order in which the votes of all rounds arrive.  (The one of finalizeCommit
\* is CommittedPartsMatch.)
SanityChecksHold == cs.halt \in {"no", "no verdict", "finalizeCommit", "nil part"}

\* finalizeCommit: "Expected ProposalBlockParts header to be commit header"
CommittedPartsMatch == cs.halt # "finalizeCommit"

\* The node never asks its signer for a second signature at one height, round
\* and step, nor for an earlier one: the guards of the enter functions do not
\* rely on the signer to refuse.
SignerNeverRefuses == ~cs.refused

\* Until a committee update starts a round again, a step the node leaves by a
\* timeout has this timeout armed: the ticker has not ignored it as older than
\* what it had seen.
TimerCoversStep ==
    resets = 0 /\ cs.step \in {RoundStepNewHeight, RoundStepNewRound, RoundStepPropose,
                 RoundStepPrevoteWait, RoundStepPrecommitWait} /\ running(cs) =>
        /\ cs.timer.armed
        /\ cs.timer.height = cs.height /\ cs.timer.round = cs.round /\ cs.timer.step = cs.step

\* A lock rests on a polka of its round for its block, and no later polka that
\* the node knows of is for anything else.  The valid block, which a proposer
\* takes first, has a polka of its round too.
LockIsCurrent ==
    /\ cs.lock.block # NoId =>
        /\ cs.lock.round =< cs.round
        /\ TwoThirdsMajority(Prevotes(cs.votes, cs.lock.round)) = cs.lock.block
        /\ cs.lock.parts = [block |-> cs.lock.block, done |-> TRUE]
        /\ \A r \in (cs.lock.round + 1)..cs.round :
              TwoThirdsMajority(Prevotes(cs.votes, r)) \in {NoId, cs.lock.block}
    /\ cs.valid.block # NoId =>
        /\ cs.valid.round =< cs.round
        /\ TwoThirdsMajority(Prevotes(cs.votes, cs.valid.round)) = cs.valid.block

\* The node is in a step that it leaves by a timeout if by nothing else.
Waiting ==
    /\ running(cs) /\ cs.height =< MaxHeight
    /\ cs.step \in {RoundStepNewHeight, RoundStepNewRound, RoundStepPropose,
                   RoundStepPrevoteWait, RoundStepPrecommitWait}

Moves == <<cs.height, cs.round, cs.step>>' # <<cs.height, cs.round, cs.step>>

\* No step that ends with a timeout lasts for ever: a node that does nothing
\* but wait still goes from step to step.
WaitsEnd == []<>~Waiting \/ []<><<Moves>>_vars

\* A node whose chain has moved on without it, even one that waits in Commit
\* for a block nobody sends, gets to the next height.
CatchesUp == \A h \in 1..MaxHeight :
    cs.height = h /\ cs.chain = h ~> cs.height > h \/ ~running(cs)

StoredAt(h) == {b.block : b \in {c \in cs.stored : c.height = h}}

Voting == INSTANCE TBFTVoting WITH
              Correct    <- {Self},
              Rounds     <- 0..(MaxRound + 4),
              prevotes   <- record["prevote"],
              precommits <- {x \in record["precommit"] : x[3] # Nil},
              decided    <- [v \in {Self} |-> IF StoredAt(1) = {} THEN Nil
                                              ELSE CHOOSE b \in StoredAt(1) : TRUE]

\* Each step of the node is a step of TBFTVoting on the votes on record and the
\* block committed at height 1, or leaves them alone: the node casts one vote
\* per round and kind, no prevote against a lock without a later polka, no
\* precommit without a polka of its round, and commits with a quorum only.
VotingSteps == [][UNCHANGED Voting!vars \/ Voting!Next]_vars

\* VotingSteps from the start: the node implements TBFTVoting.
ImplementsVoting == Voting!Init /\ [][UNCHANGED Voting!vars \/ Voting!Next]_vars

-----------------------------------------------------------------------------
(* What comments and assertions of the source say, and the code does not do *)

\* The node's votes of height 1 and kind k, on record or still in its queue
OwnVotes(k) ==
    {<<x[2], x[3]>> : x \in {y \in record[k] : y[1] = Self}} \cup
    {<<m.round, m.id>> :
        m \in {n \in {cs.queue[i] : i \in DOMAIN cs.queue} :
                  n.type = "vote" /\ n.height = 1 /\ n.kind = k /\ n.res = "agree"}}

\* "never double signs" (PrivValidator): the node's votes of height 1 for one
\* round and kind are all the same.
NeverDoubleSigns ==
    \A k \in Kinds : \A x, y \in OwnVotes(k) : x[1] = y[1] => x = y

===============================================================================
