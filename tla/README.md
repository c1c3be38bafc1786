# TLA+ models of the AbeyChain node

AbeyChain (go-abey) keeps two chains. A committee produces the *fast chain*,
which holds the transactions, with TBFT, a modified Tendermint. Miners produce
the *snail chain* by proof of work; its blocks carry *fruits*, each of which
names a fast block. The staking contract decides who is on the committee of an
*epoch*, a range of fast blocks. These modules model the life of a fast block
and of the committee that makes it: how votes are signed, counted, gossiped and
turned into a commit; how a node follows the committees from epoch to epoch;
how stakes and rewards are kept; how a block is fetched and written and what a
crash leaves of it; and how the pool holds transactions until then. TLC checks
them on small instances. The central properties of voting, of the consensus
state machine, of the handover and of the chain are proved for all instances.

## Inventory

State, operations and hard behaviours of the parts, as the source has them.

| Part | Source | State | Operations | What is hard about it | Module |
|---|---|---|---|---|---|
| Signer | `consensus/tbft/types/priv_validator.go` | height, round, step and bytes of the last signature | SignVote, SignProposal, Reset | requests out of order, repeats, record in memory only | PrivValidator |
| Vote set | `types/vote_set.go` | votes, sums, majority, votes per block, claims of peers | AddVote, SetPeerMaj23 | conflicting votes, votes against, claims before and after votes | VoteSetOps, VoteSet |
| Votes of a height | `types/height_vote_set.go` | vote sets per round, catch-up rounds per peer | AddVote, SetRound, SetPeerMaj23, POLInfo | votes of rounds not yet reached | HeightVoteSetOps, HeightVoteSet |
| Proposer rotation | `types/validator_set.go`, `validator.go` | accum per validator, proposer | IncrementAccum, FindValidatorSetProposer | members skip different rounds; int64 arithmetic | ValidatorSet |
| Ticker | `ticker.go` | tick channel, one timer, tocks on their way | ScheduleTimeout, timeoutRoutine | three routines and the runtime timer race | TimeoutTicker |
| State machine | `state.go` | RoundState, lock, valid block, own queue | handlers of messages, timeouts, sync task, committee update | any order of votes of all rounds, failures of the chain, restarts | ConsensusState |
| Reactor | `reactor.go` | PeerState per peer | Receive, gossip routines | marks before sends, lost and reordered messages | VoteGossip |
| Node service | `node.go` | one service per committee | Notify, PutCommittee | start and stop in any order | EpochHandover |
| Agent | `abey/pbft_agent.go` | committees, works, cached infos | chain events, FetchFastBlock, BroadcastConsensus | handover between committees around the last block of an epoch | EpochHandover |
| Election | `consensus/election/election.go` | committees by epoch | getValidators and its cache | a cache filled before the epoch it is for | EpochHandover |
| Staking | `core/vm/impawn.go`, `staking.go` | accounts per epoch, redemptions | deposit, delegate, cancel, redeem, DoElections, Shift, Reward | conservation of amounts over epochs | Epochs, Staking |
| Fast chain | `core/blockchain.go` | head, canonical blocks, states, rewards | InsertChain, Stop, load and repair | a crash between any two writes | FastChain |
| Fetcher | `abey/fetcher/` | announced, fetched, queued items | loop, Notify, Enqueue, Filter | insertions and timers racing answers | Fetcher |
| Transaction pool | `core/tx_pool.go` | pending and queued transactions, prices, journal | add, reset, loop | reset against a head that has moved | TxPool |

`PROJECT.json` lists these and the parts that are not modelled, with the
reason, and the hazards of the code with the properties that watch them.

## Modules

Component modules hold the state machine and the properties. An `...Ops`
module holds the pure operators of a data structure, so that the structure can
be checked by itself and used inside a larger one. `...Proof` modules hold
theorems. `MC...` modules give the constants of the runs, and put parts that
are checked on their own next to each other: a variable `part` says which of
them a behaviour is of, and the others stay in their initial state.

```
VotingPower -- VoteSetOps -- HeightVoteSetOps -- ConsensusState
     |             |               |                  |  implements
     |          VoteSet       HeightVoteSet       TBFTVoting -- TBFTAgreement
     +-- ValidatorSet
PrivValidator      TimeoutTicker      VoteGossip
Epochs -- Staking
   +----- EpochHandover      FastChain      Fetcher      TxPool
```

**PrivValidator.** `last` is LastHeight, LastRound, LastStep and LastSignBytes;
`released` is a history variable with what was signed since the last reset.
The outcomes of signVote and signProposal are four actions: SignNew, SignAgain
(the same height, round and step and the same bytes), SignConflicting,
SignRegression. A request is its own sign bytes. The bytes are a hash, so the
test for "differs by timestamp only" cannot parse them and panics: that is
`panicOn`.

**VotingPower.** `PowerOf` gives the power of every *set* of validators; all
that is assumed is that it is additive. `quorum` is `total*2/3 + 1` with
integer division, as in addVerifiedVote.

**VoteSetOps, VoteSetProperties, VoteSet.** A record with the fields of VoteSet.
`addVote` follows addVote, getVote, addVerifiedVote and
blockVotes.addVerifiedVote: `share` is the update of `.votes` and `.sum`,
`addToBlock` that of the block's entry, and `crowned` that of the majority, with
the copy of the block's votes. Only votes with Result agree count for a block.
Index, address and signature checks come before this code and are not modelled;
a vote here has passed them.

**HeightVoteSetOps, HeightVoteSet.** Rounds are tracked when SetRound or a
catch-up vote creates them. Origins are the peers and the node itself. A vote
that the vote set rejects has created its round by then (ReceiveBadVote).

**ValidatorSet.** Members rotate their own sets, by as many rounds as they
enter at once. Commit lets the height end with a block made in any round so
far, since a locked or valid block is proposed again. `clip` is the saturating
arithmetic. Powers are 1 in the runs, as MakeValidators makes them.

**TimeoutTicker.** A height, round and step is a point on a line. The variables
are the position of the consensus routine, the tick channel with its real
capacity of 10, the timeout kept by timeoutRoutine, the state of the
`time.Timer`, and the tocks that goroutines carry back, a bag without order.
The runtime clears the timer and fills its channel in two steps, so a Stop in
between finds nothing to drain.

**ConsensusState.** The node is one record and each method of `state.go` is an
operator on it with the name of the method. receiveRoutine handles one message
or timeout at a time under the mutex, so a handler, with everything it calls,
is one step. Panics set `halt`. What a handler learns from the agent is its
argument `w`: the block MakeBlock returns, the verdict of ValidateBlock, the
outcome of ConsensusCommit (inserted; failed; inserted but the signature not
sent; only cached because the parent is missing). The actions:

| Action | Code |
|---|---|
| HandleOwn | a message of internalMsgQueue |
| ReceiveProposal, ReceivePart, ReceiveVote | peerMsgQueue, handleMsg |
| Timeout | a tock, handleTimeout |
| ChainAdvances | a block of the current height reaches the chain from elsewhere |
| SyncTask | handleTimeoutForTask, updateStateForSync |
| ValidatorUpdate | validatorUpdate |
| Restart | NewConsensusState and OnStart on the chain as it is |

Abstractions: a block id stands for hash and parts header (CommittedPartsMatch
is about where the two come apart); one part message stands for the last missing
part; the timer fires at most once per scheduling, and late and repeated tocks
are the matter of TimeoutTicker; the signer's refusal is remembered in
`refused`, and its inside is the matter of PrivValidator. The
proposalForCatchup fields are never read with effect and are left out. The
internal queue is never full (state.go:393 lets own messages overtake each
other when it is).

**TBFTVoting, TBFTAgreement.** The abstract specification: what nodes promise
each other about the votes of one height, without rounds being entered, timers
or messages. A correct validator casts one prevote and one precommit per round,
none in a round it has passed, prevotes against its own earlier precommit only
after a later polka for something else, precommits only with a polka of the
round, and commits only with a quorum of precommits. The other validators vote
at will. TBFTAgreement adds the assumption that those have less than a third
of the power, and the inductive invariant.

ConsensusState implements TBFTVoting with `Correct <- {Self}`: a vote is on
record once the node has added it to a vote set, a decision is a block in the
block store. The rules for a node only ask that some votes exist, and the votes
a node has seen are among those that were cast, so each node's steps are also
steps of TBFTVoting for the whole committee. That one node implements TBFTVoting
is proved (ConsensusVotingProof), and so is Agreement for a committee of such
validators (TBFTAgreementProof); the lifting from one node to the committee is
an argument on paper, not a checked one.

**VoteGossip.** The node and one peer. `prs` is the PeerRoundState: what the
node believes the peer has. PickSendVote marks a vote before Send
(reactor.go:934), so a send that fails leaves a mark for a vote that never
arrived; only the exchange VoteSetMaj23, VoteSetBits or a new round repairs it. Broadcasts are
goroutines and channels have queues of their own, so the messages in flight are
a set and arrive in any order. A question is about a round, a kind of vote and
the block or nil, and a peer that does not track the round (`tracks`: it has no
vote set for it yet) answers with nil, which corrects no mark. Votes are those
of height 1, which both sides leave when they commit. The gossip of block parts
is left out.

**Epochs.** The arithmetic of `core/types/impawnUtil.go`: which heights an epoch
has and which epoch a height is in, and until when a cancelled stake is locked.

**Staking.** Every method of the contract is an action (deposit, depositAppend,
delegate, cancel, withdraw, setFeeRate, setPubkey), and so is Finalize, the end
of a block: rewards (of snail blocks before TIP9, of epochs after, and from then
on none while the node's snail chain has not reached TIP9), election, shift to
the next epoch. `accounts[e]` is the ledger of epoch e with one unit
per owner of a stake. `history` and `elected` are ghosts. A failed call is
reverted and changes nothing. Left out: transfers, gas, the one-time repair of
TIP10, the encoding of the ledger.

**EpochHandover.** The loop of PbftAgent behind the chain, the services of Node,
the block a service is making, and the cache of Election, while the network
decides blocks and the node inserts them, crashes, loses the head of its chain
and is started again. createProposalBlock and FetchFastBlock each read the head,
so they are two actions. TIP8 is in force from the genesis block, as in every
shipped configuration, so that Election sends no event, and DposForkPoint is 0
in the runs as it is there. The theorems allow any DposForkPoint; with a
positive one the epoch before FirstNewEpochID has blocks, and its committee is
taken to be elected by its last block, whereas getElections3 (impawn.go:721-727)
has it from the start.

**FastChain.** `disk` is the database, `node` the fields of BlockChain. The
pieces of a block are written one by one in the order of the source (`writes`);
CrashChain may come between any two; loadLastState has the repair. The
committee decides one chain, so a block is its number. States reach the disk
only every Interval blocks and on Stop.

**Fetcher.** `f` holds the fields of Fetcher, `loop` where its goroutine is,
`tasks` the goroutines that insert. Notify, Enqueue, the two timers, headers,
bodies, the start and end of an insertion and a chain that grows by other means
are actions. The signatures of a block are not part of its hash, so what peers
send are copies `[hash, enough]`, and agreeAtSameHeight looks at the signatures
of the copy at hand; the insertion verifies them and succeeds only for a block
the committee has decided. The counter of announcements per peer, batches of
several headers or bodies, and Stop are left out.

**TxPool.** Every entry point holds the mutex, so a call is one action: addTxs
of peers (AddRemotes), addTx of the user (AddLocal), reset on a head event
(chainHead, or chainHeadWithoutState when the state cannot be read), evict,
rejournal, SetGasPrice, and a restart from the journal. The chain moves on
before the loop hears of it; a block has any number of transactions, and a
reorganisation may drop several of one account. `pool.ord` is the order in which
Go iterates over maps, chosen anew by every call. `short` is a history variable:
the accounts of which a reset did not get every dropped transaction back. Sizes,
signatures, the gas limit, I/O errors of the journal and the skip of
reorganisations whose heads are more than 64 numbers apart are left out.

## Runs

Passing runs, with their distinct states:

| Run | Shows | Bounds |
|---|---|---|
| components (201,110) | signer: one signature per height, round and step. Votes of a height: catch-up is bounded, votes are kept. Rotation: members name the same proposer, turns follow the power. Pool: indexes agree, pending transactions can be executed in turn and paid for, no limit, price or reorganisation drops a local one | signer: 2 heights, 2 rounds, 2 values; votes: 2 validators, 4 rounds, 2 votes, 1 claim; rotation: 3 validators, 2 members, 6 rounds, 3 heights, MaxInt 127; pool: 2 accounts, 7 transactions (two with another payer), blocks of up to 2 transactions, GlobalSlots 3, 1 fork, 1 crash in a world with local transactions, and none in one where all are remote |
| agreement (123,590) | Agreement and the inductive invariant of its proof, from a lock onwards; sums of a vote set are exact, its commit can be shown, two quorums need equivocation | 3 correct and 1 arbitrary validator, 3 rounds, 2 blocks; vote set with 2 ids and 2 peers |
| round (190,098) | no sanity check panics, timers cover steps, the signer is never asked twice | one world with rounds 0 and 1 of the others and 1 import; one with 1 restart or committee update, verdicts agree, none and missing, failing inserts |
| lock (128,956) | LockIsCurrent; every step is a step of TBFTVoting | from a lock in round 0; any votes for two blocks and nil in rounds 0 and 1; no restart and no committee update |
| agent (77,135) | ImplementsVoting from the start and, under fairness, NodeWaitsEnd and NodeCatchesUp, on the proposer's side; TimeoutEndsItsOwnStep and StepsEnd of the ticker | the node waits once for transactions, may vote against a block, SkipTimeoutCommit, signatures that are not sent, 1 import; ticker: buffer 10, 2 waits, 6 steps |
| staking (296,588) | StakeIsAccounted, RedeemableIsExact, RewardIsPaid, CommitteeIsSettled | 2 genesis members and 1 address, epochs of 2 blocks, TIP9 at 8, 9 blocks, 1 stake call, 3 redeem calls, amounts of 1: no withdrawal takes from two items |
| handover (1,944,051) | handover: MemberServes, FirstBlockNamesCommittee, CacheIsElected; chain: HeadIsWhole, NextIsImportable, FallbackLasts, HeadOnlyGrows; fetcher: QueueIsAccounted, WorkIsScheduled | epochs of 4 blocks, ElectionPoint 2, 12 blocks, lag 4, rollback 2, 1 restart; 5 blocks, all before TIP9, states kept for 3, 2 waiting calls; 2 decided blocks and 1 that is not, each in copies with and without enough signatures, 2 announcements (one wrong), BlockLimit 2, MaxQueueDist 2, 2 insertions |
| gossip (148,373) | MarksAreTrue and, under fairness, LaggardGetsCommit and MajorityIsShared | 2 validators, one of which is a quorum, 2 rounds, a majority for nil, 1 lost send |

The committee of the ConsensusState runs has the powers 1, 1 and 2: quorums
with and without the node, and two thirds of the votes without a majority, all
occur with three voters. `MaxRound` bounds the rounds the *others* vote in; the
node itself goes on to the rounds after. The bounds on rounds are small, and
the interesting cases need two: a lock in one round and its release or its
reuse in the next. Three epochs are what a handover needs: one before, one in
which a node may be launched late, one after. A chain of five blocks has a paid
block below, at and above the block a repair goes back to. Two starts, MCSpec
and MCMissedSpec, are computed by running the handlers on a list of messages,
so every one of them is a state of Spec; from there the search reaches what
would be too deep from the start. Symmetry is used only in runs without
liveness properties. CHECK_DEADLOCK is off where the bounds, or a panic of the
code, end a behaviour.

Fairness. The agent run asks for weak fairness of Timeout and SyncTask: the
ticker routines run as long as the process and receiveRoutine selects over
their channels. Nothing is asked of messages. NodeWaitsEnd says that a node
which from some point on is always in a step that ends with a timeout keeps
moving from step to step, that is, it is stuck in none of them. For the ticker
it asks for weak fairness of Serve: the routine that reads the tick channel,
the runtime timer and the delivery of each tock, each of which is a goroutine
or a select branch that stays enabled. The gossip run asks for weak fairness of
the delivery of messages that were sent, and for strong fairness of
gossipVotes per vote and of queryMaj23Routine per vote set: both routines loop
for as long as the peer is connected, and pick at random among what they may
send. A send may still fail.

Every property of every passing run has a mutant in `PROJECT.json`: a changed
definition under which the property fails.

### Where the code and its comments disagree

Four runs end in a violation, each of a statement of the source:

| Run | Statement | What the code does |
|---|---|---|
| commit_parts | state.go:1290-1291, assertion | a late proposal replaces the parts of a complete block, the commit panics |
| double_sign | priv_validator.go:43-44, :88, never double signs, persisted | the record is in memory and is cleared on updates |
| epoch_launch | pbft_agent.go:647, :661, the new committee is started | an agent launched between the election block and the end of an epoch prepares nothing for the next one, and a member sits it out (25000 blocks) |
| repair_panic | blockchain.go:1274, blockchain_insert.go:114, a pruned block is inserted as a sidechain | after a repair the fast head is ahead; a single block above it is taken for a sidechain whose previous block is nil |

More disagreements came up while the modules were written. The modules have
these behaviours, since they follow the code, unless it is said that they are
left out, and no run of the project keeps a property for them:

| Statement | What the code does |
|---|---|
| priv_validator.go:132, repeats that differ by timestamp are answered | the sign bytes are a hash, parsing them panics |
| priv_validator.go:520, a missing verdict is checked for | it is read for the log line before; the node halts ("no verdict") |
| vote_set.go:46-47, every vote has its entry in votesByBlock | a conflicting vote for the majority block is shared first and turned away after |
| validator_set.go:23-25, the proposer changes every round | round 0 takes the last block's proposer, round 1 may name it again |
| ticker.go:70-71, scheduling fails only for older timeouts | the 11th tick in a row is dropped |
| state.go:1226, set up to get the committed block | not without a proposal block |
| state.go:690-696, the ways into a round | all precommits of an old round end the current one; a proposal completed in NewHeight makes the node prevote before enterNewRound |
| state.go:1364, POLRound is before the round | POLInfo may return the current round, which receivers reject |
| state.go:948, :981, a locked block is prevoted | nil, when the agent gives no verdict any more |
| state.go:1339-1340, the height has been raised | not when the agent only cached the block |
| state.go:828, a missing proposal leads to enterPrevote | after a committee update the ticker ignores the timeout |
| reactor.go:1235-1236, without votes of its own the node overwrites the peer's marks with the answer | not with an answer of nil, from a peer that does not track the round: Update(nil) leaves the marks, and lost votes are not sent again before the peer has the round |
| reactor.go:1177, "Shift Precommits to LastCommit" | :1167 has cleared them |
| tx_pool.go:779, the sender of a local transaction becomes a local account | not if the transaction replaces a pending one: add has returned before |
| tx_pool.go:659, "Drop non-local transactions under our own minimal accepted gas price" | local ones too |
| tx_pool.go:382, queued transactions go when their account was idle for Lifetime | heartbeats are set on promotion only (:860); those of an account that had no pending one go at the first tick |
| tx_pool.go:249, pending holds "All currently processable transactions" | after a reorganisation that drops two transactions of an account of which only the first is accepted again, the later ones stay pending behind the gap: demoteUnexecutables looks in front only (:1245) |
| fetcher.go:39, "Maximum allotted time to return an explicitly requested block" | none for bodies: a hash whose body never comes is not fetched again unless its block is broadcast |

Some of them limit what the runs and theorems can say. The runs for VotingSteps
and ImplementsVoting have an agent that gives a verdict whenever it is asked: a
locked node that gets none prevotes nil, which the abstract voting does not
allow, because a polka for nil releases locks. TimerCoversStep is about nodes
that have not been reset. The outcome "only cached" starts a height again at
round 0 with empty votes while signer and timer stand where they were; no run
has it, and the theorems about the node exclude it (`ParentsAreThere`, below).

The agreement theorem is about nodes that keep their signing record and their
lock for the whole height and always get a verdict on a block they are locked
on. The run double_sign shows that a node which restarts, or whose committee is
updated, within a height does not: such a node counts among the validators that
may vote at will.

NextIsImportable needs that TIP9 lies outside of the blocks of the instance
(`RewardsFollow`). With TIP9 among five blocks TLC finds that after a repair
from a block past TIP9 to one before a paying block, loadLastState, which tests
the head *header* (blockchain.go:305), takes the rewards as paid, and the next
paying block is refused. The main net and the test net have TIP9 at the fast
blocks 8742700 and 2660000, the others at 0, so that the case arises once in the
life of a node, if at all.

LaggardGetsCommit is about peers that track the round of the commit: without
this TLC finds a peer in NewHeight to which a precommit of round 1 was lost, and
whose nil answers never clear the mark. StepsEnd is checked with fewer steps
than the tick channel holds, so that no tick is dropped. WorkIsScheduled is
about queued copies with enough signatures. A copy with too few stays queued
without an item, and because the queue knows blocks by hash alone it shuts out
the copies that come after it, well signed or not, until the height is done
(fetcher.go:708). PendingIsExecutable allows a gap for accounts in `short` only.

One more fact about the fetcher that no comment speaks of: a block that comes
again while it is being inserted is forgotten as already sent and may be
inserted a second time at once (MaxTasks bounds this). And about staking: an
election that elects nobody makes the reward of the epoch, and with it Finalize,
fail; the rounding remainder of a reward stays unpaid if the last elected account has
no stake; setFee and setPubkey at the height of the last stake are ignored.

## Proofs

All theorems hold for every value of the constants under the named assumptions
of the modules. `tlapm` checks them to the last leaf.

**Signer** (TBFTAgreementProof, at its end, where `PV` is an instance of
PrivValidator). `SignerInv` is TypeOK, OneSignaturePerHRS and
RecordCoversReleased: whatever was released since the last reset lies before
the record, or is what the record holds. OneSignaturePerHRS alone is not
inductive, because a step signs by looking at the record, not at what was
released. NoDoubleSigning follows. Assumption: heights and rounds are naturals.

**Voting power** (QuorumProof). From additivity alone: power is monotone,
`p >= total*2/3 + 1` with integer division means `3p > 2 total`, and two
quorums share more than a third of the power (QuorumsOverlap). No validator
need have positive power, and the committee need not be finite. The module also
has the lemmas on vote sets as values (`VoteSetInv` is kept by addVote and
SetPeerMaj23), which the proofs about one vote set and about a node share.

**Vote set** (TBFTAgreementProof, first for one vote set). `IInv` adds to the
exact sums that the votes filed under a block are for that block and come from
validators that have a shared vote, that a majority has reached the quorum, and
that the votes for the majority are the ones shared. Each of these is needed:
without the filing a conflicting vote could be counted twice, without the last
one the commit made of the shared votes need not show the quorum. From it:
SumsAreExact, MajorityHasQuorum, CommitIsVerifiable, MajorityIsNeverOverlooked,
EquivocationBound and, as an action property, MajorityNeverChanges.

**Agreement** (TBFTAgreementProof). A block is *choosable* in a round while
validators with a quorum have precommitted it there or may still do so. The
heart of AgreementInv is PolkasExclude: a polka for something else in a later
round means that the block is not choosable any more. A polka for x in round r
has a correct validator in common with any quorum that could choose b in an
earlier round c; this validator precommitted b in c (it has passed c, so it
cannot do so later) and prevoted x in r, hence by LocksAreHeld there was a
polka for something else between c and r, to which the invariant applies
already: the step needs no induction over rounds. CommitStaysLocked and
CommitteeAgreement follow. Assumptions: the power of the validators that do
not run the code is less than a third; the set of rounds may be infinite.

**The consensus state machine** (ConsensusNodeProof for the enter functions and
the commit, ConsensusStateProof for the handlers and the actions). For every
committee, power, block set, turn of the proposer, verdict and outcome, and for
any number of rounds, heights, imports, restarts and committee updates:
ChecksHold (no assertion of enterNewRound, enterPrevoteWait, enterPrecommit,
enterPrecommitWait, enterCommit and updateToState fails), SignerIsAskedOnce,
LocksRestOnPolkas and TimerIsArmed. The proofs follow the code: one lemma for
each method says what it does to a node that is in order, and the lemmas of a
handler only use those of the methods it calls. The inductive invariant
`NodeInv` has three parts.

 - *Control*. SetRound has been called for the round of the node; the commit
   round has a majority; the signer has signed nothing later than the step the
   node is in; before the precommit the block gathered is the one of the
   proposal; the height is that of the chain or the next one. Among the polkas up
   to any round there is a last one (PolkasHaveLast): POLInfo relies on it, and
   every vote keeps it, so no induction over rounds is needed. SignerNeverRefuses
   is no invariant by itself: that a step is entered once says nothing unless
   the record of the signer is tied to the step.
 - *Locked*. LockIsCurrent speaks of the rounds up to the current one. It is
   not inductive, since the node may enter a round whose votes it has: one must
   know that no round after the current one has a polka (NoPolkaAfter), because
   a polka there would have taken the node there, and that a polka of the
   current round has made the node precommit (PolkaSeen), because enterPrecommit
   is where the lock is moved. While a prevote of round r is handled the
   invariant is suspended for r (`LockedBut`).
 - *Timely*, for nodes that were not reset. The ticker has seen no tick later
   than the step of the node, and a step that waits has its timer.

The theorems assume `ParentsAreThere`: the agent never answers a commit with
"only cached". It does so when the parent of the committed block is not in the
chain (handleConsensusBlock), and ChainOK, a part of Control, shows that the
node only works on the block that follows its chain, or on its last one.

**The node and the abstract voting** (ConsensusHonestyProof for the methods,
ConsensusVotingProof for votes, actions and theorems). A node whose signer is
not reset (`MaxResets = 0`) is a correct validator of TBFTVoting, for every
committee, power, set of blocks and of peers and any number of rounds and
heights: NodeImplementsVoting shows `Spec => AnyRound!Spec`, with AnyRound the
instance of TBFTVoting that has all naturals as rounds. The instance `Voting`
of the runs has finitely many, so NodeImplementsBoundedVoting and
NodeTakesVotingSteps, on ImplementsVoting and VotingSteps, assume that the votes
on record are of these (`RoundsInReach`: a node that is a quorum by itself goes
on to any round). SignsOnce shows NeverDoubleSigns for such a node, the property
that the run double_sign refutes with resets.

The inductive invariant `VotesInv` is NodeInv and `Honest`, which ties the votes
the node has signed, on record *or still in its queue*, to the rest:

 - *InOrder*: they are in the order of rounds, prevote before precommit, those
   in the queue after those on record, and the signer stands at the last one.
   Without the queue nothing is inductive: a vote is signed in one step and goes
   on record in a later one, and other votes may be handled in between.
 - *Justified*: a precommit for a block has its polka on record, and a later
   prevote against it a polka for something else in between. This is said of
   the time of signing, since the record only grows.
 - *Holds*: the lock still stands for every precommit of the node, or a later
   polka has released it. It is what a new prevote is justified by.
 - *Counted*: what the vote sets count is on record, so that a majority the node
   sees is a polka of TBFTVoting.
 - *Keeps*: the block store changes once, to a block with a commit on record.

A lemma for each method of `state.go` shows that it keeps a node Honest.
VotesStep is what an action does to record and store, and StepVotes maps it to
a step of TBFTVoting. Besides ParentsAreThere the theorems assume
`VerdictsAreGiven`, that the agent has a verdict on every block it is asked
about; without it they are false, as said above under state.go:948. TLC checked
Honest and RoundsInReach on the instance of the run lock as well.

**Epochs** (EpochHandoverProof). For every fork point and length of an epoch:
epochs are adjacent (EpochsAreAdjacent), GetEpochFromHeight is the epoch whose
heights contain the height (HeightIsInItsEpoch), and what is cancelled stays
locked until its epoch and MaxRedeemHeight blocks are over
(CancelledStaysLocked). Everything rests on one fact of integer division.

**Handover** (EpochHandoverProof, first for the agent, then for the steps).
`HandoverInv` says what the loop has made of the events up to the last one it
saw, in one of three phases: it *waits* for the first epoch; it *replays* the
events between its launch and the epoch it was launched in, which it must not
act upon; or it *follows* the epochs, with the next one prepared or not. From
it: MembersServe, FirstBlockIsRight, CacheIsRight. FirstBlockNamesCommittee
needs ProposalInv, on the block a service is making between its two looks at
the head, and InfosInv, on the blocks of the network. The assumption that
matters is `MaxLag <= NewEpochLength`: a loop more than an epoch behind would
start an old epoch's service in its replay and lose the running one. The
channel holds 512 events (pbft_agent.go:55) and an epoch has 25000 blocks.

**Fast chain** (FastChainProof). `ChainInv`: the chain below the head on disk is
whole; no state, on disk or in memory, is above the head or the fast head, so
that a repair never passes them; a call that waits for the lock has only known
blocks up to the head; the block being inserted follows the head, and the
pieces insert relies on are written. From it, for every chain, every window of
states and every crash: ChainIsWhole, FallbackIsKept, HeadGrows. That a waiting
call's blocks stay known needs `Interval + 1 < TriesInMemory` (6 and 128 in the
code): a block is dropped from memory only when it is too old to be asked for
its state. NextBlockIsImportable adds `ImportInv`, that the last reward is the
one of the chain up to the head, under RewardsFollow (above).

### What is only model-checked

 - Everything under fairness (NodeWaitsEnd, NodeCatchesUp, StepsEnd,
   LaggardGetsCommit, MajorityIsShared): liveness and ENABLED are beyond the prover.
 - The properties of HeightVoteSet, ValidatorSet, TimeoutTicker, Staking,
   Fetcher, VoteGossip and TxPool. Those of ValidatorSet, Staking and TxPool
   speak of sums, sorted lists and folds over sets of any size; what such a
   recursive definition computes needs induction with a predicate as a
   parameter, which the installed provers cannot instantiate.

## Not modelled

The map covers about a twentieth of the lines under `src/`. Most of the rest is
not a protocol: the virtual machine and the state trie, RLP encoding and
storage, cryptography, proof-of-work hashing, RPC and its bindings, the console,
the command line, metrics, and libraries copied into the tree. Their state has
no small instance that says anything about the large one, or they have none.
Of the parts that do have protocol state these are left out:

 - the *snail chain*, its pool of fruits and the *miner*: their results depend
   on the weight of forks of proof-of-work blocks, and since TIP9 the fast chain
   pays no rewards for them;
 - the *proof-of-work election*: it only runs before TIP8, which every shipped
   configuration sets to height 0;
 - the *downloaders*: several queues over several peers with timeouts and
   retries each; an instance with two peers that can lose one is beyond a run.
   Reading them showed that a fast sync may end without error after its pivot
   was given up, that a late answer to an expired request for bodies ends the
   sync with errInvalidChain, and that Cancel waits only the first time
   (downloader.go:572-580);
 - the *gossip of block parts*, and networking below the message level;
 - the *health manager*, compiled in but never run: HealthMgr.OnStart sets
   EnableHealthMgr to false;
 - the *light client*, which serves and requests data and decides nothing.

Within the modelled parts, what an operation leaves out is said at its module
above and in `PROJECT.json`.
