--------------------------- MODULE MCConsensusState ---------------------------
(***************************************************************************)
(* Instances of ConsensusState: a committee of three, in which v2 has      *)
(* twice the power of the others.  v2 and one more are a quorum, so there  *)
(* are quorums with and without the node, and two thirds of the votes      *)
(* without a majority; v2 stands for two members that vote alike.          *)
(***************************************************************************)
EXTENDS ConsensusState, FiniteSetsExt

CONSTANTS self, v1, v2, A, B, nil, p1

MCPower == [v \in Validators |-> IF v = v2 THEN 2 ELSE 1]

MCPowerOf == [S \in SUBSET Validators |-> MapThenSumSet(LAMBDA v : MCPower[v], S)]

\* Any vote of any member
MCAnyVote == [v \in Validators |-> Ids]

\* The others vote for A whenever they vote
MCOnlyA == [v \in Validators |-> {A}]

\* v2 votes for A whenever it votes, v1 in any way
MCMostlyA == [v \in Validators |-> IF v = v2 THEN {A} ELSE Ids]

-----------------------------------------------------------------------------
(* A start in round 1: in round 0 the node locked on A with the prevotes of *)
(* v1 and v2 and precommitted it, v2 precommitted nil, and the wait for     *)
(* more precommits timed out.  Every state on the way is one of Spec.       *)

MCWorld == [make |-> NoId, empty |-> FALSE, verdict |-> "agree", outcome |-> "inserted"]

MCVote(v, k, id) == [type |-> "vote", height |-> 1, round |-> 0, kind |-> k, v |-> v,
                     id |-> id, res |-> "agree"]

MCProposalA == [type |-> "proposal", height |-> 1, round |-> 0, block |-> A, pol |-> -1]

MCPartA == [type |-> "part", height |-> 1, block |-> A]

MCOwn(s) == handleMsg([s EXCEPT !.queue = Tail(@)], Head(s.queue), Own, MCWorld)

MCPeer(s, m) == handleMsg(s, m, p1, MCWorld)

MCTimeout(s) == handleTimeout([s EXCEPT !.timer.armed = FALSE], MCWorld)

MCPrevoted == MCOwn(MCPeer(MCPeer(MCTimeout(started(0)), MCProposalA), MCPartA))

MCLocked == MCOwn(MCPeer(MCPeer(MCPrevoted, MCVote(v1, "prevote", A)), MCVote(v2, "prevote", A)))

MCInit ==
    /\ cs = MCTimeout(MCPeer(MCLocked, MCVote(v2, "precommit", nil)))
    /\ record = [prevote   |-> {<<self, 0, A>>, <<v1, 0, A>>, <<v2, 0, A>>},
                 precommit |-> {<<self, 0, A>>, <<v2, 0, nil>>}]
    /\ resets = 0

\* Next without what the bounds of this start rule out: blocks that arrive
\* from elsewhere and resets.
MCVotingNext == \/ HandleOwn \/ Timeout
                \/ \E p \in Peers : ReceiveProposal(p) \/ ReceivePart(p) \/ ReceiveVote(p)

MCSpec == MCInit /\ [][MCVotingNext]_vars

-----------------------------------------------------------------------------
(* Another start in round 1: in round 0 the node missed the proposal, so it *)
(* prevoted nil while v1 and v2 prevoted A.  It saw that polka without      *)
(* having the block, precommitted nil, and so did v2, so that the round     *)
(* ended; the precommit of v1 is still on its way.                          *)

MCMissed == MCOwn(MCTimeout(MCTimeout(started(0))))

MCMissedInit ==
    /\ cs = MCTimeout(MCPeer(MCOwn(MCPeer(MCPeer(MCMissed, MCVote(v1, "prevote", A)),
                                         MCVote(v2, "prevote", A))),
                             MCVote(v2, "precommit", nil)))
    /\ record = [prevote   |-> {<<self, 0, nil>>, <<v1, 0, A>>, <<v2, 0, A>>},
                 precommit |-> {<<self, 0, nil>>, <<v2, 0, nil>>}]
    /\ resets = 0

MCMissedSpec == MCMissedInit /\ [][Next]_vars

===============================================================================
