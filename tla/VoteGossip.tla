------------------------------ MODULE VoteGossip ------------------------------
(***************************************************************************)
(* How the reactor of one committee member, the node, brings the votes of  *)
(* a height to one peer: consensus/tbft/reactor.go, gossipVotesRoutine,    *)
(* queryMaj23Routine, Receive and the PeerState they share.                *)
(*                                                                         *)
(* The PeerState is what the node believes the peer has.  A vote is marked *)
(* as known to the peer when it is picked, before it is sent, so a send    *)
(* that fails leaves a mark for a vote the peer never saw.  The node asks  *)
(* the peer about sets with a +2/3 majority (VoteSetMaj23), and the answer *)
(* (VoteSetBits) corrects the marks.                                       *)
(*                                                                         *)
(* The votes are those of height 1.  The node and the peer leave it when   *)
(* they commit its block; what the committee does at later heights is left *)
(* out.  Each broadcast is a goroutine of its own and each channel has its *)
(* own queue, so messages in flight are a set and arrive in any order.     *)
(***************************************************************************)
EXTENDS Integers, FiniteSets, Sequences

CONSTANTS Validators,
          Quorums,    \* the sets with more than two thirds of the voting power
          Nil,        \* a bit array that is not allocated
          Cast,       \* the votes of height 1: [round, kind, v]
          ForBlock,   \* those of them that are for the block, not for nil
          LateVotes,  \* those that reach the node after the peer connects
          MaxRound,   \* bound: rounds of height 1
          MaxHeight,  \* bound: heights of the node
          MaxLost,    \* bound: sends that fail
          MaxOther,   \* bound: what the peer hears from others and gossips itself
          MaxNet      \* bound: messages in flight when one more is sent

Rounds == 0..MaxRound
Kinds == {"prevotes", "precommits"}

RoundStepNewHeight     == 1
RoundStepPropose       == 3
RoundStepPrevoteWait   == 5
RoundStepPrecommitWait == 7
RoundStepCommit        == 8

ASSUME GossipAssumption ==
    /\ Cast \subseteq [round : Rounds, kind : Kinds, v : Validators]
    /\ ForBlock \subseteq Cast
    /\ LateVotes \subseteq Cast
    /\ MaxRound \in 0..2      \* a peer may bring in two rounds that are not tracked
    /\ MaxHeight \in 2..3
    /\ {MaxLost, MaxOther, MaxNet} \subseteq Nat
    /\ Quorums \subseteq SUBSET Validators
    /\ \A p, q \in Quorums : p \cap q # {}

VARIABLES node,   \* height, round, votes, commit round and stored SeenCommit
          peer,   \* height, round, step, votes, commit round
          prs,    \* the PeerRoundState the node keeps of the peer
          net,    \* the messages in flight between the two
          failed, \* ghost: votes whose last send failed
          lost,   \* the sends that failed
          other   \* the votes the peer had from others or sent to the node

vars == <<node, peer, prs, net, failed, lost, other>>

voters(votes, r, k) == {x.v : x \in {y \in votes : y.round = r /\ y.kind = k}}

\* The votes of Cast for the block, and those for nil
votesFor(block) == IF block THEN ForBlock ELSE Cast \ ForBlock

\* TwoThirdsMajority: for the block, for nil, or none
maj23(votes, r, k) == {b \in BOOLEAN : voters(votes \cap votesFor(b), r, k) \in Quorums}

majority(votes, r, k) == TRUE \in maj23(votes, r, k)

-----------------------------------------------------------------------------
(* PeerState *)

NewPeerState ==
    [height |-> 0, round |-> -1, step |-> 0, prevotes |-> Nil, precommits |-> Nil,
     polRound |-> -1, pol |-> Nil, lastRound |-> -1, last |-> Nil,
     catchupRound |-> -1, catchup |-> Nil, shared |-> FALSE]

\* The field that getVoteBitArray returns, or "none".
getVoteBitArray(ps, h, r, k) ==
    CASE ps.height = h /\ ps.round = r -> k
      [] ps.height = h /\ ps.round # r /\ ps.catchupRound = r ->
            IF k = "precommits" THEN "catchup" ELSE "none"
      [] ps.height = h /\ ps.round # r /\ ps.catchupRound # r /\ ps.polRound = r ->
            IF k = "prevotes" THEN "pol" ELSE "none"
      [] ps.height = h + 1 /\ ps.lastRound = r ->
            IF k = "precommits" THEN "last" ELSE "none"
      [] OTHER -> "none"

\* Write a bit array.  CatchupCommit and Precommits may be one array.
update(ps, field, bits) ==
    IF ps.shared /\ field \in {"precommits", "catchup"}
    THEN [ps EXCEPT !.precommits = bits, !.catchup = bits]
    ELSE [ps EXCEPT ![field] = bits]

setHasVote(ps, h, x) ==
    LET f == getVoteBitArray(ps, h, x.round, x.kind)
    IN  IF f = "none" THEN ps
        ELSE IF ps[f] = Nil THEN ps ELSE update(ps, f, ps[f] \cup {x.v})

\* For a round with a +2/3 commit: its precommits are followed apart from
\* the round of the peer.
ensureCatchupCommitRound(ps, h, r) ==
    IF ps.height # h \/ ps.catchupRound = r THEN ps
    ELSE [ps EXCEPT !.catchupRound = r,
                    !.catchup = IF r = ps.round THEN ps.precommits ELSE {},
                    !.shared = r = ps.round /\ ps.precommits # Nil]

ensureVoteBitArrays(ps, h) ==
    LET alloc(bits) == IF bits = Nil THEN {} ELSE bits
    IN  IF h = 0 THEN ps       \* no validators: NewBitArray(0) is nil
        ELSE IF ps.height = h
        THEN [ps EXCEPT !.prevotes = alloc(@), !.precommits = alloc(@),
                        !.catchup = alloc(@), !.pol = alloc(@)]
        ELSE IF ps.height = h + 1 THEN [ps EXCEPT !.last = alloc(@)] ELSE ps

\* CompareHRS > 0
isLater(m, ps) ==
    \/ m.height > ps.height
    \/ m.height = ps.height /\ m.round > ps.round
    \/ m.height = ps.height /\ m.round = ps.round /\ m.step > ps.step

\* Mutant of ApplyNewRoundStepMessage: the precommits outlive their round.
ApplyNewRoundStepMessageKeeps(ps, m) ==
    CASE ~isLater(m, ps) -> ps
      [] isLater(m, ps) /\ m.height # ps.height ->
            [NewPeerState EXCEPT !.height = m.height, !.round = m.round, !.step = m.step,
                                 !.lastRound = m.lastRound]
      [] OTHER -> [ps EXCEPT !.round = m.round, !.step = m.step]

\* A new round drops what was known of the old one, except the precommits of
\* the round the peer caught up to.  Precommits is cleared before the shift
\* to LastCommit, so LastCommit starts without an array.
ApplyNewRoundStepMessage(ps, m) ==
    CASE ~isLater(m, ps) -> ps
      [] isLater(m, ps) /\ m.height # ps.height ->
            [NewPeerState EXCEPT !.height = m.height, !.round = m.round, !.step = m.step,
                                 !.lastRound = m.lastRound]
      [] isLater(m, ps) /\ m.height = ps.height /\ m.round # ps.round ->
            LET caughtUp == m.round = ps.catchupRound
            IN  [ps EXCEPT !.round = m.round, !.step = m.step,
                           !.polRound = -1, !.pol = Nil, !.prevotes = Nil,
                           !.precommits = IF caughtUp THEN ps.catchup ELSE Nil,
                           !.shared = caughtUp /\ ps.catchup # Nil]
      [] OTHER -> [ps EXCEPT !.step = m.step]

\* SetHasProposal, what it says of the votes: the POL round of the proposal.
SetHasProposal(ps, r, polRound) ==
    IF ps.height # 1 \/ ps.round # r \/ ps.polRound # -1 THEN ps
    ELSE [ps EXCEPT !.polRound = polRound, !.pol = Nil]

ApplyProposalPOLMessage(ps, m) ==
    IF ps.height # 1 \/ ps.polRound # m.round THEN ps
    ELSE [ps EXCEPT !.pol = m.votes]

ApplyHasVoteMessage(ps, m) ==
    IF ps.height # m.height THEN ps ELSE setHasVote(ps, m.height, m.vote)

\* Mutant of ApplyVoteSetBitsMessage: the answer is added to the marks.
ApplyVoteSetBitsMessageAdds(ps, m, ourVotes) ==
    LET f == getVoteBitArray(ps, 1, m.round, m.kind)
    IN  IF f = "none" THEN ps
        ELSE IF ps[f] = Nil \/ m.votes = Nil THEN ps ELSE update(ps, f, ps[f] \cup m.votes)

\* The answer replaces the marks of the votes it is about; without votes of
\* our own it replaces all of them.  A peer that does not track the round sends
\* no array: Update then keeps the marks, Or takes it for an empty one.
ApplyVoteSetBitsMessage(ps, m, ourVotes) ==
    LET f == getVoteBitArray(ps, 1, m.round, m.kind)
        theirs == IF m.votes = Nil THEN {} ELSE m.votes
    IN  IF f = "none" THEN ps
        ELSE IF ps[f] = Nil \/ (ourVotes = Nil /\ m.votes = Nil) THEN ps
        ELSE IF ourVotes = Nil THEN update(ps, f, theirs)
        ELSE update(ps, f, (ps[f] \ ourVotes) \cup theirs)

-----------------------------------------------------------------------------
(* The node *)

\* A vote set of height 1, as PickSendVote takes it
setOf(votes, r, k) ==
    [round |-> r, kind |-> k, votes |-> voters(votes, r, k),
     isCommit |-> k = "precommits" /\ maj23(votes, r, k) # {}]

\* The sets gossipVotesForHeight goes through.  At height 2 the only votes
\* are those of LastCommit.
gossipVotesForHeight ==
    LET at(cond, r, k) == IF cond THEN <<setOf(node.votes, r, k)>> ELSE <<>>
        known == prs.round # -1 /\ prs.round =< node.round
    IN  IF node.height > 1
        THEN at(prs.step = RoundStepNewHeight, node.commit, "precommits")
        ELSE at(prs.step =< RoundStepPropose /\ known /\ prs.polRound # -1,
                prs.polRound, "prevotes")
             \o at(prs.step =< RoundStepPrevoteWait /\ known, prs.round, "prevotes")
             \o at(prs.step =< RoundStepPrecommitWait /\ known, prs.round, "precommits")
             \o at(known, prs.round, "prevotes")
             \o at(prs.polRound # -1, prs.polRound, "prevotes")

\* The sets one turn of gossipVotesRoutine goes through: LastCommit for a
\* peer one height behind, the stored commit for one further behind.
setsToSend ==
    CASE prs.height = node.height -> gossipVotesForHeight
      [] prs.height # 0 /\ node.height = prs.height + 1 /\ prs.height = 1 ->
            <<setOf(node.votes, node.commit, "precommits")>>
      [] prs.height # 0 /\ node.height >= prs.height + 2 ->
            <<setOf(node.stored, node.commit, "precommits")>>
      [] OTHER -> <<>>

\* What PickVoteToSend allocates in the PeerState for the sets it is given
ensured(ps, sets) ==
    LET commits == {i \in DOMAIN sets : sets[i].isCommit}
        ps1 == IF commits = {} THEN ps
               ELSE ensureCatchupCommitRound(ps, 1, sets[CHOOSE i \in commits : TRUE].round)
    IN  IF sets = <<>> THEN ps ELSE ensureVoteBitArrays(ps1, 1)

\* The votes of a set that the peer is not known to have
PickVoteToSend(ps, set) ==
    LET f == getVoteBitArray(ps, 1, set.round, set.kind)
    IN  IF f = "none" THEN {} ELSE set.votes \ ps[f]

room == Cardinality(net) < MaxNet

send(msg) == room /\ net' = net \cup {msg} /\ UNCHANGED lost

\* A full queue: Send gives up after its timeout, TrySend at once.
sendFails == room /\ lost < MaxLost /\ lost' = lost + 1 /\ UNCHANGED net

\* One turn of gossipVotesRoutine picks a vote the peer lacks from the first
\* set that has one.  The vote is marked when it is picked, before it is sent.
gossipVotes(x) ==
    /\ UNCHANGED <<node, peer, other>>
    /\ \/ send([type |-> "vote", to |-> "peer", vote |-> x]) /\ failed' = failed \ {x}
       \/ sendFails /\ failed' = failed \cup {x}
    /\ \E sets \in {setsToSend} :
          LET upTo(i) == ensured(prs, SubSeq(sets, 1, i))
          IN  \E i \in DOMAIN sets :
                 /\ x.round = sets[i].round /\ x.kind = sets[i].kind
                 /\ x.v \in PickVoteToSend(upTo(i), sets[i])
                 /\ \A j \in 1..(i - 1) : PickVoteToSend(upTo(j), sets[j]) = {}
                 /\ prs' = setHasVote(upTo(i), 1, x)

\* A turn that finds no vote to send
gossipNoVotes ==
    \E sets \in {setsToSend} :
       /\ \A i \in DOMAIN sets : PickVoteToSend(ensured(prs, SubSeq(sets, 1, i)), sets[i]) = {}
       /\ prs' = ensured(prs, sets)
       /\ UNCHANGED <<node, peer, net, failed, lost, other>>

\* A question: does the peer have the votes of this kind, for the block or nil?
question(r, k, block) == [round |-> r, kind |-> k, block |-> block]

\* Mutant of queryMaj23: the prevotes are not asked about.
queryMaj23Precommits ==
    LET same == node.height = 1 /\ prs.height = 1
        asks(cond, r, k, ids) == IF cond THEN {question(r, k, b) : b \in ids} ELSE {}
    IN  asks(same, prs.round, "precommits", maj23(node.votes, prs.round, "precommits"))
        \cup asks(prs.catchupRound # -1 /\ prs.height = 1 /\ node.height > 1,
                  node.commit, "precommits", {TRUE})

\* The sets with a majority that queryMaj23Routine asks about: those of the
\* peer's round, of its POL round, and the commit it is catching up with.
queryMaj23 ==
    LET same == node.height = 1 /\ prs.height = 1
        asks(cond, r, k, ids) == IF cond THEN {question(r, k, b) : b \in ids} ELSE {}
    IN  asks(same, prs.round, "prevotes", maj23(node.votes, prs.round, "prevotes"))
        \cup asks(same, prs.round, "precommits", maj23(node.votes, prs.round, "precommits"))
        \cup asks(same, prs.polRound, "prevotes", maj23(node.votes, prs.polRound, "prevotes"))
        \cup asks(prs.catchupRound # -1 /\ prs.height = 1 /\ node.height > 1,
                  node.commit, "precommits", {TRUE})

queryMaj23Routine(q) ==
    /\ UNCHANGED <<node, peer, prs, failed, other>>
    /\ \/ send([type |-> "maj23", to |-> "peer", q |-> q])
       \/ sendFails
    /\ q \in queryMaj23

\* gossipDataRoutine sends the proposal of the round, with its POL round.
sendProposal(polRound) ==
    /\ node.height = 1 /\ prs.height = 1 /\ node.round = prs.round /\ prs.polRound = -1
    /\ polRound < node.round /\ majority(node.votes, polRound, "prevotes")
    /\ prs' = SetHasProposal(prs, node.round, polRound)
    /\ UNCHANGED <<node, peer, net, failed, lost, other>>

\* Receive, the messages of the peer
receive(m) ==
    /\ m \in net /\ m.to = "node"
    /\ net' = net \ {m}
    /\ prs' = CASE m.type = "step" -> ApplyNewRoundStepMessage(prs, m)
                [] m.type = "has"  -> ApplyHasVoteMessage(prs, m)
                [] m.type = "pol"  -> ApplyProposalPOLMessage(prs, m)
                [] m.type = "bits" ->
                     ApplyVoteSetBitsMessage(prs, m,
                         IF node.height = 1
                         THEN voters(node.votes \cap votesFor(m.block), m.round, m.kind)
                         ELSE Nil)
                [] m.type = "vote" ->
                     setHasVote(ensureVoteBitArrays(ensureVoteBitArrays(prs, node.height),
                                                    node.height - 1), 1, m.vote)
    /\ node' = IF m.type = "vote" /\ node.height = 1
               THEN [node EXCEPT !.votes = @ \cup {m.vote}] ELSE node
    /\ UNCHANGED <<peer, failed, lost, other>>

\* The consensus state of the node: votes of the other members, rounds, the
\* commit of height 1 and the heights after it
nodeHears(x) ==
    /\ x \notin node.votes
    /\ \/ node.height = 1
       \/ node.height = 2 /\ x.kind = "precommits" /\ x.round = node.commit
    /\ node' = [node EXCEPT !.votes = @ \cup {x}]
    /\ UNCHANGED <<peer, prs, net, failed, lost, other>>

nodeEntersRound ==
    /\ node.height = 1 /\ node.round < MaxRound
    /\ node' = [node EXCEPT !.round = @ + 1]
    /\ UNCHANGED <<peer, prs, net, failed, lost, other>>

nodeCommits(r, h) ==
    /\ node.height = 1 /\ majority(node.votes, r, "precommits")
    /\ node' = [node EXCEPT !.height = h, !.commit = r, !.stored = node.votes]
    /\ UNCHANGED <<peer, prs, net, failed, lost, other>>

-----------------------------------------------------------------------------
(* The peer *)

stepMessage(p) ==
    [type |-> "step", to |-> "node", height |-> p.height, round |-> p.round, step |-> p.step,
     lastRound |-> IF p.height = 1 THEN -1 ELSE p.commit]

\* A vote is added once, announced with HasVote, and takes the peer to the
\* commit step when it completes a majority of precommits.
adds(p, x) ==
    \/ p.height = 1 /\ x \notin p.votes
    \/ /\ p.height = 2 /\ p.step = RoundStepNewHeight
       /\ x.kind = "precommits" /\ x.round = p.commit /\ x \notin p.votes

added(p, x) ==
    LET q == [p EXCEPT !.votes = @ \cup {x}]
    IN  IF /\ p.height = 1 /\ p.step < RoundStepCommit
           /\ majority(q.votes, x.round, "precommits")
        THEN [q EXCEPT !.round = IF @ < x.round THEN x.round ELSE @,
                       !.step = RoundStepCommit, !.commit = x.round]
        ELSE q

announced(p, q, x) ==
    {[type |-> "has", to |-> "node", height |-> 1, vote |-> x]}
    \cup (IF q.step # p.step THEN {stepMessage(q)} ELSE {})

peerReceivesVote(x) ==
    LET m == [type |-> "vote", to |-> "peer", vote |-> x]
    IN  /\ m \in net
        /\ IF adds(peer, x)
           THEN /\ peer' = added(peer, x)
                /\ net' = (net \ {m}) \cup announced(peer, peer', x)
           ELSE net' = net \ {m} /\ UNCHANGED peer
        /\ UNCHANGED <<node, prs, failed, lost, other>>

\* The rounds HeightVoteSet has vote sets for: those up to the next one, and
\* the later ones it was sent votes of.
tracks(p, r) ==
    \/ r =< (IF p.step = RoundStepNewHeight THEN 0 ELSE p.round + 1)
    \/ \E x \in p.votes : x.round = r

\* BitArrayByBlockID of the votes that are asked about
answer(p, q) ==
    IF tracks(p, q.round) THEN voters(p.votes \cap votesFor(q.block), q.round, q.kind) ELSE Nil

\* Receive of VoteSetMaj23
peerReceivesMaj23(q) ==
    LET m == [type |-> "maj23", to |-> "peer", q |-> q]
        bits == [type |-> "bits", to |-> "node", round |-> q.round, kind |-> q.kind,
                 block |-> q.block, votes |-> answer(peer, q)]
    IN  /\ m \in net
        /\ \/ peer.height # 1 /\ net' = net \ {m} /\ UNCHANGED lost
           \/ peer.height = 1 /\ net' = (net \ {m}) \cup {bits} /\ UNCHANGED lost
           \/ peer.height = 1 /\ lost < MaxLost /\ net' = net \ {m} /\ lost' = lost + 1
        /\ UNCHANGED <<node, peer, prs, failed, other>>

\* Votes from the other members, and those the peer gossips to the node
peerHears(x) ==
    /\ room /\ adds(peer, x) /\ other < MaxOther
    /\ peer' = added(peer, x)
    /\ net' = net \cup announced(peer, peer', x)
    /\ other' = other + 1
    /\ UNCHANGED <<node, prs, failed, lost>>

peerSends(m) ==
    /\ room /\ m \notin net /\ other < MaxOther
    /\ net' = net \cup {m}
    /\ other' = other + 1
    /\ UNCHANGED <<node, peer, prs, failed, lost>>

peerSendsVote(x) == x \in peer.votes /\ peerSends([type |-> "vote", to |-> "node", vote |-> x])

peerSendsPOL(r) ==
    /\ peer.height = 1 /\ r < peer.round
    /\ peerSends([type |-> "pol", to |-> "node", round |-> r,
                  votes |-> voters(peer.votes, r, "prevotes")])

\* A later round or step, by timeouts and votes
peerSteps(step) ==
    /\ peer.height = 1 /\ peer.step < step
    /\ peer' = [peer EXCEPT !.step = step]
    /\ net' = net \cup {stepMessage(peer')}
    /\ UNCHANGED <<node, prs, failed, lost, other>>

peerEntersRound ==
    /\ peer.height = 1 /\ peer.step < RoundStepCommit /\ peer.round < MaxRound
    /\ peer' = [peer EXCEPT !.round = @ + 1, !.step = RoundStepPropose]
    /\ net' = net \cup {stepMessage(peer')}
    /\ UNCHANGED <<node, prs, failed, lost, other>>

peerCommits ==
    /\ peer.height = 1 /\ peer.step = RoundStepCommit
    /\ peer' = [peer EXCEPT !.height = 2, !.round = 0, !.step = RoundStepNewHeight]
    /\ net' = net \cup {stepMessage(peer')}
    /\ UNCHANGED <<node, prs, failed, lost, other>>

-----------------------------------------------------------------------------
(* The specification *)

\* AddPeer: the peer announces its step when the two connect.
Init ==
    /\ node = [height |-> 1, round |-> 0, votes |-> Cast \ LateVotes, commit |-> -1, stored |-> {}]
    /\ peer = [height |-> 1, round |-> 0, step |-> RoundStepNewHeight, votes |-> {}, commit |-> -1]
    /\ prs = NewPeerState
    /\ net = {stepMessage(peer)}
    /\ failed = {} /\ lost = 0 /\ other = 0

PeerSteps == {RoundStepPrecommitWait}

Questions == {question(x.round, x.kind, x \in ForBlock) : x \in Cast}

Next ==
    \/ gossipNoVotes
    \/ \E q \in Questions : queryMaj23Routine(q) \/ peerReceivesMaj23(q)
    \/ \E r \in Rounds : sendProposal(r) \/ peerSendsPOL(r)
    \/ \E r \in Rounds, h \in 2..MaxHeight : nodeCommits(r, h)
    \/ \E m \in net : receive(m)
    \/ \E x \in Cast : gossipVotes(x)
    \/ \E x \in Cast : nodeHears(x) \/ peerReceivesVote(x) \/ peerHears(x) \/ peerSendsVote(x)
    \/ nodeEntersRound
    \/ \E step \in PeerSteps : peerSteps(step)
    \/ peerEntersRound \/ peerCommits

Deliver ==
    \/ \E m \in net : receive(m)
    \/ \E x \in Cast : peerReceivesVote(x)
    \/ \E q \in Questions : peerReceivesMaj23(q)

\* The routines of the peer run for as long as the two are connected, and
\* what is in a queue is delivered.  Fairness is strong for the two routines
\* because PickRandom takes each vote in the end, and because they wait for
\* room only under the bound of this model.  Nothing is assumed of the other
\* members, of what the peer gossips, or of the rounds.
Fairness ==
    /\ WF_vars(Deliver)
    /\ \A x \in Cast : SF_vars(gossipVotes(x))
    /\ \A q \in Questions : SF_vars(queryMaj23Routine(q))

Spec == Init /\ [][Next]_vars /\ Fairness

-----------------------------------------------------------------------------
(* Properties *)

\* A vote the node has marked as known to the peer is at the peer, on its way
\* to it, or its last send failed (reactor.go, PickVoteToSend and the Apply
\* methods): no mark outlives its round or height, whatever the order of the
\* messages and whichever array the round is followed in.
MarksAreTrue ==
    peer.height = 1 =>
        \A x \in Cast :
            LET f == getVoteBitArray(prs, 1, x.round, x.kind)
                marked == IF f = "none" THEN FALSE
                          ELSE IF prs[f] = Nil THEN FALSE ELSE x.v \in prs[f]
            IN  marked => \/ x \in peer.votes \cup failed
                          \/ [type |-> "vote", to |-> "peer", vote |-> x] \in net

\* A node that has left height 1 brings the peer the +2/3 precommits it needs
\* to commit, although sends fail and votes stay marked that never arrived, as
\* long as the peer keeps vote sets of the round of the commit (reactor.go, the
\* catch-up part of gossipVotesRoutine and queryMaj23Routine).
LaggardGetsCommit ==
    []<>(node.height > 1 /\ tracks(peer, node.commit) =>
            \E r \in Rounds : majority(peer.votes, r, "precommits"))

\* A node with a +2/3 majority in the round of the peer, for the block or nil,
\* brings it to the peer, unless one of them leaves the round or the height:
\* the peer is not left without it for ever.
MajorityIsShared ==
    []<>~ \E k \in Kinds :
        /\ node.height = 1 /\ peer.height = 1 /\ node.round >= peer.round
        /\ maj23(node.votes, peer.round, k) # {}
        /\ maj23(peer.votes, peer.round, k) = {}
=============================================================================
