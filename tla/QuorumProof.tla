----------------------------- MODULE QuorumProof -----------------------------
(***************************************************************************)
(* What the proofs need to know about voting power, about quorums, and     *)
(* about the operations on vote sets.                                      *)
(***************************************************************************)
EXTENDS VoteSetOps, TLAPS

-----------------------------------------------------------------------------
(* Voting power *)

\* A set of validators has no more power than a larger one.
LEMMA PowerMonotone ==
    ASSUME NEW A \in SUBSET Validators, NEW B \in SUBSET Validators, A \subseteq B
    PROVE  PowerOf[A] \in Nat /\ PowerOf[B] \in Nat /\ PowerOf[A] =< PowerOf[B]
<1>1. PowerOf[A] \in Nat /\ PowerOf[B] \in Nat /\ PowerOf[B \ A] \in Nat
  BY VotingPowerAssumption DEF VotingPowerAssumption
<1>2. A \cup (B \ A) = B /\ A \cap (B \ A) = {} /\ B \ A \in SUBSET Validators
  OBVIOUS
<1>3. PowerOf[A \cup (B \ A)] + PowerOf[A \cap (B \ A)] = PowerOf[A] + PowerOf[B \ A]
  BY <1>2, VotingPowerAssumption DEF VotingPowerAssumption, PowerIsAdditive
<1>4. PowerOf[B] + 0 = PowerOf[A] + PowerOf[B \ A]
  BY <1>2, <1>3, VotingPowerAssumption DEF VotingPowerAssumption
<1>5. QED
  BY <1>1, <1>4

\* One more validator adds exactly its own power.
LEMMA PowerOfOneMore ==
    ASSUME NEW A \in SUBSET Validators, NEW v \in Validators, v \notin A
    PROVE  PowerOf[A \cup {v}] = PowerOf[A] + PowerOf[{v}]
<1>1. {v} \in SUBSET Validators /\ A \cap {v} = {} /\ A \cup {v} \in SUBSET Validators
  OBVIOUS
<1>2. PowerOf[A \cup {v}] + PowerOf[A \cap {v}] = PowerOf[A] + PowerOf[{v}]
  BY <1>1, VotingPowerAssumption DEF VotingPowerAssumption, PowerIsAdditive
<1>3. PowerOf[A \cup {v}] \in Nat
  BY <1>1, VotingPowerAssumption DEF VotingPowerAssumption
<1>4. PowerOf[A \cup {v}] + 0 = PowerOf[A] + PowerOf[{v}]
  BY <1>1, <1>2, VotingPowerAssumption DEF VotingPowerAssumption
<1>5. QED
  BY <1>3, <1>4

\* The quorum of addVerifiedVote is the least power above two thirds.
LEMMA QuorumIsTwoThirds ==
    /\ total \in Nat /\ quorum \in Nat
    /\ \A p \in Nat : p >= quorum <=> 3 * p > 2 * total
    /\ \A p \in Nat : p >= quorum <=> p > (total * 2) \div 3
<1>1. total \in Nat
  BY VotingPowerAssumption DEF VotingPowerAssumption, total
<1>2. QED
  BY <1>1 DEF quorum

\* Two quorums have more than a third of the power in common.
LEMMA QuorumsOverlap ==
    ASSUME NEW A \in SUBSET Validators, NEW B \in SUBSET Validators,
           IsQuorum(A), IsQuorum(B)
    PROVE  A \cap B \in SUBSET Validators /\ PowerOf[A \cap B] \in Nat
           /\ 3 * PowerOf[A \cap B] > total
<1>1. A \cup B \in SUBSET Validators /\ A \cap B \in SUBSET Validators
  OBVIOUS
<1>2. PowerOf[A \cup B] + PowerOf[A \cap B] = PowerOf[A] + PowerOf[B]
  BY VotingPowerAssumption DEF VotingPowerAssumption, PowerIsAdditive
<1>3. PowerOf[A \cup B] \in Nat /\ PowerOf[A \cap B] \in Nat
      /\ PowerOf[A] \in Nat /\ PowerOf[B] \in Nat
  BY <1>1, VotingPowerAssumption DEF VotingPowerAssumption
<1>4. PowerOf[A \cup B] =< total
  BY <1>1, PowerMonotone DEF total
<1>5. 3 * PowerOf[A] > 2 * total /\ 3 * PowerOf[B] > 2 * total /\ total \in Nat
  BY <1>3, QuorumIsTwoThirds DEF IsQuorum
<1>6. QED
  BY <1>1, <1>2, <1>3, <1>4, <1>5

-----------------------------------------------------------------------------
(* The invariant of a vote set.  Beyond the sums, it says that the votes   *)
(* kept for a block are for that block, that whoever has a vote there has  *)
(* one in `votes', and that the votes for the majority are the ones shown. *)

SumsAreCounted(s) ==
    /\ s.sum = PowerOf[Voted(s)]
    /\ \A id \in Ids : s.byBlock[id].sum = PowerOf[Agreeing(s, id)]

VotesAreFiled(s) ==
    \A id \in Ids, v \in Validators : s.byBlock[id].votes[v] # NoVote =>
        /\ s.byBlock[id].votes[v].id = id
        /\ s.votes[v] # NoVote

MajorityIsReached(s) == s.maj23 # NoId => s.byBlock[s.maj23].sum >= quorum

MajorityIsShown(s) ==
    s.maj23 # NoId => \A v \in Validators : s.byBlock[s.maj23].votes[v] # NoVote =>
        s.votes[v] = s.byBlock[s.maj23].votes[v]

VoteSetInv(s) == /\ s \in VoteSets
                 /\ SumsAreCounted(s)
                 /\ VotesAreFiled(s)
                 /\ MajorityIsReached(s)
                 /\ MajorityIsShown(s)

\* The first vote of v for a block is recorded in the entry of that block:
\* the entry stays well typed and its sum counts v once if v agrees.
LEMMA AddToBlockCounts ==
    ASSUME NEW bv \in BlockVotes, NEW v \in Validators,
           NEW vote \in [id : Ids, res : Results],
           bv.votes[v] = NoVote,
           bv.sum = PowerOf[AgreeingIn(bv)],
           NEW new, new = addToBlock(bv, v, vote)
    PROVE  /\ new \in BlockVotes
           /\ new.votes = [bv.votes EXCEPT ![v] = vote]
           /\ new.peerMaj23 = bv.peerMaj23
           /\ new.sum = PowerOf[AgreeingIn(new)]
           /\ new.sum >= bv.sum
<1> DEFINE A == AgreeingIn(bv)
           N == AgreeingIn(new)
<1>1. vote \in Votes
  BY DEF Votes
<1>2. PowerOf[{v}] \in Nat /\ bv.sum \in Nat
  BY VotingPowerAssumption DEF VotingPowerAssumption, BlockVotes
<1>3. new = [tracked |-> TRUE, peerMaj23 |-> bv.peerMaj23,
              votes |-> [bv.votes EXCEPT ![v] = vote],
              sum |-> IF vote.res = "agree" THEN bv.sum + PowerOf[{v}] ELSE bv.sum]
  BY DEF addToBlock, BlockVotes
<1>4. new \in BlockVotes
  <2>1. [bv.votes EXCEPT ![v] = vote] \in [Validators -> Votes] /\ bv.peerMaj23 \in BOOLEAN
    BY <1>1 DEF BlockVotes
  <2>2. new.sum \in Nat
    BY <1>2, <1>3
  <2>3. QED
    BY <1>3, <2>1, <2>2 DEF BlockVotes
<1>5. v \notin A
  BY DEF NoVote, AgreeingIn
<1>6. CASE vote.res = "agree"
  <2>1. N = A \cup {v} /\ A \in SUBSET Validators
    BY <1>3, <1>6 DEF BlockVotes, AgreeingIn
  <2>2. PowerOf[N] = PowerOf[A] + PowerOf[{v}]
    BY <2>1, <1>5, PowerOfOneMore
  <2>3. QED
    BY <2>2, <1>2, <1>3, <1>4, <1>6
<1>7. CASE vote.res # "agree"
  <2>1. N = A
    BY <1>3, <1>5, <1>7 DEF BlockVotes, AgreeingIn
  <2>2. new.sum = bv.sum /\ bv.sum = PowerOf[A]
    BY <1>3, <1>7
  <2>3. new.sum = PowerOf[N]
    BY <2>1, <2>2
  <2>4. new.sum >= bv.sum
    BY <2>2, <1>2
  <2>5. QED
    BY <2>3, <2>4, <1>3, <1>4
<1>8. QED
  BY <1>6, <1>7

\* What addVerifiedVote does to `votes' and `sum' keeps the invariant.
LEMMA ShareKeepsInv ==
    ASSUME NEW s, VoteSetInv(s), NEW v \in Validators, NEW vote \in [id : Ids, res : Results],
           ~getVote(s, v, vote.id), NEW new, new = share(s, v, vote)
    PROVE  /\ new = [votes |-> new.votes, sum |-> new.sum, maj23 |-> s.maj23,
                     byBlock |-> s.byBlock, claims |-> s.claims]
           /\ new \in VoteSets
           /\ new.sum = PowerOf[Voted(new)]
           /\ new.votes[v] # NoVote
           /\ \A w \in Validators : s.votes[w] # NoVote => new.votes[w] # NoVote
           /\ s.maj23 = vote.id => new.votes[v] = vote
           /\ s.maj23 # NoId => \A w \in Validators : s.byBlock[s.maj23].votes[w] # NoVote
                => new.votes[w] = s.byBlock[s.maj23].votes[w]
<1> DEFINE shown == IF s.votes[v] = NoVote \/ s.maj23 = vote.id THEN vote ELSE s.votes[v]
           sm == IF s.votes[v] = NoVote THEN s.sum + PowerOf[{v}] ELSE s.sum
<1>1. vote \in Votes /\ vote # NoVote
  BY NoIdAssumption DEF Votes, NoVote, NoIdAssumption
<1>2. s \in VoteSets
  BY DEF VoteSetInv
<1>3. new = [votes |-> [s.votes EXCEPT ![v] = shown], sum |-> sm, maj23 |-> s.maj23,
             byBlock |-> s.byBlock, claims |-> s.claims]
  BY <1>2 DEF share, VoteSets
<1>4. shown \in Votes /\ shown # NoVote
  BY <1>1, <1>2 DEF VoteSets
<1>5. [s.votes EXCEPT ![v] = shown] \in [Validators -> Votes]
  BY <1>2, <1>4 DEF VoteSets
<1>6. PowerOf[{v}] \in Nat /\ s.sum \in Nat /\ sm \in Nat
  BY <1>2, VotingPowerAssumption DEF VotingPowerAssumption, VoteSets
<1>7. new \in VoteSets
  BY <1>2, <1>3, <1>5, <1>6 DEF VoteSets
<1>8. \A w \in Validators : new.votes[w] = IF w = v THEN shown ELSE s.votes[w]
  BY <1>2, <1>3 DEF VoteSets
<1>9. s.sum = PowerOf[Voted(s)]
  BY DEF VoteSetInv, SumsAreCounted
<1>10. new.sum = PowerOf[Voted(new)]
  <2>1. CASE s.votes[v] = NoVote
    <3>1. Voted(new) = Voted(s) \cup {v} /\ v \notin Voted(s) /\ Voted(s) \in SUBSET Validators
      BY <1>4, <1>8, <2>1 DEF Voted
    <3>2. PowerOf[Voted(new)] = PowerOf[Voted(s)] + PowerOf[{v}]
      BY <3>1, PowerOfOneMore
    <3>3. QED
      BY <3>2, <1>3, <1>9, <2>1
  <2>2. CASE s.votes[v] # NoVote
    <3>1. Voted(new) = Voted(s)
      BY <1>4, <1>8, <2>2 DEF Voted
    <3>2. QED
      BY <3>1, <1>3, <1>9, <2>2
  <2>3. QED
    BY <2>1, <2>2
<1>11. s.maj23 # NoId => \A w \in Validators : s.byBlock[s.maj23].votes[w] # NoVote
         => new.votes[w] = s.byBlock[s.maj23].votes[w]
  <2> SUFFICES ASSUME s.maj23 # NoId, NEW w \in Validators,
                      s.byBlock[s.maj23].votes[w] # NoVote
               PROVE  new.votes[w] = s.byBlock[s.maj23].votes[w]
    OBVIOUS
  <2>1. s.maj23 \in Ids
    BY <1>2 DEF VoteSets
  <2>2. s.votes[w] # NoVote
    BY <2>1 DEF VoteSetInv, VotesAreFiled
  <2>3. s.votes[w] = s.byBlock[s.maj23].votes[w]
    BY DEF VoteSetInv, MajorityIsShown
  <2>4. w = v => s.maj23 # vote.id
    BY DEF getVote
  <2>5. QED
    BY <2>2, <2>3, <2>4, <1>8
<1>12. new.votes[v] = shown
  BY <1>8
<1>13. \A w \in Validators : s.votes[w] # NoVote => new.votes[w] # NoVote
  BY <1>4, <1>8
<1>14. new = [votes |-> new.votes, sum |-> new.sum, maj23 |-> s.maj23,
             byBlock |-> s.byBlock, claims |-> s.claims]
  BY <1>3
<1>15. QED
  BY <1>4, <1>7, <1>10, <1>11, <1>12, <1>13, <1>14

\* A vote, first or repeated, agreeing or conflicting, keeps the invariant.
LEMMA VoteKeepsInv ==
    ASSUME NEW s, VoteSetInv(s), NEW v \in Validators, NEW vote \in [id : Ids, res : Results],
           NEW new, new = addVote(s, v, vote)
    PROVE  VoteSetInv(new)
<1> DEFINE id == vote.id
           S == share(s, v, vote)
           B == addToBlock(s.byBlock[id], v, vote)
           T == [S EXCEPT !.byBlock[id] = B]
<1>1. id \in Ids /\ vote \in Votes /\ vote # NoVote /\ id # NoId
  BY NoIdAssumption DEF Votes, NoVote, NoIdAssumption
<1>2. s \in VoteSets
  BY DEF VoteSetInv
<1>3. CASE getVote(s, v, id)
  <2>1. new = s
    BY <1>3 DEF addVote
  <2>2. QED
    BY <2>1
<1>4. CASE ~getVote(s, v, id)
  <2>1. /\ S = [votes |-> S.votes, sum |-> S.sum, maj23 |-> s.maj23,
                byBlock |-> s.byBlock, claims |-> s.claims]
        /\ S \in VoteSets
        /\ S.sum = PowerOf[Voted(S)]
        /\ S.votes[v] # NoVote
        /\ \A w \in Validators : s.votes[w] # NoVote => S.votes[w] # NoVote
        /\ s.maj23 = vote.id => S.votes[v] = vote
        /\ s.maj23 # NoId => \A w \in Validators : s.byBlock[s.maj23].votes[w] # NoVote
                => S.votes[w] = s.byBlock[s.maj23].votes[w]
    BY <1>4, ShareKeepsInv
  <2>2. CASE ~isAdded(s, v, vote)
    <3>1. new = S
      BY <1>4, <2>2 DEF addVote, addVerifiedVote
    <3>2. new.maj23 = s.maj23 /\ new.byBlock = s.byBlock
      BY <2>1, <3>1
    <3>3. SumsAreCounted(new)
      BY <2>1, <3>1, <3>2 DEF VoteSetInv, SumsAreCounted, Voted, Agreeing
    <3>4. VotesAreFiled(new)
      BY <2>1, <3>1, <3>2 DEF VoteSetInv, VotesAreFiled
    <3>5. MajorityIsReached(new) /\ MajorityIsShown(new)
      BY <2>1, <3>1, <3>2 DEF VoteSetInv, MajorityIsReached, MajorityIsShown
    <3>6. QED
      BY <2>1, <3>1, <3>3, <3>4, <3>5 DEF VoteSetInv
  <2>3. CASE isAdded(s, v, vote)
    <3>1. s.byBlock[id] \in BlockVotes /\ s.byBlock[id].votes[v] = NoVote
      BY <1>1, <1>2, <1>4 DEF VoteSets, getVote
    <3>2. s.byBlock[id].sum = PowerOf[AgreeingIn(s.byBlock[id])]
      BY <1>1 DEF VoteSetInv, SumsAreCounted, Agreeing
    <3>3. /\ B \in BlockVotes
          /\ B.votes = [s.byBlock[id].votes EXCEPT ![v] = vote]
          /\ B.sum = PowerOf[AgreeingIn(B)]
          /\ B.sum >= s.byBlock[id].sum
      BY <3>1, <3>2, AddToBlockCounts
    <3>4. B.votes \in [Validators -> Votes] /\ B.sum \in Nat /\ s.byBlock[id].sum \in Nat
      BY <3>1, <3>3 DEF BlockVotes
    <3>5. T = [votes |-> S.votes, sum |-> S.sum, maj23 |-> s.maj23,
               byBlock |-> [s.byBlock EXCEPT ![id] = B], claims |-> s.claims]
      BY <2>1
    <3>6. [s.byBlock EXCEPT ![id] = B] \in [Ids -> BlockVotes]
      BY <1>1, <1>2, <3>3 DEF VoteSets
    <3>7. T \in VoteSets
      BY <2>1, <3>5, <3>6 DEF VoteSets
    <3>8. \A i \in Ids : T.byBlock[i] = IF i = id THEN B ELSE s.byBlock[i]
      BY <1>1, <1>2, <3>5 DEF VoteSets
    <3>9. \A i \in Ids : T.byBlock[i].sum = PowerOf[Agreeing(T, i)]
      BY <3>3, <3>8 DEF VoteSetInv, SumsAreCounted, Agreeing
    <3>10. \A w \in Validators : B.votes[w] = IF w = v THEN vote ELSE s.byBlock[id].votes[w]
      BY <3>1, <3>3 DEF BlockVotes
    <3>11. ASSUME NEW i \in Ids, NEW w \in Validators, T.byBlock[i].votes[w] # NoVote
           PROVE  T.byBlock[i].votes[w].id = i /\ S.votes[w] # NoVote
      <4>1. CASE i = id /\ w = v
        BY <2>1, <3>8, <3>10, <4>1
      <4>2. CASE ~(i = id /\ w = v)
        <5>1. T.byBlock[i].votes[w] = s.byBlock[i].votes[w]
          BY <3>8, <3>10, <4>2
        <5>2. QED
          BY <2>1, <3>11, <5>1 DEF VoteSetInv, VotesAreFiled
      <4>3. QED
        BY <4>1, <4>2
    <3>12. new = crowned(T, s.byBlock[id].sum, id)
      <4>1. S.byBlock = s.byBlock
        BY <2>1
      <4>2. new = addVerifiedVote(s, v, vote)
        BY <1>4 DEF addVote
      <4>3. QED
        BY <2>3, <4>1, <4>2 DEF addVerifiedVote
    <3>13. CASE s.byBlock[id].sum < quorum /\ quorum =< B.sum /\ s.maj23 = NoId
      <4> DEFINE copied == [w \in Validators |-> IF B.votes[w] # NoVote THEN B.votes[w]
                                                 ELSE S.votes[w]]
      <4>1. T.byBlock[id] = B /\ T.maj23 = NoId
        BY <1>1, <3>5, <3>8, <3>13
      <4>2. new = [T EXCEPT !.maj23 = id, !.votes = copied]
        <5>1. T.votes = S.votes
          BY <3>5
        <5> DEFINE over == [w \in Validators |-> IF T.byBlock[id].votes[w] # NoVote
                                                THEN T.byBlock[id].votes[w] ELSE T.votes[w]]
        <5>2. over = copied
          BY <4>1, <5>1
        <5>3. s.byBlock[id].sum < quorum /\ quorum =< T.byBlock[id].sum /\ T.maj23 = NoId
          BY <3>13, <4>1
        <5>4. new = [T EXCEPT !.maj23 = id, !.votes = over]
          BY <3>12, <5>3, Zenon DEF crowned
        <5>5. QED
          BY <5>2, <5>4
      <4>3. new = [votes |-> copied, sum |-> S.sum, maj23 |-> id,
                   byBlock |-> T.byBlock, claims |-> s.claims]
        BY <3>5, <4>2
      <4>4. copied \in [Validators -> Votes]
        BY <2>1, <3>4 DEF VoteSets
      <4>5. new \in VoteSets
        BY <1>1, <1>2, <2>1, <3>7, <4>3, <4>4 DEF VoteSets
      <4>6. \A w \in Validators : copied[w] # NoVote <=> S.votes[w] # NoVote
        BY <1>1, <3>8, <3>11
      <4>7. Voted(S) = Voted(new)
        <5>1. new.votes = copied
          BY <4>3
        <5> HIDE DEF copied, S
        <5>2. QED
          BY <4>6, <5>1 DEF Voted
      <4>8. SumsAreCounted(new)
        <5>1. new.sum = PowerOf[Voted(new)]
          <6>1. new.sum = S.sum /\ S.sum = PowerOf[Voted(S)]
            BY <2>1, <4>3
          <6>2. QED
            BY <4>7, <6>1
        <5>2. new.byBlock = T.byBlock
          BY <4>3
        <5>3. \A i \in Ids : Agreeing(new, i) = Agreeing(T, i)
          BY <5>2 DEF Agreeing
        <5>4. QED
          BY <3>9, <5>1, <5>2, <5>3 DEF SumsAreCounted
      <4>9. VotesAreFiled(new)
        BY <3>11, <4>3, <4>6 DEF VotesAreFiled
      <4>10. MajorityIsReached(new) /\ MajorityIsShown(new)
        BY <3>4, <3>13, <4>1, <4>3 DEF MajorityIsReached, MajorityIsShown
      <4>11. QED
        BY <4>5, <4>8, <4>9, <4>10 DEF VoteSetInv
    <3>14. CASE ~(s.byBlock[id].sum < quorum /\ quorum =< B.sum /\ s.maj23 = NoId)
      <4>1. T.byBlock[id] = B /\ T.maj23 = s.maj23
        BY <1>1, <3>5, <3>8
      <4>2. new = T
        BY <3>12, <3>14, <4>1 DEF crowned
      <4>3. new.votes = S.votes /\ new.sum = S.sum /\ new.maj23 = s.maj23
        BY <3>5, <4>2
      <4>4. SumsAreCounted(new)
        <5>1. Voted(new) = Voted(S)
          BY <4>3 DEF Voted
        <5>2. \A i \in Ids : Agreeing(new, i) = Agreeing(T, i)
          BY <4>2 DEF Agreeing
        <5>3. QED
          BY <2>1, <3>9, <4>2, <4>3, <5>1, <5>2 DEF SumsAreCounted
      <4>5. VotesAreFiled(new)
        BY <3>11, <4>2, <4>3 DEF VotesAreFiled
      <4>6. MajorityIsReached(new)
        <5>1. quorum \in Nat
          BY QuorumIsTwoThirds
        <5>2. s.maj23 # NoId => s.maj23 \in Ids
          BY <1>2 DEF VoteSets
        <5>3. CASE s.maj23 = id
          <6>1. s.byBlock[id].sum >= quorum
            BY <1>1, <5>3 DEF VoteSetInv, MajorityIsReached
          <6>2. \A x, y, q \in Nat : x >= y /\ y >= q => x >= q
            OBVIOUS
          <6>3. B.sum >= quorum
            BY <3>3, <3>4, <5>1, <6>1, <6>2
          <6>4. QED
            BY <4>1, <4>2, <4>3, <5>3, <6>3 DEF MajorityIsReached
        <5>4. CASE s.maj23 # id
          BY <3>8, <4>2, <4>3, <5>2, <5>4 DEF VoteSetInv, MajorityIsReached
        <5>5. QED
          BY <5>3, <5>4
      <4>7. MajorityIsShown(new)
        <5>1. s.maj23 # NoId => s.maj23 \in Ids
          BY <1>2 DEF VoteSets
        <5>2. QED
          BY <2>1, <3>8, <3>10, <4>2, <4>3, <5>1 DEF MajorityIsShown
      <4>8. QED
        BY <3>7, <4>2, <4>4, <4>5, <4>6, <4>7 DEF VoteSetInv
    <3>15. QED
      BY <3>13, <3>14
  <2>4. QED
    BY <2>2, <2>3
<1>5. QED
  BY <1>3, <1>4

\* A claim of a peer changes no vote and no sum, so it keeps the invariant.
LEMMA ClaimKeepsInv ==
    ASSUME NEW s, VoteSetInv(s), NEW p \in Peers, NEW id \in Ids,
           NEW new, new = SetPeerMaj23(s, p, id)
    PROVE  VoteSetInv(new)
<1> DEFINE B == [s.byBlock[id] EXCEPT !.tracked = TRUE, !.peerMaj23 = TRUE]
<1>1. s \in VoteSets
  BY DEF VoteSetInv
<1>2. CASE s.claims[p] # NoId
  <2>1. new = s
    BY <1>2 DEF SetPeerMaj23
  <2>2. QED
    BY <2>1
<1>3. CASE s.claims[p] = NoId
  <2>1. new = [votes |-> s.votes, sum |-> s.sum, maj23 |-> s.maj23,
               byBlock |-> [s.byBlock EXCEPT ![id] = B],
               claims |-> [s.claims EXCEPT ![p] = id]]
    BY <1>1, <1>3 DEF SetPeerMaj23, VoteSets, BlockVotes
  <2>2. /\ B \in BlockVotes
        /\ B.votes = s.byBlock[id].votes
        /\ B.sum = s.byBlock[id].sum
    BY <1>1 DEF VoteSets, BlockVotes
  <2>3. new \in VoteSets
    BY <1>1, <2>1, <2>2 DEF VoteSets
  <2>4. \A i \in Ids : /\ new.byBlock[i].votes = s.byBlock[i].votes
                       /\ new.byBlock[i].sum = s.byBlock[i].sum
    BY <1>1, <2>1, <2>2 DEF VoteSets
  <2>5. new.votes = s.votes /\ new.sum = s.sum /\ new.maj23 = s.maj23
    BY <2>1
  <2>6. SumsAreCounted(new)
    <3>1. Voted(new) = Voted(s)
      BY <2>5 DEF Voted
    <3>2. \A i \in Ids : Agreeing(new, i) = Agreeing(s, i)
      BY <2>4 DEF Agreeing, AgreeingIn
    <3>3. QED
      BY <2>4, <2>5, <3>1, <3>2 DEF VoteSetInv, SumsAreCounted
  <2>7. VotesAreFiled(new)
    BY <2>4, <2>5 DEF VoteSetInv, VotesAreFiled
  <2>8. s.maj23 # NoId => s.maj23 \in Ids
    BY <1>1 DEF VoteSets
  <2>9. MajorityIsReached(new) /\ MajorityIsShown(new)
    BY <2>4, <2>5, <2>8 DEF VoteSetInv, MajorityIsReached, MajorityIsShown
  <2>10. QED
    BY <2>3, <2>6, <2>7, <2>9 DEF VoteSetInv
<1>4. QED
  BY <1>2, <1>3

\* The empty vote set satisfies the invariant.
LEMMA EmptySetInv == VoteSetInv(NewVoteSet)
<1> DEFINE s == NewVoteSet
           none == [v \in Validators |-> NoVote]
<1>1. s = [votes |-> none, sum |-> 0, maj23 |-> NoId,
            byBlock |-> [id \in Ids |-> newBlockVotes(FALSE, FALSE)],
            claims |-> [p \in Peers |-> NoId]]
  BY DEF NewVoteSet
<1>2. newBlockVotes(FALSE, FALSE) \in BlockVotes
  BY DEF newBlockVotes, BlockVotes, Votes
<1>3. s \in VoteSets
  BY <1>1, <1>2 DEF VoteSets, Votes
<1>4. \A id \in Ids : /\ s.byBlock[id].votes = none
                      /\ s.byBlock[id].sum = 0
  BY <1>1 DEF newBlockVotes
<1>5. Voted(s) = {}
  BY <1>1 DEF Voted
<1>6. \A id \in Ids : AgreeingIn(s.byBlock[id]) = {}
  BY <1>4 DEF AgreeingIn, NoVote
<1>7. SumsAreCounted(s)
  BY <1>1, <1>4, <1>5, <1>6, VotingPowerAssumption
     DEF SumsAreCounted, VotingPowerAssumption, Agreeing
<1>8. VotesAreFiled(s) /\ MajorityIsReached(s) /\ MajorityIsShown(s)
  BY <1>1, <1>4 DEF VotesAreFiled, MajorityIsReached, MajorityIsShown
<1>9. QED
  BY <1>3, <1>7, <1>8 DEF VoteSetInv

\* A majority for a block is one of the validators that voted at all.
LEMMA MajorityHasAny ==
    ASSUME NEW s, VoteSetInv(s), s.maj23 # NoId
    PROVE  HasTwoThirdsAny(s)
<1> DEFINE A == AgreeingIn(s.byBlock[s.maj23])
<1>1. s.maj23 \in Ids
  BY DEF VoteSetInv, VoteSets
<1>2. A \subseteq Voted(s) /\ Voted(s) \in SUBSET Validators
  BY <1>1 DEF VoteSetInv, VotesAreFiled, AgreeingIn, Voted, NoVote
<1>3. PowerOf[A] \in Nat /\ PowerOf[Voted(s)] \in Nat /\ PowerOf[A] =< PowerOf[Voted(s)]
  BY <1>2, PowerMonotone
<1>4. PowerOf[A] >= quorum
  BY <1>1 DEF VoteSetInv, SumsAreCounted, MajorityIsReached, Agreeing
<1>5. s.sum = PowerOf[Voted(s)]
  BY DEF VoteSetInv, SumsAreCounted
<1>6. s.sum >= quorum /\ s.sum \in Nat
  BY <1>3, <1>4, <1>5, QuorumIsTwoThirds
<1>7. QED
  BY <1>6, QuorumIsTwoThirds DEF HasTwoThirdsAny

\* A vote gives a set without a majority at most one for its block, and only
\* if it is added; a majority stays.
LEMMA VoteAndMajority ==
    ASSUME NEW s \in VoteSets, NEW v \in Validators, NEW vote \in [id : Ids, res : Results],
           NEW new, new = addVote(s, v, vote)
    PROVE  /\ s.maj23 # NoId => new.maj23 = s.maj23
           /\ ~isAdded(s, v, vote) => new.maj23 = s.maj23
           /\ new.maj23 \in {s.maj23, vote.id}
<1> DEFINE S == share(s, v, vote)
           T == [S EXCEPT !.byBlock[vote.id] = addToBlock(S.byBlock[vote.id], v, vote)]
           C == crowned(T, s.byBlock[vote.id].sum, vote.id)
<1>1. S.maj23 = s.maj23 /\ T.maj23 = S.maj23
  BY DEF share, VoteSets
<1>2. C = T \/ (T.maj23 = NoId /\ C.maj23 = vote.id)
  BY DEF crowned, share, VoteSets
<1>3. new \in {s, S, C} /\ (~isAdded(s, v, vote) => new \in {s, S})
  BY DEF addVote, addVerifiedVote
<1>4. QED
  BY <1>1, <1>2, <1>3

===============================================================================
