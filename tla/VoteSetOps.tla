------------------------------ MODULE VoteSetOps ------------------------------
(***************************************************************************)
(* A vote set of one height, round and vote type, consensus/tbft/types/    *)
(* vote_set.go, as a value: the operators of this module map a vote set to *)
(* the vote set a method leaves behind.  Votes are abstracted to the block *)
(* id they are for and the Result (agree or against) they carry; a vote    *)
(* with a wrong index, address or signature is an error that changes       *)
(* nothing and is left out.                                                *)
(***************************************************************************)
EXTENDS VotingPower

CONSTANTS Peers,   \* the peers that may claim a majority
          Ids,     \* block ids, the zero id of nil votes included
          NoId     \* no block id: maj23 = nil

ASSUME NoIdAssumption == NoId \notin Ids

Results == {"agree", "against"}

NoVote == [id |-> NoId, res |-> "none"]

Votes == [id : Ids, res : Results] \cup {NoVote}

BlockVotes == [tracked : BOOLEAN, peerMaj23 : BOOLEAN,
               votes : [Validators -> Votes], sum : Nat]

VoteSets == [votes : [Validators -> Votes], sum : Nat, maj23 : Ids \cup {NoId},
             byBlock : [Ids -> BlockVotes], claims : [Peers -> Ids \cup {NoId}]]

\* newBlockVotes, and the value that stands for a key missing from votesByBlock
newBlockVotes(claimed, tracked) ==
    [tracked |-> tracked, peerMaj23 |-> claimed,
     votes |-> [v \in Validators |-> NoVote], sum |-> 0]

NewVoteSet ==
    [votes   |-> [v \in Validators |-> NoVote],
     sum     |-> 0,
     maj23   |-> NoId,
     byBlock |-> [id \in Ids |-> newBlockVotes(FALSE, FALSE)],
     claims  |-> [p \in Peers |-> NoId]]

-----------------------------------------------------------------------------
(* Adding a vote *)

\* Mutant of getVote: the votes kept per block are not looked up, so a vote
\* that already counts there counts again.
getVoteOnlyShared(vs, v, id) == vs.votes[v] # NoVote /\ vs.votes[v].id = id

getVote(vs, v, id) == \/ vs.votes[v] # NoVote /\ vs.votes[v].id = id
                      \/ vs.byBlock[id].votes[v] # NoVote

\* Mutant of addToBlock: the Result of the vote is not looked at.
addToBlockAnyResult(bv, v, vote) ==
    [bv EXCEPT !.tracked = TRUE, !.votes[v] = vote, !.sum = @ + PowerOf[{v}]]

\* blockVotes.addVerifiedVote; the entry is created if it was missing
addToBlock(bv, v, vote) ==
    [bv EXCEPT !.tracked = TRUE,
               !.votes[v] = vote,
               !.sum = IF vote.res = "agree" THEN @ + PowerOf[{v}] ELSE @]

\* What happens to `votes' and `sum': the first vote of a validator stays,
\* unless a later one is for the block that has the majority.
share(vs, v, vote) ==
    [vs EXCEPT !.votes[v] = IF @ = NoVote \/ vs.maj23 = vote.id THEN vote ELSE @,
               !.sum = IF vs.votes[v] = NoVote THEN @ + PowerOf[{v}] ELSE @]

\* The `added' that addVote returns: a conflicting vote counts only for a
\* block that some peer claims has a majority.
isAdded(vs, v, vote) ==
    /\ ~getVote(vs, v, vote.id)
    /\ vs.votes[v] = NoVote \/ vs.byBlock[vote.id].peerMaj23

\* Mutant of crowned: the votes of the majority are not copied.
crownedWithoutCopy(vs, before, id) ==
    IF before < quorum /\ quorum =< vs.byBlock[id].sum /\ vs.maj23 = NoId
    THEN [vs EXCEPT !.maj23 = id]
    ELSE vs

\* The first block to cross the quorum becomes maj23 and its votes are
\* copied over the ones in `votes'.
crowned(vs, before, id) ==
    IF before < quorum /\ quorum =< vs.byBlock[id].sum /\ vs.maj23 = NoId
    THEN [vs EXCEPT !.maj23 = id,
                    !.votes = [v \in Validators |->
                                 IF vs.byBlock[id].votes[v] # NoVote
                                 THEN vs.byBlock[id].votes[v] ELSE vs.votes[v]]]
    ELSE vs

addVerifiedVote(vs, v, vote) ==
    IF isAdded(vs, v, vote)
    THEN crowned([share(vs, v, vote) EXCEPT !.byBlock[vote.id] = addToBlock(@, v, vote)],
                 vs.byBlock[vote.id].sum, vote.id)
    ELSE share(vs, v, vote)

addVote(vs, v, vote) ==
    IF getVote(vs, v, vote.id) THEN vs ELSE addVerifiedVote(vs, v, vote)

-----------------------------------------------------------------------------
(* Claims of peers, and what the consensus state asks of a vote set *)

\* A peer gets to claim one block id; the block is tracked from then on.
SetPeerMaj23(vs, p, id) ==
    IF vs.claims[p] # NoId THEN vs
    ELSE [vs EXCEPT !.claims[p] = id,
                    !.byBlock[id].tracked = TRUE,
                    !.byBlock[id].peerMaj23 = TRUE]

TwoThirdsMajority(vs) == vs.maj23

HasTwoThirdsMajority(vs) == vs.maj23 # NoId

HasTwoThirdsAny(vs) == vs.sum > (total * 2) \div 3

HasAll(vs) == vs.sum = total

\* The voters whose agreement is counted, in the entry of a block and for id
AgreeingIn(bv) == {v \in Validators : bv.votes[v].res = "agree"}

Agreeing(vs, id) == AgreeingIn(vs.byBlock[id])

\* The voters a commit made from the vote set shows as agreeing on id
Shown(vs, id) == {v \in Validators : vs.votes[v] = [id |-> id, res |-> "agree"]}

Voted(vs) == {v \in Validators : vs.votes[v] # NoVote}

===============================================================================
