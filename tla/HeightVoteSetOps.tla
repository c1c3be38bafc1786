--------------------------- MODULE HeightVoteSetOps ---------------------------
(***************************************************************************)
(* The vote sets of one height, consensus/tbft/types/height_vote_set.go,   *)
(* as a value: a prevote set and a precommit set for each tracked round.   *)
(* A round that is not tracked answers every question as an empty set      *)
(* does, which is what the methods of a nil *VoteSet do.                   *)
(***************************************************************************)
EXTENDS VoteSetOps, FiniteSets

CONSTANT Own    \* the peer id "" that marks a message of the node itself

ASSUME OwnAssumption == Own \notin Peers

Origins == Peers \cup {Own}

Kinds == {"prevote", "precommit"}

newRound == [k \in Kinds |-> NewVoteSet]

\* NewHeightVoteSet and Reset: round 0 is tracked from the start
NewHeightVoteSet ==
    [round   |-> 0,
     sets    |-> [r \in {0} |-> newRound],
     catchup |-> [o \in Origins |-> {}]]

Tracked(hvs) == DOMAIN hvs.sets

getVoteSet(hvs, r, kind) == IF r \in Tracked(hvs) THEN hvs.sets[r][kind] ELSE NewVoteSet

Prevotes(hvs, r) == getVoteSet(hvs, r, "prevote")

Precommits(hvs, r) == getVoteSet(hvs, r, "precommit")

\* addRound for each round of R that is not tracked
withRounds(hvs, R) ==
    [hvs EXCEPT !.sets = [r \in Tracked(hvs) \cup R |->
                            IF r \in Tracked(hvs) THEN hvs.sets[r] ELSE newRound]]

\* Mutant of SetRoundPanics: the round may go back.
SetRoundPanicsNever(hvs, r) == FALSE

\* The condition under which SetRound panics
SetRoundPanics(hvs, r) == hvs.round # 0 /\ r < hvs.round + 1

\* The rounds up to r are created, but for those a peer brought in before.
SetRound(hvs, r) == [withRounds(hvs, (hvs.round + 1)..r) EXCEPT !.round = r]

\* Mutant of MayCatchUp: the rounds a peer asked for are not counted.
MayCatchUpAlways(hvs, o) == TRUE

\* A peer may bring in two rounds that are not tracked.
MayCatchUp(hvs, o) == Cardinality(hvs.catchup[o]) < 2

accepts(hvs, r, o) == r \in Tracked(hvs) \/ MayCatchUp(hvs, o)

\* The vote sets after the round of a vote has been looked up or created
admitted(hvs, r, o) ==
    IF r \in Tracked(hvs) THEN hvs
    ELSE [withRounds(hvs, {r}) EXCEPT !.catchup[o] = @ \cup {r}]

AddVote(hvs, r, kind, v, vote, o) ==
    IF accepts(hvs, r, o)
    THEN [admitted(hvs, r, o) EXCEPT !.sets[r][kind] = addVote(@, v, vote)]
    ELSE hvs

\* The `added' that AddVote returns
Added(hvs, r, kind, v, vote, o) ==
    accepts(hvs, r, o) /\ isAdded(getVoteSet(hvs, r, kind), v, vote)

POLRounds(hvs) == {r \in 0..hvs.round : HasTwoThirdsMajority(Prevotes(hvs, r))}

\* POLInfo: the last round with a majority of the prevotes, or -1
POLInfo(hvs) ==
    IF POLRounds(hvs) = {} THEN -1
    ELSE CHOOSE r \in POLRounds(hvs) : \A q \in POLRounds(hvs) : q =< r

SetPeerMaj23For(hvs, p, r, kind, id) ==
    IF r \in Tracked(hvs) THEN [hvs EXCEPT !.sets[r][kind] = SetPeerMaj23(@, p, id)] ELSE hvs

===============================================================================
