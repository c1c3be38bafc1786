---------------------------- MODULE HeightVoteSet ----------------------------
(***************************************************************************)
(* The vote sets of one height under every order of votes, claims and      *)
(* round changes: gossip brings votes of rounds the node has not reached,  *)
(* SetRound makes them current, late votes come for rounds long passed.    *)
(* Each method holds the mutex of the set, so each is one step.            *)
(***************************************************************************)
EXTENDS HeightVoteSetOps

CONSTANTS LastRound,   \* bound: the last round a message or SetRound names
          MaxVotes,    \* bound: the votes kept
          MaxClaims    \* bound: the claims kept

VARIABLE hvs

\* The rounds, kinds and voters that have a vote
Slots(h) ==
    {<<r, k, v>> \in Tracked(h) \X Kinds \X Validators : h.sets[r][k].votes[v] # NoVote}

\* A vote for a block or for nil that passes the checks of VoteSet.addVote
ReceiveVote(r, kind, v, id, o) ==
    /\ Cardinality(Slots(hvs)) < MaxVotes
    /\ hvs' = AddVote(hvs, r, kind, v, [id |-> id, res |-> "agree"], o)

\* A vote the set rejects (index, address or signature): its round has been
\* created by then, and stays.
ReceiveBadVote(r, o) ==
    /\ accepts(hvs, r, o)
    /\ hvs' = admitted(hvs, r, o)

Claims(h) == {<<r, k, p>> \in Tracked(h) \X Kinds \X Peers : h.sets[r][k].claims[p] # NoId}

ReceiveClaim(p, r, kind, id) ==
    /\ Cardinality(Claims(hvs)) < MaxClaims
    /\ hvs' = SetPeerMaj23For(hvs, p, r, kind, id)

\* enterNewRound; the panic of SetRound is ConsensusState's concern
NewRound(r) ==
    /\ ~SetRoundPanics(hvs, r)
    /\ hvs' = SetRound(hvs, r)

Init == hvs = NewHeightVoteSet

Next ==
    \E r \in 0..LastRound :
        \/ NewRound(r)
        \/ \E o \in Origins : ReceiveBadVote(r, o)
        \/ \E kind \in Kinds, id \in Ids :
              \/ \E v \in Validators, o \in Origins : ReceiveVote(r, kind, v, id, o)
              \/ \E p \in Peers : ReceiveClaim(p, r, kind, id)

Spec == Init /\ [][Next]_hvs

-----------------------------------------------------------------------------
(* Properties *)

\* "We let each peer provide us with up to 2 unexpected catchup rounds": no
\* origin fills the memory with rounds, bad votes included.  No round up to
\* the current one is missing, whatever rounds peers brought in before, and
\* every round beyond it was brought in by someone.
CatchUpIsBounded ==
    /\ \A o \in Origins : Cardinality(hvs.catchup[o]) =< 2
    /\ 0..hvs.round \subseteq Tracked(hvs)
    /\ Tracked(hvs) \subseteq 0..hvs.round \cup UNION {hvs.catchup[o] : o \in Origins}

\* A voter that was counted in a round stays counted: SetRound, when it reaches
\* a round that a peer brought in, keeps the votes that are there.  So the last
\* polka round never goes back: the proof of lock that a node has shown in a
\* proposal is one it can still show.
VotesAreKept == [][Slots(hvs) \subseteq Slots(hvs') /\ POLInfo(hvs) =< POLInfo(hvs')]_hvs

===============================================================================
