------------------------------- MODULE VoteSet -------------------------------
(***************************************************************************)
(* One vote set under every order of votes and claims: validators may vote *)
(* more than once and for different blocks, with either Result, and every  *)
(* peer may claim a majority for one block (AddVote and SetPeerMaj23 hold  *)
(* the mutex of the set, so they are steps).                               *)
(***************************************************************************)
EXTENDS VoteSetProperties

ReceiveVote(v, vote) == vs' = addVote(vs, v, vote)

ReceiveClaim(p, id) == vs' = SetPeerMaj23(vs, p, id)

Init == vs = NewVoteSet

Next == \/ \E v \in Validators, id \in Ids, res \in Results :
              ReceiveVote(v, [id |-> id, res |-> res])
        \/ \E p \in Peers, id \in Ids : ReceiveClaim(p, id)

Spec == Init /\ [][Next]_vs

-----------------------------------------------------------------------------
(* Properties, beside those of VoteSetProperties *)

\* The VoteSet keeps the shape NewVoteSet gives it, and no sum that addVote
\* keeps exceeds the total power.
TypeOK ==
    /\ vs \in VoteSets
    /\ vs.sum =< total
    /\ \A id \in Ids : vs.byBlock[id].sum =< total

\* The majority, once found, never changes, even if equivocating validators
\* later give a second block a quorum ("First 2/3 majority seen").
MajorityIsFinal ==
    [][vs.maj23 # NoId => vs'.maj23 = vs.maj23]_vs

===============================================================================
