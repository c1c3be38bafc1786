----------------------------- MODULE MCVoteGossip -----------------------------
(* A member with more than two thirds of the voting power prevotes for the   *)
(* block in round 0 and precommits nil, and precommits the block in round 1. *)
EXTENDS VoteGossip

CONSTANTS v1, v2

MCValidators == {v1, v2}

MCQuorums == {{v1}, MCValidators}

MCForBlock == {[round |-> 0, kind |-> "prevotes", v |-> v1],
               [round |-> 1, kind |-> "precommits", v |-> v1]}

MCCast == MCForBlock \cup {[round |-> 0, kind |-> "precommits", v |-> v1]}

MCLateVotes == {[round |-> 1, kind |-> "precommits", v |-> v1]}
=============================================================================
