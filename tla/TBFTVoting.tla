------------------------------ MODULE TBFTVoting ------------------------------
(***************************************************************************)
(* What the nodes of a committee promise each other about the votes of one *)
(* height, without rounds, steps, timers, proposals or messages: the       *)
(* abstract specification that ConsensusState (consensus/tbft/state.go)    *)
(* implements.  A vote appears here when its node puts it on record (the   *)
(* node hands its own vote to addVote, from where it is gossiped).  Votes  *)
(* whose Result is against and nil precommits count for nothing, so they   *)
(* are not recorded.                                                       *)
(***************************************************************************)
EXTENDS VotingPower

CONSTANTS Correct,   \* the validators that run the code and keep their signer
          Blocks,    \* the blocks that may be proposed
          Nil,       \* the value of a nil prevote
          Rounds     \* the rounds of the height

ASSUME VotingAssumption == /\ Correct \subseteq Validators
                           /\ Nil \notin Blocks
                           /\ Rounds \subseteq Nat

VARIABLES prevotes,     \* the prevotes on record, <<validator, round, value>>
          precommits,   \* the precommits for a block on record
          decided       \* the block each correct validator committed, or Nil

vars == <<prevotes, precommits, decided>>

Values == Blocks \cup {Nil}

Prevoters(r, x) == {v \in Validators : <<v, r, x>> \in prevotes}

Precommitters(r, b) == {v \in Validators : <<v, r, b>> \in precommits}

\* A polka: more than two thirds of the power prevoted x in round r.
Polka(r, x) == IsQuorum(Prevoters(r, x))

Committed(r, b) == IsQuorum(Precommitters(r, b))

\* v has a vote on record in a round after r.
Passed(v, r) == \E q \in Rounds : /\ q > r
                                  /\ \/ \E x \in Values : <<v, q, x>> \in prevotes
                                     \/ \E b \in Blocks : <<v, q, b>> \in precommits

\* Mutant of MayPrevote: a polka of the round of the lock itself releases it.
MayPrevoteAfterOldPolka(v, r, x) ==
    \A c \in Rounds, b \in Blocks \ {x} :
        c < r /\ <<v, c, b>> \in precommits =>
            \E q \in Rounds, y \in Values : c =< q /\ q =< r /\ Polka(q, y)

\* The locking rule: after a precommit for b, prevoting anything else (nil
\* included) takes a later polka for something else.
MayPrevote(v, r, x) ==
    \A c \in Rounds, b \in Blocks \ {x} :
        c < r /\ <<v, c, b>> \in precommits =>
            \E q \in Rounds, y \in Values \ {b} : c < q /\ q < r /\ Polka(q, y)

Prevote(v, r, x) ==
    /\ ~Passed(v, r)
    /\ \A y \in Values : <<v, r, y>> \notin prevotes
    /\ MayPrevote(v, r, x)
    /\ prevotes' = prevotes \cup {<<v, r, x>>}
    /\ UNCHANGED precommits

\* Mutant of MayPrecommit: the polka may be one of an earlier round.
MayPrecommitOldPolka(v, r, b) == \E q \in Rounds : q =< r /\ Polka(q, b)

MayPrecommit(v, r, b) == Polka(r, b)

Precommit(v, r, b) ==
    /\ ~Passed(v, r)
    /\ \A c \in Blocks : <<v, r, c>> \notin precommits
    /\ MayPrecommit(v, r, b)
    /\ precommits' = precommits \cup {<<v, r, b>>}
    /\ UNCHANGED prevotes

\* A validator that is not known to run the code votes as it likes.
FaultyPrevote(v, r, x) ==
    /\ prevotes' = prevotes \cup {<<v, r, x>>}
    /\ UNCHANGED precommits

FaultyPrecommit(v, r, b) ==
    /\ precommits' = precommits \cup {<<v, r, b>>}
    /\ UNCHANGED prevotes

CastVote ==
    \E r \in Rounds :
        \/ \E v \in Correct, x \in Values : Prevote(v, r, x)
        \/ \E v \in Correct, b \in Blocks : Precommit(v, r, b)
        \/ \E v \in Validators \ Correct, x \in Values : FaultyPrevote(v, r, x)
        \/ \E v \in Validators \ Correct, b \in Blocks : FaultyPrecommit(v, r, b)

\* The vote that completes a commit and the commit may be one step of a node.
Decide(v, b) ==
    /\ decided[v] = Nil
    /\ \E r \in Rounds : Committed(r, b)'
    /\ decided' = [decided EXCEPT ![v] = b]

Init == /\ prevotes = {}
        /\ precommits = {}
        /\ decided = [v \in Correct |-> Nil]

Next == /\ CastVote \/ UNCHANGED <<prevotes, precommits>>
        /\ (\E v \in Correct, b \in Blocks : Decide(v, b)) \/ UNCHANGED decided

Spec == Init /\ [][Next]_vars

-----------------------------------------------------------------------------
(* Properties *)

\* The votes on record are votes of validators in rounds of the height.
TypeOK == /\ prevotes \subseteq Validators \X Rounds \X Values
          /\ precommits \subseteq Validators \X Rounds \X Blocks
          /\ decided \in [Correct -> Values]

\* No two correct validators commit different blocks at one height, whatever
\* the others do: the purpose of the locking in enterPrecommit, addVote and
\* defaultDoPrevote.
Agreement ==
    \A v, w \in Correct : decided[v] # Nil /\ decided[w] # Nil => decided[v] = decided[w]

\* Once a block has its commit, no later round has a polka for anything else,
\* nil included: every correct node that is still voting stays locked on it.
CommitIsLocked ==
    \A r, q \in Rounds, b \in Blocks, x \in Values :
        Committed(r, b) /\ r < q /\ x # b => ~Polka(q, x)

===============================================================================
