----------------------------- MODULE ValidatorSet -----------------------------
(***************************************************************************)
(* Who proposes: the rotation of consensus/tbft/types/validator_set.go as  *)
(* the members of a committee use it.  Every member rotates a set of its   *)
(* own, by as many rounds as it enters at a time (enterNewRound), starts   *)
(* every height from the set its state agent holds (updateToState), and    *)
(* takes the proposer of the last block for round 0.                       *)
(*                                                                         *)
(* The set keeps an accum per validator; its members do not change here    *)
(* (a change of the committee makes a new set).                            *)
(***************************************************************************)
EXTENDS VotingPower, Sequences, FiniteSets

CONSTANTS Addr,        \* the order of the validators' addresses
          Nodes,       \* the members of the committee that are observed
          Nobody,      \* a proposer that is not in the set
          MaxInt,      \* math.MaxInt64
          MaxRound,    \* bound: the last round of a height
          MaxHeight    \* bound: the last height

VARIABLES node,   \* per member: height, round, the set in use and the agent's
          chain   \* the proposers of the blocks so far, the first one given

vars == <<node, chain>>

\* safeAddClip, safeSubClip and safeMulClip saturate
clip(x) == IF x > MaxInt THEN MaxInt ELSE IF x < -MaxInt - 1 THEN -MaxInt - 1 ELSE x

\* The root of the heap: the most accum, and of equals the least address
mostest(accum) ==
    CHOOSE v \in Validators :
        \A w \in Validators \ {v} :
            accum[v] > accum[w] \/ (accum[v] = accum[w] /\ Addr[v] < Addr[w])

\* The validator with the most accum proposes and pays the total power.
decremented(set) ==
    LET m == mostest(set.accum)
    IN  [accum |-> [set.accum EXCEPT ![m] = clip(@ - total)], proposer |-> m]

\* Mutant of IncrementAccum: entering a later round rotates once.
IncrementAccumOnce(set, times) ==
    decremented([set EXCEPT !.accum =
                    [v \in Validators |-> clip(set.accum[v] + PowerOf[{v}])]])

IncrementAccum(set, times) ==
    LET raised == [set EXCEPT !.accum =
                      [v \in Validators |->
                          clip(set.accum[v] + clip(PowerOf[{v}] * times))]]
        after[i \in 0..times] == IF i = 0 THEN raised ELSE decremented(after[i - 1])
    IN  after[times]

NewValidatorSet == IncrementAccum([accum |-> [v \in Validators |-> 0], proposer |-> Nobody], 1)

FindValidatorSetProposer(set, last) ==
    IF last \in Validators THEN [set EXCEPT !.proposer = last] ELSE set

-----------------------------------------------------------------------------

\* Round 0 is entered with a new height; the agent's set is used as it is,
\* so that its proposer is set too.
EnterHeight(h, agent, last) ==
    LET set == FindValidatorSetProposer(agent, last)
    IN  [height |-> h, round |-> 0, set |-> set, agent |-> set]

\* Mutant of EnterRound: the agent's set is rotated in place.
EnterRoundInPlace(n, r) ==
    LET set == IncrementAccum(node[n].set, r - node[n].round)
    IN  /\ node' = [node EXCEPT ![n].round = r, ![n].set = set, ![n].agent = set]
        /\ UNCHANGED chain

\* enterNewRound for a later round, one or several at once
EnterRound(n, r) ==
    LET set == IncrementAccum(node[n].set, r - node[n].round)
    IN  /\ node' = [node EXCEPT ![n].round = r, ![n].set = set]
        /\ UNCHANGED chain

\* The proposers of the rounds of this height up to the current one
ProposersSoFar(n) ==
    {node[n].agent.proposer}
      \cup {IncrementAccum(node[n].agent, k).proposer : k \in 1..node[n].round}

\* The member commits the block of its height: the one that is in the chain
\* already or, if it is the first, one made in this round or, as a locked or
\* valid block is proposed again, in a round before.
Commit(n) ==
    LET h == node[n].height
    IN  /\ h < MaxHeight
        /\ IF Len(chain) > h THEN UNCHANGED chain
           ELSE \E maker \in ProposersSoFar(n) : chain' = Append(chain, maker)
        /\ node' = [node EXCEPT ![n] = EnterHeight(h + 1, node[n].agent, chain'[h + 1])]

Init ==
    \E first \in Validators \cup {Nobody} :
        /\ chain = <<first>>
        /\ node = [n \in Nodes |-> EnterHeight(1, NewValidatorSet, first)]

Next ==
    \E n \in Nodes :
        \/ \E r \in (node[n].round + 1)..MaxRound : EnterRound(n, r)
        \/ Commit(n)

Spec == Init /\ [][Next]_vars

-----------------------------------------------------------------------------
(* Properties *)

\* The members agree on the proposer of a round, whatever rounds each of them
\* went through or skipped at this height and at the heights before: a
\* proposal is checked against the key of the proposer the receiver computed.
ProposerIsAgreed ==
    \A n, m \in Nodes :
        node[n].height = node[m].height /\ node[n].round = node[m].round
          => node[n].set.proposer = node[m].set.proposer

\* From any round on, the next rounds, as many as the total power, give every
\* validator as many turns as it has power: no validator is left out, so a
\* round with a live proposer comes.
TurnsAreFair ==
    \A n \in Nodes, v \in Validators :
        Cardinality({k \in 1..total : IncrementAccum(node[n].set, k).proposer = v})
          = PowerOf[{v}]

===============================================================================
