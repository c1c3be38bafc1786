-------------------------- MODULE VoteSetProperties --------------------------
(***************************************************************************)
(* What holds of one vote set in every state, whatever brought it there:   *)
(* VoteSet has its steps, TBFTAgreementProof the proofs.                   *)
(***************************************************************************)
EXTENDS VoteSetOps

VARIABLE vs

\* Whatever the order of conflicting votes and claims, the incremental sums of
\* addVerifiedVote are the power of the distinct validators behind them: `sum'
\* counts every validator that voted once, the sum of a block every validator
\* that agreed to it once and no validator that was against it.
SumsCountEachVoterOnce ==
    /\ vs.sum = PowerOf[Voted(vs)]
    /\ \A id \in Ids : vs.byBlock[id].sum = PowerOf[Agreeing(vs, id)]

\* A majority that TwoThirdsMajority reports is one: distinct validators with
\* more than two thirds of the power agreed to that block.
Maj23HasQuorum ==
    vs.maj23 # NoId => 3 * PowerOf[Agreeing(vs, vs.maj23)] > 2 * total

\* A commit that MakeCommit builds from `votes' shows the majority it claims,
\* also when some of its voters had first voted for another block: this is
\* what ValidatorSet.VerifyCommit of another node counts.
CommitShowsQuorum ==
    vs.maj23 # NoId => PowerOf[Shown(vs, vs.maj23)] >= quorum

\* Two blocks both have a quorum only if validators with more than a third of
\* the power voted for both: with less faulty power no two nodes can see
\* different majorities in one round.
TwoQuorumsNeedEquivocation ==
    \A a, b \in Ids :
        a # b /\ vs.byBlock[a].sum >= quorum /\ vs.byBlock[b].sum >= quorum
          => 3 * PowerOf[Agreeing(vs, a) \cap Agreeing(vs, b)] > total

\* A majority for a block implies HasTwoThirdsAny: ConsensusState.addVote asks
\* for the latter before it acts on the former.
MajorityImpliesAny == HasTwoThirdsMajority(vs) => HasTwoThirdsAny(vs)

===============================================================================
