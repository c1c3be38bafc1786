----------------------------- MODULE VotingPower -----------------------------
(***************************************************************************)
(* The voting power of a committee, consensus/tbft/types/validator_set.go: *)
(* the power of a set of validators is the sum of the powers of its        *)
(* members, which is all that the definitions and the proofs use of it.    *)
(***************************************************************************)
EXTENDS Integers

CONSTANTS Validators,   \* the committee
          PowerOf       \* the voting power of every set of validators

PowerIsAdditive ==
    \A A, B \in SUBSET Validators :
        PowerOf[A \cup B] + PowerOf[A \cap B] = PowerOf[A] + PowerOf[B]

ASSUME VotingPowerAssumption ==
    /\ PowerOf \in [SUBSET Validators -> Nat]
    /\ PowerOf[{}] = 0
    /\ PowerIsAdditive

\* TotalVotingPower
total == PowerOf[Validators]

\* The power a block needs for a majority
quorum == (total * 2) \div 3 + 1

\* These validators are a +2/3 majority.
IsQuorum(S) == PowerOf[S] >= quorum

===============================================================================
