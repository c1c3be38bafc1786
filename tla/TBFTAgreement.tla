---------------------------- MODULE TBFTAgreement ----------------------------
(***************************************************************************)
(* The committee under the assumption it is built for: the validators that *)
(* do not run the code have less than a third of the voting power.         *)
(***************************************************************************)
EXTENDS TBFTVoting

ASSUME FaultyMinority == 3 * PowerOf[Validators \ Correct] < total

-----------------------------------------------------------------------------
(* The inductive invariant behind Agreement.  A block is choosable in a    *)
(* round while enough validators have precommitted it there or may still   *)
(* do so; a polka for something else in a later round rules that out.      *)

MayStillPrecommit(v, r, b) ==
    \/ v \notin Correct
    \/ <<v, r, b>> \in precommits
    \/ ~Passed(v, r) /\ \A c \in Blocks : <<v, r, c>> \notin precommits

Choosable(r, b) == IsQuorum({v \in Validators : MayStillPrecommit(v, r, b)})

OnePrevotePerRound ==
    \A v \in Correct, r \in Rounds, x, y \in Values :
        <<v, r, x>> \in prevotes /\ <<v, r, y>> \in prevotes => x = y

OnePrecommitPerRound ==
    \A v \in Correct, r \in Rounds, b, c \in Blocks :
        <<v, r, b>> \in precommits /\ <<v, r, c>> \in precommits => b = c

PrecommitsHavePolkas ==
    \A v \in Correct, r \in Rounds, b \in Blocks :
        <<v, r, b>> \in precommits => Polka(r, b)

LocksAreHeld ==
    \A v \in Correct, c, r \in Rounds, b \in Blocks, x \in Values :
        c < r /\ x # b /\ <<v, c, b>> \in precommits /\ <<v, r, x>> \in prevotes
          => \E q \in Rounds, y \in Values \ {b} : c < q /\ q < r /\ Polka(q, y)

PolkasExclude ==
    \A r, c \in Rounds, x \in Values, b \in Blocks :
        c < r /\ x # b /\ Polka(r, x) => ~Choosable(c, b)

DecisionsHaveCommits ==
    \A v \in Correct : decided[v] # Nil => \E r \in Rounds : Committed(r, decided[v])

\* The inductive invariant: what the votes on record of the nodes that run
\* enterPrevote, enterPrecommit and finalizeCommit have in common.
AgreementInv == /\ TypeOK
                /\ OnePrevotePerRound
                /\ OnePrecommitPerRound
                /\ PrecommitsHavePolkas
                /\ LocksAreHeld
                /\ PolkasExclude
                /\ DecisionsHaveCommits

===============================================================================
