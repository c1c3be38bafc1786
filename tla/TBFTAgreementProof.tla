-------------------------- MODULE TBFTAgreementProof --------------------------
(***************************************************************************)
(* Agreement of the committee for every set of validators, distribution of *)
(* power with a faulty minority, set of blocks and set of rounds; what a   *)
(* vote set promises each of them, for every order of votes and claims;    *)
(* and what the signer of each promises the others.                        *)
(***************************************************************************)
EXTENDS TBFTAgreement, VoteSetProperties, QuorumProof

VS == INSTANCE VoteSet

\* Two quorums have a correct validator in common.
LEMMA CorrectInCommon ==
    ASSUME NEW A \in SUBSET Validators, NEW B \in SUBSET Validators,
           IsQuorum(A), IsQuorum(B)
    PROVE  \E v \in Correct : v \in A /\ v \in B
<1> SUFFICES ASSUME ~ \E v \in Correct : v \in A /\ v \in B PROVE FALSE
  OBVIOUS
<1>1. A \cap B \subseteq Validators \ Correct /\ Validators \ Correct \in SUBSET Validators
  OBVIOUS
<1>2. /\ A \cap B \in SUBSET Validators
      /\ PowerOf[A \cap B] \in Nat
      /\ 3 * PowerOf[A \cap B] > total
  BY QuorumsOverlap
<1>3. PowerOf[Validators \ Correct] \in Nat
      /\ PowerOf[A \cap B] =< PowerOf[Validators \ Correct]
  BY <1>1, <1>2, PowerMonotone
<1>4. 3 * PowerOf[Validators \ Correct] < total /\ total \in Nat
  BY FaultyMinority, QuorumIsTwoThirds DEF FaultyMinority
<1>5. QED
  BY <1>2, <1>3, <1>4

\* A larger set of validators than a quorum is a quorum.
LEMMA QuorumGrows ==
    ASSUME NEW A \in SUBSET Validators, NEW B \in SUBSET Validators,
           A \subseteq B, IsQuorum(A)
    PROVE  IsQuorum(B)
<1>1. PowerOf[A] \in Nat /\ PowerOf[B] \in Nat /\ PowerOf[A] =< PowerOf[B]
  BY PowerMonotone
<1>2. QED
  BY <1>1, QuorumIsTwoThirds DEF IsQuorum

-----------------------------------------------------------------------------
(* Votes are only ever added, so polkas and commits last and a block that  *)
(* is not choosable stays so.                                              *)

VotesGrow == prevotes \subseteq prevotes' /\ precommits \subseteq precommits'

\* A correct validator adds a precommit only where it may still do so.
CorrectPrecommitsAllowed ==
    \A v \in Correct, r \in Rounds, b \in Blocks :
        <<v, r, b>> \in precommits' => MayStillPrecommit(v, r, b)

\* Every step of the committee is of this kind.
LEMMA StepVotes ==
    ASSUME TypeOK, [Next]_vars
    PROVE  VotesGrow /\ CorrectPrecommitsAllowed
<1>1. CASE UNCHANGED <<prevotes, precommits>>
  BY <1>1 DEF VotesGrow, CorrectPrecommitsAllowed, MayStillPrecommit
<1>2. CASE CastVote
  <2>1. ASSUME NEW r \in Rounds, NEW v \in Validators, NEW x \in Values,
               prevotes' = prevotes \cup {<<v, r, x>>}, UNCHANGED precommits
        PROVE  VotesGrow /\ CorrectPrecommitsAllowed
    BY <2>1 DEF VotesGrow, CorrectPrecommitsAllowed, MayStillPrecommit
  <2>2. ASSUME NEW r \in Rounds, NEW v \in Validators \ Correct, NEW b \in Blocks,
               precommits' = precommits \cup {<<v, r, b>>}, UNCHANGED prevotes
        PROVE  VotesGrow /\ CorrectPrecommitsAllowed
    BY <2>2 DEF VotesGrow, CorrectPrecommitsAllowed, MayStillPrecommit
  <2>3. ASSUME NEW r \in Rounds, NEW v \in Correct, NEW b \in Blocks, Precommit(v, r, b)
        PROVE  VotesGrow /\ CorrectPrecommitsAllowed
    <3>1. MayStillPrecommit(v, r, b)
      BY <2>3 DEF Precommit, MayStillPrecommit
    <3>2. precommits' = precommits \cup {<<v, r, b>>} /\ prevotes' = prevotes
      BY <2>3 DEF Precommit
    <3>3. \A w \in Correct, q \in Rounds, c \in Blocks :
             <<w, q, c>> \in precommits => MayStillPrecommit(w, q, c)
      BY DEF MayStillPrecommit
    <3>4. QED
      BY <3>1, <3>2, <3>3 DEF VotesGrow, CorrectPrecommitsAllowed
  <2>4. QED
    BY <1>2, <2>1, <2>2, <2>3, VotingAssumption
       DEF CastVote, Prevote, FaultyPrevote, FaultyPrecommit, VotingAssumption
<1>3. QED
  BY <1>1, <1>2 DEF Next, vars

\* A polka and a commit last, and a validator that passed a round has passed it.
LEMMA PolkasLast ==
    ASSUME VotesGrow
    PROVE  /\ \A r \in Rounds, x \in Values : Polka(r, x) => Polka(r, x)'
           /\ \A r \in Rounds, b \in Blocks : Committed(r, b) => Committed(r, b)'
           /\ \A v \in Validators, r \in Rounds : Passed(v, r) => Passed(v, r)'
<1>1. ASSUME NEW r \in Rounds, NEW x \in Values, Polka(r, x)
      PROVE  Polka(r, x)'
  <2>1. /\ Prevoters(r, x) \subseteq Prevoters(r, x)'
        /\ Prevoters(r, x) \in SUBSET Validators /\ Prevoters(r, x)' \in SUBSET Validators
    BY DEF VotesGrow, Prevoters
  <2>2. IsQuorum(Prevoters(r, x)')
    BY <1>1, <2>1, QuorumGrows DEF Polka
  <2>3. QED
    BY <2>2 DEF Polka, IsQuorum
<1>2. ASSUME NEW r \in Rounds, NEW b \in Blocks, Committed(r, b)
      PROVE  Committed(r, b)'
  <2>1. /\ Precommitters(r, b) \subseteq Precommitters(r, b)'
        /\ Precommitters(r, b) \in SUBSET Validators
        /\ Precommitters(r, b)' \in SUBSET Validators
    BY DEF VotesGrow, Precommitters
  <2>2. IsQuorum(Precommitters(r, b)')
    BY <1>2, <2>1, QuorumGrows DEF Committed
  <2>3. QED
    BY <2>2 DEF Committed, IsQuorum
<1>3. \A v \in Validators, r \in Rounds : Passed(v, r) => Passed(v, r)'
  BY DEF VotesGrow, Passed
<1>4. QED
  BY <1>1, <1>2, <1>3

\* A block that was choosable after a step was choosable before it.
LEMMA ChoosableShrinks ==
    ASSUME VotesGrow, CorrectPrecommitsAllowed,
           NEW r \in Rounds, NEW b \in Blocks, Choosable(r, b)'
    PROVE  Choosable(r, b)
<1> DEFINE S == {v \in Validators : MayStillPrecommit(v, r, b)}
<1>1. ASSUME NEW v \in Validators, MayStillPrecommit(v, r, b)'
      PROVE  MayStillPrecommit(v, r, b)
  <2>1. CASE v \notin Correct
    BY <2>1 DEF MayStillPrecommit
  <2>2. CASE v \in Correct /\ <<v, r, b>> \in precommits'
    BY <2>2 DEF CorrectPrecommitsAllowed
  <2>3. CASE ~Passed(v, r)' /\ \A c \in Blocks : <<v, r, c>> \notin precommits'
    <3>1. ~Passed(v, r)
      BY <2>3, PolkasLast
    <3>2. QED
      BY <2>3, <3>1 DEF MayStillPrecommit, VotesGrow
  <2>4. QED
    BY <1>1, <2>1, <2>2, <2>3 DEF MayStillPrecommit
<1>2. S' \subseteq S /\ S \in SUBSET Validators /\ S' \in SUBSET Validators
  BY <1>1
<1>3. IsQuorum(S')
  BY DEF Choosable, IsQuorum
<1>4. IsQuorum(S)
  BY <1>2, <1>3, QuorumGrows
<1>5. QED
  BY <1>4 DEF Choosable

-----------------------------------------------------------------------------
(* The invariant is inductive. *)

\* A prevote of anyone, if it obeys the locking rule where a correct validator
\* casts it, keeps the invariant (decided aside).
LEMMA PrevoteKeepsInv ==
    ASSUME AgreementInv, VotesGrow, CorrectPrecommitsAllowed,
           NEW v \in Validators, NEW r \in Rounds, NEW x \in Values,
           prevotes' = prevotes \cup {<<v, r, x>>}, precommits' = precommits,
           v \in Correct => /\ \A y \in Values : <<v, r, y>> \notin prevotes
                            /\ MayPrevote(v, r, x)
    PROVE  /\ OnePrevotePerRound' /\ OnePrecommitPerRound'
           /\ PrecommitsHavePolkas' /\ LocksAreHeld' /\ PolkasExclude'
<1>1. OnePrevotePerRound'
  BY DEF AgreementInv, OnePrevotePerRound
<1>2. OnePrecommitPerRound'
  BY DEF AgreementInv, OnePrecommitPerRound
<1>3. PrecommitsHavePolkas'
  BY PolkasLast, VotingAssumption
     DEF AgreementInv, PrecommitsHavePolkas, VotingAssumption, Values
<1>4. LocksAreHeld'
  <2> SUFFICES ASSUME NEW w \in Correct, NEW c \in Rounds, NEW q \in Rounds,
                      NEW b \in Blocks, NEW y \in Values, c < q, y # b,
                      <<w, c, b>> \in precommits, <<w, q, y>> \in prevotes'
               PROVE  \E p \in Rounds, z \in Values \ {b} : c < p /\ p < q /\ Polka(p, z)'
    BY DEF LocksAreHeld
  <2>1. \E p \in Rounds, z \in Values \ {b} : c < p /\ p < q /\ Polka(p, z)
    <3>1. CASE <<w, q, y>> \in prevotes
      BY <3>1 DEF AgreementInv, LocksAreHeld
    <3>2. CASE <<w, q, y>> \notin prevotes
      <4>1. w = v /\ q = r /\ y = x
        BY <3>2
      <4>2. QED
        BY <4>1 DEF MayPrevote
    <3>3. QED
      BY <3>1, <3>2
  <2>2. QED
    BY <2>1, PolkasLast
<1>5. PolkasExclude'
  <2> SUFFICES ASSUME NEW q \in Rounds, NEW c \in Rounds, NEW y \in Values,
                      NEW b \in Blocks, c < q, y # b, Polka(q, y)', Choosable(c, b)'
               PROVE  FALSE
    BY DEF PolkasExclude
  <2>1. Choosable(c, b)
    BY ChoosableShrinks
  <2>2. ~Polka(q, y)
    BY <2>1 DEF AgreementInv, PolkasExclude
  <2>3. q = r
    <3>1. CASE q # r
      <4>1. Prevoters(q, y)' = Prevoters(q, y)
        BY <3>1 DEF Prevoters
      <4>2. QED
        BY <2>2, <4>1 DEF Polka, IsQuorum
    <3>2. QED
      BY <3>1
  <2> DEFINE P == Prevoters(q, y)'
             S == {w \in Validators : MayStillPrecommit(w, c, b)}'
  <2>4. P \in SUBSET Validators /\ S \in SUBSET Validators /\ IsQuorum(P) /\ IsQuorum(S)
    BY DEF Prevoters, Polka, Choosable, IsQuorum
  <2>5. PICK w \in Correct : w \in P /\ w \in S
    BY <2>4, CorrectInCommon
  <2>6. <<w, q, y>> \in prevotes' /\ MayStillPrecommit(w, c, b)'
    BY <2>5 DEF Prevoters
  <2>7. Passed(w, c)'
    BY <2>6, VotingAssumption DEF Passed, VotingAssumption
  <2>8. <<w, c, b>> \in precommits'
    BY <2>6, <2>7 DEF MayStillPrecommit
  <2>9. PICK p \in Rounds, z \in Values \ {b} : c < p /\ p < q /\ Polka(p, z)'
    BY <1>4, <2>6, <2>8 DEF LocksAreHeld
  <2>10. p # r
    BY <2>3, <2>9, VotingAssumption DEF VotingAssumption
  <2>11. Prevoters(p, z)' = Prevoters(p, z)
    BY <2>10 DEF Prevoters
  <2>12. Polka(p, z)
    BY <2>9, <2>11 DEF Polka, IsQuorum
  <2>13. QED
    BY <2>1, <2>9, <2>12 DEF AgreementInv, PolkasExclude
<1>6. QED
  BY <1>1, <1>2, <1>3, <1>4, <1>5

\* A precommit, if it follows a polka and comes before any later vote where a
\* correct validator casts it, keeps the invariant (decided aside).
LEMMA PrecommitKeepsInv ==
    ASSUME AgreementInv, VotesGrow, CorrectPrecommitsAllowed,
           NEW v \in Validators, NEW r \in Rounds, NEW b \in Blocks,
           precommits' = precommits \cup {<<v, r, b>>}, prevotes' = prevotes,
           v \in Correct => /\ ~Passed(v, r)
                            /\ \A c \in Blocks : <<v, r, c>> \notin precommits
                            /\ Polka(r, b)
    PROVE  /\ OnePrevotePerRound' /\ OnePrecommitPerRound'
           /\ PrecommitsHavePolkas' /\ LocksAreHeld' /\ PolkasExclude'
<1>1. OnePrevotePerRound'
  BY DEF AgreementInv, OnePrevotePerRound
<1>2. OnePrecommitPerRound'
  BY DEF AgreementInv, OnePrecommitPerRound
<1>3. \A q \in Rounds, y \in Values : Polka(q, y)' <=> Polka(q, y)
  BY DEF Polka, Prevoters, IsQuorum
<1>4. PrecommitsHavePolkas'
  <2> SUFFICES ASSUME NEW w \in Correct, NEW q \in Rounds, NEW c \in Blocks,
                      <<w, q, c>> \in precommits'
               PROVE  Polka(q, c)'
    BY DEF PrecommitsHavePolkas
  <2>1. Polka(q, c)
    BY DEF AgreementInv, PrecommitsHavePolkas
  <2>2. QED
    BY <1>3, <2>1 DEF Values
<1>5. LocksAreHeld'
  <2> SUFFICES ASSUME NEW w \in Correct, NEW c \in Rounds, NEW q \in Rounds,
                      NEW d \in Blocks, NEW y \in Values, c < q, y # d,
                      <<w, c, d>> \in precommits', <<w, q, y>> \in prevotes
               PROVE  \E p \in Rounds, z \in Values \ {d} : c < p /\ p < q /\ Polka(p, z)'
    BY DEF LocksAreHeld
  <2>1. <<w, c, d>> \in precommits
    <3>1. Passed(w, c)
      BY VotingAssumption DEF Passed, VotingAssumption
    <3>2. QED
      BY <3>1
  <2>2. \E p \in Rounds, z \in Values \ {d} : c < p /\ p < q /\ Polka(p, z)
    BY <2>1 DEF AgreementInv, LocksAreHeld
  <2>3. QED
    BY <1>3, <2>2
<1>6. PolkasExclude'
  <2> SUFFICES ASSUME NEW q \in Rounds, NEW c \in Rounds, NEW y \in Values,
                      NEW d \in Blocks, c < q, y # d, Polka(q, y)', Choosable(c, d)'
               PROVE  FALSE
    BY DEF PolkasExclude
  <2>1. Choosable(c, d)
    BY ChoosableShrinks
  <2>2. Polka(q, y)
    BY <1>3
  <2>3. QED
    BY <2>1, <2>2 DEF AgreementInv, PolkasExclude
<1>7. QED
  BY <1>1, <1>2, <1>4, <1>5, <1>6

\* Every step keeps the invariant.
LEMMA StepKeepsInv == AgreementInv /\ [Next]_vars => AgreementInv'
<1> SUFFICES ASSUME AgreementInv, [Next]_vars PROVE AgreementInv'
  OBVIOUS
<1> DEFINE VotesInv == /\ OnePrevotePerRound /\ OnePrecommitPerRound
                       /\ PrecommitsHavePolkas /\ LocksAreHeld /\ PolkasExclude
<1>1. TypeOK
  BY DEF AgreementInv
<1>2. VotesGrow /\ CorrectPrecommitsAllowed
  BY <1>1, StepVotes
<1>3. Correct \subseteq Validators /\ Nil \notin Blocks
  BY VotingAssumption DEF VotingAssumption
<1>4. ASSUME UNCHANGED <<prevotes, precommits>> PROVE VotesInv'
  <2>1. OnePrevotePerRound' /\ OnePrecommitPerRound'
    BY <1>4 DEF AgreementInv, OnePrevotePerRound, OnePrecommitPerRound
  <2>2. \A r \in Rounds, x \in Values : Polka(r, x)' <=> Polka(r, x)
    BY <1>4 DEF Polka, Prevoters, IsQuorum
  <2>3. \A r \in Rounds, b \in Blocks : Choosable(r, b)' => Choosable(r, b)
    BY <1>2, ChoosableShrinks
  <2>4. PrecommitsHavePolkas'
    BY <1>4, <2>2 DEF AgreementInv, PrecommitsHavePolkas, Values
  <2>5. LocksAreHeld'
    BY <1>4, <2>2 DEF AgreementInv, LocksAreHeld
  <2>6. PolkasExclude'
    BY <2>2, <2>3 DEF AgreementInv, PolkasExclude
  <2>7. QED
    BY <2>1, <2>4, <2>5, <2>6
<1>5. ASSUME CastVote PROVE VotesInv'
  <2>1. ASSUME NEW r \in Rounds, NEW v \in Correct, NEW x \in Values, Prevote(v, r, x)
        PROVE  VotesInv'
    BY <1>2, <1>3, <2>1, PrevoteKeepsInv DEF Prevote
  <2>2. ASSUME NEW r \in Rounds, NEW v \in Correct, NEW b \in Blocks, Precommit(v, r, b)
        PROVE  VotesInv'
    BY <1>2, <1>3, <2>2, PrecommitKeepsInv DEF Precommit, MayPrecommit
  <2>3. ASSUME NEW r \in Rounds, NEW v \in Validators \ Correct, NEW x \in Values,
               FaultyPrevote(v, r, x)
        PROVE  VotesInv'
    BY <1>2, <2>3, PrevoteKeepsInv DEF FaultyPrevote
  <2>4. ASSUME NEW r \in Rounds, NEW v \in Validators \ Correct, NEW b \in Blocks,
               FaultyPrecommit(v, r, b)
        PROVE  VotesInv'
    BY <1>2, <2>4, PrecommitKeepsInv DEF FaultyPrecommit
  <2>5. QED
    BY <1>5, <2>1, <2>2, <2>3, <2>4 DEF CastVote
<1>6. VotesInv'
  BY <1>4, <1>5 DEF Next, vars
<1>7. prevotes' \subseteq Validators \X Rounds \X Values
  BY <1>1, <1>3 DEF TypeOK, Next, vars, CastVote, Prevote, Precommit, FaultyPrevote, FaultyPrecommit
<1>8. precommits' \subseteq Validators \X Rounds \X Blocks
  BY <1>1, <1>3 DEF TypeOK, Next, vars, CastVote, Prevote, Precommit, FaultyPrevote, FaultyPrecommit
<1>9. decided' \in [Correct -> Values] /\ DecisionsHaveCommits'
  <2>1. decided \in [Correct -> Values] /\ DecisionsHaveCommits
    BY DEF AgreementInv, TypeOK
  <2>2. \A r \in Rounds, b \in Blocks : Committed(r, b) => Committed(r, b)'
    BY <1>2, PolkasLast
  <2>3. ASSUME UNCHANGED decided
        PROVE  decided' \in [Correct -> Values] /\ DecisionsHaveCommits'
    <3>1. \A v \in Correct : decided[v] # Nil => decided[v] \in Blocks
      BY <2>1 DEF Values
    <3>2. \A v \in Correct : decided[v] # Nil => \E r \in Rounds : Committed(r, decided[v])
      BY <2>1 DEF DecisionsHaveCommits
    <3>3. ASSUME NEW v \in Correct, decided'[v] # Nil
          PROVE  \E d \in Blocks : decided'[v] = d /\ \E r \in Rounds : Committed(r, d)'
      BY <2>2, <2>3, <3>1, <3>2, <3>3
    <3>4. QED
      BY <2>1, <2>3, <3>3 DEF DecisionsHaveCommits, Committed, Precommitters, IsQuorum
  <2>4. ASSUME NEW v \in Correct, NEW b \in Blocks, Decide(v, b)
        PROVE  decided' \in [Correct -> Values] /\ DecisionsHaveCommits'
    <3>1. decided' = [decided EXCEPT ![v] = b] /\ \E r \in Rounds : Committed(r, b)'
      BY <2>4 DEF Decide
    <3>2. decided' \in [Correct -> Values]
      BY <2>1, <3>1 DEF Values
    <3>3. ASSUME NEW w \in Correct, decided'[w] # Nil
          PROVE  \E d \in Blocks : decided'[w] = d /\ \E r \in Rounds : Committed(r, d)'
      <4>1. CASE w = v
        BY <2>1, <3>1, <4>1
      <4>2. CASE w # v
        <5>1. decided'[w] = decided[w] /\ decided[w] \in Blocks
          BY <2>1, <3>1, <3>3, <4>2 DEF Values
        <5>2. QED
          BY <2>1, <2>2, <3>3, <5>1 DEF DecisionsHaveCommits
      <4>3. QED
        BY <4>1, <4>2
    <3>4. QED
      BY <3>2, <3>3 DEF DecisionsHaveCommits, Committed, Precommitters, IsQuorum
  <2>5. QED
    BY <2>3, <2>4 DEF Next, vars
<1>10. QED
  BY <1>6, <1>7, <1>8, <1>9 DEF AgreementInv, TypeOK

\* The initial state satisfies the invariant: nobody has voted, so no quorum
\* has, since the faulty validators alone are none.
LEMMA InitInv == Init => AgreementInv
<1> SUFFICES ASSUME Init PROVE AgreementInv
  OBVIOUS
<1>1. \A r \in Rounds, x \in Values : ~Polka(r, x)
  <2> SUFFICES ASSUME NEW r \in Rounds, NEW x \in Values, Polka(r, x) PROVE FALSE
    OBVIOUS
  <2>1. Prevoters(r, x) = {}
    BY DEF Init, Prevoters
  <2>2. {} \in SUBSET Validators /\ IsQuorum({})
    BY <2>1 DEF Polka
  <2>3. QED
    BY <2>2, CorrectInCommon
<1>2. QED
  BY <1>1, VotingAssumption
     DEF Init, AgreementInv, TypeOK, OnePrevotePerRound, OnePrecommitPerRound,
         PrecommitsHavePolkas, LocksAreHeld, PolkasExclude, DecisionsHaveCommits,
         Values, VotingAssumption

\* What VoteSet does is what the operators of VoteSetOps say.
LEMMA VoteSetSteps ==
    /\ VS!Init => vs = NewVoteSet
    /\ \A v, vote : VS!ReceiveVote(v, vote) => vs' = addVote(vs, v, vote)
    /\ \A p, id : VS!ReceiveClaim(p, id) => vs' = SetPeerMaj23(vs, p, id)
<1>1. VS!NewVoteSet = NewVoteSet
  BY DEF VS!NewVoteSet, NewVoteSet, VS!newBlockVotes, newBlockVotes, VS!NoVote, NoVote
<1>2. VS!quorum = quorum
  BY DEF VS!quorum, quorum, VS!total, total
<1>3. \A s, v, vote : VS!addVote(s, v, vote) = addVote(s, v, vote)
  BY <1>2 DEF VS!addVote, addVote, VS!addVerifiedVote, addVerifiedVote, VS!getVote, getVote,
              VS!isAdded, isAdded, VS!share, share, VS!crowned, crowned,
              VS!addToBlock, addToBlock, VS!NoVote, NoVote
<1>4. \A s, p, id : VS!SetPeerMaj23(s, p, id) = SetPeerMaj23(s, p, id)
  BY DEF VS!SetPeerMaj23, SetPeerMaj23
<1>5. QED
  BY <1>1, <1>3, <1>4 DEF VS!Init, VS!ReceiveVote, VS!ReceiveClaim

\* The invariant holds in every reachable state of the committee.
THEOREM VotingInvariant == Spec => []AgreementInv
<1>1. QED
  BY InitInv, StepKeepsInv, PTL DEF Spec

-----------------------------------------------------------------------------
(* The properties *)

\* A committed block is choosable in its round.
LEMMA CommittedIsChoosable ==
    ASSUME NEW r \in Rounds, NEW b \in Blocks, Committed(r, b)
    PROVE  Choosable(r, b)
<1> DEFINE S == {v \in Validators : MayStillPrecommit(v, r, b)}
<1>1. Precommitters(r, b) \subseteq S
  BY DEF Precommitters, MayStillPrecommit
<1>2. Precommitters(r, b) \in SUBSET Validators /\ S \in SUBSET Validators
  BY DEF Precommitters
<1>3. IsQuorum(S)
  BY <1>1, <1>2, QuorumGrows DEF Committed
<1>4. QED
  BY <1>3 DEF Choosable

\* After a commit no later round has a polka for anything else.
THEOREM CommitStaysLocked == Spec => []CommitIsLocked
<1>1. AgreementInv => CommitIsLocked
  BY CommittedIsChoosable DEF AgreementInv, PolkasExclude, CommitIsLocked
<1>2. QED
  BY <1>1, VotingInvariant, PTL

\* Two commits of a height are for the same block.
LEMMA CommitsAgree ==
    ASSUME AgreementInv, NEW r \in Rounds, NEW q \in Rounds, NEW b \in Blocks,
           NEW c \in Blocks, Committed(r, b), Committed(q, c), r =< q
    PROVE  b = c
<1>1. Precommitters(r, b) \in SUBSET Validators /\ Precommitters(q, c) \in SUBSET Validators
  BY DEF Precommitters
<1>2. PICK v \in Correct : v \in Precommitters(r, b) /\ v \in Precommitters(q, c)
  BY <1>1, CorrectInCommon DEF Committed
<1>3. <<v, r, b>> \in precommits /\ <<v, q, c>> \in precommits
  BY <1>2 DEF Precommitters
<1>4. CASE r = q
  BY <1>3, <1>4 DEF AgreementInv, OnePrecommitPerRound
<1>5. CASE r # q
  <2>1. r < q
    BY <1>5, VotingAssumption DEF VotingAssumption
  <2>2. Polka(q, c)
    BY <1>3 DEF AgreementInv, PrecommitsHavePolkas
  <2>3. Choosable(r, b)
    BY CommittedIsChoosable
  <2>4. QED
    BY <2>1, <2>2, <2>3 DEF AgreementInv, PolkasExclude, Values
<1>6. QED
  BY <1>4, <1>5

\* No two correct validators commit different blocks.
THEOREM CommitteeAgreement == Spec => []Agreement
<1>1. AgreementInv => Agreement
  <2> SUFFICES ASSUME AgreementInv, NEW v \in Correct, NEW w \in Correct,
                      decided[v] # Nil, decided[w] # Nil
               PROVE  decided[v] = decided[w]
    BY DEF Agreement
  <2>1. decided[v] \in Blocks /\ decided[w] \in Blocks
    BY DEF AgreementInv, TypeOK, Values
  <2>2. PICK r \in Rounds : Committed(r, decided[v])
    BY DEF AgreementInv, DecisionsHaveCommits
  <2>3. PICK q \in Rounds : Committed(q, decided[w])
    BY DEF AgreementInv, DecisionsHaveCommits
  <2>4. r =< q \/ q =< r
    BY VotingAssumption DEF VotingAssumption
  <2>5. QED
    BY <2>1, <2>2, <2>3, <2>4, CommitsAgree
<1>2. QED
  BY <1>1, VotingInvariant, PTL

-----------------------------------------------------------------------------
(* One vote set, for every committee, distribution of power, set of peers  *)
(* and set of block ids.                                                   *)

\* VoteSetInv of the variable of VoteSet
IInv == VoteSetInv(vs)

\* The invariant holds in every reachable state of a vote set.
THEOREM VoteSetInvariant == VS!Spec => []IInv
<1>1. IInv /\ [VS!Next]_vs => IInv'
  <2> SUFFICES ASSUME IInv, [VS!Next]_vs PROVE IInv'
    OBVIOUS
  <2>1. ASSUME NEW v \in Validators, NEW id \in Ids, NEW res \in Results,
               VS!ReceiveVote(v, [id |-> id, res |-> res])
        PROVE  IInv'
    <3>1. [id |-> id, res |-> res] \in [id : Ids, res : Results]
      OBVIOUS
    <3>2. QED
      BY <2>1, <3>1, VoteSetSteps, VoteKeepsInv DEF IInv
  <2>2. ASSUME NEW p \in Peers, NEW id \in Ids, VS!ReceiveClaim(p, id)
        PROVE  IInv'
    BY <2>2, VoteSetSteps, ClaimKeepsInv DEF IInv
  <2>3. CASE UNCHANGED vs
    BY <2>3 DEF IInv
  <2>4. QED
    BY <2>1, <2>2, <2>3 DEF VS!Next, VS!Results, Results
<1>2. QED
  <2>1. VS!Init => IInv
    BY VoteSetSteps, EmptySetInv DEF IInv
  <2>2. QED
    BY <1>1, <2>1, PTL DEF VS!Spec

-----------------------------------------------------------------------------
(* The properties of a vote set *)

\* The vote set is well typed and no sum exceeds the power of the committee.
THEOREM VoteSetTypes == VS!Spec => []VS!TypeOK
<1>1. IInv => VS!TypeOK
  <2> SUFFICES ASSUME IInv PROVE VS!TypeOK
    OBVIOUS
  <2>1. Voted(vs) \in SUBSET Validators
    BY DEF Voted
  <2>2. \A id \in Ids : AgreeingIn(vs.byBlock[id]) \in SUBSET Validators
    BY DEF AgreeingIn
  <2>3. vs.sum =< total
    BY <2>1, PowerMonotone DEF IInv, VoteSetInv, SumsAreCounted, total
  <2>4. \A id \in Ids : vs.byBlock[id].sum =< total
    BY <2>2, PowerMonotone DEF IInv, VoteSetInv, SumsAreCounted, Agreeing, total
  <2>5. QED
    BY <2>3, <2>4 DEF IInv, VoteSetInv, VS!TypeOK, VS!VoteSets, VoteSets, VS!total, total,
         VS!BlockVotes, BlockVotes, VS!Votes, Votes, VS!Results, Results, VS!NoVote, NoVote
<1>2. QED
  BY <1>1, VoteSetInvariant, PTL

\* The sums are the power of the distinct validators behind them.
THEOREM SumsAreExact == VS!Spec => []SumsCountEachVoterOnce
<1>1. IInv => SumsCountEachVoterOnce
  BY DEF IInv, VoteSetInv, SumsAreCounted, SumsCountEachVoterOnce
<1>2. QED
  BY <1>1, VoteSetInvariant, PTL

\* A reported majority is backed by distinct validators with more than two
\* thirds of the power.
THEOREM MajorityHasQuorum == VS!Spec => []Maj23HasQuorum
<1>1. IInv => Maj23HasQuorum
  <2> SUFFICES ASSUME IInv, vs.maj23 # NoId
               PROVE  3 * PowerOf[Agreeing(vs, vs.maj23)] > 2 * total
    BY DEF Maj23HasQuorum
  <2>1. vs.maj23 \in Ids
    BY DEF IInv, VoteSetInv, VoteSets
  <2>2. vs.byBlock[vs.maj23].sum \in Nat
    BY <2>1 DEF IInv, VoteSetInv, VoteSets, BlockVotes
  <2>3. vs.byBlock[vs.maj23].sum = PowerOf[Agreeing(vs, vs.maj23)]
    BY <2>1 DEF IInv, VoteSetInv, SumsAreCounted
  <2>4. vs.byBlock[vs.maj23].sum >= quorum
    BY DEF IInv, VoteSetInv, MajorityIsReached
  <2>5. QED
    BY <2>2, <2>3, <2>4, QuorumIsTwoThirds
<1>2. QED
  BY <1>1, VoteSetInvariant, PTL

\* The votes a commit is made from show the quorum of the majority.
THEOREM CommitIsVerifiable == VS!Spec => []CommitShowsQuorum
<1>1. IInv => CommitShowsQuorum
  <2> SUFFICES ASSUME IInv, vs.maj23 # NoId
               PROVE  PowerOf[Shown(vs, vs.maj23)] >= quorum
    BY DEF CommitShowsQuorum
  <2> DEFINE m == vs.maj23
  <2>1. m \in Ids /\ vs.byBlock[m] \in BlockVotes
    BY DEF IInv, VoteSetInv, VoteSets
  <2>2. ASSUME NEW v \in AgreeingIn(vs.byBlock[m])
        PROVE  v \in Shown(vs, m)
    <3>1. v \in Validators /\ vs.byBlock[m].votes[v].res = "agree"
      BY DEF AgreeingIn
    <3>2. vs.byBlock[m].votes[v] # NoVote
      BY <3>1 DEF NoVote
    <3>3. vs.votes[v] = vs.byBlock[m].votes[v] /\ vs.byBlock[m].votes[v].id = m
      BY <2>1, <3>1, <3>2 DEF IInv, VoteSetInv, MajorityIsShown, VotesAreFiled
    <3>4. vs.votes[v] \in [id : Ids, res : Results]
      BY <2>1, <3>1, <3>2, <3>3 DEF BlockVotes, Votes
    <3>5. QED
      BY <3>1, <3>3, <3>4 DEF Shown
  <2>3. AgreeingIn(vs.byBlock[m]) \subseteq Shown(vs, m)
    BY <2>2
  <2>4. Shown(vs, m) \in SUBSET Validators /\ AgreeingIn(vs.byBlock[m]) \in SUBSET Validators
    BY DEF Shown, AgreeingIn
  <2>5. /\ PowerOf[AgreeingIn(vs.byBlock[m])] \in Nat /\ PowerOf[Shown(vs, m)] \in Nat
        /\ PowerOf[AgreeingIn(vs.byBlock[m])] =< PowerOf[Shown(vs, m)]
    BY <2>3, <2>4, PowerMonotone
  <2>6. PowerOf[AgreeingIn(vs.byBlock[m])] >= quorum
    BY <2>1 DEF IInv, VoteSetInv, SumsAreCounted, MajorityIsReached, Agreeing
  <2>7. QED
    BY <2>5, <2>6, QuorumIsTwoThirds
<1>2. QED
  BY <1>1, VoteSetInvariant, PTL

\* ConsensusState.addVote never overlooks a majority by asking for any two
\* thirds first.
THEOREM MajorityIsNeverOverlooked == VS!Spec => []MajorityImpliesAny
<1>1. IInv => MajorityImpliesAny
  BY MajorityHasAny DEF IInv, MajorityImpliesAny, HasTwoThirdsMajority
<1>2. QED
  BY <1>1, VoteSetInvariant, PTL

\* Two quorums for different blocks share more than a third of the power.
THEOREM EquivocationBound == VS!Spec => []TwoQuorumsNeedEquivocation
<1>1. IInv => TwoQuorumsNeedEquivocation
  <2> SUFFICES ASSUME IInv, NEW a \in Ids, NEW b \in Ids,
                      vs.byBlock[a].sum >= quorum, vs.byBlock[b].sum >= quorum
               PROVE  3 * PowerOf[Agreeing(vs, a) \cap Agreeing(vs, b)] > total
    BY DEF TwoQuorumsNeedEquivocation
  <2> DEFINE A == Agreeing(vs, a)
             B == Agreeing(vs, b)
  <2>1. A \in SUBSET Validators /\ B \in SUBSET Validators
    BY DEF Agreeing, AgreeingIn
  <2>2. IsQuorum(A) /\ IsQuorum(B)
    BY DEF IInv, VoteSetInv, SumsAreCounted, IsQuorum
  <2>3. QED
    BY <2>1, <2>2, QuorumsOverlap
<1>2. QED
  BY <1>1, VoteSetInvariant, PTL

\* A majority never changes.
THEOREM MajorityNeverChanges == VS!Spec => VS!MajorityIsFinal
<1>1. IInv /\ [VS!Next]_vs => (vs.maj23 # NoId => vs'.maj23 = vs.maj23)
  <2> SUFFICES ASSUME IInv, [VS!Next]_vs, vs.maj23 # NoId PROVE vs'.maj23 = vs.maj23
    OBVIOUS
  <2>1. vs \in VoteSets
    BY DEF IInv, VoteSetInv
  <2>2. ASSUME NEW v \in Validators, NEW id \in Ids, NEW res \in Results,
               VS!ReceiveVote(v, [id |-> id, res |-> res])
        PROVE  vs'.maj23 = vs.maj23
    <3>1. [id |-> id, res |-> res] \in [id : Ids, res : Results]
      OBVIOUS
    <3>2. QED
      BY <2>1, <2>2, <3>1, VoteSetSteps, VoteAndMajority
  <2>3. ASSUME NEW p \in Peers, NEW id \in Ids, VS!ReceiveClaim(p, id)
        PROVE  vs'.maj23 = vs.maj23
    BY <2>1, <2>3, VoteSetSteps DEF SetPeerMaj23, VoteSets
  <2>4. QED
    BY <2>2, <2>3 DEF VS!Next, VS!Results, Results
<1>2. QED
  BY <1>1, VoteSetInvariant, PTL DEF VS!Spec, VS!MajorityIsFinal

-----------------------------------------------------------------------------
(* The signer of one correct validator, for every set of heights, rounds,  *)
(* values and timestamps: what the committee relies on when it counts the  *)
(* votes of a correct validator once.                                      *)

CONSTANTS SignedHeights, SignedRounds, SignedValues, Stamps

VARIABLES last, panicOn, released

PV == INSTANCE PrivValidator WITH
          Heights <- SignedHeights, Rounds <- SignedRounds, Values <- SignedValues

\* SignerAssumption of PrivValidator
SignerAssumed == SignedHeights \subseteq Nat \ {0} /\ SignedRounds \subseteq Nat

\* OneSignaturePerHRS is not inductive: the record must dominate everything
\* that was released, and whatever shares its HRS must be what it remembers.
RecordCoversReleased ==
    \A q \in released : PV!Before(q, last) \/ q = last.bytes

SignerInv == PV!TypeOK /\ RecordCoversReleased /\ PV!OneSignaturePerHRS

\* checkHRS compares height, then round, then step: a strict order.
LEMMA BeforeIsStrictOrder ==
    ASSUME NEW a, NEW b, NEW c,
           a.h \in Nat, a.r \in Nat, a.s \in Nat,
           b.h \in Nat, b.r \in Nat, b.s \in Nat,
           c.h \in Nat, c.r \in Nat, c.s \in Nat
    PROVE  /\ PV!Before(a, b) => ~PV!SameHRS(a, b)
           /\ PV!Before(a, b) /\ PV!Before(b, c) => PV!Before(a, c)
           /\ PV!Before(a, b) /\ PV!SameHRS(b, c) => PV!Before(a, c)
  BY DEF PV!Before, PV!SameHRS

\* Requests and records carry natural heights, rounds and steps.
LEMMA HRSTypes ==
    ASSUME SignerAssumed, PV!TypeOK
    PROVE  /\ last.h \in Nat /\ last.r \in Nat /\ last.s \in Nat
           /\ \A q \in PV!Request : q.h \in Nat /\ q.r \in Nat /\ q.s \in Nat
           /\ last = PV!Fresh \/ (last.bytes \in PV!Request /\ PV!SameHRS(last.bytes, last))
           /\ \A q \in PV!Request : q # PV!NoBytes
  <1>1. \A q \in PV!Request : q.h \in Nat /\ q.r \in Nat /\ q.s \in Nat
    <2> TAKE q \in PV!Request
    <2>1. q.h \in SignedHeights /\ q.r \in SignedRounds
      BY DEF PV!Request
    <2>3. q.s \in Nat
      <3>1. q.s \in {PV!stepPropose, PV!stepPrevote, PV!stepPrecommit}
        BY DEF PV!Request
      <3>2. PV!stepPropose \in Nat /\ PV!stepPrevote \in Nat /\ PV!stepPrecommit \in Nat
        BY DEF PV!stepPropose, PV!stepPrevote, PV!stepPrecommit
      <3>3. QED  BY <3>1, <3>2
    <2>2. SignedHeights \subseteq Nat /\ SignedRounds \subseteq Nat
      BY DEF SignerAssumed
    <2>4. QED  BY Zenon, <2>1, <2>2, <2>3
  <1>2. CASE last = PV!Fresh
    BY <1>1, <1>2 DEF PV!Fresh, PV!stepNone, PV!Request, PV!NoBytes
  <1>3. CASE \E q \in PV!Request : last = [h |-> q.h, r |-> q.r, s |-> q.s, bytes |-> q]
    BY <1>1, <1>3 DEF PV!SameHRS, PV!Request, PV!NoBytes
  <1>4. QED  BY <1>1, <1>2, <1>3 DEF PV!TypeOK

\* The signer's inductive invariant holds in every reachable state.
THEOREM SignerInvariant == SignerAssumed => (PV!Spec => []SignerInv)
  <1> SUFFICES ASSUME SignerAssumed PROVE PV!Spec => []SignerInv
    OBVIOUS
  <1>1. PV!Init => SignerInv
    BY DEF PV!Init, SignerInv, PV!TypeOK, RecordCoversReleased, PV!OneSignaturePerHRS
  <1>2. SignerInv /\ [PV!Next]_(PV!vars) => SignerInv'
    <2> SUFFICES ASSUME SignerInv, [PV!Next]_(PV!vars) PROVE SignerInv'
      OBVIOUS
    <2> USE DEF SignerInv
    <2>1. ASSUME NEW q \in PV!Request, PV!SignNew(q) PROVE SignerInv'
      <3>1. last' = [h |-> q.h, r |-> q.r, s |-> q.s, bytes |-> q]
        BY <2>1 DEF PV!SignNew, PV!saveSigned
      <3>2. released' = released \cup {q} /\ panicOn' = panicOn
        BY <2>1 DEF PV!SignNew
      <3>3. PV!TypeOK'
        BY <3>1, <3>2 DEF PV!TypeOK
      <3>4. \A p \in released : PV!Before(p, q)
        <4> TAKE p \in released
        <4>1. p \in PV!Request  BY DEF PV!TypeOK
        <4>2. PV!Before(last, q)  BY <2>1 DEF PV!SignNew, PV!checkHRS
        <4>3. last # PV!Fresh /\ p = last.bytes => PV!SameHRS(p, last)
          BY HRSTypes
        <4>4. last = PV!Fresh => p # last.bytes
          BY <4>1, HRSTypes DEF PV!Fresh
        <4>5. CASE PV!Before(p, last)
          BY <4>1, <4>2, <4>5, HRSTypes, BeforeIsStrictOrder
        <4>6. CASE p = last.bytes
          BY <4>1, <4>2, <4>3, <4>4, <4>6, HRSTypes DEF PV!Before, PV!SameHRS
        <4>7. QED  BY <4>5, <4>6 DEF RecordCoversReleased
      <3>5. RecordCoversReleased'
        BY <3>1, <3>2, <3>4 DEF RecordCoversReleased, PV!Before
      <3>6. PV!OneSignaturePerHRS'
        <4> SUFFICES ASSUME NEW a \in released', NEW b \in released', PV!SameHRS(a, b)
                     PROVE a = b
          BY DEF PV!OneSignaturePerHRS
        <4>1. a \in PV!Request /\ b \in PV!Request  BY <3>3 DEF PV!TypeOK
        <4>2. CASE a \in released /\ b \in released
          BY <4>2 DEF PV!OneSignaturePerHRS
        <4>3. CASE a = q /\ b \in released
          BY <3>4, <4>1, <4>3, HRSTypes DEF PV!Before, PV!SameHRS
        <4>4. CASE a \in released /\ b = q
          BY <3>4, <4>1, <4>4, HRSTypes DEF PV!Before, PV!SameHRS
        <4>5. QED  BY <3>2, <4>2, <4>3, <4>4
      <3>7. QED  BY <3>3, <3>5, <3>6
    <2>2. ASSUME NEW q \in PV!Request, PV!SignConflicting(q) PROVE SignerInv'
      BY <2>2 DEF PV!SignConflicting, PV!TypeOK, RecordCoversReleased, PV!OneSignaturePerHRS
    <2>3. CASE PV!Reset
      BY <2>3 DEF PV!Reset, PV!TypeOK, RecordCoversReleased, PV!OneSignaturePerHRS
    <2>4. CASE UNCHANGED PV!vars
      BY <2>4 DEF PV!vars, PV!TypeOK, RecordCoversReleased, PV!OneSignaturePerHRS
    <2>5. QED
      BY <2>1, <2>2, <2>3, <2>4 DEF PV!Next, PV!SignAgain, PV!SignRegression
  <1>3. QED  BY <1>1, <1>2, PTL DEF PV!Spec

\* For as long as its record is kept, the signer hands out at most one
\* signature per height, round and step (signVote, signProposal, checkHRS).
THEOREM NoDoubleSigning == SignerAssumed => (PV!Spec => []PV!OneSignaturePerHRS)
  <1>1. SignerInv => PV!OneSignaturePerHRS  BY DEF SignerInv
  <1>2. QED  BY <1>1, SignerInvariant, PTL

===============================================================================
