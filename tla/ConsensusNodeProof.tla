-------------------------- MODULE ConsensusNodeProof --------------------------
(***************************************************************************)
(* What the methods of one node do, consensus/tbft/state.go as             *)
(* ConsensusState has it, for every committee, distribution of power, set  *)
(* of peers and of block ids: one lemma per method says that a node in     *)
(* order (Ready, Locked, Timely) is in order after it, or has stopped for  *)
(* one of the reasons of Halts.  ConsensusStateProof goes on to messages,  *)
(* timeouts and steps.                                                     *)
(***************************************************************************)
EXTENDS ConsensusState, QuorumProof

-----------------------------------------------------------------------------
(* The vote sets of a height *)

\* The vote sets that votes and claims can make
GoodSets == {s \in VoteSets : VoteSetInv(s)}

\* The form of HeightVoteSet, with what it tracks
HVForms == [round   : Nat,
            sets    : UNION {[R -> [Kinds -> GoodSets]] : R \in SUBSET Nat},
            catchup : [Origins -> SUBSET Nat]]

\* The rounds up to n with a polka
PolkasUpTo(h, n) == {r \in Nat : r =< n /\ HasTwoThirdsMajority(Prevotes(h, r))}

\* There is a last one among the polkas up to any round: what POLInfo looks for.
\* It is kept from step to step, so no induction over the rounds is needed.
PolkasHaveLast(h) ==
    \A n \in Nat : \/ PolkasUpTo(h, n) = {}
                   \/ \E x \in PolkasUpTo(h, n) : \A y \in PolkasUpTo(h, n) : y =< x

\* The vote sets of a height
HVSets == {h \in HVForms : PolkasHaveLast(h)}

\* The vote sets of two heights answer alike.
SameVotes(g, h) == \A r \in Nat, k \in Kinds : getVoteSet(h, r, k) = getVoteSet(g, r, k)

\* What belongs to HVSets, field by field.
LEMMA HVSetsFields ==
    \A h : h \in HVSets <=>
        /\ h = [round |-> h.round, sets |-> h.sets, catchup |-> h.catchup]
        /\ h.round \in Nat /\ h.catchup \in [Origins -> SUBSET Nat]
        /\ Tracked(h) \in SUBSET Nat
        /\ h.sets \in [Tracked(h) -> [Kinds -> GoodSets]]
        /\ PolkasHaveLast(h)
<1> SUFFICES ASSUME NEW h
             PROVE  h \in HVSets <=>
                /\ h = [round |-> h.round, sets |-> h.sets, catchup |-> h.catchup]
                /\ h.round \in Nat /\ h.catchup \in [Origins -> SUBSET Nat]
                /\ Tracked(h) \in SUBSET Nat
                /\ h.sets \in [Tracked(h) -> [Kinds -> GoodSets]]
                /\ PolkasHaveLast(h)
  BY Zenon
<1> DEFINE F == UNION {[R -> [Kinds -> GoodSets]] : R \in SUBSET Nat}
<1>1. ASSUME NEW f
      PROVE  f \in F <=> DOMAIN f \in SUBSET Nat /\ f \in [DOMAIN f -> [Kinds -> GoodSets]]
  <2>1. f \in F => \E R \in SUBSET Nat : f \in [R -> [Kinds -> GoodSets]]
    BY Zenon
  <2>2. ASSUME NEW R \in SUBSET Nat, f \in [R -> [Kinds -> GoodSets]]
        PROVE  f \in F
    BY Zenon, <2>2
  <2> QED
    BY Zenon, <2>1, <2>2
<1>2. h.sets \in F <=> Tracked(h) \in SUBSET Nat /\ h.sets \in [Tracked(h) -> [Kinds -> GoodSets]]
  BY Zenon, <1>1 DEF Tracked
<1>3. HVForms = [round : Nat, sets : F, catchup : [Origins -> SUBSET Nat]]
  BY Zenon DEF HVForms
<1> HIDE DEF F
<1>4. h \in HVForms <=>
          /\ h = [round |-> h.round, sets |-> h.sets, catchup |-> h.catchup]
          /\ h.round \in Nat /\ h.catchup \in [Origins -> SUBSET Nat]
          /\ Tracked(h) \in SUBSET Nat
          /\ h.sets \in [Tracked(h) -> [Kinds -> GoodSets]]
  BY Zenon, <1>2, <1>3
<1> QED
  BY Zenon, <1>4 DEF HVSets

\* Prevotes of one round more may have a majority: there is still a last polka.
LEMMA OneMorePolka ==
    ASSUME NEW h, NEW g, NEW r \in Nat, PolkasHaveLast(h),
           \A q \in Nat : q # r => Prevotes(g, q) = Prevotes(h, q),
           HasTwoThirdsMajority(Prevotes(h, r)) => HasTwoThirdsMajority(Prevotes(g, r))
    PROVE  PolkasHaveLast(g)
<1> SUFFICES ASSUME NEW n \in Nat, PolkasUpTo(g, n) # {}
             PROVE  \E x \in PolkasUpTo(g, n) : \A y \in PolkasUpTo(g, n) : y =< x
  BY Zenon DEF PolkasHaveLast
<1> DEFINE A == PolkasUpTo(h, n)
           B == PolkasUpTo(g, n)
<1>1. A \subseteq B /\ B \subseteq A \cup {r} /\ B \subseteq Nat
  BY Zenon DEF PolkasUpTo
<1>2. A = {} \/ \E x \in A : \A y \in A : y =< x
  BY Zenon DEF PolkasHaveLast
<1> HIDE DEF A, B
<1>3. CASE A = {}
  <2>1. B = {r}
    BY Zenon, <1>1, <1>3 DEF B
  <2>2. r =< r
    OBVIOUS
  <2> QED BY Zenon, <2>1, <2>2 DEF B
<1>4. ASSUME NEW x \in A, \A y \in A : y =< x
      PROVE  \E z \in B : \A y \in B : y =< z
  <2>1. x \in B /\ x \in Nat
    BY Zenon, <1>1
  <2>2. CASE r \in B /\ ~(r =< x)
    <3>1. \A y \in Nat : y =< x => y =< r
      BY <2>1, <2>2
    <3>2. r =< r
      OBVIOUS
    <3> QED BY Zenon, <1>1, <1>4, <2>2, <3>1, <3>2
  <2>3. CASE ~(r \in B /\ ~(r =< x))
    BY Zenon, <1>1, <1>4, <2>1, <2>3
  <2> QED BY Zenon, <2>2, <2>3
<1> QED BY Zenon, <1>2, <1>3, <1>4 DEF B

\* The same answers have the same last polka.
LEMMA SamePolkasHaveLast ==
    ASSUME NEW h, NEW g, PolkasHaveLast(h), SameVotes(h, g)
    PROVE  PolkasHaveLast(g)
<1>1. \A q \in Nat : Prevotes(g, q) = Prevotes(h, q)
  BY Zenon DEF SameVotes, Prevotes, Kinds
<1>2. 0 \in Nat
  OBVIOUS
<1> QED BY Zenon, <1>1, <1>2, OneMorePolka

\* A vote set, of a tracked round or not, is a good one.
LEMMA SetsAreGood ==
    ASSUME NEW h \in HVSets, NEW r, NEW k \in Kinds
    PROVE  getVoteSet(h, r, k) \in GoodSets
<1>1. NewVoteSet \in GoodSets
  BY Zenon, EmptySetInv DEF GoodSets, VoteSetInv
<1> QED
  BY <1>1, HVSetsFields DEF getVoteSet

\* The vote sets of a new height are empty.
LEMMA NewVotes ==
    /\ NewHeightVoteSet \in HVSets
    /\ NewHeightVoteSet.round = 0
    /\ \A r : \A k \in Kinds : TwoThirdsMajority(getVoteSet(NewHeightVoteSet, r, k)) = NoId
<1> DEFINE h == NewHeightVoteSet
<1>1. NewVoteSet \in GoodSets /\ NewVoteSet.maj23 = NoId
  BY Zenon, EmptySetInv DEF GoodSets, VoteSetInv, NewVoteSet
<1>2. newRound \in [Kinds -> GoodSets] /\ \A k \in Kinds : newRound[k] = NewVoteSet
  BY Zenon, <1>1 DEF newRound
<1>3. h.sets = [r \in {0} |-> newRound] /\ h.round = 0 /\ h.catchup = [o \in Origins |-> {}]
  BY Zenon DEF NewHeightVoteSet
<1>4. Tracked(h) = {0}
  BY Zenon, <1>3 DEF Tracked
<1>5. \A r : \A k \in Kinds : getVoteSet(h, r, k) = NewVoteSet
  BY Zenon, <1>2, <1>3, <1>4 DEF getVoteSet
<1>6. h \in HVSets
  <2>1. h = [round |-> h.round, sets |-> h.sets, catchup |-> h.catchup]
    BY Zenon DEF NewHeightVoteSet
  <2>2. h.sets \in [{0} -> [Kinds -> GoodSets]]
    BY Zenon, <1>2, <1>3
  <2>3. h.catchup \in [Origins -> SUBSET Nat] /\ h.round \in Nat
    BY <1>3
  <2> HIDE DEF h
  <2>4. PolkasHaveLast(h)
    BY Zenon, <1>1, <1>5 DEF PolkasHaveLast, PolkasUpTo, Prevotes, HasTwoThirdsMajority, Kinds
  <2>5. Tracked(h) \in SUBSET Nat /\ h.sets \in [Tracked(h) -> [Kinds -> GoodSets]]
    BY <1>4, <2>2
  <2> QED BY Zenon, <2>1, <2>3, <2>4, <2>5, HVSetsFields
<1> QED
  BY Zenon, <1>1, <1>3, <1>5, <1>6 DEF TwoThirdsMajority

\* To create rounds changes no answer.
LEMMA WithRounds ==
    ASSUME NEW h \in HVSets, NEW R \in SUBSET Nat, NEW g, g = withRounds(h, R)
    PROVE  /\ g \in HVSets /\ g.round = h.round /\ g.catchup = h.catchup
           /\ Tracked(g) = Tracked(h) \cup R
           /\ SameVotes(h, g)
<1> DEFINE f == [r \in Tracked(h) \cup R |-> IF r \in Tracked(h) THEN h.sets[r] ELSE newRound]
<1>1. h = [round |-> h.round, sets |-> h.sets, catchup |-> h.catchup]
      /\ h.round \in Nat /\ h.catchup \in [Origins -> SUBSET Nat]
      /\ Tracked(h) \in SUBSET Nat
      /\ h.sets \in [Tracked(h) -> [Kinds -> GoodSets]]
      /\ PolkasHaveLast(h)
  BY Zenon, HVSetsFields
<1>2. NewVoteSet \in GoodSets
  BY Zenon, EmptySetInv DEF GoodSets, VoteSetInv
<1>3. newRound \in [Kinds -> GoodSets] /\ \A k \in Kinds : newRound[k] = NewVoteSet
  BY Zenon, <1>2 DEF newRound
<1>4. f \in [Tracked(h) \cup R -> [Kinds -> GoodSets]]
  BY Zenon, <1>1, <1>3
<1>5. g = [round |-> h.round, sets |-> f, catchup |-> h.catchup]
  BY Zenon, <1>1 DEF withRounds
<1>6. Tracked(g) = Tracked(h) \cup R
  BY <1>5 DEF Tracked
<1>7. ASSUME NEW r \in Nat, NEW k \in Kinds
      PROVE  getVoteSet(g, r, k) = getVoteSet(h, r, k)
  <2>1. CASE r \in Tracked(h)
    <3>1. f[r] = h.sets[r] /\ r \in Tracked(g)
      BY Zenon, <1>6, <2>1
    <3>2. g.sets = f
      BY <1>5
    <3> QED BY Zenon, <2>1, <3>1, <3>2 DEF getVoteSet
  <2>2. CASE r \notin Tracked(h) /\ r \in R
    <3>1. g.sets[r] = newRound /\ r \in Tracked(g)
      BY <1>5, <1>6, <2>2
    <3> QED BY Zenon, <2>2, <3>1, <1>3 DEF getVoteSet
  <2>3. CASE r \notin Tracked(h) /\ r \notin R
    BY Zenon, <1>6, <2>3 DEF getVoteSet
  <2> QED BY Zenon, <2>1, <2>2, <2>3
<1>8. SameVotes(h, g)
  BY Zenon, <1>7 DEF SameVotes
<1>9. PolkasHaveLast(g)
  BY Zenon, <1>1, <1>8, SamePolkasHaveLast
<1>10. g \in HVSets
  <2> HIDE DEF f
  <2> QED BY Zenon, <1>1, <1>4, <1>5, <1>6, <1>9, HVSetsFields
<1> QED
  BY <1>5, <1>6, <1>8, <1>10

\* SetRound changes the round of the vote sets and no answer.
LEMMA SetRoundKeepsVotes ==
    ASSUME NEW h \in HVSets, NEW r \in Nat, NEW g, g = SetRound(h, r)
    PROVE  g \in HVSets /\ g.round = r /\ SameVotes(h, g)
<1> DEFINE u == withRounds(h, (h.round + 1)..r)
<1>1. h.round \in Nat
  BY Zenon, HVSetsFields
<1>2. (h.round + 1)..r \in SUBSET Nat
  BY <1>1
<1>3. u \in HVSets /\ SameVotes(h, u)
  BY Zenon, <1>2, WithRounds
<1>4. g = [u EXCEPT !.round = r]
  BY Zenon DEF SetRound
<1> HIDE DEF u
<1>5. g = [round |-> r, sets |-> u.sets, catchup |-> u.catchup] /\ Tracked(g) = Tracked(u)
  BY <1>3, <1>4, HVSetsFields DEF Tracked
<1>6. SameVotes(u, g)
  BY <1>5 DEF SameVotes, getVoteSet
<1>7. PolkasHaveLast(g)
  BY Zenon, <1>3, <1>6, SamePolkasHaveLast, HVSetsFields
<1>8. g \in HVSets
  BY Zenon, <1>3, <1>5, <1>7, HVSetsFields
<1> QED
  BY <1>3, <1>5, <1>6, <1>8 DEF SameVotes

\* AddVote changes one vote set at most; a majority once reached stays, and a
\* vote that is not added makes none.
LEMMA AddVoteChangesOne ==
    ASSUME NEW h \in HVSets, NEW r \in Nat, NEW k \in Kinds, NEW v \in Validators,
           NEW vote \in [id : Ids, res : Results], NEW o \in Origins,
           NEW g, g = AddVote(h, r, k, v, vote, o)
    PROVE  /\ g \in HVSets /\ g.round = h.round
           /\ \A q \in Nat, j \in Kinds :
                <<q, j>> # <<r, k>> => getVoteSet(g, q, j) = getVoteSet(h, q, j)
           /\ \A q \in Nat, j \in Kinds :
                LET m == TwoThirdsMajority(getVoteSet(h, q, j))
                    n == TwoThirdsMajority(getVoteSet(g, q, j))
                IN  /\ m # NoId => n = m
                    /\ ~Added(h, r, k, v, vote, o) => n = m
           /\ \/ getVoteSet(g, r, k) = getVoteSet(h, r, k)
              \/ /\ accepts(h, r, o)
                 /\ getVoteSet(g, r, k) = addVote(getVoteSet(h, r, k), v, vote)
<1>1. CASE ~accepts(h, r, o)
  BY Zenon, <1>1 DEF AddVote
<1>2. CASE accepts(h, r, o)
  <2> DEFINE a == admitted(h, r, o)
             old == getVoteSet(h, r, k)
             new == addVote(old, v, vote)
  <2>1. a \in HVSets /\ a.round = h.round /\ r \in Tracked(a) /\ SameVotes(h, a)
    <3>1. CASE r \in Tracked(h)
      BY Zenon, <3>1 DEF admitted, SameVotes
    <3>2. CASE r \notin Tracked(h)
      <4> DEFINE u == withRounds(h, {r})
      <4>1. u \in HVSets /\ u.round = h.round /\ u.catchup = h.catchup
            /\ Tracked(u) = Tracked(h) \cup {r} /\ SameVotes(h, u)
        BY Zenon, WithRounds
      <4>2. a = [u EXCEPT !.catchup[o] = @ \cup {r}]
        BY Zenon, <3>2 DEF admitted
      <4> HIDE DEF u
      <4>3. a = [round |-> u.round, sets |-> u.sets,
                 catchup |-> [u.catchup EXCEPT ![o] = @ \cup {r}]]
        BY Zenon, <4>1, <4>2, HVSetsFields
      <4>4. a.catchup \in [Origins -> SUBSET Nat]
        <5>1. u.catchup \in [Origins -> SUBSET Nat]
          BY Zenon, <4>1, HVSetsFields
        <5>2. u.catchup[o] \cup {r} \in SUBSET Nat
          BY Zenon, <5>1
        <5> QED BY <4>3, <5>1, <5>2
      <4>5. Tracked(a) = Tracked(u)
        BY <4>3 DEF Tracked
      <4>6. SameVotes(u, a)
        BY <4>3, <4>5 DEF SameVotes, getVoteSet
      <4>7. a \in HVSets
        <5>1. PolkasHaveLast(a)
          BY Zenon, <4>1, <4>6, SamePolkasHaveLast, HVSetsFields
        <5> QED BY Zenon, <4>1, <4>3, <4>4, <4>5, <5>1, HVSetsFields
      <4> HIDE DEF a
      <4>8. SameVotes(h, a)
        BY Zenon, <4>1, <4>6 DEF SameVotes
      <4>9. a.round = h.round /\ r \in Tracked(a)
        BY Zenon, <4>1, <4>3, <4>5
      <4> QED
        BY Zenon, <4>7, <4>8, <4>9
    <3> QED BY Zenon, <3>1, <3>2
  <2>2. g = [a EXCEPT !.sets[r][k] = addVote(@, v, vote)]
    BY Zenon, <1>2 DEF AddVote
  <2> HIDE DEF a
  <2>3. a.sets[r][k] = old
    BY Zenon, <2>1 DEF SameVotes, getVoteSet
  <2>4. /\ a = [round |-> a.round, sets |-> a.sets, catchup |-> a.catchup]
        /\ a.round \in Nat /\ a.catchup \in [Origins -> SUBSET Nat]
        /\ Tracked(a) \in SUBSET Nat /\ a.sets \in [Tracked(a) -> [Kinds -> GoodSets]]
    BY Zenon, <2>1, HVSetsFields
  <2>5. g = [round |-> a.round, sets |-> [a.sets EXCEPT ![r] = [a.sets[r] EXCEPT ![k] = new]],
             catchup |-> a.catchup]
    BY Zenon, <2>2, <2>3, <2>4
  <2>6. old \in GoodSets
    BY Zenon, SetsAreGood
  <2>7. new \in GoodSets
    <3>1. VoteSetInv(old)
      BY Zenon, <2>6 DEF GoodSets
    <3>2. VoteSetInv(new)
      BY Zenon, <3>1, VoteKeepsInv
    <3> QED BY Zenon, <3>2 DEF GoodSets, VoteSetInv
  <2>8. /\ old.maj23 # NoId => new.maj23 = old.maj23
        /\ ~isAdded(old, v, vote) => new.maj23 = old.maj23
    <3>1. old \in VoteSets
      BY Zenon, <2>6 DEF GoodSets
    <3> QED BY <3>1, VoteAndMajority
  <2>9. Added(h, r, k, v, vote, o) <=> isAdded(old, v, vote)
    BY Zenon, <1>2 DEF Added
  <2> HIDE DEF new, old
  <2>10. [a.sets[r] EXCEPT ![k] = new] \in [Kinds -> GoodSets]
    BY Zenon, <2>1, <2>4, <2>7
  <2>11. Tracked(g) = Tracked(a)
    BY <2>4, <2>5 DEF Tracked
  <2>12. getVoteSet(g, r, k) = new
    BY <2>1, <2>4, <2>5, <2>11 DEF getVoteSet
  <2>13. ASSUME NEW q \in Nat, NEW j \in Kinds, <<q, j>> # <<r, k>>
         PROVE  getVoteSet(g, q, j) = getVoteSet(h, q, j)
    <3>1. getVoteSet(g, q, j) = getVoteSet(a, q, j)
      <4>1. CASE q # r
        BY <2>1, <2>4, <2>5, <2>11, <4>1 DEF getVoteSet
      <4>2. CASE q = r /\ j # k
        BY <2>1, <2>4, <2>5, <2>11, <4>2 DEF getVoteSet
      <4> QED BY Zenon, <2>13, <4>1, <4>2
    <3> QED BY Zenon, <2>1, <3>1 DEF SameVotes
  <2>14. ASSUME NEW q \in Nat, NEW j \in Kinds
         PROVE  LET m == TwoThirdsMajority(getVoteSet(h, q, j))
                    n == TwoThirdsMajority(getVoteSet(g, q, j))
                IN  /\ m # NoId => n = m
                    /\ ~Added(h, r, k, v, vote, o) => n = m
    <3>1. CASE <<q, j>> # <<r, k>>
      BY Zenon, <2>13, <3>1
    <3>2. CASE q = r /\ j = k
      BY Zenon, <2>8, <2>9, <2>12, <3>2 DEF TwoThirdsMajority, old
    <3> QED BY Zenon, <3>1, <3>2
  <2>15. getVoteSet(g, r, k) = addVote(getVoteSet(h, r, k), v, vote)
    BY Zenon, <2>12 DEF new, old
  <2>16. PolkasHaveLast(g)
    <3>1. \A q \in Nat : q # r => Prevotes(g, q) = Prevotes(h, q)
      BY Zenon, <2>13 DEF Prevotes, Kinds
    <3>2. HasTwoThirdsMajority(Prevotes(h, r)) => HasTwoThirdsMajority(Prevotes(g, r))
      BY Zenon, <2>14 DEF Prevotes, Kinds, HasTwoThirdsMajority, TwoThirdsMajority
    <3>3. PolkasHaveLast(h)
      BY Zenon, HVSetsFields
    <3> QED BY Zenon, <3>1, <3>2, <3>3, OneMorePolka
  <2>17. g \in HVSets
    BY Zenon, <2>1, <2>4, <2>5, <2>10, <2>11, <2>16, HVSetsFields
  <2> QED
    BY <1>2, <2>1, <2>5, <2>17, <2>13, <2>14, <2>15
<1> QED
  BY Zenon, <1>1, <1>2

\* POLInfo finds a majority of the prevotes of a round up to the current one.
LEMMA POLInfoFinds ==
    ASSUME NEW h \in HVSets
    PROVE  /\ POLInfo(h) \in Int
           /\ \A r \in 0..h.round : HasTwoThirdsMajority(Prevotes(h, r)) => r =< POLInfo(h)
<1> DEFINE T == POLRounds(h)
<1>1. h.round \in Nat
  BY Zenon, HVSetsFields
<1>2. T \subseteq 0..h.round
  BY Zenon DEF POLRounds
<1>3. \A r \in 0..h.round : HasTwoThirdsMajority(Prevotes(h, r)) => r \in T
  BY Zenon DEF POLRounds
<1>4. POLInfo(h) = IF T = {} THEN -1 ELSE CHOOSE r \in T : \A q \in T : q =< r
  BY Zenon DEF POLInfo
<1> HIDE DEF T
<1>5. CASE T = {}
  BY <1>3, <1>4, <1>5
<1>6. CASE T # {}
  <2>1. \E x \in T : \A y \in T : y =< x
    <3>1. T = PolkasUpTo(h, h.round)
      BY <1>1 DEF T, POLRounds, PolkasUpTo
    <3>2. PolkasHaveLast(h)
      BY Zenon, HVSetsFields
    <3> QED BY Zenon, <1>1, <1>6, <3>1, <3>2 DEF PolkasHaveLast
  <2>2. POLInfo(h) \in T /\ \A y \in T : y =< POLInfo(h)
    BY Zenon, <1>4, <1>6, <2>1
  <2>3. POLInfo(h) \in Int
    <3>1. \A x \in 0..h.round : x \in Int
      BY <1>1
    <3> QED BY Zenon, <1>2, <2>2, <3>1
  <2> QED BY Zenon, <1>3, <2>2, <2>3
<1> QED
  BY Zenon, <1>5, <1>6

-----------------------------------------------------------------------------
(* The node *)

\* A block id or none
AnyId == Ids \cup {NoId}

\* ProposalBlockParts: the header and whether all parts are there
PartSets == [block : AnyId, done : BOOLEAN]

\* LockedRound, LockedBlock and LockedBlockParts; the same for Valid*
Locks == [round : Nat, block : AnyId, parts : PartSets]

\* Proposal, and POLRound in it
Proposals == [block : AnyId, pol : Int]

\* The timeout the ticker last took, and whether it is still to fire
Timers == [height : Nat, round : Nat, step : 0..8, wait : Nat, armed : BOOLEAN]

\* LastHeight, LastRound and LastStep of the signer
Signers == [height : Nat, round : Nat, step : 0..3]

\* LastCommit, with the round it is of
Commits == [round : Nat, set : GoodSets] \cup {NoId}

\* The votes a node may handle
VoteMsgs == [type : {"vote"}, height : Nat, round : Nat, kind : Kinds, v : Validators,
             id : Ids, res : Results]

\* The proposals a node may handle
ProposalMsgs == [type : {"proposal"}, height : Nat, round : Nat, block : AnyId, pol : Int]

\* The block parts a node may handle
PartMsgs == [type : {"part"}, height : Nat, block : AnyId]

\* What may be in the queue of the node or come from a peer
Msgs == VoteMsgs \cup ProposalMsgs \cup PartMsgs

\* What SaveBlock keeps
Stored == [height : Nat, block : AnyId, parts : PartSets]

\* The panics that are no failure of a sanity check
Halts == {"no", "no verdict", "finalizeCommit", "nil part"}

\* The type of the node; halt excludes a failed sanity check.
Nodes == [height : Nat, round : Nat, step : Steps, commitRound : Nat \cup {-1},
          proposal : Proposals, pblock : AnyId, parts : PartSets,
          lock : Locks, valid : Locks, votes : HVSets, lastCommit : Commits,
          timer : Timers, queue : Seq(Msgs), signer : Signers, refused : BOOLEAN,
          chain : Nat, stored : SUBSET Stored, halt : Halts]

\* The last step of the signer that a node in a step may have used
signedIn(step) == IF step < 3 THEN 0 ELSE IF step = 3 THEN 1 ELSE IF step < 6 THEN 2 ELSE 3

\* SetRound has been called for the round of the node, unless the height has
\* not begun: what keeps its assertion true.
RoundOK(s) == /\ s.votes.round = s.round + 1 \/ (s.round = 0 /\ s.votes.round = 0)
              /\ s.step = RoundStepNewHeight => s.votes.round = 0

\* CommitRound has a majority of precommits, as updateToState asserts.
CommitOK(s) == s.commitRound > -1 => HasTwoThirdsMajority(Precommits(s.votes, s.commitRound))

\* The signer has signed nothing later than the step the node is in.
SignerOK(s) ==
    /\ s.signer.height =< s.height
    /\ s.signer.height = s.height => /\ s.signer.round =< s.round
                                     /\ s.signer.round = s.round => s.signer.step =< signedIn(s.step)

\* Until it precommits, the block a node gathers is the one of its proposal.
PartsOK(s) ==
    s.step < RoundStepPrecommit =>
        /\ s.proposal = NoProposal => s.parts = NoParts /\ s.pblock = NoId
        /\ s.pblock # NoId => s.parts = [block |-> s.pblock, done |-> TRUE]

\* The node works on the next block of its chain, or on the last one.
ChainOK(s) == s.height > 0 /\ s.height \in {s.chain, s.chain + 1}

\* What the guards of the enter functions keep true
Control(s) == RoundOK(s) /\ CommitOK(s) /\ SignerOK(s) /\ PartsOK(s) /\ ChainOK(s)

\* The ticker has seen no tick later than round r of the height.
TimerUpTo(s, r) ==
    /\ s.timer.height =< s.height
    /\ s.timer.height = s.height => s.timer.round =< r
    /\ s.timer.armed => s.timer.step \in {1, 2, 3, 5, 7} /\ s.timer.wait > 0

\* A node that runs and is in order
Ready(s) == /\ s \in Nodes /\ running(s) /\ ~s.refused
            /\ Control(s) /\ TimerUpTo(s, s.round)

\* A node whose receive routine has ended in one of the panics of Halts
Halted(s) == s \in Nodes /\ ~s.refused /\ ~running(s)

\* What every method leaves behind
Sane(s) == Ready(s) \/ Halted(s)

\* t differs from s by no more than what a step within a round changes.
Moved(s, t) ==
    t = [s EXCEPT !.step = t.step, !.timer = t.timer, !.queue = t.queue, !.signer = t.signer,
                  !.halt = t.halt]

-----------------------------------------------------------------------------
(* Signing *)

\* Within a round a node that has not gone beyond a step may still sign in it.
LEMMA StillSigns ==
    ASSUME NEW s, Ready(s), NEW k \in 1..3, signedIn(s.step) < k
    PROVE  mayStillSign(s, k)
<1>1. s.signer \in Signers /\ s.height \in Nat /\ s.round \in Nat /\ s.step \in Steps
  BY Zenon DEF Ready, Nodes
<1>2. signedIn(s.step) \in Nat
  BY Zenon DEF signedIn
<1>3. SignerOK(s)
  BY Zenon DEF Ready, Control
<1> QED
  BY <1>1, <1>2, <1>3 DEF SignerOK, mayStillSign, Signers

\* What signing does: the record of the signer, the queue and nothing else,
\* unless the block cannot be validated.
Signs(s, t, k) ==
    /\ t \in Nodes
    /\ t = [s EXCEPT !.queue = t.queue, !.signer = t.signer, !.halt = t.halt]
    /\ t.signer \in {s.signer, [height |-> s.height, round |-> s.round, step |-> k]}
    /\ t.halt \in {s.halt, "no verdict"}

\* signAndSend of a step that may still be signed changes the record of the
\* signer and the queue: it is never refused.
LEMMA SignAndSend ==
    ASSUME NEW s \in Nodes, NEW k \in 1..3, NEW msgs \in Seq(Msgs), mayStillSign(s, k),
           NEW t, t = signAndSend(s, k, msgs)
    PROVE  Signs(s, t, k) /\ t.halt = s.halt
<1> DEFINE rec == [height |-> s.height, round |-> s.round, step |-> k]
           q == s.queue \o msgs
<1>1. q \in Seq(Msgs)
  BY DEF Nodes
<1>2. rec \in Signers
  BY DEF Nodes, Signers
<1>3. t = [s EXCEPT !.signer = rec, !.queue = q]
  BY Zenon DEF signAndSend, Nodes
<1> HIDE DEF q
<1>4. t \in Nodes
  <2> HIDE DEF rec
  <2> QED BY Zenon, <1>1, <1>2, <1>3 DEF Nodes
<1>5. t.signer = rec /\ t.queue = q /\ t.halt = s.halt
  BY Zenon, <1>3 DEF Nodes
<1>6. t = [s EXCEPT !.queue = t.queue, !.signer = t.signer, !.halt = t.halt]
  <2> HIDE DEF rec
  <2> QED BY Zenon, <1>3, <1>5 DEF Nodes
<1> QED
  BY Zenon, <1>4, <1>5, <1>6 DEF Signs

\* The same for signAddVote, by an observer too
LEMMA SignAddVote ==
    ASSUME NEW s \in Nodes, NEW kind \in Kinds, NEW id \in Ids, NEW res \in Results,
           mayStillSign(s, SignerStep[kind]), NEW t, t = signAddVote(s, kind, id, res)
    PROVE  Signs(s, t, SignerStep[kind]) /\ t.halt = s.halt
<1> DEFINE vote == [type |-> "vote", height |-> s.height, round |-> s.round, kind |-> kind,
                    v |-> Self, id |-> id, res |-> res]
           msgs == <<vote>>
           k == SignerStep[kind]
<1>1. k \in 1..3
  BY DEF SignerStep, Kinds
<1>2. CASE Self \in Validators
  <2>1. vote \in Msgs
    BY Zenon, <1>2 DEF Msgs, VoteMsgs, Nodes
  <2>2. t = signAndSend(s, k, msgs)
    BY Zenon, <1>2 DEF signAddVote
  <2> HIDE DEF vote, k
  <2>3. msgs \in Seq(Msgs)
    BY <2>1
  <2> HIDE DEF msgs
  <2>4. Signs(s, t, k) /\ t.halt = s.halt
    <3>1. mayStillSign(s, k)
      BY Zenon DEF k
    <3> QED BY <1>1, <2>2, <2>3, <3>1, SignAndSend
  <2> QED BY Zenon, <2>4 DEF k
<1>3. CASE Self \notin Validators
  <2>1. t = s
    BY Zenon, <1>3 DEF signAddVote
  <2>2. s = [s EXCEPT !.queue = s.queue, !.signer = s.signer, !.halt = s.halt]
    BY Zenon DEF Nodes
  <2> QED BY Zenon, <2>1, <2>2 DEF Signs
<1> QED BY Zenon, <1>2, <1>3

\* The same for a nil vote
LEMMA SignNil ==
    ASSUME NEW s \in Nodes, NEW kind \in Kinds, mayStillSign(s, SignerStep[kind]),
           NEW t, t = signNil(s, kind)
    PROVE  Signs(s, t, SignerStep[kind]) /\ t.halt = s.halt
<1>1. Nil \in Ids /\ "agree" \in Results
  BY Zenon, ConsensusAssumption DEF ConsensusAssumption, Results
<1>2. t = signAddVote(s, kind, Nil, "agree")
  BY Zenon DEF signNil
<1> QED BY <1>1, <1>2, SignAddVote

\* The same for the vote on a block, unless ValidateBlock has no verdict
LEMMA VoteOn ==
    ASSUME NEW s \in Nodes, NEW kind \in Kinds, NEW b \in Ids, NEW w \in Worlds,
           mayStillSign(s, SignerStep[kind]), NEW t, t = voteOn(s, kind, b, w)
    PROVE  Signs(s, t, SignerStep[kind])
<1>1. w.verdict \in {"agree", "against", "none", "missing"}
  BY Zenon, ConsensusAssumption DEF ConsensusAssumption, Worlds
<1>2. CASE w.verdict = "missing"
  <2>1. t = [s EXCEPT !.halt = "no verdict"]
    BY Zenon, <1>2 DEF voteOn, panic
  <2>2. t \in Nodes
    <3>1. "no verdict" \in Halts
      BY Zenon DEF Halts
    <3> QED BY Zenon, <2>1, <3>1 DEF Nodes
  <2>4. t.queue = s.queue /\ t.signer = s.signer /\ t.halt = "no verdict"
    BY Zenon, <2>1 DEF Nodes
  <2>3. t = [s EXCEPT !.queue = t.queue, !.signer = t.signer, !.halt = t.halt]
    BY Zenon, <2>1, <2>4 DEF Nodes
  <2> QED BY Zenon, <2>2, <2>3, <2>4 DEF Signs
<1>3. CASE w.verdict = "none"
  <2>1. t = signNil(s, kind)
    BY Zenon, <1>3 DEF voteOn
  <2> QED BY Zenon, <2>1, SignNil
<1>4. CASE w.verdict \in {"agree", "against"}
  <2>1. t = signAddVote(s, kind, b, w.verdict)
    BY Zenon, <1>4 DEF voteOn
  <2>2. w.verdict \in Results
    BY Zenon, <1>4 DEF Results
  <2> QED BY Zenon, <2>1, <2>2, SignAddVote
<1> QED BY Zenon, <1>1, <1>2, <1>3, <1>4

-----------------------------------------------------------------------------
(* Steps within a round *)

\* A step within a round, with a signature of it at most, leaves a node in order.
LEMMA MoveKeepsReady ==
    ASSUME NEW s, Ready(s), NEW t \in Nodes, Moved(s, t), running(t), t.step >= s.step,
           t.signer = s.signer
             \/ \E k \in 0..signedIn(t.step) :
                   t.signer = [height |-> s.height, round |-> s.round, step |-> k],
           TimerUpTo(t, t.round)
    PROVE  Ready(t)
<1>1. s \in Nodes /\ ~s.refused /\ Control(s)
  BY Zenon DEF Ready
<1>2. /\ t.height = s.height /\ t.round = s.round /\ t.commitRound = s.commitRound
      /\ t.proposal = s.proposal /\ t.pblock = s.pblock /\ t.parts = s.parts
      /\ t.votes = s.votes /\ t.refused = s.refused /\ t.chain = s.chain
  BY Zenon, <1>1 DEF Moved, Nodes
<1>3. /\ s.step \in Steps /\ t.step \in Steps /\ s.signer \in Signers
      /\ s.height \in Nat /\ s.round \in Nat
  BY Zenon, <1>1 DEF Nodes
<1>4. RoundOK(t) /\ CommitOK(t) /\ ChainOK(t)
  BY <1>1, <1>2, <1>3 DEF Control, RoundOK, CommitOK, ChainOK, RoundStepNewHeight, Steps
<1>5. PartsOK(t)
  BY <1>1, <1>2, <1>3 DEF Control, PartsOK, RoundStepPrecommit, Steps
<1>6. SignerOK(t)
  <2>1. signedIn(s.step) =< signedIn(t.step) /\ signedIn(s.step) \in Nat /\ signedIn(t.step) \in Nat
    BY <1>3 DEF signedIn, Steps
  <2>2. SignerOK(s)
    BY Zenon, <1>1 DEF Control
  <2>3. CASE t.signer = s.signer
    BY <1>2, <1>3, <2>1, <2>2, <2>3 DEF SignerOK, Signers
  <2>4. ASSUME NEW k \in 0..signedIn(t.step),
               t.signer = [height |-> s.height, round |-> s.round, step |-> k]
        PROVE  SignerOK(t)
    BY <1>2, <1>3, <2>1, <2>4 DEF SignerOK
  <2> QED BY Zenon, <2>3, <2>4
<1> QED
  BY Zenon, <1>1, <1>2, <1>4, <1>5, <1>6 DEF Ready, Control

\* doPrevote signs a prevote.
LEMMA DoPrevote ==
    ASSUME NEW s, Ready(s), NEW w \in Worlds, s.step < RoundStepPrevote,
           NEW t, t = doPrevote(s, w)
    PROVE  Signs(s, t, 2)
<1>1. s \in Nodes /\ s.step \in Steps
  BY Zenon DEF Ready, Nodes
<1>2. signedIn(s.step) < 2
  BY <1>1 DEF signedIn, RoundStepPrevote, Steps
<1>3. mayStillSign(s, 2)
  BY <1>2, StillSigns
<1>4. SignerStep["prevote"] = 2 /\ "prevote" \in Kinds
  BY Zenon DEF SignerStep, Kinds
<1>5. CASE s.lock.block # NoId
  <2>1. s.lock.block \in Ids
    BY Zenon, <1>1, <1>5 DEF Nodes, Locks, AnyId
  <2>2. t = voteOn(s, "prevote", s.lock.block, w)
    BY Zenon, <1>5 DEF doPrevote
  <2> QED BY Zenon, <1>1, <1>3, <1>4, <2>1, <2>2, VoteOn
<1>6. CASE s.lock.block = NoId /\ s.pblock # NoId
  <2>1. s.pblock \in Ids
    BY Zenon, <1>1, <1>6 DEF Nodes, AnyId
  <2>2. t = voteOn(s, "prevote", s.pblock, w)
    BY Zenon, <1>6 DEF doPrevote
  <2> QED BY Zenon, <1>1, <1>3, <1>4, <2>1, <2>2, VoteOn
<1>7. CASE s.lock.block = NoId /\ s.pblock = NoId
  <2>1. t = signNil(s, "prevote")
    BY Zenon, <1>7 DEF doPrevote
  <2> QED BY Zenon, <1>1, <1>3, <1>4, <2>1, SignNil
<1> QED BY Zenon, <1>5, <1>6, <1>7

\* t is s in another step, with what the step signed.
Enters(s, t, step) ==
    Moved(s, t) /\ t.step = step /\ t.timer = s.timer /\ t.halt \in {"no", "no verdict"}

\* What a step that ends with a signature leaves behind.
LEMMA SignedStep ==
    ASSUME NEW s, Ready(s), NEW k \in 1..3, NEW u, Signs(s, u, k),
           NEW step \in Steps, s.step < step, signedIn(step) = k,
           NEW t, t = updateRoundStep(u, s.round, step)
    PROVE  Sane(t) /\ Enters(s, t, step)
<1>1. s \in Nodes /\ u \in Nodes /\ s.round \in Nat /\ s.halt = "no" /\ ~s.refused
  BY Zenon DEF Ready, Signs, Nodes, running
<1>2. t = [u EXCEPT !.round = s.round, !.step = step]
  BY Zenon DEF updateRoundStep
<1>3. t \in Nodes
  BY Zenon, <1>1, <1>2 DEF Nodes
<1>4. u = [s EXCEPT !.queue = u.queue, !.signer = u.signer, !.halt = u.halt]
  BY Zenon DEF Signs
<1>5. u.round = s.round /\ u.timer = s.timer /\ u.refused = s.refused
  BY Zenon, <1>1, <1>4 DEF Nodes
<1>6. t = [u EXCEPT !.step = step]
  BY Zenon, <1>1, <1>2, <1>5 DEF Nodes
<1>7. /\ t.step = step /\ t.timer = s.timer /\ t.queue = u.queue /\ t.signer = u.signer
      /\ t.halt = u.halt /\ t.refused = s.refused
  BY Zenon, <1>1, <1>5, <1>6 DEF Nodes
<1>8. Moved(s, t)
  BY Zenon, <1>1, <1>4, <1>6, <1>7 DEF Nodes, Moved
<1>9. t.halt \in {"no", "no verdict"}
  BY Zenon, <1>1, <1>7 DEF Signs
<1>10. CASE running(t)
  <2>1. t.signer = s.signer \/ t.signer = [height |-> s.height, round |-> s.round, step |-> k]
    BY Zenon, <1>7 DEF Signs
  <2>2. t.height = s.height /\ t.round = s.round
    BY Zenon, <1>1, <1>5, <1>8 DEF Moved, Nodes
  <2>3. TimerUpTo(t, t.round)
    BY Zenon, <1>7, <2>2 DEF Ready, TimerUpTo
  <2>4. t.step >= s.step
    <3>1. s.step \in Steps
      BY Zenon, <1>1 DEF Nodes
    <3> QED BY <1>7, <3>1 DEF Steps
  <2>6. k \in 0..signedIn(t.step)
    BY <1>7
  <2>5. Ready(t)
    BY Zenon, <1>3, <1>8, <1>10, <2>1, <2>3, <2>4, <2>6, MoveKeepsReady
  <2> QED BY Zenon, <1>7, <1>8, <1>9, <2>5 DEF Sane, Enters
<1>11. CASE ~running(t)
  BY Zenon, <1>1, <1>3, <1>7, <1>8, <1>9, <1>11 DEF Sane, Halted, Enters
<1> QED BY Zenon, <1>10, <1>11

\* enterPrevote of the current round
LEMMA EnterPrevote ==
    ASSUME NEW s, Ready(s), NEW w \in Worlds, NEW t, t = enterPrevote(s, s.round, w)
    PROVE  Sane(t) /\ IF s.step < RoundStepPrevote THEN Enters(s, t, RoundStepPrevote) ELSE t = s
<1>1. running(s) /\ s.round \in Nat
  BY Zenon DEF Ready, Nodes
<1>2. mayEnter(s, s.round, RoundStepPrevote) <=> s.step < RoundStepPrevote
  BY <1>1 DEF mayEnter
<1>3. CASE s.step < RoundStepPrevote
  <2> DEFINE u == doPrevote(s, w)
  <2>1. Signs(s, u, 2)
    BY Zenon, <1>3, DoPrevote
  <2>2. t = updateRoundStep(u, s.round, RoundStepPrevote)
    BY Zenon, <1>2, <1>3 DEF enterPrevote
  <2> HIDE DEF u
  <2>3. RoundStepPrevote \in Steps /\ signedIn(RoundStepPrevote) = 2
    BY DEF RoundStepPrevote, Steps, signedIn
  <2> QED BY <1>3, <2>1, <2>2, <2>3, SignedStep
<1>4. CASE ~(s.step < RoundStepPrevote)
  BY Zenon, <1>2, <1>4 DEF enterPrevote, Sane
<1> QED BY Zenon, <1>3, <1>4

\* The timeoutInfo that scheduleTimeout makes
Tick(s, r, step, wait) ==
    [height |-> s.height, round |-> r, step |-> step, wait |-> wait, armed |-> TRUE]

\* The ticker has seen nothing as late as step of round r.
Earlier(s, r, step) ==
    \/ s.timer.height < s.height
    \/ s.timer.height = s.height /\ s.timer.round < r
    \/ s.timer.height = s.height /\ s.timer.round = r /\ s.timer.step < step

\* t differs from s in the timer at most.
OnlyTimer(s, t) == t = [s EXCEPT !.timer = t.timer]

\* t is s after a tick was given to the ticker, which takes a later one and one
\* that waits longer.
Scheduled(s, t, r, step, wait) ==
    /\ t \in Nodes /\ OnlyTimer(s, t)
    /\ t.timer \in {s.timer, Tick(s, r, step, wait)}
    /\ wait > 1 \/ Earlier(s, r, step) => t.timer = Tick(s, r, step, wait)

\* scheduleTimeout changes the timer at most, and does change it when the
\* ticker has seen nothing as late.
LEMMA ScheduleTimeout ==
    ASSUME NEW s \in Nodes, NEW r \in Nat, NEW step \in {1, 2, 3, 5, 7}, NEW wait \in Nat,
           NEW t, t = scheduleTimeout(s, r, step, wait)
    PROVE  Scheduled(s, t, r, step, wait)
<1> DEFINE ti == Tick(s, r, step, wait)
<1>1. s.height \in Nat /\ s.timer \in Timers
  BY Zenon DEF Nodes
<1>2. ti \in Timers
  BY <1>1 DEF Tick, Timers
<1>3. t = IF ignoresTick(s.timer, ti) THEN s ELSE [s EXCEPT !.timer = ti]
  BY Zenon DEF scheduleTimeout, Tick
<1>4. wait > 1 \/ Earlier(s, r, step) => ~ignoresTick(s.timer, ti)
  BY <1>1 DEF ignoresTick, Earlier, Tick, Timers
<1> HIDE DEF ti
<1>5. CASE ignoresTick(s.timer, ti)
  <2>1. t = s
    BY Zenon, <1>3, <1>5
  <2>2. s = [s EXCEPT !.timer = s.timer]
    BY Zenon DEF Nodes
  <2> QED BY Zenon, <1>4, <1>5, <2>1, <2>2 DEF OnlyTimer, Scheduled, ti
<1>6. CASE ~ignoresTick(s.timer, ti)
  <2>1. t = [s EXCEPT !.timer = ti]
    BY Zenon, <1>3, <1>6
  <2>2. t \in Nodes /\ t.timer = ti
    BY Zenon, <1>2, <2>1 DEF Nodes
  <2>3. t = [s EXCEPT !.timer = t.timer]
    BY Zenon, <2>1, <2>2
  <2> QED BY Zenon, <2>2, <2>3 DEF ti, OnlyTimer, Scheduled
<1> QED BY Zenon, <1>5, <1>6

-----------------------------------------------------------------------------
(* The timer and the steps *)

\* The ticker has seen nothing later than where the node is.
Behind(s) ==
    s.timer.height = s.height =>
        s.timer.round < s.round \/ (s.timer.round = s.round /\ s.timer.step =< s.step)

\* A step that ends with a timeout has it armed, and waiting for transactions
\* is for round 0.
Covered(s) ==
    /\ s.step \in {1, 2, 3, 5, 7} =>
          /\ s.timer.armed /\ s.timer.height = s.height
          /\ s.timer.round = s.round /\ s.timer.step = s.step
    /\ s.step = RoundStepNewRound => s.round = 0

\* The ticker and the steps of a node that was never reset
Timely(s) == Behind(s) /\ Covered(s)

\* A wait step: enterPrevoteWait and enterPrecommitWait, their sanity check passed.
LEMMA WaitStep ==
    ASSUME NEW s, Ready(s), NEW step \in {5, 7}, s.step < step, NEW t,
           t = updateRoundStep(scheduleTimeout(s, s.round, step, 1), s.round, step)
    PROVE  /\ Ready(t) /\ Moved(s, t) /\ t.step = step
           /\ Behind(s) => Timely(t)
<1> DEFINE u == scheduleTimeout(s, s.round, step, 1)
<1>1. s \in Nodes /\ s.round \in Nat /\ s.height \in Nat /\ s.step \in Steps /\ s.timer \in Timers
      /\ s.halt = "no"
  BY Zenon DEF Ready, Nodes, running
<1>2. /\ u \in Nodes /\ OnlyTimer(s, u)
      /\ u.timer \in {s.timer, Tick(s, s.round, step, 1)}
      /\ Earlier(s, s.round, step) => u.timer = Tick(s, s.round, step, 1)
  <2>1. step \in {1, 2, 3, 5, 7} /\ 1 \in Nat
    BY Zenon
  <2>2. u = scheduleTimeout(s, s.round, step, 1)
    BY Zenon
  <2> HIDE DEF u
  <2>3. Scheduled(s, u, s.round, step, 1)
    BY Zenon, <1>1, <2>1, <2>2, ScheduleTimeout
  <2> QED BY Zenon, <2>3 DEF Scheduled
<1>3. t = [u EXCEPT !.round = s.round, !.step = step]
  BY Zenon DEF updateRoundStep
<1> HIDE DEF u
<1>4. /\ t.height = s.height /\ t.round = s.round /\ t.step = step /\ t.timer = u.timer
      /\ t.signer = s.signer /\ t.queue = s.queue /\ t.halt = s.halt
  <2>1. u.height = s.height /\ u.signer = s.signer /\ u.queue = s.queue /\ u.halt = s.halt
    BY Zenon, <1>1, <1>2 DEF Nodes, OnlyTimer
  <2> QED BY Zenon, <1>2, <1>3, <2>1 DEF Nodes
<1>5. t = [s EXCEPT !.timer = t.timer, !.step = t.step]
  BY Zenon, <1>1, <1>2, <1>3, <1>4 DEF Nodes, OnlyTimer
<1>6. Moved(s, t)
  BY Zenon, <1>1, <1>4, <1>5 DEF Moved, Nodes
<1>7. t \in Nodes
  <2>1. step \in Steps
    BY DEF Steps
  <2> QED BY Zenon, <1>1, <1>2, <1>3, <2>1 DEF Nodes
<1>8. TimerUpTo(t, t.round)
  BY <1>1, <1>2, <1>4 DEF TimerUpTo, Tick, Ready, Timers
<1>9. t.step >= s.step
  BY <1>1, <1>4 DEF Steps
<1>10. Ready(t)
  BY Zenon, <1>1, <1>4, <1>6, <1>7, <1>8, <1>9, MoveKeepsReady DEF running
<1>11. ASSUME Behind(s) PROVE Timely(t)
  <2>1. Earlier(s, s.round, step)
    BY <1>1, <1>11 DEF Ready, TimerUpTo, Behind, Earlier, Timers, Steps
  <2>2. t.timer = Tick(s, s.round, step, 1)
    BY Zenon, <1>2, <1>4, <2>1
  <2> QED BY <1>1, <1>4, <2>2 DEF Timely, Behind, Covered, Tick, RoundStepNewRound
<1> QED BY Zenon, <1>4, <1>6, <1>10, <1>11

\* enterPrevoteWait of the current round: its assertion holds.
LEMMA EnterPrevoteWait ==
    ASSUME NEW s, Ready(s), HasTwoThirdsAny(Prevotes(s.votes, s.round)),
           NEW t, t = enterPrevoteWait(s, s.round)
    PROVE  /\ Ready(t) /\ Moved(s, t)
           /\ IF s.step < RoundStepPrevoteWait
              THEN t.step = RoundStepPrevoteWait /\ (Behind(s) => Timely(t)) ELSE t = s
<1>1. s \in Nodes /\ running(s) /\ s.round \in Nat /\ s.step \in Steps
  BY Zenon DEF Ready, Nodes
<1>2. mayEnter(s, s.round, RoundStepPrevoteWait) <=> s.step < RoundStepPrevoteWait
  BY <1>1 DEF mayEnter
<1>3. CASE s.step < RoundStepPrevoteWait
  <2>1. t = updateRoundStep(scheduleTimeout(s, s.round, RoundStepPrevoteWait, 1), s.round,
                            RoundStepPrevoteWait)
    BY Zenon, <1>2, <1>3 DEF enterPrevoteWait
  <2>2. RoundStepPrevoteWait \in {5, 7}
    BY Zenon DEF RoundStepPrevoteWait
  <2> QED BY Zenon, <1>3, <2>1, <2>2, WaitStep
<1>4. CASE ~(s.step < RoundStepPrevoteWait)
  <2>1. t = s
    BY Zenon, <1>2, <1>4 DEF enterPrevoteWait
  <2>2. Moved(s, s)
    BY Zenon, <1>1 DEF Moved, Nodes
  <2> QED BY Zenon, <1>4, <2>1, <2>2
<1> QED BY Zenon, <1>3, <1>4

\* enterPrecommitWait of the current round: its assertion holds.
LEMMA EnterPrecommitWait ==
    ASSUME NEW s, Ready(s), HasTwoThirdsAny(Precommits(s.votes, s.round)),
           NEW t, t = enterPrecommitWait(s, s.round)
    PROVE  /\ Ready(t) /\ Moved(s, t)
           /\ IF s.step < RoundStepPrecommitWait
              THEN t.step = RoundStepPrecommitWait /\ (Behind(s) => Timely(t)) ELSE t = s
<1>1. s \in Nodes /\ running(s) /\ s.round \in Nat /\ s.step \in Steps
  BY Zenon DEF Ready, Nodes
<1>2. mayEnter(s, s.round, RoundStepPrecommitWait) <=> s.step < RoundStepPrecommitWait
  BY <1>1 DEF mayEnter
<1>3. CASE s.step < RoundStepPrecommitWait
  <2>1. t = updateRoundStep(scheduleTimeout(s, s.round, RoundStepPrecommitWait, 1), s.round,
                            RoundStepPrecommitWait)
    BY Zenon, <1>2, <1>3 DEF enterPrecommitWait
  <2>2. RoundStepPrecommitWait \in {5, 7}
    BY Zenon DEF RoundStepPrecommitWait
  <2> QED BY Zenon, <1>3, <2>1, <2>2, WaitStep
<1>4. CASE ~(s.step < RoundStepPrecommitWait)
  <2>1. t = s
    BY Zenon, <1>2, <1>4 DEF enterPrecommitWait
  <2>2. Moved(s, s)
    BY Zenon, <1>1 DEF Moved, Nodes
  <2> QED BY Zenon, <1>4, <2>1, <2>2
<1> QED BY Zenon, <1>3, <1>4

-----------------------------------------------------------------------------
(* Proposing and entering a round *)

\* The proposal is signed and sent.
LEMMA DecideProposal ==
    ASSUME NEW s, Ready(s), s.step < RoundStepPropose, NEW w \in Worlds,
           NEW t, t = decideProposal(s, w)
    PROVE  Signs(s, t, 1) /\ t.halt = s.halt
<1> DEFINE parts == blockToPropose(s, w)
           proposal == [type |-> "proposal", height |-> s.height, round |-> s.round,
                        block |-> parts.block, pol |-> POLInfo(s.votes)]
           part == [type |-> "part", height |-> s.height,
                    block |-> IF parts.done THEN parts.block ELSE NoId]
           msgs == <<proposal, part>>
<1>1. s \in Nodes /\ s.step \in Steps /\ s.height \in Nat /\ s.round \in Nat
  BY Zenon DEF Ready, Nodes
<1>2. parts \in PartSets
  <2>1. s.lock.parts \in PartSets /\ s.valid.parts \in PartSets
    BY Zenon, <1>1 DEF Nodes, Locks
  <2>2. [block |-> w.make, done |-> TRUE] \in PartSets
    BY Zenon, ConsensusAssumption DEF ConsensusAssumption, Worlds, PartSets, AnyId
  <2> QED BY Zenon, <2>1, <2>2 DEF blockToPropose
<1>3. t = signAndSend(s, 1, msgs)
  BY Zenon DEF decideProposal, SignerStep
<1> HIDE DEF parts
<1>4. POLInfo(s.votes) \in Int
  BY Zenon, <1>1, POLInfoFinds DEF Nodes
<1>5. proposal \in Msgs
  BY Zenon, <1>1, <1>2, <1>4 DEF Msgs, ProposalMsgs, PartSets
<1>6. part \in Msgs
  BY Zenon, <1>1, <1>2 DEF Msgs, PartMsgs, PartSets, AnyId
<1> HIDE DEF proposal, part
<1>7. msgs \in Seq(Msgs)
  BY <1>5, <1>6
<1> HIDE DEF msgs
<1>8. mayStillSign(s, 1)
  <2>1. signedIn(s.step) < 1
    BY <1>1 DEF signedIn, RoundStepPropose, Steps
  <2> QED BY <2>1, StillSigns
<1> QED BY <1>1, <1>3, <1>7, <1>8, SignAndSend

\* To sign nothing
LEMMA SignsNothing ==
    ASSUME NEW s \in Nodes, NEW k
    PROVE  Signs(s, s, k)
<1>1. s = [s EXCEPT !.queue = s.queue, !.signer = s.signer, !.halt = s.halt]
  BY Zenon DEF Nodes
<1> QED BY Zenon, <1>1 DEF Signs

\* Two steps within a round are one.
LEMMA EntersTwice ==
    ASSUME NEW s \in Nodes, NEW t \in Nodes, NEW u \in Nodes, Moved(s, t), Moved(t, u)
    PROVE  Moved(s, u)
BY Zenon DEF Moved, Nodes

\* The type of a node in any order
LEMMA SaneNode ==
    ASSUME NEW s, Sane(s)
    PROVE  s \in Nodes /\ (running(s) => Ready(s))
BY Zenon DEF Sane, Ready, Halted

\* The end of tryEnterProposal and enterPropose: a complete proposal is voted on.
Proposes(s, t) ==
    /\ Moved(s, t) /\ t.timer = s.timer /\ t.step \in {3, 4}
    /\ s.pblock = NoId => running(t)

\* The end of tryEnterProposal, which may go on to enterPrevote
LEMMA Proposed ==
    ASSUME NEW s, Ready(s), s.step < RoundStepPropose, NEW w \in Worlds,
           NEW u, Signs(s, u, 1), u.halt = s.halt, NEW t, t = proposed(u, s.round, w)
    PROVE  Sane(t) /\ Proposes(s, t)
<1> DEFINE x == updateRoundStep(u, s.round, RoundStepPropose)
<1>1. RoundStepPropose \in Steps /\ signedIn(RoundStepPropose) = 1
  BY DEF RoundStepPropose, Steps, signedIn
<1>2. Sane(x) /\ Enters(s, x, RoundStepPropose)
  BY <1>1, SignedStep
<1>3. x.halt = s.halt /\ x.round = s.round
  <2>1. u \in Nodes
    BY Zenon DEF Signs
  <2> QED BY Zenon, <2>1 DEF updateRoundStep, Nodes
<1>4. t = IF isProposalComplete(x) THEN enterPrevote(x, x.round, w) ELSE x
  BY Zenon DEF proposed
<1> HIDE DEF x
<1>5. Ready(x) /\ x \in Nodes /\ s \in Nodes /\ running(x)
  BY Zenon, <1>2, <1>3, SaneNode DEF Ready, running
<1>6. /\ Moved(s, x) /\ x.step = RoundStepPropose /\ x.timer = s.timer
  BY Zenon, <1>2 DEF Enters
<1>7. x.pblock = s.pblock
  BY Zenon, <1>5, <1>6 DEF Moved, Nodes
<1>8. CASE isProposalComplete(x)
  <2>1. t = enterPrevote(x, x.round, w)
    BY Zenon, <1>4, <1>8
  <2>2. x.step < RoundStepPrevote
    BY <1>6 DEF RoundStepPropose, RoundStepPrevote
  <2>3. Sane(t) /\ Enters(x, t, RoundStepPrevote)
    BY Zenon, <1>5, <2>1, <2>2, EnterPrevote
  <2>4. t \in Nodes
    BY Zenon, <2>3, SaneNode
  <2>5. Moved(s, t) /\ t.timer = s.timer /\ t.step = 4
    BY Zenon, <1>5, <1>6, <2>3, <2>4, EntersTwice DEF Enters, RoundStepPrevote
  <2>6. s.pblock # NoId
    BY Zenon, <1>7, <1>8 DEF isProposalComplete
  <2> QED BY Zenon, <2>3, <2>5, <2>6 DEF Proposes
<1>9. CASE ~isProposalComplete(x)
  BY Zenon, <1>2, <1>4, <1>5, <1>6, <1>9 DEF Proposes, RoundStepPropose
<1> QED BY Zenon, <1>8, <1>9

\* A tick leaves a node in order.
LEMMA TickKeepsReady ==
    ASSUME NEW s, Ready(s), NEW step \in {1, 2, 3, 5, 7}, NEW wait \in Nat, wait > 0,
           NEW t, Scheduled(s, t, s.round, step, wait)
    PROVE  Ready(t) /\ Moved(s, t)
<1>1. s \in Nodes /\ t \in Nodes /\ s.timer \in Timers /\ s.height \in Nat /\ s.round \in Nat
      /\ s.step \in Steps /\ running(s)
  BY Zenon DEF Ready, Scheduled, Nodes
<1>2. t = [s EXCEPT !.timer = t.timer]
  BY Zenon DEF Scheduled, OnlyTimer
<1>3. /\ t.height = s.height /\ t.round = s.round /\ t.step = s.step /\ t.halt = s.halt
      /\ t.signer = s.signer /\ t.queue = s.queue
  BY Zenon, <1>1, <1>2 DEF Nodes
<1>4. Moved(s, t)
  BY Zenon, <1>1, <1>2, <1>3 DEF Moved, Nodes
<1>5. TimerUpTo(t, t.round)
  <2>1. t.timer \in {s.timer, Tick(s, s.round, step, wait)}
    BY Zenon DEF Scheduled
  <2> QED BY <1>1, <1>3, <2>1 DEF TimerUpTo, Ready, Tick, Timers
<1>6. t.step >= s.step
  BY <1>1, <1>3 DEF Steps
<1> QED BY Zenon, <1>1, <1>3, <1>4, <1>5, <1>6, MoveKeepsReady DEF running

\* Where tryEnterProposal leads: the node waits in its step, proposes or
\* prevotes, and has the timeout of the step armed.
TriesProposal(s, t) ==
    /\ Moved(s, t) /\ t.step \in {s.step, 3, 4}
    /\ s.pblock = NoId => running(t)
    /\ Earlier(s, s.round, 3) /\ s.step = RoundStepNewRound => Timely(t)

\* tryEnterProposal of the current round
LEMMA TryEnterProposal ==
    ASSUME NEW s, Ready(s), s.step < RoundStepPropose, NEW w \in Worlds,
           NEW wait \in Nat, wait > 0, NEW t, t = tryEnterProposal(s, s.round, wait, w)
    PROVE  Sane(t) /\ TriesProposal(s, t)
<1>1. /\ s \in Nodes /\ s.round \in Nat /\ s.height \in Nat /\ s.step \in Steps /\ s.pblock \in AnyId
      /\ running(s) /\ s.timer \in Timers
  BY Zenon DEF Ready, Nodes
<1>2. mayEnter(s, s.round, RoundStepPropose)
  BY <1>1 DEF mayEnter
<1> DEFINE x == scheduleTimeout(s, s.round, RoundStepPropose, 1)
           y == decideProposal(x, w)
<1>3. Scheduled(s, x, s.round, RoundStepPropose, 1)
  <2>1. RoundStepPropose \in {1, 2, 3, 5, 7} /\ 1 \in Nat
    BY Zenon DEF RoundStepPropose
  <2> QED BY Zenon, <1>1, <2>1, ScheduleTimeout
<1>4. t \in {proposed(x, s.round, w), proposed(y, s.round, w)}
      \/ (s.round = 0 /\ t = scheduleTimeout(s, s.round, RoundStepNewRound, wait + 1))
  BY Zenon, <1>2 DEF tryEnterProposal, enterPropose
<1> HIDE DEF x
<1>5. Ready(x) /\ Moved(s, x)
  <2>1. RoundStepPropose \in {1, 2, 3, 5, 7} /\ 1 \in Nat /\ 1 > 0
    BY DEF RoundStepPropose
  <2> QED BY Zenon, <1>3, <2>1, TickKeepsReady
<1>6. x.round = s.round /\ x.step = s.step /\ x.pblock = s.pblock /\ x.height = s.height /\ x \in Nodes
  <2>1. x = [s EXCEPT !.timer = x.timer]
    BY Zenon, <1>3 DEF Scheduled, OnlyTimer
  <2> QED BY Zenon, <1>1, <1>5, <2>1 DEF Nodes, Ready
<1>7. Signs(x, y, 1) /\ y.halt = x.halt
  BY Zenon, <1>5, <1>6, DecideProposal
<1> HIDE DEF y
<1>8. Signs(x, x, 1)
  BY Zenon, <1>6, SignsNothing
<1>9. CASE t \in {proposed(x, s.round, w), proposed(y, s.round, w)}
  <2>1. Sane(t) /\ Proposes(x, t)
    BY Zenon, <1>5, <1>6, <1>7, <1>8, <1>9, Proposed
  <2>2. t \in Nodes
    BY Zenon, <2>1, SaneNode
  <2>3. Moved(s, t)
    BY Zenon, <1>1, <1>5, <1>6, <2>1, <2>2, EntersTwice DEF Proposes
  <2>4. /\ t.step \in {3, 4} /\ t.timer = x.timer /\ t.height = s.height /\ t.round = s.round
        /\ s.pblock = NoId => running(t)
    BY Zenon, <1>1, <1>6, <2>1, <2>2, <2>3 DEF Proposes, Moved, Nodes
  <2>5. ASSUME Earlier(s, s.round, 3) PROVE Timely(t)
    <3>1. x.timer = Tick(s, s.round, 3, 1)
      BY Zenon, <1>3, <2>5 DEF Scheduled, RoundStepPropose
    <3> QED BY <1>1, <2>4, <3>1 DEF Timely, Behind, Covered, Tick, RoundStepNewRound
  <2> QED BY Zenon, <2>1, <2>3, <2>4, <2>5 DEF TriesProposal
<1>10. CASE s.round = 0 /\ t = scheduleTimeout(s, s.round, RoundStepNewRound, wait + 1)
  <2>1. PICK wt \in Nat : wt = wait + 1 /\ wt > 0
    OBVIOUS
  <2>2. RoundStepNewRound \in {1, 2, 3, 5, 7}
    BY Zenon DEF RoundStepNewRound
  <2>3. Scheduled(s, t, s.round, RoundStepNewRound, wt)
    BY Zenon, <1>1, <1>10, <2>1, <2>2, ScheduleTimeout
  <2>4. Ready(t) /\ Moved(s, t)
    BY Zenon, <2>1, <2>2, <2>3, TickKeepsReady
  <2>5. t.timer = Tick(s, s.round, RoundStepNewRound, wt)
    BY <2>1, <2>3 DEF Scheduled
  <2>6. t.step = s.step /\ t.round = s.round /\ t.height = s.height /\ running(t)
    <3>1. t = [s EXCEPT !.timer = t.timer]
      BY Zenon, <2>3 DEF Scheduled, OnlyTimer
    <3> QED BY Zenon, <1>1, <2>4, <3>1 DEF Nodes, Ready
  <2>7. s.step = RoundStepNewRound => Timely(t)
    BY <1>1, <1>10, <2>5, <2>6 DEF Timely, Behind, Covered, Tick, RoundStepNewRound
  <2> QED BY Zenon, <2>4, <2>6, <2>7 DEF TriesProposal, Sane
<1> QED BY Zenon, <1>4, <1>9, <1>10

\* What enterNewRound leaves alone, and where it leads
NewRound(s, t, r) ==
    /\ t.height = s.height /\ t.round = r /\ t.commitRound = s.commitRound
    /\ t.lock = s.lock /\ t.valid = s.valid /\ SameVotes(s.votes, t.votes)
    /\ t.lastCommit = s.lastCommit /\ t.chain = s.chain /\ t.stored = s.stored
    /\ t.step \in {2, 3, 4}
    /\ r > s.round => running(t) /\ t.pblock = NoId
    /\ Behind(s) => Timely(t)

\* u is s at the start of round r, in step NewRound.
Begun(s, u, r) ==
    /\ Ready(u)
    /\ u.height = s.height /\ u.round = r /\ u.commitRound = s.commitRound
    /\ u.lock = s.lock /\ u.valid = s.valid /\ SameVotes(s.votes, u.votes)
    /\ u.lastCommit = s.lastCommit /\ u.chain = s.chain /\ u.stored = s.stored
    /\ u.step = 2 /\ u.timer = s.timer /\ u.signer = s.signer /\ u.queue = s.queue
    /\ r # 0 => u.proposal = NoProposal /\ u.pblock = NoId

\* enterNewRound of a round the node has not begun: SetRound does not panic, and
\* the node goes on to tryEnterProposal.
LEMMA RoundBegins ==
    ASSUME NEW s \in Nodes, running(s), ~s.refused, Control(s), NEW r \in Nat,
           r > s.round \/ (r = s.round /\ s.step = RoundStepNewHeight),
           TimerUpTo(s, r), NEW w \in Worlds, NEW t, t = enterNewRound(s, r, w)
    PROVE  \E u : Begun(s, u, r) /\ t = tryEnterProposal(u, u.round, 1, w)
<1> DEFINE c == clearedFor(s, r)
           g == SetRound(s.votes, r + 1)
           u == [updateRoundStep(c, r, RoundStepNewRound) EXCEPT !.votes = g]
<1>1. /\ s.height \in Nat /\ s.round \in Nat /\ s.step \in Steps /\ s.votes \in HVSets
      /\ s.timer \in Timers /\ s.signer \in Signers /\ s.commitRound \in Nat \cup {-1}
      /\ s.votes.round \in Nat
  BY Zenon, HVSetsFields DEF Nodes
<1>2. ~SetRoundPanics(s.votes, r + 1)
  BY <1>1 DEF SetRoundPanics, Control, RoundOK
<1>3. t = tryEnterProposal(u, r, 1, w)
  <2>1. ~(~running(s) \/ r < s.round \/ (r = s.round /\ s.step # RoundStepNewHeight))
    BY <1>1
  <2>2. updateRoundStep(c, r, RoundStepNewRound).votes = s.votes
    BY Zenon DEF updateRoundStep, clearedFor, Nodes
  <2> QED BY Zenon, <1>2, <2>1, <2>2 DEF enterNewRound
<1>4. g \in HVSets /\ g.round = r + 1 /\ SameVotes(s.votes, g)
  <2>1. PICK n \in Nat : n = r + 1
    OBVIOUS
  <2> QED BY Zenon, <1>1, <2>1, SetRoundKeepsVotes
<1> HIDE DEF g
<1>5. NoProposal \in Proposals /\ NoParts \in PartSets /\ NoId \in AnyId
  BY DEF NoProposal, Proposals, NoParts, PartSets, AnyId
<1>6. c \in Nodes /\ c = [s EXCEPT !.proposal = c.proposal, !.pblock = c.pblock, !.parts = c.parts]
  BY Zenon, <1>5 DEF clearedFor, Nodes
<1>7. IF r = 0 THEN c.proposal = s.proposal /\ c.pblock = s.pblock /\ c.parts = s.parts
      ELSE c.proposal = NoProposal /\ c.pblock = NoId /\ c.parts = NoParts
  BY Zenon DEF clearedFor, Nodes
<1>8. u = [c EXCEPT !.round = r, !.step = RoundStepNewRound, !.votes = g]
  BY Zenon, <1>6 DEF updateRoundStep, Nodes
<1> HIDE DEF c, u
<1>9. /\ u.height = s.height /\ u.round = r /\ u.commitRound = s.commitRound
      /\ u.lock = s.lock /\ u.valid = s.valid /\ u.votes = g
      /\ u.lastCommit = s.lastCommit /\ u.chain = s.chain /\ u.stored = s.stored
      /\ u.step = 2 /\ u.halt = s.halt /\ u.refused = s.refused /\ u.timer = s.timer
      /\ u.signer = s.signer /\ u.queue = s.queue
      /\ u.proposal = c.proposal /\ u.pblock = c.pblock /\ u.parts = c.parts
  <2>1. /\ c.height = s.height /\ c.commitRound = s.commitRound
        /\ c.lock = s.lock /\ c.valid = s.valid
        /\ c.lastCommit = s.lastCommit /\ c.chain = s.chain /\ c.stored = s.stored
        /\ c.halt = s.halt /\ c.refused = s.refused /\ c.timer = s.timer
        /\ c.signer = s.signer /\ c.queue = s.queue
    BY Zenon, <1>6 DEF Nodes
  <2> QED BY Zenon, <1>6, <1>8, <2>1 DEF Nodes, RoundStepNewRound
<1>10. u \in Nodes
  <2>1. RoundStepNewRound \in Steps
    BY DEF RoundStepNewRound, Steps
  <2> QED BY Zenon, <1>4, <1>6, <1>8, <2>1 DEF Nodes
<1>11. Ready(u)
  <2>1. RoundOK(u) /\ ChainOK(u)
    BY <1>4, <1>9 DEF RoundOK, ChainOK, Control, RoundStepNewHeight
  <2>2. CommitOK(u)
    <3>1. CASE s.commitRound = -1
      BY <1>9, <3>1 DEF CommitOK
    <3>2. CASE s.commitRound \in Nat
      <4>1. Precommits(g, s.commitRound) = Precommits(s.votes, s.commitRound)
        BY Zenon, <1>4, <3>2 DEF SameVotes, Precommits, Kinds
      <4> QED BY Zenon, <1>9, <4>1 DEF CommitOK, Control
    <3> QED BY Zenon, <1>1, <3>1, <3>2
  <2>3. SignerOK(u)
    <3>1. signedIn(1) = 0 /\ signedIn(2) = 0
      BY DEF signedIn
    <3>2. SignerOK(s)
      BY Zenon DEF Control
    <3> QED BY <1>1, <1>9, <3>1, <3>2 DEF SignerOK, Signers, RoundStepNewHeight
  <2>4. PartsOK(u)
    <3>1. CASE r = 0
      <4>1. s.step < RoundStepPrecommit
        BY <1>1, <3>1 DEF RoundStepPrecommit, RoundStepNewHeight
      <4> QED BY Zenon, <1>7, <1>9, <3>1, <4>1 DEF PartsOK, Control
    <3>2. CASE r # 0
      BY Zenon, <1>7, <1>9, <3>2 DEF PartsOK
    <3> QED BY Zenon, <3>1, <3>2
  <2>5. TimerUpTo(u, u.round)
    BY Zenon, <1>9 DEF TimerUpTo
  <2> QED BY Zenon, <1>9, <1>10, <2>1, <2>2, <2>3, <2>4, <2>5 DEF Ready, Control, running
<1>12. Begun(s, u, r)
  BY Zenon, <1>4, <1>7, <1>9, <1>11 DEF Begun
<1> QED BY Zenon, <1>3, <1>9, <1>12

\* Where enterNewRound of a round the node has not begun leads
LEMMA EnterNewRound ==
    ASSUME NEW s \in Nodes, running(s), ~s.refused, Control(s), NEW r \in Nat,
           r > s.round \/ (r = s.round /\ s.step = RoundStepNewHeight),
           TimerUpTo(s, r), NEW w \in Worlds, NEW t, t = enterNewRound(s, r, w)
    PROVE  Sane(t) /\ NewRound(s, t, r)
<1>1. s.height \in Nat /\ s.round \in Nat /\ s.timer \in Timers
  BY Zenon DEF Nodes
<1>2. PICK u : Begun(s, u, r) /\ t = tryEnterProposal(u, u.round, 1, w)
  BY RoundBegins
<1>3. /\ u \in Nodes /\ u.height = s.height /\ u.round = r /\ u.commitRound = s.commitRound
      /\ u.lock = s.lock /\ u.valid = s.valid /\ SameVotes(s.votes, u.votes)
      /\ u.lastCommit = s.lastCommit /\ u.chain = s.chain /\ u.stored = s.stored
      /\ u.step = 2 /\ u.timer = s.timer
  BY Zenon, <1>2 DEF Begun, Ready
<1>4. Sane(t) /\ TriesProposal(u, t)
  <2>1. u.step < RoundStepPropose
    BY <1>3 DEF RoundStepPropose
  <2>2. PICK one \in Nat : one = 1
    BY Zenon
  <2>3. one > 0 /\ t = tryEnterProposal(u, u.round, one, w)
    BY <1>2, <2>2
  <2>4. Ready(u)
    BY Zenon, <1>2 DEF Begun
  <2> QED BY Zenon, <2>1, <2>3, <2>4, TryEnterProposal
<1>5. /\ t \in Nodes
      /\ t.height = u.height /\ t.round = u.round /\ t.commitRound = u.commitRound
      /\ t.lock = u.lock /\ t.valid = u.valid /\ t.votes = u.votes
      /\ t.lastCommit = u.lastCommit /\ t.chain = u.chain /\ t.stored = u.stored
      /\ t.pblock = u.pblock
  <2>1. t \in Nodes /\ Moved(u, t)
    BY Zenon, <1>4, SaneNode DEF TriesProposal
  <2> QED BY Zenon, <1>3, <2>1 DEF Moved, Nodes
<1>6. t.step \in {2, 3, 4}
  BY Zenon, <1>3, <1>4 DEF TriesProposal
<1>7. ASSUME r > s.round PROVE running(t) /\ t.pblock = NoId
  <2>1. r # 0
    BY <1>1, <1>7
  <2>2. u.pblock = NoId
    BY Zenon, <1>2, <2>1 DEF Begun
  <2> QED BY Zenon, <1>4, <1>5, <2>2 DEF TriesProposal
<1>8. ASSUME Behind(s) PROVE Timely(t)
  <2>1. Earlier(u, u.round, 3)
    BY <1>1, <1>3, <1>8 DEF Behind, Earlier, TimerUpTo, Timers, RoundStepNewHeight
  <2> QED BY Zenon, <1>3, <1>4, <2>1 DEF TriesProposal, RoundStepNewRound
<1> QED
  BY Zenon, <1>3, <1>4, <1>5, <1>6, <1>7, <1>8 DEF NewRound

-----------------------------------------------------------------------------
(* Locks *)

\* The block id with two thirds of the prevotes of round r
polka(s, r) == TwoThirdsMajority(Prevotes(s.votes, r))

\* The locked block has a polka of its round, and no polka of a round before n
\* that is later than the lock is for anything else; the valid block has one too.
LockUpTo(s, n) ==
    /\ s.lock.block # NoId =>
        /\ s.lock.round =< s.round
        /\ polka(s, s.lock.round) = s.lock.block
        /\ s.lock.parts = [block |-> s.lock.block, done |-> TRUE]
        /\ \A q \in Nat : s.lock.round < q /\ q < n => polka(s, q) \in {NoId, s.lock.block}
    /\ s.valid.block # NoId =>
        /\ s.valid.round =< s.round
        /\ polka(s, s.valid.round) = s.valid.block

\* No polka is known of a round after n: the votes would have taken the node
\* there.
NoPolkaAfter(s, n) == \A q \in Nat : q > n => polka(s, q) = NoId

\* A polka of the current round has made the node precommit.
PolkaSeen(s) == polka(s, s.round) # NoId => s.step >= RoundStepPrecommit

\* The locks of a node at rest
Locked(s) == LockUpTo(s, s.round + 1) /\ NoPolkaAfter(s, s.round) /\ PolkaSeen(s)

\* t has the votes and the locks of s, and is not in an earlier round.
SameLocks(s, t) ==
    /\ t.lock = s.lock /\ t.valid = s.valid /\ SameVotes(s.votes, t.votes)
    /\ t.round >= s.round

\* The same prevotes show the same polkas.
LEMMA SamePolkas ==
    ASSUME NEW s, NEW t, SameVotes(s.votes, t.votes), NEW r \in Nat
    PROVE  polka(t, r) = polka(s, r)
BY Zenon DEF SameVotes, polka, Prevotes, Kinds

\* Locks and votes that stay leave LockUpTo as it is.
LEMMA LocksCarry ==
    ASSUME NEW s \in Nodes, NEW t \in Nodes, SameLocks(s, t), NEW n, LockUpTo(s, n)
    PROVE  LockUpTo(t, n)
<1>1. /\ s.lock.round \in Nat /\ s.valid.round \in Nat /\ s.round \in Nat /\ t.round \in Nat
  BY Zenon DEF Nodes, Locks
<1>2. \A q \in Nat : polka(t, q) = polka(s, q)
  BY Zenon, SamePolkas DEF SameLocks
<1> QED BY <1>1, <1>2 DEF LockUpTo, SameLocks

\* Without later polkas the locks carry over to any later round.
LEMMA LockedCarries ==
    ASSUME NEW s \in Nodes, NEW t \in Nodes, SameLocks(s, t), Locked(s),
           t.round > s.round \/ t.step >= s.step
    PROVE  Locked(t)
<1>1. /\ s.lock.round \in Nat /\ s.valid.round \in Nat /\ s.round \in Nat /\ t.round \in Nat
      /\ s.step \in Steps /\ t.step \in Steps /\ t.round >= s.round
  BY Zenon DEF Nodes, Locks, SameLocks
<1>2. \A q \in Nat : polka(t, q) = polka(s, q)
  BY Zenon, SamePolkas DEF SameLocks
<1>3. LockUpTo(t, s.round + 1)
  BY LocksCarry DEF Locked
<1>4. NoPolkaAfter(t, t.round)
  BY <1>1, <1>2 DEF Locked, NoPolkaAfter
<1>5. LockUpTo(t, t.round + 1)
  <2>1. \A q \in Nat : q < s.round + 1 \/ polka(t, q) = NoId
    BY <1>1, <1>2 DEF Locked, NoPolkaAfter
  <2> QED BY Zenon, <1>1, <1>3, <2>1 DEF LockUpTo
<1>6. PolkaSeen(t)
  BY <1>1, <1>2 DEF Locked, NoPolkaAfter, PolkaSeen, RoundStepPrecommit, Steps
<1> QED BY Zenon, <1>4, <1>5, <1>6 DEF Locked

-----------------------------------------------------------------------------
(* Precommitting *)

\* y is s with another lock or another block to gather.
Relocked(s, y) == y = [s EXCEPT !.lock = y.lock, !.pblock = y.pblock, !.parts = y.parts]

\* t is s in step Precommit.
Precommitted(s, t) ==
    /\ t.height = s.height /\ t.round = s.round /\ t.step = RoundStepPrecommit
    /\ t.commitRound = s.commitRound /\ t.votes = s.votes /\ t.valid = s.valid
    /\ t.lastCommit = s.lastCommit /\ t.chain = s.chain /\ t.stored = s.stored
    /\ t.timer = s.timer

\* The end of enterPrecommit: the vote is signed and the step taken.
LEMMA PrecommitStep ==
    ASSUME NEW s, Ready(s), s.step < RoundStepPrecommit, NEW y \in Nodes, Relocked(s, y),
           NEW x, Signs(y, x, 3), NEW t, t = updateRoundStep(x, s.round, RoundStepPrecommit)
    PROVE  Sane(t) /\ Precommitted(s, t) /\ t.lock = y.lock
<1>1. /\ s \in Nodes /\ running(s) /\ ~s.refused /\ Control(s) /\ TimerUpTo(s, s.round)
      /\ s.round \in Nat /\ s.height \in Nat /\ s.step \in Steps /\ s.signer \in Signers
  BY Zenon DEF Ready, Nodes
<1>2. /\ y.height = s.height /\ y.round = s.round /\ y.step = s.step
      /\ y.commitRound = s.commitRound /\ y.votes = s.votes /\ y.valid = s.valid
      /\ y.lastCommit = s.lastCommit /\ y.chain = s.chain /\ y.stored = s.stored
      /\ y.timer = s.timer /\ y.signer = s.signer /\ y.halt = s.halt /\ y.refused = s.refused
  BY Zenon, <1>1 DEF Relocked, Nodes
<1>3. x \in Nodes
  BY Zenon DEF Signs
<1>4. /\ x.height = y.height /\ x.round = y.round
      /\ x.commitRound = y.commitRound /\ x.votes = y.votes /\ x.valid = y.valid
      /\ x.lastCommit = y.lastCommit /\ x.chain = y.chain /\ x.stored = y.stored
      /\ x.timer = y.timer /\ x.refused = y.refused /\ x.lock = y.lock
  BY Zenon DEF Signs, Nodes
<1>5. x.signer \in {s.signer, [height |-> s.height, round |-> s.round, step |-> 3]}
  BY Zenon, <1>2 DEF Signs
<1>6. t = [x EXCEPT !.round = s.round, !.step = RoundStepPrecommit]
  BY Zenon DEF updateRoundStep
<1>7. t \in Nodes
  <2>1. RoundStepPrecommit \in Steps
    BY DEF RoundStepPrecommit, Steps
  <2> QED BY Zenon, <1>1, <1>3, <1>6, <2>1 DEF Nodes
<1>8. /\ t.height = x.height /\ t.round = s.round /\ t.step = RoundStepPrecommit
      /\ t.commitRound = x.commitRound /\ t.votes = x.votes /\ t.valid = x.valid
      /\ t.lastCommit = x.lastCommit /\ t.chain = x.chain /\ t.stored = x.stored
      /\ t.timer = x.timer /\ t.refused = x.refused /\ t.lock = x.lock /\ t.signer = x.signer
  BY Zenon, <1>3, <1>6 DEF Nodes
<1>9. Precommitted(s, t) /\ t.lock = y.lock /\ ~t.refused
  BY Zenon, <1>1, <1>2, <1>4, <1>8 DEF Precommitted
<1>10. RoundOK(t) /\ CommitOK(t) /\ ChainOK(t)
  BY <1>1, <1>9 DEF Control, RoundOK, CommitOK, ChainOK, Precommitted, RoundStepNewHeight,
                    RoundStepPrecommit
<1>11. PartsOK(t)
  BY <1>9 DEF PartsOK, Precommitted, RoundStepPrecommit
<1>12. SignerOK(t)
  <2>1. SignerOK(s)
    BY Zenon, <1>1 DEF Control
  <2>2. signedIn(s.step) =< 3 /\ signedIn(s.step) \in Nat /\ signedIn(t.step) = 3
    BY <1>1, <1>8 DEF signedIn, RoundStepPrecommit, Steps
  <2>3. t.signer \in {s.signer, [height |-> s.height, round |-> s.round, step |-> 3]}
        /\ t.height = s.height /\ t.round = s.round
    BY Zenon, <1>2, <1>4, <1>5, <1>8
  <2> QED BY <1>1, <2>1, <2>2, <2>3 DEF SignerOK, Signers
<1>13. TimerUpTo(t, t.round)
  BY Zenon, <1>1, <1>9 DEF TimerUpTo, Precommitted
<1> QED
  BY Zenon, <1>7, <1>9, <1>10, <1>11, <1>12, <1>13 DEF Sane, Ready, Halted, Control

\* How a node precommits, with the polka of its round: x is y after the vote,
\* and y is s after what precommitVote does to the lock first.
Chooses(s, y, x, w) ==
    LET id == polka(s, s.round)
    IN  /\ y \in Nodes /\ Relocked(s, y)
        /\ \/ id = NoId /\ y = s /\ x = signNil(y, "precommit")
           \/ /\ id # NoId /\ y.lock = Unset /\ (id = Nil \/ s.lock.block # id)
              /\ x = signNil(y, "precommit")
           \/ /\ id \in Blocks /\ y.lock.block = id /\ y.lock.round = s.round
              /\ \/ s.lock.block = id /\ y.lock.parts = s.lock.parts
                 \/ s.lock.block # id /\ s.pblock = id /\ y.lock.parts = s.parts
              /\ x = voteOn(y, "precommit", id, w)
           \/ /\ id \in Blocks /\ y = s /\ s.lock.block # id /\ s.pblock = id
              /\ w.verdict # "agree" /\ x = voteOn(y, "precommit", id, w)

\* The lock is given up.
LEMMA Unlocks ==
    ASSUME NEW s \in Nodes
    PROVE  /\ unlocked(s) \in Nodes /\ Relocked(s, unlocked(s))
           /\ unlocked(s).lock = Unset /\ Unset.block = NoId
<1>1. Unset \in Locks
  BY Zenon DEF Unset, Locks, AnyId, PartSets, NoParts
<1>2. unlocked(s) = [s EXCEPT !.lock = Unset]
  BY Zenon DEF unlocked
<1>3. unlocked(s) \in Nodes /\ unlocked(s).lock = Unset /\ unlocked(s).pblock = s.pblock
      /\ unlocked(s).parts = s.parts
  BY Zenon, <1>1, <1>2 DEF Nodes
<1>4. Relocked(s, unlocked(s))
  BY Zenon, <1>2, <1>3 DEF Relocked, Nodes
<1> QED BY <1>3, <1>4 DEF Unset

\* The lock is set.
LEMMA SetsLock ==
    ASSUME NEW s \in Nodes, NEW lock \in Locks, NEW y, y = [s EXCEPT !.lock = lock]
    PROVE  y \in Nodes /\ Relocked(s, y) /\ y.lock = lock
<1>1. y \in Nodes /\ y.lock = lock /\ y.pblock = s.pblock /\ y.parts = s.parts
  BY Zenon DEF Nodes
<1>2. Relocked(s, y)
  BY Zenon, <1>1 DEF Relocked, Nodes
<1> QED BY Zenon, <1>1, <1>2

\* precommitVote, whose assertion on POLInfo holds
LEMMA PrecommitVote ==
    ASSUME NEW s, Ready(s), NEW w \in Worlds,
           NEW x, x = precommitVote(s, s.round, polka(s, s.round), w)
    PROVE  polka(s, s.round) \in AnyId /\ \E y : Chooses(s, y, x, w)
<1> DEFINE r == s.round
           id == polka(s, s.round)
<1>1. /\ s \in Nodes /\ r \in Nat /\ s.votes \in HVSets /\ s.lock \in Locks
      /\ s.pblock \in AnyId /\ s.parts \in PartSets
  BY Zenon DEF Ready, Nodes
<1>2. id \in AnyId
  <2>1. Prevotes(s.votes, r) \in GoodSets
    BY Zenon, <1>1, SetsAreGood DEF Prevotes, Kinds
  <2> QED BY Zenon, <2>1 DEF GoodSets, VoteSets, AnyId, polka, TwoThirdsMajority
<1>3. id # NoId => POLInfo(s.votes) \in Int /\ POLInfo(s.votes) >= r
  <2>1. r \in 0..s.votes.round
    <3>1. s.votes.round \in Nat
      BY Zenon, <1>1, HVSetsFields
    <3> QED BY <1>1, <3>1 DEF Ready, Control, RoundOK
  <2>2. id # NoId => HasTwoThirdsMajority(Prevotes(s.votes, r))
    BY Zenon DEF polka, HasTwoThirdsMajority, TwoThirdsMajority
  <2>3. POLInfo(s.votes) \in Int
        /\ (HasTwoThirdsMajority(Prevotes(s.votes, r)) => r =< POLInfo(s.votes))
    BY Zenon, <1>1, <2>1, POLInfoFinds
  <2> QED BY Zenon, <1>1, <2>2, <2>3
<1>4. Relocked(s, s)
  BY Zenon, <1>1 DEF Relocked, Nodes
<1>5. CASE id = NoId
  <2>1. x = signNil(s, "precommit")
    <3>1. Nil # NoId /\ NoId \notin Blocks
      BY Zenon, ConsensusAssumption, NoIdAssumption DEF ConsensusAssumption, NoIdAssumption, Blocks
    <3> QED BY Zenon, <1>5, <3>1 DEF precommitVote
  <2> QED BY Zenon, <1>1, <1>2, <1>4, <1>5, <2>1 DEF Chooses
<1>6. CASE id = Nil /\ id # NoId
  <2>1. x = signNil(unlocked(s), "precommit")
    BY <1>3, <1>6 DEF precommitVote, Blocks
  <2> QED BY Zenon, <1>1, <1>2, <1>6, <2>1, Unlocks DEF Chooses
<1>7. CASE id # Nil /\ id # NoId
  <2>1. id \in Blocks
    BY Zenon, <1>2, <1>7 DEF Blocks, AnyId
  <2>2. x = IF s.lock.block = id THEN voteOn([s EXCEPT !.lock.round = r], "precommit", id, w)
            ELSE IF s.pblock = id THEN voteOn(lockedOn(s, r, w), "precommit", id, w)
            ELSE signNil(fetching(unlocked(s), id), "precommit")
    BY <1>3, <1>7, <2>1 DEF precommitVote
  <2>3. CASE s.lock.block = id
    <3> DEFINE y == [s EXCEPT !.lock.round = r]
               lock == [round |-> r, block |-> s.lock.block, parts |-> s.lock.parts]
    <3>1. y = [s EXCEPT !.lock = lock]
      BY <1>1 DEF Nodes, Locks
    <3>2. lock \in Locks /\ lock.round = r /\ lock.block = s.lock.block /\ lock.parts = s.lock.parts
      BY Zenon, <1>1 DEF Locks
    <3> HIDE DEF y, lock
    <3>3. y \in Nodes /\ Relocked(s, y) /\ y.lock = lock
      BY Zenon, <1>1, <3>1, <3>2, SetsLock
    <3>4. x = voteOn(y, "precommit", id, w)
      BY Zenon, <2>2, <2>3 DEF y
    <3> QED BY Zenon, <1>2, <2>1, <2>3, <3>2, <3>3, <3>4 DEF Chooses
  <2>4. CASE s.lock.block # id /\ s.pblock = id /\ w.verdict = "agree"
    <3> DEFINE y == lockedOn(s, r, w)
               lock == [round |-> r, block |-> s.pblock, parts |-> s.parts]
    <3>1. y = [s EXCEPT !.lock = lock]
      BY Zenon, <2>4 DEF lockedOn
    <3>2. lock \in Locks /\ lock.round = r /\ lock.block = s.pblock /\ lock.parts = s.parts
      BY Zenon, <1>1 DEF Locks
    <3> HIDE DEF y, lock
    <3>3. y \in Nodes /\ Relocked(s, y) /\ y.lock = lock
      BY Zenon, <1>1, <3>1, <3>2, SetsLock
    <3>4. x = voteOn(y, "precommit", id, w)
      BY Zenon, <2>2, <2>4 DEF y
    <3> QED BY Zenon, <1>2, <2>1, <2>4, <3>2, <3>3, <3>4 DEF Chooses
  <2>5. CASE s.lock.block # id /\ s.pblock = id /\ w.verdict # "agree"
    <3>1. x = voteOn(s, "precommit", id, w)
      BY Zenon, <2>2, <2>5 DEF lockedOn
    <3> QED BY Zenon, <1>1, <1>2, <1>4, <2>1, <2>5, <3>1 DEF Chooses
  <2>6. CASE s.lock.block # id /\ s.pblock # id
    <3> DEFINE z == unlocked(s)
               y == fetching(z, id)
    <3>1. z \in Nodes /\ Relocked(s, z) /\ z.lock = Unset
      BY Zenon, <1>1, Unlocks
    <3>2. x = signNil(y, "precommit")
      BY Zenon, <2>2, <2>6
    <3> HIDE DEF z
    <3>3. y \in Nodes /\ Relocked(s, y) /\ y.lock = z.lock
      <4>1. CASE z.parts.block = id
        BY Zenon, <3>1, <4>1 DEF fetching
      <4>2. CASE z.parts.block # id
        <5>1. y = [z EXCEPT !.pblock = NoId, !.parts = PartsOf(id)]
          BY Zenon, <4>2 DEF fetching
        <5>2. NoId \in AnyId /\ PartsOf(id) \in PartSets
          BY Zenon, <1>2 DEF AnyId, PartsOf, PartSets
        <5> HIDE DEF y
        <5>3. y \in Nodes /\ y.lock = z.lock /\ y.pblock = NoId /\ y.parts = PartsOf(id)
          BY Zenon, <3>1, <5>1, <5>2 DEF Nodes
        <5>4. Relocked(s, y)
          BY Zenon, <1>1, <3>1, <5>1, <5>3 DEF Relocked, Nodes
        <5> QED BY Zenon, <5>3, <5>4
      <4> QED BY Zenon, <4>1, <4>2
    <3> HIDE DEF y
    <3> QED BY Zenon, <1>2, <1>7, <2>6, <3>1, <3>2, <3>3 DEF Chooses
  <2> QED BY Zenon, <2>3, <2>4, <2>5, <2>6
<1> QED BY Zenon, <1>5, <1>6, <1>7

\* Signing a precommit after a change of the lock
LEMMA SignsPrecommit ==
    ASSUME NEW s, Ready(s), s.step < RoundStepPrecommit, NEW y \in Nodes, Relocked(s, y)
    PROVE  mayStillSign(y, SignerStep["precommit"]) /\ "precommit" \in Kinds
           /\ SignerStep["precommit"] = 3
<1>1. s \in Nodes /\ s.step \in Steps
  BY Zenon DEF Ready, Nodes
<1>2. signedIn(s.step) < 3
  BY <1>1 DEF signedIn, RoundStepPrecommit, Steps
<1>3. mayStillSign(s, 3)
  BY <1>2, StillSigns
<1>4. y.signer = s.signer /\ y.height = s.height /\ y.round = s.round
  BY Zenon, <1>1 DEF Relocked, Nodes
<1> QED BY Zenon, <1>3, <1>4 DEF mayStillSign, SignerStep, Kinds

\* A block that may be locked on: there is a polka for it, and it is complete.
\* A lock against the polka of the round is given up.
LEMMA EnterPrecommit ==
    ASSUME NEW s, Ready(s), LockUpTo(s, s.round), NEW w \in Worlds,
           s.lock.block \notin {NoId, polka(s, s.round)} /\ polka(s, s.round) # NoId
               => s.pblock = NoId,
           s.step < RoundStepPrecommit, NEW t, t = enterPrecommit(s, s.round, w)
    PROVE  Sane(t) /\ Precommitted(s, t) /\ LockUpTo(t, t.round + 1)
<1> DEFINE r == s.round
           id == polka(s, s.round)
           x == precommitVote(s, r, id, w)
<1>1. /\ s \in Nodes /\ running(s) /\ r \in Nat /\ s.step \in Steps
      /\ s.lock \in Locks /\ s.valid \in Locks /\ PartsOK(s)
  BY Zenon DEF Ready, Nodes, Control
<1>2. t = updateRoundStep(x, r, RoundStepPrecommit)
  <2>1. mayEnter(s, r, RoundStepPrecommit)
    BY <1>1 DEF mayEnter
  <2> QED BY Zenon, <2>1 DEF enterPrecommit, polka
<1>3. id \in AnyId /\ \E y : Chooses(s, y, x, w)
  BY Zenon, PrecommitVote
<1> HIDE DEF x
<1>4. PICK y : Chooses(s, y, x, w)
  BY Zenon, <1>3
\* What the locks need of the lock the node ends with
<1>5. ASSUME y \in Nodes, Relocked(s, y), Signs(y, x, 3),
             \/ y.lock.block = NoId
             \/ y.lock = s.lock /\ id \in {NoId, s.lock.block}
             \/ /\ id # NoId /\ y.lock.round = r /\ y.lock.block = id
                /\ y.lock.parts = [block |-> id, done |-> TRUE]
      PROVE  Sane(t) /\ Precommitted(s, t) /\ LockUpTo(t, t.round + 1)
  <2>1. Sane(t) /\ Precommitted(s, t) /\ t.lock = y.lock
    BY <1>2, <1>5, PrecommitStep
  <2>2. t.round = r /\ t.valid = s.valid /\ \A q \in Nat : polka(t, q) = polka(s, q)
    BY Zenon, <2>1 DEF Precommitted, polka
  <2> DEFINE validOK == t.valid.block # NoId => /\ t.valid.round =< t.round
                                                 /\ polka(t, t.valid.round) = t.valid.block
  <2>3. validOK
    BY Zenon, <1>1, <2>2 DEF LockUpTo, Locks
  <2>4. CASE y.lock.block = NoId
    BY Zenon, <2>1, <2>3, <2>4 DEF LockUpTo
  <2>5. CASE y.lock = s.lock /\ id \in {NoId, s.lock.block}
    <3>1. \A q \in Nat : q < r + 1 => q < r \/ q = r
      BY <1>1
    <3>2. polka(s, r) = id
      BY Zenon
    <3> HIDE DEF id, r, validOK
    <3>3. s.lock.block # NoId =>
             /\ s.lock.round =< r /\ polka(s, s.lock.round) = s.lock.block
             /\ s.lock.parts = [block |-> s.lock.block, done |-> TRUE]
             /\ \A q \in Nat : s.lock.round < q /\ q < r => polka(s, q) \in {NoId, s.lock.block}
      BY Zenon DEF LockUpTo, r
    <3>4. s.lock.block # NoId =>
             \A q \in Nat : s.lock.round < q /\ q < r + 1 => polka(s, q) \in {NoId, s.lock.block}
      BY Zenon, <2>5, <3>1, <3>2, <3>3
    <3>5. s.lock.round \in Nat
      BY Zenon, <1>1 DEF Locks
    <3> QED BY Zenon, <2>1, <2>2, <2>3, <2>5, <3>3, <3>4, <3>5 DEF LockUpTo, validOK
  <2>6. CASE /\ id # NoId /\ y.lock.round = r /\ y.lock.block = id
             /\ y.lock.parts = [block |-> id, done |-> TRUE]
    <3>1. \A q \in Nat : ~(r < q /\ q < r + 1)
      BY <1>1
    <3> QED BY <1>1, <2>1, <2>2, <2>3, <2>6, <3>1 DEF LockUpTo
  <2> QED BY Zenon, <1>5, <2>4, <2>5, <2>6
<1>6. y \in Nodes /\ Relocked(s, y)
  BY Zenon, <1>4 DEF Chooses
<1>7. /\ mayStillSign(y, SignerStep["precommit"]) /\ "precommit" \in Kinds
      /\ SignerStep["precommit"] = 3
  BY Zenon, <1>6, SignsPrecommit
<1>8. \/ x = signNil(y, "precommit")
      \/ id \in Blocks /\ x = voteOn(y, "precommit", id, w)
  BY Zenon, <1>4 DEF Chooses
<1>9. Signs(y, x, 3)
  <2>1. CASE x = signNil(y, "precommit")
    BY Zenon, <1>6, <1>7, <2>1, SignNil
  <2>2. CASE id \in Blocks /\ x = voteOn(y, "precommit", id, w)
    <3>1. id \in Ids
      BY Zenon, <2>2 DEF Blocks
    <3> QED BY Zenon, <1>6, <1>7, <2>2, <3>1, VoteOn
  <2> QED BY Zenon, <1>8, <2>1, <2>2
<1>10. NoId \notin Blocks
  BY Zenon, NoIdAssumption DEF NoIdAssumption, Blocks
<1>11. \/ y.lock.block = NoId
       \/ y.lock = s.lock /\ id \in {NoId, s.lock.block}
       \/ /\ id # NoId /\ y.lock.round = r /\ y.lock.block = id
          /\ y.lock.parts = [block |-> id, done |-> TRUE]
  <2>1. CASE id = NoId /\ y = s
    BY Zenon, <2>1
  <2>2. CASE y.lock = Unset
    BY Zenon, <1>1, <2>2, Unlocks
  <2>3. CASE /\ id \in Blocks /\ y.lock.block = id /\ y.lock.round = r
             /\ s.lock.block = id /\ y.lock.parts = s.lock.parts
    BY Zenon, <1>10, <2>3 DEF LockUpTo
  <2>4. CASE /\ id \in Blocks /\ y.lock.block = id /\ y.lock.round = r
             /\ s.pblock = id /\ y.lock.parts = s.parts
    BY Zenon, <1>1, <1>10, <2>4 DEF PartsOK
  <2>5. CASE id \in Blocks /\ y = s /\ s.lock.block # id /\ s.pblock = id
    BY Zenon, <1>10, <2>5
  <2> QED BY Zenon, <1>4, <2>1, <2>2, <2>3, <2>4, <2>5 DEF Chooses
<1> QED BY Zenon, <1>5, <1>6, <1>9, <1>11

-----------------------------------------------------------------------------
(* Committing and the next height *)

\* No block is cached for want of its parent: see README.
ParentsAreThere == "cached" \notin Outcomes

\* A node at rest
Fine(s) == /\ Sane(s)
           /\ LockUpTo(s, s.round + 1)
           /\ running(s) => Locked(s)

\* t is s at the start of the next height.
NextHeight(s, t) ==
    /\ t.height = s.chain + 1 /\ t.round = 0 /\ t.step = RoundStepNewHeight
    /\ t.proposal = NoProposal /\ t.pblock = NoId /\ t.parts = NoParts
    /\ t.lock = Unset /\ t.valid = Unset /\ t.votes = NewHeightVoteSet /\ t.commitRound = -1
    /\ t.timer = s.timer /\ t.signer = s.signer /\ t.refused = s.refused
    /\ t.chain = s.chain /\ t.queue = s.queue /\ t.stored = s.stored /\ t.halt = s.halt

\* updateToState of a node with CommitOK: its assertion holds.
LEMMA UpdateToState ==
    ASSUME NEW s \in Nodes, CommitOK(s), NEW t, t = updateToState(s)
    PROVE  t \in Nodes /\ NextHeight(s, t)
<1> DEFINE set == Precommits(s.votes, s.commitRound)
           last == IF s.commitRound > -1 THEN [round |-> s.commitRound, set |-> set] ELSE NoId
           h == s.chain + 1
<1>1. t = [s EXCEPT !.height = h, !.round = 0, !.step = RoundStepNewHeight,
                    !.proposal = NoProposal, !.pblock = NoId, !.parts = NoParts,
                    !.lock = Unset, !.valid = Unset,
                    !.votes = NewHeightVoteSet, !.commitRound = -1, !.lastCommit = last]
  BY Zenon DEF updateToState, CommitOK
<1>2. set \in GoodSets
  BY Zenon, SetsAreGood DEF Precommits, Nodes, Kinds
<1> HIDE DEF set
<1>3. last \in Commits
  <2>1. s.commitRound \in Nat \cup {-1}
    BY Zenon DEF Nodes
  <2>2. CASE s.commitRound \in Nat
    <3>1. [round |-> s.commitRound, set |-> set] \in Commits
      BY Zenon, <1>2, <2>2 DEF Commits
    <3> QED BY <2>2, <3>1
  <2>3. CASE s.commitRound = -1
    BY <2>3 DEF Commits
  <2> QED BY Zenon, <2>1, <2>2, <2>3
<1>4. /\ h \in Nat /\ RoundStepNewHeight \in Steps /\ NoProposal \in Proposals /\ NoId \in AnyId
      /\ NoParts \in PartSets /\ Unset \in Locks /\ -1 \in Nat \cup {-1} /\ 0 \in Nat
  BY DEF Nodes, RoundStepNewHeight, Steps, NoProposal, Proposals, AnyId, NoParts, PartSets, Unset, Locks
<1>5. NewHeightVoteSet \in HVSets
  BY Zenon, NewVotes
<1> HIDE DEF last, h
<1>6. t \in Nodes
  <2> DEFINE none == -1
             zero == 0
  <2>2. none \in Nat \cup {-1} /\ zero \in Nat
    BY Zenon
  <2> DEFINE u == [s EXCEPT !.height = h, !.round = zero, !.step = RoundStepNewHeight,
                             !.proposal = NoProposal, !.pblock = NoId, !.parts = NoParts]
  <2>3. t = [u EXCEPT !.lock = Unset, !.valid = Unset,
                      !.votes = NewHeightVoteSet, !.commitRound = none, !.lastCommit = last]
    BY Zenon, <1>1
  <2> HIDE DEF none, zero
  <2>4. u \in Nodes
    BY Zenon, <1>4, <2>2 DEF Nodes
  <2> HIDE DEF u
  <2> DEFINE v == [u EXCEPT !.lock = Unset, !.valid = Unset, !.votes = NewHeightVoteSet]
  <2>5. v \in Nodes
    BY Zenon, <1>4, <1>5, <2>4 DEF Nodes
  <2>6. t = [v EXCEPT !.commitRound = none, !.lastCommit = last]
    BY Zenon, <2>3
  <2> HIDE DEF v
  <2> QED BY Zenon, <1>3, <2>2, <2>5, <2>6 DEF Nodes
<1>7. NextHeight(s, t)
  <2>1. /\ t.height = h /\ t.round = 0 /\ t.step = RoundStepNewHeight
        /\ t.proposal = NoProposal /\ t.pblock = NoId /\ t.parts = NoParts
        /\ t.lock = Unset /\ t.valid = Unset /\ t.votes = NewHeightVoteSet /\ t.commitRound = -1
        /\ t.timer = s.timer /\ t.signer = s.signer /\ t.refused = s.refused
        /\ t.chain = s.chain /\ t.queue = s.queue /\ t.stored = s.stored /\ t.halt = s.halt
    BY <1>1 DEF Nodes
  <2> QED BY Zenon, <2>1 DEF NextHeight, h
<1> QED BY Zenon, <1>6, <1>7

\* t starts a height as NextHeight does, whatever its timer and its signer.
Fresh(t) ==
    /\ t.height = t.chain + 1 /\ t.round = 0 /\ t.step = RoundStepNewHeight
    /\ t.proposal = NoProposal /\ t.pblock = NoId /\ t.parts = NoParts
    /\ t.lock = Unset /\ t.valid = Unset /\ t.votes = NewHeightVoteSet /\ t.commitRound = -1

\* A height that starts has nothing locked and nothing to check.
LEMMA FreshNode ==
    ASSUME NEW t \in Nodes, Fresh(t)
    PROVE  /\ RoundOK(t) /\ CommitOK(t) /\ PartsOK(t) /\ ChainOK(t)
           /\ Locked(t) /\ LockUpTo(t, t.round + 1)
           /\ t.signer.height < t.height => SignerOK(t)
<1>1. t.chain \in Nat /\ t.height \in Nat /\ t.signer \in Signers
  BY Zenon DEF Nodes
<1>2. RoundOK(t) /\ CommitOK(t)
  <2>1. t.votes.round = 0 /\ t.round = 0 /\ t.commitRound = -1
    BY Zenon, NewVotes DEF Fresh
  <2> QED BY <2>1 DEF RoundOK, CommitOK
<1>3. PartsOK(t)
  BY Zenon DEF Fresh, PartsOK
<1>4. ChainOK(t)
  BY <1>1 DEF Fresh, ChainOK
<1>5. \A q \in Nat : polka(t, q) = NoId
  BY Zenon, NewVotes DEF Fresh, polka, Prevotes, Kinds
<1>6. t.lock.block = NoId /\ t.valid.block = NoId
  BY DEF Fresh, Unset
<1>7. Locked(t) /\ LockUpTo(t, t.round + 1)
  <2>1. t.round \in Nat
    BY Zenon DEF Nodes
  <2> QED BY Zenon, <1>5, <1>6, <2>1 DEF Locked, LockUpTo, NoPolkaAfter, PolkaSeen
<1>8. t.signer.height < t.height => SignerOK(t)
  BY <1>1 DEF SignerOK, Signers
<1> QED BY Zenon, <1>2, <1>3, <1>4, <1>7, <1>8

\* The height starts with its timeout, if the ticker has seen no tick of it.
LEMMA StartHeight ==
    ASSUME NEW s \in Nodes, running(s), ~s.refused, Fresh(s), s.signer.height < s.height,
           s.timer.height < s.height, NEW t, t = scheduleRound0(s)
    PROVE  Ready(t) /\ Locked(t) /\ LockUpTo(t, t.round + 1) /\ Timely(t)
<1>1. s.height \in Nat /\ s.timer \in Timers /\ s.round = 0
  BY Zenon DEF Nodes, Fresh
<1>2. Scheduled(s, t, 0, RoundStepNewHeight, 1)
  <2>1. 0 \in Nat /\ 1 \in Nat /\ RoundStepNewHeight \in {1, 2, 3, 5, 7}
    BY Zenon DEF RoundStepNewHeight
  <2>2. t = scheduleTimeout(s, 0, RoundStepNewHeight, 1)
    BY Zenon DEF scheduleRound0
  <2> QED BY Zenon, <2>1, <2>2, ScheduleTimeout
<1>3. t \in Nodes /\ t = [s EXCEPT !.timer = t.timer] /\ t.timer = Tick(s, 0, RoundStepNewHeight, 1)
  BY Zenon, <1>2 DEF Scheduled, OnlyTimer, Earlier
<1>4. /\ Fresh(t) /\ t.signer = s.signer /\ t.height = s.height /\ running(t) /\ ~t.refused
      /\ t.step = 1 /\ t.round = 0
  BY Zenon, <1>3 DEF Fresh, Nodes, running, RoundStepNewHeight
<1>5. TimerUpTo(t, t.round)
  BY <1>1, <1>3, <1>4 DEF TimerUpTo, Tick, RoundStepNewHeight
<1>6. /\ RoundOK(t) /\ CommitOK(t) /\ PartsOK(t) /\ ChainOK(t)
      /\ Locked(t) /\ LockUpTo(t, t.round + 1) /\ SignerOK(t)
  BY Zenon, <1>3, <1>4, FreshNode
<1>7. Timely(t)
  BY <1>1, <1>3, <1>4 DEF Timely, Behind, Covered, Tick, RoundStepNewHeight, RoundStepNewRound
<1> QED
  BY Zenon, <1>3, <1>4, <1>5, <1>6, <1>7 DEF Ready, Control

\* finalizeCommit, for each outcome of ConsensusCommit: the node stays in
\* Commit, or starts the next height with its timeout, or panics.
LEMMA FinalizeCommit ==
    ASSUME NEW s, Ready(s), Locked(s), s.step = RoundStepCommit, NEW w \in Worlds, NEW id,
           ParentsAreThere, NEW t, t = finalizeCommit(s, id, w)
    PROVE  Fine(t) /\ (Behind(s) /\ running(t) => Timely(t))
<1>1. /\ s \in Nodes /\ running(s) /\ ~s.refused /\ Control(s) /\ TimerUpTo(s, s.round)
      /\ s.height \in Nat /\ s.chain \in Nat /\ s.round \in Nat /\ s.signer \in Signers
      /\ s.timer \in Timers /\ s.pblock \in AnyId /\ s.parts \in PartSets
  BY Zenon DEF Ready, Nodes
<1>2. w.outcome \in {"inserted", "failed", "unsent"}
  BY Zenon, ConsensusAssumption DEF ConsensusAssumption, Worlds, ParentsAreThere
<1>3. CASE s.parts.block # id
  <2>1. t = [s EXCEPT !.halt = "finalizeCommit"]
    BY Zenon, <1>3 DEF finalizeCommit, panic
  <2>2. t \in Nodes
    <3>1. "finalizeCommit" \in Halts
      BY Zenon DEF Halts
    <3> QED BY Zenon, <1>1, <2>1, <3>1 DEF Nodes
  <2>3. t.round = s.round /\ t.lock = s.lock /\ t.valid = s.valid /\ t.votes = s.votes
        /\ t.halt = "finalizeCommit" /\ t.refused = s.refused
    BY Zenon, <1>1, <2>1 DEF Nodes
  <2>4. SameLocks(s, t)
    BY <1>1, <2>3 DEF SameLocks, SameVotes
  <2>5. LockUpTo(t, t.round + 1)
    BY <1>1, <2>2, <2>3, <2>4, LocksCarry DEF Locked
  <2>6. ~running(t)
    BY Zenon, <2>3 DEF running
  <2> QED BY Zenon, <1>1, <2>2, <2>3, <2>5, <2>6 DEF Fine, Sane, Halted
<1> DEFINE c == committed(s, w)
<1>4. c \in Nodes /\ c = [s EXCEPT !.chain = c.chain] /\ c.chain \in {s.chain, s.height}
  <2>1. s = [s EXCEPT !.chain = s.chain]
    BY Zenon, <1>1 DEF Nodes
  <2>2. CASE w.outcome \in {"inserted", "unsent"} /\ s.chain < s.height
    <3>1. c = [s EXCEPT !.chain = s.height]
      BY Zenon, <2>2 DEF committed
    <3>2. c \in Nodes /\ c.chain = s.height
      BY Zenon, <1>1, <3>1 DEF Nodes
    <3> QED BY Zenon, <3>1, <3>2
  <2>3. CASE ~(w.outcome \in {"inserted", "unsent"} /\ s.chain < s.height)
    BY Zenon, <1>1, <2>1, <2>3 DEF committed
  <2> QED BY Zenon, <2>2, <2>3
<1>5. w.outcome = "inserted" => c.chain = s.height
  <2>1. s.height \in {s.chain, s.chain + 1}
    BY Zenon, <1>1 DEF Control, ChainOK
  <2> QED BY <1>1, <2>1 DEF committed, Nodes
<1> HIDE DEF c
<1>6. /\ c.height = s.height /\ c.round = s.round /\ c.step = s.step /\ c.commitRound = s.commitRound
      /\ c.proposal = s.proposal /\ c.pblock = s.pblock /\ c.parts = s.parts
      /\ c.lock = s.lock /\ c.valid = s.valid /\ c.votes = s.votes
      /\ c.timer = s.timer /\ c.signer = s.signer /\ c.halt = s.halt /\ c.refused = s.refused
  BY Zenon, <1>1, <1>4 DEF Nodes
<1>7. CASE s.parts.block = id /\ w.outcome \in {"failed", "unsent"}
  <2>1. t = c
    BY Zenon, <1>7 DEF finalizeCommit, c
  <2>2. Ready(c)
    <3>1. RoundOK(c) /\ CommitOK(c) /\ SignerOK(c) /\ PartsOK(c)
      BY Zenon, <1>1, <1>6 DEF Control, RoundOK, CommitOK, SignerOK, PartsOK
    <3>2. ChainOK(c)
      BY Zenon, <1>1, <1>4, <1>6 DEF Control, ChainOK
    <3>3. TimerUpTo(c, c.round)
      BY Zenon, <1>1, <1>6 DEF TimerUpTo
    <3> QED BY Zenon, <1>1, <1>4, <1>6, <3>1, <3>2, <3>3 DEF Ready, Control, running
  <2>3. SameLocks(s, c) /\ c.step >= s.step
    <3>1. s.step \in Steps
      BY Zenon, <1>1 DEF Nodes
    <3> QED BY <1>1, <1>6, <3>1 DEF SameLocks, SameVotes, Steps
  <2>4. Locked(c)
    BY Zenon, <1>1, <1>4, <2>3, LockedCarries
  <2>5. Behind(s) => Timely(c)
    BY <1>6 DEF Behind, Timely, Covered, RoundStepCommit, RoundStepNewRound
  <2> QED BY Zenon, <2>1, <2>2, <2>4, <2>5 DEF Fine, Sane, Locked
<1>8. CASE s.parts.block = id /\ w.outcome = "inserted"
  <2> DEFINE d == saved(c)
             u == updateToState(d)
  <2>1. t = scheduleRound0(u)
    BY Zenon, <1>8 DEF finalizeCommit, c
  <2>2. d \in Nodes /\ d = [c EXCEPT !.stored = d.stored]
    <3>1. c = [c EXCEPT !.stored = c.stored]
      BY Zenon, <1>4 DEF Nodes
    <3>2. c.stored \cup {[height |-> c.height, block |-> c.pblock, parts |-> c.parts]} \in SUBSET Stored
      BY <1>1, <1>4, <1>6 DEF Nodes, Stored
    <3> DEFINE more == c.stored \cup {[height |-> c.height, block |-> c.pblock, parts |-> c.parts]}
    <3>3. d = [c EXCEPT !.stored = more] \/ d = c
      BY Zenon DEF saved
    <3> HIDE DEF more, d
    <3>4. CASE d = [c EXCEPT !.stored = more]
      <4>1. d \in Nodes /\ d.stored = more
        BY Zenon, <1>4, <3>2, <3>4 DEF Nodes, more
      <4> QED BY Zenon, <3>4, <4>1
    <3>5. CASE d = c
      BY Zenon, <1>4, <3>1, <3>5
    <3> QED BY Zenon, <3>3, <3>4, <3>5
  <2> HIDE DEF d
  <2>3. /\ d.commitRound = s.commitRound /\ d.votes = s.votes /\ d.chain = s.height
        /\ d.timer = s.timer /\ d.signer = s.signer /\ d.halt = s.halt /\ d.refused = s.refused
    BY Zenon, <1>4, <1>5, <1>6, <1>8, <2>2 DEF Nodes
  <2>4. CommitOK(d)
    BY Zenon, <1>1, <2>3 DEF Control, CommitOK
  <2>5. u \in Nodes /\ NextHeight(d, u)
    BY Zenon, <2>2, <2>4, UpdateToState
  <2> HIDE DEF u
  <2>6. Fresh(u) /\ running(u) /\ ~u.refused
    BY Zenon, <1>1, <2>3, <2>5 DEF NextHeight, Fresh, running
  <2>7. u.height = s.height + 1 /\ u.signer = s.signer /\ u.timer = s.timer
    BY Zenon, <2>3, <2>5 DEF NextHeight
  <2>8. u.signer.height < u.height /\ u.timer.height < u.height
    BY <1>1, <2>7 DEF Control, SignerOK, TimerUpTo, Signers, Timers
  <2>9. Ready(t) /\ Locked(t) /\ LockUpTo(t, t.round + 1) /\ Timely(t)
    BY Zenon, <2>1, <2>5, <2>6, <2>8, StartHeight
  <2> QED BY Zenon, <2>9 DEF Fine, Sane
<1> QED BY Zenon, <1>2, <1>3, <1>7, <1>8

\* tryFinalizeCommit of a node in Commit
LEMMA TryFinalizeCommit ==
    ASSUME NEW s, Ready(s), Locked(s), s.step = RoundStepCommit, NEW w \in Worlds,
           ParentsAreThere, NEW t, t = tryFinalizeCommit(s, w)
    PROVE  Fine(t) /\ (Behind(s) /\ running(t) => Timely(t))
<1> DEFINE id == TwoThirdsMajority(Precommits(s.votes, s.commitRound))
<1>1. CASE running(s) /\ id \in Blocks /\ s.pblock = id
  <2>1. t = finalizeCommit(s, id, w)
    BY Zenon, <1>1 DEF tryFinalizeCommit
  <2> QED BY Zenon, <2>1, FinalizeCommit
<1>2. CASE ~(running(s) /\ id \in Blocks /\ s.pblock = id)
  <2>1. t = s
    BY Zenon, <1>2 DEF tryFinalizeCommit
  <2>2. Behind(s) => Timely(s)
    BY DEF Timely, Covered, RoundStepCommit, RoundStepNewRound
  <2> QED BY Zenon, <2>1, <2>2 DEF Fine, Sane, Locked
<1> QED BY Zenon, <1>1, <1>2

\* y is s in step Commit, with what commitSetUp does to the block.
InCommit(s, y, c) ==
    /\ Ready(y) /\ Locked(y) /\ y.step = RoundStepCommit /\ y.commitRound = c
    /\ y.height = s.height /\ y.round = s.round /\ y.lock = s.lock /\ y.valid = s.valid
    /\ y.votes = s.votes /\ y.timer = s.timer /\ y.signer = s.signer /\ y.chain = s.chain
    /\ y.queue = s.queue /\ y.stored = s.stored

\* enterCommit with a majority of precommits: its assertion holds.
LEMMA CommitBegins ==
    ASSUME NEW s, Ready(s), Locked(s), NEW w, NEW c \in Nat,
           HasTwoThirdsMajority(Precommits(s.votes, c)), s.step < RoundStepCommit,
           NEW t, t = enterCommit(s, c, w)
    PROVE  \E y : InCommit(s, y, c) /\ t = tryFinalizeCommit(y, w)
<1> DEFINE id == TwoThirdsMajority(Precommits(s.votes, c))
           x == commitSetUp(s, id)
           y == [x EXCEPT !.step = RoundStepCommit, !.commitRound = c]
<1>1. /\ s \in Nodes /\ running(s) /\ ~s.refused /\ Control(s) /\ TimerUpTo(s, s.round)
      /\ s.step \in Steps /\ s.votes \in HVSets /\ s.round \in Nat /\ s.height \in Nat
      /\ s.signer \in Signers
  BY Zenon DEF Ready, Nodes
<1>2. id # NoId
  BY Zenon DEF HasTwoThirdsMajority, TwoThirdsMajority
<1>3. id \in Ids
  <2>1. Precommits(s.votes, c) \in GoodSets
    BY Zenon, <1>1, SetsAreGood DEF Precommits, Kinds
  <2> QED BY Zenon, <1>2, <2>1 DEF GoodSets, VoteSets, TwoThirdsMajority
<1>4. t = tryFinalizeCommit(y, w)
  <2>1. ~(~running(s) \/ RoundStepCommit =< s.step)
    BY <1>1 DEF RoundStepCommit, Steps
  <2> QED BY Zenon, <1>2, <2>1 DEF enterCommit
<1> HIDE DEF id
<1>5. x \in Nodes /\ x = [s EXCEPT !.pblock = x.pblock, !.parts = x.parts]
  <2> DEFINE z == IF s.lock.block = id
                  THEN [s EXCEPT !.pblock = s.lock.block, !.parts = s.lock.parts] ELSE s
  <2>1. z \in Nodes /\ z = [s EXCEPT !.pblock = z.pblock, !.parts = z.parts]
    BY Zenon, <1>1 DEF Nodes, Locks
  <2>2. x \in {z, fetching(z, id)}
    BY Zenon DEF commitSetUp
  <2> HIDE DEF z, x
  <2>3. CASE x = z
    BY Zenon, <2>1, <2>3
  <2>4. CASE x = fetching(z, id)
    <3>1. NoId \in AnyId /\ PartsOf(id) \in PartSets
      BY Zenon, <1>3 DEF AnyId, PartsOf, PartSets
    <3>2. x = z \/ x = [z EXCEPT !.pblock = NoId, !.parts = PartsOf(id)]
      BY Zenon, <2>4 DEF fetching
    <3>3. CASE x = [z EXCEPT !.pblock = NoId, !.parts = PartsOf(id)]
      <4>1. x \in Nodes /\ x.pblock = NoId /\ x.parts = PartsOf(id)
        BY Zenon, <2>1, <3>1, <3>3 DEF Nodes
      <4> QED BY Zenon, <1>1, <2>1, <3>3, <4>1 DEF Nodes
    <3> QED BY Zenon, <2>1, <3>2, <3>3
  <2> QED BY Zenon, <2>2, <2>3, <2>4
<1> HIDE DEF x
<1>6. y \in Nodes
  <2>1. RoundStepCommit \in Steps
    BY DEF RoundStepCommit, Steps
  <2> QED BY Zenon, <1>5, <2>1 DEF Nodes
<1>7. /\ y.height = s.height /\ y.round = s.round /\ y.step = RoundStepCommit /\ y.commitRound = c
      /\ y.lock = s.lock /\ y.valid = s.valid /\ y.votes = s.votes
      /\ y.timer = s.timer /\ y.signer = s.signer /\ y.halt = s.halt /\ y.refused = s.refused
      /\ y.chain = s.chain /\ y.queue = s.queue /\ y.stored = s.stored
  <2>1. /\ x.height = s.height /\ x.round = s.round
        /\ x.lock = s.lock /\ x.valid = s.valid /\ x.votes = s.votes
        /\ x.timer = s.timer /\ x.signer = s.signer /\ x.halt = s.halt /\ x.refused = s.refused
        /\ x.chain = s.chain /\ x.queue = s.queue /\ x.stored = s.stored
    BY Zenon, <1>1, <1>5 DEF Nodes
  <2> QED BY Zenon, <1>5, <2>1 DEF Nodes
<1> HIDE DEF y
<1>8. Ready(y)
  <2>1. RoundOK(y) /\ ChainOK(y)
    BY <1>1, <1>7 DEF Control, RoundOK, ChainOK, RoundStepNewHeight, RoundStepCommit
  <2>2. CommitOK(y)
    BY Zenon, <1>7 DEF CommitOK
  <2>3. PartsOK(y)
    BY <1>7 DEF PartsOK, RoundStepCommit, RoundStepPrecommit
  <2>4. SignerOK(y)
    <3>1. SignerOK(s)
      BY Zenon, <1>1 DEF Control
    <3>2. signedIn(s.step) =< signedIn(y.step) /\ signedIn(s.step) \in Nat /\ signedIn(y.step) \in Nat
      BY <1>1, <1>7 DEF signedIn, RoundStepCommit, Steps
    <3> QED BY <1>1, <1>7, <3>1, <3>2 DEF SignerOK, Signers
  <2>5. TimerUpTo(y, y.round)
    BY Zenon, <1>1, <1>7 DEF TimerUpTo
  <2> QED BY Zenon, <1>1, <1>6, <1>7, <2>1, <2>2, <2>3, <2>4, <2>5 DEF Ready, Control, running
<1>9. Locked(y)
  <2>1. SameLocks(s, y) /\ y.step >= s.step
    BY <1>1, <1>7 DEF SameLocks, SameVotes, Steps, RoundStepCommit
  <2> QED BY Zenon, <1>1, <1>6, <2>1, LockedCarries
<1> QED BY Zenon, <1>4, <1>7, <1>8, <1>9 DEF InCommit

\* enterCommit, and the block that may be there already
LEMMA EnterCommit ==
    ASSUME NEW s, Ready(s), Locked(s), NEW w \in Worlds, NEW c \in Nat,
           HasTwoThirdsMajority(Precommits(s.votes, c)), s.step < RoundStepCommit,
           ParentsAreThere, NEW t, t = enterCommit(s, c, w)
    PROVE  Fine(t) /\ (Behind(s) /\ running(t) => Timely(t))
<1>1. PICK y : InCommit(s, y, c) /\ t = tryFinalizeCommit(y, w)
  BY CommitBegins
<1>2. Ready(y) /\ Locked(y) /\ y.step = RoundStepCommit
  BY Zenon, <1>1 DEF InCommit
<1>3. Behind(s) => Behind(y)
  <2>1. s.timer \in Timers /\ s.step \in Steps /\ s.round \in Nat /\ s.height \in Nat
    BY Zenon DEF Ready, Nodes
  <2>2. y.timer = s.timer /\ y.step = RoundStepCommit /\ y.round = s.round /\ y.height = s.height
    BY Zenon, <1>1 DEF InCommit
  <2> QED BY <2>1, <2>2 DEF Behind, Timers, Steps, RoundStepCommit
<1> QED BY Zenon, <1>1, <1>2, <1>3, TryFinalizeCommit

===============================================================================
