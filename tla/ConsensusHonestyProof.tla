------------------------ MODULE ConsensusHonestyProof ------------------------
(***************************************************************************)
(* The votes a ConsensusState has signed, on record or still in its queue, *)
(* obey the rules of a correct validator: a node that does is Honest.  The *)
(* lemmas follow the calls of state.go up to addVote: each says that a     *)
(* method keeps a node Honest, for every committee, distribution of power, *)
(* set of peers and of block ids.                                          *)
(***************************************************************************)
EXTENDS ConsensusStateProof

\* Leaves that name no prover are Zenon's.
USE Zenon

-----------------------------------------------------------------------------
(* The votes on record and the votes in the queue *)

\* The votes of height 1 that may be on record
Records == [Kinds -> SUBSET (Validators \X Nat \X Ids)]

\* The validators with a vote of kind k for x in round r on record
VotersOn(rec, k, r, x) == {v \in Validators : <<v, r, x>> \in rec[k]}

\* The polkas and the commits that the record shows
PolkaOn(rec, r, x) == IsQuorum(VotersOn(rec, "prevote", r, x))

CommitOn(rec, r, b) == IsQuorum(VotersOn(rec, "precommit", r, b))

\* The positions in the queue of own votes of height 1 that agree
Pending(s) == {i \in DOMAIN s.queue :
                 s.queue[i].type = "vote" /\ s.queue[i].height = 1 /\ s.queue[i].res = "agree"}

\* The node has cast this vote: it is on record or waits in the queue.
Casts(s, rec, k, r, x) ==
    \/ <<Self, r, x>> \in rec[k]
    \/ \E i \in Pending(s) :
          s.queue[i].kind = k /\ s.queue[i].round = r /\ s.queue[i].id = x

\* The order in which a node votes: round by round, the prevote first
place(r, k) == IF k = "prevote" THEN 2 * r ELSE 2 * r + 1

\* The votes in the queue are in order, those on record come before them, and
\* the signer has gone as far as the last one.
InOrder(s, rec) ==
    /\ \A i \in Pending(s) : s.queue[i].v = Self
    /\ \A i, j \in Pending(s) : i < j =>
          place(s.queue[i].round, s.queue[i].kind) < place(s.queue[j].round, s.queue[j].kind)
    /\ \A k \in Kinds, r \in Nat, x \in Ids : <<Self, r, x>> \in rec[k] =>
          \A i \in Pending(s) : place(r, k) < place(s.queue[i].round, s.queue[i].kind)
    /\ s.height = 1 =>
          \A k \in Kinds, r \in Nat, x \in Ids : Casts(s, rec, k, r, x) =>
              s.signer.height = 1 /\ place(r, k) =< 2 * s.signer.round + s.signer.step - 2

\* A later polka for something else than b, in a round between c and r
Overruled(rec, c, r, b) ==
    \E q \in Nat, y \in Ids \ {b} : c < q /\ q < r /\ PolkaOn(rec, q, y)

\* A precommit for a block has a polka of its round, and a prevote against it
\* has a later polka for something else.
Justified(s, rec) ==
    \A c \in Nat, b \in Blocks : Casts(s, rec, "precommit", c, b) =>
        /\ PolkaOn(rec, c, b)
        /\ \A r \in Nat, x \in Ids \ {b} :
              c < r /\ Casts(s, rec, "prevote", r, x) => Overruled(rec, c, r, b)

\* The lock still stands for a precommit for b in round c, or a later polka
\* has released it.
HeldFor(s, c, b) ==
    \/ s.lock.block = b /\ c =< s.lock.round
    \/ \E q \in Nat : c < q /\ q =< s.round /\ polka(s, q) \notin {NoId, b}

Holds(s, rec) ==
    s.height = 1 => \A c \in Nat, b \in Blocks :
        Casts(s, rec, "precommit", c, b) => c =< s.round /\ HeldFor(s, c, b)

\* What the vote sets of height 1 count is on record.
Counted(s, rec) ==
    s.height = 1 => \A r \in Nat, k \in Kinds, id \in Ids :
        \A v \in Agreeing(getVoteSet(s.votes, r, k), id) : <<v, r, id>> \in rec[k]

\* The blocks of height 1 in the block store
At1(s) == {b.block : b \in {c \in s.stored : c.height = 1}}

\* D is what was stored of height 1: it stays, or a committed block is added
\* to an empty store.
Keeps(s, rec, D) ==
    /\ s.height = 1 => At1(s) = {}
    /\ \/ At1(s) = D
       \/ D = {} /\ \E b \in Blocks, c \in Nat : At1(s) = {b} /\ CommitOn(rec, c, b)

\* A node whose votes obey the rules
Honest(s, rec, D) == /\ InOrder(s, rec) /\ Justified(s, rec) /\ Holds(s, rec)
                     /\ Counted(s, rec) /\ Keeps(s, rec, D)

-----------------------------------------------------------------------------
(* What is on record, and what stays *)

\* A majority of a vote set of height 1 is a quorum of votes on record.
LEMMA MajorityIsOnRecord ==
    ASSUME NEW s \in Nodes, NEW rec, Counted(s, rec), s.height = 1, NEW r \in Nat, NEW k \in Kinds,
           NEW id, id = TwoThirdsMajority(getVoteSet(s.votes, r, k)), id # NoId
    PROVE  id \in Ids /\ IsQuorum(VotersOn(rec, k, r, id))
<1> DEFINE set == getVoteSet(s.votes, r, k)
<1>1. VoteSetInv(set)
  BY SetsAreGood DEF GoodSets, Nodes
<1>2. id = set.maj23
  BY DEF TwoThirdsMajority
<1> HIDE DEF set
<1> id \in Ids
  BY <1>1, <1>2 DEF VoteSetInv, VoteSets
<1>4. set.byBlock[id].sum >= quorum /\ set.byBlock[id].sum = PowerOf[Agreeing(set, id)]
  BY <1>1, <1>2 DEF VoteSetInv, MajorityIsReached, SumsAreCounted
<1>5. Agreeing(set, id) \subseteq VotersOn(rec, k, r, id)
  BY DEF Counted, VotersOn, Agreeing, AgreeingIn, set
<1>6. Agreeing(set, id) \in SUBSET Validators /\ VotersOn(rec, k, r, id) \in SUBSET Validators
  BY DEF Agreeing, AgreeingIn, VotersOn
<1>7. /\ PowerOf[Agreeing(set, id)] \in Nat /\ PowerOf[VotersOn(rec, k, r, id)] \in Nat
      /\ PowerOf[Agreeing(set, id)] =< PowerOf[VotersOn(rec, k, r, id)]
  BY <1>5, <1>6, PowerMonotone
<1>8. quorum \in Nat
  BY QuorumIsTwoThirds
<1> QED BY SMT, <1>4, <1>7, <1>8 DEF IsQuorum

\* A polka that a node of height 1 has seen is on record.
LEMMA PolkaIsOnRecord ==
    ASSUME NEW s \in Nodes, NEW rec, Counted(s, rec), s.height = 1, NEW r \in Nat,
           polka(s, r) # NoId
    PROVE  polka(s, r) \in Ids /\ PolkaOn(rec, r, polka(s, r))
<1>1. "prevote" \in Kinds
  BY DEF Kinds
<1> QED BY <1>1, MajorityIsOnRecord DEF PolkaOn, polka, Prevotes

\* t differs from s in nothing that Honest speaks of, but may be in a later
\* round.
Steady(s, t) ==
    /\ t.height = s.height /\ t.round >= s.round /\ t.lock = s.lock
    /\ SameVotes(s.votes, t.votes)
    /\ t.queue = s.queue /\ t.signer = s.signer /\ t.stored = s.stored

\* Pending votes and the order among them are a matter of the queue.
LEMMA SameQueue ==
    ASSUME NEW s, NEW t, t.queue = s.queue
    PROVE  /\ Pending(t) = Pending(s)
           /\ \A rec, k, r, x : Casts(t, rec, k, r, x) <=> Casts(s, rec, k, r, x)
<1>1. Pending(t) = Pending(s)
  BY DEF Pending
<1> QED BY <1>1 DEF Casts

\* Vote sets that answer alike are counted alike.
LEMMA CountedAlike ==
    ASSUME NEW s, NEW t, NEW rec, t.height = s.height, SameVotes(s.votes, t.votes), Counted(s, rec)
    PROVE  Counted(t, rec)
BY DEF Counted, SameVotes

\* A lock that is held is held in a later round.
LEMMA HeldStays ==
    ASSUME NEW s \in Nodes, NEW t \in Nodes, t.round >= s.round, t.lock = s.lock,
           SameVotes(s.votes, t.votes), NEW c \in Nat, NEW b, HeldFor(s, c, b)
    PROVE  HeldFor(t, c, b)
<1>1. s.round \in Nat /\ t.round \in Nat
  BY DEF Nodes
<1>2. \A q \in Nat : polka(t, q) = polka(s, q)
  BY SamePolkas
<1> QED BY SMT, <1>1, <1>2 DEF HeldFor

\* What leaves votes, lock, queue and signer alone leaves a node honest.
LEMMA StaysHonest ==
    ASSUME NEW s \in Nodes, NEW t \in Nodes, Steady(s, t), NEW rec, NEW D, Honest(s, rec, D)
    PROVE  Honest(t, rec, D)
<1>   /\ t.height = s.height /\ t.round >= s.round /\ t.lock = s.lock
      /\ SameVotes(s.votes, t.votes)
      /\ t.queue = s.queue /\ t.signer = s.signer /\ t.stored = s.stored
  BY DEF Steady
<1>   /\ Pending(t) = Pending(s)
      /\ \A k, r, x : Casts(t, rec, k, r, x) <=> Casts(s, rec, k, r, x)
  BY SameQueue
<1>3. InOrder(t, rec)
  BY DEF Honest, InOrder
<1>4. Justified(t, rec)
  BY DEF Honest, Justified
<1>5. Holds(t, rec)
  <2> SUFFICES ASSUME t.height = 1, NEW c \in Nat, NEW b \in Blocks,
                      Casts(t, rec, "precommit", c, b)
               PROVE  c =< t.round /\ HeldFor(t, c, b)
    BY DEF Holds
  <2> c =< s.round /\ HeldFor(s, c, b)
    BY DEF Honest, Holds
  <2>2. HeldFor(t, c, b)
    BY HeldStays
  <2>3. s.round \in Nat /\ t.round \in Nat
    BY DEF Nodes
  <2> QED BY SMT, <2>2, <2>3
<1>6. Counted(t, rec)
  BY CountedAlike DEF Honest
<1>7. Keeps(t, rec, D)
  BY DEF Honest, Keeps, At1
<1> QED BY <1>3, <1>4, <1>5, <1>6, <1>7 DEF Honest

-----------------------------------------------------------------------------
(* Signing *)

\* A message that Pending counts
IsPending(m) == m.type = "vote" /\ m.height = 1 /\ m.res = "agree"

\* A message at the end of the queue
LEMMA QueueGrows ==
    ASSUME NEW q \in Seq(Msgs), NEW m \in Msgs, NEW p, p = q \o <<m>>
    PROVE  /\ Len(q) \in Nat /\ DOMAIN q = 1..Len(q) /\ DOMAIN p = 1..(Len(q) + 1)
           /\ \A i \in 1..Len(q) : p[i] = q[i]
           /\ p[Len(q) + 1] = m
<1>1. Len(q) \in Nat /\ DOMAIN q = 1..Len(q)
  BY SMT
<1>2. p = Append(q, m)
  BY SMT
<1> QED BY SMT, <1>1, <1>2

\* The votes pending in s are pending in t.
KeepsPending(s, t) == \A i \in Pending(s) : i \in Pending(t) /\ t.queue[i] = s.queue[i]

\* What becomes of the pending votes when a message joins them
LEMMA PendingGrows ==
    ASSUME NEW s \in Nodes, NEW m \in Msgs, NEW t, t.queue = s.queue \o <<m>>
    PROVE  /\ KeepsPending(s, t)
           /\ ~IsPending(m) => Pending(t) = Pending(s)
           /\ IsPending(m) => \E n \in Pending(t) :
                 /\ t.queue[n] = m /\ Pending(t) = Pending(s) \cup {n}
                 /\ \A i \in Pending(s) : i < n
<1> DEFINE n == Len(s.queue) + 1
<1>   /\ Len(s.queue) \in Nat /\ DOMAIN s.queue = 1..Len(s.queue) /\ DOMAIN t.queue = 1..n
      /\ \A i \in 1..Len(s.queue) : t.queue[i] = s.queue[i]
      /\ t.queue[n] = m
  <2>1. s.queue \in Seq(Msgs)
    BY DEF Nodes
  <2> QED BY SMT, <2>1, QueueGrows
<1>   /\ \A i \in DOMAIN s.queue : i \in DOMAIN t.queue /\ t.queue[i] = s.queue[i] /\ i < n
      /\ \A i \in DOMAIN t.queue : i \in DOMAIN s.queue \/ i = n
      /\ n \in DOMAIN t.queue /\ n \notin DOMAIN s.queue
  BY SMT
<1> HIDE DEF n
<1> \A i \in Pending(s) : i \in Pending(t) /\ t.queue[i] = s.queue[i] /\ i < n
  BY DEF Pending
<1> \A i \in Pending(t) : i \in Pending(s) \/ (i = n /\ IsPending(m))
  BY DEF Pending, IsPending
<1> IsPending(m) => n \in Pending(t)
  BY DEF Pending, IsPending
<1>6. ~IsPending(m) => Pending(t) = Pending(s)
  OBVIOUS
<1>7. IsPending(m) => Pending(t) = Pending(s) \cup {n}
  OBVIOUS
<1> QED BY <1>6, <1>7 DEF KeepsPending

\* t is s with another signer and the same pending votes.
SameCasts(s, t) ==
    /\ Pending(t) = Pending(s) /\ \A i \in Pending(s) : t.queue[i] = s.queue[i]

\* The same pending votes are the same votes cast.
LEMMA CastsAlike ==
    ASSUME NEW s, NEW t, SameCasts(s, t), NEW rec, NEW k, NEW r, NEW x
    PROVE  Casts(t, rec, k, r, x) <=> Casts(s, rec, k, r, x)
BY DEF SameCasts, Casts

\* All that the node has cast comes before step k of the signer.
LEMMA CastBefore ==
    ASSUME NEW s \in Nodes, NEW rec, InOrder(s, rec), s.height = 1, NEW kind \in Kinds,
           mayStillSign(s, SignerStep[kind]),
           NEW k \in Kinds, NEW r \in Nat, NEW x \in Ids, Casts(s, rec, k, r, x)
    PROVE  place(r, k) < place(s.round, kind)
<1>1. s.signer \in Signers /\ s.round \in Nat
  BY DEF Nodes
<1>2. s.signer.height = 1 /\ place(r, k) =< 2 * s.signer.round + s.signer.step - 2
  BY DEF InOrder
<1> SignerStep["prevote"] = 2 /\ SignerStep["precommit"] = 3
  BY DEF SignerStep
<1> place(r, k) \in Nat
  BY SMT DEF place
<1> CASE kind = "prevote"
  <2>1. mayStillSign(s, 2)
    OBVIOUS
  <2> QED BY SMT, <1>1, <1>2, <2>1 DEF mayStillSign, place, Signers
<1> CASE kind = "precommit"
  <2>1. mayStillSign(s, 3)
    OBVIOUS
  <2> QED BY SMT, <1>1, <1>2, <2>1 DEF mayStillSign, place, Signers
<1> QED BY DEF Kinds

\* Signing something that is no pending vote leaves a node honest.
LEMMA SignsOther ==
    ASSUME NEW s \in Nodes, NEW t \in Nodes, NEW rec, NEW D, Honest(s, rec, D), SameCasts(s, t),
           NEW k \in 1..3, mayStillSign(s, k),
           t.signer = [height |-> s.height, round |-> s.round, step |-> k],
           t.height = s.height, t.round = s.round, t.lock = s.lock, t.votes = s.votes,
           t.stored = s.stored
    PROVE  Honest(t, rec, D)
<1>1. \A j, r, x : Casts(t, rec, j, r, x) <=> Casts(s, rec, j, r, x)
  BY CastsAlike
<1>2. Pending(t) = Pending(s) /\ \A i \in Pending(s) : t.queue[i] = s.queue[i]
  BY DEF SameCasts
<1>3. InOrder(t, rec)
  <2>   ASSUME t.height = 1, NEW j \in Kinds, NEW r \in Nat, NEW x \in Ids, Casts(t, rec, j, r, x)
        PROVE  t.signer.height = 1 /\ place(r, j) =< 2 * t.signer.round + t.signer.step - 2
    <3> s.height = 1 /\ s.signer \in Signers /\ s.round \in Nat
      BY DEF Nodes
    <3> s.signer.height = 1 /\ place(r, j) =< 2 * s.signer.round + s.signer.step - 2
      BY <1>1 DEF Honest, InOrder
    <3>3. place(r, j) \in Nat
      BY SMT DEF place
    <3>4. t.signer.height = 1 /\ t.signer.round = s.round /\ t.signer.step = k
      BY SMT
    <3>5. 2 * s.signer.round + s.signer.step - 2 =< 2 * s.round + k - 2
      BY SMT DEF mayStillSign, Signers
    <3>6. s.signer.round \in Nat /\ s.signer.step \in 0..3
      BY DEF Signers
    <3> QED BY SMT, <3>3, <3>4, <3>5, <3>6
  <2> QED BY <1>2 DEF Honest, InOrder
<1>4. Justified(t, rec)
  BY <1>1 DEF Honest, Justified
<1>5. Holds(t, rec)
  BY <1>1 DEF Honest, Holds, HeldFor, polka
<1>6. Counted(t, rec) /\ Keeps(t, rec, D)
  BY DEF Honest, Counted, Keeps, At1
<1> QED BY <1>3, <1>4, <1>5, <1>6 DEF Honest

\* What a node may vote: a prevote against an earlier precommit needs a later
\* polka for something else, a precommit for a block needs a polka and the lock.
MayCast(s, rec, kind, id) ==
    s.height = 1 =>
        IF kind = "prevote"
        THEN \A c \in Nat, b \in Blocks \ {id} :
                c < s.round /\ Casts(s, rec, "precommit", c, b) => Overruled(rec, c, s.round, b)
        ELSE id \in Blocks =>
                PolkaOn(rec, s.round, id) /\ s.lock.block = id /\ s.round =< s.lock.round

\* The vote of kind that joins the pending ones is the last of them.
LEMMA CastsGrow ==
    ASSUME NEW s \in Nodes, NEW m \in VoteMsgs, IsPending(m), NEW t, t.queue = s.queue \o <<m>>,
           NEW rec, NEW k, NEW r, NEW x, Casts(t, rec, k, r, x)
    PROVE  Casts(s, rec, k, r, x) \/ (k = m.kind /\ r = m.round /\ x = m.id)
<1> m \in Msgs
  BY DEF Msgs
<1>2. KeepsPending(s, t)
  BY PendingGrows
<1>3. PICK n \in Pending(t) : /\ t.queue[n] = m /\ Pending(t) = Pending(s) \cup {n}
                              /\ \A i \in Pending(s) : i < n
  BY PendingGrows
<1> QED BY <1>2, <1>3 DEF Casts, KeepsPending

\* A vote that may be cast and is signed leaves a node honest.
LEMMA CastHonest ==
    ASSUME NEW s \in Nodes, NEW t \in Nodes, NEW rec, NEW D, Honest(s, rec, D), s.height = 1,
           NEW kind \in Kinds, NEW id \in Ids, MayCast(s, rec, kind, id),
           mayStillSign(s, SignerStep[kind]),
           t.signer = [height |-> s.height, round |-> s.round, step |-> SignerStep[kind]],
           t.height = s.height, t.round = s.round, t.lock = s.lock, t.votes = s.votes,
           t.stored = s.stored, NEW m \in VoteMsgs, IsPending(m), m.round = s.round,
           m.kind = kind, m.id = id, m.v = Self, t.queue = s.queue \o <<m>>
    PROVE  Honest(t, rec, D)
<1>1. s.round \in Nat /\ s.lock.round \in Nat
  BY DEF Nodes, Locks
<1>2. m \in Msgs
  BY DEF Msgs
<1>3. PICK n \in Pending(t) : /\ t.queue[n] = m /\ Pending(t) = Pending(s) \cup {n}
                              /\ \A i \in Pending(s) : i < n
  BY <1>2, PendingGrows
<1>4. \A i \in Pending(s) : t.queue[i] = s.queue[i]
  <2>1. KeepsPending(s, t)
    BY <1>2, PendingGrows
  <2> QED BY <2>1 DEF KeepsPending
<1>5. \A k, r, x : Casts(t, rec, k, r, x) =>
          Casts(s, rec, k, r, x) \/ (k = kind /\ r = s.round /\ x = id)
  BY SMT, CastsGrow
<1>6. \A k \in Kinds, r \in Nat, x \in Ids :
          Casts(s, rec, k, r, x) => place(r, k) < place(s.round, kind)
  BY CastBefore DEF Honest
<1>7. \A i \in Pending(s) : /\ s.queue[i].kind \in Kinds /\ s.queue[i].round \in Nat /\ s.queue[i].id \in Ids
                           /\ place(s.queue[i].round, s.queue[i].kind) < place(s.round, kind)
  <2> SUFFICES ASSUME NEW i \in Pending(s)
               PROVE  /\ s.queue[i].kind \in Kinds /\ s.queue[i].round \in Nat /\ s.queue[i].id \in Ids
                      /\ place(s.queue[i].round, s.queue[i].kind) < place(s.round, kind)
    OBVIOUS
  <2>1. s.queue[i] \in VoteMsgs
    <3>1. i \in DOMAIN s.queue /\ s.queue[i].type = "vote" /\ s.queue \in Seq(Msgs)
      BY DEF Pending, Nodes
    <3>2. s.queue[i] \in Msgs
      BY SMT, <3>1
    <3> QED BY <3>1, <3>2 DEF Msgs, VoteMsgs, ProposalMsgs, PartMsgs
  <2>2. s.queue[i].kind \in Kinds /\ s.queue[i].round \in Nat /\ s.queue[i].id \in Ids
    BY <2>1 DEF VoteMsgs
  <2>3. Casts(s, rec, s.queue[i].kind, s.queue[i].round, s.queue[i].id)
    BY DEF Casts
  <2> QED BY <1>6, <2>2, <2>3
<1>8. InOrder(t, rec)
  <2>1. \A i \in Pending(t) : t.queue[i].v = Self
    BY <1>3, <1>4 DEF Honest, InOrder
  <2>2. \A i, j \in Pending(t) : i < j =>
          place(t.queue[i].round, t.queue[i].kind) < place(t.queue[j].round, t.queue[j].kind)
    <3> SUFFICES ASSUME NEW i \in Pending(t), NEW j \in Pending(t), i < j
                 PROVE  place(t.queue[i].round, t.queue[i].kind) < place(t.queue[j].round, t.queue[j].kind)
      OBVIOUS
    <3>1. i \in Int /\ j \in Int /\ n \in Int
      <4>1. t.queue \in Seq(Msgs) /\ i \in DOMAIN t.queue /\ j \in DOMAIN t.queue /\ n \in DOMAIN t.queue
        BY DEF Pending, Nodes
      <4> QED BY SMT, <4>1
    <3>2. CASE j \in Pending(s)
      <4>1. i \in Pending(s)
        BY SMT, <1>3, <3>1, <3>2
      <4> QED BY <1>4, <3>2, <4>1 DEF Honest, InOrder
    <3>3. CASE j = n
      <4>1. i \in Pending(s)
        BY SMT, <1>3, <3>1, <3>3
      <4> QED BY <1>3, <1>4, <1>7, <3>3, <4>1
    <3> QED BY <1>3, <3>2, <3>3
  <2>3. \A k \in Kinds, r \in Nat, x \in Ids : <<Self, r, x>> \in rec[k] =>
          \A i \in Pending(t) : place(r, k) < place(t.queue[i].round, t.queue[i].kind)
    <3> SUFFICES ASSUME NEW k \in Kinds, NEW r \in Nat, NEW x \in Ids, <<Self, r, x>> \in rec[k],
                        NEW i \in Pending(t)
                 PROVE  place(r, k) < place(t.queue[i].round, t.queue[i].kind)
      OBVIOUS
    <3>1. CASE i \in Pending(s)
      BY <1>4, <3>1 DEF Honest, InOrder
    <3>2. CASE i = n
      <4>1. Casts(s, rec, k, r, x)
        BY DEF Casts
      <4> QED BY <1>3, <1>6, <3>2, <4>1
    <3> QED BY <1>3, <3>1, <3>2
  <2>   ASSUME NEW k \in Kinds, NEW r \in Nat, NEW x \in Ids, Casts(t, rec, k, r, x)
        PROVE  t.signer.height = 1 /\ place(r, k) =< 2 * t.signer.round + t.signer.step - 2
    <3>1. t.signer.height = 1 /\ t.signer.round = s.round /\ t.signer.step = SignerStep[kind]
      BY SMT
    <3>2. place(s.round, kind) = 2 * s.round + SignerStep[kind] - 2 /\ place(s.round, kind) \in Nat
          /\ place(r, k) \in Nat
      BY SMT, <1>1 DEF place, SignerStep, Kinds
    <3>3. place(r, k) < place(s.round, kind) \/ place(r, k) = place(s.round, kind)
      BY <1>5, <1>6
    <3> QED BY SMT, <3>1, <3>2, <3>3
  <2> QED BY <2>1, <2>2, <2>3 DEF InOrder
<1>9. Justified(t, rec)
  <2> SUFFICES ASSUME NEW c \in Nat, NEW b \in Blocks, Casts(t, rec, "precommit", c, b)
               PROVE  /\ PolkaOn(rec, c, b)
                      /\ \A r \in Nat, x \in Ids \ {b} :
                            c < r /\ Casts(t, rec, "prevote", r, x) => Overruled(rec, c, r, b)
    BY DEF Justified
  <2>1. CASE Casts(s, rec, "precommit", c, b)
    <3>1. /\ PolkaOn(rec, c, b)
          /\ \A r \in Nat, x \in Ids \ {b} :
                c < r /\ Casts(s, rec, "prevote", r, x) => Overruled(rec, c, r, b)
      BY <2>1 DEF Honest, Justified
    <3>2. ASSUME NEW r \in Nat, NEW x \in Ids \ {b}, c < r, Casts(t, rec, "prevote", r, x),
                 ~Casts(s, rec, "prevote", r, x)
          PROVE  Overruled(rec, c, r, b)
      <4>1. kind = "prevote" /\ r = s.round /\ x = id
        BY <1>5, <3>2
      <4> QED BY <2>1, <3>2, <4>1 DEF MayCast
    <3> QED BY <3>1, <3>2
  <2>2. CASE kind = "precommit" /\ c = s.round /\ b = id
    <3>1. PolkaOn(rec, c, b)
      <4>1. "precommit" # "prevote"
        OBVIOUS
      <4> QED BY <2>2, <4>1 DEF MayCast
    <3>2. ASSUME NEW r \in Nat, NEW x \in Ids, c < r, Casts(t, rec, "prevote", r, x)
          PROVE  FALSE
      <4>1. Casts(s, rec, "prevote", r, x)
        BY <1>5, <2>2, <3>2
      <4>2. place(r, "prevote") < place(s.round, kind)
        BY <1>6, <3>2, <4>1 DEF Kinds
      <4> QED BY SMT, <1>1, <2>2, <3>2, <4>2 DEF place
    <3> QED BY <3>1, <3>2
  <2> QED BY <1>5, <2>1, <2>2
<1>10. Holds(t, rec)
  <2> SUFFICES ASSUME NEW c \in Nat, NEW b \in Blocks, Casts(t, rec, "precommit", c, b)
               PROVE  c =< s.round /\ HeldFor(s, c, b)
    BY DEF Holds, HeldFor, polka
  <2>1. CASE Casts(s, rec, "precommit", c, b)
    BY <2>1 DEF Honest, Holds
  <2>2. CASE kind = "precommit" /\ c = s.round /\ b = id
    <3>1. "precommit" # "prevote"
      OBVIOUS
    <3>2. s.lock.block = id /\ s.round =< s.lock.round
      BY <2>2, <3>1 DEF MayCast
    <3> QED BY SMT, <1>1, <2>2, <3>2 DEF HeldFor
  <2> QED BY <1>5, <2>1, <2>2
<1>11. Counted(t, rec) /\ Keeps(t, rec, D)
  BY DEF Honest, Counted, Keeps, At1
<1> QED BY <1>8, <1>9, <1>10, <1>11 DEF Honest

\* t is steady if it is in the same round with the same votes.
LEMMA SteadyAlike ==
    ASSUME NEW s \in Nodes, NEW t, t.height = s.height, t.round = s.round, t.lock = s.lock,
           t.votes = s.votes, t.queue = s.queue, t.signer = s.signer, t.stored = s.stored
    PROVE  Steady(s, t)
<1>1. s.round \in Nat
  BY DEF Nodes
<1>2. t.round >= s.round
  BY SMT, <1>1
<1> QED BY <1>2 DEF Steady, SameVotes

\* signAddVote of a vote that may be cast
LEMMA SignAddVoteHonest ==
    ASSUME NEW s \in Nodes, NEW rec, NEW D, Honest(s, rec, D), NEW kind \in Kinds, NEW id \in Ids,
           NEW res \in Results, mayStillSign(s, SignerStep[kind]),
           res = "agree" => MayCast(s, rec, kind, id), NEW t, t = signAddVote(s, kind, id, res)
    PROVE  Honest(t, rec, D)
<1> DEFINE m == [type |-> "vote", height |-> s.height, round |-> s.round, kind |-> kind,
                 v |-> Self, id |-> id, res |-> res]
           k == SignerStep[kind]
           rcd == [height |-> s.height, round |-> s.round, step |-> k]
           q == s.queue \o <<m>>
<1>1. CASE Self \notin Validators
  BY <1>1 DEF signAddVote
<1>2. CASE Self \in Validators
  <2>1. t \in Nodes
    BY SignAddVote DEF Signs
  <2>2. t = [s EXCEPT !.signer = rcd, !.queue = q]
    BY <1>2 DEF signAddVote, signAndSend, Nodes
  <2>3. m \in VoteMsgs /\ m \in Msgs
    BY <1>2 DEF VoteMsgs, Msgs, Nodes
  <2>4. IsPending(m) <=> s.height = 1 /\ res = "agree"
    BY DEF IsPending
  <2>5. m.round = s.round /\ m.kind = kind /\ m.id = id /\ m.v = Self
    OBVIOUS
  <2>6. k \in 1..3
    BY SMT DEF SignerStep, Kinds
  <2> HIDE DEF q
  <2>   /\ t.signer = rcd /\ t.queue = q /\ t.height = s.height /\ t.round = s.round
        /\ t.lock = s.lock /\ t.votes = s.votes /\ t.stored = s.stored
    BY <2>2 DEF Nodes
  <2> t.queue = s.queue \o <<m>>
    BY DEF q
  <2> HIDE DEF m
  <2> CASE s.height = 1 /\ res = "agree"
    <3>1. IsPending(m) /\ MayCast(s, rec, kind, id)
      BY <2>4
    <3> QED BY <2>1, <2>3, <2>5, <3>1, CastHonest
  <2>10. CASE ~(s.height = 1 /\ res = "agree")
    <3>1. ~IsPending(m)
      BY <2>4, <2>10
    <3>2. Pending(t) = Pending(s)
      BY <2>3, <3>1, PendingGrows
    <3>3. KeepsPending(s, t)
      BY <2>3, PendingGrows
    <3>4. SameCasts(s, t)
      BY <3>2, <3>3 DEF SameCasts, KeepsPending
    <3> HIDE DEF k
    <3>5. mayStillSign(s, k)
      BY DEF k
    <3> QED BY <2>1, <2>6, <3>4, <3>5, SignsOther
  <2> QED BY <2>10
<1> QED BY <1>1, <1>2

\* A nil vote that may be cast
LEMMA SignNilHonest ==
    ASSUME NEW s \in Nodes, NEW rec, NEW D, Honest(s, rec, D), NEW kind \in Kinds,
           mayStillSign(s, SignerStep[kind]), MayCast(s, rec, kind, Nil),
           NEW t, t = signNil(s, kind)
    PROVE  Honest(t, rec, D)
<1>1. Nil \in Ids /\ "agree" \in Results
  BY ConsensusAssumption DEF ConsensusAssumption, Results
<1>2. t = signAddVote(s, kind, Nil, "agree")
  BY DEF signNil
<1> QED BY <1>1, <1>2, SignAddVoteHonest

\* The agent gives a verdict on every block it is asked about. Without one
\* defaultDoPrevote votes nil, even if the node is locked on the block.
VerdictsAreGiven == "none" \notin Verdicts

\* The vote on a block, which may be cast if the node agrees
LEMMA VoteOnHonest ==
    ASSUME VerdictsAreGiven, NEW s \in Nodes, NEW rec, NEW D, Honest(s, rec, D), NEW kind \in Kinds,
           NEW b \in Ids, NEW w \in Worlds, mayStillSign(s, SignerStep[kind]),
           w.verdict = "agree" => MayCast(s, rec, kind, b), NEW t, t = voteOn(s, kind, b, w)
    PROVE  Honest(t, rec, D)
<1>1. w.verdict \in {"agree", "against", "missing"}
  BY ConsensusAssumption DEF ConsensusAssumption, Worlds, VerdictsAreGiven
<1>2. CASE w.verdict = "missing"
  <2>1. t = [s EXCEPT !.halt = "no verdict"]
    BY <1>2 DEF voteOn, panic
  <2>2. t \in Nodes
    BY VoteOn DEF Signs
  <2>3. Steady(s, t)
    <3>1. /\ t.height = s.height /\ t.round = s.round /\ t.lock = s.lock /\ t.votes = s.votes
          /\ t.queue = s.queue /\ t.signer = s.signer /\ t.stored = s.stored
      BY <2>1 DEF Nodes
    <3> QED BY <3>1, SteadyAlike
  <2> QED BY <2>2, <2>3, StaysHonest
<1> CASE w.verdict # "missing"
  <2>1. w.verdict \in Results
    BY <1>1 DEF Results
  <2>2. t = signAddVote(s, kind, b, w.verdict)
    <3>1. w.verdict # "none"
      BY <1>1
    <3> QED BY <3>1 DEF voteOn
  <2> QED BY <2>1, <2>2, SignAddVoteHonest
<1> QED BY <1>2

-----------------------------------------------------------------------------
(* Prevoting *)

\* Blocks are ids, and NoId is none.
LEMMA BlockIds == \A b \in Blocks : b \in Ids /\ b # NoId /\ b # Nil
BY NoIdAssumption DEF NoIdAssumption, Blocks

\* A prevote for the locked block, or without a lock, may be cast as long as
\* the round has no polka.
LEMMA MayPrevote ==
    ASSUME NEW s \in Nodes, NEW rec, NEW D, Honest(s, rec, D),
           s.round = 0 \/ polka(s, s.round) = NoId, NEW x, s.lock.block \in {NoId, x}
    PROVE  MayCast(s, rec, "prevote", x)
<1> SUFFICES ASSUME s.height = 1, NEW c \in Nat, NEW b \in Blocks \ {x}, c < s.round,
                    Casts(s, rec, "precommit", c, b)
             PROVE  Overruled(rec, c, s.round, b)
  BY DEF MayCast
<1>1. HeldFor(s, c, b)
  BY DEF Honest, Holds
<1>2. s.lock.block # b
  BY BlockIds
<1> PICK q \in Nat : c < q /\ q =< s.round /\ polka(s, q) \notin {NoId, b}
  BY <1>1, <1>2 DEF HeldFor
<1> s.round \in Nat
  BY DEF Nodes
<1>5. polka(s, s.round) = NoId
  BY SMT
<1>6. q # s.round
  BY <1>5
<1>7. q < s.round
  BY SMT, <1>6
<1>8. polka(s, q) \in Ids /\ PolkaOn(rec, q, polka(s, q))
  BY PolkaIsOnRecord DEF Honest
<1> QED BY <1>7, <1>8 DEF Overruled

\* doPrevote follows the lock.
LEMMA DoPrevoteHonest ==
    ASSUME VerdictsAreGiven, NEW s, Ready(s), NEW rec, NEW D, Honest(s, rec, D), NEW w \in Worlds,
           s.step < RoundStepPrevote, s.round = 0 \/ polka(s, s.round) = NoId,
           NEW t, t = doPrevote(s, w)
    PROVE  Honest(t, rec, D)
<1> s \in Nodes /\ s.step \in Steps
  BY DEF Ready, Nodes
<1>2. mayStillSign(s, 2)
  <2>1. signedIn(s.step) < 2
    BY SMT DEF signedIn, RoundStepPrevote, Steps
  <2> QED BY SMT, <2>1, StillSigns
<1>3. SignerStep["prevote"] = 2 /\ "prevote" \in Kinds
  BY DEF SignerStep, Kinds
<1>4. mayStillSign(s, SignerStep["prevote"])
  BY <1>2, <1>3
<1>5. CASE s.lock.block # NoId
  <2>1. s.lock.block \in Ids
    BY <1>5 DEF Nodes, Locks, AnyId
  <2>2. t = voteOn(s, "prevote", s.lock.block, w)
    BY <1>5 DEF doPrevote
  <2>3. MayCast(s, rec, "prevote", s.lock.block)
    <3>1. s.lock.block \in {NoId, s.lock.block}
      OBVIOUS
    <3> QED BY SMT, <3>1, MayPrevote
  <2> QED BY <1>3, <1>4, <2>1, <2>2, <2>3, VoteOnHonest
<1> CASE s.lock.block = NoId /\ s.pblock # NoId
  <2>1. s.pblock \in Ids
    BY DEF Nodes, AnyId
  <2>2. t = voteOn(s, "prevote", s.pblock, w)
    BY DEF doPrevote
  <2>3. MayCast(s, rec, "prevote", s.pblock)
    <3>1. s.lock.block \in {NoId, s.pblock}
      OBVIOUS
    <3> QED BY SMT, <3>1, MayPrevote
  <2> QED BY <1>3, <1>4, <2>1, <2>2, <2>3, VoteOnHonest
<1> CASE s.lock.block = NoId /\ s.pblock = NoId
  <2>1. t = signNil(s, "prevote")
    BY DEF doPrevote
  <2>2. MayCast(s, rec, "prevote", Nil)
    <3>1. s.lock.block \in {NoId, Nil}
      OBVIOUS
    <3> QED BY SMT, <3>1, MayPrevote
  <2> QED BY <1>3, <1>4, <2>1, <2>2, SignNilHonest
<1> QED BY <1>5

\* The end of a step: another step of the same round
LEMMA StepHonest ==
    ASSUME NEW u \in Nodes, NEW rec, NEW D, Honest(u, rec, D), NEW r, r = u.round,
           NEW step \in Steps, NEW t, t = updateRoundStep(u, r, step)
    PROVE  Honest(t, rec, D) /\ t \in Nodes
<1> t = [u EXCEPT !.round = r, !.step = step]
  BY DEF updateRoundStep
<1>2. /\ t.height = u.height /\ t.round = u.round /\ t.lock = u.lock /\ t.votes = u.votes
      /\ t.queue = u.queue /\ t.signer = u.signer /\ t.stored = u.stored
  BY DEF Nodes
<1>3. u.round \in Nat
  BY DEF Nodes
<1>4. t \in Nodes
  BY <1>3 DEF Nodes
<1>5. Steady(u, t)
  BY <1>2, SteadyAlike
<1> QED BY <1>4, <1>5, StaysHonest

\* enterPrevote of the current round
LEMMA EnterPrevoteHonest ==
    ASSUME VerdictsAreGiven, NEW s, Ready(s), NEW rec, NEW D, Honest(s, rec, D), NEW w \in Worlds,
           s.step < RoundStepPrevote => s.round = 0 \/ polka(s, s.round) = NoId,
           NEW t, t = enterPrevote(s, s.round, w)
    PROVE  Honest(t, rec, D)
<1>1. s \in Nodes /\ s.step \in Steps /\ s.round \in Nat
  BY DEF Ready, Nodes
<1> CASE s.step < RoundStepPrevote
  <2> DEFINE u == doPrevote(s, w)
  <2>1. mayEnter(s, s.round, RoundStepPrevote)
    BY SMT, <1>1 DEF mayEnter, Ready
  <2>2. t = updateRoundStep(u, s.round, RoundStepPrevote)
    BY <2>1 DEF enterPrevote
  <2>3. Signs(s, u, 2)
    BY DoPrevote
  <2>4. Honest(u, rec, D)
    BY DoPrevoteHonest
  <2> HIDE DEF u
  <2>5. u \in Nodes /\ u.round = s.round
    <3>1. u \in Nodes /\ u = [s EXCEPT !.queue = u.queue, !.signer = u.signer, !.halt = u.halt]
      BY <2>3 DEF Signs
    <3> QED BY <1>1, <3>1 DEF Nodes
  <2>6. RoundStepPrevote \in Steps
    BY SMT DEF RoundStepPrevote, Steps
  <2> QED BY <2>2, <2>4, <2>5, <2>6, StepHonest
<1> CASE ~(s.step < RoundStepPrevote)
  <2>1. ~mayEnter(s, s.round, RoundStepPrevote)
    BY DEF mayEnter
  <2> QED BY <2>1 DEF enterPrevote
<1> QED OBVIOUS

-----------------------------------------------------------------------------
(* Proposing and entering a round *)

\* A proposal and a part in the queue are no votes.
LEMMA ProposalIsNoVote ==
    ASSUME NEW s \in Nodes, NEW a \in Msgs, NEW b \in Msgs, a.type # "vote", b.type # "vote",
           NEW t, t.queue = s.queue \o <<a, b>>
    PROVE  SameCasts(s, t)
<1> DEFINE n == Len(s.queue)
           pair == <<a, b>>
<1>1. s.queue \in Seq(Msgs) /\ t.queue = s.queue \o pair
  BY DEF Nodes
<1>2. pair \in Seq(Msgs) /\ Len(pair) = 2 /\ pair[1] = a /\ pair[2] = b
  BY SMT
<1> HIDE DEF pair
<1>   /\ n \in Nat /\ DOMAIN s.queue = 1..n /\ DOMAIN t.queue = 1..(n + 2)
      /\ \A i \in 1..n : t.queue[i] = s.queue[i]
      /\ t.queue[n + 1] = a /\ t.queue[n + 2] = b
  BY SMT, <1>1, <1>2
<1> HIDE DEF n
<1>4. /\ \A i \in DOMAIN s.queue : i \in DOMAIN t.queue /\ t.queue[i] = s.queue[i]
      /\ \A i \in DOMAIN t.queue : i \in DOMAIN s.queue \/ t.queue[i] \in {a, b}
  <2>1. \A i \in 1..(n + 2) : i \in 1..n \/ i = n + 1 \/ i = n + 2
    BY SMT
  <2>2. \A i \in 1..n : i \in 1..(n + 2)
    BY SMT
  <2> QED BY <2>1, <2>2
<1> QED BY <1>4 DEF SameCasts, Pending

\* decideProposal signs no vote.
LEMMA DecideProposalHonest ==
    ASSUME NEW s, Ready(s), s.step < RoundStepPropose, NEW w \in Worlds,
           NEW rec, NEW D, Honest(s, rec, D), NEW t, t = decideProposal(s, w)
    PROVE  Honest(t, rec, D)
<1> DEFINE parts == blockToPropose(s, w)
           proposal == [type |-> "proposal", height |-> s.height, round |-> s.round,
                        block |-> parts.block, pol |-> POLInfo(s.votes)]
           part == [type |-> "part", height |-> s.height,
                    block |-> IF parts.done THEN parts.block ELSE NoId]
           rcd == [height |-> s.height, round |-> s.round, step |-> 1]
<1> s \in Nodes /\ s.step \in Steps /\ s.height \in Nat /\ s.round \in Nat
  BY DEF Ready, Nodes
<1>2. t \in Nodes
  BY DecideProposal DEF Signs
<1>3. mayStillSign(s, 1)
  <2>1. signedIn(s.step) < 1
    BY SMT DEF signedIn, RoundStepPropose, Steps
  <2> QED BY SMT, <2>1, StillSigns
<1>4. SignerStep.proposal = 1
  BY DEF SignerStep
<1>5. t = [s EXCEPT !.signer = rcd, !.queue = s.queue \o <<proposal, part>>]
  BY <1>3, <1>4 DEF decideProposal, signAndSend, Nodes
<1>6. proposal \in Msgs /\ part \in Msgs
  <2>1. parts \in PartSets
    <3>1. s.lock.parts \in PartSets /\ s.valid.parts \in PartSets
      BY DEF Nodes, Locks
    <3>2. [block |-> w.make, done |-> TRUE] \in PartSets
      BY ConsensusAssumption DEF ConsensusAssumption, Worlds, PartSets, AnyId
    <3> QED BY <3>1, <3>2 DEF blockToPropose
  <2>2. POLInfo(s.votes) \in Int
    BY POLInfoFinds DEF Nodes
  <2> HIDE DEF parts
  <2>3. proposal \in Msgs
    BY <2>1, <2>2 DEF Msgs, ProposalMsgs, PartSets
  <2>4. part \in Msgs
    BY <2>1 DEF Msgs, PartMsgs, PartSets, AnyId
  <2> QED BY <2>3, <2>4
<1> HIDE DEF parts
<1>7. proposal.type # "vote" /\ part.type # "vote"
  OBVIOUS
<1> HIDE DEF proposal, part
<1>   /\ t.signer = rcd /\ t.queue = s.queue \o <<proposal, part>>
      /\ t.height = s.height /\ t.round = s.round /\ t.lock = s.lock /\ t.votes = s.votes
      /\ t.stored = s.stored
  BY <1>5 DEF Nodes
<1>9. SameCasts(s, t)
  BY <1>6, <1>7, ProposalIsNoVote
<1>10. 1 \in 1..3
  BY SMT
<1> QED BY <1>2, <1>3, <1>9, <1>10, SignsOther

\* A node that has a proposal has no polka of its round, unless it is round 0.
Unpolled(s) == s.proposal = NoProposal \/ s.round = 0 \/ polka(s, s.round) = NoId

\* Unpolled is a matter of the proposal, the round and the votes.
LEMMA StaysUnpolled ==
    ASSUME NEW s, Unpolled(s), NEW t, t.proposal = s.proposal, t.round = s.round, t.votes = s.votes
    PROVE  Unpolled(t)
BY DEF Unpolled, polka

\* The end of tryEnterProposal
LEMMA ProposedHonest ==
    ASSUME VerdictsAreGiven, NEW s, Ready(s), s.step < RoundStepPropose, NEW w \in Worlds,
           NEW u, Signs(s, u, 1), u.halt = s.halt, NEW rec, NEW D, Honest(u, rec, D),
           Unpolled(s), NEW t, t = proposed(u, s.round, w)
    PROVE  Honest(t, rec, D)
<1> DEFINE x == updateRoundStep(u, s.round, RoundStepPropose)
<1>1. RoundStepPropose \in Steps /\ signedIn(RoundStepPropose) = 1
  BY SMT DEF RoundStepPropose, Steps, signedIn
<1>2. Sane(x)
  BY SMT, <1>1, SignedStep
<1>3. s \in Nodes /\ running(s) /\ u \in Nodes /\ u.round = s.round /\ u.proposal = s.proposal
      /\ u.votes = s.votes
  <2>1. s \in Nodes /\ running(s) /\ u \in Nodes
        /\ u = [s EXCEPT !.queue = u.queue, !.signer = u.signer, !.halt = u.halt]
    BY DEF Signs, Ready
  <2> QED BY <2>1 DEF Nodes
<1> x.halt = s.halt /\ x.round = s.round /\ x.proposal = s.proposal /\ x.votes = s.votes
  BY <1>3 DEF updateRoundStep, Nodes
<1>5. Honest(x, rec, D)
  BY <1>1, <1>3, StepHonest
<1>6. t = IF isProposalComplete(x) THEN enterPrevote(x, x.round, w) ELSE x
  BY DEF proposed
<1> HIDE DEF x
<1>7. Ready(x)
  BY <1>2, <1>3, SaneNode DEF running
<1> CASE isProposalComplete(x)
  <2>1. x.proposal # NoProposal
    BY DEF isProposalComplete
  <2>2. x.round = 0 \/ polka(x, x.round) = NoId
    BY <2>1 DEF Unpolled, polka
  <2>3. t = enterPrevote(x, x.round, w)
    BY <1>6
  <2> QED BY <1>5, <1>7, <2>2, <2>3, EnterPrevoteHonest
<1> CASE ~isProposalComplete(x)
  BY <1>5, <1>6
<1> QED OBVIOUS

\* A tick changes nothing that Honest speaks of.
LEMMA TickHonest ==
    ASSUME NEW s \in Nodes, NEW rec, NEW D, Honest(s, rec, D), NEW r, NEW step, NEW wait,
           NEW t, Scheduled(s, t, r, step, wait)
    PROVE  Honest(t, rec, D)
<1> t \in Nodes /\ t = [s EXCEPT !.timer = t.timer]
  BY DEF Scheduled, OnlyTimer
<1>2. /\ t.height = s.height /\ t.round = s.round /\ t.lock = s.lock /\ t.votes = s.votes
      /\ t.queue = s.queue /\ t.signer = s.signer /\ t.stored = s.stored
  BY DEF Nodes
<1>3. Steady(s, t)
  BY <1>2, SteadyAlike
<1> QED BY <1>3, StaysHonest

\* tryEnterProposal of the current round
LEMMA TryEnterProposalHonest ==
    ASSUME VerdictsAreGiven, NEW s, Ready(s), s.step < RoundStepPropose, NEW w \in Worlds,
           NEW wait \in Nat, wait > 0, NEW rec, NEW D, Honest(s, rec, D), Unpolled(s),
           NEW t, t = tryEnterProposal(s, s.round, wait, w)
    PROVE  Honest(t, rec, D)
<1>1. s \in Nodes /\ s.round \in Nat /\ s.step \in Steps /\ running(s)
  BY DEF Ready, Nodes
<1>2. mayEnter(s, s.round, RoundStepPropose)
  BY SMT, <1>1 DEF mayEnter
<1> DEFINE x == scheduleTimeout(s, s.round, RoundStepPropose, 1)
           y == decideProposal(x, w)
<1>3. Scheduled(s, x, s.round, RoundStepPropose, 1)
  <2>1. RoundStepPropose \in {1, 2, 3, 5, 7} /\ 1 \in Nat
    BY DEF RoundStepPropose
  <2> QED BY <1>1, <2>1, ScheduleTimeout
<1>4. t \in {proposed(x, s.round, w), proposed(y, s.round, w)}
      \/ t = scheduleTimeout(s, s.round, RoundStepNewRound, wait + 1)
  BY <1>2 DEF tryEnterProposal, enterPropose
<1> HIDE DEF x
<1>5. Ready(x)
  <2>1. RoundStepPropose \in {1, 2, 3, 5, 7} /\ 1 \in Nat /\ 1 > 0
    BY SMT DEF RoundStepPropose
  <2> QED BY <1>3, <2>1, TickKeepsReady
<1>   x.round = s.round /\ x.step = s.step /\ x.proposal = s.proposal /\ x.votes = s.votes
      /\ x \in Nodes
  <2>1. x = [s EXCEPT !.timer = x.timer] /\ x \in Nodes
    BY <1>3 DEF Scheduled, OnlyTimer
  <2> QED BY <1>1, <2>1 DEF Nodes
<1>7. Honest(x, rec, D) /\ Unpolled(x)
  BY <1>1, <1>3, TickHonest, StaysUnpolled
<1>8. Signs(x, y, 1) /\ y.halt = x.halt
  BY <1>5, DecideProposal
<1>9. Honest(y, rec, D)
  BY <1>5, <1>7, DecideProposalHonest
<1> HIDE DEF y
<1>10. Signs(x, x, 1)
  BY SignsNothing
<1>11. CASE t \in {proposed(x, s.round, w), proposed(y, s.round, w)}
  <2>1. \E u \in {x, y} : t = proposed(u, x.round, w)
    BY <1>11
  <2>2. PICK u : Signs(x, u, 1) /\ u.halt = x.halt /\ Honest(u, rec, D) /\ t = proposed(u, x.round, w)
    BY <1>7, <1>8, <1>9, <1>10, <2>1
  <2>3. x.step < RoundStepPropose
    OBVIOUS
  <2> QED BY <1>5, <1>7, <2>2, <2>3, ProposedHonest
<1> CASE t = scheduleTimeout(s, s.round, RoundStepNewRound, wait + 1)
  <2>1. PICK wt \in Nat : wt = wait + 1
    BY SMT
  <2>2. RoundStepNewRound \in {1, 2, 3, 5, 7}
    BY DEF RoundStepNewRound
  <2>3. Scheduled(s, t, s.round, RoundStepNewRound, wt)
    BY <1>1, <2>1, <2>2, ScheduleTimeout
  <2> QED BY <1>1, <2>3, TickHonest
<1> QED BY <1>4, <1>11

\* enterNewRound, of any round: in a round after round 0 the proposal of the
\* round before is gone, so a polka that is there already is not prevoted against.
LEMMA EnterNewRoundHonest ==
    ASSUME VerdictsAreGiven, NEW s, Ready(s), NEW r \in Nat, NEW w \in Worlds,
           NEW rec, NEW D, Honest(s, rec, D), NEW t, t = enterNewRound(s, r, w)
    PROVE  Honest(t, rec, D)
<1>   /\ s \in Nodes /\ running(s) /\ ~s.refused /\ Control(s) /\ TimerUpTo(s, s.round)
      /\ s.round \in Nat /\ s.step \in Steps /\ s.timer \in Timers /\ s.height \in Nat
  BY DEF Ready, Nodes
<1>2. CASE r < s.round \/ (r = s.round /\ s.step # RoundStepNewHeight)
  <2>1. t = s
    BY <1>2 DEF enterNewRound
  <2> QED BY <2>1
<1>3. CASE ~(r < s.round \/ (r = s.round /\ s.step # RoundStepNewHeight))
  <2>1. r > s.round \/ (r = s.round /\ s.step = RoundStepNewHeight)
    BY SMT, <1>3
  <2>2. TimerUpTo(s, r)
    BY SMT, <2>1 DEF TimerUpTo, Timers
  <2> PICK u : Begun(s, u, r) /\ t = tryEnterProposal(u, u.round, 1, w)
    BY SMT, <2>1, <2>2, RoundBegins
  <2> u \in Nodes /\ Ready(u) /\ u.round = r /\ u.step = 2
    BY DEF Begun, Ready
  <2>5. u.round >= s.round
    BY SMT, <2>1
  <2>6. Steady(s, u)
    BY <2>5 DEF Steady, Begun
  <2>7. Honest(u, rec, D)
    BY <2>6, StaysHonest
  <2>8. Unpolled(u)
    BY DEF Unpolled, Begun
  <2>9. u.step < RoundStepPropose
    BY SMT DEF RoundStepPropose
  <2>10. PICK one \in Nat : one = 1
    OBVIOUS
  <2>11. one > 0 /\ t = tryEnterProposal(u, u.round, one, w)
    BY SMT, <2>10
  <2> QED BY <2>7, <2>8, <2>9, <2>11, TryEnterProposalHonest
<1> QED BY <1>2, <1>3

-----------------------------------------------------------------------------
(* Waiting and precommitting *)

\* The wait steps
LEMMA WaitHonest ==
    ASSUME NEW s \in Nodes, NEW rec, NEW D, Honest(s, rec, D), NEW step \in {5, 7},
           NEW t, t = updateRoundStep(scheduleTimeout(s, s.round, step, 1), s.round, step)
    PROVE  Honest(t, rec, D)
<1> DEFINE u == scheduleTimeout(s, s.round, step, 1)
<1> s.round \in Nat /\ step \in {1, 2, 3, 5, 7} /\ step \in Steps /\ 1 \in Nat
  BY SMT DEF Nodes, Steps
<1> Scheduled(s, u, s.round, step, 1)
  BY ScheduleTimeout
<1>3. t = updateRoundStep(u, s.round, step)
  OBVIOUS
<1> HIDE DEF u
<1>4. u \in Nodes /\ u.round = s.round
  <2>1. u = [s EXCEPT !.timer = u.timer] /\ u \in Nodes
    BY DEF Scheduled, OnlyTimer
  <2> QED BY <2>1 DEF Nodes
<1>5. Honest(u, rec, D)
  BY TickHonest
<1> QED BY <1>3, <1>4, <1>5, StepHonest

\* A panic changes nothing that Honest speaks of.
LEMMA PanicHonest ==
    ASSUME NEW s \in Nodes, NEW rec, NEW D, Honest(s, rec, D), NEW why, NEW t \in Nodes,
           t = panic(s, why)
    PROVE  Honest(t, rec, D)
<1>1. t = [s EXCEPT !.halt = why]
  BY DEF panic
<1>2. /\ t.height = s.height /\ t.round = s.round /\ t.lock = s.lock /\ t.votes = s.votes
      /\ t.queue = s.queue /\ t.signer = s.signer /\ t.stored = s.stored
  BY <1>1 DEF Nodes
<1>3. Steady(s, t)
  BY <1>2, SteadyAlike
<1> QED BY <1>3, StaysHonest

\* enterPrevoteWait
LEMMA EnterPrevoteWaitHonest ==
    ASSUME NEW s \in Nodes, NEW rec, NEW D, Honest(s, rec, D),
           HasTwoThirdsAny(Prevotes(s.votes, s.round)), NEW t, t = enterPrevoteWait(s, s.round)
    PROVE  Honest(t, rec, D)
<1>1. t \in {s, updateRoundStep(scheduleTimeout(s, s.round, RoundStepPrevoteWait, 1), s.round,
                               RoundStepPrevoteWait)}
  BY DEF enterPrevoteWait
<1>2. RoundStepPrevoteWait \in {5, 7}
  BY DEF RoundStepPrevoteWait
<1> QED BY <1>1, <1>2, WaitHonest

\* enterPrecommitWait
LEMMA EnterPrecommitWaitHonest ==
    ASSUME NEW s \in Nodes, NEW rec, NEW D, Honest(s, rec, D),
           HasTwoThirdsAny(Precommits(s.votes, s.round)), NEW t, t = enterPrecommitWait(s, s.round)
    PROVE  Honest(t, rec, D)
<1>1. t \in {s, updateRoundStep(scheduleTimeout(s, s.round, RoundStepPrecommitWait, 1), s.round,
                               RoundStepPrecommitWait)}
  BY DEF enterPrecommitWait
<1>2. RoundStepPrecommitWait \in {5, 7}
  BY DEF RoundStepPrecommitWait
<1> QED BY <1>1, <1>2, WaitHonest

\* The lock changes, and every precommit still has it or a later polka.
LEMMA RelockedHonest ==
    ASSUME NEW s \in Nodes, NEW y \in Nodes, Relocked(s, y), NEW rec, NEW D, Honest(s, rec, D),
           s.height = 1 => \A c \in Nat, b \in Blocks :
               Casts(s, rec, "precommit", c, b) /\ c =< s.round /\ HeldFor(s, c, b)
                   => HeldFor(y, c, b)
    PROVE  Honest(y, rec, D)
<1>   /\ y.height = s.height /\ y.round = s.round /\ y.votes = s.votes
      /\ y.queue = s.queue /\ y.signer = s.signer /\ y.stored = s.stored
  BY DEF Relocked, Nodes
<1>   /\ Pending(y) = Pending(s)
      /\ \A k, r, x : Casts(y, rec, k, r, x) <=> Casts(s, rec, k, r, x)
  BY SameQueue
<1> InOrder(s, rec) /\ Justified(s, rec) /\ Holds(s, rec) /\ Counted(s, rec) /\ Keeps(s, rec, D)
  BY DEF Honest
<1>4. InOrder(y, rec)
  BY DEF InOrder
<1>5. Justified(y, rec)
  BY DEF Justified
<1>6. Holds(y, rec)
  BY DEF Holds
<1>7. Counted(y, rec)
  BY DEF Counted
<1>8. Keeps(y, rec, D)
  BY DEF Keeps, At1
<1> QED BY <1>4, <1>5, <1>6, <1>7, <1>8 DEF Honest

\* A polka of round q releases the precommits before q for anything else; those
\* for the same block were released before, or the lock is on it.
LEMMA PolkaReleases ==
    ASSUME NEW s \in Nodes, NEW y \in Nodes, Relocked(s, y), NEW q \in Nat, q =< s.round,
           polka(s, q) # NoId,
           \/ polka(s, q) \notin Blocks \/ s.lock.block # polka(s, q)
           \/ y.lock.block = polka(s, q) /\ y.lock.round = q,
           NEW c \in Nat, c < q, NEW b \in Blocks, HeldFor(s, c, b)
    PROVE  HeldFor(y, c, b)
<1> y.round = s.round /\ y.votes = s.votes /\ s.round \in Nat
  BY DEF Relocked, Nodes
<1> \A p : polka(y, p) = polka(s, p)
  BY DEF polka
<1> CASE polka(s, q) # b
  BY DEF HeldFor
<1> CASE polka(s, q) = b /\ s.lock.block # b
  BY DEF HeldFor
<1> CASE polka(s, q) = b /\ y.lock.block = b /\ y.lock.round = q
  <2>1. c =< y.lock.round
    BY SMT
  <2> QED BY <2>1 DEF HeldFor
<1> QED OBVIOUS

\* The step that ends enterPrecommit
LEMMA PrecommitStepHonest ==
    ASSUME NEW y \in Nodes, NEW x, Signs(y, x, 3), NEW r, r = y.round, NEW rec, NEW D,
           Honest(x, rec, D), NEW t, t = updateRoundStep(x, r, RoundStepPrecommit)
    PROVE  Honest(t, rec, D)
<1>1. x \in Nodes /\ x.round = y.round
  <2>1. x \in Nodes /\ x = [y EXCEPT !.queue = x.queue, !.signer = x.signer, !.halt = x.halt]
    BY DEF Signs
  <2> QED BY <2>1 DEF Nodes
<1>2. RoundStepPrecommit \in Steps
  BY SMT DEF RoundStepPrecommit, Steps
<1> QED BY <1>1, <1>2, StepHonest

\* enterPrecommit: a node precommits a block it is locked on, with the polka of
\* the round.
LEMMA EnterPrecommitHonest ==
    ASSUME VerdictsAreGiven, NEW s, Ready(s), NEW w \in Worlds, NEW rec, NEW D, Honest(s, rec, D),
           NEW t, t = enterPrecommit(s, s.round, w)
    PROVE  Honest(t, rec, D)
<1> DEFINE r == s.round
           id == polka(s, s.round)
           x == precommitVote(s, r, id, w)
<1>1. s \in Nodes /\ running(s) /\ r \in Nat /\ s.step \in Steps /\ s.lock \in Locks
  BY DEF Ready, Nodes
<1>2. CASE ~(s.step < RoundStepPrecommit)
  <2>1. ~mayEnter(s, r, RoundStepPrecommit)
    BY <1>1, <1>2 DEF mayEnter, RoundStepPrecommit, Steps
  <2>2. t = s
    BY <2>1 DEF enterPrecommit
  <2> QED BY <2>2
<1>3. CASE s.step < RoundStepPrecommit
  <2>1. t = updateRoundStep(x, r, RoundStepPrecommit)
    <3>1. mayEnter(s, r, RoundStepPrecommit)
      BY SMT, <1>1, <1>3 DEF mayEnter
    <3> QED BY <3>1 DEF enterPrecommit, polka
  <2>2. id \in AnyId /\ \E y : Chooses(s, y, x, w)
    BY PrecommitVote
  <2> HIDE DEF x
  <2>3. PICK y : Chooses(s, y, x, w)
    BY <2>2
  <2> y \in Nodes /\ Relocked(s, y)
    BY <2>3 DEF Chooses
  <2>5. /\ mayStillSign(y, SignerStep["precommit"]) /\ "precommit" \in Kinds
        /\ SignerStep["precommit"] = 3
    BY <1>3, SignsPrecommit
  <2>6. y.round = r /\ y.votes = s.votes /\ y.height = s.height /\ y.signer = s.signer
    BY <1>1 DEF Relocked, Nodes
  <2>7. mayStillSign(s, SignerStep["precommit"])
    BY <2>5, <2>6 DEF mayStillSign
  <2>8. InOrder(s, rec) /\ Counted(s, rec)
    BY DEF Honest
  <2>9. Honest(y, rec, D)
    <3>1. CASE id = NoId \/ y = s
      <4>1. y = s
        BY <2>3, <3>1, BlockIds DEF Chooses
      <4> QED BY <4>1
    <3>2. CASE id # NoId /\ y # s
      <4>1. \/ id \notin Blocks \/ s.lock.block # id
            \/ y.lock.block = id /\ y.lock.round = r
        BY <2>3, <3>2 DEF Chooses, Blocks
      <4>2. ASSUME s.height = 1, NEW c \in Nat, NEW b \in Blocks,
                   Casts(s, rec, "precommit", c, b), HeldFor(s, c, b)
            PROVE  HeldFor(y, c, b)
        <5>1. b \in Ids
          BY BlockIds
        <5>2. place(c, "precommit") < place(r, "precommit")
          BY <1>1, <2>5, <2>7, <2>8, <4>2, <5>1, CastBefore
        <5>3. c < r /\ r =< s.round
          BY SMT, <1>1, <5>2 DEF place
        <5> QED BY SMT, <1>1, <3>2, <4>1, <4>2, <5>3, PolkaReleases
      <4> QED BY <1>1, <4>2, RelockedHonest
    <3> QED BY <3>1, <3>2
  <2>10. CASE x = signNil(y, "precommit")
    <3>1. MayCast(y, rec, "precommit", Nil)
      BY SMT, BlockIds DEF MayCast
    <3>2. Honest(x, rec, D)
      BY <2>5, <2>9, <2>10, <3>1, SignNilHonest
    <3>3. Signs(y, x, 3)
      BY <2>5, <2>10, SignNil
    <3> QED BY <2>1, <2>6, <3>2, <3>3, PrecommitStepHonest
  <2>    CASE /\ id \in Blocks /\ x = voteOn(y, "precommit", id, w)
              /\ w.verdict = "agree" => y.lock.block = id /\ y.lock.round = r
    <3>1. id \in Ids /\ id # NoId
      BY BlockIds
    <3>2. ASSUME w.verdict = "agree" PROVE MayCast(y, rec, "precommit", id)
      <4>1. s.height = 1 => PolkaOn(rec, r, id)
        BY <1>1, <2>8, <3>1, PolkaIsOnRecord
      <4>2. y.lock.block = id /\ y.lock.round = r
        BY <3>2
      <4>3. r =< y.lock.round
        BY SMT, <1>1, <4>2
      <4> QED BY SMT, <2>6, <4>1, <4>2, <4>3 DEF MayCast
    <3>3. Honest(x, rec, D)
      BY <2>5, <2>9, <3>1, <3>2, VoteOnHonest
    <3>4. Signs(y, x, 3)
      BY <2>5, <3>1, VoteOn
    <3> QED BY <2>1, <2>6, <3>3, <3>4, PrecommitStepHonest
  <2> QED BY <2>3, <2>10 DEF Chooses
<1> QED BY <1>2, <1>3

-----------------------------------------------------------------------------
(* Committing *)

\* A node that leaves height 1 behind
LEMMA LeavesHonest ==
    ASSUME NEW s, NEW t, NEW rec, NEW D, Honest(s, rec, D), t.height # 1, t.queue = s.queue,
           Keeps(t, rec, D)
    PROVE  Honest(t, rec, D)
<1>   /\ Pending(t) = Pending(s)
      /\ \A k, r, x : Casts(t, rec, k, r, x) <=> Casts(s, rec, k, r, x)
  BY SameQueue
<1> InOrder(s, rec) /\ Justified(s, rec)
  BY DEF Honest
<1>3. InOrder(t, rec)
  BY DEF InOrder
<1>4. Justified(t, rec)
  BY DEF Justified
<1> QED BY <1>3, <1>4 DEF Honest, Holds, Counted

\* SaveBlock of the block of the commit: at height 1 the precommits for it are
\* on record.
LEMMA SavedKeeps ==
    ASSUME NEW s \in Nodes, NEW rec, NEW D, Honest(s, rec, D), s.commitRound \in Nat,
           s.pblock \in Blocks, s.pblock = TwoThirdsMajority(Precommits(s.votes, s.commitRound)),
           NEW d, d.stored = saved(s).stored, NEW t, t.stored = d.stored, t.height # 1
    PROVE  Keeps(t, rec, D)
<1> DEFINE new == [height |-> s.height, block |-> s.pblock, parts |-> s.parts]
<1> Keeps(s, rec, D) /\ Counted(s, rec)
  BY DEF Honest
<1>2. t.stored = s.stored \/ t.stored = s.stored \cup {new}
  BY DEF saved, Nodes
<1>3. new.height = s.height /\ new.block = s.pblock
  OBVIOUS
<1> HIDE DEF new
<1>4. CASE t.stored = s.stored
  <2>1. At1(t) = At1(s)
    BY <1>4 DEF At1
  <2> QED BY <2>1 DEF Keeps
<1>5. CASE t.stored = s.stored \cup {new} /\ s.height # 1
  <2>1. At1(t) = At1(s)
    BY <1>3, <1>5 DEF At1
  <2> QED BY <2>1 DEF Keeps
<1> CASE t.stored = s.stored \cup {new} /\ s.height = 1
  <2>1. At1(s) = {} /\ D = {}
    BY DEF Keeps
  <2>2. At1(t) = {s.pblock}
    BY <1>3, <2>1 DEF At1
  <2>3. CommitOn(rec, s.commitRound, s.pblock)
    <3>1. s.pblock = TwoThirdsMajority(getVoteSet(s.votes, s.commitRound, "precommit"))
          /\ "precommit" \in Kinds
      BY DEF Precommits, Kinds
    <3>2. s.pblock # NoId
      BY BlockIds
    <3> QED BY <3>1, <3>2, MajorityIsOnRecord DEF CommitOn
  <2> QED BY <2>1, <2>2, <2>3 DEF Keeps
<1> QED BY <1>2, <1>4, <1>5

\* finalizeCommit, for each outcome of ConsensusCommit
LEMMA FinalizeCommitHonest ==
    ASSUME NEW s, Ready(s), s.step = RoundStepCommit, NEW w \in Worlds, ParentsAreThere,
           NEW id, id \in Blocks, id = s.pblock,
           id = TwoThirdsMajority(Precommits(s.votes, s.commitRound)), s.commitRound \in Nat,
           NEW rec, NEW D, Honest(s, rec, D), NEW t, t = finalizeCommit(s, id, w)
    PROVE  Honest(t, rec, D)
<1>   /\ s \in Nodes /\ running(s) /\ Control(s)
      /\ s.height \in Nat /\ s.chain \in Nat /\ s.pblock \in AnyId /\ s.parts \in PartSets
  BY DEF Ready, Nodes
<1>2. w.outcome \in {"inserted", "failed", "unsent"}
  BY ConsensusAssumption DEF ConsensusAssumption, Worlds, ParentsAreThere
<1>3. CASE s.parts.block # id
  <2>1. t = panic(s, "finalizeCommit")
    BY <1>3 DEF finalizeCommit
  <2>2. t \in Nodes
    <3>1. "finalizeCommit" \in Halts
      BY DEF Halts
    <3> QED BY <2>1, <3>1 DEF Nodes, panic
  <2> QED BY <2>1, <2>2, PanicHonest
<1> DEFINE c == committed(s, w)
<1>4. c = s \/ c = [s EXCEPT !.chain = s.height]
  BY DEF committed
<1>5. w.outcome = "inserted" => c.chain = s.height
  <2>1. s.height \in {s.chain, s.chain + 1}
    BY DEF Control, ChainOK
  <2> QED BY SMT, <2>1 DEF committed, Nodes
<1> HIDE DEF c
<1>   /\ c \in Nodes /\ c.height = s.height /\ c.round = s.round /\ c.commitRound = s.commitRound
      /\ c.pblock = s.pblock /\ c.parts = s.parts /\ c.lock = s.lock /\ c.votes = s.votes
      /\ c.queue = s.queue /\ c.signer = s.signer /\ c.stored = s.stored
  BY <1>4 DEF Nodes
<1>7. Honest(c, rec, D)
  <2>1. Steady(s, c)
    BY SteadyAlike
  <2> QED BY <2>1, StaysHonest
<1>8. CASE s.parts.block = id /\ w.outcome \in {"failed", "unsent"}
  <2>1. t = c
    BY <1>8 DEF finalizeCommit, c
  <2> QED BY <1>7, <2>1
<1>9. CASE s.parts.block = id /\ w.outcome = "inserted"
  <2> DEFINE d == saved(c)
             u == updateToState(d)
  <2>1. t = scheduleTimeout(u, 0, RoundStepNewHeight, 1)
    BY <1>9 DEF finalizeCommit, c, scheduleRound0
  <2> DEFINE more == c.stored \cup {[height |-> c.height, block |-> c.pblock, parts |-> c.parts]}
  <2>2. d \in Nodes /\ d.votes = c.votes /\ d.commitRound = c.commitRound /\ d.chain = c.chain
        /\ d.queue = c.queue
    <3>1. more \in SUBSET Stored
      BY SMT DEF Nodes, Stored
    <3>2. d = [c EXCEPT !.stored = more] \/ d = c
      BY DEF saved
    <3> HIDE DEF more, d
    <3> QED BY <3>1, <3>2 DEF Nodes
  <2>3. d.stored = saved(c).stored
    OBVIOUS
  <2> HIDE DEF d, more
  <2>4. CommitOK(d)
    BY <2>2 DEF Control, CommitOK
  <2> u \in Nodes /\ NextHeight(d, u)
    BY <2>2, <2>4, UpdateToState
  <2> HIDE DEF u
  <2>6. Scheduled(u, t, 0, RoundStepNewHeight, 1)
    <3>1. 0 \in Nat /\ 1 \in Nat /\ RoundStepNewHeight \in {1, 2, 3, 5, 7}
      BY DEF RoundStepNewHeight
    <3> QED BY <2>1, <3>1, ScheduleTimeout
  <2>7. u.height # 1
    <3>1. u.height = s.height + 1
      BY <1>5, <1>9, <2>2 DEF NextHeight
    <3>2. s.height > 0
      BY DEF Control, ChainOK
    <3> QED BY SMT, <3>1, <3>2
  <2> u.queue = c.queue /\ u.stored = d.stored
    BY <2>2 DEF NextHeight
  <2>9. c.commitRound \in Nat /\ c.pblock \in Blocks
        /\ c.pblock = TwoThirdsMajority(Precommits(c.votes, c.commitRound))
    OBVIOUS
  <2>10. Keeps(u, rec, D)
    BY <1>7, <2>3, <2>7, <2>9, SavedKeeps
  <2>11. Honest(u, rec, D)
    BY <1>7, <2>7, <2>10, LeavesHonest
  <2> QED BY <2>6, <2>11, TickHonest
<1> QED BY <1>2, <1>3, <1>8, <1>9

\* tryFinalizeCommit of a node in Commit
LEMMA TryFinalizeCommitHonest ==
    ASSUME NEW s, Ready(s), s.step = RoundStepCommit, NEW w \in Worlds,
           ParentsAreThere, NEW rec, NEW D, Honest(s, rec, D), NEW t, t = tryFinalizeCommit(s, w)
    PROVE  Honest(t, rec, D)
<1> DEFINE id == TwoThirdsMajority(Precommits(s.votes, s.commitRound))
<1> CASE running(s) /\ id \in Blocks /\ s.pblock = id
  <2>1. t = finalizeCommit(s, id, w)
    BY DEF tryFinalizeCommit
  <2>2. s.commitRound \in Nat
    <3>1. Tracked(s.votes) \in SUBSET Nat
      BY HVSetsFields DEF Ready, Nodes
    <3>2. s.commitRound \notin Tracked(s.votes) => id = NoId
      BY DEF Precommits, getVoteSet, NewVoteSet, TwoThirdsMajority
    <3> QED BY <3>1, <3>2, BlockIds
  <2> QED BY <2>1, <2>2, FinalizeCommitHonest
<1> CASE ~(running(s) /\ id \in Blocks /\ s.pblock = id)
  <2>1. t = s
    BY DEF tryFinalizeCommit
  <2> QED BY <2>1
<1> QED OBVIOUS

\* enterCommit with a majority of precommits
LEMMA EnterCommitHonest ==
    ASSUME NEW s, Ready(s), Locked(s), NEW w \in Worlds, NEW c \in Nat,
           HasTwoThirdsMajority(Precommits(s.votes, c)), ParentsAreThere,
           NEW rec, NEW D, Honest(s, rec, D), NEW t, t = enterCommit(s, c, w)
    PROVE  Honest(t, rec, D)
<1> s \in Nodes /\ s.step \in Steps
  BY DEF Ready, Nodes
<1>2. CASE RoundStepCommit =< s.step
  <2>1. t = s
    BY <1>2 DEF enterCommit
  <2> QED BY <2>1
<1>3. CASE s.step < RoundStepCommit
  <2>1. PICK y : InCommit(s, y, c) /\ t = tryFinalizeCommit(y, w)
    BY SMT, <1>3, CommitBegins
  <2> Ready(y) /\ y \in Nodes /\ y.step = RoundStepCommit
    BY <2>1 DEF InCommit, Ready
  <2>3. Steady(s, y)
    <3>1. /\ y.height = s.height /\ y.round = s.round /\ y.lock = s.lock /\ y.votes = s.votes
          /\ y.queue = s.queue /\ y.signer = s.signer /\ y.stored = s.stored
      BY <2>1 DEF InCommit
    <3> QED BY <3>1, SteadyAlike
  <2>4. Honest(y, rec, D)
    BY <2>3, StaysHonest
  <2> QED BY <2>1, <2>4, TryFinalizeCommitHonest
<1>4. RoundStepCommit =< s.step \/ s.step < RoundStepCommit
  BY SMT DEF RoundStepCommit, Steps
<1> QED BY <1>2, <1>3, <1>4

-----------------------------------------------------------------------------
(* Messages *)

\* A node at rest has no polka of its round before it precommits.
LEMMA PrevoteHonest ==
    ASSUME VerdictsAreGiven, NEW s, Ready(s), Locked(s), NEW w \in Worlds,
           NEW rec, NEW D, Honest(s, rec, D), NEW t, t = enterPrevote(s, s.round, w)
    PROVE  Honest(t, rec, D)
<1>1. s.step \in Steps
  BY DEF Ready, Nodes
<1>2. s.step < RoundStepPrevote => polka(s, s.round) = NoId
  BY SMT, <1>1 DEF Locked, PolkaSeen, RoundStepPrevote, RoundStepPrecommit, Steps
<1> QED BY <1>2, EnterPrevoteHonest

\* setProposal
LEMMA SetProposalHonest ==
    ASSUME NEW s \in Nodes, NEW m \in ProposalMsgs, NEW rec, NEW D, Honest(s, rec, D),
           NEW t, t = setProposal(s, m), t \in Nodes
    PROVE  Honest(t, rec, D)
<1> DEFINE prop == [block |-> m.block, pol |-> m.pol]
<1>1. t = s \/ t = [s EXCEPT !.proposal = prop, !.parts = PartsOf(m.block)]
  BY DEF setProposal
<1>2. /\ t.height = s.height /\ t.round = s.round /\ t.lock = s.lock /\ t.votes = s.votes
      /\ t.queue = s.queue /\ t.signer = s.signer /\ t.stored = s.stored
  BY <1>1 DEF Nodes
<1>3. Steady(s, t)
  BY <1>2, SteadyAlike
<1> QED BY <1>3, StaysHonest

\* Another valid block changes nothing that Honest speaks of.
LEMMA ValidSetHonest ==
    ASSUME NEW s \in Nodes, NEW r, NEW u, ValidSet(s, u, r), NEW rec, NEW D, Honest(s, rec, D)
    PROVE  Honest(u, rec, D)
<1> u \in Nodes /\ u = [s EXCEPT !.lock = u.lock, !.valid = u.valid] /\ u.lock = s.lock
  BY DEF ValidSet, Revalued
<1>2. /\ u.height = s.height /\ u.round = s.round /\ u.lock = s.lock /\ u.votes = s.votes
      /\ u.queue = s.queue /\ u.signer = s.signer /\ u.stored = s.stored
  BY DEF Nodes
<1> QED BY <1>2, SteadyAlike, StaysHonest

\* addProposalBlockPart with the last missing part, and where it leads
LEMMA BlockCompletedHonest ==
    ASSUME VerdictsAreGiven, ParentsAreThere, NEW s, Ready(s), Locked(s), s.parts # NoParts,
           ~s.parts.done, s.parts.block # NoId, NEW w \in Worlds,
           NEW rec, NEW D, Honest(s, rec, D), NEW x, x = blockCompleted(s, w)
    PROVE  Honest(x, rec, D)
<1> DEFINE t == [s EXCEPT !.parts.done = TRUE, !.pblock = s.parts.block]
           u == validOn(t, t.round, TwoThirdsMajority(Prevotes(t.votes, t.round)))
<1>1. x = IF u.step =< RoundStepPropose /\ isProposalComplete(u) THEN enterPrevote(u, u.round, w)
          ELSE IF u.step = RoundStepCommit THEN tryFinalizeCommit(u, w)
          ELSE u
  BY DEF blockCompleted
<1>2. s \in Nodes
  BY DEF Ready
<1>3. Ready(t) /\ Locked(t)
  BY CompletedReady
<1> t \in Nodes
  BY <1>3 DEF Ready
<1>5. /\ t.height = s.height /\ t.round = s.round /\ t.lock = s.lock /\ t.votes = s.votes
      /\ t.queue = s.queue /\ t.signer = s.signer /\ t.stored = s.stored
  BY <1>2 DEF Nodes
<1> HIDE DEF t
<1>6. ValidSet(t, u, t.round)
  <2>1. t.round \in Nat /\ u = validOn(t, t.round, polka(t, t.round))
    BY DEF Nodes, polka
  <2> QED BY <2>1, ValidOn
<1> HIDE DEF u
<1>7. Ready(u) /\ Locked(u)
  <2>1. t.round \in Nat
    BY DEF Nodes
  <2> QED BY SMT, <1>3, <1>6, <2>1, ValidSetLocks DEF Locked
<1> Honest(u, rec, D)
  <2>1. Honest(t, rec, D)
    BY <1>2, <1>5, SteadyAlike, StaysHonest
  <2> QED BY <1>6, <2>1, ValidSetHonest
<1> CASE x = enterPrevote(u, u.round, w)
  BY <1>7, PrevoteHonest
<1> CASE u.step = RoundStepCommit /\ x = tryFinalizeCommit(u, w)
  BY <1>7, TryFinalizeCommitHonest
<1> CASE x = u
  OBVIOUS
<1> QED BY <1>1

\* addProposalBlockPart
LEMMA AddProposalBlockPartHonest ==
    ASSUME VerdictsAreGiven, ParentsAreThere, NEW s, Ready(s), Locked(s), NEW m \in PartMsgs,
           NEW w \in Worlds, NEW rec, NEW D, Honest(s, rec, D),
           NEW t, t = addProposalBlockPart(s, m, w)
    PROVE  Honest(t, rec, D)
<1> s \in Nodes
  BY DEF Ready
<1> CASE t = s
  OBVIOUS
<1> CASE t = panic(s, "nil part")
  <2>1. t \in Nodes
    <3>1. "nil part" \in Halts
      BY DEF Halts
    <3> QED BY <3>1 DEF Nodes, panic
  <2> QED BY <2>1, PanicHonest
<1>   CASE /\ s.parts # NoParts /\ m.block # NoId /\ m.block = s.parts.block /\ ~s.parts.done
           /\ t = blockCompleted(s, w)
  BY BlockCompletedHonest
<1> QED BY DEF addProposalBlockPart

\* A precommit of the height before
LEMMA LateCommitVoteHonest ==
    ASSUME VerdictsAreGiven, NEW s, Ready(s), Locked(s), NEW m \in VoteMsgs, NEW w \in Worlds,
           NEW rec, NEW D, Honest(s, rec, D), NEW x, x = lateCommitVote(s, m, w)
    PROVE  Honest(x, rec, D)
<1> DEFINE t == [s EXCEPT !.lastCommit.set = addVote(s.lastCommit.set, m.v, ballot(m))]
<1>1. x = s \/ (s.lastCommit # NoId /\ x \in {t, enterNewRound(t, 0, w)})
  BY DEF lateCommitVote
<1>2. CASE x = s
  BY <1>2
<1> CASE s.lastCommit # NoId /\ x \in {t, enterNewRound(t, 0, w)}
  <2> s \in Nodes
    BY DEF Ready
  <2> Ready(t) /\ Locked(t)
    BY LateVoteReady
  <2>3. t \in Nodes
    BY DEF Ready
  <2>4. /\ t.height = s.height /\ t.round = s.round /\ t.lock = s.lock /\ t.votes = s.votes
        /\ t.queue = s.queue /\ t.signer = s.signer /\ t.stored = s.stored
    BY DEF Nodes
  <2> HIDE DEF t
  <2>5. Honest(t, rec, D)
    BY <2>3, <2>4, SteadyAlike, StaysHonest
  <2>6. 0 \in Nat
    OBVIOUS
  <2> QED BY <2>5, <2>6, EnterNewRoundHonest
<1> QED BY <1>1, <1>2

-----------------------------------------------------------------------------
(* A vote has been added *)

\* enterNewRound and enterPrecommit of round r, one after the other
LEMMA PrecommitReachedHonest ==
    ASSUME VerdictsAreGiven, NEW s, Ready(s), NEW r \in Nat, NEW w \in Worlds,
           NEW rec, NEW D, Honest(s, rec, D), NEW t, t = enterPrecommit(enterNewRound(s, r, w), r, w)
    PROVE  Honest(t, rec, D)
<1> DEFINE n == enterNewRound(s, r, w)
<1>   /\ s \in Nodes /\ running(s) /\ ~s.refused /\ Control(s) /\ TimerUpTo(s, s.round)
      /\ s.round \in Nat /\ s.timer \in Timers /\ s.height \in Nat /\ s.step \in Steps
  BY DEF Ready, Nodes
<1>2. Honest(n, rec, D)
  BY EnterNewRoundHonest
<1>3. CASE r < s.round
  <2>1. n = s
    BY SMT, <1>3 DEF enterNewRound
  <2>2. t = s
    BY SMT, <1>3, <2>1 DEF enterPrecommit, mayEnter
  <2> QED BY <2>2
<1>4. CASE r >= s.round
  <2>1. Sane(n) /\ n.round = r
    <3>1. CASE r > s.round \/ (r = s.round /\ s.step = RoundStepNewHeight)
      <4>1. TimerUpTo(s, r)
        BY SMT, <3>1 DEF TimerUpTo, Timers
      <4>2. Sane(n) /\ NewRound(s, n, r)
        BY <3>1, <4>1, EnterNewRound
      <4> QED BY <4>2 DEF NewRound
    <3>2. CASE r = s.round /\ s.step # RoundStepNewHeight
      <4>1. n = s
        BY <3>2 DEF enterNewRound
      <4> QED BY <3>2, <4>1 DEF Sane
    <3> QED BY SMT, <1>4, <3>1, <3>2
  <2> HIDE DEF n
  <2>2. CASE running(n)
    <3>1. Ready(n)
      BY <2>1, <2>2, SaneNode
    <3>2. t = enterPrecommit(n, n.round, w)
      BY <2>1 DEF n
    <3> QED BY <1>2, <3>1, <3>2, EnterPrecommitHonest
  <2> CASE ~running(n)
    <3>1. t = n
      BY SMT, HaltedStays DEF n
    <3> QED BY <1>2, <3>1
  <2> QED BY <2>2
<1> QED BY SMT, <1>3, <1>4

\* A polka of a round reached releases a lock on something else.
LEMMA ReleasedHonest ==
    ASSUME NEW s, Ready(s), NEW r \in Nat, NEW id, id = polka(s, r), id # NoId,
           NEW rec, NEW D, Honest(s, rec, D), NEW u, u = validOn(lockReleased(s, r, id), r, id)
    PROVE  Honest(u, rec, D)
<1> DEFINE v == lockReleased(s, r, id)
<1> s \in Nodes /\ s.round \in Nat /\ s.lock \in Locks
  BY DEF Ready, Nodes
<1>2. v \in Nodes /\ v.votes = s.votes /\ Honest(v, rec, D)
  <2>1. CASE v = s
    BY <2>1
  <2>   CASE /\ v = unlocked(s) /\ s.lock.block \notin {NoId, id}
             /\ s.lock.round < r /\ r =< s.round
    <3> HIDE DEF v
    <3> v \in Nodes /\ Relocked(s, v)
      BY Unlocks
    <3> v.votes = s.votes /\ v.round = s.round
      BY DEF Relocked, Nodes
    <3>3. \A q : polka(v, q) = polka(s, q)
      BY DEF polka
    <3>   ASSUME NEW c \in Nat, NEW b \in Blocks, HeldFor(s, c, b)
          PROVE  HeldFor(v, c, b)
      <4> CASE c < r
        BY SMT, PolkaReleases
      <4> CASE c >= r
        <5>1. s.lock.round \in Nat
          BY DEF Locks
        <5>2. ~(c =< s.lock.round)
          BY SMT, <5>1
        <5> QED BY <3>3, <5>2 DEF HeldFor
      <4> QED BY SMT
    <3>5. Honest(v, rec, D)
      BY RelockedHonest
    <3> QED BY <3>5
  <2>3. \/ v = s
        \/ /\ v = unlocked(s) /\ s.lock.block \notin {NoId, id}
           /\ s.lock.round < r /\ r =< s.round
    BY DEF lockReleased
  <2> HIDE DEF v
  <2> QED BY <2>1, <2>3
<1> HIDE DEF v
<1>3. ValidSet(v, u, r)
  <2>1. u = validOn(v, r, polka(v, r))
    BY <1>2 DEF v, polka
  <2> QED BY <1>2, <2>1, ValidOn
<1> QED BY SMT, <1>2, <1>3, ValidSetHonest

\* No majority yet: enterPrevote and enterPrevoteWait, or nothing
LEMMA PrevotesWithoutPolkaHonest ==
    ASSUME VerdictsAreGiven, NEW s, Ready(s), Locked(s), NEW r \in Nat, s.round =< r,
           NEW w \in Worlds, HasTwoThirdsAny(Prevotes(s.votes, r)), NEW rec, NEW D, Honest(s, rec, D),
           NEW t, t = enterPrevoteWait(enterPrevote(enterNewRound(s, r, w), r, w), r)
    PROVE  Honest(t, rec, D)
<1> DEFINE n == enterNewRound(s, r, w)
           p == enterPrevote(n, r, w)
<1>1. s \in Nodes /\ s.round \in Nat
  BY DEF Ready, Nodes
<1>2. /\ Fine(n) /\ SameVotes(s.votes, n.votes)
      /\ IF r < s.round \/ (r = s.round /\ s.step # RoundStepNewHeight) THEN n = s ELSE NewRound(s, n, r)
  BY NewRoundAtRest
<1>3. n.round = r
  BY SMT, <1>1, <1>2 DEF NewRound
<1>4. HasTwoThirdsAny(Prevotes(n.votes, r))
  BY <1>2 DEF SameVotes, Prevotes, Kinds
<1>5. Honest(n, rec, D)
  BY EnterNewRoundHonest
<1> HIDE DEF n
<1>6. CASE ~running(n)
  <2>1. t = n
    BY SMT, <1>6, HaltedStays DEF n
  <2> QED BY <1>5, <2>1
<1>7. CASE running(n)
  <2>1. Ready(n) /\ Locked(n) /\ n \in Nodes
    BY <1>2, <1>7, FineRunning
  <2> Fine(p) /\ Moved(n, p)
    BY <1>3, <2>1, PrevoteAtRest
  <2>3. Honest(p, rec, D)
    BY <1>3, <1>5, <2>1, PrevoteHonest
  <2> HIDE DEF p
  <2> p \in Nodes
    BY FineRunning
  <2> p.votes = n.votes /\ p.round = r
    BY <1>3, <2>1, MovedLocks
  <2>6. t = enterPrevoteWait(p, p.round)
    BY DEF n, p
  <2> QED BY <1>4, <2>3, <2>6, EnterPrevoteWaitHonest
<1> QED BY <1>6, <1>7

\* addVote of a prevote that was added, with all that follows
LEMMA PrevoteAddedHonest ==
    ASSUME VerdictsAreGiven, NEW s, Ready(s), NEW r \in Nat, LockedBut(s, r), NEW w \in Worlds,
           NEW rec, NEW D, Honest(s, rec, D), NEW x, x = prevoteAdded(s, r, w)
    PROVE  Honest(x, rec, D)
<1> DEFINE id == polka(s, r)
           any == HasTwoThirdsAny(Prevotes(s.votes, r))
<1> s \in Nodes /\ s.round \in Nat /\ s.votes \in HVSets
  BY DEF Ready, Nodes
<1>2. CASE id = NoId
  <2>1. Locked(s)
    BY <1>2, LockedWithoutPolka
  <2>2. \/ /\ s.round =< r /\ any
           /\ x = enterPrevoteWait(enterPrevote(enterNewRound(s, r, w), r, w), r)
        \/ x = enterPrevote(s, s.round, w)
        \/ x = s
    BY <1>2 DEF prevoteAdded, polka
  <2>3. CASE /\ s.round =< r /\ any
             /\ x = enterPrevoteWait(enterPrevote(enterNewRound(s, r, w), r, w), r)
    BY <2>1, <2>3, PrevotesWithoutPolkaHonest
  <2>4. CASE x = enterPrevote(s, s.round, w)
    BY <2>1, <2>4, PrevoteHonest
  <2> QED BY <2>2, <2>3, <2>4
<1> CASE id # NoId
  <2> DEFINE u == validOn(lockReleased(s, r, id), r, id)
  <2>1. any
    <3>1. Prevotes(s.votes, r) \in GoodSets
      BY SetsAreGood DEF Prevotes, Kinds
    <3> QED BY <3>1, MajorityHasAny DEF GoodSets, polka, TwoThirdsMajority
  <2>2. x = IF u.round =< r THEN enterPrecommit(enterNewRound(u, r, w), r, w)
            ELSE IF u.proposal # NoProposal /\ u.proposal.pol = r /\ isProposalComplete(u)
            THEN enterPrevote(u, u.round, w)
            ELSE u
    BY <2>1 DEF prevoteAdded, polka
  <2>3. Honest(u, rec, D)
    BY ReleasedHonest
  <2>4. CASE s.round < r
    <3>1. u = s
      BY SMT, <2>4 DEF validOn, lockReleased
    <3>2. x = enterPrecommit(enterNewRound(s, r, w), r, w)
      BY SMT, <2>2, <2>4, <3>1
    <3> QED BY <3>2, PrecommitReachedHonest
  <2>5. CASE r =< s.round
    <3>1. /\ Ready(u) /\ u.round = s.round /\ LockUpTo(u, u.round + 1) /\ NoPolkaAfter(u, u.round)
          /\ r # u.round => PolkaSeen(u)
      BY SMT, <2>5, Released
    <3> HIDE DEF u
    <3>2. CASE x = enterPrecommit(enterNewRound(u, r, w), r, w)
      BY <2>3, <3>1, <3>2, PrecommitReachedHonest
    <3> CASE x = u
      BY <2>3
    <3> CASE ~(u.round =< r) /\ x = enterPrevote(u, u.round, w)
      <4>1. Locked(u)
        BY SMT, <3>1 DEF Locked
      <4> QED BY <2>3, <3>1, <4>1, PrevoteHonest
    <3> QED BY <2>2, <3>2
  <2> QED BY SMT, <2>4, <2>5
<1> QED BY <1>2

\* addVote of a precommit that was added, with all that follows
LEMMA PrecommitAddedHonest ==
    ASSUME VerdictsAreGiven, ParentsAreThere, NEW s, Ready(s), Locked(s), NEW r \in Nat,
           NEW w \in Worlds, NEW rec, NEW D, Honest(s, rec, D), NEW x, x = precommitAdded(s, r, w)
    PROVE  Honest(x, rec, D)
<1> DEFINE precommits == Precommits(s.votes, r)
           id == TwoThirdsMajority(precommits)
           n == enterPrecommit(enterNewRound(s, r, w), r, w)
           c == enterCommit(n, r, w)
<1>1. s \in Nodes /\ s.round \in Nat
  BY DEF Ready, Nodes
<1>2. /\ Fine(n) /\ SameVotes(s.votes, n.votes)
      /\ s.round =< r => n.round = r
  BY PrecommitReached
<1>3. Honest(n, rec, D)
  BY PrecommitReachedHonest
<1>4. Precommits(n.votes, r) = precommits
  BY <1>2 DEF SameVotes, Precommits, Kinds
<1>5. PrecommitLeads(s, r, w, x)
  BY <1>1, PrecommitCases
<1>6. CASE x = enterNewRound(s, r + 1, w)
  <2>1. r + 1 \in Nat
    BY SMT
  <2> QED BY <1>6, <2>1, EnterNewRoundHonest
<1>7. CASE x = enterNewRound(s, s.round + 1, w)
  <2>1. s.round + 1 \in Nat
    BY SMT, <1>1
  <2> QED BY <1>7, <2>1, EnterNewRoundHonest
<1>8. CASE x = s
  BY <1>8
<1>9. CASE id # NoId /\ x \in {c, enterNewRound(c, 0, w)}
  <2>1. HasTwoThirdsMajority(Precommits(n.votes, r))
    BY <1>4, <1>9 DEF HasTwoThirdsMajority, TwoThirdsMajority
  <2> HIDE DEF n, id
  <2>2. Fine(c) /\ Honest(c, rec, D)
    <3>1. CASE running(n)
      BY <1>2, <1>3, <2>1, <3>1, FineRunning, CommitAtRest, EnterCommitHonest
    <3>2. CASE ~running(n)
      <4>1. c = n
        BY <3>2, HaltedStays
      <4> QED BY <1>2, <1>3, <4>1
    <3> QED BY <3>1, <3>2
  <2> HIDE DEF c
  <2> CASE x = enterNewRound(c, 0, w)
    <3>1. CASE running(c)
      <4>1. 0 \in Nat
        OBVIOUS
      <4> QED BY <2>2, <3>1, <4>1, FineRunning, EnterNewRoundHonest
    <3>2. CASE ~running(c)
      <4>1. x = c
        BY SMT, <3>2, HaltedStays
      <4> QED BY <2>2, <4>1
    <3> QED BY <3>1, <3>2
  <2> QED BY <1>9, <2>2
<1> CASE s.round =< r /\ HasTwoThirdsAny(precommits) /\ x = enterPrecommitWait(n, r)
  <2> HIDE DEF n
  <2>1. n \in Nodes
    BY <1>2, FineRunning
  <2>2. x = enterPrecommitWait(n, n.round) /\ HasTwoThirdsAny(Precommits(n.votes, n.round))
    BY <1>2, <1>4
  <2> QED BY <1>3, <2>1, <2>2, EnterPrecommitWaitHonest
<1> QED BY <1>5, <1>6, <1>7, <1>8, <1>9 DEF PrecommitLeads

===============================================================================
