--------------------------- MODULE FastChainProof ---------------------------
(***************************************************************************)
(* What holds of the fast chain for any chain of blocks, any window of     *)
(* states and any points at which the process ends: the chain below the    *)
(* head is whole, the head only grows, a chain that fell back says so      *)
(* until it has its blocks again, and the block that follows the head can  *)
(* be imported.                                                            *)
(***************************************************************************)
EXTENDS FastChain, WellFoundedInduction, TLAPS

Disks ==
    [bodies : SUBSET Nat, headers : SUBSET Nat, states : SUBSET Nat, lookups : SUBSET Nat,
     canonical : SUBSET Nat, rewarded : Nat, head : Nat, header : Nat, fast : Nat, last : Nat]

Nodes ==
    [status : {"up", "down", "panic"}, current : Nat, header : Nat, fast : Nat, last : Nat,
     reward : Nat, isFallback : BOOLEAN, tries : SUBSET Nat]

TypeOK ==
    /\ disk \in Disks /\ node \in Nodes
    /\ calls \subseteq Nat \X Nat
    /\ job # <<>> => job \in (1 .. MaxBlock) \X (1 .. MaxBlock) \X (1 .. 11)
    /\ top \in Nat

\* The disk, whatever the process does: no state is above the head or the fast
\* head, so that a repair never passes them.
DiskInv ==
    /\ HeadIsWhole
    /\ disk.head <= MaxBlock
    /\ 0 \in disk.states
    /\ \A s \in disk.states : s <= disk.head /\ s <= disk.fast
    /\ GetBlock(disk.fast) /\ GetBlock(disk.last)
    /\ top <= disk.last

\* The pointers of a process that runs are those on the disk.
PointersInv ==
    Up => /\ node.fast = disk.fast /\ node.last = disk.last
          /\ node.current <= disk.head
          /\ \/ node.current <= node.fast
             \/ job # <<>> /\ job[3] \in {8, 9} /\ node.current = node.fast + 1
          /\ node.isFallback \/ node.last <= node.current

\* No block above the head has a state, the one being inserted excepted.
StatesInv ==
    Up => /\ \A s \in disk.states : s <= node.current
          /\ \A s \in node.tries :
                s <= node.current \/ (job # <<>> /\ job[3] \in 5 .. 7 /\ s = block)

\* A call that waits has only known blocks up to the head.
CallsInv ==
    Up => \A c \in calls : \A n \in c[1] .. node.current : HasBlockAndState(n)

\* The block being inserted follows the head until it is the head, and the
\* parts of it that insert relies on have been written.
JobInv ==
    job # <<>> =>
        /\ Up
        /\ block <= job[2]
        /\ block = IF job[3] <= 7 THEN node.current + 1 ELSE node.current
        /\ job[3] > 1 => block \in disk.bodies
        /\ job[3] > 2 => block \in disk.headers
        /\ job[3] \in 5 .. 7 => block \in node.tries
        /\ job[3] > 5 => block \in disk.lookups
        /\ job[3] > 6 => block \in disk.canonical

ChainInv == TypeOK /\ DiskInv /\ PointersInv /\ StatesInv /\ CallsInv /\ JobInv
-----------------------------------------------------------------------------
(* Least and greatest elements, which the library's operators choose.      *)

\* A set of naturals with an element has a least one.
LEMMA Least ==
    ASSUME NEW S, S \subseteq Nat, S # {}
    PROVE  \E x \in S : \A y \in S : x <= y
<1>1. IsWellFoundedOn(OpToRel(<, Nat), Nat)
  BY NatLessThanWellFounded, Zenon
<1>2. PICK x \in S : \A y \in S : ~(<<y, x>> \in OpToRel(<, Nat))
  BY <1>1, WFMin, Zenon
<1>3. \A y \in S : ~(y < x)
  BY <1>2 DEF OpToRel
<1>. QED
  BY <1>3

\* Min is the least element.
LEMMA MinIsLeast ==
    ASSUME NEW S, S \subseteq Nat, S # {}
    PROVE  Min(S) \in S /\ \A y \in S : Min(S) <= y
<1>1. \E x \in S : \A y \in S : x <= y
  BY Least
<1>. QED
  BY <1>1 DEF Min

\* Max is the greatest element of a set with a bound.
LEMMA MaxIsGreatest ==
    ASSUME NEW S, S \subseteq Nat, S # {}, NEW b \in Nat, \A y \in S : y <= b
    PROVE  Max(S) \in S /\ \A y \in S : Max(S) >= y
<1>. DEFINE Above == {u \in Nat : \A y \in S : y <= u}
<1>1. PICK u \in Above : \A w \in Above : u <= w
  <2>. Above \subseteq Nat /\ b \in Above
    OBVIOUS
  <2>. QED
    BY Least
<1>2. u \in S
  <2>1. SUFFICES ASSUME u \notin S PROVE FALSE
    OBVIOUS
  <2>2. PICK y \in S : TRUE
    OBVIOUS
  <2>3. u # 0
    BY <1>1, <2>1, <2>2
  <2>4. u - 1 \in Above
    BY <1>1, <2>1, <2>3
  <2>. QED
    BY <1>1, <2>4
<1>3. \E x \in S : \A y \in S : x >= y
  BY <1>1, <1>2
<1>. QED
  BY <1>3 DEF Max
-----------------------------------------------------------------------------
(* The steps.                                                              *)

\* The chain of a new database satisfies the invariant.
LEMMA InitInv == FInit => ChainInv
BY FastChainAssumption
DEF FInit, ChainInv, TypeOK, Disks, Nodes, DiskInv, HeadIsWhole, GetBlock, PointersInv,
    StatesInv, CallsInv, JobInv, Up

\* At names the index of a write.
LEMMA AtIndex ==
    ASSUME ChainInv
    PROVE  /\ At("body") => job[3] = 1
           /\ At("header") => job[3] = 2
           /\ At("reward") => job[3] = 3
           /\ At("state") => job[3] = 4
           /\ At("batch") => job[3] = 5
           /\ At("canonical") => job[3] = 6
           /\ At("head") => job[3] = 7
           /\ At("headHeader") => job[3] = 8
           /\ At("headFast") => job[3] = 9
           /\ At("last") => job[3] = 10
           /\ AtEnd => job[3] = 11
BY DEF ChainInv, TypeOK, At, AtEnd, writes

\* A new call starts above the head.
LEMMA CallKeepsInv ==
    ASSUME ChainInv, verifyComeAgreement \/ importBlockResults
    PROVE  ChainInv'
<1>1. PICK lo \in Nat, hi \in Nat : lo > node.current /\ Call(lo, hi)
  <2>1. CASE verifyComeAgreement
    <3>1. ~(node.current = node.fast + 1)
      BY <2>1 DEF verifyComeAgreement, Call, ChainInv, TypeOK, Nodes, PointersInv, JobInv, GetBlock, Up
    <3>. QED
      BY <2>1, <3>1 DEF verifyComeAgreement, Call, ChainInv, TypeOK, Nodes, PointersInv
  <2>2. CASE importBlockResults
    BY <2>2, FastChainAssumption DEF importBlockResults, ChainInv, TypeOK, Nodes
  <2>. QED
    BY <2>1, <2>2
<1>. USE <1>1 DEF Call, ChainInv
<1>2. TypeOK'
  BY DEF TypeOK
<1>3. CallsInv'
  BY DEF CallsInv, Up, HasBlockAndState, GetBlock, VerifyHasState, HasState, TypeOK, Nodes
<1>. QED
  BY <1>2, <1>3
  DEF DiskInv, HeadIsWhole, GetBlock, PointersInv, StatesInv, JobInv, Up, block

\* Start takes up the block after the head: its parent has a state.
LEMMA StartKeepsInv ==
    ASSUME ChainInv, Up, job = <<>> \/ job[3] = 11,
           NEW b \in 1 .. MaxBlock, NEW hi \in 1 .. MaxBlock, b > node.current, b <= hi,
           Start(b, hi), calls' \subseteq calls, UNCHANGED top
    PROVE  ChainInv'
<1>. USE DEF ChainInv, Start
<1>1. CASE job' = <<>>
  BY <1>1
  DEF TypeOK, DiskInv, HeadIsWhole, GetBlock, PointersInv, StatesInv, CallsInv, JobInv, Up,
      HasBlockAndState, VerifyHasState, HasState
<1>2. CASE job' = <<b, hi, 1>> /\ HasState(b - 1)
  <2>1. b = node.current + 1
    <3>1. b \in Nat /\ node.current \in Nat
      BY FastChainAssumption DEF TypeOK, Nodes
    <3>2. b - 1 <= node.current
      <4>1. CASE b - 1 \in disk.states
        BY <4>1 DEF StatesInv
      <4>2. CASE b - 1 \in node.tries
        BY <4>2 DEF StatesInv
      <4>. QED
        BY <1>2, <4>1, <4>2 DEF HasState
    <3>. QED
      BY <3>1, <3>2
  <2>. QED
    BY <1>2, <2>1
    DEF TypeOK, DiskInv, HeadIsWhole, GetBlock, PointersInv, StatesInv, CallsInv, JobInv, Up,
        HasBlockAndState, VerifyHasState, HasState, block
<1>. QED
  BY <1>1, <1>2

\* insertChain skips the blocks up to the head.
LEMMA InsertKeepsInv ==
    ASSUME ChainInv, NEW lo \in 1 .. MaxBlock, NEW hi \in 1 .. MaxBlock, insertChain(lo, hi)
    PROVE  ChainInv'
<1>. DEFINE fresh == {b \in lo .. hi : ValidateBody(b) # "known"}
<1>1. Up /\ job = <<>> /\ <<lo, hi>> \in calls /\ calls' \subseteq calls /\ UNCHANGED top
  BY DEF insertChain
<1>2. CASE insertSidechain(lo, hi)
  BY <1>1, <1>2
  DEF ChainInv, insertSidechain, TypeOK, Nodes, DiskInv, HeadIsWhole, GetBlock, PointersInv, StatesInv,
      CallsInv, JobInv, Up, HasBlockAndState, VerifyHasState, HasState
<1>3. CASE UNCHANGED <<disk, node, job>>
  BY <1>1, <1>3
  DEF ChainInv, TypeOK, DiskInv, HeadIsWhole, GetBlock, PointersInv, StatesInv, CallsInv, JobInv, Up,
      HasBlockAndState, VerifyHasState, HasState
<1>4. CASE fresh # {} /\ Start(Min(fresh), hi)
  <2>1. Min(fresh) \in fresh
    BY <1>4, MinIsLeast
  <2>2. \A b \in fresh : b > node.current
    <3>1. SUFFICES ASSUME NEW b \in fresh, b <= node.current PROVE FALSE
      BY FastChainAssumption DEF ChainInv, TypeOK, Nodes
    <3>2. b \in lo .. node.current
      BY <3>1, FastChainAssumption DEF ChainInv, TypeOK, Nodes
    <3>3. HasBlockAndState(b)
      BY <1>1, <3>2 DEF ChainInv, CallsInv
    <3>. QED
      BY <3>1, <3>3, FastChainAssumption DEF ValidateBody, ChainInv, TypeOK, Nodes
  <2>. QED
    BY <1>1, <1>4, <2>1, <2>2, StartKeepsInv, FastChainAssumption
<1>. QED
  BY <1>2, <1>3, <1>4 DEF insertChain

\* The next block of the call follows the one that was inserted.
LEMMA NextBlockKeepsInv ==
    ASSUME ChainInv, NextBlock
    PROVE  ChainInv'
<1>1. job[3] = 11 /\ Up /\ job # <<>>
  BY AtIndex DEF NextBlock, AtEnd
<1>2. CASE block < job[2] /\ Start(block + 1, job[2])
  <2>1. /\ block + 1 \in 1 .. MaxBlock /\ job[2] \in 1 .. MaxBlock
        /\ block + 1 > node.current /\ block + 1 <= job[2]
    <3>1. job[1] \in 1 .. MaxBlock /\ job[2] \in 1 .. MaxBlock /\ job[1] = node.current
      BY <1>1 DEF ChainInv, TypeOK, JobInv, block
    <3>. QED
      BY <1>2, <3>1, FastChainAssumption DEF block
  <2>. QED
    BY <1>1, <1>2, <2>1, StartKeepsInv DEF NextBlock
<1>3. CASE job' = <<>> /\ UNCHANGED <<disk, node>>
  BY <1>1, <1>3
  DEF NextBlock, ChainInv, TypeOK, DiskInv, HeadIsWhole, GetBlock, PointersInv, StatesInv, CallsInv,
      JobInv, Up, HasBlockAndState, VerifyHasState, HasState
<1>. QED
  BY <1>2, <1>3 DEF NextBlock

\* The process ends: what is on the disk stays, and Stop writes states of
\* blocks up to the head.
LEMMA EndKeepsInv ==
    ASSUME ChainInv, CrashChain \/ Stop
    PROVE  ChainInv'
<1>1. CASE CrashChain
  BY <1>1
  DEF CrashChain, Gone, ChainInv, TypeOK, Nodes, DiskInv, HeadIsWhole, GetBlock, PointersInv,
      StatesInv, CallsInv, JobInv, Up
<1>2. CASE Stop
  <2>1. PICK S \in SUBSET node.tries : disk' = [disk EXCEPT !.states = @ \cup S]
    BY <1>2 DEF Stop
  <2>2. /\ Up /\ (job = <<>> \/ job[3] = 11)
        /\ node' = [node EXCEPT !.status = "down"] /\ Gone
    BY <1>2, AtIndex DEF Stop
  <2>3. \A s \in S : s \in Nat /\ s <= node.current
    BY <2>1, <2>2 DEF ChainInv, TypeOK, Nodes, StatesInv
  <2>4. node.current <= disk.head /\ node.current <= disk.fast
    BY <2>2 DEF ChainInv, PointersInv
  <2>5. TypeOK'
    BY <2>1, <2>2, <2>3 DEF Gone, ChainInv, TypeOK, Nodes, Disks
  <2>6. DiskInv'
    BY <2>1, <2>2, <2>3, <2>4 DEF Gone, ChainInv, TypeOK, Nodes, Disks, DiskInv, HeadIsWhole, GetBlock
  <2>. QED
    BY <2>2, <2>5, <2>6 DEF Gone, ChainInv, TypeOK, Nodes, PointersInv, StatesInv, CallsInv, JobInv, Up
<1>. QED
  BY <1>1, <1>2

\* A write leaves the call as it is and goes to the next index.
LEMMA DoneAdvances ==
    ASSUME ChainInv, NEW w, At(w), Done
    PROVE  /\ Up /\ job # <<>> /\ job' # <<>> /\ calls' = calls
           /\ block' = block /\ block \in 1 .. MaxBlock /\ block \in Nat
           /\ job'[2] = job[2] /\ job'[3] = job[3] + 1
           /\ job[3] \in 1 .. 10
           /\ job' \in (1 .. MaxBlock) \X (1 .. MaxBlock) \X (1 .. 11)
<1>1. /\ job \in (1 .. MaxBlock) \X (1 .. MaxBlock) \X (1 .. 11)
      /\ Up /\ job # <<>> /\ job[3] \in 1 .. 10
      /\ job' = <<job[1], job[2], job[3] + 1>> /\ calls' = calls
  BY DEF At, Done, ChainInv, TypeOK, writes
<1>. QED
  BY <1>1, FastChainAssumption DEF block

\* The writes before the head moves.
LEMMA BlockKeepsInv ==
    ASSUME ChainInv, WriteBody \/ WriteHeader \/ WriteBatch \/ WriteCanonicalHash
    PROVE  ChainInv'
<1>1. /\ Up /\ job # <<>> /\ job' # <<>> /\ calls' = calls /\ top' = top /\ node' = node
      /\ block' = block /\ block \in Nat
      /\ job'[2] = job[2] /\ job'[3] = job[3] + 1
      /\ job' \in (1 .. MaxBlock) \X (1 .. MaxBlock) \X (1 .. 11)
  BY DoneAdvances DEF WriteBody, WriteHeader, WriteBatch, WriteCanonicalHash
<1>2. job[3] \in {1, 2, 5, 6}
  BY AtIndex DEF WriteBody, WriteHeader, WriteBatch, WriteCanonicalHash
<1>3. block = node.current + 1
  BY <1>1, <1>2 DEF ChainInv, JobInv
<1>4. /\ disk' \in Disks
      /\ disk'.states = disk.states /\ disk'.head = disk.head /\ disk'.fast = disk.fast
      /\ disk'.last = disk.last
      /\ disk.bodies \subseteq disk'.bodies /\ disk.headers \subseteq disk'.headers
      /\ disk.lookups \subseteq disk'.lookups /\ disk.canonical \subseteq disk'.canonical
      /\ job[3] = 1 => block \in disk'.bodies
      /\ job[3] = 2 => block \in disk'.headers
      /\ job[3] = 5 => block \in disk'.lookups
      /\ job[3] = 6 => block \in disk'.canonical
  <2>0. disk \in Disks /\ block \in Nat
    BY <1>1 DEF ChainInv, TypeOK
  <2>1. CASE WriteBody
    <3>1. job[3] = 1
      BY <2>1, AtIndex DEF WriteBody
    <3>2. disk' \in Disks
      BY <2>1, <2>0 DEF WriteBody, Disks
    <3>. QED
      BY <2>1, <2>0, <3>1, <3>2 DEF WriteBody, Disks
  <2>2. CASE WriteHeader
    <3>1. job[3] = 2
      BY <2>2, AtIndex DEF WriteHeader
    <3>2. disk' \in Disks
      BY <2>2, <2>0 DEF WriteHeader, Disks
    <3>. QED
      BY <2>2, <2>0, <3>1, <3>2 DEF WriteHeader, Disks
  <2>3. CASE WriteBatch
    <3>1. job[3] = 5
      BY <2>3, AtIndex DEF WriteBatch
    <3>2. disk' \in Disks
      BY <2>3, <2>0 DEF WriteBatch, Disks
    <3>. QED
      BY <2>3, <2>0, <3>1, <3>2, <1>3 DEF WriteBatch, Disks
  <2>4. CASE WriteCanonicalHash
    <3>1. job[3] = 6
      BY <2>4, AtIndex DEF WriteCanonicalHash
    <3>2. disk' \in Disks
      BY <2>4, <2>0 DEF WriteCanonicalHash, Disks
    <3>. QED
      BY <2>4, <2>0, <3>1, <3>2 DEF WriteCanonicalHash, Disks
  <2>. QED
    BY <2>1, <2>2, <2>3, <2>4
<1>5. TypeOK'
  BY <1>1, <1>4 DEF ChainInv, TypeOK
<1>6. DiskInv'
  BY <1>1, <1>4 DEF ChainInv, DiskInv, HeadIsWhole, GetBlock
<1>7. PointersInv' /\ StatesInv'
  BY <1>1, <1>2, <1>4 DEF ChainInv, PointersInv, StatesInv, Up
<1>8. CallsInv'
  BY <1>1, <1>4 DEF ChainInv, CallsInv, HasBlockAndState, GetBlock, VerifyHasState, HasState
<1>9. JobInv'
  BY <1>1, <1>2, <1>4 DEF ChainInv, JobInv, Up
<1>. QED
  BY <1>5, <1>6, <1>7, <1>8, <1>9 DEF ChainInv

\* The reward of the block concerns neither the blocks nor the pointers.
LEMMA RewardKeepsInv ==
    ASSUME ChainInv, WriteBlockReward
    PROVE  ChainInv'
<1>1. /\ Up /\ job # <<>> /\ job' # <<>> /\ calls' = calls /\ top' = top
      /\ block' = block /\ block \in 1 .. MaxBlock
      /\ job'[2] = job[2] /\ job'[3] = job[3] + 1
      /\ job' \in (1 .. MaxBlock) \X (1 .. MaxBlock) \X (1 .. 11)
  BY DoneAdvances DEF WriteBlockReward
<1>2. job[3] = 3
  BY AtIndex DEF WriteBlockReward
<1>3. PICK r \in Nat, q \in Nat : /\ disk' = [disk EXCEPT !.rewarded = r]
                                 /\ node' = [node EXCEPT !.reward = q]
  <2>1. Snail[block] \in Nat
    BY <1>1, FastChainAssumption
  <2>2. /\ disk.rewarded \in Nat /\ disk = [disk EXCEPT !.rewarded = disk.rewarded]
        /\ node.reward \in Nat /\ node = [node EXCEPT !.reward = node.reward]
    BY DEF ChainInv, TypeOK, Disks, Nodes
  <2>. QED
    BY <2>1, <2>2 DEF WriteBlockReward
<1>4. disk' \in Disks /\ node' \in Nodes
  BY <1>3 DEF ChainInv, TypeOK, Disks, Nodes
<1>5. /\ disk'.states = disk.states /\ disk'.head = disk.head /\ disk'.fast = disk.fast
      /\ disk'.last = disk.last /\ disk'.bodies = disk.bodies /\ disk'.headers = disk.headers
      /\ disk'.lookups = disk.lookups /\ disk'.canonical = disk.canonical
      /\ node'.status = node.status /\ node'.current = node.current /\ node'.fast = node.fast
      /\ node'.last = node.last /\ node'.isFallback = node.isFallback /\ node'.tries = node.tries
  BY <1>3 DEF ChainInv, TypeOK, Disks, Nodes
<1>6. TypeOK' /\ DiskInv'
  BY <1>1, <1>4, <1>5 DEF ChainInv, TypeOK, DiskInv, HeadIsWhole, GetBlock
<1>7. PointersInv' /\ StatesInv'
  BY <1>1, <1>2, <1>5 DEF ChainInv, PointersInv, StatesInv, Up
<1>8. CallsInv' /\ JobInv'
  BY <1>1, <1>2, <1>5
  DEF ChainInv, CallsInv, HasBlockAndState, GetBlock, VerifyHasState, HasState, JobInv, Up
<1>. QED
  BY <1>6, <1>7, <1>8 DEF ChainInv

\* The states that leave the window are those of old blocks: a waiting call
\* still finds its blocks known.
LEMMA CommitKeepsInv ==
    ASSUME ChainInv, CommitState
    PROVE  ChainInv'
<1>. DEFINE tries == {n \in node.tries \cup {block} : block > TriesInMemory => n > block - TriesInMemory}
<1>1. /\ Up /\ job # <<>> /\ job' # <<>> /\ calls' = calls /\ top' = top
      /\ block' = block /\ block \in Nat
      /\ job'[2] = job[2] /\ job'[3] = job[3] + 1
      /\ job' \in (1 .. MaxBlock) \X (1 .. MaxBlock) \X (1 .. 11)
  BY DoneAdvances DEF CommitState
<1>2. job[3] = 4
  BY AtIndex DEF CommitState
<1>3. node.current \in Nat /\ block = node.current + 1
  BY <1>1, <1>2 DEF ChainInv, TypeOK, Nodes, JobInv
<1>4. PICK S \in SUBSET {n \in node.tries : n < block} : disk' = [disk EXCEPT !.states = @ \cup S]
  <2>1. CASE UNCHANGED disk
    <3>1. disk' = [disk EXCEPT !.states = @ \cup {}]
      BY <2>1 DEF ChainInv, TypeOK, Disks
    <3>. QED
      BY <3>1
  <2>2. CASE /\ block - TriesInMemory \in node.tries
             /\ disk' = [disk EXCEPT !.states = @ \cup {block - TriesInMemory}]
    <3>1. block - TriesInMemory < block
      BY <1>1, FastChainAssumption
    <3>. QED
      BY <2>2, <3>1
  <2>. QED
    BY <2>1, <2>2 DEF CommitState
<1>5. /\ disk' \in Disks
      /\ disk'.states = disk.states \cup S
      /\ disk'.head = disk.head /\ disk'.fast = disk.fast
      /\ disk'.last = disk.last /\ disk'.bodies = disk.bodies /\ disk'.headers = disk.headers
      /\ disk'.lookups = disk.lookups /\ disk'.canonical = disk.canonical
  BY <1>4 DEF ChainInv, TypeOK, Disks, Nodes
<1>6. node' = [node EXCEPT !.tries = tries]
  BY DEF CommitState
<1>7. /\ node' \in Nodes /\ node'.tries = tries
      /\ node'.status = node.status /\ node'.current = node.current /\ node'.fast = node.fast
      /\ node'.last = node.last /\ node'.isFallback = node.isFallback
  BY <1>1, <1>6 DEF ChainInv, TypeOK, Nodes
<1>8. TypeOK'
  BY <1>1, <1>5, <1>7 DEF ChainInv, TypeOK
<1>9. \A s \in node.tries : s \in Nat /\ s <= node.current
  BY <1>1, <1>2 DEF ChainInv, TypeOK, Nodes, StatesInv
<1>10. \A s \in S : s \in Nat /\ s <= node.current
  BY <1>4, <1>9
<1>11. node.current <= disk.head /\ node.current <= disk.fast
  BY <1>1, <1>2 DEF ChainInv, PointersInv
<1>12. DiskInv'
  <2>1. \A s \in disk'.states : s <= disk'.head /\ s <= disk'.fast
    BY <1>3, <1>5, <1>10, <1>11 DEF ChainInv, TypeOK, Disks, DiskInv
  <2>. QED
    BY <1>1, <1>5, <2>1 DEF ChainInv, DiskInv, HeadIsWhole, GetBlock
<1>13. PointersInv'
  BY <1>1, <1>2, <1>5, <1>7 DEF ChainInv, PointersInv, Up
<1>14. StatesInv'
  BY <1>1, <1>2, <1>5, <1>7, <1>9, <1>10 DEF ChainInv, StatesInv, Up
<1>15. CallsInv'
  <2>1. SUFFICES ASSUME NEW c \in calls, NEW n \in c[1] .. node.current
                 PROVE  (n \in disk'.states \cup node'.tries) \/ node.current > n + Interval
    BY <1>1, <1>5, <1>7 DEF ChainInv, CallsInv, HasBlockAndState, GetBlock, VerifyHasState, HasState, Up
  <2>2. HasState(n) \/ node.current > n + Interval
    BY <1>1 DEF ChainInv, CallsInv, HasBlockAndState, VerifyHasState
  <2>3. c[1] \in Nat /\ n \in Nat
    BY <1>3 DEF ChainInv, TypeOK
  <2>4. ASSUME n \in node.tries, n \notin tries PROVE node.current > n + Interval
    <3>1. n <= block - TriesInMemory
      BY <1>1, <2>3, <2>4, FastChainAssumption
    <3>. QED
      BY <1>3, <2>3, <3>1, FastChainAssumption
  <2>. QED
    BY <1>5, <1>7, <2>2, <2>4 DEF HasState
<1>16. JobInv'
  <2>1. block \in tries
    BY <1>1, FastChainAssumption
  <2>. QED
    BY <1>1, <1>2, <1>5, <1>7, <2>1 DEF ChainInv, JobInv, Up
<1>. QED
  BY <1>8, <1>12, <1>13, <1>14, <1>15, <1>16 DEF ChainInv

\* The head moves to a block that has been written.
LEMMA HeadKeepsInv ==
    ASSUME ChainInv, WriteHeadBlockHash
    PROVE  ChainInv' /\ node'.current = node.current + 1
<1>1. /\ Up /\ job # <<>> /\ job' # <<>> /\ calls' = calls /\ top' = top
      /\ block' = block /\ block \in 1 .. MaxBlock /\ block \in Nat
      /\ job'[2] = job[2] /\ job'[3] = job[3] + 1
      /\ job' \in (1 .. MaxBlock) \X (1 .. MaxBlock) \X (1 .. 11)
  BY DoneAdvances DEF WriteHeadBlockHash
<1>2. job[3] = 7
  BY AtIndex DEF WriteHeadBlockHash
<1>3. /\ node.current \in Nat /\ disk.head \in Nat /\ node.fast \in Nat
      /\ block = node.current + 1 /\ block \in node.tries
      /\ block \in disk.bodies \cap disk.headers \cap disk.lookups \cap disk.canonical
  BY <1>1, <1>2 DEF ChainInv, TypeOK, Nodes, Disks, JobInv
<1>4. /\ disk' \in Disks /\ disk'.head = block
      /\ disk'.states = disk.states /\ disk'.fast = disk.fast
      /\ disk'.last = disk.last /\ disk'.bodies = disk.bodies /\ disk'.headers = disk.headers
      /\ disk'.lookups = disk.lookups /\ disk'.canonical = disk.canonical
  BY <1>1 DEF WriteHeadBlockHash, ChainInv, TypeOK, Disks
<1>5. /\ node' \in Nodes /\ node'.current = block
      /\ node'.status = node.status /\ node'.fast = node.fast /\ node'.tries = node.tries
      /\ node'.last = node.last /\ node'.isFallback = node.isFallback
  BY <1>1 DEF WriteHeadBlockHash, ChainInv, TypeOK, Nodes
<1>6. TypeOK'
  BY <1>1, <1>4, <1>5 DEF ChainInv, TypeOK
<1>7. \A s \in disk.states : s \in Nat /\ s <= node.current
  BY <1>1 DEF ChainInv, TypeOK, Disks, StatesInv
<1>8. HeadIsWhole'
  <2>1. \A n \in 0 .. block : n \in 0 .. disk.head \/ n = block
    BY <1>1, <1>3 DEF ChainInv, PointersInv
  <2>. QED
    BY <1>3, <1>4, <2>1 DEF ChainInv, DiskInv, HeadIsWhole
<1>9. DiskInv'
  BY <1>1, <1>3, <1>4, <1>7, <1>8, FastChainAssumption DEF ChainInv, DiskInv, GetBlock
<1>10. PointersInv'
  <2>1. block <= node.fast \/ block = node.fast + 1
    BY <1>1, <1>2, <1>3 DEF ChainInv, PointersInv
  <2>2. node.isFallback \/ node.last <= block
    BY <1>1, <1>3 DEF ChainInv, PointersInv, TypeOK, Nodes
  <2>. QED
    BY <1>1, <1>2, <1>4, <1>5, <2>1, <2>2 DEF ChainInv, PointersInv, Up
<1>11. StatesInv'
  <2>1. \A s \in node.tries : s <= block
    BY <1>1, <1>3 DEF ChainInv, StatesInv, TypeOK, Nodes
  <2>. QED
    BY <1>3, <1>4, <1>5, <1>7, <2>1 DEF StatesInv
<1>12. CallsInv'
  <2>1. SUFFICES ASSUME NEW c \in calls, NEW n \in c[1] .. block
                 PROVE  /\ n \in disk.bodies \cap disk.headers
                        /\ HasState(n) \/ block > n + Interval
    BY <1>1, <1>4, <1>5 DEF CallsInv, HasBlockAndState, GetBlock, VerifyHasState, HasState, Up
  <2>2. c[1] \in Nat /\ n \in Nat
    BY <1>3 DEF ChainInv, TypeOK
  <2>3. CASE n = block
    BY <1>3, <2>3 DEF HasState
  <2>4. CASE n # block
    <3>1. n \in c[1] .. node.current
      BY <1>3, <2>2, <2>4
    <3>2. HasBlockAndState(n)
      BY <1>1, <3>1 DEF ChainInv, CallsInv
    <3>. QED
      BY <1>3, <2>2, <3>2, FastChainAssumption DEF HasBlockAndState, GetBlock, VerifyHasState
  <2>. QED
    BY <2>3, <2>4
<1>13. JobInv'
  BY <1>1, <1>2, <1>3, <1>4, <1>5 DEF ChainInv, JobInv, Up
<1>. QED
  BY <1>3, <1>5, <1>6, <1>9, <1>10, <1>11, <1>12, <1>13 DEF ChainInv

\* The other pointers follow the head.
LEMMA PointerKeepsInv ==
    ASSUME ChainInv, SetCurrentHeader \/ WriteHeadFastBlockHash
    PROVE  ChainInv' /\ node'.current = node.current
<1>1. /\ Up /\ job # <<>> /\ job' # <<>> /\ calls' = calls /\ top' = top
      /\ block' = block /\ block \in Nat
      /\ job'[2] = job[2] /\ job'[3] = job[3] + 1
      /\ job' \in (1 .. MaxBlock) \X (1 .. MaxBlock) \X (1 .. 11)
  BY DoneAdvances DEF SetCurrentHeader, WriteHeadFastBlockHash
<1>2. job[3] \in {8, 9}
  BY AtIndex DEF SetCurrentHeader, WriteHeadFastBlockHash
<1>3. block = node.current /\ GetBlock(block)
  BY <1>1, <1>2 DEF ChainInv, JobInv, GetBlock
<1>4. /\ disk' \in Disks /\ node' \in Nodes
      /\ disk'.states = disk.states /\ disk'.head = disk.head /\ disk'.last = disk.last
      /\ disk'.bodies = disk.bodies /\ disk'.headers = disk.headers
      /\ disk'.lookups = disk.lookups /\ disk'.canonical = disk.canonical
      /\ node'.status = node.status /\ node'.current = node.current /\ node'.last = node.last
      /\ node'.isFallback = node.isFallback /\ node'.tries = node.tries
  <2>1. CASE SetCurrentHeader
    BY <1>1, <2>1 DEF SetCurrentHeader, ChainInv, TypeOK, Disks, Nodes
  <2>2. CASE WriteHeadFastBlockHash
    BY <1>1, <2>2 DEF WriteHeadFastBlockHash, ChainInv, TypeOK, Disks, Nodes
  <2>. QED
    BY <2>1, <2>2
<1>5. \/ job[3] = 8 /\ disk'.fast = disk.fast /\ node'.fast = node.fast
      \/ job[3] = 9 /\ disk'.fast = block /\ node'.fast = block
  <2>1. CASE SetCurrentHeader
    BY <2>1, AtIndex DEF SetCurrentHeader, ChainInv, TypeOK, Disks, Nodes
  <2>2. CASE WriteHeadFastBlockHash
    BY <2>2, AtIndex DEF WriteHeadFastBlockHash, ChainInv, TypeOK, Disks, Nodes
  <2>. QED
    BY <2>1, <2>2
<1>6. TypeOK'
  BY <1>1, <1>4 DEF ChainInv, TypeOK
<1>7. DiskInv'
  <2>1. \A s \in disk.states : s <= disk'.fast
    BY <1>1, <1>3, <1>5 DEF ChainInv, DiskInv, StatesInv
  <2>. QED
    BY <1>1, <1>3, <1>4, <1>5, <2>1 DEF ChainInv, DiskInv, HeadIsWhole, GetBlock
<1>8. PointersInv'
  BY <1>1, <1>3, <1>4, <1>5 DEF ChainInv, PointersInv, Up
<1>9. StatesInv'
  <2>1. /\ \A s \in disk.states : s <= node.current
        /\ \A s \in node.tries : s <= node.current
    BY <1>1, <1>2 DEF ChainInv, StatesInv
  <2>. QED
    BY <1>4, <2>1 DEF StatesInv
<1>10. CallsInv' /\ JobInv'
  BY <1>1, <1>2, <1>4
  DEF ChainInv, CallsInv, HasBlockAndState, GetBlock, VerifyHasState, HasState, JobInv, Up
<1>. QED
  BY <1>4, <1>6, <1>7, <1>8, <1>9, <1>10 DEF ChainInv

\* The last block only rises, and the fallback ends with it.
LEMMA LastKeepsInv ==
    ASSUME ChainInv, WriteLastBlockHash
    PROVE  ChainInv' /\ node'.current = node.current
<1>1. /\ Up /\ job # <<>> /\ job' # <<>> /\ calls' = calls
      /\ block' = block /\ block \in Nat
      /\ job'[2] = job[2] /\ job'[3] = job[3] + 1
      /\ job' \in (1 .. MaxBlock) \X (1 .. MaxBlock) \X (1 .. 11)
  BY DoneAdvances DEF WriteLastBlockHash
<1>2. job[3] = 10
  BY AtIndex DEF WriteLastBlockHash
<1>3. /\ block = node.current /\ GetBlock(block)
      /\ top \in Nat /\ node.last \in Nat /\ node.last = disk.last /\ top <= node.last
  BY <1>1, <1>2 DEF ChainInv, TypeOK, Nodes, JobInv, GetBlock, DiskInv, PointersInv
<1>4. top' \in {top, block} /\ top' >= top /\ top' >= block
  <2>1. top' = Max({top, block})
    BY DEF WriteLastBlockHash
  <2>2. \E b \in Nat : \A y \in {top, block} : y <= b
    BY <1>1, <1>3
  <2>. QED
    BY <1>1, <1>3, <2>1, <2>2, MaxIsGreatest
<1>5. /\ disk' \in Disks /\ node' \in Nodes
      /\ disk'.states = disk.states /\ disk'.head = disk.head /\ disk'.fast = disk.fast
      /\ disk'.bodies = disk.bodies /\ disk'.headers = disk.headers
      /\ disk'.lookups = disk.lookups /\ disk'.canonical = disk.canonical
      /\ node'.status = node.status /\ node'.current = node.current /\ node'.fast = node.fast
      /\ node'.tries = node.tries
      /\ \/ block >= node.last /\ disk'.last = block /\ node'.last = block
         \/ /\ block < node.last /\ disk'.last = disk.last /\ node'.last = node.last
            /\ node'.isFallback = node.isFallback
  <2>1. disk \in Disks /\ node \in Nodes
    BY DEF ChainInv, TypeOK
  <2>2. CASE block >= node.last
    <3>1. /\ disk' = [disk EXCEPT !.last = block]
          /\ node' = [node EXCEPT !.last = block, !.isFallback = FALSE]
      BY <2>2 DEF WriteLastBlockHash
    <3>2. disk' \in Disks /\ node' \in Nodes
      BY <1>1, <2>1, <3>1 DEF Disks, Nodes
    <3>. QED
      BY <2>1, <2>2, <3>1, <3>2 DEF Disks, Nodes
  <2>3. CASE ~(block >= node.last)
    <3>1. disk' = disk /\ node' = node
      BY <2>3 DEF WriteLastBlockHash
    <3>2. block < node.last
      BY <1>1, <1>3, <2>3
    <3>. QED
      BY <2>1, <3>1, <3>2
  <2>. QED
    BY <2>2, <2>3
<1>6. top' \in Nat
  BY <1>1, <1>3, <1>4
<1>7. TypeOK'
  BY <1>1, <1>5, <1>6 DEF ChainInv, TypeOK
<1>8. DiskInv'
  <2>1. top' <= disk'.last
    BY <1>1, <1>3, <1>4, <1>5
  <2>2. disk'.last \in disk.bodies \cap disk.headers
    BY <1>3, <1>5 DEF ChainInv, DiskInv, GetBlock
  <2>. QED
    BY <1>5, <2>1, <2>2 DEF ChainInv, DiskInv, HeadIsWhole, GetBlock
<1>9. PointersInv'
  BY <1>1, <1>2, <1>3, <1>5 DEF ChainInv, PointersInv, Up
<1>10. StatesInv'
  BY <1>1, <1>2, <1>5 DEF ChainInv, StatesInv, Up
<1>11. CallsInv' /\ JobInv'
  BY <1>1, <1>2, <1>5
  DEF ChainInv, CallsInv, HasBlockAndState, GetBlock, VerifyHasState, HasState, JobInv, Up
<1>. QED
  BY <1>5, <1>7, <1>8, <1>9, <1>10, <1>11 DEF ChainInv

\* A start goes back to the last block with a state, which no pointer on the
\* disk is below.
LEMMA LoadKeepsInv ==
    ASSUME ChainInv, NewBlockChain
    PROVE  ChainInv'
<1>. DEFINE held == {n \in disk.states : n <= disk.head}
            current == Max(held)
<1>1. disk \in Disks /\ disk.head \in Nat /\ disk.states \subseteq Nat /\ 0 \in held
  BY DEF ChainInv, TypeOK, Disks, DiskInv
<1>2. current \in held /\ \A n \in held : current >= n
  BY <1>1, MaxIsGreatest
<1>3. GetBlock(disk.head) /\ GetBlock(disk.fast) /\ GetBlock(disk.last)
  BY <1>1 DEF ChainInv, DiskInv, HeadIsWhole, GetBlock
<1>. HIDE DEF current
<1>4. PICK header \in Nat, reward \in Nat :
        /\ disk' = [disk EXCEPT !.header = header, !.rewarded = reward]
        /\ node' = [status |-> "up", current |-> current, header |-> header,
                    fast |-> disk.fast, last |-> disk.last, reward |-> reward,
                    isFallback |-> current < disk.last, tries |-> {}]
  <2>1. current \in 0 .. MaxBlock
    BY <1>1, <1>2, FastChainAssumption DEF ChainInv, DiskInv
  <2>2. lastPaid(current) \in Nat
    <3>. DEFINE paying == {n \in {current} \cup 2 .. current : n > 0 /\ Snail[n] # 0}
    <3>1. paying \subseteq 1 .. MaxBlock /\ \A n \in paying : n <= current
      BY <2>1, FastChainAssumption
    <3>2. CASE paying = {}
      BY <3>2 DEF lastPaid
    <3>3. CASE paying # {}
      <4>1. Max(paying) \in paying
        <5>1. paying \subseteq Nat /\ current \in Nat
          BY <2>1, <3>1, FastChainAssumption
        <5>. HIDE DEF paying
        <5>. QED
          BY <3>1, <3>3, <5>1, MaxIsGreatest
      <4>2. Snail[Max(paying)] \in Nat
        BY <3>1, <4>1, FastChainAssumption
      <4>. QED
        BY <3>3, <4>2 DEF lastPaid
    <3>. QED
      BY <3>2, <3>3
  <2>3. current = repair(disk.head)
    BY DEF repair, current
  <2>4. loadLastState
    BY DEF NewBlockChain
  <2>. DEFINE head == IF disk.header \in disk.headers THEN disk.header ELSE current
              paid == IF IsTIP9(head) THEN TIP9Snail ELSE lastPaid(current)
  <2>5. head \in Nat /\ paid \in Nat
    BY <1>1, <2>1, <2>2, FastChainAssumption DEF Disks
  <2>6. /\ disk' = [disk EXCEPT !.header = head, !.rewarded = paid]
        /\ node' = [status |-> "up", current |-> current, header |-> head,
                    fast |-> disk.fast, last |-> disk.last, reward |-> paid,
                    isFallback |-> current < disk.last, tries |-> {}]
    BY <1>3, <2>3, <2>4 DEF loadLastState, GetLastRowByFastCurrentBlock
  <2>. QED
    BY <2>5, <2>6
<1>5. /\ disk' \in Disks
      /\ disk'.states = disk.states /\ disk'.head = disk.head /\ disk'.fast = disk.fast
      /\ disk'.last = disk.last /\ disk'.bodies = disk.bodies /\ disk'.headers = disk.headers
      /\ disk'.lookups = disk.lookups /\ disk'.canonical = disk.canonical
  BY <1>1, <1>4 DEF Disks
<1>6. calls' = {} /\ job' = <<>> /\ top' = top
  BY DEF NewBlockChain, Gone
<1>7. TypeOK'
  <2>1. current \in Nat /\ disk.fast \in Nat /\ disk.last \in Nat
    BY <1>1, <1>2 DEF Disks
  <2>2. (current < disk.last) \in BOOLEAN
    BY <2>1
  <2>3. node' \in Nodes
    BY <1>4, <2>1, <2>2 DEF Nodes
  <2>. QED
    BY <1>5, <1>6, <2>3 DEF ChainInv, TypeOK
<1>8. DiskInv'
  BY <1>5, <1>6 DEF ChainInv, DiskInv, HeadIsWhole, GetBlock
<1>9. \A s \in disk.states : s \in held
  BY DEF ChainInv, DiskInv
<1>10. PointersInv'
  <2>1. current <= disk.head /\ current <= disk.fast
    BY <1>2, <1>9 DEF ChainInv, DiskInv
  <2>2. ~(current < disk.last) => disk.last <= current
    BY <1>1, <1>2 DEF Disks
  <2>. QED
    BY <1>4, <1>5, <2>1, <2>2 DEF PointersInv
<1>11. StatesInv' /\ CallsInv' /\ JobInv'
  BY <1>1, <1>2, <1>4, <1>5, <1>6, <1>9 DEF StatesInv, CallsInv, JobInv
<1>. QED
  BY <1>7, <1>8, <1>10, <1>11 DEF ChainInv

\* Every step keeps the invariant.
LEMMA StepKeepsInv == ChainInv /\ [FNext]_fvars => ChainInv'
<1>. SUFFICES ASSUME ChainInv, [FNext]_fvars PROVE ChainInv'
  OBVIOUS
<1>1. CASE UNCHANGED fvars
  BY <1>1
  DEF fvars, ChainInv, TypeOK, DiskInv, HeadIsWhole, GetBlock, PointersInv, StatesInv, CallsInv,
      JobInv, Up, HasBlockAndState, VerifyHasState, HasState, block
<1>2. CASE verifyComeAgreement \/ importBlockResults
  BY <1>2, CallKeepsInv
<1>3. CASE \E lo, hi \in 1 .. MaxBlock : insertChain(lo, hi)
  BY <1>3, InsertKeepsInv
<1>4. CASE WriteBody \/ WriteHeader \/ WriteBatch \/ WriteCanonicalHash
  BY <1>4, BlockKeepsInv
<1>5. CASE WriteBlockReward
  BY <1>5, RewardKeepsInv
<1>6. CASE CommitState
  BY <1>6, CommitKeepsInv
<1>7. CASE WriteHeadBlockHash
  BY <1>7, HeadKeepsInv
<1>8. CASE SetCurrentHeader \/ WriteHeadFastBlockHash
  BY <1>8, PointerKeepsInv
<1>9. CASE WriteLastBlockHash
  BY <1>9, LastKeepsInv
<1>10. CASE NextBlock
  BY <1>10, NextBlockKeepsInv
<1>11. CASE CrashChain \/ Stop
  BY <1>11, EndKeepsInv
<1>12. CASE NewBlockChain
  BY <1>12, LoadKeepsInv
<1>. QED
  BY <1>1, <1>2, <1>3, <1>4, <1>5, <1>6, <1>7, <1>8, <1>9, <1>10, <1>11, <1>12 DEF FNext

\* The invariant holds in every state.
THEOREM ChainInvariant == FSpec => []ChainInv
<1>1. FInit => ChainInv
  BY InitInv
<1>2. ChainInv /\ [FNext]_fvars => ChainInv'
  BY StepKeepsInv
<1>. QED
  BY <1>1, <1>2, PTL DEF FSpec

\* Whatever the chain and wherever the process ends, every block below the
\* head on disk has its header, body, receipts and canonical hash.
THEOREM ChainIsWhole == FSpec => []HeadIsWhole
<1>1. ChainInv => HeadIsWhole
  BY DEF ChainInv, DiskInv
<1>. QED
  BY <1>1, ChainInvariant, PTL

\* A chain that was taken back counts as fallen back until it has the blocks
\* again that were ever inserted.
THEOREM FallbackIsKept == FSpec => []FallbackLasts
<1>1. ChainInv => FallbackLasts
  <2>1. SUFFICES ASSUME ChainInv, Up, ~node.isFallback PROVE node.current >= top
    BY DEF FallbackLasts
  <2>2. node.last <= node.current /\ top <= node.last
    BY <2>1 DEF ChainInv, PointersInv, DiskInv
  <2>. QED
    BY <2>1, <2>2 DEF ChainInv, TypeOK, Nodes
<1>. QED
  BY <1>1, ChainInvariant, PTL

\* In one life of the process the head never goes back: insertChain takes up
\* no block that the chain has passed.
THEOREM HeadGrows == FSpec => HeadOnlyGrows
<1>1. ChainInv /\ [FNext]_fvars => [Up /\ Up' => node'.current >= node.current]_fvars
  <2>. SUFFICES ASSUME ChainInv, FNext, Up, Up' PROVE node'.current >= node.current
    BY DEF fvars
  <2>1. node \in Nodes /\ node.current \in Nat
    BY DEF ChainInv, TypeOK, Nodes
  <2>2. CASE WriteHeadBlockHash
    BY <2>1, <2>2, HeadKeepsInv
  <2>3. CASE SetCurrentHeader \/ WriteHeadFastBlockHash
    BY <2>1, <2>3, PointerKeepsInv
  <2>4. CASE WriteLastBlockHash
    BY <2>1, <2>4, LastKeepsInv
  <2>5. CASE WriteBlockReward \/ CommitState
    BY <2>1, <2>5 DEF WriteBlockReward, CommitState, Nodes
  <2>6. CASE \E lo, hi \in 1 .. MaxBlock : insertChain(lo, hi)
    <3>1. PICK lo \in 1 .. MaxBlock, hi \in 1 .. MaxBlock : insertChain(lo, hi)
      BY <2>6
    <3>2. node' = node \/ node' = [node EXCEPT !.status = "panic"]
      BY <3>1 DEF insertChain, insertSidechain, Start
    <3>. QED
      BY <2>1, <3>2 DEF Nodes
  <2>7. CASE NextBlock
    BY <2>1, <2>7 DEF NextBlock, Start
  <2>8. CASE \/ verifyComeAgreement \/ importBlockResults
             \/ WriteBody \/ WriteHeader \/ WriteBatch \/ WriteCanonicalHash
    BY <2>1, <2>8
    DEF verifyComeAgreement, importBlockResults, Call, WriteBody, WriteHeader, WriteBatch,
        WriteCanonicalHash
  <2>9. CASE CrashChain \/ Stop
    BY <2>1, <2>9 DEF CrashChain, Stop, Up, Nodes
  <2>10. CASE NewBlockChain
    BY <2>10 DEF NewBlockChain
  <2>. QED
    BY <2>2, <2>3, <2>4, <2>5, <2>6, <2>7, <2>8, <2>9, <2>10 DEF FNext
<1>. QED
  BY <1>1, ChainInvariant, PTL DEF FSpec, HeadOnlyGrows
-----------------------------------------------------------------------------
(* The next block.                                                         *)

\* The last block whose reward has been written
rewardedBlock == IF job # <<>> /\ job[3] \in 4 .. 7 THEN block ELSE node.current

\* The head has its state, and the last reward is the one of the chain up to
\* the block whose reward was written last.
ImportInv ==
    /\ disk.header <= MaxBlock
    /\ Up => /\ HasState(node.current)
             /\ MaxBlock < TIP9 => node.reward = lastPaid(rewardedBlock)

\* A block is the last one that pays, or the last one is that of its parent.
LEMMA RewardStep ==
    ASSUME RewardsFollow, NEW b \in 1 .. MaxBlock
    PROVE  lastPaid(b) =
             IF Snail[b] # 0 THEN Snail[b] ELSE lastPaid(b - 1)
<1>. DEFINE paying(c) == {n \in {c} \cup 2 .. c : n > 0 /\ Snail[n] # 0}
<1>1. b \in Nat /\ b > 0
  BY FastChainAssumption
<1>2. CASE Snail[b] # 0
  <2>1. b \in paying(b) /\ paying(b) \subseteq Nat /\ \A n \in paying(b) : n <= b
    BY <1>1, <1>2
  <2>2. Max(paying(b)) = b
    <3>. HIDE DEF paying
    <3>1. Max(paying(b)) \in paying(b) /\ Max(paying(b)) >= b
      BY <1>1, <2>1, MaxIsGreatest
    <3>. QED
      BY <1>1, <2>1, <3>1
  <2>. QED
    BY <1>2, <2>1, <2>2 DEF lastPaid
<1>3. CASE Snail[b] = 0
  <2>1. \A n \in 1 .. MaxBlock : Snail[n] # 0 => n > 1
    BY DEF RewardsFollow
  <2>2. \A n : n \in paying(b) <=> n \in paying(b - 1)
    <3>1. ASSUME NEW n \in paying(b) PROVE n \in paying(b - 1)
      BY <1>1, <1>3, <3>1
    <3>2. ASSUME NEW n \in paying(b - 1) PROVE n \in paying(b)
      <4>1. n \in Nat /\ n > 0 /\ n <= b - 1 /\ Snail[n] # 0
        BY <1>1, <3>2
      <4>2. n > 1
        BY <1>1, <2>1, <4>1, FastChainAssumption
      <4>. QED
        BY <1>1, <4>1, <4>2
    <3>. QED
      BY <3>1, <3>2
  <2>3. paying(b) = paying(b - 1)
    BY <2>2
  <2>. QED
    BY <1>3, <2>3 DEF lastPaid
<1>. QED
  BY <1>2, <1>3

\* The steps that leave node, the head header and the states on disk alone
LEMMA QuietKeepsImport ==
    ASSUME ChainInv, ImportInv, UNCHANGED node, disk'.header = disk.header,
           disk.states \subseteq disk'.states,
           \/ job' = <<>> /\ (job # <<>> => job[3] = 11)
           \/ job' # <<>> /\ job'[3] = 1 /\ (job # <<>> => job[3] = 11)
           \/ job # <<>> /\ job' # <<>> /\ job'[3] = job[3] + 1 /\ job[3] \in {1, 2, 5, 6}
              /\ block' = block
           \/ job' = job
    PROVE  ImportInv'
<1>1. disk'.header <= MaxBlock /\ (Up' => Up /\ HasState(node.current)')
  BY DEF ImportInv, Up, HasState
<1>2. rewardedBlock' = rewardedBlock
  BY DEF rewardedBlock, block
<1>3. lastPaid(rewardedBlock)' = lastPaid(rewardedBlock)
  BY <1>2 DEF lastPaid
<1>. QED
  BY <1>1, <1>3 DEF ImportInv

\* Every step keeps it.
LEMMA StepKeepsImport ==
    ASSUME RewardsFollow, ChainInv, ImportInv, FNext
    PROVE  ImportInv'
<1>0. /\ disk \in Disks /\ node \in Nodes /\ node.current \in Nat /\ node.tries \subseteq Nat
      /\ disk.header \in Nat /\ MaxBlock \in Nat
  BY FastChainAssumption DEF ChainInv, TypeOK, Disks, Nodes
<1>1. CASE \/ verifyComeAgreement \/ importBlockResults
  <2>1. UNCHANGED <<disk, node, job>>
    BY <1>1 DEF verifyComeAgreement, importBlockResults, Call
  <2>. QED
    BY <2>1, QuietKeepsImport
<1>2. CASE \E lo, hi \in 1 .. MaxBlock : insertChain(lo, hi)
  <2>1. PICK lo \in 1 .. MaxBlock, hi \in 1 .. MaxBlock : insertChain(lo, hi)
    BY <1>2
  <2>2. job = <<>> /\ disk' = disk
    BY <2>1 DEF insertChain, insertSidechain, Start
  <2>3. CASE node' = node
    <3>. DEFINE fresh == {b \in lo .. hi : ValidateBody(b) # "known"}
    <3>0. job' = job \/ (fresh # {} /\ Start(Min(fresh), hi))
      BY <2>1 DEF insertChain, insertSidechain
    <3>1. job' = <<>> \/ (job' # <<>> /\ job'[3] = 1)
      BY <2>2, <3>0 DEF Start
    <3>. QED
      BY <2>2, <2>3, <3>1, QuietKeepsImport
  <2>4. CASE node' = [node EXCEPT !.status = "panic"]
    BY <1>0, <2>2, <2>4 DEF ImportInv, Up, Nodes
  <2>. QED
    BY <2>1, <2>3, <2>4 DEF insertChain, insertSidechain, Start
<1>3. CASE WriteBody \/ WriteHeader \/ WriteBatch \/ WriteCanonicalHash
  <2>1. /\ job # <<>> /\ job' # <<>> /\ block' = block /\ job'[3] = job[3] + 1 /\ node' = node
    BY <1>3, DoneAdvances DEF WriteBody, WriteHeader, WriteBatch, WriteCanonicalHash
  <2>2. job[3] \in {1, 2, 5, 6}
    BY <1>3, AtIndex DEF WriteBody, WriteHeader, WriteBatch, WriteCanonicalHash
  <2>3. disk'.header = disk.header /\ disk'.states = disk.states
    BY <1>0, <1>3 DEF WriteBody, WriteHeader, WriteBatch, WriteCanonicalHash, Disks
  <2>. QED
    BY <2>1, <2>2, <2>3, QuietKeepsImport
<1>4. CASE WriteBlockReward
  <2>1. /\ Up /\ job # <<>> /\ job' # <<>> /\ block' = block /\ job'[3] = job[3] + 1
        /\ block \in 1 .. MaxBlock
    BY <1>4, DoneAdvances DEF WriteBlockReward
  <2>2. job[3] = 3
    BY <1>4, AtIndex DEF WriteBlockReward
  <2>3. block = node.current + 1
    BY <2>1, <2>2 DEF ChainInv, JobInv
  <2>4. /\ disk'.header = disk.header /\ disk'.states = disk.states
        /\ node'.current = node.current /\ node'.tries = node.tries
        /\ node'.reward = IF Snail[block] # 0 THEN Snail[block] ELSE node.reward
    BY <1>0, <1>4 DEF WriteBlockReward, Disks, Nodes
  <2>5. MaxBlock < TIP9 => node.reward = lastPaid(block - 1)
    <3>1. block - 1 = node.current
      BY <1>0, <2>3
    <3>. QED
      BY <2>1, <2>2, <3>1 DEF ImportInv, rewardedBlock
  <2>6. MaxBlock < TIP9 => node'.reward = lastPaid(block)
    BY <2>1, <2>4, <2>5, RewardStep
  <2>. QED
    BY <2>1, <2>2, <2>4, <2>6 DEF ImportInv, HasState, rewardedBlock, lastPaid
<1>5. CASE CommitState
  <2>1. /\ Up /\ job # <<>> /\ job' # <<>> /\ block' = block /\ job'[3] = job[3] + 1
        /\ block \in Nat
    BY <1>5, DoneAdvances DEF CommitState
  <2>2. job[3] = 4
    BY <1>5, AtIndex DEF CommitState
  <2>3. block = node.current + 1
    BY <2>1, <2>2 DEF ChainInv, JobInv
  <2>4. /\ disk'.header = disk.header /\ disk.states \subseteq disk'.states
        /\ node'.current = node.current /\ node'.reward = node.reward
        /\ node'.tries = {n \in node.tries \cup {block} :
                             block > TriesInMemory => n > block - TriesInMemory}
    BY <1>0, <1>5 DEF CommitState, Disks, Nodes
  <2>5. node.current \in node.tries => node.current \in node'.tries
    BY <1>0, <2>1, <2>3, <2>4, FastChainAssumption
  <2>6. HasState(node.current)'
    BY <2>1, <2>4, <2>5 DEF ImportInv, HasState
  <2>. QED
    BY <2>1, <2>2, <2>4, <2>6 DEF ImportInv, rewardedBlock, lastPaid
<1>6. CASE WriteHeadBlockHash
  <2>1. /\ Up /\ job # <<>> /\ job' # <<>> /\ block' = block /\ job'[3] = job[3] + 1
    BY <1>6, DoneAdvances DEF WriteHeadBlockHash
  <2>2. job[3] = 7
    BY <1>6, AtIndex DEF WriteHeadBlockHash
  <2>3. block \in node.tries
    BY <2>1, <2>2 DEF ChainInv, JobInv
  <2>4. /\ disk'.header = disk.header /\ node'.current = block
        /\ node'.tries = node.tries /\ node'.reward = node.reward
    BY <1>0, <1>6 DEF WriteHeadBlockHash, Disks, Nodes
  <2>. QED
    BY <2>1, <2>2, <2>3, <2>4 DEF ImportInv, HasState, rewardedBlock, lastPaid
<1>7. CASE SetCurrentHeader \/ WriteHeadFastBlockHash \/ WriteLastBlockHash
  <2>1. /\ Up /\ job # <<>> /\ job' # <<>> /\ block' = block /\ job'[3] = job[3] + 1
        /\ block <= MaxBlock
    BY <1>7, DoneAdvances, FastChainAssumption
    DEF SetCurrentHeader, WriteHeadFastBlockHash, WriteLastBlockHash
  <2>2. job[3] \in {8, 9, 10}
    BY <1>7, AtIndex DEF SetCurrentHeader, WriteHeadFastBlockHash, WriteLastBlockHash
  <2>3. /\ disk'.header \in {disk.header, block} /\ disk'.states = disk.states
        /\ node'.current = node.current
        /\ node'.tries = node.tries /\ node'.reward = node.reward
    BY <1>0, <1>7 DEF SetCurrentHeader, WriteHeadFastBlockHash, WriteLastBlockHash, Disks, Nodes
  <2>4. rewardedBlock = node.current /\ rewardedBlock' = node.current
    BY <2>1, <2>2, <2>3 DEF rewardedBlock
  <2>5. lastPaid(rewardedBlock)' = lastPaid(rewardedBlock)
    BY <2>4 DEF lastPaid
  <2>. QED
    BY <1>0, <2>1, <2>3, <2>5 DEF ImportInv, HasState
<1>8. CASE NextBlock
  <2>1. job[3] = 11 /\ job # <<>>
    BY <1>8, AtIndex DEF NextBlock, AtEnd
  <2>2. UNCHANGED <<disk, node>> /\ (job' = <<>> \/ (job' # <<>> /\ job'[3] = 1))
    BY <1>8 DEF NextBlock, Start
  <2>. QED
    BY <2>1, <2>2, QuietKeepsImport
<1>9. CASE CrashChain \/ Stop
  BY <1>0, <1>9 DEF CrashChain, Stop, ImportInv, Up, Nodes, Disks
<1>10. CASE NewBlockChain
  <2>. DEFINE held == {n \in disk.states : n <= disk.head}
              current == Max(held)
              header == IF disk.header \in disk.headers THEN disk.header ELSE current
  <2>1. 0 \in held /\ held \subseteq Nat /\ disk.head \in Nat
    BY <1>0 DEF ChainInv, DiskInv, Disks
  <2>2. current \in held
    BY <2>1, MaxIsGreatest
  <2>3. GetBlock(disk.head)
    BY <2>1 DEF ChainInv, DiskInv, HeadIsWhole, GetBlock
  <2>. HIDE DEF current
  <2>4. current = repair(disk.head) /\ current \in Nat /\ current <= MaxBlock
    BY <1>0, <2>1, <2>2 DEF repair, current, ChainInv, DiskInv
  <2>5. /\ disk'.header = header /\ disk'.states = disk.states
        /\ node'.current = current
        /\ node'.reward = IF IsTIP9(header) THEN TIP9Snail ELSE lastPaid(current)
    BY <1>0, <1>10, <2>3, <2>4 DEF NewBlockChain, loadLastState, GetLastRowByFastCurrentBlock, Disks
  <2>6. header \in Nat /\ header <= MaxBlock
    BY <1>0, <2>4 DEF ImportInv
  <2>7. MaxBlock < TIP9 => ~IsTIP9(header)
    BY <1>0, <2>6, FastChainAssumption DEF IsTIP9
  <2>8. job' = <<>>
    BY <1>10 DEF NewBlockChain, Gone
  <2>. QED
    BY <2>2, <2>5, <2>6, <2>7, <2>8 DEF ImportInv, HasState, rewardedBlock, lastPaid
<1>. QED
  BY <1>1, <1>2, <1>3, <1>4, <1>5, <1>6, <1>7, <1>8, <1>9, <1>10 DEF FNext

\* On a chain whose rewards follow one another the head always has its state,
\* and the block decided next can be imported, wherever the process ended
\* before and however far loadLastState went back.
THEOREM NextBlockIsImportable ==
    ASSUME RewardsFollow
    PROVE  FSpec => []NextIsImportable
<1>1. FInit => ImportInv
  BY FastChainAssumption DEF FInit, ImportInv, HasState, Up, rewardedBlock, lastPaid
<1>2. ChainInv /\ ImportInv /\ [FNext]_fvars => ImportInv'
  <2>1. ASSUME ImportInv, UNCHANGED fvars PROVE ImportInv'
    BY <2>1 DEF fvars, ImportInv, HasState, Up, rewardedBlock, block, lastPaid
  <2>. QED
    BY <2>1, StepKeepsImport
<1>3. ChainInv /\ ImportInv => NextIsImportable
  <2>. SUFFICES ASSUME ChainInv, ImportInv, Up, job = <<>>, node.current < MaxBlock
                PROVE  HasState(node.current) /\ ValidateBody(node.current + 1) = "valid"
    BY DEF NextIsImportable
  <2>. DEFINE b == node.current + 1
  <2>1. node.current \in Nat /\ b \in 1 .. MaxBlock /\ b - 1 = node.current /\ ~(node.current >= b)
    BY FastChainAssumption DEF ChainInv, TypeOK, Nodes
  <2>2. HasState(node.current) /\ GetBlock(node.current)
    <3>1. node.current \in 0 .. disk.head
      BY <2>1 DEF ChainInv, TypeOK, Disks, PointersInv
    <3>. QED
      BY <3>1 DEF ImportInv, ChainInv, DiskInv, HeadIsWhole, GetBlock
  <2>3. HasBlock(b - 1) /\ HasBlockAndState(b - 1)
    BY <2>1, <2>2 DEF HasBlock, HasBlockAndState, GetBlock, VerifyHasState
  <2>4. Snail[b] \in {0, node.reward + 1}
    <3>1. CASE MaxBlock < TIP9
      <4>1. node.reward = lastPaid(b - 1)
        BY <2>1, <3>1 DEF ImportInv, rewardedBlock
      <4>. QED
        BY <2>1, <4>1 DEF RewardsFollow
    <3>. QED
      BY <2>1, <3>1 DEF RewardsFollow
  <2>. HIDE DEF b
  <2>5. ValidateBody(b) = "valid"
    BY <2>1, <2>3, <2>4 DEF ValidateBody
  <2>. QED
    BY <2>2, <2>5 DEF b
<1>. QED
  BY <1>1, <1>2, <1>3, ChainInvariant, PTL DEF FSpec
=============================================================================
