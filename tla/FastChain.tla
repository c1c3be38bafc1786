----------------------------- MODULE FastChain -----------------------------
(***************************************************************************)
(* core/blockchain.go: the chain of fast blocks on disk and in memory.  A  *)
(* block is written piece by piece, a crash may come between any two       *)
(* writes, and states reach the disk far more rarely than blocks: after a  *)
(* crash loadLastState goes back to the last block with a state.           *)
(*                                                                         *)
(* The committee decides one chain, so that a block is its number.         *)
(***************************************************************************)
EXTENDS Integers, Sequences, FiniteSets, FiniteSetsExt

CONSTANTS
    MaxBlock,       \* the blocks that have been decided are 1..MaxBlock
    Snail,          \* Snail[b]: the snail block that b pays for, 0 for none
    TIP9,           \* the first fast block that pays for no snail block,
    TIP9Snail,      \* and the last snail block
    TriesInMemory,
    Retained,       \* triesInMemoryDownloader
    Interval,       \* fastBlockStateInternal
    MaxCalls        \* bound: calls of InsertChain that wait for the lock

\* A block is dropped from memory only when it is too old to be asked for its
\* state (128 against 6 in the code).
ASSUME FastChainAssumption ==
    /\ MaxBlock \in Nat /\ TriesInMemory \in Nat /\ Retained \in Nat /\ Interval \in Nat
    /\ Interval + 1 < TriesInMemory
    /\ Snail \in [1 .. MaxBlock -> Nat] /\ TIP9 \in Nat /\ TIP9Snail \in Nat

VARIABLES
    disk,           \* the database
    node,           \* the fields of BlockChain
    calls,          \* the calls of InsertChain that wait for chainmu
    job,            \* the call that holds it: <<>>, or the block, the last block
                    \* and the index of the write the call is at
    top             \* history: the highest block that was inserted completely

fvars == <<disk, node, calls, job, top>>

Up == node.status = "up"
-----------------------------------------------------------------------------
(* What the chain knows of a block.                                        *)

HasBlock(n) == n \in disk.bodies

GetBlock(n) == n \in disk.bodies \cap disk.headers

HasState(n) == n \in disk.states \cup node.tries

\* Mutant of VerifyHasState: an old block is asked for its state.
VerifyHasStateAlways(n) == HasState(n)
VerifyHasState(n) == HasState(n) \/ node.current > n + Interval

HasBlockAndState(n) == GetBlock(n) /\ VerifyHasState(n)

IsTIP9(n) == n >= TIP9 /\ n > 0

(* The verdict of VerifyHeaders and ValidateBody.  One chain pays for each *)
(* snail block once: ErrSnailNumberAlreadyRewarded cannot occur.           *)
ValidateBody(b) ==
    CASE HasBlockAndState(b) /\ node.current >= b -> "known"
      [] OTHER ->
         CASE ~HasBlock(b - 1)         -> "unknown ancestor"
           [] ~HasBlockAndState(b - 1) -> "pruned ancestor"
           [] OTHER -> IF Snail[b] \in {0, node.reward + 1} THEN "valid" ELSE "wrong reward"
-----------------------------------------------------------------------------
(* The callers.  The fetcher takes the height of the fast head, wants the  *)
(* parent and not the block; the downloader and the agent ask for what     *)
(* follows the head they see.  The lock may be free only much later.       *)

Call(lo, hi) ==
    /\ Up
    /\ Cardinality(calls) < MaxCalls
    /\ calls' = calls \cup {<<lo, hi>>}
    /\ UNCHANGED <<disk, node, job, top>>

verifyComeAgreement ==
    /\ node.fast < MaxBlock
    /\ GetBlock(node.fast) /\ ~GetBlock(node.fast + 1)
    /\ Call(node.fast + 1, node.fast + 1)

importBlockResults ==
    \E hi \in node.current + 1 .. MaxBlock : Call(node.current + 1, hi)
-----------------------------------------------------------------------------
(* InsertChain: chainmu is taken, the blocks that are known are skipped.   *)

Start(b, hi) ==
    /\ job' = IF ValidateBody(b) = "valid" /\ HasState(b - 1) THEN <<b, hi, 1>> ELSE <<>>
    /\ UNCHANGED <<disk, node>>

(* insertSidechain.  current() answers nil for the last block of a chain   *)
(* and previous() for the first: a single block leaves nothing to import   *)
(* from, and the process ends.  A longer chain starts at or below the      *)
(* head; its states are those of the chain, and it is refused.             *)
insertSidechain(lo, hi) ==
    /\ node' = IF lo = hi THEN [node EXCEPT !.status = "panic"] ELSE node
    /\ UNCHANGED <<disk, job>>

insertChain(lo, hi) ==
    LET fresh == {b \in lo .. hi : ValidateBody(b) # "known"}
    IN  /\ Up /\ job = <<>>
        /\ <<lo, hi>> \in calls
        /\ calls' = calls \ {<<lo, hi>>}
        /\ CASE ValidateBody(lo) = "pruned ancestor" -> insertSidechain(lo, hi)
             [] fresh = {} -> UNCHANGED <<disk, node, job>>
             [] OTHER -> Start(Min(fresh), hi)
        /\ UNCHANGED top
-----------------------------------------------------------------------------
(* writeBlockWithState and insert, one action for each write.             *)

\* Mutant of writes: the pointers of insert before the batch.
writesHeadFirst == <<"body", "header", "reward", "state", "canonical", "head", "headHeader",
                     "headFast", "batch", "last">>
writes == <<"body", "header", "reward", "state", "batch", "canonical", "head", "headHeader",
            "headFast", "last">>

block == job[1]
At(write) == Up /\ job # <<>> /\ job[3] \in DOMAIN writes /\ writes[job[3]] = write
AtEnd == Up /\ job # <<>> /\ job[3] > Len(writes)
Done == job' = <<job[1], job[2], job[3] + 1>> /\ UNCHANGED calls

WriteBody ==
    /\ At("body") /\ Done /\ UNCHANGED top
    /\ disk' = [disk EXCEPT !.bodies = @ \cup {block}]
    /\ UNCHANGED node

WriteHeader ==
    /\ At("header") /\ Done /\ UNCHANGED top
    /\ disk' = [disk EXCEPT !.headers = @ \cup {block}]
    /\ UNCHANGED node

WriteBlockReward ==
    /\ At("reward") /\ Done /\ UNCHANGED top
    /\ IF Snail[block] # 0
       THEN /\ disk' = [disk EXCEPT !.rewarded = Snail[block]]
            /\ node' = [node EXCEPT !.reward = Snail[block]]
       ELSE UNCHANGED <<disk, node>>

(* The state stays in memory.  From block TriesInMemory + 1 on the one     *)
(* that leaves the window is dropped, and written first when the time      *)
(* allowance is used up.                                                   *)
CommitState ==
    LET chosen == block - TriesInMemory
    IN  /\ At("state") /\ Done /\ UNCHANGED top
        /\ node' = [node EXCEPT !.tries =
               {n \in @ \cup {block} : block > TriesInMemory => n > chosen}]
        /\ \/ UNCHANGED disk
           \/ /\ chosen > 0 /\ chosen \in node.tries
              /\ disk' = [disk EXCEPT !.states = @ \cup {chosen}]

(* reorg, when the block does not follow the head: the lookups of the      *)
(* blocks that are left go.  Then the batch: receipts and lookups.         *)
WriteBatch ==
    /\ At("batch") /\ Done /\ UNCHANGED top
    /\ disk' = [disk EXCEPT !.lookups = {n \in @ : block = node.current + 1 \/ n <= block} \cup {block}]
    /\ UNCHANGED node

(* insert: the pointers, one after the other.                              *)
WriteCanonicalHash ==
    /\ At("canonical") /\ Done /\ UNCHANGED top
    /\ disk' = [disk EXCEPT !.canonical = @ \cup {block}]
    /\ UNCHANGED node

WriteHeadBlockHash ==
    /\ At("head") /\ Done /\ UNCHANGED top
    /\ disk' = [disk EXCEPT !.head = block]
    /\ node' = [node EXCEPT !.current = block]

SetCurrentHeader ==
    /\ At("headHeader") /\ Done /\ UNCHANGED top
    /\ disk' = [disk EXCEPT !.header = block]
    /\ node' = [node EXCEPT !.header = block]

WriteHeadFastBlockHash ==
    /\ At("headFast") /\ Done /\ UNCHANGED top
    /\ disk' = [disk EXCEPT !.fast = block]
    /\ node' = [node EXCEPT !.fast = block]

\* Mutant of WriteLastBlockHash: any block ends the fallback.
WriteAnyLastBlockHash ==
    /\ At("last") /\ Done
    /\ disk' = [disk EXCEPT !.last = block]
    /\ node' = [node EXCEPT !.last = block, !.isFallback = FALSE]
    /\ top' = Max({top, block})

WriteLastBlockHash ==
    /\ At("last") /\ Done
    /\ IF block >= node.last
       THEN /\ disk' = [disk EXCEPT !.last = block]
            /\ node' = [node EXCEPT !.last = block, !.isFallback = FALSE]
       ELSE UNCHANGED <<disk, node>>
    /\ top' = Max({top, block})

NextBlock ==
    /\ AtEnd
    /\ IF block < job[2] THEN Start(block + 1, job[2]) ELSE job' = <<>> /\ UNCHANGED <<disk, node>>
    /\ UNCHANGED <<calls, top>>
-----------------------------------------------------------------------------
(* The end of the process and its next start.                              *)

Gone == calls' = {} /\ job' = <<>> /\ UNCHANGED top

CrashChain ==
    /\ Up
    /\ node' = [node EXCEPT !.status = "down"]
    /\ UNCHANGED disk
    /\ Gone

Stop ==
    LET kept == {node.current - o : o \in {0, 1, Retained - 1, TriesInMemory - 1}}
    IN  /\ Up
        /\ job = <<>> \/ AtEnd
        /\ node' = [node EXCEPT !.status = "down"]
        /\ disk' = [disk EXCEPT !.states = @ \cup {n \in kept \cap node.tries : n > 0}]
        /\ Gone

(* repair: back to a block with a state.                                   *)
repair(head) == Max({n \in disk.states : n <= head})

\* The snail block paid for last when the blocks up to b are in the chain: the
\* loop of GetLastRowByFastCurrentBlock looks at block b and then at the blocks
\* from b down to the second one.
lastPaid(b) ==
    LET paying == {n \in {b} \cup 2 .. b : n > 0 /\ Snail[n] # 0}
    IN  IF paying = {} THEN 0 ELSE Snail[Max(paying)]

\* Mutant of GetLastRowByFastCurrentBlock: the number that was stored last.
GetLastRowStored(current) == disk.rewarded

GetLastRowByFastCurrentBlock(current) == lastPaid(current)

loadLastState ==
    LET stored(n, default) == IF GetBlock(n) THEN n ELSE default
        current == repair(stored(disk.head, 0))
        header  == IF disk.header \in disk.headers THEN disk.header ELSE current
        last    == stored(disk.last, current)
        reward  == IF IsTIP9(header) THEN TIP9Snail ELSE GetLastRowByFastCurrentBlock(current)
    IN  /\ disk' = [disk EXCEPT !.header = header, !.rewarded = reward]
        /\ node' = [status |-> "up", current |-> current, header |-> header,
                    fast |-> stored(disk.fast, current), last |-> last, reward |-> reward,
                    isFallback |-> current < last, tries |-> {}]

NewBlockChain ==
    /\ ~Up
    /\ loadLastState
    /\ Gone
-----------------------------------------------------------------------------
FInit ==
    /\ disk = [bodies |-> {0}, headers |-> {0}, states |-> {0}, lookups |-> {0},
               canonical |-> {0}, rewarded |-> 0, head |-> 0, header |-> 0, fast |-> 0, last |-> 0]
    /\ node = [status |-> "up", current |-> 0, header |-> 0, fast |-> 0, last |-> 0,
               reward |-> 0, isFallback |-> FALSE, tries |-> {}]
    /\ calls = {}
    /\ job = <<>>
    /\ top = 0

FNext ==
    \/ verifyComeAgreement \/ importBlockResults
    \/ \E lo, hi \in 1 .. MaxBlock : insertChain(lo, hi)
    \/ WriteBody \/ WriteHeader \/ WriteBlockReward \/ CommitState \/ WriteBatch
    \/ WriteCanonicalHash \/ WriteHeadBlockHash \/ SetCurrentHeader
    \/ WriteHeadFastBlockHash \/ WriteLastBlockHash \/ NextBlock
    \/ CrashChain \/ Stop \/ NewBlockChain

FSpec == FInit /\ [][FNext]_fvars
-----------------------------------------------------------------------------
(* Properties                                                              *)

\* Wherever a crash cuts an insertion, the chain below the head that the disk
\* names is whole: every block has its header, body, receipts and canonical
\* hash (writeBlockWithState writes them before insert moves the head).
HeadIsWhole ==
    0 .. disk.head \subseteq disk.bodies \cap disk.headers \cap disk.lookups \cap disk.canonical

\* In one life of the process the head never goes back: a block that was
\* imported while its call waited for the lock is recognised as known, its
\* state dropped from memory or not (ValidateBody, VerifyHasState).
HeadOnlyGrows == [][Up /\ Up' => node'.current >= node.current]_fvars

\* The rewards of a chain: snail blocks are paid for one after the other, and
\* not by the first block (rewardSnailBlock waits for SnailRewardInterval snail
\* blocks, which hold fruits of fast blocks). The chain ends before TIP9 or
\* pays for none: once the head header is past TIP9, loadLastState takes the
\* rewards for paid, also those of blocks that a repair took back.
RewardsFollow ==
    /\ \A b \in 1 .. MaxBlock :
          Snail[b] # 0 => b > 1 /\ Snail[b] = lastPaid(b - 1) + 1
    /\ MaxBlock < TIP9 \/ \A b \in 1 .. MaxBlock : Snail[b] = 0

\* The head always has its state, and the block that was decided next can be
\* imported, after a repair too: the reward that loadLastState restores is
\* the one of the chain it went back to.
NextIsImportable ==
    Up /\ job = <<>> /\ node.current < MaxBlock =>
        HasState(node.current) /\ ValidateBody(node.current + 1) = "valid"

\* A chain that loadLastState took back counts as fallen back, so that the
\* agent neither proposes nor votes (ErrIsFallback), until it has all the
\* blocks again that were ever inserted.
FallbackLasts == Up /\ ~node.isFallback /\ job = <<>> => node.current >= top

\* InsertChain imports a block whose parent has no state as a sidechain or
\* refuses it ("First block is pruned, insert as sidechain"); it does not end
\* the process.
NeverPanics == node.status # "panic"
=============================================================================
