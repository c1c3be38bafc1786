------------------------------- MODULE Fetcher -------------------------------
(***************************************************************************)
(* abey/fetcher/fetcher.go: how a node that gets blocks and announcements  *)
(* of blocks from its peers fetches what is missing and imports it in      *)
(* order.  One goroutine, loop, owns the state; what interleaves with it   *)
(* are the goroutines that insert a block, the answers of the peers, its   *)
(* timers, and everything else that makes the chain grow.                  *)
(*                                                                         *)
(* A block comes in copies, which may carry different signatures: a copy   *)
(* is [hash, enough], where enough says whether its signatures are more    *)
(* than two thirds of the committee in number.  An announcement is [hash,  *)
(* origin, number].  The fields of Fetcher are a record that the           *)
(* translated functions take and return; a map without an entry holds the  *)
(* empty set.  The per-peer count of announcements is left out, and        *)
(* headers and bodies come one by one.                                     *)
(***************************************************************************)
EXTENDS Integers, Sequences, SequencesExt, FiniteSets, Bags

CONSTANTS
    Peers,
    Hashes,         \* the blocks peers may send,
    NumberOf,       \* their numbers,
    Decided,        \* and those the committee has decided, one for a number
    Claims,         \* the announcements peers may send
    BlockLimit, MaxQueueDist,
    MaxHeight,      \* bound: the highest number
    MaxTasks        \* bound: insertions under way when a block is sent

VARIABLES
    f,              \* the fields of Fetcher
    loop,           \* [pc, height]: where loop is and the height it has read
    tasks,          \* the goroutines of verifyComeAgreement, each [hash, state]
    height          \* the height of the chain

fetcherVars == <<f, loop, tasks, height>>

Heights == 1 .. MaxHeight
Entries(map) == {h \in Hashes : map[h] # {}}

(* The chain (external). *)
getBlock(h) == h \in Decided /\ NumberOf[h] <= height
-----------------------------------------------------------------------------
forgetHash(s, h) ==
    [s EXCEPT !.announced[h] = {}, !.fetching[h] = {}, !.fetched[h] = {}, !.completing[h] = {}]

forgetBlock(s, h) ==
    [s EXCEPT !.queues = [p \in Peers |-> IF \E op \in s.queued[h] : op.origin = p
                                          THEN @[p] - 1 ELSE @[p]],
              !.queued[h] = {}]

forget(s, h) == forgetBlock(forgetHash(s, h), h)

forgetBlockHeight(s, n) ==
    [FoldLeft(forget, s, s.blockMultiHash[n])
       EXCEPT !.blockMultiHash[n] = <<>>, !.sendBlockHash[n] = {}]

\* Mutant of forgetInvaildBlock: the height keeps the hash.
forgetInvaildBlockPartly(s, h) ==
    [forget(s, h) EXCEPT !.sendBlockHash[NumberOf[h]] = @ \ {h}]

forgetInvaildBlock(s, h) ==
    [forget(s, h) EXCEPT !.blockMultiHash[NumberOf[h]] = SelectSeq(@, LAMBDA g : g # h),
                         !.sendBlockHash[NumberOf[h]] = @ \ {h}]

\* fetch.Reset, unless there is nothing to wait for
rescheduleFetch(s) == [s EXCEPT !.fetchTimer = @ \/ Entries(s.announced) # {}]
rescheduleComplete(s) == [s EXCEPT !.completeTimer = @ \/ Entries(s.fetched) # {}]

push(s, item) == [s EXCEPT !.queue = @ (+) SetToBag({item})]

\* Mutant of putBack: the item is lost.
putBackNot(s, item) == s

\* An item that is too high stays for later.
putBack(s, item) == push(s, item)

inReach(n) == n - height \in 1 .. MaxQueueDist

copy(h, enough) == [hash |-> h, enough |-> enough]

\* The copy of a queued block
queuedCopy(s, h) == copy(h, \E op \in s.queued[h] : op.enough)

\* enqueue; valid says whether each signature of the copy is one of a member.
enqueue(s, p, c, valid) ==
    LET n == NumberOf[c.hash]
        t == [s EXCEPT !.queues[p] = @ + 1,
                       !.queued[c.hash] = {[origin |-> p, enough |-> c.enough]},
                       !.blockMultiHash[n] = Append(@, c.hash)]
    IN  IF s.queues[p] + 1 > BlockLimit \/ ~inReach(n) \/ ~valid THEN forgetHash(s, c.hash)
        ELSE IF s.queued[c.hash] # {} THEN s
        ELSE push(t, [number |-> n,
                      blocks |-> [i \in DOMAIN t.blockMultiHash[n] |-> queuedCopy(t, t.blockMultiHash[n][i])]])
-----------------------------------------------------------------------------
(* The top of the loop: expired fetches are forgotten, then blocks that    *)
(* are next are imported until one is found or none is left.               *)

Top ==
    /\ loop.pc = "top"
    /\ \E expired \in SUBSET Entries(f.fetching) :
          f' = FoldLeft(forgetHash, f, SetToSeq(expired))
    /\ loop' = [pc |-> "import", height |-> height]
    /\ UNCHANGED <<tasks, height>>

\* markBroadcastBlock; invalid are the blocks whose header fails.
markBroadcastBlock(s, h, invalid) ==
    /\ h \notin s.sendBlockHash[NumberOf[h]]
    /\ NumberOf[h] - 1 <= height
    /\ h \notin invalid

\* The signatures of this copy are counted, whoever they are from.
agreeAtSameHeight(c) == c.enough

\* One block of an item.  r is [f, insert, stop, finished]: the state, the
\* blocks that came to agreement, and whether the item and the pass end.
tryBlock(r, item, c, invalid) ==
    LET n == item.number
        h == c.hash
        sent == [r.f EXCEPT !.sendBlockHash[n] = @ \cup {h}]
    IN  IF r.stop THEN r
        ELSE IF n > loop.height + 1 THEN
             [r EXCEPT !.f = putBack(@, item), !.stop = TRUE, !.finished = TRUE]
        ELSE IF n <= loop.height \/ getBlock(h) THEN
             [r EXCEPT !.f = forgetBlockHeight(@, n), !.stop = TRUE]
        ELSE IF ~markBroadcastBlock(r.f, h, invalid) THEN
             [r EXCEPT !.f = forgetInvaildBlock(@, h)]
        ELSE IF agreeAtSameHeight(c) THEN
             [r EXCEPT !.f = sent, !.insert = @ \cup {h}, !.finished = TRUE]
        ELSE [r EXCEPT !.f = sent]

\* An item of the lowest number is popped.
Import ==
    /\ loop.pc = "import" /\ f.queue # EmptyBag
    /\ \E item \in BagToSet(f.queue), invalid \in SUBSET (Hashes \ Decided) :
          /\ \A other \in BagToSet(f.queue) : item.number <= other.number
          /\ \E r \in {FoldLeft(LAMBDA r, c : tryBlock(r, item, c, invalid),
                                [f |-> [f EXCEPT !.queue = @ (-) SetToBag({item})],
                                 insert |-> {}, stop |-> FALSE, finished |-> FALSE],
                                item.blocks)} :
                /\ f' = r.f
                /\ tasks' = tasks (+) SetToBag({[hash |-> h, state |-> "inserting"] : h \in r.insert})
                /\ loop' = IF r.finished THEN [loop EXCEPT !.pc = "select"] ELSE loop
    /\ UNCHANGED height

Wait ==
    /\ loop.pc = "import" /\ f.queue = EmptyBag
    /\ loop' = [loop EXCEPT !.pc = "select"]
    /\ UNCHANGED <<f, tasks, height>>
-----------------------------------------------------------------------------
(* The events of the select statement.                                     *)

Handle(s) ==
    /\ loop.pc = "select"
    /\ f' = s
    /\ loop' = [loop EXCEPT !.pc = "top"]
    /\ UNCHANGED height

Notify(c) ==
    LET noted == [f EXCEPT !.announced[c.hash] = @ \cup {c}]
    IN  /\ Handle(IF \/ c.number > 0 /\ ~inReach(c.number)
                     \/ f.fetching[c.hash] # {} \/ f.completing[c.hash] # {}
                  THEN f
                  ELSE IF Cardinality(Entries(noted.announced)) = 1 THEN rescheduleFetch(noted)
                  ELSE noted)
        /\ UNCHANGED tasks

\* A copy of a block from peer p: enough signatures, too few or none, or some
\* that are invalid
Enqueue(p, h) ==
    /\ BagCardinality(tasks) < MaxTasks
    /\ \E enough, valid \in BOOLEAN : Handle(enqueue(f, p, copy(h, enough), valid))
    /\ UNCHANGED tasks

\* fetchTimer.C: some of the announced blocks are due.
move(s, h, to, c) ==
    IF getBlock(h) THEN forgetHash(s, h) ELSE [forgetHash(s, h) EXCEPT ![to][h] = {c}]

FetchTimer ==
    /\ f.fetchTimer
    /\ \E due \in SUBSET Entries(f.announced) :
       \E pick \in [due -> Claims] :
          /\ \A h \in due : pick[h] \in f.announced[h]
          /\ Handle(rescheduleFetch(
                FoldLeft(LAMBDA s, h : move(s, h, "fetching", pick[h]),
                         [f EXCEPT !.fetchTimer = FALSE], SetToSeq(due))))
    /\ UNCHANGED tasks

CompleteTimer ==
    /\ f.completeTimer
    /\ Handle(rescheduleComplete(
          FoldLeft(LAMBDA s, h : move(s, h, "completing", CHOOSE c \in f.fetched[h] : TRUE),
                   [f EXCEPT !.completeTimer = FALSE], SetToSeq(Entries(f.fetched)))))
    /\ UNCHANGED tasks

\* A header from peer p
FilterHeaders(p, h) ==
    LET asked == {c \in f.fetching[h] : c.origin = p}
        noted == [f EXCEPT !.fetched[h] = asked]
    IN  /\ Handle(IF asked = {} \/ f.fetched[h] # {} \/ f.completing[h] # {} \/ f.queued[h] # {} THEN f
                  ELSE IF getBlock(h) \/ \E c \in asked : c.number # NumberOf[h] THEN forgetHash(f, h)
                  ELSE IF Cardinality(Entries(noted.fetched)) = 1 THEN rescheduleComplete(noted)
                  ELSE noted)
        /\ UNCHANGED tasks

\* A body from peer p
FilterBodies(p, h) ==
    LET asked == {c \in f.completing[h] : c.origin = p}
    IN  /\ BagCardinality(tasks) < MaxTasks
        /\ \E enough, valid \in BOOLEAN :
              Handle(IF asked = {} \/ f.queued[h] # {} THEN f
                     ELSE IF getBlock(h) THEN forgetHash(f, h)
                     ELSE enqueue(f, p, copy(h, enough), valid))
        /\ UNCHANGED tasks

\* doneConsensus and doneBlockSign
Done(h, state) ==
    LET t == [hash |-> h, state |-> state]
    IN  /\ BagIn(t, tasks)
        /\ Handle(IF state = "inserted" THEN forgetBlockHeight(f, NumberOf[h])
                  ELSE forgetInvaildBlock(f, h))
        /\ tasks' = tasks (-) SetToBag({t})
-----------------------------------------------------------------------------
(* insert, on a goroutine of its own; and the chain grows by other means.  *)

InsertChain(h) ==
    LET t == [hash |-> h, state |-> "inserting"]
        after(state) == (tasks (-) SetToBag({t})) (+) SetToBag({[t EXCEPT !.state = state]})
    IN  /\ BagIn(t, tasks)
        /\ \/ /\ h \in Decided
              /\ tasks' = after("inserted")
              /\ height' = IF NumberOf[h] > height THEN NumberOf[h] ELSE height
           \/ /\ tasks' = after("failed")
              /\ UNCHANGED height
        /\ UNCHANGED <<f, loop>>

InsertElsewhere ==
    /\ height < MaxHeight
    /\ height' = height + 1
    /\ UNCHANGED <<f, loop, tasks>>

FetcherInit ==
    LET none == [h \in Hashes |-> {}]
    IN  /\ f = [announced |-> none, fetching |-> none, fetched |-> none, completing |-> none,
                queue |-> EmptyBag, queues |-> [p \in Peers |-> 0], queued |-> none,
                blockMultiHash |-> [n \in Heights |-> <<>>],
                sendBlockHash |-> [n \in Heights |-> {}],
                fetchTimer |-> TRUE, completeTimer |-> TRUE]
        /\ loop = [pc |-> "top", height |-> 0]
        /\ tasks = EmptyBag
        /\ height = 0

FetcherNext ==
    \/ Top \/ Import \/ Wait \/ FetchTimer \/ CompleteTimer \/ InsertElsewhere
    \/ \E c \in Claims : Notify(c)
    \/ \E p \in Peers, h \in Hashes : Enqueue(p, h) \/ FilterHeaders(p, h) \/ FilterBodies(p, h)
    \/ \E h \in Hashes : InsertChain(h) \/ Done(h, "inserted") \/ Done(h, "failed")

FetcherSpec == FetcherInit /\ [][FetcherNext]_fetcherVars
-----------------------------------------------------------------------------
(* Properties                                                              *)

\* The maps of the fetcher agree, whatever is forgotten while it is fetched or
\* imported: the hashes of a height are exactly its queued blocks (enqueue
\* reads the block of each of them), the count of a peer is that of its queued
\* blocks (or blockLimit would shut it out), and a block is announced, being
\* fetched or being completed, one at a time.
QueueIsAccounted ==
    /\ \A n \in Heights :
          /\ ToSet(f.blockMultiHash[n]) = {h \in Entries(f.queued) : NumberOf[h] = n}
          /\ IsInjective(f.blockMultiHash[n])
    /\ \A p \in Peers : f.queues[p] = Cardinality({h \in Hashes : \E op \in f.queued[h] : op.origin = p})
    /\ \A h \in Hashes :
          /\ f.fetched[h] \subseteq f.fetching[h]
          /\ Cardinality({m \in {"announced", "fetching", "completing"} : f[m][h] # {}}) <= 1

\* Nothing is left waiting for ever: a timer runs while blocks are announced
\* or headers without bodies are there, and a block that is queued above the
\* head with enough signatures is with them in an item of the queue or with a
\* goroutine that reports (a queued block is not accepted a second time).
WorkIsScheduled ==
    /\ Entries(f.announced) # {} => f.fetchTimer
    /\ Entries(f.fetched) # {} => f.completeTimer
    /\ \A h \in Entries(f.queued) :
          \/ NumberOf[h] <= height
          \/ ~queuedCopy(f, h).enough
          \/ \E item \in BagToSet(f.queue) : Contains(item.blocks, queuedCopy(f, h))
          \/ \E t \in BagToSet(tasks) : t.hash = h
=============================================================================
