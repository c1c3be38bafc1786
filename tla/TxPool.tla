------------------------------- MODULE TxPool -------------------------------
(***************************************************************************)
(* The transaction pool of a node (core/tx_pool.go, core/tx_list.go) with  *)
(* the journal of its local transactions (core/tx_journal.go).             *)
(*                                                                         *)
(* Every entry point holds TxPool.mu, so an action is one whole call: what *)
(* interleaves are the calls of the network (addTxs), of the user          *)
(* (addTx), the pool's own loop (reset, eviction, journal rotation), the   *)
(* price threshold, crashes, and the chain, which moves on before the loop *)
(* hears of it.  The pool is a record that the translated functions take   *)
(* and return.                                                             *)
(*                                                                         *)
(* A transaction is [from, nonce, price, amount, payer] with one unit of   *)
(* gas; signatures, sizes and the gas limit of a block are left out.  A    *)
(* list of an account is [txs, costcap]; a map without the account is the  *)
(* empty list.  pool.ord is the order in which Go's maps are iterated and  *)
(* ties are resolved, chosen anew by every call.                           *)
(***************************************************************************)
EXTENDS Integers, FiniteSets, Sequences, SequencesExt, Bags

CONSTANTS
  Accounts,      \* senders and payers
  Txs,           \* the transactions that may be sent
  UserTxs,       \* those the user of this node sends
  Batches,       \* the sequences of transactions peers send
  Blocks,        \* the blocks of the chain, each [txs, poor]: a sequence of
                 \* transactions, and the accounts it leaves with little
  PriceBump, AccountSlots, GlobalSlots, AccountQueue, GlobalQueue, \* TxPoolConfig
  PriceLimit,    \* the configured price threshold
  GasPrices,     \* the price thresholds the user may set
  Low, High,     \* the valid balance of a poor account and of any other one
  MaxBlocks,     \* bound on the height of the chain
  MaxForks,      \* bound on replaced blocks
  MaxEvents,     \* bound on head events the loop has not handled
  MaxCrashes     \* bound on restarts

ASSUME PoolAssumption ==
  /\ IsFiniteSet(Accounts) /\ IsFiniteSet(Txs) /\ UserTxs \subseteq Txs
  /\ Batches \subseteq Seq(Txs)
  /\ \A b \in Blocks : b.txs \in Seq(Txs) /\ b.poor \subseteq Accounts
  /\ PriceBump >= 1 /\ AccountSlots >= 1 /\ GlobalSlots >= 1  \* sanitize
  /\ AccountQueue >= 1 /\ GlobalQueue >= 1 /\ Low <= High

VARIABLES
  pool,     \* the TxPool
  journal,  \* the transactions of the journal file
  chain,    \* the blocks of the canonical chain, each [txs, poor]
  head,     \* the chain of the loop's local variable head
  events,   \* chainHeadCh: the chains whose head event is not handled yet
  short,    \* history: the accounts a reset could not give back every
            \* transaction of the blocks that a reorganisation dropped
  forks, crashes  \* used up of MaxForks and MaxCrashes

poolVars == <<pool, journal, chain, head, events, short, forks, crashes>>

(***************************** the chain (external) ************************)
\* The part of the state at the head of a chain that the pool reads.
sentBy(txs, a) == Len(SelectSeq(txs, LAMBDA t : t.from = a))
txsOf(c) == FlattenSeq([i \in DOMAIN c |-> c[i].txs])
StateAt(c) ==
  [nonce   |-> [a \in Accounts |-> sentBy(txsOf(c), a)],
   balance |-> [a \in Accounts |-> IF c # <<>> /\ a \in Last(c).poor THEN Low ELSE High]]

GasCost(t) == t.price
AmountCost(t) == t.amount
Cost(t) == AmountCost(t) + GasCost(t)
paidByOther(t) == t.payer # t.from

\* What the balances of state s must cover for t.
affordable(s, t) ==
  IF paidByOther(t)
  THEN GasCost(t) <= s.balance[t.payer] /\ AmountCost(t) <= s.balance[t.from]
  ELSE Cost(t) <= s.balance[t.from]

(***************************** txList *************************************)
newTxList == [txs |-> {}, costcap |-> 0]

txAt(l, n) == {t \in l.txs : t.nonce = n}
Overlaps(l, tx) == txAt(l, tx.nonce) # {}

\* Add: whether tx enters the list, and the list with it.
bumps(old, tx) ==
  old.price < tx.price /\ (old.price * (100 + PriceBump)) \div 100 <= tx.price
inserts(l, tx) == \A old \in txAt(l, tx.nonce) : bumps(old, tx)
\* Mutant of insert: only the first transaction of a list sets its costcap.
insertKeepsCap(l, tx) ==
  [txs |-> (l.txs \ txAt(l, tx.nonce)) \cup {tx},
   costcap |-> IF l.txs = {} THEN Cost(tx) ELSE l.costcap]
insert(l, tx) ==
  [txs |-> (l.txs \ txAt(l, tx.nonce)) \cup {tx},
   costcap |-> IF l.costcap < Cost(tx) THEN Cost(tx) ELSE l.costcap]

\* The list without the transactions of S; a list that became empty is
\* deleted from its map.
without(l, S) == IF l.txs \subseteq S THEN newTxList ELSE [l EXCEPT !.txs = @ \ S]

Flatten(S) ==
  [i \in 1..Cardinality(S) |->
     CHOOSE t \in S : Cardinality({u \in S : u.nonce < t.nonce}) = i - 1]
below(l, n) == {t \in l.txs : t.nonce < n}
above(l, n) == {t \in l.txs : t.nonce > n}
Cap(l, size) == {t \in l.txs : Cardinality(below(l, t.nonce)) >= size}
Ready(l, start) ==
  IF below(l, start + 1) = {} THEN {}
  ELSE {t \in l.txs : \A u \in below(l, t.nonce) : \E v \in l.txs : v.nonce = u.nonce + 1}

\* Filter: the transactions to remove, those a strict list postpones, and the
\* costcap it keeps.  The cached costcap may say that nothing has to be done.
Filter(l, a, s) ==
  IF l.costcap <= s.balance[a] THEN [removed |-> {}, costcap |-> l.costcap]
  ELSE [removed |-> {t \in l.txs : ~affordable(s, t)}, costcap |-> s.balance[a]]
invalids(l, removed) == {t \in l.txs \ removed : \E u \in removed : t.nonce > u.nonce}

(***************************** txPricedList *******************************)
one(tx) == SetToBag({tx})
Put(p, tx) == [p EXCEPT !.items = @ (+) one(tx)]
Removed(p) ==
  IF p.stales + 1 <= BagCardinality(p.items) \div 4
  THEN [p EXCEPT !.stales = @ + 1]
  ELSE [p EXCEPT !.stales = 0, !.items = SetToBag(p.all)]

rank(p, a) == CHOOSE i \in DOMAIN p.ord : p.ord[i] = a
cheaper(p, t, u) ==
  \/ t.price < u.price
  \/ t.price = u.price /\ t.nonce > u.nonce
  \/ t.price = u.price /\ t.nonce = u.nonce /\ rank(p, t.from) < rank(p, u.from)
cheapest(p) ==
  CHOOSE t \in BagToSet(p.items) : \A u \in BagToSet(p.items) \ {t} : cheaper(p, t, u)
pop(p, tx) == [p EXCEPT !.items = @ (-) one(tx),
                        !.stales = IF tx \in p.all THEN @ ELSE @ - 1]

NoThreshold == 1 + Max({t.price : t \in Txs})

\* Discard (count > 0) and Cap (threshold): pop the heap, keep the local ones
\* aside and push them back at the end.
RECURSIVE shed(_, _, _, _, _)
shed(p, count, threshold, drop, save) ==
  IF p.items = EmptyBag \/ count = 0
  THEN [pool |-> FoldLeft(Put, p, save), drop |-> drop]
  ELSE LET tx == cheapest(p)
           q == pop(p, tx)
       IN CASE tx \notin p.all -> shed(q, count, threshold, drop, save)
            [] tx \in p.all /\ tx.price >= threshold ->
                 shed(q, 0, threshold, drop, Append(save, tx))
            [] tx \in p.all /\ tx.price < threshold /\ tx.from \in p.locals ->
                 shed(q, count, threshold, drop, Append(save, tx))
            [] OTHER -> shed(q, count - 1, threshold, Append(drop, tx), save)

RECURSIVE Underpriced(_, _)
Underpriced(p, tx) ==
  IF p.items # EmptyBag /\ cheapest(p) \notin p.all /\ tx.from \notin p.locals
  THEN Underpriced(pop(p, cheapest(p)), tx)
  ELSE [pool |-> p,
        under |-> tx.from \notin p.locals /\ p.items # EmptyBag /\ cheapest(p).price >= tx.price]

(***************************** TxPool *************************************)
pendingOf(p) == UNION {p.pending[a].txs : a \in Accounts}
queuedOf(p) == UNION {p.queue[a].txs : a \in Accounts}
each(p, S) == SelectSeq(p.ord, LAMBDA a : a \in S)   \* for a := range S

\* all.Remove and priced.Removed, what every loop over dropped ones does.
forget(p, tx) == Removed([p EXCEPT !.all = @ \ {tx}])
forgetAll(p, txs) == FoldLeft(forget, p, txs)
learn(p, tx) == IF tx \in p.all THEN p ELSE Put([p EXCEPT !.all = @ \cup {tx}], tx)

beat(p, a) == Append(SelectSeq(p.beats, LAMBDA b : b # a), a)
noBeat(p, a) == SelectSeq(p.beats, LAMBDA b : b # a)

enqueueTx(p, tx) ==
  LET l == p.queue[tx.from]
      q == [p EXCEPT !.queue[tx.from] = insert(l, tx)]
  IN IF inserts(l, tx) THEN learn(forgetAll(q, Flatten(txAt(l, tx.nonce))), tx) ELSE p
enqueueAll(p, S) == FoldLeft(enqueueTx, p, Flatten(S))

promoteTx(p, tx) ==
  LET a == tx.from
      l == p.pending[a]
      q == forgetAll([p EXCEPT !.pending[a] = insert(l, tx)], Flatten(txAt(l, tx.nonce)))
  IN IF inserts(l, tx)
     THEN [learn(q, tx) EXCEPT !.beats = beat(p, a), !.nonce[a] = tx.nonce + 1]
     ELSE forget(p, tx)

\* Lower the virtual nonce of account a to n.
lowerNonce(p, a, n) == [p EXCEPT !.nonce[a] = IF @ > n THEN n ELSE @]

unpend(p, a, S) ==
  LET l == without(p.pending[a], S)
  IN [p EXCEPT !.pending[a] = l, !.beats = IF l = newTxList THEN noBeat(p, a) ELSE @]

\* Mutant of removeTx: the price heap is not told.
removeTxUncounted(p, tx, outofbound) ==
  LET a == tx.from
      q == [p EXCEPT !.all = @ \ {tx}]
      postponed == above(p.pending[a], tx.nonce)
  IN IF tx \notin p.all THEN p
     ELSE IF Overlaps(p.pending[a], tx)
     THEN lowerNonce(
            enqueueAll(unpend(q, a, txAt(p.pending[a], tx.nonce) \cup postponed), postponed),
            a, tx.nonce)
     ELSE [q EXCEPT !.queue[a] = without(@, txAt(@, tx.nonce))]

removeTx(p, tx, outofbound) ==
  LET a == tx.from
      q == IF outofbound THEN forget(p, tx) ELSE [p EXCEPT !.all = @ \ {tx}]
      postponed == above(p.pending[a], tx.nonce)
  IN IF tx \notin p.all THEN p
     ELSE IF Overlaps(p.pending[a], tx)
     THEN lowerNonce(
            enqueueAll(unpend(q, a, txAt(p.pending[a], tx.nonce) \cup postponed), postponed),
            a, tx.nonce)
     ELSE [q EXCEPT !.queue[a] = without(@, txAt(@, tx.nonce))]
removeAll(p, txs, outofbound) ==
  FoldLeft(LAMBDA q, tx : removeTx(q, tx, outofbound), p, txs)

\* The body of promoteExecutables' first loop.
promoteAccount(p, a) ==
  LET l0 == p.queue[a]
      old == below(l0, p.state.nonce[a])
      l1 == [l0 EXCEPT !.txs = @ \ old]
      f == Filter(l1, a, p.state)
      l2 == [txs |-> l1.txs \ f.removed, costcap |-> f.costcap]
      q == forgetAll(forgetAll(p, Flatten(old)), Flatten(f.removed))
      ready == Ready(l2, p.nonce[a])
      l3 == [l2 EXCEPT !.txs = @ \ ready]
      over == IF a \in p.locals THEN {} ELSE Cap(l3, AccountQueue)
      q3 == [FoldLeft(promoteTx, q, Flatten(ready)) EXCEPT !.queue[a] = without(l3, over)]
  IN IF l0.txs = {} THEN p ELSE forgetAll(q3, Reverse(Flatten(over)))

\* list.Cap(list.Len() - 1) of a pending list.
capOne(p, a) ==
  LET tx == Last(Flatten(p.pending[a].txs))
  IN lowerNonce(forget([p EXCEPT !.pending[a].txs = @ \ {tx}], tx), a, tx.nonce)

executable(p, a) == Cardinality(p.pending[a].txs)

\* Take one transaction of each of the accounts in turn until the pending ones
\* fit or the last account is down to the threshold.
RECURSIVE reduce(_, _, _)
reduce(p, offenders, threshold) ==
  IF Cardinality(pendingOf(p)) > GlobalSlots /\ executable(p, Last(offenders)) > threshold
  THEN reduce(FoldLeft(capOne, p, offenders), offenders, threshold)
  ELSE p

RECURSIVE penalize(_, _, _)
penalize(p, offenders, spammers) ==
  IF Cardinality(pendingOf(p)) > GlobalSlots /\ spammers # <<>>
  THEN LET next == Head(spammers)
       IN penalize(IF offenders = <<>> THEN p ELSE reduce(p, offenders, executable(p, next)),
                   Append(offenders, next), Tail(spammers))
  ELSE IF offenders = <<>> THEN p ELSE reduce(p, offenders, AccountSlots)

truncatePending(p) ==
  penalize(p, <<>>,
    SortSeq(each(p, {a \in Accounts \ p.locals : executable(p, a) > AccountSlots}),
            LAMBDA a, b : executable(p, a) > executable(p, b)))

\* Mutant of byHeartbeat: local accounts are not spared.
byHeartbeatOfAll(p) ==
  LET S == {a \in Accounts : p.queue[a].txs # {}}
  IN Reverse(SelectSeq(p.beats, LAMBDA a : a \in S)) \o each(p, S \ Range(p.beats))

\* The accounts by heartbeat, the most recent one first; those without one
\* have the zero time.
byHeartbeat(p) ==
  LET S == {a \in Accounts \ p.locals : p.queue[a].txs # {}}
  IN Reverse(SelectSeq(p.beats, LAMBDA a : a \in S)) \o each(p, S \ Range(p.beats))

RECURSIVE dropQueued(_, _, _)
dropQueued(p, addresses, drop) ==
  IF drop <= 0 \/ addresses = <<>> THEN p
  ELSE LET txs == Flatten(p.queue[Head(addresses)].txs)
           gone == IF Len(txs) <= drop THEN txs ELSE SubSeq(Reverse(txs), 1, drop)
       IN dropQueued(removeAll(p, gone, TRUE), Tail(addresses), drop - Len(gone))

truncateQueue(p) ==
  dropQueued(p, byHeartbeat(p), Cardinality(queuedOf(p)) - GlobalQueue)

promoteExecutables(p, accounts) ==
  truncateQueue(truncatePending(FoldLeft(promoteAccount, p, each(p, accounts))))

\* The body of demoteUnexecutables' loop.
demoteAccount(p, a) ==
  LET l0 == p.pending[a]
      n == p.state.nonce[a]
      old == below(l0, n)
      l1 == [l0 EXCEPT !.txs = @ \ old]
      f == Filter(l1, a, p.state)
      bad == invalids(l1, f.removed)
      l2 == [txs |-> l1.txs \ (f.removed \cup bad), costcap |-> f.costcap]
      gapped == IF txAt(l2, n) = {} THEN l2.txs ELSE {}
      q == forgetAll(forgetAll(p, Flatten(old)), Flatten(f.removed))
      q2 == unpend([q EXCEPT !.pending[a] = l2], a, gapped)
  IN IF l0.txs = {} THEN p
     ELSE FoldLeft(enqueueTx, enqueueAll(q2, bad), Reverse(Flatten(gapped)))
demoteUnexecutables(p) == FoldLeft(demoteAccount, p, p.ord)

validateTx(p, tx) ==
  p.gasPrice <= tx.price /\ p.state.nonce[tx.from] <= tx.nonce /\ affordable(p.state, tx)

\* What F makes of the value of x, which is computed once.
then(x, F(_)) == CHOOSE y \in {F(z) : z \in {x}} : TRUE

\* Room for a remote transaction in a full pool: [pool, under].
excess(p) == Cardinality(p.all) - (GlobalSlots + GlobalQueue - 1)
discard(p) == 
  then(shed(p, excess(p), NoThreshold, <<>>, <<>>),
       LAMBDA d : [pool |-> removeAll(d.pool, d.drop, FALSE), under |-> FALSE])
makeRoom(p, tx) ==
  IF excess(p) < 1 THEN [pool |-> p, under |-> FALSE]
  ELSE then(Underpriced(p, tx), LAMBDA u : IF u.under THEN u ELSE discard(u.pool))

failed(p) == [pool |-> p, ok |-> FALSE, replace |-> FALSE, journaled |-> {}]
journalTx(p, tx) == IF tx.from \in p.locals THEN {tx} ELSE {}

\* add: [pool, ok, replace, journaled], the last one what it appends to the
\* journal.
addTo(p, tx, local) ==
  LET l == p.pending[tx.from]
      old == txAt(l, tx.nonce)
      q == [p EXCEPT !.pending[tx.from] = insert(l, tx)]
      e == enqueueTx(p, tx)
      m == IF local THEN [e EXCEPT !.locals = @ \cup {tx.from}] ELSE e
  IN CASE old # {} /\ ~inserts(l, tx) -> failed(p)
       [] old # {} /\ inserts(l, tx) ->
            [pool |-> learn(forgetAll(q, Flatten(old)), tx), ok |-> TRUE, replace |-> TRUE,
             journaled |-> journalTx(p, tx)]
       [] old = {} /\ ~inserts(p.queue[tx.from], tx) -> failed(p)
       [] OTHER -> [pool |-> m, ok |-> TRUE,
                    replace |-> txAt(p.queue[tx.from], tx.nonce) # {},
                    journaled |-> journalTx(m, tx)]
add(p, tx, local) ==
  IF tx \in p.all \/ ~validateTx(p, tx) THEN failed(p)
  ELSE then(IF local THEN [pool |-> p, under |-> FALSE] ELSE makeRoom(p, tx),
            LAMBDA r : IF r.under THEN failed(r.pool) ELSE addTo(r.pool, tx, local))

\* addTxsLocked: [pool, journaled, dirty], the last one the accounts with a
\* transaction that replaced none.
addTxsLocked(p, txs, local) ==
  LET step(r, tx) ==
        then(add(r.pool, tx, local), LAMBDA n :
          [pool |-> n.pool, journaled |-> r.journaled \cup n.journaled,
           dirty |-> IF n.ok /\ ~n.replace THEN r.dirty \cup {tx.from} ELSE r.dirty])
  IN then(FoldLeft(step, [pool |-> p, journaled |-> {}, dirty |-> {}], txs), LAMBDA all :
       IF all.dirty = {} THEN all
       ELSE [all EXCEPT !.pool = promoteExecutables(@, all.dirty)])

(***************************** reset **************************************)
common(c, d) ==
  CHOOSE n \in 0..Len(c) :
    /\ n <= Len(d) /\ SubSeq(c, 1, n) = SubSeq(d, 1, n)
    /\ n < Len(c) /\ n < Len(d) => c[n + 1] # d[n + 1]

\* The transactions of the blocks of c after the first n, from the newest back.
txsAfter(c, n) == FlattenSeq([i \in 1..(Len(c) - n) |-> c[Len(c) + 1 - i].txs])

\* The transactions of the abandoned blocks that the new chain lacks.
reinject(old, new) ==
  LET n == common(old, new)
      included == Range(txsAfter(new, n))
  IN IF Len(old) > Len(new) \/ (new # <<>> /\ old = Front(new)) THEN <<>>
     ELSE SelectSeq(txsAfter(old, n), LAMBDA t : t \notin included)

\* The state is that of the current head of the chain, which may be ahead of
\* the event.
pendingNonces(p) ==
  [p EXCEPT !.nonce = [a \in Accounts |->
     IF p.pending[a].txs = {} THEN @[a] ELSE Last(Flatten(p.pending[a].txs)).nonce + 1]]
reset(p, old, new, current) ==
  then(addTxsLocked([p EXCEPT !.state = StateAt(current), !.nonce = StateAt(current).nonce],
                    reinject(old, new), FALSE),
       LAMBDA r : then(pendingNonces(demoteUnexecutables(r.pool)), LAMBDA q :
         [r EXCEPT !.pool = promoteExecutables(q, {a \in Accounts : q.queue[a].txs # {}})]))

(***************************** the calls **********************************)
emptyPool(c) ==
  [pending |-> [a \in Accounts |-> newTxList], queue |-> [a \in Accounts |-> newTxList],
   all |-> {}, items |-> EmptyBag, stales |-> 0, locals |-> {}, beats |-> <<>>,
   state |-> StateAt(c), nonce |-> StateAt(c).nonce, gasPrice |-> PriceLimit, ord |-> <<>>]

localTxs(p) == {t \in pendingOf(p) \cup queuedOf(p) : t.from \in p.locals}

\* The pool at the start of a call, and what the call leaves behind.
ordered(p) == {[p EXCEPT !.ord = o] : o \in SetToSeqs(Accounts)}
becomes(p) == pool' = [p EXCEPT !.ord = <<>>]

\* AddLocal: a transaction of the user.
AddLocal(tx) ==
  \E p \in ordered(pool) : \E r \in {addTxsLocked(p, <<tx>>, TRUE)} :
    /\ becomes(r.pool)
    /\ journal' = journal \cup r.journaled
    /\ UNCHANGED <<chain, head, events, short, forks, crashes>>

\* AddRemotes hands a batch to addremote, which adds it.
AddRemotes(txs) ==
  \E p \in ordered(pool) : \E r \in {addTxsLocked(p, txs, FALSE)} :
    /\ becomes(r.pool)
    /\ journal' = journal \cup r.journaled
    /\ UNCHANGED <<chain, head, events, short, forks, crashes>>

SetGasPrice(price) ==
  \E p \in ordered(pool) : \E d \in {shed(p, -1, price, <<>>, <<>>)} :
    /\ becomes(removeAll([d.pool EXCEPT !.gasPrice = price], d.drop, FALSE))
    /\ UNCHANGED <<journal, chain, head, events, short, forks, crashes>>

\* The senders of transactions that are neither back in pool p nor mined.
missing(p, txs) == {t.from : t \in {u \in Range(txs) \ p.all : u.nonce >= p.state.nonce[u.from]}}

\* loop, a head event: note that the state is the chain's current one.
chainHead ==
  /\ events # <<>>
  /\ \E p \in ordered(pool) : \E r \in {reset(p, head, Head(events), chain)} :
       /\ becomes(r.pool)
       /\ journal' = journal \cup r.journaled
       /\ short' = short \cup missing(r.pool, reinject(head, Head(events)))
  /\ head' = Head(events)
  /\ events' = Tail(events)
  /\ UNCHANGED <<chain, forks, crashes>>

\* loop, a head event when the state of the current head cannot be read: reset
\* returns early, and the loop moves on all the same.
chainHeadWithoutState ==
  /\ events # <<>>
  /\ head' = Head(events)
  /\ events' = Tail(events)
  /\ UNCHANGED <<pool, journal, chain, short, forks, crashes>>

\* loop, the eviction tick: the heartbeats of the first k accounts are older
\* than Lifetime; an account without a heartbeat has the zero time.
evict ==
  \E p \in ordered(pool), k \in 0..Len(pool.beats) :
    LET idle == Accounts \ (Range(SubSeq(p.beats, k + 1, Len(p.beats))) \cup p.locals)
    IN /\ becomes(FoldLeft(LAMBDA q, a : removeAll(q, Flatten(q.queue[a].txs), TRUE), p, each(p, idle)))
       /\ UNCHANGED <<journal, chain, head, events, short, forks, crashes>>

\* loop, the journal tick.
rejournal ==
  /\ journal' = localTxs(pool)
  /\ UNCHANGED <<pool, chain, head, events, short, forks, crashes>>

\* The process dies between two calls; NewTxPool loads the journal as local
\* transactions and rotates it.
Restart ==
  /\ crashes < MaxCrashes
  /\ \E p \in ordered(emptyPool(chain)) :
     \E r \in {addTxsLocked(p, SetToSortSeq(journal, LAMBDA t, u : t.price < u.price), TRUE)} :
       /\ becomes(r.pool)
       /\ journal' = localTxs(r.pool)
  /\ crashes' = crashes + 1
  /\ head' = chain
  /\ events' = <<>>
  /\ short' = {}
  /\ UNCHANGED <<chain, forks>>

\* The chain gets a new head: a further block, or one in place of the last.
extends(c, b) ==
  \A i \in DOMAIN b.txs :
    /\ b.txs[i].nonce = StateAt(c).nonce[b.txs[i].from] + sentBy(SubSeq(b.txs, 1, i - 1), b.txs[i].from)
    /\ affordable(StateAt(c), b.txs[i])
newHead(c) ==
  /\ Len(events) < MaxEvents
  /\ chain' = c
  /\ events' = Append(events, c)
  /\ UNCHANGED <<pool, journal, head, short, crashes>>
InsertBlock(b) ==
  /\ Len(chain) < MaxBlocks /\ extends(chain, b)
  /\ newHead(Append(chain, b))
  /\ UNCHANGED forks
ReplaceBlock(b) ==
  /\ chain # <<>> /\ forks < MaxForks /\ b # Last(chain) /\ extends(Front(chain), b)
  /\ newHead(Append(Front(chain), b))
  /\ forks' = forks + 1

PoolInit ==
  /\ pool = emptyPool(<<>>)
  /\ journal = {} /\ chain = <<>> /\ head = <<>> /\ events = <<>>
  /\ short = {} /\ forks = 0 /\ crashes = 0

PoolNext ==
  \/ \E tx \in UserTxs : AddLocal(tx)
  \/ \E txs \in Batches : AddRemotes(txs)
  \/ \E price \in GasPrices : SetGasPrice(price)
  \/ chainHead
  \/ chainHeadWithoutState
  \/ evict
  \/ rejournal
  \/ Restart
  \/ \E b \in Blocks : InsertBlock(b)
  \/ \E b \in Blocks : ReplaceBlock(b)

PoolSpec == PoolInit /\ [][PoolNext]_poolVars

(***************************** properties *********************************)
\* The indexes of the pool agree although every list is cut, filtered and
\* demoted by loops of its own.  The lookup table holds exactly the transactions
\* of the two lists, and no account has two of one nonce (enqueueTx, promoteTx
\* and removeTx find a transaction by its nonce alone).  Every pooled
\* transaction is in the price heap, so that a full pool can drop it, and the
\* stale ones in the heap are no more than counted.
IndexesAgree ==
  /\ pool.all = pendingOf(pool) \cup queuedOf(pool)
  /\ \A t, u \in pool.all : t.from = u.from /\ t.nonce = u.nonce => t = u
  /\ pool.all \subseteq BagToSet(pool.items)
  /\ Cardinality(BagToSet(pool.items) \ pool.all) <= pool.stales

\* The pending transactions of an account can be executed one after the other:
\* their nonces run from the account's nonce in the pool's state up to the
\* virtual nonce that wallets are told to use next.  The only way to a gap is a
\* reorganisation that drops several transactions of the account of which reset
\* gets some back and not others (demoteUnexecutables looks for a gap in front
\* only), and then the first pending one can still be executed.  And no pooled
\* transaction costs its sender more than the sender has, although Filter skips
\* a list whenever its cached costcap is below the balance.
PendingIsExecutable ==
  \A a \in Accounts :
    /\ pool.pending[a].txs = {} \/ txAt(pool.pending[a], pool.state.nonce[a]) # {}
    /\ a \in short \/ {t.nonce : t \in pool.pending[a].txs} = pool.state.nonce[a]..(pool.nonce[a] - 1)
    /\ \A t \in pool.pending[a].txs \cup pool.queue[a].txs :
         (IF paidByOther(t) THEN AmountCost(t) ELSE Cost(t)) <= pool.state.balance[a]

\* A transaction of a local account only leaves the pool for a better one of
\* its nonce, or when it is mined or cannot be paid for any more in the pool's
\* state, or in a crash: no limit, price, eviction or reorganisation drops it.
LocalsAreKept ==
  [][\A t \in pool.all \ pool'.all :
       \/ t.from \notin pool.locals
       \/ t.nonce < pool'.state.nonce[t.from] \/ ~affordable(pool'.state, t) \/ crashes' # crashes
       \/ \E u \in pool'.all : u.from = t.from /\ u.nonce = t.nonce /\ u.price > t.price]_poolVars

=============================================================================
