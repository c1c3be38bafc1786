------------------------------- MODULE Staking --------------------------------
(***************************************************************************)
(* The staking contract: core/vm/staking.go, the ledger of stakes behind   *)
(* it (core/vm/impawn.go) and the end of a block that pays rewards, elects *)
(* and shifts to the next epoch (Finalize, consensus/minerva/consensus.go) *)
(*                                                                         *)
(* accounts[e] is the ledger of epoch e: per staking account its key, its  *)
(* fee, what setFee and setPubkey change at the next epoch, whether it was *)
(* elected, and one unit per owner of a stake in it: its own, and one per  *)
(* delegation.  A unit holds amounts by the height they were staked at and *)
(* amounts cancelled by epoch.  A call that fails is reverted and changes  *)
(* nothing.  The slices of the ledger are kept in no order: an order is    *)
(* read only after sorting by stake, and where stakes are equal any may be *)
(* first.  Every stake is made with StateStakingAuto.                      *)
(***************************************************************************)
EXTENDS Epochs, FiniteSets, FiniteSetsExt, Functions, TLC

CONSTANTS Addresses,
          Genesis,           \* the committee of the genesis block
          Keys,              \* vote public keys
          KeyOf,             \* the keys of the genesis committee
          Fees,              \* the fees used, of Base
          Base,
          Unset,             \* no change of fee or key is pending
          Funds,             \* balances at genesis
          Amounts,           \* the amounts used in calls
          GenesisStake, GenesisFee,
          ElectionMinLimitForStaking,
          CountInEpoch,
          ElectionPoint,
          TIP9,              \* height from which epochs, not snail blocks, are rewarded
          Coin,              \* reward of the committee
          Fruits,            \* fruits, of one fast block each, in a snail block
          MaxHeight,         \* bound: the last block
          MaxStakes,         \* bound: calls that add or change a stake
          MaxRedeems         \* bound: calls that cancel or withdraw

VARIABLES accounts, curEpochID, lastReward,   \* ImpawnImpl
          height,                             \* the block being made
          balance, locked,                    \* StateDB: balance and POSLocked
          history,                            \* ghost: per unit, what was cancelled and withdrawn
          elected,                            \* ghost: per epoch, who was elected for it
          stakes, redeems                     \* calls so far

vars == <<accounts, curEpochID, lastReward, height, balance, locked, history, elected, stakes, redeems>>

-------------------------------------------------------------------------------
(* Units *)

Sum(f, S) == FoldFunctionOnSet(LAMBDA x, y : x + y, 0, f, S)

newUnit(hh, amount) == [value |-> hh :> amount, redeem |-> <<>>]

\* addAmount, and update with the unit of a call: one amount per height
addAmount(u, hh, amount) ==
    [u EXCEPT !.value =
        (hh :> amount + IF hh \in DOMAIN u.value THEN u.value[hh] ELSE 0) @@ u.value]

redeemIn(u, eid) == IF eid \in DOMAIN u.redeem THEN u.redeem[eid] ELSE 0

getAllStaking(u, hh) == Sum(u.value, {h \in DOMAIN u.value : h <= hh})

getValidStaking(u, hh) ==
    LET left == getAllStaking(u, hh) - redeemIn(u, GetEpochFromHeight(hh))
    IN  IF left >= 0 THEN left ELSE 0

getValidRedeem(u, hh) == Sum(u.redeem, {e \in DOMAIN u.redeem : IsUnlocked(e, hh)})

stopStakingInfo(u, hh, amount) ==
    LET e == GetEpochFromHeight(hh)
    IN  [u EXCEPT !.redeem = (e :> amount + redeemIn(u, e)) @@ u.redeem]

\* Mutant of finishRedeemed: the last item goes with the first.
finishRedeemedAll(redeem) ==
    IF \E z \in DOMAIN redeem : redeem[z] = 0 THEN <<>> ELSE redeem

\* Items up to the last one that is used up are dropped.
finishRedeemed(redeem) ==
    Restrict(redeem, {e \in DOMAIN redeem :
                         \A z \in DOMAIN redeem : redeem[z] = 0 => e > z})

\* redeeming takes the amount from the items that are free, the oldest first.
redeeming(u, hh, amount) ==
    LET before(e) == Sum(u.redeem, {d \in DOMAIN u.redeem : d < e /\ IsUnlocked(d, hh)})
        taken(e)  == IF ~IsUnlocked(e, hh) \/ before(e) >= amount THEN 0
                     ELSE Min({u.redeem[e], amount - before(e)})
    IN  [u EXCEPT !.redeem =
            finishRedeemed([e \in DOMAIN u.redeem |-> u.redeem[e] - taken(e)])]

\* Mutant of merge: what was cancelled in the epoch stays staked.
mergeAll(u, eid, hh) ==
    [u EXCEPT !.value = hh :> getAllStaking(u, hh)]

\* One amount at the first height of the next epoch, without what was
\* cancelled in the last one; merge panics when that is negative.
merge(u, eid, hh) ==
    [u EXCEPT !.value = hh :> Sum(u.value, DOMAIN u.value) - redeemIn(u, eid)]

isValid(u) ==
    \/ \E h \in DOMAIN u.value : u.value[h] > 0
    \/ \E e \in DOMAIN u.redeem : u.redeem[e] > 0

-------------------------------------------------------------------------------
(* Staking accounts *)

newAccount(a, hh, pk, fee, amount) ==
    [units |-> a :> newUnit(hh, amount), pk |-> pk, fee |-> fee,
     nextFee |-> Unset, nextPk |-> Unset, committee |-> FALSE]

allOf(sa, hh) ==
    Sum([o \in DOMAIN sa.units |-> getAllStaking(sa.units[o], hh)], DOMAIN sa.units)

validOf(sa, hh) ==
    Sum([o \in DOMAIN sa.units |-> getValidStaking(sa.units[o], hh)], DOMAIN sa.units)

getMaxHeight(a, sa) == Max(DOMAIN sa.units[a].value)

changeAlterableInfo(sa) ==
    [sa EXCEPT !.fee = IF sa.nextFee = Unset THEN @ ELSE sa.nextFee,
               !.pk  = IF sa.nextPk = Unset THEN @ ELSE sa.nextPk,
               !.nextFee = Unset, !.nextPk = Unset]

\* StakingAccount.merge: delegations of which nothing is left go.
mergeAccount(a, sa, eid, hh) ==
    LET merged == [o \in DOMAIN sa.units |-> merge(sa.units[o], eid, hh)]
    IN  [sa EXCEPT !.units =
            Restrict(merged, {o \in DOMAIN merged : o = a \/ isValid(merged[o])})]

\* The accounts of the next epoch: those that hold anything, merged, with the
\* pending changes of fee and key.
move(accs, prev, hh) ==
    LET merged == [a \in DOMAIN accs |-> mergeAccount(a, accs[a], prev, hh)]
        kept   == {a \in DOMAIN accs :
                      \E o \in DOMAIN merged[a].units : isValid(merged[a].units[o])}
    IN  [a \in kept |-> [changeAlterableInfo(merged[a]) EXCEPT !.committee = FALSE]]

-------------------------------------------------------------------------------
(* Calls of the contract: RunStaking, one action per method *)

epoch == GetEpochFromHeight(height)
GetUnlockedBalance(a) == balance[a] - locked[a]
staked(a) == epoch \in DOMAIN accounts /\ a \in DOMAIN accounts[epoch]
owns(a, sa) == staked(sa) /\ a \in DOMAIN accounts[epoch][sa].units

staking ==
    /\ stakes < MaxStakes
    /\ stakes' = stakes + 1
    /\ UNCHANGED <<history, elected, redeems>>

\* The ghost adds to what the unit has cancelled or withdrawn.
redemption(sa, a, cancelled, withdrawn) ==
    /\ redeems < MaxRedeems
    /\ redeems' = redeems + 1
    /\ UNCHANGED <<elected, stakes>>
    /\ history' = [history EXCEPT ![<<sa, a>>].cancelled[epoch] = @ + cancelled,
                                  ![<<sa, a>>].withdrawn = @ + withdrawn]

repeatPK(a, pk) ==
    \E e \in DOMAIN accounts : \E b \in DOMAIN accounts[e] \ {a} : accounts[e][b].pk = pk

setUnit(sa, o, u) ==
    accounts' = [accounts EXCEPT ![epoch][sa].units = (o :> u) @@ @]

addLockedBalance(a, amount) == locked' = [locked EXCEPT ![a] = @ + amount]

\* deposit of an account that exists adds to its stake and ignores key and fee.
deposit(a, pk, fee, amount) ==
    /\ GetUnlockedBalance(a) >= amount
    /\ ~repeatPK(a, pk)
    /\ epoch <= curEpochID
    /\ IF staked(a) THEN setUnit(a, a, addAmount(accounts[epoch][a].units[a], height, amount))
       ELSE accounts' = [accounts EXCEPT
                            ![epoch] = (a :> newAccount(a, height, pk, fee, amount)) @@ @]
    /\ addLockedBalance(a, amount)
    /\ staking
    /\ UNCHANGED <<curEpochID, lastReward, height, balance>>

depositAppend(a, amount) ==
    /\ GetUnlockedBalance(a) >= amount
    /\ epoch <= curEpochID /\ staked(a)
    /\ setUnit(a, a, addAmount(accounts[epoch][a].units[a], height, amount))
    /\ addLockedBalance(a, amount)
    /\ staking
    /\ UNCHANGED <<curEpochID, lastReward, height, balance>>

\* Mutant of setFeeRate: the fee changes at once.
setFeeRateAtOnce(a, fee) ==
    /\ epoch <= curEpochID /\ staked(a)
    /\ accounts' = [accounts EXCEPT ![epoch][a].fee = fee]
    /\ staking
    /\ UNCHANGED <<curEpochID, lastReward, height, balance, locked>>

\* updateFee and updatePk do nothing at the height of the last stake.
setFeeRate(a, fee) ==
    /\ epoch <= curEpochID /\ staked(a)
    /\ accounts' = [accounts EXCEPT ![epoch][a].nextFee =
                        IF height > getMaxHeight(a, accounts[epoch][a]) THEN fee ELSE @]
    /\ staking
    /\ UNCHANGED <<curEpochID, lastReward, height, balance, locked>>

setPubkey(a, pk) ==
    /\ ~repeatPK(a, pk)
    /\ epoch <= curEpochID /\ staked(a)
    /\ accounts' = [accounts EXCEPT ![epoch][a].nextPk =
                        IF height > getMaxHeight(a, accounts[epoch][a]) THEN pk ELSE @]
    /\ staking
    /\ UNCHANGED <<curEpochID, lastReward, height, balance, locked>>

delegate(a, sa, amount) ==
    /\ GetUnlockedBalance(a) >= amount
    /\ a # sa
    /\ epoch <= curEpochID /\ staked(sa)
    /\ setUnit(sa, a, IF owns(a, sa) THEN addAmount(accounts[epoch][sa].units[a], height, amount)
                      ELSE newUnit(height, amount))
    /\ addLockedBalance(a, amount)
    /\ staking
    /\ UNCHANGED <<curEpochID, lastReward, height, balance>>

\* cancel (a = sa) and undelegate
cancel(a, sa, amount) ==
    /\ epoch = curEpochID /\ owns(a, sa)
    /\ getValidStaking(accounts[epoch][sa].units[a], height) >= amount
    /\ setUnit(sa, a, stopStakingInfo(accounts[epoch][sa].units[a], height, amount))
    /\ redemption(sa, a, amount, 0)
    /\ UNCHANGED <<curEpochID, lastReward, height, balance, locked>>

\* withdraw (a = sa) and withdrawDelegate
withdraw(a, sa, amount) ==
    /\ locked[a] >= amount
    /\ epoch = curEpochID /\ owns(a, sa)
    /\ amount <= getValidRedeem(accounts[epoch][sa].units[a], height)
    /\ setUnit(sa, a, redeeming(accounts[epoch][sa].units[a], height, amount))
    /\ locked' = [locked EXCEPT ![a] = @ - amount]
    /\ redemption(sa, a, 0, amount)
    /\ UNCHANGED <<curEpochID, lastReward, height, balance>>

-------------------------------------------------------------------------------
(* Rewards *)

getElections2(eid) ==
    IF eid \in DOMAIN accounts THEN {a \in DOMAIN accounts[eid] : accounts[eid][a].committee}
    ELSE {}

\* The committee of an epoch was elected in the epoch before.
getElections3(eid) == getElections2(IF eid >= FirstNewEpochID THEN eid - 1 ELSE eid)

\* fetchAccountsInEpoch of the elected accounts
rewarded(eid) ==
    IF eid \in DOMAIN accounts THEN getElections3(eid) \cap DOMAIN accounts[eid] ELSE {}

\* calcRewardInSa: what the owners of stake in sa get of the account's share
calcRewardInSa(a, sa, hh, share) ==
    LET rest  == share - (share * sa.fee) \div Base
        stake == allOf(sa, hh)
        part  == [o \in DOMAIN sa.units \ {a} |->
                     (rest * getAllStaking(sa.units[o], hh)) \div stake]
    IN  (a :> share - Sum(part, DOMAIN part)) @@ part

\* calcReward: shares by stake; the last of the accounts, sorted by stake, gets
\* what is left, and an account without stake is passed over.  The possible
\* results, none when calcReward returns an error.
calcReward(eid, hh, amount) ==
    LET accs   == accounts[eid]
        stake  == [a \in rewarded(eid) |-> allOf(accs[a], hh)]
        total  == Sum(stake, DOMAIN stake)
        paid   == {a \in DOMAIN stake : stake[a] > 0}
        quo(a) == (stake[a] * amount) \div total
        share(a, last) ==
            IF a # last THEN quo(a)
            ELSE amount - Sum([b \in paid \ {last} |-> quo(b)], paid \ {last})
        lasts  == {a \in DOMAIN stake : \A b \in DOMAIN stake : stake[a] <= stake[b]}
    IN  {[a \in paid |-> calcRewardInSa(a, accs[a], hh, share(a, last))] : last \in lasts}

\* What an address gets of the accounts' items
itemsOf(items, a) ==
    Sum([sa \in DOMAIN items |-> IF a \in DOMAIN items[sa] THEN items[sa][a] ELSE 0],
        DOMAIN items)

\* reward: a range over two epochs is rewarded in both, by its heights.
reward(begin, end) ==
    LET ids   == GetEpochFromRange(begin, end)
        e     == Min(ids)
        first == (Coin * (EndHeight(e) - begin + 1)) \div (end - begin + 1)
    IN  IF Cardinality(ids) = 1
        THEN {[a \in Addresses |-> itemsOf(i, a)] : i \in calcReward(e, end, Coin)}
        ELSE {[a \in Addresses |-> itemsOf(i[1], a) + itemsOf(i[2], a)] :
                 i \in calcReward(e, EndHeight(e), first)
                          \X calcReward(e + 1, end, Coin - first)}

\* The ranges that may be rewarded at the end of this block: before TIP9 the
\* fruits of the next snail block, once it is made; then the epoch.
due ==
    IF height >= TIP9
    THEN IF height = EndHeight(epoch) THEN {<<BeginHeight(epoch), height>>} ELSE {}
    ELSE IF lastReward + Fruits < height THEN {<<lastReward + 1, lastReward + Fruits>>} ELSE {}

rewardError(r) ==
    \/ Cardinality(GetEpochFromRange(r[1], r[2])) \notin 1..2
    \/ \E e \in GetEpochFromRange(r[1], r[2]) : rewarded(e) = {}

\* accumulateRewardsFast2 and accumulateRewardsFast3 of the committee's part.  A
\* block rewards nothing when it has no snail block, and from TIP9 on when the
\* snail chain of the node is not there yet.
accumulateRewards ==
    \/ UNCHANGED <<lastReward, balance>>
    \/ \E r \in due :
        /\ ~rewardError(r)
        /\ lastReward' = r[2]
        /\ \E pay \in reward(r[1], r[2]) :
            balance' = [a \in Addresses |-> balance[a] + pay[a]]

-------------------------------------------------------------------------------
(* The end of a block *)

\* The sets DoElections may elect: of the accounts with enough stake of their
\* own, those with the most stake with their delegations.
DoElections(accs, hh) ==
    LET able == {a \in DOMAIN accs :
                    getValidStaking(accs[a].units[a], hh) >= ElectionMinLimitForStaking}
    IN  {S \in SUBSET able :
            /\ Cardinality(S) = Min({CountInEpoch, Cardinality(able)})
            /\ \A a \in S, b \in able \ S : validOf(accs[a], hh) >= validOf(accs[b], hh)}

\* Mutant of forgotten: the epoch of the last reward is the first one kept.
forgottenEarly(last) ==
    {e \in DOMAIN accounts : GetEpochFromHeight(last) > 1 /\ e < GetEpochFromHeight(last)}

\* Shift deletes epochs well before the one of the last reward.
forgotten(last) ==
    {e \in DOMAIN accounts : GetEpochFromHeight(last) > 1 /\ e < GetEpochFromHeight(last) - 1}

Shift(last, eid) ==
    /\ eid = curEpochID + 1
    /\ curEpochID' = eid
    /\ accounts' = [e \in (DOMAIN accounts \ forgotten(last)) \cup {eid} |->
                        IF e = eid THEN move(accounts[eid - 1], eid - 1, BeginHeight(eid))
                        ELSE accounts[e]]

\* finalizeValidators
finalizeValidators ==
    \/ /\ height = EndHeight(epoch) - ElectionPoint
       /\ \E S \in DoElections(accounts[epoch], height) :
            /\ accounts' = [accounts EXCEPT ![epoch] =
                   [a \in DOMAIN @ |-> [@[a] EXCEPT !.committee = @ \/ a \in S]]]
            /\ elected' = (epoch + 1 :> S) @@ elected
       /\ UNCHANGED curEpochID
    \/ /\ height = EndHeight(epoch)
       /\ Shift(lastReward', epoch + 1)
       /\ UNCHANGED elected
    \/ /\ height \notin {EndHeight(epoch) - ElectionPoint, EndHeight(epoch)}
       /\ UNCHANGED <<accounts, curEpochID, elected>>

\* An error of the reward fails the block.
Finalize ==
    /\ height < MaxHeight
    /\ accumulateRewards
    /\ finalizeValidators
    /\ height' = height + 1
    /\ UNCHANGED <<locked, history, stakes, redeems>>

-------------------------------------------------------------------------------
\* ToFastBlock: the genesis committee is staked in the epoch before the first,
\* elected and shifted.
Init ==
    LET accs == [a \in Genesis |->
                    [newAccount(a, 0, KeyOf[a], GenesisFee, GenesisStake) EXCEPT !.committee = TRUE]]
    IN  /\ accounts = (0 :> accs) @@ (1 :> move(accs, 0, BeginHeight(1)))
        /\ curEpochID = 1
        /\ lastReward = 0
        /\ height = 1
        /\ locked = [a \in Addresses |-> IF a \in Genesis THEN GenesisStake ELSE 0]
        /\ balance = [a \in Addresses |-> Funds[a] + locked[a]]
        /\ history = [x \in Addresses \X Addresses |->
                         [withdrawn |-> 0,
                          cancelled |-> [e \in 0..GetEpochFromHeight(MaxHeight) |-> 0]]]
        /\ elected = 1 :> Genesis
        /\ stakes = 0
        /\ redeems = 0

Next ==
    \/ Finalize
    \/ \E a \in Addresses, sa \in Addresses, amount \in Amounts :
        \/ delegate(a, sa, amount)
        \/ cancel(a, sa, amount)
        \/ withdraw(a, sa, amount)
    \/ \E a \in Addresses, pk \in Keys, fee \in Fees, amount \in Amounts :
        deposit(a, pk, fee, amount)
    \/ \E a \in Addresses, amount \in Amounts : depositAppend(a, amount)
    \/ \E a \in Addresses, fee \in Fees : setFeeRate(a, fee)
    \/ \E a \in Addresses, pk \in Keys : setPubkey(a, pk)

Spec == Init /\ [][Next]_vars

-------------------------------------------------------------------------------
(* Properties *)

\* What getDeposit and getDelegate report of a unit: staked, and locked or
\* free to withdraw
reported(u) ==
    getValidStaking(u, EndHeight(curEpochID)) + Sum(u.redeem, DOMAIN u.redeem)

\* The stakes, the cancelled stakes and the stakes free to withdraw that the
\* ledger shows for an address add up to what StateDB keeps locked for it, and
\* no unit has cancelled more in an epoch than it holds (on which merge would
\* panic): no call and no change of epoch makes stake appear or vanish.
StakeIsAccounted ==
    /\ \A a \in Addresses :
        LET of == {sa \in DOMAIN accounts[curEpochID] : a \in DOMAIN accounts[curEpochID][sa].units}
        IN  locked[a] = Sum([sa \in of |-> reported(accounts[curEpochID][sa].units[a])], of)
    /\ \A sa \in DOMAIN accounts[curEpochID] :
        \A u \in Range(accounts[curEpochID][sa].units) :
            redeemIn(u, curEpochID) <= Sum(u.value, DOMAIN u.value)

\* An owner can withdraw exactly what it cancelled in epochs that are unlocked
\* and has not withdrawn yet, at any height, however often it cancelled.
RedeemableIsExact ==
    \A sa, a \in Addresses :
        LET h == history[<<sa, a>>]
            unlocked == {e \in DOMAIN h.cancelled : IsUnlocked(e, height)}
        IN  Sum(h.cancelled, unlocked) - h.withdrawn =
                IF owns(a, sa) THEN getValidRedeem(accounts[epoch][sa].units[a], height) ELSE 0

\* The reward of a committee that was elected is never refused, so that it
\* fails no block: Shift keeps the epochs a late reward needs, and who was
\* elected still has an account when its epoch is rewarded.  It is paid out
\* whole, unless an elected account has no stake left; never more than it, and
\* nobody is charged.
RewardIsPaid ==
    \A r \in due :
        /\ (\A e \in GetEpochFromRange(r[1], r[2]) : elected[e] # {}) => ~rewardError(r)
        /\ ~rewardError(r) => \A pay \in reward(r[1], r[2]) :
            /\ \A a \in Addresses : pay[a] >= 0
            /\ Sum(pay, Addresses) <= Coin
            /\ Sum(pay, Addresses) < Coin =>
                   \E e \in GetEpochFromRange(r[1], r[2]) : \E a \in rewarded(e) :
                       allOf(accounts[e][a], Min({r[2], EndHeight(e)})) = 0

\* The committee of an epoch that has begun, with its keys, and the fees its
\* rewards are split by are settled: no call changes them.
CommitteeIsSettled ==
    [][\A e \in DOMAIN accounts \cap DOMAIN accounts' :
          /\ e < curEpochID => getElections2(e)' = getElections2(e)
          /\ \A a \in DOMAIN accounts[e] :
                /\ accounts'[e][a].fee = accounts[e][a].fee
                /\ accounts'[e][a].pk = accounts[e][a].pk]_vars

===============================================================================
