---------------------------- MODULE MCComponents ----------------------------
(***************************************************************************)
(* The parts of a node that are checked on their own, one next to the      *)
(* other: the signer, the vote sets of a height, the rotation of           *)
(* proposers, and the transaction pool.  `part' says which of them a       *)
(* behaviour is of; the others stay in their initial state.                *)
(*                                                                         *)
(*  - signer: two heights, two rounds, two values.                         *)
(*  - height vote set: two validators, both needed for a quorum, and two   *)
(*    origins, the node itself and a peer; four rounds, so that each can   *)
(*    use up its two.                                                      *)
(*  - rotation: three validators of power 1, as MakeValidators makes them, *)
(*    and two observed members; MaxInt is that of a signed byte.           *)
(*  - pool: two accounts; the transactions of alice have three nonces, one *)
(*    of them twice with a price that just bumps the other's, and two of   *)
(*    the transactions of bob are paid by alice.                           *)
(***************************************************************************)
EXTENDS PrivValidator, TxPool, TLC

CONSTANTS x1, x2,             \* values of the signer
          w1, w2, q1,         \* validators and a peer of the vote sets of a height
          u1, u2, u3,         \* validators of the rotation
          alice, bob,         \* accounts of the pool
          A, NoId, Own, Nobody,
          MaxReleased         \* bound: signatures of the signer between two resets

VARIABLES hvs, members, decided, part

equalPowers(V) == [S \in SUBSET V |-> Cardinality(S)]

HVSValidators == {w1, w2}
HVSPowerOf == equalPowers(HVSValidators)

HVS == INSTANCE HeightVoteSet WITH
         Validators <- HVSValidators, PowerOf <- HVSPowerOf, Peers <- {q1}, Ids <- {A},
         LastRound <- 3, MaxVotes <- 2, MaxClaims <- 1

VALValidators == {u1, u2, u3}
VALPowerOf == equalPowers(VALValidators)
VALAddr == [v \in VALValidators |-> IF v = u1 THEN 3 ELSE IF v = u2 THEN 1 ELSE 2]

VAL == INSTANCE ValidatorSet WITH
         Validators <- VALValidators, PowerOf <- VALPowerOf, Addr <- VALAddr,
         Nodes <- {u1, u2}, MaxInt <- 127, MaxRound <- 5, MaxHeight <- 3,
         node <- members, chain <- decided

tx(f, n, p, v, y) == [from |-> f, nonce |-> n, price |-> p, amount |-> v, payer |-> y]

MCAccounts == {alice, bob}
a0 == tx(alice, 0, 11, 0, alice)
a1 == tx(alice, 1, 10, 0, alice)
a1better == tx(alice, 1, 11, 0, alice)
b1 == tx(bob, 1, 12, 5, alice)
b2 == tx(bob, 2, 10, 12, alice)
MCTxs == {a0, a1, a1better, tx(alice, 2, 11, 5, alice), tx(bob, 0, 10, 0, bob), b1, b2}
MCUserTxs == {a1better, b1, b2}
MCBatches == {<<t>> : t \in MCTxs \ MCUserTxs}
emptyBlock == [txs |-> <<>>, poor |-> {}]
MCBlocks == {[txs |-> <<a0, a1>>, poor |-> {}], [txs |-> <<>>, poor |-> {alice}], emptyBlock}

MCInit ==
    /\ Init /\ HVS!Init /\ PoolInit
    /\ \/ part \in {"signer", "height vote set", "pool", "remote pool"} /\ members = <<>> /\ decided = <<>>
       \/ part = "rotation" /\ VAL!Init

rotationVars == <<members, decided>>

ofSigner == /\ part = "signer" /\ Next /\ Cardinality(released') =< MaxReleased
            /\ UNCHANGED <<part, hvs, rotationVars, poolVars>>

ofHeight == part = "height vote set" /\ HVS!Next /\ UNCHANGED <<part, vars, rotationVars, poolVars>>

ofRotation == part = "rotation" /\ VAL!Next /\ UNCHANGED <<part, vars, hvs, poolVars>>

\* The pool with a user, and without one on a chain that may also lose its
\* transactions while the accounts keep their balances.
ofPool == /\ part = "pool" /\ PoolNext /\ emptyBlock \notin Range(chain')
          /\ UNCHANGED <<part, vars, hvs, rotationVars>>

ofRemotePool == /\ part = "remote pool" /\ PoolNext /\ journal' = {} /\ crashes' = 0
                /\ UNCHANGED <<part, vars, hvs, rotationVars>>

MCNext == ofSigner \/ ofHeight \/ ofRotation \/ ofPool \/ ofRemotePool

MCSpec == MCInit /\ [][MCNext]_<<vars, hvs, rotationVars, poolVars, part>>

MCSymmetry == Permutations(HVSValidators)

-----------------------------------------------------------------------------
(* The properties of HeightVoteSet and ValidatorSet; those of PrivValidator *)
(* and TxPool are checked as they are.                                      *)

\* No origin brings in more than two rounds, and no round is missing.
CatchUpIsBounded == part = "height vote set" => HVS!CatchUpIsBounded

\* A counted voter stays counted and the last polka round never goes back.
VotesAreKept == HVS!VotesAreKept

\* The members agree on the proposer of a round they are both in.
ProposerIsAgreed == part = "rotation" => VAL!ProposerIsAgreed

\* Every validator gets its share of the turns.
TurnsAreFair == part = "rotation" => VAL!TurnsAreFair

===============================================================================
