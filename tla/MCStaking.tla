------------------------------ MODULE MCStaking -------------------------------
(***************************************************************************)
(* Two genesis members and an address that may stake or delegate, over     *)
(* epochs of two blocks, the first of which is the election's; the rule of *)
(* rewards changes with TIP9 on the way.                                   *)
(***************************************************************************)
EXTENDS Staking

CONSTANTS v1, v2, d, k

\* A genesis member's key is named by its address.
MCAddresses == {v1, v2, d}
MCGenesis == {v1, v2}
MCKeys == {v1, v2, k}
MCKeyOf == [v \in MCGenesis |-> v]
MCFunds == [a \in MCAddresses |-> IF a = d THEN 2 ELSE 0]
MCSymmetry == Permutations(MCGenesis)

===============================================================================
