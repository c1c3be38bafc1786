---------------------------- MODULE MCFastChain ----------------------------
(***************************************************************************)
(* The fast chain alone: blocks 2 and 4 pay for the two snail blocks.      *)
(***************************************************************************)
EXTENDS FastChain

MCSnail == [x \in 1 .. MaxBlock |-> CASE x = 2 -> 1 [] x = 4 -> 2 [] OTHER -> 0]

MCChainSpec == FInit /\ [][FNext]_fvars
=============================================================================
