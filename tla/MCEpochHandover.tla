---------------------------- MODULE MCEpochHandover ----------------------------
(***************************************************************************)
(* Epochs of four blocks from the first block on, elections two blocks     *)
(* before the end. A committee has the node or not, and is large           *)
(* enough or not.                                                          *)
(***************************************************************************)
EXTENDS EpochHandover

CONSTANTS own, other

MCGenesis == {other}
MCCommittees == {{own, other}, {own}, {other}}

===============================================================================
