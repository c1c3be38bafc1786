--------------------------- MODULE MCTBFTAgreement ---------------------------
(***************************************************************************)
(* A committee of four with equal power, one of which may vote at will, in *)
(* two parts that a behaviour is of one of.                                *)
(*                                                                         *)
(*  - voting: an instance of TBFTAgreement.  It starts in a state Spec     *)
(*    reaches: every vote of the faulty validator but its prevote for B in *)
(*    round 0 is on record (more votes of others only enable more steps of *)
(*    a correct validator, so this is the hardest case), and round 0 has a *)
(*    polka for A that one correct validator has seen and locked on.       *)
(*    Rounds 1 and 2 are what can become of that lock.                     *)
(*  - counting: a vote set that gets any votes for two block ids, and the  *)
(*    claims of two peers.                                                 *)
(***************************************************************************)
EXTENDS TBFTAgreement, VoteSetProperties, FiniteSetsExt, TLC

CONSTANTS c1, c2, c3, f1, A, B, p1, p2

VARIABLE part

VS == INSTANCE VoteSet

MCPower == [v \in Validators |-> 1]

MCPowerOf == [S \in SUBSET Validators |-> MapThenSumSet(LAMBDA v : MCPower[v], S)]

MCSymmetry == Permutations(Correct \ {c1}) \cup Permutations(Peers)

MCInit ==
    /\ part \in {"voting", "counting"}
    /\ prevotes = ((Validators \ Correct) \X Rounds \X Values \cup {<<v, 0, A>> : v \in Correct})
                      \ {<<f1, 0, B>>}
    /\ precommits = (Validators \ Correct) \X Rounds \X Blocks \cup {<<c1, 0, A>>}
    /\ decided = [v \in Correct |-> Nil]
    /\ VS!Init

ofVoting == part = "voting" /\ Next /\ UNCHANGED <<part, vs>>

ofCounting == part = "counting" /\ VS!Next /\ UNCHANGED <<part, vars>>

MCSpec == MCInit /\ [][ofVoting \/ ofCounting]_<<part, vars, vs>>

===============================================================================
