--------------------------- MODULE MCConsensusRound ---------------------------
(***************************************************************************)
(* Two worlds for one node, of which a behaviour has one: two rounds with  *)
(* blocks that arrive from elsewhere, and one round with a restart or a    *)
(* change of the committee, blocks that fail and blocks that are missing.  *)
(***************************************************************************)
EXTENDS MCConsensusState

VARIABLE world

Restarts == INSTANCE ConsensusState WITH
              Verdicts <- {"agree", "none", "missing"}, Outcomes <- {"inserted", "failed"},
              MaxRound <- 0, MaxImports <- 0, MaxResets <- 1

inRounds == world = "rounds" /\ Next /\ UNCHANGED world
inRestarts == world = "restarts" /\ Restarts!Next /\ UNCHANGED world

MCRoundNext == inRounds \/ inRestarts

MCRoundInit == world \in {"rounds", "restarts"} /\ Init

MCRoundSpec == MCRoundInit /\ [][MCRoundNext]_<<world, vars>>

===============================================================================
