--------------------------- MODULE MCHandoverChain ---------------------------
(***************************************************************************)
(* Three parts that a behaviour is of one of: the handover of an epoch;    *)
(* the chain under it, with five blocks of which the second and the fourth *)
(* pay for a snail block, states kept for three blocks, and up to two      *)
(* calls that wait for its lock; and the fetcher that fills the chain,     *)
(* with two decided blocks, one that is not, and a wrong announcement.     *)
(***************************************************************************)
EXTENDS MCEpochHandover, FastChain

ASSUME MCRewards == RewardsFollow

VARIABLES part, f, loop, tasks, fastHeight

MCSnail == [x \in 1 .. 5 |-> CASE x = 2 -> 1 [] x = 4 -> 2 [] OTHER -> 0]

MCNumberOf == [h \in {"one", "two", "second one"} |-> IF h = "two" THEN 2 ELSE 1]
MCClaims == {[hash |-> "one", origin |-> "p", number |-> 1],
             [hash |-> "two", origin |-> "q", number |-> 1]}

FE == INSTANCE Fetcher WITH
        Peers <- {"p", "q"}, Hashes <- DOMAIN MCNumberOf, NumberOf <- MCNumberOf,
        Decided <- {"one", "two"}, Claims <- MCClaims,
        BlockLimit <- 2, MaxQueueDist <- 2, MaxHeight <- 2, MaxTasks <- 2, height <- fastHeight

fetcherVars == <<f, loop, tasks, fastHeight>>

\* Only in the handover the committees are of any account.
MCHandoverInit ==
    /\ part \in {"handover", "chain", "fetcher"}
    /\ Init /\ FInit /\ FE!FetcherInit
    /\ part # "handover" => Range(elected) = {Genesis}

ofHandover == part = "handover" /\ Next /\ UNCHANGED <<part, fvars, fetcherVars>>
ofChain == part = "chain" /\ FNext /\ UNCHANGED <<part, vars, fetcherVars>>
ofFetcher == part = "fetcher" /\ FE!FetcherNext /\ UNCHANGED <<part, vars, fvars>>

MCHandoverNext == ofHandover \/ ofChain \/ ofFetcher

MCHandoverSpec ==
    MCHandoverInit /\ [][MCHandoverNext]_<<part, vars, fvars, fetcherVars>>

-----------------------------------------------------------------------------
(* The properties of Fetcher                                                *)

\* The maps of the fetcher agree, whatever it forgets while it fetches.
QueueIsAccounted == FE!QueueIsAccounted

\* Nothing the fetcher has taken up is left without someone to go on with it.
WorkIsScheduled == FE!WorkIsScheduled

===============================================================================
