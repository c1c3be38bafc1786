--------------------------- MODULE MCConsensusAgent ---------------------------
(***************************************************************************)
(* What must happen in the end, in two parts that a behaviour is of one    *)
(* of: the node as ConsensusState has it, with an ideal ticker, and the    *)
(* ticker itself with its goroutines and its real buffer size.             *)
(***************************************************************************)
EXTENDS MCConsensusState

VARIABLES part, pos, waits, ticks, ti, active, sending, inC, tocks

TT == INSTANCE TimeoutTicker WITH
        BufferSize <- 10, MaxWait <- 2, LastPoint <- 6

tickerVars == <<pos, waits, ticks, ti, active, sending, inC, tocks>>

MCAgentVars == <<part, vars, tickerVars>>

ofNode(action) == part = "node" /\ action /\ UNCHANGED <<part, tickerVars>>
ofTicker(action) == part = "ticker" /\ action /\ UNCHANGED <<part, vars>>

MCAgentNext == ofNode(Next) \/ ofTicker(TT!Next)

MCAgentInit == part \in {"node", "ticker"} /\ Init /\ TT!Init

MCAgentSpec ==
    /\ MCAgentInit /\ [][MCAgentNext]_MCAgentVars
    /\ WF_MCAgentVars(ofNode(Timeout)) /\ WF_MCAgentVars(ofNode(SyncTask))
    /\ WF_MCAgentVars(ofTicker(TT!Serve))

\* A timeout that is acted on is one of the step the consensus routine is in:
\* a late, early or repeated tock never ends a later step.
TimeoutEndsItsOwnStep == TT!TimeoutEndsItsOwnStep

\* Every step ends, without any message, as long as the channel has room: the
\* consensus routine relies on it whenever too few votes arrive.
StepsEnd == part = "ticker" => TT!StepsEnd

\* No step of the node that ends with a timeout lasts for ever.
NodeWaitsEnd == part = "node" => WaitsEnd

\* A node whose chain has moved on without it gets to the next height.
NodeCatchesUp == part = "node" => CatchesUp

===============================================================================
