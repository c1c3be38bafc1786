----------------------------- MODULE EpochHandover -----------------------------
(***************************************************************************)
(* How a node follows the committees of the staking contract from epoch to *)
(* epoch: the loop of PbftAgent (abey/pbft_agent.go), which reads the      *)
(* events of the fast chain behind its head, the services of Node          *)
(* (consensus/tbft/node.go), one per committee, the block a service        *)
(* proposes, and the committees Election (consensus/election/election.go)  *)
(* checks signatures with.  The network decides blocks; the node inserts   *)
(* them, crashes, loses the head of its chain, and is started again.       *)
(*                                                                         *)
(* TIP8 is in force from the genesis block, as in every configuration of   *)
(* params, so that Election sends no event.                                *)
(***************************************************************************)
EXTENDS Epochs, FiniteSets, Functions

CONSTANTS Self,                    \* the node
          Genesis,                 \* the committee of the genesis block
          Committees,              \* the sets the contract may elect
          ElectionPoint,           \* params.ElectionPoint
          MinimumCommitteeNumber,  \* params.MinimumCommitteeNumber
          MaxHeight, MaxLag, MaxRollback, MaxRestarts   \* bounds

\* The loop is less than an epoch behind: chainHeadCh holds 512 events, and an
\* epoch has 25000 blocks.
ASSUME HandoverAssumption ==
    /\ ElectionPoint \in 1..(NewEpochLength - 1)
    /\ MaxHeight \in Nat /\ MaxLag \in 0..NewEpochLength
    /\ MaxRollback \in Nat /\ MaxRestarts \in Nat

VARIABLES
    elected,    \* the committee of every epoch, by its ID
    decided,    \* the height the network has reached
    infos,      \* the switch infos of the first block of every epoch that has begun
    height,     \* fastChain.CurrentBlock
    seen,       \* the last block whose event was taken from chainHeadCh
    mode,       \* "down", "starting" (subscribed), or "loop"
    launched,   \* the last event passed, and the head, when the loop started (ghost)
    agent,      \* what the loop and Node keep
    proposal,   \* the block the running service is making
    restarts

vars == <<elected, decided, infos, height, seen, mode, launched, agent, proposal,
          restarts>>

IDs == (FirstNewEpochID - 1)..GetEpochFromHeight(MaxHeight + ElectionPoint + 1)
None == 0 - 1
NoCommittee == [id |-> None, members |-> {}]
NoWork == [id |-> None, ticking |-> FALSE]
NoProposal == [id |-> None, infos |-> {}, number |-> None]
noEntries == [x \in {} |-> None]

\* The map f with v at x
set(f, x, v) == [i \in DOMAIN f \cup {x} |-> IF i = x THEN v ELSE f[i]]

newAgent ==
    [current |-> NoCommittee, next |-> NoCommittee, isMember |-> FALSE,
     works |-> <<NoWork, NoWork>>, isCurrent |-> 2,
     services |-> noEntries, servicePre |-> None, orphans |-> {},
     endFastNumber |-> noEntries]

-------------------------------------------------------------------------------
(* The committee of an epoch, as the node finds it *)

\* The block whose state has the election of epoch eid.  (The epoch before
\* FirstNewEpochID is the genesis block alone unless DposForkPoint is positive,
\* which it is in no configuration; getElections3 has a case for its blocks.)
electionBlock(eid) ==
    IF eid <= FirstNewEpochID THEN EndHeight(FirstNewEpochID - 1)
    ELSE EndHeight(eid - 1) - ElectionPoint

\* GetValidatorsByEpoch on the state of block hh
GetValidatorsByEpoch(hh, eid) == IF hh >= electionBlock(eid) THEN elected[eid] ELSE {}

\* PbftAgent.getValidators
getValidators(eid) ==
    IF height >= BeginHeight(eid) THEN infos[eid] ELSE GetValidatorsByEpoch(height, eid)

\* Mutant of epochCache: what is read is kept, be it empty.
epochCacheAny(number) ==
    LET eid == GetEpochFromHeight(number)
        members == IF height > number THEN infos[eid] ELSE GetValidatorsByEpoch(height, eid)
    IN  {<<eid, members>>}

\* What Election.getValidators adds to its cache when it is first asked for a
\* block of the epoch now
epochCache(number) ==
    LET eid == GetEpochFromHeight(number)
        members == IF height > number THEN infos[eid] ELSE GetValidatorsByEpoch(height, eid)
    IN  {<<eid, m>> : m \in IF height <= number /\ members = {} THEN {} ELSE {members}}

committee(eid, members) == [id |-> eid, members |-> members]

-------------------------------------------------------------------------------
(* Node *)

small(members) == Cardinality(members) < MinimumCommitteeNumber

\* PutCommittee refuses a repeated ID and a small committee.
PutCommittee(a, c) ==
    IF c.id \in DOMAIN a.services \/ small(c.members) THEN a
    ELSE [a EXCEPT !.services = set(@, c.id, [members |-> c.members, state |-> "new",
                                              end |-> EndHeight(c.id)])]

running(a) == {id \in DOMAIN a.services : a.services[id].state = "running"}

\* Notify with Start: forget the service started before, and start this one
\* if it was never started.
NotifyStart(a, id) ==
    IF id \notin DOMAIN a.services THEN a
    ELSE LET old == {a.servicePre} \ {id}
         IN  [a EXCEPT !.servicePre = id,
                       !.orphans = @ \cup (old \cap running(a)),
                       !.services = [i \in DOMAIN @ \ old |->
                           IF i = id /\ @[i].state = "new"
                           THEN [@[i] EXCEPT !.state = "running"] ELSE @[i]]]

NotifyStop(a, id) ==
    IF id \in running(a) THEN [a EXCEPT !.services[id].state = "stopped"] ELSE a

SetCommitteeStop(a, id) ==
    IF id \in DOMAIN a.services THEN [a EXCEPT !.services[id].end = EndHeight(id)] ELSE a

-------------------------------------------------------------------------------
(* PbftAgent *)

isCommitteeMember(c) == Self \in c.members

\* startSend: the other work becomes the current one.
startSend(a, c) ==
    LET w == 3 - a.isCurrent
    IN  [a EXCEPT !.isCurrent = w,
                  !.works[w] = [id |-> c.id, ticking |-> isCommitteeMember(c)]]

\* stopSend stops the work that is not the current one.
stopSend(a) == [a EXCEPT !.works[3 - a.isCurrent] = NoWork]

\* "Switch to new epoch"
prepare(a, c) ==
    LET b == startSend([a EXCEPT !.next = c], c)
    IN  IF isCommitteeMember(c) THEN PutCommittee(b, c) ELSE b

\* A member of the current committee stops its service.
stopEpoch(a, eid) ==
    stopSend(IF isCommitteeMember(a.current) THEN NotifyStop(a, eid) ELSE a)

\* clearEndFastNumber(eid) after the end of eid is noted
noteEnd(a, eid) ==
    [a EXCEPT !.endFastNumber =
        [e \in (DOMAIN @ \cup {eid}) \ {eid - 2} |-> IF e = eid THEN EndHeight(eid) ELSE @[e]]]

\* "Set new bft and start committee", with the committee that was prepared;
\* committeeIds never stops it, for the IDs are compared as pointers.
startEpoch(a, eid) ==
    LET b == [a EXCEPT !.current = a.next, !.isMember = isCommitteeMember(a.next)]
        c == IF isCommitteeMember(b.current) THEN NotifyStart(b, eid) ELSE b
    IN  SetCommitteeStop(noteEnd(c, eid), eid)

\* The epoch the loop starts with, or none
launchEpoch ==
    LET e == IF height + 1 > BeginHeight(FirstNewEpochID) THEN GetEpochFromHeight(height)
             ELSE FirstNewEpochID
    IN  IF height < BeginHeight(e) /\ height # BeginHeight(FirstNewEpochID) - 1 THEN None
        ELSE IF height = EndHeight(e) THEN GetEpochFromHeight(height + 1)
        ELSE e

\* The beginning of PbftAgent.loop
launch ==
    /\ mode = "starting"
    /\ mode' = "loop"
    /\ launched' = [seen |-> seen, height |-> height]
    /\ agent' = IF launchEpoch = None THEN newAgent
                ELSE startEpoch(prepare(newAgent, committee(launchEpoch,
                                    GetValidatorsByEpoch(height, launchEpoch))), launchEpoch)
    /\ UNCHANGED <<elected, decided, infos, height, seen, proposal, restarts>>

\* Mutant of preparesNext: a block too early.
preparesNextEarly(next, eid) == next = EndHeight(eid) - ElectionPoint

\* The block before next has elected the committee after the one of eid.
preparesNext(next, eid) == next = EndHeight(eid) - ElectionPoint + 1

\* The agent after the event of block num
handled(num) ==
    LET next == num + 1
        eid == GetEpochFromHeight(next)
        following == GetEpochFromHeight(next + NewEpochLength)
        a1 == IF next = BeginHeight(FirstNewEpochID)
              THEN prepare(agent, committee(FirstNewEpochID, getValidators(FirstNewEpochID)))
              ELSE agent
        a2 == IF preparesNext(next, eid)
              THEN prepare(a1, committee(following, getValidators(following))) ELSE a1
    IN  IF next = BeginHeight(eid)
        THEN startEpoch(stopEpoch(a2, GetEpochFromHeight(num)), eid) ELSE a2

\* The event of a block in PbftAgent.loop
chainHead ==
    /\ mode = "loop"
    /\ seen < height
    /\ seen' = seen + 1
    /\ agent' = handled(seen + 1)
    /\ proposal' = IF proposal.id \in running(agent') THEN proposal ELSE NoProposal
    /\ UNCHANGED <<elected, decided, infos, height, mode, launched, restarts>>

-------------------------------------------------------------------------------
(* The service of a committee proposes a block *)

\* createProposalBlock looks at the head: the first block of the epoch names
\* the committee.
createProposalBlock ==
    /\ mode = "loop"
    /\ proposal = NoProposal
    /\ \E id \in running(agent) :
         proposal' = [id |-> id, number |-> None,
                      infos |-> IF height + 1 = BeginHeight(id)
                                THEN agent.services[id].members ELSE {}]
    /\ UNCHANGED <<elected, decided, infos, height, seen, mode, launched, agent, restarts>>

\* MakeBlock refuses a number outside of the epoch; so does ValidateBlock.
inRange(id, number) ==
    /\ agent.services[id].end > 0 => number <= agent.services[id].end
    /\ number >= BeginHeight(id)

\* Mutant of FetchFastBlock: neither of the two checks of the end is made.
FetchFastBlockUnchecked ==
    /\ proposal # NoProposal
    /\ proposal.number = None
    /\ proposal' = [proposal EXCEPT !.number = height + 1]
    /\ UNCHANGED <<elected, decided, infos, height, seen, mode, launched, agent, restarts>>

\* FetchFastBlock looks at the head again, which may have moved.
FetchFastBlock ==
    LET id == proposal.id
        exceeded == /\ id \in DOMAIN agent.endFastNumber
                    /\ agent.endFastNumber[id] <= height
    IN  /\ proposal # NoProposal
        /\ proposal.number = None
        /\ proposal' = IF exceeded \/ ~inRange(id, height + 1) THEN NoProposal
                       ELSE [proposal EXCEPT !.number = height + 1]
        /\ UNCHANGED <<elected, decided, infos, height, seen, mode, launched, agent, restarts>>

\* The block of number n is decided with switch infos.
decide(n, members) ==
    /\ decided' = n
    /\ infos' = IF n = BeginHeight(GetEpochFromHeight(n))
                THEN set(infos, GetEpochFromHeight(n), members) ELSE infos

\* BroadcastConsensus: the proposal is decided, and inserted. A proposal for a
\* height already decided is given up.
BroadcastConsensus ==
    /\ proposal.number # None
    /\ proposal' = NoProposal
    /\ IF proposal.number = decided + 1 /\ height = decided
       THEN /\ decided < MaxHeight
            /\ decided - seen < MaxLag
            /\ decide(proposal.number, proposal.infos)
            /\ height' = height + 1
       ELSE UNCHANGED <<decided, infos, height>>
    /\ UNCHANGED <<elected, seen, mode, launched, agent, restarts>>

-------------------------------------------------------------------------------
(* The network, the chain, and the process *)

\* The other members decide a block.
Network ==
    /\ decided < MaxHeight
    /\ decided - seen < MaxLag
    /\ LET eid == GetEpochFromHeight(decided + 1)
       IN  /\ elected[eid] \ {Self} # {}
           /\ decide(decided + 1, elected[eid])
    /\ UNCHANGED <<elected, height, seen, mode, launched, agent, proposal, restarts>>

\* A decided block is fetched and inserted; before the agent subscribes,
\* nobody takes its event.
InsertChain ==
    /\ height < decided
    /\ height' = height + 1
    /\ seen' = IF mode = "down" THEN height' ELSE seen
    /\ UNCHANGED <<elected, decided, infos, mode, launched, agent, proposal, restarts>>

\* NewPbftAgent subscribes to the events of the chain.
Subscribe ==
    /\ mode = "down"
    /\ mode' = "starting"
    /\ seen' = height
    /\ UNCHANGED <<elected, decided, infos, height, launched, agent, proposal, restarts>>

\* The process ends; blocks whose state was not written are lost with it.
Crash ==
    /\ mode = "loop"
    /\ restarts < MaxRestarts
    /\ restarts' = restarts + 1
    /\ mode' = "down"
    /\ \E h \in (height - MaxRollback)..height :
         /\ h >= 0
         /\ height' = h
         /\ seen' = h
         /\ decided - h <= MaxLag
    /\ agent' = newAgent
    /\ proposal' = NoProposal
    /\ UNCHANGED <<elected, decided, infos, launched>>

Init ==
    /\ elected \in [IDs -> Committees]
    /\ elected[FirstNewEpochID - 1] = Genesis
    /\ decided = 0
    /\ infos = set(noEntries, FirstNewEpochID - 1, elected[FirstNewEpochID - 1])
    /\ height = 0
    /\ seen = 0
    /\ mode = "down"
    /\ launched = [seen |-> None, height |-> None]
    /\ agent = newAgent
    /\ proposal = NoProposal
    /\ restarts = 0

Next ==
    \/ launch \/ chainHead
    \/ createProposalBlock \/ FetchFastBlock \/ BroadcastConsensus
    \/ Network \/ InsertChain
    \/ Subscribe \/ Crash

Spec == Init /\ [][Next]_vars

-------------------------------------------------------------------------------
(* Properties *)

\* The epoch of the block to come, and whether the loop has seen the head
now == GetEpochFromHeight(height + 1)
caughtUp == mode = "loop" /\ seen = height
serving == Self \in elected[now] /\ ~small(elected[now])

\* When the loop started, the event that prepares epoch eid had passed, and
\* the last block before the epoch was still to come.
lateFor(eid) ==
    /\ eid > FirstNewEpochID
    /\ launched.seen >= electionBlock(eid)
    /\ launched.height < EndHeight(eid - 1)

\* The agent and its services are those of the committee of the next block.
inService ==
    /\ running(agent) = IF serving THEN {now} ELSE {}
    /\ agent.isMember = (Self \in elected[now])
    /\ agent.current = committee(now, elected[now])
    /\ \A w \in 1..2 : agent.works[w].ticking => agent.works[w].id >= now
    /\ Self \in elected[now] =>
           \E w \in 1..2 : agent.works[w] = [id |-> now, ticking |-> TRUE]

\* However far the loop is behind the chain, a node never takes part in two
\* committees at once, keeps at most the services of two epochs, and loses
\* none that runs. Whenever it has seen the head from the first epoch on,
\* exactly the service of the committee of the next block runs if the node is
\* a member, and none if it is not; the agent takes itself for a member
\* accordingly, announces itself to the committee it serves and to none that
\* is over. The exception is the epoch after a launch in the last blocks of
\* an epoch, for which nothing was prepared.
MemberServes ==
    /\ \A i, j \in running(agent) : i = j
    /\ \E i, j \in DOMAIN agent.services \cup {None} : DOMAIN agent.services \subseteq {i, j}
    /\ agent.orphans = {}
    /\ caughtUp /\ now >= FirstNewEpochID /\ ~lateFor(now) => inService

\* The same without the exception, which is what the comments of the loop
\* promise of a new epoch.
EveryMemberServes ==
    caughtUp /\ now >= FirstNewEpochID /\ serving => now \in running(agent)

\* The first block of every epoch names its committee, whoever proposes it and
\* whatever the head did between the two looks at it: it is what later reads
\* take for the committee.
FirstBlockNamesCommittee ==
    \A eid \in DOMAIN infos : infos[eid] = elected[eid]

\* The committee signatures are checked with is the elected one, whenever and
\* for whatever height it is first asked for: the cache is never emptied.
CacheIsElected ==
    \A number \in 1..MaxHeight :
        \A entry \in epochCache(number) : entry[2] = elected[entry[1]]

===============================================================================
