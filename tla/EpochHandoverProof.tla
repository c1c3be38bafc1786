-------------------------- MODULE EpochHandoverProof --------------------------
(***************************************************************************)
(* The handover of a committee for every length of an epoch, every         *)
(* sequence of committees, every lag of the loop behind the chain that is  *)
(* shorter than an epoch, and any number of restarts: the node serves the  *)
(* committees it is a member of, and no others; the first block of an      *)
(* epoch names its committee.                                              *)
(*                                                                         *)
(* First the epochs, then what the operations of PbftAgent and Node do to  *)
(* an agent and how the events of the chain take it from epoch to epoch    *)
(* (it waits for the first one, replays the events before the epoch it was *)
(* launched in, or follows the epochs), then the steps.                    *)
(***************************************************************************)
EXTENDS EpochHandover, TLAPS

-------------------------------------------------------------------------------
(* The epochs partition the heights, for every fork point and every length *)
(* of an epoch.                                                            *)

\* Division by the length of an epoch, the only thing needed of it
LEMMA Division ==
    ASSUME NEW n \in Nat
    PROVE  /\ n \div NewEpochLength \in Nat
           /\ n % NewEpochLength \in 0..NewEpochLength - 1
           /\ n = ((n \div NewEpochLength) * NewEpochLength) + (n % NewEpochLength)
  BY EpochsAssumption, SMT

\* An epoch begins where the one before it ended (GetEpochFromID).
THEOREM EpochsAreAdjacent ==
    ASSUME NEW e \in EpochIDs
    PROVE  /\ BeginHeight(e + 1) = EndHeight(e) + 1
           /\ EndHeight(e) \in Nat
  <1>1. CASE e <= FirstNewEpochID
    BY <1>1, EpochsAssumption DEF EpochIDs, BeginHeight, EndHeight, firstEnd
  <1>2. CASE e > FirstNewEpochID
    <2>1. PICK k \in Nat : e = FirstNewEpochID + k /\ k > 0
      BY <1>2, EpochsAssumption DEF EpochIDs
    <2>2. e - FirstNewEpochID = k /\ (e + 1) - FirstNewEpochID - 1 = k
      BY <2>1, EpochsAssumption
    <2>3. k * NewEpochLength \in Nat
      BY <2>1, EpochsAssumption
    <2>4. EndHeight(e) = firstEnd + k * NewEpochLength
      BY <1>2, <2>1, <2>2, EpochsAssumption DEF EndHeight
    <2>5. BeginHeight(e + 1) = firstEnd + k * NewEpochLength + 1
      BY <1>2, <2>1, <2>2, EpochsAssumption DEF BeginHeight
    <2> QED BY <2>3, <2>4, <2>5, EpochsAssumption DEF firstEnd
  <1> QED BY <1>1, <1>2, EpochsAssumption DEF EpochIDs

\* Every height lies in the epoch that GetEpochFromHeight finds for it.
THEOREM HeightIsInItsEpoch ==
    ASSUME NEW h \in Nat
    PROVE  /\ GetEpochFromHeight(h) \in EpochIDs
           /\ BeginHeight(GetEpochFromHeight(h)) <= h
           /\ h <= EndHeight(GetEpochFromHeight(h))
  <1> DEFINE n == h - firstEnd
             q == n \div NewEpochLength
             r == n % NewEpochLength
  <1>1. CASE h <= firstEnd
    BY <1>1, EpochsAssumption
    DEF GetEpochFromHeight, EpochIDs, BeginHeight, EndHeight, firstEnd
  <1>2. CASE h > firstEnd
    <2>1. n \in Nat /\ n > 0 /\ h = firstEnd + n /\ firstEnd \in Nat
      BY <1>2, EpochsAssumption DEF firstEnd
    <2>2. /\ q \in Nat /\ r \in 0..NewEpochLength - 1
          /\ n = q * NewEpochLength + r
      BY <2>1, Division
    <2>3. ~(h <= DposForkPoint)
      BY <1>2, EpochsAssumption DEF firstEnd
    <2> HIDE DEF n, q, r
    <2>4. CASE r = 0
      <3>1. GetEpochFromHeight(h) = q + FirstNewEpochID
        BY <1>2, <2>1, <2>2, <2>3, <2>4, EpochsAssumption DEF GetEpochFromHeight, n, q, r
      <3>2. q > 0
        BY <2>1, <2>2, <2>4, EpochsAssumption
      <3>3. PICK m \in Nat : q = m + 1
        BY <3>2, <2>2
      <3>4. q * NewEpochLength = m * NewEpochLength + NewEpochLength
        BY <3>3, EpochsAssumption
      <3>5. m * NewEpochLength \in Nat
        BY <3>3, EpochsAssumption
      <3>6. /\ (q + FirstNewEpochID) - FirstNewEpochID - 1 = m
            /\ (q + FirstNewEpochID) - FirstNewEpochID = q
        BY <3>3, EpochsAssumption
      <3>7. BeginHeight(q + FirstNewEpochID) =
                firstEnd + m * NewEpochLength + 1
            \/ q + FirstNewEpochID <= FirstNewEpochID
        BY <3>6, <3>2, <2>2, EpochsAssumption DEF BeginHeight
      <3>8. EndHeight(q + FirstNewEpochID) = firstEnd + q * NewEpochLength
        BY <3>6, <3>2, <2>2, EpochsAssumption DEF EndHeight
      <3> QED
        BY <3>1, <3>2, <3>3, <3>4, <3>5, <3>7, <3>8, <2>1, <2>2, <2>4, EpochsAssumption
        DEF EpochIDs
    <2>5. CASE r # 0
      <3>1. GetEpochFromHeight(h) = q + FirstNewEpochID + 1
        BY <1>2, <2>1, <2>2, <2>3, <2>5, EpochsAssumption DEF GetEpochFromHeight, n, q, r
      <3>2. /\ (q + FirstNewEpochID + 1) - FirstNewEpochID - 1 = q
            /\ (q + FirstNewEpochID + 1) - FirstNewEpochID = q + 1
        BY <2>2, EpochsAssumption
      <3>3. (q + 1) * NewEpochLength = q * NewEpochLength + NewEpochLength
        BY <2>2, EpochsAssumption
      <3>4. q * NewEpochLength \in Nat
        BY <2>2, EpochsAssumption
      <3>5. BeginHeight(q + FirstNewEpochID + 1) = firstEnd + q * NewEpochLength + 1
        BY <3>2, <2>2, EpochsAssumption DEF BeginHeight
      <3>6. EndHeight(q + FirstNewEpochID + 1) = firstEnd + (q + 1) * NewEpochLength
        BY <3>2, <2>2, EpochsAssumption DEF EndHeight
      <3> QED
        BY <3>1, <3>3, <3>4, <3>5, <3>6, <2>1, <2>2, <2>5, EpochsAssumption DEF EpochIDs
    <2> QED BY <2>4, <2>5
  <1> QED BY <1>1, <1>2, EpochsAssumption DEF firstEnd

\* What is cancelled at height c is free at height h only when the epoch of c
\* and MaxRedeemHeight blocks after it have passed (stopStakingInfo files it
\* under GetEpochFromHeight, RedeemItem.isRedeem reads GetEpochFromID).
THEOREM CancelledStaysLocked ==
    ASSUME NEW c \in Nat, NEW h \in Nat, IsUnlocked(GetEpochFromHeight(c), h)
    PROVE  /\ h > EndHeight(GetEpochFromHeight(c)) + MaxRedeemHeight
           /\ h > c + MaxRedeemHeight
  <1> DEFINE e == GetEpochFromHeight(c)
  <1>1. e \in EpochIDs /\ c <= EndHeight(e)
    BY HeightIsInItsEpoch
  <1>2. BeginHeight(e + 1) = EndHeight(e) + 1 /\ EndHeight(e) \in Nat
    BY <1>1, EpochsAreAdjacent
  <1>3. h > BeginHeight(e + 1) + MaxRedeemHeight
    BY DEF IsUnlocked
  <1> HIDE DEF e
  <1>4. h > EndHeight(e) + MaxRedeemHeight /\ h > c + MaxRedeemHeight
    BY <1>1, <1>2, <1>3, EpochsAssumption
  <1> QED BY <1>4 DEF e

\* An epoch after the fork has NewEpochLength blocks.
LEMMA EpochLength ==
    ASSUME NEW e \in EpochIDs
    PROVE  /\ BeginHeight(e) \in Nat /\ EndHeight(e) \in Nat
           /\ e = FirstNewEpochID - 1 => BeginHeight(e) = 0 /\ EndHeight(e) = DposForkPoint
           /\ e >= FirstNewEpochID => EndHeight(e) = BeginHeight(e) + NewEpochLength - 1
           /\ e = FirstNewEpochID => BeginHeight(e) = DposForkPoint + 1
  <1>1. CASE e <= FirstNewEpochID
    BY <1>1, EpochsAssumption DEF EpochIDs, BeginHeight, EndHeight, firstEnd
  <1>2. CASE e > FirstNewEpochID
    <2>1. PICK k \in Nat : e = FirstNewEpochID + 1 + k
      BY <1>2, EpochsAssumption DEF EpochIDs
    <2>2. e - FirstNewEpochID = k + 1 /\ e - FirstNewEpochID - 1 = k
      BY <2>1, EpochsAssumption
    <2>3. /\ k * NewEpochLength \in Nat
          /\ (k + 1) * NewEpochLength = k * NewEpochLength + NewEpochLength
      BY EpochsAssumption
    <2>4. /\ BeginHeight(e) = firstEnd + k * NewEpochLength + 1
          /\ EndHeight(e) = firstEnd + (k + 1) * NewEpochLength
      BY <1>2, <2>1, <2>2, EpochsAssumption DEF BeginHeight, EndHeight
    <2> QED BY <1>2, <2>3, <2>4, EpochsAssumption DEF firstEnd, EpochIDs
  <1> QED BY <1>1, <1>2, EpochsAssumption DEF EpochIDs

\* The blocks of a later epoch come later.
LEMMA EpochsAreOrdered ==
    ASSUME NEW e \in EpochIDs, NEW g \in EpochIDs, e < g
    PROVE  EndHeight(e) < BeginHeight(g)
  <1>1. CASE e < FirstNewEpochID
    <2>1. e = FirstNewEpochID - 1
      BY <1>1, EpochsAssumption DEF EpochIDs
    <2>2. CASE g = FirstNewEpochID
      BY <2>1, <2>2, EpochsAssumption DEF EpochIDs, BeginHeight, EndHeight
    <2>3. CASE g > FirstNewEpochID
      <3>1. (g - FirstNewEpochID - 1) * NewEpochLength \in Nat
        BY <2>3, EpochsAssumption DEF EpochIDs
      <3> QED BY <2>1, <2>3, <3>1, EpochsAssumption DEF EpochIDs, BeginHeight, EndHeight, firstEnd
    <2> QED BY <2>1, <2>2, <2>3, EpochsAssumption DEF EpochIDs
  <1>2. CASE e >= FirstNewEpochID
    <2>1. PICK k \in Nat, d \in Nat : e = FirstNewEpochID + k /\ g = e + 1 + d
      <3>1. e - FirstNewEpochID \in Nat /\ g - e - 1 \in Nat
        BY <1>2, EpochsAssumption DEF EpochIDs
      <3>2. e = FirstNewEpochID + (e - FirstNewEpochID) /\ g = e + 1 + (g - e - 1)
        BY EpochsAssumption DEF EpochIDs
      <3> QED BY <3>1, <3>2
    <2>2. e - FirstNewEpochID = k /\ g - FirstNewEpochID - 1 = k + d /\ g > FirstNewEpochID
      BY <2>1, EpochsAssumption
    <2>3. /\ k * NewEpochLength \in Nat /\ d * NewEpochLength \in Nat
          /\ (k + d) * NewEpochLength = k * NewEpochLength + d * NewEpochLength
      BY <2>1, EpochsAssumption
    <2>4. EndHeight(e) = firstEnd + k * NewEpochLength
      <3>1. CASE e = FirstNewEpochID
        <4>1. k = 0 /\ k * NewEpochLength = 0
          BY <2>2, <3>1, EpochsAssumption
        <4> QED BY <3>1, <4>1, EpochsAssumption DEF EndHeight, firstEnd
      <3>2. CASE e > FirstNewEpochID
        BY <2>2, <3>2, EpochsAssumption DEF EndHeight, EpochIDs
      <3> QED BY <1>2, <3>1, <3>2, EpochsAssumption DEF EpochIDs
    <2>5. BeginHeight(g) = firstEnd + (k + d) * NewEpochLength + 1
      BY <2>2, EpochsAssumption DEF BeginHeight, EpochIDs
    <2> QED BY <2>3, <2>4, <2>5, EpochsAssumption DEF firstEnd
  <1> QED BY <1>1, <1>2, EpochsAssumption DEF EpochIDs

\* A height is in one epoch only.
LEMMA EpochIsUnique ==
    ASSUME NEW h \in Nat, NEW e \in EpochIDs, BeginHeight(e) <= h, h <= EndHeight(e)
    PROVE  GetEpochFromHeight(h) = e
  <1> DEFINE g == GetEpochFromHeight(h)
  <1>1. g \in EpochIDs /\ BeginHeight(g) <= h /\ h <= EndHeight(g)
    BY HeightIsInItsEpoch
  <1> HIDE DEF g
  <1>2. /\ BeginHeight(g) \in Nat /\ EndHeight(g) \in Nat
        /\ BeginHeight(e) \in Nat /\ EndHeight(e) \in Nat
    BY <1>1, EpochLength
  <1>3. ~(e < g)
    BY <1>1, <1>2, EpochsAreOrdered
  <1>4. ~(g < e)
    BY <1>1, <1>2, EpochsAreOrdered
  <1>5. g = e
    BY <1>1, <1>3, <1>4, EpochsAssumption DEF EpochIDs
  <1> QED BY <1>5 DEF g

\* The next height is in the same epoch, or it begins the next one.
LEMMA NextHeight ==
    ASSUME NEW h \in Nat, NEW e, e = GetEpochFromHeight(h)
    PROVE  /\ e \in EpochIDs /\ e \in Nat /\ BeginHeight(e) \in Nat /\ EndHeight(e) \in Nat
           /\ BeginHeight(e) <= h /\ h <= EndHeight(e)
           /\ e + 1 \in EpochIDs /\ BeginHeight(e + 1) = EndHeight(e) + 1
           /\ EndHeight(e + 1) = EndHeight(e) + NewEpochLength
           /\ GetEpochFromHeight(h + 1) = IF h = EndHeight(e) THEN e + 1 ELSE e
           /\ h > DposForkPoint <=> e >= FirstNewEpochID
           /\ e >= FirstNewEpochID => BeginHeight(e) >= DposForkPoint + 1
  <1>1. e \in EpochIDs /\ BeginHeight(e) <= h /\ h <= EndHeight(e)
    BY HeightIsInItsEpoch
  <1>2. /\ BeginHeight(e) \in Nat /\ EndHeight(e) \in Nat
        /\ e = FirstNewEpochID - 1 => EndHeight(e) = DposForkPoint
        /\ e = FirstNewEpochID => BeginHeight(e) = DposForkPoint + 1
    BY <1>1, EpochLength
  <1>3. e \in Nat /\ e + 1 \in EpochIDs /\ e + 1 >= FirstNewEpochID /\ FirstNewEpochID \in EpochIDs
        /\ DposForkPoint \in Nat
    BY <1>1, EpochsAssumption DEF EpochIDs
  <1>4. BeginHeight(e + 1) = EndHeight(e) + 1
    BY <1>1, EpochsAreAdjacent
  <1>5. EndHeight(e + 1) = EndHeight(e) + NewEpochLength /\ EndHeight(e + 1) \in Nat
    BY <1>2, <1>3, <1>4, EpochLength, EpochsAssumption
  <1>6. GetEpochFromHeight(h + 1) = IF h = EndHeight(e) THEN e + 1 ELSE e
    <2>1. CASE h = EndHeight(e)
      <3>1. BeginHeight(e + 1) <= h + 1 /\ h + 1 <= EndHeight(e + 1)
        BY <1>2, <1>4, <1>5, <2>1, EpochsAssumption
      <3>2. GetEpochFromHeight(h + 1) = e + 1
        BY <1>3, <3>1, EpochIsUnique
      <3> QED BY <2>1, <3>2
    <2>2. CASE h # EndHeight(e)
      <3>1. BeginHeight(e) <= h + 1 /\ h + 1 <= EndHeight(e)
        BY <1>1, <1>2, <2>2
      <3>2. GetEpochFromHeight(h + 1) = e
        BY <1>1, <3>1, EpochIsUnique
      <3> QED BY <2>2, <3>2
    <2> QED BY <2>1, <2>2
  <1>7. e >= FirstNewEpochID => BeginHeight(e) >= DposForkPoint + 1
    <2>1. CASE e > FirstNewEpochID
      <3>1. EndHeight(FirstNewEpochID) < BeginHeight(e)
        BY <1>1, <1>3, <2>1, EpochsAreOrdered
      <3>2. EndHeight(FirstNewEpochID) >= DposForkPoint + 1 /\ EndHeight(FirstNewEpochID) \in Nat
        BY <1>3, EpochLength, EpochsAssumption
      <3> QED BY <1>2, <1>3, <3>1, <3>2
    <2> QED BY <1>2, <1>3, <2>1, EpochsAssumption
  <1>8. h > DposForkPoint <=> e >= FirstNewEpochID
    <2>1. e = FirstNewEpochID - 1 \/ e >= FirstNewEpochID
      BY <1>1, EpochsAssumption DEF EpochIDs
    <2>2. ~(FirstNewEpochID - 1 >= FirstNewEpochID)
      BY EpochsAssumption
    <2> QED BY <1>1, <1>2, <1>3, <1>7, <2>1, <2>2
  <1> QED BY <1>1, <1>2, <1>3, <1>4, <1>5, <1>6, <1>7, <1>8

-------------------------------------------------------------------------------
(* What the operations of the agent leave of its record *)

Agent(current, next, isMember, works, isCurrent, services, servicePre, orphans, endFastNumber) ==
    [current |-> current, next |-> next, isMember |-> isMember, works |-> works,
     isCurrent |-> isCurrent, services |-> services, servicePre |-> servicePre,
     orphans |-> orphans, endFastNumber |-> endFastNumber]

AgentOK(a) ==
    \E current, next, isMember, works, isCurrent, services, servicePre, orphans, endFastNumber :
        /\ a = Agent(current, next, isMember, works, isCurrent, services, servicePre, orphans,
                     endFastNumber)
        /\ works = [w \in 1..2 |-> works[w]] /\ isCurrent \in 1..2

Service(e, members, state) == [members |-> members, state |-> state, end |-> EndHeight(e)]

\* A record of the fields of an agent is one.
LEMMA AgentRecord ==
    ASSUME NEW current, NEW next, NEW isMember, NEW works, NEW isCurrent, NEW services,
           NEW servicePre, NEW orphans, NEW endFastNumber,
           works = [w \in 1..2 |-> works[w]], isCurrent \in 1..2
    PROVE  AgentOK(Agent(current, next, isMember, works, isCurrent, services, servicePre, orphans,
                         endFastNumber))
  BY Zenon DEF AgentOK

\* prepare makes the other work the current one, and adds the service of a
\* member unless it is there or the committee is small.
Prepares(a, b, id, members) ==
    /\ AgentOK(b)
    /\ b.current = a.current /\ b.isMember = a.isMember
    /\ b.servicePre = a.servicePre /\ b.orphans = a.orphans
    /\ b.next = committee(id, members)
    /\ b.works[b.isCurrent] = [id |-> id, ticking |-> Self \in members]
    /\ b.works[3 - b.isCurrent] = a.works[a.isCurrent]
    /\ IF Self \in members /\ ~small(members) /\ id \notin DOMAIN a.services
       THEN /\ DOMAIN b.services = DOMAIN a.services \cup {id}
            /\ b.services[id] = Service(id, members, "new")
            /\ \A i \in DOMAIN a.services : i # id => b.services[i] = a.services[i]
       ELSE b.services = a.services

\* What prepare does to the agent
LEMMA PrepareEffect ==
    ASSUME NEW a, AgentOK(a), NEW id, NEW members
    PROVE  Prepares(a, prepare(a, committee(id, members)), id, members)
  <1> DEFINE c == committee(id, members)
  <1>1. PICK current, next, isMember, works, isCurrent, services, servicePre, orphans, endFastNumber :
          /\ a = Agent(current, next, isMember, works, isCurrent, services, servicePre, orphans,
                       endFastNumber)
          /\ works = [w \in 1..2 |-> works[w]] /\ isCurrent \in 1..2
    BY DEF AgentOK
  <1> DEFINE w == 3 - isCurrent
             works2 == [works EXCEPT ![w] = [id |-> id, ticking |-> Self \in members]]
             put == Self \in members /\ ~small(members) /\ id \notin DOMAIN services
             services2 == IF put THEN set(services, id, Service(id, members, "new")) ELSE services
             b == Agent(current, c, isMember, works2, w, services2, servicePre, orphans, endFastNumber)
  <1>2. w \in 1..2 /\ w # isCurrent /\ 3 - w = isCurrent
    BY <1>1
  <1>3. prepare(a, c) = b
    BY Zenon, <1>1 DEF prepare, startSend, PutCommittee, committee, isCommitteeMember, Service, Agent
  <1>4. /\ works2 = [v \in 1..2 |-> works2[v]]
        /\ works2[w] = [id |-> id, ticking |-> Self \in members]
        /\ works2[isCurrent] = works[isCurrent]
    BY <1>1, <1>2
  <1>5. IF put
        THEN /\ DOMAIN services2 = DOMAIN services \cup {id}
             /\ services2[id] = Service(id, members, "new")
             /\ \A i \in DOMAIN services : i # id => services2[i] = services[i]
        ELSE services2 = services
    BY DEF set
  <1> HIDE DEF works2, services2, w
  <1>6. AgentOK(b)
    BY <1>2, <1>4, AgentRecord
  <1> QED BY <1>1, <1>2, <1>3, <1>4, <1>5, <1>6 DEF Agent, Prepares

\* stopEpoch stops the service of the epoch that is over, if a member of the
\* current committee runs it, and the work that is not the current one.
Stops(a, b, eid) ==
    /\ AgentOK(b)
    /\ b.current = a.current /\ b.next = a.next /\ b.isMember = a.isMember
    /\ b.servicePre = a.servicePre /\ b.orphans = a.orphans
    /\ b.works[b.isCurrent] = a.works[a.isCurrent]
    /\ b.works[3 - b.isCurrent] = NoWork
    /\ DOMAIN b.services = DOMAIN a.services
    /\ \A i \in DOMAIN a.services :
          \/ b.services[i] = a.services[i]
             /\ ~(i = eid /\ a.services[i].state = "running" /\ Self \in a.current.members)
          \/ i = eid /\ b.services[i].state = "stopped"

\* A service is one of its epoch.
isService(a, eid) == eid \in DOMAIN a.services => \E m, s : a.services[eid] = Service(eid, m, s)

\* What stopEpoch does to the agent
LEMMA StopEffect ==
    ASSUME NEW a, AgentOK(a), NEW eid, isService(a, eid)
    PROVE  Stops(a, stopEpoch(a, eid), eid)
  <1>1. PICK current, next, isMember, works, isCurrent, services, servicePre, orphans, endFastNumber :
          /\ a = Agent(current, next, isMember, works, isCurrent, services, servicePre, orphans,
                       endFastNumber)
          /\ works = [w \in 1..2 |-> works[w]] /\ isCurrent \in 1..2
    BY DEF AgentOK
  <1> DEFINE w == 3 - isCurrent
             works2 == [works EXCEPT ![w] = NoWork]
             stops == /\ Self \in current.members
                      /\ eid \in DOMAIN services /\ services[eid].state = "running"
             services2 == IF stops THEN [services EXCEPT ![eid] = [@ EXCEPT !.state = "stopped"]]
                          ELSE services
             b == Agent(current, next, isMember, works2, isCurrent, services2, servicePre, orphans,
                        endFastNumber)
  <1>2. w \in 1..2 /\ w # isCurrent
    BY <1>1
  <1>3. stopEpoch(a, eid) = b
    <2> DEFINE c == IF isCommitteeMember(a.current) THEN NotifyStop(a, eid) ELSE a
    <2>1. c = Agent(current, next, isMember, works, isCurrent, services2, servicePre, orphans,
                    endFastNumber)
      <3>1. a.current = current /\ a.services = services
        BY <1>1 DEF Agent
      <3>2. CASE stops
        <4>1. c = [a EXCEPT !.services[eid].state = "stopped"]
          BY <3>1, <3>2 DEF NotifyStop, running, isCommitteeMember
        <4> QED BY <1>1, <3>2, <4>1 DEF Agent
      <3>3. CASE ~stops
        <4>1. c = a
          BY <3>1, <3>3 DEF NotifyStop, running, isCommitteeMember
        <4> QED BY <1>1, <3>3, <4>1
      <3> QED BY <3>2, <3>3
    <2>2. stopEpoch(a, eid) = stopSend(c)
      BY DEF stopEpoch
    <2> HIDE DEF c, services2
    <2> QED BY <2>1, <2>2 DEF stopSend, Agent
  <1>4. /\ works2 = [v \in 1..2 |-> works2[v]]
        /\ works2[w] = NoWork
        /\ works2[isCurrent] = works[isCurrent]
    BY <1>1, <1>2
  <1>5. eid \in DOMAIN services => [services[eid] EXCEPT !.state = "stopped"].state = "stopped"
    <2>1. eid \in DOMAIN services => \E m, s : services[eid] = Service(eid, m, s)
      BY <1>1 DEF Agent, isService
    <2> QED BY <2>1 DEF Service
  <1>6. /\ DOMAIN services2 = DOMAIN services
        /\ \A i \in DOMAIN services :
              \/ services2[i] = services[i]
                 /\ ~(i = eid /\ services[i].state = "running" /\ Self \in current.members)
              \/ i = eid /\ services2[i].state = "stopped"
    <2>1. CASE stops
      BY <1>5, <2>1
    <2>2. CASE ~stops
      BY <2>2
    <2> QED BY <2>1, <2>2
  <1> HIDE DEF works2, services2, w
  <1>7. AgentOK(b)
    BY <1>1, <1>4, AgentRecord
  <1> QED BY <1>1, <1>2, <1>3, <1>4, <1>6, <1>7 DEF Agent, Stops, w

\* startEpoch makes the prepared committee the current one; a member starts
\* its service and forgets the one it started before.
Starts(a, b, eid) ==
    LET starts == Self \in a.next.members /\ eid \in DOMAIN a.services
        old == IF starts THEN {a.servicePre} \ {eid} ELSE {}
    IN  /\ AgentOK(b)
        /\ b.current = a.next /\ b.next = a.next /\ b.isMember = (Self \in a.next.members)
        /\ b.servicePre = (IF starts THEN eid ELSE a.servicePre)
        /\ b.orphans = a.orphans \cup (old \cap running(a))
        /\ b.works = a.works /\ b.isCurrent = a.isCurrent
        /\ DOMAIN b.services = DOMAIN a.services \ old
        /\ \A i \in DOMAIN b.services : i # eid => b.services[i] = a.services[i]
        /\ eid \in DOMAIN a.services =>
              b.services[eid] = IF starts /\ a.services[eid].state = "new"
                                THEN Service(eid, a.services[eid].members, "running")
                                ELSE a.services[eid]

\* What startEpoch does to the agent
LEMMA StartEffect ==
    ASSUME NEW a, AgentOK(a), NEW eid, isService(a, eid)
    PROVE  Starts(a, startEpoch(a, eid), eid)
  <1>1. PICK current, next, isMember, works, isCurrent, services, servicePre, orphans, endFastNumber :
          /\ a = Agent(current, next, isMember, works, isCurrent, services, servicePre, orphans,
                       endFastNumber)
          /\ works = [w \in 1..2 |-> works[w]] /\ isCurrent \in 1..2
    BY DEF AgentOK
  <1> DEFINE starts == Self \in next.members /\ eid \in DOMAIN services
             old == IF starts THEN {servicePre} \ {eid} ELSE {}
             started == [i \in DOMAIN services \ old |->
                            IF starts /\ i = eid /\ services[i].state = "new"
                            THEN [services[i] EXCEPT !.state = "running"] ELSE services[i]]
             services2 == IF starts THEN started ELSE services
             services3 == IF eid \in DOMAIN services2
                          THEN [services2 EXCEPT ![eid] = [@ EXCEPT !.end = EndHeight(eid)]]
                          ELSE services2
             orphans2 == IF starts THEN orphans \cup (old \cap running(a)) ELSE orphans
             ends == [e \in (DOMAIN endFastNumber \cup {eid}) \ {eid - 2} |->
                         IF e = eid THEN EndHeight(eid) ELSE endFastNumber[e]]
             pre == IF starts THEN eid ELSE servicePre
             b == Agent(next, next, Self \in next.members, works, isCurrent, services3, pre,
                        orphans2, ends)
  <1>2. startEpoch(a, eid) = b
    <2> DEFINE r == [a EXCEPT !.current = a.next, !.isMember = isCommitteeMember(a.next)]
               c == IF isCommitteeMember(r.current) THEN NotifyStart(r, eid) ELSE r
    <2>1. r = Agent(next, next, Self \in next.members, works, isCurrent, services, servicePre,
                    orphans, endFastNumber)
      <3> DEFINE mem == isCommitteeMember(a.next)
      <3>1. mem = (Self \in next.members) /\ a.next = next
        BY <1>1 DEF Agent, isCommitteeMember
      <3> HIDE DEF mem
      <3>2. r = [a EXCEPT !.current = next, !.isMember = mem]
        BY <3>1 DEF mem
      <3> HIDE DEF r
      <3>3. r = Agent(next, next, mem, works, isCurrent, services, servicePre, orphans, endFastNumber)
        BY Zenon, <1>1, <3>2 DEF Agent
      <3> QED BY <3>1, <3>3
    <2>2. running(r) = running(a)
      BY <1>1, <2>1 DEF running, Agent
    <2>3. c = Agent(next, next, Self \in next.members, works, isCurrent, services2, pre,
                    orphans2, endFastNumber)
      <3> HIDE DEF r
      <3>1. CASE starts
        <4>1. c = NotifyStart(r, eid)
          BY <2>1, <3>1 DEF isCommitteeMember, Agent
        <4>2. /\ r.services = services /\ r.servicePre = servicePre /\ r.orphans = orphans
          BY <2>1 DEF Agent
        <4>3. old = {servicePre} \ {eid}
          BY <3>1
        <4>4. c = [r EXCEPT !.servicePre = eid,
                            !.orphans = orphans \cup (old \cap running(a)),
                            !.services = [i \in DOMAIN services \ old |->
                               IF i = eid /\ services[i].state = "new"
                               THEN [services[i] EXCEPT !.state = "running"] ELSE services[i]]]
          BY <2>2, <3>1, <4>1, <4>2, <4>3 DEF NotifyStart
        <4>5. services2 = [i \in DOMAIN services \ old |->
                               IF i = eid /\ services[i].state = "new"
                               THEN [services[i] EXCEPT !.state = "running"] ELSE services[i]]
          BY <3>1
        <4>6. pre = eid /\ orphans2 = orphans \cup (old \cap running(a))
          BY <3>1
        <4> HIDE DEF old, services2, orphans2, pre
        <4>7. c = [r EXCEPT !.servicePre = pre, !.orphans = orphans2, !.services = services2]
          BY <4>4, <4>5, <4>6
        <4> QED BY Zenon, <2>1, <4>7 DEF Agent
      <3>2. CASE ~starts
        BY <2>1, <3>2 DEF NotifyStart, isCommitteeMember, Agent
      <3> QED BY <3>1, <3>2
    <2>4. startEpoch(a, eid) = SetCommitteeStop(noteEnd(c, eid), eid)
      BY DEF startEpoch
    <2> HIDE DEF r, c, services2, pre, orphans2
    <2>5. noteEnd(c, eid) = Agent(next, next, Self \in next.members, works, isCurrent, services2,
                                  pre, orphans2, ends)
      BY <2>3 DEF noteEnd, Agent
    <2> HIDE DEF ends
    <2>6. SetCommitteeStop(noteEnd(c, eid), eid) = b
      BY <2>5 DEF SetCommitteeStop, Agent
    <2> QED BY <2>4, <2>6
  <1>3. eid \in DOMAIN services =>
          /\ eid \in DOMAIN services2
          /\ services3[eid] = IF starts /\ services[eid].state = "new"
                              THEN Service(eid, services[eid].members, "running")
                              ELSE services[eid]
    <2>1. eid \in DOMAIN services => \E m, s : services[eid] = Service(eid, m, s)
      BY <1>1 DEF Agent, isService
    <2>2. SUFFICES ASSUME NEW m, NEW s, eid \in DOMAIN services, services[eid] = Service(eid, m, s)
                   PROVE  /\ eid \in DOMAIN services2
                          /\ services3[eid] = IF starts /\ s = "new"
                                              THEN Service(eid, m, "running") ELSE Service(eid, m, s)
      BY <2>1 DEF Service
    <2>3. eid \in DOMAIN services2
      BY <2>2
    <2>4. services2[eid] = Service(eid, m, IF starts /\ s = "new" THEN "running" ELSE s)
      BY <2>2 DEF Service
    <2> HIDE DEF services2
    <2> QED BY <2>3, <2>4 DEF Service
  <1>4. /\ DOMAIN services3 = DOMAIN services \ old
        /\ \A i \in DOMAIN services3 : i # eid => services3[i] = services[i]
    OBVIOUS
  <1>5. orphans2 = orphans \cup (old \cap running(a))
    OBVIOUS
  <1> HIDE DEF services2, services3, orphans2, ends, old
  <1>6. AgentOK(b)
    BY <1>1, AgentRecord
  <1> QED BY <1>1, <1>2, <1>3, <1>4, <1>5, <1>6 DEF Agent, Starts, old
-------------------------------------------------------------------------------
(* The agent between two events: it waits for the first epoch, or it was     *)
(* launched in an epoch whose first events it still has to see, or it        *)
(* follows the epochs.                                                       *)

C(e) == committee(e, elected[e])
W(e) == [id |-> e, ticking |-> Self \in elected[e]]
serves(e) == Self \in elected[e] /\ ~small(elected[e])

\* Before the first epoch: at most its service is there, and has not started.
Waits(a) ==
    /\ a.current = NoCommittee
    /\ a.servicePre = None
    /\ DOMAIN a.services \subseteq {FirstNewEpochID}
    /\ FirstNewEpochID \in DOMAIN a.services =>
          /\ serves(FirstNewEpochID)
          /\ a.services[FirstNewEpochID] =
                Service(FirstNewEpochID, elected[FirstNewEpochID], "new")

\* Launched in e, with the events of the epoch before e to come
Replays(a, e) ==
    /\ a.current = C(e) /\ a.next = C(e) /\ a.isMember = (Self \in elected[e])
    /\ DOMAIN a.services = IF serves(e) THEN {e} ELSE {}
    /\ a.servicePre = IF serves(e) THEN e ELSE None
    /\ serves(e) => a.services[e] = Service(e, elected[e], "running")
    /\ a.works[a.isCurrent] = W(e)

\* In epoch e; late: nothing was prepared for e; prepared: epoch e + 1 is.
Follows(a, e, late, prepared) ==
    /\ ~late => a.current = C(e) /\ a.isMember = (Self \in elected[e])
    /\ a.next = IF prepared THEN C(e + 1) ELSE a.current
    /\ a.servicePre = None \/ a.servicePre \in FirstNewEpochID .. e
    /\ a.servicePre = e <=> serves(e) /\ ~late
    /\ DOMAIN a.services = ({a.servicePre} \ {None})
                             \cup IF prepared /\ serves(e + 1) THEN {e + 1} ELSE {}
    /\ a.servicePre = e => a.services[e] = Service(e, elected[e], "running")
    /\ a.servicePre \notin {None, e} => a.services[a.servicePre].state = "stopped"
    /\ prepared /\ serves(e + 1) => a.services[e + 1] = Service(e + 1, elected[e + 1], "new")
    /\ IF prepared
       THEN /\ a.works[a.isCurrent] = W(e + 1)
            /\ ~late => a.works[3 - a.isCurrent] = W(e)
       ELSE /\ a.works[3 - a.isCurrent] = NoWork
            /\ ~late => a.works[a.isCurrent] = W(e)

\* The loop is launched in epoch e.
LEMMA LaunchFollows ==
    ASSUME NEW e \in EpochIDs, e >= FirstNewEpochID
    PROVE  LET b == startEpoch(prepare(newAgent, C(e)), e)
           IN  AgentOK(b) /\ b.orphans = {} /\ Replays(b, e) /\ Follows(b, e, FALSE, FALSE)
  <1> DEFINE p == prepare(newAgent, C(e))
             b == startEpoch(p, e)
  <1>0. e \in Nat /\ FirstNewEpochID \in Nat /\ e # None /\ e + 1 # e /\ e \in FirstNewEpochID .. e
    BY SMTT(30), EpochsAssumption DEF EpochIDs, None
  <1>1. /\ AgentOK(newAgent) /\ newAgent.works[newAgent.isCurrent] = NoWork
        /\ DOMAIN newAgent.services = {} /\ newAgent.servicePre = None /\ newAgent.orphans = {}
    <2>1. newAgent = Agent(NoCommittee, NoCommittee, FALSE, <<NoWork, NoWork>>, 2, noEntries, None,
                           {}, noEntries)
      BY DEF newAgent, Agent
    <2> DEFINE two == <<NoWork, NoWork>>
    <2>2. two = [w \in 1..2 |-> two[w]] /\ 2 \in 1..2
      OBVIOUS
    <2> HIDE DEF two
    <2>3. AgentOK(Agent(NoCommittee, NoCommittee, FALSE, two, 2, noEntries, None, {}, noEntries))
      BY Zenon, <2>2, AgentRecord
    <2>4. AgentOK(newAgent)
      BY Zenon, <2>1, <2>3 DEF two
    <2> QED BY Zenon, <2>4 DEF newAgent, noEntries
  <1>2. /\ AgentOK(p) /\ p.next = C(e) /\ p.servicePre = None /\ p.orphans = {}
        /\ p.works[p.isCurrent] = W(e) /\ p.works[3 - p.isCurrent] = NoWork
        /\ DOMAIN p.services = IF serves(e) THEN {e} ELSE {}
        /\ serves(e) => p.services[e] = Service(e, elected[e], "new")
    <2>1. Prepares(newAgent, p, e, elected[e])
      BY <1>1, PrepareEffect DEF C
    <2> QED BY Zenon, <1>1, <2>1 DEF Prepares, C, W, serves
  <1> HIDE DEF p
  <1>3. Starts(p, b, e)
    BY <1>2, StartEffect DEF isService
  <1>4. (Self \in p.next.members) = (Self \in elected[e])
    BY <1>2 DEF C, committee
  <1>5. /\ AgentOK(b) /\ b.current = C(e) /\ b.next = C(e) /\ b.isMember = (Self \in elected[e])
        /\ b.orphans = {} /\ b.works = p.works /\ b.isCurrent = p.isCurrent
        /\ b.servicePre = IF serves(e) THEN e ELSE None
        /\ DOMAIN b.services = IF serves(e) THEN {e} ELSE {}
        /\ serves(e) => b.services[e] = Service(e, elected[e], "running")
    <2>1. running(p) \subseteq DOMAIN p.services /\ None \notin DOMAIN p.services
      BY <1>0, <1>2 DEF running
    <2>2. Service(e, elected[e], "new").state = "new" /\ Service(e, elected[e], "new").members = elected[e]
      BY DEF Service
    <2> QED BY <1>0, <1>2, <1>3, <1>4, <2>1, <2>2 DEF Starts, serves
  <1> HIDE DEF b
  <1> QED BY <1>0, <1>2, <1>5 DEF Replays, Follows, p, b

\* The preparing event of the epoch it was launched in changes the works only.
LEMMA ReplayPrepares ==
    ASSUME NEW a, NEW e, AgentOK(a), a.orphans = {}, Replays(a, e)
    PROVE  LET b == prepare(a, C(e)) IN AgentOK(b) /\ b.orphans = {} /\ Replays(b, e)
  <1> DEFINE b == prepare(a, C(e))
  <1>1. Prepares(a, b, e, elected[e])
    BY PrepareEffect DEF C
  <1> HIDE DEF b
  <1>2. AgentOK(b) /\ b.orphans = {} /\ Replays(b, e)
    BY Zenon, <1>1 DEF Prepares, Replays, C, W, serves
  <1> QED BY <1>2 DEF b

\* The first block of the epoch it was launched in changes nothing.
LEMMA ReplayStarts ==
    ASSUME NEW a, NEW e \in EpochIDs, e >= FirstNewEpochID, AgentOK(a), a.orphans = {}, Replays(a, e)
    PROVE  LET b == startEpoch(stopEpoch(a, e - 1), e)
           IN  AgentOK(b) /\ b.orphans = {} /\ Follows(b, e, FALSE, FALSE)
  <1> DEFINE p == stopEpoch(a, e - 1)
             b == startEpoch(p, e)
  <1>0. e \in Nat /\ FirstNewEpochID \in Nat /\ e # None /\ e - 1 # e /\ e \in FirstNewEpochID .. e
    BY SMTT(30), EpochsAssumption DEF EpochIDs, None
  <1>1. e - 1 \notin DOMAIN a.services
    BY Zenon, <1>0 DEF Replays
  <1>2. /\ AgentOK(p) /\ p.next = C(e) /\ p.orphans = {}
        /\ p.works[p.isCurrent] = W(e) /\ p.works[3 - p.isCurrent] = NoWork
        /\ p.servicePre = IF serves(e) THEN e ELSE None
        /\ DOMAIN p.services = IF serves(e) THEN {e} ELSE {}
        /\ serves(e) => p.services[e] = Service(e, elected[e], "running")
    <2>1. Stops(a, p, e - 1)
      BY <1>1, StopEffect DEF isService
    <2> QED BY <1>0, <1>1, <2>1 DEF Stops, Replays
  <1> HIDE DEF p
  <1>3. Starts(p, b, e)
    BY <1>2, StartEffect DEF isService
  <1>4. (Self \in p.next.members) = (Self \in elected[e])
    BY <1>2 DEF C, committee
  <1>5. /\ AgentOK(b) /\ b.current = C(e) /\ b.next = C(e) /\ b.isMember = (Self \in elected[e])
        /\ b.orphans = {} /\ b.works = p.works /\ b.isCurrent = p.isCurrent
        /\ b.servicePre = IF serves(e) THEN e ELSE None
        /\ DOMAIN b.services = IF serves(e) THEN {e} ELSE {}
        /\ serves(e) => b.services[e] = Service(e, elected[e], "running")
    <2>1. Service(e, elected[e], "running").state = "running"
      BY DEF Service
    <2> QED BY Zenon, <1>0, <1>2, <1>3, <1>4, <2>1 DEF Starts, serves
  <1> HIDE DEF b
  <1> QED BY <1>0, <1>2, <1>5 DEF Follows, p, b

\* Before the first epoch an event may prepare it, with the elected committee
\* or with none.
LEMMA WaitPrepares ==
    ASSUME NEW a, AgentOK(a), a.orphans = {}, Waits(a), NEW members,
           members \in {elected[FirstNewEpochID], {}}
    PROVE  LET b == prepare(a, committee(FirstNewEpochID, members))
           IN  AgentOK(b) /\ b.orphans = {} /\ Waits(b)
  <1> DEFINE b == prepare(a, committee(FirstNewEpochID, members))
  <1>1. Prepares(a, b, FirstNewEpochID, members)
    BY PrepareEffect
  <1> HIDE DEF b
  <1>2. AgentOK(b) /\ b.orphans = {} /\ Waits(b)
    BY <1>1 DEF Prepares, Waits, serves
  <1> QED BY <1>2 DEF b

\* The last block before the first epoch prepares and starts it.
LEMMA WaitStarts ==
    ASSUME NEW a, AgentOK(a), a.orphans = {}, Waits(a)
    PROVE  LET b == startEpoch(stopEpoch(prepare(a, C(FirstNewEpochID)), FirstNewEpochID - 1),
                               FirstNewEpochID)
           IN  AgentOK(b) /\ b.orphans = {} /\ Follows(b, FirstNewEpochID, FALSE, FALSE)
  <1> DEFINE e == FirstNewEpochID
             q == prepare(a, C(e))
             p == stopEpoch(q, e - 1)
             b == startEpoch(p, e)
  <1>0. e \in Nat /\ e # None /\ e - 1 # e /\ e + 1 # e /\ e \in e .. e
    BY EpochsAssumption DEF None
  <1>1. /\ AgentOK(q) /\ q.next = C(e) /\ q.orphans = {} /\ q.works[q.isCurrent] = W(e)
        /\ q.servicePre = None
        /\ DOMAIN q.services = IF serves(e) THEN {e} ELSE {}
        /\ serves(e) => q.services[e] = Service(e, elected[e], "new")
    <2>1. Prepares(a, q, e, elected[e])
      BY PrepareEffect DEF C
    <2> HIDE DEF q
    <2>2. CASE serves(e) /\ e \notin DOMAIN a.services
      BY <2>1, <2>2 DEF Prepares, Waits, C, W, serves
    <2>3. CASE ~(serves(e) /\ e \notin DOMAIN a.services)
      BY Zenon, <2>1, <2>3 DEF Prepares, Waits, C, W, serves
    <2> QED BY <2>2, <2>3
  <1> HIDE DEF q
  <1>2. Stops(q, p, e - 1)
    BY <1>0, <1>1, StopEffect DEF isService
  <1> HIDE DEF p
  <1>3. /\ AgentOK(p) /\ p.next = C(e) /\ p.orphans = {} /\ p.servicePre = None
        /\ p.works[p.isCurrent] = W(e) /\ p.works[3 - p.isCurrent] = NoWork
        /\ DOMAIN p.services = IF serves(e) THEN {e} ELSE {}
        /\ serves(e) => p.services[e] = Service(e, elected[e], "new")
    BY <1>0, <1>1, <1>2 DEF Stops
  <1>4. Starts(p, b, e)
    BY <1>3, StartEffect DEF isService
  <1>5. (Self \in p.next.members) = (Self \in elected[e])
    BY <1>3 DEF C, committee
  <1> HIDE DEF b
  <1>6. /\ AgentOK(b) /\ b.current = C(e) /\ b.next = C(e) /\ b.isMember = (Self \in elected[e])
        /\ b.orphans = {} /\ b.works = p.works /\ b.isCurrent = p.isCurrent
        /\ b.servicePre = IF serves(e) THEN e ELSE None
        /\ DOMAIN b.services = IF serves(e) THEN {e} ELSE {}
        /\ serves(e) => b.services[e] = Service(e, elected[e], "running")
    <2>1. running(p) \subseteq DOMAIN p.services /\ None \notin DOMAIN p.services
      BY <1>0, <1>3 DEF running
    <2>2. Service(e, elected[e], "new").state = "new" /\ Service(e, elected[e], "new").members = elected[e]
      BY DEF Service
    <2> QED BY <1>0, <1>3, <1>4, <1>5, <2>1, <2>2 DEF Starts, serves
  <1>7. Follows(b, e, FALSE, FALSE)
    BY <1>0, <1>3, <1>6 DEF Follows
  <1> QED BY Zenon, <1>6, <1>7 DEF q, p, b

\* The preparing event of the next epoch
LEMMA FollowPrepares ==
    ASSUME NEW a, NEW e \in EpochIDs, AgentOK(a), a.orphans = {},
           NEW late \in BOOLEAN, Follows(a, e, late, FALSE)
    PROVE  LET b == prepare(a, C(e + 1))
           IN  AgentOK(b) /\ b.orphans = {} /\ Follows(b, e, late, TRUE)
  <1> DEFINE b == prepare(a, C(e + 1))
  <1>0. e \in Nat /\ FirstNewEpochID \in Nat /\ e # None /\ e + 1 # e /\ e + 1 # None
        /\ e + 1 \notin FirstNewEpochID .. e
    BY EpochsAssumption DEF EpochIDs, None
  <1>1. Prepares(a, b, e + 1, elected[e + 1])
    BY PrepareEffect DEF C
  <1>2. e + 1 \notin DOMAIN a.services
    BY <1>0 DEF Follows
  <1> HIDE DEF b
  <1>3. /\ AgentOK(b) /\ b.orphans = {} /\ b.next = C(e + 1) /\ b.servicePre = a.servicePre
        /\ b.current = a.current /\ b.isMember = a.isMember
        /\ b.works[b.isCurrent] = W(e + 1) /\ b.works[3 - b.isCurrent] = a.works[a.isCurrent]
        /\ DOMAIN b.services = DOMAIN a.services \cup IF serves(e + 1) THEN {e + 1} ELSE {}
        /\ serves(e + 1) => b.services[e + 1] = Service(e + 1, elected[e + 1], "new")
        /\ \A i \in DOMAIN a.services : b.services[i] = a.services[i]
    <2>1. CASE serves(e + 1)
      BY <1>1, <1>2, <2>1 DEF Prepares, C, W, serves
    <2>2. CASE ~serves(e + 1)
      BY <1>1, <2>2 DEF Prepares, C, W, serves
    <2> QED BY <2>1, <2>2
  <1>4. Follows(b, e, late, TRUE)
    <2>1. a.servicePre # None => a.servicePre \in DOMAIN a.services
      BY DEF Follows
    <2>2. DOMAIN a.services = {a.servicePre} \ {None}
      BY DEF Follows
    <2>3. a.servicePre = e => b.services[e] = Service(e, elected[e], "running")
      BY <1>0, <1>3, <2>1 DEF Follows
    <2>4. a.servicePre \notin {None, e} => b.services[a.servicePre].state = "stopped"
      BY <1>3, <2>1 DEF Follows
    <2>5. ~late => b.current = C(e) /\ b.isMember = (Self \in elected[e])
      BY <1>3, Zenon DEF Follows
    <2>6. ~late => b.works[3 - b.isCurrent] = W(e)
      BY <1>3, Zenon DEF Follows
    <2>7. a.servicePre = e <=> serves(e) /\ ~late
      BY DEF Follows
    <2>8. a.servicePre = None \/ a.servicePre \in FirstNewEpochID .. e
      BY DEF Follows
    <2> QED BY <1>3, <2>2, <2>3, <2>4, <2>5, <2>6, <2>7, <2>8, Zenon DEF Follows
  <1> QED BY Zenon, <1>3, <1>4 DEF b

\* The last block of epoch e: its service stops, and that of the next epoch
\* starts, unless nothing was prepared for it.
LEMMA FollowStarts ==
    ASSUME NEW a, NEW e \in EpochIDs, e >= FirstNewEpochID, AgentOK(a), a.orphans = {},
           NEW late \in BOOLEAN, NEW prepared \in BOOLEAN, Follows(a, e, late, prepared)
    PROVE  LET b == startEpoch(stopEpoch(a, e), e + 1)
           IN  AgentOK(b) /\ b.orphans = {} /\ Follows(b, e + 1, ~prepared, FALSE)
  <1> DEFINE p == stopEpoch(a, e)
             b == startEpoch(p, e + 1)
             n == e + 1
             pre == a.servicePre
  <1>0. /\ e \in Nat /\ FirstNewEpochID \in Nat /\ n # e /\ n # None /\ e # None /\ n + 1 # n
        /\ n \notin FirstNewEpochID .. e /\ n \in FirstNewEpochID .. n
        /\ FirstNewEpochID .. e \subseteq FirstNewEpochID .. n
        /\ None \notin FirstNewEpochID .. n
    BY EpochsAssumption DEF EpochIDs, None
  <1>1. isService(a, e)
    BY <1>0 DEF Follows, isService
  <1>2. Stops(a, p, e)
    BY <1>1, StopEffect
  <1> HIDE DEF p
  <1>3. /\ AgentOK(p) /\ p.next = a.next /\ p.orphans = {} /\ p.servicePre = pre
        /\ p.works[p.isCurrent] = a.works[a.isCurrent] /\ p.works[3 - p.isCurrent] = NoWork
        /\ DOMAIN p.services = DOMAIN a.services
    BY <1>2 DEF Stops
  <1>4. pre # None => pre \in DOMAIN p.services /\ p.services[pre].state = "stopped"
    <2>1. SUFFICES ASSUME pre # None
                   PROVE  pre \in DOMAIN p.services /\ p.services[pre].state = "stopped"
      OBVIOUS
    <2>2. pre \in DOMAIN a.services
      BY <2>1 DEF Follows
    <2>3. CASE pre = e
      <3>1. a.services[e].state = "running" /\ Self \in a.current.members
        BY <2>3 DEF Follows, Service, serves, C, committee
      <3> QED BY <1>2, <1>3, <2>2, <2>3, <3>1 DEF Stops
    <2>4. CASE pre # e
      BY <1>2, <1>3, <2>1, <2>2, <2>4 DEF Stops, Follows
    <2> QED BY <2>3, <2>4
  <1>5. n \in DOMAIN p.services <=> prepared /\ serves(n)
    BY <1>0, <1>3 DEF Follows
  <1>6. prepared /\ serves(n) => p.services[n] = Service(n, elected[n], "new")
    <2>1. SUFFICES ASSUME prepared, serves(n) PROVE p.services[n] = Service(n, elected[n], "new")
      OBVIOUS
    <2>2. n \in DOMAIN a.services /\ a.services[n] = Service(n, elected[n], "new")
      BY <1>3, <1>5, <2>1 DEF Follows
    <2> QED BY <1>0, <1>2, <2>2 DEF Stops
  <1>7. Starts(p, b, n)
    BY <1>3, <1>5, <1>6, StartEffect DEF isService
  <1> HIDE DEF b
  <1>8. pre # n /\ (pre # None => pre # n) /\ pre \notin running(p)
    BY <1>0, <1>3, <1>4 DEF Follows, running
  <1>9. CASE prepared
    <2>1. /\ p.next = C(n) /\ (Self \in p.next.members) = (Self \in elected[n])
      BY <1>3, <1>9 DEF Follows, C, committee
    <2>2. DOMAIN p.services = ({pre} \ {None}) \cup IF serves(n) THEN {n} ELSE {}
      BY <1>3, <1>9 DEF Follows
    <2>3. /\ AgentOK(b) /\ b.current = C(n) /\ b.next = C(n) /\ b.isMember = (Self \in elected[n])
          /\ b.works = p.works /\ b.isCurrent = p.isCurrent
      BY <1>7, <2>1 DEF Starts
    <2>4. p.works[p.isCurrent] = W(n)
      BY <1>3, <1>9 DEF Follows
    <2>5. CASE serves(n)
      <3>1. /\ b.servicePre = n /\ b.orphans = {}
            /\ DOMAIN b.services = {n}
        BY <1>0, <1>3, <1>5, <1>7, <1>8, <1>9, <2>1, <2>2, <2>5 DEF Starts, serves
      <3>2. b.services[n] = Service(n, elected[n], "running")
        <4>1. p.services[n].state = "new" /\ p.services[n].members = elected[n]
          BY SMTT(30), <1>6, <1>9, <2>5 DEF Service
        <4> QED BY <1>5, <1>7, <1>9, <2>1, <2>5, <4>1 DEF Starts, serves
      <3>3. Follows(b, n, FALSE, FALSE)
        BY Zenon, <1>0, <1>3, <2>3, <2>4, <2>5, <3>1, <3>2 DEF Follows
      <3> QED BY Zenon, <1>9, <2>3, <3>1, <3>3 DEF p, b
    <2>6. CASE ~serves(n)
      <3>1. n \notin DOMAIN p.services
        BY <1>5, <2>6
      <3>2. /\ b.servicePre = pre /\ b.orphans = {} /\ DOMAIN b.services = {pre} \ {None}
            /\ \A i \in DOMAIN b.services : b.services[i] = p.services[i]
        BY <1>3, <1>7, <2>2, <2>6, <3>1 DEF Starts
      <3>3. pre # None => b.services[pre].state = "stopped"
        BY <1>4, <3>2
      <3>4. pre = None \/ pre \in FirstNewEpochID .. n
        BY <1>0 DEF Follows
      <3>5. Follows(b, n, FALSE, FALSE)
        BY <1>0, <1>3, <1>8, <2>3, <2>4, <2>6, <3>2, <3>3, <3>4 DEF Follows
      <3> QED BY Zenon, <1>9, <2>3, <3>2, <3>5 DEF p, b
    <2> QED BY Zenon, <2>5, <2>6
  <1>10. CASE ~prepared
    <2>1. n \notin DOMAIN p.services /\ DOMAIN p.services = {pre} \ {None}
      BY <1>3, <1>5, <1>10 DEF Follows
    <2>2. /\ AgentOK(b) /\ b.next = b.current /\ b.works = p.works /\ b.isCurrent = p.isCurrent
          /\ b.servicePre = pre /\ b.orphans = {} /\ DOMAIN b.services = {pre} \ {None}
          /\ \A i \in DOMAIN b.services : b.services[i] = p.services[i]
      BY <1>3, <1>7, <2>1 DEF Starts
    <2>3. pre # None => b.services[pre].state = "stopped"
      BY <1>4, <2>2
    <2>4. pre = None \/ pre \in FirstNewEpochID .. n
      BY <1>0 DEF Follows
    <2>5. Follows(b, n, TRUE, FALSE)
      BY <1>0, <1>3, <1>8, <2>2, <2>3, <2>4 DEF Follows
    <2> QED BY Zenon, <1>10, <2>2, <2>5 DEF p, b
  <1> QED BY Zenon, <1>9, <1>10

-------------------------------------------------------------------------------
(* The heights at which the loop does something                              *)

\* The block that elects the next committee is one of the epoch before it.
LEMMA ElectionHeight ==
    ASSUME NEW e \in EpochIDs
    PROVE  /\ e >= FirstNewEpochID => electionBlock(e + 1) = EndHeight(e) - ElectionPoint
           /\ e < FirstNewEpochID => electionBlock(e + 1) = EndHeight(e)
           /\ electionBlock(e + 1) \in Int /\ electionBlock(e + 1) <= EndHeight(e)
           /\ e >= FirstNewEpochID => BeginHeight(e) <= electionBlock(e + 1)
           /\ e >= FirstNewEpochID => electionBlock(e + 1) < EndHeight(e)
  <1>1. e \in Nat /\ EndHeight(e) \in Nat /\ e + 1 - 1 = e /\ FirstNewEpochID \in Nat
    BY EpochLength, EpochsAssumption DEF EpochIDs
  <1>2. CASE e >= FirstNewEpochID
    <2>1. electionBlock(e + 1) = EndHeight(e) - ElectionPoint
      BY <1>1, <1>2 DEF electionBlock
    <2>2. EndHeight(e) = BeginHeight(e) + NewEpochLength - 1 /\ BeginHeight(e) \in Nat
      BY <1>2, EpochLength
    <2> QED BY <1>1, <1>2, <2>1, <2>2, HandoverAssumption, EpochsAssumption
  <1>3. CASE e < FirstNewEpochID
    <2>1. e = FirstNewEpochID - 1 /\ e + 1 <= FirstNewEpochID
      BY <1>1, <1>3 DEF EpochIDs
    <2>2. electionBlock(e + 1) = EndHeight(e)
      BY <2>1 DEF electionBlock
    <2> QED BY <1>1, <1>3, <2>2
  <1> QED BY <1>1, <1>2, <1>3

\* What the event before next looks at: the epoch after the one of next, and
\* no epoch begins there.
LEMMA PreparingHeight ==
    ASSUME NEW next \in Nat, NEW e \in EpochIDs, preparesNext(next, e)
    PROVE  /\ GetEpochFromHeight(next + NewEpochLength) = e + 1
           /\ e >= FirstNewEpochID => next # BeginHeight(e)
  <1>1. e + 1 \in EpochIDs /\ e + 1 >= FirstNewEpochID
    BY EpochsAssumption DEF EpochIDs
  <1>2. /\ BeginHeight(e + 1) = EndHeight(e) + 1 /\ EndHeight(e) \in Nat
        /\ EndHeight(e + 1) = BeginHeight(e + 1) + NewEpochLength - 1
    BY <1>1, EpochsAreAdjacent, EpochLength
  <1>3. next = EndHeight(e) - ElectionPoint + 1
    BY DEF preparesNext
  <1>4. /\ next + NewEpochLength \in Nat
        /\ BeginHeight(e + 1) <= next + NewEpochLength /\ next + NewEpochLength <= EndHeight(e + 1)
    BY <1>2, <1>3, HandoverAssumption, EpochsAssumption
  <1>5. e >= FirstNewEpochID => BeginHeight(e) = EndHeight(e) - NewEpochLength + 1
    BY <1>2, EpochLength, EpochsAssumption
  <1> QED BY <1>1, <1>2, <1>3, <1>4, <1>5, EpochIsUnique, HandoverAssumption, EpochsAssumption

\* The loop starts with the epoch of the block to come.
LEMMA LaunchEpochIs ==
    ASSUME height \in Nat
    PROVE  launchEpoch = IF height < DposForkPoint THEN None ELSE GetEpochFromHeight(height + 1)
  <1>1. /\ FirstNewEpochID \in EpochIDs /\ DposForkPoint \in Nat /\ NewEpochLength \in Nat \ {0}
        /\ BeginHeight(FirstNewEpochID) = DposForkPoint + 1
        /\ EndHeight(FirstNewEpochID) = DposForkPoint + NewEpochLength
    BY EpochsAssumption, EpochLength DEF EpochIDs
  <1>2. CASE height > DposForkPoint
    <2> DEFINE e == GetEpochFromHeight(height)
    <2>1. /\ BeginHeight(e) \in Nat /\ BeginHeight(e) <= height
          /\ GetEpochFromHeight(height + 1) = IF height = EndHeight(e) THEN e + 1 ELSE e
      BY NextHeight
    <2>2. height + 1 > BeginHeight(FirstNewEpochID)
      BY <1>1, <1>2
    <2> HIDE DEF e
    <2>3. launchEpoch = IF height = EndHeight(e) THEN GetEpochFromHeight(height + 1) ELSE e
      BY <2>1, <2>2 DEF launchEpoch, e
    <2> QED BY <1>1, <1>2, <2>1, <2>3
  <1>3. CASE height <= DposForkPoint
    <2>1. /\ ~(height + 1 > BeginHeight(FirstNewEpochID)) /\ height < BeginHeight(FirstNewEpochID)
          /\ height # EndHeight(FirstNewEpochID)
          /\ height # BeginHeight(FirstNewEpochID) - 1 <=> height < DposForkPoint
      BY <1>1, <1>3
    <2>2. launchEpoch = IF height < DposForkPoint THEN None ELSE FirstNewEpochID
      BY <2>1 DEF launchEpoch
    <2>3. height = DposForkPoint => GetEpochFromHeight(height + 1) = FirstNewEpochID
      BY <1>1, EpochIsUnique
    <2> QED BY <1>1, <1>3, <2>2, <2>3
  <1> QED BY <1>1, <1>2, <1>3

-------------------------------------------------------------------------------
(* The inductive invariant                                                   *)

\* The epoch the loop was launched in, with the head and the last event l
launchedIn(l) == IF l.height < DposForkPoint THEN None ELSE GetEpochFromHeight(l.height + 1)

\* lateFor, of a launch
isLate(eid, l) ==
    /\ eid > FirstNewEpochID
    /\ l.seen >= electionBlock(eid)
    /\ l.height < EndHeight(eid - 1)

\* The event that prepares the epoch after e was handled, up to block s.
isPrepared(e, s, l) == s >= electionBlock(e + 1) /\ ~isLate(e + 1, l)

\* What the agent has made of the blocks up to s
Phase(a, s, l) ==
    /\ AgentOK(a)
    /\ a.orphans = {}
    /\ IF launchedIn(l) = None /\ s < DposForkPoint THEN Waits(a)
       ELSE IF launchedIn(l) # None /\ s + 1 < BeginHeight(launchedIn(l))
            THEN Replays(a, launchedIn(l))
       ELSE LET e == GetEpochFromHeight(s + 1)
            IN  Follows(a, e, isLate(e, l), isPrepared(e, s, l))

\* A launch: the loop is behind the head, less than an epoch, and both have
\* only grown since.
Launch(l, s, h) ==
    /\ l.seen \in Nat /\ l.height \in Nat
    /\ l.seen <= l.height /\ l.height - l.seen <= NewEpochLength
    /\ l.seen <= s /\ l.height <= h

LoopInv == mode = "loop" => Phase(agent, seen, launched)

HeightsInv ==
    /\ seen \in Nat /\ height \in Nat /\ decided \in Nat
    /\ seen <= height /\ height <= decided /\ decided - seen <= MaxLag
    /\ mode = "down" => seen = height
    /\ IF mode = "loop" THEN Launch(launched, seen, height)
       ELSE agent = newAgent /\ proposal = NoProposal

InfosInv ==
    /\ FirstBlockNamesCommittee
    /\ \A e \in EpochIDs : BeginHeight(e) <= decided => e \in DOMAIN infos

\* The committee of an epoch is known from the block that elects it on.
LEMMA Validators ==
    ASSUME HeightsInv, InfosInv, NEW e \in EpochIDs
    PROVE  /\ height >= electionBlock(e) => getValidators(e) = elected[e]
           /\ getValidators(e) \in {elected[e], {}}
  <1>1. height >= BeginHeight(e) => infos[e] = elected[e]
    BY EpochLength DEF HeightsInv, InfosInv, FirstBlockNamesCommittee
  <1> QED BY <1>1 DEF getValidators, GetValidatorsByEpoch

\* An event before the first epoch
LEMMA WaitHandles ==
    ASSUME HeightsInv, InfosInv, seen < height, AgentOK(agent), agent.orphans = {}, Waits(agent),
           NEW l, Launch(l, seen, height), launchedIn(l) = None, seen < DposForkPoint
    PROVE  Phase(handled(seen + 1), seen + 1, l)
  <1> DEFINE num == seen + 1
             next == num + 1
             F == FirstNewEpochID
  <1>0. /\ seen \in Nat /\ height \in Nat /\ num \in Nat /\ next \in Nat /\ num <= height
        /\ DposForkPoint \in Nat /\ F \in Nat /\ F - 1 \in EpochIDs /\ F \in EpochIDs
        /\ F # F - 1 /\ F - 1 + 1 = F
    BY EpochsAssumption DEF HeightsInv, EpochIDs
  <1>1. /\ BeginHeight(F - 1) = 0 /\ EndHeight(F - 1) = DposForkPoint
        /\ BeginHeight(F) = DposForkPoint + 1 /\ EndHeight(F) = DposForkPoint + NewEpochLength
    BY <1>0, EpochLength, EpochsAssumption
  <1>2. GetEpochFromHeight(num) = F - 1
    BY SMTT(30), <1>0, <1>1, EpochIsUnique
  <1>3. CASE next = BeginHeight(F)
    <2>1. num = DposForkPoint /\ GetEpochFromHeight(next) = F
      BY <1>0, <1>1, <1>3, EpochIsUnique, EpochsAssumption
    <2>2. getValidators(F) = elected[F]
      <3>1. electionBlock(F) = DposForkPoint
        BY <1>0, <1>1 DEF electionBlock
      <3> QED BY <1>0, <2>1, <3>1, Validators
    <2>3. ~preparesNext(next, F)
      BY SMTT(30), <1>0, <1>3, PreparingHeight
    <2> DEFINE b == startEpoch(stopEpoch(prepare(agent, C(F)), F - 1), F)
    <2>4. handled(num) = b
      BY Zenon, <1>2, <1>3, <2>1, <2>2, <2>3 DEF handled, C
    <2>5. AgentOK(b) /\ b.orphans = {} /\ Follows(b, F, FALSE, FALSE)
      BY Zenon, WaitStarts
    <2> HIDE DEF b
    <2>6. ~isLate(F, l) /\ ~isPrepared(F, num, l)
      <3>1. electionBlock(F + 1) = EndHeight(F) - ElectionPoint
        BY SMTT(30), <1>0, ElectionHeight
      <3> QED BY <1>0, <1>1, <2>1, <3>1, HandoverAssumption, EpochsAssumption DEF isLate, isPrepared
    <2>7. Follows(b, F, isLate(F, l), isPrepared(F, num, l))
      BY <2>5, <2>6 DEF Follows
    <2>8. ~(num < DposForkPoint)
      BY <1>0, <2>1
    <2> QED BY <2>1, <2>4, <2>5, <2>7, <2>8 DEF Phase
  <1>4. CASE next # BeginHeight(F)
    <2>1. num < DposForkPoint /\ GetEpochFromHeight(next) = F - 1 /\ next # BeginHeight(F - 1)
      BY SMTT(30), <1>0, <1>1, <1>4, EpochIsUnique
    <2>2. CASE preparesNext(next, F - 1)
      <3> DEFINE b == prepare(agent, committee(F, getValidators(F)))
      <3>1. GetEpochFromHeight(next + NewEpochLength) = F
        BY Zenon, <1>0, <2>2, PreparingHeight
      <3>2. handled(num) = b
        BY Zenon, <1>4, <2>1, <2>2, <3>1 DEF handled
      <3>3. AgentOK(b) /\ b.orphans = {} /\ Waits(b)
        BY Zenon, <1>0, Validators, WaitPrepares
      <3> QED BY <2>1, <3>2, <3>3 DEF Phase
    <2>3. CASE ~preparesNext(next, F - 1)
      <3>1. handled(num) = agent
        BY <1>4, <2>1, <2>3 DEF handled
      <3> QED BY Zenon, <2>1, <3>1 DEF Phase
    <2> QED BY <2>2, <2>3
  <1> QED BY <1>3, <1>4

\* An event of the epoch before the one the loop was launched in
LEMMA ReplayHandles ==
    ASSUME HeightsInv, InfosInv, seen < height, AgentOK(agent), agent.orphans = {},
           NEW l, Launch(l, seen, height), launchedIn(l) # None,
           seen + 1 < BeginHeight(launchedIn(l)), Replays(agent, launchedIn(l))
    PROVE  Phase(handled(seen + 1), seen + 1, l)
  <1> DEFINE num == seen + 1
             next == num + 1
             F == FirstNewEpochID
             e == launchedIn(l)
  <1>0. /\ seen \in Nat /\ height \in Nat /\ num \in Nat /\ next \in Nat /\ num <= height
        /\ l.seen \in Nat /\ l.height \in Nat /\ l.height + 1 \in Nat
        /\ DposForkPoint \in Nat /\ F \in Nat
    BY SMTT(30), EpochsAssumption DEF HeightsInv, Launch
  <1>1. e = GetEpochFromHeight(l.height + 1) /\ ~(l.height < DposForkPoint)
    BY DEF launchedIn
  <1>2. /\ e \in EpochIDs /\ e \in Nat /\ e >= F /\ BeginHeight(e) \in Nat /\ EndHeight(e) \in Nat
        /\ BeginHeight(e) <= l.height + 1
    BY SMTT(30), <1>0, <1>1, NextHeight
  <1> HIDE DEF e
  <1>3. /\ e - 1 \in EpochIDs /\ e - 1 + 1 = e /\ e - 1 \in Nat
    BY <1>2, EpochsAssumption DEF EpochIDs
  <1>4. /\ EndHeight(e - 1) = BeginHeight(e) - 1 /\ EndHeight(e - 1) \in Nat
        /\ EndHeight(e) = BeginHeight(e) + NewEpochLength - 1
        /\ BeginHeight(e - 1) \in Nat
        /\ IF e = F THEN BeginHeight(e - 1) = 0 /\ BeginHeight(e) = DposForkPoint + 1
           ELSE BeginHeight(e - 1) = BeginHeight(e) - NewEpochLength
    <2>1. BeginHeight(e) = EndHeight(e - 1) + 1 /\ EndHeight(e - 1) \in Nat
      BY <1>3, EpochsAreAdjacent
    <2>2. /\ BeginHeight(e - 1) \in Nat
          /\ e = F => BeginHeight(e - 1) = 0 /\ BeginHeight(e) = DposForkPoint + 1
          /\ e - 1 >= F => EndHeight(e - 1) = BeginHeight(e - 1) + NewEpochLength - 1
          /\ EndHeight(e) = BeginHeight(e) + NewEpochLength - 1
      BY <1>2, <1>3, EpochLength
    <2>3. e # F => e - 1 >= F
      BY <1>0, <1>2
    <2> QED BY <1>2, <2>1, <2>2, <2>3, EpochsAssumption
  <1>5. num < BeginHeight(e) /\ BeginHeight(e - 1) <= num /\ num <= EndHeight(e - 1)
    BY SMTT(30), <1>0, <1>2, <1>4, EpochsAssumption DEF Launch, e
  <1>6. GetEpochFromHeight(num) = e - 1
    BY <1>0, <1>3, <1>5, EpochIsUnique
  <1>7. getValidators(e) = elected[e]
    <2>1. electionBlock(e) <= EndHeight(e - 1) /\ electionBlock(e) \in Int
      BY <1>3, ElectionHeight
    <2>2. height >= electionBlock(e)
      BY SMTT(30), <1>0, <1>2, <1>4, <2>1 DEF Launch
    <2> QED BY <1>2, <2>2, Validators
  <1>8. CASE next = BeginHeight(e)
    <2>1. GetEpochFromHeight(next) = e
      <3>1. next <= EndHeight(e)
        BY <1>2, <1>4, <1>8, EpochsAssumption
      <3> QED BY <1>0, <1>2, <1>8, <3>1, EpochIsUnique
    <2>2. ~preparesNext(next, e)
      BY <1>0, <1>2, <1>8, PreparingHeight
    <2> DEFINE a == IF next = BeginHeight(F) THEN prepare(agent, C(F)) ELSE agent
               b == startEpoch(stopEpoch(a, e - 1), e)
    <2>3. next = BeginHeight(F) => e = F
      <3>1. CASE e = F
        BY <3>1
      <3>2. CASE e # F
        <4>1. F \in EpochIDs /\ F < e
          BY <1>0, <1>2, <3>2, EpochsAssumption DEF EpochIDs
        <4>2. /\ EndHeight(F) < BeginHeight(e) /\ BeginHeight(F) \in Nat
              /\ EndHeight(F) = BeginHeight(F) + NewEpochLength - 1
          BY SMTT(30), <1>2, <4>1, EpochsAreOrdered, EpochLength
        <4> QED BY <1>2, <1>8, <4>2, EpochsAssumption
      <3> QED BY <3>1, <3>2
    <2>4. handled(num) = b
      <3>1. next = BeginHeight(F) => committee(F, getValidators(F)) = C(F)
        BY Zenon, <1>7, <2>3 DEF C
      <3> QED BY Zenon, <1>6, <1>8, <2>1, <2>2, <3>1 DEF handled
    <2>5. AgentOK(a) /\ a.orphans = {} /\ Replays(a, e)
      BY <2>3, ReplayPrepares DEF e
    <2> HIDE DEF a
    <2>6. AgentOK(b) /\ b.orphans = {} /\ Follows(b, e, FALSE, FALSE)
      BY Zenon, <1>2, <2>5, ReplayStarts
    <2> HIDE DEF b
    <2>7. ~isLate(e, l) /\ ~isPrepared(e, num, l)
      <3>1. electionBlock(e + 1) = EndHeight(e) - ElectionPoint
        BY <1>2, ElectionHeight
      <3>2. ~isPrepared(e, num, l)
        BY <1>0, <1>2, <1>4, <1>8, <3>1, HandoverAssumption, EpochsAssumption DEF isPrepared
      <3>3. ~isLate(e, l)
        BY <1>0, <1>2, <1>4 DEF isLate
      <3> QED BY <3>2, <3>3
    <2>8. Follows(b, e, isLate(e, l), isPrepared(e, num, l))
      BY Zenon, <2>6, <2>7 DEF Follows
    <2>9. ~(num + 1 < BeginHeight(e))
      BY SMTT(30), <1>2, <1>8
    <2> QED BY Zenon, <2>1, <2>4, <2>6, <2>8, <2>9 DEF Phase, e
  <1>9. CASE next # BeginHeight(e)
    <2>1. next < BeginHeight(e) /\ next <= EndHeight(e - 1) /\ next > BeginHeight(e - 1)
      BY <1>0, <1>2, <1>4, <1>5, <1>9
    <2>2. GetEpochFromHeight(next) = e - 1
      BY <1>0, <1>3, <1>4, <2>1, EpochIsUnique
    <2>3. next # BeginHeight(F) /\ next # BeginHeight(e - 1)
      <3>1. CASE e = F
        BY <1>4, <1>9, <2>1, <3>1
      <3>2. CASE e # F
        <4>1. e - 1 >= F /\ F \in EpochIDs /\ BeginHeight(F) = DposForkPoint + 1
          BY <1>0, <1>2, <3>2, EpochLength, EpochsAssumption DEF EpochIDs
        <4>2. BeginHeight(e - 1) >= DposForkPoint + 1
          BY Zenon, <1>0, <1>6, <4>1, NextHeight
        <4> QED BY <1>0, <1>4, <2>1, <4>1, <4>2
      <3> QED BY <3>1, <3>2
    <2>4. CASE preparesNext(next, e - 1)
      <3> DEFINE b == prepare(agent, C(e))
      <3>1. GetEpochFromHeight(next + NewEpochLength) = e
        BY Zenon, <1>0, <1>3, <2>4, PreparingHeight
      <3>2. handled(num) = b
        BY Zenon, <1>7, <2>2, <2>3, <2>4, <3>1 DEF handled, C
      <3>3. AgentOK(b) /\ b.orphans = {} /\ Replays(b, e)
        BY Zenon, ReplayPrepares DEF e
      <3> QED BY Zenon, <2>1, <3>2, <3>3 DEF Phase, e
    <2>5. CASE ~preparesNext(next, e - 1)
      <3>1. handled(num) = agent
        BY Zenon, <2>2, <2>3, <2>5 DEF handled
      <3> QED BY Zenon, <2>1, <3>1 DEF Phase, e
    <2> QED BY Zenon, <2>4, <2>5
  <1> QED BY <1>8, <1>9

\* An event once the loop follows the epochs
LEMMA FollowHandles ==
    ASSUME HeightsInv, InfosInv, seen < height, AgentOK(agent), agent.orphans = {},
           NEW l, Launch(l, seen, height),
           ~(launchedIn(l) = None /\ seen < DposForkPoint),
           ~(launchedIn(l) # None /\ seen + 1 < BeginHeight(launchedIn(l))),
           NEW e, e = GetEpochFromHeight(seen + 1),
           Follows(agent, e, isLate(e, l), isPrepared(e, seen, l))
    PROVE  Phase(handled(seen + 1), seen + 1, l)
  <1> DEFINE num == seen + 1
             next == num + 1
             F == FirstNewEpochID
  <1>0. /\ seen \in Nat /\ height \in Nat /\ num \in Nat /\ next \in Nat /\ num <= height
        /\ l.seen \in Nat /\ l.height \in Nat /\ l.seen <= seen
        /\ DposForkPoint \in Nat /\ F \in Nat /\ F \in EpochIDs /\ BeginHeight(F) = DposForkPoint + 1
    BY SMTT(30), EpochsAssumption, EpochLength DEF HeightsInv, Launch, EpochIDs
  <1>1. num > DposForkPoint
    <2>1. CASE launchedIn(l) = None
      BY <1>0, <2>1
    <2>2. CASE launchedIn(l) # None
      <3>1. launchedIn(l) = GetEpochFromHeight(l.height + 1) /\ ~(l.height < DposForkPoint)
        BY <2>2 DEF launchedIn
      <3>2. l.height + 1 \in Nat /\ l.height + 1 > DposForkPoint
        BY SMTT(30), <1>0, <3>1
      <3>3. BeginHeight(launchedIn(l)) >= DposForkPoint + 1 /\ BeginHeight(launchedIn(l)) \in Nat
        BY Zenon, <3>1, <3>2, NextHeight
      <3> QED BY SMTT(30), <1>0, <2>2, <3>3
    <2> QED BY <2>1, <2>2
  <1>2. /\ e \in EpochIDs /\ e \in Nat /\ BeginHeight(e) \in Nat /\ EndHeight(e) \in Nat
        /\ BeginHeight(e) <= num /\ num <= EndHeight(e)
        /\ e + 1 \in EpochIDs /\ BeginHeight(e + 1) = EndHeight(e) + 1
        /\ EndHeight(e + 1) = EndHeight(e) + NewEpochLength
        /\ GetEpochFromHeight(next) = IF num = EndHeight(e) THEN e + 1 ELSE e
        /\ e >= F /\ e + 1 >= F
    <2>1. /\ e \in EpochIDs /\ e \in Nat /\ BeginHeight(e) \in Nat /\ EndHeight(e) \in Nat
          /\ BeginHeight(e) <= num /\ num <= EndHeight(e)
          /\ e + 1 \in EpochIDs /\ BeginHeight(e + 1) = EndHeight(e) + 1
          /\ EndHeight(e + 1) = EndHeight(e) + NewEpochLength
          /\ GetEpochFromHeight(next) = IF num = EndHeight(e) THEN e + 1 ELSE e
          /\ num > DposForkPoint <=> e >= F
      <3>1. num \in Nat /\ e = GetEpochFromHeight(num) /\ next = num + 1
        BY <1>0
      <3> HIDE DEF num, next
      <3> QED BY Zenon, <3>1, NextHeight
    <2> QED BY SMTT(30), <1>0, <1>1, <2>1
  <1>3. /\ electionBlock(e + 1) = EndHeight(e) - ElectionPoint
        /\ electionBlock(e + 1 + 1) = EndHeight(e + 1) - ElectionPoint
        /\ ElectionPoint \in 1 .. (NewEpochLength - 1)
    BY Zenon, <1>2, ElectionHeight, HandoverAssumption
  <1>4. isLate(e, l) \in BOOLEAN /\ isPrepared(e, seen, l) \in BOOLEAN
    BY DEF isLate, isPrepared
  <1>5. next # BeginHeight(F)
    BY <1>0, <1>1
  <1>6. /\ ~(launchedIn(l) = None /\ num < DposForkPoint)
        /\ ~(launchedIn(l) # None /\ num + 1 < BeginHeight(launchedIn(l)))
    <2>1. launchedIn(l) # None => BeginHeight(launchedIn(l)) \in Nat
      <3>1. l.height + 1 \in Nat
        BY SMTT(30), <1>0
      <3>2. BeginHeight(GetEpochFromHeight(l.height + 1)) \in Nat
        BY SMTT(30), <3>1, NextHeight
      <3> QED BY SMTT(30), <3>2 DEF launchedIn
    <2> QED BY SMTT(30), <1>0, <2>1
  <1>7. CASE num = EndHeight(e)
    <2> DEFINE b == startEpoch(stopEpoch(agent, e), e + 1)
    <2>1. GetEpochFromHeight(next) = e + 1 /\ next = BeginHeight(e + 1)
      BY Zenon, <1>2, <1>7
    <2>2. ~preparesNext(next, e + 1)
      BY Zenon, <1>0, <1>2, <2>1, PreparingHeight
    <2>3. handled(num) = b
      BY Zenon, <1>5, <2>1, <2>2 DEF handled
    <2>4. AgentOK(b) /\ b.orphans = {} /\ Follows(b, e + 1, ~isPrepared(e, seen, l), FALSE)
      BY Zenon, <1>2, <1>4, FollowStarts
    <2> HIDE DEF b
    <2>5. seen >= electionBlock(e + 1) /\ ~(num >= electionBlock(e + 1 + 1))
      <3> DEFINE end == EndHeight(e)
      <3>1. num = end
        BY Zenon, <1>7
      <3>2. /\ electionBlock(e + 1) = end - ElectionPoint
            /\ electionBlock(e + 1 + 1) = (end + NewEpochLength) - ElectionPoint
        BY Zenon, <1>2, <1>3
      <3>3. end \in Nat /\ seen \in Nat
        BY Zenon, <1>0, <1>2
      <3>4. NewEpochLength \in Nat
        BY EpochsAssumption
      <3>5. ElectionPoint \in Nat /\ 1 <= ElectionPoint /\ ElectionPoint < NewEpochLength
        BY <1>3, <3>4
      <3>6. seen + 1 = end
        BY Zenon, <3>1
      <3> HIDE DEF end
      <3>7. seen >= end - ElectionPoint
        BY <3>3, <3>5, <3>6
      <3>8. ~(end >= (end + NewEpochLength) - ElectionPoint)
        BY <3>3, <3>4, <3>5
      <3> QED BY Zenon, <3>1, <3>2, <3>7, <3>8
    <2>6. (~isPrepared(e, seen, l)) = isLate(e + 1, l) /\ isPrepared(e + 1, num, l) = FALSE
      BY Zenon, <2>5 DEF isPrepared, isLate
    <2>7. Follows(b, e + 1, isLate(e + 1, l), isPrepared(e + 1, num, l))
      BY Zenon, <2>4, <2>6
    <2> QED BY Zenon, <1>6, <2>1, <2>3, <2>4, <2>7 DEF Phase
  <1>8. CASE num # EndHeight(e)
    <2>1. GetEpochFromHeight(next) = e /\ next # BeginHeight(e)
      BY SMTT(30), <1>0, <1>2, <1>8
    <2>2. CASE preparesNext(next, e)
      <3> DEFINE b == prepare(agent, C(e + 1))
      <3>1. GetEpochFromHeight(next + NewEpochLength) = e + 1
        BY <1>0, <1>2, <2>2, PreparingHeight
      <3>2. num = electionBlock(e + 1)
        BY SMTT(30), <1>0, <1>2, <1>3, <2>2 DEF preparesNext
      <3>3. getValidators(e + 1) = elected[e + 1]
        BY Zenon, <1>0, <1>2, <3>2, Validators
      <3>4. handled(num) = b
        BY Zenon, <1>5, <2>1, <2>2, <3>1, <3>3 DEF handled, C
      <3>5. ~isPrepared(e, seen, l) /\ isPrepared(e, num, l)
        BY SMTT(30), <1>0, <3>2 DEF isPrepared, isLate
      <3>6. isPrepared(e, seen, l) = FALSE /\ isPrepared(e, num, l) = TRUE
        BY Zenon, <3>5 DEF isPrepared
      <3>7. AgentOK(b) /\ b.orphans = {} /\ Follows(b, e, isLate(e, l), TRUE)
        BY Zenon, <1>2, <1>4, <3>6, FollowPrepares
      <3> HIDE DEF b
      <3>8. Follows(b, e, isLate(e, l), isPrepared(e, num, l))
        BY Zenon, <3>6, <3>7
      <3> QED BY Zenon, <1>6, <2>1, <3>4, <3>7, <3>8 DEF Phase
    <2>3. CASE ~preparesNext(next, e)
      <3>1. handled(num) = agent
        BY Zenon, <1>5, <2>1, <2>3 DEF handled
      <3>2. num # electionBlock(e + 1) /\ electionBlock(e + 1) \in Int
        BY <1>0, <1>2, <1>3, <2>3 DEF preparesNext
      <3>3. seen >= electionBlock(e + 1) <=> num >= electionBlock(e + 1)
        BY <1>0, <3>2
      <3>4. isPrepared(e, num, l) = isPrepared(e, seen, l)
        BY Zenon, <3>3 DEF isPrepared
      <3> QED BY <1>6, <2>1, <3>1, <3>4 DEF Phase
    <2> QED BY <2>2, <2>3
  <1> QED BY Zenon, <1>7, <1>8


-------------------------------------------------------------------------------
(* Handover *)

\* A phase is kept by a step that elects nobody.
LEMMA PhaseKept ==
    ASSUME elected' = elected, NEW a, NEW s, NEW l, agent' = a, seen' = s, launched' = l,
           Phase(a, s, l)
    PROVE  Phase(agent, seen, launched)'
  BY Zenon DEF Phase, Waits, Replays, Follows, C, W, serves

\* The block in the making: it is that of the running service, within its
\* epoch once it has a number, and names the committee if it is the first.
ProposalOK(p, h, a) ==
    \E id, members, number :
        /\ p = [id |-> id, infos |-> members, number |-> number]
        /\ id \in running(a)
        /\ IF number = None
           THEN h + 1 = BeginHeight(id) => members = elected[id]
           ELSE /\ number \in BeginHeight(id) .. EndHeight(id)
                /\ number = BeginHeight(id) => members = elected[id]

ProposalInv == proposal = NoProposal \/ ProposalOK(proposal, height, agent)

HandoverInv == HeightsInv /\ InfosInv /\ LoopInv /\ ProposalInv

\* Only the service of an epoch that has begun, or whose first block is next,
\* is running, with the elected committee.
LEMMA RunningService ==
    ASSUME HeightsInv, LoopInv, NEW id \in running(agent)
    PROVE  /\ mode = "loop" /\ id \in EpochIDs /\ id >= FirstNewEpochID
           /\ agent.services[id] = Service(id, elected[id], "running")
           /\ BeginHeight(id) \in Nat /\ BeginHeight(id) <= height + 1
           /\ EndHeight(id) \in Nat /\ EndHeight(id) > 0
  <1>1. id \in DOMAIN agent.services /\ agent.services[id].state = "running"
    BY DEF running
  <1>2. mode = "loop"
    BY <1>1 DEF HeightsInv, newAgent, noEntries
  <1>3. Phase(agent, seen, launched) /\ Launch(launched, seen, height) /\ seen \in Nat /\ height \in Nat
        /\ seen <= height
    BY Zenon, <1>2 DEF LoopInv, HeightsInv
  <1>4. ASSUME NEW e \in EpochIDs, id = e, agent.services[e] = Service(e, elected[e], "running"),
               NEW h \in Nat, e = GetEpochFromHeight(h), h <= height + 1, h > DposForkPoint
        PROVE  /\ id \in EpochIDs /\ id >= FirstNewEpochID
               /\ agent.services[id] = Service(id, elected[id], "running")
               /\ BeginHeight(id) \in Nat /\ BeginHeight(id) <= height + 1
               /\ EndHeight(id) \in Nat /\ EndHeight(id) > 0
    <2>1. /\ BeginHeight(e) \in Nat /\ EndHeight(e) \in Nat /\ BeginHeight(e) <= h /\ h <= EndHeight(e)
          /\ e >= FirstNewEpochID
      BY <1>4, NextHeight
    <2> QED BY <1>3, <1>4, <2>1, EpochsAssumption
  <1>5. CASE launchedIn(launched) = None /\ seen < DposForkPoint
    <2>1. Waits(agent)
      BY Zenon, <1>3, <1>5 DEF Phase
    <2> QED BY SMTT(30), <1>1, <2>1 DEF Waits, Service
  <1>6. CASE launchedIn(launched) # None /\ seen + 1 < BeginHeight(launchedIn(launched))
    <2> DEFINE e == launchedIn(launched)
               h == launched.height + 1
    <2>1. Replays(agent, e)
      BY <1>3, <1>6 DEF Phase
    <2>2. e = GetEpochFromHeight(h) /\ h \in Nat /\ h <= height + 1 /\ h > DposForkPoint
      BY <1>3, <1>6, EpochsAssumption DEF launchedIn, Launch
    <2>3. e \in EpochIDs
      BY Zenon, <2>2, HeightIsInItsEpoch
    <2>4. id = e /\ agent.services[e] = Service(e, elected[e], "running")
      BY <1>1, <2>1 DEF Replays
    <2> HIDE DEF e, h
    <2> QED BY Zenon, <1>2, <1>4, <2>2, <2>3, <2>4
  <1>7. CASE /\ ~(launchedIn(launched) = None /\ seen < DposForkPoint)
             /\ ~(launchedIn(launched) # None /\ seen + 1 < BeginHeight(launchedIn(launched)))
    <2> DEFINE h == seen + 1
               e == GetEpochFromHeight(h)
    <2>1. Follows(agent, e, isLate(e, launched), isPrepared(e, seen, launched))
      BY Zenon, <1>3, <1>7 DEF Phase
    <2>2. h \in Nat /\ h <= height + 1
      BY <1>3
    <2>3. h > DposForkPoint
      <3>1. CASE launchedIn(launched) = None
        BY <1>3, <1>7, <3>1, EpochsAssumption
      <3>2. CASE launchedIn(launched) # None
        <4>1. /\ launchedIn(launched) = GetEpochFromHeight(launched.height + 1)
              /\ launched.height + 1 \in Nat /\ launched.height + 1 > DposForkPoint
          BY <1>3, <3>2, EpochsAssumption DEF launchedIn, Launch
        <4>2. /\ BeginHeight(launchedIn(launched)) >= DposForkPoint + 1
              /\ BeginHeight(launchedIn(launched)) \in Nat
          BY <4>1, NextHeight
        <4> QED BY <1>3, <1>7, <3>2, <4>2, EpochsAssumption
      <3> QED BY <3>1, <3>2
    <2>4. e \in EpochIDs
      BY Zenon, <2>2, HeightIsInItsEpoch
    <2> HIDE DEF e
    <2>5. id = e /\ agent.services[e] = Service(e, elected[e], "running")
      <3>1. id # e + 1
        BY SMTT(30), <1>1, <2>1 DEF Follows, Service
      <3>2. id = agent.servicePre /\ id # None
        BY Zenon, <1>1, <2>1, <3>1 DEF Follows
      <3> QED BY Zenon, <1>1, <2>1, <3>2 DEF Follows
    <2> HIDE DEF h
    <2>6. e = GetEpochFromHeight(h)
      BY Zenon DEF e
    <2> QED BY Zenon, <1>2, <1>4, <2>2, <2>3, <2>4, <2>5, <2>6
  <1> QED BY <1>5, <1>6, <1>7

\* The agent of a node that has started nothing
LEMMA NewAgent == Waits(newAgent) /\ AgentOK(newAgent) /\ newAgent.orphans = {}
  <1>1. newAgent = Agent(NoCommittee, NoCommittee, FALSE, <<NoWork, NoWork>>, 2, noEntries, None,
                         {}, noEntries)
    BY DEF newAgent, Agent
  <1> DEFINE two == <<NoWork, NoWork>>
  <1>2. two = [w \in 1..2 |-> two[w]] /\ 2 \in 1..2
    OBVIOUS
  <1> HIDE DEF two
  <1>3. AgentOK(Agent(NoCommittee, NoCommittee, FALSE, two, 2, noEntries, None, {}, noEntries))
    BY Zenon, <1>2, AgentRecord
  <1>4. AgentOK(newAgent)
    BY Zenon, <1>1, <1>3 DEF two
  <1> QED BY Zenon, <1>4 DEF newAgent, noEntries, Waits

\* The launch: the loop waits, replays or follows at once.
LEMMA LaunchPhase ==
    ASSUME HeightsInv, InfosInv
    PROVE  LET a == IF launchEpoch = None THEN newAgent
                    ELSE startEpoch(prepare(newAgent, committee(launchEpoch,
                                        GetValidatorsByEpoch(height, launchEpoch))), launchEpoch)
           IN  Phase(a, seen, [seen |-> seen, height |-> height])
  <1> DEFINE l == [seen |-> seen, height |-> height]
             e == GetEpochFromHeight(height + 1)
             b == startEpoch(prepare(newAgent, C(e)), e)
             a == IF launchEpoch = None THEN newAgent
                  ELSE startEpoch(prepare(newAgent, committee(launchEpoch,
                                      GetValidatorsByEpoch(height, launchEpoch))), launchEpoch)
  <1>0. /\ seen \in Nat /\ height \in Nat /\ seen <= height /\ height + 1 \in Nat /\ seen + 1 \in Nat
        /\ DposForkPoint \in Nat /\ FirstNewEpochID \in Nat
    BY EpochsAssumption DEF HeightsInv
  <1>1. launchEpoch = launchedIn(l)
    BY Zenon, <1>0, LaunchEpochIs DEF launchedIn
  <1>2. CASE height < DposForkPoint
    <2>1. launchedIn(l) = None /\ seen < DposForkPoint
      BY <1>0, <1>2 DEF launchedIn
    <2> QED BY Zenon, <1>1, <2>1, NewAgent DEF Phase
  <1>3. CASE ~(height < DposForkPoint)
    <2>1. launchedIn(l) = e
      BY <1>3 DEF launchedIn
    <2>2. /\ e \in EpochIDs /\ e \in Nat /\ BeginHeight(e) \in Nat /\ EndHeight(e) \in Nat
          /\ BeginHeight(e) <= height + 1 /\ height + 1 <= EndHeight(e)
          /\ height + 1 > DposForkPoint <=> e >= FirstNewEpochID
      BY <1>0, NextHeight
    <2>3. e >= FirstNewEpochID /\ e # None
      BY <1>0, <1>3, <2>2 DEF None
    <2>4. e - 1 \in EpochIDs /\ e - 1 + 1 = e
      BY <2>2, <2>3, EpochsAssumption DEF EpochIDs
    <2>5. electionBlock(e) <= EndHeight(e - 1) /\ electionBlock(e) \in Int
          /\ BeginHeight(e) = EndHeight(e - 1) + 1 /\ EndHeight(e - 1) \in Nat
      BY <2>4, ElectionHeight, EpochsAreAdjacent
    <2>6. GetValidatorsByEpoch(height, e) = elected[e]
      BY <1>0, <2>2, <2>5 DEF GetValidatorsByEpoch
    <2>7. a = b
      BY Zenon, <1>1, <2>1, <2>3, <2>6 DEF C
    <2>8. AgentOK(b) /\ b.orphans = {} /\ Replays(b, e) /\ Follows(b, e, FALSE, FALSE)
      BY Zenon, <2>2, <2>3, LaunchFollows
    <2> HIDE DEF a, b
    <2>9. CASE seen + 1 < BeginHeight(e)
      BY Zenon, <2>1, <2>3, <2>7, <2>8, <2>9 DEF Phase, a
    <2>10. CASE ~(seen + 1 < BeginHeight(e))
      <3>1. GetEpochFromHeight(seen + 1) = e
        <4>1. BeginHeight(e) <= seen + 1 /\ seen + 1 <= EndHeight(e)
          BY <1>0, <2>2, <2>10
        <4> QED BY <1>0, <2>2, <4>1, EpochIsUnique
      <3>2. ~isLate(e, l)
        BY <1>0, <2>2, <2>5 DEF isLate
      <3>3. ~isPrepared(e, seen, l)
        <4>1. e + 1 > FirstNewEpochID /\ e + 1 - 1 = e /\ height < EndHeight(e)
          BY <1>0, <2>2, <2>3
        <4>2. l.seen = seen /\ l.height = height
          OBVIOUS
        <4>3. electionBlock(e + 1) \in Int
          BY Zenon, <2>2, ElectionHeight
        <4> HIDE DEF e, l
        <4> QED BY <1>0, <2>2, <4>1, <4>2, <4>3 DEF isPrepared, isLate
      <3>4. Follows(b, e, isLate(e, l), isPrepared(e, seen, l))
        BY Zenon, <2>8, <3>2, <3>3 DEF Follows
      <3> QED BY Zenon, <2>1, <2>3, <2>7, <2>8, <2>10, <3>1, <3>4 DEF Phase, a
    <2> QED BY <2>9, <2>10
  <1> QED BY <1>2, <1>3

\* The invariant holds at the start.
LEMMA InitHandover == Init => HandoverInv
  <1> SUFFICES ASSUME Init PROVE HandoverInv
    OBVIOUS
  <1>1. HeightsInv
    BY HandoverAssumption DEF Init, HeightsInv
  <1>2. DOMAIN infos = {FirstNewEpochID - 1} /\ infos[FirstNewEpochID - 1] = elected[FirstNewEpochID - 1]
    BY DEF Init, set, noEntries
  <1>3. \A e \in EpochIDs : BeginHeight(e) <= decided => e \in DOMAIN infos
    <2> SUFFICES ASSUME NEW e \in EpochIDs, BeginHeight(e) <= 0
                 PROVE  e = FirstNewEpochID - 1
      BY <1>2 DEF Init
    <2>1. BeginHeight(e) \in Nat /\ EndHeight(e) \in Nat
      BY EpochLength
    <2>2. CASE e = FirstNewEpochID - 1
      BY <2>2
    <2>3. CASE e # FirstNewEpochID - 1
      <3>1. FirstNewEpochID - 1 \in EpochIDs /\ FirstNewEpochID - 1 < e
        BY <2>3, EpochsAssumption DEF EpochIDs
      <3>2. EndHeight(FirstNewEpochID - 1) < BeginHeight(e) /\ EndHeight(FirstNewEpochID - 1) \in Nat
        BY <3>1, EpochsAreOrdered, EpochLength
      <3> QED BY <2>1, <3>2
    <2> QED BY <2>2, <2>3
  <1>4. InfosInv
    BY <1>2, <1>3 DEF InfosInv, FirstBlockNamesCommittee
  <1> QED BY <1>1, <1>4 DEF Init, HandoverInv, LoopInv, ProposalInv

\* A decided block keeps what the switch infos say, if its own are right.
LEMMA DecideKeepsInfos ==
    ASSUME InfosInv, decided \in Nat, elected' = elected, NEW members, decide(decided + 1, members),
           decided + 1 = BeginHeight(GetEpochFromHeight(decided + 1)) =>
               members = elected[GetEpochFromHeight(decided + 1)]
    PROVE  InfosInv'
  <1> DEFINE n == decided + 1
             eid == GetEpochFromHeight(n)
  <1>1. n \in Nat /\ decided' = n
    BY DEF decide
  <1>2. infos' = IF n = BeginHeight(eid) THEN set(infos, eid, members) ELSE infos
    BY DEF decide
  <1> HIDE DEF eid
  <1>3. FirstBlockNamesCommittee'
    <2>1. \A e \in DOMAIN infos' : infos'[e] = elected'[e]
      BY <1>2 DEF InfosInv, FirstBlockNamesCommittee, set, eid
    <2> QED BY <2>1 DEF FirstBlockNamesCommittee
  <1>4. ASSUME NEW e \in EpochIDs, BeginHeight(e) <= n
        PROVE  e \in DOMAIN infos'
    <2>1. CASE BeginHeight(e) <= decided
      BY <1>2, <2>1 DEF InfosInv, set
    <2>2. CASE ~(BeginHeight(e) <= decided)
      <3>1. BeginHeight(e) = n /\ n <= EndHeight(e)
        <4>1. BeginHeight(e) \in Nat /\ EndHeight(e) \in Nat /\ BeginHeight(e) <= EndHeight(e)
          BY EpochLength, EpochsAssumption DEF EpochIDs
        <4> QED BY <1>4, <2>2, <4>1
      <3>2. eid = e
        BY <1>1, <3>1, EpochIsUnique DEF eid
      <3> QED BY <1>2, <3>1, <3>2 DEF set
    <2> QED BY <2>1, <2>2
  <1> QED BY <1>1, <1>3, <1>4 DEF InfosInv

\* Nothing that the invariant of the switch infos is about changes.
LEMMA QuietKeepsInfos ==
    ASSUME InfosInv, UNCHANGED <<elected, decided, infos>>
    PROVE  InfosInv'
  BY DEF InfosInv, FirstBlockNamesCommittee

\* The proposal is the same, or there is none; the head is the same, or the
\* epoch of the proposal has begun.
LEMMA ProposalKept ==
    ASSUME ProposalInv, elected' = elected,
           proposal' \in {proposal, NoProposal},
           proposal' = NoProposal \/ \A id \in running(agent) : id = proposal.id => id \in running(agent'),
           proposal' = NoProposal \/ height' = height
             \/ \A id \in running(agent) : height' + 1 # BeginHeight(id)
    PROVE  ProposalInv'
  <1>1. CASE proposal' = NoProposal
    BY <1>1 DEF ProposalInv
  <1>2. CASE proposal' # NoProposal
    <2>1. proposal' = proposal /\ ProposalOK(proposal, height, agent)
      BY <1>2 DEF ProposalInv
    <2>2. PICK id, members, number :
            /\ proposal = [id |-> id, infos |-> members, number |-> number]
            /\ id \in running(agent)
            /\ IF number = None
               THEN height + 1 = BeginHeight(id) => members = elected[id]
               ELSE /\ number \in BeginHeight(id) .. EndHeight(id)
                    /\ number = BeginHeight(id) => members = elected[id]
      BY Zenon, <2>1 DEF ProposalOK
    <2>3. id \in running(agent')
      BY <1>2, <2>2
    <2>4. number = None => (height' + 1 = BeginHeight(id) => members = elected[id])
      BY <1>2, <2>2
    <2>5. ProposalOK(proposal, height, agent)'
      BY Zenon, <2>1, <2>2, <2>3, <2>4 DEF ProposalOK
    <2> QED BY <2>5 DEF ProposalInv
  <1> QED BY <1>1, <1>2

\* The steps of the loop
LEMMA LoopStep ==
    ASSUME HandoverInv, launch \/ chainHead
    PROVE  HandoverInv'
  <1> USE DEF HandoverInv
  <1>1. CASE launch
    <2>1. mode = "starting" /\ mode' = "loop" /\ launched' = [seen |-> seen, height |-> height]
          /\ UNCHANGED <<elected, decided, infos, height, seen, proposal>>
      BY <1>1 DEF launch
    <2>2. proposal = NoProposal
      BY <2>1 DEF HeightsInv
    <2>3. HeightsInv'
      <3>1. seen \in Nat /\ height \in Nat /\ seen <= height /\ height - seen <= NewEpochLength
        BY EpochsAssumption, HandoverAssumption DEF HeightsInv
      <3>2. Launch(launched', seen, height)
        BY <2>1, <3>1 DEF Launch
      <3> QED BY <2>1, <3>2 DEF HeightsInv
    <2>4. InfosInv'
      BY <2>1, QuietKeepsInfos
    <2>5. LoopInv'
      <3> DEFINE a == IF launchEpoch = None THEN newAgent
                      ELSE startEpoch(prepare(newAgent, committee(launchEpoch,
                                          GetValidatorsByEpoch(height, launchEpoch))), launchEpoch)
      <3>1. agent' = a
        BY <1>1 DEF launch
      <3>2. Phase(a, seen, [seen |-> seen, height |-> height])
        BY LaunchPhase
      <3> HIDE DEF a
      <3>3. Phase(agent, seen, launched)'
        BY <2>1, <3>1, <3>2, PhaseKept
      <3> QED BY <3>3 DEF LoopInv
    <2>6. ProposalInv'
      BY <2>1, <2>2 DEF ProposalInv
    <2> QED BY <2>3, <2>4, <2>5, <2>6
  <1>2. CASE chainHead
    <2>1. /\ mode = "loop" /\ seen < height /\ seen' = seen + 1 /\ agent' = handled(seen + 1)
          /\ UNCHANGED <<elected, decided, infos, height, mode, launched>>
          /\ proposal' = IF proposal.id \in running(agent') THEN proposal ELSE NoProposal
      BY <1>2 DEF chainHead
    <2>2. Phase(agent, seen, launched) /\ Launch(launched, seen, height)
      BY <2>1 DEF LoopInv, HeightsInv
    <2>3. HeightsInv'
      <3>1. seen \in Nat /\ height \in Nat /\ seen + 1 <= height /\ seen + 1 \in Nat
        BY <2>1 DEF HeightsInv
      <3>2. Launch(launched, seen + 1, height)
        BY <2>2, <3>1 DEF Launch
      <3>3. decided \in Nat /\ decided - (seen + 1) <= MaxLag
        BY <3>1, HandoverAssumption DEF HeightsInv
      <3> QED BY <2>1, <3>1, <3>2, <3>3 DEF HeightsInv
    <2>4. InfosInv'
      BY <2>1, QuietKeepsInfos
    <2>5. LoopInv'
      <3> DEFINE b == handled(seen + 1)
      <3>1. Phase(b, seen + 1, launched)
        <4>1. AgentOK(agent) /\ agent.orphans = {}
          BY Zenon, <2>2 DEF Phase
        <4>2. CASE launchedIn(launched) = None /\ seen < DposForkPoint
          BY Zenon, <2>1, <2>2, <4>1, <4>2, WaitHandles DEF Phase
        <4>3. CASE launchedIn(launched) # None /\ seen + 1 < BeginHeight(launchedIn(launched))
          BY Zenon, <2>1, <2>2, <4>1, <4>3, ReplayHandles DEF Phase
        <4>4. CASE /\ ~(launchedIn(launched) = None /\ seen < DposForkPoint)
                   /\ ~(launchedIn(launched) # None /\ seen + 1 < BeginHeight(launchedIn(launched)))
          <5> DEFINE e == GetEpochFromHeight(seen + 1)
          <5>1. Follows(agent, e, isLate(e, launched), isPrepared(e, seen, launched))
            BY Zenon, <2>2, <4>4 DEF Phase
          <5> QED BY Zenon, <2>1, <2>2, <4>1, <4>4, <5>1, FollowHandles
        <4> QED BY Zenon, <4>2, <4>3, <4>4
      <3>2. agent' = b
        BY <2>1
      <3> HIDE DEF b
      <3>3. Phase(agent, seen, launched)'
        BY <2>1, <3>1, <3>2, PhaseKept
      <3> QED BY <3>3 DEF LoopInv
    <2>6. ProposalInv'
      BY <2>1, ProposalKept
    <2> QED BY <2>3, <2>4, <2>5, <2>6
  <1> QED BY <1>1, <1>2

\* The loop sees nothing of the other steps, unless the process ends.
LEMMA QuietKeepsLoop ==
    ASSUME LoopInv, elected' = elected, mode' # "loop" \/ UNCHANGED <<mode, agent, seen, launched>>
    PROVE  LoopInv'
  <1>1. CASE mode' # "loop"
    BY <1>1 DEF LoopInv
  <1>2. CASE mode' = "loop"
    <2>1. mode = "loop" /\ agent' = agent /\ seen' = seen /\ launched' = launched
      BY <1>2
    <2>2. Phase(agent, seen, launched)
      BY <2>1 DEF LoopInv
    <2>3. Phase(agent, seen, launched)'
      BY <2>1, <2>2, PhaseKept
    <2> QED BY <2>3 DEF LoopInv
  <1> QED BY <1>1, <1>2

\* The steps of the running service
LEMMA ServiceStep ==
    ASSUME HandoverInv, createProposalBlock \/ FetchFastBlock \/ BroadcastConsensus
    PROVE  HandoverInv'
  <1> USE DEF HandoverInv
  <1>1. CASE createProposalBlock
    <2>1. UNCHANGED <<elected, decided, infos, height, seen, mode, launched, agent>> /\ mode = "loop"
      BY <1>1 DEF createProposalBlock
    <2>2. HeightsInv' /\ InfosInv' /\ LoopInv'
      BY Zenon, <2>1, QuietKeepsInfos, QuietKeepsLoop DEF HeightsInv
    <2>3. PICK id \in running(agent) :
            proposal' = [id |-> id, number |-> None,
                         infos |-> IF height + 1 = BeginHeight(id)
                                   THEN agent.services[id].members ELSE {}]
      BY <1>1 DEF createProposalBlock
    <2>4. agent.services[id].members = elected[id]
      <3>1. agent.services[id] = Service(id, elected[id], "running")
        BY Zenon, RunningService
      <3> QED BY <3>1 DEF Service
    <2> DEFINE members == IF height + 1 = BeginHeight(id) THEN elected[id] ELSE {}
    <2>5. proposal' = [id |-> id, infos |-> members, number |-> None]
      BY <2>3, <2>4
    <2>6. height + 1 = BeginHeight(id) => members = elected[id]
      OBVIOUS
    <2> HIDE DEF members
    <2>7. ProposalOK(proposal, height, agent)'
      BY Zenon, <2>1, <2>5, <2>6 DEF ProposalOK
    <2> QED BY Zenon, <2>2, <2>7 DEF ProposalInv
  <1>2. CASE FetchFastBlock
    <2>1. /\ UNCHANGED <<elected, decided, infos, height, seen, mode, launched, agent>>
          /\ proposal # NoProposal /\ proposal.number = None
      BY <1>2 DEF FetchFastBlock
    <2>2. HeightsInv' /\ InfosInv' /\ LoopInv'
      BY <2>1, QuietKeepsInfos, QuietKeepsLoop DEF HeightsInv
    <2>3. PICK id, members, number :
            /\ proposal = [id |-> id, infos |-> members, number |-> number]
            /\ id \in running(agent)
            /\ IF number = None
               THEN height + 1 = BeginHeight(id) => members = elected[id]
               ELSE /\ number \in BeginHeight(id) .. EndHeight(id)
                    /\ number = BeginHeight(id) => members = elected[id]
      BY <2>1 DEF ProposalInv, ProposalOK
    <2>4. CASE proposal' = NoProposal
      BY <2>2, <2>4 DEF ProposalInv
    <2>5. CASE proposal' # NoProposal
      <3>1. /\ proposal' = [id |-> id, infos |-> members, number |-> height + 1]
            /\ inRange(id, height + 1)
        BY Zenon, <1>2, <2>3, <2>5 DEF FetchFastBlock
      <3>2. /\ agent.services[id].end = EndHeight(id) /\ EndHeight(id) > 0
            /\ BeginHeight(id) \in Nat /\ EndHeight(id) \in Nat
        <4>1. /\ agent.services[id] = Service(id, elected[id], "running") /\ EndHeight(id) > 0
              /\ BeginHeight(id) \in Nat /\ EndHeight(id) \in Nat
          BY Zenon, <2>3, RunningService
        <4> QED BY SMTT(30), <4>1 DEF Service
      <3>3. height + 1 \in BeginHeight(id) .. EndHeight(id) /\ height + 1 # None
        BY <3>1, <3>2 DEF inRange, HeightsInv, None
      <3>4. height + 1 = BeginHeight(id) => members = elected[id]
        BY Zenon, <2>1, <2>3
      <3>5. ProposalOK(proposal, height, agent)'
        BY Zenon, <2>1, <2>3, <3>1, <3>3, <3>4 DEF ProposalOK
      <3> QED BY <2>2, <3>5 DEF ProposalInv
    <2> QED BY <2>4, <2>5
  <1>3. CASE BroadcastConsensus
    <2>1. /\ proposal.number # None /\ proposal' = NoProposal
          /\ UNCHANGED <<elected, seen, mode, launched, agent>>
      BY <1>3 DEF BroadcastConsensus
    <2>2. proposal # NoProposal
      BY SMTT(30), <2>1 DEF NoProposal
    <2>3. LoopInv' /\ ProposalInv' /\ mode = "loop"
      BY Zenon, <2>1, <2>2, QuietKeepsLoop DEF ProposalInv, HeightsInv
    <2>4. PICK id, members, number :
            /\ proposal = [id |-> id, infos |-> members, number |-> number]
            /\ id \in running(agent)
            /\ IF number = None
               THEN height + 1 = BeginHeight(id) => members = elected[id]
               ELSE /\ number \in BeginHeight(id) .. EndHeight(id)
                    /\ number = BeginHeight(id) => members = elected[id]
      BY <2>2 DEF ProposalInv, ProposalOK
    <2>5. CASE proposal.number = decided + 1 /\ height = decided
      <3>1. decided - seen < MaxLag /\ decide(decided + 1, members) /\ height' = height + 1
        BY <1>3, <2>4, <2>5 DEF BroadcastConsensus
      <3>2. GetEpochFromHeight(decided + 1) = id
        <4>1. id \in EpochIDs /\ BeginHeight(id) \in Nat /\ EndHeight(id) \in Nat
          BY Zenon, <2>4, RunningService
        <4>2. decided + 1 \in Nat /\ decided + 1 \in BeginHeight(id) .. EndHeight(id)
          BY <2>1, <2>4, <2>5 DEF HeightsInv
        <4> QED BY SMTT(30), <4>1, <4>2, EpochIsUnique
      <3>3. InfosInv'
        <4>1. decided + 1 = BeginHeight(id) => members = elected[id]
          BY Zenon, <2>1, <2>4, <2>5
        <4> QED BY Zenon, <2>1, <3>1, <3>2, <4>1, DecideKeepsInfos DEF HeightsInv
      <3>4. HeightsInv'
        <4>1. decided' = decided + 1
          BY <3>1 DEF decide
        <4>2. seen \in Nat /\ height \in Nat /\ decided \in Nat /\ seen <= height /\ Launch(launched, seen, height)
          BY <2>3 DEF HeightsInv
        <4>3. Launch(launched, seen, height + 1)
          BY <4>2 DEF Launch
        <4> QED BY <2>1, <2>3, <2>5, <3>1, <4>1, <4>2, <4>3, HandoverAssumption DEF HeightsInv
      <3> QED BY Zenon, <2>3, <3>3, <3>4
    <2>6. CASE ~(proposal.number = decided + 1 /\ height = decided)
      <3>1. UNCHANGED <<decided, infos, height>>
        BY Zenon, <1>3, <2>6 DEF BroadcastConsensus
      <3>2. HeightsInv' /\ InfosInv'
        BY <2>1, <2>3, <3>1, QuietKeepsInfos DEF HeightsInv
      <3> QED BY Zenon, <2>3, <3>2
    <2> QED BY <2>5, <2>6
  <1> QED BY <1>1, <1>2, <1>3

\* The steps of the network, the chain and the process
LEMMA WorldStep ==
    ASSUME HandoverInv, Network \/ InsertChain \/ Subscribe \/ Crash
    PROVE  HandoverInv'
  <1> USE DEF HandoverInv
  <1>0. seen \in Nat /\ height \in Nat /\ decided \in Nat /\ MaxLag \in Nat
    BY HandoverAssumption, EpochsAssumption DEF HeightsInv
  <1>1. CASE Network
    <2>1. /\ UNCHANGED <<elected, height, seen, mode, launched, agent, proposal>>
          /\ decided - seen < MaxLag
          /\ decide(decided + 1, elected[GetEpochFromHeight(decided + 1)])
      BY <1>1 DEF Network
    <2>2. decided' = decided + 1
      BY <2>1 DEF decide
    <2>3. HeightsInv'
      BY <1>0, <2>1, <2>2 DEF HeightsInv
    <2>4. InfosInv'
      BY <1>0, <2>1, DecideKeepsInfos
    <2>5. LoopInv' /\ ProposalInv'
      BY <2>1, QuietKeepsLoop, ProposalKept
    <2> QED BY Zenon, <2>3, <2>4, <2>5
  <1>2. CASE InsertChain
    <2>1. /\ UNCHANGED <<elected, decided, infos, mode, launched, agent, proposal>>
          /\ height < decided /\ height' = height + 1
          /\ seen' = IF mode = "down" THEN height + 1 ELSE seen
      BY <1>2 DEF InsertChain
    <2>2. HeightsInv'
      <3>1. mode = "loop" => Launch(launched, seen, height + 1)
        BY <1>0 DEF HeightsInv, Launch
      <3> QED BY <1>0, <2>1, <3>1 DEF HeightsInv
    <2>3. InfosInv' /\ LoopInv'
      BY <2>1, QuietKeepsInfos, QuietKeepsLoop
    <2>4. \A id \in running(agent) : height' + 1 # BeginHeight(id)
      <3> SUFFICES ASSUME NEW id \in running(agent) PROVE height' + 1 # BeginHeight(id)
        OBVIOUS
      <3>1. BeginHeight(id) \in Nat /\ BeginHeight(id) <= height + 1
        BY RunningService
      <3> QED BY <1>0, <2>1, <3>1
    <2>5. ProposalInv'
      BY <2>1, <2>4, ProposalKept
    <2> QED BY <2>2, <2>3, <2>5
  <1>3. CASE Subscribe
    <2>1. /\ UNCHANGED <<elected, decided, infos, height, launched, agent, proposal>>
          /\ mode = "down" /\ mode' = "starting" /\ seen' = height
      BY <1>3 DEF Subscribe
    <2>2. HeightsInv'
      BY <1>0, <2>1 DEF HeightsInv
    <2>3. InfosInv' /\ LoopInv' /\ ProposalInv'
      BY <2>1, QuietKeepsInfos, QuietKeepsLoop, ProposalKept
    <2> QED BY <2>2, <2>3
  <1>4. CASE Crash
    <2>1. /\ UNCHANGED <<elected, decided, infos, launched>>
          /\ mode' = "down" /\ agent' = newAgent /\ proposal' = NoProposal
      BY <1>4 DEF Crash
    <2>2. PICK h \in (height - MaxRollback) .. height :
            h >= 0 /\ height' = h /\ seen' = h /\ decided - h <= MaxLag
      BY <1>4 DEF Crash
    <2>3. h \in Nat /\ h <= decided
      BY <1>0, <2>2, HandoverAssumption DEF HeightsInv
    <2>4. HeightsInv'
      BY <1>0, <2>1, <2>2, <2>3 DEF HeightsInv
    <2>5. InfosInv' /\ LoopInv' /\ ProposalInv'
      BY <2>1, QuietKeepsInfos, QuietKeepsLoop DEF ProposalInv
    <2> QED BY <2>4, <2>5
  <1> QED BY <1>1, <1>2, <1>3, <1>4

-------------------------------------------------------------------------------
(* What the invariant shows                                                  *)

\* HandoverInv is an invariant.
THEOREM HandoverInvariant == Spec => []HandoverInv
  <1>1. Init => HandoverInv
    BY InitHandover
  <1>2. HandoverInv /\ [Next]_vars => HandoverInv'
    <2> SUFFICES ASSUME HandoverInv, [Next]_vars PROVE HandoverInv'
      OBVIOUS
    <2>1. CASE launch \/ chainHead
      BY <2>1, LoopStep
    <2>2. CASE createProposalBlock \/ FetchFastBlock \/ BroadcastConsensus
      BY <2>2, ServiceStep
    <2>3. CASE Network \/ InsertChain \/ Subscribe \/ Crash
      BY <2>3, WorldStep
    <2>4. CASE UNCHANGED vars
      <3>1. UNCHANGED <<elected, decided, infos, height, seen, mode, launched, agent, proposal>>
        BY <2>4 DEF vars
      <3>2. InfosInv' /\ LoopInv' /\ ProposalInv'
        BY <3>1, QuietKeepsInfos, QuietKeepsLoop, ProposalKept DEF HandoverInv
      <3> QED BY <3>1, <3>2 DEF HandoverInv, HeightsInv
    <2> QED BY <2>1, <2>2, <2>3, <2>4 DEF Next
  <1> QED BY <1>1, <1>2, PTL DEF Spec

\* The first block of every epoch names the elected committee: what
\* createProposalBlock read is still right when FetchFastBlock numbers the
\* block.
THEOREM FirstBlockIsRight == Spec => []FirstBlockNamesCommittee
  <1>1. HandoverInv => FirstBlockNamesCommittee
    BY DEF HandoverInv, InfosInv
  <1> QED BY <1>1, HandoverInvariant, PTL

\* Whatever Election.getValidators keeps in its cache is the elected
\* committee.
THEOREM CacheIsRight == Spec => []CacheIsElected
  <1>1. HandoverInv => CacheIsElected
    <2> SUFFICES ASSUME HandoverInv, NEW number \in 1..MaxHeight, NEW entry \in epochCache(number)
                 PROVE  entry[2] = elected[entry[1]]
      BY DEF CacheIsElected
    <2> DEFINE e == GetEpochFromHeight(number)
    <2>1. number \in Nat
      BY HandoverAssumption
    <2>2. e \in EpochIDs /\ BeginHeight(e) \in Nat /\ BeginHeight(e) <= number
      BY <2>1, HeightIsInItsEpoch, EpochLength
    <2> HIDE DEF e
    <2>3. height > number => infos[e] = elected[e]
      BY SMTT(30), <2>1, <2>2 DEF HandoverInv, HeightsInv, InfosInv, FirstBlockNamesCommittee
    <2>4. PICK m : /\ entry = <<e, m>>
                   /\ IF height > number THEN m = infos[e]
                      ELSE m = GetValidatorsByEpoch(height, e) /\ m # {}
      BY <2>1 DEF epochCache, e, HandoverInv, HeightsInv
    <2>5. m = elected[e]
      BY Zenon, <2>3, <2>4 DEF GetValidatorsByEpoch
    <2> QED BY Zenon, <2>4, <2>5
  <1> QED BY <1>1, HandoverInvariant, PTL

\* The node serves the committees it is a member of and no others, whatever
\* the lag of the loop and the moments at which the process ends and starts.
THEOREM MembersServe == Spec => []MemberServes
  <1>1. ASSUME HandoverInv
        PROVE  /\ \A i, j \in running(agent) : i = j
               /\ \E i, j \in DOMAIN agent.services \cup {None} :
                     DOMAIN agent.services \subseteq {i, j}
               /\ agent.orphans = {}
    <2>1. CASE mode # "loop"
      <3>1. agent = newAgent
        BY Zenon, <1>1, <2>1 DEF HandoverInv, HeightsInv
      <3> QED BY <3>1 DEF newAgent, noEntries, running
    <2>2. CASE mode = "loop"
      <3>1. Phase(agent, seen, launched)
        BY Zenon, <1>1, <2>2 DEF HandoverInv, LoopInv
      <3>2. agent.orphans = {}
        BY Zenon, <3>1 DEF Phase
      <3>3. ASSUME NEW x, NEW y, DOMAIN agent.services \subseteq {x, y}
            PROVE  \E i, j \in DOMAIN agent.services \cup {None} :
                      DOMAIN agent.services \subseteq {i, j}
        <4>1. CASE x \in DOMAIN agent.services /\ y \in DOMAIN agent.services
          BY <3>3, <4>1
        <4>2. CASE x \notin DOMAIN agent.services
          <5>1. PICK i \in DOMAIN agent.services \cup {None} : DOMAIN agent.services \subseteq {i}
            BY <3>3, <4>2
          <5> QED BY <5>1
        <4>3. CASE y \notin DOMAIN agent.services
          <5>1. PICK i \in DOMAIN agent.services \cup {None} : DOMAIN agent.services \subseteq {i}
            BY <3>3, <4>3
          <5> QED BY <5>1
        <4> QED BY Zenon, <4>1, <4>2, <4>3
      <3>4. ASSUME NEW e, DOMAIN agent.services \subseteq {e}
            PROVE  /\ \A i, j \in running(agent) : i = j
                   /\ \E i, j \in DOMAIN agent.services \cup {None} :
                         DOMAIN agent.services \subseteq {i, j}
        <4>1. \A i, j \in running(agent) : i = j
          BY Zenon, <3>4 DEF running
        <4> QED BY <3>3, <3>4, <4>1
      <3>5. CASE Waits(agent)
        BY Zenon, <3>2, <3>4, <3>5 DEF Waits
      <3>6. CASE Replays(agent, launchedIn(launched))
        <4>1. DOMAIN agent.services \subseteq {launchedIn(launched)}
          BY Zenon, <3>6 DEF Replays
        <4> QED BY Zenon, <3>2, <3>4, <4>1
      <3>7. ASSUME NEW e, NEW late, NEW prepared, Follows(agent, e, late, prepared)
            PROVE  /\ \A i, j \in running(agent) : i = j
                   /\ \E i, j \in DOMAIN agent.services \cup {None} :
                         DOMAIN agent.services \subseteq {i, j}
        <4>1. DOMAIN agent.services \subseteq {agent.servicePre, e + 1}
          BY <3>7 DEF Follows
        <4>2. running(agent) \subseteq {agent.servicePre}
          BY <3>7 DEF Follows, running, Service
        <4> QED BY Zenon, <3>3, <4>1, <4>2
      <3> QED BY Zenon, <3>1, <3>2, <3>5, <3>6, <3>7 DEF Phase
    <2> QED BY Zenon, <2>1, <2>2
  <1>2. ASSUME HandoverInv, caughtUp, now >= FirstNewEpochID, ~lateFor(now)
        PROVE  \E prepared : Follows(agent, now, FALSE, prepared) /\ AgentOK(agent)
    <2>1. /\ mode = "loop" /\ seen = height /\ Phase(agent, seen, launched)
          /\ Launch(launched, seen, height) /\ height \in Nat /\ height + 1 \in Nat
      BY <1>2 DEF caughtUp, HandoverInv, LoopInv, HeightsInv
    <2>2. height + 1 > DposForkPoint
      BY <1>2, <2>1, NextHeight DEF now
    <2>3. ~(seen < DposForkPoint)
      BY <2>1, <2>2, EpochsAssumption
    <2>4. ~(launchedIn(launched) # None /\ seen + 1 < BeginHeight(launchedIn(launched)))
      <3> SUFFICES ASSUME launchedIn(launched) # None
                   PROVE  ~(seen + 1 < BeginHeight(launchedIn(launched)))
        OBVIOUS
      <3>1. launchedIn(launched) = GetEpochFromHeight(launched.height + 1) /\ launched.height + 1 \in Nat
            /\ launched.height <= height
        BY <2>1 DEF launchedIn, Launch
      <3>2. /\ BeginHeight(launchedIn(launched)) <= launched.height + 1
            /\ BeginHeight(launchedIn(launched)) \in Nat
        BY <3>1, NextHeight
      <3> QED BY <2>1, <3>1, <3>2 DEF Launch
    <2>5. isLate(now, launched) = FALSE
      BY Zenon, <1>2 DEF isLate, lateFor
    <2>6. AgentOK(agent) /\ Follows(agent, now, isLate(now, launched), isPrepared(now, seen, launched))
      BY Zenon, <2>1, <2>3, <2>4 DEF Phase, now
    <2> QED BY Zenon, <2>5, <2>6
  <1>3. ASSUME NEW prepared, AgentOK(agent), now \in Nat, Follows(agent, now, FALSE, prepared)
        PROVE  inService
    <2> HIDE DEF now
    <2>0. serving <=> serves(now)
      BY DEF serving, serves
    <2>1. running(agent) = IF serving THEN {now} ELSE {}
      <3>1. \A id \in DOMAIN agent.services : agent.services[id].state = "running" => id = now
        <4>1. DOMAIN agent.services = ({agent.servicePre} \ {None})
                 \cup IF prepared /\ serves(now + 1) THEN {now + 1} ELSE {}
          BY Zenon, <1>3 DEF Follows
        <4>2. prepared /\ serves(now + 1) => agent.services[now + 1] = Service(now + 1, elected[now + 1], "new")
          BY Zenon, <1>3 DEF Follows
        <4>3. prepared /\ serves(now + 1) => agent.services[now + 1].state = "new"
          BY SMTT(30), <4>2 DEF Service
        <4>4. agent.servicePre \notin {None, now} => agent.services[agent.servicePre].state = "stopped"
          BY Zenon, <1>3 DEF Follows
        <4> QED BY Zenon, <4>1, <4>3, <4>4
      <3>2. serving => now \in DOMAIN agent.services /\ agent.services[now].state = "running"
        <4>1. now # None
          BY SMTT(30), <1>3 DEF None
        <4>2. serving => agent.servicePre = now
          BY Zenon, <1>3, <2>0 DEF Follows
        <4>3. agent.servicePre = now => now \in DOMAIN agent.services
          BY Zenon, <1>3, <4>1 DEF Follows
        <4>4. agent.servicePre = now => agent.services[now] = Service(now, elected[now], "running")
          BY Zenon, <1>3 DEF Follows
        <4> QED BY <4>2, <4>3, <4>4 DEF Service
      <3>3. ~serving => now \notin running(agent)
        <4>1. now # now + 1
          BY SMTT(30), <1>3
        <4> QED BY <1>3, <2>0, <4>1 DEF Follows, running
      <3> QED BY SMTT(30), <3>1, <3>2, <3>3 DEF running
    <2>2. agent.isMember = (Self \in elected[now]) /\ agent.current = committee(now, elected[now])
      BY <1>3 DEF Follows, C
    <2>3. /\ agent.isCurrent \in 1..2
          /\ \A w \in 1..2 : w = agent.isCurrent \/ w = 3 - agent.isCurrent
          /\ 3 - agent.isCurrent \in 1..2
      BY SMTT(30), <1>3 DEF AgentOK, Agent
    <2>4. \A w \in 1..2 : agent.works[w] \in {W(now), W(now + 1), NoWork}
      BY Zenon, <1>3, <2>3 DEF Follows
    <2>5. /\ W(now).id >= now /\ W(now + 1).id >= now /\ NoWork.ticking = FALSE
      BY <1>3 DEF W, NoWork
    <2>6. \A w \in 1..2 : agent.works[w].ticking => agent.works[w].id >= now
      BY Zenon, <2>4, <2>5
    <2>7. \E w \in 1..2 : agent.works[w] = W(now)
      BY Zenon, <1>3, <2>3 DEF Follows
    <2>8. Self \in elected[now] => W(now) = [id |-> now, ticking |-> TRUE]
      BY Zenon DEF W
    <2>9. Self \in elected[now] => \E w \in 1..2 : agent.works[w] = [id |-> now, ticking |-> TRUE]
      BY Zenon, <2>7, <2>8
    <2> QED BY Zenon, <2>1, <2>2, <2>6, <2>9 DEF inService
  <1>4. HandoverInv => MemberServes
    <2> SUFFICES ASSUME HandoverInv PROVE MemberServes
      OBVIOUS
    <2>2. now \in Nat
      <3>1. height + 1 \in Nat
        BY DEF HandoverInv, HeightsInv
      <3> QED BY <3>1, NextHeight DEF now
    <2>3. ASSUME caughtUp, now >= FirstNewEpochID, ~lateFor(now)
          PROVE  inService
      <3>1. PICK prepared : Follows(agent, now, FALSE, prepared) /\ AgentOK(agent)
        BY Zenon, <1>2, <2>3
      <3> QED BY Zenon, <1>3, <2>2, <3>1
    <2> QED BY <1>1, <2>3 DEF MemberServes
  <1> QED BY <1>4, HandoverInvariant, PTL

===============================================================================
