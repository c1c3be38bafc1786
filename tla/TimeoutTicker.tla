---------------------------- MODULE TimeoutTicker ----------------------------
(***************************************************************************)
(* The timer of consensus/tbft/ticker.go and the routine that uses it.     *)
(* ConsensusState schedules a timeout for a step on the buffered tickChan, *)
(* the timeoutRoutine keeps one time.Timer for the latest of them, and     *)
(* every expiry is handed back on the tockChan by a goroutine of its own,  *)
(* so that tocks may arrive late and in any order.                         *)
(*                                                                         *)
(* A height, round and step is a point of a line; ConsensusState.tla says  *)
(* which steps wait, here every point does.  `wait' is timeoutInfo.Wait:   *)
(* 1 for an ordinary timeout, more for the ones tryEnterProposal schedules *)
(* again for the same step.                                                *)
(***************************************************************************)
EXTENDS Integers, Sequences, FiniteSets

CONSTANTS BufferSize,   \* tickTockBufferSize
          MaxWait,      \* how often a step may be scheduled
          LastPoint     \* bound: the last step

VARIABLES pos,       \* the step the consensus routine is in
          waits,     \* the Wait of the timeout it scheduled last
          ticks,     \* tickChan
          ti,        \* the timeout the timeoutRoutine keeps
          active,   \* its time.Timer is running
          sending,   \* the runtime has stopped the timer and is about to fill C
          inC,       \* there is a value in timer.C
          tocks      \* how many of each timeout are on their way back

timer == <<active, sending, inC>>

vars == <<pos, waits, ticks, ti, timer, tocks>>

Tick == [at : 1..LastPoint, wait : 1..MaxWait]

\* The send does not block: a full channel loses the timeout.
ScheduleTimeout(t) ==
    ticks' = IF Len(ticks) < BufferSize THEN Append(ticks, t) ELSE ticks

\* The consensus routine goes on to step p.
enter(p) ==
    /\ pos' = p
    /\ waits' = 1
    /\ ScheduleTimeout([at |-> p, wait |-> 1])

\* A message ends the step.
Message ==
    /\ pos < LastPoint
    /\ enter(pos + 1)
    /\ UNCHANGED <<ti, timer, tocks>>

-----------------------------------------------------------------------------
(* timeoutRoutine *)

\* Mutant of isOld: every tick is compared, the repeated ones too.
isOldAlways(t) == t.at =< ti.at

\* A tick for the step kept or for one before it is ignored, unless it
\* repeats a wait; the zero ti of the start keeps no step.
isOld(t) == t.wait = 1 /\ t.at =< ti.at

\* A tick is taken from the channel: stopTimer, which drains C if the timer
\* was not running any more, and Reset.
ReadTick ==
    /\ ticks # <<>>
    /\ ticks' = Tail(ticks)
    /\ IF isOld(Head(ticks)) THEN UNCHANGED <<ti, active, inC>>
       ELSE ti' = Head(ticks) /\ active' = TRUE /\ inC' = (active /\ inC)
    /\ UNCHANGED <<pos, waits, sending, tocks>>

\* The duration has passed.  The runtime stops the timer and then sends on
\* C: a stopTimer in between finds nothing to drain, and the value is taken
\* for an expiry of the timeout that comes next.
Expire ==
    /\ active /\ ~sending
    /\ active' = FALSE /\ sending' = TRUE
    /\ UNCHANGED <<pos, waits, ticks, ti, inC, tocks>>

sendTime ==
    /\ sending
    /\ sending' = FALSE /\ inC' = TRUE
    /\ UNCHANGED <<pos, waits, ticks, ti, active, tocks>>

\* C is read and a goroutine takes the timeout to the tockChan.
Fire ==
    /\ inC
    /\ inC' = FALSE
    /\ tocks' = [tocks EXCEPT ![ti] = @ + 1]
    /\ UNCHANGED <<pos, waits, ticks, ti, active, sending>>

-----------------------------------------------------------------------------
(* The consensus routine takes one of the tocks. *)

\* Mutant of ignores: a tock of any step is acted on.
ignoresNothing(t) == FALSE

\* "Ignoring tock because we're ahead"
ignores(t) == t.at < pos

\* handleTimeout: the step ends, or tryEnterProposal has nothing to propose
\* yet and waits again.
Tock(t) ==
    /\ tocks[t] > 0
    /\ tocks' = [tocks EXCEPT ![t] = @ - 1]
    /\ \/ /\ ignores(t) \/ t.at = LastPoint
          /\ UNCHANGED <<pos, waits, ticks>>
       \/ /\ ~ignores(t) /\ t.at < LastPoint
          /\ enter(t.at + 1)
       \/ /\ ~ignores(t) /\ t.wait < MaxWait
          /\ waits' = t.wait + 1
          /\ ScheduleTimeout([t EXCEPT !.wait = @ + 1])
          /\ UNCHANGED pos
    /\ UNCHANGED <<ti, timer>>

Init ==
    /\ pos = 1 /\ waits = 1
    /\ ticks = <<[at |-> 1, wait |-> 1]>>
    /\ ti = [at |-> 0, wait |-> 0]
    /\ active = FALSE /\ sending = FALSE /\ inC = FALSE
    /\ tocks = [t \in Tick |-> 0]

\* What happens without a message
Serve == ReadTick \/ Expire \/ sendTime \/ Fire \/ \E t \in Tick : Tock(t)

Next == Message \/ Serve

-----------------------------------------------------------------------------
(* Properties *)

\* A timeout that is acted on is one of the step the consensus routine is in:
\* a late, early or repeated tock never ends a later step.
TimeoutEndsItsOwnStep ==
    [][\A t \in Tick : tocks'[t] < tocks[t] /\ pos' # pos => t.at = pos]_vars

\* Every step ends, without any message, as long as the channel has room: the
\* consensus routine relies on it whenever too few votes arrive.  The steps
\* follow one another, so the last one is reached when all before it end.
StepsEnd == <>(pos = LastPoint)

===============================================================================
