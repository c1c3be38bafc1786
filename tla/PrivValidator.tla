---------------------------- MODULE PrivValidator ----------------------------
(***************************************************************************)
(* The local signer of a committee member, consensus/tbft/types/           *)
(* priv_validator.go.  It remembers the height, round and step (HRS) of    *)
(* the last thing it signed and the bytes it signed there, refuses to go   *)
(* back, and is wiped by Reset, which StateAgentImpl.PrivReset calls.      *)
(*                                                                         *)
(* What is signed is abstracted to a request [h, r, s, value, stamp]: the  *)
(* block id or proposal content is `value', the timestamp is `stamp', and  *)
(* the sign bytes (an RLP hash of the canonical JSON) are the request.     *)
(***************************************************************************)
EXTENDS Integers

CONSTANTS Heights,     \* the fast-block heights the node may sign at
          Rounds,      \* the rounds it may sign at
          Values,      \* the block ids or proposals it may sign
          Stamps       \* the timestamps a request may carry

ASSUME SignerAssumption == /\ Heights \subseteq Nat \ {0}
                           /\ Rounds \subseteq Nat

VARIABLES last,      \* LastHeight, LastRound, LastStep, LastSignBytes
          panicOn,   \* the request on which signing panicked, if it did
          released   \* the requests signed since the last Reset

vars == <<last, panicOn, released>>

stepNone == 0
stepPropose == 1
stepPrevote == 2
stepPrecommit == 3

Request == [h : Heights, r : Rounds, s : {stepPropose, stepPrevote, stepPrecommit},
            value : Values, stamp : Stamps]

\* LastSignBytes = nil
NoBytes == [none |-> TRUE]

Fresh == [h |-> 0, r |-> 0, s |-> stepNone, bytes |-> NoBytes]

-----------------------------------------------------------------------------
(* The lexicographic order that checkHRS enforces. *)

Before(a, b) == \/ a.h < b.h
                \/ a.h = b.h /\ a.r < b.r
                \/ a.h = b.h /\ a.r = b.r /\ a.s < b.s

SameHRS(a, b) == a.h = b.h /\ a.r = b.r /\ a.s = b.s

\* Mutant of checkHRS: the step may equal the last one (> for >=).
checkHRSAllowingEqual(q) == Before(last, q) \/ SameHRS(last, q)

\* checkHRS returns (false, nil): there is something new to sign.
checkHRS(q) == Before(last, q)

\* checkHRS returns (true, nil): the HRS of the last signature again.
Repeats(q) == SameHRS(last, q) /\ last.bytes # NoBytes

saveSigned(q) == last' = [h |-> q.h, r |-> q.r, s |-> q.s, bytes |-> q]

-----------------------------------------------------------------------------

Init == /\ last = Fresh
        /\ panicOn = NoBytes
        /\ released = {}

\* signVote and signProposal of a new HRS: sign, remember, hand out.
SignNew(q) ==
    /\ panicOn = NoBytes
    /\ checkHRS(q)
    /\ saveSigned(q)
    /\ released' = released \cup {q}
    /\ UNCHANGED panicOn

\* The same bytes again: the last signature is returned.
SignAgain(q) ==
    /\ panicOn = NoBytes
    /\ Repeats(q)
    /\ last.bytes = q
    /\ UNCHANGED vars

\* Other bytes at the same HRS: the comparison up to the timestamp unmarshals
\* sign bytes that are a hash, not JSON, and panics.
SignConflicting(q) ==
    /\ panicOn = NoBytes
    /\ Repeats(q)
    /\ last.bytes # q
    /\ panicOn' = q
    /\ UNCHANGED <<last, released>>

\* checkHRS returns an error: nothing is signed and nothing changes.
SignRegression(q) ==
    /\ panicOn = NoBytes
    /\ ~checkHRS(q) /\ ~Repeats(q)
    /\ UNCHANGED vars

Reset ==
    /\ panicOn = NoBytes
    /\ last' = Fresh
    /\ released' = {}
    /\ UNCHANGED panicOn

Next == \/ \E q \in Request : \/ SignNew(q)
                              \/ SignAgain(q)
                              \/ SignConflicting(q)
                              \/ SignRegression(q)
        \/ Reset

Spec == Init /\ [][Next]_vars

-----------------------------------------------------------------------------
(* Properties. *)

\* The record of the signer (LastHeight, LastRound, LastStep, LastSignBytes) is
\* empty or that of one request: saveSigned never leaves parts of two.
TypeOK ==
    /\ last \in {Fresh} \cup {[h |-> q.h, r |-> q.r, s |-> q.s, bytes |-> q] : q \in Request}
    /\ panicOn \in Request \cup {NoBytes}
    /\ released \subseteq Request

\* Between two resets the signer hands out at most one signature for a height,
\* round and step: signVote and signProposal never sign two different byte
\* strings at one HRS (the promise of the PrivValidator comment, lines 43-44,
\* for as long as its record is kept).
OneSignaturePerHRS ==
    \A a, b \in released :
        SameHRS(a, b) => a = b

=============================================================================
