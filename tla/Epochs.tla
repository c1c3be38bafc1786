-------------------------------- MODULE Epochs --------------------------------
(***************************************************************************)
(* The epochs of the staking contract (core/types/impawnUtil.go): every    *)
(* height belongs to one.  The epoch before the first new one ends at the  *)
(* fork; the others are NewEpochLength blocks long.                        *)
(***************************************************************************)
EXTENDS Integers

CONSTANTS FirstNewEpochID,   \* params.FirstNewEpochID
          DposForkPoint,     \* params.DposForkPoint
          NewEpochLength,    \* params.NewEpochLength
          MaxRedeemHeight    \* params.MaxRedeemHeight

ASSUME EpochsAssumption ==
    /\ FirstNewEpochID \in Nat \ {0}
    /\ DposForkPoint \in Nat
    /\ NewEpochLength \in Nat \ {0}
    /\ MaxRedeemHeight \in Nat

EpochIDs == {e \in Nat : e >= FirstNewEpochID - 1}

\* The EndHeight of GetFirstEpoch
firstEnd == DposForkPoint + NewEpochLength

BeginHeight(eid) ==
    IF eid = FirstNewEpochID - 1 THEN 0
    ELSE IF eid <= FirstNewEpochID THEN DposForkPoint + 1
    ELSE firstEnd + (eid - FirstNewEpochID - 1) * NewEpochLength + 1

EndHeight(eid) ==
    IF eid = FirstNewEpochID - 1 THEN DposForkPoint
    ELSE IF eid <= FirstNewEpochID THEN firstEnd
    ELSE firstEnd + (eid - FirstNewEpochID) * NewEpochLength

\* The ID of the epoch hh is in
GetEpochFromHeight(hh) ==
    IF hh <= DposForkPoint THEN FirstNewEpochID - 1
    ELSE IF hh <= firstEnd THEN FirstNewEpochID
    ELSE (hh - firstEnd) \div NewEpochLength + FirstNewEpochID
            + IF (hh - firstEnd) % NewEpochLength = 0 THEN 0 ELSE 1

\* GetEpochFromRange: none for an empty range or one before the fork
GetEpochFromRange(begin, end) ==
    IF end = 0 \/ begin > end \/ end < DposForkPoint THEN {}
    ELSE GetEpochFromHeight(begin)..GetEpochFromHeight(end)

\* What was cancelled in epoch eid may be withdrawn (also RedeemItem.isRedeem)
IsUnlocked(eid, height) == height > BeginHeight(eid + 1) + MaxRedeemHeight

===============================================================================
