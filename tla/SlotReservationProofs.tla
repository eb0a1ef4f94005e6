------------------------ MODULE SlotReservationProofs ------------------------
(***************************************************************************)
(* Proofs about SlotReservation, for any number of customers, calls, rows  *)
(* and capacities.                                                         *)
(***************************************************************************)
EXTENDS SlotReservation, FiniteSetTheorems, TLAPS

-----------------------------------------------------------------------------
(* Part 1: the counter never passes the capacity, whatever races occur. *)

\* A slot document always has an effective capacity, and taking the larger of
\* two capacities yields a capacity.
LEMMA EffectiveType ==
    ASSUME NEW s \in SlotType
    PROVE  /\ Effective(s) \in Capacities
           /\ Effective(s) \in Nat
  BY SlotAssumption DEF SlotType, Effective

LEMMA LargerType ==
    ASSUME NEW a \in Capacities, NEW b \in Capacities
    PROVE  /\ Larger(a, b) \in Capacities
           /\ Larger(a, b) >= a
           /\ Larger(a, b) >= b
  BY SlotAssumption DEF Larger

\* releaseCapacity keeps a slot document well formed and never raises the counter.
LEMMA ReleasedType ==
    ASSUME NEW s \in SlotType
    PROVE  /\ Released(s) \in SlotType
           /\ Released(s).reserved <= s.reserved
           /\ Released(s).total = s.total
           /\ Released(s).manual = s.manual
           /\ s.reserved > 0 => Released(s).reserved = s.reserved - 1
  BY DEF SlotType, Released

\* The strengthening: the capacity now in force is bounded by peak as well, so
\* the gate's test against it bounds the counter.
IInv ==
    /\ TypeOK
    /\ Effective(slot) <= peak
    /\ ReservedWithinPeak

LEMMA InitIInv == Init => IInv
  <1> SUFFICES ASSUME Init PROVE IInv
    OBVIOUS
  <1>1. overlap \in BOOLEAN
    BY DEF Init
  <1>2. slot \in SlotType /\ peak \in Capacities /\ slot.reserved = 0 /\ slot.manual = 0
        /\ peak = slot.total
    BY DEF Init, SlotType
  <1>3. resv \in [Rows -> ResvType] /\ call \in [Procs -> CallType]
    BY DEF Init, ResvType, CallType, Idle, Statuses, Steps
  <1> QED
    BY <1>1, <1>2, <1>3, SlotAssumption DEF IInv, TypeOK, ReservedWithinPeak, Effective

\* Saving a status keeps the collection well formed.
LEMMA SaveStatusType ==
    ASSUME resv \in [Rows -> ResvType], NEW r \in Rows, NEW st \in Statuses,
           SaveStatus(r, st)
    PROVE  resv' \in [Rows -> ResvType]
  BY DEF SaveStatus, ResvType

\* Moving a call to its next step, ending it or starting one keeps calls well formed.
LEMMA CallMoves ==
    ASSUME call \in [Procs -> CallType], NEW p \in Procs
    PROVE  /\ \A st \in Steps : Goto(p, st) => call' \in [Procs -> CallType]
           /\ Return(p) => call' \in [Procs -> CallType]
  BY DEF CallType, Goto, Return, Idle, Steps

\* Every step of a call that leaves the slot document and peak alone.
LEMMA SlotUntouched ==
    ASSUME IInv, UNCHANGED <<slot, peak>>, overlap' \in BOOLEAN,
           resv' \in [Rows -> ResvType], call' \in [Procs -> CallType]
    PROVE  IInv'
  BY DEF IInv, TypeOK, ReservedWithinPeak, Effective

\* A step that gives a unit back.
LEMMA SlotFreed ==
    ASSUME IInv, slot' = Released(slot), UNCHANGED <<resv, peak>>,
           overlap' \in BOOLEAN, call' \in [Procs -> CallType]
    PROVE  IInv'
  <1>1. slot' \in SlotType /\ slot'.reserved <= slot.reserved
        /\ slot'.total = slot.total /\ slot'.manual = slot.manual
    BY ReleasedType DEF IInv, TypeOK
  <1>2. slot.reserved \in Nat /\ slot'.reserved \in Nat /\ peak \in Nat
    BY <1>1, SlotAssumption DEF IInv, TypeOK, SlotType
  <1>3. slot'.reserved <= peak
    BY <1>1, <1>2 DEF IInv, ReservedWithinPeak
  <1>4. Effective(slot') = Effective(slot)
    BY <1>1 DEF Effective
  <1> QED
    BY <1>1, <1>3, <1>4 DEF IInv, TypeOK, ReservedWithinPeak

\* The ghost only ever turns TRUE.
LEMMA OverlapGrows ==
    ASSUME TypeOK, [Next]_vars
    PROVE  overlap' \in BOOLEAN /\ (overlap => overlap')
  <1>1. ASSUME NEW rows, Touch(rows) PROVE overlap' \in BOOLEAN /\ (overlap => overlap')
    BY <1>1 DEF TypeOK, Touch
  <1>2. ASSUME NEW p \in Procs, NEW u \in Users, ReserveFindHold(p, u)
        PROVE  overlap' \in BOOLEAN /\ (overlap => overlap')
    BY <1>1, <1>2 DEF TypeOK, ReserveFindHold
  <1>3. ASSUME NEW p \in Procs, NEW r \in Rows,
               ConfirmFind(p, r) \/ ReleaseFind(p, r)
        PROVE  overlap' \in BOOLEAN /\ (overlap => overlap')
    BY <1>1, <1>3 DEF ConfirmFind, ReleaseFind
  <1>4. CASE UNCHANGED overlap
    BY <1>4 DEF TypeOK
  <1>5. ASSUME NEW p \in Procs, SweepFind(p)
        PROVE  overlap' \in BOOLEAN /\ (overlap => overlap')
    BY <1>1, <1>5 DEF SweepFind
  <1> QED
    BY <1>2, <1>3, <1>4, <1>5
    DEF Next, vars, ReserveExpireHold, ReserveFreeHold, ReserveGate, ReserveCreate,
        ConfirmSave, ReleaseSave, ReleaseFree, SweepNext, SweepFree, GenerateForDates,
        OverrideFind, OverrideSave, SetSlotStatus, HoldLapses, TtlMonitor, Crash

LEMMA NextIInv == IInv /\ [Next]_vars => IInv'
  <1> SUFFICES ASSUME IInv, [Next]_vars PROVE IInv'
    OBVIOUS
  <1> USE DEF IInv, TypeOK
  <1>0. /\ slot \in SlotType /\ peak \in Capacities /\ peak \in Nat
        /\ slot.reserved \in Nat
    BY SlotAssumption DEF SlotType
  <1>o. overlap' \in BOOLEAN
    BY OverlapGrows
  <1>1. ASSUME NEW p \in Procs, NEW u \in Users, ReserveFindHold(p, u) PROVE IInv'
    <2>1. CASE call' = [call EXCEPT ![p] = [Idle EXCEPT !.at = "gate", !.user = u]]
      BY <1>1, <2>1, SlotUntouched, <1>o DEF ReserveFindHold, CallType, Idle, Steps
    <2>2. ASSUME NEW r \in Rows,
                 call' = [call EXCEPT ![p] =
                    [Idle EXCEPT !.at = "expireHold", !.user = u, !.rows = {r}]]
          PROVE  IInv'
      BY <1>1, <2>2, SlotUntouched, <1>o DEF ReserveFindHold, CallType, Idle, Steps
    <2> QED BY <1>1, <2>1, <2>2 DEF ReserveFindHold
  <1>2. ASSUME NEW p \in Procs, ReserveExpireHold(p) PROVE IInv'
    <2>1. call' \in [Procs -> CallType]
      BY <1>2, CallMoves DEF ReserveExpireHold, Steps
    <2>2. resv' \in [Rows -> ResvType]
      <3>1. PICK r \in call[p].rows :
               IF Present(r) THEN SaveStatus(r, "expired") ELSE UNCHANGED resv
        BY <1>2 DEF ReserveExpireHold
      <3>2. r \in Rows
        BY <3>1 DEF CallType
      <3> QED BY <3>1, <3>2, SaveStatusType DEF Statuses
    <2> QED BY <1>2, <2>1, <2>2, SlotUntouched, <1>o DEF ReserveExpireHold
  <1>3. ASSUME NEW p \in Procs, ReserveFreeHold(p) PROVE IInv'
    <2> DEFINE c == [call[p] EXCEPT !.at = "gate", !.rows = {}]
    <2>1. c \in CallType
      BY DEF CallType, Steps
    <2>2. call' = [call EXCEPT ![p] = c]
      BY <1>3 DEF ReserveFreeHold
    <2>3. call' \in [Procs -> CallType]
      BY <2>1, <2>2
    <2> QED BY <1>3, <2>3, SlotFreed, <1>o DEF ReserveFreeHold
  <1>4. ASSUME NEW p \in Procs, ReserveGate(p) PROVE IInv'
    <2>1. CASE ~GateOpen(slot)
      BY <1>4, <2>1, CallMoves, SlotUntouched, <1>o DEF ReserveGate
    <2>2. CASE GateOpen(slot)
      <3>1. slot' = [slot EXCEPT !.reserved = @ + 1] /\ Goto(p, "create")
            /\ UNCHANGED <<resv, peak>>
        BY <1>4, <2>2 DEF ReserveGate
      <3>2. call' \in [Procs -> CallType]
        BY <3>1, CallMoves DEF Steps
      <3>3. /\ slot' \in SlotType /\ slot'.reserved = slot.reserved + 1
            /\ slot'.total = slot.total /\ slot'.manual = slot.manual
        BY <3>1 DEF SlotType
      <3>4. slot.reserved < Effective(slot)
        BY <2>2 DEF GateOpen
      <3>5. Effective(slot) \in Nat
        BY EffectiveType
      <3>6. slot'.reserved <= peak
        BY <1>0, <3>3, <3>4, <3>5
      <3>7. Effective(slot') = Effective(slot)
        BY <3>3 DEF Effective
      <3> QED BY <1>o, <3>1, <3>2, <3>3, <3>6, <3>7 DEF ReservedWithinPeak
    <2> QED BY <2>1, <2>2
  <1>5. ASSUME NEW p \in Procs, ReserveCreate(p) PROVE IInv'
    <2>1. call' \in [Procs -> CallType]
      BY <1>5, CallMoves DEF ReserveCreate
    <2>2. call[p].user \in Users \cup {NoUser}
      BY DEF CallType
    <2>3. resv' \in [Rows -> ResvType]
      <3>1. ASSUME NEW r \in Rows,
                   resv' = [resv EXCEPT ![r] =
                      [user |-> call[p].user, status |-> "held", late |-> FALSE]]
            PROVE  resv' \in [Rows -> ResvType]
        BY <2>2, <3>1 DEF ResvType, Statuses
      <3> QED BY <1>5, <3>1 DEF ReserveCreate
    <2> QED BY <1>5, <2>1, <2>3, SlotUntouched, <1>o DEF ReserveCreate
  <1>6. ASSUME NEW p \in Procs, NEW r \in Rows, ConfirmFind(p, r) PROVE IInv'
    BY <1>6, SlotUntouched, <1>o DEF ConfirmFind, CallType, Idle, Steps
  <1>7. ASSUME NEW p \in Procs, ConfirmSave(p) PROVE IInv'
    <2>1. PICK r \in call[p].rows :
             IF Present(r) THEN SaveStatus(r, "confirmed") ELSE UNCHANGED resv
      BY <1>7 DEF ConfirmSave
    <2>2. r \in Rows
      BY <2>1 DEF CallType
    <2>3. resv' \in [Rows -> ResvType]
      BY <2>1, <2>2, SaveStatusType DEF Statuses
    <2>4. call' \in [Procs -> CallType]
      BY <1>7, CallMoves DEF ConfirmSave
    <2> QED BY <1>7, <2>3, <2>4, SlotUntouched, <1>o DEF ConfirmSave
  <1>8. ASSUME NEW p \in Procs, NEW r \in Rows, ReleaseFind(p, r) PROVE IInv'
    BY <1>8, SlotUntouched, <1>o DEF ReleaseFind, CallType, Idle, Steps
  <1>9. ASSUME NEW p \in Procs, ReleaseSave(p) PROVE IInv'
    <2>1. PICK r \in call[p].rows :
             \/ Present(r) /\ SaveStatus(r, "released") /\ Goto(p, "releaseFree")
             \/ ~Present(r) /\ Return(p) /\ UNCHANGED resv
      BY <1>9 DEF ReleaseSave
    <2>2. r \in Rows
      BY <2>1 DEF CallType
    <2>3. resv' \in [Rows -> ResvType]
      BY <2>1, <2>2, SaveStatusType DEF Statuses
    <2>4. call' \in [Procs -> CallType]
      BY <2>1, CallMoves DEF Steps
    <2> QED BY <1>9, <2>3, <2>4, SlotUntouched, <1>o DEF ReleaseSave
  <1>10. ASSUME NEW p \in Procs, ReleaseFree(p) PROVE IInv'
    BY <1>10, CallMoves, SlotFreed, <1>o DEF ReleaseFree
  <1>11. ASSUME NEW p \in Procs, SweepFind(p) PROVE IInv'
    BY <1>11, SlotUntouched, <1>o DEF SweepFind, CallType, Idle, Steps
  <1>12. ASSUME NEW p \in Procs, SweepNext(p) PROVE IInv'
    <2>1. CASE call[p].rows = {} /\ Return(p) /\ UNCHANGED resv
      BY <1>12, <2>1, CallMoves, SlotUntouched, <1>o DEF SweepNext
    <2>2. ASSUME NEW r \in call[p].rows, SaveStatus(r, "expired"),
                 call' = [call EXCEPT ![p].at = "sweepFree", ![p].rows = @ \ {r}]
          PROVE  IInv'
      <3>1. r \in Rows
        BY <2>2 DEF CallType
      <3>2. resv' \in [Rows -> ResvType]
        BY <2>2, <3>1, SaveStatusType DEF Statuses
      <3>3. call' \in [Procs -> CallType]
        BY <2>2 DEF CallType, Steps
      <3> QED BY <1>12, <3>2, <3>3, SlotUntouched, <1>o DEF SweepNext
    <2>3. CASE Return(p) /\ UNCHANGED resv
      BY <1>12, <2>3, CallMoves, SlotUntouched, <1>o DEF SweepNext
    <2> QED BY <1>12, <2>1, <2>2, <2>3 DEF SweepNext
  <1>13. ASSUME NEW p \in Procs, SweepFree(p) PROVE IInv'
    <2>1. call' \in [Procs -> CallType]
      BY <1>13, CallMoves DEF SweepFree, Steps
    <2> QED BY <1>13, <2>1, SlotFreed, <1>o DEF SweepFree
  <1>14. ASSUME NEW p \in Procs, NEW c \in Capacities, OverrideFind(p, c) PROVE IInv'
    BY <1>14, SlotUntouched, <1>o DEF OverrideFind, CallType, Idle, Steps
  <1>15. ASSUME NEW p \in Procs, OverrideSave(p) PROVE IInv'
    <2>1. call' \in [Procs -> CallType]
      BY <1>15, CallMoves DEF OverrideSave
    <2>2. slot' \in SlotType /\ slot'.reserved = slot.reserved
      BY <1>15 DEF OverrideSave, SlotType, CallType
    <2>3. Effective(slot') \in Capacities /\ Effective(slot') \in Nat
      BY <2>2, EffectiveType
    <2>4. peak' \in Capacities /\ peak' >= peak /\ peak' >= Effective(slot')
      BY <1>15, <1>0, <2>3, LargerType DEF OverrideSave
    <2>5. peak' \in Nat
      BY <2>4, SlotAssumption
    <2>6. slot'.reserved <= peak' /\ Effective(slot') <= peak'
      BY <1>0, <2>2, <2>3, <2>4, <2>5 DEF ReservedWithinPeak
    <2> QED BY <1>o, <1>15, <2>1, <2>2, <2>4, <2>6 DEF OverrideSave, ReservedWithinPeak
  <1>16. ASSUME NEW p \in Procs, Crash(p) PROVE IInv'
    BY <1>16, CallMoves, SlotUntouched, <1>o DEF Crash
  <1>17. ASSUME NEW c \in Capacities, GenerateForDates(c) PROVE IInv'
    <2>2. slot' \in SlotType /\ slot'.reserved = slot.reserved
      BY <1>17 DEF GenerateForDates, SlotType
    <2>3. Effective(slot') \in Capacities /\ Effective(slot') \in Nat
      BY <2>2, EffectiveType
    <2>4. peak' \in Capacities /\ peak' >= peak /\ peak' >= Effective(slot')
      BY <1>17, <1>0, <2>3, LargerType DEF GenerateForDates
    <2>5. peak' \in Nat
      BY <2>4, SlotAssumption
    <2>6. slot'.reserved <= peak' /\ Effective(slot') <= peak'
      BY <1>0, <2>2, <2>3, <2>4, <2>5 DEF ReservedWithinPeak
    <2> QED BY <1>o, <1>17, <2>2, <2>4, <2>6 DEF GenerateForDates, ReservedWithinPeak
  <1>18. ASSUME NEW st \in {"open", "closed"}, SetSlotStatus(st) PROVE IInv'
    <2>1. /\ slot' \in SlotType /\ slot'.reserved = slot.reserved
          /\ slot'.total = slot.total /\ slot'.manual = slot.manual
      BY <1>18 DEF SetSlotStatus, SlotType
    <2> QED BY <1>o, <1>18, <2>1 DEF SetSlotStatus, ReservedWithinPeak, Effective
  <1>19. ASSUME NEW r \in Rows, HoldLapses(r) \/ TtlMonitor(r) PROVE IInv'
    <2>1. resv' \in [Rows -> ResvType]
      <3>1. CASE HoldLapses(r)
        BY <3>1 DEF HoldLapses, ResvType
      <3>2. CASE TtlMonitor(r)
        BY <3>2, SaveStatusType DEF TtlMonitor, Statuses
      <3> QED BY <1>19, <3>1, <3>2
    <2> QED BY <1>19, <2>1, SlotUntouched, <1>o DEF HoldLapses, TtlMonitor
  <1>20. CASE UNCHANGED vars
    BY <1>20, SlotUntouched, <1>o DEF vars
  <1> QED
    BY <1>1, <1>2, <1>3, <1>4, <1>5, <1>6, <1>7, <1>8, <1>9, <1>10, <1>11, <1>12,
       <1>13, <1>14, <1>15, <1>16, <1>17, <1>18, <1>19, <1>20 DEF Next

\* In every reachable state the slot document, the rows and the calls in
\* flight have their types.
THEOREM SlotTypeSafe == Spec => []TypeOK
  <1>1. IInv => TypeOK
    BY DEF IInv
  <1> QED BY InitIInv, NextIInv, <1>1, PTL DEF Spec

\* The guarded $inc keeps the counter within the largest capacity ever in
\* force, for any number of overlapping, crashing and racing calls.
THEOREM SlotGateSafe == Spec => []ReservedWithinPeak
  <1>1. IInv => ReservedWithinPeak
    BY DEF IInv
  <1> QED BY InitIInv, NextIInv, <1>1, PTL DEF Spec

-----------------------------------------------------------------------------
(* Part 2: as long as no two calls overlap on one row, no unit is lost. *)

\* What a call in flight knows of the rows it works on when no other call may
\* touch them: the row is as it was read, or MongoDB has deleted it.
RowsAsRead ==
    \A p \in Procs : \A r \in call[p].rows :
        /\ call[p].at \in {"expireHold", "confirmSave", "sweepNext", "sweepFree"}
              => resv[r].status \in {"held", "gone"}
        /\ call[p].at = "releaseSave" => resv[r].status \in {"held", "confirmed", "gone"}
        /\ resv[r].status # "none"

\* Calls that read no row carry none, and no two calls share a row.
RowsDisjoint ==
    /\ \A p \in Procs :
          call[p].at \in {"idle", "gate", "create", "overrideSave"} => call[p].rows = {}
    /\ \A p, q \in Procs : p # q => call[p].rows \cap call[q].rows = {}

\* The calls that act on a single row have read one.
RowsSingle ==
    \A p \in Procs : call[p].at \in {"expireHold", "confirmSave", "releaseSave"}
        => \E r \in Rows : call[p].rows = {r}

UnitsInv == Cardinality(Owed) + Cardinality(InFlight) <= slot.reserved

RowsInv == RowsAsRead /\ RowsDisjoint /\ RowsSingle

XInv == IInv /\ (~overlap => RowsInv /\ UnitsInv)

LEMMA AtMostOneMore ==
    ASSUME NEW S, IsFiniteSet(S), NEW x
    PROVE  /\ IsFiniteSet(S \cup {x})
           /\ Cardinality(S \cup {x}) \in Nat
           /\ Cardinality(S \cup {x}) <= Cardinality(S) + 1
  <1>1. IsFiniteSet(S \cup {x})
        /\ Cardinality(S \cup {x}) = IF x \in S THEN Cardinality(S) ELSE Cardinality(S) + 1
    BY FS_AddElement
  <1>2. Cardinality(S) \in Nat
    BY FS_CardinalityType
  <1> QED BY <1>1, <1>2

LEMMA OwedFinite ==
    ASSUME TypeOK
    PROVE  /\ IsFiniteSet(Owed) /\ IsFiniteSet(InFlight)
           /\ Cardinality(Owed) \in Nat /\ Cardinality(InFlight) \in Nat
           /\ slot.reserved \in Nat
  <1>1. Owed \subseteq Rows /\ InFlight \subseteq Procs
    BY DEF TypeOK, Owed, InFlight, Live, CallType
  <1>2. IsFiniteSet(Owed) /\ IsFiniteSet(InFlight)
    BY <1>1, SlotAssumption, FS_Subset
  <1> QED BY <1>2, FS_CardinalityType DEF TypeOK, SlotType

\* The five ways a step may change what is owed, what is in flight and the counter.
LEMMA UnitsKept ==
    ASSUME TypeOK, UnitsInv,
           Owed' \subseteq Owed, InFlight' \subseteq InFlight,
           slot'.reserved = slot.reserved
    PROVE  UnitsInv'
  <1>1. /\ Cardinality(Owed') <= Cardinality(Owed) /\ Cardinality(Owed') \in Nat
        /\ Cardinality(InFlight') <= Cardinality(InFlight) /\ Cardinality(InFlight') \in Nat
    BY OwedFinite, FS_Subset, FS_CardinalityType
  <1> QED BY <1>1, OwedFinite DEF UnitsInv

LEMMA UnitToGiveBack ==
    ASSUME TypeOK, UnitsInv, NEW r \in Owed, NEW p \in Procs,
           Owed' \subseteq Owed \ {r}, InFlight' \subseteq InFlight \cup {p},
           slot'.reserved = slot.reserved
    PROVE  UnitsInv'
  <1>1. /\ Cardinality(Owed \ {r}) = Cardinality(Owed) - 1 /\ IsFiniteSet(Owed \ {r})
        /\ Cardinality(Owed \ {r}) \in Nat
    BY OwedFinite, FS_RemoveElement, FS_CardinalityType
  <1>2. Cardinality(Owed') <= Cardinality(Owed \ {r}) /\ Cardinality(Owed') \in Nat
    BY <1>1, FS_Subset, FS_CardinalityType
  <1>3. /\ Cardinality(InFlight \cup {p}) <= Cardinality(InFlight) + 1
        /\ IsFiniteSet(InFlight \cup {p}) /\ Cardinality(InFlight \cup {p}) \in Nat
    BY OwedFinite, AtMostOneMore
  <1>4. Cardinality(InFlight') <= Cardinality(InFlight \cup {p}) /\ Cardinality(InFlight') \in Nat
    BY <1>3, FS_Subset, FS_CardinalityType
  <1> QED BY <1>1, <1>2, <1>3, <1>4, OwedFinite DEF UnitsInv

LEMMA UnitGivenBack ==
    ASSUME TypeOK, UnitsInv, NEW p \in InFlight,
           Owed' \subseteq Owed, InFlight' \subseteq InFlight \ {p},
           slot' = Released(slot)
    PROVE  UnitsInv'
  <1>1. /\ Cardinality(InFlight \ {p}) = Cardinality(InFlight) - 1
        /\ IsFiniteSet(InFlight \ {p}) /\ Cardinality(InFlight \ {p}) \in Nat
    BY OwedFinite, FS_RemoveElement, FS_CardinalityType
  <1>2. /\ Cardinality(InFlight') <= Cardinality(InFlight \ {p}) /\ Cardinality(InFlight') \in Nat
        /\ Cardinality(Owed') <= Cardinality(Owed) /\ Cardinality(Owed') \in Nat
    BY <1>1, OwedFinite, FS_Subset, FS_CardinalityType
  <1>3. slot.reserved > 0
    BY <1>1, OwedFinite DEF UnitsInv
  <1>4. slot'.reserved = slot.reserved - 1
    BY <1>3, ReleasedType DEF TypeOK
  <1> QED BY <1>1, <1>2, <1>4, OwedFinite DEF UnitsInv

LEMMA UnitTaken ==
    ASSUME TypeOK, UnitsInv, NEW p \in Procs,
           Owed' \subseteq Owed, InFlight' \subseteq InFlight \cup {p},
           slot'.reserved = slot.reserved + 1
    PROVE  UnitsInv'
  <1>1. /\ Cardinality(InFlight \cup {p}) <= Cardinality(InFlight) + 1
        /\ IsFiniteSet(InFlight \cup {p}) /\ Cardinality(InFlight \cup {p}) \in Nat
    BY OwedFinite, AtMostOneMore
  <1>2. /\ Cardinality(InFlight') <= Cardinality(InFlight \cup {p}) /\ Cardinality(InFlight') \in Nat
        /\ Cardinality(Owed') <= Cardinality(Owed) /\ Cardinality(Owed') \in Nat
    BY <1>1, OwedFinite, FS_Subset, FS_CardinalityType
  <1> QED BY <1>1, <1>2, OwedFinite DEF UnitsInv

LEMMA UnitAssigned ==
    ASSUME TypeOK, UnitsInv, NEW p \in InFlight, NEW r \in Rows,
           Owed' \subseteq Owed \cup {r}, InFlight' \subseteq InFlight \ {p},
           slot'.reserved = slot.reserved
    PROVE  UnitsInv'
  <1>1. /\ Cardinality(InFlight \ {p}) = Cardinality(InFlight) - 1
        /\ IsFiniteSet(InFlight \ {p}) /\ Cardinality(InFlight \ {p}) \in Nat
    BY OwedFinite, FS_RemoveElement, FS_CardinalityType
  <1>2. /\ Cardinality(Owed \cup {r}) <= Cardinality(Owed) + 1
        /\ IsFiniteSet(Owed \cup {r}) /\ Cardinality(Owed \cup {r}) \in Nat
    BY OwedFinite, AtMostOneMore
  <1>3. /\ Cardinality(InFlight') <= Cardinality(InFlight \ {p}) /\ Cardinality(InFlight') \in Nat
        /\ Cardinality(Owed') <= Cardinality(Owed \cup {r}) /\ Cardinality(Owed') \in Nat
    BY <1>1, <1>2, FS_Subset, FS_CardinalityType
  <1> QED BY <1>1, <1>2, <1>3, OwedFinite DEF UnitsInv

LEMMA NextXInv == XInv /\ [Next]_vars => XInv'
  <1> SUFFICES ASSUME XInv, [Next]_vars PROVE XInv'
    OBVIOUS
  <1> USE DEF RowsInv, RowsAsRead, RowsDisjoint, RowsSingle
  <1> SUFFICES ASSUME ~overlap' PROVE RowsInv' /\ UnitsInv'
    BY NextIInv DEF XInv
  <1>a. TypeOK /\ UnitsInv /\ RowsInv
    BY OverlapGrows DEF XInv, IInv
  <1>b. /\ call \in [Procs -> CallType] /\ resv \in [Rows -> ResvType]
        /\ slot \in SlotType
    BY <1>a DEF TypeOK
  <1>c. ASSUME NEW rows, Touch(rows) PROVE \A q \in Procs : call[q].rows \cap rows = {}
    BY <1>c DEF Touch
  <1>1. ASSUME NEW p \in Procs, NEW u \in Users, ReserveFindHold(p, u)
        PROVE  RowsInv' /\ UnitsInv'
    <2>1. CASE call' = [call EXCEPT ![p] = [Idle EXCEPT !.at = "gate", !.user = u]]
      <3>1. call'[p].at = "gate" /\ call'[p].rows = {}
            /\ \A q \in Procs : q # p => call'[q] = call[q]
        BY <1>b, <2>1 DEF Idle
      <3>2. UNCHANGED <<slot, resv>>
        BY <1>1 DEF ReserveFindHold
      <3>3. RowsInv'
        BY <1>a, <3>1, <3>2
      <3>4. Owed' \subseteq Owed /\ InFlight' \subseteq InFlight
        BY <3>1, <3>2 DEF Owed, InFlight, Live
      <3> QED BY <1>a, <3>2, <3>3, <3>4, UnitsKept
    <2>2. ASSUME NEW r \in Rows, resv[r].status = "held", Touch({r}),
                 call' = [call EXCEPT ![p] =
                    [Idle EXCEPT !.at = "expireHold", !.user = u, !.rows = {r}]]
          PROVE  RowsInv' /\ UnitsInv'
      <3>1. call'[p].at = "expireHold" /\ call'[p].rows = {r}
            /\ \A q \in Procs : q # p => call'[q] = call[q]
        BY <1>b, <2>2 DEF Idle
      <3>2. UNCHANGED <<slot, resv>>
        BY <1>1 DEF ReserveFindHold
      <3>3. RowsInv'
        BY <1>a, <1>c, <2>2, <3>1, <3>2
      <3>4. Owed' \subseteq Owed /\ InFlight' \subseteq InFlight
        BY <2>2, <3>1, <3>2 DEF Owed, InFlight, Live
      <3> QED BY <1>a, <3>2, <3>3, <3>4, UnitsKept
    <2> QED BY <1>1, <2>1, <2>2 DEF ReserveFindHold
  <1>2. ASSUME NEW p \in Procs, ReserveExpireHold(p)
        PROVE  RowsInv' /\ UnitsInv'
    <2>1. PICK r \in Rows : call[p].rows = {r} /\ call[p].at = "expireHold"
      BY <1>2, <1>a DEF ReserveExpireHold
    <2>2. IF Present(r) THEN SaveStatus(r, "expired") ELSE UNCHANGED resv
      BY <1>2, <2>1 DEF ReserveExpireHold
    <2>3. call'[p].at = "freeHold" /\ call'[p].rows = {r}
          /\ \A q \in Procs : q # p => call'[q] = call[q] /\ r \notin call[q].rows
      BY <1>2, <1>a, <1>b, <2>1 DEF ReserveExpireHold, Goto, CallType
    <2>4. /\ resv'[r].status \notin {"held", "confirmed", "none"}
          /\ \A x \in Rows : x # r => resv'[x] = resv[x]
      BY <1>a, <1>b, <2>1, <2>2 DEF Present, SaveStatus, ResvType, Statuses
    <2>5. RowsInv'
      BY <1>a, <1>b, <2>3, <2>4 DEF CallType
    <2>6. r \in Owed /\ Owed' \subseteq Owed \ {r} /\ InFlight' \subseteq InFlight \cup {p}
      BY <1>b, <2>1, <2>3, <2>4 DEF Owed, InFlight, Live, CallType
    <2>7. slot' = slot
      BY <1>2 DEF ReserveExpireHold
    <2> QED BY <1>a, <2>5, <2>6, <2>7, UnitToGiveBack
  <1>3. ASSUME NEW p \in Procs, ReserveFreeHold(p)
        PROVE  RowsInv' /\ UnitsInv'
    <2>1. call'[p].at = "gate" /\ call'[p].rows = {} /\ call[p].at = "freeHold"
          /\ (\A q \in Procs : q # p => call'[q] = call[q])
          /\ slot' = Released(slot) /\ UNCHANGED resv
      BY <1>3, <1>b DEF ReserveFreeHold, CallType
    <2>2. RowsInv'
      BY <1>a, <2>1
    <2>3. p \in InFlight /\ Owed' \subseteq Owed /\ InFlight' \subseteq InFlight \ {p}
      BY <2>1 DEF Owed, InFlight, Live
    <2> QED BY <1>a, <2>1, <2>2, <2>3, UnitGivenBack
  <1>4. ASSUME NEW p \in Procs, ReserveGate(p)
        PROVE  RowsInv' /\ UnitsInv'
    <2>1. call[p].at = "gate" /\ call[p].rows = {} /\ UNCHANGED resv
      BY <1>4, <1>a DEF ReserveGate
    <2>2. CASE ~GateOpen(slot)
      <3>1. call'[p].at = "idle" /\ call'[p].rows = {} /\ slot' = slot
            /\ (\A q \in Procs : q # p => call'[q] = call[q])
        BY <1>4, <1>b, <2>2 DEF ReserveGate, Return, Idle
      <3>2. RowsInv'
        BY <1>a, <2>1, <3>1
      <3>3. Owed' \subseteq Owed /\ InFlight' \subseteq InFlight
        BY <2>1, <3>1 DEF Owed, InFlight, Live
      <3> QED BY <1>a, <3>1, <3>2, <3>3, UnitsKept
    <2>3. CASE GateOpen(slot)
      <3>1. call'[p].at = "create" /\ call'[p].rows = {}
            /\ (\A q \in Procs : q # p => call'[q] = call[q])
        BY <1>4, <1>b, <2>1, <2>3 DEF ReserveGate, Goto, CallType
      <3>2. slot'.reserved = slot.reserved + 1
        BY <1>4, <1>b, <2>3 DEF ReserveGate, SlotType
      <3>3. RowsInv'
        BY <1>a, <2>1, <3>1
      <3>4. Owed' \subseteq Owed /\ InFlight' \subseteq InFlight \cup {p}
        BY <2>1, <3>1 DEF Owed, InFlight, Live
      <3> QED BY <1>a, <3>2, <3>3, <3>4, UnitTaken
    <2> QED BY <2>2, <2>3
  <1>5. ASSUME NEW p \in Procs, ReserveCreate(p)
        PROVE  RowsInv' /\ UnitsInv'
    <2>1. call[p].at = "create" /\ call[p].rows = {} /\ slot' = slot
      BY <1>5, <1>a DEF ReserveCreate
    <2>2. call'[p].at = "idle" /\ call'[p].rows = {}
          /\ (\A q \in Procs : q # p => call'[q] = call[q])
      BY <1>5, <1>b DEF ReserveCreate, Return, Idle
    <2>3. CASE UNCHANGED resv
      <3>1. RowsInv'
        BY <1>a, <2>1, <2>2, <2>3
      <3>2. Owed' \subseteq Owed /\ InFlight' \subseteq InFlight
        BY <2>1, <2>2, <2>3 DEF Owed, InFlight, Live
      <3> QED BY <1>a, <2>1, <3>1, <3>2, UnitsKept
    <2>4. ASSUME NEW r \in Rows, resv[r].status = "none",
                 resv' = [resv EXCEPT ![r] =
                    [user |-> call[p].user, status |-> "held", late |-> FALSE]]
          PROVE  RowsInv' /\ UnitsInv'
      <3>1. /\ resv'[r].status = "held"
            /\ \A x \in Rows : x # r => resv'[x] = resv[x]
        BY <1>b, <2>4
      <3>2. \A q \in Procs : r \notin call[q].rows
        BY <1>a, <2>4
      <3>3. RowsInv'
        BY <1>a, <1>b, <2>1, <2>2, <3>1, <3>2 DEF CallType
      <3>4. /\ p \in InFlight /\ Owed' \subseteq Owed \cup {r}
            /\ InFlight' \subseteq InFlight \ {p}
        BY <2>1, <2>2, <3>1 DEF Owed, InFlight, Live
      <3> QED BY <1>a, <2>1, <3>3, <3>4, UnitAssigned
    <2> QED BY <1>5, <2>3, <2>4 DEF ReserveCreate
  <1>6. ASSUME NEW p \in Procs, NEW r \in Rows, ConfirmFind(p, r) \/ ReleaseFind(p, r)
        PROVE  RowsInv' /\ UnitsInv'
    <2>1. /\ r \in Live /\ Touch({r}) /\ UNCHANGED <<slot, resv>>
          /\ call[p].at = "idle"
          /\ call'[p].rows = {r} /\ call'[p].at \in {"confirmSave", "releaseSave"}
          /\ call'[p].at = "confirmSave" => resv[r].status = "held"
          /\ \A q \in Procs : q # p => call'[q] = call[q]
      BY <1>6, <1>b DEF ConfirmFind, ReleaseFind, Live, Idle
    <2>2. RowsInv'
      BY <1>a, <1>c, <2>1 DEF Live
    <2>3. Owed' \subseteq Owed /\ InFlight' \subseteq InFlight
      BY <2>1 DEF Owed, InFlight, Live
    <2> QED BY <1>a, <2>1, <2>2, <2>3, UnitsKept
  <1>7. ASSUME NEW p \in Procs, ConfirmSave(p)
        PROVE  RowsInv' /\ UnitsInv'
    <2>1. PICK r \in Rows : call[p].rows = {r} /\ call[p].at = "confirmSave"
      BY <1>7, <1>a DEF ConfirmSave
    <2>2. IF Present(r) THEN SaveStatus(r, "confirmed") ELSE UNCHANGED resv
      BY <1>7, <2>1 DEF ConfirmSave
    <2>3. /\ call'[p].at = "idle" /\ call'[p].rows = {} /\ slot' = slot
          /\ \A q \in Procs : q # p => call'[q] = call[q] /\ r \notin call[q].rows
      BY <1>7, <1>a, <1>b, <2>1 DEF ConfirmSave, Return, Idle
    <2>4. /\ resv'[r].status \in {"held", "confirmed"} => resv[r].status = "held"
          /\ \A x \in Rows : x # r => resv'[x] = resv[x]
      BY <1>a, <1>b, <2>1, <2>2 DEF Present, SaveStatus, ResvType, Statuses
    <2>5. RowsInv'
      BY <1>a, <1>b, <2>3, <2>4 DEF CallType
    <2>6. Owed' \subseteq Owed /\ InFlight' \subseteq InFlight
      BY <1>b, <2>1, <2>3, <2>4 DEF Owed, InFlight, Live, CallType
    <2> QED BY <1>a, <2>3, <2>5, <2>6, UnitsKept
  <1>8. ASSUME NEW p \in Procs, ReleaseSave(p)
        PROVE  RowsInv' /\ UnitsInv'
    <2>1. PICK r \in Rows : call[p].rows = {r} /\ call[p].at = "releaseSave"
      BY <1>8, <1>a DEF ReleaseSave
    <2>2. /\ slot' = slot
          /\ \A q \in Procs : q # p => call'[q] = call[q] /\ r \notin call[q].rows
      BY <1>8, <1>a, <1>b, <2>1 DEF ReleaseSave, Return, Goto
    <2>3. CASE ~Present(r) /\ Return(p) /\ UNCHANGED resv
      <3>1. call'[p].at = "idle" /\ call'[p].rows = {}
        BY <1>b, <2>3 DEF Return, Idle
      <3>2. RowsInv'
        BY <1>a, <2>2, <2>3, <3>1
      <3>3. Owed' \subseteq Owed /\ InFlight' \subseteq InFlight
        BY <2>2, <2>3, <3>1 DEF Owed, InFlight, Live
      <3> QED BY <1>a, <2>2, <3>2, <3>3, UnitsKept
    <2>4. CASE Present(r) /\ SaveStatus(r, "released") /\ Goto(p, "releaseFree")
      <3>1. call'[p].at = "releaseFree" /\ call'[p].rows = {r}
        BY <1>b, <2>1, <2>4 DEF Goto, CallType
      <3>2. /\ resv[r].status \in {"held", "confirmed"} /\ resv'[r].status = "released"
            /\ \A x \in Rows : x # r => resv'[x] = resv[x]
        BY <1>a, <1>b, <2>1, <2>4 DEF Present, SaveStatus, ResvType
      <3>3. RowsInv'
        BY <1>a, <1>b, <2>2, <3>1, <3>2 DEF CallType
      <3>4. r \in Owed /\ Owed' \subseteq Owed \ {r} /\ InFlight' \subseteq InFlight \cup {p}
        BY <1>b, <2>2, <3>1, <3>2 DEF Owed, InFlight, Live, CallType
      <3> QED BY <1>a, <2>2, <3>3, <3>4, UnitToGiveBack
    <2> QED BY <1>8, <2>1, <2>3, <2>4 DEF ReleaseSave
  <1>9. ASSUME NEW p \in Procs, ReleaseFree(p)
        PROVE  RowsInv' /\ UnitsInv'
    <2>1. call'[p].at = "idle" /\ call'[p].rows = {} /\ call[p].at = "releaseFree"
          /\ (\A q \in Procs : q # p => call'[q] = call[q])
          /\ slot' = Released(slot) /\ UNCHANGED resv
      BY <1>9, <1>b DEF ReleaseFree, Return, Idle
    <2>2. RowsInv'
      BY <1>a, <2>1
    <2>3. p \in InFlight /\ Owed' \subseteq Owed /\ InFlight' \subseteq InFlight \ {p}
      BY <2>1 DEF Owed, InFlight, Live
    <2> QED BY <1>a, <2>1, <2>2, <2>3, UnitGivenBack
  <1>10. ASSUME NEW p \in Procs, SweepFind(p)
         PROVE  RowsInv' /\ UnitsInv'
    <2>1. /\ UNCHANGED <<slot, resv>>
          /\ call'[p].at = "sweepNext"
          /\ call'[p].rows = {r \in Rows : resv[r].status = "held" /\ resv[r].late}
          /\ Touch(call'[p].rows)
          /\ \A q \in Procs : q # p => call'[q] = call[q]
      BY <1>10, <1>b DEF SweepFind, Idle
    <2>2. RowsInv'
      BY <1>a, <1>c, <2>1
    <2>3. Owed' \subseteq Owed /\ InFlight' \subseteq InFlight
      BY <2>1 DEF Owed, InFlight, Live
    <2> QED BY <1>a, <2>1, <2>2, <2>3, UnitsKept
  <1>11. ASSUME NEW p \in Procs, SweepNext(p)
         PROVE  RowsInv' /\ UnitsInv'
    <2>1. call[p].at = "sweepNext" /\ slot' = slot
      BY <1>11 DEF SweepNext
    <2>2. CASE Return(p) /\ UNCHANGED resv
      <3>1. call'[p].at = "idle" /\ call'[p].rows = {}
            /\ \A q \in Procs : q # p => call'[q] = call[q]
        BY <1>b, <2>2 DEF Return, Idle
      <3>2. RowsInv'
        BY <1>a, <2>2, <3>1
      <3>3. Owed' \subseteq Owed /\ InFlight' \subseteq InFlight
        BY <2>2, <3>1 DEF Owed, InFlight, Live
      <3> QED BY <1>a, <2>1, <3>2, <3>3, UnitsKept
    <2>3. ASSUME NEW r \in call[p].rows, Present(r), SaveStatus(r, "expired"),
                 call' = [call EXCEPT ![p].at = "sweepFree", ![p].rows = @ \ {r}]
          PROVE  RowsInv' /\ UnitsInv'
      <3>1. /\ call'[p].at = "sweepFree" /\ call'[p].rows = call[p].rows \ {r}
            /\ \A q \in Procs : q # p => call'[q] = call[q] /\ r \notin call[q].rows
        BY <1>a, <1>b, <2>3 DEF CallType
      <3>2. /\ r \in Rows /\ resv[r].status = "held" /\ resv'[r].status = "expired"
            /\ \A x \in Rows : x # r => resv'[x] = resv[x]
        BY <1>a, <1>b, <2>1, <2>3 DEF Present, SaveStatus, ResvType, CallType
      <3>3. RowsInv'
        BY <1>a, <1>b, <2>1, <3>1, <3>2 DEF CallType
      <3>4. r \in Owed /\ Owed' \subseteq Owed \ {r} /\ InFlight' \subseteq InFlight \cup {p}
        BY <1>b, <2>1, <3>1, <3>2 DEF Owed, InFlight, Live, CallType
      <3> QED BY <1>a, <2>1, <3>3, <3>4, UnitToGiveBack
    <2> QED BY <1>11, <2>2, <2>3 DEF SweepNext
  <1>12. ASSUME NEW p \in Procs, SweepFree(p)
         PROVE  RowsInv' /\ UnitsInv'
    <2>1. call'[p].at = "sweepNext" /\ call'[p].rows = call[p].rows
          /\ call[p].at = "sweepFree"
          /\ (\A q \in Procs : q # p => call'[q] = call[q])
          /\ slot' = Released(slot) /\ UNCHANGED resv
      BY <1>12, <1>b DEF SweepFree, Goto, CallType
    <2>2. RowsInv'
      BY <1>a, <2>1
    <2>3. p \in InFlight /\ Owed' \subseteq Owed /\ InFlight' \subseteq InFlight \ {p}
      BY <2>1 DEF Owed, InFlight, Live
    <2> QED BY <1>a, <2>1, <2>2, <2>3, UnitGivenBack
  <1>13. ASSUME NEW p \in Procs, NEW c \in Capacities, OverrideFind(p, c)
         PROVE  RowsInv' /\ UnitsInv'
    <2>1. /\ UNCHANGED <<slot, resv>>
          /\ call'[p].at = "overrideSave" /\ call'[p].rows = {}
          /\ \A q \in Procs : q # p => call'[q] = call[q]
      BY <1>13, <1>b DEF OverrideFind, Idle
    <2>2. RowsInv'
      BY <1>a, <2>1
    <2>3. Owed' \subseteq Owed /\ InFlight' \subseteq InFlight
      BY <2>1 DEF Owed, InFlight, Live
    <2> QED BY <1>a, <2>1, <2>2, <2>3, UnitsKept
  <1>14. ASSUME NEW p \in Procs, OverrideSave(p) \/ Crash(p)
         PROVE  RowsInv' /\ UnitsInv'
    <2>1. /\ UNCHANGED resv /\ slot'.reserved = slot.reserved
          /\ call'[p].at = "idle" /\ call'[p].rows = {}
          /\ \A q \in Procs : q # p => call'[q] = call[q]
      BY <1>14, <1>b DEF OverrideSave, Crash, Return, Idle, SlotType
    <2>2. RowsInv'
      BY <1>a, <2>1
    <2>3. Owed' \subseteq Owed /\ InFlight' \subseteq InFlight
      BY <2>1 DEF Owed, InFlight, Live
    <2> QED BY <1>a, <2>1, <2>2, <2>3, UnitsKept
  <1>15. ASSUME \/ \E c \in Capacities : GenerateForDates(c)
                \/ \E st \in {"open", "closed"} : SetSlotStatus(st)
         PROVE  RowsInv' /\ UnitsInv'
    <2>1. UNCHANGED <<resv, call>> /\ slot'.reserved = slot.reserved
      BY <1>15, <1>b DEF GenerateForDates, SetSlotStatus, SlotType
    <2>2. RowsInv'
      BY <1>a, <2>1
    <2>3. Owed' \subseteq Owed /\ InFlight' \subseteq InFlight
      BY <2>1 DEF Owed, InFlight, Live
    <2> QED BY <1>a, <2>1, <2>2, <2>3, UnitsKept
  <1>16. ASSUME NEW r \in Rows, HoldLapses(r) \/ TtlMonitor(r)
         PROVE  RowsInv' /\ UnitsInv'
    <2>1. /\ UNCHANGED <<slot, call>> /\ resv[r].status \in {"held", "confirmed"}
          /\ resv'[r].status \in {resv[r].status, "gone"}
          /\ resv'[r].status = "gone" => resv[r].status = "held"
          /\ \A x \in Rows : x # r => resv'[x] = resv[x]
      BY <1>16, <1>b DEF HoldLapses, TtlMonitor, SaveStatus, ResvType, Live
    <2>2. RowsInv'
      BY <1>a, <1>b, <2>1 DEF CallType
    <2>3. Owed' \subseteq Owed /\ InFlight' \subseteq InFlight
      BY <1>b, <2>1 DEF Owed, InFlight, Live, CallType
    <2> QED BY <1>a, <2>1, <2>2, <2>3, UnitsKept
  <1>17. CASE UNCHANGED vars
    <2>1. UNCHANGED <<slot, resv, call>>
      BY <1>17 DEF vars
    <2>2. Owed' \subseteq Owed /\ InFlight' \subseteq InFlight
      BY <2>1 DEF Owed, InFlight, Live
    <2> QED BY <1>a, <2>1, <2>2, UnitsKept
  <1> QED
    BY <1>1, <1>2, <1>3, <1>4, <1>5, <1>6, <1>7, <1>8, <1>9, <1>10, <1>11, <1>12,
       <1>13, <1>14, <1>15, <1>16, <1>17 DEF Next

LEMMA InitXInv == Init => XInv
  <1> SUFFICES ASSUME Init PROVE XInv
    OBVIOUS
  <1>1. IInv
    BY InitIInv
  <1>2. RowsInv
    BY DEF Init, Idle, RowsInv, RowsAsRead, RowsDisjoint, RowsSingle
  <1>3. Owed = {} /\ InFlight = {} /\ slot.reserved = 0
    BY DEF Init, Idle, Owed, InFlight, Live
  <1>4. UnitsInv
    BY <1>3, FS_EmptySet DEF UnitsInv
  <1> QED BY <1>1, <1>2, <1>4 DEF XInv

\* As long as no two calls have been in flight about one reservation, no unit
\* that a customer holds or that a call carries is missing from the counter.
THEOREM SlotUnitsCovered == Spec => []UnitsCovered
  <1>1. XInv => UnitsCovered
    BY DEF XInv, UnitsInv, UnitsCovered
  <1> QED BY InitXInv, NextXInv, <1>1, PTL DEF Spec

\* Under the same condition the deliveries the slot owes never exceed the
\* largest capacity that was in force: concurrent customers, crashes, TTL
\* deletions and capacity changes cannot oversell it.
THEOREM SlotNeverOversold == Spec => []NoOversellAlone
  <1>1. XInv => NoOversellAlone
    <2> SUFFICES ASSUME XInv, ~overlap PROVE NoOversell
      BY DEF NoOversellAlone
    <2>1. TypeOK /\ UnitsInv /\ ReservedWithinPeak
      BY DEF XInv, IInv
    <2>2. Live \subseteq Owed
      BY DEF Owed
    <2>3. /\ Cardinality(Live) <= Cardinality(Owed) /\ Cardinality(Live) \in Nat
      BY <2>1, <2>2, OwedFinite, FS_Subset, FS_CardinalityType
    <2>4. peak \in Nat
      BY <2>1, SlotAssumption DEF TypeOK
    <2> QED BY <2>1, <2>3, <2>4, OwedFinite DEF NoOversell, UnitsInv, ReservedWithinPeak
  <1> QED BY InitXInv, NextXInv, <1>1, PTL DEF Spec

\* As long as no two calls have been in flight about one reservation, a
\* confirmed one leaves that status only by a release: neither the sweep nor a
\* customer's next request nor the TTL index touches it.
THEOREM SlotConfirmedDurable == Spec => ConfirmedDurable
  <1>1. XInv /\ [Next]_vars =>
          [\A r \in Rows : resv[r].status = "confirmed" /\ ~overlap'
              => resv'[r].status \in {"confirmed", "released"}]_vars
    <2> SUFFICES ASSUME XInv, Next, ~overlap',
                        NEW r \in Rows, resv[r].status = "confirmed"
                 PROVE  resv'[r].status \in {"confirmed", "released"}
      OBVIOUS
    <2> USE DEF RowsInv, RowsAsRead
    <2>1. TypeOK /\ RowsInv
      BY OverlapGrows DEF XInv, IInv
    <2>2. CASE UNCHANGED resv
      BY <2>2
    <2>3. ASSUME NEW x \in Rows, NEW st \in Statuses, SaveStatus(x, st),
                 x = r => st \in {"confirmed", "released"}
          PROVE  resv'[r].status \in {"confirmed", "released"}
      BY <2>1, <2>3 DEF TypeOK, ResvType, SaveStatus
    <2>4. ASSUME NEW p \in Procs, ReserveCreate(p)
          PROVE  resv'[r].status \in {"confirmed", "released"}
      BY <2>1, <2>2, <2>4 DEF TypeOK, ResvType, ReserveCreate
    <2>5. ASSUME NEW x \in Rows, HoldLapses(x)
          PROVE  resv'[r].status \in {"confirmed", "released"}
      BY <2>1, <2>5 DEF TypeOK, ResvType, HoldLapses
    <2>6. ASSUME NEW x \in Rows, TtlMonitor(x)
          PROVE  resv'[r].status \in {"confirmed", "released"}
      BY <2>3, <2>6 DEF TtlMonitor, Statuses
    <2>7. ASSUME NEW p \in Procs, ReserveExpireHold(p) \/ SweepNext(p)
          PROVE  resv'[r].status \in {"confirmed", "released"}
      <3>1. ASSUME NEW x \in call[p].rows, SaveStatus(x, "expired")
            PROVE  resv'[r].status \in {"confirmed", "released"}
        BY <2>1, <2>3, <2>7, <3>1 DEF TypeOK, CallType, Statuses, ReserveExpireHold, SweepNext
      <3> QED BY <2>2, <2>7, <3>1 DEF ReserveExpireHold, SweepNext
    <2>8. ASSUME NEW p \in Procs, ConfirmSave(p) \/ ReleaseSave(p)
          PROVE  resv'[r].status \in {"confirmed", "released"}
      <3>1. ASSUME NEW x \in call[p].rows, NEW st \in {"confirmed", "released"}, SaveStatus(x, st)
            PROVE  resv'[r].status \in {"confirmed", "released"}
        BY <2>1, <2>3, <3>1 DEF TypeOK, CallType, Statuses
      <3> QED BY <2>2, <2>8, <3>1 DEF ConfirmSave, ReleaseSave
    <2> QED
      BY <2>2, <2>4, <2>5, <2>6, <2>7, <2>8
      DEF Next, ReserveFindHold, ReserveFreeHold, ReserveGate, ConfirmFind, ReleaseFind,
          ReleaseFree, SweepFind, SweepFree, GenerateForDates, OverrideFind, OverrideSave,
          SetSlotStatus, Crash
  <1> QED BY InitXInv, NextXInv, <1>1, PTL DEF Spec, ConfirmedDurable
=============================================================================
