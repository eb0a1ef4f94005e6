--------------------------- MODULE SlotReservation ---------------------------
(***************************************************************************)
(* Slotted-delivery capacity: services/slot.service.js together with the   *)
(* admin overrides of services/adminSlots.service.js.                      *)
(*                                                                         *)
(* One delivery slot, its counter reservedCapacity, and the reservation    *)
(* rows held against it.  Every `await` on MongoDB is one step, so a call  *)
(* that reads a row and saves it later writes over whatever other calls    *)
(* did in between: Mongoose's save() sets the modified paths by _id.       *)
(***************************************************************************)
EXTENDS Integers, FiniteSets

CONSTANTS
    Users,        \* customers
    Procs,        \* requests in flight: API calls and admin sweeps
    Rows,         \* ids of reservation rows (bounds how many are created)
    Capacities,   \* capacity numbers ops, the forecast and admins may set
    NoUser        \* "no customer": the user field of a call that has none

ASSUME SlotAssumption ==
    /\ IsFiniteSet(Rows) /\ IsFiniteSet(Procs)
    /\ Capacities \subseteq Nat \ {0}
    /\ NoUser \notin Users

VARIABLES
    slot,   \* the DeliverySlot document
    resv,   \* the slotreservations collection
    call,   \* per request: the next database call, and what it has read
    peak,   \* ghost: the largest effective capacity the slot ever had
    overlap \* ghost: two calls have been in flight about one row

vars == <<slot, resv, call, peak, overlap>>

\* "none": never created; "gone": removed by MongoDB's TTL monitor.
Statuses == {"none", "held", "confirmed", "expired", "released", "gone"}

Steps == {"idle", "expireHold", "freeHold", "gate", "create", "confirmSave",
          "releaseSave", "releaseFree", "sweepNext", "sweepFree", "overrideSave"}

\* manual = 0 stands for manualCapacity: null (the schema has min: 1).
SlotType == [status : {"open", "closed"}, total : Capacities,
             manual : Capacities \cup {0}, reserved : Nat]

\* late: past its expiresAt.  Nothing asks for the user or the age of a row
\* that is expired, released or deleted, and the model forgets them.
ResvType == [user : Users \cup {NoUser}, status : Statuses, late : BOOLEAN]

CallType == [at : Steps, user : Users \cup {NoUser}, rows : SUBSET Rows,
             cap : Capacities \cup {0}]

Idle == [at |-> "idle", user |-> NoUser, rows |-> {}, cap |-> 0]

\* $ifNull: ['$manualCapacity', '$totalCapacity']
Effective(s) == IF s.manual = 0 THEN s.total ELSE s.manual

Larger(a, b) == IF a >= b THEN a ELSE b

Present(r) == resv[r].status \notin {"none", "gone"}

\* Rows that entitle their customer to a delivery in this slot.
Live == {r \in Rows : resv[r].status \in {"held", "confirmed"}}

Init ==
    /\ slot \in [status : {"open"}, total : Capacities, manual : {0}, reserved : {0}]
    /\ resv = [r \in Rows |-> [user |-> NoUser, status |-> "none", late |-> FALSE]]
    /\ call = [p \in Procs |-> Idle]
    /\ peak = slot.total
    /\ overlap = FALSE

-----------------------------------------------------------------------------
(* Steps of a call *)

Goto(p, step) == call' = [call EXCEPT ![p].at = step]

Return(p) == call' = [call EXCEPT ![p] = Idle]

\* A call starts to work on these rows: does another one work on them already?
Touch(rows) == overlap' = (overlap \/ \E q \in Procs : call[q].rows \cap rows # {})

\* Document.save() of a status: the row must still exist, else it throws.
SaveStatus(r, status) ==
    resv' = [resv EXCEPT ![r] =
                IF status = "confirmed" THEN [@ EXCEPT !.status = status]
                ELSE [user |-> NoUser, status |-> status, late |-> FALSE]]

\* releaseCapacity: decrement, but never below zero.
Released(s) == IF s.reserved > 0 THEN [s EXCEPT !.reserved = @ - 1] ELSE s

-----------------------------------------------------------------------------
(* reserve *)

\* The slot document is read and the customer's HELD row looked up: a live one
\* is returned as it is, an expired one is expired and freed before the gate.
ReserveFindHold(p, u) ==
    LET holds == {r \in Rows : resv[r].status = "held" /\ resv[r].user = u}
    IN  /\ call[p].at = "idle"
        /\ \/ /\ holds = {}
              /\ call' = [call EXCEPT ![p] = [Idle EXCEPT !.at = "gate", !.user = u]]
              /\ UNCHANGED overlap
           \/ \E r \in holds :
                 /\ resv[r].late
                 /\ Touch({r})
                 /\ call' = [call EXCEPT ![p] =
                       [Idle EXCEPT !.at = "expireHold", !.user = u, !.rows = {r}]]
        /\ UNCHANGED <<slot, resv, peak>>

\* Mutant: the lapsed hold is freed but stays HELD.
ReserveExpireHoldUnsaved(p) ==
    /\ call[p].at = "expireHold"
    /\ Goto(p, "freeHold")
    /\ UNCHANGED <<slot, resv, peak, overlap>>

\* updateOne by _id: silent when the row has been deleted meanwhile.
ReserveExpireHold(p) ==
    /\ call[p].at = "expireHold"
    /\ \E r \in call[p].rows :
          IF Present(r) THEN SaveStatus(r, "expired") ELSE UNCHANGED resv
    /\ Goto(p, "freeHold")
    /\ UNCHANGED <<slot, peak, overlap>>

ReserveFreeHold(p) ==
    /\ call[p].at = "freeHold"
    /\ slot' = Released(slot)
    /\ call' = [call EXCEPT ![p].at = "gate", ![p].rows = {}]
    /\ UNCHANGED <<resv, peak, overlap>>

\* Mutant: the gate compares with <=.
GateOpenOffByOne(s) == s.status = "open" /\ s.reserved <= Effective(s)

\* The guarded findOneAndUpdate: test and increment are one atomic step.
GateOpen(s) == s.status = "open" /\ s.reserved < Effective(s)

ReserveGate(p) ==
    /\ call[p].at = "gate"
    /\ IF GateOpen(slot)
       THEN /\ slot' = [slot EXCEPT !.reserved = @ + 1]
            /\ Goto(p, "create")
       ELSE /\ Return(p)
            /\ UNCHANGED slot
    /\ UNCHANGED <<resv, peak, overlap>>

\* The partial unique index (slotId, userId, status = held) refuses a second
\* HELD row of the customer; the increment of the gate is then not undone.
ReserveCreate(p) ==
    /\ call[p].at = "create"
    /\ \/ /\ \E r \in Rows : resv[r].status = "held" /\ resv[r].user = call[p].user
          /\ UNCHANGED resv
       \/ /\ \A r \in Rows : ~(resv[r].status = "held" /\ resv[r].user = call[p].user)
          /\ \E r \in Rows :
                /\ resv[r].status = "none"
                /\ resv' = [resv EXCEPT ![r] =
                      [user |-> call[p].user, status |-> "held", late |-> FALSE]]
    /\ Return(p)
    /\ UNCHANGED <<slot, peak, overlap>>

-----------------------------------------------------------------------------
(* confirm, release, sweepExpiredHolds *)

ConfirmFind(p, r) ==
    /\ call[p].at = "idle"
    /\ resv[r].status = "held" /\ ~resv[r].late
    /\ Touch({r})
    /\ call' = [call EXCEPT ![p] = [Idle EXCEPT !.at = "confirmSave", !.rows = {r}]]
    /\ UNCHANGED <<slot, resv, peak>>

ConfirmSave(p) ==
    /\ call[p].at = "confirmSave"
    /\ \E r \in call[p].rows :
          IF Present(r) THEN SaveStatus(r, "confirmed") ELSE UNCHANGED resv
    /\ Return(p)
    /\ UNCHANGED <<slot, peak, overlap>>

\* Mutant: release does not look at the status before it frees the unit.
ReleaseFindAnyStatus(p, r) ==
    /\ call[p].at = "idle"
    /\ Present(r)
    /\ Touch({r})
    /\ call' = [call EXCEPT ![p] = [Idle EXCEPT !.at = "releaseSave", !.rows = {r}]]
    /\ UNCHANGED <<slot, resv, peak>>

ReleaseFind(p, r) ==
    /\ call[p].at = "idle"
    /\ r \in Live
    /\ Touch({r})
    /\ call' = [call EXCEPT ![p] = [Idle EXCEPT !.at = "releaseSave", !.rows = {r}]]
    /\ UNCHANGED <<slot, resv, peak>>

ReleaseSave(p) ==
    /\ call[p].at = "releaseSave"
    /\ \E r \in call[p].rows :
          \/ /\ Present(r)
             /\ SaveStatus(r, "released")
             /\ Goto(p, "releaseFree")
          \/ /\ ~Present(r)
             /\ Return(p)
             /\ UNCHANGED resv
    /\ UNCHANGED <<slot, peak, overlap>>

ReleaseFree(p) ==
    /\ call[p].at = "releaseFree"
    /\ slot' = Released(slot)
    /\ Return(p)
    /\ UNCHANGED <<resv, peak, overlap>>

\* Mutant: the find() of the sweep selects by expiresAt alone.
SweepFindAnyStatus(p) ==
    LET due == {r \in Rows : resv[r].late}
    IN  /\ call[p].at = "idle"
        /\ due # {}
        /\ Touch(due)
        /\ call' = [call EXCEPT ![p] = [Idle EXCEPT !.at = "sweepNext", !.rows = due]]
        /\ UNCHANGED <<slot, resv, peak>>

\* The rows one find() returns; each is saved and freed in turn, unchecked.
SweepFind(p) ==
    LET due == {r \in Rows : resv[r].status = "held" /\ resv[r].late}
    IN  /\ call[p].at = "idle"
        /\ due # {}
        /\ Touch(due)
        /\ call' = [call EXCEPT ![p] = [Idle EXCEPT !.at = "sweepNext", !.rows = due]]
        /\ UNCHANGED <<slot, resv, peak>>

\* A row deleted meanwhile makes save() throw, which ends the whole sweep.
SweepNext(p) ==
    /\ call[p].at = "sweepNext"
    /\ \/ /\ call[p].rows = {}
          /\ Return(p)
          /\ UNCHANGED resv
       \/ \E r \in call[p].rows :
             \/ /\ Present(r)
                /\ SaveStatus(r, "expired")
                /\ call' = [call EXCEPT ![p].at = "sweepFree", ![p].rows = @ \ {r}]
             \/ /\ ~Present(r)
                /\ Return(p)
                /\ UNCHANGED resv
    /\ UNCHANGED <<slot, peak, overlap>>

SweepFree(p) ==
    /\ call[p].at = "sweepFree"
    /\ slot' = Released(slot)
    /\ Goto(p, "sweepNext")
    /\ UNCHANGED <<resv, peak, overlap>>

-----------------------------------------------------------------------------
(* Capacity changes *)

\* generateForDates with forecast or overwrite: one upsert, no look at reserved.
GenerateForDates(c) ==
    /\ slot' = [slot EXCEPT !.total = c, !.status = "open"]
    /\ peak' = Larger(peak, Effective(slot'))
    /\ UNCHANGED <<resv, call, overlap>>

\* overrideSlot refuses a number below the reserved units it has read.
OverrideFind(p, c) ==
    /\ call[p].at = "idle"
    /\ slot.reserved <= c
    /\ call' = [call EXCEPT ![p] = [Idle EXCEPT !.at = "overrideSave", !.cap = c]]
    /\ UNCHANGED <<slot, resv, peak, overlap>>

OverrideSave(p) ==
    /\ call[p].at = "overrideSave"
    /\ slot' = [slot EXCEPT !.manual = call[p].cap]
    /\ peak' = Larger(peak, Effective(slot'))
    /\ Return(p)
    /\ UNCHANGED <<resv, overlap>>

SetSlotStatus(status) ==
    /\ slot' = [slot EXCEPT !.status = status]
    /\ UNCHANGED <<resv, call, peak, overlap>>

-----------------------------------------------------------------------------
(* Time, MongoDB and failures *)

\* The ten minutes of a reservation pass; confirming it leaves expiresAt alone.
HoldLapses(r) ==
    /\ r \in Live /\ ~resv[r].late
    /\ resv' = [resv EXCEPT ![r].late = TRUE]
    /\ UNCHANGED <<slot, call, peak, overlap>>

\* MongoDB's TTL monitor deletes HELD rows past expiresAt: no application code
\* runs, so the slot's counter is not touched.
TtlMonitor(r) ==
    /\ resv[r].status = "held" /\ resv[r].late
    /\ SaveStatus(r, "gone")
    /\ UNCHANGED <<slot, call, peak, overlap>>

\* The server stops, or the database call fails: the rest of the call is lost.
Crash(p) ==
    /\ call[p].at # "idle"
    /\ Return(p)
    /\ UNCHANGED <<slot, resv, peak, overlap>>

Next ==
    \/ \E p \in Procs :
          \/ \E u \in Users : ReserveFindHold(p, u)
          \/ ReserveExpireHold(p)
          \/ ReserveFreeHold(p)
          \/ ReserveGate(p)
          \/ ReserveCreate(p)
          \/ \E r \in Rows : ConfirmFind(p, r)
          \/ ConfirmSave(p)
          \/ \E r \in Rows : ReleaseFind(p, r)
          \/ ReleaseSave(p)
          \/ ReleaseFree(p)
          \/ SweepFind(p)
          \/ SweepNext(p)
          \/ SweepFree(p)
          \/ \E c \in Capacities : OverrideFind(p, c)
          \/ OverrideSave(p)
          \/ Crash(p)
    \/ \E c \in Capacities : GenerateForDates(c)
    \/ \E status \in {"open", "closed"} : SetSlotStatus(status)
    \/ \E r \in Rows : HoldLapses(r) \/ TtlMonitor(r)

Spec == Init /\ [][Next]_vars

-----------------------------------------------------------------------------
(* Properties *)

\* Types of the slot document, the reservation rows and the calls in flight.
TypeOK ==
    /\ slot \in SlotType
    /\ resv \in [Rows -> ResvType]
    /\ call \in [Procs -> CallType]
    /\ peak \in Capacities
    /\ overlap \in BOOLEAN

\* Whatever calls overlap, crash or race with the TTL monitor, the guarded
\* $inc of reserve never takes the counter past the largest capacity that was
\* ever in force (slot.service.js, "THE atomic gate").
ReservedWithinPeak == slot.reserved <= peak

\* The slot never owes more deliveries than the largest capacity that was in
\* force: HELD and CONFIRMED rows together fit ("concurrent attempts can never
\* oversell", slot.service.js:13).  The code keeps this only as long as no two
\* calls are in flight about one row.
NoOversell == Cardinality(Live) <= peak

\* It does keep it until then, through crashes, TTL deletions and changes of
\* the capacity.
NoOversellAlone == ~overlap => NoOversell

\* The rows that are HELD or CONFIRMED, or read by a reserve that has yet to
\* expire them.
Owed ==
    Live \cup UNION {call[p].rows : p \in {q \in Procs : call[q].at = "expireHold"}}

InFlight ==
    {p \in Procs : call[p].at \in {"create", "freeHold", "releaseFree", "sweepFree"}}

\* The counter accounts for every HELD or CONFIRMED row, for every gate passed
\* whose row is not yet inserted, and for every unit a call has yet to give
\* back: reserve, confirm, release, sweep, TTL deletion and crash of different
\* rows never lose a unit that a customer holds.
UnitsCovered ==
    ~overlap => Cardinality(Owed) + Cardinality(InFlight) <= slot.reserved

\* A CONFIRMED row leaves that status only by the release of its order
\* ("confirmed reservations are durable and never swept",
\* models/slotReservation.model.js:9), unless a call that read the row before
\* the confirmation saves it afterwards.
ConfirmedDurable ==
    [][\A r \in Rows : resv[r].status = "confirmed" /\ ~overlap'
          => resv'[r].status \in {"confirmed", "released"}]_vars
=============================================================================
