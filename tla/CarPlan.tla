------------------------------- MODULE CarPlan -------------------------------
(***************************************************************************)
(* The Car Plan: vehicles assigned to employees for a period, handed over  *)
(* and returned under signed inspections, renewed, extended, exchanged,    *)
(* replaced, lent back to the shared fleet.                                *)
(* apps/carplan/{services,operations,inspections,selectors,models}.py.     *)
(*                                                                         *)
(* A request is one step here.  Those that take, move or give back a       *)
(* vehicle lock its row or the assignment's before they read; renew and    *)
(* request_mode_change read without a lock, and two of them at once are    *)
(* not modelled.  Time is counted in days.  The shared fleet is seen       *)
(* through its bookings (trips, reservations, missions of a vehicle).      *)
(***************************************************************************)
EXTENDS Integers, FiniteSets

CONSTANTS
    Vehicles, None,
    Beneficiaries,
    Kinds,          \* assignment types in use: subset of {"company_car", "service"}
    MaxAssignments, \* bound on the assignments ever requested
    MaxChanges,     \* bound on the changes of vehicle of one assignment
    MaxDay,         \* bound on the calendar
    Open,           \* the last day of a period without a planned end
    Requests,       \* what may be requested: [who, type, lo, hi]
    Windows,        \* periods of bookings, releases and replacements: [lo, hi]
    NewEnds,        \* ends an extension or a renewal may ask for
    Scenarios       \* bounds on the operations of each kind: [requests, life, fleet]

Period == [lo : Nat, hi : Nat]

ASSUME CarPlanAssumption ==
    /\ None \notin Vehicles /\ None \notin Beneficiaries /\ None \notin Nat
    /\ Kinds \subseteq {"company_car", "service"}
    /\ {MaxAssignments, MaxChanges, MaxDay, Open} \subseteq Nat /\ MaxDay < Open
    /\ \A r \in Requests : /\ r \in [who : Beneficiaries, type : Kinds, lo : Nat, hi : Nat]
                           /\ r.lo <= r.hi /\ r.hi <= Open
                           /\ r.type = "service" => r.hi # Open
    /\ \A w \in Windows : w \in Period /\ w.lo <= w.hi /\ w.hi < Open
    /\ NewEnds \subseteq 0..Open
    /\ Scenarios \subseteq [{"requests", "life", "fleet"} -> Nat]

VARIABLES
    today,
    mode,           \* VehicleUsage
    asked,          \* the pending VehicleUsageChange of a vehicle
    assignments,
    holds,          \* the active VehicleHold rows
    inspections,    \* the inspections the manager has not signed
    lent,           \* the planned or active replacement of an assignment
    releases,       \* the PoolRelease rows not revoked
    bookings,       \* what the shared fleet has planned for its vehicles
    left            \* operations of each kind that may still happen

carplanVars == <<assignments, holds, inspections, lent>>
fleetVars == <<mode, asked, releases, bookings>>
vars == <<today, left, carplanVars, fleetVars>>

Ids == 1..MaxAssignments
Modes == {"pool", "company_car", "service"}
Status == {"none", "requested", "validated", "allocated", "active", "suspended",
           "returning", "returned", "closed", "rejected", "cancelled"}
Holding == {"validated", "allocated", "active", "suspended", "returning"}
VehicleHolding == Holding \ {"validated"}
InUse == {"active", "suspended", "returning"}
Running == {"active", "suspended"}

NoAssignment == [status |-> "none", who |-> None, type |-> None, vehicle |-> None,
                 lo |-> 0, hi |-> 0, of |-> None, changes |-> 0]

(* Ranges of days, as the database has them: one may be empty, and then meets
   no other; its bounds are in order. *)
Ordered(p) == p.lo <= p.hi + 1
Overlap(p, q) == p.lo <= p.hi /\ q.lo <= q.hi /\ p.lo <= q.hi /\ q.lo <= p.hi
From(day) == [lo |-> day, hi |-> Open]
Until(p, day) == [p EXCEPT !.hi = day]

HoldsOn(v, p) == {h \in holds : h.vehicle = v /\ Overlap(h, p)}

(* excl_carplan_vehicle_hold_overlap *)
DbAcceptsHolds(hs) ==
    /\ \A h \in hs : Ordered(h)
    /\ \A h, k \in hs : (h # k /\ h.vehicle = k.vehicle) => ~Overlap(h, k)

(* Mutant: the days of the ends are not compared. *)
DbAcceptsHoldButEnds(hs, h) == \A k \in hs : h.vehicle = k.vehicle => h.hi <= k.lo \/ k.hi <= h.lo

DbAcceptsHold(hs, h) == \A k \in hs : h.vehicle = k.vehicle => ~Overlap(h, k)

(* excl_carplan_beneficiary_overlap *)
DbAcceptsAssignments(as) ==
    \A a, b \in Ids : (/\ a # b /\ as[a].who = as[b].who
                       /\ as[a].status \in Holding /\ as[b].status \in Holding)
                      => ~Overlap(as[a], as[b])

(* _pool_conflicts *)
PoolConflicts(v, p) == {b \in bookings : b.vehicle = v /\ Overlap(b, p)}

(* pool_block_reason *)
Released(v, p) == \E r \in releases : r.vehicle = v /\ r.lo <= p.lo /\ p.hi <= r.hi
Blocked(v, p) == (mode[v] # "pool" \/ HoldsOn(v, p) # {}) /\ ~Released(v, p)

Spend(kind) == left[kind] > 0 /\ left' = [left EXCEPT ![kind] = @ - 1]

Set(a, field, value) == assignments' = [assignments EXCEPT ![a][field] = value]

(* _transition *)
Transition(a, from, to) ==
    /\ assignments[a].status \in from
    /\ assignments' = [assignments EXCEPT ![a].status = to]

-----------------------------------------------------------------------------
(* Modes of use *)

RequestModeChange(v, m) ==
    /\ mode[v] # m /\ asked[v] = None
    /\ asked' = [asked EXCEPT ![v] = m]
    /\ Spend("fleet") /\ UNCHANGED <<today, carplanVars, mode, releases, bookings>>

ModeAllowed(v) ==
    IF mode[v] = "pool" THEN PoolConflicts(v, From(today)) = {}
    ELSE HoldsOn(v, From(today)) = {}

DecideModeChange(v, approve) ==
    /\ asked[v] # None
    /\ approve => ModeAllowed(v)
    /\ mode' = [mode EXCEPT ![v] = IF approve THEN asked[v] ELSE @]
    /\ asked' = [asked EXCEPT ![v] = None]
    /\ UNCHANGED <<today, left, carplanVars, releases, bookings>>

-----------------------------------------------------------------------------
(* Requests, decisions, allocation *)

Request(who, type, vehicle, p, of) ==
    \E a \in Ids :
        /\ assignments[a].status = "none"
        /\ \A b \in Ids : b < a => assignments[b].status # "none"
        /\ assignments' = [assignments EXCEPT ![a] =
             [status |-> "requested", who |-> who, type |-> type, vehicle |-> vehicle,
              lo |-> p.lo, hi |-> p.hi, of |-> of, changes |-> 0]]

RequestAssignment(r) ==
    /\ Request(r.who, r.type, None, r, None)
    /\ Spend("requests") /\ UNCHANGED <<today, holds, inspections, lent, fleetVars>>

ValidateAssignment(a) ==
    /\ Transition(a, {"requested"}, "validated")
    /\ DbAcceptsAssignments(assignments')
    /\ UNCHANGED <<today, left, holds, inspections, lent, fleetVars>>

RejectAssignment(a) ==
    /\ Transition(a, {"requested"}, "rejected")
    /\ UNCHANGED <<today, left, holds, inspections, lent, fleetVars>>

(* A vehicle is held until it is returned, past the planned end included. *)
StillDetained(a, v) ==
    \E b \in Ids \ {a, assignments[a].of} :
        LET other == assignments[b] IN
        /\ other.vehicle = v /\ other.status \in VehicleHolding
        /\ other.hi = Open \/ other.hi >= assignments[a].lo \/ other.hi < today

(* A hold is told from the earlier ones of its assignment by the changes of
   vehicle before it. *)
NewHold(a, v, p, kind) ==
    [asg |-> a, vehicle |-> v, kind |-> kind, lo |-> p.lo, hi |-> p.hi, nth |-> assignments[a].changes]

(* _close_for_renewal *)
HoldsWithout(hs, a) == {h \in hs : h.asg # a}

Continues(as, a) ==
    LET previous == as[a].of IN
    /\ previous # None
    /\ as[previous].vehicle = as[a].vehicle /\ as[previous].status \in Running

(* roll_over_renewal *)
RolledOver(as, a) ==
    LET taken == [as EXCEPT ![a].status = "active"]
    IN [taken EXCEPT ![as[a].of].status = "closed"]

AllocateVehicle(a, v) ==
    LET asg == assignments[a]
        given == [assignments EXCEPT ![a].vehicle = v, ![a].status = "allocated"]
        hold == NewHold(a, v, asg, "assignment")
        held == holds \cup {hold}
    IN /\ asg.status = "validated"
       /\ mode[v] = asg.type
       /\ PoolConflicts(v, asg) = {}
       /\ ~StillDetained(a, v)
       /\ DbAcceptsHold(holds, hold)
       /\ IF Continues(given, a) /\ asg.lo <= today
          THEN /\ assignments' = RolledOver(given, a)
               /\ holds' = HoldsWithout(held, asg.of)
          ELSE assignments' = given /\ holds' = held
       /\ UNCHANGED <<today, left, inspections, lent, fleetVars>>

(* Mutant: the sweep forgets the assignments that are suspended. *)
RollsOverActive(a) ==
    /\ assignments[a].status = "allocated" /\ assignments[a].lo <= today
    /\ Continues(assignments, a) /\ assignments[assignments[a].of].status = "active"

RollsOver(a) ==
    /\ assignments[a].status = "allocated" /\ assignments[a].lo <= today
    /\ Continues(assignments, a)

(* The sweep of check_assignments over the renewals whose day has come. *)
RollOverRenewal(a) ==
    /\ RollsOver(a)
    /\ assignments' = RolledOver(assignments, a)
    /\ holds' = HoldsWithout(holds, assignments[a].of)
    /\ UNCHANGED <<today, left, inspections, lent, fleetVars>>

-----------------------------------------------------------------------------
(* Inspections: handover and return *)

CreateInspection(a, kind) ==
    LET asg == assignments[a]
        open == {i \in inspections : i.asg = a /\ i.kind = kind /\ i.vehicle = asg.vehicle}
    IN /\ asg.status \in IF kind = "handover" THEN {"allocated"} ELSE InUse
       /\ open = {}
       /\ inspections' = inspections \cup
            {[asg |-> a, vehicle |-> asg.vehicle, kind |-> kind, day |-> today, employee |-> FALSE]}
       /\ UNCHANGED <<today, left, assignments, holds, lent, fleetVars>>

SignAsBeneficiary(i) ==
    /\ ~i.employee
    /\ inspections' = (inspections \ {i}) \cup {[i EXCEPT !.employee = TRUE]}
    /\ UNCHANGED <<today, left, assignments, holds, lent, fleetVars>>

(* Mutant: only the hold of the assigned vehicle ends with the assignment. *)
ReturnedHoldsOfVehicle(a) ==
    {h \in holds : h.asg # a \/ h.vehicle # assignments[a].vehicle}

(* complete_return: every hold of the assignment ends. *)
ReturnedHolds(a) == HoldsWithout(holds, a)

(* sign by the manager, then activate or complete_return: all or nothing. *)
SignAsManager(i) ==
    LET a == i.asg
        asg == assignments[a]
    IN /\ i.employee
       /\ i.vehicle = asg.vehicle
       /\ inspections' = inspections \ {i}
       /\ \/ /\ i.kind = "handover" /\ asg.status = "allocated"
             /\ assignments' = [assignments EXCEPT ![a].status = "active"]
             /\ UNCHANGED holds
          \/ /\ i.kind = "return" /\ asg.status \in InUse
             /\ Ordered([lo |-> asg.lo, hi |-> i.day])
             /\ assignments' = [assignments EXCEPT ![a].status = "returned"]
             /\ holds' = ReturnedHolds(a)
       /\ UNCHANGED <<today, left, lent, fleetVars>>

-----------------------------------------------------------------------------
(* Life of an assignment *)

Suspend(a) ==
    Transition(a, {"active"}, "suspended") /\ Spend("life") /\ UNCHANGED <<today, holds, inspections, lent, fleetVars>>
Resume(a) ==
    Transition(a, {"suspended"}, "active") /\ UNCHANGED <<today, left, holds, inspections, lent, fleetVars>>
RequestReturn(a) ==
    Transition(a, Running, "returning") /\ UNCHANGED <<today, left, holds, inspections, lent, fleetVars>>
Close(a) ==
    Transition(a, {"returned"}, "closed") /\ UNCHANGED <<today, left, holds, inspections, lent, fleetVars>>

CancelAssignment(a) ==
    /\ Transition(a, {"requested", "validated", "allocated"}, "cancelled")
    /\ holds' = HoldsWithout(holds, a)
    /\ UNCHANGED <<today, left, inspections, lent, fleetVars>>

(* The first active hold of the assignment on these vehicles, if there is one. *)
FirstHold(a, onVehicles) ==
    LET own == {h \in holds : h.asg = a /\ h.kind = "assignment" /\ h.vehicle \in onVehicles}
    IN {h \in own : \A k \in own : h.nth <= k.nth}

(* Mutant: the hold of the vehicle keeps its end. *)
ExtendedNotHeld(a, end) == holds

ExtendedHolds(a, end) ==
    LET first == FirstHold(a, {assignments[a].vehicle})
    IN {IF h \in first THEN Until(h, end) ELSE h : h \in holds}

Extend(a, end) ==
    LET asg == assignments[a] IN
    /\ asg.status \in {"validated", "allocated", "active", "suspended"}
    /\ end # Open /\ (asg.hi = Open \/ end > asg.hi)
    /\ Ordered([lo |-> asg.lo, hi |-> end])
    /\ asg.vehicle # None =>
         /\ asg.hi # Open => PoolConflicts(asg.vehicle, [lo |-> asg.hi + 1, hi |-> end]) = {}
         /\ holds' = ExtendedHolds(a, end)
    /\ asg.vehicle = None => UNCHANGED holds
    /\ DbAcceptsHolds(holds')
    /\ Set(a, "hi", end)
    /\ DbAcceptsAssignments(assignments')
    /\ Spend("life") /\ UNCHANGED <<today, inspections, lent, fleetVars>>

Renew(a, end) ==
    LET asg == assignments[a] IN
    /\ asg.status \in Running /\ asg.hi # Open
    /\ \A b \in Ids : assignments[b].of = a => assignments[b].status \in {"rejected", "cancelled"}
    /\ end > asg.hi /\ (asg.type = "service" => end # Open)
    /\ Request(asg.who, asg.type, asg.vehicle, [lo |-> asg.hi + 1, hi |-> end], a)
    /\ Spend("life") /\ UNCHANGED <<today, holds, inspections, lent, fleetVars>>

(* The hold cut short by a change of vehicle, dropped if it never began. *)
CutHold(first, on) ==
    (holds \ first) \cup {Until(h, on - 1) : h \in {k \in first : k.lo < on}}

ChangeVehicle(a, v, on) ==
    LET asg == assignments[a]
        cut == CutHold(FirstHold(a, Vehicles), on)
        hold == [NewHold(a, v, [lo |-> on, hi |-> asg.hi], "assignment") EXCEPT !.nth = @ + 1]
    IN /\ asg.status \in {"allocated", "active", "suspended"}
       /\ v # asg.vehicle
       /\ on >= today /\ on >= asg.lo /\ on <= asg.hi
       /\ asg.changes < MaxChanges
       /\ mode[v] = asg.type
       /\ PoolConflicts(v, [lo |-> on, hi |-> asg.hi]) = {}
       /\ DbAcceptsHolds(cut) /\ DbAcceptsHold(cut, hold)
       /\ holds' = cut \cup {hold}
       /\ assignments' = [assignments EXCEPT ![a].vehicle = v, ![a].status = "allocated",
                                             ![a].changes = @ + 1]
       /\ Spend("life") /\ UNCHANGED <<today, inspections, lent, fleetVars>>

-----------------------------------------------------------------------------
(* Replacement vehicles, releases to the shared fleet *)

StartReplacement(a, v, w) ==
    LET hold == NewHold(a, v, w, "replacement") IN
    /\ assignments[a].status \in Running
    /\ w.lo >= today - 1
    /\ v # assignments[a].vehicle /\ lent[a] = None
    /\ mode[v] = "pool" /\ PoolConflicts(v, w) = {}
    /\ DbAcceptsHold(holds, hold)
    /\ holds' = holds \cup {hold}
    /\ lent' = [lent EXCEPT ![a] = [vehicle |-> v, lo |-> w.lo, hi |-> w.hi,
                                    status |-> IF w.lo <= today THEN "active" ELSE "planned"]]
    /\ Spend("life") /\ UNCHANGED <<today, assignments, inspections, fleetVars>>

(* end_replacement, at most once; its hold may already have ended with the
   assignment. *)
EndReplacement(a) ==
    /\ lent[a] # None
    /\ lent' = [lent EXCEPT ![a] = None]
    /\ holds' = {h \in holds : ~(h.asg = a /\ h.kind = "replacement")}
    /\ UNCHANGED <<today, left, assignments, inspections, fleetVars>>

(* activate_planned_replacements *)
ActivateReplacements ==
    LET due == {a \in Ids : lent[a] # None /\ lent[a].status = "planned" /\ lent[a].lo <= today}
    IN /\ due # {}
       /\ lent' = [a \in Ids |-> IF a \in due THEN [lent[a] EXCEPT !.status = "active"] ELSE lent[a]]
       /\ UNCHANGED <<today, left, assignments, holds, inspections, fleetVars>>

ReleaseToPool(v, w) ==
    /\ w.hi >= today
    /\ releases' = releases \cup {[vehicle |-> v, lo |-> w.lo, hi |-> w.hi]}
    /\ Spend("fleet") /\ UNCHANGED <<today, carplanVars, mode, asked, bookings>>

(* Mutant: a release is revoked under the bookings that rely on it. *)
RevocableAnyhow(r) == TRUE

Revocable(r) ==
    r.hi < today \/
    PoolConflicts(r.vehicle, [lo |-> IF r.lo > today THEN r.lo ELSE today, hi |-> r.hi]) = {}

RevokeRelease(r) ==
    /\ Revocable(r)
    /\ releases' = releases \ {r}
    /\ UNCHANGED <<today, left, carplanVars, mode, asked, bookings>>

-----------------------------------------------------------------------------
(* The shared fleet and the calendar *)

Book(v, w) ==
    /\ bookings = {}
    /\ w.lo >= today /\ ~Blocked(v, w)
    /\ bookings' = {[vehicle |-> v, lo |-> w.lo, hi |-> w.hi]}
    /\ Spend("fleet") /\ UNCHANGED <<today, carplanVars, mode, asked, releases>>

EndBooking ==
    /\ bookings # {}
    /\ bookings' = {}
    /\ UNCHANGED <<today, left, carplanVars, mode, asked, releases>>

(* The day changes; a booking whose last day is over has ended, and a release
   that is over is no longer looked at. *)
NextDay ==
    /\ today < MaxDay
    /\ today' = today + 1
    /\ bookings' = {b \in bookings : b.hi > today}
    /\ releases' = {r \in releases : r.hi > today}
    /\ UNCHANGED <<left, carplanVars, mode, asked>>

Init ==
    /\ today = 0
    /\ left \in Scenarios
    /\ mode \in [Vehicles -> {"pool"} \cup Kinds]
    /\ asked = [v \in Vehicles |-> None]
    /\ assignments = [a \in Ids |-> NoAssignment]
    /\ holds = {}
    /\ inspections = {}
    /\ lent = [a \in Ids |-> None]
    /\ releases = {}
    /\ bookings = {}

Next ==
    \/ \E v \in Vehicles :
         \/ \E m \in {"pool"} \cup Kinds : RequestModeChange(v, m)
         \/ \E approve \in BOOLEAN : DecideModeChange(v, approve)
         \/ \E w \in Windows : ReleaseToPool(v, w) \/ Book(v, w)
    \/ \E r \in Requests : RequestAssignment(r)
    \/ \E a \in Ids :
         \/ ValidateAssignment(a) \/ RejectAssignment(a) \/ CancelAssignment(a)
         \/ RollOverRenewal(a)
         \/ \E kind \in {"handover", "return"} : CreateInspection(a, kind)
         \/ Suspend(a) \/ Resume(a) \/ RequestReturn(a) \/ Close(a)
         \/ \E end \in NewEnds : Extend(a, end) \/ Renew(a, end)
         \/ \E v \in Vehicles :
              \/ AllocateVehicle(a, v)
              \/ \E on \in today..MaxDay : ChangeVehicle(a, v, on)
              \/ \E w \in Windows : StartReplacement(a, v, w)
         \/ EndReplacement(a)
    \/ \E i \in inspections : SignAsBeneficiary(i) \/ SignAsManager(i)
    \/ \E r \in releases : RevokeRelease(r)
    \/ ActivateReplacements \/ EndBooking \/ NextDay

(* check_car_plan runs twice a day. *)
Fairness ==
    /\ \A a \in Ids : WF_vars(RollOverRenewal(a))
    /\ WF_vars(ActivateReplacements)

Spec == Init /\ [][Next]_vars
FairSpec == Spec /\ Fairness

-----------------------------------------------------------------------------
(* Properties *)

(* Every row has a value its table accepts, and the two exclusion
   constraints of the database hold. *)
CarPlanTypeOK ==
    /\ today \in 0..MaxDay /\ left \in [{"requests", "life", "fleet"} -> Nat]
    /\ mode \in [Vehicles -> Modes] /\ asked \in [Vehicles -> Modes \cup {None}]
    /\ assignments \in [Ids -> [status : Status, who : Beneficiaries \cup {None},
            type : Kinds \cup {None}, vehicle : Vehicles \cup {None}, lo : Nat, hi : Nat,
            of : Ids \cup {None}, changes : 0..MaxChanges]]
    /\ \A a \in Ids : Ordered(assignments[a])
    /\ \A h \in holds : h.asg \in Ids /\ h.vehicle \in Vehicles
    /\ DbAcceptsHolds(holds) /\ DbAcceptsAssignments(assignments)

(* A hold already cut short by an exchange, and that a later exchange of the same
   assignment has rewritten: change_vehicle takes the first hold there is
   (services.py:664), whatever its vehicle, and may give it back days that were
   the fleet's by then. *)
CutAgain(h) ==
    /\ h.kind = "assignment" /\ h.nth + 1 < assignments[h.asg].changes
    /\ \A k \in holds : k.asg = h.asg /\ k.kind = "assignment" => h.nth <= k.nth

(* No vehicle of the shared fleet's plan is one the Car Plan has taken: a
   booking to come lies within a release, or is on a vehicle in pool mode that
   nobody holds in the meantime (selectors.py: never offered to the shared
   fleet but under an authorised release), but for the days that a second
   exchange takes back. *)
PoolPlanExcludesCarPlan ==
    \A b \in bookings :
        \/ Released(b.vehicle, b)
        \/ mode[b.vehicle] = "pool" /\ \A h \in HoldsOn(b.vehicle, b) : CutAgain(h)

(* A vehicle is held as long as its assignment has it, to the planned end
   through extensions, exchanges and renewals. *)
AssignedVehicleHeld ==
    \A a \in Ids :
        LET asg == assignments[a] IN
        asg.status \in VehicleHolding =>
            \E h \in holds : /\ h.asg = a /\ h.kind = "assignment"
                                       /\ h.vehicle = asg.vehicle /\ h.hi = asg.hi

(* No hold outlives its assignment, whichever way it ended: the vehicle, the
   exchanged one and the replacement go back. *)
NoHoldOutlivesAssignment ==
    \A h \in holds : assignments[h.asg].status \in VehicleHolding

(* An assignment that is renewed on the same vehicle is taken over once the
   day has come. *)
RenewalDue(a) ==
    LET asg == assignments[a] IN
    /\ asg.status = "allocated" /\ asg.lo <= today /\ asg.of # None
    /\ assignments[asg.of].status \in Running /\ assignments[asg.of].vehicle = asg.vehicle

RenewalsTakeOver == \A a \in Ids : RenewalDue(a) ~> ~RenewalDue(a)
==============================================================================
