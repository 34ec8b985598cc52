------------------------------ MODULE Transport ------------------------------
(***************************************************************************)
(* Reservations, the trips generated from them and the vehicles they use:  *)
(* apps/reservations/{services,workflow,views}.py and                      *)
(* apps/trips/{services,models}.py, with the Car Plan hold that takes a    *)
(* vehicle out of the shared fleet (apps/carplan).                         *)
(*                                                                         *)
(* One action is one HTTP request: every handler runs in one database      *)
(* transaction, and an exception (a business refusal, or a row the         *)
(* database refuses) rolls everything back, so a refused request is a      *)
(* disabled action.  Requests whose rows were read before another request  *)
(* committed are outside this module.                                      *)
(***************************************************************************)
EXTENDS Naturals, FiniteSets, Sequences

CONSTANTS
    Reservations, Vehicles, Drivers,
    None,           \* a null foreign key or a null time
    RoundTrip,      \* reservations created as round trips
    WithDriver,     \* reservations created with needs_driver set
    Passengers,     \* the passengers each reservation was created with
    Seats,          \* capacity of a vehicle
    Required,       \* validation levels of the approval workflow, in order
    Request,        \* the times each reservation was created with
    Moves,          \* the times the planner may send
    Forms,          \* what the form may send by PATCH
    MaxDuration,    \* the 30 days of check_duration_coherence
    HoldStarts,     \* days on which a Car Plan allocation may start
    CarPlanFleet,   \* vehicles the Car Plan may allocate
    Portfolios,     \* the sets of reservations that may exist together
    Validated,      \* reservations already approved in the initial state
    Editable,       \* reservations whose form may be edited by PATCH
    Workshop        \* vehicles a manager may put in or out of maintenance

Levels == {"manager", "fleet"}
Legs == {"outbound", "return"}
TripTypes == {"one_way", "round_trip"}
Times == Nat
Plans == [dep : Times, ret : Times \cup {None}, est : Times]
FormContents ==
    [vehicle : Vehicles \cup {None}, driver : Drivers \cup {None},
     dep : Times, ret : Times \cup {None}, est : Times,
     trip_type : TripTypes, needs_driver : BOOLEAN, passengers : Nat]

ASSUME TransportAssumption ==
    /\ None \notin Reservations \cup Vehicles \cup Drivers
    /\ None \notin Times
    /\ RoundTrip \subseteq Reservations /\ WithDriver \subseteq Reservations
    /\ Validated \subseteq Reservations /\ Editable \subseteq Reservations
    /\ Portfolios \subseteq SUBSET Reservations
    /\ CarPlanFleet \subseteq Vehicles /\ Workshop \subseteq Vehicles
    /\ Passengers \in [Reservations -> Nat] /\ Seats \in [Vehicles -> Nat]
    /\ Required \in Seq(Levels) /\ Required # << >>
    /\ \A i, j \in DOMAIN Required : Required[i] = Required[j] => i = j
    /\ Request \in [Reservations -> Plans]
    /\ Moves \subseteq Plans /\ Forms \subseteq FormContents
    /\ MaxDuration \in Nat /\ HoldStarts \subseteq Times

VARIABLES
    res,     \* the reservations table
    trips,   \* the trips table, one row per reservation and leg
    lines,   \* the validation lines of each reservation, per level
    fleet,   \* the status column of each vehicle
    held     \* from when the Car Plan holds a vehicle, None when it does not

vars == <<res, trips, lines, fleet, held>>

-----------------------------------------------------------------------------
(* Rows and their types *)

(* Mutant: one status for every pending level. *)
PendingAnyLevel(level) == "pending"

Pending(level) == IF level = "manager" THEN "pending_manager" ELSE "pending_fleet"
AwaitingDecision == {"pending_manager", "pending_fleet"}
ReservationStatus ==
    AwaitingDecision \cup
    {"draft", "approved", "rejected", "cancelled", "vehicle_assigned",
     "driver_assigned", "in_progress", "completed", "closed", "deleted"}
TripStatus ==
    {"absent", "scheduled", "in_progress", "returned", "closed", "cancelled"}
VehicleStatus == {"available", "reserved", "on_trip", "maintenance"}
Decisions == {"none", "pending", "approved", "rejected"}

Trips == Reservations \X Legs
LegsOf(r) == {t \in Trips : t[1] = r}
OutboundOf(r) == <<r, "outbound">>

NoTrip == [status |-> "absent", vehicle |-> None, driver |-> None,
           dep |-> 0, arr |-> 0, group |-> None]

(* A trip that has left: the driver has the keys, or has brought them back. *)
HasLeft == {"in_progress", "returned", "closed"}
BackIn == {"returned", "closed"}

(* Trip statuses under which a trip occupies its vehicle and its driver. *)
Occupying == {"scheduled", "in_progress", "returned"}

(* Reservation statuses that count as conflicts for another reservation. *)
ActiveReservation == {"approved", "vehicle_assigned", "driver_assigned", "in_progress"}
(* Mutant: a completed reservation is not final. *)
TerminalButCompleted == {"closed", "rejected", "cancelled"}

Terminal == {"closed", "rejected", "cancelled", "completed"}
(* Mutant: the planner also moves a reservation in progress. *)
ReschedulableUnderway ==
    {"draft", "pending_manager", "pending_fleet", "approved",
     "vehicle_assigned", "driver_assigned", "in_progress"}

Reschedulable ==
    {"draft", "pending_manager", "pending_fleet", "approved",
     "vehicle_assigned", "driver_assigned"}
(* Mutant: a reservation in progress is realigned on its legs. *)
RecomputedUnderway == {"completed", "closed", "cancelled"}

NeverRecomputed == {"in_progress", "completed", "closed", "cancelled"}

-----------------------------------------------------------------------------
(* Time windows, the double-booking constraint and the conflict checks *)

Overlap(a, b) == a.dep < b.arr /\ b.dep < a.arr
Span(row) == [dep |-> row.dep, arr |-> row.est]
SameTour(a, b) == a.group # None /\ a.group = b.group

(* The window check_duration_coherence accepts. *)
ReturnInside(row) == row.ret # None /\ row.dep < row.ret /\ row.ret < row.est

Coherent(row) ==
    /\ row.dep < row.est
    /\ row.est <= row.dep + MaxDuration
    /\ row.trip_type = "round_trip" => ReturnInside(row)

(* _leg_times: an outbound leg ends when the return leg starts. *)
LegWindow(t, row) ==
    IF row.trip_type = "round_trip" /\ t[2] = "return"
    THEN [dep |-> row.ret, arr |-> row.est]
    ELSE [dep |-> row.dep,
          arr |-> IF row.trip_type = "round_trip" /\ row.ret # None THEN row.ret ELSE row.est]

(* pool_block_reason, day by day: the Car Plan holds the vehicle from the start
   of a day on, and a window that ends at that very instant touches the day; an
   empty or inverted window counts as a minute. *)
Blocked(v, window) ==
    LET end == IF window.arr <= window.dep THEN window.dep + 1 ELSE window.arr
    IN held[v] # None /\ held[v] <= end

(* The exclusion constraints on vehicle and driver: two occupying trips of
   one vehicle, or of one driver, never overlap outside one tour. *)
Clash(a, b) ==
    /\ a.status \in Occupying /\ b.status \in Occupying
    /\ a.dep < a.arr /\ b.dep < b.arr /\ Overlap(a, b)
    /\ ~SameTour(a, b)
    /\ \/ a.vehicle # None /\ a.vehicle = b.vehicle
       \/ a.driver # None /\ a.driver = b.driver

(* ck_trip_planned_window_ordered *)
WindowOrdered(row) == row.dep <= row.arr

DbAccepts(ts) ==
    /\ \A t \in Trips : WindowOrdered(ts[t])
    /\ \A t, u \in Trips : t # u => ~Clash(ts[t], ts[u])

(* Legs are saved one after the other, and the constraint is immediate. *)
SavedLegByLeg(before, after, r) ==
    /\ DbAccepts([before EXCEPT ![OutboundOf(r)] = after[OutboundOf(r)]])
    /\ DbAccepts(after)

(* Mutant: a trip back but not closed no longer counts as a conflict. *)
TripConflictsOnRoad(t, row, field) ==
    {u \in Trips \ {t} :
        /\ trips[u].status \in {"scheduled", "in_progress"}
        /\ trips[u][field] = row[field]
        /\ Overlap(trips[u], row)
        /\ ~SameTour(trips[u], row)}

(* trip_time_conflicts, for the row the trip is about to have. *)
TripConflicts(t, row, field) ==
    {u \in Trips \ {t} :
        /\ trips[u].status \in Occupying
        /\ trips[u][field] = row[field]
        /\ Overlap(trips[u], row)
        /\ ~SameTour(trips[u], row)}

(* vehicle_conflicts and driver_conflicts: other active reservations on the
   same window, except those that share a tour with this one. *)
ReservationConflicts(r, row, field) ==
    LET tours == {trips[t].group : t \in LegsOf(r)} \ {None} IN
    {q \in Reservations \ {r} :
        /\ res[q].status \in ActiveReservation
        /\ res[q][field] = row[field]
        /\ Overlap(Span(res[q]), Span(row))
        /\ ~\E u \in LegsOf(q) : trips[u].group \in tours}

-----------------------------------------------------------------------------
(* What the handlers share: trips generated, reservation realigned, vehicle freed *)

(* Mutant: the times of the existing legs move without a look at the hold. *)
EnsuredTripUnlooked(t, row, old) ==
    LET window == LegWindow(t, row)
    IN IF old.status = "absent"
       THEN [NoTrip EXCEPT !.status = "scheduled",
                           !.vehicle = IF row.vehicle # None /\ Blocked(row.vehicle, window)
                                       THEN None ELSE row.vehicle,
                           !.driver = row.driver, !.dep = window.dep, !.arr = window.arr]
       ELSE [old EXCEPT !.dep = window.dep, !.arr = window.arr]

(* _ensure_trips: create the missing legs, realign the times of the others. *)
EnsuredTrip(t, row, old) ==
    LET window == LegWindow(t, row)
        allowed(v) == IF v # None /\ Blocked(v, window) THEN None ELSE v
    IN IF old.status = "absent"
       THEN [status |-> "scheduled", vehicle |-> allowed(row.vehicle),
             driver |-> row.driver, dep |-> window.dep, arr |-> window.arr,
             group |-> None]
       ELSE [old EXCEPT !.dep = window.dep, !.arr = window.arr,
                        !.vehicle = IF old.status = "scheduled" THEN allowed(@) ELSE @]

(* Only the legs of the present trip type are created or realigned: the return
   leg of a reservation that has become one-way keeps its row as it is. *)
Wanted(t, row) == t[2] = "outbound" \/ row.trip_type = "round_trip"

EnsuredTrips(r, row) ==
    [t \in Trips |-> IF t \in LegsOf(r) /\ Wanted(t, row)
                     THEN EnsuredTrip(t, row, trips[t]) ELSE trips[t]]

(* _recompute_reservation_assignment, for the reservations in R. *)
LiveLegs(ts, r) == {t \in LegsOf(r) : ts[t].status \notin {"cancelled", "absent"}}

Principal(ts, r) ==
    IF OutboundOf(r) \in LiveLegs(ts, r) THEN ts[OutboundOf(r)] ELSE ts[<<r, "return">>]

AssignmentStatus(ts, r) ==
    IF \E t \in LiveLegs(ts, r) : ts[t].vehicle = None THEN "approved"
    ELSE IF res[r].needs_driver /\ \A t \in LiveLegs(ts, r) : ts[t].driver # None
         THEN "driver_assigned" ELSE "vehicle_assigned"

Recomputed(rs, ts, R) ==
    [r \in Reservations |->
        IF r \in R /\ rs[r].status \notin NeverRecomputed /\ LiveLegs(ts, r) # {}
        THEN [rs[r] EXCEPT !.status = AssignmentStatus(ts, r),
                           !.vehicle = Principal(ts, r).vehicle,
                           !.driver = Principal(ts, r).driver]
        ELSE rs[r]]

(* _release_if_idle, for the vehicles in V: a reserved vehicle no occupying
   trip uses any more is available again. *)
Freed(fl, ts, V) ==
    [v \in Vehicles |->
        IF /\ v \in V /\ fl[v] = "reserved"
           /\ ~\E t \in Trips : ts[t].status \in Occupying /\ ts[t].vehicle = v
        THEN "available" ELSE fl[v]]

Marked(fl, v, status) == [w \in Vehicles |-> IF w = v THEN status ELSE fl[w]]

(* Mutant: one leg is enough. *)
SomeLegIn(ts, r, statuses) == \E t \in LegsOf(r) : ts[t].status \in statuses

(* _all_legs_in: a cancelled leg counts as a leg that is not in. *)
AllLegsIn(ts, r, statuses) ==
    LET legs == {t \in LegsOf(r) : ts[t].status # "absent"}
    IN legs # {} /\ \A t \in legs : ts[t].status \in statuses

-----------------------------------------------------------------------------
(* Initial state: one portfolio of requests exists, as drafts; the ones in
   Validated have already been approved and have their trips; no vehicle is
   assigned.  "deleted" is the status of a reservation that has no row. *)

RowOf(r, status) ==
    [status |-> status, vehicle |-> None, driver |-> None,
     dep |-> Request[r].dep, ret |-> Request[r].ret, est |-> Request[r].est,
     trip_type |-> IF r \in RoundTrip THEN "round_trip" ELSE "one_way",
     needs_driver |-> r \in WithDriver, passengers |-> Passengers[r]]

(* What has been validated went through the coherence check. *)
ASSUME ValidatedAssumption == \A r \in Validated : Coherent(RowOf(r, "approved"))

FirstStatus(r, portfolio) ==
    IF r \notin portfolio THEN "deleted"
    ELSE IF r \in Validated THEN "approved" ELSE "draft"

FirstTrip(t, portfolio) ==
    LET row == RowOf(t[1], "approved")
        window == LegWindow(t, row)
    IN IF t[1] \in portfolio \cap Validated /\ Wanted(t, row)
       THEN [NoTrip EXCEPT !.status = "scheduled", !.dep = window.dep, !.arr = window.arr]
       ELSE NoTrip

NoLines == [level \in Levels |-> "none"]
LinesOf(decision) ==
    [level \in Levels |->
        IF \E i \in DOMAIN Required : Required[i] = level THEN decision ELSE "none"]

Init ==
    \E portfolio \in Portfolios :
        /\ res = [r \in Reservations |-> RowOf(r, FirstStatus(r, portfolio))]
        /\ trips = [t \in Trips |-> FirstTrip(t, portfolio)]
        /\ lines = [r \in Reservations |->
                       IF r \in portfolio \cap Validated THEN LinesOf("approved") ELSE NoLines]
        /\ fleet = [v \in Vehicles |-> "available"]
        /\ held = [v \in Vehicles |-> None]

-----------------------------------------------------------------------------
(* The approval workflow of a reservation *)

(* next_status_after: the next required level, or approved after the last. *)
NextStatusAfter(level) ==
    LET i == CHOOSE i \in DOMAIN Required : Required[i] = level
    IN IF i + 1 \in DOMAIN Required THEN Pending(Required[i + 1]) ELSE "approved"

Submit(r) ==
    /\ res[r].status = "draft"
    /\ Coherent(res[r])
    /\ lines' = [lines EXCEPT ![r] = LinesOf("pending")]
    /\ res' = [res EXCEPT ![r].status = Pending(Required[1])]
    /\ UNCHANGED <<trips, fleet, held>>

(* The last approval generates the trips; the database may refuse them when
   the form already named a vehicle that is engaged elsewhere. *)
Approve(r, level) ==
    LET status == NextStatusAfter(level)
        after == IF status = "approved" THEN EnsuredTrips(r, res[r]) ELSE trips
    IN /\ res[r].status = Pending(level)
       /\ SavedLegByLeg(trips, after, r)
       /\ lines' = [lines EXCEPT ![r][level] = "approved"]
       /\ res' = [res EXCEPT ![r].status = status]
       /\ trips' = after
       /\ UNCHANGED <<fleet, held>>

Reject(r, level) ==
    /\ res[r].status = Pending(level)
    /\ lines' = [lines EXCEPT ![r][level] = "rejected"]
    /\ res' = [res EXCEPT ![r].status = "rejected"]
    /\ UNCHANGED <<trips, fleet, held>>

(* The trips keep their status, their vehicle and their driver. *)
CancelReservation(r) ==
    /\ res[r].status \notin Terminal \cup {"in_progress", "deleted"}
    /\ fleet' = IF res[r].vehicle = None THEN fleet
                ELSE Marked(fleet, res[r].vehicle, "available")
    /\ res' = [res EXCEPT ![r].status = "cancelled"]
    /\ UNCHANGED <<trips, lines, held>>

-----------------------------------------------------------------------------
(* Assignment and planning of a whole reservation *)

(* check_vehicle_assignable; every vehicle is compliant here. *)
VehicleAssignable(r, v) ==
    /\ res[r].passengers <= Seats[v]
    /\ fleet[v] # "maintenance"
    /\ ~Blocked(v, Span(res[r]))
    /\ ReservationConflicts(r, [res[r] EXCEPT !.vehicle = v], "vehicle") = {}

(* The resource goes to the legs _ensure_trips returns. *)
GivenToLegs(ts, row, r, field, resource) ==
    [t \in Trips |-> IF t \in LegsOf(r) /\ Wanted(t, row)
                     THEN [ts[t] EXCEPT ![field] = resource] ELSE ts[t]]

AssignVehicle(r, v) ==
    LET row == [res[r] EXCEPT !.vehicle = v,
                              !.status = IF @ = "approved" THEN "vehicle_assigned" ELSE @]
        ensured == EnsuredTrips(r, row)
        after == GivenToLegs(ensured, row, r, "vehicle", v)
        old == res[r].vehicle
    IN /\ res[r].status \in {"approved", "vehicle_assigned", "driver_assigned"}
       /\ VehicleAssignable(r, v)
       /\ SavedLegByLeg(trips, ensured, r) /\ SavedLegByLeg(ensured, after, r)
       /\ res' = [res EXCEPT ![r] = row]
       /\ trips' = after
       /\ fleet' = Marked(IF old \in {None, v} THEN fleet ELSE Marked(fleet, old, "available"),
                          v, "reserved")
       /\ UNCHANGED <<lines, held>>

AssignDriver(r, d) ==
    LET row == [res[r] EXCEPT !.driver = d, !.status = "driver_assigned"]
        ensured == EnsuredTrips(r, row)
        after == GivenToLegs(ensured, row, r, "driver", d)
    IN /\ res[r].needs_driver
       /\ res[r].status \in {"vehicle_assigned", "driver_assigned"}
       /\ ReservationConflicts(r, row, "driver") = {}
       /\ SavedLegByLeg(trips, ensured, r) /\ SavedLegByLeg(ensured, after, r)
       /\ res' = [res EXCEPT ![r] = row]
       /\ trips' = after
       /\ UNCHANGED <<lines, fleet, held>>

(* The planner that sends no return time keeps the old one, clamped inside
   the new window when the window has room for it. *)
MovedReturn(r, move) ==
    LET old == res[r].ret
        lo == move.dep + 1
        hi == move.est - 1
    IN CASE move.ret # None -> move.ret
         [] move.ret = None /\ (res[r].trip_type = "one_way" \/ old = None \/ hi <= lo) -> old
         [] OTHER -> IF old < lo THEN lo ELSE IF old > hi THEN hi ELSE old

Reschedule(r, move) ==
    LET row == [res[r] EXCEPT !.dep = move.dep, !.est = move.est,
                              !.ret = MovedReturn(r, move)]
        after == EnsuredTrips(r, row)
    IN /\ res[r].status \in Reschedulable
       /\ Coherent(row)
       /\ row.vehicle # None =>
            /\ ~Blocked(row.vehicle, Span(row))
            /\ ReservationConflicts(r, row, "vehicle") = {}
       /\ row.driver # None => ReservationConflicts(r, row, "driver") = {}
       /\ SavedLegByLeg(trips, after, r)
       /\ res' = [res EXCEPT ![r] = row]
       /\ trips' = after
       /\ UNCHANGED <<lines, fleet, held>>

(* PATCH of the form: every field but the status is writable at any status and
   the trips already generated are not touched. *)
EditReservation(r, form) ==
    LET row == [status |-> res[r].status, vehicle |-> form.vehicle, driver |-> form.driver,
                dep |-> form.dep, ret |-> form.ret, est |-> form.est,
                trip_type |-> form.trip_type, needs_driver |-> form.needs_driver,
                passengers |-> form.passengers]
    IN /\ res[r].status # "deleted"
       /\ row.trip_type = "round_trip" => ReturnInside(row)
       /\ row.vehicle # None => ~Blocked(row.vehicle, Span(row))
       /\ res' = [res EXCEPT ![r] = row]
       /\ UNCHANGED <<trips, lines, fleet, held>>

(* The row and its trips go; the vehicle keeps the status it had. *)
DeleteReservation(r) ==
    /\ res[r].status # "deleted"
    /\ \A t \in LegsOf(r) : trips[t].status \notin HasLeft
    /\ res' = [res EXCEPT ![r] = RowOf(r, "deleted")]
    /\ trips' = [t \in Trips |-> IF t \in LegsOf(r) THEN NoTrip ELSE trips[t]]
    /\ lines' = [lines EXCEPT ![r] = NoLines]
    /\ UNCHANGED <<fleet, held>>

-----------------------------------------------------------------------------
(* One trip: its own vehicle and driver, and its run *)

AssignVehicleToTrip(t, v) ==
    LET row == [trips[t] EXCEPT !.vehicle = v]
        after == [trips EXCEPT ![t] = row]
        taken == Marked(fleet, v, "reserved")
        old == trips[t].vehicle
    IN /\ trips[t].status = "scheduled"
       /\ trips[t].group = None
       /\ res[t[1]].passengers <= Seats[v]
       /\ fleet[v] # "maintenance"
       /\ ~Blocked(v, row)
       /\ TripConflicts(t, row, "vehicle") = {}
       /\ DbAccepts(after)
       /\ trips' = after
       /\ fleet' = IF old \in {None, v} THEN taken ELSE Freed(taken, after, {old})
       /\ res' = Recomputed(res, after, {t[1]})
       /\ UNCHANGED <<lines, held>>

AssignDriverToTrip(t, d) ==
    LET row == [trips[t] EXCEPT !.driver = d]
        after == [trips EXCEPT ![t] = row]
    IN /\ trips[t].status = "scheduled"
       /\ trips[t].group = None
       /\ TripConflicts(t, row, "driver") = {}
       /\ DbAccepts(after)
       /\ trips' = after
       /\ res' = Recomputed(res, after, {t[1]})
       /\ UNCHANGED <<lines, fleet, held>>

(* Mutant: the return leg waits for the outbound leg to have left. *)
OutboundLeft(t) ==
    t[2] = "return" => trips[OutboundOf(t[1])].status \in HasLeft \cup {"absent"}

(* The return leg waits for the outbound leg to be back. *)
OutboundBack(t) ==
    t[2] = "return" => trips[OutboundOf(t[1])].status \in BackIn \cup {"absent"}

(* A trip without a vehicle cannot start: reading the odometer fails. *)
StartTrip(t) ==
    /\ trips[t].status = "scheduled"
    /\ res[t[1]].needs_driver => trips[t].driver # None
    /\ OutboundBack(t)
    /\ trips[t].vehicle # None
    /\ trips' = [trips EXCEPT ![t].status = "in_progress"]
    /\ fleet' = Marked(fleet, trips[t].vehicle, "on_trip")
    /\ res' = [res EXCEPT ![t[1]].status = "in_progress"]
    /\ UNCHANGED <<lines, held>>

(* The vehicle is freed and the reservation completed with the last leg. *)
EndTrip(t) ==
    LET after == [trips EXCEPT ![t].status = "returned"]
        last == AllLegsIn(after, t[1], BackIn)
    IN /\ trips[t].status = "in_progress"
       /\ trips' = after
       /\ fleet' = IF last THEN Marked(fleet, trips[t].vehicle, "available") ELSE fleet
       /\ res' = IF last THEN [res EXCEPT ![t[1]].status = "completed"] ELSE res
       /\ UNCHANGED <<lines, held>>

CloseTrip(t) ==
    LET after == [trips EXCEPT ![t].status = "closed"]
    IN /\ trips[t].status = "returned"
       /\ trips' = after
       /\ res' = IF AllLegsIn(after, t[1], {"closed"})
                 THEN [res EXCEPT ![t[1]].status = "closed"] ELSE res
       /\ UNCHANGED <<lines, fleet, held>>

(* A cancelled trip leaves its tour and keeps its vehicle column. *)
CancelTrip(t) ==
    LET after == [trips EXCEPT ![t].status = "cancelled", ![t].group = None]
        old == trips[t].vehicle
    IN /\ trips[t].status = "scheduled"
       /\ trips' = after
       /\ fleet' = Freed(fleet, after, {old})
       /\ res' = IF LiveLegs(after, t[1]) = {}
                 THEN [res EXCEPT ![t[1]].status = "cancelled"]
                 ELSE Recomputed(res, after, {t[1]})
       /\ UNCHANGED <<lines, held>>

-----------------------------------------------------------------------------
(* The vehicle itself: workshop, Car Plan *)

UpdateVehicle(v, status) ==
    /\ fleet[v] # status
    /\ fleet' = Marked(fleet, v, status)
    /\ UNCHANGED <<res, trips, lines, held>>

(* _pool_conflicts: engagements of the shared fleet from that day on. *)
PoolConflicts(v, start) ==
    \/ \E t \in Trips :
         trips[t].status \in Occupying /\ trips[t].vehicle = v /\ start < trips[t].arr
    \/ \E r \in Reservations :
         /\ res[r].status \notin Terminal \cup {"deleted"}
         /\ res[r].vehicle = v /\ start < res[r].est

AllocateVehicle(v, start) ==
    /\ held[v] = None
    /\ ~PoolConflicts(v, start)
    /\ held' = [held EXCEPT ![v] = start]
    /\ UNCHANGED <<res, trips, lines, fleet>>

ReturnVehicle(v) ==
    /\ held[v] # None
    /\ held' = [held EXCEPT ![v] = None]
    /\ UNCHANGED <<res, trips, lines, fleet>>

-----------------------------------------------------------------------------
ReservationRequest(r) ==
    \/ Submit(r)
    \/ \E level \in Levels : Approve(r, level) \/ Reject(r, level)
    \/ CancelReservation(r)
    \/ \E v \in Vehicles : AssignVehicle(r, v)
    \/ \E d \in Drivers : AssignDriver(r, d)
    \/ \E move \in Moves : Reschedule(r, move)
    \/ DeleteReservation(r)

TripRequest(t) ==
    \/ \E v \in Vehicles : AssignVehicleToTrip(t, v)
    \/ \E d \in Drivers : AssignDriverToTrip(t, d)
    \/ StartTrip(t) \/ EndTrip(t) \/ CloseTrip(t) \/ CancelTrip(t)

VehicleRequest ==
    \/ \E v \in Workshop, status \in {"maintenance", "available"} : UpdateVehicle(v, status)
    \/ \E v \in CarPlanFleet, start \in HoldStarts : AllocateVehicle(v, start)
    \/ \E v \in CarPlanFleet : ReturnVehicle(v)

Next ==
    \/ \E r \in Reservations : ReservationRequest(r)
    \/ \E r \in Editable, form \in Forms : EditReservation(r, form)
    \/ \E t \in Trips : TripRequest(t)
    \/ VehicleRequest

Spec == Init /\ [][Next]_vars

-----------------------------------------------------------------------------
(* Types *)

ReservationRow ==
    [status : ReservationStatus, vehicle : Vehicles \cup {None},
     driver : Drivers \cup {None}, dep : Times, ret : Times \cup {None}, est : Times,
     trip_type : TripTypes, needs_driver : BOOLEAN, passengers : Nat]

(* A tour's identity is opaque to the trips: any value will do here. *)
TripRowOK(row) ==
    /\ row.status \in TripStatus
    /\ row.vehicle \in Vehicles \cup {None}
    /\ row.driver \in Drivers \cup {None}
    /\ DOMAIN row = DOMAIN NoTrip

(* Every table holds rows of its type. *)
TypeOK ==
    /\ res \in [Reservations -> ReservationRow]
    /\ DOMAIN trips = Trips /\ \A t \in Trips : TripRowOK(trips[t])
    /\ lines \in [Reservations -> [Levels -> Decisions]]
    /\ fleet \in [Vehicles -> VehicleStatus]
    /\ held \in [Vehicles -> Times \cup {None}]

-----------------------------------------------------------------------------
(* Safety *)

(* The return leg is never on the road, or back, before the outbound leg is
   back, however the two legs were assigned, moved or cancelled in between and
   whatever the trip type has become (start_trip). *)
ReturnAfterOutbound ==
    \A r \in Reservations :
        trips[<<r, "return">>].status \in HasLeft => trips[<<r, "outbound">>].status \in BackIn

(* A reservation one of whose legs has left is in progress, completed or
   closed: no request on the reservation, on the other leg or on the form puts
   it back among the statuses that may be cancelled, moved or assigned again. *)
DepartedMeansUnderway ==
    \A t \in Trips : trips[t].status \in HasLeft =>
        res[t[1]].status \in {"in_progress", "completed", "closed"}

(* A completed reservation has all its legs back, a closed one has them all
   closed: a status never runs ahead of the legs, and no leg is created behind
   it, whatever the form makes of the trip type (end_trip, close_trip). *)
CompletionMatchesLegs ==
    \A r \in Reservations :
        LET legs == {trips[t].status : t \in LegsOf(r)} \ {"absent"}
        IN /\ res[r].status = "completed" => legs # {} /\ legs \subseteq BackIn
           /\ res[r].status = "closed" => legs = {"closed"}

(* An assignment the time check lets through is one the exclusion constraint
   accepts: the check is never weaker than the constraint it mirrors, so the
   request is refused with a reason and not with a server error
   (trip_time_conflicts, Trip.Meta.constraints). *)
TripCheckMirrorsConstraint ==
    \A t \in Trips : trips[t].status = "scheduled" =>
        /\ \A v \in Vehicles :
              LET row == [trips[t] EXCEPT !.vehicle = v]
              IN TripConflicts(t, row, "vehicle") = {} => DbAccepts([trips EXCEPT ![t] = row])
        /\ \A d \in Drivers :
              LET row == [trips[t] EXCEPT !.driver = d]
              IN TripConflicts(t, row, "driver") = {} => DbAccepts([trips EXCEPT ![t] = row])

(* A trip of the shared fleet that occupies a vehicle the Car Plan holds. *)
OnHeldVehicle(t) ==
    /\ trips[t].status \in Occupying /\ trips[t].vehicle # None
    /\ held[trips[t].vehicle] # None /\ held[trips[t].vehicle] < trips[t].arr

(* A vehicle the Car Plan holds serves no trip of the shared fleet during the
   hold, whichever came first, through every assignment, every change of times
   and a leg the form has left behind by making its reservation one-way
   (allocate_vehicle, pool_block_reason and their callers). *)
CarPlanVehiclesLeftAlone == \A t \in Trips : ~OnHeldVehicle(t)

(* From its departure on, a trip keeps its vehicle, its driver and its planned
   window: no request on the reservation, the form or the other leg rewrites
   what is being driven (_ensure_trips, assign_vehicle, release_assignment).
   Deleting a driver, which empties that column of the trips (drivers/views.py:21,
   trips/models.py:103), is outside this module. *)
DepartedTripsFrozen ==
    [][\A t \in Trips : trips[t].status \in HasLeft =>
        /\ trips'[t].status \in HasLeft
        /\ trips'[t].vehicle = trips[t].vehicle /\ trips'[t].driver = trips[t].driver
        /\ trips'[t].dep = trips[t].dep /\ trips'[t].arr = trips[t].arr]_vars

-----------------------------------------------------------------------------
(* What the documentation says and the code does not hold to *)

(* A reservation counts as approved, gets a vehicle or leaves only once every
   required level has validated it: "course generee a partir d'une reservation
   validee" (trips/models.py), "la reservation doit etre validee avant
   d'affecter un vehicule" (reservations/services.py). *)
AssignedMeansValidated ==
    \A r \in Reservations :
        res[r].status \in ActiveReservation =>
            \A i \in DOMAIN Required : lines[r][Required[i]] = "approved"

(* A cancelled reservation is final: nothing is expected of it any more
   (reservations/services.py, cancel: "aucune (demande annulee)"). *)
CancelledStaysCancelled ==
    [][\A r \in Reservations :
        res[r].status = "cancelled" => res'[r].status \in {"cancelled", "deleted"}]_vars

-----------------------------------------------------------------------------
(* Refinement of the abstract journey *)

FileOf(status) ==
    CASE status = "in_progress" -> "underway"
      [] status = "completed" -> "done"
      [] status = "closed" -> "closed"
      [] OTHER -> "open"

LegStatus == [t \in Trips |-> trips[t].status]
LegPlan == [t \in Trips |-> [vehicle |-> trips[t].vehicle, driver |-> trips[t].driver,
                             dep |-> trips[t].dep, arr |-> trips[t].arr]]
FileStatus == [r \in Reservations |-> FileOf(res[r].status)]
DriverNeeded == {r \in Reservations : res[r].needs_driver}

Promise == INSTANCE Journey WITH leg <- LegStatus, plan <- LegPlan, file <- FileStatus,
                                   needing <- DriverNeeded

(* Every request is a departure, an arrival or a closing of one leg, or only
   rearranges legs that have not left and leaves every file as it was: the
   twelve reservation statuses and the eighteen requests implement the four
   steps of Journey. *)
ImplementsJourney == Promise!JourneySpec
=============================================================================
