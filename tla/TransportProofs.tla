---------------------------- MODULE TransportProofs ----------------------------
(***************************************************************************)
(* Proofs about module Transport, for any reservations, vehicles, drivers, *)
(* times and approval levels.                                              *)
(***************************************************************************)
EXTENDS Transport, TLAPS

Rows == [Reservations -> ReservationRow]

TripTableOK(ts) == DOMAIN ts = Trips /\ \A t \in Trips : TripRowOK(ts[t])

-----------------------------------------------------------------------------
(* Trips and legs *)

(* A trip is a reservation and a leg. *)
LEMMA TripShape ==
    ASSUME NEW t \in Trips
    PROVE  t = <<t[1], t[2]>> /\ t[1] \in Reservations /\ t[2] \in Legs
BY DEF Trips, Legs

(* A reservation has an outbound leg and a return leg, generated or not. *)
LEMMA LegsShape ==
    ASSUME NEW r \in Reservations
    PROVE  /\ OutboundOf(r) \in Trips /\ OutboundOf(r) \in LegsOf(r)
           /\ LegsOf(r) \subseteq Trips
           /\ <<r, "return">> \in Trips /\ <<r, "return">> \in LegsOf(r)
           /\ \A t \in LegsOf(r) : t = OutboundOf(r) \/ t = <<r, "return">>
BY DEF Trips, Legs, OutboundOf, LegsOf

-----------------------------------------------------------------------------
(* Types of what the handlers share *)

LEMMA NoTripOK == TripRowOK(NoTrip)
BY DEF TripRowOK, NoTrip, TripStatus

LEMMA RowOfOK ==
    ASSUME NEW r \in Reservations, NEW status \in ReservationStatus
    PROVE  RowOf(r, status) \in ReservationRow
<1> DEFINE asked == r \in WithDriver
           shape == IF r \in RoundTrip THEN "round_trip" ELSE "one_way"
<1>1. asked \in BOOLEAN /\ shape \in TripTypes
  BY DEF TripTypes
<1>2. Request[r] \in Plans /\ Passengers[r] \in Nat
  BY TransportAssumption
<1>3. RowOf(r, status) =
        [status |-> status, vehicle |-> None, driver |-> None,
         dep |-> Request[r].dep, ret |-> Request[r].ret, est |-> Request[r].est,
         trip_type |-> shape, needs_driver |-> asked, passengers |-> Passengers[r]]
  BY DEF RowOf
<1> HIDE DEF asked, shape
<1> QED BY <1>1, <1>2, <1>3 DEF ReservationRow, Plans

LEMMA LinesOfOK ==
    ASSUME NEW decision \in Decisions
    PROVE  LinesOf(decision) \in [Levels -> Decisions]
BY DEF LinesOf, Decisions

LEMMA EnsuredTripOK ==
    ASSUME NEW t \in Trips, NEW row \in ReservationRow, NEW old, TripRowOK(old)
    PROVE  TripRowOK(EnsuredTrip(t, row, old))
BY DEF TripRowOK, EnsuredTrip, ReservationRow, NoTrip, TripStatus

LEMMA EnsuredTripsOK ==
    ASSUME NEW r \in Reservations, NEW row \in ReservationRow, TripTableOK(trips)
    PROVE  TripTableOK(EnsuredTrips(r, row))
BY EnsuredTripOK DEF TripTableOK, EnsuredTrips

LEMMA GivenToLegsOK ==
    ASSUME NEW ts, NEW row, TripTableOK(ts), NEW r \in Reservations,
           NEW field \in {"vehicle", "driver"}, NEW resource,
           field = "vehicle" => resource \in Vehicles,
           field = "driver" => resource \in Drivers
    PROVE  TripTableOK(GivenToLegs(ts, row, r, field, resource))
BY DEF TripTableOK, TripRowOK, GivenToLegs, NoTrip

LEMMA PrincipalOK ==
    ASSUME NEW ts, TripTableOK(ts), NEW r \in Reservations, LiveLegs(ts, r) # {}
    PROVE  /\ Principal(ts, r).vehicle \in Vehicles \cup {None}
           /\ Principal(ts, r).driver \in Drivers \cup {None}
<1>1. CASE OutboundOf(r) \in LiveLegs(ts, r)
  BY <1>1, LegsShape DEF Principal, TripTableOK, TripRowOK
<1>2. CASE OutboundOf(r) \notin LiveLegs(ts, r)
  <2>1. <<r, "return">> \in Trips
    BY <1>2, LegsShape DEF LiveLegs
  <2> QED BY <1>2, <2>1 DEF Principal, TripTableOK, TripRowOK
<1> QED BY <1>1, <1>2

LEMMA RecomputedOK ==
    ASSUME NEW ts, TripTableOK(ts), NEW R, res \in Rows
    PROVE  Recomputed(res, ts, R) \in Rows
<1> SUFFICES ASSUME NEW r \in Reservations
             PROVE  Recomputed(res, ts, R)[r] \in ReservationRow
  BY DEF Recomputed, Rows
<1>1. AssignmentStatus(ts, r) \in ReservationStatus
  BY DEF AssignmentStatus, ReservationStatus
<1>2. CASE r \in R /\ res[r].status \notin NeverRecomputed /\ LiveLegs(ts, r) # {}
  BY <1>1, <1>2, PrincipalOK DEF Recomputed, Rows, ReservationRow
<1>3. CASE ~(r \in R /\ res[r].status \notin NeverRecomputed /\ LiveLegs(ts, r) # {})
  BY <1>3 DEF Recomputed, Rows
<1> QED BY <1>2, <1>3

LEMMA FleetOK ==
    ASSUME NEW fl \in [Vehicles -> VehicleStatus]
    PROVE  /\ \A v : \A status \in VehicleStatus :
                Marked(fl, v, status) \in [Vehicles -> VehicleStatus]
           /\ \A ts, V : Freed(fl, ts, V) \in [Vehicles -> VehicleStatus]
BY DEF Marked, Freed, VehicleStatus

-----------------------------------------------------------------------------
(* Type correctness, action by action *)

LEMMA TypeFacts ==
    ASSUME TypeOK
    PROVE  /\ res \in Rows /\ TripTableOK(trips)
           /\ \A r \in Reservations : res[r] \in ReservationRow
           /\ \A t \in Trips : TripRowOK(trips[t])
BY DEF TypeOK, Rows, TripTableOK

LEMMA InitType == Init => TypeOK
<1> SUFFICES ASSUME Init PROVE TypeOK
  OBVIOUS
<1> PICK portfolio \in Portfolios :
        /\ res = [r \in Reservations |-> RowOf(r, FirstStatus(r, portfolio))]
        /\ trips = [t \in Trips |-> FirstTrip(t, portfolio)]
        /\ lines = [r \in Reservations |->
                       IF r \in portfolio \cap Validated THEN LinesOf("approved") ELSE NoLines]
  BY DEF Init
<1>1. res \in [Reservations -> ReservationRow]
  <2>1. \A r \in Reservations : FirstStatus(r, portfolio) \in ReservationStatus
    BY DEF FirstStatus, ReservationStatus
  <2> QED BY <2>1, RowOfOK
<1>2. \A t \in Trips : TripRowOK(trips[t])
  <2> SUFFICES ASSUME NEW t \in Trips PROVE TripRowOK(FirstTrip(t, portfolio))
    OBVIOUS
  <2> QED BY DEF FirstTrip, TripRowOK, NoTrip, TripStatus
<1>3. lines \in [Reservations -> [Levels -> Decisions]]
  BY LinesOfOK DEF NoLines, Decisions
<1>4. fleet \in [Vehicles -> VehicleStatus] /\ held \in [Vehicles -> Times \cup {None}]
  BY DEF Init, VehicleStatus
<1> QED BY <1>1, <1>2, <1>3, <1>4 DEF TypeOK

(* The columns the proofs follow through an action are typed in one place: a
   row whose status, vehicle and driver are replaced keeps its type. *)
LEMMA ReservationRowOK ==
    ASSUME NEW row \in ReservationRow, NEW status \in ReservationStatus,
           NEW v \in Vehicles \cup {None}, NEW d \in Drivers \cup {None}
    PROVE  /\ [row EXCEPT !.status = status] \in ReservationRow
           /\ [row EXCEPT !.vehicle = v] \in ReservationRow
           /\ [row EXCEPT !.driver = d] \in ReservationRow
BY DEF ReservationRow

LEMMA StatusRowsOK ==
    ASSUME TypeOK, NEW r \in Reservations, NEW status \in ReservationStatus
    PROVE  [res EXCEPT ![r].status = status] \in Rows
BY DEF TypeOK, Rows, ReservationRow

LEMMA TripStatusOK ==
    ASSUME TypeOK, NEW t \in Trips, NEW status \in TripStatus
    PROVE  TripTableOK([trips EXCEPT ![t].status = status])
BY DEF TypeOK, TripTableOK, TripRowOK, NoTrip

LEMMA WorkflowType ==
    ASSUME TypeOK, NEW r \in Reservations, NEW level \in Levels,
           Submit(r) \/ Approve(r, level) \/ Reject(r, level) \/ CancelReservation(r)
    PROVE  TypeOK'
<1> USE TypeFacts
<1>1. CASE Submit(r)
  <2>1. LinesOf("pending") \in [Levels -> Decisions]
    BY LinesOfOK DEF Decisions
  <2>2. Pending(Required[1]) \in ReservationStatus
    BY DEF Pending, ReservationStatus, AwaitingDecision
  <2> QED BY <1>1, <2>1, <2>2 DEF Submit, TypeOK, ReservationRow
<1>2. CASE Approve(r, level)
  <2>1. NextStatusAfter(level) \in ReservationStatus
    BY DEF NextStatusAfter, Pending, ReservationStatus, AwaitingDecision
  <2>2. TripTableOK(trips')
    BY <1>2, EnsuredTripsOK DEF Approve
  <2> QED BY <1>2, <2>1, <2>2 DEF Approve, TypeOK, ReservationRow, TripTableOK, Decisions
<1>3. CASE Reject(r, level)
  <2>1. [res EXCEPT ![r].status = "rejected"] \in Rows
    BY StatusRowsOK DEF ReservationStatus
  <2>2. [lines EXCEPT ![r][level] = "rejected"] \in [Reservations -> [Levels -> Decisions]]
    BY DEF TypeOK, Decisions
  <2> QED BY <1>3, <2>1, <2>2 DEF Reject, TypeOK, Rows
<1>4. CASE CancelReservation(r)
  <2>1. fleet' \in [Vehicles -> VehicleStatus]
    BY <1>4, FleetOK DEF CancelReservation, TypeOK, VehicleStatus
  <2>2. res' \in [Reservations -> ReservationRow]
    BY <1>4, StatusRowsOK DEF CancelReservation, Rows, ReservationStatus
  <2> QED BY <1>4, <2>1, <2>2 DEF CancelReservation, TypeOK
<1> QED BY <1>1, <1>2, <1>3, <1>4

LEMMA AssignmentType ==
    ASSUME TypeOK, NEW r \in Reservations,
           \/ \E v \in Vehicles : AssignVehicle(r, v)
           \/ \E d \in Drivers : AssignDriver(r, d)
    PROVE  TypeOK'
<1> USE TypeFacts
<1>1. ASSUME NEW v \in Vehicles, AssignVehicle(r, v) PROVE TypeOK'
  <2> DEFINE row == [res[r] EXCEPT !.vehicle = v,
                                   !.status = IF @ = "approved" THEN "vehicle_assigned" ELSE @]
  <2>1. row \in ReservationRow
    BY DEF ReservationRow, ReservationStatus
  <2>2. TripTableOK(trips')
    BY <1>1, <2>1, EnsuredTripsOK, GivenToLegsOK DEF AssignVehicle
  <2>3. fleet' \in [Vehicles -> VehicleStatus]
    BY <1>1, FleetOK DEF AssignVehicle, TypeOK, VehicleStatus
  <2>4. res' \in [Reservations -> ReservationRow]
    BY <1>1, <2>1 DEF AssignVehicle, TypeOK
  <2> QED BY <1>1, <2>2, <2>3, <2>4 DEF AssignVehicle, TypeOK, TripTableOK
<1>2. ASSUME NEW d \in Drivers, AssignDriver(r, d) PROVE TypeOK'
  <2> DEFINE row == [res[r] EXCEPT !.driver = d, !.status = "driver_assigned"]
  <2>1. row \in ReservationRow
    BY DEF ReservationRow, ReservationStatus
  <2>2. TripTableOK(trips')
    BY <1>2, <2>1, EnsuredTripsOK, GivenToLegsOK DEF AssignDriver
  <2>3. res' \in [Reservations -> ReservationRow]
    BY <1>2, <2>1 DEF AssignDriver, TypeOK
  <2> QED BY <1>2, <2>2, <2>3 DEF AssignDriver, TypeOK, TripTableOK
<1> QED BY <1>1, <1>2

LEMMA MovedReturnOK ==
    ASSUME NEW r \in Reservations, res[r] \in ReservationRow, NEW move \in Plans
    PROVE  MovedReturn(r, move) \in Times \cup {None}
BY TransportAssumption DEF MovedReturn, Plans, ReservationRow, Times

(* The row the form leaves. *)
FormRow(r, form) ==
    [status |-> res[r].status, vehicle |-> form.vehicle, driver |-> form.driver,
     dep |-> form.dep, ret |-> form.ret, est |-> form.est,
     trip_type |-> form.trip_type, needs_driver |-> form.needs_driver,
     passengers |-> form.passengers]

LEMMA FormRowOK ==
    ASSUME NEW r \in Reservations, res[r] \in ReservationRow, NEW form \in Forms
    PROVE  FormRow(r, form) \in ReservationRow
<1>1. form \in FormContents
  BY TransportAssumption
<1> QED BY <1>1 DEF FormRow, FormContents, ReservationRow

LEMMA PlanningType ==
    ASSUME TypeOK, NEW r \in Reservations,
           \/ \E move \in Moves : Reschedule(r, move)
           \/ DeleteReservation(r)
           \/ \E form \in Forms : EditReservation(r, form)
    PROVE  TypeOK'
<1> USE TypeFacts
<1>0. Moves \subseteq Plans
  BY TransportAssumption
<1>1. ASSUME NEW move \in Moves, Reschedule(r, move) PROVE TypeOK'
  <2> DEFINE row == [res[r] EXCEPT !.dep = move.dep, !.est = move.est,
                                   !.ret = MovedReturn(r, move)]
  <2>1. row \in ReservationRow
    <3>1. MovedReturn(r, move) \in Times \cup {None}
      BY <1>0, MovedReturnOK
    <3> QED BY <1>0, <3>1 DEF ReservationRow, Plans
  <2>2. TripTableOK(trips')
    BY <1>1, <2>1, EnsuredTripsOK DEF Reschedule
  <2>3. res' \in [Reservations -> ReservationRow]
    BY <1>1, <2>1 DEF Reschedule, TypeOK
  <2> QED BY <1>1, <2>2, <2>3 DEF Reschedule, TypeOK, TripTableOK
<1>2. CASE DeleteReservation(r)
  <2>1. RowOf(r, "deleted") \in ReservationRow
    BY RowOfOK DEF ReservationStatus
  <2>2. TripTableOK(trips')
    BY <1>2, NoTripOK DEF DeleteReservation, TripTableOK
  <2>3. NoLines \in [Levels -> Decisions]
    BY DEF NoLines, Decisions
  <2> QED BY <1>2, <2>1, <2>2, <2>3 DEF DeleteReservation, TypeOK, TripTableOK
<1>3. ASSUME NEW form \in Forms, EditReservation(r, form) PROVE TypeOK'
  <2>1. FormRow(r, form) \in ReservationRow
    BY FormRowOK
  <2>2. res' = [res EXCEPT ![r] = FormRow(r, form)]
    BY <1>3 DEF EditReservation, FormRow
  <2> QED BY <1>3, <2>1, <2>2 DEF EditReservation, TypeOK
<1> QED BY <1>1, <1>2, <1>3

LEMMA TripType ==
    ASSUME TypeOK, NEW t \in Trips, TripRequest(t)
    PROVE  TypeOK'
<1> USE TypeFacts
<1>0. t[1] \in Reservations
  BY TripShape
<1>1. ASSUME NEW v \in Vehicles, AssignVehicleToTrip(t, v) PROVE TypeOK'
  <2>1. TripTableOK(trips')
    BY <1>1 DEF AssignVehicleToTrip, TripTableOK, TripRowOK, NoTrip
  <2>2. res' \in Rows
    BY <1>1, <2>1, RecomputedOK DEF AssignVehicleToTrip
  <2>3. fleet' \in [Vehicles -> VehicleStatus]
    BY <1>1, FleetOK DEF AssignVehicleToTrip, TypeOK, VehicleStatus
  <2> QED BY <1>1, <2>1, <2>2, <2>3 DEF AssignVehicleToTrip, TypeOK, TripTableOK, Rows
<1>2. ASSUME NEW d \in Drivers, AssignDriverToTrip(t, d) PROVE TypeOK'
  <2>1. TripTableOK(trips')
    BY <1>2 DEF AssignDriverToTrip, TripTableOK, TripRowOK, NoTrip
  <2>2. res' \in Rows
    BY <1>2, <2>1, RecomputedOK DEF AssignDriverToTrip
  <2> QED BY <1>2, <2>1, <2>2 DEF AssignDriverToTrip, TypeOK, TripTableOK, Rows
<1>3. CASE StartTrip(t)
  <2>1. TripTableOK(trips')
    BY <1>3, TripStatusOK DEF StartTrip, TripStatus
  <2>2. res' \in [Reservations -> ReservationRow]
    BY <1>0, <1>3, StatusRowsOK DEF StartTrip, Rows, ReservationStatus
  <2>3. fleet' \in [Vehicles -> VehicleStatus]
    BY <1>3, FleetOK DEF StartTrip, TypeOK, VehicleStatus
  <2> QED BY <1>3, <2>1, <2>2, <2>3 DEF StartTrip, TypeOK, TripTableOK
<1>4. CASE EndTrip(t)
  <2>1. TripTableOK(trips')
    <3>1. trips' = [trips EXCEPT ![t].status = "returned"]
      BY <1>4 DEF EndTrip
    <3> QED BY <3>1, TripStatusOK DEF TripStatus
  <2>2. res' \in Rows
    <3>1. res' = [res EXCEPT ![t[1]].status = "completed"] \/ res' = res
      BY <1>4 DEF EndTrip
    <3> QED BY <1>0, <3>1, StatusRowsOK DEF ReservationStatus
  <2>3. fleet' \in [Vehicles -> VehicleStatus]
    BY <1>4, FleetOK DEF EndTrip, TypeOK, VehicleStatus
  <2> QED BY <1>4, <2>1, <2>2, <2>3 DEF EndTrip, TypeOK, TripTableOK, Rows
<1>5. CASE CloseTrip(t)
  <2>1. TripTableOK(trips')
    <3>1. trips' = [trips EXCEPT ![t].status = "closed"]
      BY <1>5 DEF CloseTrip
    <3> QED BY <3>1, TripStatusOK DEF TripStatus
  <2>2. res' \in Rows
    <3>1. res' = [res EXCEPT ![t[1]].status = "closed"] \/ res' = res
      BY <1>5 DEF CloseTrip
    <3> QED BY <1>0, <3>1, StatusRowsOK DEF ReservationStatus
  <2> QED BY <1>5, <2>1, <2>2 DEF CloseTrip, TypeOK, TripTableOK, Rows
<1>6. CASE CancelTrip(t)
  <2>1. TripTableOK(trips')
    <3>1. trips' = [trips EXCEPT ![t] = [trips[t] EXCEPT !.status = "cancelled", !.group = None]]
      BY <1>6 DEF CancelTrip, TripTableOK
    <3>2. TripRowOK([trips[t] EXCEPT !.status = "cancelled", !.group = None])
      BY DEF TripTableOK, TripRowOK, NoTrip, TripStatus
    <3> QED BY <3>1, <3>2 DEF TripTableOK
  <2>2. [res EXCEPT ![t[1]].status = "cancelled"] \in Rows
    BY <1>0, StatusRowsOK DEF ReservationStatus
  <2>3. res' \in Rows
    BY <1>6, <2>1, <2>2, RecomputedOK DEF CancelTrip
  <2>4. fleet' \in [Vehicles -> VehicleStatus]
    BY <1>6, FleetOK DEF CancelTrip, TypeOK
  <2> QED BY <1>6, <2>1, <2>3, <2>4 DEF CancelTrip, TypeOK, TripTableOK, Rows
<1> QED BY <1>1, <1>2, <1>3, <1>4, <1>5, <1>6 DEF TripRequest

LEMMA VehicleType ==
    ASSUME TypeOK, VehicleRequest
    PROVE  TypeOK'
<1>1. ASSUME NEW v \in Workshop, NEW status \in {"maintenance", "available"},
             UpdateVehicle(v, status)
      PROVE  TypeOK'
  <2>1. fleet' \in [Vehicles -> VehicleStatus]
    BY <1>1, FleetOK DEF UpdateVehicle, TypeOK, VehicleStatus
  <2> QED BY <1>1, <2>1 DEF UpdateVehicle, TypeOK
<1>2. ASSUME NEW v \in CarPlanFleet, NEW start \in HoldStarts, AllocateVehicle(v, start)
      PROVE  TypeOK'
  BY <1>2, TransportAssumption DEF AllocateVehicle, TypeOK
<1>3. ASSUME NEW v \in CarPlanFleet, ReturnVehicle(v) PROVE TypeOK'
  BY <1>3 DEF ReturnVehicle, TypeOK
<1> QED BY <1>1, <1>2, <1>3 DEF VehicleRequest

LEMMA NextType == TypeOK /\ [Next]_vars => TypeOK'
<1> SUFFICES ASSUME TypeOK, [Next]_vars PROVE TypeOK'
  OBVIOUS
<1>1. ASSUME NEW r \in Reservations, ReservationRequest(r) PROVE TypeOK'
  BY <1>1, WorkflowType, AssignmentType, PlanningType DEF ReservationRequest, Levels
<1>2. ASSUME NEW r \in Editable, NEW form \in Forms, EditReservation(r, form) PROVE TypeOK'
  BY <1>2, PlanningType, TransportAssumption
<1>3. ASSUME NEW t \in Trips, TripRequest(t) PROVE TypeOK'
  BY <1>3, TripType
<1>4. CASE VehicleRequest
  BY <1>4, VehicleType
<1>5. CASE UNCHANGED vars
  BY <1>5 DEF vars, TypeOK
<1> QED BY <1>1, <1>2, <1>3, <1>4, <1>5 DEF Next

(* Every request leaves every table with rows of its type, for any number of
   reservations, vehicles, drivers and approval levels: no handler writes a
   status, a vehicle or a driver that is none. *)
THEOREM TypeCorrect == Spec => []TypeOK
<1>1. Init => TypeOK
  BY InitType
<1>2. TypeOK /\ [Next]_vars => TypeOK'
  BY NextType
<1> QED BY <1>1, <1>2, PTL DEF Spec

-----------------------------------------------------------------------------
(* The journey invariant: what trips and reservations say of one another.
   The properties of the runs are not inductive one by one: that a return leg
   waits for the outbound leg needs this one to exist whenever the other does,
   that a deletion takes no journey along needs every reservation under way to
   have a leg that has left. *)

Underway == {"in_progress", "completed", "closed"}

UnderwayHasDeparted ==
    \A r \in Reservations : res[r].status \in Underway =>
        \E t \in LegsOf(r) : trips[t].status \in HasLeft

ReturnHasOutbound ==
    \A r \in Reservations :
        trips[<<r, "return">>].status # "absent" => trips[<<r, "outbound">>].status # "absent"

(* CompletionMatchesLegs, leg by leg. *)
FilesFollowLegs ==
    \A r \in Reservations :
        /\ res[r].status = "completed" =>
              \A t \in LegsOf(r) : trips[t].status \in BackIn \cup {"absent"}
        /\ res[r].status = "closed" =>
              \A t \in LegsOf(r) : trips[t].status \in {"closed", "absent"}

JourneyInv ==
    /\ ReturnHasOutbound
    /\ ReturnAfterOutbound
    /\ DepartedMeansUnderway
    /\ FilesFollowLegs
    /\ UnderwayHasDeparted

LEMMA CompletionFromLegs ==
    ASSUME JourneyInv
    PROVE  CompletionMatchesLegs
<1> SUFFICES ASSUME NEW r \in Reservations, res[r].status \in {"completed", "closed"}
             PROVE  LET legs == {trips[t].status : t \in LegsOf(r)} \ {"absent"}
                    IN /\ res[r].status = "completed" => legs # {} /\ legs \subseteq BackIn
                       /\ res[r].status = "closed" => legs = {"closed"}
  BY DEF CompletionMatchesLegs
<1>1. PICK t \in LegsOf(r) : trips[t].status \in HasLeft
  BY DEF JourneyInv, UnderwayHasDeparted, Underway
<1>2. trips[t].status # "absent"
  BY <1>1 DEF HasLeft
<1> QED BY <1>2 DEF JourneyInv, FilesFollowLegs

(* A step during which no leg leaves, comes back or is closed. *)
Quiet ==
    /\ \A t \in Trips : trips[t].status \in HasLeft =>
          /\ trips'[t].status = trips[t].status
          /\ trips'[t].vehicle = trips[t].vehicle /\ trips'[t].driver = trips[t].driver
          /\ trips'[t].dep = trips[t].dep /\ trips'[t].arr = trips[t].arr
    /\ \A t \in Trips : trips'[t].status \in HasLeft => trips[t].status \in HasLeft
    /\ \A t \in Trips : trips[t].status = "cancelled" => trips'[t].status # "scheduled"
    /\ \A r \in Reservations :
          (res[r].status \in Underway \/ res'[r].status \in Underway) =>
              res'[r].status = res[r].status
    /\ \A r \in Reservations : res[r].status \in Underway =>
          \A t \in LegsOf(r) : trips[t].status = "absent" <=> trips'[t].status = "absent"
    /\ ReturnHasOutbound'

LEMMA QuietKeepsJourney ==
    ASSUME JourneyInv, Quiet
    PROVE  JourneyInv'
<1>1. ReturnAfterOutbound'
  <2> SUFFICES ASSUME NEW r \in Reservations, trips'[<<r, "return">>].status \in HasLeft
               PROVE  trips'[<<r, "outbound">>].status \in BackIn
    BY DEF ReturnAfterOutbound
  <2>1. <<r, "return">> \in Trips /\ <<r, "outbound">> \in Trips
    BY LegsShape DEF OutboundOf
  <2>2. trips[<<r, "outbound">>].status \in BackIn
    BY <2>1 DEF Quiet, JourneyInv, ReturnAfterOutbound
  <2> QED BY <2>1, <2>2 DEF Quiet, HasLeft, BackIn
<1>3. DepartedMeansUnderway'
  BY TripShape DEF JourneyInv, Quiet, DepartedMeansUnderway, Underway
<1>4. FilesFollowLegs'
  <2> SUFFICES ASSUME NEW r \in Reservations, res'[r].status \in {"completed", "closed"}
               PROVE  /\ res'[r].status = "completed" =>
                           \A t \in LegsOf(r) : trips'[t].status \in BackIn \cup {"absent"}
                      /\ res'[r].status = "closed" =>
                           \A t \in LegsOf(r) : trips'[t].status \in {"closed", "absent"}
    BY DEF FilesFollowLegs
  <2>1. res'[r].status = res[r].status /\ res[r].status \in Underway
    BY DEF Quiet, Underway
  <2>2. \A t \in LegsOf(r) : trips[t].status \in BackIn \cup {"absent"} =>
            trips'[t].status = trips[t].status
    BY <2>1, LegsShape DEF Quiet, HasLeft, BackIn
  <2> QED BY <2>1, <2>2 DEF JourneyInv, FilesFollowLegs, BackIn
<1>5. UnderwayHasDeparted'
  <2> SUFFICES ASSUME NEW r \in Reservations, res'[r].status \in Underway
               PROVE  \E t \in LegsOf(r) : trips'[t].status \in HasLeft
    BY DEF UnderwayHasDeparted
  <2>1. PICK t \in LegsOf(r) : trips[t].status \in HasLeft
    BY DEF JourneyInv, Quiet, UnderwayHasDeparted
  <2> QED BY <2>1, LegsShape DEF Quiet
<1> QED BY <1>1, <1>3, <1>4, <1>5 DEF JourneyInv, Quiet

(* A reservation whose legs are all still movable, rearranged as a whole. *)
LEMMA WholeReservationQuiet ==
    ASSUME JourneyInv, NEW r \in Reservations,
           res[r].status \notin Underway, res'[r].status \notin Underway,
           \A q \in Reservations \ {r} : res'[q] = res[q],
           \A t \in Trips \ LegsOf(r) : trips'[t] = trips[t],
           \A t \in LegsOf(r) :
               /\ trips'[t].status \notin HasLeft
               /\ trips[t].status = "cancelled" => trips'[t].status # "scheduled",
           trips'[<<r, "return">>].status # "absent" => trips'[<<r, "outbound">>].status # "absent"
    PROVE  Quiet
<1>1. \A t \in LegsOf(r) : trips[t].status \notin HasLeft
  BY DEF JourneyInv, DepartedMeansUnderway, Underway, LegsOf
<1>2. ReturnHasOutbound'
  <2> SUFFICES ASSUME NEW q \in Reservations
               PROVE  trips'[<<q, "return">>].status # "absent"
                        => trips'[<<q, "outbound">>].status # "absent"
    BY DEF ReturnHasOutbound
  <2>1. /\ q \in Reservations /\ <<q, "outbound">> \in LegsOf(q) /\ <<q, "return">> \in LegsOf(q)
    BY LegsShape DEF OutboundOf
  <2>2. CASE q = r
    BY <2>1, <2>2
  <2>3. CASE q # r
    <3>1. <<q, "outbound">> \in Trips \ LegsOf(r) /\ <<q, "return">> \in Trips \ LegsOf(r)
      BY <2>1, <2>3 DEF LegsOf
    <3> QED BY <3>1 DEF JourneyInv, ReturnHasOutbound
  <2> QED BY <2>2, <2>3
<1>3. \A q \in Reservations : res[q].status \in Underway =>
          \A t \in LegsOf(q) : t \in Trips \ LegsOf(r)
  BY LegsShape DEF LegsOf
<1> QED BY <1>1, <1>2, <1>3 DEF Quiet

LEMMA EnsuredNotLeft ==
    ASSUME JourneyInv, NEW r \in Reservations, res[r].status \notin Underway, NEW row
    PROVE  /\ \A t \in Trips \ LegsOf(r) : EnsuredTrips(r, row)[t] = trips[t]
           /\ TypeOK => \A t \in LegsOf(r) :
                /\ EnsuredTrips(r, row)[t].status \notin HasLeft
                /\ trips[t].status = "cancelled" => EnsuredTrips(r, row)[t].status = "cancelled"
           /\ TypeOK => EnsuredTrips(r, row)[<<r, "outbound">>].status # "absent"
<1>1. \A t \in Trips \ LegsOf(r) : EnsuredTrips(r, row)[t] = trips[t]
  BY DEF EnsuredTrips
<1>2. ASSUME TypeOK, NEW t \in LegsOf(r)
      PROVE  /\ EnsuredTrips(r, row)[t].status \notin HasLeft
             /\ trips[t].status = "cancelled" => EnsuredTrips(r, row)[t].status = "cancelled"
             /\ Wanted(t, row) => EnsuredTrips(r, row)[t].status # "absent"
  <2>1. t \in Trips /\ TripRowOK(trips[t])
    BY <1>2, LegsShape, TypeFacts
  <2>2. trips[t].status \notin HasLeft
    BY <2>1 DEF JourneyInv, DepartedMeansUnderway, Underway, LegsOf
  <2>3. EnsuredTrips(r, row)[t] = IF Wanted(t, row) THEN EnsuredTrip(t, row, trips[t]) ELSE trips[t]
    BY <2>1 DEF EnsuredTrips
  <2>4. CASE trips[t].status = "absent"
    <3>1. EnsuredTrip(t, row, trips[t]).status = "scheduled"
      BY <2>4 DEF EnsuredTrip
    <3> QED BY <2>2, <2>3, <2>4, <3>1 DEF HasLeft
  <2>5. CASE trips[t].status # "absent"
    <3>1. EnsuredTrip(t, row, trips[t]).status = trips[t].status
      BY <2>1, <2>5 DEF EnsuredTrip, TripRowOK, NoTrip
    <3> QED BY <2>2, <2>3, <2>5, <3>1
  <2> QED BY <2>4, <2>5
<1>3. <<r, "outbound">> \in LegsOf(r) /\ Wanted(<<r, "outbound">>, row)
  BY LegsShape DEF OutboundOf, Wanted
<1> QED BY <1>1, <1>2, <1>3

(* _recompute_reservation_assignment leaves the reservations under way alone
   and puts none among them. *)
LEMMA RecomputedQuiet ==
    ASSUME NEW ts, NEW R, res \in Rows, NEW r \in Reservations
    PROVE  res[r].status \in Underway \/ Recomputed(res, ts, R)[r].status \in Underway =>
               Recomputed(res, ts, R)[r].status = res[r].status
<1>1. CASE r \in R /\ res[r].status \notin NeverRecomputed /\ LiveLegs(ts, r) # {}
  <2>1. Recomputed(res, ts, R)[r].status = AssignmentStatus(ts, r)
    BY <1>1 DEF Recomputed, Rows, ReservationRow
  <2>2. AssignmentStatus(ts, r) \in {"approved", "driver_assigned", "vehicle_assigned"}
    BY DEF AssignmentStatus
  <2> QED BY <1>1, <2>1, <2>2 DEF Underway, NeverRecomputed
<1>2. CASE ~(r \in R /\ res[r].status \notin NeverRecomputed /\ LiveLegs(ts, r) # {})
  BY <1>2 DEF Recomputed
<1> QED BY <1>1, <1>2

(* One leg that has not left is changed, and has not left afterwards. *)
LEMMA OneLegQuiet ==
    ASSUME TypeOK, JourneyInv, NEW t \in Trips, NEW row,
           trips' = [trips EXCEPT ![t] = row],
           trips[t].status = "scheduled", row.status \in {"scheduled", "cancelled"},
           \A r \in Reservations :
               (res[r].status \in Underway \/ res'[r].status \in Underway) =>
                   res'[r].status = res[r].status
    PROVE  Quiet
<1>1. \A u \in Trips : trips'[u] = IF u = t THEN row ELSE trips[u]
  BY DEF TypeOK
<1>2. ReturnHasOutbound'
  <2> SUFFICES ASSUME NEW q \in Reservations
               PROVE  trips'[<<q, "return">>].status # "absent"
                        => trips'[<<q, "outbound">>].status # "absent"
    BY DEF ReturnHasOutbound
  <2>1. <<q, "outbound">> \in Trips /\ <<q, "return">> \in Trips
    BY LegsShape DEF OutboundOf
  <2> QED BY <1>1, <2>1 DEF JourneyInv, ReturnHasOutbound
<1> QED BY <1>1, <1>2 DEF Quiet, HasLeft

LEMMA ReservationRequestQuiet ==
    ASSUME TypeOK, JourneyInv, NEW r \in Reservations,
           ReservationRequest(r) \/ \E form \in Forms : EditReservation(r, form)
    PROVE  Quiet
<1> USE TypeFacts
<1>a. ASSUME UNCHANGED trips,
             \A q \in Reservations \ {r} : res'[q] = res[q],
             res'[r].status = res[r].status \/
                 (res[r].status \notin Underway /\ res'[r].status \notin Underway)
      PROVE  Quiet
  BY <1>a DEF Quiet, JourneyInv, ReturnHasOutbound
<1>1. CASE Submit(r)
  BY <1>1, <1>a DEF Submit, Pending, Underway, Rows, ReservationRow
<1>2. ASSUME NEW level \in Levels, Approve(r, level) PROVE Quiet
  <2>1. res[r].status \notin Underway /\ res'[r].status \notin Underway
    BY <1>2 DEF Approve, Pending, NextStatusAfter, Underway, Rows, ReservationRow
  <2>2. \A q \in Reservations \ {r} : res'[q] = res[q]
    BY <1>2 DEF Approve, Rows
  <2>3. CASE NextStatusAfter(level) = "approved"
    <3>1. trips' = EnsuredTrips(r, res[r])
      BY <1>2, <2>3 DEF Approve
    <3> QED BY <2>1, <2>2, <3>1, EnsuredNotLeft, WholeReservationQuiet
  <2>4. CASE NextStatusAfter(level) # "approved"
    BY <1>2, <1>a, <2>1, <2>2, <2>4 DEF Approve
  <2> QED BY <2>3, <2>4
<1>3. ASSUME NEW level \in Levels, Reject(r, level) PROVE Quiet
  BY <1>3, <1>a DEF Reject, Pending, Underway, Rows, ReservationRow
<1>4. CASE CancelReservation(r)
  BY <1>4, <1>a DEF CancelReservation, Terminal, Underway, Rows, ReservationRow
<1>5. ASSUME NEW v \in Vehicles, AssignVehicle(r, v) PROVE Quiet
  <2> DEFINE row == [res[r] EXCEPT !.vehicle = v,
                                   !.status = IF @ = "approved" THEN "vehicle_assigned" ELSE @]
             ensured == EnsuredTrips(r, row)
  <2>1. res[r].status \notin Underway
    BY <1>5 DEF AssignVehicle, Underway
  <2>2. row \in ReservationRow /\ row.status \notin Underway
    BY <2>1 DEF ReservationRow, ReservationStatus, Underway
  <2>3. res' = [res EXCEPT ![r] = row] /\ trips' = GivenToLegs(ensured, row, r, "vehicle", v)
    BY <1>5 DEF AssignVehicle
  <2>4. TripTableOK(ensured)
    BY <2>2, EnsuredTripsOK
  <2>5. \A t \in Trips \ LegsOf(r) : trips'[t] = trips[t]
    <3>1. \A t \in Trips \ LegsOf(r) : ensured[t] = trips[t]
      BY <2>1, EnsuredNotLeft
    <3> HIDE DEF row, ensured
    <3>2. \A t \in Trips \ LegsOf(r) : trips'[t] = ensured[t]
      BY <2>3 DEF GivenToLegs
    <3> QED BY <3>1, <3>2
  <2>6. /\ \A t \in LegsOf(r) :
             /\ trips'[t].status \notin HasLeft
             /\ trips[t].status = "cancelled" => trips'[t].status # "scheduled"
        /\ trips'[<<r, "outbound">>].status # "absent"
    <3>1. /\ \A t \in LegsOf(r) :
               /\ ensured[t].status \notin HasLeft
               /\ trips[t].status = "cancelled" => ensured[t].status = "cancelled"
          /\ ensured[<<r, "outbound">>].status # "absent"
      BY <2>1, EnsuredNotLeft
    <3> HIDE DEF row, ensured
    <3>2. ASSUME NEW t \in LegsOf(r) PROVE trips'[t].status = ensured[t].status
      <4>1. t \in Trips
        BY LegsShape
      <4> QED BY <2>3, <2>4, <4>1 DEF GivenToLegs, TripTableOK, TripRowOK, NoTrip
    <3>3. <<r, "outbound">> \in LegsOf(r)
      BY LegsShape DEF OutboundOf
    <3> QED BY <3>1, <3>2, <3>3
  <2> HIDE DEF row, ensured
  <2>7. res'[r] = row /\ \A q \in Reservations \ {r} : res'[q] = res[q]
    BY <2>3 DEF Rows
  <2> QED BY <2>1, <2>2, <2>5, <2>6, <2>7, WholeReservationQuiet
<1>6. ASSUME NEW d \in Drivers, AssignDriver(r, d) PROVE Quiet
  <2> DEFINE row == [res[r] EXCEPT !.driver = d, !.status = "driver_assigned"]
             ensured == EnsuredTrips(r, row)
  <2>1. res[r].status \notin Underway
    BY <1>6 DEF AssignDriver, Underway
  <2>2. row \in ReservationRow /\ row.status \notin Underway
    BY <2>1 DEF ReservationRow, ReservationStatus, Underway
  <2>3. res' = [res EXCEPT ![r] = row] /\ trips' = GivenToLegs(ensured, row, r, "driver", d)
    BY <1>6 DEF AssignDriver
  <2>4. TripTableOK(ensured)
    BY <2>2, EnsuredTripsOK
  <2>5. \A t \in Trips \ LegsOf(r) : trips'[t] = trips[t]
    <3>1. \A t \in Trips \ LegsOf(r) : ensured[t] = trips[t]
      BY <2>1, EnsuredNotLeft
    <3> HIDE DEF row, ensured
    <3>2. \A t \in Trips \ LegsOf(r) : trips'[t] = ensured[t]
      BY <2>3 DEF GivenToLegs
    <3> QED BY <3>1, <3>2
  <2>6. /\ \A t \in LegsOf(r) :
             /\ trips'[t].status \notin HasLeft
             /\ trips[t].status = "cancelled" => trips'[t].status # "scheduled"
        /\ trips'[<<r, "outbound">>].status # "absent"
    <3>1. /\ \A t \in LegsOf(r) :
               /\ ensured[t].status \notin HasLeft
               /\ trips[t].status = "cancelled" => ensured[t].status = "cancelled"
          /\ ensured[<<r, "outbound">>].status # "absent"
      BY <2>1, EnsuredNotLeft
    <3> HIDE DEF row, ensured
    <3>2. ASSUME NEW t \in LegsOf(r) PROVE trips'[t].status = ensured[t].status
      <4>1. t \in Trips
        BY LegsShape
      <4> QED BY <2>3, <2>4, <4>1 DEF GivenToLegs, TripTableOK, TripRowOK, NoTrip
    <3>3. <<r, "outbound">> \in LegsOf(r)
      BY LegsShape DEF OutboundOf
    <3> QED BY <3>1, <3>2, <3>3
  <2> HIDE DEF row, ensured
  <2>7. res'[r] = row /\ \A q \in Reservations \ {r} : res'[q] = res[q]
    BY <2>3 DEF Rows
  <2> QED BY <2>1, <2>2, <2>5, <2>6, <2>7, WholeReservationQuiet
<1>7. ASSUME NEW move \in Moves, Reschedule(r, move) PROVE Quiet
  <2> DEFINE row == [res[r] EXCEPT !.dep = move.dep, !.est = move.est,
                                   !.ret = MovedReturn(r, move)]
  <2>1. res[r].status \notin Underway
    BY <1>7 DEF Reschedule, Reschedulable, Underway
  <2>2. row.status = res[r].status
    BY DEF ReservationRow
  <2>3. res' = [res EXCEPT ![r] = row] /\ trips' = EnsuredTrips(r, row)
    BY <1>7 DEF Reschedule
  <2> HIDE DEF row
  <2>4. res'[r] = row /\ \A q \in Reservations \ {r} : res'[q] = res[q]
    BY <2>3 DEF Rows
  <2> QED BY <2>1, <2>2, <2>3, <2>4, EnsuredNotLeft, WholeReservationQuiet
<1>8. CASE DeleteReservation(r)
  <2>1. res[r].status \notin Underway
    BY <1>8 DEF DeleteReservation, JourneyInv, UnderwayHasDeparted
  <2>2. res'[r].status = "deleted" /\ \A q \in Reservations \ {r} : res'[q] = res[q]
    BY <1>8 DEF DeleteReservation, Rows, RowOf
  <2>3. \A t \in Trips : trips'[t] = IF t \in LegsOf(r) THEN NoTrip ELSE trips[t]
    BY <1>8 DEF DeleteReservation
  <2>4. (\A t \in LegsOf(r) : trips'[t].status = "absent") /\ <<r, "return">> \in LegsOf(r)
    <3>1. NoTrip.status = "absent"
      BY DEF NoTrip
    <3>2. LegsOf(r) \subseteq Trips /\ <<r, "return">> \in LegsOf(r)
      BY LegsShape
    <3> QED BY <2>3, <3>1, <3>2
  <2> QED BY <2>1, <2>2, <2>3, <2>4, WholeReservationQuiet DEF Underway, HasLeft
<1>9. ASSUME NEW form \in Forms, EditReservation(r, form) PROVE Quiet
  <2>1. res' = [res EXCEPT ![r] = FormRow(r, form)] /\ FormRow(r, form).status = res[r].status
    BY <1>9 DEF EditReservation, FormRow
  <2>2. res'[r].status = res[r].status /\ \A q \in Reservations \ {r} : res'[q] = res[q]
    BY <2>1 DEF Rows
  <2> QED BY <1>9, <1>a, <2>2 DEF EditReservation
<1> QED BY <1>1, <1>2, <1>3, <1>4, <1>5, <1>6, <1>7, <1>8, <1>9 DEF ReservationRequest

LEMMA TripRequestQuiet ==
    ASSUME TypeOK, JourneyInv, NEW t \in Trips,
           \/ \E v \in Vehicles : AssignVehicleToTrip(t, v)
           \/ \E d \in Drivers : AssignDriverToTrip(t, d)
           \/ CancelTrip(t)
    PROVE  Quiet
<1> USE TypeFacts
<1>0. t[1] \in Reservations /\ DOMAIN trips[t] = DOMAIN NoTrip
  BY TripShape DEF TripRowOK
<1>1. ASSUME NEW v \in Vehicles, AssignVehicleToTrip(t, v) PROVE Quiet
  <2> DEFINE row == [trips[t] EXCEPT !.vehicle = v]
  <2>1. trips' = [trips EXCEPT ![t] = row] /\ trips[t].status = "scheduled"
    BY <1>1 DEF AssignVehicleToTrip
  <2>2. row.status = "scheduled"
    BY <1>0, <2>1 DEF NoTrip
  <2>3. res' = Recomputed(res, trips', {t[1]})
    BY <1>1 DEF AssignVehicleToTrip
  <2> HIDE DEF row
  <2>4. ASSUME NEW q \in Reservations, res[q].status \in Underway \/ res'[q].status \in Underway
        PROVE  res'[q].status = res[q].status
    BY <2>3, <2>4, RecomputedQuiet
  <2> QED BY <2>1, <2>2, <2>4, OneLegQuiet
<1>2. ASSUME NEW d \in Drivers, AssignDriverToTrip(t, d) PROVE Quiet
  <2> DEFINE row == [trips[t] EXCEPT !.driver = d]
  <2>1. trips' = [trips EXCEPT ![t] = row] /\ trips[t].status = "scheduled"
    BY <1>2 DEF AssignDriverToTrip
  <2>2. row.status = "scheduled"
    BY <1>0, <2>1 DEF NoTrip
  <2>3. res' = Recomputed(res, trips', {t[1]})
    BY <1>2 DEF AssignDriverToTrip
  <2> HIDE DEF row
  <2>4. ASSUME NEW q \in Reservations, res[q].status \in Underway \/ res'[q].status \in Underway
        PROVE  res'[q].status = res[q].status
    BY <2>3, <2>4, RecomputedQuiet
  <2> QED BY <2>1, <2>2, <2>4, OneLegQuiet
<1>3. CASE CancelTrip(t)
  <2> DEFINE row == [trips[t] EXCEPT !.status = "cancelled", !.group = None]
  <2>1. trips' = [trips EXCEPT ![t] = row] /\ trips[t].status = "scheduled"
    BY <1>3 DEF CancelTrip, TypeOK
  <2>2. row.status = "cancelled"
    BY <1>0 DEF NoTrip
  <2> HIDE DEF row
  <2>3. CASE LiveLegs(trips', t[1]) = {}
    <3>1. res' = [res EXCEPT ![t[1]].status = "cancelled"]
      BY <1>3, <2>3 DEF CancelTrip
    <3>2. \A u \in LegsOf(t[1]) : trips[u].status \notin HasLeft
      <4> SUFFICES ASSUME NEW u \in LegsOf(t[1]), trips[u].status \in HasLeft PROVE FALSE
        OBVIOUS
      <4>1. u \in Trips /\ u # t
        BY <1>0, <2>1, LegsShape DEF HasLeft
      <4>2. trips'[u] = trips[u]
        BY <2>1, <4>1 DEF TypeOK
      <4> QED BY <2>3, <4>2 DEF LiveLegs, HasLeft
    <3>3. res[t[1]].status \notin Underway
      BY <1>0, <3>2 DEF JourneyInv, UnderwayHasDeparted
    <3>4. res'[t[1]].status = "cancelled" /\ \A q \in Reservations \ {t[1]} : res'[q] = res[q]
      BY <1>0, <3>1 DEF Rows, ReservationRow
    <3>5. \A q \in Reservations : (res[q].status \in Underway \/ res'[q].status \in Underway) =>
              res'[q].status = res[q].status
      BY <3>3, <3>4 DEF Underway
    <3> QED BY <2>1, <2>2, <3>5, OneLegQuiet
  <2>4. CASE LiveLegs(trips', t[1]) # {}
    <3>1. res' = Recomputed(res, trips', {t[1]})
      BY <1>3, <2>4 DEF CancelTrip
    <3>2. ASSUME NEW q \in Reservations, res[q].status \in Underway \/ res'[q].status \in Underway
          PROVE  res'[q].status = res[q].status
      BY <3>1, <3>2, RecomputedQuiet
    <3> QED BY <2>1, <2>2, <3>2, OneLegQuiet
  <2> QED BY <2>3, <2>4
<1> QED BY <1>1, <1>2, <1>3

LEMMA IdleRequestQuiet ==
    ASSUME JourneyInv, VehicleRequest \/ UNCHANGED vars
    PROVE  Quiet
<1>1. UNCHANGED <<res, trips>>
  BY DEF VehicleRequest, UpdateVehicle, AllocateVehicle, ReturnVehicle, vars
<1> QED BY <1>1 DEF Quiet, JourneyInv, ReturnHasOutbound

-----------------------------------------------------------------------------
(* The three steps that are not quiet: a leg leaves, comes back, is closed *)

(* The status of one leg moves from "old" to "new", neither of which is
   "absent", and its reservation gets the status "file". *)
LegMoves(t, old, new, file) ==
    /\ trips[t].status = old
    /\ trips' = [trips EXCEPT ![t].status = new]
    /\ res' = [res EXCEPT ![t[1]].status = file]

LEMMA LegMovesEffect ==
    ASSUME TypeOK, NEW t \in Trips, NEW old, NEW new, NEW file, LegMoves(t, old, new, file)
    PROVE  /\ t[1] \in Reservations /\ t \in LegsOf(t[1])
           /\ trips'[t].status = new
           /\ \A u \in Trips : u # t => trips'[u] = trips[u]
           /\ \A u \in Trips : /\ trips'[u].vehicle = trips[u].vehicle
                               /\ trips'[u].driver = trips[u].driver
                               /\ trips'[u].dep = trips[u].dep /\ trips'[u].arr = trips[u].arr
           /\ res'[t[1]].status = file
           /\ \A q \in Reservations : q # t[1] => res'[q] = res[q]
           /\ \A q \in Reservations : res'[q].needs_driver = res[q].needs_driver
<1>1. t[1] \in Reservations /\ t \in LegsOf(t[1])
  BY TripShape DEF LegsOf
<1>2. \A u \in Trips : DOMAIN trips[u] = DOMAIN NoTrip
  BY DEF TypeOK, TripRowOK
<1>3. \A q \in Reservations : res[q] \in ReservationRow
  BY DEF TypeOK
<1>4. \A u \in Trips : u # t => trips'[u] = trips[u]
  BY DEF LegMoves, TypeOK
<1>5. trips'[t] = [trips[t] EXCEPT !.status = new]
  BY DEF LegMoves, TypeOK
<1>6. /\ trips'[t].status = new
      /\ trips'[t].vehicle = trips[t].vehicle /\ trips'[t].driver = trips[t].driver
      /\ trips'[t].dep = trips[t].dep /\ trips'[t].arr = trips[t].arr
  BY <1>2, <1>5 DEF NoTrip
<1>7. res'[t[1]].status = file /\ \A q \in Reservations : q # t[1] => res'[q] = res[q]
  BY <1>1, <1>3 DEF LegMoves, TypeOK, ReservationRow
<1>8. res'[t[1]] = [res[t[1]] EXCEPT !.status = file]
  BY <1>1 DEF LegMoves, TypeOK
<1>9. res'[t[1]].needs_driver = res[t[1]].needs_driver
  BY <1>1, <1>3, <1>8 DEF ReservationRow
<1> QED BY <1>1, <1>4, <1>6, <1>7, <1>9

(* What a leg that moves forward keeps of the invariant by itself. *)
LEMMA LegMovesJourney ==
    ASSUME TypeOK, JourneyInv, NEW t \in Trips, NEW old, NEW new, NEW file,
           LegMoves(t, old, new, file), old # "absent", new \in HasLeft, file \in Underway
    PROVE  ReturnHasOutbound' /\ DepartedMeansUnderway' /\ UnderwayHasDeparted'
<1> USE LegMovesEffect
<1>1. ReturnHasOutbound'
  <2> SUFFICES ASSUME NEW q \in Reservations
               PROVE  trips'[<<q, "return">>].status # "absent"
                        => trips'[<<q, "outbound">>].status # "absent"
    BY DEF ReturnHasOutbound
  <2>1. <<q, "outbound">> \in Trips /\ <<q, "return">> \in Trips
    BY LegsShape DEF OutboundOf
  <2>2. \A u \in Trips : trips'[u].status = "absent" <=> trips[u].status = "absent"
    BY DEF LegMoves, HasLeft
  <2> QED BY <2>1, <2>2 DEF JourneyInv, ReturnHasOutbound
<1>2. DepartedMeansUnderway'
  <2> SUFFICES ASSUME NEW u \in Trips, trips'[u].status \in HasLeft
               PROVE  res'[u[1]].status \in Underway
    BY DEF DepartedMeansUnderway, Underway
  <2>1. CASE u[1] = t[1]
    BY <2>1
  <2>2. CASE u[1] # t[1]
    <3>1. trips[u].status \in HasLeft /\ u[1] \in Reservations
      BY <2>2, TripShape
    <3> QED BY <2>2, <3>1 DEF JourneyInv, DepartedMeansUnderway, Underway
  <2> QED BY <2>1, <2>2
<1>3. UnderwayHasDeparted'
  <2> SUFFICES ASSUME NEW q \in Reservations, res'[q].status \in Underway
               PROVE  \E u \in LegsOf(q) : trips'[u].status \in HasLeft
    BY DEF UnderwayHasDeparted
  <2>1. CASE q = t[1]
    BY <2>1
  <2>2. CASE q # t[1]
    <3>1. PICK u \in LegsOf(q) : trips[u].status \in HasLeft
      BY <2>2 DEF JourneyInv, UnderwayHasDeparted
    <3>2. u \in Trips /\ u # t
      BY <2>2, LegsShape DEF LegsOf
    <3> QED BY <3>1, <3>2
  <2> QED BY <2>1, <2>2
<1> QED BY <1>1, <1>2, <1>3

LEMMA DepartureMoves ==
    ASSUME TypeOK, JourneyInv, NEW t \in Trips, StartTrip(t)
    PROVE  LegMoves(t, "scheduled", "in_progress", "in_progress")
BY DEF StartTrip, LegMoves

LEMMA DepartureKeepsJourney ==
    ASSUME TypeOK, JourneyInv, NEW t \in Trips, StartTrip(t)
    PROVE  JourneyInv'
<1>0. LegMoves(t, "scheduled", "in_progress", "in_progress")
  BY DepartureMoves
<1> USE <1>0, LegMovesEffect
<1>1. ReturnHasOutbound' /\ DepartedMeansUnderway' /\ UnderwayHasDeparted'
  BY LegMovesJourney DEF HasLeft, Underway
<1>2. ReturnAfterOutbound'
  <2> SUFFICES ASSUME NEW r \in Reservations, trips'[<<r, "return">>].status \in HasLeft
               PROVE  trips'[<<r, "outbound">>].status \in BackIn
    BY DEF ReturnAfterOutbound
  <2>1. <<r, "return">> \in Trips /\ <<r, "outbound">> \in Trips
    BY LegsShape DEF OutboundOf
  <2>2. trips[<<r, "outbound">>].status \in BackIn
    <3>1. CASE t = <<r, "return">>
      <4>1. trips[<<r, "outbound">>].status # "absent"
        BY <3>1 DEF JourneyInv, ReturnHasOutbound, LegMoves
      <4> QED BY <3>1, <4>1 DEF StartTrip, OutboundBack, OutboundOf
    <3>2. CASE t # <<r, "return">>
      BY <2>1, <3>2 DEF JourneyInv, ReturnAfterOutbound
    <3> QED BY <3>1, <3>2
  <2>3. t # <<r, "outbound">>
    BY <2>2 DEF LegMoves, BackIn
  <2> QED BY <2>1, <2>2, <2>3
<1>4. FilesFollowLegs'
  <2> SUFFICES ASSUME NEW r \in Reservations, res'[r].status \in {"completed", "closed"}
               PROVE  res'[r] = res[r] /\ \A u \in LegsOf(r) : trips'[u] = trips[u]
    BY LegsShape DEF JourneyInv, FilesFollowLegs
  <2>1. r # t[1]
    OBVIOUS
  <2> QED BY <2>1, LegsShape DEF LegsOf
<1> QED BY <1>1, <1>2, <1>4 DEF JourneyInv

(* The leg that moves is there: the question whether the legs are all in is
   about each of those that exist. *)
LEMMA LastLeg ==
    ASSUME TypeOK, JourneyInv, NEW t \in Trips, EndTrip(t) \/ CloseTrip(t)
    PROVE  /\ t[1] \in Reservations /\ t \in LegsOf(t[1]) /\ LegsOf(t[1]) \subseteq Trips
           /\ \A u \in Trips \ {t} : trips'[u] = trips[u]
           /\ \A u \in Trips : (trips'[u].status = "absent" <=> trips[u].status = "absent")
           /\ res[t[1]].status \in Underway
           /\ res = [res EXCEPT ![t[1]].status = res[t[1]].status]
           /\ AllLegsIn(trips', t[1], BackIn) <=>
                 \A u \in LegsOf(t[1]) : trips'[u].status \in BackIn \cup {"absent"}
           /\ AllLegsIn(trips', t[1], {"closed"}) <=>
                 \A u \in LegsOf(t[1]) : trips'[u].status \in {"closed", "absent"}
<1>0. t[1] \in Reservations /\ t \in LegsOf(t[1]) /\ LegsOf(t[1]) \subseteq Trips
  BY TripShape, LegsShape DEF LegsOf
<1>1. /\ trips[t].status \in HasLeft
      /\ \A u \in Trips : (trips'[u].status = "absent" <=> trips[u].status = "absent")
      /\ \A u \in Trips \ {t} : trips'[u] = trips[u]
  BY DEF EndTrip, CloseTrip, HasLeft, TypeOK, TripRowOK, NoTrip
<1>2. res[t[1]].status \in Underway
  BY <1>1 DEF JourneyInv, DepartedMeansUnderway, Underway
<1>3. trips'[t].status # "absent"
  BY <1>1 DEF HasLeft
<1>4. /\ AllLegsIn(trips', t[1], BackIn) <=>
            \A u \in LegsOf(t[1]) : trips'[u].status \in BackIn \cup {"absent"}
      /\ AllLegsIn(trips', t[1], {"closed"}) <=>
            \A u \in LegsOf(t[1]) : trips'[u].status \in {"closed", "absent"}
  BY <1>0, <1>3 DEF AllLegsIn
<1>5. res = [res EXCEPT ![t[1]].status = res[t[1]].status]
  BY <1>0 DEF TypeOK, ReservationRow
<1> QED BY <1>0, <1>1, <1>2, <1>4, <1>5

(* When the leg that moves is the last one, the reservation follows. *)
LEMMA ArrivalMoves ==
    ASSUME TypeOK, JourneyInv, NEW t \in Trips
    PROVE  /\ EndTrip(t) => LegMoves(t, "in_progress", "returned",
                 IF \A u \in LegsOf(t[1]) : trips'[u].status \in BackIn \cup {"absent"}
                 THEN "completed" ELSE "in_progress")
           /\ CloseTrip(t) => LegMoves(t, "returned", "closed",
                 IF \A u \in LegsOf(t[1]) : trips'[u].status \in {"closed", "absent"}
                 THEN "closed" ELSE res[t[1]].status)
<1>1. ASSUME EndTrip(t)
      PROVE  LegMoves(t, "in_progress", "returned",
                 IF \A u \in LegsOf(t[1]) : trips'[u].status \in BackIn \cup {"absent"}
                 THEN "completed" ELSE "in_progress")
  <2> USE <1>1, LastLeg
  <2>1. CASE AllLegsIn(trips', t[1], BackIn)
    BY <2>1 DEF EndTrip, LegMoves
  <2>2. CASE ~AllLegsIn(trips', t[1], BackIn)
    <3>1. trips[t].status = "in_progress"
      BY DEF EndTrip
    <3>2. res[t[1]].status = "in_progress"
      <4>1. t[1] \in Reservations /\ t \in LegsOf(t[1]) /\ res[t[1]].status \in Underway
        OBVIOUS
      <4> QED BY <3>1, <4>1 DEF JourneyInv, FilesFollowLegs, BackIn, Underway
    <3>3. res' = res
      BY <2>2 DEF EndTrip
    <3>4. trips' = [trips EXCEPT ![t].status = "returned"]
      BY DEF EndTrip
    <3>5. res' = [res EXCEPT ![t[1]].status = "in_progress"]
      BY <3>2, <3>3
    <3>6. ~\A u \in LegsOf(t[1]) : trips'[u].status \in BackIn \cup {"absent"}
      BY <2>2
    <3> QED BY <3>1, <3>4, <3>5, <3>6 DEF LegMoves
  <2> QED BY <2>1, <2>2
<1>2. ASSUME CloseTrip(t)
      PROVE  LegMoves(t, "returned", "closed",
                 IF \A u \in LegsOf(t[1]) : trips'[u].status \in {"closed", "absent"}
                 THEN "closed" ELSE res[t[1]].status)
  <2> USE <1>2, LastLeg
  <2>1. AllLegsIn(trips', t[1], {"closed"}) <=> \A u \in LegsOf(t[1]) : trips'[u].status \in {"closed", "absent"}
    OBVIOUS
  <2>2. trips[t].status = "returned" /\ trips' = [trips EXCEPT ![t].status = "closed"]
    BY DEF CloseTrip
  <2>3. res' = IF AllLegsIn(trips', t[1], {"closed"})
               THEN [res EXCEPT ![t[1]].status = "closed"] ELSE res
    BY DEF CloseTrip
  <2> QED BY <2>1, <2>2, <2>3 DEF LegMoves
<1> QED BY <1>1, <1>2

LEMMA ArrivalFile ==
    ASSUME TypeOK, JourneyInv, NEW t \in Trips, EndTrip(t) \/ CloseTrip(t)
    PROVE  \E file \in Underway :
             /\ \/ LegMoves(t, "in_progress", "returned", file)
                \/ LegMoves(t, "returned", "closed", file)
             /\ file = "completed" => \A u \in LegsOf(t[1]) : trips'[u].status \in BackIn \cup {"absent"}
             /\ file = "closed" => \A u \in LegsOf(t[1]) : trips'[u].status \in {"closed", "absent"}
<1> USE LastLeg
<1>1. CASE EndTrip(t)
  <2> DEFINE allIn == \A u \in LegsOf(t[1]) : trips'[u].status \in BackIn \cup {"absent"}
             file == IF allIn THEN "completed" ELSE "in_progress"
  <2>1. LegMoves(t, "in_progress", "returned", file)
    BY <1>1, ArrivalMoves
  <2>2. file \in Underway /\ (file = "completed" => allIn) /\ file # "closed"
    BY DEF Underway
  <2> HIDE DEF file
  <2> QED BY <2>1, <2>2
<1>2. CASE CloseTrip(t)
  <2> DEFINE allIn == \A u \in LegsOf(t[1]) : trips'[u].status \in {"closed", "absent"}
             file == IF allIn THEN "closed" ELSE res[t[1]].status
  <2>1. LegMoves(t, "returned", "closed", file)
    BY <1>2, ArrivalMoves
  <2>2. trips[t].status = "returned" /\ trips'[t].status = "closed"
    <3> HIDE DEF file
    <3>1. trips'[t].status = "closed"
      BY <2>1, LegMovesEffect
    <3> QED BY <1>2, <3>1 DEF CloseTrip
  <2>3. res[t[1]].status # "closed"
    BY <2>2 DEF JourneyInv, FilesFollowLegs
  <2>4. res[t[1]].status = "completed" => \A u \in LegsOf(t[1]) : trips'[u].status \in BackIn \cup {"absent"}
    BY <2>2 DEF JourneyInv, FilesFollowLegs, BackIn
  <2>5. /\ file \in Underway
        /\ file = "closed" => allIn
        /\ file = "completed" => \A u \in LegsOf(t[1]) : trips'[u].status \in BackIn \cup {"absent"}
    BY <2>3, <2>4 DEF Underway
  <2> HIDE DEF file
  <2> QED BY <2>1, <2>5
<1> QED BY <1>1, <1>2

LEMMA ArrivalKeepsJourney ==
    ASSUME TypeOK, JourneyInv, NEW t \in Trips, EndTrip(t) \/ CloseTrip(t)
    PROVE  JourneyInv'
<1> PICK file \in Underway :
      /\ \/ LegMoves(t, "in_progress", "returned", file)
         \/ LegMoves(t, "returned", "closed", file)
      /\ file = "completed" => \A u \in LegsOf(t[1]) : trips'[u].status \in BackIn \cup {"absent"}
      /\ file = "closed" => \A u \in LegsOf(t[1]) : trips'[u].status \in {"closed", "absent"}
  BY ArrivalFile
<1>0. PICK old \in {"in_progress", "returned"}, new \in BackIn : LegMoves(t, old, new, file)
  BY DEF BackIn
<1> USE <1>0, LegMovesEffect
<1>1. ReturnHasOutbound' /\ DepartedMeansUnderway' /\ UnderwayHasDeparted'
  BY LegMovesJourney DEF HasLeft, BackIn
<1>2. ASSUME NEW u \in Trips, trips'[u].status \in HasLeft PROVE trips[u].status \in HasLeft
  BY <1>2 DEF LegMoves, HasLeft
<1>3. ReturnAfterOutbound'
  <2> SUFFICES ASSUME NEW r \in Reservations, trips'[<<r, "return">>].status \in HasLeft
               PROVE  trips'[<<r, "outbound">>].status \in BackIn
    BY DEF ReturnAfterOutbound
  <2>1. <<r, "return">> \in Trips /\ <<r, "outbound">> \in Trips
    BY LegsShape DEF OutboundOf
  <2>2. trips[<<r, "outbound">>].status \in BackIn
    BY <1>2, <2>1 DEF JourneyInv, ReturnAfterOutbound
  <2> QED BY <2>1, <2>2
<1>5. FilesFollowLegs'
  <2> SUFFICES ASSUME NEW r \in Reservations
               PROVE  /\ res'[r].status = "completed" => \A u \in LegsOf(r) : trips'[u].status \in BackIn \cup {"absent"}
                      /\ res'[r].status = "closed" => \A u \in LegsOf(r) : trips'[u].status \in {"closed", "absent"}
    BY DEF FilesFollowLegs
  <2>1. CASE r = t[1]
    BY <2>1
  <2>2. CASE r # t[1]
    <3>1. \A u \in LegsOf(r) : trips'[u] = trips[u]
      BY <2>2, LegsShape DEF LegsOf
    <3> QED BY <2>2, <3>1 DEF JourneyInv, FilesFollowLegs
  <2> QED BY <2>1, <2>2
<1> QED BY <1>1, <1>3, <1>5 DEF JourneyInv

-----------------------------------------------------------------------------
(* The journey, for every request *)

LEMMA StepSplit ==
    ASSUME TypeOK, JourneyInv, [Next]_vars
    PROVE  \/ Quiet
           \/ \E t \in Trips : StartTrip(t) \/ EndTrip(t) \/ CloseTrip(t)
<1>1. ASSUME NEW r \in Reservations,
             ReservationRequest(r) \/ \E form \in Forms : EditReservation(r, form)
      PROVE  Quiet
  BY <1>1, ReservationRequestQuiet
<1>2. Editable \subseteq Reservations
  BY TransportAssumption
<1>3. ASSUME NEW t \in Trips, TripRequest(t)
      PROVE  Quiet \/ StartTrip(t) \/ EndTrip(t) \/ CloseTrip(t)
  BY <1>3, TripRequestQuiet DEF TripRequest
<1>4. CASE VehicleRequest \/ UNCHANGED vars
  BY <1>4, IdleRequestQuiet
<1> QED BY <1>1, <1>2, <1>3, <1>4 DEF Next

LEMMA InitJourney == Init => JourneyInv
<1> SUFFICES ASSUME Init PROVE JourneyInv
  OBVIOUS
<1> PICK portfolio \in Portfolios :
        /\ res = [r \in Reservations |-> RowOf(r, FirstStatus(r, portfolio))]
        /\ trips = [t \in Trips |-> FirstTrip(t, portfolio)]
  BY DEF Init
<1>1. \A t \in Trips : trips[t].status \in {"scheduled", "absent"}
  BY DEF FirstTrip, NoTrip
<1>2. \A r \in Reservations : res[r].status \notin Underway
  BY DEF RowOf, FirstStatus, Underway
<1>3. \A t \in Trips : trips[t].status \notin HasLeft
  BY <1>1 DEF HasLeft
<1>4. \A r \in Reservations : <<r, "outbound">> \in Trips /\ <<r, "return">> \in Trips
  BY LegsShape DEF OutboundOf
<1>5. ReturnHasOutbound
  BY <1>4 DEF ReturnHasOutbound, FirstTrip, NoTrip, Wanted
<1>6. ReturnAfterOutbound
  BY <1>3, <1>4 DEF ReturnAfterOutbound
<1> QED BY <1>2, <1>3, <1>5, <1>6
        DEF JourneyInv, DepartedMeansUnderway, FilesFollowLegs, UnderwayHasDeparted, Underway

LEMMA NextJourney == TypeOK /\ JourneyInv /\ [Next]_vars => JourneyInv'
BY StepSplit, QuietKeepsJourney, DepartureKeepsJourney, ArrivalKeepsJourney

(* The journey invariant holds after every sequence of requests. *)
LEMMA JourneyCorrect == Spec => [](TypeOK /\ JourneyInv)
<1>1. Init => TypeOK /\ JourneyInv
  BY InitType, InitJourney
<1>2. TypeOK /\ JourneyInv /\ [Next]_vars => (TypeOK /\ JourneyInv)'
  BY NextType, NextJourney
<1> QED BY <1>1, <1>2, PTL DEF Spec

(* The return leg of a round trip never leaves before the outbound leg is
   back, for any number of reservations and any order of requests. *)
THEOREM ReturnsWait == Spec => []ReturnAfterOutbound
BY JourneyCorrect, PTL DEF JourneyInv

(* A reservation with a leg that has left is never handed back to the statuses
   under which it may be cancelled, moved or assigned again. *)
THEOREM DepartedUnderway == Spec => []DepartedMeansUnderway
BY JourneyCorrect, PTL DEF JourneyInv

(* A completed reservation has all its legs back, a closed one all closed. *)
THEOREM CompletionSound == Spec => []CompletionMatchesLegs
BY JourneyCorrect, CompletionFromLegs, PTL

LEMMA StepFrozen ==
    ASSUME TypeOK, JourneyInv, [Next]_vars
    PROVE  \A t \in Trips : trips[t].status \in HasLeft =>
             /\ trips'[t].status \in HasLeft
             /\ trips'[t].vehicle = trips[t].vehicle /\ trips'[t].driver = trips[t].driver
             /\ trips'[t].dep = trips[t].dep /\ trips'[t].arr = trips[t].arr
<1> DEFINE Frozen ==
      \A t \in Trips : trips[t].status \in HasLeft =>
        /\ trips'[t].status \in HasLeft
        /\ trips'[t].vehicle = trips[t].vehicle /\ trips'[t].driver = trips[t].driver
        /\ trips'[t].dep = trips[t].dep /\ trips'[t].arr = trips[t].arr
<1>1. CASE Quiet
  BY <1>1 DEF Quiet
<1>2. ASSUME NEW t \in Trips, NEW old, NEW file, NEW new \in HasLeft,
             LegMoves(t, old, new, file)
      PROVE  Frozen
  BY <1>2, LegMovesEffect
<1>3. ASSUME NEW t \in Trips, StartTrip(t) PROVE Frozen
  BY <1>2, <1>3, DepartureMoves DEF HasLeft
<1>4. ASSUME NEW t \in Trips, EndTrip(t) \/ CloseTrip(t) PROVE Frozen
  BY <1>2, <1>4, ArrivalFile DEF HasLeft
<1> QED BY <1>1, <1>3, <1>4, StepSplit

(* No request rewrites the vehicle, the driver or the window of a trip that has
   left, nor takes it back to before its departure. *)
THEOREM DepartedFrozen == Spec => DepartedTripsFrozen
<1>1. TypeOK /\ JourneyInv /\ [Next]_vars =>
        [\A t \in Trips : trips[t].status \in HasLeft =>
           /\ trips'[t].status \in HasLeft
           /\ trips'[t].vehicle = trips[t].vehicle /\ trips'[t].driver = trips[t].driver
           /\ trips'[t].dep = trips[t].dep /\ trips'[t].arr = trips[t].arr]_vars
  BY StepFrozen
<1> QED BY <1>1, JourneyCorrect, PTL DEF Spec, DepartedTripsFrozen

-----------------------------------------------------------------------------
(* Transport implements Journey: the initial states map to initial states and
   every request maps to a step of the journey or to a rearrangement of legs
   that have not left. *)

LEMMA Mapping ==
    /\ Promise!Movable = {"absent", "scheduled", "cancelled"}
    /\ Promise!Back = BackIn
BY DEF Promise!Movable, Promise!Back, BackIn

LEMMA InitPromise == Init => Promise!Init
<1> SUFFICES ASSUME Init PROVE Promise!Init
  OBVIOUS
<1> PICK portfolio \in Portfolios :
        /\ res = [r \in Reservations |-> RowOf(r, FirstStatus(r, portfolio))]
        /\ trips = [t \in Trips |-> FirstTrip(t, portfolio)]
  BY DEF Init
<1>1. \A t \in Trips : LegStatus[t] \in {"absent", "scheduled"}
  BY DEF FirstTrip, NoTrip, LegStatus
<1>2. \A r \in Reservations : FileStatus[r] = "open"
  BY DEF RowOf, FirstStatus, FileStatus, FileOf
<1> QED BY <1>1, <1>2 DEF Promise!Init

LEMMA FileOfUnderway ==
    /\ \A s : s \notin Underway => FileOf(s) = "open"
    /\ FileOf("in_progress") = "underway"
    /\ FileOf("completed") = "done"
    /\ FileOf("closed") = "closed"
BY DEF FileOf, Underway

LEMMA QuietRearranges ==
    ASSUME TypeOK, TypeOK', JourneyInv, Quiet
    PROVE  Promise!Rearrange
<1>1. FileStatus' = FileStatus
  <2> SUFFICES ASSUME NEW r \in Reservations PROVE FileOf(res'[r].status) = FileOf(res[r].status)
    BY DEF FileStatus
  <2>1. CASE res[r].status \in Underway \/ res'[r].status \in Underway
    BY <2>1 DEF Quiet
  <2>2. CASE ~(res[r].status \in Underway \/ res'[r].status \in Underway)
    BY <2>2, FileOfUnderway
  <2> QED BY <2>1, <2>2
<1>2. DOMAIN LegStatus' = Trips
  BY DEF LegStatus
<1>3. ASSUME NEW t \in Trips
      PROVE  IF LegStatus[t] \in Promise!Movable
             THEN /\ LegStatus'[t] \in Promise!Movable
                  /\ LegStatus[t] = "cancelled" => LegStatus'[t] # "scheduled"
             ELSE LegStatus'[t] = LegStatus[t] /\ LegPlan'[t] = LegPlan[t]
  <2>1. trips[t].status \in TripStatus /\ trips'[t].status \in TripStatus
    BY DEF TypeOK, TripRowOK
  <2>2. LegStatus[t] = trips[t].status /\ LegStatus'[t] = trips'[t].status
    BY DEF LegStatus
  <2>3. CASE trips[t].status \in HasLeft
    <3>1. trips'[t].status = trips[t].status /\ LegPlan'[t] = LegPlan[t]
      BY <2>3 DEF Quiet, LegPlan
    <3> QED BY <2>2, <2>3, <3>1 DEF Promise!Movable, HasLeft
  <2>4. CASE trips[t].status \notin HasLeft
    BY <2>1, <2>2, <2>4 DEF Quiet, Promise!Movable, HasLeft, TripStatus
  <2> QED BY <2>3, <2>4
<1>4. ASSUME NEW t \in Trips, FileStatus[t[1]] # "open"
      PROVE  LegStatus[t] = "absent" <=> LegStatus'[t] = "absent"
  <2>1. t[1] \in Reservations /\ t \in LegsOf(t[1])
    BY TripShape DEF LegsOf
  <2>2. res[t[1]].status \in Underway
    BY <1>4, <2>1, FileOfUnderway DEF FileStatus
  <2> QED BY <2>1, <2>2 DEF Quiet, LegStatus
<1> QED BY <1>1, <1>2, <1>3, <1>4 DEF Promise!Rearrange

(* A leg that moves, seen from the journey. *)
LEMMA LegMovesSeen ==
    ASSUME TypeOK, NEW t \in Trips, NEW old, NEW new, NEW file, LegMoves(t, old, new, file)
    PROVE  /\ LegStatus[t] = old
           /\ LegStatus' = [LegStatus EXCEPT ![t] = new]
           /\ FileStatus' = [FileStatus EXCEPT ![t[1]] = FileOf(file)]
           /\ LegPlan' = LegPlan /\ DriverNeeded' = DriverNeeded
<1>0. t[1] \in Reservations
  BY TripShape
<1>1. LegStatus[t] = old
  BY DEF LegMoves, LegStatus
<1>2. LegStatus' = [LegStatus EXCEPT ![t] = new]
  <2>1. \A u \in Trips : trips'[u].status = IF u = t THEN new ELSE trips[u].status
    <3>1. trips'[t].status = new /\ \A u \in Trips : u # t => trips'[u] = trips[u]
      BY LegMovesEffect
    <3> QED BY <3>1
  <2> QED BY <2>1 DEF LegStatus
<1>3. \A r \in Reservations : FileOf(res'[r].status) = IF r = t[1] THEN FileOf(file) ELSE FileOf(res[r].status)
  <2>1. res'[t[1]].status = file /\ \A r \in Reservations : r # t[1] => res'[r] = res[r]
    BY LegMovesEffect
  <2> QED BY <2>1
<1>4. FileStatus' = [FileStatus EXCEPT ![t[1]] = FileOf(file)]
  <2>1. FileStatus' = [r \in Reservations |-> FileOf(res'[r].status)]
    BY DEF FileStatus
  <2>2. [FileStatus EXCEPT ![t[1]] = FileOf(file)]
          = [r \in Reservations |-> IF r = t[1] THEN FileOf(file) ELSE FileOf(res[r].status)]
    BY DEF FileStatus
  <2> QED BY <1>3, <2>1, <2>2
<1>5. \A u \in Trips :
        /\ trips'[u].vehicle = trips[u].vehicle /\ trips'[u].driver = trips[u].driver
        /\ trips'[u].dep = trips[u].dep /\ trips'[u].arr = trips[u].arr
  BY LegMovesEffect
<1>6. LegPlan' = LegPlan
  BY <1>5 DEF LegPlan
<1>7. DriverNeeded' = DriverNeeded
  <2>1. \A q \in Reservations : res'[q].needs_driver = res[q].needs_driver
    BY LegMovesEffect
  <2> QED BY <2>1 DEF DriverNeeded
<1> QED BY <1>1, <1>2, <1>4, <1>6, <1>7

LEMMA DepartureImplemented ==
    ASSUME TypeOK, JourneyInv, NEW t \in Trips, StartTrip(t)
    PROVE  Promise!Depart(t)
<1>1. /\ LegStatus[t] = "scheduled"
      /\ LegStatus' = [LegStatus EXCEPT ![t] = "in_progress"]
      /\ FileStatus' = [FileStatus EXCEPT ![t[1]] = "underway"]
      /\ LegPlan' = LegPlan /\ DriverNeeded' = DriverNeeded
  BY DepartureMoves, LegMovesSeen, FileOfUnderway
<1>2. LegPlan[t].vehicle # None /\ (t[1] \in DriverNeeded => LegPlan[t].driver # None)
  BY DEF LegPlan, StartTrip, DriverNeeded
<1>3. t[2] = "return" => LegStatus[<<t[1], "outbound">>] \in Promise!Back
  <2> SUFFICES ASSUME t[2] = "return"
               PROVE  trips[<<t[1], "outbound">>].status \in BackIn /\ <<t[1], "outbound">> \in Trips
    BY Mapping DEF LegStatus
  <2>1. t[1] \in Reservations /\ t = <<t[1], "return">> /\ <<t[1], "outbound">> \in Trips
    BY TripShape, LegsShape DEF OutboundOf
  <2>2. trips[t].status = "scheduled"
    BY DEF StartTrip
  <2>3. trips[<<t[1], "outbound">>].status # "absent"
    BY <2>1, <2>2 DEF JourneyInv, ReturnHasOutbound
  <2> QED BY <2>1, <2>3 DEF StartTrip, OutboundBack, OutboundOf
<1> QED BY <1>1, <1>2, <1>3 DEF Promise!Depart

LEMMA ArrivalImplemented ==
    ASSUME TypeOK, JourneyInv, NEW t \in Trips, EndTrip(t)
    PROVE  Promise!Arrive(t)
<1> DEFINE after == [LegStatus EXCEPT ![t] = "returned"]
           allIn == \A u \in LegsOf(t[1]) : trips'[u].status \in BackIn \cup {"absent"}
           file == IF allIn THEN "completed" ELSE "in_progress"
<1>1. LegMoves(t, "in_progress", "returned", file)
  BY ArrivalMoves
<1>2. file = "completed" \/ file = "in_progress"
  OBVIOUS
<1>3. allIn <=> file = "completed"
  OBVIOUS
<1>4. allIn <=> \A u \in Promise!LegsOfFile(t[1]) : LegStatus'[u] \in Promise!Back
  BY LastLeg, Mapping DEF LegStatus, LegsOf, Promise!LegsOfFile
<1>5. ~allIn => res[t[1]].status = "in_progress"
  <2>1. trips[t].status = "in_progress"
    BY DEF EndTrip
  <2>2. t[1] \in Reservations /\ t \in LegsOf(t[1]) /\ res[t[1]].status \in Underway
    BY LastLeg
  <2> QED BY <2>1, <2>2 DEF JourneyInv, FilesFollowLegs, BackIn, Underway
<1> HIDE DEF allIn, file
<1>6. /\ LegStatus[t] = "in_progress" /\ LegStatus' = after
      /\ FileStatus' = [FileStatus EXCEPT ![t[1]] = FileOf(file)]
      /\ LegPlan' = LegPlan /\ DriverNeeded' = DriverNeeded
  BY <1>1, LegMovesSeen
<1>7. FileStatus' = IF allIn THEN [FileStatus EXCEPT ![t[1]] = "done"] ELSE FileStatus
  <2>1. CASE allIn
    BY <1>3, <1>6, <2>1, FileOfUnderway
  <2>2. CASE ~allIn
    <3>1. FileStatus[t[1]] = FileOf(file) /\ t[1] \in Reservations
      BY <1>2, <1>3, <1>5, <2>2, LastLeg DEF FileStatus
    <3> QED BY <1>6, <2>2, <3>1 DEF FileStatus
  <2> QED BY <2>1, <2>2
<1> QED BY <1>4, <1>6, <1>7 DEF Promise!Arrive

LEMMA ClosingImplemented ==
    ASSUME TypeOK, JourneyInv, NEW t \in Trips, CloseTrip(t)
    PROVE  Promise!Close(t)
<1> DEFINE after == [LegStatus EXCEPT ![t] = "closed"]
           allIn == \A u \in LegsOf(t[1]) : trips'[u].status \in {"closed", "absent"}
           file == IF allIn THEN "closed" ELSE res[t[1]].status
<1>1. LegMoves(t, "returned", "closed", file)
  BY ArrivalMoves
<1>2. (allIn => file = "closed") /\ (~allIn => file = res[t[1]].status)
  OBVIOUS
<1>4. allIn <=> \A u \in Promise!LegsOfFile(t[1]) : LegStatus'[u] = "closed"
  BY LastLeg DEF LegStatus, LegsOf, Promise!LegsOfFile
<1> HIDE DEF allIn, file
<1>6. /\ LegStatus[t] = "returned" /\ LegStatus' = after
      /\ FileStatus' = [FileStatus EXCEPT ![t[1]] = FileOf(file)]
      /\ LegPlan' = LegPlan /\ DriverNeeded' = DriverNeeded
  BY <1>1, LegMovesSeen
<1>7. FileStatus' = IF allIn THEN [FileStatus EXCEPT ![t[1]] = "closed"] ELSE FileStatus
  <2>1. CASE allIn
    BY <1>2, <1>6, <2>1, FileOfUnderway
  <2>2. CASE ~allIn
    <3>1. FileStatus[t[1]] = FileOf(file) /\ t[1] \in Reservations
      BY <1>2, <2>2, LastLeg DEF FileStatus
    <3> QED BY <1>6, <2>2, <3>1 DEF FileStatus
  <2> QED BY <2>1, <2>2
<1> QED BY <1>4, <1>6, <1>7 DEF Promise!Close

LEMMA StepImplemented ==
    TypeOK /\ TypeOK' /\ JourneyInv /\ [Next]_vars => [Promise!Next]_(Promise!journey)
<1> SUFFICES ASSUME TypeOK, TypeOK', JourneyInv, [Next]_vars PROVE Promise!Next
  OBVIOUS
<1>1. CASE Quiet
  BY <1>1, QuietRearranges DEF Promise!Next
<1>2. CASE \E t \in Trips : StartTrip(t) \/ EndTrip(t) \/ CloseTrip(t)
  BY <1>2, DepartureImplemented, ArrivalImplemented, ClosingImplemented DEF Promise!Next
<1> QED BY <1>1, <1>2, StepSplit

(* Whatever the number of reservations and the order of the requests, the
   statuses of reservations and trips only ever tell an abstract journey: legs
   rearranged until they leave, then driven, returned and closed in order, the
   file following the last of them. *)
THEOREM JourneyImplemented == Spec => ImplementsJourney
<1>1. Init => Promise!Init
  BY InitPromise
<1>2. TypeOK /\ TypeOK' /\ JourneyInv /\ [Next]_vars => [Promise!Next]_(Promise!journey)
  BY StepImplemented
<1> QED BY <1>1, <1>2, JourneyCorrect, PTL DEF Spec, ImplementsJourney, Promise!JourneySpec
================================================================================
