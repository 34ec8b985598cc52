----------------------------- MODULE BookingProofs -----------------------------
(***************************************************************************)
(* The check of the time conflicts is never weaker than the constraint of  *)
(* the trips table, and no request puts a trip on a vehicle the Car Plan   *)
(* holds, for any number of reservations, vehicles, drivers and times.     *)
(***************************************************************************)
EXTENDS TransportProofs

(* What the constraints of the trips table guarantee by themselves. *)
NoDoubleBooking == DbAccepts(trips)

(* A table whose occupying trips all occupied the same resources on the same
   window before is accepted when the table before was. *)
LEMMA FewerEngagements ==
    ASSUME NEW ts, NEW new, DbAccepts(ts),
           \A t \in Trips :
              /\ WindowOrdered(new[t])
              /\ new[t].status \in Occupying =>
                    /\ ts[t].status \in Occupying
                    /\ new[t].vehicle = ts[t].vehicle /\ new[t].driver = ts[t].driver
                    /\ new[t].dep = ts[t].dep /\ new[t].arr = ts[t].arr
                    /\ new[t].group = ts[t].group
    PROVE  DbAccepts(new)
<1> SUFFICES ASSUME NEW t \in Trips, NEW u \in Trips, t # u, Clash(new[t], new[u])
             PROVE  FALSE
  BY DEF DbAccepts
<1>1. Clash(ts[t], ts[u])
  BY DEF Clash, Overlap, SameTour
<1> QED BY <1>1 DEF DbAccepts

LEMMA NoTripOrdered == WindowOrdered(NoTrip) /\ NoTrip.status \notin Occupying
BY DEF WindowOrdered, NoTrip, Occupying

LEMMA InitBooking == Init => NoDoubleBooking
<1> SUFFICES ASSUME Init PROVE NoDoubleBooking
  OBVIOUS
<1> PICK portfolio \in Portfolios : trips = [t \in Trips |-> FirstTrip(t, portfolio)]
  BY DEF Init
<1>1. ASSUME NEW t \in Trips
      PROVE  /\ WindowOrdered(trips[t])
             /\ trips[t].vehicle = None /\ trips[t].driver = None
  <2>1. CASE t[1] \notin portfolio \cap Validated
    BY <2>1, NoTripOrdered DEF FirstTrip, NoTrip
  <2>2. CASE t[1] \in portfolio \cap Validated
    <3> DEFINE r == t[1]
               row == RowOf(r, "approved")
               window == LegWindow(t, row)
    <3>1. r \in Validated /\ r \in Reservations
      BY <2>2, TransportAssumption
    <3>2. Coherent(row)
      BY <3>1, ValidatedAssumption
    <3>3. row \in ReservationRow
      BY <3>1, RowOfOK DEF ReservationStatus
    <3>4. \/ trips[t] = [NoTrip EXCEPT !.status = "scheduled", !.dep = window.dep, !.arr = window.arr]
          \/ trips[t] = NoTrip
      BY <2>2 DEF FirstTrip
    <3> HIDE DEF row
    <3>5. window.dep <= window.arr
      BY <3>2, <3>3 DEF Coherent, ReturnInside, LegWindow, ReservationRow, Times
    <3> HIDE DEF window
    <3>6. CASE trips[t] = NoTrip
      BY <3>6, NoTripOrdered DEF NoTrip
    <3>7. CASE trips[t] # NoTrip
      BY <3>4, <3>5, <3>7 DEF WindowOrdered, NoTrip
    <3> QED BY <3>6, <3>7
  <2> QED BY <2>1, <2>2
<1> QED BY <1>1 DEF NoDoubleBooking, DbAccepts, Clash

LEMMA CheckedRequests ==
    ASSUME NoDoubleBooking, NEW r \in Reservations,
           \/ \E level \in Levels : Approve(r, level)
           \/ \E v \in Vehicles : AssignVehicle(r, v)
           \/ \E d \in Drivers : AssignDriver(r, d)
           \/ \E move \in Moves : Reschedule(r, move)
           \/ \E t \in Trips : \/ \E v \in Vehicles : AssignVehicleToTrip(t, v)
                               \/ \E d \in Drivers : AssignDriverToTrip(t, d)
    PROVE  DbAccepts(trips')
BY DEF Approve, AssignVehicle, AssignDriver, Reschedule, AssignVehicleToTrip,
       AssignDriverToTrip, SavedLegByLeg

(* A status that still occupies, or does no longer, changes nothing else. *)
LEMMA MovedLegBooking ==
    ASSUME TypeOK, NoDoubleBooking, NEW t \in Trips, NEW row,
           trips' = [trips EXCEPT ![t] = row],
           row.dep = trips[t].dep /\ row.arr = trips[t].arr,
           row.status \in Occupying =>
               /\ trips[t].status \in Occupying
               /\ row.vehicle = trips[t].vehicle /\ row.driver = trips[t].driver
               /\ row.group = trips[t].group
    PROVE  NoDoubleBooking'
<1>1. \A u \in Trips : trips'[u] = IF u = t THEN row ELSE trips[u]
  BY DEF TypeOK
<1>2. \A u \in Trips : WindowOrdered(trips[u])
  BY DEF NoDoubleBooking, DbAccepts
<1>3. \A u \in Trips : WindowOrdered(trips'[u])
  BY <1>1, <1>2 DEF WindowOrdered
<1>4. DbAccepts(trips)
  BY DEF NoDoubleBooking
<1>5. DbAccepts(trips')
  BY <1>1, <1>3, <1>4, FewerEngagements
<1> QED BY <1>5 DEF NoDoubleBooking

LEMMA RunBooking ==
    ASSUME TypeOK, NoDoubleBooking, NEW t \in Trips,
           StartTrip(t) \/ EndTrip(t) \/ CloseTrip(t) \/ CancelTrip(t)
    PROVE  NoDoubleBooking'
<1>0. DOMAIN trips[t] = DOMAIN NoTrip
  BY DEF TypeOK, TripRowOK
<1>1. ASSUME NEW new \in TripStatus, trips' = [trips EXCEPT ![t].status = new],
             trips[t].status \in Occupying
      PROVE  NoDoubleBooking'
  <2> DEFINE row == [trips[t] EXCEPT !.status = new]
  <2>1. trips' = [trips EXCEPT ![t] = row]
    BY <1>1 DEF TypeOK
  <2>2. /\ row.dep = trips[t].dep /\ row.arr = trips[t].arr /\ row.group = trips[t].group
        /\ row.vehicle = trips[t].vehicle /\ row.driver = trips[t].driver
    BY <1>0 DEF NoTrip
  <2> HIDE DEF row
  <2> QED BY <1>1, <2>1, <2>2, MovedLegBooking
<1>2. CASE StartTrip(t)
  BY <1>1, <1>2 DEF StartTrip, Occupying, TripStatus
<1>3. CASE EndTrip(t)
  BY <1>1, <1>3 DEF EndTrip, Occupying, TripStatus
<1>4. CASE CloseTrip(t)
  BY <1>1, <1>4 DEF CloseTrip, Occupying, TripStatus
<1>5. CASE CancelTrip(t)
  <2> DEFINE row == [trips[t] EXCEPT !.status = "cancelled", !.group = None]
  <2>1. trips' = [trips EXCEPT ![t] = row]
    BY <1>5 DEF CancelTrip, TypeOK
  <2>2. row.dep = trips[t].dep /\ row.arr = trips[t].arr /\ row.status \notin Occupying
    BY <1>0 DEF NoTrip, Occupying
  <2> HIDE DEF row
  <2> QED BY <2>1, <2>2, MovedLegBooking
<1> QED BY <1>2, <1>3, <1>4, <1>5

LEMMA DeletionBooking ==
    ASSUME NoDoubleBooking, NEW r \in Reservations, DeleteReservation(r)
    PROVE  NoDoubleBooking'
<1>1. \A t \in Trips : trips'[t] = IF t \in LegsOf(r) THEN NoTrip ELSE trips[t]
  BY DEF DeleteReservation
<1>2. DbAccepts(trips) /\ \A t \in Trips : WindowOrdered(trips[t])
  BY DEF NoDoubleBooking, DbAccepts
<1>3. DbAccepts(trips')
  BY <1>1, <1>2, NoTripOrdered, FewerEngagements
<1> QED BY <1>3 DEF NoDoubleBooking

LEMMA NextBooking == TypeOK /\ NoDoubleBooking /\ [Next]_vars => NoDoubleBooking'
<1> SUFFICES ASSUME TypeOK, NoDoubleBooking, [Next]_vars PROVE NoDoubleBooking'
  OBVIOUS
<1>1. CASE UNCHANGED trips
  BY <1>1 DEF NoDoubleBooking, DbAccepts
<1>2. ASSUME NEW r \in Reservations, ReservationRequest(r) PROVE NoDoubleBooking'
  BY <1>1, <1>2, CheckedRequests, DeletionBooking
     DEF ReservationRequest, Submit, Reject, CancelReservation, NoDoubleBooking
<1>3. ASSUME NEW r \in Editable, NEW form \in Forms, EditReservation(r, form)
      PROVE  NoDoubleBooking'
  BY <1>1, <1>3 DEF EditReservation
<1>4. ASSUME NEW t \in Trips, TripRequest(t) PROVE NoDoubleBooking'
  <2>1. t[1] \in Reservations
    BY TripShape
  <2> QED BY <1>4, <2>1, CheckedRequests, RunBooking DEF TripRequest, NoDoubleBooking
<1>5. CASE VehicleRequest \/ UNCHANGED vars
  BY <1>1, <1>5 DEF VehicleRequest, UpdateVehicle, AllocateVehicle, ReturnVehicle, vars
<1> QED BY <1>2, <1>3, <1>4, <1>5 DEF Next

-----------------------------------------------------------------------------
(* The check made in Python against the constraint made in SQL *)

(* A trip given another vehicle, or another driver, and nothing else. *)
LEMMA CheckedAssignment ==
    ASSUME TypeOK, NoDoubleBooking, NEW t \in Trips, NEW row,
           trips[t].status = "scheduled",
           row.status = trips[t].status, row.dep = trips[t].dep, row.arr = trips[t].arr,
           row.group = trips[t].group,
           row.vehicle = trips[t].vehicle \/ TripConflicts(t, row, "vehicle") = {},
           row.driver = trips[t].driver \/ TripConflicts(t, row, "driver") = {}
    PROVE  DbAccepts([trips EXCEPT ![t] = row])
<1> DEFINE after == [trips EXCEPT ![t] = row]
<1>1. \A u \in Trips : after[u] = IF u = t THEN row ELSE trips[u]
  BY DEF TypeOK
<1>2. \A u \in Trips : WindowOrdered(trips[u])
  BY DEF NoDoubleBooking, DbAccepts
<1>3. \A u \in Trips : WindowOrdered(after[u])
  BY <1>1, <1>2 DEF WindowOrdered
<1>4. ASSUME NEW u \in Trips, u # t PROVE ~Clash(row, trips[u]) /\ ~Clash(trips[u], row)
  <2>1. ~Clash(trips[t], trips[u]) /\ ~Clash(trips[u], trips[t])
    BY <1>4 DEF NoDoubleBooking, DbAccepts
  <2>2. ASSUME trips[u].status \in Occupying, Overlap(trips[u], row), ~SameTour(trips[u], row),
               row.vehicle # trips[t].vehicle
        PROVE  trips[u].vehicle # row.vehicle
    BY <1>4, <2>2 DEF TripConflicts
  <2>3. ASSUME trips[u].status \in Occupying, Overlap(trips[u], row), ~SameTour(trips[u], row),
               row.driver # trips[t].driver
        PROVE  trips[u].driver # row.driver
    BY <1>4, <2>3 DEF TripConflicts
  <2> QED BY <2>1, <2>2, <2>3 DEF Clash, Overlap, SameTour
<1> HIDE DEF after
<1>5. ASSUME NEW x \in Trips, NEW y \in Trips, x # y PROVE ~Clash(after[x], after[y])
  <2>1. ~Clash(trips[x], trips[y])
    BY <1>5 DEF NoDoubleBooking, DbAccepts
  <2> QED BY <1>1, <1>4, <1>5, <2>1
<1>6. DbAccepts(after)
  BY <1>3, <1>5 DEF DbAccepts
<1> QED BY <1>6 DEF after

(* An assignment the time check lets through is always one the constraint
   accepts, in every reachable state: the check never errs on the wrong side. *)
THEOREM CheckMirrorsConstraint == Spec => []TripCheckMirrorsConstraint
<1>1. TypeOK /\ NoDoubleBooking => TripCheckMirrorsConstraint
  <2> SUFFICES ASSUME TypeOK, NoDoubleBooking, NEW t \in Trips, trips[t].status = "scheduled"
               PROVE  /\ \A v \in Vehicles :
                           LET row == [trips[t] EXCEPT !.vehicle = v]
                           IN TripConflicts(t, row, "vehicle") = {} =>
                                DbAccepts([trips EXCEPT ![t] = row])
                      /\ \A d \in Drivers :
                           LET row == [trips[t] EXCEPT !.driver = d]
                           IN TripConflicts(t, row, "driver") = {} =>
                                DbAccepts([trips EXCEPT ![t] = row])
    BY DEF TripCheckMirrorsConstraint
  <2>0. DOMAIN trips[t] = DOMAIN NoTrip
    BY DEF TypeOK, TripRowOK
  <2>1. ASSUME NEW v \in Vehicles, TripConflicts(t, [trips[t] EXCEPT !.vehicle = v], "vehicle") = {}
        PROVE  DbAccepts([trips EXCEPT ![t] = [trips[t] EXCEPT !.vehicle = v]])
    <3> DEFINE row == [trips[t] EXCEPT !.vehicle = v]
    <3>1. /\ row.status = trips[t].status /\ row.dep = trips[t].dep /\ row.arr = trips[t].arr
          /\ row.group = trips[t].group /\ row.driver = trips[t].driver
      BY <2>0 DEF NoTrip
    <3>2. TripConflicts(t, row, "vehicle") = {}
      BY <2>1
    <3> HIDE DEF row
    <3>3. DbAccepts([trips EXCEPT ![t] = row])
      BY <3>1, <3>2, CheckedAssignment
    <3> QED BY <3>3 DEF row
  <2>2. ASSUME NEW d \in Drivers, TripConflicts(t, [trips[t] EXCEPT !.driver = d], "driver") = {}
        PROVE  DbAccepts([trips EXCEPT ![t] = [trips[t] EXCEPT !.driver = d]])
    <3> DEFINE row == [trips[t] EXCEPT !.driver = d]
    <3>1. /\ row.status = trips[t].status /\ row.dep = trips[t].dep /\ row.arr = trips[t].arr
          /\ row.group = trips[t].group /\ row.vehicle = trips[t].vehicle
      BY <2>0 DEF NoTrip
    <3>2. TripConflicts(t, row, "driver") = {}
      BY <2>2
    <3> HIDE DEF row
    <3>3. DbAccepts([trips EXCEPT ![t] = row])
      BY <3>1, <3>2, CheckedAssignment
    <3> QED BY <3>3 DEF row
  <2> QED BY <2>1, <2>2
<1>2. Init => TypeOK /\ NoDoubleBooking
  BY InitType, InitBooking
<1>3. TypeOK /\ NoDoubleBooking /\ [Next]_vars => (TypeOK /\ NoDoubleBooking)'
  BY NextType, NextBooking
<1> QED BY <1>1, <1>2, <1>3, PTL DEF Spec

-----------------------------------------------------------------------------
(* Holds of the Car Plan *)

(* The windows of the trips are times, and a round trip that is submitted, or
   has legs, keeps its return inside its window: the hold is checked on the
   whole window of the reservation and must cover each of its legs. *)
WindowsTyped == \A t \in Trips : trips[t].dep \in Times /\ trips[t].arr \in Times

Planned(r) ==
    \/ res[r].status \notin {"draft", "cancelled", "deleted"}
    \/ trips[OutboundOf(r)].status # "absent"

RoundTripsInside ==
    \A r \in Reservations :
        Planned(r) /\ res[r].trip_type = "round_trip" => ReturnInside(res[r])

HoldInv == WindowsTyped /\ RoundTripsInside

(* What a step may not do: put a trip on a held vehicle. *)
HoldKept == \A t \in Trips : OnHeldVehicle(t)' => OnHeldVehicle(t)

(* A reservation row whose legs can be drawn. *)
Drawable(row) ==
    row \in ReservationRow /\ (row.trip_type = "round_trip" => ReturnInside(row))

LEMMA CoherentDrawable ==
    ASSUME NEW row \in ReservationRow, Coherent(row)
    PROVE  Drawable(row)
BY DEF Coherent, Drawable

LEMMA LegWindowInside ==
    ASSUME NEW t, NEW row, Drawable(row)
    PROVE  LET window == LegWindow(t, row)
           IN /\ window.dep \in Times /\ window.arr \in Times
              /\ window.arr <= row.est
BY DEF LegWindow, Drawable, ReturnInside, ReservationRow, Times

LEMMA NotBlocked ==
    ASSUME NEW v, NEW window, window.dep \in Times, window.arr \in Times,
           held[v] \in Times \cup {None}, ~Blocked(v, window), held[v] # None
    PROVE  window.arr <= held[v] /\ ~(held[v] < window.arr)
BY DEF Blocked, Times

(* What _ensure_trips draws avoids the hold. *)
LEMMA EnsuredAvoidsHold ==
    ASSUME TypeOK, JourneyInv, NEW r \in Reservations, res[r].status \notin Underway,
           NEW row, Drawable(row), NEW t \in LegsOf(r), Wanted(t, row)
    PROVE  LET leg == EnsuredTrips(r, row)[t]
           IN /\ leg.dep \in Times /\ leg.arr \in Times /\ leg.arr <= row.est
              /\ leg.vehicle \in Vehicles \cup {None}
              /\ (leg.status \in Occupying /\ leg.vehicle # None /\ held[leg.vehicle] # None) =>
                    ~(held[leg.vehicle] < leg.arr)
<1> DEFINE window == LegWindow(t, row)
           leg == EnsuredTrips(r, row)[t]
           goal == /\ leg.dep \in Times /\ leg.arr \in Times /\ leg.arr <= row.est
                   /\ leg.vehicle \in Vehicles \cup {None}
                   /\ (leg.status \in Occupying /\ leg.vehicle # None /\ held[leg.vehicle] # None) =>
                         ~(held[leg.vehicle] < leg.arr)
<1>1. t \in Trips /\ TripRowOK(trips[t])
  BY LegsShape, TypeFacts
<1>2. window.dep \in Times /\ window.arr \in Times /\ window.arr <= row.est
  BY LegWindowInside
<1>3. trips[t].status \notin HasLeft
  BY <1>1 DEF JourneyInv, DepartedMeansUnderway, Underway, LegsOf
<1>4. leg = EnsuredTrip(t, row, trips[t])
  BY <1>1 DEF EnsuredTrips
<1>5. row.vehicle \in Vehicles \cup {None} /\ trips[t].vehicle \in Vehicles \cup {None}
  BY <1>1 DEF Drawable, ReservationRow, TripRowOK
<1>6. ASSUME NEW v \in Vehicles, held[v] # None, ~Blocked(v, window)
      PROVE  ~(held[v] < window.arr)
  BY <1>2, <1>6, NotBlocked DEF TypeOK
<1>7. ASSUME trips[t].status = "absent" PROVE goal
  <2>1. leg.dep = window.dep /\ leg.arr = window.arr
    BY <1>4, <1>7 DEF EnsuredTrip
  <2>2. leg.vehicle = IF row.vehicle # None /\ Blocked(row.vehicle, window) THEN None ELSE row.vehicle
    BY <1>4, <1>7 DEF EnsuredTrip
  <2> HIDE DEF window, leg
  <2> QED BY <1>2, <1>5, <1>6, <2>1, <2>2
<1>8. ASSUME trips[t].status # "absent" PROVE goal
  <2>1. leg.dep = window.dep /\ leg.arr = window.arr /\ leg.status = trips[t].status
    BY <1>1, <1>4, <1>8 DEF EnsuredTrip, TripRowOK, NoTrip
  <2>2. leg.vehicle = IF trips[t].status = "scheduled"
                      THEN IF trips[t].vehicle # None /\ Blocked(trips[t].vehicle, window)
                           THEN None ELSE trips[t].vehicle
                      ELSE trips[t].vehicle
    BY <1>1, <1>4, <1>8 DEF EnsuredTrip, TripRowOK, NoTrip
  <2>3. trips[t].status \in Occupying => trips[t].status = "scheduled"
    BY <1>3 DEF HasLeft, Occupying
  <2> HIDE DEF window, leg
  <2> QED BY <1>2, <1>5, <1>6, <2>1, <2>2, <2>3
<1> QED BY <1>7, <1>8

(* A leg the trip type does not ask for stays as it is. *)
LEMMA RedrawnLeg ==
    ASSUME TypeOK, JourneyInv, HoldInv, NEW r \in Reservations,
           res[r].status \notin Underway, NEW row, Drawable(row), NEW t \in LegsOf(r)
    PROVE  LET leg == EnsuredTrips(r, row)[t]
           IN /\ leg.dep \in Times /\ leg.arr \in Times
              /\ \/ ~Wanted(t, row) /\ leg = trips[t]
                 \/ /\ leg.arr <= row.est
                    /\ (leg.status \in Occupying /\ leg.vehicle # None /\ held[leg.vehicle] # None) =>
                          ~(held[leg.vehicle] < leg.arr)
<1>1. t \in Trips
  BY LegsShape
<1>2. CASE Wanted(t, row)
  BY <1>2, EnsuredAvoidsHold
<1>3. CASE ~Wanted(t, row)
  <2>1. EnsuredTrips(r, row)[t] = trips[t]
    BY <1>1, <1>3 DEF EnsuredTrips
  <2> QED BY <1>1, <1>3, <2>1 DEF HoldInv, WindowsTyped
<1> QED BY <1>2, <1>3

(* One reservation gets a new row and new legs, the hold unchanged. *)
LEMMA RedrawnKeepsHold ==
    ASSUME HoldInv, NEW r \in Reservations, NEW row,
           held' = held,
           Planned(r)' /\ row.trip_type = "round_trip" => ReturnInside(row),
           \A q \in Reservations : res'[q] = IF q = r THEN row ELSE res[q],
           \A t \in Trips \ LegsOf(r) : trips'[t] = trips[t],
           \A t \in LegsOf(r) :
               /\ trips'[t].dep \in Times /\ trips'[t].arr \in Times
               /\ OnHeldVehicle(t)' => OnHeldVehicle(t)
    PROVE  HoldInv' /\ HoldKept
<1>1. WindowsTyped'
  BY DEF HoldInv, WindowsTyped
<1>2. RoundTripsInside'
  <2> SUFFICES ASSUME NEW q \in Reservations, Planned(q)', res'[q].trip_type = "round_trip"
               PROVE ReturnInside(res'[q])
    BY DEF RoundTripsInside
  <2>1. CASE q = r
    BY <2>1
  <2>2. CASE q # r
    <3>1. OutboundOf(q) \in Trips \ LegsOf(r)
      BY <2>2, LegsShape DEF LegsOf, OutboundOf
    <3>2. Planned(q)
      BY <2>2, <3>1 DEF Planned
    <3> QED BY <2>2, <3>2 DEF HoldInv, RoundTripsInside
  <2> QED BY <2>1, <2>2
<1>3. HoldKept
  <2> SUFFICES ASSUME NEW t \in Trips, OnHeldVehicle(t)', t \notin LegsOf(r)
               PROVE  OnHeldVehicle(t)
    BY DEF HoldKept
  <2> QED BY DEF OnHeldVehicle
<1> QED BY <1>1, <1>2, <1>3 DEF HoldInv

(* Reservations whose times are kept and legs that do not become stricter. *)
SameTimes ==
    \A q \in Reservations :
        /\ res'[q].dep = res[q].dep /\ res'[q].ret = res[q].ret
        /\ res'[q].est = res[q].est /\ res'[q].trip_type = res[q].trip_type
        /\ Planned(q)' => Planned(q)

LEMMA TimesKeptKeepsHold ==
    ASSUME HoldInv, held' = held, SameTimes,
           \A t \in Trips : /\ trips'[t].dep = trips[t].dep /\ trips'[t].arr = trips[t].arr
                            /\ OnHeldVehicle(t)' => OnHeldVehicle(t)
    PROVE  HoldInv' /\ HoldKept
<1>1. WindowsTyped'
  BY DEF HoldInv, WindowsTyped
<1>2. RoundTripsInside'
  BY DEF HoldInv, RoundTripsInside, ReturnInside, SameTimes
<1>3. HoldKept
  BY DEF HoldKept
<1> QED BY <1>1, <1>2, <1>3 DEF HoldInv

-----------------------------------------------------------------------------
(* The holds, action by action *)

LEMMA InitHold == Init => HoldInv
<1> SUFFICES ASSUME Init PROVE HoldInv
  OBVIOUS
<1> PICK portfolio \in Portfolios :
        /\ res = [r \in Reservations |-> RowOf(r, FirstStatus(r, portfolio))]
        /\ trips = [t \in Trips |-> FirstTrip(t, portfolio)]
  BY DEF Init
<1>1. ASSUME NEW r \in Validated PROVE Drawable(RowOf(r, "approved"))
  <2>1. Coherent(RowOf(r, "approved")) /\ r \in Reservations
    BY ValidatedAssumption, TransportAssumption
  <2>2. RowOf(r, "approved") \in ReservationRow
    BY <2>1, RowOfOK DEF ReservationStatus
  <2> QED BY <2>1, <2>2, CoherentDrawable
<1>2. WindowsTyped
  <2> SUFFICES ASSUME NEW t \in Trips PROVE trips[t].dep \in Times /\ trips[t].arr \in Times
    BY DEF WindowsTyped
  <2> DEFINE window == LegWindow(t, RowOf(t[1], "approved"))
  <2>1. CASE trips[t] = NoTrip
    BY <2>1 DEF NoTrip, Times
  <2>2. CASE trips[t] # NoTrip
    <3>1. /\ t[1] \in Validated
          /\ trips[t] = [NoTrip EXCEPT !.status = "scheduled", !.dep = window.dep, !.arr = window.arr]
      BY <2>2 DEF FirstTrip
    <3>2. window.dep \in Times /\ window.arr \in Times
      BY <1>1, <3>1, LegWindowInside
    <3> HIDE DEF window
    <3> QED BY <3>1, <3>2 DEF NoTrip
  <2> QED BY <2>1, <2>2
<1>3. RoundTripsInside
  <2> SUFFICES ASSUME NEW r \in Reservations, Planned(r), res[r].trip_type = "round_trip"
               PROVE ReturnInside(res[r])
    BY DEF RoundTripsInside
  <2>1. OutboundOf(r) \in Trips /\ OutboundOf(r)[1] = r
    BY LegsShape DEF OutboundOf
  <2>2. r \in Validated
    BY <2>1 DEF Planned, RowOf, FirstStatus, FirstTrip, NoTrip
  <2>3. /\ res[r].dep = RowOf(r, "approved").dep /\ res[r].ret = RowOf(r, "approved").ret
        /\ res[r].est = RowOf(r, "approved").est
        /\ res[r].trip_type = RowOf(r, "approved").trip_type
    BY <2>1 DEF RowOf
  <2>4. ReturnInside(RowOf(r, "approved"))
    BY <1>1, <2>2, <2>3 DEF Drawable
  <2> QED BY <2>3, <2>4 DEF ReturnInside
<1> QED BY <1>2, <1>3 DEF HoldInv

LEMMA PlannedDrawable ==
    ASSUME TypeOK, HoldInv, NEW r \in Reservations,
           res[r].status \notin {"draft", "cancelled", "deleted"}
    PROVE  Drawable(res[r])
BY TypeFacts DEF HoldInv, RoundTripsInside, Planned, Drawable

LEMMA WorkflowHold ==
    ASSUME TypeOK, JourneyInv, HoldInv, NEW r \in Reservations, NEW level \in Levels,
           Submit(r) \/ Approve(r, level) \/ Reject(r, level) \/ CancelReservation(r)
    PROVE  HoldInv' /\ HoldKept
<1> USE TypeFacts
<1>t. ASSUME UNCHANGED <<trips, held>>, NEW t \in Trips
      PROVE  /\ trips'[t].dep \in Times /\ trips'[t].arr \in Times
             /\ trips'[t].dep = trips[t].dep /\ trips'[t].arr = trips[t].arr
             /\ OnHeldVehicle(t)' => OnHeldVehicle(t)
  BY <1>t DEF HoldInv, WindowsTyped, OnHeldVehicle
<1>s. ASSUME NEW status, res' = [res EXCEPT ![r].status = status], UNCHANGED <<trips, held>>,
             status \in {"cancelled", "deleted"} \/ res[r].status \notin {"draft", "cancelled", "deleted"}
      PROVE  HoldInv' /\ HoldKept
  <2>1. \A q \in Reservations : /\ res'[q].dep = res[q].dep /\ res'[q].ret = res[q].ret
                                /\ res'[q].est = res[q].est
                                /\ res'[q].trip_type = res[q].trip_type
                                /\ q # r => res'[q].status = res[q].status
    BY <1>s DEF Rows, ReservationRow
  <2>2. res'[r].status = status
    BY <1>s DEF Rows, ReservationRow
  <2>3. SameTimes
    BY <1>s, <2>1, <2>2 DEF Planned, SameTimes
  <2> QED BY <1>s, <1>t, <2>3, TimesKeptKeepsHold
<1>1. CASE Submit(r)
  <2> DEFINE row == [res[r] EXCEPT !.status = Pending(Required[1])]
  <2>1. res[r].trip_type = "round_trip" => ReturnInside(res[r])
    BY <1>1, CoherentDrawable DEF Submit, Drawable
  <2>2. /\ row.dep = res[r].dep /\ row.ret = res[r].ret /\ row.est = res[r].est
        /\ row.trip_type = res[r].trip_type
    BY DEF ReservationRow
  <2>3. row.trip_type = "round_trip" => ReturnInside(row)
    BY <2>1, <2>2 DEF ReturnInside
  <2>4. \A q \in Reservations : res'[q] = IF q = r THEN row ELSE res[q]
    BY <1>1 DEF Submit, Rows
  <2>5. UNCHANGED <<trips, held>>
    BY <1>1 DEF Submit
  <2> HIDE DEF row
  <2> QED BY <1>t, <2>3, <2>4, <2>5, LegsShape, RedrawnKeepsHold
<1>2. CASE Approve(r, level)
  <2>1. res[r].status \notin Underway \cup {"draft", "cancelled", "deleted"}
    BY <1>2 DEF Approve, Pending, Underway
  <2>2. CASE NextStatusAfter(level) = "approved"
    <3> DEFINE row == [res[r] EXCEPT !.status = "approved"]
    <3>1. Drawable(res[r])
      BY <2>1, PlannedDrawable
    <3>2. row.trip_type = "round_trip" => ReturnInside(row)
      BY <3>1 DEF Drawable, ReturnInside, ReservationRow
    <3>3. \A q \in Reservations : res'[q] = IF q = r THEN row ELSE res[q]
      BY <1>2, <2>2 DEF Approve, Rows
    <3>4. trips' = EnsuredTrips(r, res[r]) /\ held' = held
      BY <1>2, <2>2 DEF Approve
    <3>5. \A t \in Trips \ LegsOf(r) : trips'[t] = trips[t]
      BY <2>1, <3>4, EnsuredNotLeft
    <3>6. ASSUME NEW t \in LegsOf(r)
          PROVE  /\ trips'[t].dep \in Times /\ trips'[t].arr \in Times
                 /\ OnHeldVehicle(t)' => OnHeldVehicle(t)
      BY <2>1, <3>1, <3>4, RedrawnLeg DEF OnHeldVehicle
    <3> HIDE DEF row
    <3> QED BY <3>2, <3>3, <3>4, <3>5, <3>6, RedrawnKeepsHold
  <2>3. CASE NextStatusAfter(level) # "approved"
    BY <1>2, <1>s, <2>1, <2>3 DEF Approve
  <2> QED BY <2>2, <2>3
<1>3. CASE Reject(r, level)
  BY <1>3, <1>s DEF Reject, Pending
<1>4. CASE CancelReservation(r)
  BY <1>4, <1>s DEF CancelReservation
<1> QED BY <1>1, <1>2, <1>3, <1>4

LEMMA PlanningHold ==
    ASSUME TypeOK, JourneyInv, HoldInv, NEW r \in Reservations,
           \/ \E v \in Vehicles : AssignVehicle(r, v)
           \/ \E d \in Drivers : AssignDriver(r, d)
           \/ \E move \in Moves : Reschedule(r, move)
    PROVE  HoldInv' /\ HoldKept
<1> USE TypeFacts
<1>r. ASSUME NEW row, Drawable(row), res' = [res EXCEPT ![r] = row], held' = held,
             \A t \in Trips \ LegsOf(r) : trips'[t] = trips[t],
             \A t \in LegsOf(r) :
               /\ trips'[t].dep \in Times /\ trips'[t].arr \in Times
               /\ OnHeldVehicle(t)' => OnHeldVehicle(t)
      PROVE  HoldInv' /\ HoldKept
  <2>1. \A q \in Reservations : res'[q] = IF q = r THEN row ELSE res[q]
    BY <1>r DEF Rows
  <2> QED BY <1>r, <2>1, RedrawnKeepsHold DEF Drawable
<1>g. ASSUME NEW row, Drawable(row), NEW field \in {"vehicle", "driver"}, NEW resource,
             NEW t \in LegsOf(r),
             trips' = GivenToLegs(EnsuredTrips(r, row), row, r, field, resource)
      PROVE  LET leg == EnsuredTrips(r, row)[t]
             IN /\ trips'[t].dep = leg.dep /\ trips'[t].arr = leg.arr
                /\ trips'[t].status = leg.status
                /\ trips'[t].vehicle = IF field = "vehicle" /\ Wanted(t, row)
                                       THEN resource ELSE leg.vehicle
  <2> DEFINE ensured == EnsuredTrips(r, row)
  <2>1. TripTableOK(ensured)
    BY <1>g, EnsuredTripsOK DEF Drawable
  <2>2. t \in Trips
    BY <1>g, LegsShape
  <2>3. DOMAIN ensured[t] = DOMAIN NoTrip
    BY <2>1, <2>2 DEF TripTableOK, TripRowOK
  <2>4. trips'[t] = IF Wanted(t, row)
                    THEN [ensured[t] EXCEPT ![field] = resource] ELSE ensured[t]
    BY <1>g, <2>2 DEF GivenToLegs
  <2> HIDE DEF ensured
  <2>5. /\ trips'[t].dep = ensured[t].dep /\ trips'[t].arr = ensured[t].arr
        /\ trips'[t].status = ensured[t].status
        /\ trips'[t].vehicle = IF field = "vehicle" /\ Wanted(t, row)
                               THEN resource ELSE ensured[t].vehicle
    BY <1>g, <2>3, <2>4 DEF NoTrip
  <2> QED BY <2>5 DEF ensured
<1>1. ASSUME NEW v \in Vehicles, AssignVehicle(r, v) PROVE HoldInv' /\ HoldKept
  <2> DEFINE row == [res[r] EXCEPT !.vehicle = v,
                                   !.status = IF @ = "approved" THEN "vehicle_assigned" ELSE @]
  <2>1. res[r].status \notin Underway \cup {"draft", "cancelled", "deleted"}
    BY <1>1 DEF AssignVehicle, Underway
  <2>2. Drawable(res[r])
    BY <2>1, PlannedDrawable
  <2>3. /\ row \in ReservationRow /\ row.trip_type = res[r].trip_type
        /\ row.dep = res[r].dep /\ row.ret = res[r].ret /\ row.est = res[r].est
    BY DEF ReservationRow, ReservationStatus
  <2>4. Drawable(row)
    BY <2>2, <2>3 DEF Drawable, ReturnInside
  <2>5. /\ res' = [res EXCEPT ![r] = row] /\ held' = held
        /\ trips' = GivenToLegs(EnsuredTrips(r, row), row, r, "vehicle", v)
        /\ ~Blocked(v, Span(res[r]))
    BY <1>1 DEF AssignVehicle, VehicleAssignable
  <2>6. held[v] # None => row.est <= held[v]
    <3>1. /\ Span(res[r]).dep \in Times /\ Span(res[r]).arr \in Times
          /\ Span(res[r]).arr = row.est
      BY <2>3 DEF Span, ReservationRow
    <3>2. held[v] \in Times \cup {None}
      BY DEF TypeOK
    <3> QED BY <2>5, <3>1, <3>2, NotBlocked
  <2> HIDE DEF row
  <2>7. \A t \in Trips \ LegsOf(r) : EnsuredTrips(r, row)[t] = trips[t]
    BY <2>1, EnsuredNotLeft
  <2>8. \A t \in Trips \ LegsOf(r) : trips'[t] = trips[t]
    BY <2>5, <2>7 DEF GivenToLegs
  <2>9. ASSUME NEW t \in LegsOf(r)
        PROVE  /\ trips'[t].dep \in Times /\ trips'[t].arr \in Times
               /\ OnHeldVehicle(t)' => OnHeldVehicle(t)
    <3> DEFINE leg == EnsuredTrips(r, row)[t]
    <3>1. /\ trips'[t].dep = leg.dep /\ trips'[t].arr = leg.arr
          /\ trips'[t].status = leg.status
          /\ trips'[t].vehicle = IF Wanted(t, row) THEN v ELSE leg.vehicle
      BY <1>g, <2>4, <2>5
    <3>2. /\ leg.dep \in Times /\ leg.arr \in Times
          /\ (~Wanted(t, row) /\ leg = trips[t]) \/ leg.arr <= row.est
      BY <2>1, <2>4, RedrawnLeg
    <3>3. ~Wanted(t, row) => leg = trips[t]
      BY LegsShape DEF EnsuredTrips
    <3> HIDE DEF leg
    <3>4. row.est \in Times /\ held[v] \in Times \cup {None}
      BY <2>3 DEF ReservationRow, TypeOK
    <3>5. CASE Wanted(t, row)
      BY <2>5, <2>6, <3>1, <3>2, <3>4, <3>5 DEF OnHeldVehicle, Times
    <3>6. CASE ~Wanted(t, row)
      BY <2>5, <3>1, <3>2, <3>3, <3>6 DEF OnHeldVehicle
    <3> QED BY <3>5, <3>6
  <2> QED BY <1>r, <2>4, <2>5, <2>8, <2>9
<1>2. ASSUME NEW d \in Drivers, AssignDriver(r, d) PROVE HoldInv' /\ HoldKept
  <2> DEFINE row == [res[r] EXCEPT !.driver = d, !.status = "driver_assigned"]
  <2>1. res[r].status \notin Underway \cup {"draft", "cancelled", "deleted"}
    BY <1>2 DEF AssignDriver, Underway
  <2>2. Drawable(res[r])
    BY <2>1, PlannedDrawable
  <2>3. /\ row \in ReservationRow /\ row.trip_type = res[r].trip_type
        /\ row.dep = res[r].dep /\ row.ret = res[r].ret /\ row.est = res[r].est
    BY DEF ReservationRow, ReservationStatus
  <2>4. Drawable(row)
    BY <2>2, <2>3 DEF Drawable, ReturnInside
  <2>5. /\ res' = [res EXCEPT ![r] = row] /\ held' = held
        /\ trips' = GivenToLegs(EnsuredTrips(r, row), row, r, "driver", d)
    BY <1>2 DEF AssignDriver
  <2> HIDE DEF row
  <2>7. \A t \in Trips \ LegsOf(r) : EnsuredTrips(r, row)[t] = trips[t]
    BY <2>1, EnsuredNotLeft
  <2>8. \A t \in Trips \ LegsOf(r) : trips'[t] = trips[t]
    BY <2>5, <2>7 DEF GivenToLegs
  <2>9. ASSUME NEW t \in LegsOf(r)
        PROVE  /\ trips'[t].dep \in Times /\ trips'[t].arr \in Times
               /\ OnHeldVehicle(t)' => OnHeldVehicle(t)
    <3> DEFINE leg == EnsuredTrips(r, row)[t]
    <3>1. /\ trips'[t].dep = leg.dep /\ trips'[t].arr = leg.arr
          /\ trips'[t].status = leg.status
          /\ trips'[t].vehicle = leg.vehicle
      BY <1>g, <2>4, <2>5
    <3>2. /\ leg.dep \in Times /\ leg.arr \in Times
          /\ \/ leg = trips[t]
             \/ (leg.status \in Occupying /\ leg.vehicle # None /\ held[leg.vehicle] # None) =>
                    ~(held[leg.vehicle] < leg.arr)
      BY <2>1, <2>4, RedrawnLeg
    <3> HIDE DEF leg
    <3>3. OnHeldVehicle(t)' => OnHeldVehicle(t)
      BY <2>5, <3>1, <3>2 DEF OnHeldVehicle
    <3> QED BY <3>1, <3>2, <3>3
  <2> QED BY <1>r, <2>4, <2>5, <2>8, <2>9
<1>3. ASSUME NEW move \in Moves, Reschedule(r, move) PROVE HoldInv' /\ HoldKept
  <2> DEFINE row == [res[r] EXCEPT !.dep = move.dep, !.est = move.est,
                                   !.ret = MovedReturn(r, move)]
  <2>1. res[r].status \notin Underway
    BY <1>3 DEF Reschedule, Reschedulable, Underway
  <2>2. row \in ReservationRow /\ row.trip_type = res[r].trip_type
    <3>1. move \in Plans
      BY TransportAssumption
    <3>2. MovedReturn(r, move) \in Times \cup {None}
      BY <3>1, MovedReturnOK
    <3> QED BY <3>1, <3>2 DEF ReservationRow, Plans
  <2>3. Coherent(row) /\ res' = [res EXCEPT ![r] = row] /\ trips' = EnsuredTrips(r, row) /\ held' = held
    BY <1>3 DEF Reschedule
  <2> HIDE DEF row
  <2>4. Drawable(row)
    BY <2>2, <2>3, CoherentDrawable
  <2>5. \A t \in Trips \ LegsOf(r) : trips'[t] = trips[t]
    BY <2>1, <2>3, EnsuredNotLeft
  <2>6. ASSUME NEW t \in LegsOf(r)
        PROVE  /\ trips'[t].dep \in Times /\ trips'[t].arr \in Times
               /\ OnHeldVehicle(t)' => OnHeldVehicle(t)
    BY <2>1, <2>2, <2>3, <2>4, RedrawnLeg DEF OnHeldVehicle
  <2> QED BY <1>r, <2>3, <2>4, <2>5, <2>6
<1> QED BY <1>1, <1>2, <1>3

LEMMA FormHold ==
    ASSUME TypeOK, HoldInv, NEW r \in Reservations,
           DeleteReservation(r) \/ \E form \in Forms : EditReservation(r, form)
    PROVE  HoldInv' /\ HoldKept
<1> USE TypeFacts
<1>l. LegsOf(r) \subseteq Trips /\ OutboundOf(r) \in Trips /\ OutboundOf(r) \in LegsOf(r)
  BY LegsShape
<1>1. CASE DeleteReservation(r)
  <2> DEFINE row == RowOf(r, "deleted")
  <2>1. \A t \in Trips : trips'[t] = IF t \in LegsOf(r) THEN NoTrip ELSE trips[t]
    BY <1>1 DEF DeleteReservation
  <2>2. NoTrip.status = "absent" /\ NoTrip.dep \in Times /\ NoTrip.arr \in Times
    BY DEF NoTrip, Times
  <2>3. \A q \in Reservations : res'[q] = IF q = r THEN row ELSE res[q]
    BY <1>1 DEF DeleteReservation, Rows
  <2>4. row.status = "deleted" /\ held' = held
    BY <1>1 DEF RowOf, DeleteReservation
  <2> HIDE DEF row
  <2>5. ~Planned(r)'
    BY <1>l, <2>1, <2>2, <2>3, <2>4 DEF Planned
  <2>6. \A t \in LegsOf(r) :
          /\ trips'[t].dep \in Times /\ trips'[t].arr \in Times
          /\ ~OnHeldVehicle(t)'
    BY <1>l, <2>1, <2>2 DEF Occupying, OnHeldVehicle
  <2> QED BY <2>1, <2>3, <2>4, <2>5, <2>6, RedrawnKeepsHold
<1>2. ASSUME NEW form \in Forms, EditReservation(r, form) PROVE HoldInv' /\ HoldKept
  <2> DEFINE row == FormRow(r, form)
  <2>1. row.trip_type = "round_trip" => ReturnInside(row)
    BY <1>2 DEF EditReservation, FormRow
  <2>2. /\ \A q \in Reservations : res'[q] = IF q = r THEN row ELSE res[q]
        /\ trips' = trips /\ held' = held
    BY <1>2 DEF EditReservation, FormRow, Rows
  <2> HIDE DEF row
  <2>3. \A t \in LegsOf(r) :
          /\ trips'[t].dep \in Times /\ trips'[t].arr \in Times
          /\ OnHeldVehicle(t)' => OnHeldVehicle(t)
    BY <1>l, <2>2 DEF HoldInv, WindowsTyped, OnHeldVehicle
  <2> QED BY <2>1, <2>2, <2>3, RedrawnKeepsHold
<1> QED BY <1>1, <1>2

(* Realigning reservations on their live legs moves no time and plans nothing
   that had no leg. *)
LEMMA RecomputedPlanned ==
    ASSUME TypeOK, JourneyInv, NEW R,
           res' = Recomputed(res, trips', R),
           \A t \in Trips : trips'[t].status = "absent" <=> trips[t].status = "absent"
    PROVE  SameTimes
<1> USE TypeFacts
<1>1. ASSUME NEW q \in Reservations
      PROVE  /\ res'[q].dep = res[q].dep /\ res'[q].ret = res[q].ret
             /\ res'[q].est = res[q].est /\ res'[q].trip_type = res[q].trip_type
             /\ res'[q].status # res[q].status => LiveLegs(trips', q) # {}
  BY DEF Recomputed, ReservationRow
<1>2. ASSUME NEW q \in Reservations, Planned(q)' PROVE Planned(q)
  <2>1. OutboundOf(q) \in Trips
    BY LegsShape
  <2>2. CASE LiveLegs(trips', q) # {}
    <3>1. PICK t \in LegsOf(q) : trips'[t].status # "absent"
      BY <2>2 DEF LiveLegs
    <3>2. t \in Trips /\ (t = OutboundOf(q) \/ t = <<q, "return">>)
      BY <3>1, LegsShape
    <3>3. trips[OutboundOf(q)].status # "absent"
      BY <3>1, <3>2 DEF JourneyInv, ReturnHasOutbound, OutboundOf
    <3> QED BY <3>3 DEF Planned
  <2>3. CASE LiveLegs(trips', q) = {}
    BY <1>1, <1>2, <2>1, <2>3 DEF Planned
  <2> QED BY <2>2, <2>3
<1> QED BY <1>1, <1>2 DEF SameTimes

(* The reservation of a trip takes a status from it. *)
LEMMA FollowedPlanned ==
    ASSUME TypeOK, JourneyInv, NEW t \in Trips, trips[t].status # "absent", NEW status,
           res' = [res EXCEPT ![t[1]].status = status],
           \A u \in Trips : trips'[u].status = "absent" <=> trips[u].status = "absent"
    PROVE  SameTimes
<1> USE TypeFacts
<1>0. t[1] \in Reservations /\ t \in LegsOf(t[1])
  BY TripShape DEF LegsOf
<1>1. \A q \in Reservations :
        /\ res'[q].dep = res[q].dep /\ res'[q].ret = res[q].ret
        /\ res'[q].est = res[q].est /\ res'[q].trip_type = res[q].trip_type
        /\ q # t[1] => res'[q].status = res[q].status
  BY <1>0 DEF Rows, ReservationRow
<1>2. ASSUME NEW q \in Reservations, Planned(q)' PROVE Planned(q)
  <2>1. OutboundOf(q) \in Trips
    BY LegsShape
  <2>2. CASE q = t[1]
    <3>1. t = OutboundOf(q) \/ t = <<q, "return">>
      BY <1>0, <2>2, LegsShape
    <3>2. trips[OutboundOf(q)].status # "absent"
      BY <3>1 DEF JourneyInv, ReturnHasOutbound, OutboundOf
    <3> QED BY <3>2 DEF Planned
  <2>3. CASE q # t[1]
    BY <1>1, <1>2, <2>1, <2>3 DEF Planned
  <2> QED BY <2>2, <2>3
<1> QED BY <1>1, <1>2 DEF SameTimes

LEMMA TripHold ==
    ASSUME TypeOK, JourneyInv, HoldInv, NEW t \in Trips, TripRequest(t)
    PROVE  HoldInv' /\ HoldKept
<1> USE TypeFacts
<1>0. DOMAIN trips[t] = DOMAIN NoTrip /\ trips[t].vehicle \in Vehicles \cup {None}
  BY DEF TripRowOK
<1>r. ASSUME NEW row, trips' = [trips EXCEPT ![t] = row], held' = held,
             trips[t].status # "absent", row.status # "absent",
             row.dep = trips[t].dep, row.arr = trips[t].arr,
             row.status \in Occupying =>
                 \/ trips[t].status \in Occupying /\ row.vehicle = trips[t].vehicle
                 \/ held[row.vehicle] # None => ~(held[row.vehicle] < trips[t].arr),
             \/ res' = res
             \/ \E R : res' = Recomputed(res, trips', R)
             \/ \E status : res' = [res EXCEPT ![t[1]].status = status]
      PROVE  HoldInv' /\ HoldKept
  <2>1. \A u \in Trips : trips'[u] = IF u = t THEN row ELSE trips[u]
    BY <1>r DEF TypeOK
  <2>2. \A u \in Trips : trips'[u].status = "absent" <=> trips[u].status = "absent"
    BY <1>r, <2>1
  <2>3. SameTimes
    <3>1. CASE res' = res
      <4>1. \A q \in Reservations : OutboundOf(q) \in Trips
        BY LegsShape
      <4> QED BY <2>2, <3>1, <4>1 DEF Planned, SameTimes
    <3>2. CASE \E R : res' = Recomputed(res, trips', R)
      BY <2>2, <3>2, RecomputedPlanned
    <3>3. CASE \E status : res' = [res EXCEPT ![t[1]].status = status]
      BY <1>r, <2>2, <3>3, FollowedPlanned
    <3> QED BY <1>r, <3>1, <3>2, <3>3
  <2>4. ASSUME NEW u \in Trips
        PROVE  /\ trips'[u].dep = trips[u].dep /\ trips'[u].arr = trips[u].arr
               /\ OnHeldVehicle(u)' => OnHeldVehicle(u)
    BY <1>r, <2>1 DEF OnHeldVehicle
  <2> QED BY <1>r, <2>3, <2>4, TimesKeptKeepsHold
<1>s. ASSUME NEW new \in TripStatus \ {"absent"}, trips' = [trips EXCEPT ![t].status = new],
             held' = held, trips[t].status \in Occupying,
             res' = res \/ \E status : res' = [res EXCEPT ![t[1]].status = status]
      PROVE  HoldInv' /\ HoldKept
  <2> DEFINE row == [trips[t] EXCEPT !.status = new]
  <2>1. trips' = [trips EXCEPT ![t] = row]
    BY <1>s DEF TypeOK
  <2>2. /\ row.status = new /\ row.dep = trips[t].dep /\ row.arr = trips[t].arr
        /\ row.vehicle = trips[t].vehicle
    BY <1>0 DEF NoTrip
  <2>3. trips[t].status # "absent"
    BY <1>s DEF Occupying
  <2> HIDE DEF row
  <2> QED BY <1>r, <1>s, <2>1, <2>2, <2>3
<1>1. ASSUME NEW v \in Vehicles, AssignVehicleToTrip(t, v) PROVE HoldInv' /\ HoldKept
  <2> DEFINE row == [trips[t] EXCEPT !.vehicle = v]
  <2>1. trips' = [trips EXCEPT ![t] = row] /\ trips[t].status = "scheduled" /\ held' = held
        /\ ~Blocked(v, row) /\ res' = Recomputed(res, trips', {t[1]})
    BY <1>1 DEF AssignVehicleToTrip
  <2>2. /\ row.status = trips[t].status /\ row.dep = trips[t].dep /\ row.arr = trips[t].arr
        /\ row.vehicle = v
    BY <1>0 DEF NoTrip
  <2> HIDE DEF row
  <2>3. held[v] # None => ~(held[v] < trips[t].arr)
    <3>1. held[v] \in Times \cup {None} /\ row.dep \in Times /\ row.arr \in Times
      BY <2>2 DEF TypeOK, HoldInv, WindowsTyped
    <3> QED BY <2>1, <2>2, <3>1, NotBlocked
  <2> QED BY <1>r, <2>1, <2>2, <2>3
<1>2. ASSUME NEW d \in Drivers, AssignDriverToTrip(t, d) PROVE HoldInv' /\ HoldKept
  <2> DEFINE row == [trips[t] EXCEPT !.driver = d]
  <2>1. trips' = [trips EXCEPT ![t] = row] /\ trips[t].status = "scheduled" /\ held' = held
        /\ res' = Recomputed(res, trips', {t[1]})
    BY <1>2 DEF AssignDriverToTrip
  <2>2. /\ row.status = trips[t].status /\ row.dep = trips[t].dep /\ row.arr = trips[t].arr
        /\ row.vehicle = trips[t].vehicle
    BY <1>0 DEF NoTrip
  <2> HIDE DEF row
  <2> QED BY <1>r, <2>1, <2>2
<1>3. CASE StartTrip(t)
  BY <1>s, <1>3 DEF StartTrip, Occupying, TripStatus
<1>4. CASE EndTrip(t)
  BY <1>s, <1>4 DEF EndTrip, Occupying, TripStatus
<1>5. CASE CloseTrip(t)
  BY <1>s, <1>5 DEF CloseTrip, Occupying, TripStatus
<1>6. CASE CancelTrip(t)
  <2> DEFINE row == [trips[t] EXCEPT !.status = "cancelled", !.group = None]
  <2>1. trips' = [trips EXCEPT ![t] = row] /\ trips[t].status = "scheduled" /\ held' = held
    BY <1>6 DEF CancelTrip, TypeOK
  <2>2. row.status = "cancelled" /\ row.dep = trips[t].dep /\ row.arr = trips[t].arr
    BY <1>0 DEF NoTrip
  <2>3. \/ res' = Recomputed(res, trips', {t[1]})
        \/ res' = [res EXCEPT ![t[1]].status = "cancelled"]
    BY <1>6 DEF CancelTrip
  <2> HIDE DEF row
  <2>4. row.status \notin Occupying
    BY <2>2 DEF Occupying
  <2> QED BY <1>r, <2>1, <2>2, <2>3, <2>4
<1> QED BY <1>1, <1>2, <1>3, <1>4, <1>5, <1>6 DEF TripRequest

LEMMA VehicleHold ==
    ASSUME TypeOK, HoldInv, VehicleRequest \/ UNCHANGED vars
    PROVE  HoldInv' /\ HoldKept
<1>0. UNCHANGED <<res, trips>>
  BY DEF VehicleRequest, UpdateVehicle, AllocateVehicle, ReturnVehicle, vars
<1>1. WindowsTyped' /\ RoundTripsInside'
  BY <1>0 DEF HoldInv, WindowsTyped, RoundTripsInside, Planned
<1>2. ASSUME NEW v \in Vehicles, NEW start \in Times, AllocateVehicle(v, start)
      PROVE  HoldKept
  <2> SUFFICES ASSUME NEW t \in Trips, OnHeldVehicle(t)' PROVE OnHeldVehicle(t)
    BY DEF HoldKept
  <2>1. held' = [held EXCEPT ![v] = start] /\ ~PoolConflicts(v, start)
    BY <1>2 DEF AllocateVehicle
  <2>2. CASE trips[t].vehicle = v
    <3>1. held'[trips[t].vehicle] = start
      BY <2>1, <2>2 DEF TypeOK
    <3> QED BY <1>0, <2>1, <2>2, <3>1 DEF PoolConflicts, OnHeldVehicle
  <2>3. CASE trips[t].vehicle # v
    <3>1. held'[trips[t].vehicle] = held[trips[t].vehicle]
      BY <1>0, <2>1, <2>3 DEF TypeOK, TripRowOK, OnHeldVehicle
    <3> QED BY <1>0, <3>1 DEF OnHeldVehicle
  <2> QED BY <2>2, <2>3
<1>3. ASSUME NEW v \in Vehicles, ReturnVehicle(v) PROVE HoldKept
  <2>1. held' = [held EXCEPT ![v] = None]
    BY <1>3 DEF ReturnVehicle
  <2>2. \A t \in Trips : trips[t].vehicle # None /\ held'[trips[t].vehicle] # None =>
                           held'[trips[t].vehicle] = held[trips[t].vehicle]
    BY <2>1 DEF TypeOK, TripRowOK
  <2> QED BY <1>0, <2>2 DEF HoldKept, OnHeldVehicle
<1>4. ASSUME UNCHANGED held PROVE HoldKept
  BY <1>0, <1>4 DEF HoldKept, OnHeldVehicle
<1>5. HoldKept
  BY <1>2, <1>3, <1>4, TransportAssumption DEF VehicleRequest, UpdateVehicle, vars
<1> QED BY <1>1, <1>5 DEF HoldInv

LEMMA KeptHoldsLeaveAlone ==
    HoldKept /\ CarPlanVehiclesLeftAlone => CarPlanVehiclesLeftAlone'
BY DEF HoldKept, CarPlanVehiclesLeftAlone

LEMMA NextHold ==
    TypeOK /\ JourneyInv /\ HoldInv /\ [Next]_vars => HoldInv' /\ HoldKept
<1> SUFFICES ASSUME TypeOK, JourneyInv, HoldInv, [Next]_vars PROVE HoldInv' /\ HoldKept
  OBVIOUS
<1>1. ASSUME NEW r \in Reservations, ReservationRequest(r) PROVE HoldInv' /\ HoldKept
  BY <1>1, WorkflowHold, PlanningHold, FormHold DEF ReservationRequest, Levels
<1>2. ASSUME NEW r \in Editable, NEW form \in Forms, EditReservation(r, form)
      PROVE  HoldInv' /\ HoldKept
  BY <1>2, FormHold, TransportAssumption
<1>3. ASSUME NEW t \in Trips, TripRequest(t) PROVE HoldInv' /\ HoldKept
  BY <1>3, TripHold
<1>4. CASE VehicleRequest \/ UNCHANGED vars
  BY <1>4, VehicleHold
<1> QED BY <1>1, <1>2, <1>3, <1>4 DEF Next

(* Nothing is held at the start. *)
LEMMA InitHeldNothing == Init => CarPlanVehiclesLeftAlone
<1> SUFFICES ASSUME Init, NEW t \in Trips, OnHeldVehicle(t) PROVE FALSE
  BY DEF CarPlanVehiclesLeftAlone
<1>1. PICK portfolio \in Portfolios : trips = [s \in Trips |-> FirstTrip(s, portfolio)]
  BY DEF Init
<1>2. FirstTrip(t, portfolio).vehicle = None
  BY DEF FirstTrip, NoTrip
<1>3. trips[t].vehicle = None
  BY <1>1, <1>2
<1> QED BY <1>3 DEF OnHeldVehicle

(* No vehicle the Car Plan holds serves a trip of the shared fleet during the
   hold, for any number of vehicles, trips, holds and forms, whichever came first
   and whatever is replanned, reassigned or edited afterwards. *)
THEOREM HeldVehiclesLeftAlone == Spec => []CarPlanVehiclesLeftAlone
<1>1. Init => HoldInv /\ CarPlanVehiclesLeftAlone
  BY InitHold, InitHeldNothing
<1>2. /\ TypeOK /\ JourneyInv /\ HoldInv /\ CarPlanVehiclesLeftAlone /\ [Next]_vars
      => HoldInv' /\ CarPlanVehiclesLeftAlone'
  BY NextHold, KeptHoldsLeaveAlone
<1> QED BY <1>1, <1>2, JourneyCorrect, PTL DEF Spec
================================================================================
