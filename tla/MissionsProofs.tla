---------------------------- MODULE MissionsProofs ----------------------------
(***************************************************************************)
(* Grouped missions, for any number of missions, trips, vehicles and       *)
(* drivers: what the transport modules promise survives the requests on    *)
(* missions, and memberships, groups and statuses stay consistent.         *)
(***************************************************************************)
EXTENDS Missions, BookingProofs, SetLemmas

-----------------------------------------------------------------------------
(* What a request on a mission does to the trips *)

(* A trip given to a mission: its resources and its group change, no more. *)
LEMMA JoinedRow ==
    ASSUME TypeOK, NEW t \in Trips, NEW m, NEW v \in Vehicles, NEW d \in Drivers \cup {None}
    PROVE  /\ TripRowOK(Joined(t, m, v, d))
           /\ Joined(t, m, v, d).status = trips[t].status
           /\ Joined(t, m, v, d).dep = trips[t].dep /\ Joined(t, m, v, d).arr = trips[t].arr
           /\ Joined(t, m, v, d).group = m /\ Joined(t, m, v, d).vehicle = v
<1>1. TripRowOK(trips[t])
  BY TypeFacts
<1> QED BY <1>1 DEF Joined, TripRowOK, NoTrip

(* A trip that leaves its mission keeps its status and its times, and what it
   used unless it gives it back. *)
LeavesAlone(t) ==
    /\ TripRowOK(trips'[t])
    /\ trips'[t].status = trips[t].status
    /\ trips'[t].dep = trips[t].dep /\ trips'[t].arr = trips[t].arr
    /\ trips'[t].group = None
    /\ ~Releasable(t) => trips'[t].vehicle = trips[t].vehicle /\ trips'[t].driver = trips[t].driver
    /\ trips'[t].vehicle = trips[t].vehicle \/ trips'[t].vehicle = None

LEMMA AloneRow ==
    ASSUME TypeOK, NEW S \in SUBSET Trips, Release(S), NEW t \in S
    PROVE  LeavesAlone(t)
<1>1. t \in Trips /\ TripRowOK(trips[t])
  BY TypeFacts
<1>2. CASE Releasable(t)
  <2>1. trips'[t] = [trips[t] EXCEPT !.vehicle = None, !.driver = None, !.group = None]
    BY <1>1, <1>2 DEF Release, Alone
  <2>2. trips'[t].vehicle = None
    BY <1>1, <2>1 DEF TripRowOK, NoTrip
  <2> QED BY <1>1, <1>2, <2>1, <2>2 DEF LeavesAlone, TripRowOK, NoTrip
<1>3. CASE ~Releasable(t)
  <2>1. trips'[t] = [trips[t] EXCEPT !.group = None]
    BY <1>1, <1>3 DEF Release, Alone
  <2>2. trips'[t].vehicle = trips[t].vehicle
    BY <1>1, <2>1 DEF TripRowOK, NoTrip
  <2> QED BY <1>1, <1>3, <2>1, <2>2 DEF LeavesAlone, TripRowOK, NoTrip
<1> QED BY <1>2, <1>3

(* Trips that have not left are rearranged, and every trip keeps its status. *)
LEMMA StatusKeptQuiet ==
    ASSUME TypeOK, JourneyInv,
           \A t \in Trips : trips'[t].status = trips[t].status,
           \A t \in Trips : trips[t].status \in HasLeft =>
              /\ trips'[t].vehicle = trips[t].vehicle /\ trips'[t].driver = trips[t].driver
              /\ trips'[t].dep = trips[t].dep /\ trips'[t].arr = trips[t].arr,
           NEW R, res' = Recomputed(res, trips', R)
    PROVE  Quiet
<1>1. ReturnHasOutbound'
  <2> SUFFICES ASSUME NEW q \in Reservations, trips'[<<q, "return">>].status # "absent"
               PROVE  trips'[<<q, "outbound">>].status # "absent"
    BY DEF ReturnHasOutbound
  <2>1. <<q, "outbound">> \in Trips /\ <<q, "return">> \in Trips
    BY LegsShape DEF OutboundOf
  <2> QED BY <2>1 DEF JourneyInv, ReturnHasOutbound
<1>2. \A r \in Reservations :
        (res[r].status \in Underway \/ res'[r].status \in Underway) =>
            res'[r].status = res[r].status
  BY RecomputedQuiet, TypeFacts
<1>3. \A r \in Reservations : \A t \in LegsOf(r) :
        trips[t].status = "absent" <=> trips'[t].status = "absent"
  BY LegsShape
<1> QED BY <1>1, <1>2, <1>3 DEF Quiet

(* Giving trips to a mission, as the transport modules see it. *)
LEMMA AssignEffect ==
    ASSUME TypeOK, NEW S \in SUBSET Trips, NEW m, NEW v \in Vehicles,
           NEW d \in Drivers \cup {None}, AssignResources(S, m, v, d)
    PROVE  /\ TypeOK'
           /\ \A t \in Trips : trips'[t] = IF t \in S THEN Joined(t, m, v, d) ELSE trips[t]
           /\ \E R : res' = Recomputed(res, trips', R)
<1>1. /\ \A t \in Trips : trips'[t] = IF t \in S THEN Joined(t, m, v, d) ELSE trips[t]
      /\ DOMAIN trips' = Trips
  BY DEF AssignResources
<1>2. TripTableOK(trips')
  BY <1>1, JoinedRow, TypeFacts DEF TripTableOK
<1>3. \E R : res' = Recomputed(res, trips', R)
  BY DEF AssignResources
<1>4. res' \in Rows
  BY <1>2, <1>3, RecomputedOK, TypeFacts
<1>5. fleet' \in [Vehicles -> VehicleStatus]
  <2>1. fleet \in [Vehicles -> VehicleStatus] /\ "reserved" \in VehicleStatus
    BY DEF TypeOK, VehicleStatus
  <2>2. fleet' = fleet \/ \E V : fleet' = Freed(Marked(fleet, v, "reserved"), trips', V)
    BY DEF AssignResources
  <2>3. Marked(fleet, v, "reserved") \in [Vehicles -> VehicleStatus]
    BY <2>1, FleetOK
  <2> QED BY <2>1, <2>2, <2>3, FleetOK
<1>6. UNCHANGED <<lines, held>>
  BY DEF AssignResources
<1>7. TypeOK'
  BY <1>2, <1>4, <1>5, <1>6 DEF TypeOK, Rows, TripTableOK
<1> QED BY <1>1, <1>3, <1>7

(* Taking trips out of a mission, as the transport modules see it. *)
LEMMA ReleaseEffect ==
    ASSUME TypeOK, NEW S \in SUBSET Trips, Release(S)
    PROVE  /\ TypeOK'
           /\ \A t \in S : LeavesAlone(t)
           /\ \A t \in Trips \ S : trips'[t] = trips[t]
           /\ \E R : res' = Recomputed(res, trips', R)
<1>1. /\ \A t \in Trips \ S : trips'[t] = trips[t]
      /\ DOMAIN trips' = Trips
  BY DEF Release
<1>2. TripTableOK(trips')
  BY <1>1, AloneRow, TypeFacts DEF TripTableOK, LeavesAlone
<1>3. \E R : res' = Recomputed(res, trips', R)
  BY DEF Release
<1>4. res' \in Rows
  BY <1>2, <1>3, RecomputedOK, TypeFacts
<1>5. fleet' \in [Vehicles -> VehicleStatus]
  <2>1. \E V : fleet' = Freed(fleet, trips', V)
    BY DEF Release
  <2> QED BY <2>1, FleetOK DEF TypeOK
<1>6. UNCHANGED <<lines, held>>
  BY DEF Release
<1>7. TypeOK'
  BY <1>2, <1>4, <1>5, <1>6 DEF TypeOK, Rows, TripTableOK
<1> QED BY <1>1, <1>3, <1>7, AloneRow

(* The tables of Transport across a request on a mission: trips are assigned
   and released, and nothing that has left is touched. *)
Rearranged == TypeOK' /\ Quiet

LEMMA AssignRearranges ==
    ASSUME TypeOK, JourneyInv, NEW S \in SUBSET Trips, NEW m, NEW v \in Vehicles,
           NEW d \in Drivers \cup {None}, AssignResources(S, m, v, d),
           \A t \in S : trips[t].status = "scheduled"
    PROVE  Rearranged
<1>1. \A t \in Trips : trips'[t] = IF t \in S THEN Joined(t, m, v, d) ELSE trips[t]
  BY AssignEffect
<1>2. \A t \in Trips : trips'[t].status = trips[t].status
  BY <1>1, JoinedRow
<1>3. \A t \in Trips : trips[t].status \in HasLeft => trips'[t] = trips[t]
  BY <1>1 DEF HasLeft
<1>4. Quiet
  BY <1>2, <1>3, AssignEffect, StatusKeptQuiet
<1> QED BY <1>4, AssignEffect DEF Rearranged

LEMMA ReleaseRearranges ==
    ASSUME TypeOK, JourneyInv, NEW S \in SUBSET Trips, Release(S)
    PROVE  Rearranged
<1>1. \A t \in Trips : trips'[t].status = trips[t].status
  BY ReleaseEffect DEF LeavesAlone
<1>2. \A t \in Trips : trips[t].status \in HasLeft => ~Releasable(t)
  BY DEF HasLeft, Releasable
<1>3. \A t \in Trips : trips[t].status \in HasLeft =>
              /\ trips'[t].vehicle = trips[t].vehicle /\ trips'[t].driver = trips[t].driver
              /\ trips'[t].dep = trips[t].dep /\ trips'[t].arr = trips[t].arr
  BY <1>2, ReleaseEffect DEF LeavesAlone
<1>4. Quiet
  BY <1>1, <1>3, ReleaseEffect, StatusKeptQuiet
<1> QED BY <1>4, ReleaseEffect DEF Rearranged

(* A mission takes a vehicle only when each trip it is given leaves before the
   Car Plan holds that vehicle, and gives it back to no one. *)
LEMMA AssignHold ==
    ASSUME TypeOK, JourneyInv, HoldInv, NEW S \in SUBSET Trips, NEW m, NEW v \in Vehicles,
           NEW d \in Drivers \cup {None}, AssignResources(S, m, v, d),
           \A t \in S : trips[t].vehicle # v => ~Blocked(v, Joined(t, m, v, d))
    PROVE  HoldInv' /\ HoldKept
<1>1. /\ \A t \in Trips : trips'[t] = IF t \in S THEN Joined(t, m, v, d) ELSE trips[t]
      /\ \E R : res' = Recomputed(res, trips', R)
  BY AssignEffect
<1>2. held' = held
  BY DEF AssignResources
<1>3. \A t \in Trips : /\ trips'[t].status = trips[t].status
                       /\ trips'[t].dep = trips[t].dep /\ trips'[t].arr = trips[t].arr
  BY <1>1, JoinedRow
<1>4. SameTimes
  BY <1>1, <1>3, RecomputedPlanned
<1>5. ASSUME NEW t \in Trips
      PROVE  \/ trips'[t].vehicle = trips[t].vehicle
             \/ held[trips'[t].vehicle] # None => ~(held[trips'[t].vehicle] < trips[t].arr)
  <2>1. CASE t \notin S
    BY <1>1, <2>1
  <2>2. CASE t \in S /\ trips[t].vehicle = v
    BY <1>1, <2>2, JoinedRow
  <2>3. CASE t \in S /\ trips[t].vehicle # v
    <3> DEFINE row == Joined(t, m, v, d)
    <3>1. /\ ~Blocked(v, row) /\ trips'[t].vehicle = v
          /\ row.dep = trips[t].dep /\ row.arr = trips[t].arr
      BY <1>1, <2>3, JoinedRow
    <3>2. row.dep \in Times /\ row.arr \in Times /\ held[v] \in Times \cup {None}
      BY <3>1 DEF HoldInv, WindowsTyped, TypeOK
    <3> HIDE DEF row
    <3> QED BY <3>1, <3>2, NotBlocked
  <2> QED BY <2>1, <2>2, <2>3
<1>6. \A t \in Trips : OnHeldVehicle(t)' => OnHeldVehicle(t)
  BY <1>2, <1>3, <1>5 DEF OnHeldVehicle
<1> QED BY <1>2, <1>3, <1>4, <1>6, TimesKeptKeepsHold

LEMMA ReleaseHold ==
    ASSUME TypeOK, JourneyInv, HoldInv, NEW S \in SUBSET Trips, Release(S)
    PROVE  HoldInv' /\ HoldKept
<1>1. held' = held
  BY DEF Release
<1>2. \A t \in Trips : /\ trips'[t].status = trips[t].status
                       /\ trips'[t].dep = trips[t].dep /\ trips'[t].arr = trips[t].arr
                       /\ trips'[t].vehicle = trips[t].vehicle \/ trips'[t].vehicle = None
  BY ReleaseEffect DEF LeavesAlone
<1>3. SameTimes
  BY <1>2, ReleaseEffect, RecomputedPlanned
<1>4. \A t \in Trips : OnHeldVehicle(t)' => OnHeldVehicle(t)
  BY <1>1, <1>2 DEF OnHeldVehicle
<1> QED BY <1>1, <1>2, <1>3, <1>4, TimesKeptKeepsHold

-----------------------------------------------------------------------------
(* The memberships: what missions, links and trips say of one another.  None
   of the three properties is inductive alone: that a group is never left
   behind needs the active link of a trip to be the only one; that a status is
   derived from the right mission needs a completed mission to have no member
   still to run; and both need the links to point at rows that exist. *)

MissionRowOK(row) ==
    /\ DOMAIN row = DOMAIN NoMission
    /\ row.status \in MissionActive \cup MissionOver \cup {"absent"}
    /\ row.status # "absent" => row.vehicle \in Vehicles
    /\ row.driver \in Drivers \cup {None}

MissionTableOK(ms) == DOMAIN ms = MissionIds /\ \A m \in MissionIds : MissionRowOK(ms[m])

LinkOK(l) ==
    /\ l.mission \in MissionIds /\ l.trip \in Trips
    /\ DOMAIN l = {"mission", "trip", "seq", "rank", "active"}

LinksOK == \A l \in links : LinkOK(l)

LinksPointAtRows ==
    \A l \in links : missions[l.mission].status # "absent" /\ trips[l.trip].status # "absent"

Memberships ==
    /\ MissionTableOK(missions)
    /\ LinksOK
    /\ LinksPointAtRows
    /\ ActiveFlagMirrorsMission
    /\ GroupMatchesMembership
    /\ CompletedMissionsAreOver

LEMMA NoMissionOK == MissionRowOK(NoMission) /\ NoMission.status = "absent"
BY DEF MissionRowOK, NoMission

LEMMA NoneIsNoMission == None \notin MissionIds
BY TransportAssumption, MissionsAssumption DEF MissionIds, Times

LEMMA MembersDef ==
    \A ls, m, t : t \in Members(ls, m) <=> \E l \in ls : l.mission = m /\ l.trip = t
BY DEF Members

LEMMA MembersAreTrips ==
    ASSUME Memberships
    PROVE  \A m : Members(links, m) \subseteq Trips
BY MembersDef DEF Memberships, LinksOK, LinkOK

LEMMA GroupedIsMember ==
    ASSUME Memberships, NEW t \in Trips, trips[t].group # None
    PROVE  /\ trips[t].group \in MissionIds
           /\ trips[t].status # "absent"
BY MembersDef DEF Memberships, LinksOK, LinkOK, LinksPointAtRows, GroupMatchesMembership

LEMMA InitMemberships == MissionsInit => Memberships
<1> SUFFICES ASSUME MissionsInit PROVE Memberships
  OBVIOUS
<1>1. MissionTableOK(missions)
  BY NoMissionOK DEF MissionsInit, MissionTableOK
<1>2. links = {}
  BY DEF MissionsInit
<1>3. \A t \in Trips : trips[t].group = None
  <2>1. PICK portfolio : trips = [t \in Trips |-> FirstTrip(t, portfolio)]
    BY DEF MissionsInit, Init
  <2>2. \A t : FirstTrip(t, portfolio).group = None
    BY DEF FirstTrip, NoTrip
  <2> QED BY <2>1, <2>2
<1>4. \A m \in MissionIds : missions[m].status = "absent"
  BY NoMissionOK DEF MissionsInit
<1> QED BY <1>1, <1>2, <1>3, <1>4
        DEF Memberships, LinksOK, LinksPointAtRows, ActiveFlagMirrorsMission,
            GroupMatchesMembership, CompletedMissionsAreOver

(* The window of a mission is all that _rebuild changes in its row. *)
LEMMA RebuiltKeeps ==
    ASSUME NEW ms, MissionTableOK(ms), NEW ts, NEW ls, NEW m \in MissionIds
    PROVE  /\ MissionTableOK(Rebuilt(ms, ts, ls, m))
           /\ \A k \in MissionIds :
                /\ Rebuilt(ms, ts, ls, m)[k].status = ms[k].status
                /\ Rebuilt(ms, ts, ls, m)[k].vehicle = ms[k].vehicle
                /\ Rebuilt(ms, ts, ls, m)[k].driver = ms[k].driver
           /\ \A k \in MissionIds \ {m} : Rebuilt(ms, ts, ls, m)[k] = ms[k]
<1> DEFINE after == Rebuilt(ms, ts, ls, m)
<1>1. /\ DOMAIN after = MissionIds
      /\ \A k \in MissionIds \ {m} : after[k] = ms[k]
      /\ DOMAIN after[m] = DOMAIN ms[m]
      /\ \A f \in DOMAIN ms[m] : f \notin {"dep", "arr"} => after[m][f] = ms[m][f]
  BY DEF Rebuilt, MissionTableOK
<1> HIDE DEF after
<1>2. DOMAIN ms[m] = {"status", "vehicle", "driver", "dep", "arr"}
  BY DEF MissionTableOK, MissionRowOK, NoMission
<1>3. /\ after[m].status = ms[m].status
      /\ after[m].vehicle = ms[m].vehicle /\ after[m].driver = ms[m].driver
  BY <1>1, <1>2
<1>4. MissionTableOK(after)
  BY <1>1, <1>3 DEF MissionTableOK, MissionRowOK
<1> QED BY <1>1, <1>3, <1>4 DEF after

-----------------------------------------------------------------------------
(* Memberships, request by request *)

(* Requests that leave the missions alone and, of a trip that exists, neither
   the status nor the group. *)
LEMMA TripsKeptMemberships ==
    ASSUME Memberships, UNCHANGED missionVars,
           \A t \in Trips :
              IF trips[t].status = "absent" THEN trips'[t].group \in {None, trips[t].group}
              ELSE trips'[t].status = trips[t].status /\ trips'[t].group = trips[t].group
    PROVE  Memberships'
<1>1. missions' = missions /\ links' = links
  BY DEF missionVars
<1>2. MissionTableOK(missions') /\ LinksOK' /\ LinksPointAtRows' /\ ActiveFlagMirrorsMission'
  BY <1>1 DEF Memberships, LinksOK, LinkOK, LinksPointAtRows, ActiveFlagMirrorsMission
<1>3. \A l \in links : trips'[l.trip].status = trips[l.trip].status
                       /\ trips'[l.trip].group = trips[l.trip].group
  BY DEF Memberships, LinksOK, LinkOK, LinksPointAtRows
<1>4. \A t \in Trips : trips'[t].group # None => trips'[t].group = trips[t].group
  OBVIOUS
<1>5. GroupMatchesMembership'
  BY <1>1, <1>3, <1>4 DEF Memberships, GroupMatchesMembership
<1>6. CompletedMissionsAreOver'
  BY <1>1, <1>3, MembersDef DEF Memberships, CompletedMissionsAreOver
<1> QED BY <1>2, <1>5, <1>6 DEF Memberships

(* The trips of S, which belong to no active mission, join mission m by the
   links N; the mission is active from then on. *)
Joining(m, S, N) ==
    /\ \A l \in N : LinkOK(l) /\ l.mission = m /\ l.active = TRUE
    /\ \A k, l \in N : k.trip = l.trip => k = l
    /\ S = {l.trip : l \in N}
    /\ \A t \in S : Groupable(t)
    /\ links' = links \cup N
    /\ MissionTableOK(missions')
    /\ missions'[m].status \in MissionActive
    /\ \A k \in MissionIds \ {m} : missions'[k].status = missions[k].status
    /\ \A t \in Trips : /\ trips'[t].status = trips[t].status
                        /\ trips'[t].group = IF t \in S THEN m ELSE trips[t].group

LEMMA JoiningMemberships ==
    ASSUME Memberships, NEW m \in MissionIds, NEW S \in SUBSET Trips, NEW N,
           missions[m].status \in MissionActive \cup {"absent"},
           Joining(m, S, N)
    PROVE  Memberships'
<1> USE DEF Joining
<1>1. LinksOK'
  BY DEF Memberships, LinksOK, LinkOK
<1>2. \A l \in links : /\ missions'[l.mission].status # "absent"
                       /\ missions[l.mission].status \in MissionActive
                            <=> missions'[l.mission].status \in MissionActive
  BY DEF Memberships, LinksOK, LinkOK, LinksPointAtRows, MissionActive
<1>3. \A l \in N : l.trip \in S /\ trips[l.trip].status = "scheduled"
  BY DEF Groupable
<1>4. LinksPointAtRows'
  <2>1. \A l \in N : missions'[l.mission].status # "absent"
    BY DEF MissionActive
  <2>2. \A l \in links \cup N : trips'[l.trip].status # "absent"
    BY <1>3 DEF Memberships, LinksOK, LinkOK, LinksPointAtRows
  <2> QED BY <1>2, <2>1, <2>2 DEF LinksPointAtRows
<1>5. \A k \in links, l \in N : k.active => k.trip # l.trip
  BY <1>3 DEF Groupable, ActiveLinks, LinksOf
<1>6. ActiveFlagMirrorsMission'
  <2>1. \A l \in links \cup N : l.active <=> missions'[l.mission].status \in MissionActive
    BY <1>2 DEF Memberships, ActiveFlagMirrorsMission
  <2>2. \A k, l \in links \cup N : k.active /\ l.active /\ k.trip = l.trip => k = l
    BY <1>5 DEF Memberships, ActiveFlagMirrorsMission
  <2> QED BY <2>1, <2>2 DEF ActiveFlagMirrorsMission
<1>7. GroupMatchesMembership'
  <2>1. \A l \in links : l.active => trips'[l.trip].group = l.mission
    BY <1>5 DEF Memberships, LinksOK, LinkOK, GroupMatchesMembership
  <2>2. \A l \in N : trips'[l.trip].group = l.mission
    BY <1>3
  <2>3. ASSUME NEW t \in Trips, trips'[t].group # None
        PROVE  /\ t \in Members(links', trips'[t].group)
               /\ missions'[trips'[t].group].status # "cancelled"
    <3>1. CASE t \in S
      BY <3>1, MembersDef DEF MissionActive
    <3>2. CASE t \notin S
      <4>1. /\ trips[t].group # None /\ t \in Members(links, trips[t].group)
            /\ missions[trips[t].group].status # "cancelled"
        BY <2>3, <3>2 DEF Memberships, GroupMatchesMembership
      <4>2. trips[t].group \in MissionIds
        BY <4>1, GroupedIsMember
      <4>3. missions'[trips[t].group].status # "cancelled"
        BY <4>1, <4>2 DEF MissionActive
      <4> QED BY <3>2, <4>1, <4>3, MembersDef
    <3> QED BY <3>1, <3>2
  <2> QED BY <2>1, <2>2, <2>3 DEF GroupMatchesMembership
<1>8. CompletedMissionsAreOver'
  <2> SUFFICES ASSUME NEW k \in MissionIds, missions'[k].status = "completed",
                      NEW t \in Members(links', k)
               PROVE  trips'[t].status \in Finished
    BY DEF CompletedMissionsAreOver
  <2>1. k # m
    BY DEF MissionActive
  <2>2. t \in Members(links, k)
    BY <2>1, MembersDef
  <2> QED BY <2>1, <2>2, MembersAreTrips DEF Memberships, CompletedMissionsAreOver
<1> QED BY <1>1, <1>4, <1>6, <1>7, <1>8 DEF Memberships

(* A trip leaves the active mission it is a member of. *)
LEMMA LeavingMemberships ==
    ASSUME Memberships, NEW m \in MissionIds, NEW t \in Trips,
           missions[m].status \in MissionActive, t \in Members(links, m),
           links' = Without(links, m, {t}),
           MissionTableOK(missions'),
           \A k \in MissionIds \ {m} : missions'[k].status = missions[k].status,
           missions'[m].status =
               IF Members(links', m) = {} THEN "cancelled" ELSE missions[m].status,
           trips'[t].group = None,
           trips'[t].status \in {trips[t].status, "cancelled"},
           \A u \in Trips \ {t} : trips'[u].status = trips[u].status /\ trips'[u].group = trips[u].group
    PROVE  Memberships'
<1>1. links' \subseteq links /\ \A l \in links' : ~(l.mission = m /\ l.trip = t)
  BY DEF Without
<1>2. \A l \in links : l.trip # t => l \in links'
  BY DEF Without
<1>3. \A l \in links' : missions'[l.mission].status = missions[l.mission].status
  <2> SUFFICES ASSUME NEW l \in links'
               PROVE  missions'[l.mission].status = missions[l.mission].status
    OBVIOUS
  <2>1. l.mission \in MissionIds
    BY <1>1 DEF Memberships, LinksOK, LinkOK
  <2>2. l.trip \in Members(links', l.mission)
    BY MembersDef
  <2> QED BY <2>1, <2>2
<1>4. LinksOK' /\ LinksPointAtRows'
  <2>1. \A l \in links' : trips'[l.trip].status # "absent"
    <3> SUFFICES ASSUME NEW l \in links' PROVE trips'[l.trip].status # "absent"
      OBVIOUS
    <3>1. l.trip \in Trips /\ trips[l.trip].status # "absent"
      BY <1>1 DEF Memberships, LinksOK, LinkOK, LinksPointAtRows
    <3>2. CASE l.trip = t
      BY <3>1, <3>2
    <3>3. CASE l.trip # t
      BY <3>1, <3>3
    <3> QED BY <3>2, <3>3
  <2> QED BY <1>1, <1>3, <2>1 DEF Memberships, LinksOK, LinksPointAtRows
<1>5. ActiveFlagMirrorsMission'
  BY <1>1, <1>3 DEF Memberships, ActiveFlagMirrorsMission
<1>6. \A l \in links' : l.active => l.trip # t
  <2>1. PICK l \in links : l.mission = m /\ l.trip = t
    BY MembersDef
  <2>2. l.active
    BY <2>1 DEF Memberships, ActiveFlagMirrorsMission
  <2> QED BY <1>1, <2>1, <2>2 DEF Memberships, ActiveFlagMirrorsMission
<1>7. GroupMatchesMembership'
  <2>1. \A l \in links' : l.active => trips'[l.trip].group = l.mission
    BY <1>1, <1>6 DEF Memberships, LinksOK, LinkOK, GroupMatchesMembership
  <2>2. ASSUME NEW u \in Trips, trips'[u].group # None
        PROVE  /\ u \in Members(links', trips'[u].group)
               /\ missions'[trips'[u].group].status # "cancelled"
    <3>1. /\ u # t /\ trips'[u].group = trips[u].group
          /\ u \in Members(links, trips[u].group)
          /\ missions[trips[u].group].status # "cancelled"
      BY <2>2 DEF Memberships, GroupMatchesMembership
    <3>2. PICK l \in links : l.mission = trips[u].group /\ l.trip = u
      BY <3>1, MembersDef
    <3>3. l \in links'
      BY <1>2, <3>1, <3>2
    <3>4. u \in Members(links', trips[u].group)
      BY <3>2, <3>3, MembersDef
    <3>5. missions'[l.mission].status = missions[l.mission].status
      BY <1>3, <3>3
    <3> QED BY <3>1, <3>2, <3>4, <3>5
  <2> QED BY <2>1, <2>2 DEF GroupMatchesMembership
<1>8. CompletedMissionsAreOver'
  <2> SUFFICES ASSUME NEW k \in MissionIds, missions'[k].status = "completed",
                      NEW u \in Members(links', k)
               PROVE  trips'[u].status \in Finished
    BY DEF CompletedMissionsAreOver
  <2>1. k # m
    BY DEF MissionActive
  <2>2. u \in Members(links, k) /\ u \in Trips
    <3>1. PICK l \in links' : l.mission = k /\ l.trip = u
      BY MembersDef
    <3>2. u \in Members(links, k)
      BY <1>1, <3>1, MembersDef
    <3> QED BY <3>2, MembersAreTrips
  <2>3. trips[u].status \in Finished
    BY <2>1, <2>2 DEF Memberships, CompletedMissionsAreOver
  <2> QED BY <2>2, <2>3 DEF Finished
<1> QED BY <1>4, <1>5, <1>7, <1>8 DEF Memberships

(* Trips that move forward, or are cancelled out of no mission. *)
LEMMA ForwardMemberships ==
    ASSUME Memberships, UNCHANGED missionVars,
           \A t \in Trips :
              /\ trips[t].status # "absent" => trips'[t].status # "absent"
              /\ trips[t].status \in Finished => trips'[t].status \in Finished
              /\ \/ trips'[t].group = trips[t].group
                 \/ trips'[t].group = None /\ ActiveLinks(t) = {}
    PROVE  Memberships'
<1>1. missions' = missions /\ links' = links
  BY DEF missionVars
<1>2. MissionTableOK(missions') /\ LinksOK' /\ ActiveFlagMirrorsMission'
  BY <1>1 DEF Memberships, LinksOK, LinkOK, ActiveFlagMirrorsMission
<1>3. LinksPointAtRows'
  BY <1>1 DEF Memberships, LinksOK, LinkOK, LinksPointAtRows
<1>4. \A l \in links : l.active => trips'[l.trip].group = trips[l.trip].group
  BY DEF Memberships, LinksOK, LinkOK, ActiveLinks, LinksOf
<1>5. GroupMatchesMembership'
  BY <1>1, <1>4 DEF Memberships, GroupMatchesMembership
<1>6. CompletedMissionsAreOver'
  BY <1>1, MembersAreTrips DEF Memberships, CompletedMissionsAreOver
<1> QED BY <1>2, <1>3, <1>5, <1>6 DEF Memberships

(* What _sync_link_activity does to the links, one by one. *)
LEMMA AlignedLinks ==
    ASSUME LinksOK, NEW m, NEW status
    PROVE  /\ \A k \in Aligned(links, m, status) : \E l \in links :
                 /\ k = IF l.mission = m THEN [l EXCEPT !.active = status \in MissionActive] ELSE l
                 /\ LinkOK(k) /\ k.mission = l.mission /\ k.trip = l.trip
                 /\ IF l.mission = m THEN k.active = (status \in MissionActive) ELSE k = l
           /\ \A n : Members(Aligned(links, m, status), n) = Members(links, n)
<1> DEFINE image(l) == IF l.mission = m THEN [l EXCEPT !.active = status \in MissionActive] ELSE l
<1>1. ASSUME NEW l \in links
      PROVE  /\ LinkOK(image(l)) /\ image(l).mission = l.mission /\ image(l).trip = l.trip
             /\ IF l.mission = m THEN image(l).active = (status \in MissionActive) ELSE image(l) = l
  <2>1. LinkOK(l)
    BY DEF LinksOK
  <2>2. CASE l.mission = m
    <3>1. image(l) = [l EXCEPT !.active = status \in MissionActive]
      BY <2>2
    <3> QED BY <2>1, <2>2, <3>1 DEF LinkOK
  <2>3. CASE l.mission # m
    BY <2>1, <2>3
  <2> QED BY <2>2, <2>3
<1>2. Aligned(links, m, status) = {image(l) : l \in links}
  BY DEF Aligned
<1>3. \A k \in Aligned(links, m, status) : \E l \in links :
         /\ k = image(l)
         /\ LinkOK(k) /\ k.mission = l.mission /\ k.trip = l.trip
         /\ IF l.mission = m THEN k.active = (status \in MissionActive) ELSE k = l
  <2> HIDE DEF image
  <2> QED BY <1>1, <1>2
<1>4. ASSUME NEW n PROVE Members(Aligned(links, m, status), n) = Members(links, n)
  <2> HIDE DEF image
  <2>1. \A t : t \in Members(links, n) => t \in Members(Aligned(links, m, status), n)
    BY <1>1, <1>2, MembersDef
  <2>2. \A t : t \in Members(Aligned(links, m, status), n) => t \in Members(links, n)
    BY <1>3, MembersDef
  <2> QED BY <2>1, <2>2
<1> QED BY <1>3, <1>4

(* An active mission takes another status, and its links with it; when it is
   cancelled its members are on their own again. *)
LEMMA AlignedMemberships ==
    ASSUME Memberships, NEW m \in MissionIds, missions[m].status \in MissionActive,
           NEW status \in MissionActive \cup MissionOver,
           missions' = [missions EXCEPT ![m].status = status],
           links' = Aligned(links, m, status),
           \A t \in Trips :
              /\ trips[t].status # "absent" => trips'[t].status # "absent"
              /\ trips[t].status \in Finished => trips'[t].status \in Finished
              /\ trips'[t].group = IF status = "cancelled" /\ t \in Members(links, m)
                                   THEN None ELSE trips[t].group,
           status = "completed" => \A t \in Members(links, m) : trips'[t].status \in Finished
    PROVE  Memberships'
<1>0. LinksOK /\ MissionTableOK(missions)
  BY DEF Memberships
<1>1. /\ MissionTableOK(missions')
      /\ missions'[m].status = status
      /\ \A k \in MissionIds \ {m} : missions'[k].status = missions[k].status
  <2>1. /\ DOMAIN missions' = MissionIds
        /\ missions'[m] = [missions[m] EXCEPT !.status = status]
        /\ \A k \in MissionIds \ {m} : missions'[k] = missions[k]
    BY <1>0 DEF MissionTableOK
  <2>2. DOMAIN missions[m] = {"status", "vehicle", "driver", "dep", "arr"}
    BY <1>0 DEF MissionTableOK, MissionRowOK, NoMission
  <2>3. /\ missions'[m].status = status /\ DOMAIN missions'[m] = DOMAIN missions[m]
        /\ missions'[m].vehicle = missions[m].vehicle /\ missions'[m].driver = missions[m].driver
    BY <2>1, <2>2
  <2>4. missions[m].status # "absent"
    BY DEF MissionActive
  <2> QED BY <1>0, <2>1, <2>3, <2>4 DEF MissionTableOK, MissionRowOK
<1>2. \A k \in links' : \E l \in links :
         /\ k = IF l.mission = m THEN [l EXCEPT !.active = status \in MissionActive] ELSE l
         /\ LinkOK(k) /\ k.mission = l.mission /\ k.trip = l.trip
         /\ IF l.mission = m THEN k.active = (status \in MissionActive) ELSE k = l
  BY <1>0, AlignedLinks
<1>3. \A n : Members(links', n) = Members(links, n)
  BY <1>0, AlignedLinks
<1>4. \A k \in links' : \E l \in links :
         /\ k.active => l.active
         /\ k = IF l.mission = m THEN [l EXCEPT !.active = status \in MissionActive] ELSE l
         /\ k.mission = l.mission /\ k.trip = l.trip
  <2> SUFFICES ASSUME NEW k \in links', NEW l \in links, k.active, k.mission = l.mission,
                      l.mission # m => k = l
               PROVE  l.active
    BY <1>2
  <2>1. CASE l.mission = m
    BY <2>1 DEF Memberships, ActiveFlagMirrorsMission
  <2>2. CASE l.mission # m
    BY <2>2
  <2> QED BY <2>1, <2>2
<1>5. LinksOK'
  BY <1>2 DEF LinksOK
<1>6. LinksPointAtRows'
  <2> SUFFICES ASSUME NEW k \in links'
               PROVE  missions'[k.mission].status # "absent" /\ trips'[k.trip].status # "absent"
    BY DEF LinksPointAtRows
  <2>1. PICK l \in links : k.mission = l.mission /\ k.trip = l.trip
    BY <1>2
  <2>2. /\ l.mission \in MissionIds /\ l.trip \in Trips
        /\ missions[l.mission].status # "absent" /\ trips[l.trip].status # "absent"
    BY DEF Memberships, LinksOK, LinkOK, LinksPointAtRows
  <2> QED BY <1>1, <2>1, <2>2 DEF MissionActive, MissionOver
<1>7. ActiveFlagMirrorsMission'
  <2>1. ASSUME NEW k \in links'
        PROVE  k.active <=> missions'[k.mission].status \in MissionActive
    <3>1. PICK l \in links :
            /\ k.mission = l.mission
            /\ IF l.mission = m THEN k.active = (status \in MissionActive) ELSE k = l
      BY <1>2
    <3>2. l.mission \in MissionIds
      BY <1>0 DEF LinksOK, LinkOK
    <3>3. l.active <=> missions[l.mission].status \in MissionActive
      BY DEF Memberships, ActiveFlagMirrorsMission
    <3>4. CASE l.mission = m
      <4>1. missions'[k.mission].status = status
        BY <1>1, <3>1, <3>4
      <4>2. k.active = (status \in MissionActive)
        BY <3>1, <3>4
      <4> QED BY <4>1, <4>2
    <3>5. CASE l.mission # m
      BY <1>1, <3>1, <3>2, <3>3, <3>5
    <3> QED BY <3>4, <3>5
  <2>2. ASSUME NEW j \in links', NEW k \in links', j.active, k.active, j.trip = k.trip
        PROVE  j = k
    <3>1. PICK i \in links :
            /\ i.active /\ j.trip = i.trip
            /\ j = IF i.mission = m THEN [i EXCEPT !.active = status \in MissionActive] ELSE i
      BY <1>4, <2>2
    <3>2. PICK l \in links :
            /\ l.active /\ k.trip = l.trip
            /\ k = IF l.mission = m THEN [l EXCEPT !.active = status \in MissionActive] ELSE l
      BY <1>4, <2>2
    <3>3. i = l
      BY <2>2, <3>1, <3>2 DEF Memberships, ActiveFlagMirrorsMission
    <3> QED BY <3>1, <3>2, <3>3
  <2> QED BY <2>1, <2>2 DEF ActiveFlagMirrorsMission
<1>8. GroupMatchesMembership'
  <2>1. ASSUME NEW k \in links', k.active PROVE trips'[k.trip].group = k.mission
    <3>1. PICK l \in links : l.active /\ k.mission = l.mission /\ k.trip = l.trip
      BY <1>4, <2>1
    <3>2. l.trip \in Trips /\ l.mission \in MissionIds /\ trips[l.trip].group = l.mission
      BY <3>1 DEF Memberships, LinksOK, LinkOK, GroupMatchesMembership
    <3>3. ASSUME status = "cancelled", l.trip \in Members(links, m) PROVE FALSE
      <4>1. PICK i \in links : i.mission = m /\ i.trip = l.trip
        BY <3>3, MembersDef
      <4>2. i = l
        BY <3>1, <4>1 DEF Memberships, ActiveFlagMirrorsMission
      <4>3. missions'[k.mission].status \in MissionActive
        BY <1>7, <2>1 DEF ActiveFlagMirrorsMission
      <4> QED BY <1>1, <3>1, <3>3, <4>1, <4>2, <4>3 DEF MissionActive
    <3> QED BY <3>1, <3>2, <3>3
  <2>2. ASSUME NEW t \in Trips, trips'[t].group # None
        PROVE  /\ t \in Members(links', trips'[t].group)
               /\ missions'[trips'[t].group].status # "cancelled"
    <3>1. /\ trips'[t].group = trips[t].group
          /\ ~(status = "cancelled" /\ t \in Members(links, m))
      BY <2>2
    <3>2. /\ t \in Members(links, trips[t].group) /\ trips[t].group \in MissionIds
          /\ missions[trips[t].group].status # "cancelled"
      BY <2>2, <3>1, GroupedIsMember DEF Memberships, GroupMatchesMembership
    <3>3. missions'[trips[t].group].status # "cancelled"
      BY <1>1, <3>1, <3>2
    <3> QED BY <1>3, <3>1, <3>2, <3>3
  <2> QED BY <2>1, <2>2 DEF GroupMatchesMembership
<1>9. CompletedMissionsAreOver'
  <2> SUFFICES ASSUME NEW k \in MissionIds, missions'[k].status = "completed",
                      NEW t \in Members(links', k)
               PROVE  trips'[t].status \in Finished
    BY DEF CompletedMissionsAreOver
  <2>1. t \in Members(links, k) /\ t \in Trips
    BY <1>3, MembersAreTrips
  <2>2. CASE k = m
    BY <1>1, <2>1, <2>2
  <2>3. CASE k # m
    BY <1>1, <2>1, <2>3 DEF Memberships, CompletedMissionsAreOver
  <2> QED BY <2>2, <2>3
<1> QED BY <1>1, <1>5, <1>6, <1>7, <1>8, <1>9 DEF Memberships

-----------------------------------------------------------------------------
(* The requests on missions *)

(* The trips a mission is created with. *)
Chosen(s) == {s[i] : i \in DOMAIN s}

(* The row and the links of a mission that is created. *)
LEMMA CreateJoins ==
    ASSUME TypeOK, Memberships, NEW m \in MissionIds, NEW v \in Vehicles,
           NEW d \in Drivers \cup {None}, NEW s,
           \A i \in DOMAIN s : s[i] \in Trips,
           \A i, j \in DOMAIN s : s[i] = s[j] => i = j,
           CreateMission(m, v, d, s)
    PROVE  /\ Memberships'
           /\ Chosen(s) \in SUBSET Trips
           /\ \A t \in Chosen(s) : trips[t].status = "scheduled"
           /\ AssignResources(Chosen(s), m, v, d)
<1> DEFINE S == Chosen(s)
           N == {NewLink(m, s[i], i - 1) : i \in DOMAIN s}
           row == [NoMission EXCEPT !.status = IF d = None THEN "planned" ELSE "dispatched",
                                    !.vehicle = v, !.driver = d]
           ms == [missions EXCEPT ![m] = row]
<1>1. /\ missions[m].status = "absent"
      /\ \A t \in S : Groupable(t)
      /\ AssignResources(S, m, v, d)
      /\ links' = links \cup N
      /\ missions' = Rebuilt(ms, trips, links \cup N, m)
  BY DEF CreateMission, NextId, Chosen
<1>2. S \in SUBSET Trips
  BY DEF Chosen
<1>3. /\ \A l \in N : LinkOK(l) /\ l.mission = m /\ l.active = TRUE
      /\ \A k, l \in N : k.trip = l.trip => k = l
      /\ S = {l.trip : l \in N}
  <2>1. \A i \in DOMAIN s :
          LET l == NewLink(m, s[i], i - 1)
          IN LinkOK(l) /\ l.mission = m /\ l.active = TRUE /\ l.trip = s[i]
    BY DEF NewLink, LinkOK
  <2> QED BY <2>1 DEF Chosen
<1>4. MissionTableOK(ms) /\ ms[m].status \in MissionActive
      /\ \A k \in MissionIds \ {m} : ms[k] = missions[k]
  <2>1. MissionRowOK(row) /\ row.status \in MissionActive
    BY DEF MissionRowOK, NoMission, MissionActive
  <2> HIDE DEF row
  <2> QED BY <2>1 DEF Memberships, MissionTableOK
<1> HIDE DEF S, N, ms
<1>5. /\ MissionTableOK(missions') /\ missions'[m].status \in MissionActive
      /\ \A k \in MissionIds \ {m} : missions'[k].status = missions[k].status
  BY <1>1, <1>4, RebuiltKeeps
<1>6. \A t \in Trips : /\ trips'[t].status = trips[t].status
                       /\ trips'[t].group = IF t \in S THEN m ELSE trips[t].group
  BY <1>1, <1>2, AssignEffect, JoinedRow
<1>7. Memberships'
  <2>1. missions[m].status \in MissionActive \cup {"absent"}
    BY <1>1
  <2>2. Joining(m, S, N)
    BY <1>1, <1>3, <1>5, <1>6 DEF Joining
  <2> QED BY <1>2, <2>1, <2>2, JoiningMemberships
<1> QED BY <1>1, <1>2, <1>7 DEF S, Groupable

(* The row and the link of a trip that is added to a mission. *)
LEMMA AddJoins ==
    ASSUME TypeOK, Memberships, NEW m \in MissionIds, NEW t \in Trips, AddTrip(m, t)
    PROVE  /\ Memberships'
           /\ trips[t].status = "scheduled"
           /\ missions[m].vehicle \in Vehicles /\ missions[m].driver \in Drivers \cup {None}
           /\ AssignResources({t}, m, missions[m].vehicle, missions[m].driver)
<1> DEFINE v == missions[m].vehicle
           d == missions[m].driver
           S == {t}
           N == {NewLink(m, t, Cardinality(Members(links, m)))}
<1>1. /\ missions[m].status \in MissionActive
      /\ Groupable(t)
      /\ AssignResources(S, m, v, d)
      /\ links' = links \cup N
      /\ missions' = Rebuilt(missions, trips, links \cup N, m)
  BY DEF AddTrip
<1>2. MissionTableOK(missions) /\ MissionRowOK(missions[m])
  BY DEF Memberships, MissionTableOK
<1>3. v \in Vehicles /\ d \in Drivers \cup {None}
  BY <1>1, <1>2 DEF MissionRowOK, MissionActive
<1>4. /\ \A l \in N : LinkOK(l) /\ l.mission = m /\ l.active = TRUE
      /\ \A k, l \in N : k.trip = l.trip => k = l
      /\ S = {l.trip : l \in N}
  BY DEF NewLink, LinkOK
<1>s. S \in SUBSET Trips /\ \A u \in S : Groupable(u)
  BY <1>1
<1> HIDE DEF S, N, v, d
<1>5. /\ MissionTableOK(missions') /\ missions'[m].status \in MissionActive
      /\ \A k \in MissionIds \ {m} : missions'[k].status = missions[k].status
  BY <1>1, <1>2, RebuiltKeeps
<1>6. \A u \in Trips : /\ trips'[u].status = trips[u].status
                       /\ trips'[u].group = IF u \in S THEN m ELSE trips[u].group
  BY <1>1, <1>3, <1>s, AssignEffect, JoinedRow
<1>7. Memberships'
  <2>1. missions[m].status \in MissionActive \cup {"absent"}
    BY <1>1
  <2>2. Joining(m, S, N)
    BY <1>1, <1>4, <1>5, <1>6, <1>s DEF Joining
  <2> QED BY <1>s, <2>1, <2>2, JoiningMemberships
<1> QED BY <1>1, <1>3, <1>7 DEF S, v, d, Groupable

(* What the row of a mission becomes when a trip leaves it. *)
LEMMA LeftByRow ==
    ASSUME MissionTableOK(missions), NEW ls, NEW m \in MissionIds,
           missions[m].status # "absent"
    PROVE  /\ MissionTableOK(LeftBy(ls, m))
           /\ \A k \in MissionIds \ {m} : LeftBy(ls, m)[k].status = missions[k].status
           /\ LeftBy(ls, m)[m].status =
                  IF Members(ls, m) = {} THEN "cancelled" ELSE missions[m].status
           /\ LeftBy(ls, m)[m].vehicle = missions[m].vehicle
<1> DEFINE ms == Rebuilt(missions, trips, ls, m)
<1>1. /\ MissionTableOK(ms)
      /\ \A k \in MissionIds : ms[k].status = missions[k].status
      /\ ms[m].vehicle = missions[m].vehicle
  BY RebuiltKeeps
<1>2. LeftBy(ls, m) = IF Members(ls, m) = {} THEN [ms EXCEPT ![m].status = "cancelled"] ELSE ms
  BY DEF LeftBy
<1> HIDE DEF ms
<1>3. CASE Members(ls, m) # {}
  BY <1>1, <1>2, <1>3
<1>4. CASE Members(ls, m) = {}
  <2> DEFINE after == [ms EXCEPT ![m].status = "cancelled"]
  <2>1. /\ DOMAIN after = MissionIds
        /\ after[m] = [ms[m] EXCEPT !.status = "cancelled"]
        /\ \A k \in MissionIds \ {m} : after[k] = ms[k]
    BY <1>1 DEF MissionTableOK
  <2>2. MissionRowOK(ms[m]) /\ DOMAIN ms[m] = {"status", "vehicle", "driver", "dep", "arr"}
    BY <1>1 DEF MissionTableOK, MissionRowOK, NoMission
  <2>3. /\ after[m].status = "cancelled" /\ DOMAIN after[m] = DOMAIN ms[m]
        /\ after[m].vehicle = ms[m].vehicle /\ after[m].driver = ms[m].driver
    BY <2>1, <2>2
  <2>4. ms[m].status # "absent"
    BY <1>1
  <2>5. MissionTableOK(after)
    BY <1>1, <2>1, <2>2, <2>3, <2>4 DEF MissionTableOK, MissionRowOK, MissionOver
  <2> QED BY <1>1, <1>2, <1>4, <2>1, <2>3, <2>5
<1> QED BY <1>3, <1>4

LEMMA RemoveLeaves ==
    ASSUME TypeOK, Memberships, NEW m \in MissionIds, NEW t \in Trips, RemoveTrip(m, t)
    PROVE  Memberships'
<1>1. /\ missions[m].status \in MissionActive /\ t \in Members(links, m)
      /\ Release({t})
      /\ links' = Without(links, m, {t})
      /\ missions' = LeftBy(links', m)
  BY DEF RemoveTrip
<1>2. MissionTableOK(missions) /\ missions[m].status # "absent"
  BY <1>1 DEF Memberships, MissionActive
<1>3. /\ MissionTableOK(missions')
      /\ \A k \in MissionIds \ {m} : missions'[k].status = missions[k].status
      /\ missions'[m].status = IF Members(links', m) = {} THEN "cancelled" ELSE missions[m].status
  BY <1>1, <1>2, LeftByRow
<1>4. /\ trips'[t].group = None /\ trips'[t].status = trips[t].status
      /\ \A u \in Trips \ {t} : trips'[u] = trips[u]
  BY <1>1, ReleaseEffect DEF LeavesAlone
<1> QED BY <1>1, <1>3, <1>4, LeavingMemberships

LEMMA CancelDissolves ==
    ASSUME TypeOK, Memberships, NEW m \in MissionIds, CancelMission(m)
    PROVE  Memberships'
<1>1. /\ missions[m].status \in MissionActive
      /\ Release(Members(links, m))
      /\ missions' = [missions EXCEPT ![m].status = "cancelled"]
      /\ links' = Aligned(links, m, "cancelled")
  BY DEF CancelMission
<1>2. Members(links, m) \in SUBSET Trips
  BY MembersAreTrips
<1>3. \A t \in Trips :
        /\ trips'[t].status = trips[t].status
        /\ trips'[t].group = IF t \in Members(links, m) THEN None ELSE trips[t].group
  BY <1>1, <1>2, ReleaseEffect DEF LeavesAlone
<1>4. "cancelled" \in MissionActive \cup MissionOver
  BY DEF MissionOver
<1> QED BY <1>1, <1>3, <1>4, AlignedMemberships

(* Orderings are what create_mission is given: distinct trips, in order. *)
LEMMA OrderingsShape ==
    ASSUME NEW S \in SUBSET Trips, NEW s \in Orderings(S)
    PROVE  /\ \A i \in DOMAIN s : s[i] \in Trips
           /\ \A i, j \in DOMAIN s : s[i] = s[j] => i = j
BY DEF Orderings

LEMMA MissionRequestKeeps ==
    ASSUME TypeOK, JourneyInv, Memberships, NEW m \in MissionIds, MissionRequest(m)
    PROVE  Memberships' /\ Rearranged
<1>1. ASSUME NEW v \in Vehicles, NEW d \in Drivers \cup {None}, NEW S \in SUBSET Trips,
             NEW s \in Orderings(S), CreateMission(m, v, d, s)
      PROVE  Memberships' /\ Rearranged
  <2>1. /\ \A i \in DOMAIN s : s[i] \in Trips
        /\ \A i, j \in DOMAIN s : s[i] = s[j] => i = j
    BY <1>1, OrderingsShape
  <2>2. /\ Memberships'
        /\ Chosen(s) \in SUBSET Trips /\ \A t \in Chosen(s) : trips[t].status = "scheduled"
        /\ AssignResources(Chosen(s), m, v, d)
    BY <1>1, <2>1, CreateJoins
  <2> QED BY <2>2, AssignRearranges
<1>2. ASSUME NEW t \in Trips, AddTrip(m, t) PROVE Memberships' /\ Rearranged
  <2>1. {t} \in SUBSET Trips
    OBVIOUS
  <2> QED BY <1>2, <2>1, AddJoins, AssignRearranges
<1>3. ASSUME NEW t \in Trips, RemoveTrip(m, t) PROVE Memberships' /\ Rearranged
  <2>1. Release({t}) /\ {t} \in SUBSET Trips
    BY <1>3 DEF RemoveTrip
  <2> QED BY <1>3, <2>1, RemoveLeaves, ReleaseRearranges
<1>4. ASSUME CancelMission(m) PROVE Memberships' /\ Rearranged
  <2>1. Release(Members(links, m)) /\ Members(links, m) \in SUBSET Trips
    BY <1>4, MembersAreTrips DEF CancelMission
  <2> QED BY <1>4, <2>1, CancelDissolves, ReleaseRearranges
<1> QED BY <1>1, <1>2, <1>3, <1>4 DEF MissionRequest

LEMMA MissionRequestHold ==
    ASSUME TypeOK, JourneyInv, Memberships, HoldInv, NEW m \in MissionIds, MissionRequest(m)
    PROVE  HoldInv' /\ HoldKept
<1>1. ASSUME NEW v \in Vehicles, NEW d \in Drivers \cup {None}, NEW S \in SUBSET Trips,
             NEW s \in Orderings(S), CreateMission(m, v, d, s)
      PROVE  HoldInv' /\ HoldKept
  <2>1. /\ \A i \in DOMAIN s : s[i] \in Trips
        /\ \A i, j \in DOMAIN s : s[i] = s[j] => i = j
    BY <1>1, OrderingsShape
  <2>2. Chosen(s) \in SUBSET Trips /\ AssignResources(Chosen(s), m, v, d)
    BY <1>1, <2>1, CreateJoins
  <2>3. \A i \in DOMAIN s : trips[s[i]].vehicle # v => ~Blocked(v, Joined(s[i], m, v, d))
    BY <1>1 DEF CreateMission, Assignable
  <2>4. \A t \in Chosen(s) : trips[t].vehicle # v => ~Blocked(v, Joined(t, m, v, d))
    BY <2>3 DEF Chosen
  <2> QED BY <2>2, <2>4, AssignHold
<1>2. ASSUME NEW t \in Trips, AddTrip(m, t) PROVE HoldInv' /\ HoldKept
  <2> DEFINE v == missions[m].vehicle
             d == missions[m].driver
  <2>1. /\ v \in Vehicles /\ d \in Drivers \cup {None} /\ {t} \in SUBSET Trips
        /\ AssignResources({t}, m, v, d)
    BY <1>2, AddJoins
  <2>2. Assignable(<<t>>, m, v, d)
    BY <1>2 DEF AddTrip
  <2>3. trips[t].vehicle # v => ~Blocked(v, Joined(t, m, v, d))
    <3>1. 1 \in DOMAIN <<t>> /\ <<t>>[1] = t
      OBVIOUS
    <3> QED BY <2>2, <3>1 DEF Assignable
  <2> HIDE DEF v, d
  <2> QED BY <2>1, <2>3, AssignHold
<1>3. ASSUME NEW t \in Trips, RemoveTrip(m, t) PROVE HoldInv' /\ HoldKept
  <2>1. Release({t}) /\ {t} \in SUBSET Trips
    BY <1>3 DEF RemoveTrip
  <2> QED BY <2>1, ReleaseHold
<1>4. ASSUME CancelMission(m) PROVE HoldInv' /\ HoldKept
  <2>1. Release(Members(links, m)) /\ Members(links, m) \in SUBSET Trips
    BY <1>4, MembersAreTrips DEF CancelMission
  <2> QED BY <2>1, ReleaseHold
<1> QED BY <1>1, <1>2, <1>3, <1>4 DEF MissionRequest

-----------------------------------------------------------------------------
(* The requests on trips and reservations, and what they do to a mission *)

(* A departure, a return or a closing moves the status of one trip. *)
LEMMA RunMoves ==
    ASSUME TypeOK, NEW t \in Trips, StartTrip(t) \/ EndTrip(t) \/ CloseTrip(t)
    PROVE  /\ trips[t].status \in {"scheduled", "in_progress", "returned"}
           /\ trips[t].status = "returned" => trips'[t].status = "closed"
           /\ trips'[t].status \in HasLeft
           /\ trips'[t].group = trips[t].group
           /\ \A u \in Trips \ {t} : trips'[u] = trips[u]
<1>1. \E new \in HasLeft :
        /\ trips' = [trips EXCEPT ![t].status = new]
        /\ trips[t].status \in {"scheduled", "in_progress", "returned"}
        /\ trips[t].status = "returned" => new = "closed"
  BY DEF StartTrip, EndTrip, CloseTrip, HasLeft
<1>2. PICK new \in HasLeft :
        /\ trips' = [trips EXCEPT ![t].status = new]
        /\ trips[t].status \in {"scheduled", "in_progress", "returned"}
        /\ trips[t].status = "returned" => new = "closed"
  BY <1>1
<1>3. TripRowOK(trips[t]) /\ DOMAIN trips = Trips
  BY DEF TypeOK
<1>4. trips'[t].status = new /\ trips'[t].group = trips[t].group
  BY <1>2, <1>3 DEF TripRowOK, NoTrip
<1> QED BY <1>2, <1>3, <1>4

LEMMA RunForward ==
    ASSUME TypeOK, NEW t \in Trips, StartTrip(t) \/ EndTrip(t) \/ CloseTrip(t)
    PROVE  \A u \in Trips :
              /\ trips[u].status # "absent" => trips'[u].status # "absent"
              /\ trips[u].status \in Finished => trips'[u].status \in Finished
              /\ trips'[u].group = trips[u].group
<1> SUFFICES ASSUME NEW u \in Trips
             PROVE  /\ trips[u].status # "absent" => trips'[u].status # "absent"
                    /\ trips[u].status \in Finished => trips'[u].status \in Finished
                    /\ trips'[u].group = trips[u].group
  OBVIOUS
<1>1. CASE u = t
  BY <1>1, RunMoves DEF HasLeft, Finished
<1>2. CASE u # t
  BY <1>2, RunMoves
<1> QED BY <1>1, <1>2

(* The status a mission gets is one of an active mission, or "completed" when
   all its members are over, and a mission all of whose members are over is
   completed. *)
LEMMA ProgressSound ==
    ASSUME NEW mission, NEW statuses, statuses # {}
    PROVE  /\ ProgressStatus(mission, statuses) \in MissionActive \cup {"completed"}
           /\ ProgressStatus(mission, statuses) = "completed" <=> statuses \subseteq Finished
<1>1. CASE statuses \subseteq Finished
  <2>1. ProgressStatus(mission, statuses) = "completed"
    BY <1>1 DEF ProgressStatus, Finished
  <2> QED BY <1>1, <2>1
<1>2. CASE ~(statuses \subseteq Finished)
  <2>1. ProgressStatus(mission, statuses) \in {"in_progress", "dispatched", "planned"}
    BY <1>2 DEF ProgressStatus
  <2> QED BY <1>2, <2>1 DEF MissionActive
<1> QED BY <1>1, <1>2

(* A mission is brought up to date after one of its members has moved. *)
LEMMA SyncKeeps ==
    ASSUME TypeOK, Memberships, NEW t \in Trips,
           StartTrip(t) \/ EndTrip(t) \/ CloseTrip(t), SyncMission(t)
    PROVE  Memberships'
<1>1. CASE UNCHANGED missionVars
  BY <1>1, RunForward, ForwardMemberships
<1>2. ASSUME ~UNCHANGED missionVars PROVE Memberships'
  <2>1. PICK first \in LinksOf(t) : SyncProgress(first.mission)
    BY <1>2 DEF SyncMission
  <2> DEFINE m == first.mission
             statuses == {trips'[u].status : u \in Members(links, m)}
             status == ProgressStatus(missions[m], statuses)
  <2>2. first \in links /\ first.trip = t
    BY DEF LinksOf
  <2>3. m \in MissionIds /\ missions[m].status # "absent" /\ t \in Members(links, m)
    BY <2>2, MembersDef DEF Memberships, LinksOK, LinkOK, LinksPointAtRows
  <2>4. /\ missions[m].status # "cancelled" /\ missions[m].status # status
        /\ missions' = [missions EXCEPT ![m].status = status]
        /\ links' = Aligned(links, m, status)
    BY <1>2, <2>1 DEF SyncProgress
  <2>5. statuses # {}
    BY <2>3
  <2>6. /\ status \in MissionActive \cup {"completed"}
        /\ status = "completed" <=> statuses \subseteq Finished
    BY <2>5, ProgressSound
  <2>7. missions[m].status # "completed"
    <3> SUFFICES ASSUME missions[m].status = "completed" PROVE FALSE
      OBVIOUS
    <3>1. \A u \in Members(links, m) : trips[u].status \in Finished /\ u \in Trips
      BY <2>3, MembersAreTrips DEF Memberships, CompletedMissionsAreOver
    <3>2. statuses \subseteq Finished
      BY <3>1, RunForward
    <3> QED BY <2>4, <2>6, <3>2
  <2>8. missions[m].status \in MissionActive
    BY <2>3, <2>4, <2>7 DEF Memberships, MissionTableOK, MissionRowOK, MissionOver
  <2>9. status = "completed" => \A u \in Members(links, m) : trips'[u].status \in Finished
    BY <2>6
  <2>10. status \in MissionActive \cup MissionOver /\ status # "cancelled"
    BY <2>6 DEF MissionActive, MissionOver
  <2> HIDE DEF m, status
  <2> QED BY <2>3, <2>4, <2>8, <2>9, <2>10, RunForward, AlignedMemberships
<1> QED BY <1>1, <1>2

(* A cancelled trip leaves its mission. *)
LEMMA DetachKeeps ==
    ASSUME TypeOK, Memberships, NEW t \in Trips, CancelTrip(t), Detach(t)
    PROVE  Memberships'
<1>1. /\ trips[t].status = "scheduled"
      /\ trips'[t].status = "cancelled" /\ trips'[t].group = None
      /\ \A u \in Trips \ {t} : trips'[u] = trips[u]
  <2>1. TripRowOK(trips[t]) /\ DOMAIN trips = Trips
    BY DEF TypeOK
  <2>2. trips'[t] = [trips[t] EXCEPT !.status = "cancelled", !.group = None]
    BY <2>1 DEF CancelTrip
  <2>3. trips'[t].status = "cancelled" /\ trips'[t].group = None
    BY <2>1, <2>2 DEF TripRowOK, NoTrip
  <2> QED BY <2>1, <2>3 DEF CancelTrip
<1>2. CASE trips[t].group = None \/ ActiveLinks(t) = {}
  <2>1. UNCHANGED missionVars
    BY <1>2 DEF Detach
  <2>2. ASSUME NEW l \in ActiveLinks(t) PROVE FALSE
    <3>1. l \in links /\ l.trip = t /\ l.active
      BY <2>2 DEF ActiveLinks, LinksOf
    <3>2. trips[t].group = l.mission /\ l.mission \in MissionIds
      BY <3>1 DEF Memberships, LinksOK, LinkOK, GroupMatchesMembership
    <3> QED BY <1>2, <2>2, <3>2, NoneIsNoMission
  <2>3. \A u \in Trips :
          /\ trips[u].status # "absent" => trips'[u].status # "absent"
          /\ trips[u].status \in Finished => trips'[u].status \in Finished
          /\ \/ trips'[u].group = trips[u].group
             \/ trips'[u].group = None /\ ActiveLinks(u) = {}
    BY <1>1, <2>2 DEF Finished
  <2> QED BY <2>1, <2>3, ForwardMemberships
<1>3. CASE ~(trips[t].group = None \/ ActiveLinks(t) = {})
  <2> DEFINE m == (CHOOSE l \in ActiveLinks(t) : TRUE).mission
  <2>1. PICK l \in ActiveLinks(t) : m = l.mission
    BY <1>3
  <2>2. /\ links' = Without(links, m, {t})
        /\ missions' = LeftBy(links', m)
    BY <1>3 DEF Detach
  <2> HIDE DEF m
  <2>3. l \in links /\ l.trip = t /\ l.active
    BY DEF ActiveLinks, LinksOf
  <2>4. /\ m \in MissionIds /\ missions[m].status \in MissionActive
        /\ t \in Members(links, m)
    BY <2>1, <2>3, MembersDef DEF Memberships, LinksOK, LinkOK, ActiveFlagMirrorsMission
  <2>5. MissionTableOK(missions) /\ missions[m].status # "absent"
    BY <2>4 DEF Memberships, MissionActive
  <2>6. /\ MissionTableOK(missions')
        /\ \A k \in MissionIds \ {m} : missions'[k].status = missions[k].status
        /\ missions'[m].status = IF Members(links', m) = {} THEN "cancelled" ELSE missions[m].status
    BY <2>2, <2>4, <2>5, LeftByRow
  <2> QED BY <1>1, <2>2, <2>4, <2>6, LeavingMemberships
<1> QED BY <1>2, <1>3

(* A reservation is deleted with its trips and their links. *)
LEMMA DeletionKeeps ==
    ASSUME TypeOK, Memberships, NEW r \in Reservations, DeleteReservation(r), Unlink(r)
    PROVE  Memberships'
<1>1. /\ links' \subseteq links /\ missions' = missions
      /\ \A l \in links' : l.trip[1] # r
      /\ \A l \in links : l.trip[1] # r => l \in links'
  BY DEF Unlink
<1>2. \A t \in Trips : trips'[t] = IF t[1] = r THEN NoTrip ELSE trips[t]
  BY DEF DeleteReservation, LegsOf
<1>3. \A l \in links' : LinkOK(l) /\ trips'[l.trip] = trips[l.trip]
  BY <1>1, <1>2 DEF Memberships, LinksOK, LinkOK
<1>4. LinksOK' /\ LinksPointAtRows' /\ ActiveFlagMirrorsMission' /\ MissionTableOK(missions')
  BY <1>1, <1>3 DEF Memberships, LinksOK, LinksPointAtRows, ActiveFlagMirrorsMission
<1>5. GroupMatchesMembership'
  <2>1. \A l \in links' : l.active => trips'[l.trip].group = l.mission
    BY <1>1, <1>3 DEF Memberships, GroupMatchesMembership
  <2>2. ASSUME NEW t \in Trips, trips'[t].group # None
        PROVE  /\ t \in Members(links', trips'[t].group)
               /\ missions'[trips'[t].group].status # "cancelled"
    <3>1. t[1] # r /\ trips'[t] = trips[t]
      BY <1>2, <2>2 DEF NoTrip
    <3>2. /\ t \in Members(links, trips[t].group)
          /\ missions[trips[t].group].status # "cancelled"
      BY <2>2, <3>1 DEF Memberships, GroupMatchesMembership
    <3>3. PICK l \in links : l.mission = trips[t].group /\ l.trip = t
      BY <3>2, MembersDef
    <3>4. t \in Members(links', trips[t].group)
      BY <1>1, <3>1, <3>3, MembersDef
    <3> QED BY <1>1, <3>1, <3>2, <3>4
  <2> QED BY <2>1, <2>2 DEF GroupMatchesMembership
<1>6. CompletedMissionsAreOver'
  <2> SUFFICES ASSUME NEW k \in MissionIds, missions'[k].status = "completed",
                      NEW t \in Members(links', k)
               PROVE  trips'[t].status \in Finished
    BY DEF CompletedMissionsAreOver
  <2>1. PICK l \in links' : l.mission = k /\ l.trip = t
    BY MembersDef
  <2>2. t \in Members(links, k) /\ trips'[t] = trips[t]
    BY <1>1, <1>3, <2>1, MembersDef
  <2> QED BY <1>1, <2>2 DEF Memberships, CompletedMissionsAreOver
<1> QED BY <1>4, <1>5, <1>6 DEF Memberships

(* A trip that exists keeps its status and its group. *)
KeptTrip(old, new) ==
    IF old.status = "absent" THEN new.group \in {None, old.group}
    ELSE new.status = old.status /\ new.group = old.group

LEMMA EnsuredKeeps ==
    ASSUME TypeOK, NEW r \in Reservations, NEW row, NEW t \in Trips
    PROVE  /\ KeptTrip(trips[t], EnsuredTrips(r, row)[t])
           /\ DOMAIN EnsuredTrips(r, row)[t] = DOMAIN NoTrip
<1>1. DOMAIN trips[t] = DOMAIN NoTrip
  BY DEF TypeOK, TripRowOK
<1>2. CASE t \in LegsOf(r) /\ Wanted(t, row)
  <2>1. EnsuredTrips(r, row)[t] = EnsuredTrip(t, row, trips[t])
    BY <1>2 DEF EnsuredTrips
  <2> QED BY <1>1, <2>1 DEF KeptTrip, EnsuredTrip, NoTrip
<1>3. CASE ~(t \in LegsOf(r) /\ Wanted(t, row))
  BY <1>1, <1>3 DEF EnsuredTrips, KeptTrip
<1> QED BY <1>2, <1>3

LEMMA PlanningKeeps ==
    ASSUME TypeOK, Memberships, NEW r \in Reservations, ReservationChange(r)
    PROVE  Memberships'
<1>1. \A t \in Trips : KeptTrip(trips[t], trips'[t])
  <2>1. CASE CancelReservation(r)
    BY <2>1 DEF CancelReservation, KeptTrip
  <2>2. ASSUME NEW v \in Vehicles, AssignVehicle(r, v)
        PROVE  \A t \in Trips : KeptTrip(trips[t], trips'[t])
    <3>1. PICK row : trips' = GivenToLegs(EnsuredTrips(r, row), row, r, "vehicle", v)
      BY <2>2 DEF AssignVehicle
    <3> DEFINE ensured == EnsuredTrips(r, row)
    <3>2. \A t \in Trips : KeptTrip(trips[t], ensured[t]) /\ DOMAIN ensured[t] = DOMAIN NoTrip
      BY EnsuredKeeps
    <3>3. trips' = GivenToLegs(ensured, row, r, "vehicle", v)
      BY <3>1
    <3> HIDE DEF ensured
    <3>4. \A t \in Trips : /\ trips'[t].status = ensured[t].status
                            /\ trips'[t].group = ensured[t].group
      BY <3>2, <3>3 DEF GivenToLegs, NoTrip
    <3> QED BY <3>2, <3>4 DEF KeptTrip
  <2>3. ASSUME NEW d \in Drivers, AssignDriver(r, d)
        PROVE  \A t \in Trips : KeptTrip(trips[t], trips'[t])
    <3>1. PICK row : trips' = GivenToLegs(EnsuredTrips(r, row), row, r, "driver", d)
      BY <2>3 DEF AssignDriver
    <3> DEFINE ensured == EnsuredTrips(r, row)
    <3>2. \A t \in Trips : KeptTrip(trips[t], ensured[t]) /\ DOMAIN ensured[t] = DOMAIN NoTrip
      BY EnsuredKeeps
    <3>3. trips' = GivenToLegs(ensured, row, r, "driver", d)
      BY <3>1
    <3> HIDE DEF ensured
    <3>4. \A t \in Trips : /\ trips'[t].status = ensured[t].status
                            /\ trips'[t].group = ensured[t].group
      BY <3>2, <3>3 DEF GivenToLegs, NoTrip
    <3> QED BY <3>2, <3>4 DEF KeptTrip
  <2>4. ASSUME NEW move \in Moves, Reschedule(r, move)
        PROVE  \A t \in Trips : KeptTrip(trips[t], trips'[t])
    <3>1. PICK row : trips' = EnsuredTrips(r, row)
      BY <2>4 DEF Reschedule
    <3> QED BY <3>1, EnsuredKeeps
  <2> QED BY <2>1, <2>2, <2>3, <2>4 DEF ReservationChange
<1>2. UNCHANGED missionVars
  BY DEF ReservationChange
<1> QED BY <1>1, <1>2, TripsKeptMemberships DEF KeptTrip

LEMMA TripAssignmentKeeps ==
    ASSUME TypeOK, Memberships, NEW t \in Trips, TripAssignment(t)
    PROVE  Memberships'
<1>1. DOMAIN trips = Trips /\ \A u \in Trips : DOMAIN trips[u] = DOMAIN NoTrip
  BY DEF TypeOK, TripRowOK
<1>2. \E x : \/ trips' = [trips EXCEPT ![t] = [trips[t] EXCEPT !.vehicle = x]]
             \/ trips' = [trips EXCEPT ![t] = [trips[t] EXCEPT !.driver = x]]
  BY DEF TripAssignment, AssignVehicleToTrip, AssignDriverToTrip
<1>3. \A u \in Trips : KeptTrip(trips[u], trips'[u])
  BY <1>1, <1>2 DEF KeptTrip, NoTrip
<1>4. UNCHANGED missionVars
  BY DEF TripAssignment
<1> QED BY <1>3, <1>4, TripsKeptMemberships DEF KeptTrip

(* Every request on a managed reservation is one of module Transport. *)
LEMMA ManagedRequestKeeps ==
    ASSUME TypeOK, Memberships, NEW r \in Managed, ManagedRequest(r)
    PROVE  Memberships' /\ Next
<1>0. r \in Reservations /\ LegsOf(r) \subseteq Trips
  BY MissionsAssumption DEF LegsOf
<1>1. CASE ReservationChange(r)
  <2>1. ReservationRequest(r)
    BY <1>1 DEF ReservationChange, ReservationRequest
  <2> QED BY <1>0, <1>1, <2>1, PlanningKeeps DEF Next
<1>2. CASE DeleteReservation(r) /\ Unlink(r)
  <2>1. ReservationRequest(r)
    BY <1>2 DEF ReservationRequest
  <2> QED BY <1>0, <1>2, <2>1, DeletionKeeps DEF Next
<1>3. ASSUME NEW t \in LegsOf(r), TripAssignment(t) PROVE Memberships' /\ Next
  <2>1. t \in Trips /\ TripRequest(t)
    BY <1>0, <1>3 DEF TripAssignment, TripRequest
  <2> QED BY <1>3, <2>1, TripAssignmentKeeps DEF Next
<1> QED BY <1>1, <1>2, <1>3 DEF ManagedRequest

-----------------------------------------------------------------------------
(* The rows of the tables: a mission has a window, a departure and an arrival
   together, or none; there are finitely many links, which is what makes the
   rank of a new link and the sequence number of an added trip numbers. *)

RowTyped(row) == row \in MissionRow /\ (row.dep = None <=> row.arr = None)

MissionsTyped(ms) == ms \in [MissionIds -> MissionRow] /\ \A m \in MissionIds : RowTyped(ms[m])

LinksTyped(ls) == IsFiniteSet(ls) /\ ls \subseteq LinkRow

TablesTyped ==
    /\ MissionsTyped(missions)
    /\ LinksTyped(links)
    /\ stops \in [MissionIds -> SUBSET StopRow]

LEMMA TimesAreSome == \A x \in Times : x # None
BY TransportAssumption

LEMMA NoMissionTyped == RowTyped(NoMission)
BY DEF RowTyped, NoMission, MissionRow

LEMMA StatusTyped ==
    ASSUME NEW row, RowTyped(row), NEW status \in MissionActive \cup MissionOver
    PROVE  RowTyped([row EXCEPT !.status = status])
BY DEF RowTyped, MissionRow

LEMMA FiniteTrips == IsFiniteSet(Trips)
<1>1. IsFiniteSet(Legs)
  <2>1. IsFiniteSet({"outbound"} \cup {"return"})
    BY FS_Singleton, FS_AddElement
  <2>2. {"outbound"} \cup {"return"} = Legs
    BY DEF Legs
  <2> QED BY <2>1, <2>2
<1>2. IsFiniteSet(Reservations \X Legs)
  BY <1>1, MissionsAssumption, FS_Product
<1> QED BY <1>2, FS_Subset DEF Trips

LEMMA StopsAreRows ==
    ASSUME WindowsTyped, NEW T \in SUBSET Trips
    PROVE  StopsOf(trips, T) \in SUBSET StopRow
BY DEF StopsOf, StopOf, StopRow, WindowsTyped

(* The window of a set of trips: none, or two times. *)
LEMMA SpanTyped ==
    ASSUME WindowsTyped, NEW T \in SUBSET Trips
    PROVE  LET S == StopsOf(trips, T) IN
           /\ T = {} => S = {} /\ Start(S) = None /\ Finish(S) = None
           /\ T # {} => S # {} /\ Start(S) \in Times /\ Finish(S) \in Times
<1> DEFINE S == StopsOf(trips, T)
           Deps == {s.dep : s \in S}
           Arrs == {s.arr : s \in S}
<1>1. /\ \A t \in T : StopOf(trips, t) \in S
      /\ \A s \in S : \E t \in T : s = StopOf(trips, t)
  BY DEF StopsOf
<1>2. CASE T = {}
  BY <1>1, <1>2 DEF Start, Finish
<1>3. CASE T # {}
  <2>1. S # {}
    BY <1>1, <1>3
  <2>2. Deps \in SUBSET Nat /\ Deps # {} /\ Arrs \in SUBSET Nat /\ Arrs # {}
    BY <1>1, <2>1 DEF WindowsTyped, StopOf, Times
  <2>3. IsFiniteSet(Arrs)
    <3> DEFINE f == [t \in T |-> trips[t].arr]
    <3>1. IsFiniteSet(T)
      BY FiniteTrips, FS_Subset
    <3>2. Arrs = {f[t] : t \in T}
      <4>1. \A t \in T : StopOf(trips, t).arr = f[t]
        BY DEF StopOf
      <4> HIDE DEF f, S
      <4> QED BY <1>1, <4>1
    <3>3. DOMAIN f = T /\ f = [t \in T |-> f[t]]
      OBVIOUS
    <3> HIDE DEF f, Arrs
    <3> QED BY <3>1, <3>2, <3>3, FiniteImage
  <2>4. \E x \in Deps : \A y \in Deps : x <= y
    BY <2>2, LeastNatural
  <2>5. \E x \in Arrs : \A y \in Arrs : y <= x
    BY <2>2, <2>3, GreatestNatural
  <2>6. Start(S) = Min(Deps) /\ Finish(S) = Max(Arrs)
    BY <2>1 DEF Start, Finish
  <2> HIDE DEF Deps, Arrs
  <2>7. Min(Deps) \in Deps
    BY <2>4 DEF Min
  <2>8. Max(Arrs) \in Arrs
    <3>1. PICK x \in Arrs : \A y \in Arrs : y <= x
      BY <2>5
    <3>2. \A y \in Arrs : x >= y
      BY <2>2, <3>1
    <3>3. (CHOOSE z \in Arrs : \A y \in Arrs : z >= y) \in Arrs
      BY <3>2
    <3> QED BY <3>3 DEF Max
  <2>9. Start(S) \in Times /\ Finish(S) \in Times
    BY <2>2, <2>6, <2>7, <2>8 DEF Times
  <2> QED BY <1>3, <2>1, <2>9
<1> QED BY <1>2, <1>3

LEMMA RebuiltTyped ==
    ASSUME WindowsTyped, NEW ms, MissionsTyped(ms), NEW ls, NEW m \in MissionIds,
           Members(ls, m) \in SUBSET Trips
    PROVE  /\ MissionsTyped(Rebuilt(ms, trips, ls, m))
           /\ LET row == Rebuilt(ms, trips, ls, m)[m]
                  S == StopsOf(trips, Members(ls, m))
              IN row.dep = Start(S) /\ row.arr = Finish(S)
<1> DEFINE T == Members(ls, m)
           S == StopsOf(trips, T)
           row == [ms[m] EXCEPT !.dep = Start(S), !.arr = Finish(S)]
<1>1. /\ Start(S) \in Times \cup {None} /\ Finish(S) \in Times \cup {None}
      /\ Start(S) = None <=> Finish(S) = None
  BY SpanTyped, TimesAreSome
<1>2. Rebuilt(ms, trips, ls, m) = [ms EXCEPT ![m] = row]
  BY DEF Rebuilt, MissionsTyped
<1>3. ms[m] \in MissionRow
  BY DEF MissionsTyped
<1> HIDE DEF S
<1>4. row \in MissionRow /\ row.dep = Start(S) /\ row.arr = Finish(S)
  BY <1>1, <1>3 DEF MissionRow
<1>5. RowTyped(row)
  BY <1>1, <1>4 DEF RowTyped
<1> HIDE DEF row
<1> QED BY <1>2, <1>4, <1>5 DEF MissionsTyped, S

LEMMA LinksOfFinite ==
    ASSUME LinksTyped(links), NEW t
    PROVE  Cardinality(LinksOf(t)) \in Nat
<1>1. LinksOf(t) \in SUBSET links
  BY DEF LinksOf
<1> QED BY <1>1, FS_Subset, FS_CardinalityType DEF LinksTyped

LEMMA NewLinkTyped ==
    ASSUME LinksTyped(links), NEW m \in MissionIds, NEW t \in Trips, NEW seq \in Nat
    PROVE  NewLink(m, t, seq) \in LinkRow
BY LinksOfFinite DEF NewLink, LinkRow

LEMMA MembersFinite ==
    ASSUME NEW ls, LinksTyped(ls), NEW m
    PROVE  /\ Members(ls, m) \in SUBSET Trips
           /\ Cardinality(Members(ls, m)) \in Nat
<1>1. Members(ls, m) \in SUBSET Trips
  BY MembersDef DEF LinksTyped, LinkRow
<1> QED BY <1>1, FiniteTrips, FS_Subset, FS_CardinalityType

LEMMA FewerLinksTyped ==
    ASSUME NEW ls, LinksTyped(ls), NEW fewer \in SUBSET ls
    PROVE  LinksTyped(fewer)
BY FS_Subset DEF LinksTyped

LEMMA AlignedTyped ==
    ASSUME NEW ls, LinksTyped(ls), NEW m, NEW status
    PROVE  LinksTyped(Aligned(ls, m, status))
<1> DEFINE f == [l \in ls |-> IF l.mission = m
                              THEN [l EXCEPT !.active = status \in MissionActive] ELSE l]
<1>1. Aligned(ls, m, status) = {f[l] : l \in ls}
  BY DEF Aligned
<1>2. \A l \in ls : f[l] \in LinkRow
  <2> SUFFICES ASSUME NEW l \in ls PROVE f[l] \in LinkRow
    OBVIOUS
  <2>1. l \in LinkRow
    BY DEF LinksTyped
  <2>2. \A flag \in BOOLEAN : [l EXCEPT !.active = flag] \in LinkRow
    BY <2>1 DEF LinkRow
  <2>3. (status \in MissionActive) \in BOOLEAN
    OBVIOUS
  <2>4. [l EXCEPT !.active = status \in MissionActive] \in LinkRow
    BY <2>2, <2>3, Zenon
  <2> QED BY <2>1, <2>4
<1>3. DOMAIN f = ls /\ f = [l \in ls |-> f[l]]
  OBVIOUS
<1> HIDE DEF f
<1>4. IsFiniteSet({f[l] : l \in ls})
  BY <1>3, FiniteImage DEF LinksTyped
<1> QED BY <1>1, <1>2, <1>4 DEF LinksTyped

(* A mission gets links, leaves none, and is rebuilt. *)
LEMMA ExtendedTyped ==
    ASSUME WindowsTyped, TablesTyped, NEW m \in MissionIds, NEW ms, MissionsTyped(ms),
           NEW N, LinksTyped(N),
           links' = links \cup N, missions' = Rebuilt(ms, trips, links', m),
           stops' = RebuiltStops(trips, links', m)
    PROVE  TablesTyped'
<1>1. LinksTyped(links')
  <2>1. IsFiniteSet(links) /\ IsFiniteSet(N) /\ links \cup N \subseteq LinkRow
    BY DEF TablesTyped, LinksTyped
  <2>2. IsFiniteSet(links \cup N)
    BY <2>1, FS_Union
  <2> QED BY <2>1, <2>2 DEF LinksTyped
<1>2. Members(links', m) \in SUBSET Trips
  BY <1>1, MembersFinite
<1>3. MissionsTyped(missions')
  BY <1>2, RebuiltTyped
<1>4. stops' \in [MissionIds -> SUBSET StopRow]
  BY <1>2, StopsAreRows DEF RebuiltStops, TablesTyped
<1> QED BY <1>1, <1>3, <1>4 DEF TablesTyped

LEMMA ReducedTyped ==
    ASSUME WindowsTyped, TablesTyped, NEW m \in MissionIds, links' \in SUBSET links,
           missions' = LeftBy(links', m), stops' = RebuiltStops(trips, links', m)
    PROVE  TablesTyped'
<1> DEFINE ms == Rebuilt(missions, trips, links', m)
<1>1. LinksTyped(links')
  BY FewerLinksTyped DEF TablesTyped
<1>2. Members(links', m) \in SUBSET Trips
  BY <1>1, MembersFinite
<1>3. MissionsTyped(ms)
  BY <1>2, RebuiltTyped DEF TablesTyped
<1>4. missions' = ms \/ missions' = [ms EXCEPT ![m] = [ms[m] EXCEPT !.status = "cancelled"]]
  BY <1>3 DEF LeftBy, MissionsTyped
<1> HIDE DEF ms
<1>5. RowTyped([ms[m] EXCEPT !.status = "cancelled"])
  BY <1>3, StatusTyped DEF MissionsTyped, MissionOver
<1>6. MissionsTyped(missions')
  BY <1>3, <1>4, <1>5 DEF MissionsTyped, RowTyped
<1>7. stops' \in [MissionIds -> SUBSET StopRow]
  BY <1>2, StopsAreRows DEF RebuiltStops, TablesTyped
<1> QED BY <1>1, <1>6, <1>7 DEF TablesTyped

LEMMA RestatusedTyped ==
    ASSUME TablesTyped, NEW m \in MissionIds, NEW status \in MissionActive \cup MissionOver,
           missions' = [missions EXCEPT ![m].status = status],
           links' = Aligned(links, m, status), stops' = stops
    PROVE  TablesTyped'
<1>1. missions' = [missions EXCEPT ![m] = [missions[m] EXCEPT !.status = status]]
  BY DEF TablesTyped, MissionsTyped
<1>2. RowTyped([missions[m] EXCEPT !.status = status])
  BY StatusTyped DEF TablesTyped, MissionsTyped
<1>3. MissionsTyped(missions')
  BY <1>1, <1>2 DEF TablesTyped, MissionsTyped, RowTyped
<1> QED BY <1>3, AlignedTyped DEF TablesTyped

LEMMA CreationTyped ==
    ASSUME WindowsTyped, TablesTyped, NEW m \in MissionIds, NEW v \in Vehicles,
           NEW d \in Drivers \cup {None}, NEW S \in SUBSET Trips, NEW s \in Orderings(S),
           CreateMission(m, v, d, s)
    PROVE  TablesTyped'
<1> DEFINE f == [i \in DOMAIN s |-> NewLink(m, s[i], i - 1)]
           N == {NewLink(m, s[i], i - 1) : i \in DOMAIN s}
           row == [NoMission EXCEPT !.status = IF d = None THEN "planned" ELSE "dispatched",
                                    !.vehicle = v, !.driver = d]
           ms == [missions EXCEPT ![m] = row]
<1>1. /\ links' = links \cup N
      /\ missions' = Rebuilt(ms, trips, links', m)
      /\ stops' = RebuiltStops(trips, links', m)
  BY DEF CreateMission
<1>2. /\ DOMAIN s = 1..Cardinality(S) /\ Cardinality(S) \in Nat
      /\ \A i \in DOMAIN s : s[i] \in Trips
  BY FiniteTrips, FS_Subset, FS_CardinalityType DEF Orderings
<1>3. N \subseteq LinkRow
  <2> SUFFICES ASSUME NEW i \in DOMAIN s PROVE NewLink(m, s[i], i - 1) \in LinkRow
    OBVIOUS
  <2>1. i - 1 \in Nat /\ s[i] \in Trips
    BY <1>2
  <2> QED BY <2>1, NewLinkTyped DEF TablesTyped
<1>4. IsFiniteSet(N)
  <2>1. IsFiniteSet(DOMAIN s)
    BY <1>2, FS_Interval
  <2>2. N = {f[i] : i \in DOMAIN s}
    OBVIOUS
  <2>3. DOMAIN f = DOMAIN s /\ f = [i \in DOMAIN s |-> f[i]]
    OBVIOUS
  <2> HIDE DEF f, N
  <2> QED BY <2>1, <2>2, <2>3, FiniteImage
<1>5. RowTyped(row)
  BY TransportAssumption DEF RowTyped, NoMission, MissionRow, MissionActive
<1> HIDE DEF N, row
<1>6. MissionsTyped(ms)
  BY <1>5 DEF TablesTyped, MissionsTyped, RowTyped
<1> HIDE DEF ms
<1> QED BY <1>1, <1>3, <1>4, <1>6, ExtendedTyped DEF LinksTyped

LEMMA AdditionTyped ==
    ASSUME WindowsTyped, TablesTyped, NEW m \in MissionIds, NEW t \in Trips, AddTrip(m, t)
    PROVE  TablesTyped'
<1> DEFINE N == {NewLink(m, t, Cardinality(Members(links, m)))}
<1>1. /\ links' = links \cup N
      /\ missions' = Rebuilt(missions, trips, links', m)
      /\ stops' = RebuiltStops(trips, links', m)
  BY DEF AddTrip
<1>2. N \subseteq LinkRow
  BY MembersFinite, NewLinkTyped DEF TablesTyped
<1>3. IsFiniteSet(N)
  BY FS_Singleton
<1> HIDE DEF N
<1> QED BY <1>1, <1>2, <1>3, ExtendedTyped DEF TablesTyped, LinksTyped

LEMMA MissionRequestTyped ==
    ASSUME WindowsTyped, TablesTyped, NEW m \in MissionIds, MissionRequest(m)
    PROVE  TablesTyped'
<1>1. ASSUME NEW v \in Vehicles, NEW d \in Drivers \cup {None}, NEW S \in SUBSET Trips,
             NEW s \in Orderings(S), CreateMission(m, v, d, s)
      PROVE  TablesTyped'
  BY <1>1, CreationTyped
<1>2. ASSUME NEW t \in Trips, AddTrip(m, t) PROVE TablesTyped'
  BY <1>2, AdditionTyped
<1>3. ASSUME NEW t \in Trips, RemoveTrip(m, t) PROVE TablesTyped'
  <2>1. /\ links' \in SUBSET links
        /\ missions' = LeftBy(links', m) /\ stops' = RebuiltStops(trips, links', m)
    BY <1>3 DEF RemoveTrip, Without
  <2> QED BY <2>1, ReducedTyped
<1>4. ASSUME CancelMission(m) PROVE TablesTyped'
  <2>1. "cancelled" \in MissionActive \cup MissionOver
    BY DEF MissionOver
  <2> QED BY <1>4, <2>1, RestatusedTyped DEF CancelMission
<1> QED BY <1>1, <1>2, <1>3, <1>4 DEF MissionRequest

LEMMA SyncTyped ==
    ASSUME TablesTyped, NEW t, SyncMission(t)
    PROVE  TablesTyped'
<1>1. CASE UNCHANGED missionVars
  BY <1>1 DEF TablesTyped, missionVars
<1>2. ASSUME ~UNCHANGED missionVars PROVE TablesTyped'
  <2>1. PICK first \in LinksOf(t) : SyncProgress(first.mission)
    BY <1>2 DEF SyncMission
  <2> DEFINE m == first.mission
             statuses == {trips'[u].status : u \in Members(links, m)}
             status == ProgressStatus(missions[m], statuses)
  <2>2. first \in links /\ first.trip = t /\ m \in MissionIds
    BY DEF LinksOf, TablesTyped, LinksTyped, LinkRow
  <2>3. statuses # {}
    <3>1. t \in Members(links, m)
      BY <2>2, MembersDef
    <3> QED BY <3>1
  <2>4. status \in MissionActive \cup MissionOver
    <3> HIDE DEF statuses
    <3>1. status \in MissionActive \cup {"completed"}
      BY <2>3, ProgressSound
    <3> QED BY <3>1 DEF MissionOver
  <2>5. /\ missions' = [missions EXCEPT ![m].status = status]
        /\ links' = Aligned(links, m, status) /\ stops' = stops
    BY <1>2, <2>1 DEF SyncProgress
  <2> HIDE DEF m, status
  <2> QED BY <2>2, <2>4, <2>5, RestatusedTyped
<1> QED BY <1>1, <1>2

LEMMA DetachTyped ==
    ASSUME WindowsTyped, TablesTyped, NEW t, Detach(t), CancelTrip(t)
    PROVE  TablesTyped'
<1>1. CASE trips[t].group = None \/ ActiveLinks(t) = {}
  BY <1>1 DEF Detach, TablesTyped, missionVars
<1>2. CASE ~(trips[t].group = None \/ ActiveLinks(t) = {})
  <2> DEFINE m == (CHOOSE l \in ActiveLinks(t) : TRUE).mission
  <2>1. PICK l \in ActiveLinks(t) : m = l.mission
    BY <1>2
  <2>2. /\ links' = Without(links, m, {t})
        /\ missions' = LeftBy(links', m) /\ stops' = RebuiltStops(trips, links', m)
    BY <1>2 DEF Detach
  <2> HIDE DEF m
  <2>3. m \in MissionIds
    BY <2>1 DEF ActiveLinks, LinksOf, TablesTyped, LinksTyped, LinkRow
  <2>4. links' \in SUBSET links
    BY <2>2 DEF Without
  <2> QED BY <2>2, <2>3, <2>4, ReducedTyped
<1> QED BY <1>1, <1>2

LEMMA TablesStep ==
    ASSUME WindowsTyped, TablesTyped, [MissionsNext]_allVars
    PROVE  TablesTyped'
<1>1. ASSUME NEW m \in MissionIds, MissionRequest(m) PROVE TablesTyped'
  BY <1>1, MissionRequestTyped
<1>2. ASSUME NEW t \in Trips, TripRun(t) PROVE TablesTyped'
  BY <1>2, SyncTyped DEF TripRun
<1>3. ASSUME NEW t \in Trips, CancelTrip(t), Detach(t) PROVE TablesTyped'
  BY <1>3, DetachTyped
<1>4. ASSUME UNCHANGED missionVars PROVE TablesTyped'
  BY <1>4 DEF TablesTyped, missionVars
<1>5. ASSUME NEW r \in Managed, ManagedRequest(r) PROVE TablesTyped'
  <2>1. CASE Unlink(r)
    <3>1. links' \in SUBSET links /\ missions' = missions
      BY <2>1 DEF Unlink
    <3>2. stops' \in [MissionIds -> SUBSET StopRow]
      BY <2>1 DEF Unlink, TablesTyped
    <3> QED BY <3>1, <3>2, FewerLinksTyped DEF TablesTyped
  <2> QED BY <1>4, <1>5, <2>1 DEF ManagedRequest, ReservationChange, TripAssignment
<1>6. ASSUME NEW v \in CarPlanFleet, CarPlanRequest(v) PROVE TablesTyped'
  BY <1>4, <1>6 DEF CarPlanRequest
<1>7. CASE UNCHANGED allVars
  BY <1>4, <1>7 DEF allVars
<1> QED BY <1>1, <1>2, <1>3, <1>4, <1>5, <1>6, <1>7 DEF MissionsNext

LEMMA InitTables == MissionsInit => TablesTyped
<1> SUFFICES ASSUME MissionsInit PROVE TablesTyped
  OBVIOUS
<1>1. MissionsTyped(missions)
  BY NoMissionTyped DEF MissionsInit, MissionsTyped, RowTyped
<1>2. LinksTyped(links)
  BY FS_EmptySet DEF MissionsInit, LinksTyped
<1> QED BY <1>1, <1>2 DEF MissionsInit, TablesTyped

-----------------------------------------------------------------------------
(* What every reachable state satisfies *)

(* Every request keeps the memberships, and to the transport modules it is
   one of their own requests or rearranges trips that have not left. *)
LEMMA MissionsStep ==
    ASSUME TypeOK, JourneyInv, Memberships, [MissionsNext]_allVars
    PROVE  Memberships' /\ ([Next]_vars \/ Rearranged)
<1>1. ASSUME NEW m \in MissionIds, MissionRequest(m) PROVE Memberships' /\ Rearranged
  BY <1>1, MissionRequestKeeps
<1>2. ASSUME NEW t \in Trips, TripRun(t) PROVE Memberships' /\ Next
  <2>1. TripRequest(t)
    BY <1>2 DEF TripRun, TripRequest
  <2> QED BY <1>2, <2>1, SyncKeeps DEF TripRun, Next
<1>3. ASSUME NEW t \in Trips, CancelTrip(t), Detach(t) PROVE Memberships' /\ Next
  <2>1. TripRequest(t)
    BY <1>3 DEF TripRequest
  <2> QED BY <1>3, <2>1, DetachKeeps DEF Next
<1>4. ASSUME NEW r \in Managed, ManagedRequest(r) PROVE Memberships' /\ Next
  BY <1>4, ManagedRequestKeeps
<1>5. ASSUME NEW v \in CarPlanFleet, CarPlanRequest(v) PROVE Memberships' /\ Next
  <2>1. UNCHANGED missionVars /\ UNCHANGED trips /\ VehicleRequest
    BY <1>5 DEF CarPlanRequest, VehicleRequest, AllocateVehicle, ReturnVehicle
  <2> QED BY <2>1, TripsKeptMemberships DEF Next
<1>6. CASE UNCHANGED allVars
  <2>1. UNCHANGED missionVars /\ UNCHANGED trips /\ UNCHANGED vars
    BY <1>6 DEF allVars, vars
  <2> QED BY <2>1, TripsKeptMemberships
<1>7. ASSUME NEW r \in Editable, NEW form \in Forms, EditReservation(r, form),
             UNCHANGED missionVars
      PROVE  Memberships' /\ Next
  <2>1. UNCHANGED trips /\ Next
    BY <1>7 DEF EditReservation, Next
  <2> QED BY <1>7, <2>1, TripsKeptMemberships
<1> QED BY <1>1, <1>2, <1>3, <1>4, <1>5, <1>6, <1>7 DEF MissionsNext

(* ... and the vehicles the Car Plan holds are left alone. *)
LEMMA MissionsStepHold ==
    ASSUME TypeOK, JourneyInv, Memberships, HoldInv, [MissionsNext]_allVars
    PROVE  HoldInv' /\ HoldKept
<1>1. ASSUME NEW m \in MissionIds, MissionRequest(m) PROVE HoldInv' /\ HoldKept
  BY <1>1, MissionRequestHold
<1>2. ASSUME [Next]_vars PROVE HoldInv' /\ HoldKept
  BY <1>2, NextHold
<1>3. (\E m \in MissionIds : MissionRequest(m)) \/ [Next]_vars
  <2>1. ASSUME NEW t \in Trips, TripRun(t) \/ CancelTrip(t) PROVE Next
    BY <2>1 DEF TripRun, TripRequest, Next
  <2>2. ASSUME NEW r \in Managed, ManagedRequest(r) PROVE Next
    BY <2>2, ManagedRequestKeeps
  <2>3. ASSUME NEW v \in CarPlanFleet, CarPlanRequest(v) PROVE Next
    BY <2>3 DEF CarPlanRequest, VehicleRequest, Next
  <2>4. ASSUME UNCHANGED allVars PROVE UNCHANGED vars
    BY <2>4 DEF allVars
  <2>5. ASSUME NEW r \in Editable, NEW form \in Forms, EditReservation(r, form) PROVE Next
    BY <2>5 DEF Next
  <2> QED BY <2>1, <2>2, <2>3, <2>4, <2>5 DEF MissionsNext
<1> QED BY <1>1, <1>2, <1>3

MissionsInv ==
    TypeOK /\ JourneyInv /\ HoldInv /\ Memberships /\ TablesTyped

LEMMA MissionsInvariant == MissionsSpec => []MissionsInv
<1>1. MissionsInit => MissionsInv
  BY InitType, InitJourney, InitHold, InitMemberships, InitTables
     DEF MissionsInit, MissionsInv
<1>2. MissionsInv /\ [MissionsNext]_allVars => MissionsInv'
  <2> SUFFICES ASSUME MissionsInv, [MissionsNext]_allVars PROVE MissionsInv'
    OBVIOUS
  <2>1. Memberships' /\ ([Next]_vars \/ Rearranged)
    BY MissionsStep DEF MissionsInv
  <2>2. HoldInv' /\ TablesTyped'
    <3>1. WindowsTyped
      BY DEF MissionsInv, HoldInv
    <3> QED BY <3>1, MissionsStepHold, TablesStep DEF MissionsInv
  <2>3. CASE [Next]_vars
    BY <2>1, <2>2, <2>3, NextType, NextJourney DEF MissionsInv
  <2>4. CASE Rearranged
    BY <2>1, <2>2, <2>4, QuietKeepsJourney DEF MissionsInv, Rearranged
  <2> QED BY <2>1, <2>3, <2>4
<1> QED BY <1>1, <1>2, PTL DEF MissionsSpec

(* Every row of every table keeps its type, the sequence numbers and the ranks
   of the links and the windows of the missions included. *)
THEOREM MissionsTypeCorrect == MissionsSpec => []MissionsTypeOK
<1>1. MissionsInv => MissionsTypeOK
  BY DEF MissionsInv, TablesTyped, MissionsTyped, LinksTyped, MissionsTypeOK
<1> QED BY <1>1, MissionsInvariant, PTL

(* No trip, toured or not, is on a vehicle the Car Plan holds during the hold,
   whatever the requests on missions and on reservations do. *)
THEOREM ToursLeaveHeldVehicles == MissionsSpec => []CarPlanVehiclesLeftAlone
<1>1. MissionsInit => CarPlanVehiclesLeftAlone
  BY InitHeldNothing DEF MissionsInit
<1>2. MissionsInv /\ CarPlanVehiclesLeftAlone /\ [MissionsNext]_allVars
        => CarPlanVehiclesLeftAlone'
  BY MissionsStepHold, KeptHoldsLeaveAlone DEF MissionsInv
<1> QED BY <1>1, <1>2, MissionsInvariant, PTL DEF MissionsSpec

(* The flag behind the unique constraint says what the status of the mission
   says, and a trip is never linked to two active missions, however trips were
   added, removed, run, cancelled and deleted. *)
THEOREM FlagMirrorsMission == MissionsSpec => []ActiveFlagMirrorsMission
BY MissionsInvariant, PTL DEF MissionsInv, Memberships

(* The group that exempts a trip from the double-booking constraint is that of
   its active mission, and never that of a mission it has left or that was
   cancelled. *)
THEOREM GroupSound == MissionsSpec => []GroupMatchesMembership
BY MissionsInvariant, PTL DEF MissionsInv, Memberships

(* A completed mission never has a member still to leave or on the road. *)
THEOREM CompletionFinal == MissionsSpec => []CompletedMissionsAreOver
BY MissionsInvariant, PTL DEF MissionsInv, Memberships

(* Requests on missions tell the same abstract journey: trips are rearranged
   until they leave, then driven, returned and closed in order. *)
THEOREM MissionsImplementJourney == MissionsSpec => ImplementsJourney
<1>1. MissionsInit => Promise!Init
  BY InitPromise DEF MissionsInit
<1>2. MissionsInv /\ MissionsInv' /\ [MissionsNext]_allVars => [Promise!Next]_(Promise!journey)
  <2> SUFFICES ASSUME MissionsInv, MissionsInv', [MissionsNext]_allVars
               PROVE  [Promise!Next]_(Promise!journey)
    OBVIOUS
  <2>1. [Next]_vars \/ Rearranged
    BY MissionsStep DEF MissionsInv
  <2>2. CASE [Next]_vars
    BY <2>2, StepImplemented DEF MissionsInv
  <2>3. CASE Rearranged
    BY <2>3, QuietRearranges DEF MissionsInv, Rearranged, Promise!Next
  <2> QED BY <2>1, <2>2, <2>3
<1> QED BY <1>1, <1>2, MissionsInvariant, PTL
        DEF MissionsSpec, ImplementsJourney, Promise!JourneySpec

(* No request, those on missions included, rewrites the vehicle, the driver or
   the window of a trip that has left. *)
THEOREM MissionsLeaveDeparted == MissionsSpec => DepartedTripsFrozen
<1> DEFINE Frozen ==
      \A t \in Trips : trips[t].status \in HasLeft =>
        /\ trips'[t].status \in HasLeft
        /\ trips'[t].vehicle = trips[t].vehicle /\ trips'[t].driver = trips[t].driver
        /\ trips'[t].dep = trips[t].dep /\ trips'[t].arr = trips[t].arr
<1>1. ASSUME MissionsInv, [MissionsNext]_allVars PROVE Frozen
  <2>1. [Next]_vars \/ Rearranged
    BY <1>1, MissionsStep DEF MissionsInv
  <2>2. CASE [Next]_vars
    BY <1>1, <2>2, StepFrozen DEF MissionsInv
  <2>3. CASE Rearranged
    BY <2>3 DEF Rearranged, Quiet
  <2> QED BY <2>1, <2>2, <2>3
<1>2. MissionsInv /\ [MissionsNext]_allVars => [Frozen]_vars
  BY <1>1
<1> QED BY <1>2, MissionsInvariant, PTL DEF MissionsSpec, DepartedTripsFrozen

-----------------------------------------------------------------------------
(* Capacity *)

(* The windows of trips are the same for a table with the same times. *)
LEMMA SameStops ==
    ASSUME NEW ts, NEW us, NEW S,
           \A t \in S : us[t].dep = ts[t].dep /\ us[t].arr = ts[t].arr
    PROVE  StopsOf(us, S) = StopsOf(ts, S)
BY DEF StopsOf, StopOf

LEMMA NoneAdded ==
    ASSUME NEW ls, NEW m, ls \subseteq links
    PROVE  Members(ls, m) \ Members(links, m) = {}
BY MembersDef

(* Only the requests that create a mission or add to it give it members. *)
LEMMA AddedByRequest ==
    ASSUME Memberships, MissionsNext, NEW m \in MissionIds,
           Members(links', m) \ Members(links, m) # {}
    PROVE  \/ \E v \in Vehicles, d \in Drivers \cup {None}, S \in SUBSET Trips :
                \E s \in Orderings(S) : CreateMission(m, v, d, s)
           \/ \E t \in Trips : AddTrip(m, t)
<1>0. LinksOK
  BY DEF Memberships
<1>1. links' # links
  OBVIOUS
<1>2. ASSUME links' \subseteq links PROVE FALSE
  BY <1>2, NoneAdded
<1>3. ASSUME NEW k, NEW status, links' = Aligned(links, k, status) PROVE FALSE
  BY <1>0, <1>3, AlignedLinks
<1>4. ASSUME NEW k \in MissionIds \ {m}, NEW N, links' = links \cup N,
             \A l \in N : l.mission = k
      PROVE  FALSE
  BY <1>4, MembersDef
<1>5. ASSUME NEW k \in MissionIds, MissionRequest(k)
      PROVE  \/ \E v \in Vehicles, d \in Drivers \cup {None}, S \in SUBSET Trips :
                  \E s \in Orderings(S) : CreateMission(m, v, d, s)
             \/ \E t \in Trips : AddTrip(m, t)
  <2>1. ASSUME NEW v, NEW d, NEW s, CreateMission(k, v, d, s), k # m PROVE FALSE
    <3> DEFINE N == {NewLink(k, s[i], i - 1) : i \in DOMAIN s}
    <3>1. links' = links \cup N /\ \A l \in N : l.mission = k
      BY <2>1 DEF CreateMission, NewLink
    <3> HIDE DEF N
    <3> QED BY <1>4, <1>5, <2>1, <3>1
  <2>2. ASSUME NEW t, AddTrip(k, t), k # m PROVE FALSE
    <3> DEFINE N == {NewLink(k, t, Cardinality(Members(links, k)))}
    <3>1. links' = links \cup N /\ \A l \in N : l.mission = k
      BY <2>2 DEF AddTrip, NewLink
    <3> HIDE DEF N
    <3> QED BY <1>4, <1>5, <2>2, <3>1
  <2>3. ASSUME NEW t, RemoveTrip(k, t) PROVE FALSE
    <3>1. links' \subseteq links
      BY <2>3 DEF RemoveTrip, Without
    <3> QED BY <1>2, <3>1
  <2>4. CASE CancelMission(k)
    BY <1>3, <2>4 DEF CancelMission
  <2> QED BY <1>5, <2>1, <2>2, <2>3, <2>4 DEF MissionRequest
<1>6. ASSUME NEW t \in Trips, TripRun(t) \/ (CancelTrip(t) /\ Detach(t)) PROVE FALSE
  <2>1. CASE SyncMission(t)
    BY <1>1, <1>3, <2>1 DEF SyncMission, SyncProgress, missionVars
  <2>2. CASE Detach(t)
    <3>1. links' = links \/ links' \subseteq links
      BY <2>2 DEF Detach, Without, missionVars
    <3> QED BY <1>1, <1>2, <3>1
  <2> QED BY <1>6, <2>1, <2>2 DEF TripRun
<1>7. ASSUME NEW r \in Managed, ManagedRequest(r) PROVE FALSE
  <2>1. links' = links \/ links' \subseteq links
    BY <1>7 DEF ManagedRequest, ReservationChange, TripAssignment, Unlink, missionVars
  <2> QED BY <1>1, <1>2, <2>1
<1>8. ASSUME NEW v \in CarPlanFleet, CarPlanRequest(v) PROVE FALSE
  BY <1>1, <1>8 DEF CarPlanRequest, missionVars
<1> QED BY <1>1, <1>5, <1>6, <1>7, <1>8 DEF MissionsNext, missionVars

(* The members and the row of a mission that is created. *)
LEMMA CreatedMission ==
    ASSUME Memberships, NEW m \in MissionIds, NEW v \in Vehicles,
           NEW d \in Drivers \cup {None}, NEW S \in SUBSET Trips, NEW s \in Orderings(S),
           CreateMission(m, v, d, s)
    PROVE  /\ Members(links', m) = Chosen(s) /\ Chosen(s) \in SUBSET Trips
           /\ missions'[m].vehicle = v /\ missions'[m].driver = d
           /\ \A k \in MissionIds \ {m} : missions'[k] = missions[k]
<1> DEFINE T == Chosen(s)
           N == {NewLink(m, s[i], i - 1) : i \in DOMAIN s}
           row == [NoMission EXCEPT !.status = IF d = None THEN "planned" ELSE "dispatched",
                                    !.vehicle = v, !.driver = d]
           ms == [missions EXCEPT ![m] = row]
<1>1. /\ missions[m].status = "absent"
      /\ links' = links \cup N
      /\ missions' = Rebuilt(ms, trips, links \cup N, m)
  BY DEF CreateMission, NextId
<1>2. T \in SUBSET Trips
  BY OrderingsShape DEF Chosen
<1>3. Members(links', m) = T
  <2>1. \A l \in links : l.mission # m
    BY <1>1 DEF Memberships, LinksPointAtRows
  <2>2. \A i \in DOMAIN s : LET l == NewLink(m, s[i], i - 1) IN l.mission = m /\ l.trip = s[i]
    BY DEF NewLink
  <2>3. \A t : t \in Members(links', m) <=> \E l \in links \cup N : l.mission = m /\ l.trip = t
    BY <1>1, MembersDef
  <2>4. \A t : (\E l \in links \cup N : l.mission = m /\ l.trip = t) <=> t \in T
    BY <2>1, <2>2 DEF Chosen
  <2> QED BY <2>3, <2>4
<1>4. MissionRowOK(row) /\ row.vehicle = v /\ row.driver = d
  BY DEF MissionRowOK, NoMission, MissionActive
<1> HIDE DEF row
<1>5. MissionTableOK(ms) /\ ms[m] = row /\ \A k \in MissionIds \ {m} : ms[k] = missions[k]
  BY <1>4 DEF Memberships, MissionTableOK
<1> HIDE DEF ms
<1>6. /\ missions'[m].vehicle = v /\ missions'[m].driver = d
      /\ \A k \in MissionIds \ {m} : missions'[k] = missions[k]
  BY <1>1, <1>4, <1>5, RebuiltKeeps
<1> QED BY <1>2, <1>3, <1>6

(* A mission that is created, or that gets one more trip, has a seat for every
   passenger at every instant, on the windows its trips really have. *)
LEMMA CreationFits ==
    ASSUME TypeOK, Memberships, NEW m \in MissionIds, NEW v \in Vehicles,
           NEW d \in Drivers \cup {None}, NEW S \in SUBSET Trips, NEW s \in Orderings(S),
           CreateMission(m, v, d, s)
    PROVE  Fits(StopsOf(trips', Members(links', m)), missions'[m].vehicle)
<1> DEFINE T == Chosen(s)
<1>1. Feasible(m, v, d, StopsOf(trips, T)) /\ AssignResources(T, m, v, d)
  BY DEF CreateMission, Chosen
<1>2. Members(links', m) = T /\ T \in SUBSET Trips /\ missions'[m].vehicle = v
  BY CreatedMission
<1> HIDE DEF T
<1>3. \A u \in Trips : trips'[u].dep = trips[u].dep /\ trips'[u].arr = trips[u].arr
  BY <1>1, <1>2, AssignEffect, JoinedRow
<1>4. StopsOf(trips', T) = StopsOf(trips, T)
  BY <1>2, <1>3, SameStops
<1> QED BY <1>1, <1>2, <1>4 DEF Feasible

LEMMA AdditionFits ==
    ASSUME TypeOK, Memberships, NEW m \in MissionIds, NEW t \in Trips, AddTrip(m, t)
    PROVE  Fits(StopsOf(trips', Members(links', m)), missions'[m].vehicle)
<1> DEFINE T == Members(links', m)
           v == missions[m].vehicle
           d == missions[m].driver
           ls == links \cup {NewLink(m, t, Cardinality(Members(links, m)))}
<1>1. /\ Feasible(m, v, d, StopsOf(trips, Members(ls, m)))
      /\ links' = ls
      /\ missions' = Rebuilt(missions, trips, ls, m)
  BY DEF AddTrip
<1>2. /\ v \in Vehicles /\ d \in Drivers \cup {None} /\ {t} \in SUBSET Trips
      /\ AssignResources({t}, m, v, d)
      /\ Memberships'
  BY AddJoins
<1> HIDE DEF v, d
<1>3. \A u \in Trips : trips'[u].dep = trips[u].dep /\ trips'[u].arr = trips[u].arr
  BY <1>2, AssignEffect, JoinedRow
<1>4. T \subseteq Trips
  BY <1>2, MembersDef DEF Memberships, LinksOK, LinkOK
<1>5. missions'[m].vehicle = v
  BY <1>1, RebuiltKeeps DEF Memberships, v
<1>6. StopsOf(trips', T) = StopsOf(trips, T)
  BY <1>3, <1>4, SameStops
<1>7. Fits(StopsOf(trips, T), v)
  BY <1>1 DEF Feasible
<1> HIDE DEF T
<1> QED BY <1>5, <1>6, <1>7 DEF T

(* However a mission grows, even when its trips were replanned since its stops
   were stored, its members have a seat at every instant when one is added. *)
THEOREM AdditionsHaveSeats == MissionsSpec => AdditionsFit
<1>1. ASSUME MissionsInv, MissionsNext, NEW m \in MissionIds,
             Members(links', m) \ Members(links, m) # {}
      PROVE  Fits(StopsOf(trips', Members(links', m)), missions'[m].vehicle)
  BY <1>1, AddedByRequest, CreationFits, AdditionFits DEF MissionsInv
<1> DEFINE Fit == \A m \in MissionIds :
        Members(links', m) \ Members(links, m) # {} =>
            Fits(StopsOf(trips', Members(links', m)), missions'[m].vehicle)
<1>2. MissionsInv /\ [MissionsNext]_allVars => [Fit]_allVars
  BY <1>1
<1> QED BY <1>2, MissionsInvariant, PTL DEF MissionsSpec, AdditionsFit

-----------------------------------------------------------------------------
(* Repositioning time *)

(* What _check_resource_free lets through is a transfer time apart. *)
LEMMA FeasibleKeepsTransfer ==
    ASSUME WindowsTyped, TablesTyped, NEW m \in MissionIds,
           NEW T \in SUBSET Trips, T # {}, NEW v, NEW d,
           Feasible(m, v, d, StopsOf(trips, T)),
           missions'[m].vehicle = v, missions'[m].driver = d,
           missions'[m].dep = Start(StopsOf(trips, T)),
           missions'[m].arr = Finish(StopsOf(trips, T)),
           NEW o \in MissionIds \ {m}, missions'[o] = missions[o],
           missions'[o].status \in MissionActive, missions'[o].dep # None,
           \/ missions'[o].vehicle = missions'[m].vehicle
           \/ missions'[o].driver # None /\ missions'[o].driver = missions'[m].driver
    PROVE  \/ missions'[o].arr + Transfer <= missions'[m].dep
           \/ missions'[m].arr + Transfer <= missions'[o].dep
<1> DEFINE S == StopsOf(trips, T)
           other == missions[o]
<1>1. S # {} /\ Start(S) \in Times /\ Finish(S) \in Times
  BY SpanTyped
<1>2. RowTyped(other) /\ other.status \in MissionActive /\ other.dep # None
  BY DEF TablesTyped, MissionsTyped
<1>3. other.dep \in Times /\ other.arr \in Times
  BY <1>2 DEF RowTyped, MissionRow
<1>4. \/ ResourceFree(m, S, "vehicle", v) /\ other.vehicle = v
      \/ ResourceFree(m, S, "driver", d) /\ other.driver = d
  BY DEF Feasible
<1> HIDE DEF S
<1>5. \/ other.arr <= Start(S) /\ Start(S) - other.arr >= Transfer
      \/ Finish(S) <= other.dep /\ other.dep - Finish(S) >= Transfer
  <2>1. CASE ResourceFree(m, S, "vehicle", v) /\ other.vehicle = v
    BY <1>1, <1>2, <2>1 DEF ResourceFree
  <2>2. CASE ResourceFree(m, S, "driver", d) /\ other.driver = d
    BY <1>1, <1>2, <2>2 DEF ResourceFree
  <2> QED BY <1>4, <2>1, <2>2
<1>6. other.arr + Transfer <= Start(S) \/ Finish(S) + Transfer <= other.dep
  BY <1>1, <1>3, <1>5, MissionsAssumption DEF Times
<1> QED BY <1>6 DEF S

LEMMA AdditionKeepsTransfer ==
    ASSUME MissionsInv, MissionsNext, NEW m \in MissionIds, NEW o \in MissionIds,
           Members(links', m) \ Members(links, m) # {}, o # m,
           missions'[o].status \in MissionActive, missions'[o].dep # None,
           \/ missions'[o].vehicle = missions'[m].vehicle
           \/ missions'[o].driver # None /\ missions'[o].driver = missions'[m].driver
    PROVE  \/ missions'[o].arr + Transfer <= missions'[m].dep
           \/ missions'[m].arr + Transfer <= missions'[o].dep
<1> DEFINE T == Members(links', m)
           Goal == \/ missions'[o].arr + Transfer <= missions'[m].dep
                   \/ missions'[m].arr + Transfer <= missions'[o].dep
<1>1. WindowsTyped /\ TablesTyped /\ Memberships /\ TypeOK
  BY DEF MissionsInv, HoldInv
<1>2. T # {}
  OBVIOUS
<1>3. ASSUME NEW v \in Vehicles, NEW d \in Drivers \cup {None}, NEW S \in SUBSET Trips,
             NEW s \in Orderings(S), CreateMission(m, v, d, s)
      PROVE  Goal
  <2> DEFINE row == [NoMission EXCEPT !.status = IF d = None THEN "planned" ELSE "dispatched",
                                      !.vehicle = v, !.driver = d]
             ms == [missions EXCEPT ![m] = row]
  <2>1. /\ T = Chosen(s) /\ T \in SUBSET Trips
        /\ missions'[m].vehicle = v /\ missions'[m].driver = d /\ missions'[o] = missions[o]
    BY <1>1, <1>3, CreatedMission
  <2>2. Feasible(m, v, d, StopsOf(trips, T)) /\ missions' = Rebuilt(ms, trips, links', m)
    BY <1>3, <2>1 DEF CreateMission, Chosen
  <2>3. MissionsTyped(ms)
    <3>1. RowTyped(row)
      BY TransportAssumption DEF RowTyped, NoMission, MissionRow, MissionActive
    <3> HIDE DEF row
    <3> QED BY <1>1, <3>1 DEF TablesTyped, MissionsTyped, RowTyped
  <2> HIDE DEF ms
  <2>4. /\ missions'[m].dep = Start(StopsOf(trips, T))
        /\ missions'[m].arr = Finish(StopsOf(trips, T))
    BY <1>1, <2>1, <2>2, <2>3, RebuiltTyped
  <2> HIDE DEF T
  <2> QED BY <1>1, <1>2, <2>1, <2>2, <2>4, FeasibleKeepsTransfer
<1>4. ASSUME NEW t \in Trips, AddTrip(m, t) PROVE Goal
  <2> DEFINE v == missions[m].vehicle
             d == missions[m].driver
  <2>1. /\ Feasible(m, v, d, StopsOf(trips, Members(links', m)))
        /\ missions' = Rebuilt(missions, trips, links', m)
    BY <1>4 DEF AddTrip
  <2>2. TablesTyped'
    BY <1>1, <1>4, AdditionTyped
  <2>3. T \in SUBSET Trips
    BY <2>2, MembersFinite DEF TablesTyped
  <2>4. /\ missions'[m].vehicle = v /\ missions'[m].driver = d
        /\ missions'[o] = missions[o]
    BY <1>1, <2>1, RebuiltKeeps DEF Memberships
  <2>5. /\ missions'[m].dep = Start(StopsOf(trips, T))
        /\ missions'[m].arr = Finish(StopsOf(trips, T))
    BY <1>1, <2>1, <2>3, RebuiltTyped DEF TablesTyped
  <2> HIDE DEF T, v, d
  <2> QED BY <1>1, <1>2, <2>1, <2>3, <2>4, <2>5, FeasibleKeepsTransfer DEF T
<1> QED BY <1>1, <1>3, <1>4, AddedByRequest

(* Whenever a mission gets a trip, its window and that of any other mission of
   the same vehicle or driver still to run are a transfer time apart, in one
   order or the other, for any number of missions. *)
THEOREM AdditionsKeepTransfer == MissionsSpec => AdditionsLeaveTransferTime
<1> DEFINE Apart == \A m, o \in MissionIds :
        (/\ Members(links', m) \ Members(links, m) # {} /\ o # m
         /\ missions'[o].status \in MissionActive /\ missions'[o].dep # None
         /\ \/ missions'[o].vehicle = missions'[m].vehicle
            \/ missions'[o].driver # None /\ missions'[o].driver = missions'[m].driver) =>
            \/ missions'[o].arr + Transfer <= missions'[m].dep
            \/ missions'[m].arr + Transfer <= missions'[o].dep
<1>1. MissionsInv /\ [MissionsNext]_allVars => [Apart]_allVars
  BY AdditionKeepsTransfer
<1> QED BY <1>1, MissionsInvariant, PTL DEF MissionsSpec, AdditionsLeaveTransferTime
===============================================================================
