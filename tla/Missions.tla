------------------------------ MODULE Missions -------------------------------
(***************************************************************************)
(* Grouped missions (tours): several trips served by one vehicle and one   *)
(* driver.  apps/dispatch/{services,models}.py, composed with the requests *)
(* of module Transport: a departure, a return, a closing, a cancellation   *)
(* or a deletion also moves the mission the trip belongs to, in the same   *)
(* transaction.                                                            *)
(***************************************************************************)
EXTENDS Transport, FiniteSetsExt

CONSTANTS
    Managed,        \* reservations whose own requests, and those on their trips'
                    \* resources, are issued beside the requests on missions
    MaxMissions,    \* bound on the missions ever created
    Transfer        \* minutes needed between two missions of one vehicle

ASSUME MissionsAssumption ==
    /\ IsFiniteSet(Reservations) /\ Managed \subseteq Reservations
    /\ MaxMissions \in Nat /\ Transfer \in Nat

MissionIds == 1..MaxMissions

VARIABLES
    missions,   \* the missions table
    links,      \* the trip memberships; rank is the creation order among those of one trip
    stops       \* the stored pickup and dropoff times of each mission

missionVars == <<missions, links, stops>>
allVars == <<vars, missionVars>>

MissionActive == {"planned", "dispatched", "in_progress"}
MissionOver == {"completed", "cancelled"}
Finished == {"returned", "closed", "cancelled"}
NoMission == [status |-> "absent", vehicle |-> None, driver |-> None, dep |-> None, arr |-> None]

-----------------------------------------------------------------------------
(* Reading the tables *)

Members(ls, m) == {l.trip : l \in {k \in ls : k.mission = m}}
LinksOf(t) == {l \in links : l.trip = t}
ActiveLinks(t) == {l \in LinksOf(t) : l.active}
Without(ls, m, S) == {l \in ls : ~(l.mission = m /\ l.trip \in S)}

(* The only link of a trip that is ever deleted alone is its active one, the
   last created: the count of the others orders it after them. *)
NewLink(m, t, seq) ==
    [mission |-> m, trip |-> t, seq |-> seq, rank |-> Cardinality(LinksOf(t)), active |-> TRUE]

(* The first link of its trip in the default ordering (sequence, created_at),
   whatever its mission has become. *)
IsFirst(l) ==
    \A k \in LinksOf(l.trip) : l.seq < k.seq \/ (l.seq = k.seq /\ l.rank <= k.rank)

StopOf(ts, t) == [trip |-> t, dep |-> ts[t].dep, arr |-> ts[t].arr]
StopsOf(ts, S) == {StopOf(ts, t) : t \in S}

(* Window of a set of stops (_window_for); none without stops. *)
Start(S) == IF S = {} THEN None ELSE Min({s.dep : s \in S})
Finish(S) == IF S = {} THEN None ELSE Max({s.arr : s \in S})

(* max_occupancy(order_stops(...)): at one instant boarding comes first, so
   the windows count as closed intervals. *)
LoadAt(S, x) ==
    MapThenSumSet(LAMBDA s : res[s.trip[1]].passengers, {s \in S : s.dep <= x /\ x <= s.arr})
Fits(S, v) == \A s \in S : LoadAt(S, s.dep) <= Seats[v]

-----------------------------------------------------------------------------
(* Feasibility of a mission *)

(* Mutant: only missions that end before this one starts are kept apart. *)
FreeBefore(m, S, field, resource) ==
    \A o \in MissionIds \ {m} :
        LET other == missions[o] IN
        (other.status \in MissionActive /\ other[field] = resource /\ other.dep # None /\ S # {}) =>
            \/ other.arr <= Start(S) /\ Start(S) - other.arr >= Transfer
            \/ Finish(S) <= other.dep

(* _check_resource_free: no other active mission of that vehicle, or driver,
   on the window, nor closer than the repositioning time. *)
ResourceFree(m, S, field, resource) ==
    \A o \in MissionIds \ {m} :
        LET other == missions[o] IN
        (other.status \in MissionActive /\ other[field] = resource /\ other.dep # None /\ S # {}) =>
            \/ other.arr <= Start(S) /\ Start(S) - other.arr >= Transfer
            \/ Finish(S) <= other.dep /\ other.dep - Finish(S) >= Transfer

(* Mutant: the capacity of the vehicle is not looked at. *)
FeasibleOverfull(m, v, d, S) ==
    /\ \A s \in S : s.dep <= s.arr
    /\ S # {} => ~Blocked(v, [dep |-> Start(S), arr |-> Finish(S)])
    /\ ResourceFree(m, S, "vehicle", v)
    /\ d # None => ResourceFree(m, S, "driver", d)

(* check_mission_feasible; the vehicle's range is not represented. *)
Feasible(m, v, d, S) ==
    /\ \A s \in S : s.dep <= s.arr
    /\ Fits(S, v)
    /\ S # {} => ~Blocked(v, [dep |-> Start(S), arr |-> Finish(S)])
    /\ ResourceFree(m, S, "vehicle", v)
    /\ d # None => ResourceFree(m, S, "driver", d)

(* _check_groupable *)
Groupable(t) == trips[t].status = "scheduled" /\ ActiveLinks(t) = {}

-----------------------------------------------------------------------------
(* What the handlers share *)

(* _rebuild: stops and window recomputed from the trips linked. *)
Rebuilt(ms, ts, ls, m) ==
    LET S == StopsOf(ts, Members(ls, m))
    IN [ms EXCEPT ![m].dep = Start(S), ![m].arr = Finish(S)]
RebuiltStops(ts, ls, m) == [stops EXCEPT ![m] = StopsOf(ts, Members(ls, m))]

(* Mutant: the flag is forgotten. *)
NotAligned(ls, m, status) == ls

(* _sync_link_activity *)
Aligned(ls, m, status) ==
    {IF l.mission = m THEN [l EXCEPT !.active = status \in MissionActive] ELSE l : l \in ls}

(* Mutant: the mission takes the status of a member. *)
MemberStatus(mission, statuses) ==
    IF statuses = {} THEN mission.status ELSE CHOOSE s \in statuses : TRUE

(* Mutant: the first member back completes the mission. *)
FirstBackCompletes(mission, statuses) ==
    CASE statuses = {} -> mission.status
      [] statuses \cap Finished # {} -> "completed"
      [] "in_progress" \in statuses /\ statuses \cap Finished = {} -> "in_progress"
      [] OTHER -> IF mission.driver # None THEN "dispatched" ELSE "planned"

(* sync_mission_progress: the status the members' own statuses call for. *)
ProgressStatus(mission, statuses) ==
    CASE statuses = {} -> mission.status
      [] statuses # {} /\ statuses \subseteq Finished -> "completed"
      [] "in_progress" \in statuses -> "in_progress"
      [] OTHER -> IF mission.driver # None THEN "dispatched" ELSE "planned"

(* _assign_resources, for the trips of sequence s in that order: a trip not
   yet reached is still on its own, so it conflicts when it holds the vehicle. *)
Joined(t, m, v, d) ==
    [trips[t] EXCEPT !.vehicle = v, !.driver = IF d = None THEN @ ELSE d, !.group = m]

Assignable(s, m, v, d) ==
    \A i \in DOMAIN s :
        LET t == s[i]
            row == Joined(t, m, v, d)
            joined == {s[j] : j \in 1..(i - 1)}
        IN /\ trips[t].vehicle # v =>
                /\ res[t[1]].passengers <= Seats[v]
                /\ fleet[v] # "maintenance"
                /\ ~Blocked(v, row)
                /\ TripConflicts(t, row, "vehicle") \subseteq joined
           /\ row.driver # trips[t].driver => TripConflicts(t, row, "driver") \subseteq joined

AssignResources(S, m, v, d) ==
    LET after == [t \in Trips |-> IF t \in S THEN Joined(t, m, v, d) ELSE trips[t]]
        taken == {t \in S : trips[t].vehicle # v}
        changed == taken \cup {t \in S : after[t].driver # trips[t].driver}
    IN /\ DbAccepts(after)
       /\ trips' = after
       /\ fleet' = IF taken = {} THEN fleet
                   ELSE Freed(Marked(fleet, v, "reserved"), after, {trips[t].vehicle : t \in taken} \ {v})
       /\ res' = Recomputed(res, after, {t[1] : t \in changed})
       /\ UNCHANGED <<lines, held>>

(* Mutant: a trip on the road gives its vehicle back too. *)
ReleasableAnyhow(t) == trips[t].status # "absent"

(* release_assignment(strict=False) then _release_dispatch_group: a trip that
   has left keeps its vehicle, any other gives it back. *)
Releasable(t) == trips[t].status \in {"scheduled", "cancelled"}
(* Mutant: the group is left behind on the trip. *)
StillGrouped(row, release) ==
    IF release THEN [row EXCEPT !.vehicle = None, !.driver = None] ELSE row

Alone(row, release) ==
    IF release THEN [row EXCEPT !.vehicle = None, !.driver = None, !.group = None]
    ELSE [row EXCEPT !.group = None]

Release(S) ==
    LET given == {t \in S : Releasable(t)}
        after == [t \in Trips |-> IF t \in S THEN Alone(trips[t], t \in given) ELSE trips[t]]
        changed == {t \in given : trips[t].vehicle # None \/ trips[t].driver # None}
    IN /\ DbAccepts(after)
       /\ trips' = after
       /\ fleet' = Freed(fleet, after, {trips[t].vehicle : t \in given})
       /\ res' = Recomputed(res, after, {t[1] : t \in changed})
       /\ UNCHANGED <<lines, held>>

-----------------------------------------------------------------------------
(* Requests on a mission *)

NextId(m) ==
    /\ missions[m].status = "absent"
    /\ \A k \in MissionIds : k < m => missions[k].status # "absent"

CreateMission(m, v, d, s) ==
    LET S == {s[i] : i \in DOMAIN s}
        ls == links \cup {NewLink(m, s[i], i - 1) : i \in DOMAIN s}
        row == [NoMission EXCEPT !.status = IF d = None THEN "planned" ELSE "dispatched",
                                 !.vehicle = v, !.driver = d]
    IN /\ NextId(m)
       /\ \A t \in S : Groupable(t)
       /\ Feasible(m, v, d, StopsOf(trips, S))
       /\ Assignable(s, m, v, d)
       /\ AssignResources(S, m, v, d)
       /\ links' = ls
       /\ missions' = Rebuilt([missions EXCEPT ![m] = row], trips, ls, m)
       /\ stops' = RebuiltStops(trips, ls, m)

(* Feasible on the stored stops plus the new trip, then on the rebuilt ones. *)
AddTrip(m, t) ==
    LET mission == missions[m]
        ls == links \cup {NewLink(m, t, Cardinality(Members(links, m)))}
        v == mission.vehicle
        d == mission.driver
    IN /\ mission.status \in MissionActive
       /\ t \notin Members(links, m)
       /\ Groupable(t)
       /\ Feasible(m, v, d, stops[m] \cup {StopOf(trips, t)})
       /\ Feasible(m, v, d, StopsOf(trips, Members(ls, m)))
       /\ Assignable(<<t>>, m, v, d)
       /\ AssignResources({t}, m, v, d)
       /\ links' = ls
       /\ missions' = Rebuilt(missions, trips, ls, m)
       /\ stops' = RebuiltStops(trips, ls, m)

(* The last trip to leave cancels the mission. *)
LeftBy(ls, m) ==
    LET ms == Rebuilt(missions, trips, ls, m)
    IN IF Members(ls, m) = {} THEN [ms EXCEPT ![m].status = "cancelled"] ELSE ms

RemoveTrip(m, t) ==
    LET ls == Without(links, m, {t})
    IN /\ missions[m].status \in MissionActive
       /\ t \in Members(links, m)
       /\ Release({t})
       /\ links' = ls
       /\ missions' = LeftBy(ls, m)
       /\ stops' = RebuiltStops(trips, ls, m)

(* The links stay, inactive; the trips give the vehicle back. *)
CancelMission(m) ==
    /\ missions[m].status \in MissionActive
    /\ Release(Members(links, m))
    /\ missions' = [missions EXCEPT ![m].status = "cancelled"]
    /\ links' = Aligned(links, m, "cancelled")
    /\ UNCHANGED stops

-----------------------------------------------------------------------------
(* What a request on a trip or a reservation does to its mission *)

(* sync_mission_progress, called with the trip already saved. *)
SyncProgress(m) ==
    LET status == ProgressStatus(missions[m], {trips'[t].status : t \in Members(links, m)})
    IN IF missions[m].status \in {"cancelled", status}
       THEN UNCHANGED missionVars
       ELSE /\ missions' = [missions EXCEPT ![m].status = status]
            /\ links' = Aligned(links, m, status)
            /\ UNCHANGED stops

(* sync_mission_for_trip *)
SyncMission(t) ==
    IF trips[t].group = None \/ LinksOf(t) = {}
    THEN UNCHANGED missionVars
    ELSE \E first \in LinksOf(t) : IsFirst(first) /\ SyncProgress(first.mission)

(* detach_cancelled_trip: the mission is rebuilt without it, not synced. *)
Detach(t) ==
    IF trips[t].group = None \/ ActiveLinks(t) = {}
    THEN UNCHANGED missionVars
    ELSE LET m == (CHOOSE l \in ActiveLinks(t) : TRUE).mission
             ls == Without(links, m, {t})
         IN /\ links' = ls
            /\ missions' = LeftBy(ls, m)
            /\ stops' = RebuiltStops(trips, ls, m)

(* The cascade of a deletion takes the links and the stops; the mission keeps
   its status and its window. *)
Unlink(r) ==
    /\ links' = {l \in links : l.trip[1] # r}
    /\ stops' = [m \in MissionIds |-> {s \in stops[m] : s.trip[1] # r}]
    /\ UNCHANGED missions

(* _pool_conflicts also counts the active missions. *)
MissionConflicts(v, start) ==
    \E m \in MissionIds :
        /\ missions[m].status \in MissionActive /\ missions[m].vehicle = v
        /\ missions[m].arr # None /\ start < missions[m].arr

-----------------------------------------------------------------------------
Orderings(S) ==
    {s \in [1..Cardinality(S) -> S] : \A i, j \in DOMAIN s : s[i] = s[j] => i = j}

MissionRequest(m) ==
    \/ \E S \in SUBSET {t \in Trips : Groupable(t)} \ {{}} :
         \E s \in Orderings(S), v \in Vehicles, d \in Drivers \cup {None} :
            CreateMission(m, v, d, s)
    \/ \E t \in Trips : AddTrip(m, t) \/ RemoveTrip(m, t)
    \/ CancelMission(m)

TripRun(t) == (StartTrip(t) \/ EndTrip(t) \/ CloseTrip(t)) /\ SyncMission(t)

TripAssignment(t) ==
    /\ \/ \E v \in Vehicles : AssignVehicleToTrip(t, v)
       \/ \E d \in Drivers : AssignDriverToTrip(t, d)
    /\ UNCHANGED missionVars

ReservationChange(r) ==
    /\ \/ CancelReservation(r)
       \/ \E v \in Vehicles : AssignVehicle(r, v)
       \/ \E d \in Drivers : AssignDriver(r, d)
       \/ \E move \in Moves : Reschedule(r, move)
    /\ UNCHANGED missionVars

ManagedRequest(r) ==
    \/ ReservationChange(r)
    \/ DeleteReservation(r) /\ Unlink(r)
    \/ \E t \in LegsOf(r) : TripAssignment(t)

CarPlanRequest(v) ==
    /\ \/ ReturnVehicle(v)
       \/ \E start \in HoldStarts : AllocateVehicle(v, start) /\ ~MissionConflicts(v, start)
    /\ UNCHANGED missionVars

MissionsInit ==
    /\ Init
    /\ missions = [m \in MissionIds |-> NoMission]
    /\ links = {}
    /\ stops = [m \in MissionIds |-> {}]

(* The approval workflow is in module Transport; here the requests are
   already approved. *)
MissionsNext ==
    \/ \E m \in MissionIds : MissionRequest(m)
    \/ \E t \in Trips : TripRun(t) \/ (CancelTrip(t) /\ Detach(t))
    \/ \E r \in Managed : ManagedRequest(r)
    \/ \E r \in Editable, form \in Forms : EditReservation(r, form) /\ UNCHANGED missionVars
    \/ \E v \in CarPlanFleet : CarPlanRequest(v)

MissionsSpec == MissionsInit /\ [][MissionsNext]_allVars

-----------------------------------------------------------------------------
(* Properties *)

MissionRow ==
    [status : MissionActive \cup MissionOver \cup {"absent"},
     vehicle : Vehicles \cup {None}, driver : Drivers \cup {None},
     dep : Times \cup {None}, arr : Times \cup {None}]
LinkRow == [mission : MissionIds, trip : Trips, seq : Nat, rank : Nat, active : BOOLEAN]
StopRow == [trip : Trips, dep : Times, arr : Times]

(* Every table holds rows of its type. *)
MissionsTypeOK ==
    /\ TypeOK
    /\ missions \in [MissionIds -> MissionRow]
    /\ links \subseteq LinkRow
    /\ \A m \in MissionIds : \A s \in stops[m] : s \in StopRow

(* The flag the partial unique constraint reads says what the mission's status
   says, so that the constraint pins exactly the trips of missions that are
   still to run, and no trip is linked twice to an active mission
   (_sync_link_activity, MissionTrip.Meta.constraints). *)
ActiveFlagMirrorsMission ==
    /\ \A l \in links : l.active <=> missions[l.mission].status \in MissionActive
    /\ \A k, l \in links : k.active /\ l.active /\ k.trip = l.trip => k = l

(* The group that exempts a trip from the double-booking constraint is the
   mission it is a member of: set as long as the membership is active, and
   never left behind on a trip whose mission was cancelled or that was taken
   out of it (_assign_resources, _release_dispatch_group). *)
GroupMatchesMembership ==
    /\ \A l \in links : l.active => trips[l.trip].group = l.mission
    /\ \A t \in Trips : trips[t].group # None =>
         /\ t \in Members(links, trips[t].group)
         /\ missions[trips[t].group].status # "cancelled"

(* A completed mission is over: no member is still to leave or on the road,
   whatever was added, removed or replanned meanwhile (sync_mission_progress). *)
CompletedMissionsAreOver ==
    \A m \in MissionIds : missions[m].status = "completed" =>
        \A t \in Members(links, m) : trips[t].status \in Finished

(* Adding members never overfills the vehicle at any instant of the tour, on
   the windows the trips really have at that time, even when the stored stops
   predate a replanning (add_trip, create_mission, check_mission_feasible). *)
AdditionsFit ==
    [][\A m \in MissionIds :
        Members(links', m) \ Members(links, m) # {} =>
            Fits(StopsOf(trips', Members(links', m)), missions'[m].vehicle)]_allVars

(* Two active missions of one vehicle, or of one driver, keep the
   repositioning time between their windows as planned when the later of the
   two was last extended, whichever starts first (_check_resource_free). *)
AdditionsLeaveTransferTime ==
    [][\A m, o \in MissionIds :
        (/\ Members(links', m) \ Members(links, m) # {} /\ o # m
         /\ missions'[o].status \in MissionActive /\ missions'[o].dep # None
         /\ \/ missions'[o].vehicle = missions'[m].vehicle
            \/ missions'[o].driver # None /\ missions'[o].driver = missions'[m].driver) =>
            \/ missions'[o].arr + Transfer <= missions'[m].dep
            \/ missions'[m].arr + Transfer <= missions'[o].dep]_allVars

-----------------------------------------------------------------------------
(* What the documentation says and the code does not hold to *)

(* A mission whose members are all over is over: its status is the consequence
   of that of its trips (dispatch/services.py, sync_mission_progress: "derive,
   jamais saisi : l'etat d'une tournee est la consequence de celui de ses
   courses"). *)
ActiveMissionsHaveWork ==
    \A m \in MissionIds :
        (missions[m].status \in MissionActive /\ Members(links, m) # {}) =>
            \E t \in Members(links, m) : trips[t].status \notin Finished

(* A member that has not left has the vehicle of its tour: it is never
   reassigned alone (trips/services.py, assign_vehicle_to_trip: "une course
   appartenant a une tournee ne peut pas etre reaffectee isolement"). *)
TourSharesVehicle ==
    \A l \in links :
        l.active /\ trips[l.trip].status = "scheduled" =>
            trips[l.trip].vehicle = missions[l.mission].vehicle

=============================================================================
