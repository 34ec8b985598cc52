---------------------------- MODULE DispatchRules ----------------------------
(***************************************************************************)
(* The pure rules of a grouped mission, apps/dispatch/rules.py, with the   *)
(* stops and windows apps/dispatch/services.py feeds them: what the loops  *)
(* compute is compared with what they are meant to decide, on every tour   *)
(* of a few trips, planned and unplanned trip by trip.                     *)
(***************************************************************************)
EXTENDS Integers, Sequences, FiniteSets, FiniteSetsExt

CONSTANTS
    Trips,          \* ids of the trips that may be grouped
    Instants,       \* planned times
    None,           \* a planned time that is missing
    Pax,            \* passengers of each trip
    Transfer        \* DEFAULT_TRANSFER_MINUTES

ASSUME RulesAssumption ==
    /\ Trips \subseteq Nat /\ Instants \subseteq Nat /\ None \notin Instants
    /\ Pax \in [Trips -> Nat] /\ Transfer \in Nat \ {0}

Windows == [dep : Instants \cup {None}, arr : Instants \cup {None}]

VARIABLES
    tour,    \* the windows of the trips linked to the mission
    other    \* the window of another active mission of the same vehicle

vars == <<tour, other>>

-----------------------------------------------------------------------------
(* Stops in order *)

(* _trip_stop_specs: one pickup and one dropoff per trip. *)
StopSpecs(planned) ==
    {[trip |-> t, kind |-> "pickup", at |-> planned[t].dep] : t \in DOMAIN planned}
    \cup {[trip |-> t, kind |-> "dropoff", at |-> planned[t].arr] : t \in DOMAIN planned}

(* Mutant: one instant, no order between boarding and alighting. *)
BeforeByTime(s, u) ==
    \/ s.at # None /\ u.at = None
    \/ s.at # None /\ u.at # None /\ s.at < u.at
    \/ s.at = u.at /\ s.trip < u.trip
    \/ s.at = u.at /\ s.trip = u.trip /\ s.kind = "pickup" /\ u.kind = "dropoff"

(* Mutant: alighting first at one instant. *)
BeforeAlighting(s, u) ==
    \/ s.at # None /\ u.at = None
    \/ s.at # None /\ u.at # None /\ s.at < u.at
    \/ s.at = u.at /\ s.kind = "dropoff" /\ u.kind = "pickup"
    \/ s.at = u.at /\ s.kind = u.kind /\ s.trip < u.trip

(* The sort key: untimed stops last, then time, pickups first, then trip. *)
Before(s, u) ==
    \/ s.at # None /\ u.at = None
    \/ s.at # None /\ u.at # None /\ s.at < u.at
    \/ s.at = u.at /\ s.kind = "pickup" /\ u.kind = "dropoff"
    \/ s.at = u.at /\ s.kind = u.kind /\ s.trip < u.trip

OrderStops(specs) ==
    [i \in 1..Cardinality(specs) |->
        CHOOSE s \in specs : Cardinality({u \in specs : Before(u, s)}) = i - 1]

-----------------------------------------------------------------------------
(* What the loops over the stops compute *)

(* Mutant: everybody alights at a dropoff. *)
EmptyingProfile(stops) ==
    LET onboard[i \in 0..Len(stops)] ==
            IF i = 0 THEN 0
            ELSE IF stops[i].kind = "pickup" THEN onboard[i - 1] + Pax[stops[i].trip] ELSE 0
    IN [i \in DOMAIN stops |-> onboard[i]]

(* occupancy_profile: people on board after each stop. *)
OccupancyProfile(stops) ==
    LET onboard[i \in 0..Len(stops)] ==
            IF i = 0 THEN 0
            ELSE onboard[i - 1]
                 + (IF stops[i].kind = "pickup" THEN Pax[stops[i].trip] ELSE -Pax[stops[i].trip])
    IN [i \in DOMAIN stops |-> onboard[i]]

MaxOccupancy(stops) ==
    LET profile == OccupancyProfile(stops)
    IN IF stops = << >> THEN 0 ELSE Max({profile[i] : i \in DOMAIN stops})

CapacityOk(stops, capacity) == MaxOccupancy(stops) <= capacity

(* sequence_is_coherent: each trip boards once, then alights once. *)
SequenceIsCoherent(stops) ==
    LET onboard[i \in 0..Len(stops)] ==
            IF i = 0 THEN {}
            ELSE IF stops[i].kind = "pickup" THEN onboard[i - 1] \cup {stops[i].trip}
                 ELSE onboard[i - 1] \ {stops[i].trip}
    IN /\ \A i \in DOMAIN stops :
            stops[i].kind = "pickup" <=> stops[i].trip \notin onboard[i - 1]
       /\ onboard[Len(stops)] = {}

-----------------------------------------------------------------------------
(* Windows *)

Timed(specs) == {s.at : s \in specs} \ {None}
WindowFor(specs) ==
    IF Timed(specs) = {} THEN [dep |-> None, arr |-> None]
    ELSE [dep |-> Min(Timed(specs)), arr |-> Max(Timed(specs))]

WindowsOverlap(x, y) ==
    None \notin {x.dep, x.arr, y.dep, y.arr} /\ x.dep < y.arr /\ y.dep < x.arr

BufferFeasible(end, start) == end = None \/ start = None \/ start - end >= Transfer

(* Mutant: only a mission that ends before this one is looked at. *)
ResourceFreeAfter(window, o) ==
    (window.dep # None /\ window.arr # None) =>
        /\ ~WindowsOverlap(window, o)
        /\ (o.arr # None /\ o.arr <= window.dep) => BufferFeasible(o.arr, window.dep)

(* _check_resource_free, against one other active mission. *)
ResourceFree(window, o) ==
    (window.dep # None /\ window.arr # None) =>
        /\ ~WindowsOverlap(window, o)
        /\ (o.arr # None /\ o.arr <= window.dep) => BufferFeasible(o.arr, window.dep)
        /\ (o.dep # None /\ window.arr <= o.dep) => BufferFeasible(window.arr, o.dep)

-----------------------------------------------------------------------------
(* The tour is planned trip by trip: a trip joins with its window, leaves. *)

Init ==
    /\ tour = << >>
    /\ other \in {w \in Windows : (w.dep = None) = (w.arr = None) /\ (w.dep # None => w.dep <= w.arr)}

Join(t, w) ==
    /\ t \notin DOMAIN tour
    /\ tour' = [u \in DOMAIN tour \cup {t} |-> IF u = t THEN w ELSE tour[u]]
    /\ UNCHANGED other

Leave(t) ==
    /\ t \in DOMAIN tour
    /\ tour' = [u \in DOMAIN tour \ {t} |-> tour[u]]
    /\ UNCHANGED other

Next == \E t \in Trips : (\E w \in Windows : Join(t, w)) \/ Leave(t)

Spec == Init /\ [][Next]_vars

-----------------------------------------------------------------------------
(* Properties *)

Itinerary == OrderStops(StopSpecs(tour))

(* People on board at instant x, a traveller whose arrival is unknown staying
   on board: boarding precedes alighting when both fall on x. *)
LoadAt(planned, x) ==
    MapThenSumSet(LAMBDA t : Pax[t],
        {t \in DOMAIN planned : /\ planned[t].dep # None /\ planned[t].dep <= x
                                /\ planned[t].arr # None => x <= planned[t].arr})

(* On a tour whose departures are all known, the greatest occupancy of the
   ordered stops is the greatest load at any instant: trips that follow one
   another do not add up, trips that touch do (max_occupancy, order_stops). *)
PeakIsGreatestLoad ==
    LET stops == Itinerary IN
    ((\A t \in DOMAIN tour : tour[t].dep # None) /\ SequenceIsCoherent(stops)) =>
        MaxOccupancy(stops) = Max({0} \cup {LoadAt(tour, x) : x \in Instants})

(* The ordered stops are refused exactly when some trip arrives before it
   leaves, or has an arrival and no departure: order_stops never breaks a
   sound tour, equal times and missing times included (sequence_is_coherent). *)
CoherentIffWindowsSound ==
    SequenceIsCoherent(Itinerary) <=>
        \A t \in DOMAIN tour :
            /\ tour[t].dep = None => tour[t].arr = None
            /\ (tour[t].dep # None /\ tour[t].arr # None) => tour[t].dep <= tour[t].arr

(* Taking a trip out of a feasible tour leaves a feasible tour: remove_trip
   and detach_cancelled_trip rebuild the mission without checking it again,
   and need not (_rebuild, capacity_ok, sequence_is_coherent). *)
LeavingKeepsFeasibility ==
    [][DOMAIN tour' \subseteq DOMAIN tour =>
        LET before == Itinerary
            after == OrderStops(StopSpecs(tour'))
        IN SequenceIsCoherent(before) =>
             /\ SequenceIsCoherent(after)
             /\ \A capacity \in 0..MaxOccupancy(before) :
                  CapacityOk(before, capacity) => CapacityOk(after, capacity)]_vars

(* The verdict on two missions does not depend on which was planned first, and
   lets through only windows a full transfer time apart (_check_resource_free,
   "les DEUX sens comptent"). *)
ResourceCheckSymmetric ==
    LET mine == WindowFor(StopSpecs(tour))
    IN (mine.dep # None /\ other.dep # None) =>
        /\ ResourceFree(mine, other) <=> ResourceFree(other, mine)
        /\ ResourceFree(mine, other) =>
             other.arr + Transfer <= mine.dep \/ mine.arr + Transfer <= other.dep
=============================================================================
