------------------------------ MODULE MCMissions ------------------------------
(* Grouped missions on a small fleet.  a and b are approved one-way trips whose
   windows overlap and that together fill the larger vehicle; c is approved too,
   a round trip whose form may add a passenger, or a one-way trip that needs a
   driver and that the planner may move right after a. *)
EXTENDS Missions, TLC

CONSTANTS a, b, c, v1, v2, d1

MCReservations == {a, b, c}
MCTogether == {{a, b}}
MCEither == {{a, b}, {c}}
MCRivals == {{a, c}}
MCPassengers == (a :> 2) @@ (b :> 1) @@ (c :> 2)
MCSeats == [v \in Vehicles |-> IF v = v1 THEN 3 ELSE 2]
MCRequired == <<"fleet">>
MCRequest == (a :> [dep |-> 0, ret |-> None, est |-> 3])
          @@ (b :> [dep |-> 2, ret |-> None, est |-> 4])
          @@ (c :> [dep |-> 0, ret |-> 2, est |-> 4])
MCMoves == {[dep |-> 4, ret |-> None, est |-> 6]}
MCForms == {[vehicle |-> None, driver |-> None, dep |-> 0, ret |-> 2, est |-> 4,
             trip_type |-> "round_trip", needs_driver |-> FALSE, passengers |-> 3]}
MCShift == {[dep |-> 3, ret |-> 6, est |-> 7]}
==============================================================================
