----------------------------- MODULE MCTransport -----------------------------
(* A small fleet for TLC, and two portfolios: a round trip that needs a driver,
   alone, with every kind of request; or two one-way trips on the same day that
   compete for two vehicles and one driver. *)
EXTENDS Transport, TLC

CONSTANTS a, b, c, v1, v2, d1

MCReservations == {a, b, c}
MCPortfolios == {{a}, {b, c}}
MCRoundTrip == {a}
MCPassengers == (a :> 2) @@ (b :> 1) @@ (c :> 2)
MCSeats == (v1 :> 2) @@ (v2 :> 1)
MCRequired == <<"manager", "fleet">>
MCRequest == (a :> [dep |-> 0, ret |-> 2, est |-> 4])
          @@ (b :> [dep |-> 0, ret |-> None, est |-> 3])
          @@ (c :> [dep |-> 2, ret |-> None, est |-> 4])
MCMoves == {[dep |-> 3, ret |-> None, est |-> 8]}
MCForms ==
    {[vehicle |-> v2, driver |-> None, dep |-> 0, ret |-> 2, est |-> 4,
      trip_type |-> "round_trip", needs_driver |-> FALSE, passengers |-> 1],
     [vehicle |-> None, driver |-> d1, dep |-> 3, ret |-> None, est |-> 8,
      trip_type |-> "one_way", needs_driver |-> TRUE, passengers |-> 2]}
==============================================================================
