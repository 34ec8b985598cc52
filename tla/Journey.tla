------------------------------- MODULE Journey -------------------------------
(***************************************************************************)
(* What reservations, trips, missions and the planner promise together, as *)
(* the driver and the requester see it: legs are arranged and rearranged   *)
(* freely until they leave; a leg leaves with a vehicle and the driver its *)
(* reservation asks for at that moment, a return leg only after the        *)
(* outbound leg is back; what has left is never rearranged; once a leg has *)
(* left the file gains and loses none, and it is done, then closed, exactly *)
(* when its last leg is.                                                   *)
(***************************************************************************)
CONSTANTS Reservations, Trips, None

VARIABLES
    leg,    \* the state of each leg
    plan,   \* its vehicle, its driver and its window
    file,   \* the file of each reservation
    needing \* the reservations that ask for a driver

journey == <<leg, plan, file, needing>>

Movable == {"absent", "scheduled", "cancelled"}
Back == {"returned", "closed"}
LegsOfFile(r) == {t \in Trips : t[1] = r /\ leg[t] # "absent"}

Init ==
    /\ \A t \in Trips : leg[t] \in {"absent", "scheduled"}
    /\ \A r \in Reservations : file[r] = "open"

(* Anything may happen to the legs that have not left, except that a cancelled
   leg does not come back; a file that is open gains and loses legs; whether a
   driver is needed may change at any time. *)
Rearrange ==
    /\ \A t \in Trips :
         IF leg[t] \in Movable
         THEN /\ leg'[t] \in Movable
              /\ leg[t] = "cancelled" => leg'[t] # "scheduled"
         ELSE leg'[t] = leg[t] /\ plan'[t] = plan[t]
    /\ \A t \in Trips : file[t[1]] # "open" => (leg[t] = "absent" <=> leg'[t] = "absent")
    /\ DOMAIN leg' = Trips
    /\ file' = file

Depart(t) ==
    /\ leg[t] = "scheduled"
    /\ plan[t].vehicle # None
    /\ t[1] \in needing => plan[t].driver # None
    /\ t[2] = "return" => leg[<<t[1], "outbound">>] \in Back
    /\ leg' = [leg EXCEPT ![t] = "in_progress"]
    /\ file' = [file EXCEPT ![t[1]] = "underway"]
    /\ UNCHANGED <<plan, needing>>

Arrive(t) ==
    LET after == [leg EXCEPT ![t] = "returned"]
    IN /\ leg[t] = "in_progress"
       /\ leg' = after
       /\ file' = IF \A u \in LegsOfFile(t[1]) : after[u] \in Back
                  THEN [file EXCEPT ![t[1]] = "done"] ELSE file
       /\ UNCHANGED <<plan, needing>>

Close(t) ==
    LET after == [leg EXCEPT ![t] = "closed"]
    IN /\ leg[t] = "returned"
       /\ leg' = after
       /\ file' = IF \A u \in LegsOfFile(t[1]) : after[u] = "closed"
                  THEN [file EXCEPT ![t[1]] = "closed"] ELSE file
       /\ UNCHANGED <<plan, needing>>

Next == Rearrange \/ \E t \in Trips : Depart(t) \/ Arrive(t) \/ Close(t)

JourneySpec == Init /\ [][Next]_journey
==============================================================================
