SPECIFICATION MissionsSpec
CONSTANTS
    a = a
    b = b
    c = c
    v1 = v1
    v2 = v2
    d1 = d1
    None = None
    Reservations <- MCReservations
    Vehicles = {v1, v2}
    Drivers = {}
    RoundTrip = {c}
    WithDriver = {}
    Passengers <- MCPassengers
    Seats <- MCSeats
    Required <- MCRequired
    Request <- MCRequest
    Moves <- MCMoves
    Forms = {}
    MaxDuration = 6
    HoldStarts = {5}
    CarPlanFleet = {v2}
    Portfolios <- MCEither
    Validated <- MCReservations
    Editable = {}
    Workshop = {}
    Managed = {a}
    MaxMissions = 2
    Transfer = 1
INVARIANTS
    TourSharesVehicle
