SPECIFICATION Spec
CONSTANTS
    a = a
    b = b
    c = c
    v1 = v1
    v2 = v2
    d1 = d1
    None = None
    Reservations <- MCReservations
    Vehicles = {v1, v2}
    Drivers = {d1}
    RoundTrip <- MCRoundTrip
    WithDriver <- MCRoundTrip
    Passengers <- MCPassengers
    Seats <- MCSeats
    Required <- MCRequired
    Request <- MCRequest
    Moves <- MCMoves
    Forms <- MCForms
    MaxDuration = 6
    HoldStarts = {5}
    CarPlanFleet = {v2}
    Portfolios <- MCPortfolios
    Validated = {b, c}
    Editable = {a}
    Workshop = {v2}
PROPERTIES
    CancelledStaysCancelled
