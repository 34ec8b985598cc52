SPECIFICATION FairSpec
CONSTANTS
    Vehicles = {v1, v2}
    None = None
    Beneficiaries = {"e1", "e2"}
    Kinds = {"company_car"}
    MaxAssignments = 2
    MaxChanges = 2
    MaxDay = 2
    Open = 9
    Requests <- MCRequests
    Windows <- MCWindows
    NewEnds = {2}
    Scenarios <- MCScenarios
INVARIANTS
    CarPlanTypeOK
    PoolPlanExcludesCarPlan
    AssignedVehicleHeld
    NoHoldOutlivesAssignment

PROPERTIES
    RenewalsTakeOver
CHECK_DEADLOCK FALSE
