SPECIFICATION Spec
CONSTANTS
    Trips = {1, 2, 3}
    Instants = {0, 1, 2}
    None = None
    Pax <- MCPax
    Transfer = 1
INVARIANTS
    PeakIsGreatestLoad
    CoherentIffWindowsSound
    ResourceCheckSymmetric
PROPERTIES
    LeavingKeepsFeasibility
