SPECIFICATION Spec
CONSTANTS
    Employees = {1, 2}
    Workers = {1, 2}
    Rows = {1, 2, 3}
    None = None
    Guard = 1
    Overlap = 1
    Skew = 1
    Scenarios <- MCReturn
INVARIANTS
    NeverReopenedByMachine
