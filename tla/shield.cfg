SPECIFICATION FairSpec
CONSTANTS
    Employees = {1, 2}
    Workers = {1, 2}
    Rows = {1, 2, 3}
    None = None
    Guard = 1
    Overlap = 1
    Skew = 1
    Scenarios <- MCScenarios
INVARIANTS
    ShieldTypeOK
    HumanBlockStands
    StaleFilesWillBeRead
    AbsencesVerified
PROPERTIES
    OnlyDepartedAreClosed
    AccountsFollowRegister
