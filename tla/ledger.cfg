SPECIFICATION FairSpec
CONSTANTS
    e1 = e1
    e2 = e2
    t1 = t1
    None = None
    Expenses = {e1, e2}
    Trips = {t1}
    Legacy = {e2}
    MonthOf <- MCMonthOf
    TripOf <- MCTripOf
    DepartedIn <- MCDeparted
    MaxMonth = 3
    MaxEvents = 2
INVARIANTS
    LedgerTypeOK
    AdjustmentsInTheBooks
    NeverCountedTwice
    BooksMatchExpenses
    TripCostsMatchExpenses
PROPERTIES
    ClosedTripsCosted
CHECK_DEADLOCK FALSE
