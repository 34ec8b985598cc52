-------------------------------- MODULE Ledger --------------------------------
(***************************************************************************)
(* The books: expenses that are validated, trips whose direct cost is      *)
(* frozen, months that are closed, and the adjustments that carry what     *)
(* comes too late.  apps/expenses/workflow.py and                          *)
(* apps/finance/{adjustments,periods,trip_cost,locks,reconciliation}.py.   *)
(*                                                                         *)
(* A request decides on what it reads and its writes are seen when it      *)
(* commits: what reads and writes several tables is two steps here, with   *)
(* the row locks it keeps in between (READ COMMITTED).  Time is counted in *)
(* months; amounts, vehicles, cost centres and people are not represented. *)
(***************************************************************************)
EXTENDS Naturals, FiniteSets

CONSTANTS
    Expenses, Trips, None,
    Legacy,         \* expenses entered before the circuit: validated, to be taken up
    MonthOf,        \* month of the date of an expense
    TripOf,         \* the trip an expense is for, or None
    DepartedIn,     \* month in which a trip departed
    MaxMonth,       \* bound on the calendar
    MaxEvents       \* bound on the adjustments ever made, and the requests a freeze fails in

Months == 1..MaxMonth
AdjustmentIds == 1..MaxEvents

ASSUME LedgerAssumption ==
    /\ None \notin Trips \cup Expenses \cup Months
    /\ Legacy \subseteq Expenses
    /\ MonthOf \in [Expenses -> Months] /\ DepartedIn \in [Trips -> Months]
    /\ TripOf \in [Expenses -> Trips \cup {None}]
    /\ MaxMonth \in Nat \ {0} /\ MaxEvents \in Nat

VARIABLES
    today,          \* the current month
    status,         \* status of an expense
    source,         \* source_type: the cost is its own, a record's, or to be taken up
    reconciled,     \* reconciled_at is set
    adjustments,    \* the FinancialAdjustment rows
    running,        \* trips not closed yet
    cost,           \* what the frozen direct cost of a trip counts, or None
    books,          \* what a closed month counts, or None
    requests,       \* the decision on an expense that is not committed yet
    freezing,       \* the direct cost being frozen, not committed yet
    closing,        \* the closing of a month under way
    failures,
    raced           \* expenses decided while what counts them was being frozen

expenseVars == <<status, source, reconciled, requests>>
bookVars == <<cost, books, freezing, closing, running, failures>>
vars == <<today, expenseVars, adjustments, bookVars, raced>>

Realised == {"validated", "paid"}

NoAdjustment == [status |-> "none", expense |-> None, posting |-> None]

Carriers(e) == {a \in AdjustmentIds : adjustments[a].expense = e}
Carried(e) == Carriers(e) # {}

(* Mutant: an expense carried by an adjustment counts by itself too. *)
CountableCarried(e) == source[e] = "own" /\ status[e] \in Realised

(* ExpenseQuerySet.countable *)
Countable(e) == source[e] = "own" /\ status[e] \in Realised /\ ~Carried(e)

Closed(m) == books[m] # None
Frozen(e) == TripOf[e] # None /\ cost[TripOf[e]] # None

(* Mutant: a month that is closed is not looked at. *)
LateForTrip(e) == Frozen(e)

(* lateness *)
Late(e) == Frozen(e) \/ Closed(MonthOf[e])

(* is_locked *)
Locked(e) ==
    /\ status[e] \in Realised
    /\ IF Carried(e) THEN \E a \in Carriers(e) : adjustments[a].status = "approved"
       ELSE source[e] = "own" /\ (Closed(MonthOf[e]) \/ (Frozen(e) /\ e \in cost[TripOf[e]]))

(* The expenses under decision that a reading of these rows misses. *)
Undecided(S) == {e \in S : requests[e] # None}

(* The readings under way that miss the decision on an expense. *)
BeingCounted(e) ==
    \/ closing # None /\ closing.month = MonthOf[e]
    \/ TripOf[e] # None /\ freezing[TripOf[e]] # None
    \/ closing # None /\ TripOf[e] \in closing.backlog

Made == {a \in AdjustmentIds : adjustments[a].status # "none"}
CanAdjust == Cardinality(Made) + failures < MaxEvents
Fails == Cardinality(Made) + failures < MaxEvents /\ failures' = failures + 1

-----------------------------------------------------------------------------
(* The circuit of an expense *)

(* submit, send_for_validation, request_info, reject, pay, discard: the row is
   locked and nothing else is read. *)
Moves == {<<"draft", "submitted">>, <<"submitted", "to_validate">>, <<"to_validate", "submitted">>,
          <<"submitted", "rejected">>, <<"to_validate", "rejected">>,
          <<"validated", "paid">>, <<"draft", "cancelled">>}

Move(e, to) ==
    /\ requests[e] = None
    /\ <<status[e], to>> \in Moves
    /\ status' = [status EXCEPT ![e] = to]
    /\ UNCHANGED <<today, source, reconciled, requests, adjustments, bookVars, raced>>

Decide(e, decision) ==
    /\ requests[e] = None
    /\ requests' = [requests EXCEPT ![e] = decision]
    /\ raced' = IF BeingCounted(e) THEN raced \cup {e} ELSE raced
    /\ UNCHANGED <<today, status, source, reconciled, adjustments, bookVars>>

(* validate: a late expense is carried by an adjustment, approved at once. *)
Validate(e) ==
    /\ status[e] = "to_validate" /\ source[e] = "own"
    /\ Late(e) => CanAdjust
    /\ Decide(e, IF Late(e) THEN "validate_late" ELSE "validate")

(* Mutant: what has already been counted may be cancelled. *)
CancellableAnyhow(e) == status[e] = "validated" /\ ~Carried(e)

Cancellable(e) == status[e] = "validated" /\ ~Carried(e) /\ ~Locked(e)

Cancel(e) == Cancellable(e) /\ Decide(e, "cancel")

(* reconcile: an expense of the past becomes the piece of a record, counts by
   itself, or is carried by an adjustment to be approved. *)
Reconcile(e, destination) ==
    /\ source[e] = "legacy" /\ ~reconciled[e]
    /\ Late(e) => CanAdjust
    /\ Decide(e, IF Late(e) /\ destination # "piece" THEN "carry" ELSE destination)

(* create_adjustment posts to the current month, which is never closed. *)
Post(e, st) ==
    \E a \in AdjustmentIds :
        /\ adjustments[a].status = "none"
        /\ \A b \in AdjustmentIds : b < a => adjustments[b].status # "none"
        /\ adjustments' = [adjustments EXCEPT ![a] = [status |-> st, expense |-> e, posting |-> today]]

CommitRequest(e) ==
    LET decision == requests[e] IN
    /\ decision # None
    /\ decision \in {"validate_late", "carry"} => CanAdjust
    /\ requests' = [requests EXCEPT ![e] = None]
    /\ status' = [status EXCEPT ![e] =
         CASE decision \in {"validate", "validate_late", "own"} -> "validated"
           [] decision = "cancel" -> "cancelled"
           [] OTHER -> @]
    /\ source' = [source EXCEPT ![e] = IF decision \in {"own", "piece"} THEN decision ELSE @]
    /\ reconciled' = [reconciled EXCEPT ![e] = @ \/ decision \in {"own", "piece", "carry"}]
    /\ CASE decision = "validate_late" -> Post(e, "approved")
         [] decision = "carry" -> Post(e, "pending")
         [] OTHER -> UNCHANGED adjustments
    /\ UNCHANGED <<today, bookVars, raced>>

-----------------------------------------------------------------------------
(* Adjustments *)

(* An adjustment that is asked for by hand corrects what is frozen. *)
CreateAdjustment ==
    /\ CanAdjust
    /\ \/ \E m \in Months : m <= today /\ Closed(m)
       \/ \E t \in Trips : cost[t] # None
    /\ Post(None, "pending")
    /\ UNCHANGED <<today, expenseVars, bookVars, raced>>

Approve(a) ==
    /\ adjustments[a].status = "pending"
    /\ ~Closed(adjustments[a].posting)
    /\ adjustments' = [adjustments EXCEPT ![a].status = "approved"]
    /\ UNCHANGED <<today, expenseVars, bookVars, raced>>

(* The expense it carried is free again. *)
Reject(a) ==
    LET e == adjustments[a].expense IN
    /\ adjustments[a].status = "pending"
    /\ e # None => requests[e] = None
    /\ adjustments' = [adjustments EXCEPT ![a].status = "rejected", ![a].expense = None]
    /\ reconciled' = IF e # None THEN [reconciled EXCEPT ![e] = FALSE] ELSE reconciled
    /\ UNCHANGED <<today, status, source, requests, bookVars, raced>>

-----------------------------------------------------------------------------
(* The direct cost of a trip *)

(* Mutant: the expenses of the trip's month, whatever trip they are for. *)
ExpectedOfMonth(t) == {e \in Expenses : MonthOf[e] = DepartedIn[t] /\ Countable(e)}

Expected(t) == {e \in Expenses : TripOf[e] = t /\ Countable(e)}
Concerned(t) == {e \in Expenses : TripOf[e] = t}

(* close_trip: the cost is frozen with the closing, which goes on without it
   when the freeze fails. *)
CloseTrip(t) ==
    /\ t \in running /\ DepartedIn[t] <= today /\ freezing[t] = None
    /\ \/ /\ freezing' = [freezing EXCEPT ![t] = Expected(t)]
          /\ raced' = raced \cup Undecided(Concerned(t))
          /\ UNCHANGED <<running, failures>>
       \/ /\ Fails
          /\ running' = running \ {t}
          /\ UNCHANGED <<freezing, raced>>
    /\ UNCHANGED <<today, expenseVars, adjustments, cost, books, closing>>

(* Mutant: only costs that exist already are looked for. *)
BacklogFrozen == {t \in Trips \ running : cost[t] # None}

(* freeze_direct_backlog: trips closed without their cost. *)
Backlog == {t \in Trips \ running : cost[t] = None}

LockedByClosing(t) == closing # None /\ t \in closing.backlog

FreezeBacklog(t) ==
    /\ t \in Backlog /\ freezing[t] = None /\ ~LockedByClosing(t)
    /\ freezing' = [freezing EXCEPT ![t] = Expected(t)]
    /\ raced' = raced \cup Undecided(Concerned(t))
    /\ UNCHANGED <<today, expenseVars, adjustments, running, cost, books, closing, failures>>

CommitFreeze(t) ==
    /\ freezing[t] # None
    /\ cost' = [cost EXCEPT ![t] = freezing[t]]
    /\ freezing' = [freezing EXCEPT ![t] = None]
    /\ running' = running \ {t}
    /\ UNCHANGED <<today, expenseVars, adjustments, books, closing, failures, raced>>

FailFreeze(t) ==
    /\ freezing[t] # None /\ Fails
    /\ freezing' = [freezing EXCEPT ![t] = None]
    /\ running' = running \ {t}
    /\ UNCHANGED <<today, expenseVars, adjustments, cost, books, closing, raced>>

-----------------------------------------------------------------------------
(* The closing of a month *)

PendingIn(m) == {a \in AdjustmentIds : adjustments[a].status = "pending" /\ adjustments[a].posting = m}

(* Mutant: adjustments that wait for a decision do not hold the month. *)
ClosableAnyhow(m) == m < today /\ ~Closed(m)

Closable(m) == m < today /\ ~Closed(m) /\ PendingIn(m) = {}

Dated(m) == {e \in Expenses : MonthOf[e] = m}

(* close_period up to the freeze of the month's trips.  It keeps locked those it
   freezes and goes on without those whose freeze fails. *)
BeginClosing(m, frozen) ==
    LET late == {t \in Backlog : DepartedIn[t] = m} IN
    /\ closing = None
    /\ Closable(m)
    /\ \A t \in late : freezing[t] = None
    /\ frozen \subseteq late
    /\ \/ frozen = late /\ UNCHANGED failures
       \/ frozen # late /\ Fails
    /\ closing' = [month |-> m, backlog |-> frozen, counted |-> None, posted |-> None, budget |-> None,
                   costs |-> [t \in frozen |-> Expected(t)]]
    /\ raced' = raced \cup Undecided(Dated(m) \cup UNION {Concerned(t) : t \in frozen})
    /\ UNCHANGED <<today, expenseVars, adjustments, cost, books, freezing, running>>

(* The vehicles' monthly costs. *)
CountVehicles ==
    /\ closing # None /\ closing.counted = None
    /\ closing' = [closing EXCEPT
         !.counted = {e \in Dated(closing.month) : Countable(e)},
         !.posted = {a \in AdjustmentIds : /\ adjustments[a].status = "approved"
                                           /\ adjustments[a].posting = closing.month}]
    /\ UNCHANGED <<today, expenseVars, adjustments, cost, books, freezing, running, failures, raced>>

(* freeze_period: the budget is read again. *)
CountBudget ==
    /\ closing # None /\ closing.counted # None /\ closing.budget = None
    /\ closing' = [closing EXCEPT !.budget = {e \in Dated(closing.month) : Countable(e)}]
    /\ UNCHANGED <<today, expenseVars, adjustments, cost, books, freezing, running, failures, raced>>

CommitClosing ==
    /\ closing # None /\ closing.budget # None
    /\ books' = [books EXCEPT ![closing.month] =
         [counted |-> closing.counted, posted |-> closing.posted, budget |-> closing.budget]]
    /\ cost' = [t \in Trips |-> IF t \in closing.backlog THEN closing.costs[t] ELSE cost[t]]
    /\ closing' = None
    /\ UNCHANGED <<today, expenseVars, adjustments, freezing, running, failures, raced>>

(* A request is answered before the month ends. *)
NextMonth ==
    /\ today < MaxMonth /\ \A e \in Expenses : requests[e] = None
    /\ today' = today + 1
    /\ UNCHANGED <<expenseVars, adjustments, bookVars, raced>>

Init ==
    /\ today = 1
    /\ status = [e \in Expenses |-> IF e \in Legacy THEN "validated" ELSE "draft"]
    /\ source = [e \in Expenses |-> IF e \in Legacy THEN "legacy" ELSE "own"]
    /\ reconciled = [e \in Expenses |-> FALSE]
    /\ adjustments = [a \in AdjustmentIds |-> NoAdjustment]
    /\ running = Trips
    /\ cost = [t \in Trips |-> None]
    /\ books = [m \in Months |-> None]
    /\ requests = [e \in Expenses |-> None]
    /\ freezing = [t \in Trips |-> None]
    /\ closing = None
    /\ failures = 0
    /\ raced = {}

Next ==
    \/ \E e \in Expenses :
         \/ \E to \in {"submitted", "to_validate", "rejected", "paid", "cancelled"} : Move(e, to)
         \/ Validate(e) \/ Cancel(e) \/ CommitRequest(e)
         \/ \E destination \in {"own", "piece"} : Reconcile(e, destination)
    \/ CreateAdjustment
    \/ \E a \in AdjustmentIds : Approve(a) \/ Reject(a)
    \/ \E t \in Trips : CloseTrip(t) \/ FreezeBacklog(t) \/ CommitFreeze(t) \/ FailFreeze(t)
    \/ \E m \in Months, frozen \in SUBSET Trips : BeginClosing(m, frozen)
    \/ CountVehicles \/ CountBudget \/ CommitClosing
    \/ NextMonth

(* The hourly task tries the trips without their cost again; a transaction
   that has begun ends. *)
Fairness ==
    /\ \A t \in Trips : WF_vars(FreezeBacklog(t)) /\ WF_vars(CommitFreeze(t))
    /\ WF_vars(CountVehicles) /\ WF_vars(CountBudget) /\ WF_vars(CommitClosing)

Spec == Init /\ [][Next]_vars
FairSpec == Spec /\ Fairness

-----------------------------------------------------------------------------
(* Properties *)

LedgerTypeOK ==
    /\ today \in Months /\ running \subseteq Trips /\ failures \in 0..MaxEvents
    /\ raced \subseteq Expenses
    /\ status \in [Expenses -> {"draft", "submitted", "to_validate", "validated", "paid",
                                "rejected", "cancelled"}]
    /\ source \in [Expenses -> {"own", "legacy", "piece"}] /\ reconciled \in [Expenses -> BOOLEAN]
    /\ \A e \in Expenses : Cardinality(Carriers(e)) <= 1
    /\ \A t \in Trips : cost[t] # None => t \notin running /\ cost[t] \subseteq Concerned(t)

(* A closed month has the approved adjustments posted to it, all of them and no
   other, and none is left to decide: what is approved late is never lost. *)
AdjustmentsInTheBooks ==
    \A m \in Months : Closed(m) =>
        /\ PendingIn(m) = {}
        /\ books[m].posted = {a \in AdjustmentIds : /\ adjustments[a].status = "approved"
                                                    /\ adjustments[a].posting = m}

(* An expense carried by an adjustment is counted by nothing else: neither by
   its month nor by its trip. *)
NeverCountedTwice ==
    \A e \in Expenses : Carried(e) =>
        /\ \A m \in Months : Closed(m) => e \notin books[m].counted \cup books[m].budget
        /\ \A t \in Trips : cost[t] # None => e \notin cost[t]

(* A closed month still counts what counts, and only that, in the vehicles'
   costs and in the budget: later validations are carried, later cancellations
   refused.  An expense decided during the closing itself is left aside. *)
BooksMatchExpenses ==
    \A m \in Months : Closed(m) =>
        \A e \in Dated(m) \ raced :
            /\ e \in books[m].counted <=> Countable(e)
            /\ e \in books[m].budget <=> Countable(e)

(* So does the frozen cost of a trip. *)
TripCostsMatchExpenses ==
    \A t \in Trips : cost[t] # None =>
        \A e \in Concerned(t) \ raced : e \in cost[t] <=> Countable(e)

(* A trip that is closed gets its cost, whatever failed. *)
ClosedTripsCosted == \A t \in Trips : (t \notin running) ~> (cost[t] # None)
==============================================================================
