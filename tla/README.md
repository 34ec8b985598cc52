# KExpress: a verification of its protocols

KExpress is the fleet-management backend of a company (Django REST, PostgreSQL; a Next.js
front end): employees request a vehicle, managers validate the request, the fleet assigns a
vehicle and a driver, trips are generated, driven, closed, sometimes grouped into tours, while a
"Car Plan" takes vehicles out of the shared fleet, finance freezes what was spent, and the staff
register opens and closes accounts. This directory holds TLA+ modules for the parts where several
pieces of state must agree with one another through many steps: transport (reservations, trips,
grouped missions), the Car Plan (assignments and holds), the books (expenses, adjustments, frozen
costs, closed months) and the synchronisation of the staff register. All paths below are relative
to `src/apps/`.

## 1. Inventory

| Component | State it keeps | Operations | Talks to | Hard part |
|---|---|---|---|---|
| reservations (`services, workflow, views`) | status (12), vehicle, driver, times; one validation line per level | submit, approve, reject, cancel, assign_vehicle, assign_driver, reschedule, PATCH, DELETE | creates and realigns trips; marks vehicles; asks carplan | the same facts (vehicle, driver, window) live on the reservation and on its trips |
| trips (`services, models`) | per leg: status, vehicle, driver, window, dispatch group; two exclusion constraints | start, end, close, cancel, assign_vehicle_to_trip, assign_driver_to_trip, release_assignment | moves the reservation's and the vehicle's status; tells dispatch | two legs of one file in any order; database constraints behind hand-written checks |
| dispatch (`services, models`) | missions, memberships with an "active" flag, stops with times | create, add, remove, cancel; progress, detachment and deletion caused by a trip | assigns and releases trips | derived status and copies (flag, group, stops) that may go stale |
| dispatch rules (`rules`) | none (pure) | order, occupancy, coherence, overlap, buffer | called by missions | equal and missing times |
| vehicles, drivers | status column, documents, availability | PATCH, hooks of the above | everyone | the column is written by five other components |
| carplan (`services, operations, inspections, selectors, models`) | assignments (10 statuses), vehicle holds, inspections, replacements, pool releases, mode of use | request, validate, allocate, inspect, activate, suspend, extend, renew, exchange, replace, return, release, change mode; a task twice a day | blocks the shared fleet, and is blocked by its bookings | holds copy the vehicle and the end of an assignment; holds and bookings must exclude each other whichever comes first |
| expenses, finance (`workflow; adjustments, periods, trip_cost, locks, reconciliation`) | expenses, adjustments, months, frozen costs of trips, budgets | validate, cancel, take up, adjust, freeze, close; an hourly task | trips, organizations | a decision taken while what it concerns is being frozen; freezes that fail and are retried |
| shield (`sync, lifecycle`) | employee files, run rows with their progress and watermark; marks on accounts | incremental reading, nightly reconciliation, resumption, absences, departures, returns | the staff register over HTTP; accounts | pages that shift while they are read, runs that die, are resumed or overtaken, administrators acting meanwhile |
| accounts | one-time codes, activation tokens, devices, sessions | send, verify, activate, revoke | notifications | budgets and lives of codes |
| maintenance, tracking, notifications, analytics, fuelintel, reports, kbot, maps, audit, organizations | caches, journals, outputs | | read the above | no protocol the core depends on |

How they interact: by function calls inside one database transaction per request
(`@transaction.atomic`, PostgreSQL READ COMMITTED, `lock_row` = SELECT FOR UPDATE, `core/db.py`).
There is no message queue between them: notifications, audit and pricing hooks are outputs; celery
runs a few periodic tasks (the register's synchronisation, the Car Plan's sweep, the freeze of trips
closed without their cost). What is hard is therefore the *order of legal requests* (each service
checks a part of the state and repairs a part of it), derived data that goes stale, database
constraints that mirror or contradict a check made in Python, and, for rows read before the
transaction, the interleaving of two requests.

What makes each component correct: a journey that has begun is never rearranged, and the file of
the reservation follows its legs (reservations, trips); no vehicle or driver is in two places,
and a refusal is given by the check, not by the constraint (trips, dispatch); membership, flag,
group and status of a mission agree, and the vehicle is never overfull (dispatch); a held vehicle
serves nobody else, follows its assignment and goes back with it (carplan); every expense is
counted once, by the month and the trip it belongs to or by an adjustment of an open month, and
what is frozen stays true (finance); accounts end up following the register, nobody is declared
absent by mistake, and what an administrator blocked stays blocked (shield); a code is spent once
(accounts).

## 2. Modules

| Module | Models | Checked by |
|---|---|---|
| `Transport` | reservations, trips, vehicles' status, Car Plan hold: one action per request | `transport`, `approval_bypass`, `cancelled_restarts` |
| `Journey` | the abstract promise: legs are rearranged freely until they leave, leave with a crew, come back, close; the file follows | implemented by `Transport` (run `transport`, property `ImplementsJourney`) |
| `Missions` | EXTENDS `Transport`: grouped missions composed with the requests on trips and reservations | `missions`, `missions_crew`, `mission_stuck`, `tour_split` |
| `DispatchRules` | the pure rules as operators, driven by a tour planned trip by trip | `dispatch_rules` |
| `CarPlan` | assignments and their holds, inspections, replacements, releases and modes, against the bookings of the shared fleet, day by day | `carplan` |
| `Ledger` | expenses, adjustments, frozen costs of trips, closing of months, each transaction cut at its reads | `ledger` |
| `ShieldSync` | the register's synchronisation: workers, runs, pages, watermark, files, accounts, administrators, failures | `shield`, `human_block` |
| `TransportProofs`, `BookingProofs` | the theorems about `Transport` | the TLA+ proof system |
| `DispatchProofs`, `MissionsProofs`, `CarPlanProofs`, `LedgerProofs`, `ShieldProofs` | the theorems about the module each is named after | the TLA+ proof system |
| `SetLemmas` | facts about finite sets the proofs share: least and greatest elements, images, ranks in a strict order | the TLA+ proof system |
| `MCTransport`, `MCMissions`, `MCDispatchRules`, `MCCarPlan`, `MCLedger`, `MCShieldSync` | values of the constants for TLC | |

### Transport: state and actions against the code

* `res[r]` is the Reservation row; `"deleted"` stands for "no row". `pending_manager` and
  `pending_fleet` are the code's two waiting statuses; `Required` is the list of levels the
  company's workflow asks for (never empty: `reservations/workflow.py:64-66` falls back on a
  default), no level twice.
* `trips[<<r, leg>>]` is the Trip row, `"absent"` before generation; `_ensure_trips` is
  `EnsuredTrips`, `_recompute_reservation_assignment` is `Recomputed`, `_release_if_idle` is
  `Freed`, the two exclusion constraints and the ordered-window constraint are `DbAccepts`.
  `SavedLegByLeg` keeps the order of the saves: the constraints are immediate, so an intermediate
  state can be refused although the final one is sound.
* `lines` are the validation lines, `fleet` the vehicles' status column, `held[v]` the day from
  which the Car Plan holds v (`pool_block_reason`, `_pool_conflicts`).
* One action is one HTTP request. A refusal (a business exception, or IntegrityError) rolls the
  transaction back, so a refused request is a disabled action.
* `EditReservation` is the PATCH of the form: it writes every field but the status, the trip type,
  `needs_driver` and the passengers included (`Forms`), at any status, and touches no trip. The legs
  follow when a service next regenerates or assigns them, and then only those of the present trip
  type (`Wanted`): the return leg of a reservation made one-way keeps its row as it was.

Abstracted: permissions, attachments, compliance documents of vehicles and drivers, the driver's
availability flag (a driver is always available here), odometer, GPS and fuel, pricing and finance
hooks, notifications, audit. Trip status "departed", reservation status "submitted" and the vehicle
statuses "out_of_service" and "unavailable" are declared in the code but no service of these modules
writes them; the workshop PATCH is limited to available and maintenance. Deleting a driver
(`drivers/views.py:21`) empties that column of the trips, those on the road included (`SET_NULL`,
`trips/models.py:103`): it is not a step here, so `DepartedTripsFrozen` is about the requests on
reservations, trips and missions. The Car Plan hold is open-ended from a day, because that is the
case the shared fleet has no way around; the modes that leave the vehicle in the pool and pool
releases are not represented.

### Missions: state and actions against the code

`missions` (status, vehicle, driver, window), `links` (MissionTrip rows, with the `active` flag the
partial unique constraint reads and, in place of `created_at`, the `rank` of the row among those of
its trip: only the last created is ever deleted alone, so a count orders them) and `stops` (the
*stored* stop times, which a replanning of a member leaves stale: `add_trip` checks feasibility on
them, then rebuilds). `SyncMission` (which reads the *first* link of the trip), `Detach` and
`Unlink` are what a departure, return or closing, a cancellation and a deletion of a trip do in the
same transaction, so they are conjoined to the action of `Transport`. `LoadAt`/`Fits` are the
declarative form of `max_occupancy(order_stops(...))`: module `DispatchRules` shows the two agree
(`PeakIsGreatestLoad`). Energy range, road distances and permissions are left out. The approval
workflow and the workshop are in `Transport` only: the reservations of `Missions` start approved.

### CarPlan: state and actions against the code

`assignments[a]` is the CarPlanAssignment row (`of`: the assignment it renews, `changes`: exchanges
so far); `holds` the active VehicleHold rows, told apart by `nth`, the exchanges before the hold, in
place of the primary key `first()` sorts by; `inspections` the ones the manager has not signed;
`lent` the replacement in progress; `releases` the PoolRelease rows; `mode` and `asked` the mode of
use and the change waiting for its second pair of eyes; `bookings` what the shared fleet has
planned (`_pool_conflicts` reads trips, reservations and missions; one booking at a time here).
`DbAcceptsHolds` and `DbAcceptsAssignments` are the two exclusion constraints, with PostgreSQL's
ranges: an empty range meets nothing, bounds out of order are an error. One action per service:
`AllocateVehicle` includes the immediate taking over of a renewal (`_close_for_renewal`),
`SignAsManager` the activation or the return it completes, `RollOverRenewal` and
`ActivateReplacements` are the sweep of `check_car_plan`. A request is one step: the services that
take, move or give back a vehicle lock the assignment or the vehicle first; `renew` and
`request_mode_change` read without a lock, and two of those at once are not modelled. Left out:
policies, quotas, mileage, incidents, fines, documents of the inspections.

### Ledger: state and actions against the code

An expense has its `status`, its `source` (its own cost, the piece of a record, or to be taken up)
and `reconciled`; `cost[t]` and `books[m]` are what is frozen, as sets of expenses rather than
amounts. A transaction that reads several tables and writes later is two steps or more, holding its
row locks in between: `Validate`, `Cancel` and `Reconcile` read, `CommitRequest` writes;
`CloseTrip` and `FreezeBacklog` read, `CommitFreeze` writes or `FailFreeze` loses the attempt;
`BeginClosing`, `CountVehicles`, `CountBudget` and `CommitClosing` are the four stages of
`close_period`, which reads the expenses three times. A freeze that fails inside the closing is
swallowed and the month closes without that trip (`finance/trip_cost.py:197-202`): `BeginClosing`
takes any subset of the backlog. READ COMMITTED lets a decision and a reading
miss each other: `raced` remembers those expenses. `Countable` is `ExpenseQuerySet.countable`,
`Late` is `lateness`, `Locked` is `is_locked`. Left out: amounts, vehicles and cost centres, roles
and four eyes, budget lines, the reversal of what is paid.

### ShieldSync: state and actions against the code

`register` is the remote register and `PageAt` its answer to one page (one employee per page, newest
first or by identity); `files` is the ShieldEmployee table, `accounts` the linked accounts with the
marks `lifecycle.py` leaves on them, `runs` the ShieldSyncRun table and `archived` the watermark of
the rows no longer of use. A worker's step (`begin`, `fetch`, `page`, `finish`, `absences`, `ask`,
`mark`, `checking`, `reopening`, `departures`, `close`, `closing`) is the stretch of `sync.py`
between two network calls or two transactions, or between reading an account, which no lock
protects, and writing it; its `run`, `page` and `todo` are the local variables it holds there. A
closing is cut once (`LockDeparture`, `CloseAccount`) and a reopening twice: the account is read
with its file (`AsksToReopen`), then the journal (`CheckJournal`), then it is written
(`ReopenAccount`), the file staying locked throughout (`Unlocked`). `OpenRun` takes up an
interrupted run or starts one after sweeping the dead ones; `FailRun`, `RefuseOrdering` and `Crash`
are the error paths and the process that dies between two steps; `EditRegister` changes the register
under the reading; administrators save a block (`SaveBlock`), then record it in the journal
(`RecordBlock`), two commits, and `UnblockUser`; one request at a time on an account. `wish`, `lost`
and `disturbed` record history for the properties and guide no step (but for the order of a block's
two commits): a `wish` is `blocking`, then `blocked`; or `racing`, then `raced`, when between its
save and its journal entry some worker had read the account and not yet written it. `disturbed`
becomes true when pages shift under a reading (`MidReading`), when a page read before an edit is
written over a file already up to date (`Undoes`, `InStep`), and when a worker goes on with a run
another has resumed and ended (`Overtaken`). Left out: the fields of a file other than status and
stamp, the ordering of hierarchies, notifications, the lookup of an account by e-mail.

## 3. Properties and what the runs show

`transport` — every request, one at a time, in any order. Two portfolios: a round trip that needs a
driver, alone, with every kind of request on it; or two one-way trips of one day that compete for
two vehicles and a driver. About 600,000 states, two minutes and a half. The form may turn the round
trip into a one-way trip and back, and take its driver away or give it one.

* `ReturnAfterOutbound`, `DepartedMeansUnderway`, `CompletionMatchesLegs`, `DepartedTripsFrozen`: the
  journey (all the properties of this run are proved as well, section 5).
* `TripCheckMirrorsConstraint`: the Python check of a trip's assignment is never weaker than the
  database constraint, so the user gets a reason and not a server error.
* `CarPlanVehiclesLeftAlone`: hold and trips exclude each other whichever comes first.

That no vehicle and no driver is in two places is not a property: the two exclusion constraints of
the database (`DbAccepts`) refuse the request that would break it, here as in the code.

* `ImplementsJourney`: the whole refines `Journey` — twelve statuses and some eighteen requests
  amount to four abstract steps.

`missions` and `missions_crew` — two missions ever (`MaxMissions = 2`, enough for one to end and
another to take its trips, and for two to compete), over two overlapping trips that fill the larger
vehicle together, or the two legs of a round trip; `missions_crew` takes an approved trip and one
the planner may move right after it, so that two missions can touch. One reservation is also handled
by its own requests (`Managed`), so members are reassigned, moved, cancelled and deleted under the
mission. They check `ActiveFlagMirrorsMission`, `GroupMatchesMembership`,
`CompletedMissionsAreOver`, `AdditionsFit`; and, with a driver, `AdditionsLeaveTransferTime` and
`DepartedTripsFrozen`. The form may add a passenger to a trip of a tour. About 430,000 and 810,000
states. `AdditionsFit` and `AdditionsLeaveTransferTime` are action properties because the code
promises them when a member is added only: a later replanning of a member may break both, knowingly.

`dispatch_rules` — every tour of three trips over three instants, times known or missing: the
loops compute the greatest load, refuse exactly the unsound windows, treat two missions
symmetrically, and a departure never makes a feasible tour unfeasible.

`carplan` — two assignments over two vehicles and three days, a booking of the shared fleet, and four
scenarios that give room to one kind of operation each, up to two exchanges of vehicle in one
assignment. About 820,000 states, a minute and a half.

* `AssignedVehicleHeld`: the hold and the assignment copy the same vehicle and the same end; an
  extension, an exchange, a renewal that takes over must move both.
* `NoHoldOutlivesAssignment`: a return, a cancellation, a closing by renewal gives back the vehicle,
  the one it was exchanged for and the replacement.
* `PoolPlanExcludesCarPlan`: a booking to come is on a pool vehicle nobody holds, or inside a
  release that cannot be revoked under it — the other half of `CarPlanVehiclesLeftAlone`. Excepted is
  the hold a second exchange rewrites by mistake (`CutAgain`, below).
* `RenewalsTakeOver`: a renewal whose day has come ends up active, under the fairness of the sweep.

`ledger` — two expenses of one month, one of them from before the circuit, one for a trip; three
months, two adjustments or failures in all. About 1,330,000 states, two minutes.

* `AdjustmentsInTheBooks`: a closed month has its approved adjustments, all of them, and none to
  decide; `NeverCountedTwice`: what an adjustment carries is in no other count.
* `BooksMatchExpenses`, `TripCostsMatchExpenses`: what is frozen goes on saying what the expenses
  say, through late validations, refused cancellations and retries. Expenses in `raced` are
  excepted: a decision committed while the very transaction that counts it is between its read and
  its write is missed by both under READ COMMITTED, and nothing in the code repairs it. `raced` is
  the extent of that gap, no more: its members too are never counted twice.
* `ClosedTripsCosted`: a closed trip gets its cost although the freeze may fail (liveness).

`shield` — two workers, two employees, five scenarios: edits of the register during readings,
failures, an administrator, forced runs, a slow worker declared dead. About 750,000 states, three
minutes.

* `AbsencesVerified`: nobody is marked absent because a page shifted under the reading.
* `StaleFilesWillBeRead`: the watermark never leaves an update behind, whichever readings
  overlapped, were interrupted or resumed; three events escape it (a deletion that shifts pages, an
  old page written late, a checkpoint in a run another worker has ended), and only the reconciliation
  repairs them.
* `AccountsFollowRegister`: it does, once register and network are quiet (liveness), unless a safeguard
  waits for an administrator.
* `OnlyDepartedAreClosed`: the file read again under the lock decides, not the list made earlier.
* `HumanBlockStands`: what an administrator blocked stays closed until an administrator opens it,
  through departures applied again and returns — provided the block, from its save to its journal
  entry, raced no worker about to write that account; `human_block` is the other case.

Five runs look for, and find, a violation: the code does not do what a comment or test says.

| Run | What happens |
|---|---|
| `approval_bypass` | reschedule generates the trips of a draft; giving one a vehicle makes the reservation assigned without validation |
| `cancelled_restarts` | trips of a cancelled reservation stay scheduled, can be assigned and started, and put it back in progress |
| `mission_stuck` | a mission whose last unfinished member is removed or cancelled stays active, its resources engaged |
| `tour_split` | assign_vehicle on a reservation moves its grouped trip alone |
| `human_block` | an administrator's block that overlaps a worker is undone: it falls between the worker's look at the journal and its write, which reopens the account; or within an automatic closing, which is then marked later than the block, so the return of the employee reopens it |

Two more observations, stated by no property. `change_vehicle` cuts the first hold of the
assignment by primary key (`carplan/services.py:664`), whatever its vehicle: a second exchange
rewrites the hold of the *first* vehicle, already cut, and leaves the second vehicle held, although
the service says "l'occupation de l'ancien s'arrête" (`services.py:647`). So an assignment goes from
v1 to v2 on day 1, v1 returns to the pool and is booked from day 1; a second exchange on day 2, to v3,
gives v1's hold day 1 back, under the booking. It takes a third vehicle, which the run has no room for
(two vehicles: an assignment may go there and back); the proof of `PoolPlan` covers any number of
vehicles and exchanges and excepts exactly the rewritten hold (`CutAgain`). And an expense of the
past that has been paid is *validated* again when it is taken up (`finance/reconciliation.py:241`),
which changes nothing to what is counted.

### Bounds

Times are small numbers: windows are chosen so that the pairs that matter exist (overlapping,
touching, disjoint, inverted after an edit) and `Moves` sends each reservation to a later window,
with and without a return time. `HoldStarts = {5}` falls inside one window and after the others.
`Portfolios` splits the initial states instead of multiplying them: the reservations that do not
exist together cannot interact. Vehicle capacities differ so that a vehicle can be too small. One
driver is enough for competition: drivers are interchangeable but for the trips they hold. In the
transport modules no counter grows, so nothing but `MaxMissions` is capped.

The other modules have a calendar or clock, so their behaviours are bounded by what may still
happen. `CarPlan`: `MaxAssignments = 2` (an assignment and its renewal, or two that compete),
`MaxDay = 2` and `Open = 9` (days beyond the calendar stay distinct from "no end"), `MaxChanges = 2`
exchanges of one assignment, and `Scenarios`, the requests, life events and fleet events of one
behaviour. `Ledger`: `MaxMonth = 3` (a month that is closed, one that is late, one that receives),
`MaxEvents = 2` adjustments and requests in which a freeze fails. `ShieldSync`: three run rows for
two workers (the one interrupted, the one that replaces it, the next), stamps bounded by the edits
of each scenario, `Guard = 1` so that both safeguards can trigger, `Overlap = Skew = 1`. Each
scenario gives one kind of trouble room to develop; all together do not fit. `carplan` and `ledger`
say `CHECK_DEADLOCK FALSE` because their calendars and budgets end.

### Fairness

The transport runs assume none and state no liveness: every step is a human request, and nothing in
the code obliges anybody to make it. What looks like liveness (a mission that must end) is stated
as safety: a mission whose members are all over must itself be over (`ActiveMissionsHaveWork`).

Elsewhere, only what celery or the database does by itself is fair; what people do never is.

* `CarPlan`: weak fairness of `RollOverRenewal` and `ActivateReplacements`, the sweep of
  `check_car_plan`, run twice a day (`carplan/tasks.py`).
* `Ledger`: weak fairness of the freeze of the backlog, retried every hour by
  `refresh_trip_pricing`, and of the end of a transaction that has begun.
* `ShieldSync`: weak fairness of each worker's next step; strong fairness of the opening of a
  reconciliation, because the beat proposes it again and again and `reconcile_due` catches up missed
  nights, while a run in progress refuses it in between. Failures are finite: nothing converges on a
  network that never answers.

TLC's deadlock check is on in every run but `carplan` and `ledger`.

## 4. Requests that overlap

In `Transport`, `Missions` and `CarPlan` a request is one step. The code makes that true where it
locks first (`assign_vehicle`, `assign_vehicle_to_trip`, missions, the services of the Car Plan that
take, move or give back a vehicle), and does not where a view reads the row before the transaction
(start, end, cancel of a trip, decisions on a reservation) or a service reads without a lock (`renew`,
`request_mode_change`): what is shown there holds of requests that do not overlap, and those
interleavings are listed among the hazards without a property. `Ledger` is cut at the reads of each
transaction. `ShieldSync` is cut at each network call and transaction of a worker and, within the
transactions that close or reopen an account, between the unlocked reads and the write; a block is
cut between its two commits. Other requests of administrators are one step, and an account has one
request at a time.

## 5. Proofs

Every property the run `transport` checks is also proved of `Spec`, for any reservations, vehicles,
drivers, times, capacities and approval levels, from `TransportAssumption` (types of the constants)
and `ValidatedAssumption` (a reservation that starts approved passed the coherence check). So are the
safety properties of `missions`, `missions_crew`, `dispatch_rules`, `ledger`, `carplan` and `shield`,
for any number of missions, trips, expenses, assignments, employees and workers, from
`MissionsAssumption`, `RulesAssumption`, `LedgerAssumption`, `CarPlanAssumption` and
`ShieldAssumption`. TLC evaluates all of them.

| Module | Theorems | Inductive invariant |
|---|---|---|
| `TransportProofs` | `TypeCorrect`; `ReturnsWait`, `DepartedUnderway`, `CompletionSound`; `DepartedFrozen`; `JourneyImplemented` (the refinement of `Journey`) | `TypeOK`, `JourneyInv` |
| `BookingProofs` | `CheckMirrorsConstraint`; `HeldVehiclesLeftAlone` | `TypeOK` with the constraints of the table; `HoldInv /\ CarPlanVehiclesLeftAlone`, on top of `JourneyInv` |
| `MissionsProofs` | `FlagMirrorsMission`, `GroupSound`, `CompletionFinal`, `AdditionsHaveSeats`; `ToursLeaveHeldVehicles`, `MissionsTypeCorrect`; `AdditionsKeepTransfer`, `MissionsLeaveDeparted`; `MissionsImplementJourney` (the refinement of `Journey`) | `MissionsInv` (`JourneyInv`, `HoldInv`, `Memberships`, `TablesTyped`) |
| `DispatchProofs` | `PeakSound`, `CoherenceJudgesWindows`, `LeavingHarmless`, `VerdictSymmetric` | `Typed` |
| `CarPlanProofs` | `CarPlanTyped`, `HoldsEnd`, `VehicleHeld`, `PoolPlan` | `CarPlanInv` |
| `LedgerProofs` | `LedgerTyped`, `BooksComplete`, `CountedOnce`, `BooksStayRight`, `TripCostsStayRight` | `LedgerInv` |
| `ShieldProofs` | `AbsencesTrue`, `OnlyDepartedClosed`, `BlocksStand`; `ShieldTyped`; `StaleFilesRead` | `ShieldInv`; `Typed`; `WatermarkInv`, on top of both |

*The journey.* The three state properties are not inductive one by one. `JourneyInv` adds two facts: a
return leg never exists without its outbound leg (`ReturnHasOutbound`: otherwise it could start because
its outbound leg is not there), and a reservation under way has a leg that has left
(`UnderwayHasDeparted`: otherwise a deletion or the cancellation of the last live leg could touch a
file in progress). `StepSplit` then shows that every request is either *quiet* — no leg leaves,
comes back or is closed, no cancelled leg is revived, no reservation enters or leaves `Underway` —
or the departure, return or closing of one leg. Quiet steps keep `JourneyInv` by one lemma
(`QuietKeepsJourney`), the three others by `DepartureKeepsJourney` and `ArrivalKeepsJourney`; the
same split gives the action property and, with the status mapped by `FileOf`, the refinement: a
quiet step is `Rearrange`, the others are `Depart`, `Arrive` and `Close`.

*The check and the constraint.* That two trips never share a vehicle or a driver is the guard of every
request that engages one, so it is no theorem; but it is needed to show that the Python check mirrors
the constraint (`CheckMirrorsConstraint`): an assignment changes one of the two resources, and the
other was already accepted. Requests that engage nothing (run, cancellation, deletion) must be shown to
leave it so (`FewerEngagements`).

*The hold.* `CarPlanVehiclesLeftAlone` alone is not inductive: an assignment to a whole reservation
checks the hold on the window of the reservation, so one must know that each leg it redraws lies inside
that window (`RoundTripsInside`, kept by the coherence check and by the form) and that windows are times
(`WindowsTyped`); and that no redrawn leg is on the road (`JourneyInv`). From `HoldInv`, these two
facts, no step puts a trip on a held vehicle (`HoldKept`).

*The missions.* To the transport modules a request on a mission only rearranges trips that have not
left (`Rearranged`: types, a quiet step); every other step
is one of `Transport`. So what is proved of `Spec` — the journey, the refinement, what has left is
frozen — is proved of `MissionsSpec` by the same lemmas (`MissionsStep`). The
memberships need one another: that no group is left behind needs the active link of a trip to be
its only one; that a completed mission stays over needs a mission of any other status not to be
mistaken for it when the first link of a trip is read, hence `CompletedMissionsAreOver` itself; and
all need links to point at missions and trips that exist (`LinksPointAtRows`, kept by the cascade
of a deletion). Joining, leaving and a change of status are one lemma each (`JoiningMemberships`,
`LeavingMemberships`, `AlignedMemberships`), and the eight requests are cases of them.
The hold is kept because a request on a mission moves trips to a vehicle only after asking
`_pool_conflicts` for their own windows. The type of the tables (`TablesTyped`) is a fact about finite
sets: the rank of a new link counts the links of its trip, the window of a mission is the least and
the greatest of its known stop times, so both are numbers only because links and stops are finitely
many (`IsFiniteSet(Reservations)`), and the window is whole or absent together. On such windows,
what `_check_resource_free` lets through is a transfer time away in one order or the other
(`FeasibleKeepsTransfer`).

*The rules.* Here the induction is over data, and the provers have none: it is replaced by the least
counterexample (`LeastNatural`), applied to the position in the stops or to the size of a set. The
sort key is a strict total order (`SoonerIsOrder`), so the rank each stop is chosen by is taken once
and `OrderStops` lists every stop in order (`Ordered`). The loops then have a closed form: after i
stops the trips on board are those whose pickup is among the first i, less those that have alighted
after boarding (`On`, `OnStep`); the loop of `sequence_is_coherent` computes that set and so accepts a
tour exactly when each trip boards before it alights, and on such a tour the loop of
`occupancy_profile` counts its passengers (`ProfileCounts`). That count is a sum the community
module takes member by member: `PeopleByOne` to `FewerPeople` show that it depends on the set only
and grows with it. The rest is inclusion of sets: who is on board at a stop is on board at its time,
who is on board at an instant is on board after the last pickup before it (the peak), and who is on
board at a stop of the reduced tour was on board there before (a departure).

*The Car Plan.* That a vehicle is held to the end of its assignment is not inductive, because an
extension and an exchange both move the first hold they find, which need not be the hold of the
present vehicle. `InOrder` says enough of the holds of an assignment for both: one per exchange
(`nth`), an empty one before the others of its vehicle, one of the present vehicle that ends with the
assignment, and, while there is no planned end, only the first ever cut, and by the last exchange
(`StaysOpen`). Attribution, taking over, cancellation and return are one pattern (`Attributed`: some
assignments end and lose their holds, one may get a vehicle and its hold), proved once; extension,
exchange and replacement touch the holds of one assignment (`OneAssignmentSound`). The fleet's plan
is kept because no step takes a period the fleet has booked (`NoBookingTaken`): what a new hold covers
was asked of `_pool_conflicts`, an extension asks it of the days it adds, and a first exchange only
shrinks; what a later exchange does to the first hold is what `CutAgain` (in the proof, `Again`)
excepts. Nothing is assumed of the number of exchanges.

*The books.* `LedgerInv` says of every reading — frozen, being frozen, or held in memory by a closing — that
it is `Right`: it counts what counts, races excepted, and only expenses that are settled and carried
by nothing. It adds what a decision not yet committed assumes (`DecisionsSound`: if it ignores what
counts the expense, the two raced) and that one adjustment carries an expense. A step is then either
on the expenses and adjustments (`EntriesStep`: nothing that has been counted changes, so every
reading stays right) or on the readings (`ReadingStep`: no entry changes, and a new reading is right
when it is made, whichever freezes of a closing fail); each half is one lemma and the actions are cases
of it.

*The register.* `ShieldInv` states what a worker knows while it holds it: whoever is about to be marked
has been missing from the register (`MarksSound`), a file being closed is of someone departed
(`ClosingsSound`), two workers are never on the same account (`OneOnAccount`, from the row lock of the
file). Of a block that raced no worker, the marks know it (`BlocksKnown`) and so does every worker that
may still write the account: it will leave it as it is, or look at a journal that holds the block
(`BlocksSeen`). Most steps of a worker touch neither files nor accounts and keep it together.

*The watermark.* First that nothing is dated in the future: every stamp in the register, in a page, in
a progress or in a run is at most the `clock` (`Typed`, stronger than the type invariant). Then
`WatermarkInv`: unless `disturbed`, every holder of a bound — the page and progress in a worker's
hands, the progress a run has saved, the bound of a run that has succeeded, the archived one — owes
something to every *late* file, one that does not say what the register says. Either the file is
still ahead of it, at a later place of the pages it goes through, or the file's stamp is within
`Overlap` of the bound it will leave. `MarksHold` states it over a `View` (register, late files,
their places in either order), so that a step is two questions: does the view get worse for a
holder, and does a holder move past a late file? An edit makes a file late with a stamp at most
`Skew` behind the clock, and `Skew <= Overlap` makes it fresh for every bound; an edit in the order
of identities moves no place, and in the order of dates it moves the file to the front, which shifts
the others further back and never past the offset. Writing a page makes its file say what the
register says, unless the page is old, which is `Undoes`. A run that ends has nothing ahead of it
any more, so only the second alternative is left, and it becomes the debt of the watermark.

Model-checked only: the three liveness properties (`AccountsFollowRegister`, `RenewalsTakeOver`,
`ClosedTripsCosted`), which the prover does not do. The five divergences are counterexamples and have no
theorem.

## 6. Not modelled

* Two requests on one reservation or trip, split at the read made before the transaction
  (`trips/views.py:141`, `reservations/services.py:121`): the models take requests one at a time.
* `accounts`: one-time codes, their send budget, activation tokens. One row and one request each; the
  one race (`accounts/otp.py:188`, a count followed by a write) is listed as a hazard.
* `finance`: amounts, budget lines and versions, reversal of what is paid, allocation keys; roles and
  four eyes of expenses and adjustments (a guard on who asks, with no effect on the books).
* `carplan`: policies, quotas, mileage, incidents; two requests at once that read without a lock.
* Deleting a driver, a vehicle or an account; two requests of administrators on one account at once.
* `tracking`: positions are upserted by date and read for display; `maintenance`: plans computed from
  readings.
* Geometry, scoring, statistics, pricing arithmetic, the user interface, the assistant and the
  outputs (notifications, audit, reports): they read the state above and no handler modelled here
  reads theirs.

`PROJECT.json` lists every component with its status.
