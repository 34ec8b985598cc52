----------------------------- MODULE LedgerProofs -----------------------------
(***************************************************************************)
(* The books, whatever the number of expenses, trips and months.           *)
(***************************************************************************)
EXTENDS Ledger, FiniteSetTheorems, TLAPS

Decisions == {"validate", "validate_late", "cancel", "own", "piece", "carry"}

AdjustmentRow ==
    [status : {"none", "pending", "approved", "rejected"},
     expense : Expenses \cup {None}, posting : Months \cup {None}]

(* What a reading of the expenses has counted, or nothing yet. *)
Readings == (SUBSET Expenses) \cup {None}

ClosingRow ==
    [month : Months, backlog : SUBSET Trips, counted : Readings,
     posted : (SUBSET AdjustmentIds) \cup {None}, budget : Readings,
     costs : UNION {[late -> SUBSET Expenses] : late \in SUBSET Trips}]

Rows ==
    /\ today \in Months /\ running \subseteq Trips /\ failures \in 0..MaxEvents
    /\ raced \subseteq Expenses
    /\ status \in [Expenses -> {"draft", "submitted", "to_validate", "validated", "paid",
                                "rejected", "cancelled"}]
    /\ source \in [Expenses -> {"own", "legacy", "piece"}]
    /\ reconciled \in [Expenses -> BOOLEAN]
    /\ requests \in [Expenses -> Decisions \cup {None}]
    /\ adjustments \in [AdjustmentIds -> AdjustmentRow]
    /\ cost \in [Trips -> Readings]
    /\ freezing \in [Trips -> Readings]
    /\ closing # None => closing \in ClosingRow
    /\ books \in [Months -> [counted : SUBSET Expenses, posted : SUBSET AdjustmentIds,
                             budget : SUBSET Expenses] \cup {None}]

(* What is counted once is the cost of the expense itself for ever. *)
Settled(e) == source[e] = "own" /\ status[e] \in {"validated", "paid", "cancelled"}

(* A reading S of the expenses in C counts what counts. *)
Right(S, C) ==
    /\ \A e \in C \ raced : e \in S <=> Countable(e)
    /\ \A e \in S : e \in C /\ Settled(e) /\ ~Carried(e)

ApprovedIn(m) == {a \in AdjustmentIds : adjustments[a].status = "approved" /\ adjustments[a].posting = m}

(* An adjustment carries what has been validated late, or what has been taken
   up; it may be refused in the second case only. *)
AdjustmentsSound ==
    /\ \A a, b \in AdjustmentIds :
         adjustments[a].expense # None /\ adjustments[a].expense = adjustments[b].expense => a = b
    /\ \A a \in AdjustmentIds :
         /\ adjustments[a].status \in {"none", "rejected"} => adjustments[a].expense = None
         /\ adjustments[a].status \in {"pending", "approved"} =>
              adjustments[a].posting \in Months /\ adjustments[a].posting <= today
         /\ adjustments[a].expense \in Expenses =>
              \/ Settled(adjustments[a].expense) /\ adjustments[a].status = "approved"
              \/ /\ source[adjustments[a].expense] = "legacy"
                 /\ reconciled[adjustments[a].expense]

(* The decisions that change what an expense counts. *)
Counts(e) == requests[e] \in {"validate", "own"} \/ (requests[e] = "cancel" /\ source[e] = "own")

(* A decision that is not committed yet still fits the expense it is about; if
   it ignores what counts the expense, the two raced. *)
DecisionsSound ==
    \A e \in Expenses : requests[e] # None =>
        /\ BeingCounted(e) => e \in raced
        /\ \/ /\ requests[e] \in {"validate", "validate_late"}
              /\ source[e] = "own" /\ status[e] = "to_validate"
           \/ requests[e] = "cancel" /\ status[e] = "validated" /\ ~Carried(e)
           \/ requests[e] \in {"own", "piece", "carry"} /\ source[e] = "legacy" /\ ~reconciled[e]
        /\ Counts(e) /\ Late(e) => e \in raced

FreezesRight == \A t \in Trips : freezing[t] # None => Right(freezing[t], Concerned(t))

CostsRight ==
    \A t \in Trips : cost[t] # None => t \notin running /\ Right(cost[t], Concerned(t))

ClosingRight == closing # None =>
    /\ closing.month < today /\ PendingIn(closing.month) = {}
    /\ closing.backlog \cap running = {}
    /\ closing.counted # None =>
         /\ Right(closing.counted, Dated(closing.month))
         /\ closing.posted = ApprovedIn(closing.month)
    /\ closing.budget # None => closing.counted # None /\ Right(closing.budget, Dated(closing.month))
    /\ closing.costs \in [closing.backlog -> SUBSET Expenses]
    /\ \A t \in closing.backlog : Right(closing.costs[t], Concerned(t))

BooksRight ==
    \A m \in Months : Closed(m) =>
        /\ m < today /\ PendingIn(m) = {} /\ books[m].posted = ApprovedIn(m)
        /\ Right(books[m].counted, Dated(m)) /\ Right(books[m].budget, Dated(m))

LedgerInv ==
    /\ Rows /\ AdjustmentsSound /\ DecisionsSound
    /\ FreezesRight /\ CostsRight /\ ClosingRight /\ BooksRight

-----------------------------------------------------------------------------
(* Steps that change no row of the books *)

(* A step on the expenses and the adjustments changes nothing of what has been
   counted, unless it raced with the reading. *)
EntriesStep ==
    /\ UNCHANGED bookVars /\ raced \subseteq raced'
    /\ today' \in Months /\ today <= today'
    /\ \A e \in Expenses : (Late(e) \/ BeingCounted(e)) /\ e \notin raced' =>
         (Countable(e)' <=> Countable(e))
    /\ \A e \in Expenses : Settled(e) /\ ~Carried(e) => Settled(e)' /\ ~Carried(e)'
    /\ \A m \in Months : m < today /\ PendingIn(m) = {} =>
         PendingIn(m)' = {} /\ ApprovedIn(m)' = ApprovedIn(m)

LEMMA RightKept ==
    ASSUME EntriesStep,
           NEW S, NEW C \in SUBSET Expenses, Right(S, C),
           \A e \in C : Late(e) \/ BeingCounted(e)
    PROVE  Right(S, C)'
<1>1. \A e \in C \ raced' : e \in S <=> Countable(e)'
  BY DEF EntriesStep, Right
<1>2. \A e \in S : e \in C /\ Settled(e)' /\ ~Carried(e)'
  BY DEF EntriesStep, Right
<1> QED BY <1>1, <1>2 DEF Right

LEMMA CountedExpenses ==
    /\ \A m \in Months : Dated(m) \in SUBSET Expenses
    /\ \A t \in Trips : Concerned(t) \in SUBSET Expenses
    /\ \A m \in Months : Closed(m) => \A e \in Dated(m) : Late(e)
    /\ \A t \in Trips : cost[t] # None => \A e \in Concerned(t) : Late(e)
    /\ \A t \in Trips : freezing[t] # None => \A e \in Concerned(t) : BeingCounted(e)
    /\ closing # None => \A e \in Dated(closing.month) : BeingCounted(e)
    /\ closing # None => \A t \in closing.backlog : \A e \in Concerned(t) : BeingCounted(e)
BY LedgerAssumption DEF Dated, Concerned, Late, BeingCounted, Frozen

LEMMA BooksKept ==
    ASSUME Rows, FreezesRight, CostsRight, ClosingRight, BooksRight, EntriesStep
    PROVE  FreezesRight' /\ CostsRight' /\ ClosingRight' /\ BooksRight'
<1>0. /\ cost' = cost /\ books' = books /\ freezing' = freezing /\ closing' = closing
      /\ running' = running
  BY DEF EntriesStep, bookVars
<1>1. FreezesRight'
  <2> SUFFICES ASSUME NEW t \in Trips, freezing[t] # None
               PROVE  Right(freezing[t], Concerned(t))'
    BY <1>0 DEF FreezesRight
  <2>1. Right(freezing[t], Concerned(t)) /\ \A e \in Concerned(t) : Late(e) \/ BeingCounted(e)
    BY CountedExpenses DEF FreezesRight
  <2> QED BY <2>1, <1>0, RightKept, CountedExpenses
<1>2. CostsRight'
  <2> SUFFICES ASSUME NEW t \in Trips, cost[t] # None
               PROVE  t \notin running /\ Right(cost[t], Concerned(t))'
    BY <1>0 DEF CostsRight
  <2>1. /\ t \notin running /\ Right(cost[t], Concerned(t))
        /\ \A e \in Concerned(t) : Late(e) \/ BeingCounted(e)
    BY CountedExpenses DEF CostsRight
  <2> QED BY <2>1, <1>0, RightKept, CountedExpenses
<1>3. ClosingRight'
  <2> SUFFICES ASSUME closing # None PROVE ClosingRight'
    BY <1>0 DEF ClosingRight
  <2> DEFINE m == closing.month
  <2>0. closing \in ClosingRow /\ m \in Months /\ today \in Nat /\ today' \in Nat /\ m \in Nat
    BY LedgerAssumption DEF Rows, ClosingRow, EntriesStep, Months
  <2>1. /\ m < today /\ PendingIn(m) = {} /\ today <= today'
        /\ \A e \in Dated(m) : Late(e) \/ BeingCounted(e)
    BY CountedExpenses DEF ClosingRight, EntriesStep
  <2>2. m < today' /\ PendingIn(m)' = {} /\ ApprovedIn(m)' = ApprovedIn(m)
    BY <2>0, <2>1, <1>0 DEF EntriesStep
  <2>3. closing.counted # None =>
          Right(closing.counted, Dated(m))' /\ closing'.posted = ApprovedIn(m)'
    <3> SUFFICES ASSUME closing.counted # None
                 PROVE  Right(closing.counted, Dated(m))' /\ closing'.posted = ApprovedIn(m)'
      OBVIOUS
    <3>1. Right(closing.counted, Dated(m)) /\ closing.posted = ApprovedIn(m)
      BY DEF ClosingRight
    <3> QED BY <3>1, <2>0, <2>1, <2>2, <1>0, RightKept, CountedExpenses
  <2>4. closing.budget # None => closing.counted # None /\ Right(closing.budget, Dated(m))'
    <3> SUFFICES ASSUME closing.budget # None
                 PROVE  closing.counted # None /\ Right(closing.budget, Dated(m))'
      OBVIOUS
    <3>1. closing.counted # None /\ Right(closing.budget, Dated(m))
      BY DEF ClosingRight
    <3> QED BY <3>1, <2>0, <2>1, <1>0, RightKept, CountedExpenses
  <2>5. ASSUME NEW t \in closing.backlog PROVE Right(closing.costs[t], Concerned(t))'
    <3>1. Right(closing.costs[t], Concerned(t)) /\ t \in Trips
      BY <2>0 DEF ClosingRight, ClosingRow
    <3>2. \A e \in Concerned(t) : Late(e) \/ BeingCounted(e)
      BY CountedExpenses
    <3> QED BY <3>1, <3>2, <1>0, RightKept, CountedExpenses
  <2>6. closing.backlog \cap running = {} /\ closing.costs \in [closing.backlog -> SUBSET Expenses]
    BY DEF ClosingRight
  <2> QED BY <2>2, <2>3, <2>4, <2>5, <2>6, <1>0 DEF ClosingRight
<1>4. BooksRight'
  <2> SUFFICES ASSUME NEW m \in Months, Closed(m)
               PROVE  /\ m < today' /\ PendingIn(m)' = {} /\ books[m].posted = ApprovedIn(m)'
                      /\ Right(books[m].counted, Dated(m))' /\ Right(books[m].budget, Dated(m))'
    BY <1>0 DEF BooksRight, Closed
  <2>1. /\ m < today /\ PendingIn(m) = {} /\ books[m].posted = ApprovedIn(m)
        /\ Right(books[m].counted, Dated(m)) /\ Right(books[m].budget, Dated(m))
    BY DEF BooksRight
  <2>2. m < today' /\ PendingIn(m)' = {} /\ ApprovedIn(m)' = ApprovedIn(m)
    BY <2>1, LedgerAssumption DEF EntriesStep, Rows, Months
  <2>3. \A e \in Dated(m) : Late(e) \/ BeingCounted(e)
    BY CountedExpenses
  <2> QED BY <2>1, <2>2, <2>3, <1>0, RightKept, CountedExpenses
<1> QED BY <1>1, <1>2, <1>3, <1>4
-----------------------------------------------------------------------------
(* The steps on the expenses and the adjustments *)

LEMMA ReadingsKept ==
    ASSUME UNCHANGED bookVars
    PROVE  /\ \A e \in Expenses : (Late(e)' <=> Late(e)) /\ (BeingCounted(e)' <=> BeingCounted(e))
           /\ \A m \in Months : (Closed(m)' <=> Closed(m))
BY DEF bookVars, Late, Frozen, Closed, BeingCounted

(* Nothing of the books changes with the status of an expense. *)
LEMMA AdjustmentsKept ==
    ASSUME UNCHANGED adjustments
    PROVE  /\ \A e \in Expenses : Carriers(e)' = Carriers(e) /\ (Carried(e)' <=> Carried(e))
           /\ \A m \in Months : PendingIn(m)' = PendingIn(m) /\ ApprovedIn(m)' = ApprovedIn(m)
BY DEF Carriers, Carried, PendingIn, ApprovedIn

LEMMA MoveSound ==
    ASSUME LedgerInv, NEW e \in Expenses, NEW to, Move(e, to)
    PROVE  Rows' /\ AdjustmentsSound' /\ DecisionsSound' /\ EntriesStep
<1>0. /\ status' = [status EXCEPT ![e] = to] /\ <<status[e], to>> \in Moves /\ requests[e] = None
      /\ UNCHANGED <<today, source, reconciled, requests, adjustments, bookVars, raced>>
  BY DEF Move
<1>1. /\ to \in {"submitted", "to_validate", "rejected", "paid", "cancelled"}
      /\ to = "paid" <=> status[e] = "validated"
      /\ status[e] \notin {"paid", "cancelled"}
  BY <1>0 DEF Moves
<1>2. Rows'
  BY <1>0, <1>1 DEF LedgerInv, Rows, bookVars, ClosingRow
<1>3. AdjustmentsSound'
  BY <1>0, <1>1 DEF LedgerInv, Rows, AdjustmentsSound, Settled
<1>4. DecisionsSound'
  BY <1>0, ReadingsKept, AdjustmentsKept DEF LedgerInv, Rows, DecisionsSound, Counts
<1>5. \A x \in Expenses : (Countable(x)' <=> Countable(x)) /\ (Settled(x) => Settled(x)')
  BY <1>0, <1>1, AdjustmentsKept DEF LedgerInv, Rows, Countable, Settled, Realised
<1>6. EntriesStep
  BY <1>0, <1>5, AdjustmentsKept DEF LedgerInv, Rows, EntriesStep, Months
<1> QED BY <1>2, <1>3, <1>4, <1>6

LEMMA DecideSound ==
    ASSUME LedgerInv, NEW e \in Expenses, NEW decision \in Decisions, Decide(e, decision),
           \/ decision \in {"validate", "validate_late"} /\ source[e] = "own" /\ status[e] = "to_validate"
           \/ decision = "cancel" /\ status[e] = "validated" /\ ~Carried(e)
           \/ decision \in {"own", "piece", "carry"} /\ source[e] = "legacy" /\ ~reconciled[e],
           (\/ decision \in {"validate", "own"}
            \/ decision = "cancel" /\ source[e] = "own") /\ Late(e) => e \in raced
    PROVE  Rows' /\ AdjustmentsSound' /\ DecisionsSound' /\ EntriesStep
<1>0. /\ requests' = [requests EXCEPT ![e] = decision]
      /\ raced \subseteq raced' /\ raced' \subseteq Expenses
      /\ BeingCounted(e) => e \in raced'
      /\ UNCHANGED <<today, status, source, reconciled, adjustments, bookVars>>
  BY DEF Decide, LedgerInv, Rows
<1>1. Rows'
  BY <1>0 DEF LedgerInv, Rows, bookVars, ClosingRow
<1>2. AdjustmentsSound'
  BY <1>0 DEF LedgerInv, AdjustmentsSound, Settled
<1>3. DecisionsSound'
  BY <1>0, ReadingsKept, AdjustmentsKept DEF LedgerInv, Rows, DecisionsSound, Counts
<1>4. \A x \in Expenses : (Countable(x)' <=> Countable(x)) /\ (Settled(x) => Settled(x)')
  BY <1>0, AdjustmentsKept DEF Countable, Settled
<1>5. EntriesStep
  BY <1>0, <1>4, AdjustmentsKept DEF LedgerInv, Rows, EntriesStep, Months
<1> QED BY <1>1, <1>2, <1>3, <1>5

LEMMA ValidateSound ==
    ASSUME LedgerInv, NEW e \in Expenses, Validate(e)
    PROVE  Rows' /\ AdjustmentsSound' /\ DecisionsSound' /\ EntriesStep
BY DecideSound DEF Validate, Decisions

LEMMA CancelSound ==
    ASSUME LedgerInv, NEW e \in Expenses, Cancel(e)
    PROVE  Rows' /\ AdjustmentsSound' /\ DecisionsSound' /\ EntriesStep
<1>1. status[e] = "validated" /\ ~Carried(e) /\ ~Locked(e) /\ Decide(e, "cancel")
  BY DEF Cancel, Cancellable
<1>2. ASSUME source[e] = "own", Late(e), e \notin raced PROVE FALSE
  <2>1. Countable(e) /\ ~Closed(MonthOf[e]) /\ Frozen(e) /\ e \notin cost[TripOf[e]]
    BY <1>1, <1>2 DEF Countable, Locked, Late, Realised
  <2>2. TripOf[e] \in Trips /\ e \in Concerned(TripOf[e]) /\ cost[TripOf[e]] # None
    BY <2>1, LedgerAssumption DEF Frozen, Concerned
  <2> QED BY <1>2, <2>1, <2>2 DEF LedgerInv, CostsRight, Right
<1> QED BY <1>1, <1>2, DecideSound DEF Decisions

LEMMA ReconcileSound ==
    ASSUME LedgerInv, NEW e \in Expenses, NEW destination \in {"own", "piece"}, Reconcile(e, destination)
    PROVE  Rows' /\ AdjustmentsSound' /\ DecisionsSound' /\ EntriesStep
<1> DEFINE d == IF Late(e) /\ destination # "piece" THEN "carry" ELSE destination
<1>1. /\ source[e] = "legacy" /\ ~reconciled[e] /\ Decide(e, d)
      /\ d \in {"own", "piece", "carry"} /\ (d = "own" => ~Late(e))
  BY DEF Reconcile
<1> HIDE DEF d
<1> QED BY <1>1, DecideSound DEF Decisions
(* A new adjustment carries what no other carries, and is posted after every
   month that is closed or being closed. *)
LEMMA PostSound ==
    ASSUME LedgerInv, NEW e \in Expenses \cup {None}, NEW st \in {"pending", "approved"}, Post(e, st),
           e \in Expenses => ~Carried(e)
    PROVE  /\ adjustments' \in [AdjustmentIds -> AdjustmentRow]
           /\ \A x \in Expenses : Carried(x)' <=> (Carried(x) \/ x = e)
           /\ \A m \in Months : m < today =>
                PendingIn(m)' = PendingIn(m) /\ ApprovedIn(m)' = ApprovedIn(m)
           /\ \A a, b \in AdjustmentIds :
                adjustments'[a].expense # None /\ adjustments'[a].expense = adjustments'[b].expense => a = b
           /\ \A a \in AdjustmentIds :
                \/ adjustments'[a] = adjustments[a]
                \/ adjustments'[a] = [status |-> st, expense |-> e, posting |-> today]
<1>1. PICK new \in AdjustmentIds :
        /\ adjustments[new].status = "none"
        /\ adjustments' = [adjustments EXCEPT ![new] = [status |-> st, expense |-> e, posting |-> today]]
  BY DEF Post
<1>2. /\ adjustments \in [AdjustmentIds -> AdjustmentRow] /\ today \in Months /\ today \in Nat
      /\ adjustments[new].expense = None
      /\ \A a, b \in AdjustmentIds :
           adjustments[a].expense # None /\ adjustments[a].expense = adjustments[b].expense => a = b
  BY <1>1 DEF LedgerInv, Rows, AdjustmentsSound, Months
<1>3. adjustments' \in [AdjustmentIds -> AdjustmentRow]
  BY <1>1, <1>2 DEF AdjustmentRow
<1>4. /\ adjustments'[new] = [status |-> st, expense |-> e, posting |-> today]
      /\ \A a \in AdjustmentIds : a # new => adjustments'[a] = adjustments[a]
  BY <1>1, <1>2
<1>5. \A x \in Expenses : Carried(x)' <=> (Carried(x) \/ x = e)
  BY <1>2, <1>4, LedgerAssumption DEF Carried, Carriers
<1>6. ASSUME NEW m \in Months, m < today
      PROVE  PendingIn(m)' = PendingIn(m) /\ ApprovedIn(m)' = ApprovedIn(m)
  BY <1>1, <1>2, <1>4, <1>6 DEF PendingIn, ApprovedIn
<1>7. \A a, b \in AdjustmentIds :
        adjustments'[a].expense # None /\ adjustments'[a].expense = adjustments'[b].expense => a = b
  BY <1>2, <1>4 DEF Carried, Carriers, AdjustmentRow
<1> QED BY <1>3, <1>4, <1>5, <1>6, <1>7

LEMMA CommitRequestSound ==
    ASSUME LedgerInv, NEW e \in Expenses, CommitRequest(e)
    PROVE  Rows' /\ AdjustmentsSound' /\ DecisionsSound' /\ EntriesStep
<1> DEFINE d == requests[e]
<1>0. /\ d # None /\ requests' = [requests EXCEPT ![e] = None]
      /\ UNCHANGED <<today, bookVars, raced>>
  BY DEF CommitRequest
<1>1. /\ Rows /\ AdjustmentsSound /\ today \in Nat
      /\ BeingCounted(e) => e \in raced
      /\ \/ /\ d \in {"validate", "validate_late"}
            /\ source[e] = "own" /\ status[e] = "to_validate"
         \/ d = "cancel" /\ status[e] = "validated" /\ ~Carried(e)
         \/ d \in {"own", "piece", "carry"} /\ source[e] = "legacy" /\ ~reconciled[e]
      /\ Counts(e) /\ Late(e) => e \in raced
  BY <1>0 DEF LedgerInv, DecisionsSound, Rows, Months
<1>2. d = "cancel" \/ ~Carried(e)
  BY <1>1, LedgerAssumption DEF AdjustmentsSound, Carried, Carriers, Settled
<1>3. /\ status' = [status EXCEPT ![e] =
           IF d \in {"validate", "validate_late", "own"} THEN "validated"
           ELSE IF d = "cancel" THEN "cancelled" ELSE @]
      /\ source' = [source EXCEPT ![e] = IF d \in {"own", "piece"} THEN d ELSE @]
      /\ reconciled' = [reconciled EXCEPT ![e] = @ \/ d \in {"own", "piece", "carry"}]
      /\ d = "validate_late" => Post(e, "approved")
      /\ d = "carry" => Post(e, "pending")
      /\ d \notin {"validate_late", "carry"} => UNCHANGED adjustments
  BY <1>1 DEF CommitRequest
<1>4. /\ status'[e] = (IF d \in {"validate", "validate_late", "own"} THEN "validated"
                       ELSE IF d = "cancel" THEN "cancelled" ELSE status[e])
      /\ source'[e] = (IF d \in {"own", "piece"} THEN d ELSE source[e])
      /\ reconciled'[e] \in BOOLEAN
      /\ d \in {"own", "piece", "carry"} => reconciled'[e]
      /\ d \notin {"own", "piece", "carry"} => reconciled'[e] = reconciled[e]
      /\ \A x \in Expenses : x # e =>
           status'[x] = status[x] /\ source'[x] = source[x] /\ reconciled'[x] = reconciled[x]
  BY <1>1, <1>3 DEF Rows
<1>5. /\ \A x \in Expenses : Carried(x)' <=> (Carried(x) \/ (x = e /\ d \in {"validate_late", "carry"}))
      /\ \A m \in Months : m < today =>
           PendingIn(m)' = PendingIn(m) /\ ApprovedIn(m)' = ApprovedIn(m)
      /\ adjustments' \in [AdjustmentIds -> AdjustmentRow]
      /\ \A a, b \in AdjustmentIds :
           adjustments'[a].expense # None /\ adjustments'[a].expense = adjustments'[b].expense => a = b
      /\ \A a \in AdjustmentIds :
           \/ adjustments'[a] = adjustments[a]
           \/ d = "validate_late" /\ adjustments'[a] = [status |-> "approved", expense |-> e, posting |-> today]
           \/ d = "carry" /\ adjustments'[a] = [status |-> "pending", expense |-> e, posting |-> today]
  <2>1. CASE d \notin {"validate_late", "carry"}
    BY <2>1, <1>1, <1>3, AdjustmentsKept DEF Rows, AdjustmentsSound
  <2>2. CASE d = "validate_late"
    BY <2>2, <1>2, <1>3, PostSound
  <2>3. CASE d = "carry"
    BY <2>3, <1>2, <1>3, PostSound
  <2> QED BY <2>1, <2>2, <2>3
<1>6. Rows'
  <2>1. /\ status' \in [Expenses -> {"draft", "submitted", "to_validate", "validated", "paid",
                                      "rejected", "cancelled"}]
        /\ source' \in [Expenses -> {"own", "legacy", "piece"}]
        /\ reconciled' \in [Expenses -> BOOLEAN] /\ requests' \in [Expenses -> Decisions \cup {None}]
    BY <1>0, <1>1, <1>3 DEF Rows
  <2> QED BY <2>1, <1>0, <1>1, <1>5 DEF Rows, bookVars, ClosingRow
<1>7. AdjustmentsSound'
  <2> SUFFICES ASSUME NEW a \in AdjustmentIds
               PROVE  /\ adjustments'[a].status \in {"none", "rejected"} => adjustments'[a].expense = None
                      /\ adjustments'[a].status \in {"pending", "approved"} =>
                           adjustments'[a].posting \in Months /\ adjustments'[a].posting <= today'
                      /\ adjustments'[a].expense \in Expenses =>
                           \/ Settled(adjustments[a].expense)' /\ adjustments'[a].status = "approved"
                           \/ /\ source'[adjustments'[a].expense] = "legacy"
                              /\ reconciled'[adjustments'[a].expense]
    BY <1>5 DEF AdjustmentsSound, Settled
  <2>1. CASE adjustments'[a] = adjustments[a]
    <3>1. /\ adjustments[a].status \in {"none", "rejected"} => adjustments[a].expense = None
          /\ adjustments[a].status \in {"pending", "approved"} =>
               adjustments[a].posting \in Months /\ adjustments[a].posting <= today
          /\ adjustments[a].expense \in Expenses =>
               \/ Settled(adjustments[a].expense) /\ adjustments[a].status = "approved"
               \/ /\ source[adjustments[a].expense] = "legacy"
                  /\ reconciled[adjustments[a].expense]
          /\ adjustments[a].expense \in Expenses => adjustments[a].expense # e
      BY <1>1, <1>2 DEF AdjustmentsSound, Carried, Carriers
    <3> QED BY <3>1, <2>1, <1>0, <1>4 DEF Settled
  <2>2. CASE d = "validate_late" /\ adjustments'[a] = [status |-> "approved", expense |-> e, posting |-> today]
    BY <2>2, <1>0, <1>1, <1>4 DEF Settled, Rows
  <2>3. CASE d = "carry" /\ adjustments'[a] = [status |-> "pending", expense |-> e, posting |-> today]
    BY <2>3, <1>0, <1>1, <1>4 DEF Rows
  <2> QED BY <2>1, <2>2, <2>3, <1>5
<1>8. DecisionsSound'
  <2> SUFFICES ASSUME NEW x \in Expenses, x # e, requests[x] # None
               PROVE  /\ BeingCounted(x)' => x \in raced'
                      /\ \/ /\ requests'[x] \in {"validate", "validate_late"}
                            /\ source'[x] = "own" /\ status'[x] = "to_validate"
                         \/ requests'[x] = "cancel" /\ status'[x] = "validated" /\ ~Carried(x)'
                         \/ requests'[x] \in {"own", "piece", "carry"} /\ source'[x] = "legacy" /\ ~reconciled'[x]
                      /\ Counts(x)' /\ Late(x)' => x \in raced'
    BY <1>0, <1>1 DEF DecisionsSound, Rows
  <2>1. /\ BeingCounted(x) => x \in raced
        /\ \/ /\ requests[x] \in {"validate", "validate_late"}
              /\ source[x] = "own" /\ status[x] = "to_validate"
           \/ requests[x] = "cancel" /\ status[x] = "validated" /\ ~Carried(x)
           \/ requests[x] \in {"own", "piece", "carry"} /\ source[x] = "legacy" /\ ~reconciled[x]
        /\ Counts(x) /\ Late(x) => x \in raced
    BY DEF LedgerInv, DecisionsSound
  <2>2. requests'[x] = requests[x] /\ (Counts(x)' <=> Counts(x))
    BY <1>0, <1>1, <1>4 DEF Rows, Counts
  <2> QED BY <2>1, <2>2, <1>0, <1>4, <1>5, ReadingsKept
<1>9. EntriesStep
  <2>1. ASSUME NEW x \in Expenses, Late(x) \/ BeingCounted(x), x \notin raced'
        PROVE  Countable(x)' <=> Countable(x)
    <3>1. CASE x # e
      BY <3>1, <1>4, <1>5 DEF Countable
    <3>2. CASE x = e
      BY <3>2, <2>1, <1>0, <1>1, <1>4, <1>5 DEF Countable, Counts, Realised
    <3> QED BY <3>1, <3>2
  <2>2. ASSUME NEW x \in Expenses, Settled(x), ~Carried(x) PROVE Settled(x)' /\ ~Carried(x)'
    BY <2>2, <1>1, <1>4, <1>5 DEF Settled
  <2> QED BY <2>1, <2>2, <1>0, <1>1, <1>5 DEF EntriesStep, Rows
<1> QED BY <1>6, <1>7, <1>8, <1>9

LEMMA CreateAdjustmentSound ==
    ASSUME LedgerInv, CreateAdjustment
    PROVE  Rows' /\ AdjustmentsSound' /\ DecisionsSound' /\ EntriesStep
<1>0. Post(None, "pending") /\ UNCHANGED <<today, expenseVars, bookVars, raced>>
  BY DEF CreateAdjustment
<1>1. /\ \A x \in Expenses : Carried(x)' <=> Carried(x)
      /\ \A m \in Months : m < today =>
           PendingIn(m)' = PendingIn(m) /\ ApprovedIn(m)' = ApprovedIn(m)
      /\ adjustments' \in [AdjustmentIds -> AdjustmentRow]
      /\ \A a, b \in AdjustmentIds :
           adjustments'[a].expense # None /\ adjustments'[a].expense = adjustments'[b].expense => a = b
      /\ \A a \in AdjustmentIds :
           \/ adjustments'[a] = adjustments[a]
           \/ adjustments'[a] = [status |-> "pending", expense |-> None, posting |-> today]
  BY <1>0, PostSound, LedgerAssumption
<1>2. Rows'
  BY <1>0, <1>1 DEF LedgerInv, Rows, expenseVars, bookVars, ClosingRow
<1>3. AdjustmentsSound'
  BY <1>0, <1>1, LedgerAssumption DEF LedgerInv, Rows, AdjustmentsSound, Settled, expenseVars, Months
<1>4. DecisionsSound'
  BY <1>0, <1>1, ReadingsKept DEF LedgerInv, Rows, DecisionsSound, Counts, expenseVars
<1>5. EntriesStep
  BY <1>0, <1>1 DEF LedgerInv, Rows, EntriesStep, Countable, Settled, expenseVars, Months
<1> QED BY <1>2, <1>3, <1>4, <1>5

LEMMA ApproveSound ==
    ASSUME LedgerInv, NEW a \in AdjustmentIds, Approve(a)
    PROVE  Rows' /\ AdjustmentsSound' /\ DecisionsSound' /\ EntriesStep
<1>0. /\ adjustments[a].status = "pending"
      /\ adjustments' = [adjustments EXCEPT ![a].status = "approved"]
      /\ UNCHANGED <<today, expenseVars, bookVars, raced>>
  BY DEF Approve
<1>1. adjustments \in [AdjustmentIds -> AdjustmentRow] /\ adjustments' \in [AdjustmentIds -> AdjustmentRow]
  BY <1>0 DEF LedgerInv, Rows, AdjustmentRow
<1>2. /\ adjustments'[a].status = "approved"
      /\ \A b \in AdjustmentIds :
           /\ adjustments'[b].expense = adjustments[b].expense
           /\ adjustments'[b].posting = adjustments[b].posting
           /\ b # a => adjustments'[b].status = adjustments[b].status
  BY <1>0, <1>1 DEF AdjustmentRow
<1>3. \A x \in Expenses : Carried(x)' <=> Carried(x)
  BY <1>2 DEF Carried, Carriers
<1>4. ASSUME NEW m \in Months, PendingIn(m) = {}
      PROVE  PendingIn(m)' = {} /\ ApprovedIn(m)' = ApprovedIn(m)
  BY <1>0, <1>2, <1>4 DEF PendingIn, ApprovedIn
<1>5. Rows'
  BY <1>0, <1>1 DEF LedgerInv, Rows, expenseVars, bookVars, ClosingRow
<1>6. AdjustmentsSound'
  BY <1>0, <1>2 DEF LedgerInv, Rows, AdjustmentsSound, Settled, expenseVars
<1>7. DecisionsSound'
  BY <1>0, <1>3, ReadingsKept DEF LedgerInv, Rows, DecisionsSound, Counts, expenseVars
<1>8. EntriesStep
  BY <1>0, <1>3, <1>4 DEF LedgerInv, Rows, EntriesStep, Countable, Settled, expenseVars, Months
<1> QED BY <1>5, <1>6, <1>7, <1>8

LEMMA RejectSound ==
    ASSUME LedgerInv, NEW a \in AdjustmentIds, Reject(a)
    PROVE  Rows' /\ AdjustmentsSound' /\ DecisionsSound' /\ EntriesStep
<1> DEFINE e == adjustments[a].expense
<1>0. /\ adjustments[a].status = "pending"
      /\ e # None => requests[e] = None
      /\ adjustments' = [adjustments EXCEPT ![a].status = "rejected", ![a].expense = None]
      /\ reconciled' = IF e # None THEN [reconciled EXCEPT ![e] = FALSE] ELSE reconciled
      /\ UNCHANGED <<today, status, source, requests, bookVars, raced>>
  BY DEF Reject
<1>1. /\ adjustments \in [AdjustmentIds -> AdjustmentRow] /\ reconciled \in [Expenses -> BOOLEAN]
      /\ e \in Expenses \cup {None}
      /\ e \in Expenses => source[e] = "legacy"
  BY <1>0 DEF LedgerInv, Rows, AdjustmentRow, AdjustmentsSound
<1>2. /\ adjustments' \in [AdjustmentIds -> AdjustmentRow]
      /\ adjustments'[a].status = "rejected" /\ adjustments'[a].expense = None
      /\ adjustments'[a].posting = adjustments[a].posting
      /\ \A b \in AdjustmentIds : b # a => adjustments'[b] = adjustments[b]
  BY <1>0, <1>1 DEF AdjustmentRow
<1>3a. \A x \in Expenses : x # e => (Carried(x)' <=> Carried(x))
  BY <1>0, <1>1, <1>2, LedgerAssumption DEF Carried, Carriers
<1>3b. \A x \in Expenses : x # e => reconciled'[x] = reconciled[x]
  BY <1>0, <1>1
<1>3c. \A x \in Expenses : Carried(x)' => Carried(x)
  BY <1>0, <1>1, <1>2, LedgerAssumption DEF Carried, Carriers
<1>4. ASSUME NEW m \in Months, PendingIn(m) = {}
      PROVE  PendingIn(m)' = {} /\ ApprovedIn(m)' = ApprovedIn(m)
  BY <1>0, <1>2, <1>4 DEF PendingIn, ApprovedIn
<1>5. Rows'
  <2>1. reconciled' \in [Expenses -> BOOLEAN]
    BY <1>0, <1>1
  <2> QED BY <2>1, <1>0, <1>2 DEF LedgerInv, Rows, bookVars, ClosingRow
<1>6. AdjustmentsSound'
  <2>1. AdjustmentsSound
    BY DEF LedgerInv
  <2>2. ASSUME NEW b \in AdjustmentIds, b # a, adjustments[b].expense \in Expenses
        PROVE  adjustments[b].expense # e
    BY <2>1, <2>2, LedgerAssumption DEF AdjustmentsSound
  <2>3. \A b, c \in AdjustmentIds :
          adjustments'[b].expense # None /\ adjustments'[b].expense = adjustments'[c].expense => b = c
    BY <2>1, <1>2 DEF AdjustmentsSound
  <2>4. ASSUME NEW b \in AdjustmentIds
        PROVE  /\ adjustments'[b].status \in {"none", "rejected"} => adjustments'[b].expense = None
               /\ adjustments'[b].status \in {"pending", "approved"} =>
                    adjustments'[b].posting \in Months /\ adjustments'[b].posting <= today'
               /\ adjustments'[b].expense \in Expenses =>
                    \/ Settled(adjustments[b].expense)' /\ adjustments'[b].status = "approved"
                    \/ /\ source'[adjustments'[b].expense] = "legacy"
                       /\ reconciled'[adjustments'[b].expense]
    <3>1. CASE b = a
      BY <3>1, <1>2, LedgerAssumption
    <3>2. CASE b # a
      <4>1. /\ adjustments[b].status \in {"none", "rejected"} => adjustments[b].expense = None
            /\ adjustments[b].status \in {"pending", "approved"} =>
                 adjustments[b].posting \in Months /\ adjustments[b].posting <= today
            /\ adjustments[b].expense \in Expenses =>
                 \/ Settled(adjustments[b].expense) /\ adjustments[b].status = "approved"
                 \/ /\ source[adjustments[b].expense] = "legacy"
                    /\ reconciled[adjustments[b].expense]
        BY <2>1 DEF AdjustmentsSound
      <4>2. adjustments'[b] = adjustments[b]
        BY <3>2, <1>2
      <4> QED BY <3>2, <4>1, <4>2, <2>2, <1>0, <1>3a, <1>3b, <1>3c DEF Settled
    <3> QED BY <3>1, <3>2
  <2> QED BY <2>3, <2>4, <1>2 DEF AdjustmentsSound, Settled
<1>7. UNCHANGED <<today, status, source, requests, bookVars, raced>> /\ (e \in Expenses => requests[e] = None)
  BY <1>0, LedgerAssumption
<1> HIDE DEF e
<1>8. DecisionsSound'
  <2> SUFFICES ASSUME NEW x \in Expenses, requests[x] # None
               PROVE  /\ BeingCounted(x)' => x \in raced'
                      /\ \/ /\ requests'[x] \in {"validate", "validate_late"}
                            /\ source'[x] = "own" /\ status'[x] = "to_validate"
                         \/ requests'[x] = "cancel" /\ status'[x] = "validated" /\ ~Carried(x)'
                         \/ requests'[x] \in {"own", "piece", "carry"} /\ source'[x] = "legacy" /\ ~reconciled'[x]
                      /\ Counts(x)' /\ Late(x)' => x \in raced'
    BY <1>7 DEF DecisionsSound
  <2>1. x # e /\ reconciled'[x] = reconciled[x] /\ (Carried(x)' <=> Carried(x))
    BY <1>3a, <1>3b, <1>3c, <1>7
  <2>2. /\ BeingCounted(x) => x \in raced
        /\ \/ /\ requests[x] \in {"validate", "validate_late"}
              /\ source[x] = "own" /\ status[x] = "to_validate"
           \/ requests[x] = "cancel" /\ status[x] = "validated" /\ ~Carried(x)
           \/ requests[x] \in {"own", "piece", "carry"} /\ source[x] = "legacy" /\ ~reconciled[x]
        /\ Counts(x) /\ Late(x) => x \in raced
    BY DEF LedgerInv, DecisionsSound
  <2> QED BY <2>1, <2>2, <1>7, ReadingsKept DEF Counts
<1>9. \A x \in Expenses : Countable(x)' <=> Countable(x)
  BY <1>1, <1>3a, <1>3b, <1>3c, <1>7 DEF Countable
<1>10. \A x \in Expenses : Settled(x) /\ ~Carried(x) => Settled(x)' /\ ~Carried(x)'
  BY <1>3a, <1>3b, <1>3c, <1>7 DEF Settled
<1>11. EntriesStep
  BY <1>4, <1>7, <1>9, <1>10 DEF LedgerInv, Rows, EntriesStep, Months
<1> QED BY <1>5, <1>6, <1>8, <1>11

LEMMA NextMonthSound ==
    ASSUME LedgerInv, NextMonth
    PROVE  Rows' /\ AdjustmentsSound' /\ DecisionsSound' /\ EntriesStep
<1>0. /\ today' = today + 1 /\ today \in Nat /\ today' \in Months
      /\ UNCHANGED <<status, source, reconciled, requests, adjustments, bookVars, raced>>
  BY LedgerAssumption DEF NextMonth, LedgerInv, Rows, Months, expenseVars
<1>1. Rows'
  BY <1>0 DEF LedgerInv, Rows, bookVars, ClosingRow
<1>2. AdjustmentsSound'
  <2>1. ASSUME NEW m \in Months, m <= today PROVE m <= today'
    BY <1>0, <2>1, LedgerAssumption DEF Months
  <2> QED BY <2>1, <1>0 DEF LedgerInv, AdjustmentsSound, Settled
<1>3. DecisionsSound'
  BY <1>0, ReadingsKept, AdjustmentsKept DEF LedgerInv, DecisionsSound, Counts
<1>4. \A x \in Expenses : (Countable(x)' <=> Countable(x)) /\ (Settled(x) => Settled(x)')
  BY <1>0, AdjustmentsKept DEF Countable, Settled
<1>5. EntriesStep
  BY <1>0, <1>4, AdjustmentsKept DEF LedgerInv, EntriesStep
<1> QED BY <1>1, <1>2, <1>3, <1>5

-----------------------------------------------------------------------------
(* The steps that count *)

(* What counts is read, and nothing is decided. *)
ReadingStep ==
    /\ UNCHANGED <<today, expenseVars, adjustments>>
    /\ raced \subseteq raced' /\ raced' \subseteq Expenses

LEMMA ReadingKept ==
    ASSUME LedgerInv, ReadingStep
    PROVE  /\ AdjustmentsSound'
           /\ \A S, C : Right(S, C) => Right(S, C)'
           /\ \A e \in Expenses : requests'[e] = requests[e] /\ (Counts(e)' <=> Counts(e))
           /\ \A m \in Months : PendingIn(m)' = PendingIn(m) /\ ApprovedIn(m)' = ApprovedIn(m)
<1>0. /\ UNCHANGED <<today, status, source, reconciled, requests, adjustments>>
      /\ raced \subseteq raced'
  BY DEF ReadingStep, expenseVars
<1>1. AdjustmentsSound'
  BY <1>0 DEF LedgerInv, AdjustmentsSound, Settled
<1>2. \A e : (Countable(e)' <=> Countable(e)) /\ (Settled(e)' <=> Settled(e)) /\ (Carried(e)' <=> Carried(e))
  BY <1>0 DEF Countable, Settled, Carried, Carriers
<1>3. ASSUME NEW S, NEW C, Right(S, C) PROVE Right(S, C)'
  BY <1>0, <1>2, <1>3 DEF Right
<1>4. \A e \in Expenses : requests'[e] = requests[e] /\ (Counts(e)' <=> Counts(e))
  BY <1>0 DEF Counts
<1> QED BY <1>0, <1>1, <1>3, <1>4, AdjustmentsKept

(* What has just been read is right. *)
LEMMA ReadRight ==
    ASSUME NEW C \in SUBSET Expenses
    PROVE  Right({e \in C : Countable(e)}, C)
BY DEF Right, Countable, Settled, Realised

LEMMA ExpectedRight ==
    ASSUME NEW t \in Trips
    PROVE  Right(Expected(t), Concerned(t)) /\ Expected(t) \in SUBSET Expenses
BY DEF Right, Countable, Settled, Realised, Expected, Concerned

(* A decision stays sound when what is frozen now was being counted before. *)
LEMMA DecisionsKept ==
    ASSUME LedgerInv, ReadingStep,
           \A e \in Expenses : Late(e)' => Late(e) \/ BeingCounted(e),
           \A e \in Expenses : BeingCounted(e)' => BeingCounted(e) \/ requests[e] = None \/ e \in raced'
    PROVE  DecisionsSound'
<1>0. /\ UNCHANGED <<today, status, source, reconciled, requests, adjustments>>
      /\ raced \subseteq raced'
  BY DEF ReadingStep, expenseVars
<1> SUFFICES ASSUME NEW e \in Expenses, requests[e] # None
             PROVE  /\ BeingCounted(e)' => e \in raced'
                    /\ \/ /\ requests[e] \in {"validate", "validate_late"}
                          /\ source[e] = "own" /\ status[e] = "to_validate"
                       \/ requests[e] = "cancel" /\ status[e] = "validated" /\ ~Carried(e)'
                       \/ requests[e] \in {"own", "piece", "carry"} /\ source[e] = "legacy" /\ ~reconciled[e]
                    /\ Counts(e)' /\ Late(e)' => e \in raced'
  BY <1>0 DEF DecisionsSound
<1>1. /\ BeingCounted(e) => e \in raced
      /\ \/ /\ requests[e] \in {"validate", "validate_late"}
            /\ source[e] = "own" /\ status[e] = "to_validate"
         \/ requests[e] = "cancel" /\ status[e] = "validated" /\ ~Carried(e)
         \/ requests[e] \in {"own", "piece", "carry"} /\ source[e] = "legacy" /\ ~reconciled[e]
      /\ Counts(e) /\ Late(e) => e \in raced
  BY DEF LedgerInv, DecisionsSound
<1> QED BY <1>0, <1>1, ReadingKept, AdjustmentsKept

(* Rows a reading leaves alone. *)
LEMMA RowsKept ==
    ASSUME LedgerInv, ReadingStep,
           running' \subseteq running, failures' \in 0..MaxEvents,
           cost' \in [Trips -> Readings],
           freezing' \in [Trips -> Readings],
           closing' # None => closing' \in ClosingRow,
           books' \in [Months -> [counted : SUBSET Expenses, posted : SUBSET AdjustmentIds,
                                  budget : SUBSET Expenses] \cup {None}]
    PROVE  Rows'
BY DEF LedgerInv, Rows, ReadingStep, expenseVars, ClosingRow
(* The closing and the books under a step that leaves them alone. *)
LEMMA ClosingKept ==
    ASSUME LedgerInv, ReadingStep, UNCHANGED closing, running' \subseteq running
    PROVE  ClosingRight'
<1> SUFFICES ASSUME closing # None PROVE ClosingRight'
  BY DEF ClosingRight
<1>1. closing \in ClosingRow /\ ClosingRight /\ closing.month \in Months /\ today' = today
  BY DEF LedgerInv, Rows, ClosingRow, ReadingStep
<1> QED BY <1>1, ReadingKept DEF ClosingRight

LEMMA BooksLeft ==
    ASSUME LedgerInv, ReadingStep, UNCHANGED books
    PROVE  BooksRight'
<1> SUFFICES ASSUME NEW m \in Months, Closed(m)
             PROVE  /\ m < today' /\ PendingIn(m)' = {} /\ books[m].posted = ApprovedIn(m)'
                    /\ Right(books[m].counted, Dated(m))' /\ Right(books[m].budget, Dated(m))'
  BY DEF BooksRight, Closed
<1>1. /\ m < today /\ PendingIn(m) = {} /\ books[m].posted = ApprovedIn(m)
      /\ Right(books[m].counted, Dated(m)) /\ Right(books[m].budget, Dated(m))
      /\ today' = today
  BY DEF LedgerInv, BooksRight, ReadingStep
<1> QED BY <1>1, ReadingKept

LEMMA StartFreezeSound ==
    ASSUME LedgerInv, NEW t \in Trips,
           freezing' = [freezing EXCEPT ![t] = Expected(t)],
           raced' = raced \cup Undecided(Concerned(t)),
           UNCHANGED <<today, expenseVars, adjustments, running, cost, books, closing, failures>>
    PROVE  LedgerInv'
<1>1. ReadingStep
  BY DEF ReadingStep, Undecided, Concerned, LedgerInv, Rows
<1>2. /\ freezing' \in [Trips -> Readings] /\ freezing'[t] = Expected(t)
      /\ \A x \in Trips : x # t => freezing'[x] = freezing[x]
  <2>1. Expected(t) \in Readings /\ freezing \in [Trips -> Readings]
    BY ExpectedRight DEF Readings, LedgerInv, Rows
  <2> QED BY <2>1
<1>3. Rows'
  BY <1>1, <1>2, RowsKept DEF LedgerInv, Rows
<1>4. DecisionsSound'
  <2>1. \A e \in Expenses : Late(e)' <=> Late(e)
    BY DEF Late, Frozen, Closed
  <2>2. ASSUME NEW e \in Expenses, BeingCounted(e)', ~BeingCounted(e), requests[e] # None
        PROVE  e \in raced'
    <3>1. TripOf[e] = t
      BY <2>2, <1>2, LedgerAssumption DEF BeingCounted
    <3> QED BY <2>2, <3>1 DEF Undecided, Concerned
  <2> QED BY <2>1, <2>2, <1>1, DecisionsKept
<1>5. FreezesRight'
  <2> SUFFICES ASSUME NEW x \in Trips, freezing'[x] # None PROVE Right(freezing[x], Concerned(x))'
    BY DEF FreezesRight
  <2>1. CASE x = t
    BY <2>1, <1>1, <1>2, ExpectedRight, ReadingKept
  <2>2. CASE x # t
    BY <2>2, <1>1, <1>2, ReadingKept DEF LedgerInv, FreezesRight
  <2> QED BY <2>1, <2>2
<1>6. CostsRight'
  BY <1>1, ReadingKept DEF LedgerInv, CostsRight
<1> QED BY <1>1, <1>3, <1>4, <1>5, <1>6, ReadingKept, ClosingKept, BooksLeft DEF LedgerInv

LEMMA FreezeBacklogSound ==
    ASSUME LedgerInv, NEW t \in Trips, FreezeBacklog(t)
    PROVE  LedgerInv'
BY StartFreezeSound DEF FreezeBacklog

LEMMA CommitFreezeSound ==
    ASSUME LedgerInv, NEW t \in Trips, CommitFreeze(t)
    PROVE  LedgerInv'
<1>0. /\ freezing[t] # None
      /\ cost' = [cost EXCEPT ![t] = freezing[t]] /\ freezing' = [freezing EXCEPT ![t] = None]
      /\ running' = running \ {t}
      /\ UNCHANGED <<today, expenseVars, adjustments, books, closing, failures, raced>>
  BY DEF CommitFreeze
<1>1. ReadingStep /\ running' \subseteq running
  BY <1>0 DEF ReadingStep, LedgerInv, Rows
<1>2. /\ freezing' \in [Trips -> Readings] /\ freezing'[t] = None
      /\ cost' \in [Trips -> Readings] /\ cost'[t] = freezing[t]
      /\ \A x \in Trips : x # t => freezing'[x] = freezing[x]
      /\ \A x \in Trips : x # t => cost'[x] = cost[x]
  <2>1. /\ freezing \in [Trips -> Readings]
        /\ cost \in [Trips -> Readings]
    BY DEF LedgerInv, Rows
  <2>2. freezing' \in [Trips -> Readings] /\ cost' \in [Trips -> Readings]
    <3>1. freezing[t] \in Readings /\ None \in Readings
      BY <2>1 DEF Readings
    <3> QED BY <1>0, <2>1, <3>1
  <2> QED BY <1>0, <2>1, <2>2
<1>3. Rows'
  BY <1>0, <1>1, <1>2, RowsKept DEF LedgerInv, Rows
<1>4. DecisionsSound'
  <2>1. ASSUME NEW e \in Expenses, Late(e)', ~Late(e) PROVE BeingCounted(e)
    <3>1. TripOf[e] = t
      BY <2>1, <1>0, <1>2, LedgerAssumption DEF Late, Frozen, Closed
    <3> QED BY <3>1, <1>0, LedgerAssumption DEF BeingCounted
  <2>2. \A e \in Expenses : BeingCounted(e)' => BeingCounted(e)
    BY <1>0, <1>2, LedgerAssumption DEF BeingCounted
  <2> QED BY <2>1, <2>2, <1>1, DecisionsKept
<1>5. FreezesRight'
  BY <1>1, <1>2, ReadingKept DEF LedgerInv, FreezesRight
<1>6. CostsRight'
  <2> SUFFICES ASSUME NEW x \in Trips, cost'[x] # None
               PROVE  x \notin running' /\ Right(cost[x], Concerned(x))'
    BY DEF CostsRight
  <2>1. CASE x = t
    BY <2>1, <1>0, <1>1, <1>2, ReadingKept DEF LedgerInv, FreezesRight
  <2>2. CASE x # t
    BY <2>2, <1>1, <1>2, ReadingKept DEF LedgerInv, CostsRight
  <2> QED BY <2>1, <2>2
<1> QED BY <1>0, <1>1, <1>3, <1>4, <1>5, <1>6, ReadingKept, ClosingKept, BooksLeft DEF LedgerInv

(* The bound on the failures. *)
LEMMA FailsSound ==
    ASSUME LedgerInv, Fails
    PROVE  failures' \in 0..MaxEvents
<1>1. Cardinality(Made) \in Nat
  <2>1. IsFiniteSet(AdjustmentIds)
    BY FS_Interval, LedgerAssumption DEF AdjustmentIds
  <2>2. Made \in SUBSET AdjustmentIds
    BY DEF Made
  <2> QED BY <2>1, <2>2, FS_Subset, FS_CardinalityType
<1> QED BY <1>1, LedgerAssumption DEF Fails, LedgerInv, Rows

(* A freeze that fails, before it has read anything or after. *)
LEMMA FailureSound ==
    ASSUME LedgerInv, NEW t \in Trips, failures' \in 0..MaxEvents,
           freezing' \in {freezing, [freezing EXCEPT ![t] = None]}, running' = running \ {t},
           UNCHANGED <<today, expenseVars, adjustments, cost, books, closing, raced>>
    PROVE  LedgerInv'
<1>1. ReadingStep /\ running' \subseteq running
  BY DEF ReadingStep, LedgerInv, Rows
<1>2. /\ freezing' \in [Trips -> Readings]
      /\ \A x \in Trips : freezing'[x] # None => freezing'[x] = freezing[x]
  <2>1. freezing \in [Trips -> Readings]
    BY DEF LedgerInv, Rows
  <2>2. CASE freezing' = freezing
    BY <2>1, <2>2
  <2>3. CASE freezing' = [freezing EXCEPT ![t] = None]
    <3>1. None \in Readings
      BY DEF Readings
    <3> QED BY <2>1, <2>3, <3>1
  <2> QED BY <2>2, <2>3
<1>3. Rows'
  BY <1>1, <1>2, RowsKept DEF LedgerInv, Rows
<1>4. DecisionsSound'
  <2>1. \A e \in Expenses : Late(e)' <=> Late(e)
    BY DEF Late, Frozen, Closed
  <2>2. \A e \in Expenses : BeingCounted(e)' => BeingCounted(e)
    BY <1>2, LedgerAssumption DEF BeingCounted
  <2> QED BY <2>1, <2>2, <1>1, DecisionsKept
<1>5. FreezesRight'
  BY <1>1, <1>2, ReadingKept DEF LedgerInv, FreezesRight
<1>6. CostsRight'
  BY <1>1, ReadingKept DEF LedgerInv, CostsRight
<1> QED BY <1>1, <1>3, <1>4, <1>5, <1>6, ReadingKept, ClosingKept, BooksLeft DEF LedgerInv

LEMMA FailFreezeSound ==
    ASSUME LedgerInv, NEW t \in Trips, FailFreeze(t) \/ CloseTrip(t)
    PROVE  LedgerInv'
<1>1. CASE FailFreeze(t)
  BY <1>1, FailsSound, FailureSound DEF FailFreeze
<1>2. CASE CloseTrip(t)
  BY <1>2, FailsSound, FailureSound, StartFreezeSound DEF CloseTrip
<1> QED BY <1>1, <1>2

LEMMA BeginClosingSound ==
    ASSUME LedgerInv, NEW m \in Months, NEW frozen \in SUBSET Trips, BeginClosing(m, frozen)
    PROVE  LedgerInv'
<1> DEFINE costs == [t \in frozen |-> Expected(t)]
<1>0. /\ closing = None /\ m < today /\ PendingIn(m) = {}
      /\ closing' = [month |-> m, backlog |-> frozen, counted |-> None, posted |-> None, budget |-> None,
                     costs |-> costs]
      /\ raced' = raced \cup Undecided(Dated(m) \cup UNION {Concerned(t) : t \in frozen})
      /\ UNCHANGED <<today, expenseVars, adjustments, cost, books, freezing, running>>
      /\ (UNCHANGED failures \/ Fails)
  BY DEF BeginClosing, Closable
<1>1. ReadingStep
  BY <1>0 DEF ReadingStep, Undecided, Dated, Concerned, LedgerInv, Rows
<1>2. frozen \in SUBSET Trips /\ frozen \cap running = {}
  BY DEF BeginClosing, Backlog
<1>3. costs \in [frozen -> SUBSET Expenses]
  BY <1>2, ExpectedRight
<1> HIDE DEF costs
<1>4. closing' \in ClosingRow
  <2>1. costs \in UNION {[l -> SUBSET Expenses] : l \in SUBSET Trips}
    BY <1>2, <1>3
  <2>2. None \in Readings /\ None \in (SUBSET AdjustmentIds) \cup {None}
    BY DEF Readings
  <2> QED BY <1>0, <1>2, <2>1, <2>2 DEF ClosingRow
<1>5. Rows'
  <2>1. failures' \in 0..MaxEvents
    <3>1. Fails => failures' \in 0..MaxEvents
      BY FailsSound
    <3> QED BY <1>0, <3>1 DEF LedgerInv, Rows
  <2> QED BY <1>0, <1>1, <1>4, <2>1, RowsKept DEF LedgerInv, Rows
<1>6. DecisionsSound'
  <2>1. \A e \in Expenses : Late(e)' <=> Late(e)
    BY <1>0 DEF Late, Frozen, Closed
  <2>2. ASSUME NEW e \in Expenses, BeingCounted(e)', ~BeingCounted(e), requests[e] # None
        PROVE  e \in raced'
    <3>1. closing'.month = m /\ closing'.backlog = frozen
      BY <1>0
    <3>2. m = MonthOf[e] \/ TripOf[e] \in frozen
      BY <2>2, <3>1, <1>0 DEF BeingCounted
    <3>3. e \in Dated(m) \cup UNION {Concerned(t) : t \in frozen}
      BY <3>2 DEF Dated, Concerned
    <3> QED BY <2>2, <3>3, <1>0 DEF Undecided
  <2> QED BY <2>1, <2>2, <1>1, DecisionsKept
<1>7. FreezesRight' /\ CostsRight'
  BY <1>0, <1>1, ReadingKept DEF LedgerInv, FreezesRight, CostsRight
<1>8. ClosingRight'
  <2>1. /\ closing'.month = m /\ closing'.backlog = frozen /\ closing'.counted = None
        /\ closing'.budget = None /\ closing'.costs = costs
    BY <1>0
  <2>2. \A t \in frozen : Right(costs[t], Concerned(t))
    BY <1>2, ExpectedRight DEF costs
  <2>3. m < today' /\ PendingIn(m)' = {} /\ frozen \cap running' = {}
    BY <1>0, <1>1, <1>2, ReadingKept
  <2>4. \A t \in frozen : Right(closing.costs[t], Concerned(t))'
    BY <2>1, <2>2, <1>1, ReadingKept
  <2>5. PendingIn(closing.month)' = {}
    BY <2>1, <2>3 DEF PendingIn
  <2> QED BY <2>1, <2>3, <2>4, <2>5, <1>3 DEF ClosingRight
<1> QED BY <1>0, <1>1, <1>5, <1>6, <1>7, <1>8, ReadingKept, BooksLeft DEF LedgerInv

(* The two counts of a closing under way. *)
LEMMA CountSound ==
    ASSUME LedgerInv, CountVehicles \/ CountBudget
    PROVE  LedgerInv'
<1> DEFINE m == closing.month
           reading == {e \in Dated(m) : Countable(e)}
           approved == {a \in AdjustmentIds : /\ adjustments[a].status = "approved"
                                              /\ adjustments[a].posting = m}
<1>0. /\ closing # None
      /\ \/ /\ closing.counted = None
            /\ closing' = [closing EXCEPT !.counted = reading, !.posted = approved]
         \/ /\ closing.counted # None
            /\ closing' = [closing EXCEPT !.budget = reading]
      /\ UNCHANGED <<today, expenseVars, adjustments, cost, books, freezing, running, failures, raced>>
  BY DEF CountVehicles, CountBudget
<1>1. ReadingStep
  BY <1>0 DEF ReadingStep, LedgerInv, Rows
<1>2. closing \in ClosingRow /\ m \in Months /\ approved \in SUBSET AdjustmentIds
  BY <1>0 DEF LedgerInv, Rows, ClosingRow
<1>3. reading \in Readings /\ Right(reading, Dated(m))
  <2>1. Dated(m) \in SUBSET Expenses
    BY DEF Dated
  <2> QED BY <2>1, ReadRight DEF Readings
<1>4. approved = ApprovedIn(m)
  BY DEF ApprovedIn
<1> HIDE DEF reading, approved
<1>5. /\ closing' \in ClosingRow /\ closing'.month = m /\ closing'.backlog = closing.backlog
      /\ closing'.costs = closing.costs
      /\ \/ /\ closing.counted = None /\ closing'.counted = reading /\ closing'.posted = approved
            /\ closing'.budget = closing.budget
         \/ /\ closing.counted # None /\ closing'.counted = closing.counted
            /\ closing'.posted = closing.posted /\ closing'.budget = reading
  BY <1>0, <1>2, <1>3 DEF ClosingRow
<1>6. Rows'
  BY <1>0, <1>1, <1>5, RowsKept DEF LedgerInv, Rows
<1>7. DecisionsSound'
  <2>1. \A e \in Expenses : Late(e)' <=> Late(e)
    BY <1>0 DEF Late, Frozen, Closed
  <2>2. \A e \in Expenses : BeingCounted(e)' => BeingCounted(e)
    BY <1>0, <1>5 DEF BeingCounted
  <2> QED BY <2>1, <2>2, <1>1, DecisionsKept
<1>8. FreezesRight' /\ CostsRight'
  BY <1>0, <1>1, ReadingKept DEF LedgerInv, FreezesRight, CostsRight
<1>9. ClosingRight'
  <2>1. /\ m < today /\ PendingIn(m) = {} /\ closing.backlog \cap running = {}
        /\ closing.counted # None => Right(closing.counted, Dated(m)) /\ closing.posted = ApprovedIn(m)
        /\ closing.budget # None => closing.counted # None /\ Right(closing.budget, Dated(m))
        /\ closing.costs \in [closing.backlog -> SUBSET Expenses]
        /\ \A t \in closing.backlog : Right(closing.costs[t], Concerned(t))
    BY <1>0 DEF LedgerInv, ClosingRight
  <2>2. m < today' /\ PendingIn(closing.month)' = {} /\ closing'.backlog \cap running' = {}
    <3>1. ASSUME NEW x \in Months, x = m PROVE PendingIn(closing.month)' = PendingIn(x)'
      BY <3>1, <1>5 DEF PendingIn
    <3> QED BY <3>1, <2>1, <1>0, <1>1, <1>2, <1>5, ReadingKept
  <2>3. \A S : Right(S, Dated(closing.month))' <=> Right(S, Dated(m))'
    BY <1>5 DEF Right, Dated
  <2>4. /\ closing'.counted # None =>
             Right(closing.counted, Dated(m))' /\ closing'.posted = ApprovedIn(m)
        /\ closing'.budget # None => closing'.counted # None /\ Right(closing.budget, Dated(m))'
    <3>1. CASE closing.counted = None
      <4>1. closing.budget = None
        BY <3>1, <2>1
      <4> QED BY <3>1, <4>1, <1>1, <1>3, <1>4, <1>5, ReadingKept
    <3>2. CASE closing.counted # None
      BY <3>2, <2>1, <1>1, <1>3, <1>5, ReadingKept
    <3> QED BY <3>1, <3>2
  <2>5. \A t \in closing'.backlog : Right(closing.costs[t], Concerned(t))'
    BY <2>1, <1>1, <1>5, ReadingKept
  <2>6. ApprovedIn(closing.month)' = ApprovedIn(m)
    <3>1. ASSUME NEW x \in Months, x = m PROVE ApprovedIn(closing.month)' = ApprovedIn(x)'
      BY <3>1, <1>5 DEF ApprovedIn
    <3> QED BY <3>1, <1>1, <1>2, ReadingKept
  <2> QED BY <2>1, <2>2, <2>3, <2>4, <2>5, <2>6, <1>5 DEF ClosingRight
<1> QED BY <1>0, <1>1, <1>6, <1>7, <1>8, <1>9, ReadingKept, BooksLeft DEF LedgerInv

LEMMA CommitClosingSound ==
    ASSUME LedgerInv, CommitClosing
    PROVE  LedgerInv'
<1> DEFINE m == closing.month
           row == [counted |-> closing.counted, posted |-> closing.posted, budget |-> closing.budget]
<1>0. /\ closing # None /\ closing.budget # None
      /\ books' = [books EXCEPT ![m] = row]
      /\ cost' = [t \in Trips |-> IF t \in closing.backlog THEN closing.costs[t] ELSE cost[t]]
      /\ closing' = None
      /\ UNCHANGED <<today, expenseVars, adjustments, freezing, running, failures, raced>>
  BY DEF CommitClosing
<1>1. ReadingStep
  BY <1>0 DEF ReadingStep, LedgerInv, Rows
<1>2. /\ m \in Months /\ closing.backlog \in SUBSET Trips
      /\ m < today /\ PendingIn(m) = {} /\ closing.backlog \cap running = {}
      /\ closing.counted # None
      /\ Right(closing.counted, Dated(m)) /\ closing.posted = ApprovedIn(m)
      /\ Right(closing.budget, Dated(m))
      /\ closing.costs \in [closing.backlog -> SUBSET Expenses]
      /\ \A t \in closing.backlog : Right(closing.costs[t], Concerned(t))
  BY <1>0 DEF LedgerInv, Rows, ClosingRow, ClosingRight
<1>3. /\ closing.counted \in SUBSET Expenses /\ closing.budget \in SUBSET Expenses
      /\ closing.posted \in SUBSET AdjustmentIds
  BY <1>0, <1>2 DEF LedgerInv, Rows, ClosingRow, Readings, ApprovedIn
<1>4. /\ books' \in [Months -> [counted : SUBSET Expenses, posted : SUBSET AdjustmentIds,
                               budget : SUBSET Expenses] \cup {None}]
      /\ books'[m] = row
      /\ \A x \in Months : x # m => books'[x] = books[x]
  BY <1>0, <1>2, <1>3 DEF LedgerInv, Rows
<1>5. cost' \in [Trips -> Readings]
  <2> SUFFICES ASSUME NEW t \in Trips
               PROVE  (IF t \in closing.backlog THEN closing.costs[t] ELSE cost[t]) \in Readings
    BY <1>0
  <2> QED BY <1>2 DEF LedgerInv, Rows, Readings
<1>6. Rows'
  BY <1>0, <1>1, <1>4, <1>5, RowsKept DEF LedgerInv, Rows
<1>7. DecisionsSound'
  <2>1. ASSUME NEW e \in Expenses, Late(e)', ~Late(e) PROVE BeingCounted(e)
    <3>1. CASE Closed(MonthOf[e])'
      <4>1. MonthOf[e] = m
        BY <2>1, <3>1, <1>4, LedgerAssumption DEF Late, Closed
      <4> QED BY <4>1, <1>0 DEF BeingCounted
    <3>2. CASE Frozen(e)'
      <4>1. TripOf[e] \in closing.backlog
        BY <2>1, <3>2, <1>0, LedgerAssumption DEF Late, Frozen
      <4> QED BY <4>1, <1>0 DEF BeingCounted
    <3> QED BY <2>1, <3>1, <3>2 DEF Late
  <2>2. \A e \in Expenses : BeingCounted(e)' => BeingCounted(e)
    BY <1>0 DEF BeingCounted
  <2> QED BY <2>1, <2>2, <1>1, DecisionsKept
<1>8. FreezesRight'
  BY <1>0, <1>1, ReadingKept DEF LedgerInv, FreezesRight
<1>9. CostsRight'
  <2> SUFFICES ASSUME NEW t \in Trips, cost'[t] # None
               PROVE  t \notin running' /\ Right(cost[t], Concerned(t))'
    BY DEF CostsRight
  <2>1. CASE t \in closing.backlog
    BY <2>1, <1>0, <1>1, <1>2, ReadingKept
  <2>2. CASE t \notin closing.backlog
    BY <2>2, <1>0, <1>1, ReadingKept DEF LedgerInv, CostsRight
  <2> QED BY <2>1, <2>2
<1>10. ClosingRight'
  BY <1>0 DEF ClosingRight
<1>11. BooksRight'
  <2> SUFFICES ASSUME NEW x \in Months, books'[x] # None
               PROVE  /\ x < today' /\ PendingIn(x)' = {} /\ books'[x].posted = ApprovedIn(x)'
                      /\ Right(books[x].counted, Dated(x))' /\ Right(books[x].budget, Dated(x))'
    BY DEF BooksRight, Closed
  <2>1. PendingIn(x)' = PendingIn(x) /\ ApprovedIn(x)' = ApprovedIn(x) /\ today' = today
    BY <1>0, <1>1, ReadingKept
  <2>2. CASE x = m
    BY <2>1, <2>2, <1>1, <1>2, <1>4, ReadingKept
  <2>3. CASE x # m
    BY <2>1, <2>3, <1>1, <1>4, ReadingKept DEF LedgerInv, BooksRight, Closed
  <2> QED BY <2>2, <2>3
<1> QED BY <1>1, <1>6, <1>7, <1>8, <1>9, <1>10, <1>11, ReadingKept DEF LedgerInv

-----------------------------------------------------------------------------
(* The invariant *)

LEMMA EntriesSound ==
    ASSUME LedgerInv, Rows' /\ AdjustmentsSound' /\ DecisionsSound' /\ EntriesStep
    PROVE  LedgerInv'
BY BooksKept DEF LedgerInv

LEMMA LedgerInvInitially == Init => LedgerInv
<1> SUFFICES ASSUME Init PROVE LedgerInv
  OBVIOUS
<1>1. Rows
  BY LedgerAssumption DEF Init, Rows, AdjustmentRow, NoAdjustment, Readings, Months
<1>2. AdjustmentsSound
  BY LedgerAssumption DEF Init, AdjustmentsSound, NoAdjustment, Settled
<1>3. DecisionsSound /\ FreezesRight /\ CostsRight /\ ClosingRight /\ BooksRight
  BY DEF Init, DecisionsSound, FreezesRight, CostsRight, ClosingRight, BooksRight, Closed
<1> QED BY <1>1, <1>2, <1>3 DEF LedgerInv

LEMMA LedgerInvKept == LedgerInv /\ [Next]_vars => LedgerInv'
<1> SUFFICES ASSUME LedgerInv, [Next]_vars PROVE LedgerInv'
  OBVIOUS
<1>1. ASSUME NEW e \in Expenses, NEW to, Move(e, to) PROVE LedgerInv'
  BY <1>1, MoveSound, EntriesSound
<1>2. ASSUME NEW e \in Expenses, Validate(e) \/ Cancel(e) \/ CommitRequest(e) PROVE LedgerInv'
  BY <1>2, ValidateSound, CancelSound, CommitRequestSound, EntriesSound
<1>3. ASSUME NEW e \in Expenses, NEW destination \in {"own", "piece"}, Reconcile(e, destination)
      PROVE  LedgerInv'
  BY <1>3, ReconcileSound, EntriesSound
<1>4. ASSUME CreateAdjustment \/ NextMonth PROVE LedgerInv'
  BY <1>4, CreateAdjustmentSound, NextMonthSound, EntriesSound
<1>5. ASSUME NEW a \in AdjustmentIds, Approve(a) \/ Reject(a) PROVE LedgerInv'
  BY <1>5, ApproveSound, RejectSound, EntriesSound
<1>6. ASSUME NEW t \in Trips, CloseTrip(t) \/ FreezeBacklog(t) \/ CommitFreeze(t) \/ FailFreeze(t)
      PROVE  LedgerInv'
  BY <1>6, FreezeBacklogSound, CommitFreezeSound, FailFreezeSound
<1>7. ASSUME NEW m \in Months, NEW frozen \in SUBSET Trips, BeginClosing(m, frozen) PROVE LedgerInv'
  BY <1>7, BeginClosingSound
<1>8. ASSUME CountVehicles \/ CountBudget \/ CommitClosing PROVE LedgerInv'
  BY <1>8, CountSound, CommitClosingSound
<1>9. ASSUME UNCHANGED vars PROVE LedgerInv'
  <2>1. ReadingStep /\ UNCHANGED bookVars
    BY <1>9 DEF vars, ReadingStep, LedgerInv, Rows
  <2>2. UNCHANGED <<running, cost, freezing, closing, books, failures>>
    BY <2>1 DEF bookVars
  <2>3. Rows'
    BY <2>1, <2>2, RowsKept DEF LedgerInv, Rows
  <2>4. DecisionsSound'
    BY <2>1, DecisionsKept, ReadingsKept
  <2>5. FreezesRight' /\ CostsRight'
    BY <2>1, <2>2, ReadingKept DEF LedgerInv, FreezesRight, CostsRight
  <2> QED BY <2>1, <2>2, <2>3, <2>4, <2>5, ReadingKept, ClosingKept, BooksLeft DEF LedgerInv
<1> QED BY <1>1, <1>2, <1>3, <1>4, <1>5, <1>6, <1>7, <1>8, <1>9 DEF Next

(* Every row keeps its type, an expense has one carrier at most, and a trip has
   a direct cost only when it is closed: what the requests on expenses, the
   closing of trips and of months write, in any order. *)
THEOREM LedgerTyped == Spec => []LedgerTypeOK
<1>1. LedgerInv => LedgerTypeOK
  <2> SUFFICES ASSUME LedgerInv PROVE LedgerTypeOK
    OBVIOUS
  <2>1. ASSUME NEW e \in Expenses PROVE Cardinality(Carriers(e)) <= 1
    <3>1. \A a, b \in Carriers(e) : a = b
      BY LedgerAssumption DEF Carriers, LedgerInv, AdjustmentsSound
    <3>2. CASE Carriers(e) = {}
      BY <3>2, FS_EmptySet
    <3>3. CASE Carriers(e) # {}
      <4>1. PICK a : Carriers(e) = {a}
        BY <3>1, <3>3
      <4> QED BY <4>1, FS_Singleton
    <3> QED BY <3>2, <3>3
  <2>2. \A t \in Trips : cost[t] # None => t \notin running /\ cost[t] \subseteq Concerned(t)
    BY DEF LedgerInv, CostsRight, Right
  <2> QED BY <2>1, <2>2 DEF LedgerInv, Rows, LedgerTypeOK
<1> QED BY <1>1, LedgerInvInitially, LedgerInvKept, PTL DEF Spec

(* close_period refuses a month with an adjustment to decide, and approve an
   adjustment of a closed month: the books have every approved adjustment. *)
THEOREM BooksComplete == Spec => []AdjustmentsInTheBooks
<1>1. LedgerInv => AdjustmentsInTheBooks
  BY DEF LedgerInv, BooksRight, AdjustmentsInTheBooks, ApprovedIn
<1> QED BY <1>1, LedgerInvInitially, LedgerInvKept, PTL DEF Spec

(* What countable leaves out because an adjustment carries it is in no count,
   even one that raced with the decision. *)
THEOREM CountedOnce == Spec => []NeverCountedTwice
<1>1. LedgerInv => NeverCountedTwice
  BY DEF LedgerInv, BooksRight, CostsRight, Right, NeverCountedTwice
<1> QED BY <1>1, LedgerInvInitially, LedgerInvKept, PTL DEF Spec

(* A closed month still counts what counts: lateness carries what is validated
   after it, is_locked refuses to cancel what it counts. *)
THEOREM BooksStayRight == Spec => []BooksMatchExpenses
<1>1. LedgerInv => BooksMatchExpenses
  BY DEF LedgerInv, BooksRight, Right, BooksMatchExpenses
<1> QED BY <1>1, LedgerInvInitially, LedgerInvKept, PTL DEF Spec

(* So does the frozen direct cost of a trip. *)
THEOREM TripCostsStayRight == Spec => []TripCostsMatchExpenses
<1>1. LedgerInv => TripCostsMatchExpenses
  BY DEF LedgerInv, CostsRight, Right, TripCostsMatchExpenses
<1> QED BY <1>1, LedgerInvInitially, LedgerInvKept, PTL DEF Spec
==============================================================================
