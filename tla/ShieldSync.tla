----------------------------- MODULE ShieldSync ------------------------------
(***************************************************************************)
(* Synchronisation of the staff register (Kaydan Shield) into the accounts *)
(* of the application: apps/shield/{sync,lifecycle}.py.  The register is   *)
(* read page by page over the network by celery workers that may fail,     *)
(* pause or die; what is read updates the employee files, and the files    *)
(* close and reopen the accounts linked to them.                           *)
(*                                                                         *)
(* One employee per page, one account per employee.  Time is counted in    *)
(* edits of the register; heartbeats (30 min) and the age of a run (24 h)  *)
(* are choices: a run whose worker is gone may be found dead, and so may,  *)
(* at the price of a fault, one whose worker is only slow.                 *)
(***************************************************************************)
EXTENDS Integers, FiniteSets

CONSTANTS
    Employees,      \* register ids, integers: the order of a full reading
    Workers,        \* celery workers able to run the task
    Rows,           \* identities a run may take: bound on the runs still of use
    None,
    Guard,          \* absences or departures a run applies without being forced
    Overlap,        \* WATERMARK_OVERLAP
    Skew,           \* how late an edit of the register may become visible
    Scenarios       \* what may happen around the synchronisation (Budget)

Modes == {"incremental", "reconcile"}

(* What one behaviour has room for: edits of the register, failures, slow
   workers declared dead, the employees whose accounts administrators act
   upon, whether they may force a run, and the modes the runs have. *)
Budget == [edits : Nat, failures : Nat, slow : Nat,
           managed : SUBSET Employees, forced : SUBSET BOOLEAN, modes : SUBSET Modes]

ASSUME ShieldAssumption ==
    /\ Employees \subseteq Nat /\ IsFiniteSet(Employees) /\ Rows \subseteq Nat
    /\ None \notin Nat \cup {"incremental", "employees", "employees_done"}
    /\ {Guard, Overlap, Skew} \subseteq Nat /\ Skew <= Overlap
    /\ \A s \in Scenarios : s \in Budget

VARIABLES
    register,   \* what the staff register answers for each employee
    clock,      \* edits of the register so far
    files,      \* the ShieldEmployee table
    accounts,   \* the account linked to each file
    runs,       \* the ShieldSyncRun table
    archived,   \* the greatest watermark of the succeeded runs not kept in runs
    workers,    \* what each worker is doing
    left,       \* the budget still to spend
    wish,       \* what an administrator last decided of each account
    lost,       \* employees the register has ever been without
    disturbed   \* pages were shifted, or a late worker wrote what it had read before

vars == <<register, clock, files, accounts, runs, archived, workers, left,
          wish, lost, disturbed>>

RunStatus == {"none", "running", "succeeded", "failed", "interrupted"}
Stamps == Nat
Steps == {"idle", "begin", "fetch", "page", "finish", "absences", "ask", "mark",
          "checking", "reopening", "departures", "close", "closing"}
Wishes == {"none", "blocking", "racing", "blocked", "raced", "kept"}

NewProgress == [phase |-> None, effective |-> None, offset |-> 0, last |-> None,
                wstart |-> None, wend |-> None]
NoRun == [mode |-> "incremental", status |-> "none", started |-> 0, saved |-> NewProgress]
Idle == [step |-> "idle", row |-> None, force |-> FALSE, run |-> NewProgress,
         page |-> None, todo |-> {}]

-----------------------------------------------------------------------------
(* Reading the register: GET employees/?ordering=..&offset=.. *)

Listed == {e \in Employees : register[e].status # "gone"}
Precedes(e, f, newestFirst) ==
    IF newestFirst /\ register[e].upd # register[f].upd
    THEN register[e].upd > register[f].upd
    ELSE e < f
Rank(e, newestFirst) == Cardinality({f \in Listed : Precedes(f, e, newestFirst)})
Answer(e) == [emp |-> e, status |-> register[e].status, upd |-> register[e].upd, more |-> FALSE]

(* The page at an offset; an empty one past the end. *)
PageAt(offset, newestFirst) ==
    IF offset >= Cardinality(Listed)
    THEN [emp |-> None, status |-> "gone", upd |-> 0, more |-> FALSE]
    ELSE LET e == CHOOSE x \in Listed : Rank(x, newestFirst) = offset
         IN [Answer(e) EXCEPT !.more = offset + 1 < Cardinality(Listed)]

-----------------------------------------------------------------------------
(* Files and accounts *)

Departed(f) == f.absent \/ f.status # "in"
PendingDepartures == {e \in Employees : Departed(files[e]) /\ ~files[e].handled}

(* The file after upsert_employee and the part of apply_lifecycle that
   writes it: departures are deferred, a return clears the marks. *)
AlignedFile(f, page, row) ==
    LET g == [f EXCEPT !.status = page.status, !.upd = page.upd, !.absent = FALSE, !.seen = row]
    IN IF page.status = "in" THEN [g EXCEPT !.handled = FALSE] ELSE g

(* apply_lifecycle on the account: a return clears the mark of the automatic
   closing, whether the account is reopened or not. *)
AlignedAccount(a, page, reopened) ==
    IF page.status # "in" THEN a
    ELSE [active |-> a.active \/ reopened,
          closedBySync |-> FALSE, revoked |-> FALSE, blockedSince |-> FALSE]

(* What the user row read with the file, and not locked, says of reopening. *)
AsksToReopen(e, page) ==
    /\ page.status = "in" /\ accounts[e].closedBySync
    /\ ~accounts[e].active /\ ~accounts[e].revoked

(* Mutant: the journal of the administrators is not looked at. *)
BlockedByHumanNever(e) == FALSE

(* _blocked_by_human_since *)
BlockedByHumanSince(e) == accounts[e].blockedSince

Upsert(e, page, row, reopened) ==
    /\ files' = [files EXCEPT ![e] = AlignedFile(@, page, row)]
    /\ accounts' = [accounts EXCEPT ![e] = AlignedAccount(@, page, reopened)]
    /\ wish' = [wish EXCEPT ![e] = IF page.status = "in" /\ @ = "kept" THEN "none" ELSE @]

(* A file says what the register says; a page written late undoes that. *)
InStep(e) == files[e].upd = register[e].upd /\ files[e].status = register[e].status
Undoes(page) ==
    /\ InStep(page.emp)
    /\ page.upd # register[page.emp].upd \/ page.status # register[page.emp].status

-----------------------------------------------------------------------------
(* Runs *)

MaxStamp(S) == IF S \subseteq {None} THEN None
               ELSE CHOOSE x \in S \ {None} : \A y \in S \ {None} : y <= x
SucceededMarks == {runs[r].saved.wend : r \in {x \in Rows : runs[x].status = "succeeded"}}

(* last_watermark *)
Watermark == MaxStamp(SucceededMarks \cup {archived})

HeldBy(r) == {w \in Workers : workers[w].row = r}
RunningRows == {r \in Rows : runs[r].status = "running"}

(* Mutant: a run whose process died is never declared interrupted. *)
StaleRowsNever == {}

(* The rows found RUNNING that the opening declares dead. *)
StaleRows == RunningRows
AfterSweep(r) == IF r \in StaleRows THEN "interrupted" ELSE runs[r].status
Resumable(m) == {r \in Rows : runs[r].mode = m /\ AfterSweep(r) = "interrupted"}
Latest(S) == {r \in S : \A q \in S : runs[q].started <= runs[r].started}
Closable(m, r) ==
    IF r \in Resumable(m) THEN "failed" ELSE AfterSweep(r)
FreeRows(m) == {r \in Rows : HeldBy(r) = {} /\ Closable(m, r) \in {"none", "failed", "succeeded"}}

(* Nothing else is alive; declaring a slow worker dead is a fault. *)
NothingAlive ==
    LET slow == \E r \in RunningRows : HeldBy(r) # {}
    IN /\ RunningRows \subseteq StaleRows
       /\ slow => left.slow > 0
       /\ left' = IF slow THEN [left EXCEPT !.slow = @ - 1] ELSE left

Unseen(r) == [e \in Employees |-> [files[e] EXCEPT !.seen = IF @ = r THEN None ELSE @]]

(* Workers are interchangeable: the first idle one takes the task. *)
Available(w) ==
    /\ workers[w].step = "idle"
    /\ \A x \in Workers : workers[x].step = "idle" => w <= x

Take(w, r, force, progress) ==
    workers' = [workers EXCEPT ![w] =
        [step |-> "begin", row |-> r, force |-> force, run |-> progress,
         page |-> None, todo |-> {}]]

(* _open_run, resuming the latest interrupted run of the mode. *)
ResumeRun(w, m, force) ==
    /\ Available(w)
    /\ NothingAlive
    /\ \E r \in Latest(Resumable(m)) :
         /\ runs' = [q \in Rows |-> [runs[q] EXCEPT !.status =
                         IF q = r THEN "running" ELSE Closable(m, q)]]
         /\ Take(w, r, force, runs[r].saved)
    /\ UNCHANGED <<register, clock, files, accounts, archived, wish, lost, disturbed>>

(* _open_run, from scratch: nothing to resume, or it is too old.  The row
   takes the identity of a run nobody can refer to any more. *)
StartRun(w, m, force) ==
    /\ Available(w)
    /\ NothingAlive
    /\ FreeRows(m) # {}
    /\ LET r == CHOOSE x \in FreeRows(m) : \A y \in FreeRows(m) : x <= y
           old == runs[r]
       IN /\ runs' = [q \in Rows |->
                IF q = r THEN [mode |-> m, status |-> "running", started |-> clock,
                               saved |-> NewProgress]
                ELSE [runs[q] EXCEPT !.status = Closable(m, q)]]
          /\ archived' = IF old.status = "succeeded" THEN MaxStamp({archived, old.saved.wend})
                         ELSE archived
          /\ files' = Unseen(r)
          /\ Take(w, r, force, NewProgress)
    /\ UNCHANGED <<register, clock, accounts, wish, lost, disturbed>>

OpenRun(w, m, force) == ResumeRun(w, m, force) \/ StartRun(w, m, force)

(* _checkpoint and _close write the worker's own copy of the run.  A closed
   run no other worker holds is forgotten but for its watermark. *)
Checkpoint(w, progress) ==
    runs' = [runs EXCEPT ![workers[w].row].saved = progress]
CloseAs(w, status, progress) ==
    LET r == workers[w].row
        forgotten == HeldBy(r) = {w} /\ status # "interrupted"
    IN /\ workers' = [workers EXCEPT ![w] = Idle]
       /\ IF forgotten
          THEN /\ runs' = [runs EXCEPT ![r] = NoRun]
               /\ archived' = IF status = "succeeded" THEN MaxStamp({archived, progress.wend})
                              ELSE archived
               /\ files' = Unseen(r)
          ELSE /\ runs' = [runs EXCEPT ![r].saved = progress, ![r].status = status]
               /\ UNCHANGED <<archived, files>>

(* Another worker has resumed the run and ended it meanwhile. *)
Overtaken(w) == runs[workers[w].row].status = "succeeded"

Goes(w, step, progress, page, todo) ==
    workers' = [workers EXCEPT ![w].step = step, ![w].run = progress,
                               ![w].page = page, ![w].todo = todo]

(* A file is locked while its account is being closed or reopened. *)
OnAccount == {"checking", "reopening", "closing"}
Unlocked(e) ==
    \A w \in Workers : workers[w].step \in OnAccount => workers[w].page.emp # e

(* Some worker has read the account and may write it from what it read. *)
MayOverwrite(w, e) ==
    /\ workers[w].step \in OnAccount /\ workers[w].page.emp = e
    /\ workers[w].step = "closing" => workers[w].page.active
Overwritable(e) == \E w \in Workers : MayOverwrite(w, e)

-----------------------------------------------------------------------------
(* _sync_employees *)

Mode(w) == runs[workers[w].row].mode
Started(w) == runs[workers[w].row].started
NewestFirst(w) == workers[w].run.effective = "incremental"
AfterReading(w) == IF Mode(w) = "reconcile" THEN "absences" ELSE "departures"

FullReading(progress) ==
    [progress EXCEPT !.phase = "employees", !.effective = "full", !.offset = 0, !.last = None]

BeginReading(w) ==
    LET run == workers[w].run
        wstart == IF Mode(w) = "incremental" THEN Watermark ELSE None
        fresh == [FullReading(run) EXCEPT !.wstart = wstart,
                    !.effective = IF wstart = None THEN "full" ELSE "incremental"]
    IN /\ workers[w].step = "begin"
       /\ \/ /\ run.phase = "employees_done"
             /\ Goes(w, AfterReading(w), run, None, {})
             /\ UNCHANGED runs
          \/ /\ run.phase = "employees"
             /\ Goes(w, "fetch", run, None, {})
             /\ UNCHANGED runs
          \/ /\ run.phase = None
             /\ Goes(w, "fetch", fresh, None, {})
             /\ Checkpoint(w, fresh)
       /\ UNCHANGED <<register, clock, files, accounts, archived, left, wish, lost, disturbed>>

(* _check_descending *)
OutOfOrder(run, page) ==
    run.effective = "incremental" /\ page.emp # None /\ run.last # None /\ page.upd > run.last

(* fetch_page, and _fallback_full when the order is not the one asked for. *)
Fetch(w) ==
    LET run == workers[w].run
        page == PageAt(run.offset, NewestFirst(w))
    IN /\ workers[w].step = "fetch"
       /\ IF OutOfOrder(run, page)
          THEN /\ Checkpoint(w, FullReading(run))
               /\ Goes(w, "fetch", FullReading(run), None, {})
               /\ disturbed' = (disturbed \/ Overtaken(w))
          ELSE Goes(w, "page", run, page, {}) /\ UNCHANGED <<runs, disturbed>>
       /\ UNCHANGED <<register, clock, files, accounts, archived, left, wish, lost>>

(* The watermark stops an incremental reading. *)
Reached(run, page) ==
    /\ run.effective = "incremental" /\ page.emp # None
    /\ page.upd < run.wstart - Overlap

AfterPage(run, page) ==
    [run EXCEPT !.offset = IF page.more THEN @ + 1 ELSE 0,
                !.last = IF run.effective = "incremental" /\ page.emp # None
                         THEN page.upd ELSE @]

(* The page and its checkpoint, in one transaction. *)
CommitPage(w, reopened) ==
    LET page == workers[w].page
        next == AfterPage(workers[w].run, page)
        read == [next EXCEPT !.wend = MaxStamp({@, page.upd})]
    IN /\ Upsert(page.emp, page, workers[w].row, reopened)
       /\ Checkpoint(w, read)
       /\ Goes(w, IF page.more THEN "fetch" ELSE "finish", read, None, {})
       /\ disturbed' = (disturbed \/ Overtaken(w) \/ Undoes(page))

(* The account is to be reopened: the journal is looked at first.  A block whose
   save has been committed, and not its journal entry, is overtaken. *)
LookAtJournal(w) ==
    LET e == workers[w].page.emp IN
    /\ Goes(w, "checking", workers[w].run, workers[w].page, workers[w].todo)
    /\ wish' = [wish EXCEPT ![e] = IF @ = "blocking" THEN "racing" ELSE @]
    /\ UNCHANGED <<files, accounts, runs, disturbed>>

ApplyPage(w) ==
    LET run == workers[w].run
        page == workers[w].page
        next == AfterPage(run, page)
    IN /\ workers[w].step = "page"
       /\ IF page.emp = None \/ Reached(run, page)
          THEN /\ Checkpoint(w, next)
               /\ Goes(w, IF Reached(run, page) \/ ~page.more THEN "finish" ELSE "fetch",
                       next, None, {})
               /\ disturbed' = (disturbed \/ Overtaken(w))
               /\ UNCHANGED <<files, accounts, wish>>
          ELSE /\ Unlocked(page.emp)
               /\ IF AsksToReopen(page.emp, page) THEN LookAtJournal(w) ELSE CommitPage(w, FALSE)
       /\ UNCHANGED <<register, clock, archived, left, lost>>

(* Mutant: a full reading leaves the greatest stamp it saw. *)
WatermarkOfReadingUnbounded(w) == workers[w].run.wend

(* A full reading is only good up to its own beginning. *)
WatermarkOfReading(w) ==
    LET wend == workers[w].run.wend
    IN IF wend = None \/ NewestFirst(w) \/ wend <= Started(w) THEN wend ELSE Started(w)

FinishReading(w) ==
    LET done == [workers[w].run EXCEPT !.phase = "employees_done", !.offset = 0, !.last = None,
                                       !.wend = WatermarkOfReading(w)]
    IN /\ workers[w].step = "finish"
       /\ Checkpoint(w, done)
       /\ Goes(w, AfterReading(w), done, None, {})
       /\ UNCHANGED <<register, clock, files, accounts, archived, left, wish, lost, disturbed>>

-----------------------------------------------------------------------------
(* _detect_absences *)

SeenBy(row) == {e \in Employees : ~files[e].absent /\ files[e].seen = row}
UnseenBy(row) == {e \in Employees : ~files[e].absent /\ files[e].seen # row}

TooMany(S) == Cardinality(S) > Guard

DetectAbsences(w) ==
    LET row == workers[w].row
        candidates == UnseenBy(row)
        aborted == ~workers[w].force /\ candidates # {}
                     /\ (SeenBy(row) = {} \/ TooMany(candidates))
    IN /\ workers[w].step = "absences"
       /\ IF aborted
          THEN CloseAs(w, "failed", workers[w].run)
          ELSE /\ Goes(w, IF candidates = {} THEN "departures" ELSE "ask",
                       workers[w].run, None, candidates)
               /\ UNCHANGED <<runs, archived, files>>
       /\ UNCHANGED <<register, clock, accounts, left, wish, lost, disturbed>>

(* Mutant: a file the reading did not show is held to be absent. *)
RecheckTrusting(e) == [Answer(e) EXCEPT !.status = "gone"]

(* get_employee: every candidate is asked for by itself. *)
Recheck(e) == Answer(e)

AskEmployee(w) ==
    /\ workers[w].step = "ask"
    /\ \E e \in workers[w].todo :
         Goes(w, "mark", workers[w].run, Recheck(e), workers[w].todo \ {e})
    /\ UNCHANGED <<register, clock, files, accounts, runs, archived, left, wish, lost, disturbed>>

(* Mutant: any answer is taken for a description of the employee. *)
MissingNever(page) == FALSE

(* 404: the register does not know the employee. *)
Missing(page) == page.status = "gone"

(* The candidate turns out to be present. *)
CommitPresence(w, reopened) ==
    LET page == workers[w].page
    IN /\ Upsert(page.emp, page, workers[w].row, reopened)
       /\ Checkpoint(w, workers[w].run)
       /\ Goes(w, IF workers[w].todo = {} THEN "departures" ELSE "ask",
               workers[w].run, None, workers[w].todo)
       /\ disturbed' = (disturbed \/ Undoes(page))

MarkAbsence(w) ==
    LET page == workers[w].page
        e == page.emp
        settled == files[e].absent \/ files[e].seen = workers[w].row
    IN /\ workers[w].step = "mark"
       /\ Unlocked(e)
       /\ CASE settled \/ Missing(page) ->
                 /\ Goes(w, IF workers[w].todo = {} THEN "departures" ELSE "ask",
                         workers[w].run, None, workers[w].todo)
                 /\ IF settled THEN UNCHANGED <<files, runs>>
                    ELSE /\ files' = [files EXCEPT ![e].absent = TRUE]
                         /\ Checkpoint(w, workers[w].run)
                 /\ UNCHANGED <<accounts, wish, disturbed>>
            [] OTHER ->
                 IF AsksToReopen(e, page) THEN LookAtJournal(w) ELSE CommitPresence(w, FALSE)
       /\ UNCHANGED <<register, clock, archived, left, lost>>

-----------------------------------------------------------------------------
(* The reopening of an account, inside the transaction of a page or of a
   presence: the journal, then the write and the commit. *)

Commit(w, reopened) ==
    IF workers[w].run.phase = "employees" THEN CommitPage(w, reopened)
    ELSE CommitPresence(w, reopened)

CheckJournal(w) ==
    /\ workers[w].step = "checking"
    /\ IF BlockedByHumanSince(workers[w].page.emp) THEN Commit(w, FALSE)
       ELSE /\ Goes(w, "reopening", workers[w].run, workers[w].page, workers[w].todo)
            /\ UNCHANGED <<files, accounts, runs, wish, disturbed>>
    /\ UNCHANGED <<register, clock, archived, left, lost>>

ReopenAccount(w) ==
    /\ workers[w].step = "reopening"
    /\ Commit(w, TRUE)
    /\ UNCHANGED <<register, clock, archived, left, lost>>

-----------------------------------------------------------------------------
(* _apply_departures *)

ListDepartures(w) ==
    /\ workers[w].step = "departures"
    /\ IF ~workers[w].force /\ TooMany(PendingDepartures)
       THEN CloseAs(w, "failed", workers[w].run)
       ELSE /\ Goes(w, "close", workers[w].run, None, PendingDepartures)
            /\ UNCHANGED <<runs, archived, files>>
    /\ UNCHANGED <<register, clock, accounts, left, wish, lost, disturbed>>

(* Mutant: the list made before the lock is trusted. *)
StillDepartedUnread(e) == TRUE

StillDeparted(e) == Departed(files[e]) /\ ~files[e].handled

(* The file is locked and read again, with the account, which is not locked. *)
LockDeparture(w) ==
    /\ workers[w].step = "close"
    /\ \E e \in workers[w].todo :
         /\ Unlocked(e)
         /\ IF StillDeparted(e)
            THEN Goes(w, "closing", workers[w].run,
                      [emp |-> e, active |-> accounts[e].active], workers[w].todo \ {e})
            ELSE Goes(w, "close", workers[w].run, None, workers[w].todo \ {e})
    /\ UNCHANGED <<register, clock, files, accounts, runs, archived, left, wish, lost, disturbed>>

(* _apply_departure, from what was read. *)
CloseAccount(w) ==
    LET e == workers[w].page.emp
    IN /\ workers[w].step = "closing"
       /\ accounts' = IF workers[w].page.active
                      THEN [accounts EXCEPT ![e] =
                              [active |-> FALSE, closedBySync |-> TRUE, revoked |-> FALSE,
                               blockedSince |-> FALSE]]
                      ELSE accounts
       /\ files' = [files EXCEPT ![e].handled = TRUE]
       /\ Goes(w, "close", workers[w].run, None, workers[w].todo)
       /\ UNCHANGED <<register, clock, runs, archived, left, wish, lost, disturbed>>

Succeed(w) ==
    /\ workers[w].step = "close" /\ workers[w].todo = {}
    /\ CloseAs(w, "succeeded", workers[w].run)
    /\ UNCHANGED <<register, clock, accounts, left, wish, lost, disturbed>>

-----------------------------------------------------------------------------
(* What goes wrong *)

Fails(w) == left.failures > 0 /\ left' = [left EXCEPT !.failures = @ - 1]
OnTheNetwork(w) == workers[w].step \in {"begin", "fetch", "ask"}

(* ShieldUnavailable: the run may be resumed.  Any other error: it may not. *)
FailRun(w) ==
    /\ OnTheNetwork(w) /\ Fails(w)
    /\ \E status \in {"interrupted", "failed"} : CloseAs(w, status, workers[w].run)
    /\ UNCHANGED <<register, clock, accounts, wish, lost, disturbed>>

(* The register refuses the ordering (HTTP 400). *)
RefuseOrdering(w) ==
    /\ workers[w].step = "fetch" /\ NewestFirst(w) /\ Fails(w)
    /\ Checkpoint(w, FullReading(workers[w].run))
    /\ Goes(w, "fetch", FullReading(workers[w].run), None, {})
    /\ disturbed' = (disturbed \/ Overtaken(w))
    /\ UNCHANGED <<register, clock, files, accounts, archived, wish, lost>>

(* The process stops: an open transaction is lost, the row stays RUNNING. *)
Crash(w) ==
    /\ workers[w].step # "idle" /\ Fails(w)
    /\ workers' = [workers EXCEPT ![w] = Idle]
    /\ UNCHANGED <<register, clock, files, accounts, runs, archived, wish, lost, disturbed>>

-----------------------------------------------------------------------------
(* The register and the administrators *)

Reading(p) == p.phase = "employees" /\ p.offset > 0
HoldsPage(x) == x.step \in {"page", "checking", "reopening"} /\ x.run.phase = "employees"
MidReading ==
    \/ \E w \in Workers : Reading(workers[w].run) \/ HoldsPage(workers[w])
    \/ \E r \in Rows : runs[r].status \in {"running", "interrupted"} /\ Reading(runs[r].saved)

EditRegister(e, status) ==
    /\ left.edits > 0 /\ left' = [left EXCEPT !.edits = @ - 1]
    /\ status = "gone" => register[e].status # "gone"
    /\ clock' = clock + 1
    /\ \E late \in 0..Skew :
         register' = [register EXCEPT ![e] =
             [status |-> status,
              upd |-> IF status = "gone" \/ clock + 1 - late < 0 THEN 0 ELSE clock + 1 - late]]
    /\ lost' = IF status = "gone" THEN lost \cup {e} ELSE lost
    /\ disturbed' = (disturbed \/ (MidReading /\ (register'[e].upd < register[e].upd \/ status = "gone")))
    /\ UNCHANGED <<files, accounts, runs, archived, workers, wish>>

(* UserViewSet.block: the user is saved, which revokes the sessions of an open
   account, then the journal is written; each is committed by itself, and the
   request may die in between.  One request at a time on an account. *)
SaveBlock(e) ==
    /\ e \in left.managed /\ wish[e] \notin {"blocking", "racing"}
    /\ accounts' = [accounts EXCEPT ![e].active = FALSE,
                      ![e].revoked = @ \/ (accounts[e].active /\ accounts[e].closedBySync)]
    /\ wish' = [wish EXCEPT ![e] = IF Overwritable(e) THEN "racing" ELSE "blocking"]
    /\ UNCHANGED <<register, clock, files, runs, archived, workers, left, lost, disturbed>>

RecordBlock(e) ==
    /\ wish[e] \in {"blocking", "racing"}
    /\ accounts' = [accounts EXCEPT ![e].blockedSince = accounts[e].closedBySync]
    /\ wish' = [wish EXCEPT ![e] = IF @ = "blocking" THEN "blocked" ELSE "raced"]
    /\ UNCHANGED <<register, clock, files, runs, archived, workers, left, lost, disturbed>>

UnblockUser(e) ==
    /\ e \in left.managed /\ ~accounts[e].active
    /\ accounts' = [accounts EXCEPT ![e].active = TRUE]
    /\ wish' = [wish EXCEPT ![e] = "kept"]
    /\ UNCHANGED <<register, clock, files, runs, archived, workers, left, lost, disturbed>>

-----------------------------------------------------------------------------
(* Specification *)

Init ==
    /\ register = [e \in Employees |-> [status |-> "in", upd |-> 0]]
    /\ clock = 0
    /\ files = [e \in Employees |->
         [status |-> "in", upd |-> 0, absent |-> FALSE, seen |-> None, handled |-> FALSE]]
    /\ accounts = [e \in Employees |->
         [active |-> TRUE, closedBySync |-> FALSE, revoked |-> FALSE, blockedSince |-> FALSE]]
    /\ runs = [r \in Rows |-> NoRun]
    /\ archived \in {None, 0}
    /\ workers = [w \in Workers |-> Idle]
    /\ left \in Scenarios
    /\ wish = [e \in Employees |-> "none"]
    /\ lost = {}
    /\ disturbed = FALSE

WorkerStep(w) ==
    \/ BeginReading(w) \/ Fetch(w) \/ ApplyPage(w) \/ FinishReading(w)
    \/ DetectAbsences(w) \/ AskEmployee(w) \/ MarkAbsence(w)
    \/ CheckJournal(w) \/ ReopenAccount(w)
    \/ ListDepartures(w) \/ LockDeparture(w) \/ CloseAccount(w) \/ Succeed(w)

Next ==
    \/ \E w \in Workers :
         \/ \E m \in left.modes, force \in left.forced : OpenRun(w, m, force)
         \/ WorkerStep(w)
         \/ FailRun(w) \/ RefuseOrdering(w) \/ Crash(w)
    \/ \E e \in Employees :
         \/ \E status \in {"in", "out", "gone"} : EditRegister(e, status)
         \/ SaveBlock(e) \/ RecordBlock(e) \/ UnblockUser(e)

(* A worker carries on with what it has begun, and the beat opens a
   reconciliation again and again (reconcile_due catches up missed nights),
   without ever forcing it. *)
Fairness ==
    /\ \A w \in Workers : WF_vars(WorkerStep(w))
    /\ SF_vars(\E w \in Workers : OpenRun(w, "reconcile", FALSE))

Spec == Init /\ [][Next]_vars
FairSpec == Spec /\ Fairness

-----------------------------------------------------------------------------
(* Properties *)

Progresses ==
    [phase : {None, "employees", "employees_done"}, effective : {None, "incremental", "full"},
     offset : 0..Cardinality(Employees), last : Stamps \cup {None},
     wstart : Stamps \cup {None}, wend : Stamps \cup {None}]

(* Every file, account and run has a value its table accepts, and a worker
   at work holds a row. *)
ShieldTypeOK ==
    /\ register \in [Employees -> [status : {"in", "out", "gone"}, upd : Stamps]]
    /\ files \in [Employees -> [status : {"in", "out"}, upd : Stamps, absent : BOOLEAN,
                                seen : Rows \cup {None}, handled : BOOLEAN]]
    /\ accounts \in [Employees ->
         [active : BOOLEAN, closedBySync : BOOLEAN, revoked : BOOLEAN, blockedSince : BOOLEAN]]
    /\ runs \in [Rows -> [mode : Modes, status : RunStatus, started : Stamps, saved : Progresses]]
    /\ archived \in Stamps \cup {None}
    /\ clock \in Stamps /\ left \in Budget
    /\ \A w \in Workers :
         /\ workers[w].step \in Steps /\ workers[w].run \in Progresses
         /\ workers[w].row \in IF workers[w].step = "idle" THEN {None} ELSE Rows
         /\ workers[w].todo \subseteq Employees

(* An account an administrator has blocked stays closed until an administrator
   opens it, whatever the register says in between and whatever runs overlap,
   fail or resume, unless the block itself, from its save to its journal entry,
   overlapped a worker that had read the account and was about to write it
   (_blocked_by_human_since, sessions_revoked_at, user_deactivated_by_sync_at). *)
HumanBlockStands == \A e \in Employees : wish[e] = "blocked" => ~accounts[e].active

(* An employee whose file differs from the register's carries a stamp the
   next incremental reading goes back to: no update is left behind by the
   watermark, whichever readings overlapped the edits, were interrupted,
   resumed or fell back.  Three events escape the watermark, and only the
   reconciliation repairs them (AccountsFollowRegister): a file that leaves the
   pages of a reading under way, or goes down among them; a slow worker that
   writes an old page; one that checkpoints a run another has ended. *)
StaleFilesWillBeRead ==
    ~disturbed => \A e \in Listed :
        ~InStep(e) => Watermark = None \/ register[e].upd >= Watermark - Overlap

(* No file is marked absent of an employee the register has always had,
   even when the pages skipped it. *)
AbsencesVerified == \A e \in Employees : files[e].absent => e \in lost

(* The synchronisation closes an account only of an employee whose file
   says, at that moment, that they have left. *)
OnlyDepartedAreClosed ==
    [][\A e \in Employees :
         (~accounts[e].closedBySync /\ accounts'[e].closedBySync) => Departed(files[e])]_vars

(* The two safeguards that wait for an administrator. *)
Held ==
    \/ TooMany(PendingDepartures)
    \/ TooMany({e \in Employees \ Listed : ~files[e].absent})
    \/ Listed = {}

(* The file says what the register says, and the account follows: closed for
   who left, unless an administrator keeps it; open for who works here,
   unless an administrator has blocked it. *)
Settled(e) ==
    /\ IF register[e].status = "gone" THEN files[e].absent
       ELSE ~files[e].absent /\ files[e].status = register[e].status /\ files[e].upd = register[e].upd
    /\ IF register[e].status = "in" THEN accounts[e].active \/ wish[e] \notin {"none", "kept"}
       ELSE ~accounts[e].active \/ wish[e] = "kept"

(* Once the register and the network are quiet, files and accounts end up
   following the register, through interrupted, resumed, overtaken and
   failed runs, whatever they skipped or overwrote: unless a safeguard
   holds the departures for an administrator. *)
AccountsFollowRegister == <>[](Held \/ \A e \in Employees : Settled(e))

-----------------------------------------------------------------------------
(* What the documentation says and the code does not hold to *)

(* No machine opens an account an administrator has blocked, at whatever moment
   they did ("un compte bloqué par un humain n'est jamais rouvert par une
   machine", lifecycle.py:13). *)
NeverReopenedByMachine ==
    \A e \in Employees : wish[e] \in {"blocked", "raced"} => ~accounts[e].active
==============================================================================
