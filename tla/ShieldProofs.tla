----------------------------- MODULE ShieldProofs -----------------------------
(***************************************************************************)
(* What the synchronisation may do to files and accounts, whatever the     *)
(* register answers and whichever runs overlap, fail, die or are resumed;  *)
(* then the types of what is read, saved and carried, and what the         *)
(* watermark of the runs owes to the files that differ from the register.  *)
(***************************************************************************)
EXTENDS ShieldSync, SetLemmas

IsWorker(x) == \E s, r, f, n, p, t :
    x = [step |-> s, row |-> r, force |-> f, run |-> n, page |-> p, todo |-> t]

FileFields == {"status", "upd", "absent", "seen", "handled"}
IsFile(x) == DOMAIN x = FileFields /\ x = [k \in FileFields |-> x[k]]

Accounts == [active : BOOLEAN, closedBySync : BOOLEAN, revoked : BOOLEAN, blockedSince : BOOLEAN]

Tables ==
    /\ register = [e \in Employees |-> register[e]]
    /\ wish = [e \in Employees |-> wish[e]]
    /\ files = [e \in Employees |-> files[e]]
    /\ \A e \in Employees : IsFile(files[e])
    /\ accounts \in [Employees -> Accounts]
    /\ workers = [w \in Workers |-> workers[w]]
    /\ \A w \in Workers : IsWorker(workers[w]) /\ workers[w].todo \subseteq Employees

GoneAreLost == \A e \in Employees : register[e].status = "gone" => e \in lost

(* A worker marks an absence on the register's own word, and closes the
   account of a file that still says its employee has left. *)
MarksSound == \A w \in Workers :
    workers[w].step = "mark" /\ workers[w].page.status = "gone" => workers[w].page.emp \in lost

ClosingsSound == \A w \in Workers : workers[w].step = "closing" =>
    workers[w].page.emp \in Employees /\ Departed(files[workers[w].page.emp])

(* One worker at a time closes or reopens an account. *)
OneOnAccount == \A w, x \in Workers :
    /\ workers[w].step \in OnAccount /\ workers[x].step \in OnAccount
    /\ workers[w].page.emp = workers[x].page.emp
    => w = x

(* An account an administrator blocks is closed as soon as the save, and the
   mark of an automatic closing comes with the block in the journal. *)
BlocksKnown == \A e \in Employees :
    /\ wish[e] \in {"blocking", "blocked"} => ~accounts[e].active
    /\ wish[e] = "blocked" => (accounts[e].closedBySync => accounts[e].blockedSince)

(* What a worker may be doing on an account under a block that raced nobody:
   leave it as it found it, or look at a journal that holds the block. *)
Wary(x, account, decision) ==
    /\ decision = "blocking" => x.step = "closing" /\ ~x.page.active
    /\ decision = "blocked" => \/ x.step = "closing" /\ ~x.page.active
                               \/ x.step = "checking" /\ account.closedBySync

BlocksSeen == \A w \in Workers :
    /\ workers[w].step \in OnAccount
    /\ workers[w].page.emp \in Employees
    => Wary(workers[w], accounts[workers[w].page.emp], wish[workers[w].page.emp])

ShieldInv ==
    /\ Tables /\ GoneAreLost /\ AbsencesVerified /\ MarksSound
    /\ ClosingsSound /\ OneOnAccount /\ BlocksKnown /\ BlocksSeen

-----------------------------------------------------------------------------
(* The tables *)

LEMMA GoesTo ==
    ASSUME Tables, NEW w \in Workers, NEW step, NEW progress, NEW page, NEW todo,
           Goes(w, step, progress, page, todo)
    PROVE  /\ workers' = [x \in Workers |-> workers'[x]]
           /\ \A x \in Workers : x # w => workers'[x] = workers[x]
           /\ workers'[w] = [step |-> step, row |-> workers[w].row, force |-> workers[w].force,
                             run |-> progress, page |-> page, todo |-> todo]
<1>1. PICK s, r, f, n, p, t :
        workers[w] = [step |-> s, row |-> r, force |-> f, run |-> n, page |-> p, todo |-> t]
  BY DEF Tables, IsWorker
<1>2. /\ workers = [x \in Workers |-> workers[x]]
      /\ workers' = [workers EXCEPT ![w].step = step, ![w].run = progress,
                                    ![w].page = page, ![w].todo = todo]
  BY DEF Tables, Goes
<1> QED BY <1>1, <1>2

(* The steps at which a worker acts upon what it has read of one employee. *)
Holding == {"mark", "checking", "reopening", "closing"}

(* The files keep what the rules look at. *)
Marks ==
    /\ files' = [e \in Employees |-> files'[e]]
    /\ \A e \in Employees : /\ IsFile(files'[e])
                            /\ files'[e].absent = files[e].absent
                            /\ files'[e].status = files[e].status

(* A step of a worker that neither marks nor closes, and writes nothing the
   others rely on. *)
Silent(w) ==
    /\ workers' = [x \in Workers |-> workers'[x]]
    /\ \A x \in Workers : x # w => workers'[x] = workers[x]
    /\ IsWorker(workers'[w]) /\ workers'[w].todo \subseteq Employees
    /\ workers'[w].step \notin Holding
    /\ Marks
    /\ UNCHANGED <<register, accounts, wish, lost>>

LEMMA SilentSound ==
    ASSUME ShieldInv, NEW w \in Workers, Silent(w)
    PROVE  ShieldInv'
<1>1. Tables'
  BY DEF ShieldInv, Tables, Silent, Marks
<1>2. GoneAreLost' /\ AbsencesVerified'
  BY DEF ShieldInv, Tables, GoneAreLost, AbsencesVerified, Silent, Marks
<1>3. ASSUME NEW x \in Workers, workers'[x].step \in Holding
      PROVE  workers'[x] = workers[x]
  BY <1>3 DEF Silent
<1>4. MarksSound'
  BY <1>3 DEF ShieldInv, MarksSound, Silent, Holding
<1>5. ClosingsSound'
  BY <1>3 DEF ShieldInv, ClosingsSound, Silent, Marks, Departed, Holding
<1>6. OneOnAccount'
  BY <1>3 DEF ShieldInv, OneOnAccount, OnAccount, Holding
<1>7. BlocksKnown' /\ BlocksSeen'
  <2>1. BlocksKnown'
    BY DEF ShieldInv, BlocksKnown, Silent
  <2>2. BlocksSeen'
    BY <1>3 DEF ShieldInv, BlocksSeen, Silent, OnAccount, Holding
  <2> QED BY <2>1, <2>2
<1> QED BY <1>1, <1>2, <1>4, <1>5, <1>6, <1>7 DEF ShieldInv

LEMMA MarksKept ==
    ASSUME Tables
    PROVE  /\ UNCHANGED files => Marks
           /\ \A r : files' = Unseen(r) => Marks
<1>1. UNCHANGED files => Marks
  BY DEF Tables, Marks
<1>2. ASSUME NEW r, files' = Unseen(r) PROVE Marks
  <2>1. ASSUME NEW e \in Employees
        PROVE  /\ IsFile(files'[e])
               /\ files'[e].absent = files[e].absent
               /\ files'[e].status = files[e].status
    <3> DEFINE seen == IF files[e].seen = r THEN None ELSE files[e].seen
    <3>1. IsFile(files[e])
      BY DEF Tables
    <3>2. files'[e] = [files[e] EXCEPT !.seen = seen]
      BY <1>2 DEF Unseen
    <3> HIDE DEF seen
    <3> QED BY <3>1, <3>2 DEF IsFile, FileFields
  <2> QED BY <1>2, <2>1 DEF Marks, Unseen
<1> QED BY <1>1, <1>2
-----------------------------------------------------------------------------
(* The silent steps *)

LEMMA GoesSilently ==
    ASSUME ShieldInv, NEW w \in Workers, NEW step, NEW progress, NEW page, NEW todo,
           Goes(w, step, progress, page, todo),
           step \notin Holding, todo \subseteq Employees,
           UNCHANGED <<files, register, accounts, wish, lost>>
    PROVE  ShieldInv'
<1>1. Tables
  BY DEF ShieldInv
<1>2. /\ workers' = [x \in Workers |-> workers'[x]]
      /\ \A x \in Workers : x # w => workers'[x] = workers[x]
      /\ workers'[w] = [step |-> step, row |-> workers[w].row, force |-> workers[w].force,
                        run |-> progress, page |-> page, todo |-> todo]
  BY <1>1, GoesTo
<1>3. IsWorker(workers'[w]) /\ workers'[w].todo = todo /\ workers'[w].step = step
  <2>1. IsWorker(workers'[w])
    BY <1>2 DEF IsWorker
  <2> QED BY <1>2, <2>1
<1>4. Marks
  BY <1>1, MarksKept
<1> QED BY <1>2, <1>3, <1>4, SilentSound DEF Silent

(* A worker that lets go of its run, or takes one. *)
LEMMA ReleasesSilently ==
    ASSUME ShieldInv, NEW w \in Workers, NEW row, workers' = [workers EXCEPT ![w] = row],
           IsWorker(row), row.todo = {}, row.step \in {"idle", "begin"},
           Marks, UNCHANGED <<register, accounts, wish, lost>>
    PROVE  ShieldInv'
<1>1. workers = [x \in Workers |-> workers[x]]
  BY DEF ShieldInv, Tables
<1>2. /\ workers' = [x \in Workers |-> workers'[x]]
      /\ \A x \in Workers : x # w => workers'[x] = workers[x]
      /\ workers'[w] = row
  BY <1>1
<1> QED BY <1>2, SilentSound DEF Silent, Holding

LEMMA IdleWorker == IsWorker(Idle) /\ Idle.todo = {} /\ Idle.step = "idle"
<1>1. IsWorker(Idle)
  BY DEF Idle, IsWorker
<1> QED BY <1>1 DEF Idle

LEMMA CloseAsSound ==
    ASSUME ShieldInv, NEW w \in Workers, NEW end, NEW progress, CloseAs(w, end, progress),
           UNCHANGED <<register, accounts, wish, lost>>
    PROVE  ShieldInv'
<1>1. Marks
  BY MarksKept DEF CloseAs, ShieldInv
<1>2. workers' = [workers EXCEPT ![w] = Idle]
  BY DEF CloseAs
<1> QED BY <1>1, <1>2, IdleWorker, ReleasesSilently

LEMMA OpenRunSound ==
    ASSUME ShieldInv, NEW w \in Workers, NEW m, NEW force, OpenRun(w, m, force)
    PROVE  ShieldInv'
<1>1. ASSUME NEW r, NEW progress, Take(w, r, force, progress), Marks,
             UNCHANGED <<register, accounts, wish, lost>>
      PROVE  ShieldInv'
  <2> DEFINE row == [step |-> "begin", row |-> r, force |-> force, run |-> progress,
                     page |-> None, todo |-> {}]
  <2>1. workers' = [workers EXCEPT ![w] = row]
    BY <1>1 DEF Take
  <2>2. IsWorker(row) /\ row.todo = {} /\ row.step = "begin"
    <3>1. IsWorker(row)
      BY DEF IsWorker
    <3> QED BY <3>1
  <2> HIDE DEF row
  <2> QED BY <2>1, <2>2, <1>1, ReleasesSilently
<1>2. CASE ResumeRun(w, m, force)
  <2>1. Marks
    BY <1>2, MarksKept DEF ResumeRun, ShieldInv
  <2> QED BY <1>1, <1>2, <2>1 DEF ResumeRun
<1>3. CASE StartRun(w, m, force)
  <2>1. Marks
    BY <1>3, MarksKept DEF StartRun, ShieldInv
  <2> QED BY <1>1, <1>3, <2>1 DEF StartRun
<1> QED BY <1>2, <1>3 DEF OpenRun

LEMMA ReadingSound ==
    ASSUME ShieldInv, NEW w \in Workers,
           BeginReading(w) \/ Fetch(w) \/ FinishReading(w) \/ RefuseOrdering(w)
    PROVE  ShieldInv'
<1>1. CASE BeginReading(w)
  <2> SUFFICES ASSUME NEW step \in {"absences", "departures", "fetch"}, NEW progress,
                      Goes(w, step, progress, None, {})
               PROVE  ShieldInv'
    BY <1>1 DEF BeginReading, AfterReading
  <2> QED BY <1>1, GoesSilently DEF BeginReading, Holding
<1>2. CASE Fetch(w)
  <2> SUFFICES ASSUME NEW step \in {"fetch", "page"}, NEW progress, NEW page,
                      Goes(w, step, progress, page, {})
               PROVE  ShieldInv'
    BY <1>2 DEF Fetch
  <2> QED BY <1>2, GoesSilently DEF Fetch, Holding
<1>3. CASE FinishReading(w)
  <2> SUFFICES ASSUME NEW step \in {"absences", "departures"}, NEW progress,
                      Goes(w, step, progress, None, {})
               PROVE  ShieldInv'
    BY <1>3 DEF FinishReading, AfterReading
  <2> QED BY <1>3, GoesSilently DEF FinishReading, Holding
<1>4. CASE RefuseOrdering(w)
  BY <1>4, GoesSilently DEF RefuseOrdering, Holding
<1> QED BY <1>1, <1>2, <1>3, <1>4

LEMMA EndingSound ==
    ASSUME ShieldInv, NEW w \in Workers,
           DetectAbsences(w) \/ ListDepartures(w) \/ Succeed(w) \/ FailRun(w) \/ Crash(w)
    PROVE  ShieldInv'
<1>1. CASE DetectAbsences(w)
  <2>1. UnseenBy(workers[w].row) \subseteq Employees
    BY DEF UnseenBy
  <2> QED BY <1>1, <2>1, CloseAsSound, GoesSilently DEF DetectAbsences, Holding
<1>2. CASE ListDepartures(w)
  <2>1. PendingDepartures \subseteq Employees
    BY DEF PendingDepartures
  <2> QED BY <1>2, <2>1, CloseAsSound, GoesSilently DEF ListDepartures, Holding
<1>3. CASE Succeed(w)
  BY <1>3, CloseAsSound DEF Succeed
<1>4. CASE FailRun(w)
  BY <1>4, CloseAsSound DEF FailRun
<1>5. CASE Crash(w)
  <2>1. Marks
    BY <1>5, MarksKept DEF Crash, ShieldInv
  <2> QED BY <1>5, <2>1, IdleWorker, ReleasesSilently DEF Crash
<1> QED BY <1>1, <1>2, <1>3, <1>4, <1>5
-----------------------------------------------------------------------------
(* The steps that write files and accounts *)

LEMMA UpsertedFile ==
    ASSUME Tables, NEW e \in Employees, NEW page, NEW row,
           files' = [files EXCEPT ![e] = AlignedFile(@, page, row)]
    PROVE  /\ files' = [x \in Employees |-> files'[x]]
           /\ \A x \in Employees : IsFile(files'[x]) /\ (x # e => files'[x] = files[x])
           /\ files'[e].absent = FALSE
<1>1. files = [x \in Employees |-> files[x]] /\ \A x \in Employees : IsFile(files[x])
  BY DEF Tables
<1>2. files'[e] = AlignedFile(files[e], page, row) /\ files' = [x \in Employees |-> files'[x]]
  BY <1>1
<1> DEFINE no == FALSE
           g == [files[e] EXCEPT !.status = page.status, !.upd = page.upd, !.absent = no, !.seen = row]
<1>3. no = FALSE
  OBVIOUS
<1>4. files'[e] = IF page.status = "in" THEN [g EXCEPT !.handled = no] ELSE g
  BY <1>2 DEF AlignedFile
<1> HIDE DEF no
<1>5. IsFile(g) /\ g.absent = no
  BY <1>1 DEF IsFile, FileFields
<1> HIDE DEF g
<1>6. IsFile([g EXCEPT !.handled = no]) /\ [g EXCEPT !.handled = no].absent = no
  BY <1>5 DEF IsFile, FileFields
<1>7. IsFile(files'[e]) /\ files'[e].absent = FALSE
  BY <1>3, <1>4, <1>5, <1>6
<1> QED BY <1>1, <1>2, <1>7

LEMMA UpsertedAccount ==
    ASSUME Tables, NEW e \in Employees, NEW page, NEW reopened \in BOOLEAN,
           accounts' = [accounts EXCEPT ![e] = AlignedAccount(@, page, reopened)],
           wish' = [wish EXCEPT ![e] = IF page.status = "in" /\ @ = "kept" THEN "none" ELSE @]
    PROVE  /\ accounts' \in [Employees -> Accounts]
           /\ \A x \in Employees : x # e => accounts'[x] = accounts[x] /\ wish'[x] = wish[x]
           /\ wish' = [x \in Employees |-> wish'[x]]
           /\ wish'[e] \in {"blocking", "blocked"} => wish'[e] = wish[e]
           /\ ~accounts[e].closedBySync => ~accounts'[e].closedBySync
           /\ ~reopened /\ ~accounts[e].active => ~accounts'[e].active
           /\ accounts'[e].closedBySync => accounts'[e] = accounts[e]
<1>1. accounts \in [Employees -> Accounts] /\ wish = [x \in Employees |-> wish[x]]
  BY DEF Tables
<1>2. /\ \A x \in Employees : x # e => accounts'[x] = accounts[x]
      /\ \A x \in Employees : x # e => wish'[x] = wish[x]
      /\ wish' = [x \in Employees |-> wish'[x]]
      /\ accounts'[e] = AlignedAccount(accounts[e], page, reopened)
      /\ wish'[e] = IF page.status = "in" /\ wish[e] = "kept" THEN "none" ELSE wish[e]
  BY <1>1
<1>3. AlignedAccount(accounts[e], page, reopened) \in Accounts
  BY <1>1 DEF AlignedAccount, Accounts
<1>4. wish'[e] \in {"blocking", "blocked"} => wish'[e] = wish[e]
  BY <1>2
<1>5. ~accounts[e].closedBySync => ~accounts'[e].closedBySync
  BY <1>1, <1>2 DEF AlignedAccount
<1>6. ~reopened /\ ~accounts[e].active => ~accounts'[e].active
  BY <1>1, <1>2 DEF AlignedAccount
<1>7. accounts'[e].closedBySync => accounts'[e] = accounts[e]
  BY <1>1, <1>2 DEF AlignedAccount
<1> QED BY <1>1, <1>2, <1>3, <1>4, <1>5, <1>6, <1>7

(* A page is written on a file no other worker has locked, and an account is
   reopened only if no block of it stands. *)
LEMMA UpsertSound ==
    ASSUME ShieldInv, NEW w \in Workers, NEW e \in Employees, NEW page, NEW row,
           NEW reopened \in BOOLEAN, NEW step, NEW progress, NEW todo,
           \A x \in Workers : x # w /\ workers[x].step \in OnAccount => workers[x].page.emp # e,
           reopened => wish[e] \notin {"blocking", "blocked"},
           Upsert(e, page, row, reopened),
           Goes(w, step, progress, None, todo), step \notin Holding,
           todo \subseteq Employees, UNCHANGED <<register, lost>>
    PROVE  /\ ShieldInv'
           /\ \A x \in Employees : ~accounts[x].closedBySync => ~accounts'[x].closedBySync
<1>0. Tables
  BY DEF ShieldInv
<1>1. /\ files' = [x \in Employees |-> files'[x]]
      /\ \A x \in Employees : IsFile(files'[x]) /\ (x # e => files'[x] = files[x])
      /\ files'[e].absent = FALSE
  BY <1>0, UpsertedFile DEF Upsert
<1>2. /\ accounts' \in [Employees -> Accounts]
      /\ \A x \in Employees : x # e => accounts'[x] = accounts[x] /\ wish'[x] = wish[x]
      /\ wish' = [x \in Employees |-> wish'[x]]
      /\ wish'[e] \in {"blocking", "blocked"} => wish'[e] = wish[e]
      /\ ~accounts[e].closedBySync => ~accounts'[e].closedBySync
      /\ ~reopened /\ ~accounts[e].active => ~accounts'[e].active
      /\ accounts'[e].closedBySync => accounts'[e] = accounts[e]
  BY <1>0, UpsertedAccount DEF Upsert
<1>3. /\ workers' = [x \in Workers |-> workers'[x]]
      /\ \A x \in Workers : x # w => workers'[x] = workers[x]
      /\ workers'[w] = [step |-> step, row |-> workers[w].row, force |-> workers[w].force,
                        run |-> progress, page |-> None, todo |-> todo]
  BY <1>0, GoesTo
<1>4. IsWorker(workers'[w]) /\ workers'[w].todo = todo /\ workers'[w].step = step
  <2>1. IsWorker(workers'[w])
    BY <1>3 DEF IsWorker
  <2> QED BY <1>3, <2>1
<1>5. ASSUME NEW x \in Workers, workers'[x].step \in Holding
      PROVE  x # w /\ workers'[x] = workers[x]
  BY <1>3, <1>4, <1>5
<1>6. Tables'
  BY <1>0, <1>1, <1>2, <1>3, <1>4 DEF Tables
<1>7. GoneAreLost' /\ AbsencesVerified'
  BY <1>1 DEF ShieldInv, GoneAreLost, AbsencesVerified
<1>8. MarksSound' /\ OneOnAccount'
  BY <1>5 DEF ShieldInv, MarksSound, OneOnAccount, OnAccount, Holding
<1>9. ClosingsSound'
  BY <1>1, <1>5 DEF ShieldInv, ClosingsSound, Departed, OnAccount, Holding
<1>10. BlocksKnown'
  BY <1>2 DEF ShieldInv, BlocksKnown
<1>11. BlocksSeen'
  <2>1. OnAccount \subseteq Holding
    BY DEF OnAccount, Holding
  <2> QED BY <1>2, <1>5, <2>1 DEF ShieldInv, BlocksSeen
<1> QED BY <1>2, <1>6, <1>7, <1>8, <1>9, <1>10, <1>11 DEF ShieldInv

LEMMA PageUpserted ==
    ASSUME ShieldInv, NEW w \in Workers, NEW e, NEW page, NEW row,
           NEW reopened \in BOOLEAN, NEW step, NEW progress, NEW todo,
           \A x \in Workers : x # w /\ workers[x].step \in OnAccount => workers[x].page.emp # e,
           reopened /\ e \in Employees => wish[e] \notin {"blocking", "blocked"},
           Upsert(e, page, row, reopened),
           Goes(w, step, progress, None, todo), step \notin Holding,
           todo \subseteq Employees, UNCHANGED <<register, lost>>
    PROVE  /\ ShieldInv'
           /\ \A x \in Employees : ~accounts[x].closedBySync => ~accounts'[x].closedBySync
<1>1. CASE e \in Employees
  BY <1>1, UpsertSound
<1>2. CASE e \notin Employees
  <2>1. /\ files = [x \in Employees |-> files[x]] /\ accounts = [x \in Employees |-> accounts[x]]
        /\ wish = [x \in Employees |-> wish[x]]
    BY DEF ShieldInv, Tables
  <2>2. UNCHANGED <<files, accounts, wish>>
    BY <1>2, <2>1 DEF Upsert
  <2> QED BY <2>2, GoesSilently
<1> QED BY <1>1, <1>2

(* An absence is marked on an answer that says the employee is unknown. *)
LEMMA AbsenceSound ==
    ASSUME ShieldInv, NEW w \in Workers, NEW step, NEW progress, NEW todo,
           workers[w].step = "mark", workers[w].page.status = "gone",
           files' = [files EXCEPT ![workers[w].page.emp].absent = TRUE],
           Goes(w, step, progress, None, todo), step \notin Holding,
           todo \subseteq Employees, UNCHANGED <<register, accounts, wish, lost>>
    PROVE  ShieldInv'
<1> DEFINE e == workers[w].page.emp
<1>0. Tables /\ e \in lost
  BY DEF ShieldInv, MarksSound
<1> HIDE DEF e
<1>1. /\ files' = [x \in Employees |-> files'[x]]
      /\ \A x \in Employees : x # e => files'[x] = files[x]
      /\ e \in Employees => files'[e] = [files[e] EXCEPT !.absent = TRUE]
  <2>1. files = [x \in Employees |-> files[x]] /\ files' = [files EXCEPT ![e].absent = TRUE]
    BY <1>0 DEF Tables, e
  <2> QED BY <2>1
<1>2. \A x \in Employees :
        /\ IsFile(files'[x])
        /\ files'[x].absent = files[x].absent \/ (x = e /\ files'[x].absent = TRUE)
        /\ files'[x].status = files[x].status
  <2> SUFFICES ASSUME NEW x \in Employees
               PROVE  /\ IsFile(files'[x])
                      /\ files'[x].absent = files[x].absent \/ (x = e /\ files'[x].absent = TRUE)
                      /\ files'[x].status = files[x].status
    OBVIOUS
  <2>1. CASE x # e
    BY <2>1, <1>0, <1>1 DEF Tables
  <2>2. CASE x = e
    <3> DEFINE yes == TRUE
    <3>1. IsFile(files[e])
      BY <2>2, <1>0 DEF Tables
    <3>2. files'[e] = [files[e] EXCEPT !.absent = yes] /\ yes = TRUE
      BY <2>2, <1>1
    <3> HIDE DEF yes
    <3> QED BY <2>2, <3>1, <3>2 DEF IsFile, FileFields
  <2> QED BY <2>1, <2>2
<1>3. /\ workers' = [x \in Workers |-> workers'[x]]
      /\ \A x \in Workers : x # w => workers'[x] = workers[x]
      /\ workers'[w] = [step |-> step, row |-> workers[w].row, force |-> workers[w].force,
                        run |-> progress, page |-> None, todo |-> todo]
  BY <1>0, GoesTo
<1>4. IsWorker(workers'[w]) /\ workers'[w].todo = todo /\ workers'[w].step = step
  <2>1. IsWorker(workers'[w])
    BY <1>3 DEF IsWorker
  <2> QED BY <1>3, <2>1
<1>5. ASSUME NEW x \in Workers, workers'[x].step \in Holding
      PROVE  workers'[x] = workers[x]
  BY <1>3, <1>4, <1>5
<1>6. Tables'
  BY <1>0, <1>1, <1>2, <1>3, <1>4 DEF Tables
<1>7. GoneAreLost' /\ AbsencesVerified'
  BY <1>0, <1>2 DEF ShieldInv, GoneAreLost, AbsencesVerified
<1>8. MarksSound' /\ OneOnAccount'
  BY <1>5 DEF ShieldInv, MarksSound, OneOnAccount, OnAccount, Holding
<1>9. ClosingsSound'
  <2>1. \A x \in Employees : Departed(files[x]) => Departed(files'[x])
    BY <1>2 DEF Departed
  <2> QED BY <2>1, <1>5 DEF ShieldInv, ClosingsSound, Holding
<1>10. BlocksKnown' /\ BlocksSeen'
  BY <1>5 DEF ShieldInv, BlocksKnown, BlocksSeen, OnAccount, Holding
<1> QED BY <1>6, <1>7, <1>8, <1>9, <1>10 DEF ShieldInv

-----------------------------------------------------------------------------
(* The steps that begin to mark, to close or to reopen *)

LEMMA GoesSound ==
    ASSUME ShieldInv, NEW w \in Workers, NEW step, NEW progress, NEW page, NEW todo,
           Goes(w, step, progress, page, todo), todo \subseteq Employees,
           step = "mark" => (page.status = "gone" => page.emp \in lost),
           step = "closing" => page.emp \in Employees /\ Departed(files[page.emp]),
           step \in OnAccount =>
             /\ \A x \in Workers :
                  x # w /\ workers[x].step \in OnAccount => workers[x].page.emp # page.emp
             /\ page.emp \in Employees =>
                  Wary([step |-> step, page |-> page], accounts[page.emp], wish'[page.emp]),
           wish' = [e \in Employees |-> wish'[e]],
           \A e \in Employees : wish'[e] \in {"blocking", "blocked"} => wish'[e] = wish[e],
           UNCHANGED <<files, register, accounts, lost>>
    PROVE  ShieldInv'
<1>0. Tables
  BY DEF ShieldInv
<1>1. /\ workers' = [x \in Workers |-> workers'[x]]
      /\ \A x \in Workers : x # w => workers'[x] = workers[x]
      /\ workers'[w] = [step |-> step, row |-> workers[w].row, force |-> workers[w].force,
                        run |-> progress, page |-> page, todo |-> todo]
  BY <1>0, GoesTo
<1>2. IsWorker(workers'[w])
  BY <1>1 DEF IsWorker
<1>3. workers'[w].todo = todo /\ workers'[w].step = step /\ workers'[w].page = page
  BY <1>1
<1>4. Tables'
  BY <1>0, <1>1, <1>2, <1>3 DEF Tables
<1>5. GoneAreLost' /\ AbsencesVerified'
  BY DEF ShieldInv, GoneAreLost, AbsencesVerified
<1>6. MarksSound'
  BY <1>1, <1>3 DEF ShieldInv, MarksSound
<1>7. ClosingsSound'
  BY <1>1, <1>3 DEF ShieldInv, ClosingsSound, Departed
<1>8. OneOnAccount'
  BY <1>1, <1>3 DEF ShieldInv, OneOnAccount
<1>9. BlocksKnown'
  BY DEF ShieldInv, BlocksKnown
<1>10. BlocksSeen'
  <2>1. ASSUME NEW x \in Workers, x # w, workers[x].step \in OnAccount,
               workers[x].page.emp \in Employees
        PROVE  Wary(workers[x], accounts[workers[x].page.emp], wish'[workers[x].page.emp])
    BY <2>1 DEF ShieldInv, BlocksSeen, Wary
  <2>2. ASSUME step \in OnAccount, page.emp \in Employees
        PROVE  Wary(workers'[w], accounts[page.emp], wish'[page.emp])
    BY <1>3, <2>2 DEF Wary
  <2> QED BY <1>1, <1>3, <2>1, <2>2 DEF BlocksSeen
<1> QED BY <1>4, <1>5, <1>6, <1>7, <1>8, <1>9, <1>10 DEF ShieldInv

(* A block saved and not yet in the journal when it is looked at has raced. *)
LEMMA LookAtJournalSound ==
    ASSUME ShieldInv, NEW w \in Workers, LookAtJournal(w), Unlocked(workers[w].page.emp),
           AsksToReopen(workers[w].page.emp, workers[w].page), UNCHANGED <<register, lost>>
    PROVE  ShieldInv'
<1> DEFINE e == workers[w].page.emp
           page == workers[w].page
<1>1. /\ Goes(w, "checking", workers[w].run, page, workers[w].todo)
      /\ wish' = [wish EXCEPT ![e] = IF @ = "blocking" THEN "racing" ELSE @]
      /\ UNCHANGED <<files, accounts>>
  BY DEF LookAtJournal
<1>2. wish = [x \in Employees |-> wish[x]] /\ workers[w].todo \subseteq Employees
  BY DEF ShieldInv, Tables
<1>3. /\ wish' = [x \in Employees |-> wish'[x]]
      /\ \A x \in Employees : wish'[x] \in {"blocking", "blocked"} => wish'[x] = wish[x]
      /\ e \in Employees => wish'[e] # "blocking"
  BY <1>1, <1>2
<1>4. \A x \in Workers : x # w /\ workers[x].step \in OnAccount => workers[x].page.emp # e
  BY DEF Unlocked
<1>5. e \in Employees => Wary([step |-> "checking", page |-> page], accounts[e], wish'[e])
  BY <1>3 DEF Wary, AsksToReopen
<1> HIDE DEF page
<1>6. "checking" \in OnAccount /\ e = page.emp
  BY DEF OnAccount, page
<1> HIDE DEF e
<1> QED BY <1>1, <1>2, <1>3, <1>4, <1>5, <1>6, GoesSound

LEMMA ApplyPageSound ==
    ASSUME ShieldInv, NEW w \in Workers, ApplyPage(w)
    PROVE  /\ ShieldInv'
           /\ \A x \in Employees : ~accounts[x].closedBySync => ~accounts'[x].closedBySync
<1> DEFINE page == workers[w].page
<1>1. UNCHANGED <<register, lost>>
  BY DEF ApplyPage
<1>2. \/ /\ \E step, progress : step \in {"finish", "fetch"} /\ Goes(w, step, progress, None, {})
         /\ UNCHANGED <<files, accounts, wish>>
      \/ /\ Unlocked(page.emp) /\ AsksToReopen(page.emp, page) /\ LookAtJournal(w)
      \/ /\ Unlocked(page.emp) /\ CommitPage(w, FALSE)
  <2> DEFINE next == AfterPage(workers[w].run, page)
             stops == page.emp = None \/ Reached(workers[w].run, page)
             step == IF Reached(workers[w].run, page) \/ ~page.more THEN "finish" ELSE "fetch"
  <2>1. IF stops
        THEN Goes(w, step, next, None, {}) /\ UNCHANGED <<files, accounts, wish>>
        ELSE /\ Unlocked(page.emp)
             /\ IF AsksToReopen(page.emp, page) THEN LookAtJournal(w) ELSE CommitPage(w, FALSE)
    BY DEF ApplyPage
  <2>2. step \in {"finish", "fetch"}
    OBVIOUS
  <2> HIDE DEF next, stops, step, page
  <2>3. CASE stops
    <3>1. Goes(w, step, next, None, {})
      BY <2>1, <2>3
    <3>2. UNCHANGED <<files, accounts, wish>>
      BY <2>1, <2>3
    <3>3. \E s, progress : s \in {"finish", "fetch"} /\ Goes(w, s, progress, None, {})
      BY <2>2, <3>1
    <3> QED BY <3>2, <3>3
  <2>4. CASE ~stops
    <3>1. Unlocked(page.emp)
      BY <2>1, <2>4
    <3>2. AsksToReopen(page.emp, page) => LookAtJournal(w)
      BY <2>1, <2>4
    <3>3. ~AsksToReopen(page.emp, page) => CommitPage(w, FALSE)
      BY <2>1, <2>4
    <3>4. CASE AsksToReopen(page.emp, page)
      BY <3>1, <3>2, <3>4
    <3>5. CASE ~AsksToReopen(page.emp, page)
      BY <3>1, <3>3, <3>5
    <3> QED BY <3>4, <3>5
  <2> QED BY <2>3, <2>4
<1>3. CASE /\ \E step, progress : step \in {"finish", "fetch"} /\ Goes(w, step, progress, None, {})
           /\ UNCHANGED <<files, accounts, wish>>
  BY <1>1, <1>3, GoesSilently DEF Holding
<1>4. CASE Unlocked(page.emp) /\ AsksToReopen(page.emp, page) /\ LookAtJournal(w)
  BY <1>1, <1>4, LookAtJournalSound DEF LookAtJournal
<1>5. CASE Unlocked(page.emp) /\ CommitPage(w, FALSE)
  <2>1. PICK step, progress : /\ step \in {"finish", "fetch"}
                              /\ Goes(w, step, progress, None, {})
    BY <1>5 DEF CommitPage
  <2>2. Upsert(page.emp, page, workers[w].row, FALSE)
    BY <1>5 DEF CommitPage
  <2>3. \A x \in Workers : x # w /\ workers[x].step \in OnAccount => workers[x].page.emp # page.emp
    BY <1>5 DEF Unlocked
  <2>4. step \notin Holding /\ {} \subseteq Employees
    BY <2>1 DEF Holding
  <2> DEFINE no == FALSE
  <2>5. no \in BOOLEAN /\ ~no /\ Upsert(page.emp, page, workers[w].row, no)
    BY <2>2
  <2> HIDE DEF page, no
  <2> QED BY <1>1, <2>1, <2>3, <2>4, <2>5, PageUpserted
<1> QED BY <1>2, <1>3, <1>4, <1>5

LEMMA MarkAbsenceSound ==
    ASSUME ShieldInv, NEW w \in Workers, MarkAbsence(w)
    PROVE  /\ ShieldInv'
           /\ \A x \in Employees : ~accounts[x].closedBySync => ~accounts'[x].closedBySync
<1> DEFINE page == workers[w].page
           step == IF workers[w].todo = {} THEN "departures" ELSE "ask"
<1>1. /\ workers[w].step = "mark" /\ Unlocked(page.emp)
      /\ UNCHANGED <<register, lost>>
      /\ \/ /\ Goes(w, step, workers[w].run, None, workers[w].todo)
            /\ UNCHANGED <<files, accounts, wish>>
         \/ /\ page.status = "gone"
            /\ Goes(w, step, workers[w].run, None, workers[w].todo)
            /\ files' = [files EXCEPT ![page.emp].absent = TRUE]
            /\ UNCHANGED <<accounts, wish>>
         \/ AsksToReopen(page.emp, page) /\ LookAtJournal(w)
         \/ CommitPresence(w, FALSE)
  BY DEF MarkAbsence, Missing
<1>2. step \notin Holding /\ workers[w].todo \subseteq Employees
  BY DEF ShieldInv, Tables, Holding
<1>3. CASE /\ Goes(w, step, workers[w].run, None, workers[w].todo)
           /\ UNCHANGED <<files, accounts, wish>>
  <2> HIDE DEF step, page
  <2> QED BY <1>1, <1>2, <1>3, GoesSilently
<1>4. CASE /\ page.status = "gone"
           /\ Goes(w, step, workers[w].run, None, workers[w].todo)
           /\ files' = [files EXCEPT ![page.emp].absent = TRUE]
           /\ UNCHANGED <<accounts, wish>>
  <2> HIDE DEF step
  <2> QED BY <1>1, <1>2, <1>4, AbsenceSound
<1>5. CASE AsksToReopen(page.emp, page) /\ LookAtJournal(w)
  BY <1>1, <1>5, LookAtJournalSound DEF LookAtJournal
<1>6. CASE CommitPresence(w, FALSE)
  <2>1. /\ Goes(w, step, workers[w].run, None, workers[w].todo)
        /\ Upsert(page.emp, page, workers[w].row, FALSE)
    BY <1>6 DEF CommitPresence
  <2>2. \A x \in Workers : x # w /\ workers[x].step \in OnAccount => workers[x].page.emp # page.emp
    BY <1>1 DEF Unlocked
  <2> HIDE DEF step, page
  <2> QED BY <1>1, <1>2, <2>1, <2>2, PageUpserted
<1> QED BY <1>1, <1>3, <1>4, <1>5, <1>6

(* The commit of a page, or of a presence, whose journal has been looked at. *)
LEMMA CommitSound ==
    ASSUME ShieldInv, NEW w \in Workers, NEW reopened \in BOOLEAN, Commit(w, reopened),
           workers[w].step \in OnAccount, UNCHANGED <<register, lost>>,
           reopened /\ workers[w].page.emp \in Employees =>
             wish[workers[w].page.emp] \notin {"blocking", "blocked"}
    PROVE  /\ ShieldInv'
           /\ \A x \in Employees : ~accounts[x].closedBySync => ~accounts'[x].closedBySync
<1> DEFINE page == workers[w].page
<1>1. \A x \in Workers : x # w /\ workers[x].step \in OnAccount => workers[x].page.emp # page.emp
  BY DEF ShieldInv, OneOnAccount
<1>2. workers[w].todo \subseteq Employees
  BY DEF ShieldInv, Tables
<1>3. /\ Upsert(page.emp, page, workers[w].row, reopened)
      /\ \E step, progress, todo :
           /\ step \in {"finish", "fetch", "departures", "ask"} /\ todo \subseteq Employees
           /\ Goes(w, step, progress, None, todo)
  <2>1. CASE workers[w].run.phase = "employees"
    <3>1. CommitPage(w, reopened)
      BY <2>1 DEF Commit
    <3> QED BY <3>1 DEF CommitPage
  <2>2. CASE workers[w].run.phase # "employees"
    <3>1. CommitPresence(w, reopened)
      BY <2>2 DEF Commit
    <3> QED BY <1>2, <3>1 DEF CommitPresence
  <2> QED BY <2>1, <2>2
<1>4. PICK step, progress, todo :
           /\ step \in {"finish", "fetch", "departures", "ask"} /\ todo \subseteq Employees
           /\ Goes(w, step, progress, None, todo)
  BY <1>3
<1>5. step \notin Holding
  BY <1>4 DEF Holding
<1>6. reopened /\ page.emp \in Employees => wish[page.emp] \notin {"blocking", "blocked"}
  OBVIOUS
<1> HIDE DEF page
<1> QED BY <1>1, <1>3, <1>4, <1>5, <1>6, PageUpserted

(* The account is to be reopened, for all the journal says. *)
LEMMA CheckJournalSound ==
    ASSUME ShieldInv, NEW w \in Workers, CheckJournal(w)
    PROVE  /\ ShieldInv'
           /\ \A x \in Employees : ~accounts[x].closedBySync => ~accounts'[x].closedBySync
<1> DEFINE e == workers[w].page.emp
<1>1. workers[w].step = "checking" /\ UNCHANGED <<register, lost>>
  BY DEF CheckJournal
<1>2. "checking" \in OnAccount /\ "reopening" \in OnAccount
  BY DEF OnAccount
<1>3. CASE BlockedByHumanSince(e)
  <2>1. Commit(w, FALSE)
    BY <1>3 DEF CheckJournal
  <2> QED BY <1>1, <1>2, <2>1, CommitSound
<1>4. CASE ~BlockedByHumanSince(e)
  <2>1. /\ Goes(w, "reopening", workers[w].run, workers[w].page, workers[w].todo)
        /\ UNCHANGED <<files, accounts, wish>>
    BY <1>4 DEF CheckJournal
  <2>2. \A x \in Workers : x # w /\ workers[x].step \in OnAccount => workers[x].page.emp # e
    BY <1>1, <1>2 DEF ShieldInv, OneOnAccount
  <2>3. e \in Employees => wish[e] \notin {"blocking", "blocked"}
    <3>1. e \in Employees => Wary(workers[w], accounts[e], wish[e])
      BY <1>1, <1>2 DEF ShieldInv, BlocksSeen
    <3>2. e \in Employees /\ accounts[e].closedBySync => wish[e] # "blocked"
      BY <1>4 DEF ShieldInv, BlocksKnown, BlockedByHumanSince
    <3> QED BY <1>1, <3>1, <3>2 DEF Wary
  <2>4. e \in Employees => Wary([step |-> "reopening", page |-> workers[w].page], accounts[e], wish[e])
    BY <2>3 DEF Wary
  <2>5. wish = [x \in Employees |-> wish[x]] /\ workers[w].todo \subseteq Employees
    BY DEF ShieldInv, Tables
  <2>6. ShieldInv'
    BY <1>1, <1>2, <2>1, <2>2, <2>4, <2>5, GoesSound
  <2> QED BY <2>1, <2>6
<1> QED BY <1>3, <1>4

LEMMA ReopenAccountSound ==
    ASSUME ShieldInv, NEW w \in Workers, ReopenAccount(w)
    PROVE  /\ ShieldInv'
           /\ \A x \in Employees : ~accounts[x].closedBySync => ~accounts'[x].closedBySync
<1> DEFINE e == workers[w].page.emp
<1>1. /\ workers[w].step = "reopening" /\ UNCHANGED <<register, lost>>
      /\ Commit(w, TRUE)
  BY DEF ReopenAccount
<1>2. "reopening" \in OnAccount
  BY DEF OnAccount
<1>3. e \in Employees => Wary(workers[w], accounts[e], wish[e])
  BY <1>1, <1>2 DEF ShieldInv, BlocksSeen
<1>4. e \in Employees => wish[e] \notin {"blocking", "blocked"}
  BY <1>1, <1>3 DEF Wary
<1> QED BY <1>1, <1>2, <1>4, CommitSound

LEMMA AskEmployeeSound ==
    ASSUME ShieldInv, NEW w \in Workers, AskEmployee(w)
    PROVE  ShieldInv'
<1>1. PICK e \in workers[w].todo :
        Goes(w, "mark", workers[w].run, Recheck(e), workers[w].todo \ {e})
  BY DEF AskEmployee
<1>2. e \in Employees /\ workers[w].todo \ {e} \subseteq Employees
  BY DEF ShieldInv, Tables
<1>3. Recheck(e).emp = e /\ Recheck(e).status = register[e].status
  BY DEF Recheck, Answer
<1>4. Recheck(e).status = "gone" => Recheck(e).emp \in lost
  BY <1>2, <1>3 DEF ShieldInv, GoneAreLost
<1>5. UNCHANGED <<files, register, accounts, wish, lost>>
  BY DEF AskEmployee
<1>6. "mark" \notin OnAccount
  BY DEF OnAccount
<1>7. wish = [x \in Employees |-> wish[x]]
  BY DEF ShieldInv, Tables
<1> QED BY <1>1, <1>2, <1>4, <1>5, <1>6, <1>7, GoesSound

LEMMA LockDepartureSound ==
    ASSUME ShieldInv, NEW w \in Workers, LockDeparture(w)
    PROVE  ShieldInv'
<1>1. PICK e \in workers[w].todo :
        /\ Unlocked(e)
        /\ IF StillDeparted(e)
           THEN Goes(w, "closing", workers[w].run,
                     [emp |-> e, active |-> accounts[e].active], workers[w].todo \ {e})
           ELSE Goes(w, "close", workers[w].run, None, workers[w].todo \ {e})
  BY DEF LockDeparture
<1>2. e \in Employees /\ workers[w].todo \ {e} \subseteq Employees
  BY DEF ShieldInv, Tables
<1>3. UNCHANGED <<files, register, accounts, wish, lost>>
  BY DEF LockDeparture
<1> DEFINE page == [emp |-> e, active |-> accounts[e].active]
<1>4. page.emp = e /\ page.active = accounts[e].active
  OBVIOUS
<1>5. CASE StillDeparted(e)
  <2>1. Departed(files[e]) /\ Goes(w, "closing", workers[w].run, page, workers[w].todo \ {e})
    BY <1>1, <1>5 DEF StillDeparted
  <2>2. \A x \in Workers : x # w /\ workers[x].step \in OnAccount => workers[x].page.emp # e
    BY <1>1 DEF Unlocked
  <2>3. wish[e] \in {"blocking", "blocked"} => ~accounts[e].active
    BY <1>2 DEF ShieldInv, BlocksKnown
  <2>4. wish = [x \in Employees |-> wish[x]]
    BY DEF ShieldInv, Tables
  <2> HIDE DEF page
  <2>5. Wary([step |-> "closing", page |-> page], accounts[e], wish[e])
    BY <1>4, <2>3 DEF Wary
  <2> QED BY <1>2, <1>3, <1>4, <2>1, <2>2, <2>4, <2>5, GoesSound
<1>6. CASE ~StillDeparted(e)
  <2>1. Goes(w, "close", workers[w].run, None, workers[w].todo \ {e})
    BY <1>1, <1>6
  <2> QED BY <1>2, <1>3, <2>1, GoesSilently DEF Holding
<1> QED BY <1>5, <1>6

(* What was read of the account when the file was locked is written back. *)
LEMMA CloseAccountSound ==
    ASSUME ShieldInv, NEW w \in Workers, CloseAccount(w)
    PROVE  /\ ShieldInv'
           /\ \A x \in Employees :
                ~accounts[x].closedBySync /\ accounts'[x].closedBySync => Departed(files[x])
<1> DEFINE e == workers[w].page.emp
<1>0. /\ Tables /\ workers[w].step = "closing"
      /\ e \in Employees /\ Departed(files[e])
  BY DEF ShieldInv, ClosingsSound, CloseAccount
<1>1. /\ accounts' = IF workers[w].page.active
                     THEN [accounts EXCEPT ![e] =
                             [active |-> FALSE, closedBySync |-> TRUE, revoked |-> FALSE,
                              blockedSince |-> FALSE]]
                     ELSE accounts
      /\ files' = [files EXCEPT ![e].handled = TRUE]
      /\ Goes(w, "close", workers[w].run, None, workers[w].todo)
      /\ UNCHANGED <<register, wish, lost>>
  BY DEF CloseAccount
<1>2. \A x \in Workers : x # w /\ workers[x].step \in OnAccount => workers[x].page.emp # e
  BY <1>0 DEF ShieldInv, OneOnAccount, OnAccount
<1>3. wish[e] \in {"blocking", "blocked"} => ~workers[w].page.active
  <2>1. Wary(workers[w], accounts[e], wish[e])
    BY <1>0 DEF ShieldInv, BlocksSeen, OnAccount
  <2> QED BY <1>0, <2>1 DEF Wary
<1>4. /\ workers' = [x \in Workers |-> workers'[x]]
      /\ \A x \in Workers : x # w => workers'[x] = workers[x]
      /\ workers'[w] = [step |-> "close", row |-> workers[w].row, force |-> workers[w].force,
                        run |-> workers[w].run, page |-> None, todo |-> workers[w].todo]
  BY <1>0, <1>1, GoesTo
<1>5. IsWorker(workers'[w]) /\ workers'[w].todo = workers[w].todo /\ workers'[w].step = "close"
  <2>1. IsWorker(workers'[w])
    BY <1>4 DEF IsWorker
  <2> QED BY <1>4, <2>1
<1> HIDE DEF e
<1>6. Marks
  <2>1. /\ files' = [x \in Employees |-> files'[x]]
        /\ \A x \in Employees : x # e => files'[x] = files[x]
        /\ files'[e] = [files[e] EXCEPT !.handled = TRUE]
    BY <1>0, <1>1 DEF Tables
  <2> DEFINE yes == TRUE
  <2>2. files'[e] = [files[e] EXCEPT !.handled = yes] /\ IsFile(files[e])
    BY <1>0, <2>1 DEF Tables
  <2> HIDE DEF yes
  <2>3. /\ IsFile(files'[e]) /\ files'[e].absent = files[e].absent
        /\ files'[e].status = files[e].status
    BY <2>2 DEF IsFile, FileFields
  <2> QED BY <1>0, <2>1, <2>3 DEF Tables, Marks
<1>7. /\ accounts' \in [Employees -> Accounts]
      /\ \A x \in Employees : x # e => accounts'[x] = accounts[x]
      /\ ~workers[w].page.active => accounts' = accounts
  BY <1>0, <1>1 DEF Tables, Accounts
<1>8. ASSUME NEW x \in Workers, workers'[x].step \in Holding
      PROVE  x # w /\ workers'[x] = workers[x]
  BY <1>4, <1>5, <1>8 DEF Holding
<1>9. Tables'
  <2>1. UNCHANGED <<register, wish>>
    BY <1>1
  <2> QED BY <1>0, <1>4, <1>5, <1>6, <1>7, <2>1 DEF Tables, Marks
<1>10. GoneAreLost' /\ AbsencesVerified'
  BY <1>1, <1>6 DEF ShieldInv, GoneAreLost, AbsencesVerified, Marks
<1>11. MarksSound' /\ OneOnAccount'
  BY <1>1, <1>8 DEF ShieldInv, MarksSound, OneOnAccount, OnAccount, Holding
<1>12. ClosingsSound'
  BY <1>6, <1>8 DEF ShieldInv, ClosingsSound, Departed, Marks, Holding
<1>13. BlocksKnown'
  BY <1>1, <1>3, <1>7 DEF ShieldInv, BlocksKnown
<1>14. BlocksSeen'
  BY <1>1, <1>2, <1>7, <1>8 DEF ShieldInv, BlocksSeen, OnAccount, Holding
<1>15. ShieldInv'
  BY <1>9, <1>10, <1>11, <1>12, <1>13, <1>14 DEF ShieldInv
<1> QED BY <1>0, <1>7, <1>15
-----------------------------------------------------------------------------
(* The register and the administrators *)

LEMMA EditRegisterSound ==
    ASSUME ShieldInv, NEW e \in Employees, NEW status \in {"in", "out", "gone"},
           EditRegister(e, status)
    PROVE  ShieldInv'
<1>1. PICK upd : register' = [register EXCEPT ![e] = [status |-> status, upd |-> upd]]
  BY DEF EditRegister
<1>2. /\ lost \subseteq lost' /\ (status = "gone" => e \in lost')
      /\ UNCHANGED <<files, accounts, workers, wish>>
  BY DEF EditRegister
<1>3. Tables'
  BY <1>1, <1>2 DEF ShieldInv, Tables
<1>4. GoneAreLost'
  BY <1>1, <1>2 DEF ShieldInv, Tables, GoneAreLost
<1>5. AbsencesVerified' /\ MarksSound'
  BY <1>2 DEF ShieldInv, AbsencesVerified, MarksSound
<1>6. ClosingsSound' /\ OneOnAccount'
  BY <1>2 DEF ShieldInv, ClosingsSound, OneOnAccount, Departed
<1>7. BlocksKnown' /\ BlocksSeen'
  BY <1>2 DEF ShieldInv, BlocksKnown, BlocksSeen
<1> QED BY <1>3, <1>4, <1>5, <1>6, <1>7 DEF ShieldInv

(* What an administrator does to an account, and what the workers on it may
   then still write. *)
LEMMA DecisionSound ==
    ASSUME ShieldInv, NEW e \in Employees, NEW account \in Accounts, NEW decision,
           accounts' = [accounts EXCEPT ![e] = account],
           wish' = [wish EXCEPT ![e] = decision],
           account.closedBySync = accounts[e].closedBySync,
           decision \in {"blocking", "blocked"} => ~account.active,
           decision = "blocked" => (account.closedBySync => account.blockedSince),
           \A w \in Workers : workers[w].step \in OnAccount /\ workers[w].page.emp = e =>
             Wary(workers[w], account, decision),
           UNCHANGED <<register, files, workers, lost>>
    PROVE  /\ ShieldInv'
           /\ \A x \in Employees : ~accounts[x].closedBySync => ~accounts'[x].closedBySync
<1>1. /\ accounts \in [Employees -> Accounts]
      /\ wish = [x \in Employees |-> wish[x]]
  BY DEF ShieldInv, Tables
<1>2. /\ accounts' \in [Employees -> Accounts] /\ accounts'[e] = account
      /\ \A x \in Employees : x # e => accounts'[x] = accounts[x]
  BY <1>1
<1>3. /\ wish' = [x \in Employees |-> wish'[x]] /\ wish'[e] = decision
      /\ \A x \in Employees : x # e => wish'[x] = wish[x]
  BY <1>1
<1>4. Tables'
  BY <1>2, <1>3 DEF ShieldInv, Tables
<1>5. GoneAreLost' /\ AbsencesVerified' /\ MarksSound'
  BY DEF ShieldInv, GoneAreLost, AbsencesVerified, MarksSound
<1>6. ClosingsSound' /\ OneOnAccount'
  BY DEF ShieldInv, ClosingsSound, OneOnAccount, Departed
<1>7. BlocksKnown'
  BY <1>2, <1>3 DEF ShieldInv, BlocksKnown
<1>8. BlocksSeen'
  BY <1>2, <1>3 DEF ShieldInv, BlocksSeen
<1> QED BY <1>2, <1>4, <1>5, <1>6, <1>7, <1>8 DEF ShieldInv

LEMMA SaveBlockSound ==
    ASSUME ShieldInv, NEW e \in Employees, SaveBlock(e)
    PROVE  /\ ShieldInv'
           /\ \A x \in Employees : ~accounts[x].closedBySync => ~accounts'[x].closedBySync
<1> DEFINE no == FALSE
           gone == accounts[e].revoked \/ (accounts[e].active /\ accounts[e].closedBySync)
           kept == [accounts[e] EXCEPT !.active = no]
           account == [kept EXCEPT !.revoked = gone]
           decision == IF Overwritable(e) THEN "racing" ELSE "blocking"
<1>1. accounts \in [Employees -> Accounts] /\ wish = [x \in Employees |-> wish[x]]
  BY DEF ShieldInv, Tables
<1>2. no \in BOOLEAN /\ ~no /\ gone \in BOOLEAN
  BY <1>1 DEF Accounts
<1>3. /\ accounts' = [accounts EXCEPT ![e].active = no, ![e].revoked = gone]
      /\ wish' = [wish EXCEPT ![e] = decision]
      /\ UNCHANGED <<register, files, workers, lost>>
  BY <1>1 DEF SaveBlock
<1> HIDE DEF no, gone
<1>4. kept \in Accounts /\ kept.active = no /\ kept.closedBySync = accounts[e].closedBySync
  BY <1>1, <1>2 DEF Accounts
<1>5. accounts' = [accounts EXCEPT ![e] = account]
  BY <1>1, <1>3
<1> HIDE DEF kept
<1>6. account \in Accounts /\ account.active = no /\ account.closedBySync = accounts[e].closedBySync
  BY <1>2, <1>4 DEF Accounts
<1> HIDE DEF account
<1>7. \A w \in Workers : workers[w].step \in OnAccount /\ workers[w].page.emp = e =>
        Wary(workers[w], account, decision)
  BY DEF Wary, Overwritable, MayOverwrite, OnAccount
<1>8. decision # "blocked"
  OBVIOUS
<1> HIDE DEF decision
<1> QED BY <1>2, <1>3, <1>5, <1>6, <1>7, <1>8, DecisionSound

LEMMA RecordBlockSound ==
    ASSUME ShieldInv, NEW e \in Employees, RecordBlock(e)
    PROVE  /\ ShieldInv'
           /\ \A x \in Employees : ~accounts[x].closedBySync => ~accounts'[x].closedBySync
<1> DEFINE since == accounts[e].closedBySync
           account == [accounts[e] EXCEPT !.blockedSince = since]
           decision == IF wish[e] = "blocking" THEN "blocked" ELSE "raced"
<1>1. accounts \in [Employees -> Accounts] /\ wish = [x \in Employees |-> wish[x]]
  BY DEF ShieldInv, Tables
<1>2. since \in BOOLEAN /\ since = accounts[e].closedBySync
  BY <1>1 DEF Accounts
<1>3. /\ accounts' = [accounts EXCEPT ![e].blockedSince = since]
      /\ wish' = [wish EXCEPT ![e] = decision]
      /\ UNCHANGED <<register, files, workers, lost>>
  BY <1>1 DEF RecordBlock
<1> HIDE DEF since
<1>4. accounts' = [accounts EXCEPT ![e] = account]
  BY <1>1, <1>3
<1>5. /\ account \in Accounts /\ account.active = accounts[e].active
      /\ account.closedBySync = accounts[e].closedBySync /\ account.blockedSince = since
  BY <1>1, <1>2 DEF Accounts
<1> HIDE DEF account
<1>6. decision \in {"blocking", "blocked"} => wish[e] = "blocking" /\ decision = "blocked"
  OBVIOUS
<1>9. account.closedBySync => account.blockedSince
  BY <1>2, <1>5
<1>7. \A w \in Workers : workers[w].step \in OnAccount /\ workers[w].page.emp = e =>
        Wary(workers[w], account, decision)
  <2> SUFFICES ASSUME NEW w \in Workers, workers[w].step \in OnAccount, workers[w].page.emp = e
               PROVE  Wary(workers[w], account, decision)
    OBVIOUS
  <2>1. Wary(workers[w], accounts[e], wish[e])
    BY DEF ShieldInv, BlocksSeen
  <2> QED BY <1>6, <2>1 DEF Wary
<1>8. wish[e] = "blocking" => ~accounts[e].active
  BY DEF ShieldInv, BlocksKnown
<1> HIDE DEF decision
<1>10. decision \in {"blocking", "blocked"} => ~account.active
  BY <1>5, <1>6, <1>8
<1>11. account.closedBySync = accounts[e].closedBySync /\ account \in Accounts
  BY <1>5
<1> QED BY <1>3, <1>4, <1>7, <1>9, <1>10, <1>11, DecisionSound

LEMMA UnblockUserSound ==
    ASSUME ShieldInv, NEW e \in Employees, UnblockUser(e)
    PROVE  /\ ShieldInv'
           /\ \A x \in Employees : ~accounts[x].closedBySync => ~accounts'[x].closedBySync
<1> DEFINE yes == TRUE
           account == [accounts[e] EXCEPT !.active = yes]
<1>1. accounts \in [Employees -> Accounts]
  BY DEF ShieldInv, Tables
<1>2. /\ yes \in BOOLEAN /\ accounts' = [accounts EXCEPT ![e].active = yes]
      /\ wish' = [wish EXCEPT ![e] = "kept"]
      /\ UNCHANGED <<register, files, workers, lost>>
  BY DEF UnblockUser
<1> HIDE DEF yes
<1>3. accounts' = [accounts EXCEPT ![e] = account]
  BY <1>1, <1>2
<1>4. account \in Accounts /\ account.closedBySync = accounts[e].closedBySync
  BY <1>1, <1>2 DEF Accounts
<1> HIDE DEF account
<1>5. \A w \in Workers : Wary(workers[w], account, "kept")
  BY DEF Wary
<1> QED BY <1>2, <1>3, <1>4, <1>5, DecisionSound

-----------------------------------------------------------------------------
(* The invariant *)

LEMMA ShieldInitially == Init => ShieldInv
<1> SUFFICES ASSUME Init PROVE ShieldInv
  OBVIOUS
<1>1. \A e \in Employees :
        /\ IsFile(files[e]) /\ ~files[e].absent
        /\ register[e].status = "in" /\ wish[e] = "none"
  BY DEF Init, IsFile, FileFields
<1>2. \A w \in Workers :
        IsWorker(workers[w]) /\ workers[w].todo = {} /\ workers[w].step = "idle"
  BY IdleWorker DEF Init
<1>3. accounts \in [Employees -> Accounts]
  BY DEF Init, Accounts
<1>4. Tables
  BY <1>1, <1>2, <1>3 DEF Init, Tables
<1> QED BY <1>1, <1>2, <1>4 DEF ShieldInv, GoneAreLost, AbsencesVerified, MarksSound,
       ClosingsSound, OneOnAccount, BlocksKnown, BlocksSeen, OnAccount

(* Every step keeps the invariant, and closes accounts of the departed only. *)
LEMMA ShieldStep ==
    ASSUME ShieldInv, [Next]_vars
    PROVE  /\ ShieldInv'
           /\ \A x \in Employees :
                ~accounts[x].closedBySync /\ accounts'[x].closedBySync => Departed(files[x])
<1>1. ASSUME NEW w \in Workers,
             \/ \E m \in left.modes, force \in left.forced : OpenRun(w, m, force)
             \/ WorkerStep(w) \/ FailRun(w) \/ RefuseOrdering(w) \/ Crash(w)
      PROVE  /\ ShieldInv'
             /\ \A x \in Employees :
                  ~accounts[x].closedBySync /\ accounts'[x].closedBySync => Departed(files[x])
  <2>1. CASE \E m \in left.modes, force \in left.forced : OpenRun(w, m, force)
    BY <2>1, OpenRunSound DEF OpenRun, ResumeRun, StartRun
  <2>2. CASE BeginReading(w) \/ Fetch(w) \/ FinishReading(w) \/ RefuseOrdering(w)
    BY <2>2, ReadingSound DEF BeginReading, Fetch, FinishReading, RefuseOrdering
  <2>3. CASE DetectAbsences(w) \/ ListDepartures(w) \/ Succeed(w) \/ FailRun(w) \/ Crash(w)
    BY <2>3, EndingSound DEF DetectAbsences, ListDepartures, Succeed, FailRun, Crash
  <2>4. CASE ApplyPage(w)
    BY <2>4, ApplyPageSound
  <2>5. CASE AskEmployee(w)
    BY <2>5, AskEmployeeSound DEF AskEmployee
  <2>6. CASE MarkAbsence(w)
    BY <2>6, MarkAbsenceSound
  <2>7. CASE LockDeparture(w)
    BY <2>7, LockDepartureSound DEF LockDeparture
  <2>8. CASE CloseAccount(w)
    BY <2>8, CloseAccountSound
  <2>9. CASE CheckJournal(w) \/ ReopenAccount(w)
    BY <2>9, CheckJournalSound, ReopenAccountSound
  <2> QED BY <1>1, <2>1, <2>2, <2>3, <2>4, <2>5, <2>6, <2>7, <2>8, <2>9 DEF WorkerStep
<1>2. ASSUME NEW e \in Employees,
             \/ \E status \in {"in", "out", "gone"} : EditRegister(e, status)
             \/ SaveBlock(e) \/ RecordBlock(e) \/ UnblockUser(e)
      PROVE  /\ ShieldInv'
             /\ \A x \in Employees :
                  ~accounts[x].closedBySync /\ accounts'[x].closedBySync => Departed(files[x])
  <2>1. CASE \E status \in {"in", "out", "gone"} : EditRegister(e, status)
    BY <2>1, EditRegisterSound DEF EditRegister
  <2>2. CASE SaveBlock(e) \/ RecordBlock(e) \/ UnblockUser(e)
    BY <2>2, SaveBlockSound, RecordBlockSound, UnblockUserSound
  <2> QED BY <1>2, <2>1, <2>2
<1>3. CASE UNCHANGED vars
  <2>1. UNCHANGED <<register, files, accounts, workers, wish, lost>>
    BY <1>3 DEF vars
  <2>2. ShieldInv'
    BY <2>1 DEF ShieldInv, Tables, GoneAreLost, AbsencesVerified, MarksSound, ClosingsSound,
       OneOnAccount, BlocksKnown, BlocksSeen, Departed, Marks
  <2> QED BY <2>1, <2>2
<1> QED BY <1>1, <1>2, <1>3 DEF Next

(* The invariant the other theorems rest on: what a worker has read and not yet
   written stays true of the tables until it writes. *)
THEOREM ShieldInvariant == Spec => []ShieldInv
<1>1. Init => ShieldInv
  BY ShieldInitially
<1>2. ShieldInv /\ [Next]_vars => ShieldInv'
  BY ShieldStep
<1> QED BY <1>1, <1>2, PTL DEF Spec

(* No file is ever marked absent of an employee the register has always had:
   the pages may skip anyone, in any number of overlapping runs. *)
THEOREM AbsencesTrue == Spec => []AbsencesVerified
<1>1. ShieldInv => AbsencesVerified
  BY DEF ShieldInv
<1> QED BY <1>1, ShieldInvariant, PTL

(* A block that raced no worker stands: neither a reading, nor a departure
   applied again, nor a return opens the account, for any number of workers,
   runs, edits and failures. *)
THEOREM BlocksStand == Spec => []HumanBlockStands
<1>1. ShieldInv => HumanBlockStands
  BY DEF ShieldInv, BlocksKnown, HumanBlockStands
<1> QED BY <1>1, ShieldInvariant, PTL

(* The list of departures is made before the files are locked; an account is
   closed only of an employee who is still gone when it is. *)
THEOREM OnlyDepartedClosed == Spec => OnlyDepartedAreClosed
<1>1. ShieldInv /\ [Next]_vars =>
        [\A e \in Employees :
           (~accounts[e].closedBySync /\ accounts'[e].closedBySync) => Departed(files[e])]_vars
  BY ShieldStep
<1> QED BY <1>1, ShieldInvariant, PTL DEF Spec, OnlyDepartedAreClosed

-----------------------------------------------------------------------------
(* Types, and no stamp from the future. *)
UpTo(t) == (0..t) \cup {None}
Dated(p, t) == p \in Progresses /\ p.last \in UpTo(t) /\ p.wstart \in UpTo(t) /\ p.wend \in UpTo(t)

Entries == [status : {"in", "out", "gone"}, upd : Stamps]
FileRows == [status : {"in", "out"}, upd : Stamps, absent : BOOLEAN,
             seen : Rows \cup {None}, handled : BOOLEAN]
RunRows == [mode : Modes, status : RunStatus, started : Stamps, saved : Progresses]
Pages == [emp : Employees \cup {None}, status : {"in", "out", "gone"}, upd : Stamps, more : BOOLEAN]

RunTyped(x, t) == x \in RunRows /\ x.started <= t /\ Dated(x.saved, t)
PageTyped(page, offset, t) ==
    /\ page \in Pages /\ page.upd <= t
    /\ page.emp # None => page.status # "gone"
    /\ page.more => page.emp # None /\ offset < Cardinality(Employees)

(* The steps that hold a page of a reading, and those that hold an answer for
   one employee: an account on its way to be reopened may come from either. *)
OnPage == {"page", "checking", "reopening"}
OnAnswer == {"mark", "checking", "reopening"}
AnswerTyped(page, t) == page \in Pages /\ page.upd <= t /\ page.emp \in Employees
WorkerTyped(x, t) ==
    /\ x.step \in Steps /\ Dated(x.run, t) /\ x.todo \subseteq Employees
    /\ x.row \in IF x.step = "idle" THEN {None} ELSE Rows
    /\ x.step \in OnPage => PageTyped(x.page, x.run.offset, t)
    /\ x.step \in OnAnswer => AnswerTyped(x.page, t)
    /\ x.step = "mark" => ~x.page.more
    /\ x.step = "closing" => x.page.emp \in Employees

RegisterTyped(reg, t) == reg \in [Employees -> Entries] /\ \A e \in Employees : reg[e].upd <= t

Typed ==
    /\ clock \in Nat /\ left \in Budget /\ archived \in UpTo(clock)
    /\ RegisterTyped(register, clock)
    /\ files \in [Employees -> FileRows]
    /\ runs = [r \in Rows |-> runs[r]] /\ \A r \in Rows : RunTyped(runs[r], clock)
    /\ \A w \in Workers : WorkerTyped(workers[w], clock)

LEMMA TypedOK == ASSUME Typed, Tables PROVE ShieldTypeOK
<1>1. runs \in [Rows -> RunRows]
  <2>1. \A r \in Rows : runs[r] \in RunRows
    BY DEF Typed, RunTyped
  <2> QED BY <2>1 DEF Typed
<1>2. archived \in Stamps \cup {None}
  BY DEF Typed, UpTo, Stamps
<1>3. \A w \in Workers :
         /\ workers[w].step \in Steps /\ workers[w].run \in Progresses
         /\ workers[w].row \in IF workers[w].step = "idle" THEN {None} ELSE Rows
         /\ workers[w].todo \subseteq Employees
  BY DEF Typed, WorkerTyped, Dated
<1>4. accounts \in [Employees ->
         [active : BOOLEAN, closedBySync : BOOLEAN, revoked : BOOLEAN, blockedSince : BOOLEAN]]
  BY DEF Tables, Accounts
<1> QED BY <1>1, <1>2, <1>3, <1>4 DEF Typed, ShieldTypeOK, RegisterTyped, Entries, FileRows, RunRows, Stamps

LEMMA LaterDated ==
    ASSUME NEW t \in Nat, NEW u \in Nat, t <= u
    PROVE  /\ UpTo(t) \subseteq UpTo(u)
           /\ \A p : Dated(p, t) => Dated(p, u)
           /\ \A x : RunTyped(x, t) => RunTyped(x, u)
           /\ \A x : WorkerTyped(x, t) => WorkerTyped(x, u)
<1>1. UpTo(t) \subseteq UpTo(u)
  BY DEF UpTo
<1>2. \A p : Dated(p, t) => Dated(p, u)
  BY <1>1 DEF Dated
<1>3. \A x : RunTyped(x, t) => RunTyped(x, u)
  BY <1>2 DEF RunTyped, RunRows, Stamps
<1>4. ASSUME NEW page \in Pages, page.upd <= t PROVE page.upd <= u
  BY <1>4 DEF Pages, Stamps
<1>5. \A page, k : PageTyped(page, k, t) => PageTyped(page, k, u)
  BY <1>4 DEF PageTyped
<1>6. \A page : AnswerTyped(page, t) => AnswerTyped(page, u)
  BY <1>4 DEF AnswerTyped
<1>7. \A x : WorkerTyped(x, t) => WorkerTyped(x, u)
  BY <1>2, <1>5, <1>6 DEF WorkerTyped
<1> QED BY <1>1, <1>2, <1>3, <1>7

(* MaxStamp is the greatest of the stamps there are, if any. *)
LEMMA GreatestStamp ==
    ASSUME ShieldAssumption, NEW t \in Nat, NEW S \in SUBSET UpTo(t)
    PROVE  /\ MaxStamp(S) \in UpTo(t)
           /\ MaxStamp(S) # None => MaxStamp(S) \in S
           /\ \A x \in S : x # None => MaxStamp(S) # None /\ x <= MaxStamp(S)
<1>1. CASE S \subseteq {None}
  BY <1>1 DEF MaxStamp, UpTo
<1>2. CASE ~(S \subseteq {None})
  <2> DEFINE D == S \ {None}
             m == CHOOSE x \in D : \A y \in D : y <= x
  <2>0. \A x \in D : x \in 0..t
    BY DEF UpTo
  <2>1. D \in SUBSET Nat /\ D # {} /\ \A x \in D : x <= t
    BY <1>2, <2>0
  <2>2. \E x \in D : \A y \in D : y <= x
    <3> HIDE DEF D
    <3> QED BY <2>1, GreatestBelow
  <2>3. m \in D /\ \A y \in D : y <= m
    BY <2>2
  <2>4. MaxStamp(S) = m
    BY <1>2 DEF MaxStamp
  <2> HIDE DEF m
  <2>5. m # None /\ m \in UpTo(t)
    BY <2>3
  <2> QED BY <2>3, <2>4, <2>5
<1> QED BY <1>1, <1>2

(* What the pages make of a progress, field by field. *)
ProgressOf(phase, effective, offset, last, wstart, wend) ==
    [phase |-> phase, effective |-> effective, offset |-> offset, last |-> last,
     wstart |-> wstart, wend |-> wend]

LEMMA ProgressIs ==
    ASSUME NEW p \in Progresses
    PROVE  p = ProgressOf(p.phase, p.effective, p.offset, p.last, p.wstart, p.wend)
  BY DEF Progresses, ProgressOf

LEMMA ProgressDated ==
    ASSUME NEW t \in Nat, NEW last \in UpTo(t), NEW wend \in UpTo(t),
           NEW offset \in 0..Cardinality(Employees), NEW phase \in {None, "employees", "employees_done"},
           NEW effective \in {None, "incremental", "full"}, NEW wstart \in UpTo(t)
    PROVE  Dated(ProgressOf(phase, effective, offset, last, wstart, wend), t)
  BY DEF ProgressOf, Dated, Progresses, UpTo, Stamps

LEMMA FieldsDated ==
    ASSUME NEW t \in Nat, NEW p, Dated(p, t)
    PROVE  /\ p \in Progresses /\ p.last \in UpTo(t) /\ p.wend \in UpTo(t) /\ p.wstart \in UpTo(t)
           /\ p.offset \in 0..Cardinality(Employees) /\ p.phase \in {None, "employees", "employees_done"}
           /\ p.effective \in {None, "incremental", "full"}
  BY DEF Dated, Progresses

LEMMA FullReadingIs ==
    ASSUME NEW p \in Progresses
    PROVE  FullReading(p) = ProgressOf("employees", "full", 0, None, p.wstart, p.wend)
<1> DEFINE a == [p EXCEPT !.phase = "employees"]
           b == [a EXCEPT !.effective = "full"]
           c == [b EXCEPT !.offset = 0]
           d == [c EXCEPT !.last = None]
<1>1. FullReading(p) = d
  BY DEF FullReading
<1>2. a = ProgressOf("employees", p.effective, p.offset, p.last, p.wstart, p.wend)
  BY ProgressIs DEF ProgressOf
<1> HIDE DEF a
<1>3. b = ProgressOf("employees", "full", p.offset, p.last, p.wstart, p.wend)
  BY <1>2 DEF ProgressOf
<1> HIDE DEF b
<1>4. c = ProgressOf("employees", "full", 0, p.last, p.wstart, p.wend)
  BY <1>3 DEF ProgressOf
<1> HIDE DEF c
<1>5. d = ProgressOf("employees", "full", 0, None, p.wstart, p.wend)
  BY <1>4 DEF ProgressOf
<1> QED BY <1>1, <1>5

LEMMA FreshProgress ==
    ASSUME ShieldAssumption, NEW t \in Nat
    PROVE  /\ Dated(NewProgress, t)
           /\ \A p : Dated(p, t) => Dated(FullReading(p), t)
<1>1. 0 \in 0..Cardinality(Employees) /\ None \in UpTo(t)
  <2>1. Cardinality(Employees) \in Nat
    BY FS_CardinalityType DEF ShieldAssumption
  <2> QED BY <2>1 DEF UpTo
<1>2. Dated(NewProgress, t)
  <2>1. NewProgress = ProgressOf(None, None, 0, None, None, None)
    BY DEF NewProgress, ProgressOf
  <2> QED BY <1>1, <2>1, ProgressDated
<1>3. ASSUME NEW p, Dated(p, t) PROVE Dated(FullReading(p), t)
  <2>1. p \in Progresses /\ p.wstart \in UpTo(t) /\ p.wend \in UpTo(t)
    BY <1>3 DEF Dated
  <2> QED BY <1>1, <2>1, FullReadingIs, ProgressDated
<1> QED BY <1>2, <1>3

(* A worker goes on to another step and may save its progress: nothing else of
   the runs changes. *)
Moves(w, step, progress, page, todo) ==
    /\ Goes(w, step, progress, page, todo)
    /\ UNCHANGED runs \/ Checkpoint(w, progress)
    /\ UNCHANGED <<register, clock, archived>>

LEMMA MovesTo ==
    ASSUME Typed, Tables, NEW w \in Workers, NEW step, NEW progress, NEW page, NEW todo,
           Moves(w, step, progress, page, todo)
    PROVE  /\ \A x \in Workers : x # w => workers'[x] = workers[x]
           /\ workers'[w] = [step |-> step, row |-> workers[w].row, force |-> workers[w].force,
                             run |-> progress, page |-> page, todo |-> todo]
           /\ runs' = [r \in Rows |-> runs'[r]]
           /\ \A r \in Rows : \/ runs'[r] = runs[r]
                              \/ r = workers[w].row /\ runs'[r] = [runs[r] EXCEPT !.saved = progress]
<1>1. runs = [r \in Rows |-> runs[r]]
  BY DEF Typed
<1>2. /\ \A x \in Workers : x # w => workers'[x] = workers[x]
      /\ workers'[w] = [step |-> step, row |-> workers[w].row, force |-> workers[w].force,
                        run |-> progress, page |-> page, todo |-> todo]
  BY GoesTo DEF Moves
<1>3. /\ runs' = [r \in Rows |-> runs'[r]]
      /\ \A r \in Rows : \/ runs'[r] = runs[r]
                         \/ r = workers[w].row /\ runs'[r] = [runs[r] EXCEPT !.saved = progress]
  BY <1>1 DEF Moves, Checkpoint
<1> QED BY <1>2, <1>3

LEMMA MovesTyped ==
    ASSUME Typed, Tables, NEW w \in Workers, NEW step, NEW progress, NEW page, NEW todo,
           Moves(w, step, progress, page, todo), workers[w].step # "idle",
           step \in Steps \ {"idle"}, Dated(progress, clock), todo \subseteq Employees,
           step \in OnPage => PageTyped(page, progress.offset, clock),
           step \in OnAnswer => AnswerTyped(page, clock),
           step = "mark" => ~page.more,
           step = "closing" => page.emp \in Employees,
           files' \in [Employees -> FileRows],
           left' \in Budget
    PROVE  Typed'
<1>1. /\ \A x \in Workers : x # w => workers'[x] = workers[x]
      /\ workers'[w] = [step |-> step, row |-> workers[w].row, force |-> workers[w].force,
                        run |-> progress, page |-> page, todo |-> todo]
      /\ runs' = [r \in Rows |-> runs'[r]]
      /\ \A r \in Rows : \/ runs'[r] = runs[r]
                         \/ r = workers[w].row /\ runs'[r] = [runs[r] EXCEPT !.saved = progress]
  BY MovesTo
<1>2. clock' = clock /\ register' = register /\ archived' = archived
  BY DEF Moves
<1>3. workers[w].row \in Rows
  BY DEF Typed, WorkerTyped
<1>4. WorkerTyped(workers'[w], clock)
  BY <1>1, <1>3 DEF WorkerTyped
<1>5. \A x \in Workers : WorkerTyped(workers'[x], clock')
  BY <1>1, <1>2, <1>4 DEF Typed
<1>6. ASSUME NEW r \in Rows PROVE RunTyped(runs'[r], clock')
  <2>1. RunTyped(runs[r], clock)
    BY DEF Typed
  <2>2. RunTyped([runs[r] EXCEPT !.saved = progress], clock)
    BY <2>1 DEF RunTyped, RunRows, Dated
  <2> QED BY <1>1, <1>2, <2>1, <2>2
<1>7. RegisterTyped(register', clock') /\ clock' \in Nat /\ archived' \in UpTo(clock')
  BY <1>2 DEF Typed
<1> QED BY <1>1, <1>5, <1>6, <1>7 DEF Typed

(* Files *)

LEMMA UpsertedTyped ==
    ASSUME Typed, NEW e \in Employees, NEW page, NEW row \in Rows, NEW reopened,
           Upsert(e, page, row, reopened), page.status \in {"in", "out"}, page.upd \in Stamps
    PROVE  /\ files' \in [Employees -> FileRows]
           /\ \A x \in Employees : x # e => files'[x] = files[x]
           /\ files'[e].upd = page.upd /\ files'[e].status = page.status
<1>1. files \in [Employees -> FileRows]
  BY DEF Typed
<1>2. ASSUME NEW f \in FileRows
      PROVE  /\ AlignedFile(f, page, row) \in FileRows
             /\ AlignedFile(f, page, row).upd = page.upd
             /\ AlignedFile(f, page, row).status = page.status
  <2> DEFINE a == [f EXCEPT !.status = page.status]
             b == [a EXCEPT !.upd = page.upd]
             c == [b EXCEPT !.absent = FALSE]
             g == [c EXCEPT !.seen = row]
             h == [g EXCEPT !.handled = FALSE]
             Is(x) == x \in FileRows /\ x.status = page.status
  <2>1. AlignedFile(f, page, row) = IF page.status = "in" THEN h ELSE g
    BY DEF AlignedFile
  <2>2. Is(a)
    BY DEF FileRows
  <2> HIDE DEF a
  <2>3. Is(b) /\ b.upd = page.upd
    BY <2>2 DEF FileRows
  <2> HIDE DEF b
  <2>4. Is(c) /\ c.upd = page.upd
    BY <2>3 DEF FileRows
  <2> HIDE DEF c
  <2>5. Is(g) /\ g.upd = page.upd
    BY <2>4 DEF FileRows
  <2> HIDE DEF g
  <2>6. Is(h) /\ h.upd = page.upd
    BY <2>5 DEF FileRows
  <2> QED BY <2>1, <2>5, <2>6
<1>3. files' = [files EXCEPT ![e] = AlignedFile(files[e], page, row)]
  BY DEF Upsert
<1> QED BY <1>1, <1>2, <1>3

LEMMA UnseenTyped ==
    ASSUME Typed, NEW r, files' = Unseen(r)
    PROVE  /\ files' \in [Employees -> FileRows]
           /\ \A e \in Employees : files'[e].upd = files[e].upd /\ files'[e].status = files[e].status
<1>1. ASSUME NEW f \in FileRows, NEW s \in Rows \cup {None}
      PROVE  LET g == [f EXCEPT !.seen = s]
             IN  g \in FileRows /\ g.upd = f.upd /\ g.status = f.status
  BY DEF FileRows
<1>2. ASSUME NEW e \in Employees
      PROVE  /\ files'[e] \in FileRows
             /\ files'[e].upd = files[e].upd /\ files'[e].status = files[e].status
  <2> DEFINE s == IF files[e].seen = r THEN None ELSE files[e].seen
  <2>1. files[e] \in FileRows
    BY DEF Typed
  <2>2. s \in Rows \cup {None}
    BY <2>1 DEF FileRows
  <2>3. files'[e] = [files[e] EXCEPT !.seen = s]
    BY DEF Unseen
  <2> HIDE DEF s
  <2> QED BY <1>1, <2>1, <2>2, <2>3
<1> QED BY <1>2 DEF Unseen

-----------------------------------------------------------------------------
(* The steps of a reading, as moves *)

LEMMA BeginReadingMoves ==
    ASSUME Typed, NEW w \in Workers, BeginReading(w)
    PROVE  LET run == workers[w].run
           IN /\ workers[w].step = "begin"
              /\ UNCHANGED <<files, accounts, left, disturbed>>
              /\ \/ run.phase = "employees_done" /\ Moves(w, AfterReading(w), run, None, {})
                 \/ run.phase = "employees" /\ Moves(w, "fetch", run, None, {})
                 \/ /\ run.phase = None
                    /\ \E wstart \in {Watermark, None} :
                         Moves(w, "fetch",
                               ProgressOf("employees", IF wstart = None THEN "full" ELSE "incremental",
                                          0, None, wstart, run.wend), None, {})
<1> DEFINE run == workers[w].run
           wstart == IF Mode(w) = "incremental" THEN Watermark ELSE None
           fresh == [FullReading(run) EXCEPT !.wstart = wstart,
                       !.effective = IF wstart = None THEN "full" ELSE "incremental"]
<1>1. run \in Progresses
  BY DEF Typed, WorkerTyped, Dated
<1>2. /\ workers[w].step = "begin"
      /\ \/ run.phase = "employees_done" /\ Moves(w, AfterReading(w), run, None, {})
         \/ run.phase = "employees" /\ Moves(w, "fetch", run, None, {})
         \/ run.phase = None /\ Moves(w, "fetch", fresh, None, {})
      /\ UNCHANGED <<files, accounts, left, disturbed>>
  BY DEF BeginReading, Moves
<1>3. fresh = ProgressOf("employees", IF wstart = None THEN "full" ELSE "incremental",
                         0, None, wstart, run.wend)
  <2> DEFINE effective == IF wstart = None THEN "full" ELSE "incremental"
             a == [FullReading(run) EXCEPT !.wstart = wstart]
             b == [a EXCEPT !.effective = effective]
  <2>1. fresh = b
    OBVIOUS
  <2> HIDE DEF wstart, run
  <2>2. a = ProgressOf("employees", "full", 0, None, wstart, run.wend)
    BY <1>1, FullReadingIs DEF ProgressOf
  <2> HIDE DEF a, effective
  <2>3. b = ProgressOf("employees", effective, 0, None, wstart, run.wend)
    BY <2>2 DEF ProgressOf
  <2> QED BY <2>1, <2>3 DEF effective
<1>4. wstart \in {Watermark, None}
  OBVIOUS
<1> HIDE DEF wstart, fresh
<1> QED BY <1>2, <1>3, <1>4

LEMMA FetchMoves ==
    ASSUME NEW w \in Workers, Fetch(w)
    PROVE  LET run == workers[w].run
               page == PageAt(run.offset, NewestFirst(w))
           IN /\ workers[w].step = "fetch"
              /\ UNCHANGED <<files, accounts, left>>
              /\ \/ /\ Moves(w, "fetch", FullReading(run), None, {})
                    /\ disturbed' = (disturbed \/ Overtaken(w))
                 \/ /\ Moves(w, "page", run, page, {})
                    /\ ~OutOfOrder(run, page)
                    /\ UNCHANGED <<runs, disturbed>>
  BY DEF Fetch, Moves

(* What a worker makes of its progress once a page is applied. *)
NextProgress(w, wend) ==
    LET run == workers[w].run
        page == workers[w].page
    IN  ProgressOf(run.phase, run.effective, IF page.more THEN run.offset + 1 ELSE 0,
                   IF run.effective = "incremental" /\ page.emp # None THEN page.upd ELSE run.last,
                   run.wstart, wend)

LEMMA AfterPageIs ==
    ASSUME Typed, NEW w \in Workers
    PROVE  LET next == AfterPage(workers[w].run, workers[w].page)
           IN  /\ next = NextProgress(w, workers[w].run.wend)
               /\ \A wend : [next EXCEPT !.wend = wend] = NextProgress(w, wend)
               /\ next.wend = workers[w].run.wend
<1> DEFINE run == workers[w].run
           page == workers[w].page
           offset == IF page.more THEN run.offset + 1 ELSE 0
           last == IF run.effective = "incremental" /\ page.emp # None THEN page.upd ELSE run.last
           next == [run EXCEPT !.offset = offset, !.last = last]
           After(wend) == ProgressOf(run.phase, run.effective, offset, last, run.wstart, wend)
<1>1. run \in Progresses
  BY DEF Typed, WorkerTyped, Dated
<1>2. next = After(run.wend)
  <2> DEFINE a == [run EXCEPT !.offset = offset]
             b == [a EXCEPT !.last = last]
  <2>1. next = b
    OBVIOUS
  <2> HIDE DEF offset, last, run
  <2>2. a = ProgressOf(run.phase, run.effective, offset, run.last, run.wstart, run.wend)
    BY <1>1, ProgressIs DEF ProgressOf
  <2> HIDE DEF a
  <2>3. b = ProgressOf(run.phase, run.effective, offset, last, run.wstart, run.wend)
    BY <2>2 DEF ProgressOf
  <2> QED BY <2>1, <2>3
<1>3. AfterPage(run, page) = next /\ \A wend : NextProgress(w, wend) = After(wend)
  BY DEF AfterPage, NextProgress
<1> HIDE DEF offset, last, next
<1>4. next.wend = run.wend /\ \A wend : [next EXCEPT !.wend = wend] = After(wend)
  BY <1>2 DEF ProgressOf
<1> HIDE DEF After, run, page
<1>5. /\ AfterPage(run, page) = NextProgress(w, run.wend)
      /\ \A wend : [AfterPage(run, page) EXCEPT !.wend = wend] = NextProgress(w, wend)
      /\ AfterPage(run, page).wend = run.wend
  BY <1>2, <1>3, <1>4
<1> QED BY <1>5 DEF run, page

LEMMA CommitPageMoves ==
    ASSUME Typed, NEW w \in Workers, NEW reopened, CommitPage(w, reopened),
           UNCHANGED <<register, clock, archived>>
    PROVE  LET page == workers[w].page
           IN /\ Upsert(page.emp, page, workers[w].row, reopened)
              /\ Moves(w, IF page.more THEN "fetch" ELSE "finish",
                       NextProgress(w, MaxStamp({workers[w].run.wend, page.upd})), None, {})
              /\ disturbed' = (disturbed \/ Overtaken(w) \/ Undoes(page))
<1> DEFINE page == workers[w].page
           next == AfterPage(workers[w].run, page)
           read == [next EXCEPT !.wend = MaxStamp({next.wend, page.upd})]
<1>1. /\ Upsert(page.emp, page, workers[w].row, reopened)
      /\ Checkpoint(w, read) /\ Goes(w, IF page.more THEN "fetch" ELSE "finish", read, None, {})
      /\ disturbed' = (disturbed \/ Overtaken(w) \/ Undoes(page))
  BY DEF CommitPage
<1>2. read = NextProgress(w, MaxStamp({workers[w].run.wend, page.upd}))
  <2>1. next.wend = workers[w].run.wend /\ \A wend : [next EXCEPT !.wend = wend] = NextProgress(w, wend)
    BY AfterPageIs
  <2> HIDE DEF next
  <2> QED BY <2>1
<1> HIDE DEF read
<1> QED BY <1>1, <1>2 DEF Moves

(* A page that ends the reading, one whose account is to be reopened, and one
   that is applied. *)
LEMMA ApplyPageMoves ==
    ASSUME Typed, NEW w \in Workers, ApplyPage(w)
    PROVE  LET run == workers[w].run
               page == workers[w].page
               reached == Reached(run, page)
           IN /\ workers[w].step = "page" /\ left' = left
              /\ \/ /\ page.emp = None \/ reached
                    /\ Moves(w, IF reached \/ ~page.more THEN "finish" ELSE "fetch",
                             NextProgress(w, run.wend), None, {})
                    /\ disturbed' = (disturbed \/ Overtaken(w))
                    /\ files' = files
                 \/ /\ ~(page.emp = None \/ reached)
                    /\ Moves(w, "checking", run, page, workers[w].todo)
                    /\ UNCHANGED <<files, runs, disturbed>>
                 \/ /\ ~(page.emp = None \/ reached)
                    /\ CommitPage(w, FALSE) /\ UNCHANGED <<register, clock, archived>>
<1> DEFINE run == workers[w].run
           page == workers[w].page
           reached == Reached(run, page)
           stops == page.emp = None \/ reached
           next == AfterPage(run, page)
           step == IF reached \/ ~page.more THEN "finish" ELSE "fetch"
<1>1. /\ workers[w].step = "page" /\ UNCHANGED <<register, clock, archived, left>>
      /\ stops => /\ Checkpoint(w, next) /\ Goes(w, step, next, None, {})
                  /\ disturbed' = (disturbed \/ Overtaken(w)) /\ files' = files
      /\ ~stops => LookAtJournal(w) \/ CommitPage(w, FALSE)
  BY DEF ApplyPage
<1>2. next = NextProgress(w, run.wend)
  BY AfterPageIs
<1>3. LookAtJournal(w) => /\ Moves(w, "checking", run, page, workers[w].todo)
                          /\ UNCHANGED <<files, runs, disturbed>>
  BY <1>1 DEF LookAtJournal, Moves
<1>4. ASSUME stops PROVE Moves(w, step, NextProgress(w, run.wend), None, {})
  BY <1>1, <1>2, <1>4 DEF Moves
<1> HIDE DEF next, step
<1>5. /\ workers[w].step = "page" /\ left' = left
      /\ \/ /\ stops /\ Moves(w, step, NextProgress(w, run.wend), None, {})
            /\ disturbed' = (disturbed \/ Overtaken(w)) /\ files' = files
         \/ /\ ~stops /\ Moves(w, "checking", run, page, workers[w].todo)
            /\ UNCHANGED <<files, runs, disturbed>>
         \/ /\ ~stops /\ CommitPage(w, FALSE) /\ UNCHANGED <<register, clock, archived>>
  BY <1>1, <1>3, <1>4
<1> QED BY <1>5 DEF step

LEMMA FinishReadingMoves ==
    ASSUME Typed, NEW w \in Workers, FinishReading(w)
    PROVE  LET run == workers[w].run
           IN /\ workers[w].step = "finish"
              /\ UNCHANGED <<files, accounts, left, disturbed>>
              /\ Moves(w, AfterReading(w),
                       ProgressOf("employees_done", run.effective, 0, None, run.wstart,
                                  WatermarkOfReading(w)), None, {})
<1> DEFINE run == workers[w].run
           wend == WatermarkOfReading(w)
           done == [run EXCEPT !.phase = "employees_done", !.offset = 0, !.last = None, !.wend = wend]
<1>1. run \in Progresses
  BY DEF Typed, WorkerTyped, Dated
<1>2. done = ProgressOf("employees_done", run.effective, 0, None, run.wstart, wend)
  <2> DEFINE a == [run EXCEPT !.phase = "employees_done"]
             b == [a EXCEPT !.offset = 0]
             c == [b EXCEPT !.last = None]
             d == [c EXCEPT !.wend = wend]
  <2>1. done = d
    OBVIOUS
  <2> HIDE DEF wend, run
  <2>2. a = ProgressOf("employees_done", run.effective, run.offset, run.last, run.wstart, run.wend)
    BY <1>1, ProgressIs DEF ProgressOf
  <2> HIDE DEF a
  <2>3. b = ProgressOf("employees_done", run.effective, 0, run.last, run.wstart, run.wend)
    BY <2>2 DEF ProgressOf
  <2> HIDE DEF b
  <2>4. c = ProgressOf("employees_done", run.effective, 0, None, run.wstart, run.wend)
    BY <2>3 DEF ProgressOf
  <2> HIDE DEF c
  <2>5. d = ProgressOf("employees_done", run.effective, 0, None, run.wstart, wend)
    BY <2>4 DEF ProgressOf
  <2> QED BY <2>1, <2>5
<1>3. /\ workers[w].step = "finish"
      /\ Checkpoint(w, done) /\ Goes(w, AfterReading(w), done, None, {})
      /\ UNCHANGED <<register, clock, files, accounts, archived, left, disturbed>>
  BY DEF FinishReading
<1> HIDE DEF done, wend
<1> QED BY <1>2, <1>3 DEF Moves, wend

-----------------------------------------------------------------------------
(* Places in the pages *)

LEMMA Counted ==
    ASSUME ShieldAssumption
    PROVE  /\ IsFiniteSet(Employees) /\ Cardinality(Employees) \in Nat
           /\ IsFiniteSet(Listed) /\ Cardinality(Listed) \in Nat
           /\ Cardinality(Listed) <= Cardinality(Employees)
<1>1. IsFiniteSet(Employees) /\ Listed \in SUBSET Employees
  BY DEF ShieldAssumption, Listed
<1>2. IsFiniteSet(Listed) /\ Cardinality(Listed) <= Cardinality(Employees)
  BY <1>1, FS_Subset
<1> QED BY <1>1, <1>2, FS_CardinalityType

(* Whom a page shows is decided by how many come before. *)
LEMMA Ranked ==
    ASSUME ShieldAssumption, Typed, NEW b \in BOOLEAN
    PROVE  /\ \A e \in Listed : Rank(e, b) \in 0..(Cardinality(Listed) - 1)
           /\ \A e, f \in Listed : Precedes(f, e, b) => Rank(f, b) < Rank(e, b)
           /\ \A e, f \in Listed : e = f \/ Precedes(e, f, b) \/ Precedes(f, e, b)
           /\ \A k \in 0..(Cardinality(Listed) - 1) : \E e \in Listed : Rank(e, b) = k
<1> DEFINE R == {p \in Listed \X Listed : Precedes(p[1], p[2], b)}
<1>1. \A e \in Listed : e \in Nat /\ register[e].upd \in Nat
  BY DEF ShieldAssumption, Listed, Typed, RegisterTyped, Entries, Stamps
<1>2. \A e, f \in Listed : <<e, f>> \in R <=> Precedes(e, f, b)
  OBVIOUS
<1>3. \A e \in Listed : Below(R, Listed, e) = {f \in Listed : Precedes(f, e, b)}
  BY <1>2 DEF Below
<1> HIDE DEF R
<1>4. /\ \A e \in Listed : ~Precedes(e, e, b)
      /\ \A e, f, g \in Listed : Precedes(e, f, b) /\ Precedes(f, g, b) => Precedes(e, g, b)
      /\ \A e, f \in Listed : e = f \/ Precedes(e, f, b) \/ Precedes(f, e, b)
  BY <1>1 DEF Precedes
<1>5. StrictOrder(R, Listed)
  BY <1>2, <1>4 DEF StrictOrder
<1>6. \A e \in Listed : Rank(e, b) = Cardinality(Below(R, Listed, e))
  BY <1>3 DEF Rank
<1>7. IsFiniteSet(Listed)
  BY Counted
<1>8. \A e \in Listed : Rank(e, b) \in 0..(Cardinality(Listed) - 1)
  BY <1>5, <1>6, <1>7, RanksFollow
<1>9. ASSUME NEW e \in Listed, NEW f \in Listed, Precedes(f, e, b)
      PROVE  Rank(f, b) < Rank(e, b)
  <2>1. <<f, e>> \in R
    BY <1>2, <1>9
  <2>2. Cardinality(Below(R, Listed, f)) < Cardinality(Below(R, Listed, e))
    BY <1>5, <1>7, <2>1, RanksFollow
  <2> QED BY <1>6, <2>2
<1>10. ASSUME NEW k \in 0..(Cardinality(Listed) - 1) PROVE \E e \in Listed : Rank(e, b) = k
  <2>1. \E e \in Listed : Cardinality(Below(R, Listed, e)) = k
    BY <1>5, <1>7, RanksOnto
  <2> QED BY <1>6, <2>1
<1> QED BY <1>4, <1>8, <1>9, <1>10

LEMMA PageIs ==
    ASSUME ShieldAssumption, Typed, NEW offset \in Nat, NEW b \in BOOLEAN
    PROVE  LET page == PageAt(offset, b)
           IN \/ /\ offset >= Cardinality(Listed)
                 /\ page = [emp |-> None, status |-> "gone", upd |-> 0, more |-> FALSE]
              \/ /\ offset < Cardinality(Listed)
                 /\ page.emp \in Listed /\ Rank(page.emp, b) = offset
                 /\ page.status = register[page.emp].status /\ page.upd = register[page.emp].upd
                 /\ page = [emp |-> page.emp, status |-> page.status, upd |-> page.upd,
                            more |-> offset + 1 < Cardinality(Listed)]
<1> DEFINE n == Cardinality(Listed)
           page == PageAt(offset, b)
<1>1. n \in Nat
  BY Counted
<1>2. CASE offset >= n
  BY <1>2 DEF PageAt
<1>3. CASE offset < n
  <2> DEFINE e == CHOOSE x \in Listed : Rank(x, b) = offset
             more == offset + 1 < n
             a == Answer(e)
  <2>1. e \in Listed /\ Rank(e, b) = offset
    BY <1>1, <1>3, Ranked
  <2>2. page = [a EXCEPT !.more = more]
    BY <1>1, <1>3 DEF PageAt
  <2> HIDE DEF e, more, page, n
  <2>3. page = [emp |-> e, status |-> register[e].status, upd |-> register[e].upd, more |-> more]
    BY <2>2 DEF Answer
  <2>4. page.emp = e /\ page.status = register[e].status /\ page.upd = register[e].upd
    BY <2>3
  <2>5. page = [emp |-> page.emp, status |-> page.status, upd |-> page.upd, more |-> more]
    BY <2>3, <2>4
  <2> QED BY <1>3, <2>1, <2>4, <2>5 DEF page, n, more
<1> QED BY <1>1, <1>2, <1>3

LEMMA PageAtTyped ==
    ASSUME ShieldAssumption, Typed, NEW offset \in Nat, NEW b \in BOOLEAN
    PROVE  PageTyped(PageAt(offset, b), offset, clock)
<1> DEFINE page == PageAt(offset, b)
<1>1. /\ Cardinality(Listed) \in Nat /\ Cardinality(Employees) \in Nat
      /\ Cardinality(Listed) <= Cardinality(Employees) /\ clock \in Nat /\ None \notin Employees
  BY Counted DEF Typed, ShieldAssumption
<1>2. CASE /\ offset >= Cardinality(Listed)
           /\ page = [emp |-> None, status |-> "gone", upd |-> 0, more |-> FALSE]
  <2> HIDE DEF page
  <2>1. page \in Pages /\ page.emp = None /\ page.upd = 0 /\ page.more = FALSE
    BY <1>2 DEF Pages, Stamps
  <2> QED BY <1>1, <2>1 DEF PageTyped, page
<1>3. CASE /\ offset < Cardinality(Listed)
           /\ page.emp \in Listed
           /\ page.status = register[page.emp].status /\ page.upd = register[page.emp].upd
           /\ page = [emp |-> page.emp, status |-> page.status, upd |-> page.upd,
                      more |-> offset + 1 < Cardinality(Listed)]
  <2> HIDE DEF page
  <2>1. /\ page.emp \in Employees /\ register[page.emp] \in Entries
        /\ register[page.emp].upd <= clock /\ register[page.emp].status # "gone"
    BY <1>3 DEF Listed, Typed, RegisterTyped
  <2>2. page.status \in {"in", "out", "gone"} /\ page.upd \in Stamps
    BY <1>3, <2>1 DEF Entries
  <2> DEFINE more == offset + 1 < Cardinality(Listed)
  <2>3. page = [emp |-> page.emp, status |-> page.status, upd |-> page.upd, more |-> more]
    BY <1>3
  <2>4. more \in BOOLEAN /\ (more => offset < Cardinality(Employees))
    BY <1>1
  <2> HIDE DEF more
  <2>8. page \in Pages
    BY <2>1, <2>2, <2>3, <2>4 DEF Pages
  <2>9. page.more = more
    BY <2>3
  <2>5. page.more => offset < Cardinality(Employees)
    BY <2>4, <2>9
  <2>6. page.emp # None /\ page.upd <= clock /\ page.status # "gone"
    BY <1>1, <1>3, <2>1
  <2>7. PageTyped(page, offset, clock)
    BY <2>5, <2>6, <2>8 DEF PageTyped
  <2> QED BY <2>7 DEF page
<1> QED BY <1>2, <1>3, PageIs

-----------------------------------------------------------------------------
(* Every step keeps the types *)

LEMMA UnreadTyped ==
    ASSUME ShieldAssumption, NEW t \in Nat
    PROVE  WorkerTyped(Idle, t) /\ RunTyped(NoRun, t)
<1>1. Dated(NewProgress, t) /\ NewProgress \in Progresses
  BY FreshProgress DEF Dated
<1>2. WorkerTyped(Idle, t)
  BY <1>1 DEF WorkerTyped, Idle, Steps, OnPage, OnAnswer
<1>3. RunTyped(NoRun, t)
  BY <1>1 DEF RunTyped, NoRun, RunRows, Modes, RunStatus, Stamps
<1> QED BY <1>2, <1>3

LEMMA CloseAsTyped ==
    ASSUME ShieldAssumption, Typed, Tables, NEW w \in Workers, NEW status \in RunStatus,
           workers[w].step # "idle", CloseAs(w, status, workers[w].run),
           UNCHANGED <<register, clock, accounts>>, left' \in Budget
    PROVE  Typed'
<1> DEFINE r == workers[w].row
           progress == workers[w].run
<1>1. /\ clock \in Nat /\ r \in Rows /\ Dated(progress, clock) /\ archived \in UpTo(clock)
      /\ runs = [q \in Rows |-> runs[q]] /\ \A q \in Rows : RunTyped(runs[q], clock)
  BY DEF Typed, WorkerTyped
<1>2. \A x \in Workers : WorkerTyped(workers'[x], clock)
  <2>1. workers' = [workers EXCEPT ![w] = Idle] /\ workers = [x \in Workers |-> workers[x]]
    BY DEF CloseAs, Tables
  <2>2. WorkerTyped(Idle, clock) /\ \A x \in Workers : WorkerTyped(workers[x], clock)
    BY <1>1, UnreadTyped DEF Typed
  <2> QED BY <2>1, <2>2
<1>3. /\ runs' = [q \in Rows |-> runs'[q]] /\ \A q \in Rows : RunTyped(runs'[q], clock)
      /\ archived' \in UpTo(clock) /\ files' \in [Employees -> FileRows]
  <2>1. CASE HeldBy(r) = {w} /\ status # "interrupted"
    <3>1. /\ runs' = [runs EXCEPT ![r] = NoRun]
          /\ archived' = archived \/ archived' = MaxStamp({archived, progress.wend})
          /\ files' = Unseen(r)
      BY <2>1 DEF CloseAs
    <3>2. {archived, progress.wend} \in SUBSET UpTo(clock)
      BY <1>1 DEF Dated
    <3>3. MaxStamp({archived, progress.wend}) \in UpTo(clock)
      BY <1>1, <3>2, GreatestStamp
    <3>4. RunTyped(NoRun, clock)
      BY <1>1, UnreadTyped
    <3>5. runs' = [q \in Rows |-> runs'[q]] /\ \A q \in Rows : RunTyped(runs'[q], clock)
      BY <1>1, <3>1, <3>4
    <3> QED BY <1>1, <3>1, <3>3, <3>5, UnseenTyped
  <2>2. CASE ~(HeldBy(r) = {w} /\ status # "interrupted")
    <3> DEFINE x == [[runs[r] EXCEPT !.saved = progress] EXCEPT !.status = status]
    <3>1. /\ runs' = [runs EXCEPT ![r].saved = progress, ![r].status = status]
          /\ UNCHANGED <<archived, files>>
      BY <2>2 DEF CloseAs
    <3>2. RunTyped(x, clock)
      <4>1. RunTyped([runs[r] EXCEPT !.saved = progress], clock)
        BY <1>1 DEF RunTyped, RunRows, Dated
      <4> DEFINE y == [runs[r] EXCEPT !.saved = progress]
      <4> HIDE DEF y
      <4>2. RunTyped([y EXCEPT !.status = status], clock)
        BY <4>1 DEF RunTyped, RunRows, y
      <4> QED BY <4>2 DEF y
    <3>3. runs' = [runs EXCEPT ![r] = x]
      BY <1>1, <3>1
    <3> HIDE DEF x
    <3>4. runs' = [q \in Rows |-> runs'[q]] /\ \A q \in Rows : RunTyped(runs'[q], clock)
      BY <1>1, <3>2, <3>3
    <3> QED BY <1>1, <3>1, <3>4 DEF Typed
  <2> QED BY <2>1, <2>2
<1>4. clock' = clock /\ register' = register /\ accounts' = accounts
  OBVIOUS
<1> QED BY <1>2, <1>3, <1>4 DEF Typed

LEMMA FaultsLeft ==
    ASSUME Typed
    PROVE  /\ left.slow > 0 => [left EXCEPT !.slow = @ - 1] \in Budget
           /\ left.failures > 0 => [left EXCEPT !.failures = @ - 1] \in Budget
           /\ left.edits > 0 => [left EXCEPT !.edits = @ - 1] \in Budget
  BY DEF Typed, Budget

LEMMA TakeTyped ==
    ASSUME Typed, Tables, NEW w \in Workers, NEW r \in Rows, NEW force, NEW progress,
           Take(w, r, force, progress), Dated(progress, clock)
    PROVE  \A x \in Workers : WorkerTyped(workers'[x], clock)
<1> DEFINE new == [step |-> "begin", row |-> r, force |-> force, run |-> progress,
                   page |-> None, todo |-> {}]
<1>1. WorkerTyped(new, clock)
  BY DEF WorkerTyped, Steps, OnPage, OnAnswer
<1>2. workers' = [workers EXCEPT ![w] = new] /\ workers = [x \in Workers |-> workers[x]]
  BY DEF Take, Tables
<1>3. \A x \in Workers : WorkerTyped(workers[x], clock)
  BY DEF Typed
<1> HIDE DEF new
<1> QED BY <1>1, <1>2, <1>3

(* Opening a run closes others; the first free row serves. *)
LEMMA FirstFreeRow ==
    ASSUME ShieldAssumption, NEW m, FreeRows(m) # {}
    PROVE  LET r == CHOOSE x \in FreeRows(m) : \A y \in FreeRows(m) : x <= y
           IN  r \in Rows /\ HeldBy(r) = {}
<1> DEFINE S == FreeRows(m)
           r == CHOOSE x \in S : \A y \in S : x <= y
<1>1. S \in SUBSET Nat /\ S # {} /\ \A x \in S : x \in Rows /\ HeldBy(x) = {}
  BY DEF FreeRows, ShieldAssumption
<1> HIDE DEF S
<1>2. \E x \in S : \A y \in S : x <= y
  BY <1>1, LeastNatural
<1>3. r \in S
  BY <1>2
<1> QED BY <1>1, <1>3 DEF S

LEMMA ClosedTyped ==
    ASSUME Typed, NEW m, NEW q \in Rows, NEW status \in {"running", Closable(m, q)}
    PROVE  /\ status \in RunStatus
           /\ RunTyped([runs[q] EXCEPT !.status = status], clock)
<1>1. RunTyped(runs[q], clock)
  BY DEF Typed
<1>2. status \in RunStatus
  BY <1>1 DEF RunTyped, RunRows, RunStatus, Closable, AfterSweep
<1> QED BY <1>1, <1>2 DEF RunTyped, RunRows, Dated

LEMMA OpenRunTyped ==
    ASSUME ShieldAssumption, Typed, Tables, NEW w \in Workers, NEW m \in Modes, NEW force,
           OpenRun(w, m, force)
    PROVE  Typed'
<1>1. clock \in Nat /\ archived \in UpTo(clock)
  BY DEF Typed
<1>2. left' \in Budget
  <2>1. NothingAlive
    BY DEF OpenRun, ResumeRun, StartRun
  <2> QED BY <2>1, FaultsLeft DEF NothingAlive, Typed
<1>3. CASE ResumeRun(w, m, force)
  <2> PICK r \in Latest(Resumable(m)) :
         /\ runs' = [q \in Rows |-> [runs[q] EXCEPT !.status =
                         IF q = r THEN "running" ELSE Closable(m, q)]]
         /\ Take(w, r, force, runs[r].saved)
    BY <1>3 DEF ResumeRun
  <2>1. r \in Rows /\ Dated(runs[r].saved, clock)
    BY DEF Latest, Resumable, Typed, RunTyped
  <2>2. \A q \in Rows : RunTyped(runs'[q], clock)
    BY ClosedTyped
  <2>3. UNCHANGED <<register, clock, files, accounts, archived>>
    BY <1>3 DEF ResumeRun
  <2>4. \A x \in Workers : WorkerTyped(workers'[x], clock)
    BY <2>1, TakeTyped
  <2> QED BY <1>2, <2>2, <2>3, <2>4 DEF Typed
<1>4. CASE StartRun(w, m, force)
  <2> DEFINE r == CHOOSE x \in FreeRows(m) : \A y \in FreeRows(m) : x <= y
             new == [mode |-> m, status |-> "running", started |-> clock, saved |-> NewProgress]
  <2>1. /\ runs' = [q \in Rows |-> IF q = r THEN new
                                   ELSE [runs[q] EXCEPT !.status = Closable(m, q)]]
        /\ archived' = archived \/ archived' = MaxStamp({archived, runs[r].saved.wend})
        /\ files' = Unseen(r)
        /\ Take(w, r, force, NewProgress)
        /\ UNCHANGED <<register, clock, accounts>>
        /\ FreeRows(m) # {}
    BY <1>4 DEF StartRun
  <2>2. r \in Rows
    BY <2>1, FirstFreeRow
  <2>3. Dated(NewProgress, clock) /\ RunTyped(new, clock)
    <3>1. Dated(NewProgress, clock)
      BY <1>1, FreshProgress
    <3> QED BY <1>1, <3>1 DEF RunTyped, RunRows, RunStatus, Stamps, Dated
  <2> HIDE DEF r, new
  <2>4. \A q \in Rows : RunTyped(runs'[q], clock)
    BY <2>1, <2>3, ClosedTyped
  <2>5. archived' \in UpTo(clock)
    <3>1. {archived, runs[r].saved.wend} \in SUBSET UpTo(clock)
      BY <1>1, <2>2 DEF Typed, RunTyped, Dated
    <3> QED BY <1>1, <2>1, <3>1, GreatestStamp
  <2>6. files' \in [Employees -> FileRows]
    BY <2>1, UnseenTyped
  <2>7. \A x \in Workers : WorkerTyped(workers'[x], clock)
    BY <2>1, <2>2, <2>3, TakeTyped
  <2>8. runs' = [q \in Rows |-> runs'[q]]
    BY <2>1
  <2> QED BY <1>2, <2>1, <2>4, <2>5, <2>6, <2>7, <2>8 DEF Typed
<1> QED BY <1>3, <1>4 DEF OpenRun

LEMMA WatermarkDated ==
    ASSUME ShieldAssumption, Typed
    PROVE  /\ Watermark \in UpTo(clock)
           /\ Watermark # None => Watermark \in SucceededMarks \cup {archived}
           /\ \A x \in SucceededMarks \cup {archived} :
                x # None => Watermark # None /\ x <= Watermark
<1>1. clock \in Nat /\ SucceededMarks \cup {archived} \in SUBSET UpTo(clock)
  BY DEF Typed, SucceededMarks, RunTyped, Dated
<1> QED BY <1>1, GreatestStamp DEF Watermark

LEMMA ReadingTyped ==
    ASSUME ShieldAssumption, Typed, Tables, NEW w \in Workers,
           BeginReading(w) \/ Fetch(w) \/ FinishReading(w) \/ RefuseOrdering(w)
    PROVE  Typed'
<1> DEFINE run == workers[w].run
<1>1. /\ clock \in Nat /\ Dated(run, clock) /\ left \in Budget /\ None \in UpTo(clock)
      /\ 0 \in 0..Cardinality(Employees)
      /\ files \in [Employees -> FileRows]
  BY Counted DEF Typed, WorkerTyped, UpTo
<1>2. /\ run.wend \in UpTo(clock) /\ run.wstart \in UpTo(clock) /\ run.offset \in Nat
      /\ run.effective \in {None, "incremental", "full"}
  BY <1>1, FieldsDated
<1>3. Dated(FullReading(run), clock)
  BY <1>1, FreshProgress
<1>4. AfterReading(w) \in {"absences", "departures"}
  BY DEF AfterReading
<1> HIDE DEF run
<1>5. CASE BeginReading(w)
  <2>1. /\ workers[w].step = "begin" /\ UNCHANGED <<files, accounts, left>>
        /\ \/ Moves(w, AfterReading(w), run, None, {})
           \/ Moves(w, "fetch", run, None, {})
           \/ \E wstart \in {Watermark, None} :
                Moves(w, "fetch",
                      ProgressOf("employees", IF wstart = None THEN "full" ELSE "incremental",
                                 0, None, wstart, run.wend), None, {})
    BY <1>5, BeginReadingMoves DEF run
  <2>2. CASE \E wstart \in {Watermark, None} :
                Moves(w, "fetch",
                      ProgressOf("employees", IF wstart = None THEN "full" ELSE "incremental",
                                 0, None, wstart, run.wend), None, {})
    <3> PICK wstart \in {Watermark, None} :
                Moves(w, "fetch",
                      ProgressOf("employees", IF wstart = None THEN "full" ELSE "incremental",
                                 0, None, wstart, run.wend), None, {})
      BY <2>2
    <3> DEFINE effective == IF wstart = None THEN "full" ELSE "incremental"
               fresh == ProgressOf("employees", effective, 0, None, wstart, run.wend)
    <3>1. wstart \in UpTo(clock)
      BY <1>1, WatermarkDated
    <3>2. effective \in {None, "incremental", "full"}
      OBVIOUS
    <3> HIDE DEF effective
    <3>3. Dated(fresh, clock)
      BY <1>1, <1>2, <3>1, <3>2, ProgressDated
    <3>4. Moves(w, "fetch", fresh, None, {})
      BY DEF effective
    <3> HIDE DEF fresh
    <3> QED BY <1>1, <2>1, <3>3, <3>4, MovesTyped DEF Steps, OnPage, OnAnswer
  <2> QED BY <1>1, <1>4, <2>1, <2>2, MovesTyped DEF Steps, OnPage, OnAnswer
<1>6. CASE Fetch(w)
  <2> DEFINE page == PageAt(run.offset, NewestFirst(w))
  <2>1. /\ workers[w].step = "fetch" /\ UNCHANGED <<files, accounts, left>>
        /\ \/ Moves(w, "fetch", FullReading(run), None, {})
           \/ Moves(w, "page", run, page, {})
    BY <1>6, FetchMoves DEF run
  <2>2. PageTyped(page, run.offset, clock)
    <3>1. NewestFirst(w) \in BOOLEAN
      BY DEF NewestFirst
    <3> QED BY <1>2, <3>1, PageAtTyped
  <2> HIDE DEF page
  <2>3. CASE Moves(w, "fetch", FullReading(run), None, {})
    BY <1>1, <1>3, <2>1, <2>3, MovesTyped DEF Steps, OnPage, OnAnswer
  <2>4. CASE Moves(w, "page", run, page, {})
    BY <1>1, <2>1, <2>2, <2>4, MovesTyped DEF Steps, OnPage, OnAnswer
  <2> QED BY <2>1, <2>3, <2>4
<1>7. CASE FinishReading(w)
  <2> DEFINE wend == WatermarkOfReading(w)
             done == ProgressOf("employees_done", run.effective, 0, None, run.wstart, wend)
  <2>1. /\ workers[w].step = "finish" /\ UNCHANGED <<files, accounts, left>>
        /\ Moves(w, AfterReading(w), done, None, {})
    BY <1>7, FinishReadingMoves DEF run
  <2>2. wend \in UpTo(clock)
    <3>1. Started(w) \in Nat /\ Started(w) <= clock
      BY <2>1 DEF Typed, WorkerTyped, RunTyped, RunRows, Stamps, Started
    <3> QED BY <1>1, <1>2, <3>1 DEF WatermarkOfReading, UpTo, run
  <2> HIDE DEF wend
  <2>3. Dated(done, clock)
    BY <1>1, <1>2, <2>2, ProgressDated
  <2> HIDE DEF done
  <2> QED BY <1>1, <1>4, <2>1, <2>3, MovesTyped DEF Steps, OnPage, OnAnswer
<1>8. CASE RefuseOrdering(w)
  <2>1. /\ workers[w].step = "fetch" /\ UNCHANGED <<files, accounts>>
        /\ Moves(w, "fetch", FullReading(run), None, {})
    BY <1>8 DEF RefuseOrdering, Moves, run
  <2>2. left' \in Budget
    BY <1>8, FaultsLeft DEF RefuseOrdering, Fails
  <2> QED BY <1>1, <1>3, <2>1, <2>2, MovesTyped DEF Steps, OnPage, OnAnswer
<1> QED BY <1>5, <1>6, <1>7, <1>8

(* A page is written, and the reading goes on or ends. *)
LEMMA NextProgressDated ==
    ASSUME ShieldAssumption, Typed, NEW w \in Workers, workers[w].step \in OnPage,
           NEW wend \in UpTo(clock)
    PROVE  Dated(NextProgress(w, wend), clock)
<1> DEFINE run == workers[w].run
           page == workers[w].page
           offset == IF page.more THEN run.offset + 1 ELSE 0
           last == IF run.effective = "incremental" /\ page.emp # None THEN page.upd ELSE run.last
<1>1. clock \in Nat /\ Dated(run, clock) /\ PageTyped(page, run.offset, clock)
  BY DEF Typed, WorkerTyped
<1>2. /\ run.wstart \in UpTo(clock) /\ run.last \in UpTo(clock)
      /\ run.offset \in Nat /\ run.effective \in {None, "incremental", "full"}
      /\ run.phase \in {None, "employees", "employees_done"}
  BY <1>1, FieldsDated
<1>3. offset \in 0..Cardinality(Employees)
  <2>1. Cardinality(Employees) \in Nat
    BY Counted
  <2> QED BY <1>1, <1>2, <2>1 DEF PageTyped
<1>4. last \in UpTo(clock)
  BY <1>1, <1>2 DEF PageTyped, Pages, Stamps, UpTo
<1>5. NextProgress(w, wend) =
        ProgressOf(run.phase, run.effective, offset, last, run.wstart, wend)
  BY DEF NextProgress
<1> HIDE DEF offset, last, run
<1> QED BY <1>1, <1>2, <1>3, <1>4, <1>5, ProgressDated

LEMMA CommitPageTyped ==
    ASSUME ShieldAssumption, Typed, Tables, NEW w \in Workers, NEW reopened,
           CommitPage(w, reopened), workers[w].step \in OnPage, workers[w].page.emp # None,
           UNCHANGED <<register, clock, archived, left>>
    PROVE  Typed'
<1> DEFINE run == workers[w].run
           page == workers[w].page
           wend == MaxStamp({run.wend, page.upd})
           step == IF page.more THEN "fetch" ELSE "finish"
<1>1. /\ Upsert(page.emp, page, workers[w].row, reopened)
      /\ Moves(w, step, NextProgress(w, wend), None, {})
  BY CommitPageMoves
<1>2. workers[w].step # "idle"
  BY DEF OnPage
<1>3. /\ clock \in Nat /\ Dated(run, clock) /\ workers[w].row \in Rows
      /\ PageTyped(page, run.offset, clock) /\ left' \in Budget
  BY <1>2 DEF Typed, WorkerTyped
<1>4. wend \in UpTo(clock)
  <2>1. {run.wend, page.upd} \in SUBSET UpTo(clock)
    BY <1>3 DEF PageTyped, Pages, Stamps, UpTo, Dated
  <2> QED BY <1>3, <2>1, GreatestStamp
<1>5. page.emp \in Employees /\ page.status \in {"in", "out"} /\ page.upd \in Stamps
  BY <1>3 DEF PageTyped, Pages
<1> HIDE DEF page, wend
<1>6. files' \in [Employees -> FileRows]
  BY <1>1, <1>3, <1>5, UpsertedTyped
<1>7. Dated(NextProgress(w, wend), clock)
  BY <1>4, NextProgressDated
<1>8. step \in Steps \ {"idle"} /\ step \notin OnPage \cup OnAnswer /\ step \notin {"mark", "closing"}
  BY DEF Steps, OnPage, OnAnswer
<1>9. {} \subseteq Employees
  OBVIOUS
<1> HIDE DEF step
<1> QED BY <1>1, <1>2, <1>3, <1>6, <1>7, <1>8, <1>9, MovesTyped

LEMMA ApplyPageTyped ==
    ASSUME ShieldAssumption, Typed, Tables, NEW w \in Workers, ApplyPage(w)
    PROVE  Typed'
<1> DEFINE run == workers[w].run
           page == workers[w].page
           step == IF Reached(run, page) \/ ~page.more THEN "finish" ELSE "fetch"
<1>1. /\ workers[w].step = "page" /\ left' = left
      /\ \/ /\ files' = files
            /\ Moves(w, step, NextProgress(w, run.wend), None, {})
         \/ /\ page.emp # None /\ files' = files
            /\ Moves(w, "checking", run, page, workers[w].todo)
         \/ /\ page.emp # None
            /\ CommitPage(w, FALSE) /\ UNCHANGED <<register, clock, archived>>
  BY ApplyPageMoves
<1>2. /\ clock \in Nat /\ Dated(run, clock) /\ left' \in Budget /\ workers[w].todo \subseteq Employees
      /\ files \in [Employees -> FileRows] /\ workers[w].step \in OnPage
      /\ PageTyped(page, run.offset, clock)
  BY <1>1 DEF Typed, WorkerTyped, OnPage
<1>3. step \in {"finish", "fetch"}
  OBVIOUS
<1> HIDE DEF step
<1>4. CASE files' = files /\ Moves(w, step, NextProgress(w, run.wend), None, {})
  <2>1. run.wend \in UpTo(clock)
    BY <1>2, FieldsDated
  <2>2. Dated(NextProgress(w, run.wend), clock)
    BY <1>2, <2>1, NextProgressDated
  <2> QED BY <1>1, <1>2, <1>3, <1>4, <2>2, MovesTyped DEF Steps, OnPage, OnAnswer
<1>5. CASE /\ page.emp # None /\ files' = files
           /\ Moves(w, "checking", run, page, workers[w].todo)
  <2>1. AnswerTyped(page, clock)
    BY <1>2, <1>5 DEF PageTyped, AnswerTyped, Pages
  <2> QED BY <1>1, <1>2, <1>5, <2>1, MovesTyped DEF Steps, OnPage, OnAnswer
<1>6. CASE /\ page.emp # None
           /\ CommitPage(w, FALSE) /\ UNCHANGED <<register, clock, archived>>
  BY <1>1, <1>2, <1>6, CommitPageTyped
<1> QED BY <1>1, <1>4, <1>5, <1>6

(* The steps after the pages: the progress is what it was. *)
LEMMA CommitPresenceMoves ==
    ASSUME NEW w \in Workers, NEW reopened, CommitPresence(w, reopened),
           UNCHANGED <<register, clock, archived>>
    PROVE  LET page == workers[w].page
               step == IF workers[w].todo = {} THEN "departures" ELSE "ask"
           IN /\ Moves(w, step, workers[w].run, None, workers[w].todo)
              /\ Upsert(page.emp, page, workers[w].row, reopened)
              /\ disturbed' = (disturbed \/ Undoes(page))
  BY DEF CommitPresence, Moves

LEMMA MarkAbsenceMoves ==
    ASSUME NEW w \in Workers, MarkAbsence(w)
    PROVE  LET page == workers[w].page
               step == IF workers[w].todo = {} THEN "departures" ELSE "ask"
           IN /\ workers[w].step = "mark" /\ UNCHANGED <<register, clock, archived, left>>
              /\ \/ /\ Moves(w, step, workers[w].run, None, workers[w].todo)
                    /\ UNCHANGED <<files, disturbed>>
                 \/ /\ Moves(w, step, workers[w].run, None, workers[w].todo)
                    /\ files' = [files EXCEPT ![page.emp].absent = TRUE]
                    /\ disturbed' = disturbed
                 \/ /\ page.status # "gone"
                    /\ Moves(w, "checking", workers[w].run, page, workers[w].todo)
                    /\ UNCHANGED <<files, runs, disturbed>>
                 \/ page.status # "gone" /\ CommitPresence(w, FALSE)
<1> DEFINE page == workers[w].page
           e == page.emp
           settled == files[e].absent \/ files[e].seen = workers[w].row
           step == IF workers[w].todo = {} THEN "departures" ELSE "ask"
<1>1. workers[w].step = "mark" /\ UNCHANGED <<register, clock, archived, left>>
  BY DEF MarkAbsence
<1>2. CASE settled \/ Missing(page)
  <2>1. /\ Goes(w, step, workers[w].run, None, workers[w].todo) /\ disturbed' = disturbed
        /\ \/ UNCHANGED <<files, runs>>
           \/ /\ files' = [files EXCEPT ![e].absent = TRUE]
              /\ Checkpoint(w, workers[w].run)
    BY <1>2 DEF MarkAbsence
  <2> QED BY <1>1, <2>1 DEF Moves
<1>3. CASE ~(settled \/ Missing(page))
  <2>1. page.status # "gone" /\ (LookAtJournal(w) \/ CommitPresence(w, FALSE))
    BY <1>3 DEF MarkAbsence, Missing
  <2>2. LookAtJournal(w) => /\ Moves(w, "checking", workers[w].run, page, workers[w].todo)
                            /\ UNCHANGED <<files, runs, disturbed>>
    BY <1>1 DEF LookAtJournal, Moves
  <2> QED BY <1>1, <2>1, <2>2
<1> QED BY <1>2, <1>3

LEMMA MarkedAbsent ==
    ASSUME Typed, NEW e \in Employees, files' = [files EXCEPT ![e].absent = TRUE]
    PROVE  /\ files' \in [Employees -> FileRows]
           /\ \A x \in Employees : files'[x].upd = files[x].upd /\ files'[x].status = files[x].status
<1> DEFINE yes == TRUE
           g == [files[e] EXCEPT !.absent = yes]
<1>1. files \in [Employees -> FileRows] /\ files[e] \in FileRows /\ yes \in BOOLEAN
  BY DEF Typed
<1>2. files' = [files EXCEPT ![e] = g]
  BY <1>1
<1> HIDE DEF yes
<1>3. g \in FileRows /\ g.upd = files[e].upd /\ g.status = files[e].status
  BY <1>1 DEF FileRows
<1> HIDE DEF g
<1> QED BY <1>1, <1>2, <1>3

LEMMA ClosedFile ==
    ASSUME Typed, NEW e \in Employees, files' = [files EXCEPT ![e].handled = TRUE]
    PROVE  /\ files' \in [Employees -> FileRows]
           /\ \A x \in Employees : files'[x].upd = files[x].upd /\ files'[x].status = files[x].status
<1> DEFINE yes == TRUE
           g == [files[e] EXCEPT !.handled = yes]
<1>1. files \in [Employees -> FileRows] /\ files[e] \in FileRows /\ yes \in BOOLEAN
  BY DEF Typed
<1>2. files' = [files EXCEPT ![e] = g]
  BY <1>1
<1> HIDE DEF yes
<1>3. g \in FileRows /\ g.upd = files[e].upd /\ g.status = files[e].status
  BY <1>1 DEF FileRows
<1> HIDE DEF g
<1> QED BY <1>1, <1>2, <1>3

LEMMA RecheckTyped ==
    ASSUME Typed, NEW e \in Employees
    PROVE  AnswerTyped(Recheck(e), clock) /\ Recheck(e).emp = e /\ ~Recheck(e).more
<1>1. register[e] \in Entries /\ register[e].upd <= clock
  BY DEF Typed, RegisterTyped
<1>2. register[e].status \in {"in", "out", "gone"} /\ register[e].upd \in Stamps
  BY <1>1 DEF Entries
<1> DEFINE no == FALSE
<1>3. Recheck(e) = [emp |-> e, status |-> register[e].status, upd |-> register[e].upd, more |-> no]
      /\ no \in BOOLEAN /\ ~no
  BY DEF Recheck, Answer
<1> HIDE DEF no
<1>4. Recheck(e) \in Pages
  BY <1>2, <1>3 DEF Pages
<1>5. Recheck(e).upd <= clock /\ Recheck(e).emp = e /\ ~Recheck(e).more
  BY <1>1, <1>3
<1> QED BY <1>4, <1>5 DEF AnswerTyped

LEMMA EndingTyped ==
    ASSUME ShieldAssumption, Typed, Tables, NEW w \in Workers,
           DetectAbsences(w) \/ ListDepartures(w) \/ Succeed(w) \/ FailRun(w) \/ Crash(w)
    PROVE  Typed'
<1> DEFINE run == workers[w].run
<1>1. /\ clock \in Nat /\ Dated(run, clock) /\ left \in Budget
      /\ files \in [Employees -> FileRows]
      /\ {"succeeded", "failed", "interrupted"} \subseteq RunStatus
  BY DEF Typed, WorkerTyped, RunStatus
<1>2. UnseenBy(workers[w].row) \subseteq Employees /\ PendingDepartures \subseteq Employees
  BY DEF UnseenBy, PendingDepartures
<1>3. CASE DetectAbsences(w)
  <2>1. /\ workers[w].step = "absences" /\ UNCHANGED <<register, clock, accounts, left>>
        /\ \/ CloseAs(w, "failed", run)
           \/ /\ \E step \in {"departures", "ask"} :
                   Goes(w, step, run, None, UnseenBy(workers[w].row))
              /\ UNCHANGED <<runs, archived, files>>
    BY <1>3 DEF DetectAbsences
  <2>2. CASE CloseAs(w, "failed", run)
    BY <1>1, <2>1, <2>2, CloseAsTyped
  <2>3. CASE /\ \E step \in {"departures", "ask"} :
                  Goes(w, step, run, None, UnseenBy(workers[w].row))
             /\ UNCHANGED <<runs, archived, files>>
    <3> PICK step \in {"departures", "ask"} : Goes(w, step, run, None, UnseenBy(workers[w].row))
      BY <2>3
    <3>1. Moves(w, step, run, None, UnseenBy(workers[w].row))
      BY <2>1, <2>3 DEF Moves
    <3> QED BY <1>1, <1>2, <2>1, <2>3, <3>1, MovesTyped DEF Steps, OnPage, OnAnswer
  <2> QED BY <2>1, <2>2, <2>3
<1>4. CASE ListDepartures(w)
  <2>1. /\ workers[w].step = "departures" /\ UNCHANGED <<register, clock, accounts, left>>
        /\ \/ CloseAs(w, "failed", run)
           \/ /\ Goes(w, "close", run, None, PendingDepartures)
              /\ UNCHANGED <<runs, archived, files>>
    BY <1>4 DEF ListDepartures
  <2>2. CASE CloseAs(w, "failed", run)
    BY <1>1, <2>1, <2>2, CloseAsTyped
  <2>3. CASE /\ Goes(w, "close", run, None, PendingDepartures)
             /\ UNCHANGED <<runs, archived, files>>
    <3>1. Moves(w, "close", run, None, PendingDepartures)
      BY <2>1, <2>3 DEF Moves
    <3> QED BY <1>1, <1>2, <2>1, <2>3, <3>1, MovesTyped DEF Steps, OnPage, OnAnswer
  <2> QED BY <2>1, <2>2, <2>3
<1>5. CASE Succeed(w)
  BY <1>1, <1>5, CloseAsTyped DEF Succeed
<1>6. CASE FailRun(w)
  <2>1. workers[w].step # "idle" /\ left' \in Budget
    BY <1>6, FaultsLeft DEF FailRun, OnTheNetwork, Fails
  <2> QED BY <1>1, <1>6, <2>1, CloseAsTyped DEF FailRun
<1>7. CASE Crash(w)
  <2>1. left' \in Budget /\ UNCHANGED <<register, clock, files, accounts, runs, archived>>
    BY <1>7, FaultsLeft DEF Crash, Fails
  <2>2. \A x \in Workers : WorkerTyped(workers'[x], clock)
    <3>1. workers' = [workers EXCEPT ![w] = Idle] /\ workers = [x \in Workers |-> workers[x]]
      BY <1>7 DEF Crash, Tables
    <3>2. WorkerTyped(Idle, clock) /\ \A x \in Workers : WorkerTyped(workers[x], clock)
      BY <1>1, UnreadTyped DEF Typed
    <3> QED BY <3>1, <3>2
  <2> QED BY <2>1, <2>2 DEF Typed
<1> QED BY <1>3, <1>4, <1>5, <1>6, <1>7

LEMMA CommitPresenceTyped ==
    ASSUME ShieldAssumption, Typed, Tables, NEW w \in Workers, NEW reopened,
           CommitPresence(w, reopened), workers[w].step \in OnAnswer, workers[w].page.status # "gone",
           UNCHANGED <<register, clock, archived, left>>
    PROVE  Typed'
<1> DEFINE run == workers[w].run
           page == workers[w].page
           todo == workers[w].todo
           step == IF todo = {} THEN "departures" ELSE "ask"
<1>1. /\ Moves(w, step, run, None, todo)
      /\ Upsert(page.emp, page, workers[w].row, reopened)
  BY CommitPresenceMoves
<1>2. workers[w].step # "idle"
  BY DEF OnAnswer
<1>3. /\ clock \in Nat /\ Dated(run, clock) /\ workers[w].row \in Rows
      /\ AnswerTyped(page, clock) /\ left' \in Budget /\ todo \subseteq Employees
  BY <1>2 DEF Typed, WorkerTyped
<1>4. page.emp \in Employees /\ page.status \in {"in", "out"} /\ page.upd \in Stamps
  BY <1>3 DEF AnswerTyped, Pages
<1> HIDE DEF page
<1>5. files' \in [Employees -> FileRows]
  BY <1>1, <1>3, <1>4, UpsertedTyped
<1>6. step \in Steps \ {"idle"} /\ step \notin OnPage \cup OnAnswer /\ step \notin {"mark", "closing"}
  BY DEF Steps, OnPage, OnAnswer
<1> HIDE DEF step
<1> QED BY <1>1, <1>2, <1>3, <1>5, <1>6, MovesTyped

LEMMA MarkingTyped ==
    ASSUME ShieldAssumption, Typed, Tables, NEW w \in Workers,
           AskEmployee(w) \/ MarkAbsence(w) \/ LockDeparture(w) \/ CloseAccount(w)
    PROVE  Typed'
<1> DEFINE run == workers[w].run
           page == workers[w].page
           todo == workers[w].todo
<1>1. /\ clock \in Nat /\ Dated(run, clock) /\ left \in Budget /\ todo \subseteq Employees
      /\ files \in [Employees -> FileRows]
  BY DEF Typed, WorkerTyped
<1>2. CASE AskEmployee(w)
  <2> PICK e \in todo : Goes(w, "mark", run, Recheck(e), todo \ {e})
    BY <1>2 DEF AskEmployee
  <2>1. workers[w].step = "ask" /\ UNCHANGED <<files, accounts, left>>
        /\ Moves(w, "mark", run, Recheck(e), todo \ {e})
    BY <1>2 DEF AskEmployee, Moves
  <2>2. e \in Employees /\ todo \ {e} \subseteq Employees
    BY <1>1
  <2>3. AnswerTyped(Recheck(e), clock) /\ ~Recheck(e).more
    BY <2>2, RecheckTyped
  <2> QED BY <1>1, <2>1, <2>2, <2>3, MovesTyped DEF Steps, OnPage, OnAnswer
<1>3. CASE MarkAbsence(w)
  <2> DEFINE step == IF todo = {} THEN "departures" ELSE "ask"
  <2>1. /\ workers[w].step = "mark" /\ UNCHANGED <<register, clock, archived, left>>
        /\ \/ files' = files /\ Moves(w, step, run, None, todo)
           \/ /\ files' = [files EXCEPT ![page.emp].absent = TRUE]
              /\ Moves(w, step, run, None, todo)
           \/ /\ page.status # "gone" /\ files' = files
              /\ Moves(w, "checking", run, page, todo)
           \/ page.status # "gone" /\ CommitPresence(w, FALSE)
    BY <1>3, MarkAbsenceMoves
  <2>2. workers[w].step \in OnAnswer /\ AnswerTyped(page, clock) /\ ~page.more
    BY <2>1 DEF Typed, WorkerTyped, OnAnswer
  <2>3. step \in {"departures", "ask"} /\ left' \in Budget /\ page.emp \in Employees
    BY <1>1, <2>1, <2>2 DEF AnswerTyped
  <2> HIDE DEF step
  <2>4. CASE files' = files /\ Moves(w, step, run, None, todo)
    BY <1>1, <2>1, <2>3, <2>4, MovesTyped DEF Steps, OnPage, OnAnswer
  <2>5. CASE /\ files' = [files EXCEPT ![page.emp].absent = TRUE]
             /\ Moves(w, step, run, None, todo)
    <3>1. files' \in [Employees -> FileRows]
      <4>1. files' = [files EXCEPT ![page.emp].absent = TRUE]
        BY <2>5
      <4> HIDE DEF page
      <4> QED BY <2>3, <4>1, MarkedAbsent
    <3>2. Moves(w, step, run, None, todo)
      BY <2>5
    <3>3. workers[w].step = "mark"
      BY <2>1
    <3> QED BY <1>1, <2>3, <3>1, <3>2, <3>3, MovesTyped DEF Steps, OnPage, OnAnswer
  <2>6. CASE /\ page.status # "gone" /\ files' = files
             /\ Moves(w, "checking", run, page, todo)
    <3>1. PageTyped(page, run.offset, clock)
      BY <2>2, <2>6 DEF PageTyped, AnswerTyped
    <3> QED BY <1>1, <2>1, <2>2, <2>3, <2>6, <3>1, MovesTyped DEF Steps, OnPage, OnAnswer
  <2>7. CASE page.status # "gone" /\ CommitPresence(w, FALSE)
    BY <2>1, <2>2, <2>7, CommitPresenceTyped
  <2> QED BY <2>1, <2>4, <2>5, <2>6, <2>7
<1>4. CASE LockDeparture(w)
  <2> PICK e \in todo :
        IF StillDeparted(e)
        THEN Goes(w, "closing", run, [emp |-> e, active |-> accounts[e].active], todo \ {e})
        ELSE Goes(w, "close", run, None, todo \ {e})
    BY <1>4 DEF LockDeparture
  <2>1. /\ workers[w].step = "close"
        /\ UNCHANGED <<register, clock, files, accounts, runs, archived, left>>
    BY <1>4 DEF LockDeparture
  <2>2. e \in Employees /\ todo \ {e} \subseteq Employees
    BY <1>1
  <2> DEFINE read == [emp |-> e, active |-> accounts[e].active]
  <2>3. read.emp = e
    OBVIOUS
  <2>4. Moves(w, "closing", run, read, todo \ {e}) \/ Moves(w, "close", run, None, todo \ {e})
    BY <2>1 DEF Moves
  <2> HIDE DEF read
  <2> QED BY <1>1, <2>1, <2>2, <2>3, <2>4, MovesTyped DEF Steps, OnPage, OnAnswer
<1>5. CASE CloseAccount(w)
  <2> DEFINE e == page.emp
  <2>1. /\ workers[w].step = "closing" /\ left' = left
        /\ files' = [files EXCEPT ![e].handled = TRUE]
        /\ Moves(w, "close", run, None, todo)
    BY <1>5 DEF CloseAccount, Moves
  <2>2. e \in Employees
    BY <2>1 DEF Typed, WorkerTyped
  <2> HIDE DEF e
  <2>3. files' \in [Employees -> FileRows]
    BY <2>1, <2>2, ClosedFile
  <2>4. workers[w].step = "closing" /\ left' = left /\ Moves(w, "close", run, None, todo)
    BY <2>1
  <2> QED BY <1>1, <2>3, <2>4, MovesTyped DEF Steps, OnPage, OnAnswer
<1> QED BY <1>2, <1>3, <1>4, <1>5

(* The page or the answer is still in hand while the journal is looked at. *)
LEMMA ReopeningTyped ==
    ASSUME ShieldAssumption, Typed, Tables, NEW w \in Workers,
           CheckJournal(w) \/ ReopenAccount(w)
    PROVE  Typed'
<1> DEFINE run == workers[w].run
           page == workers[w].page
<1>1. /\ UNCHANGED <<register, clock, archived, left>>
      /\ workers[w].step \in {"checking", "reopening"}
      /\ \/ \E reopened \in BOOLEAN : Commit(w, reopened)
         \/ /\ Goes(w, "reopening", run, page, workers[w].todo)
            /\ UNCHANGED <<files, runs>>
  BY DEF CheckJournal, ReopenAccount
<1>2. workers[w].step \in OnPage /\ workers[w].step \in OnAnswer
  BY <1>1 DEF OnPage, OnAnswer
<1>3. /\ Dated(run, clock) /\ left' \in Budget /\ workers[w].todo \subseteq Employees
      /\ files \in [Employees -> FileRows]
      /\ PageTyped(page, run.offset, clock) /\ AnswerTyped(page, clock)
  BY <1>1, <1>2 DEF Typed, WorkerTyped
<1>4. page.emp # None /\ page.status # "gone"
  BY <1>3 DEF PageTyped, AnswerTyped, ShieldAssumption
<1>5. ASSUME NEW reopened \in BOOLEAN, Commit(w, reopened) PROVE Typed'
  <2>1. CASE run.phase = "employees"
    BY <1>1, <1>2, <1>4, <1>5, <2>1, CommitPageTyped DEF Commit
  <2>2. CASE run.phase # "employees"
    BY <1>1, <1>2, <1>4, <1>5, <2>2, CommitPresenceTyped DEF Commit
  <2> QED BY <2>1, <2>2
<1>6. CASE /\ Goes(w, "reopening", run, page, workers[w].todo)
           /\ UNCHANGED <<files, runs>>
  <2>1. Moves(w, "reopening", run, page, workers[w].todo)
    BY <1>1, <1>6 DEF Moves
  <2> QED BY <1>1, <1>3, <1>6, <2>1, MovesTyped DEF Steps
<1> QED BY <1>1, <1>5, <1>6

LEMMA EditRegisterTyped ==
    ASSUME ShieldAssumption, Typed, NEW e \in Employees, NEW status \in {"in", "out", "gone"},
           EditRegister(e, status)
    PROVE  Typed'
<1> PICK late \in 0..Skew :
        register' = [register EXCEPT ![e] =
             [status |-> status,
              upd |-> IF status = "gone" \/ clock + 1 - late < 0 THEN 0 ELSE clock + 1 - late]]
  BY DEF EditRegister
<1> DEFINE upd == IF status = "gone" \/ clock + 1 - late < 0 THEN 0 ELSE clock + 1 - late
           new == [status |-> status, upd |-> upd]
<1>1. clock \in Nat /\ clock' = clock + 1 /\ clock' \in Nat /\ clock <= clock' /\ Skew \in Nat
  BY DEF EditRegister, Typed, ShieldAssumption
<1>2. upd \in Nat /\ upd <= clock'
  BY <1>1
<1> HIDE DEF upd
<1>3. new \in Entries /\ new.upd <= clock'
  BY <1>2 DEF Entries, Stamps
<1>4. register' = [register EXCEPT ![e] = new]
  BY DEF upd
<1> HIDE DEF new
<1>5. RegisterTyped(register', clock')
  <2>1. register \in [Employees -> Entries] /\ \A f \in Employees : register[f].upd <= clock
    BY DEF Typed, RegisterTyped
  <2>2. \A f \in Employees : register[f].upd \in Nat
    BY <2>1 DEF Entries, Stamps
  <2>3. \A f \in Employees : register'[f].upd <= clock'
    BY <1>1, <1>3, <1>4, <2>1, <2>2
  <2> QED BY <1>3, <1>4, <2>1, <2>3 DEF RegisterTyped
<1>6. UNCHANGED <<files, accounts, runs, archived, workers>> /\ left' \in Budget
  BY FaultsLeft DEF EditRegister
<1>7. /\ archived \in UpTo(clock')
      /\ \A r \in Rows : RunTyped(runs[r], clock')
      /\ \A w \in Workers : WorkerTyped(workers[w], clock')
  BY <1>1, LaterDated DEF Typed
<1> QED BY <1>1, <1>5, <1>6, <1>7 DEF Typed

LEMMA AdministratorTyped ==
    ASSUME Typed, NEW e \in Employees, SaveBlock(e) \/ RecordBlock(e) \/ UnblockUser(e)
    PROVE  Typed'
<1>1. UNCHANGED <<register, clock, files, runs, archived, workers, left>>
  BY DEF SaveBlock, RecordBlock, UnblockUser
<1> QED BY <1>1 DEF Typed

LEMMA TypedInit == ASSUME ShieldAssumption, Init PROVE Typed
<1>1. clock = 0 /\ clock \in Nat /\ left \in Budget /\ archived \in UpTo(clock)
  BY DEF Init, ShieldAssumption, UpTo
<1>2. RegisterTyped(register, clock)
  BY <1>1 DEF Init, RegisterTyped, Entries, Stamps
<1>3. files \in [Employees -> FileRows]
  BY DEF Init, FileRows, Stamps
<1>5. runs = [r \in Rows |-> runs[r]] /\ \A r \in Rows : RunTyped(runs[r], clock)
  BY <1>1, UnreadTyped DEF Init
<1>6. \A w \in Workers : WorkerTyped(workers[w], clock)
  BY <1>1, UnreadTyped DEF Init
<1> QED BY <1>1, <1>2, <1>3, <1>5, <1>6 DEF Typed

LEMMA TypedStep == ASSUME ShieldAssumption, Typed, Tables, [Next]_vars PROVE Typed'
<1>1. ASSUME NEW w \in Workers,
             \/ \E m \in left.modes, force \in left.forced : OpenRun(w, m, force)
             \/ WorkerStep(w)
             \/ FailRun(w) \/ RefuseOrdering(w) \/ Crash(w)
      PROVE  Typed'
  <2>1. CASE \E m \in left.modes, force \in left.forced : OpenRun(w, m, force)
    <3>1. left.modes \subseteq Modes
      BY DEF Typed, Budget
    <3> QED BY <2>1, <3>1, OpenRunTyped
  <2>2. CASE BeginReading(w) \/ Fetch(w) \/ FinishReading(w) \/ RefuseOrdering(w)
    BY <2>2, ReadingTyped
  <2>3. CASE ApplyPage(w)
    BY <2>3, ApplyPageTyped
  <2>4. CASE DetectAbsences(w) \/ ListDepartures(w) \/ Succeed(w) \/ FailRun(w) \/ Crash(w)
    BY <2>4, EndingTyped
  <2>5. CASE AskEmployee(w) \/ MarkAbsence(w) \/ LockDeparture(w) \/ CloseAccount(w)
    BY <2>5, MarkingTyped
  <2>6. CASE CheckJournal(w) \/ ReopenAccount(w)
    BY <2>6, ReopeningTyped
  <2> QED BY <1>1, <2>1, <2>2, <2>3, <2>4, <2>5, <2>6 DEF WorkerStep
<1>2. ASSUME NEW e \in Employees,
             \/ \E status \in {"in", "out", "gone"} : EditRegister(e, status)
             \/ SaveBlock(e) \/ RecordBlock(e) \/ UnblockUser(e)
      PROVE  Typed'
  BY <1>2, EditRegisterTyped, AdministratorTyped
<1>3. CASE UNCHANGED vars
  BY <1>3 DEF vars, Typed
<1> QED BY <1>1, <1>2, <1>3 DEF Next

(* Every value the register, the pages, the runs and the workers carry from one
   to the other is one its table accepts, and none is dated in the future. *)
THEOREM ShieldTyped == Spec => []ShieldTypeOK
<1>1. Init => Typed
  BY ShieldAssumption, TypedInit
<1>2. Typed /\ ShieldInv /\ [Next]_vars => Typed'
  BY ShieldAssumption, TypedStep DEF ShieldInv
<1>3. Typed /\ ShieldInv => ShieldTypeOK
  BY TypedOK DEF ShieldInv
<1> QED BY <1>1, <1>2, <1>3, ShieldInvariant, PTL DEF Spec

-----------------------------------------------------------------------------
(* What a reading owes to the files that differ from the register.  A view is
   the register, the employees whose files are late and their places in the
   pages; nothing below mentions a variable, so that what holds of one state's
   view is carried to the next one's. *)
Late == {e \in Listed : ~InStep(e)}
View == [reg |-> register, late |-> Late,
         place |-> [b \in BOOLEAN |-> [e \in Employees |-> Rank(e, b)]]]

SafeFrom(W, V) == W # None => \A e \in V.late : V.reg[e].upd >= W - Overlap

Incremental(p) == p.effective = "incremental"

(* The watermark a reading would leave if it ended now, s being its start. *)
Bound(p, s) == IF Incremental(p) THEN p.wend ELSE s
Covered(p, s, V) == Bound(p, s) # None => \A e \in V.late :
    V.place[Incremental(p)][e] >= p.offset \/ V.reg[e].upd >= Bound(p, s) - Overlap

Ordered(p) ==
    /\ p.phase = None => p = NewProgress
    /\ Incremental(p) => p.wstart # None
    /\ Incremental(p) /\ p.wend # None /\ p.phase = "employees" => p.last # None /\ p.last <= p.wend
    /\ Incremental(p) /\ p.wend = None /\ p.offset > 0 => p.last # None /\ p.last < p.wstart - Overlap

Good(p, s, V) ==
    /\ Ordered(p) /\ SafeFrom(p.wstart, V)
    /\ p.phase = "employees" => Covered(p, s, V)
    /\ p.phase = "employees_done" => SafeFrom(p.wend, V)

(* A page in hand: it shows the employee at its offset as the register has
   them, and says of the others that they come after it, or are recent. *)
PageBound(p, s, page) == IF Incremental(p) /\ p.wend = None THEN page.upd ELSE Bound(p, s)
PageKnown(p, s, page, V) ==
    /\ page.more => page.emp # None
    /\ page.emp # None /\ p.last # None /\ Incremental(p) => page.upd <= p.last
    /\ \A e \in V.late :
         \/ e = page.emp /\ page.upd = V.reg[e].upd /\ page.status = V.reg[e].status
         \/ /\ page.more /\ V.place[Incremental(p)][e] > p.offset
            /\ Incremental(p) => V.reg[e].upd <= page.upd
         \/ V.reg[e].upd >= PageBound(p, s, page) - Overlap

AfterPages == {"absences", "ask", "mark", "departures", "close", "closing"}
Knows(x, s, V) ==
    /\ Good(x.run, s, V)
    /\ x.step \in {"fetch", "page", "finish"} => x.run.phase = "employees"
    /\ HoldsPage(x) => PageKnown(x.run, s, x.page, V)
    /\ x.step = "finish" => SafeFrom(Bound(x.run, s), V)
    /\ x.step \in AfterPages => x.run.phase = "employees_done"
    /\ x.step \in {"checking", "reopening"} => x.run.phase \in {"employees", "employees_done"}
Kept(x, V) ==
    /\ x.status \in {"running", "interrupted"} => Good(x.saved, x.started, V)
    /\ x.status = "succeeded" => SafeFrom(x.saved.wend, V)

MarksHold(ws, rs, ar, V) ==
    /\ \A w \in Workers : ws[w].step # "idle" => Knows(ws[w], rs[ws[w].row].started, V)
    /\ \A r \in Rows : Kept(rs[r], V)
    /\ SafeFrom(ar, V)

WatermarkInv == ~disturbed => MarksHold(workers, runs, archived, View)

(* A view: late employees have a stamp, a status and a place. *)
IsView(V) ==
    /\ V.late \subseteq Employees
    /\ \A e \in V.late : V.reg[e].upd \in Nat /\ \A b \in BOOLEAN : V.place[b][e] \in Nat

(* No less is known in the view U than in V: who is late was, at the same
   stamp and no nearer, or is dated t but for the overlap. *)
Eases(U, V, t) == \A e \in U.late :
    \/ /\ e \in V.late /\ U.reg[e] = V.reg[e]
       /\ \A b \in BOOLEAN : U.place[b][e] >= V.place[b][e]
    \/ U.reg[e].upd >= t - Overlap

LEMMA WatermarkEased ==
    ASSUME ShieldAssumption, NEW t \in Nat, NEW U, NEW V, IsView(U), IsView(V), Eases(U, V, t),
           NEW W \in UpTo(t), SafeFrom(W, V)
    PROVE  SafeFrom(W, U)
<1>1. ASSUME W # None, NEW e \in U.late PROVE U.reg[e].upd >= W - Overlap
  <2>1. W \in Nat /\ W <= t /\ Overlap \in Nat /\ U.reg[e].upd \in Nat
    BY <1>1 DEF UpTo, ShieldAssumption, IsView
  <2>2. CASE e \in V.late /\ U.reg[e] = V.reg[e]
    BY <1>1, <2>2 DEF SafeFrom
  <2>3. CASE U.reg[e].upd >= t - Overlap
    BY <2>1, <2>3
  <2> QED BY <1>1, <2>2, <2>3 DEF Eases
<1> QED BY <1>1 DEF SafeFrom

LEMMA ReadingEased ==
    ASSUME ShieldAssumption, NEW t \in Nat, NEW U, NEW V, IsView(U), IsView(V), Eases(U, V, t),
           NEW p, Dated(p, t), NEW s \in 0..t
    PROVE  /\ Good(p, s, V) => Good(p, s, U)
           /\ SafeFrom(Bound(p, s), V) => SafeFrom(Bound(p, s), U)
           /\ \A page : page.upd \in Nat /\ page.upd <= t /\ PageKnown(p, s, page, V)
                          => PageKnown(p, s, page, U)
<1>1. /\ p.wstart \in UpTo(t) /\ p.wend \in UpTo(t) /\ p.offset \in Nat /\ s \in UpTo(t)
      /\ Bound(p, s) \in UpTo(t) /\ Incremental(p) \in BOOLEAN
  <2>1. Cardinality(Employees) \in Nat
    BY Counted
  <2> QED BY <2>1, FieldsDated DEF UpTo, Bound, Incremental
<1>2. \A W \in UpTo(t) : SafeFrom(W, V) => SafeFrom(W, U)
  BY WatermarkEased
<1>3. ASSUME Covered(p, s, V) PROVE Covered(p, s, U)
  <2> SUFFICES ASSUME Bound(p, s) # None, NEW e \in U.late
               PROVE  \/ U.place[Incremental(p)][e] >= p.offset
                      \/ U.reg[e].upd >= Bound(p, s) - Overlap
    BY DEF Covered
  <2>1. /\ Bound(p, s) \in Nat /\ Bound(p, s) <= t /\ Overlap \in Nat /\ U.reg[e].upd \in Nat
        /\ U.place[Incremental(p)][e] \in Nat
    BY <1>1 DEF UpTo, ShieldAssumption, IsView
  <2>2. CASE /\ e \in V.late /\ U.reg[e] = V.reg[e]
             /\ \A b \in BOOLEAN : U.place[b][e] >= V.place[b][e]
    <3>1. U.place[Incremental(p)][e] >= V.place[Incremental(p)][e] /\ V.place[Incremental(p)][e] \in Nat
      BY <1>1, <2>2 DEF IsView
    <3>2. V.place[Incremental(p)][e] >= p.offset \/ V.reg[e].upd >= Bound(p, s) - Overlap
      BY <1>3, <2>2 DEF Covered
    <3> QED BY <1>1, <2>1, <2>2, <3>1, <3>2
  <2>3. CASE U.reg[e].upd >= t - Overlap
    BY <2>1, <2>3
  <2> QED BY <2>2, <2>3 DEF Eases
<1>4. ASSUME NEW page, page.upd \in Nat, page.upd <= t, PageKnown(p, s, page, V)
      PROVE  PageKnown(p, s, page, U)
  <2>1. ASSUME NEW e \in U.late
        PROVE  \/ e = page.emp /\ page.upd = U.reg[e].upd /\ page.status = U.reg[e].status
               \/ /\ page.more /\ U.place[Incremental(p)][e] > p.offset
                  /\ Incremental(p) => U.reg[e].upd <= page.upd
               \/ U.reg[e].upd >= PageBound(p, s, page) - Overlap
    <3>1. CASE /\ e \in V.late /\ U.reg[e] = V.reg[e]
               /\ \A b \in BOOLEAN : U.place[b][e] >= V.place[b][e]
      <4>1. /\ U.place[Incremental(p)][e] >= V.place[Incremental(p)][e]
            /\ V.place[Incremental(p)][e] \in Nat /\ U.place[Incremental(p)][e] \in Nat
        BY <1>1, <2>1, <3>1 DEF IsView
      <4>2. \/ e = page.emp /\ page.upd = V.reg[e].upd /\ page.status = V.reg[e].status
            \/ /\ page.more /\ V.place[Incremental(p)][e] > p.offset
               /\ Incremental(p) => V.reg[e].upd <= page.upd
            \/ V.reg[e].upd >= PageBound(p, s, page) - Overlap
        BY <1>4, <3>1 DEF PageKnown
      <4> QED BY <1>1, <3>1, <4>1, <4>2
    <3>2. CASE U.reg[e].upd >= t - Overlap
      <4>1. CASE PageBound(p, s, page) = None
        <5>1. ~Incremental(p) \/ p.wend # None
          BY <1>4, <4>1 DEF PageBound, ShieldAssumption
        <5> QED BY <1>1, <4>1, <5>1 DEF PageBound, Bound, UpTo, ShieldAssumption
      <4>2. CASE PageBound(p, s, page) # None
        <5>1. PageBound(p, s, page) \in Nat /\ PageBound(p, s, page) <= t
          BY <1>1, <1>4, <4>2 DEF PageBound, UpTo
        <5>2. Overlap \in Nat /\ U.reg[e].upd \in Nat
          BY <2>1 DEF ShieldAssumption, IsView
        <5> QED BY <3>2, <5>1, <5>2
      <4> QED BY <4>1, <4>2
    <3> QED BY <2>1, <3>1, <3>2 DEF Eases
  <2> QED BY <1>4, <2>1 DEF PageKnown
<1>5. ASSUME Good(p, s, V) PROVE Good(p, s, U)
  BY <1>1, <1>2, <1>3, <1>5 DEF Good
<1>6. SafeFrom(Bound(p, s), V) => SafeFrom(Bound(p, s), U)
  BY <1>1, <1>2
<1> QED BY <1>4, <1>5, <1>6

LEMMA MarksEased ==
    ASSUME ShieldAssumption, Typed, NEW U, NEW V, IsView(U), IsView(V), Eases(U, V, clock),
           MarksHold(workers, runs, archived, V)
    PROVE  MarksHold(workers, runs, archived, U)
<1>1. clock \in Nat /\ archived \in UpTo(clock)
  BY DEF Typed
<1>2. \A r \in Rows : Dated(runs[r].saved, clock) /\ runs[r].started \in 0..clock
  BY <1>1 DEF Typed, RunTyped, RunRows, Stamps
<1>3. \A W \in UpTo(clock) : SafeFrom(W, V) => SafeFrom(W, U)
  BY <1>1, WatermarkEased
<1>4. ASSUME NEW w \in Workers, workers[w].step # "idle"
      PROVE  Knows(workers[w], runs[workers[w].row].started, U)
  <2> DEFINE x == workers[w]
             s == runs[x.row].started
  <2>1. x.row \in Rows /\ Dated(x.run, clock) /\ s \in 0..clock
    BY <1>2, <1>4 DEF Typed, WorkerTyped
  <2>2. Knows(x, s, V)
    BY <1>4 DEF MarksHold
  <2>3. HoldsPage(x) => x.page.upd \in Nat /\ x.page.upd <= clock
    BY DEF Typed, WorkerTyped, PageTyped, Pages, Stamps, HoldsPage, OnPage
  <2> HIDE DEF x, s
  <2>4. /\ Good(x.run, s, V) => Good(x.run, s, U)
        /\ SafeFrom(Bound(x.run, s), V) => SafeFrom(Bound(x.run, s), U)
        /\ HoldsPage(x) /\ PageKnown(x.run, s, x.page, V) => PageKnown(x.run, s, x.page, U)
    BY <1>1, <2>1, <2>3, ReadingEased
  <2>5. Knows(x, s, U)
    BY <2>2, <2>4 DEF Knows
  <2> QED BY <2>5 DEF x, s
<1>5. ASSUME NEW r \in Rows PROVE Kept(runs[r], U)
  <2>1. Kept(runs[r], V)
    BY DEF MarksHold
  <2>2. Good(runs[r].saved, runs[r].started, V) => Good(runs[r].saved, runs[r].started, U)
    BY <1>1, <1>2, ReadingEased
  <2>3. runs[r].saved.wend \in UpTo(clock)
    BY <1>2 DEF Dated
  <2> QED BY <1>3, <2>1, <2>2, <2>3 DEF Kept
<1> QED BY <1>1, <1>3, <1>4, <1>5 DEF MarksHold

LEMMA ViewIs == Typed => IsView(View)
<1> SUFFICES ASSUME Typed PROVE IsView(View)
  OBVIOUS
<1>1. View.late \subseteq Employees /\ View.late \subseteq Listed
  BY DEF View, Late, Listed
<1>2. ASSUME NEW e \in View.late
      PROVE  View.reg[e].upd \in Nat /\ \A b \in BOOLEAN : View.place[b][e] \in Nat
  <2>1. View.reg[e].upd \in Nat
    BY <1>1 DEF View, Typed, RegisterTyped, Entries, Stamps
  <2>2. \A b \in BOOLEAN : Rank(e, b) \in Nat
    <3>1. Cardinality(Listed) \in Nat
      BY ShieldAssumption, Counted
    <3>2. \A b \in BOOLEAN : Rank(e, b) \in 0..(Cardinality(Listed) - 1)
      BY <1>1, Ranked, ShieldAssumption
    <3> QED BY <3>1, <3>2
  <2> QED BY <1>1, <2>1, <2>2 DEF View
<1> QED BY <1>1, <1>2 DEF IsView

(* While the register stands, a step that leaves in step whom it found in step
   knows no less. *)
LEMMA ViewKept ==
    ASSUME ShieldAssumption, Typed, register' = register,
           \A e \in Employees : InStep(e) => InStep(e)'
    PROVE  IsView(View') /\ IsView(View) /\ Eases(View', View, clock)
<1>1. IsView(View)
  BY ViewIs
<1>2. Listed' = Listed
  BY DEF Listed
<1>3. \A e, b : Rank(e, b)' = Rank(e, b)
  BY <1>2 DEF Rank, Precedes
<1>4. View'.reg = View.reg /\ View'.place = View.place
  BY <1>3 DEF View
<1>5. View'.late \subseteq View.late
  BY <1>2 DEF View, Late, Listed
<1>6. Eases(View', View, clock)
  BY <1>1, <1>4, <1>5 DEF Eases, IsView
<1> QED BY <1>1, <1>4, <1>5, <1>6 DEF IsView

LEMMA MarksCarried ==
    ASSUME ShieldAssumption, Typed, register' = register,
           \A e \in Employees : InStep(e) => InStep(e)',
           MarksHold(workers, runs, archived, View)
    PROVE  MarksHold(workers, runs, archived, View')
  BY ViewKept, MarksEased

(* The files say as much as they did when their status and stamp stand. *)
LEMMA FilesInStep ==
    ASSUME register' = register,
           \A e \in Employees : files'[e].upd = files[e].upd /\ files'[e].status = files[e].status
    PROVE  \A e \in Employees : InStep(e) => InStep(e)'
  BY DEF InStep

(* A step of a worker that keeps what it knows keeps what is known. *)
LEMMA MoveKeepsMarks ==
    ASSUME Typed, Tables, NEW w \in Workers, NEW step, NEW progress, NEW page, NEW todo, NEW V,
           Moves(w, step, progress, page, todo), workers[w].step # "idle",
           MarksHold(workers, runs, archived, V),
           Good(progress, Started(w), V),
           step \in {"fetch", "page", "finish"} => progress.phase = "employees",
           HoldsPage([step |-> step, run |-> progress]) => PageKnown(progress, Started(w), page, V),
           step = "finish" => SafeFrom(Bound(progress, Started(w)), V),
           step \in AfterPages => progress.phase = "employees_done",
           step \in {"checking", "reopening"} => progress.phase \in {"employees", "employees_done"},
           UNCHANGED runs \/ ~Overtaken(w) \/ SafeFrom(progress.wend, V)
    PROVE  MarksHold(workers', runs', archived', V)
<1> DEFINE row == workers[w].row
           s == Started(w)
<1>1. /\ \A x \in Workers : x # w => workers'[x] = workers[x]
      /\ workers'[w] = [step |-> step, row |-> row, force |-> workers[w].force,
                        run |-> progress, page |-> page, todo |-> todo]
      /\ \A r \in Rows : \/ runs'[r] = runs[r]
                         \/ r = row /\ runs'[r] = [runs[r] EXCEPT !.saved = progress]
  BY MovesTo
<1>2. row \in Rows /\ s = runs[row].started /\ archived' = archived
  BY DEF Typed, WorkerTyped, Started, Moves
<1>3. \A r \in Rows : runs[r] \in RunRows
  BY DEF Typed, RunTyped
<1>4. \A r \in Rows : runs'[r].started = runs[r].started
  BY <1>1, <1>3 DEF RunRows
<1>5. Knows(workers'[w], s, V)
  <2>1. /\ workers'[w].step = step /\ workers'[w].run = progress /\ workers'[w].page = page
        /\ HoldsPage(workers'[w]) <=> HoldsPage([step |-> step, run |-> progress])
    BY <1>1 DEF HoldsPage
  <2> QED BY <2>1 DEF Knows
<1>6. ASSUME NEW x \in Workers, workers'[x].step # "idle"
      PROVE  Knows(workers'[x], runs'[workers'[x].row].started, V)
  <2>1. CASE x = w
    BY <1>1, <1>2, <1>4, <1>5, <2>1
  <2>2. CASE x # w
    <3>1. workers'[x] = workers[x] /\ workers[x].step # "idle"
      BY <1>1, <1>6, <2>2
    <3>2. workers[x].row \in Rows
      BY <3>1 DEF Typed, WorkerTyped
    <3> QED BY <1>4, <3>1, <3>2 DEF MarksHold
  <2> QED BY <2>1, <2>2
<1>7. ASSUME NEW r \in Rows PROVE Kept(runs'[r], V)
  <2>1. Kept(runs[r], V)
    BY DEF MarksHold
  <2>2. CASE runs'[r] = runs[r]
    BY <2>1, <2>2
  <2>3. CASE runs'[r] # runs[r]
    <3>1. r = row /\ runs'[r] = [runs[r] EXCEPT !.saved = progress]
      BY <1>1, <2>3
    <3>2. runs'[r].status = runs[r].status /\ runs'[r].saved = progress /\ runs'[r].started = s
      BY <1>2, <1>3, <3>1 DEF RunRows
    <3>3. runs[r].status = "succeeded" => SafeFrom(progress.wend, V)
      BY <2>3, <3>1 DEF Overtaken
    <3> QED BY <3>2, <3>3 DEF Kept
  <2> QED BY <2>2, <2>3
<1> QED BY <1>2, <1>6, <1>7 DEF MarksHold

LEMMA GreatestSafe ==
    ASSUME ShieldAssumption, NEW t \in Nat, NEW a \in UpTo(t), NEW b \in UpTo(t), NEW V,
           SafeFrom(a, V), SafeFrom(b, V)
    PROVE  SafeFrom(MaxStamp({a, b}), V)
<1>1. {a, b} \in SUBSET UpTo(t)
  OBVIOUS
<1>2. MaxStamp({a, b}) = None \/ MaxStamp({a, b}) \in {a, b}
  BY <1>1, GreatestStamp
<1> QED BY <1>2 DEF SafeFrom

LEMMA CloseKeepsMarks ==
    ASSUME ShieldAssumption, Typed, Tables, NEW w \in Workers, NEW V,
           NEW status \in {"failed", "interrupted", "succeeded"},
           CloseAs(w, status, workers[w].run), workers[w].step # "idle",
           MarksHold(workers, runs, archived, V),
           status = "succeeded" => SafeFrom(workers[w].run.wend, V)
    PROVE  MarksHold(workers', runs', archived', V)
<1> DEFINE row == workers[w].row
           run == workers[w].run
<1>1. workers' = [workers EXCEPT ![w] = Idle] /\ workers = [x \in Workers |-> workers[x]]
  BY DEF CloseAs, Tables
<1>2. workers'[w].step = "idle" /\ \A x \in Workers : x # w => workers'[x] = workers[x]
  BY <1>1 DEF Idle
<1>3. /\ row \in Rows /\ clock \in Nat /\ archived \in UpTo(clock) /\ run.wend \in UpTo(clock)
      /\ runs = [r \in Rows |-> runs[r]]
      /\ \A r \in Rows : runs[r] \in RunRows
      /\ \A x \in Workers : workers[x].step # "idle" => workers[x].row \in Rows
  BY DEF Typed, WorkerTyped, RunTyped, Dated
<1>4. Good(run, runs[row].started, V)
  BY DEF MarksHold, Knows
<1>5. CASE /\ HeldBy(row) = {w} /\ status # "interrupted"
           /\ runs' = [runs EXCEPT ![row] = NoRun]
           /\ archived' = IF status = "succeeded" THEN MaxStamp({archived, run.wend}) ELSE archived
  <2>1. \A r \in Rows : r # row => runs'[r] = runs[r]
    BY <1>3, <1>5
  <2>2. \A x \in Workers : x # w => workers[x].row # row
    BY <1>5 DEF HeldBy
  <2>3. ASSUME NEW x \in Workers, workers'[x].step # "idle"
        PROVE  Knows(workers'[x], runs'[workers'[x].row].started, V)
    BY <1>2, <1>3, <2>1, <2>2, <2>3 DEF MarksHold
  <2>4. ASSUME NEW r \in Rows PROVE Kept(runs'[r], V)
    <3>1. CASE r = row
      <4>1. runs'[r].status = "none"
        BY <1>3, <1>5, <3>1 DEF NoRun
      <4> QED BY <4>1 DEF Kept
    <3>2. CASE r # row
      BY <2>1, <3>2 DEF MarksHold
    <3> QED BY <3>1, <3>2
  <2>5. SafeFrom(archived', V)
    <3>1. SafeFrom(archived, V)
      BY DEF MarksHold
    <3>2. CASE status = "succeeded"
      BY <1>3, <1>5, <3>1, <3>2, GreatestSafe
    <3>3. CASE status # "succeeded"
      BY <1>5, <3>1, <3>3
    <3> QED BY <3>2, <3>3
  <2> QED BY <2>3, <2>4, <2>5 DEF MarksHold
<1>6. CASE /\ runs' = [runs EXCEPT ![row].saved = run, ![row].status = status]
           /\ archived' = archived
  <2>1. /\ runs'[row].status = status /\ runs'[row].saved = run
        /\ \A r \in Rows : runs'[r].started = runs[r].started /\ (r # row => runs'[r] = runs[r])
    <3> DEFINE a == [runs[row] EXCEPT !.saved = run]
               b == [a EXCEPT !.status = status]
    <3>1. runs' = [runs EXCEPT ![row] = b]
      BY <1>3, <1>6
    <3>2. a.started = runs[row].started /\ a.saved = run /\ DOMAIN a = {"mode", "status", "started", "saved"}
      BY <1>3 DEF RunRows
    <3> HIDE DEF a
    <3>3. b.started = runs[row].started /\ b.saved = run /\ b.status = status
      BY <3>2
    <3> HIDE DEF b
    <3> QED BY <1>3, <3>1, <3>3
  <2>2. ASSUME NEW x \in Workers, workers'[x].step # "idle"
        PROVE  Knows(workers'[x], runs'[workers'[x].row].started, V)
    BY <1>2, <1>3, <2>1, <2>2 DEF MarksHold
  <2>3. ASSUME NEW r \in Rows PROVE Kept(runs'[r], V)
    <3>1. CASE r = row
      BY <1>4, <2>1, <3>1 DEF Kept
    <3>2. CASE r # row
      BY <2>1, <3>2 DEF MarksHold
    <3> QED BY <3>1, <3>2
  <2>4. SafeFrom(archived', V)
    BY <1>6 DEF MarksHold
  <2> QED BY <2>2, <2>3, <2>4 DEF MarksHold
<1> QED BY <1>5, <1>6 DEF CloseAs

(* Nothing is owed before the first page. *)
LEMMA NewIsGood ==
    ASSUME ShieldAssumption, NEW s, NEW V
    PROVE  Good(NewProgress, s, V)
<1>1. /\ NewProgress.phase = None /\ NewProgress.effective = None /\ NewProgress.wstart = None
      /\ NewProgress.offset = 0
  BY DEF NewProgress
<1>2. None \notin {"incremental", "employees", "employees_done"}
  BY DEF ShieldAssumption
<1> QED BY <1>1, <1>2 DEF Good, Ordered, SafeFrom, Incremental

LEMMA TakeKeepsKnowledge ==
    ASSUME Tables, NEW w \in Workers, NEW r \in Rows, NEW force, NEW progress, NEW V,
           Take(w, r, force, progress), Good(progress, runs'[r].started, V),
           \A x \in Workers : x # w /\ workers[x].step # "idle" =>
              /\ Knows(workers[x], runs[workers[x].row].started, V)
              /\ runs'[workers[x].row].started = runs[workers[x].row].started
    PROVE  \A x \in Workers : workers'[x].step # "idle" =>
              Knows(workers'[x], runs'[workers'[x].row].started, V)
<1> DEFINE new == [step |-> "begin", row |-> r, force |-> force, run |-> progress,
                   page |-> None, todo |-> {}]
<1>1. workers' = [workers EXCEPT ![w] = new] /\ workers = [x \in Workers |-> workers[x]]
  BY DEF Take, Tables
<1>2. Knows(new, runs'[r].started, V) /\ new.row = r
  BY DEF Knows, AfterPages, HoldsPage
<1> HIDE DEF new
<1>3. workers'[w] = new /\ \A x \in Workers : x # w => workers'[x] = workers[x]
  BY <1>1
<1> QED BY <1>2, <1>3

LEMMA ClosedKept ==
    ASSUME Typed, NEW m, NEW q \in Rows, NEW V, Kept(runs[q], V),
           NEW status, status = Closable(m, q) \/ (q \in Resumable(m) /\ status = "running"),
           NEW x, x = [runs[q] EXCEPT !.status = status]
    PROVE  Kept(x, V) /\ x.started = runs[q].started
<1>1. runs[q] \in RunRows
  BY DEF Typed, RunTyped
<1>2. x.status = status /\ x.started = runs[q].started /\ x.saved = runs[q].saved
  BY <1>1 DEF RunRows
<1>3. status \in {"running", "interrupted"} => runs[q].status \in {"running", "interrupted"}
  BY DEF Closable, Resumable, AfterSweep, StaleRows, RunningRows
<1>4. status = "succeeded" => runs[q].status = "succeeded"
  BY DEF Closable, AfterSweep
<1>5. Kept(x, V)
  BY <1>2, <1>3, <1>4 DEF Kept
<1> QED BY <1>2, <1>5

LEMMA OpenRunKeepsMarks ==
    ASSUME ShieldAssumption, Typed, Tables, NEW w \in Workers, NEW m \in Modes, NEW force, NEW V,
           OpenRun(w, m, force), MarksHold(workers, runs, archived, V)
    PROVE  MarksHold(workers', runs', archived', V)
<1>1. /\ \A q \in Rows : Kept(runs[q], V)
      /\ \A x \in Workers : workers[x].step # "idle" =>
           workers[x].row \in Rows /\ Knows(workers[x], runs[workers[x].row].started, V)
  BY DEF MarksHold, Typed, WorkerTyped
<1>2. CASE ResumeRun(w, m, force)
  <2>0. PICK r \in Latest(Resumable(m)) :
         /\ runs' = [q \in Rows |-> [runs[q] EXCEPT !.status =
                         IF q = r THEN "running" ELSE Closable(m, q)]]
         /\ Take(w, r, force, runs[r].saved)
    BY <1>2 DEF ResumeRun
  <2>1. r \in Rows /\ r \in Resumable(m) /\ archived' = archived
    BY <1>2 DEF Latest, Resumable, ResumeRun
  <2>2. ASSUME NEW q \in Rows PROVE Kept(runs'[q], V) /\ runs'[q].started = runs[q].started
    <3> DEFINE status == IF q = r THEN "running" ELSE Closable(m, q)
    <3>0. r \in Resumable(m)
      BY <2>1
    <3>1. status = Closable(m, q) \/ (q \in Resumable(m) /\ status = "running")
      <4>1. CASE q = r
        <5>1. status = "running"
          BY <4>1
        <5> QED BY <3>0, <4>1, <5>1
      <4>2. CASE q # r
        BY <4>2
      <4> QED BY <4>1, <4>2
    <3>2. runs'[q] = [runs[q] EXCEPT !.status = status] /\ Kept(runs[q], V)
      BY <1>1, <2>0
    <3> HIDE DEF status
    <3> QED BY <3>1, <3>2, ClosedKept
  <2>3. Good(runs[r].saved, runs'[r].started, V)
    <3>1. runs[r].status \in {"running", "interrupted"}
      BY <2>1 DEF Resumable, AfterSweep, StaleRows, RunningRows
    <3> QED BY <1>1, <2>1, <2>2, <3>1 DEF Kept
  <2>4. \A x \in Workers : workers'[x].step # "idle" =>
              Knows(workers'[x], runs'[workers'[x].row].started, V)
    BY <1>1, <2>0, <2>1, <2>2, <2>3, TakeKeepsKnowledge
  <2> QED BY <2>1, <2>2, <2>4 DEF MarksHold
<1>3. CASE StartRun(w, m, force)
  <2> DEFINE r == CHOOSE x \in FreeRows(m) : \A y \in FreeRows(m) : x <= y
             new == [mode |-> m, status |-> "running", started |-> clock, saved |-> NewProgress]
  <2>1. /\ runs' = [q \in Rows |-> IF q = r THEN new
                                   ELSE [runs[q] EXCEPT !.status = Closable(m, q)]]
        /\ archived' = IF runs[r].status = "succeeded"
                       THEN MaxStamp({archived, runs[r].saved.wend}) ELSE archived
        /\ Take(w, r, force, NewProgress)
        /\ FreeRows(m) # {}
    BY <1>3 DEF StartRun
  <2>2. r \in Rows /\ HeldBy(r) = {}
    BY <2>1, FirstFreeRow
  <2>3. new.status = "running" /\ new.saved = NewProgress
    OBVIOUS
  <2> HIDE DEF r, new
  <2>4. Good(NewProgress, new.started, V) /\ Kept(new, V)
    BY <2>3, NewIsGood DEF Kept
  <2>5. ASSUME NEW q \in Rows, q # r
        PROVE  Kept(runs'[q], V) /\ runs'[q].started = runs[q].started
    <3> DEFINE status == Closable(m, q)
    <3>1. runs'[q] = [runs[q] EXCEPT !.status = status] /\ Kept(runs[q], V)
      BY <1>1, <2>1, <2>5
    <3>2. status = Closable(m, q)
      OBVIOUS
    <3> HIDE DEF status
    <3> QED BY <3>1, <3>2, ClosedKept
  <2>6. runs'[r] = new
    BY <2>1, <2>2
  <2>7. \A q \in Rows : Kept(runs'[q], V)
    BY <2>4, <2>5, <2>6
  <2>8. \A x \in Workers : workers[x].row # r
    BY <2>2 DEF HeldBy
  <2>9. \A x \in Workers : workers'[x].step # "idle" =>
              Knows(workers'[x], runs'[workers'[x].row].started, V)
    BY <1>1, <2>1, <2>2, <2>4, <2>5, <2>6, <2>8, TakeKeepsKnowledge
  <2>10. SafeFrom(archived', V)
    <3>1. SafeFrom(archived, V)
      BY DEF MarksHold
    <3>2. runs[r].status = "succeeded" => SafeFrom(runs[r].saved.wend, V)
      BY <1>1, <2>2 DEF Kept
    <3>3. archived \in UpTo(clock) /\ runs[r].saved.wend \in UpTo(clock) /\ clock \in Nat
      BY <2>2 DEF Typed, RunTyped, Dated
    <3>4. CASE runs[r].status = "succeeded"
      BY <2>1, <3>1, <3>2, <3>3, <3>4, GreatestSafe
    <3>5. CASE runs[r].status # "succeeded"
      BY <2>1, <3>1, <3>5
    <3> QED BY <3>4, <3>5
  <2> QED BY <2>7, <2>9, <2>10 DEF MarksHold
<1> QED BY <1>2, <1>3 DEF OpenRun

-----------------------------------------------------------------------------
(* What a page adds to what a reading knows *)

LEMMA OldPageEnds ==
    ASSUME ShieldAssumption, NEW t \in Nat, NEW V, IsView(V), NEW s \in 0..t,
           NEW p, Dated(p, t), p.phase = "employees", Good(p, s, V),
           NEW page, PageTyped(page, p.offset, t), PageKnown(p, s, page, V),
           NEW q, q.phase = p.phase, q.effective = p.effective, q.wstart = p.wstart, q.wend = p.wend,
           \/ page.emp = None /\ q.offset = 0 /\ q.last = p.last
           \/ /\ Incremental(p) /\ page.emp # None /\ page.upd < p.wstart - Overlap
              /\ q.last = page.upd
    PROVE  Good(q, s, V) /\ SafeFrom(Bound(q, s), V)
<1>1. /\ p.wstart \in UpTo(t) /\ p.wend \in UpTo(t) /\ p.last \in UpTo(t) /\ p.offset \in Nat
      /\ page.upd \in Nat /\ Overlap \in Nat /\ Employees \subseteq Nat
      /\ None \notin Nat /\ None # "employees" /\ None # "incremental"
      /\ \A e \in V.late : e \in Employees /\ V.reg[e].upd \in Nat
  <2>1. Cardinality(Employees) \in Nat
    BY Counted
  <2>2. /\ p.wstart \in UpTo(t) /\ p.wend \in UpTo(t) /\ p.last \in UpTo(t) /\ p.offset \in Nat
    BY <2>1, FieldsDated
  <2>3. page.upd \in Nat
    BY DEF PageTyped, Pages, Stamps
  <2> QED BY <2>2, <2>3 DEF ShieldAssumption, IsView
<1>2. Incremental(q) = Incremental(p) /\ Bound(q, s) = Bound(p, s)
  BY DEF Incremental, Bound
<1>3. SafeFrom(p.wstart, V) /\ Ordered(p)
  BY DEF Good
<1>4. ASSUME Bound(p, s) # None, NEW e \in V.late PROVE V.reg[e].upd >= Bound(p, s) - Overlap
  <2>1. PageBound(p, s, page) = Bound(p, s)
    BY <1>4 DEF PageBound, Bound
  <2>2. \/ e = page.emp /\ page.upd = V.reg[e].upd
        \/ page.more /\ (Incremental(p) => V.reg[e].upd <= page.upd)
        \/ V.reg[e].upd >= Bound(p, s) - Overlap
    BY <1>4, <2>1 DEF PageKnown
  <2>3. CASE page.emp = None
    <3>1. ~page.more /\ e # page.emp
      BY <1>1, <1>4, <2>3 DEF PageKnown
    <3> QED BY <2>2, <3>1
  <2>4. CASE Incremental(p) /\ page.emp # None /\ page.upd < p.wstart - Overlap
    <3>1. p.wstart \in Nat
      BY <1>1, <1>3, <2>4 DEF Ordered, UpTo
    <3>2. V.reg[e].upd >= p.wstart - Overlap
      BY <1>1, <1>3, <1>4, <3>1 DEF SafeFrom
    <3>3. ~(V.reg[e].upd <= page.upd)
      BY <1>1, <1>4, <2>4, <3>1, <3>2
    <3> QED BY <1>1, <1>4, <2>2, <2>4, <3>3
  <2> QED BY <2>3, <2>4
<1>5. SafeFrom(Bound(q, s), V)
  BY <1>2, <1>4 DEF SafeFrom
<1>6. Covered(q, s, V)
  BY <1>5 DEF SafeFrom, Covered
<1>7. Ordered(q)
  <2>1. CASE page.emp = None /\ q.offset = 0 /\ q.last = p.last
    BY <1>1, <1>2, <1>3, <2>1 DEF Ordered
  <2>2. CASE /\ Incremental(p) /\ page.emp # None /\ page.upd < p.wstart - Overlap
             /\ q.last = page.upd
    <3>1. q.last # None
      BY <1>1, <2>2
    <3>2. ASSUME p.wend # None PROVE q.last <= q.wend
      <4>1. p.last # None /\ p.last <= p.wend
        BY <1>3, <2>2, <3>2 DEF Ordered
      <4>2. page.upd <= p.last
        BY <2>2, <4>1 DEF PageKnown
      <4>3. p.last \in Nat /\ p.wend \in Nat
        BY <1>1, <3>2, <4>1 DEF UpTo
      <4> QED BY <1>1, <2>2, <4>1, <4>2, <4>3
    <3> QED BY <1>1, <1>2, <1>3, <2>2, <3>1, <3>2 DEF Ordered
  <2> QED BY <2>1, <2>2
<1>8. q.phase # "employees_done"
  OBVIOUS
<1> QED BY <1>3, <1>5, <1>6, <1>7, <1>8 DEF Good

LEMMA NewPageCounts ==
    ASSUME ShieldAssumption, NEW t \in Nat, NEW V, IsView(V), NEW s \in 0..t,
           NEW p, Dated(p, t), p.phase = "employees", Good(p, s, V),
           NEW page, PageTyped(page, p.offset, t), PageKnown(p, s, page, V), page.emp # None,
           \A e \in V.late : ~(e = page.emp /\ page.upd = V.reg[e].upd /\ page.status = V.reg[e].status),
           NEW q, q.phase = p.phase, q.effective = p.effective, q.wstart = p.wstart,
           q.offset = IF page.more THEN p.offset + 1 ELSE 0,
           q.last = IF Incremental(p) THEN page.upd ELSE p.last,
           q.wend = MaxStamp({p.wend, page.upd})
    PROVE  Good(q, s, V) /\ (~page.more => SafeFrom(Bound(q, s), V))
<1>1. /\ p.wstart \in UpTo(t) /\ p.wend \in UpTo(t) /\ p.last \in UpTo(t) /\ p.offset \in Nat
      /\ page.upd \in Nat /\ page.upd \in UpTo(t) /\ Overlap \in Nat
      /\ None \notin Nat /\ None # "employees" /\ None # "incremental" /\ page.more \in BOOLEAN
      /\ Incremental(p) \in BOOLEAN
  <2>1. Cardinality(Employees) \in Nat
    BY Counted
  <2>2. /\ p.wstart \in UpTo(t) /\ p.wend \in UpTo(t) /\ p.last \in UpTo(t) /\ p.offset \in Nat
    BY <2>1, FieldsDated
  <2>3. page.upd \in Nat /\ page.upd <= t /\ page.more \in BOOLEAN
    BY DEF PageTyped, Pages, Stamps
  <2> QED BY <2>2, <2>3 DEF ShieldAssumption, IsView, UpTo, Incremental
<1>2. Incremental(q) = Incremental(p)
  BY DEF Incremental
<1>3. SafeFrom(p.wstart, V) /\ Ordered(p)
  BY DEF Good
<1>4. /\ q.wend \in UpTo(t) /\ q.wend # None /\ page.upd <= q.wend
      /\ q.wend \in {p.wend, page.upd} /\ (p.wend # None => p.wend <= q.wend)
  <2>1. {p.wend, page.upd} \in SUBSET UpTo(t)
    BY <1>1
  <2>2. page.upd # None
    BY <1>1
  <2> QED BY <2>1, <2>2, GreatestStamp
<1>5. ASSUME Incremental(p) PROVE q.wend = PageBound(p, s, page)
  <2>1. CASE p.wend = None
    BY <1>4, <1>5, <2>1 DEF PageBound
  <2>2. CASE p.wend # None
    <3>1. p.last # None /\ p.last <= p.wend
      BY <1>3, <1>5, <2>2 DEF Ordered
    <3>2. page.upd <= p.last
      BY <1>5, <3>1 DEF PageKnown
    <3>3. p.last \in Nat /\ p.wend \in Nat
      BY <1>1, <2>2, <3>1 DEF UpTo
    <3>4. q.wend = p.wend
      BY <1>1, <1>4, <2>2, <3>1, <3>2, <3>3
    <3> QED BY <1>5, <2>2, <3>4 DEF PageBound, Bound
  <2> QED BY <2>1, <2>2
<1>6. Bound(q, s) = PageBound(p, s, page)
  BY <1>2, <1>5 DEF Bound, PageBound
<1>7. ASSUME NEW e \in V.late
      PROVE  \/ page.more /\ V.place[Incremental(p)][e] > p.offset
             \/ V.reg[e].upd >= Bound(q, s) - Overlap
  BY <1>6, <1>7 DEF PageKnown
<1>8. Covered(q, s, V)
  <2> SUFFICES ASSUME NEW e \in V.late
               PROVE  \/ V.place[Incremental(q)][e] >= q.offset
                      \/ V.reg[e].upd >= Bound(q, s) - Overlap
    BY DEF Covered
  <2>1. V.place[Incremental(p)][e] \in Nat
    BY <1>1 DEF IsView
  <2>2. CASE page.more /\ V.place[Incremental(p)][e] > p.offset
    <3>1. V.place[Incremental(p)][e] >= p.offset + 1
      BY <1>1, <2>1, <2>2
    <3> QED BY <1>2, <2>2, <3>1
  <2> QED BY <1>7, <2>2
<1>9. ~page.more => SafeFrom(Bound(q, s), V)
  BY <1>7 DEF SafeFrom
<1>10. Ordered(q)
  <2>1. Incremental(p) => q.last = page.upd /\ q.last # None
    BY <1>1
  <2> QED BY <1>1, <1>2, <1>3, <1>4, <2>1 DEF Ordered
<1>11. q.phase # "employees_done"
  OBVIOUS
<1> QED BY <1>3, <1>8, <1>9, <1>10, <1>11 DEF Good

-----------------------------------------------------------------------------
(* The steps of a reading *)

LEMMA ViewStands ==
    ASSUME UNCHANGED <<register, files>>
    PROVE  View' = View
<1>1. Listed' = Listed
  BY DEF Listed
<1>2. \A e, b : Rank(e, b)' = Rank(e, b)
  BY <1>1 DEF Rank, Precedes
<1>3. Late' = Late
  BY <1>1 DEF Late, InStep
<1> QED BY <1>2, <1>3 DEF View

LEMMA WatermarkSafe ==
    ASSUME ShieldAssumption, Typed, NEW V, MarksHold(workers, runs, archived, V)
    PROVE  SafeFrom(Watermark, V)
<1>1. CASE Watermark = None
  BY <1>1 DEF SafeFrom
<1>2. CASE Watermark # None
  <2>1. Watermark \in SucceededMarks \cup {archived}
    BY <1>2, WatermarkDated
  <2>2. CASE Watermark = archived
    BY <2>2 DEF MarksHold
  <2>3. CASE Watermark \in SucceededMarks
    <3>1. PICK r \in Rows : runs[r].status = "succeeded" /\ Watermark = runs[r].saved.wend
      BY <2>3 DEF SucceededMarks
    <3> QED BY <3>1 DEF MarksHold, Kept
  <2> QED BY <2>1, <2>2, <2>3
<1> QED BY <1>1, <1>2

(* What a worker at work knows, and the dates of what it holds. *)
LEMMA WorkerKnows ==
    ASSUME ShieldAssumption, Typed, NEW w \in Workers, workers[w].step # "idle", NEW V,
           MarksHold(workers, runs, archived, V)
    PROVE  /\ Knows(workers[w], Started(w), V)
           /\ Dated(workers[w].run, clock) /\ clock \in Nat /\ Started(w) \in 0..clock
           /\ workers[w].run.offset \in Nat /\ workers[w].row \in Rows
<1>1. workers[w].row \in Rows /\ Dated(workers[w].run, clock) /\ clock \in Nat
  BY DEF Typed, WorkerTyped
<1>2. Started(w) \in 0..clock
  BY <1>1 DEF Typed, RunTyped, RunRows, Stamps, Started
<1>3. Knows(workers[w], Started(w), V)
  BY DEF MarksHold, Started
<1>4. workers[w].run.offset \in Nat
  <2>1. Cardinality(Employees) \in Nat
    BY Counted
  <2> QED BY <1>1, <2>1, FieldsDated
<1> QED BY <1>1, <1>2, <1>3, <1>4

LEMMA FirstPlace ==
    ASSUME NEW V, IsView(V), NEW p
    PROVE  \A e \in V.late : V.place[Incremental(p)][e] >= 0
<1>1. Incremental(p) \in BOOLEAN
  BY DEF Incremental
<1> DEFINE b == Incremental(p)
<1> HIDE DEF b
<1>2. b \in BOOLEAN => \A e \in V.late : V.place[b][e] \in Nat
  BY DEF IsView
<1>3. b \in BOOLEAN => \A e \in V.late : V.place[b][e] >= 0
  BY <1>2
<1> QED BY <1>1, <1>3 DEF b

(* A reading that starts over owes what it owed: nothing before the first page. *)
LEMMA FullReadingIsGood ==
    ASSUME ShieldAssumption, NEW V, IsView(V), NEW t \in Nat, NEW p, Dated(p, t), NEW s \in Nat,
           Good(p, s, V)
    PROVE  Good(FullReading(p), s, V) /\ FullReading(p).phase = "employees"
<1> DEFINE q == FullReading(p)
<1>1. /\ q.phase = "employees" /\ q.effective = "full" /\ q.offset = 0 /\ q.wstart = p.wstart
  BY FieldsDated, FullReadingIs DEF ProgressOf
<1>2. ~Incremental(q) /\ q.phase # None /\ q.phase # "employees_done"
  BY <1>1 DEF Incremental, ShieldAssumption
<1> HIDE DEF q
<1>3. Ordered(q) /\ SafeFrom(q.wstart, V)
  BY <1>1, <1>2 DEF Ordered, Good
<1>4. Covered(q, s, V)
  <2>1. \A e \in V.late : V.place[Incremental(q)][e] >= 0
    BY FirstPlace
  <2> QED BY <1>1, <2>1 DEF Covered
<1>5. Good(q, s, V) /\ q.phase = "employees"
  BY <1>1, <1>2, <1>3, <1>4 DEF Good
<1> QED BY <1>5 DEF q

LEMMA BeginReadingKeepsMarks ==
    ASSUME ShieldAssumption, Typed, Tables, NEW w \in Workers, BeginReading(w),
           MarksHold(workers, runs, archived, View)
    PROVE  MarksHold(workers', runs', archived', View')
<1> DEFINE run == workers[w].run
           s == Started(w)
<1>1. View' = View /\ IsView(View)
  BY ViewStands, ViewIs DEF BeginReading
<1>2. workers[w].step = "begin" /\ workers[w].step # "idle"
  BY DEF BeginReading
<1>3. Knows(workers[w], s, View) /\ Dated(run, clock) /\ clock \in Nat /\ s \in 0..clock
  BY <1>2, WorkerKnows
<1>4. Good(run, s, View)
  BY <1>3 DEF Knows
<1>5. CASE run.phase = "employees_done"
  <2>1. Moves(w, AfterReading(w), run, None, {})
    BY <1>5, BeginReadingMoves DEF ShieldAssumption
  <2>2. SafeFrom(run.wend, View)
    BY <1>4, <1>5 DEF Good
  <2>3. AfterReading(w) \in AfterPages /\ AfterReading(w) \notin {"fetch", "finish"} \cup OnPage
    BY DEF AfterReading, AfterPages, OnPage
  <2>4. MarksHold(workers', runs', archived', View)
    BY <1>2, <1>4, <1>5, <2>1, <2>2, <2>3, MoveKeepsMarks DEF HoldsPage, OnPage
  <2> QED BY <1>1, <2>4
<1>6. CASE run.phase = "employees"
  <2>1. Moves(w, "fetch", run, None, {})
    BY <1>6, BeginReadingMoves DEF ShieldAssumption
  <2>2. UNCHANGED runs
    BY <1>6 DEF BeginReading, ShieldAssumption
  <2>3. "fetch" \notin AfterPages
    BY DEF AfterPages
  <2>4. MarksHold(workers', runs', archived', View)
    BY <1>2, <1>4, <1>6, <2>1, <2>2, <2>3, MoveKeepsMarks DEF HoldsPage, OnPage
  <2> QED BY <1>1, <2>4
<1>7. CASE run.phase = None
  <2>1. PICK wstart \in {Watermark, None} :
          Moves(w, "fetch",
                ProgressOf("employees", IF wstart = None THEN "full" ELSE "incremental",
                           0, None, wstart, run.wend), None, {})
    BY <1>7, BeginReadingMoves DEF ShieldAssumption
  <2> DEFINE q == ProgressOf("employees", IF wstart = None THEN "full" ELSE "incremental",
                             0, None, wstart, run.wend)
  <2>2. run = NewProgress
    BY <1>4, <1>7 DEF Good, Ordered
  <2>3. run.wend = None
    BY <2>2 DEF NewProgress
  <2>4. /\ q.phase = "employees" /\ q.offset = 0 /\ q.wstart = wstart /\ q.wend = None
        /\ q.effective = IF wstart = None THEN "full" ELSE "incremental"
    BY <2>3 DEF ProgressOf
  <2>5. q.phase # None /\ q.phase # "employees_done" /\ "fetch" \notin AfterPages
    BY <2>4 DEF ShieldAssumption, AfterPages
  <2>6. Moves(w, "fetch", q, None, {})
    BY <2>1
  <2> HIDE DEF q
  <2>7. Incremental(q) <=> wstart # None
    BY <2>4 DEF Incremental
  <2>8. SafeFrom(wstart, View)
    <3>1. SafeFrom(Watermark, View)
      BY WatermarkSafe
    <3> QED BY <3>1 DEF SafeFrom
  <2>9. Covered(q, s, View)
    <3>1. \A e \in View.late : View.place[Incremental(q)][e] >= 0
      BY <1>1, FirstPlace
    <3> QED BY <2>4, <3>1 DEF Covered
  <2>10. Good(q, s, View)
    BY <2>4, <2>5, <2>7, <2>8, <2>9 DEF Good, Ordered
  <2>11. SafeFrom(q.wend, View)
    BY <2>4 DEF SafeFrom
  <2>12. MarksHold(workers', runs', archived', View)
    BY <1>2, <2>4, <2>5, <2>6, <2>10, <2>11, MoveKeepsMarks DEF HoldsPage
  <2> QED BY <1>1, <2>12
<1> QED BY <1>5, <1>6, <1>7, BeginReadingMoves

(* The page at the offset of a reading tells who else is left to read. *)
LEMMA FetchedIsKnown ==
    ASSUME ShieldAssumption, Typed, NEW p, Dated(p, clock), NEW s \in Nat, Covered(p, s, View),
           ~OutOfOrder(p, PageAt(p.offset, Incremental(p)))
    PROVE  PageKnown(p, s, PageAt(p.offset, Incremental(p)), View)
<1> DEFINE b == Incremental(p)
           page == PageAt(p.offset, b)
           n == Cardinality(Listed)
<1>1. /\ p.offset \in Nat /\ b \in BOOLEAN /\ n \in Nat /\ p.last \in UpTo(clock) /\ p.wend \in UpTo(clock)
      /\ None \notin Nat /\ Overlap \in Nat /\ clock \in Nat /\ s # None
  <2>1. Cardinality(Employees) \in Nat
    BY Counted
  <2>2. p.offset \in Nat /\ p.last \in UpTo(clock) /\ p.wend \in UpTo(clock)
    BY <2>1, FieldsDated DEF Typed
  <2> QED BY <2>2, Counted DEF Incremental, ShieldAssumption, Typed
<1>2. \A e \in Listed : e \in Nat /\ e \in Employees /\ register[e].upd \in Nat
  BY DEF ShieldAssumption, Listed, Typed, RegisterTyped, Entries, Stamps
<1>3. \/ /\ p.offset >= n
         /\ page = [emp |-> None, status |-> "gone", upd |-> 0, more |-> FALSE]
      \/ /\ p.offset < n
         /\ page.emp \in Listed /\ Rank(page.emp, b) = p.offset
         /\ page.status = register[page.emp].status /\ page.upd = register[page.emp].upd
         /\ page = [emp |-> page.emp, status |-> page.status, upd |-> page.upd,
                    more |-> p.offset + 1 < n]
  BY <1>1, PageIs
<1>4. /\ \A e \in Listed : Rank(e, b) \in 0..(n - 1)
      /\ \A e, f \in Listed : Precedes(f, e, b) => Rank(f, b) < Rank(e, b)
      /\ \A e, f \in Listed : e = f \/ Precedes(e, f, b) \/ Precedes(f, e, b)
  BY <1>1, Ranked
<1>5. /\ View.late \subseteq Listed /\ View.reg = register
      /\ \A e \in View.late : View.place[b][e] = Rank(e, b)
  BY <1>1, <1>2 DEF View, Late
<1>6. \A e \in View.late : Bound(p, s) # None =>
         Rank(e, b) >= p.offset \/ register[e].upd >= Bound(p, s) - Overlap
  BY <1>5 DEF Covered
<1>7. ~OutOfOrder(p, page)
  OBVIOUS
<1>8. page.more => page.emp # None
  <2>1. CASE page = [emp |-> None, status |-> "gone", upd |-> 0, more |-> FALSE]
    BY <2>1
  <2>2. CASE page.emp \in Listed
    BY <1>1, <1>2, <2>2
  <2> QED BY <1>3, <2>1, <2>2
<1>9. page.upd \in Nat
  <2>1. CASE page = [emp |-> None, status |-> "gone", upd |-> 0, more |-> FALSE]
    BY <2>1
  <2>2. CASE page.emp \in Listed /\ page.upd = register[page.emp].upd
    BY <1>2, <2>2
  <2> QED BY <1>3, <2>1, <2>2
<1> HIDE DEF page, n
<1>10. page.emp # None /\ p.last # None /\ b => page.upd <= p.last
  BY <1>1, <1>7, <1>9 DEF OutOfOrder, UpTo, Incremental
<1>11. ASSUME NEW e \in View.late
       PROVE  \/ e = page.emp /\ page.upd = register[e].upd /\ page.status = register[e].status
              \/ /\ page.more /\ Rank(e, b) > p.offset
                 /\ b => register[e].upd <= page.upd
              \/ register[e].upd >= PageBound(p, s, page) - Overlap
  <2>1. e \in Listed /\ Rank(e, b) \in 0..(n - 1) /\ register[e].upd \in Nat
    BY <1>2, <1>4, <1>5, <1>11
  <2>2. ASSUME Rank(e, b) < p.offset, page.upd <= register[e].upd \/ ~b
        PROVE  register[e].upd >= PageBound(p, s, page) - Overlap
    <3>1. CASE b /\ p.wend = None
      <4>1. page.upd <= register[e].upd /\ PageBound(p, s, page) = page.upd
        BY <2>2, <3>1 DEF PageBound
      <4> QED BY <1>1, <1>9, <2>1, <4>1
    <3>2. CASE ~(b /\ p.wend = None)
      <4>1. PageBound(p, s, page) = Bound(p, s) /\ Bound(p, s) # None
        BY <1>1, <3>2 DEF PageBound, Bound
      <4>2. ~(Rank(e, b) >= p.offset)
        BY <1>1, <2>1, <2>2
      <4> QED BY <1>6, <1>11, <4>1, <4>2
    <3> QED BY <3>1, <3>2
  <2>3. CASE /\ p.offset >= n
             /\ page = [emp |-> None, status |-> "gone", upd |-> 0, more |-> FALSE]
    <3>1. Rank(e, b) < p.offset /\ page.upd = 0
      BY <1>1, <2>1, <2>3
    <3>2. page.upd <= register[e].upd
      BY <2>1, <3>1
    <3> QED BY <2>2, <3>1, <3>2
  <2>4. CASE /\ p.offset < n
             /\ page.emp \in Listed /\ Rank(page.emp, b) = p.offset
             /\ page.status = register[page.emp].status /\ page.upd = register[page.emp].upd
             /\ page = [emp |-> page.emp, status |-> page.status, upd |-> page.upd,
                        more |-> p.offset + 1 < n]
    <3>1. CASE e = page.emp
      BY <2>4, <3>1
    <3>2. CASE Precedes(page.emp, e, b)
      <4>1. Rank(e, b) > p.offset /\ p.offset + 1 < n
        <5>1. p.offset < Rank(e, b) /\ Rank(e, b) \in 0..(n - 1)
          BY <1>4, <2>1, <2>4, <3>2
        <5> QED BY <1>1, <5>1
      <4>2. page.more
        <5> DEFINE more == p.offset + 1 < n
                   x == page.emp
                   y == page.status
                   z == page.upd
        <5>1. more
          BY <4>1
        <5>2. page = [emp |-> x, status |-> y, upd |-> z, more |-> more]
          BY <2>4
        <5> HIDE DEF more, x, y, z
        <5>3. page.more = more
          BY <5>2
        <5> QED BY <5>1, <5>3
      <4>3. b => register[e].upd <= page.upd
        BY <1>2, <1>9, <2>1, <2>4, <3>2 DEF Precedes
      <4> QED BY <4>1, <4>2, <4>3
    <3>3. CASE Precedes(e, page.emp, b)
      <4>1. Rank(e, b) < p.offset
        BY <1>4, <2>1, <2>4, <3>3
      <4>2. b => page.upd <= register[e].upd
        BY <1>2, <1>9, <2>1, <2>4, <3>3 DEF Precedes
      <4> QED BY <2>2, <4>1, <4>2
    <3> QED BY <1>4, <2>1, <2>4, <3>1, <3>2, <3>3
  <2> QED BY <1>3, <2>3, <2>4
<1>12. PageKnown(p, s, page, View)
  BY <1>5, <1>8, <1>10, <1>11 DEF PageKnown
<1> QED BY <1>12 DEF page

LEMMA StartsOverKeepsMarks ==
    ASSUME ShieldAssumption, Typed, Tables, NEW w \in Workers, workers[w].step = "fetch",
           Moves(w, "fetch", FullReading(workers[w].run), None, {}), ~Overtaken(w),
           MarksHold(workers, runs, archived, View), UNCHANGED <<register, files>>
    PROVE  MarksHold(workers', runs', archived', View')
<1> DEFINE run == workers[w].run
           s == Started(w)
<1>1. View' = View /\ IsView(View)
  BY ViewStands, ViewIs
<1>2. Knows(workers[w], s, View) /\ Dated(run, clock) /\ clock \in Nat /\ s \in Nat
  BY WorkerKnows
<1>3. Good(FullReading(run), s, View) /\ FullReading(run).phase = "employees"
  BY <1>1, <1>2, FullReadingIsGood DEF Knows
<1>4. "fetch" \notin AfterPages /\ workers[w].step # "idle"
  BY DEF AfterPages
<1>5. MarksHold(workers', runs', archived', View)
  BY <1>3, <1>4, MoveKeepsMarks DEF HoldsPage
<1> QED BY <1>1, <1>5

LEMMA FetchKeepsMarks ==
    ASSUME ShieldAssumption, Typed, Tables, NEW w \in Workers, Fetch(w) \/ RefuseOrdering(w),
           ~disturbed', MarksHold(workers, runs, archived, View)
    PROVE  MarksHold(workers', runs', archived', View')
<1> DEFINE run == workers[w].run
           s == Started(w)
<1>1. CASE RefuseOrdering(w)
  <2>1. /\ workers[w].step = "fetch" /\ ~Overtaken(w) /\ UNCHANGED <<register, files>>
        /\ Moves(w, "fetch", FullReading(run), None, {})
    BY <1>1 DEF RefuseOrdering, Moves
  <2> QED BY <2>1, StartsOverKeepsMarks
<1>2. CASE Fetch(w)
  <2> DEFINE page == PageAt(run.offset, NewestFirst(w))
  <2>1. /\ workers[w].step = "fetch" /\ UNCHANGED <<register, files>>
        /\ \/ Moves(w, "fetch", FullReading(run), None, {}) /\ ~Overtaken(w)
           \/ Moves(w, "page", run, page, {}) /\ ~OutOfOrder(run, page) /\ UNCHANGED runs
    BY <1>2, FetchMoves DEF Moves
  <2>2. CASE Moves(w, "fetch", FullReading(run), None, {}) /\ ~Overtaken(w)
    BY <2>1, <2>2, StartsOverKeepsMarks
  <2>3. CASE Moves(w, "page", run, page, {}) /\ ~OutOfOrder(run, page) /\ UNCHANGED runs
    <3>1. View' = View /\ IsView(View)
      BY <2>1, ViewStands, ViewIs
    <3>2. Knows(workers[w], s, View) /\ Dated(run, clock) /\ s \in Nat
      BY <2>1, WorkerKnows
    <3>3. Good(run, s, View) /\ run.phase = "employees" /\ Covered(run, s, View)
      BY <2>1, <3>2 DEF Knows, Good
    <3>4. NewestFirst(w) = Incremental(run)
      BY DEF NewestFirst, Incremental
    <3>5. PageKnown(run, s, page, View)
      BY <2>3, <3>2, <3>3, <3>4, FetchedIsKnown
    <3>6. "page" \notin AfterPages /\ workers[w].step # "idle"
      BY <2>1 DEF AfterPages
    <3> HIDE DEF page
    <3>7. MarksHold(workers', runs', archived', View)
      BY <2>3, <3>3, <3>5, <3>6, MoveKeepsMarks DEF HoldsPage
    <3> QED BY <3>1, <3>7
  <2> QED BY <2>1, <2>2, <2>3
<1> QED BY <1>1, <1>2

LEMMA FinishReadingKeepsMarks ==
    ASSUME ShieldAssumption, Typed, Tables, NEW w \in Workers, FinishReading(w),
           MarksHold(workers, runs, archived, View)
    PROVE  MarksHold(workers', runs', archived', View')
<1> DEFINE run == workers[w].run
           s == Started(w)
           wend == WatermarkOfReading(w)
           q == ProgressOf("employees_done", run.effective, 0, None, run.wstart, wend)
<1>1. /\ workers[w].step = "finish" /\ workers[w].step # "idle"
      /\ UNCHANGED <<register, files>> /\ Moves(w, AfterReading(w), q, None, {})
  BY FinishReadingMoves DEF Moves
<1>2. View' = View /\ IsView(View)
  BY <1>1, ViewStands, ViewIs
<1>3. Knows(workers[w], s, View) /\ Dated(run, clock) /\ s \in Nat /\ clock \in Nat
  BY <1>1, WorkerKnows
<1>4. Good(run, s, View) /\ run.phase = "employees" /\ SafeFrom(Bound(run, s), View)
  BY <1>1, <1>3 DEF Knows
<1>5. SafeFrom(wend, View)
  <2>1. run.wend \in UpTo(clock)
    BY <1>3 DEF Dated
  <2>2. CASE run.wend = None
    BY <2>2 DEF WatermarkOfReading, SafeFrom
  <2>3. CASE run.wend # None /\ Incremental(run)
    <3>1. wend = run.wend /\ Bound(run, s) = run.wend
      BY <2>3 DEF WatermarkOfReading, NewestFirst, Incremental, Bound
    <3> QED BY <1>4, <3>1
  <2>4. CASE run.wend # None /\ ~Incremental(run)
    <3>1. run.wend \in Nat /\ wend = IF run.wend <= s THEN run.wend ELSE s
      BY <2>1, <2>4 DEF WatermarkOfReading, NewestFirst, Incremental, UpTo
    <3>2. Bound(run, s) = s /\ s # None
      BY <1>3, <2>4 DEF Bound, ShieldAssumption
    <3> HIDE DEF wend
    <3>3. wend \in Nat /\ wend <= s /\ Overlap \in Nat
      BY <1>3, <3>1 DEF ShieldAssumption
    <3>4. ASSUME NEW e \in View.late PROVE View.reg[e].upd >= wend - Overlap
      <4>1. View.reg[e].upd >= s - Overlap /\ View.reg[e].upd \in Nat
        BY <1>2, <1>4, <3>2, <3>4 DEF SafeFrom, IsView
      <4> QED BY <1>3, <3>3, <4>1
    <3> QED BY <3>4 DEF SafeFrom
  <2> QED BY <2>2, <2>3, <2>4
<1> HIDE DEF wend
<1>6. /\ q.phase = "employees_done" /\ q.offset = 0 /\ q.wstart = run.wstart /\ q.wend = wend
      /\ q.effective = run.effective
  BY DEF ProgressOf
<1> HIDE DEF q
<1>7. Incremental(q) => q.wstart # None
  BY <1>4, <1>6 DEF Incremental, Good, Ordered
<1>8. Good(q, s, View)
  BY <1>4, <1>5, <1>6, <1>7 DEF Good, Ordered, ShieldAssumption
<1>9. AfterReading(w) \in AfterPages /\ AfterReading(w) \notin {"fetch", "finish"} \cup OnPage
  BY DEF AfterReading, AfterPages, OnPage
<1>10. SafeFrom(q.wend, View)
  BY <1>5, <1>6
<1>11. MarksHold(workers', runs', archived', View)
  BY <1>1, <1>6, <1>8, <1>9, <1>10, MoveKeepsMarks DEF HoldsPage, OnPage
<1> QED BY <1>2, <1>11

(* What is written in time leaves in step whom it finds in step, and whom it
   describes as the register does. *)
LEMMA UpsertInStep ==
    ASSUME Typed, register' = register, NEW page, page.emp \in Employees, NEW row \in Rows,
           page.status \in {"in", "out"}, page.upd \in Stamps, NEW reopened,
           Upsert(page.emp, page, row, reopened), ~Undoes(page)
    PROVE  /\ \A e \in Employees : InStep(e) => InStep(e)'
           /\ View'.reg = register
           /\ \A e \in View'.late : ~(e = page.emp /\ page.upd = register[e].upd
                                        /\ page.status = register[e].status)
<1> DEFINE f == page.emp
<1>1. /\ \A x \in Employees : x # f => files'[x] = files[x]
      /\ files'[f].upd = page.upd /\ files'[f].status = page.status
  BY UpsertedTyped
<1>2. InStep(f) => page.upd = register[f].upd /\ page.status = register[f].status
  BY DEF Undoes
<1>3. InStep(f)' <=> page.upd = register[f].upd /\ page.status = register[f].status
  BY <1>1 DEF InStep
<1>4. \A e \in Employees : e # f => (InStep(e)' <=> InStep(e))
  BY <1>1 DEF InStep
<1>5. \A e \in Employees : InStep(e) => InStep(e)'
  BY <1>2, <1>3, <1>4
<1>6. View'.reg = register /\ \A e \in View'.late : ~InStep(e)'
  BY DEF View, Late
<1>7. \A e \in View'.late : ~(e = f /\ page.upd = register[e].upd /\ page.status = register[e].status)
  BY <1>3, <1>6
<1> QED BY <1>5, <1>6, <1>7

(* What the fields of a progress are once a page is applied. *)
LEMMA NextProgressIs ==
    ASSUME NEW w \in Workers, NEW wend
    PROVE  LET run == workers[w].run
               page == workers[w].page
               q == NextProgress(w, wend)
           IN  /\ q.phase = run.phase /\ q.effective = run.effective /\ q.wstart = run.wstart
               /\ q.wend = wend /\ q.offset = (IF page.more THEN run.offset + 1 ELSE 0)
               /\ q.last = IF Incremental(run) /\ page.emp # None THEN page.upd ELSE run.last
  BY DEF NextProgress, ProgressOf, Incremental

LEMMA CommitPageKeepsMarks ==
    ASSUME ShieldAssumption, Typed, Tables, NEW w \in Workers, NEW reopened,
           CommitPage(w, reopened), HoldsPage(workers[w]), workers[w].page.emp # None,
           UNCHANGED <<register, clock, archived>>,
           ~disturbed', MarksHold(workers, runs, archived, View)
    PROVE  MarksHold(workers', runs', archived', View')
<1> DEFINE run == workers[w].run
           page == workers[w].page
           s == Started(w)
           step == IF page.more THEN "fetch" ELSE "finish"
           read == NextProgress(w, MaxStamp({run.wend, page.upd}))
<1>1. /\ Upsert(page.emp, page, workers[w].row, reopened) /\ Moves(w, step, read, None, {})
      /\ ~Overtaken(w) /\ ~Undoes(page)
  BY CommitPageMoves
<1>2. PageTyped(page, run.offset, clock) /\ workers[w].step # "idle"
  BY DEF Typed, WorkerTyped, HoldsPage, OnPage
<1>3. /\ read.phase = run.phase /\ read.effective = run.effective /\ read.wstart = run.wstart
      /\ read.wend = MaxStamp({run.wend, page.upd})
      /\ read.offset = IF page.more THEN run.offset + 1 ELSE 0
  BY NextProgressIs
<1>4. read.last = IF Incremental(run) THEN page.upd ELSE run.last
  BY NextProgressIs
<1>5. /\ step \in {"fetch", "finish"} /\ step \notin AfterPages \cup OnPage
      /\ step = "finish" => ~page.more
  BY DEF AfterPages, OnPage
<1>6. /\ page.emp \in Employees /\ page.status \in {"in", "out"} /\ page.upd \in Stamps
      /\ workers[w].row \in Rows
  BY <1>2 DEF PageTyped, Pages, Typed, WorkerTyped
<1> HIDE DEF read, step
<1>7. /\ \A e \in Employees : InStep(e) => InStep(e)'
      /\ View'.reg = register
      /\ \A e \in View'.late : ~(e = page.emp /\ page.upd = register[e].upd
                                   /\ page.status = register[e].status)
  <2> HIDE DEF page
  <2> QED BY <1>1, <1>6, UpsertInStep
<1>8. IsView(View') /\ MarksHold(workers, runs, archived, View')
  BY <1>7, ViewKept, MarksCarried
<1>9. /\ Good(run, s, View') /\ PageKnown(run, s, page, View') /\ run.phase = "employees"
      /\ Dated(run, clock) /\ s \in 0..clock /\ clock \in Nat
  BY <1>2, <1>8, WorkerKnows DEF Knows, HoldsPage
<1>10. \A e \in View'.late :
         ~(e = page.emp /\ page.upd = View'.reg[e].upd /\ page.status = View'.reg[e].status)
  BY <1>7
<1>11. Good(read, s, View') /\ (~page.more => SafeFrom(Bound(read, s), View'))
  <2>1. page.emp # None
    OBVIOUS
  <2> HIDE DEF run, page, s
  <2> QED BY <1>2, <1>3, <1>4, <1>8, <1>9, <1>10, <2>1, NewPageCounts
<1>12. step = "finish" => SafeFrom(Bound(read, s), View')
  BY <1>5, <1>11
<1>13. read.phase = "employees"
  BY <1>3, <1>9
<1> QED BY <1>1, <1>2, <1>5, <1>8, <1>11, <1>12, <1>13, MoveKeepsMarks DEF HoldsPage, OnPage

(* A page whose account is to be reopened stays in hand: what it says of the
   register is what it said. *)
LEMMA HoldingKeepsMarks ==
    ASSUME ShieldAssumption, Typed, Tables, NEW w \in Workers,
           NEW step \in {"checking", "reopening"}, workers[w].step # "idle",
           HoldsPage(workers[w]) \/ workers[w].run.phase = "employees_done",
           Moves(w, step, workers[w].run, workers[w].page, workers[w].todo),
           UNCHANGED <<files, runs>>, MarksHold(workers, runs, archived, View)
    PROVE  MarksHold(workers', runs', archived', View')
<1> DEFINE run == workers[w].run
           page == workers[w].page
<1>1. View' = View
  BY ViewStands DEF Moves
<1>2. Knows(workers[w], Started(w), View)
  BY WorkerKnows
<1>3. /\ Good(run, Started(w), View) /\ run.phase \in {"employees", "employees_done"}
      /\ run.phase = "employees" => PageKnown(run, Started(w), page, View)
  BY <1>2 DEF Knows, HoldsPage
<1>4. step \notin AfterPages /\ step \notin {"fetch", "page", "finish"}
  BY DEF AfterPages
<1>5. MarksHold(workers', runs', archived', View)
  BY <1>3, <1>4, MoveKeepsMarks DEF HoldsPage
<1> QED BY <1>1, <1>5

LEMMA ApplyPageKeepsMarks ==
    ASSUME ShieldAssumption, Typed, Tables, NEW w \in Workers, ApplyPage(w),
           ~disturbed', MarksHold(workers, runs, archived, View)
    PROVE  MarksHold(workers', runs', archived', View')
<1> DEFINE run == workers[w].run
           page == workers[w].page
           s == Started(w)
           reached == Reached(run, page)
           step == IF reached \/ ~page.more THEN "finish" ELSE "fetch"
           old == NextProgress(w, run.wend)
<1>1. /\ workers[w].step = "page"
      /\ \/ /\ page.emp = None \/ reached
            /\ Moves(w, step, old, None, {}) /\ ~Overtaken(w) /\ files' = files
         \/ /\ Moves(w, "checking", run, page, workers[w].todo) /\ files' = files
            /\ UNCHANGED runs
         \/ /\ page.emp # None
            /\ CommitPage(w, FALSE) /\ UNCHANGED <<register, clock, archived>>
  BY ApplyPageMoves
<1>2. PageTyped(page, run.offset, clock) /\ workers[w].step # "idle"
  BY <1>1 DEF Typed, WorkerTyped, OnPage
<1>3. /\ Good(run, s, View) /\ PageKnown(run, s, page, View) /\ run.phase = "employees"
      /\ Dated(run, clock) /\ s \in 0..clock /\ clock \in Nat
  BY <1>1, <1>2, WorkerKnows DEF Knows, HoldsPage
<1>4. /\ old.phase = run.phase /\ old.effective = run.effective /\ old.wstart = run.wstart
      /\ old.wend = run.wend /\ old.offset = (IF page.more THEN run.offset + 1 ELSE 0)
      /\ old.last = IF Incremental(run) /\ page.emp # None THEN page.upd ELSE run.last
  BY NextProgressIs
<1>5. step \in {"fetch", "finish"} /\ step \notin AfterPages \cup OnPage
  BY DEF AfterPages, OnPage
<1>6. HoldsPage(workers[w])
  BY <1>1, <1>3 DEF HoldsPage
<1> HIDE DEF old, step
<1>7. CASE /\ page.emp = None \/ reached
           /\ Moves(w, step, old, None, {}) /\ ~Overtaken(w) /\ files' = files
  <2>1. View' = View /\ IsView(View)
    BY <1>7, ViewStands, ViewIs DEF Moves
  <2>2. \/ page.emp = None /\ old.offset = 0 /\ old.last = run.last
        \/ /\ Incremental(run) /\ page.emp # None /\ page.upd < run.wstart - Overlap
           /\ old.last = page.upd
    <3>1. CASE page.emp = None
      <4>1. ~page.more
        BY <1>3, <3>1 DEF PageKnown
      <4> QED BY <1>4, <3>1, <4>1
    <3>2. CASE page.emp # None
      BY <1>4, <1>7, <3>2 DEF Reached, Incremental
    <3> QED BY <3>1, <3>2
  <2>3. /\ Good(old, s, View) /\ SafeFrom(Bound(old, s), View) /\ old.phase = "employees"
    <3> HIDE DEF run, page, s
    <3>1. Good(old, s, View) /\ SafeFrom(Bound(old, s), View)
      BY <1>2, <1>3, <1>4, <2>1, <2>2, OldPageEnds
    <3> QED BY <1>3, <1>4, <3>1
  <2>4. MarksHold(workers', runs', archived', View)
    BY <1>2, <1>5, <1>7, <2>3, MoveKeepsMarks DEF HoldsPage, OnPage
  <2> QED BY <2>1, <2>4
<1>8. CASE /\ Moves(w, "checking", run, page, workers[w].todo) /\ files' = files
           /\ UNCHANGED runs
  BY <1>2, <1>6, <1>8, HoldingKeepsMarks
<1>9. CASE /\ page.emp # None
           /\ CommitPage(w, FALSE) /\ UNCHANGED <<register, clock, archived>>
  BY <1>6, <1>9, CommitPageKeepsMarks
<1> QED BY <1>1, <1>7, <1>8, <1>9

-----------------------------------------------------------------------------
(* The steps after a reading *)

LEMMA ClosingKeepsMarks ==
    ASSUME ShieldAssumption, Typed, Tables, NEW w \in Workers,
           NEW status \in {"failed", "interrupted", "succeeded"},
           CloseAs(w, status, workers[w].run), workers[w].step # "idle", register' = register,
           status = "succeeded" => workers[w].step \in AfterPages,
           MarksHold(workers, runs, archived, View)
    PROVE  MarksHold(workers', runs', archived', View')
<1>1. files' = Unseen(workers[w].row) \/ files' = files
  BY DEF CloseAs
<1>2. \A e \in Employees : files'[e].upd = files[e].upd /\ files'[e].status = files[e].status
  BY <1>1, UnseenTyped
<1>3. \A e \in Employees : InStep(e) => InStep(e)'
  BY <1>2, FilesInStep
<1>4. MarksHold(workers, runs, archived, View')
  BY <1>3, MarksCarried
<1>5. Knows(workers[w], Started(w), View')
  BY <1>4, WorkerKnows
<1>6. status = "succeeded" => SafeFrom(workers[w].run.wend, View')
  BY <1>5 DEF Knows, Good
<1> QED BY <1>4, <1>6, CloseKeepsMarks

(* A worker that is past the pages goes on to another step past them. *)
LEMMA GoingOnKeepsMarks ==
    ASSUME ShieldAssumption, Typed, Tables, NEW w \in Workers, NEW step \in AfterPages,
           NEW page, NEW todo, workers[w].step # "idle",
           workers[w].step \in AfterPages \/ workers[w].run.phase = "employees_done",
           Moves(w, step, workers[w].run, page, todo),
           \A e \in Employees : InStep(e) => InStep(e)',
           MarksHold(workers, runs, archived, View)
    PROVE  MarksHold(workers', runs', archived', View')
<1>1. MarksHold(workers, runs, archived, View')
  BY MarksCarried DEF Moves
<1>2. step \notin {"fetch", "page", "finish", "checking", "reopening"}
  BY DEF AfterPages
<1>3. Knows(workers[w], Started(w), View')
  BY <1>1, WorkerKnows
<1>4. /\ Good(workers[w].run, Started(w), View') /\ workers[w].run.phase = "employees_done"
      /\ SafeFrom(workers[w].run.wend, View')
  BY <1>3 DEF Knows, Good
<1> QED BY <1>1, <1>2, <1>4, MoveKeepsMarks DEF HoldsPage

(* An employee found present is written as they were described. *)
LEMMA CommitPresenceKeepsMarks ==
    ASSUME ShieldAssumption, Typed, Tables, NEW w \in Workers, NEW reopened,
           CommitPresence(w, reopened), workers[w].step \in OnAnswer,
           workers[w].page.status # "gone",
           workers[w].step \in AfterPages \/ workers[w].run.phase = "employees_done",
           UNCHANGED <<register, clock, archived>>,
           ~disturbed', MarksHold(workers, runs, archived, View)
    PROVE  MarksHold(workers', runs', archived', View')
<1> DEFINE page == workers[w].page
           step == IF workers[w].todo = {} THEN "departures" ELSE "ask"
<1>1. /\ Moves(w, step, workers[w].run, None, workers[w].todo)
      /\ Upsert(page.emp, page, workers[w].row, reopened) /\ ~Undoes(page)
  BY CommitPresenceMoves
<1>2. /\ AnswerTyped(page, clock) /\ workers[w].row \in Rows /\ workers[w].step # "idle"
  BY DEF Typed, WorkerTyped, OnAnswer
<1>3. page.emp \in Employees /\ page.status \in {"in", "out"} /\ page.upd \in Stamps
  BY <1>2 DEF AnswerTyped, Pages
<1>4. \A x \in Employees : InStep(x) => InStep(x)'
  <2> HIDE DEF page
  <2> QED BY <1>1, <1>2, <1>3, UpsertInStep
<1>5. step \in AfterPages
  BY DEF AfterPages
<1> HIDE DEF step
<1> QED BY <1>1, <1>2, <1>4, <1>5, GoingOnKeepsMarks

LEMMA EndingKeepsMarks ==
    ASSUME ShieldAssumption, Typed, Tables, NEW w \in Workers,
           DetectAbsences(w) \/ ListDepartures(w) \/ Succeed(w) \/ FailRun(w) \/ Crash(w),
           MarksHold(workers, runs, archived, View)
    PROVE  MarksHold(workers', runs', archived', View')
<1> DEFINE run == workers[w].run
<1>2. CASE DetectAbsences(w)
  <2>1. /\ workers[w].step = "absences" /\ UNCHANGED <<register, clock>>
        /\ \/ CloseAs(w, "failed", run)
           \/ /\ \E step \in {"departures", "ask"} :
                   Goes(w, step, run, None, UnseenBy(workers[w].row))
              /\ UNCHANGED <<runs, archived, files>>
    BY <1>2 DEF DetectAbsences
  <2>2. CASE CloseAs(w, "failed", run)
    BY <2>1, <2>2, ClosingKeepsMarks
  <2>3. CASE /\ \E step \in {"departures", "ask"} :
                  Goes(w, step, run, None, UnseenBy(workers[w].row))
             /\ UNCHANGED <<runs, archived, files>>
    <3> PICK step \in {"departures", "ask"} : Goes(w, step, run, None, UnseenBy(workers[w].row))
      BY <2>3
    <3>1. Moves(w, step, run, None, UnseenBy(workers[w].row))
      BY <2>1, <2>3 DEF Moves
    <3>2. step \in AfterPages /\ workers[w].step \in AfterPages /\ workers[w].step # "idle"
      BY <2>1 DEF AfterPages
    <3>3. \A e \in Employees : InStep(e) => InStep(e)'
      BY <2>1, <2>3, FilesInStep
    <3> QED BY <3>1, <3>2, <3>3, GoingOnKeepsMarks
  <2> QED BY <2>1, <2>2, <2>3
<1>3. CASE ListDepartures(w)
  <2>1. /\ workers[w].step = "departures" /\ UNCHANGED <<register, clock>>
        /\ \/ CloseAs(w, "failed", run)
           \/ /\ Goes(w, "close", run, None, PendingDepartures)
              /\ UNCHANGED <<runs, archived, files>>
    BY <1>3 DEF ListDepartures
  <2>2. CASE CloseAs(w, "failed", run)
    BY <2>1, <2>2, ClosingKeepsMarks
  <2>3. CASE /\ Goes(w, "close", run, None, PendingDepartures)
             /\ UNCHANGED <<runs, archived, files>>
    <3>1. Moves(w, "close", run, None, PendingDepartures)
      BY <2>1, <2>3 DEF Moves
    <3>2. "close" \in AfterPages /\ workers[w].step \in AfterPages /\ workers[w].step # "idle"
      BY <2>1 DEF AfterPages
    <3>3. \A e \in Employees : InStep(e) => InStep(e)'
      BY <2>1, <2>3, FilesInStep
    <3> QED BY <3>1, <3>2, <3>3, GoingOnKeepsMarks
  <2> QED BY <2>1, <2>2, <2>3
<1>4. CASE Succeed(w)
  <2>1. workers[w].step = "close" /\ register' = register /\ CloseAs(w, "succeeded", run)
    BY <1>4 DEF Succeed
  <2>2. workers[w].step \in AfterPages
    BY <2>1 DEF AfterPages
  <2> QED BY <2>1, <2>2, ClosingKeepsMarks
<1>5. CASE FailRun(w)
  <2>1. workers[w].step # "idle" /\ register' = register
    BY <1>5 DEF FailRun, OnTheNetwork
  <2>2. PICK status \in {"interrupted", "failed"} : CloseAs(w, status, run)
    BY <1>5 DEF FailRun
  <2> QED BY <2>1, <2>2, ClosingKeepsMarks
<1>6. CASE Crash(w)
  <2>1. /\ workers' = [workers EXCEPT ![w] = Idle] /\ workers = [x \in Workers |-> workers[x]]
        /\ UNCHANGED <<register, files, runs, archived>>
    BY <1>6 DEF Crash, Tables
  <2>2. View' = View
    BY <2>1, ViewStands
  <2>3. workers'[w].step = "idle" /\ \A x \in Workers : x # w => workers'[x] = workers[x]
    BY <2>1 DEF Idle
  <2>4. MarksHold(workers', runs', archived', View)
    BY <2>1, <2>3 DEF MarksHold
  <2> QED BY <2>2, <2>4
<1> QED BY <1>2, <1>3, <1>4, <1>5, <1>6

LEMMA MarkingKeepsMarks ==
    ASSUME ShieldAssumption, Typed, Tables, NEW w \in Workers, ~disturbed',
           AskEmployee(w) \/ MarkAbsence(w) \/ LockDeparture(w) \/ CloseAccount(w),
           MarksHold(workers, runs, archived, View)
    PROVE  MarksHold(workers', runs', archived', View')
<1> DEFINE run == workers[w].run
           page == workers[w].page
           todo == workers[w].todo
<1>1. {"ask", "mark", "departures", "close", "closing"} \subseteq AfterPages /\ "idle" \notin AfterPages
  BY DEF AfterPages
<1>2. CASE AskEmployee(w)
  <2>1. PICK e \in todo : Goes(w, "mark", run, Recheck(e), todo \ {e})
    BY <1>2 DEF AskEmployee
  <2>2. workers[w].step = "ask" /\ UNCHANGED <<register, files>>
        /\ Moves(w, "mark", run, Recheck(e), todo \ {e})
    BY <1>2, <2>1 DEF AskEmployee, Moves
  <2>3. \A x \in Employees : InStep(x) => InStep(x)'
    BY <2>2, FilesInStep
  <2> QED BY <1>1, <2>2, <2>3, GoingOnKeepsMarks
<1>3. CASE MarkAbsence(w)
  <2> DEFINE step == IF todo = {} THEN "departures" ELSE "ask"
  <2>1. /\ workers[w].step = "mark" /\ UNCHANGED <<register, clock, archived>>
        /\ \/ Moves(w, step, run, None, todo) /\ UNCHANGED files
           \/ /\ Moves(w, step, run, None, todo)
              /\ files' = [files EXCEPT ![page.emp].absent = TRUE]
           \/ Moves(w, "checking", run, page, todo) /\ UNCHANGED <<files, runs>>
           \/ page.status # "gone" /\ CommitPresence(w, FALSE)
    BY <1>3, MarkAbsenceMoves
  <2>2. /\ page.emp \in Employees /\ workers[w].step \in OnAnswer
        /\ workers[w].step \in AfterPages /\ workers[w].step # "idle"
    BY <2>1 DEF Typed, WorkerTyped, OnAnswer, AnswerTyped, AfterPages
  <2>3. step \in {"departures", "ask"}
    OBVIOUS
  <2> HIDE DEF step
  <2>4. CASE Moves(w, step, run, None, todo) /\ UNCHANGED files
    <3>1. \A x \in Employees : InStep(x) => InStep(x)'
      BY <2>1, <2>4, FilesInStep
    <3> QED BY <1>1, <2>2, <2>3, <2>4, <3>1, GoingOnKeepsMarks
  <2>5. CASE /\ Moves(w, step, run, None, todo)
             /\ files' = [files EXCEPT ![page.emp].absent = TRUE]
    <3>1. \A x \in Employees : files'[x].upd = files[x].upd /\ files'[x].status = files[x].status
      <4>1. files' = [files EXCEPT ![page.emp].absent = TRUE]
        BY <2>5
      <4> HIDE DEF page
      <4> QED BY <2>2, <4>1, MarkedAbsent
    <3>2. \A x \in Employees : InStep(x) => InStep(x)'
      BY <2>1, <3>1, FilesInStep
    <3>3. Moves(w, step, run, None, todo)
      BY <2>5
    <3> QED BY <1>1, <2>2, <2>3, <3>2, <3>3, GoingOnKeepsMarks
  <2>6. CASE Moves(w, "checking", run, page, todo) /\ UNCHANGED <<files, runs>>
    <3>1. Knows(workers[w], Started(w), View)
      BY <2>2, WorkerKnows
    <3>2. run.phase = "employees_done"
      BY <2>2, <3>1 DEF Knows
    <3> QED BY <2>2, <2>6, <3>2, HoldingKeepsMarks
  <2>7. CASE page.status # "gone" /\ CommitPresence(w, FALSE)
    BY <2>1, <2>2, <2>7, CommitPresenceKeepsMarks
  <2> QED BY <2>1, <2>4, <2>5, <2>6, <2>7
<1>4. CASE LockDeparture(w)
  <2>1. PICK e \in todo :
        IF StillDeparted(e)
        THEN Goes(w, "closing", run, [emp |-> e, active |-> accounts[e].active], todo \ {e})
        ELSE Goes(w, "close", run, None, todo \ {e})
    BY <1>4 DEF LockDeparture
  <2>2. workers[w].step = "close" /\ UNCHANGED <<register, files, clock, archived, runs>>
    BY <1>4 DEF LockDeparture
  <2>3. \A x \in Employees : InStep(x) => InStep(x)'
    BY <2>2, FilesInStep
  <2> DEFINE read == [emp |-> e, active |-> accounts[e].active]
  <2>4. Moves(w, "closing", run, read, todo \ {e}) \/ Moves(w, "close", run, None, todo \ {e})
    BY <2>1, <2>2 DEF Moves
  <2> HIDE DEF read
  <2> QED BY <1>1, <2>2, <2>3, <2>4, GoingOnKeepsMarks
<1>5. CASE CloseAccount(w)
  <2> DEFINE e == page.emp
  <2>1. /\ workers[w].step = "closing" /\ register' = register
        /\ files' = [files EXCEPT ![e].handled = TRUE]
        /\ Moves(w, "close", run, None, todo)
    BY <1>5 DEF CloseAccount, Moves
  <2>2. e \in Employees
    BY <2>1 DEF Typed, WorkerTyped
  <2>3. \A x \in Employees : files'[x].upd = files[x].upd /\ files'[x].status = files[x].status
    <3>1. files' = [files EXCEPT ![e].handled = TRUE]
      BY <2>1
    <3> HIDE DEF e
    <3> QED BY <2>2, <3>1, ClosedFile
  <2>4. \A x \in Employees : InStep(x) => InStep(x)'
    BY <2>1, <2>3, FilesInStep
  <2> QED BY <1>1, <2>1, <2>4, GoingOnKeepsMarks
<1> QED BY <1>2, <1>3, <1>4, <1>5

(* An account on its way to be reopened comes from a page or from an answer, and
   is committed as it would have been. *)
LEMMA ReopeningKeepsMarks ==
    ASSUME ShieldAssumption, Typed, Tables, NEW w \in Workers, ~disturbed',
           CheckJournal(w) \/ ReopenAccount(w),
           MarksHold(workers, runs, archived, View)
    PROVE  MarksHold(workers', runs', archived', View')
<1> DEFINE run == workers[w].run
           page == workers[w].page
<1>1. /\ UNCHANGED <<register, clock, archived>>
      /\ workers[w].step \in {"checking", "reopening"}
      /\ \/ \E reopened \in BOOLEAN : Commit(w, reopened)
         \/ Goes(w, "reopening", run, page, workers[w].todo) /\ UNCHANGED <<files, runs>>
  BY DEF CheckJournal, ReopenAccount
<1>2. /\ workers[w].step \in OnPage /\ workers[w].step \in OnAnswer /\ workers[w].step # "idle"
  BY <1>1 DEF OnPage, OnAnswer
<1>3. PageTyped(page, run.offset, clock) /\ AnswerTyped(page, clock)
  BY <1>2 DEF Typed, WorkerTyped
<1>4. page.emp # None /\ page.status # "gone"
  BY <1>3 DEF PageTyped, AnswerTyped, ShieldAssumption
<1>5. Knows(workers[w], Started(w), View)
  BY <1>2, WorkerKnows
<1>6. HoldsPage(workers[w]) \/ run.phase = "employees_done"
  BY <1>1, <1>5 DEF Knows, HoldsPage
<1>7. ASSUME NEW reopened \in BOOLEAN, Commit(w, reopened)
      PROVE  MarksHold(workers', runs', archived', View')
  <2>1. CASE run.phase = "employees"
    <3>1. HoldsPage(workers[w]) /\ CommitPage(w, reopened)
      BY <1>1, <1>7, <2>1 DEF Commit, HoldsPage
    <3> QED BY <1>1, <1>4, <3>1, CommitPageKeepsMarks
  <2>2. CASE run.phase # "employees"
    <3>1. run.phase = "employees_done" /\ CommitPresence(w, reopened)
      BY <1>6, <1>7, <2>2 DEF Commit, HoldsPage
    <3> QED BY <1>1, <1>2, <1>4, <3>1, CommitPresenceKeepsMarks
  <2> QED BY <2>1, <2>2
<1>8. CASE Goes(w, "reopening", run, page, workers[w].todo) /\ UNCHANGED <<files, runs>>
  <2>1. Moves(w, "reopening", run, page, workers[w].todo)
    BY <1>1, <1>8 DEF Moves
  <2> QED BY <1>2, <1>6, <1>8, <2>1, HoldingKeepsMarks
<1> QED BY <1>1, <1>7, <1>8

LEMMA OpeningKeepsMarks ==
    ASSUME ShieldAssumption, Typed, Tables, NEW w \in Workers, NEW m \in Modes, NEW force,
           OpenRun(w, m, force), MarksHold(workers, runs, archived, View)
    PROVE  MarksHold(workers', runs', archived', View')
<1>1. register' = register /\ (files' = files \/ \E r : files' = Unseen(r))
  BY DEF OpenRun, ResumeRun, StartRun
<1>2. \A e \in Employees : files'[e].upd = files[e].upd /\ files'[e].status = files[e].status
  BY <1>1, UnseenTyped
<1>3. MarksHold(workers, runs, archived, View')
  BY <1>1, <1>2, FilesInStep, MarksCarried
<1> QED BY <1>3, OpenRunKeepsMarks

-----------------------------------------------------------------------------
(* Edits of the register *)

LEMMA NextViewIs == Typed' => IsView(View')
<1>1. Typed' => IsView(View)'
  BY ViewIs, PTL
<1> QED BY <1>1

(* Before any page has been read, places do not matter. *)
Unplaced(V) == [reg |-> V.reg, late |-> V.late,
                place |-> [b \in BOOLEAN |-> [e \in V.late |-> 0]]]

LEMMA UnplacedKeepsMarks ==
    ASSUME ShieldAssumption, Typed, ~MidReading, NEW V, IsView(V),
           MarksHold(workers, runs, archived, V)
    PROVE  MarksHold(workers, runs, archived, Unplaced(V))
<1> DEFINE U == Unplaced(V)
<1>1. U.reg = V.reg /\ U.late = V.late /\ \A b \in BOOLEAN : \A e \in U.late : U.place[b][e] = 0
  BY DEF Unplaced
<1>2. IsView(U)
  BY <1>1 DEF IsView
<1> HIDE DEF U
<1>3. \A W : SafeFrom(W, V) => SafeFrom(W, U)
  BY <1>1 DEF SafeFrom
<1>4. ASSUME NEW p, NEW s, Good(p, s, V), p.offset \in Nat, ~Reading(p) PROVE Good(p, s, U)
  <2>1. ASSUME p.phase = "employees" PROVE Covered(p, s, U)
    <3>1. p.offset = 0
      BY <1>4, <2>1 DEF Reading
    <3>2. \A e \in U.late : U.place[Incremental(p)][e] >= 0
      BY <1>2, FirstPlace
    <3> QED BY <3>1, <3>2 DEF Covered
  <2> QED BY <1>3, <1>4, <2>1 DEF Good
<1>5. ASSUME NEW w \in Workers, workers[w].step # "idle"
      PROVE  Knows(workers[w], runs[workers[w].row].started, U)
  <2> DEFINE x == workers[w]
             s == runs[workers[w].row].started
  <2>1. Knows(x, s, V)
    BY <1>5 DEF MarksHold
  <2>2. ~Reading(x.run) /\ ~HoldsPage(x)
    BY DEF MidReading
  <2>3. x.run.offset \in Nat
    BY <1>5, WorkerKnows
  <2> HIDE DEF x, s
  <2>4. Knows(x, s, U)
    BY <1>3, <1>4, <2>1, <2>2, <2>3 DEF Knows
  <2> QED BY <2>4 DEF x, s
<1>6. ASSUME NEW r \in Rows PROVE Kept(runs[r], U)
  <2>1. Kept(runs[r], V)
    BY DEF MarksHold
  <2>2. runs[r].status \in {"running", "interrupted"} => ~Reading(runs[r].saved)
    BY DEF MidReading
  <2>3. runs[r].saved.offset \in Nat
    <3>1. Cardinality(Employees) \in Nat
      BY Counted
    <3>2. Dated(runs[r].saved, clock) /\ clock \in Nat
      BY DEF Typed, RunTyped
    <3> QED BY <3>1, <3>2, FieldsDated
  <2> QED BY <1>3, <1>4, <2>1, <2>2, <2>3 DEF Kept
<1>7. MarksHold(workers, runs, archived, U)
  BY <1>3, <1>5, <1>6 DEF MarksHold
<1> QED BY <1>7 DEF U

(* An edit that does not go down among the pages pushes nobody forward. *)
LEMMA RankGrows ==
    ASSUME ShieldAssumption, Typed, Typed', NEW e \in Employees,
           \A f \in Employees : f # e => register'[f] = register[f],
           register'[e].upd >= register[e].upd, register'[e].status # "gone",
           NEW x \in Listed, x # e, NEW b \in BOOLEAN
    PROVE  Rank(x, b)' >= Rank(x, b)
<1> DEFINE P == {f \in Listed : Precedes(f, x, b)}
           Q == {f \in Listed' : Precedes(f, x, b)'}
<1>1. Rank(x, b) = Cardinality(P) /\ Rank(x, b)' = Cardinality(Q)
  BY DEF Rank
<1>2. /\ \A f \in Employees : register[f].upd \in Nat /\ register'[f].upd \in Nat /\ f \in Nat
      /\ x \in Employees /\ register'[x] = register[x]
  BY DEF Typed, RegisterTyped, Entries, Stamps, Listed, ShieldAssumption
<1>3. P \subseteq Q
  <2> SUFFICES ASSUME NEW f \in Listed, Precedes(f, x, b)
               PROVE  f \in Listed' /\ Precedes(f, x, b)'
    OBVIOUS
  <2>1. f \in Employees
    BY DEF Listed
  <2>2. CASE f # e
    BY <1>2, <2>1, <2>2 DEF Listed, Precedes
  <2>3. CASE f = e
    <3>1. f \in Listed'
      BY <2>1, <2>3 DEF Listed
    <3>2. Precedes(f, x, b)'
      BY <1>2, <2>1, <2>3 DEF Precedes
    <3> QED BY <3>1, <3>2
  <2> QED BY <2>2, <2>3
<1>4. IsFiniteSet(Q)
  <2>1. IsFiniteSet(Employees) /\ Q \subseteq Employees
    BY DEF ShieldAssumption, Listed
  <2> QED BY <2>1, FS_Subset
<1>5. Cardinality(P) <= Cardinality(Q) /\ IsFiniteSet(P)
  BY <1>3, <1>4, FS_Subset
<1>6. Cardinality(P) \in Nat /\ Cardinality(Q) \in Nat
  BY <1>4, <1>5, FS_CardinalityType
<1> QED BY <1>1, <1>5, <1>6

LEMMA EditKeepsMarks ==
    ASSUME ShieldAssumption, Typed, Typed', Tables, NEW e \in Employees,
           NEW status \in {"in", "out", "gone"}, EditRegister(e, status),
           ~disturbed', MarksHold(workers, runs, archived, View)
    PROVE  MarksHold(workers', runs', archived', View')
<1>1. PICK late \in 0..Skew :
        register' = [register EXCEPT ![e] =
             [status |-> status,
              upd |-> IF status = "gone" \/ clock + 1 - late < 0 THEN 0 ELSE clock + 1 - late]]
  BY DEF EditRegister
<1>2. /\ UNCHANGED <<files, workers, runs, archived>>
      /\ ~(MidReading /\ (register'[e].upd < register[e].upd \/ status = "gone"))
  BY DEF EditRegister
<1>3. /\ clock \in Nat /\ Overlap \in Nat /\ Skew \in Nat /\ Skew <= Overlap
      /\ register = [f \in Employees |-> register[f]]
      /\ \A f \in Employees : register[f].upd \in Nat /\ register'[f].upd \in Nat
  BY DEF Typed, RegisterTyped, Entries, Stamps, ShieldAssumption, Tables
<1>4. /\ \A f \in Employees : f # e => register'[f] = register[f]
      /\ register'[e].status = status
      /\ status # "gone" => register'[e].upd >= clock - Overlap
  BY <1>1, <1>3
<1>5. IsView(View) /\ IsView(View')
  BY ViewIs, NextViewIs
<1>6. View.reg = register /\ View'.reg = register'
  BY DEF View
<1>7. ASSUME NEW x \in View'.late
      PROVE  \/ x # e /\ x \in View.late /\ x \in Listed /\ register'[x] = register[x]
             \/ register'[x].upd >= clock - Overlap
  <2>1. x \in Employees /\ register'[x].status # "gone" /\ ~InStep(x)'
    BY <1>7 DEF View, Late, Listed
  <2>2. CASE x = e
    BY <1>4, <2>1, <2>2
  <2>3. CASE x # e
    <3>1. register'[x] = register[x] /\ x \in Listed /\ ~InStep(x)
      BY <1>2, <1>4, <2>1, <2>3 DEF Listed, InStep
    <3> QED BY <2>3, <3>1 DEF View, Late
  <2> QED BY <2>2, <2>3
<1>8. CASE ~MidReading
  <2> DEFINE U == Unplaced(View)
  <2>1. U.reg = View.reg /\ U.late = View.late /\ \A b \in BOOLEAN : \A x \in U.late : U.place[b][x] = 0
    BY DEF Unplaced
  <2>2. MarksHold(workers, runs, archived, U)
    BY <1>5, <1>8, UnplacedKeepsMarks
  <2> HIDE DEF U
  <2>3. IsView(U)
    BY <1>5, <2>1 DEF IsView
  <2>4. Eases(View', U, clock)
    <3> SUFFICES ASSUME NEW x \in View'.late, ~(register'[x].upd >= clock - Overlap)
                 PROVE  /\ x \in U.late /\ View'.reg[x] = U.reg[x]
                        /\ \A b \in BOOLEAN : View'.place[b][x] >= U.place[b][x]
      BY <1>6 DEF Eases
    <3>1. x \in U.late /\ View'.reg[x] = U.reg[x]
      BY <1>6, <1>7, <2>1
    <3>2. \A b \in BOOLEAN : View'.place[b][x] \in Nat
      BY <1>5 DEF IsView
    <3> QED BY <2>1, <3>1, <3>2
  <2>5. MarksHold(workers, runs, archived, View')
    BY <1>5, <2>2, <2>3, <2>4, MarksEased
  <2> QED BY <1>2, <2>5
<1>9. CASE MidReading
  <2>1. register'[e].upd >= register[e].upd /\ register'[e].status # "gone"
    BY <1>2, <1>3, <1>4, <1>9
  <2>2. Eases(View', View, clock)
    <3> SUFFICES ASSUME NEW x \in View'.late, ~(register'[x].upd >= clock - Overlap)
                 PROVE  /\ x \in View.late /\ View'.reg[x] = View.reg[x]
                        /\ \A b \in BOOLEAN : View'.place[b][x] >= View.place[b][x]
      BY <1>6 DEF Eases
    <3>1. x # e /\ x \in View.late /\ x \in Listed /\ x \in Employees /\ View'.reg[x] = View.reg[x]
      BY <1>6, <1>7 DEF Listed
    <3>2. ASSUME NEW b \in BOOLEAN PROVE View'.place[b][x] >= View.place[b][x]
      <4>1. Rank(x, b)' >= Rank(x, b)
        BY <1>4, <2>1, <3>1, RankGrows
      <4>2. View'.place[b][x] = Rank(x, b)' /\ View.place[b][x] = Rank(x, b)
        BY <3>1 DEF View
      <4> QED BY <4>1, <4>2
    <3> QED BY <3>1, <3>2
  <2>3. MarksHold(workers, runs, archived, View')
    BY <1>5, <2>2, MarksEased
  <2> QED BY <1>2, <2>3
<1> QED BY <1>8, <1>9

-----------------------------------------------------------------------------
(* The watermark *)

LEMMA WatermarkInit == ASSUME ShieldAssumption, Init PROVE WatermarkInv
<1>1. View.late = {}
  BY DEF Init, View, Late, InStep, Listed
<1>2. \A W : SafeFrom(W, View)
  BY <1>1 DEF SafeFrom
<1>3. \A w \in Workers : workers[w].step = "idle"
  BY DEF Init, Idle
<1>4. \A r \in Rows : runs[r].status = "none"
  BY DEF Init, NoRun
<1> QED BY <1>2, <1>3, <1>4 DEF WatermarkInv, MarksHold, Kept

LEMMA WatermarkStep ==
    ASSUME ShieldAssumption, Typed, Typed', Tables, WatermarkInv, [Next]_vars
    PROVE  WatermarkInv'
<1> SUFFICES ASSUME ~disturbed' PROVE MarksHold(workers', runs', archived', View')
  BY DEF WatermarkInv
<1>1. ASSUME NEW w \in Workers,
             \/ \E m \in left.modes, force \in left.forced : OpenRun(w, m, force)
             \/ WorkerStep(w)
             \/ FailRun(w) \/ RefuseOrdering(w) \/ Crash(w)
      PROVE  MarksHold(workers', runs', archived', View')
  <2>1. CASE \E m \in left.modes, force \in left.forced : OpenRun(w, m, force)
    <3>1. PICK m \in left.modes, force \in left.forced : OpenRun(w, m, force)
      BY <2>1
    <3>2. m \in Modes
      BY DEF Typed, Budget
    <3>3. ~disturbed
      BY <3>1 DEF OpenRun, ResumeRun, StartRun
    <3> QED BY <3>1, <3>2, <3>3, OpeningKeepsMarks DEF WatermarkInv
  <2>2. CASE BeginReading(w)
    <3>1. ~disturbed
      BY <2>2 DEF BeginReading
    <3> QED BY <2>2, <3>1, BeginReadingKeepsMarks DEF WatermarkInv
  <2>3. CASE Fetch(w) \/ RefuseOrdering(w)
    <3>1. ~disturbed
      BY <2>3 DEF Fetch, RefuseOrdering
    <3> QED BY <2>3, <3>1, FetchKeepsMarks DEF WatermarkInv
  <2>4. CASE ApplyPage(w)
    <3>1. ~disturbed
      BY <2>4, ApplyPageMoves DEF CommitPage
    <3> QED BY <2>4, <3>1, ApplyPageKeepsMarks DEF WatermarkInv
  <2>5. CASE FinishReading(w)
    <3>1. ~disturbed
      BY <2>5 DEF FinishReading
    <3> QED BY <2>5, <3>1, FinishReadingKeepsMarks DEF WatermarkInv
  <2>6. CASE DetectAbsences(w) \/ ListDepartures(w) \/ Succeed(w) \/ FailRun(w) \/ Crash(w)
    <3>1. ~disturbed
      BY <2>6 DEF DetectAbsences, ListDepartures, Succeed, FailRun, Crash
    <3> QED BY <2>6, <3>1, EndingKeepsMarks DEF WatermarkInv
  <2>7. CASE AskEmployee(w) \/ MarkAbsence(w) \/ LockDeparture(w) \/ CloseAccount(w)
    <3>1. CASE MarkAbsence(w)
      <4>1. ~disturbed
        BY <3>1, MarkAbsenceMoves DEF CommitPresence
      <4> QED BY <3>1, <4>1, MarkingKeepsMarks DEF WatermarkInv
    <3>2. CASE AskEmployee(w) \/ LockDeparture(w) \/ CloseAccount(w)
      <4>1. ~disturbed
        BY <3>2 DEF AskEmployee, LockDeparture, CloseAccount
      <4> QED BY <3>2, <4>1, MarkingKeepsMarks DEF WatermarkInv
    <3> QED BY <2>7, <3>1, <3>2
  <2>8. CASE CheckJournal(w) \/ ReopenAccount(w)
    <3>1. \/ \E reopened \in BOOLEAN : CommitPage(w, reopened) \/ CommitPresence(w, reopened)
          \/ disturbed' = disturbed
      BY <2>8 DEF CheckJournal, ReopenAccount, Commit
    <3>2. ~disturbed
      BY <3>1 DEF CommitPage, CommitPresence
    <3> QED BY <2>8, <3>2, ReopeningKeepsMarks DEF WatermarkInv
  <2> QED BY <1>1, <2>1, <2>2, <2>3, <2>4, <2>5, <2>6, <2>7, <2>8 DEF WorkerStep
<1>2. ASSUME NEW e \in Employees, NEW status \in {"in", "out", "gone"}, EditRegister(e, status)
      PROVE  MarksHold(workers', runs', archived', View')
  <2>1. ~disturbed
    BY <1>2 DEF EditRegister
  <2> QED BY <1>2, <2>1, EditKeepsMarks DEF WatermarkInv
<1>3. CASE \/ \E e \in Employees : SaveBlock(e) \/ RecordBlock(e) \/ UnblockUser(e)
           \/ UNCHANGED vars
  <2>1. UNCHANGED <<register, files, workers, runs, archived, disturbed>>
    BY <1>3 DEF SaveBlock, RecordBlock, UnblockUser, vars
  <2>2. View' = View
    BY <2>1, ViewStands
  <2> QED BY <2>1, <2>2 DEF WatermarkInv
<1> QED BY <1>1, <1>2, <1>3 DEF Next

LEMMA WatermarkReads ==
    ASSUME ShieldAssumption, Typed, WatermarkInv
    PROVE  StaleFilesWillBeRead
<1> SUFFICES ASSUME ~disturbed, NEW e \in Listed, ~InStep(e), Watermark # None
             PROVE  register[e].upd >= Watermark - Overlap
  BY DEF StaleFilesWillBeRead
<1>1. SafeFrom(Watermark, View)
  BY WatermarkSafe DEF WatermarkInv
<1>2. e \in View.late /\ View.reg = register
  BY DEF View, Late
<1> QED BY <1>1, <1>2 DEF SafeFrom

(* No update of the register is left behind by the watermark of the runs: for
   any number of workers, pages, edits, interruptions, resumptions and falls
   back to a full reading, a listed employee whose file differs from the
   register is one the next incremental reading goes back to.  The watermark of
   a run rests on what each page in hand, each progress saved and each bound of
   a reading owes to the files still late. *)
THEOREM StaleFilesRead == Spec => []StaleFilesWillBeRead
<1>1. Init => Typed /\ WatermarkInv
  BY ShieldAssumption, TypedInit, WatermarkInit
<1>2. Typed /\ WatermarkInv /\ ShieldInv /\ [Next]_vars => Typed' /\ WatermarkInv'
  BY ShieldAssumption, TypedStep, WatermarkStep DEF ShieldInv
<1>3. Typed /\ WatermarkInv => StaleFilesWillBeRead
  BY ShieldAssumption, WatermarkReads
<1> QED BY <1>1, <1>2, <1>3, ShieldInvariant, PTL DEF Spec
==============================================================================
