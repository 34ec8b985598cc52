---------------------------- MODULE CarPlanProofs ----------------------------
(***************************************************************************)
(* The holds of the Car Plan, whatever the number of assignments, vehicles *)
(* and days.                                                               *)
(***************************************************************************)
EXTENDS CarPlan, SetLemmas, TLAPS

AssignmentRow ==
    [status : Status, who : Beneficiaries \cup {None}, type : Kinds \cup {None},
     vehicle : Vehicles \cup {None}, lo : Nat, hi : Nat, of : Ids \cup {None},
     changes : 0..MaxChanges]
HoldRow ==
    [asg : Ids, vehicle : Vehicles, kind : {"assignment", "replacement"}, lo : Nat, hi : Nat,
     nth : Nat]
FleetRow == [vehicle : Vehicles, lo : Nat, hi : Nat]

CarPlanRows ==
    /\ assignments \in [Ids -> AssignmentRow]
    /\ \A a \in Ids : Ordered(assignments[a])
    /\ holds \subseteq HoldRow
    /\ \A i \in inspections : i.asg \in Ids

FleetRows ==
    /\ today \in 0..MaxDay /\ left \in [{"requests", "life", "fleet"} -> Nat]
    /\ mode \in [Vehicles -> Modes] /\ asked \in [Vehicles -> Modes \cup {None}]
    /\ releases \subseteq FleetRow /\ bookings \subseteq FleetRow
    /\ \A b \in bookings : b.lo <= b.hi /\ today <= b.hi /\ b.hi <= Open

(* The holds of an assignment on the vehicles it was given, one after another. *)
Own(hs, a) == {h \in hs : h.asg = a /\ h.kind = "assignment"}

(* Without a planned end, only the first hold has ever been cut short, and by
   the last exchange. *)
StaysOpen(hs, asg, a) ==
    /\ \A h \in Own(hs, a) : h.hi # Open =>
         \A k \in Own(hs, a) : h.nth <= k.nth /\ (k.nth = asg.changes => h.hi + 1 = k.lo)
    /\ asg.status \in VehicleHolding =>
         \E k \in Own(hs, a) : k.nth = asg.changes /\ k.vehicle = asg.vehicle /\ k.hi = Open

(* One hold at each exchange; an empty one comes before the others of its
   vehicle; the vehicle of the assignment is held to its end. *)
InOrder(hs, asg, a) ==
    /\ \A h \in Own(hs, a) : h.nth <= asg.changes
    /\ \A h, k \in Own(hs, a) : h.nth = k.nth => h = k
    /\ \A h, k \in Own(hs, a) : h.vehicle = k.vehicle /\ h.hi < h.lo => h.nth <= k.nth
    /\ asg.status \in VehicleHolding => \E h \in Own(hs, a) : h.vehicle = asg.vehicle /\ h.hi = asg.hi
    /\ asg.hi = Open => StaysOpen(hs, asg, a)

AllInOrder == \A a \in Ids : InOrder(holds, assignments[a], a)

CarPlanInv ==
    /\ CarPlanRows /\ FleetRows
    /\ DbAcceptsHolds(holds) /\ DbAcceptsAssignments(assignments)
    /\ NoHoldOutlivesAssignment
    /\ AllInOrder /\ PoolPlanExcludesCarPlan

-----------------------------------------------------------------------------
(* The two sides of a step: the Car Plan's tables and the fleet's *)

(* CutAgain, for any tables; and a period of the shared fleet that meets a hold
   other than those. *)
Again(hs, as, h) ==
    /\ h.kind = "assignment" /\ h.nth + 1 < as[h.asg].changes
    /\ \A k \in Own(hs, h.asg) : h.nth <= k.nth
Taken(hs, as, b) ==
    \E h \in hs : h.vehicle = b.vehicle /\ Overlap(h, b) /\ ~Again(hs, as, h)

(* What a request of the Car Plan leaves alone: it takes no period that the
   fleet has booked. *)
FleetLeftAlone ==
    /\ UNCHANGED <<today, mode, asked, releases, bookings>>
    /\ left' \in [{"requests", "life", "fleet"} -> Nat]

NoBookingTaken ==
    \A b \in bookings : Taken(holds', assignments', b) => Taken(holds, assignments, b)

LEMMA Spent ==
    ASSUME FleetRows, NEW kind \in {"requests", "life", "fleet"}, Spend(kind)
    PROVE  left' \in [{"requests", "life", "fleet"} -> Nat]
<1>1. left \in [{"requests", "life", "fleet"} -> Nat] /\ left[kind] > 0
  BY DEF FleetRows, Spend
<1>2. left[kind] - 1 \in Nat
  BY <1>1
<1> QED BY <1>1, <1>2 DEF Spend

LEMMA FleetKept ==
    ASSUME FleetRows, FleetLeftAlone
    PROVE  FleetRows'
BY DEF FleetRows, FleetLeftAlone

(* The fleet's plan, hold by hold. *)
LEMMA PoolIs ==
    PoolPlanExcludesCarPlan <=>
        \A b \in bookings : \/ Released(b.vehicle, b)
                            \/ mode[b.vehicle] = "pool" /\ ~Taken(holds, assignments, b)
BY DEF PoolPlanExcludesCarPlan, HoldsOn, CutAgain, Taken, Again, Own

LEMMA PoolKept ==
    ASSUME PoolPlanExcludesCarPlan, FleetLeftAlone, NoBookingTaken
    PROVE  PoolPlanExcludesCarPlan'
<1> SUFFICES ASSUME NEW b \in bookings
             PROVE  \/ Released(b.vehicle, b)'
                    \/ mode'[b.vehicle] = "pool" /\ ~Taken(holds', assignments', b)
  BY DEF PoolPlanExcludesCarPlan, HoldsOn, CutAgain, Taken, Again, Own, FleetLeftAlone
<1>1. \/ Released(b.vehicle, b)
      \/ mode[b.vehicle] = "pool" /\ ~Taken(holds, assignments, b)
  BY PoolIs
<1>2. Released(b.vehicle, b)' <=> Released(b.vehicle, b)
  BY DEF FleetLeftAlone, Released
<1>3. Taken(holds', assignments', b) => Taken(holds, assignments, b)
  BY DEF NoBookingTaken
<1>4. mode' = mode
  BY DEF FleetLeftAlone
<1> QED BY <1>1, <1>2, <1>3, <1>4

LEMMA FewerHolds ==
    ASSUME holds' \subseteq holds,
           \A h \in holds' : assignments'[h.asg].changes = assignments[h.asg].changes
    PROVE  /\ DbAcceptsHolds(holds) => DbAcceptsHolds(holds')
           /\ NoBookingTaken
BY DEF DbAcceptsHolds, NoBookingTaken, Taken, Again, Own

(* The order of the holds is a fact about the holds of one assignment. *)
LEMMA OwnKept ==
    ASSUME NEW hs, NEW hs2, NEW asg, NEW asg2, NEW a, InOrder(hs, asg, a),
           Own(hs2, a) = Own(hs, a),
           asg2.vehicle = asg.vehicle, asg2.hi = asg.hi, asg2.changes = asg.changes,
           asg2.status \in VehicleHolding => asg.status \in VehicleHolding
    PROVE  InOrder(hs2, asg2, a)
BY DEF InOrder, StaysOpen

LEMMA NoneInOrder ==
    ASSUME NEW hs, NEW asg, NEW a, Own(hs, a) = {}, asg.status \notin VehicleHolding
    PROVE  InOrder(hs, asg, a)
BY DEF InOrder, StaysOpen

LEMMA OneInOrder ==
    ASSUME NEW hs, NEW asg, NEW a, NEW h, Own(hs, a) = {h}, h.nth \in Nat,
           h.nth = asg.changes, h.vehicle = asg.vehicle, h.hi = asg.hi
    PROVE  InOrder(hs, asg, a)
BY DEF InOrder, StaysOpen

(* A hold that is added where the database and the fleet's plan allow it. *)
LEMMA OneMoreHold ==
    ASSUME NEW hs, NEW h, DbAcceptsHolds(hs), DbAcceptsHold(hs, h), Ordered(h)
    PROVE  DbAcceptsHolds(hs \cup {h})
<1>0. \A k \in hs \cup {h} : Ordered(k)
  BY DEF DbAcceptsHolds
<1> SUFFICES ASSUME NEW k \in hs \cup {h}, NEW g \in hs \cup {h}, k # g, k.vehicle = g.vehicle
             PROVE  ~Overlap(k, g)
  BY <1>0 DEF DbAcceptsHolds
<1>1. CASE k \in hs /\ g \in hs
  BY <1>1 DEF DbAcceptsHolds
<1>2. CASE k = h /\ g \in hs
  BY <1>2 DEF DbAcceptsHold
<1>3. CASE g = h /\ k \in hs
  <2>1. ~Overlap(h, k)
    BY <1>3 DEF DbAcceptsHold
  <2> QED BY <1>3, <2>1 DEF Overlap
<1> QED BY <1>1, <1>2, <1>3

-----------------------------------------------------------------------------
(* Requests and decisions *)

(* A change of status that takes no vehicle and gives none back. *)
LEMMA StatusMoved ==
    ASSUME CarPlanInv, NEW a \in Ids, NEW to \in Status,
           assignments' = [assignments EXCEPT ![a].status = to],
           assignments[a].status \in VehicleHolding <=> to \in VehicleHolding,
           DbAcceptsAssignments(assignments'),
           FleetLeftAlone, UNCHANGED holds, \A i \in inspections' : i.asg \in Ids
    PROVE  CarPlanInv'
<1>1. CarPlanRows /\ FleetRows
  BY DEF CarPlanInv
<1>2. /\ assignments' \in [Ids -> AssignmentRow]
      /\ \A b \in Ids : /\ assignments'[b].lo = assignments[b].lo
                        /\ assignments'[b].hi = assignments[b].hi
                        /\ assignments'[b].vehicle = assignments[b].vehicle
                        /\ assignments'[b].changes = assignments[b].changes
      /\ \A b \in Ids : assignments'[b].status \in VehicleHolding <=>
                        assignments[b].status \in VehicleHolding
  BY <1>1 DEF CarPlanRows, AssignmentRow
<1>3. CarPlanRows'
  BY <1>1, <1>2 DEF CarPlanRows, Ordered
<1>4. FleetRows'
  BY <1>1, FleetKept
<1>5. NoHoldOutlivesAssignment'
  BY <1>1, <1>2 DEF CarPlanInv, NoHoldOutlivesAssignment, CarPlanRows, HoldRow
<1>6. AllInOrder'
  <2> SUFFICES ASSUME NEW b \in Ids PROVE InOrder(holds', assignments'[b], b)
    BY DEF AllInOrder
  <2>1. InOrder(holds, assignments[b], b)
    BY DEF CarPlanInv, AllInOrder
  <2>2. Own(holds', b) = Own(holds, b)
    BY DEF Own
  <2> QED BY <1>2, <2>1, <2>2, OwnKept
<1>7. \A h \in holds' : h \in holds /\ assignments'[h.asg].changes = assignments[h.asg].changes
  BY <1>1, <1>2 DEF CarPlanRows, HoldRow
<1>8. PoolPlanExcludesCarPlan'
  BY <1>7, FewerHolds, PoolKept DEF CarPlanInv
<1> QED BY <1>3, <1>4, <1>5, <1>6, <1>8 DEF CarPlanInv

(* The constraint on beneficiaries looks at assignments that hold. *)
LEMMA BeneficiariesKept ==
    ASSUME DbAcceptsAssignments(assignments),
           \A b \in Ids : /\ assignments'[b].lo = assignments[b].lo
                          /\ assignments'[b].hi = assignments[b].hi
                          /\ assignments'[b].who = assignments[b].who
                          /\ assignments'[b].status \in Holding => assignments[b].status \in Holding
    PROVE  DbAcceptsAssignments(assignments')
BY DEF DbAcceptsAssignments, Overlap

LEMMA TransitionSound ==
    ASSUME CarPlanInv, NEW a \in Ids,
           \/ ValidateAssignment(a) \/ RejectAssignment(a)
           \/ Suspend(a) \/ Resume(a) \/ RequestReturn(a) \/ Close(a)
    PROVE  CarPlanInv'
<1>0. CarPlanRows /\ FleetRows /\ DbAcceptsAssignments(assignments)
  BY DEF CarPlanInv
<1>1. left' \in [{"requests", "life", "fleet"} -> Nat]
  BY <1>0, Spent DEF ValidateAssignment, RejectAssignment, Suspend, Resume, RequestReturn, Close,
     FleetRows
<1>2. FleetLeftAlone /\ UNCHANGED <<holds, inspections>>
  BY <1>1 DEF ValidateAssignment, RejectAssignment, Suspend, Resume, RequestReturn, Close,
     FleetLeftAlone, fleetVars
<1>3. \A i \in inspections' : i.asg \in Ids
  BY <1>0, <1>2 DEF CarPlanRows
<1>4. ASSUME NEW from \in SUBSET Status, NEW to \in Status, Transition(a, from, to),
             \A st \in from : st \in VehicleHolding <=> to \in VehicleHolding,
             to \in Holding => from \subseteq Holding
      PROVE  CarPlanInv'
  <2>1. /\ assignments' = [assignments EXCEPT ![a].status = to]
        /\ assignments[a].status \in from
    BY <1>4 DEF Transition
  <2>2. \A b \in Ids : /\ assignments'[b].lo = assignments[b].lo
                       /\ assignments'[b].hi = assignments[b].hi
                       /\ assignments'[b].who = assignments[b].who
                       /\ assignments'[b].status \in Holding => assignments[b].status \in Holding
    BY <1>0, <1>4, <2>1 DEF CarPlanRows, AssignmentRow
  <2>3. DbAcceptsAssignments(assignments')
    BY <1>0, <2>2, BeneficiariesKept
  <2> QED BY <1>2, <1>3, <1>4, <2>1, <2>3, StatusMoved
<1>5. CASE ValidateAssignment(a)
  <2>1. /\ assignments' = [assignments EXCEPT ![a].status = "validated"]
        /\ assignments[a].status = "requested" /\ DbAcceptsAssignments(assignments')
    BY <1>5 DEF ValidateAssignment, Transition
  <2> QED BY <1>2, <1>3, <2>1, StatusMoved DEF Status, VehicleHolding, Holding
<1>6. CASE RejectAssignment(a)
  <2>1. Transition(a, {"requested"}, "rejected")
    BY <1>6 DEF RejectAssignment
  <2> QED BY <2>1, <1>4 DEF Status, VehicleHolding, Holding
<1>7. CASE Suspend(a)
  <2>1. Transition(a, {"active"}, "suspended")
    BY <1>7 DEF Suspend
  <2> QED BY <2>1, <1>4 DEF Status, VehicleHolding, Holding
<1>8. CASE Resume(a)
  <2>1. Transition(a, {"suspended"}, "active")
    BY <1>8 DEF Resume
  <2> QED BY <2>1, <1>4 DEF Status, VehicleHolding, Holding
<1>9. CASE RequestReturn(a)
  <2>1. Transition(a, {"active", "suspended"}, "returning")
    BY <1>9 DEF RequestReturn, Running
  <2> QED BY <2>1, <1>4 DEF Status, VehicleHolding, Holding
<1>10. CASE Close(a)
  <2>1. Transition(a, {"returned"}, "closed")
    BY <1>10 DEF Close
  <2> QED BY <2>1, <1>4 DEF Status, VehicleHolding, Holding
<1> QED BY <1>5, <1>6, <1>7, <1>8, <1>9, <1>10

(* A new row holds nothing. *)
LEMMA RequestSound ==
    ASSUME CarPlanInv, NEW who \in Beneficiaries \cup {None}, NEW type \in Kinds \cup {None},
           NEW vehicle \in Vehicles \cup {None}, NEW p, p.lo \in Nat, p.hi \in Nat, Ordered(p),
           NEW of \in Ids \cup {None}, Request(who, type, vehicle, p, of),
           FleetLeftAlone, UNCHANGED <<holds, inspections>>
    PROVE  CarPlanInv'
<1>1. CarPlanRows /\ FleetRows
  BY DEF CarPlanInv
<1> DEFINE row == [status |-> "requested", who |-> who, type |-> type, vehicle |-> vehicle,
                   lo |-> p.lo, hi |-> p.hi, of |-> of, changes |-> 0]
<1>2. PICK a \in Ids : assignments[a].status = "none" /\ assignments' = [assignments EXCEPT ![a] = row]
  BY DEF Request
<1>3. row \in AssignmentRow /\ row.status = "requested" /\ Ordered(row)
  <2>1. MaxChanges \in Nat
    BY CarPlanAssumption
  <2> QED BY <2>1 DEF AssignmentRow, Status, Ordered
<1> HIDE DEF row
<1>4. /\ assignments' \in [Ids -> AssignmentRow] /\ assignments'[a] = row
      /\ \A b \in Ids : b # a => assignments'[b] = assignments[b]
  BY <1>1, <1>2, <1>3 DEF CarPlanRows
<1>5. \A h \in holds : h.asg \in Ids /\ h.asg # a
  BY <1>1, <1>2 DEF CarPlanInv, NoHoldOutlivesAssignment, CarPlanRows, HoldRow, VehicleHolding, Holding
<1>6. CarPlanRows'
  BY <1>1, <1>3, <1>4 DEF CarPlanRows
<1>7. FleetRows'
  BY <1>1, FleetKept
<1>8. DbAcceptsAssignments(assignments')
  BY <1>3, <1>4 DEF CarPlanInv, DbAcceptsAssignments, Holding
<1>9. NoHoldOutlivesAssignment'
  BY <1>4, <1>5 DEF CarPlanInv, NoHoldOutlivesAssignment
<1>10. AllInOrder'
  <2> SUFFICES ASSUME NEW b \in Ids PROVE InOrder(holds', assignments'[b], b)
    BY DEF AllInOrder
  <2>1. InOrder(holds, assignments[b], b) /\ Own(holds', b) = Own(holds, b)
    BY DEF CarPlanInv, AllInOrder, Own
  <2>2. CASE b # a
    BY <1>4, <2>1, <2>2, OwnKept
  <2>3. CASE b = a
    <3>1. Own(holds', a) = {} /\ row.status \notin VehicleHolding
      BY <1>3, <1>5 DEF Own, VehicleHolding, Holding
    <3> QED BY <1>4, <2>3, <3>1, NoneInOrder
  <2> QED BY <2>2, <2>3
<1>11. \A h \in holds' : h \in holds /\ assignments'[h.asg].changes = assignments[h.asg].changes
  BY <1>4, <1>5
<1>12. PoolPlanExcludesCarPlan'
  BY <1>11, FewerHolds, PoolKept DEF CarPlanInv
<1> QED BY <1>6, <1>7, <1>8, <1>9, <1>10, <1>12 DEF CarPlanInv

LEMMA RequestsSound ==
    /\ \A r \in Requests : CarPlanInv /\ RequestAssignment(r) => CarPlanInv'
    /\ \A a \in Ids, end \in NewEnds : CarPlanInv /\ Renew(a, end) => CarPlanInv'
<1>1. ASSUME CarPlanInv, NEW r \in Requests, RequestAssignment(r) PROVE CarPlanInv'
  <2>1. FleetLeftAlone /\ UNCHANGED <<holds, inspections>>
    BY <1>1, Spent DEF CarPlanInv, RequestAssignment, FleetLeftAlone, fleetVars
  <2>2. /\ r.who \in Beneficiaries /\ r.type \in Kinds
        /\ r.lo \in Nat /\ r.hi \in Nat /\ Ordered(r)
    BY CarPlanAssumption DEF Ordered
  <2> QED BY <1>1, <2>1, <2>2, RequestSound DEF RequestAssignment
<1>2. ASSUME CarPlanInv, NEW a \in Ids, NEW end \in NewEnds, Renew(a, end) PROVE CarPlanInv'
  <2> DEFINE asg == assignments[a]
             p == [lo |-> asg.hi + 1, hi |-> end]
  <2>1. FleetLeftAlone /\ UNCHANGED <<holds, inspections>>
    BY <1>2, Spent DEF CarPlanInv, Renew, FleetLeftAlone, fleetVars
  <2>2. asg \in AssignmentRow /\ end \in Nat
    BY <1>2, CarPlanAssumption DEF CarPlanInv, CarPlanRows
  <2>3. /\ asg.status \in Running /\ end > asg.hi
        /\ Request(asg.who, asg.type, asg.vehicle, p, a)
    BY <1>2 DEF Renew
  <2>4. p.lo \in Nat /\ p.hi \in Nat /\ Ordered(p)
    BY <2>2, <2>3 DEF AssignmentRow, Ordered
  <2>5. /\ asg.who \in Beneficiaries \cup {None} /\ asg.type \in Kinds \cup {None}
        /\ asg.vehicle \in Vehicles \cup {None}
    BY <2>2 DEF AssignmentRow
  <2> HIDE DEF asg, p
  <2> QED BY <1>2, <2>1, <2>3, <2>4, <2>5, RequestSound
<1> QED BY <1>1, <1>2

-----------------------------------------------------------------------------
(* Attribution, and the end of an assignment *)

(* What an attribution or an ending does: the assignments in `ended` lose their
   holds and are over, and a may get a vehicle and its hold. *)
Attributed(a, v, new, ended) ==
    /\ holds' = {h \in holds \cup new : h.asg \notin ended}
    /\ assignments' \in [Ids -> AssignmentRow]
    /\ \A b \in Ids : /\ assignments'[b].lo = assignments[b].lo
                      /\ assignments'[b].hi = assignments[b].hi
                      /\ assignments'[b].who = assignments[b].who
                      /\ assignments'[b].changes = assignments[b].changes
                      /\ b # a => assignments'[b].vehicle = assignments[b].vehicle
                      /\ b \in ended => assignments'[b].status \notin VehicleHolding
                      /\ assignments'[b].status \in Holding => assignments[b].status \in Holding
                      /\ b # a /\ b \notin ended =>
                           (assignments'[b].status \in VehicleHolding <=>
                            assignments[b].status \in VehicleHolding)
    /\ a \notin ended =>
         /\ assignments'[a].status \in VehicleHolding /\ assignments'[a].vehicle = v
         /\ \/ /\ new = {} /\ assignments[a].status \in VehicleHolding
               /\ v = assignments[a].vehicle
            \/ /\ new = {NewHold(a, v, assignments[a], "assignment")}
               /\ assignments[a].status = "validated"

LEMMA NewHoldRow ==
    ASSUME CarPlanRows, NEW a \in Ids, NEW v \in Vehicles, NEW p, p.lo \in Nat, p.hi \in Nat,
           NEW kind \in {"assignment", "replacement"}
    PROVE  LET h == NewHold(a, v, p, kind)
           IN /\ h \in HoldRow /\ h.asg = a /\ h.vehicle = v /\ h.kind = kind
              /\ h.lo = p.lo /\ h.hi = p.hi /\ h.nth = assignments[a].changes
<1>1. assignments[a].changes \in Nat
  BY CarPlanAssumption DEF CarPlanRows, AssignmentRow
<1> QED BY <1>1 DEF NewHold, HoldRow

LEMMA AttributedSound ==
    ASSUME CarPlanInv, NEW a \in Ids, NEW v, NEW new, NEW ended, Attributed(a, v, new, ended),
           new = {} \/ /\ v \in Vehicles
                       /\ new = {NewHold(a, v, assignments[a], "assignment")}
                       /\ PoolConflicts(v, assignments[a]) = {}
                       /\ DbAcceptsHold(holds, NewHold(a, v, assignments[a], "assignment")),
           FleetLeftAlone, \A i \in inspections' : i.asg \in Ids
    PROVE  CarPlanInv'
<1>1. CarPlanRows /\ FleetRows /\ NoHoldOutlivesAssignment /\ DbAcceptsHolds(holds)
  BY DEF CarPlanInv
<1>2. /\ \A b \in Ids : assignments[b].lo \in Nat /\ assignments[b].hi \in Nat
                        /\ Ordered(assignments[b])
      /\ \A h \in holds : h \in HoldRow /\ h.asg \in Ids
  BY <1>1 DEF CarPlanRows, AssignmentRow, HoldRow
<1>3. ASSUME NEW h \in new
      PROVE  /\ h \in HoldRow /\ h.asg = a /\ h.vehicle = v /\ h.kind = "assignment"
             /\ h.lo = assignments[a].lo /\ h.hi = assignments[a].hi /\ Ordered(h)
             /\ h.nth = assignments[a].changes /\ h.nth \in Nat
             /\ new = {h} /\ PoolConflicts(v, assignments[a]) = {} /\ DbAcceptsHold(holds, h)
  <2>1. /\ v \in Vehicles /\ h = NewHold(a, v, assignments[a], "assignment") /\ new = {h}
        /\ PoolConflicts(v, assignments[a]) = {} /\ DbAcceptsHold(holds, h)
    BY <1>3
  <2>2. /\ h \in HoldRow /\ h.asg = a /\ h.vehicle = v /\ h.kind = "assignment"
        /\ h.lo = assignments[a].lo /\ h.hi = assignments[a].hi
        /\ h.nth = assignments[a].changes
    BY <1>1, <1>2, <2>1, NewHoldRow
  <2>3. h.nth \in Nat /\ Ordered(h)
    BY <1>2, <2>2 DEF HoldRow, Ordered
  <2> QED BY <2>1, <2>2, <2>3
<1>4. holds' = {h \in holds \cup new : h.asg \notin ended}
  BY DEF Attributed
<1>5. /\ assignments' \in [Ids -> AssignmentRow]
      /\ \A b \in Ids : /\ assignments'[b].lo = assignments[b].lo
                        /\ assignments'[b].hi = assignments[b].hi
                        /\ assignments'[b].who = assignments[b].who
                        /\ assignments'[b].changes = assignments[b].changes
                        /\ b # a => assignments'[b].vehicle = assignments[b].vehicle
                        /\ b \in ended => assignments'[b].status \notin VehicleHolding
                        /\ assignments'[b].status \in Holding => assignments[b].status \in Holding
                        /\ b # a /\ b \notin ended =>
                             (assignments'[b].status \in VehicleHolding <=>
                              assignments[b].status \in VehicleHolding)
  BY DEF Attributed
<1>6. a \notin ended =>
        /\ assignments'[a].status \in VehicleHolding /\ assignments'[a].vehicle = v
        /\ \/ /\ new = {} /\ assignments[a].status \in VehicleHolding
              /\ v = assignments[a].vehicle
           \/ /\ new = {NewHold(a, v, assignments[a], "assignment")}
              /\ assignments[a].status = "validated"
  BY DEF Attributed
<1>7. CarPlanRows'
  BY <1>2, <1>3, <1>4, <1>5 DEF CarPlanRows, Ordered
<1>8. FleetRows'
  BY <1>1, FleetKept
<1>9. DbAcceptsAssignments(assignments')
  BY <1>5, BeneficiariesKept DEF CarPlanInv
<1>10. DbAcceptsHolds(holds')
  <2>1. DbAcceptsHolds(holds \cup new)
    <3>1. CASE new = {}
      BY <1>1, <3>1
    <3>2. CASE new # {}
      <4>1. PICK h \in new : TRUE
        BY <3>2
      <4> QED BY <1>1, <1>2, <1>3, <4>1, OneMoreHold
    <3> QED BY <3>1, <3>2
  <2> QED BY <1>4, <2>1 DEF DbAcceptsHolds
<1>11. NoHoldOutlivesAssignment'
  BY <1>1, <1>2, <1>3, <1>4, <1>5, <1>6 DEF NoHoldOutlivesAssignment
<1>12. AllInOrder'
  <2> SUFFICES ASSUME NEW b \in Ids PROVE InOrder(holds', assignments'[b], b)
    BY DEF AllInOrder
  <2>1. InOrder(holds, assignments[b], b)
    BY DEF CarPlanInv, AllInOrder
  <2>2. CASE b \in ended
    <3>1. Own(holds', b) = {} /\ assignments'[b].status \notin VehicleHolding
      BY <1>4, <1>5, <2>2 DEF Own
    <3> QED BY <3>1, NoneInOrder
  <2>3. CASE b \notin ended /\ (b # a \/ new = {})
    <3>1. Own(holds', b) = Own(holds, b)
      BY <1>3, <1>4, <2>3 DEF Own
    <3>2. /\ assignments'[b].vehicle = assignments[b].vehicle
          /\ assignments'[b].status \in VehicleHolding => assignments[b].status \in VehicleHolding
      BY <1>5, <1>6, <2>3
    <3> QED BY <1>5, <2>1, <3>1, <3>2, OwnKept
  <2>4. CASE b \notin ended /\ b = a /\ new # {}
    <3>1. PICK h \in new : TRUE
      BY <2>4
    <3>2. assignments[a].status = "validated" /\ new = {h} /\ assignments'[a].vehicle = v
      BY <1>3, <1>6, <2>4, <3>1
    <3>3. \A x \in holds : x.asg # a
      BY <1>1, <3>2 DEF NoHoldOutlivesAssignment, VehicleHolding, Holding
    <3>4. /\ h.asg = a /\ h.kind = "assignment" /\ h.vehicle = v /\ h.hi = assignments[a].hi
          /\ h.nth = assignments[a].changes /\ h.nth \in Nat
      BY <1>3, <3>1
    <3>5. Own(holds', a) = {h}
      BY <1>4, <2>4, <3>2, <3>3, <3>4 DEF Own
    <3>6. assignments'[a].hi = assignments[a].hi /\ assignments'[a].changes = assignments[a].changes
      BY <1>5
    <3> QED BY <2>4, <3>2, <3>4, <3>5, <3>6, OneInOrder
  <2> QED BY <2>2, <2>3, <2>4
<1>13. PoolPlanExcludesCarPlan'
  <2>1. NoBookingTaken
    <3> SUFFICES ASSUME NEW b \in bookings, NEW h \in holds', h.vehicle = b.vehicle, Overlap(h, b),
                        ~Again(holds', assignments', h)
                 PROVE  Taken(holds, assignments, b)
      BY DEF NoBookingTaken, Taken
    <3>1. CASE h \in new
      <4>1. b \notin PoolConflicts(v, assignments[a])
        BY <1>3, <3>1
      <4> QED BY <1>3, <3>1, <4>1 DEF PoolConflicts, Overlap
    <3>2. CASE h \in holds
      <4>1. SUFFICES ASSUME Again(holds, assignments, h) PROVE FALSE
        BY <3>2 DEF Taken
      <4>2. assignments'[h.asg].changes = assignments[h.asg].changes
        BY <1>2, <1>5, <3>2
      <4>3. PICK k \in Own(holds', h.asg) : ~(h.nth <= k.nth)
        BY <4>1, <4>2 DEF Again
      <4>4. k \in new /\ h.asg = a
        BY <1>3, <1>4, <4>1, <4>3 DEF Again, Own
      <4>5. assignments[a].status = "validated"
        BY <1>4, <1>6, <4>4 DEF Own
      <4> QED BY <1>1, <3>2, <4>4, <4>5 DEF NoHoldOutlivesAssignment, VehicleHolding, Holding
    <3> QED BY <1>4, <3>1, <3>2
  <2> QED BY <2>1, PoolKept DEF CarPlanInv
<1> QED BY <1>7, <1>8, <1>9, <1>10, <1>11, <1>12, <1>13 DEF CarPlanInv

(* One status moves, and nothing else. *)
OnlyStatus(to, rows, x, st) ==
    /\ to \in [Ids -> AssignmentRow]
    /\ \A b \in Ids :
         /\ to[b].lo = rows[b].lo /\ to[b].hi = rows[b].hi /\ to[b].who = rows[b].who
         /\ to[b].changes = rows[b].changes /\ to[b].vehicle = rows[b].vehicle
         /\ to[b].status = IF b = x THEN st ELSE rows[b].status

Moved(rows, x, st) == [rows EXCEPT ![x].status = st]

LEMMA MovedIs ==
    \A rows, x, st : rows \in [Ids -> AssignmentRow] /\ st \in Status
        => OnlyStatus(Moved(rows, x, st), rows, x, st)
<1> SUFFICES ASSUME NEW rows \in [Ids -> AssignmentRow], NEW x, NEW st \in Status
             PROVE  OnlyStatus(Moved(rows, x, st), rows, x, st)
  OBVIOUS
<1>0. PICK to : to = [rows EXCEPT ![x].status = st]
  OBVIOUS
<1>1. ASSUME NEW b \in Ids
      PROVE  /\ to[b] \in AssignmentRow
             /\ to[b].lo = rows[b].lo /\ to[b].hi = rows[b].hi /\ to[b].who = rows[b].who
             /\ to[b].changes = rows[b].changes /\ to[b].vehicle = rows[b].vehicle
             /\ to[b].status = IF b = x THEN st ELSE rows[b].status
  <2>1. rows[b] \in AssignmentRow
    OBVIOUS
  <2>2. to[b] = IF b = x THEN [rows[b] EXCEPT !.status = st] ELSE rows[b]
    BY <1>0
  <2>3. CASE b = x
    BY <2>1, <2>2, <2>3 DEF AssignmentRow
  <2>4. CASE b # x
    BY <2>1, <2>2, <2>4
  <2> QED BY <2>3, <2>4
<1>2. to = [b \in Ids |-> to[b]]
  BY <1>0
<1>3. to \in [Ids -> AssignmentRow]
  BY <1>1, <1>2
<1>4. Moved(rows, x, st) = to
  BY <1>0 DEF Moved
<1>5. OnlyStatus(to, rows, x, st)
  BY <1>1, <1>3 DEF OnlyStatus
<1> QED BY <1>4, <1>5

(* A renewal that takes over is active, and what it renews is closed. *)
TakenOver(to, rows, a, of) ==
    /\ to \in [Ids -> AssignmentRow]
    /\ \A b \in Ids :
         /\ to[b].lo = rows[b].lo /\ to[b].hi = rows[b].hi /\ to[b].who = rows[b].who
         /\ to[b].changes = rows[b].changes /\ to[b].vehicle = rows[b].vehicle
         /\ b = of => to[b].status = "closed"
         /\ b = a /\ b # of => to[b].status = "active"
         /\ b # a /\ b # of => to[b].status = rows[b].status

LEMMA RolledOverIs ==
    ASSUME NEW rows \in [Ids -> AssignmentRow], NEW a \in Ids
    PROVE  TakenOver(RolledOver(rows, a), rows, a, rows[a].of)
<1>1. "active" \in Status /\ "closed" \in Status
  BY DEF Status
<1>2. PICK half, of : half = Moved(rows, a, "active") /\ of = rows[a].of
  OBVIOUS
<1>3. OnlyStatus(half, rows, a, "active")
  BY <1>1, <1>2, MovedIs
<1>4. PICK to : to = Moved(half, of, "closed")
  OBVIOUS
<1>5. OnlyStatus(to, half, of, "closed")
  <2>1. half \in [Ids -> AssignmentRow]
    BY <1>3 DEF OnlyStatus
  <2> QED BY <1>1, <1>4, <2>1, MovedIs
<1>6. RolledOver(rows, a) = to
  BY <1>2, <1>4 DEF RolledOver, Moved
<1>7. TakenOver(to, rows, a, of)
  <2>1. to \in [Ids -> AssignmentRow]
    BY <1>5 DEF OnlyStatus
  <2>2. ASSUME NEW b \in Ids
        PROVE  /\ to[b].lo = rows[b].lo /\ to[b].hi = rows[b].hi /\ to[b].who = rows[b].who
               /\ to[b].changes = rows[b].changes /\ to[b].vehicle = rows[b].vehicle
               /\ to[b].status = IF b = of THEN "closed"
                                 ELSE IF b = a THEN "active" ELSE rows[b].status
    BY <1>3, <1>5 DEF OnlyStatus
  <2> QED BY <2>1, <2>2 DEF TakenOver
<1> QED BY <1>2, <1>6, <1>7

(* The attribution, with the renewal it completes when its day has come. *)
LEMMA AllocateSound ==
    ASSUME CarPlanInv, NEW a \in Ids, NEW v \in Vehicles, AllocateVehicle(a, v)
    PROVE  CarPlanInv'
<1> DEFINE asg == assignments[a]
           hold == NewHold(a, v, asg, "assignment")
           given == [assignments EXCEPT ![a].vehicle = v, ![a].status = "allocated"]
<1>1. /\ CarPlanRows /\ FleetRows
      /\ asg.status = "validated" /\ PoolConflicts(v, asg) = {} /\ DbAcceptsHold(holds, hold)
      /\ UNCHANGED inspections /\ UNCHANGED fleetVars /\ UNCHANGED <<today, left>>
  BY DEF AllocateVehicle, CarPlanInv
<1>2. FleetLeftAlone /\ \A i \in inspections' : i.asg \in Ids
  BY <1>1 DEF FleetLeftAlone, fleetVars, FleetRows, CarPlanRows
<1>3. /\ given \in [Ids -> AssignmentRow]
      /\ given[a].status = "allocated" /\ given[a].vehicle = v
      /\ \A b \in Ids : /\ given[b].lo = assignments[b].lo /\ given[b].hi = assignments[b].hi
                        /\ given[b].who = assignments[b].who /\ given[b].changes = assignments[b].changes
                        /\ given[b].of = assignments[b].of
                        /\ b # a => given[b] = assignments[b]
  BY <1>1 DEF CarPlanRows, AssignmentRow, Status
<1> HIDE DEF given
<1>4. \/ assignments' = given /\ holds' = holds \cup {hold}
      \/ assignments' = RolledOver(given, a) /\ holds' = HoldsWithout(holds \cup {hold}, asg.of)
  BY DEF AllocateVehicle, given
<1>5. CASE assignments' = given /\ holds' = holds \cup {hold}
  <2>1. Attributed(a, v, {hold}, {})
    BY <1>1, <1>3, <1>5 DEF Attributed, VehicleHolding, Holding
  <2> QED BY <1>1, <1>2, <2>1, AttributedSound
<1>6. CASE assignments' = RolledOver(given, a) /\ holds' = HoldsWithout(holds \cup {hold}, asg.of)
  <2>2. /\ assignments' \in [Ids -> AssignmentRow]
        /\ \A b \in Ids : /\ assignments'[b].lo = given[b].lo /\ assignments'[b].hi = given[b].hi
                          /\ assignments'[b].who = given[b].who
                          /\ assignments'[b].changes = given[b].changes
                          /\ assignments'[b].vehicle = given[b].vehicle
                          /\ b = asg.of => assignments'[b].status = "closed"
                          /\ b = a /\ b # asg.of => assignments'[b].status = "active"
                          /\ b # a /\ b # asg.of => assignments'[b].status = given[b].status
    BY <1>3, <1>6, RolledOverIs DEF TakenOver
  <2>3. holds' = {h \in holds \cup {hold} : h.asg \notin {asg.of}}
    BY <1>6 DEF HoldsWithout
  <2>4. Attributed(a, v, {hold}, {asg.of})
    BY <1>1, <1>3, <2>2, <2>3 DEF Attributed, VehicleHolding, Holding
  <2> QED BY <1>1, <1>2, <2>4, AttributedSound
<1> QED BY <1>4, <1>5, <1>6

LEMMA RollOverSound ==
    ASSUME CarPlanInv, NEW a \in Ids, RollOverRenewal(a)
    PROVE  CarPlanInv'
<1> DEFINE asg == assignments[a]
<1>1. /\ CarPlanRows /\ FleetRows
      /\ asg.status = "allocated"
      /\ assignments' = RolledOver(assignments, a)
      /\ holds' = {h \in holds \cup {} : h.asg \notin {asg.of}}
      /\ UNCHANGED inspections /\ UNCHANGED fleetVars /\ UNCHANGED <<today, left>>
  BY DEF RollOverRenewal, RollsOver, HoldsWithout, CarPlanInv
<1>2. FleetLeftAlone /\ \A i \in inspections' : i.asg \in Ids
  BY <1>1 DEF FleetLeftAlone, fleetVars, FleetRows, CarPlanRows
<1>3. /\ assignments' \in [Ids -> AssignmentRow]
      /\ \A b \in Ids : /\ assignments'[b].lo = assignments[b].lo
                        /\ assignments'[b].hi = assignments[b].hi
                        /\ assignments'[b].who = assignments[b].who
                        /\ assignments'[b].changes = assignments[b].changes
                        /\ assignments'[b].vehicle = assignments[b].vehicle
                        /\ b = asg.of => assignments'[b].status = "closed"
                        /\ b = a /\ b # asg.of => assignments'[b].status = "active"
                        /\ b # a /\ b # asg.of => assignments'[b].status = assignments[b].status
  BY <1>1, RolledOverIs DEF CarPlanRows, TakenOver
<1>4. Attributed(a, asg.vehicle, {}, {asg.of})
  BY <1>1, <1>3 DEF Attributed, VehicleHolding, Holding
<1> QED BY <1>2, <1>4, AttributedSound

LEMMA CancelSound ==
    ASSUME CarPlanInv, NEW a \in Ids, CancelAssignment(a)
    PROVE  CarPlanInv'
<1>1. /\ CarPlanRows /\ FleetRows
      /\ assignments' = [assignments EXCEPT ![a].status = "cancelled"]
      /\ holds' = {h \in holds \cup {} : h.asg \notin {a}}
      /\ UNCHANGED inspections /\ UNCHANGED fleetVars /\ UNCHANGED <<today, left>>
  BY DEF CancelAssignment, Transition, HoldsWithout, CarPlanInv
<1>2. FleetLeftAlone /\ \A i \in inspections' : i.asg \in Ids
  BY <1>1 DEF FleetLeftAlone, fleetVars, FleetRows, CarPlanRows
<1>3. Attributed(a, None, {}, {a})
  BY <1>1 DEF Attributed, VehicleHolding, Holding, CarPlanRows, AssignmentRow, Status
<1> QED BY <1>2, <1>3, AttributedSound

LEMMA SignAsManagerSound ==
    ASSUME CarPlanInv, NEW i \in inspections, SignAsManager(i)
    PROVE  CarPlanInv'
<1> DEFINE a == i.asg
<1>1. /\ CarPlanRows /\ FleetRows /\ a \in Ids /\ DbAcceptsAssignments(assignments)
      /\ inspections' \subseteq inspections
      /\ UNCHANGED fleetVars /\ UNCHANGED <<today, left>>
  BY DEF SignAsManager, CarPlanInv, CarPlanRows
<1>2. FleetLeftAlone /\ \A x \in inspections' : x.asg \in Ids
  BY <1>1 DEF FleetLeftAlone, fleetVars, FleetRows, CarPlanRows
<1>3. \/ /\ assignments[a].status = "allocated" /\ UNCHANGED holds
         /\ assignments' = [assignments EXCEPT ![a].status = "active"]
      \/ /\ assignments' = [assignments EXCEPT ![a].status = "returned"]
         /\ holds' = {h \in holds \cup {} : h.asg \notin {a}}
  BY DEF SignAsManager, ReturnedHolds, HoldsWithout
<1> HIDE DEF a
<1>4. CASE /\ assignments[a].status = "allocated" /\ UNCHANGED holds
           /\ assignments' = [assignments EXCEPT ![a].status = "active"]
  <2>1. \A b \in Ids : /\ assignments'[b].lo = assignments[b].lo
                       /\ assignments'[b].hi = assignments[b].hi
                       /\ assignments'[b].who = assignments[b].who
                       /\ assignments'[b].status \in Holding => assignments[b].status \in Holding
    BY <1>1, <1>4 DEF CarPlanRows, AssignmentRow, Holding
  <2>2. DbAcceptsAssignments(assignments')
    BY <1>1, <2>1, BeneficiariesKept
  <2> QED BY <1>1, <1>2, <1>4, <2>2, StatusMoved DEF Status, VehicleHolding, Holding
<1>5. CASE /\ assignments' = [assignments EXCEPT ![a].status = "returned"]
           /\ holds' = {h \in holds \cup {} : h.asg \notin {a}}
  <2>1. Attributed(a, None, {}, {a})
    BY <1>1, <1>5 DEF Attributed, VehicleHolding, Holding, CarPlanRows, AssignmentRow, Status
  <2> QED BY <1>1, <1>2, <2>1, AttributedSound
<1> QED BY <1>3, <1>4, <1>5

-----------------------------------------------------------------------------
(* What happens to the holds of one assignment *)

LEMMA OneAssignmentSound ==
    ASSUME CarPlanInv, NEW a \in Ids,
           assignments' \in [Ids -> AssignmentRow], Ordered(assignments'[a]),
           \A b \in Ids : b # a => assignments'[b] = assignments[b],
           holds' \subseteq HoldRow,
           \A h \in HoldRow : h.asg # a => (h \in holds' <=> h \in holds),
           assignments'[a].status \in VehicleHolding
             \/ \A h \in holds' : h.asg # a,
           DbAcceptsHolds(holds'), DbAcceptsAssignments(assignments'),
           FleetLeftAlone, UNCHANGED inspections,
           InOrder(holds', assignments'[a], a), NoBookingTaken
    PROVE  CarPlanInv'
<1>1. CarPlanRows /\ FleetRows
  BY DEF CarPlanInv
<1>2. CarPlanRows'
  BY <1>1 DEF CarPlanRows
<1>3. FleetRows'
  BY <1>1, FleetKept
<1>4. \A h \in holds' : /\ h.asg \in Ids
                        /\ h.asg # a => h \in holds /\ assignments'[h.asg] = assignments[h.asg]
  BY DEF HoldRow
<1>5. NoHoldOutlivesAssignment'
  BY <1>4 DEF CarPlanInv, NoHoldOutlivesAssignment
<1>6. AllInOrder'
  <2> SUFFICES ASSUME NEW b \in Ids, b # a PROVE InOrder(holds', assignments'[b], b)
    BY DEF AllInOrder
  <2>1. InOrder(holds, assignments[b], b) /\ assignments'[b] = assignments[b]
    BY DEF CarPlanInv, AllInOrder
  <2>2. Own(holds', b) = Own(holds, b)
    BY <1>1 DEF Own, CarPlanRows
  <2> QED BY <2>1, <2>2, OwnKept
<1>7. PoolPlanExcludesCarPlan'
  BY PoolKept DEF CarPlanInv
<1> QED BY <1>2, <1>3, <1>5, <1>6, <1>7 DEF CarPlanInv

(* The first hold is a hold of the assignment, on one of the vehicles. *)
LEMMA FirstHoldIs ==
    ASSUME NEW a, NEW on
    PROVE  \A h \in FirstHold(a, on) :
             h \in holds /\ h.asg = a /\ h.kind = "assignment" /\ h.vehicle \in on
BY DEF FirstHold

LEMMA UntilIs ==
    ASSUME NEW h \in HoldRow, NEW day \in Nat
    PROVE  /\ Until(h, day) \in HoldRow
           /\ Until(h, day).asg = h.asg /\ Until(h, day).vehicle = h.vehicle
           /\ Until(h, day).kind = h.kind /\ Until(h, day).lo = h.lo
           /\ Until(h, day).nth = h.nth /\ Until(h, day).hi = day
BY DEF Until, HoldRow

(* An extension moves the end of the hold of the assigned vehicle. *)
LEMMA ExtendSound ==
    ASSUME CarPlanInv, NEW a \in Ids, NEW end \in NewEnds, Extend(a, end)
    PROVE  CarPlanInv'
<1> DEFINE asg == assignments[a]
           first == FirstHold(a, {asg.vehicle})
<1>1. /\ CarPlanRows /\ FleetRows
      /\ asg.status \in {"validated", "allocated", "active", "suspended"}
      /\ end # Open /\ (asg.hi = Open \/ end > asg.hi)
      /\ Ordered([lo |-> asg.lo, hi |-> end])
      /\ assignments' = [assignments EXCEPT ![a]["hi"] = end]
      /\ DbAcceptsHolds(holds') /\ DbAcceptsAssignments(assignments')
      /\ UNCHANGED inspections /\ UNCHANGED fleetVars /\ UNCHANGED today /\ Spend("life")
  BY DEF Extend, CarPlanInv, Set
<1>2. FleetLeftAlone
  BY <1>1, Spent DEF FleetLeftAlone, fleetVars
<1>3. /\ end \in Nat /\ end < Open /\ Open \in Nat
      /\ asg \in AssignmentRow /\ asg.lo \in Nat /\ asg.hi \in Nat
  BY <1>1, CarPlanAssumption DEF CarPlanRows, AssignmentRow
<1>4. /\ assignments' \in [Ids -> AssignmentRow]
      /\ assignments'[a].lo = asg.lo /\ assignments'[a].hi = end
      /\ assignments'[a].status = asg.status /\ assignments'[a].vehicle = asg.vehicle
      /\ assignments'[a].changes = asg.changes
      /\ \A b \in Ids : b # a => assignments'[b] = assignments[b]
  BY <1>1, <1>3 DEF CarPlanRows, AssignmentRow
<1>5. Ordered(assignments'[a])
  BY <1>1, <1>4 DEF Ordered
<1>6. \/ asg.vehicle = None /\ holds' = holds
      \/ /\ holds' = {IF h \in first THEN Until(h, end) ELSE h : h \in holds}
         /\ asg.hi # Open => PoolConflicts(asg.vehicle, [lo |-> asg.hi + 1, hi |-> end]) = {}
  BY DEF Extend, ExtendedHolds
<1>7. /\ \A h \in first : /\ h \in holds /\ h.asg = a /\ h.kind = "assignment"
                          /\ h.vehicle = asg.vehicle
      /\ \A h \in holds : h \in HoldRow
  BY <1>1, FirstHoldIs DEF CarPlanRows
<1>8. \A h \in holds : /\ Until(h, end) \in HoldRow
                       /\ Until(h, end).asg = h.asg /\ Until(h, end).vehicle = h.vehicle
                       /\ Until(h, end).kind = h.kind /\ Until(h, end).lo = h.lo
                       /\ Until(h, end).nth = h.nth /\ Until(h, end).hi = end
  BY <1>3, <1>7, UntilIs
<1> DEFINE moved(h) == IF asg.vehicle # None /\ h \in first THEN Until(h, end) ELSE h
<1>9. asg.vehicle = None => first = {}
  <2> SUFFICES ASSUME asg.vehicle = None, NEW h \in first
               PROVE  FALSE
    OBVIOUS
  <2>1. h \in HoldRow /\ h.vehicle = None
    BY <1>7
  <2> QED BY <2>1, CarPlanAssumption DEF HoldRow
<1>10. holds' = {moved(h) : h \in holds}
  BY <1>6, <1>9
<1> HIDE DEF first
<1>11. \A h \in holds : /\ moved(h) \in HoldRow
                        /\ moved(h).asg = h.asg /\ moved(h).vehicle = h.vehicle
                        /\ moved(h).kind = h.kind /\ moved(h).lo = h.lo /\ moved(h).nth = h.nth
                        /\ moved(h) = h \/ (h \in first /\ moved(h).hi = end)
  BY <1>7, <1>8
<1>12. \A h \in holds : h.asg # a => moved(h) = h
  BY <1>7
<1>13. \A h \in holds : h \in first => moved(h).hi = end
  BY <1>8, <1>9
<1> HIDE DEF moved
<1>14. holds' \subseteq HoldRow
  BY <1>10, <1>11
<1>15. \A h \in HoldRow : h.asg # a => (h \in holds' <=> h \in holds)
  BY <1>10, <1>11, <1>12
<1>16. assignments'[a].status \in VehicleHolding \/ \A h \in holds' : h.asg # a
  BY <1>1, <1>4, <1>10, <1>11 DEF CarPlanInv, NoHoldOutlivesAssignment, VehicleHolding, Holding
<1>17. InOrder(holds, asg, a) /\ DbAcceptsHolds(holds')
  BY <1>1 DEF CarPlanInv, AllInOrder
<1>18. \A f \in first, k \in Own(holds, a) : k.vehicle = asg.vehicle => f.nth <= k.nth
  BY DEF first, FirstHold, Own
<1>19. /\ \A f \in first : f \in Own(holds, a) /\ f.vehicle = asg.vehicle
       /\ \A h \in Own(holds, a) : h \in holds /\ h \in HoldRow /\ h.nth \in Nat
                                   /\ h.lo \in Nat /\ h.hi \in Nat
  BY <1>7 DEF Own, HoldRow
<1>20. Own(holds', a) = {moved(h) : h \in Own(holds, a)}
  BY <1>10, <1>11 DEF Own
<1>21. InOrder(holds', assignments'[a], a)
  <2>1. \A g \in Own(holds', a) : g.nth <= asg.changes
    BY <1>11, <1>17, <1>19, <1>20 DEF InOrder
  <2>2. \A g, j \in Own(holds', a) : g.nth = j.nth => g = j
    BY <1>11, <1>17, <1>19, <1>20 DEF InOrder
  <2>3. ASSUME NEW g \in Own(holds', a), NEW j \in Own(holds', a), g.vehicle = j.vehicle, g.hi < g.lo
        PROVE  g.nth <= j.nth
    <3>1. PICK h \in Own(holds, a) : g = moved(h)
      BY <1>20
    <3>2. PICK k \in Own(holds, a) : j = moved(k)
      BY <1>20
    <3>3. h.vehicle = k.vehicle /\ g.nth = h.nth /\ j.nth = k.nth
      BY <1>11, <1>19, <2>3, <3>1, <3>2
    <3>4. CASE h \in first
      BY <1>18, <1>19, <3>2, <3>3, <3>4
    <3>5. CASE h \notin first
      <4>1. g = h
        BY <1>11, <1>19, <3>1, <3>5
      <4> QED BY <1>17, <2>3, <3>1, <3>2, <3>3, <4>1 DEF InOrder
    <3> QED BY <3>4, <3>5
  <2>4. asg.status \in VehicleHolding =>
          \E g \in Own(holds', a) : g.vehicle = asg.vehicle /\ g.hi = end
    <3> SUFFICES ASSUME asg.status \in VehicleHolding
                 PROVE  \E g \in Own(holds', a) : g.vehicle = asg.vehicle /\ g.hi = end
      OBVIOUS
    <3> DEFINE ranks == {h.nth : h \in {k \in Own(holds, a) : k.vehicle = asg.vehicle}}
    <3>1. ranks # {} /\ ranks \subseteq Nat
      BY <1>17, <1>19 DEF InOrder
    <3>2. PICK n \in ranks : \A m \in ranks : n <= m
      <4> HIDE DEF ranks
      <4> QED BY <3>1, LeastNatural
    <3>3. PICK f \in Own(holds, a) : f.vehicle = asg.vehicle /\ f.nth = n
      OBVIOUS
    <3>4. f \in first
      <4>1. \A k \in holds : (k.asg = a /\ k.kind = "assignment" /\ k.vehicle = asg.vehicle)
                                 => f.nth <= k.nth
        BY <3>2, <3>3 DEF Own
      <4> QED BY <3>3, <4>1 DEF first, FirstHold, Own
    <3>5. moved(f) \in Own(holds', a) /\ moved(f).vehicle = asg.vehicle
      BY <1>11, <1>19, <1>20, <3>3
    <3> QED BY <1>13, <1>19, <3>3, <3>4, <3>5
  <2> QED BY <1>1, <1>4, <2>1, <2>2, <2>3, <2>4 DEF InOrder
<1>22. NoBookingTaken
  <2> SUFFICES ASSUME NEW b \in bookings, NEW g \in holds', g.vehicle = b.vehicle, Overlap(g, b),
                      ~Again(holds', assignments', g)
               PROVE  Taken(holds, assignments, b)
    BY DEF NoBookingTaken, Taken
  <2>1. PICK f \in holds : g = moved(f)
    BY <1>10
  <2>2. /\ g.vehicle = f.vehicle /\ g.lo = f.lo /\ f.lo \in Nat /\ f.hi \in Nat
        /\ ~Again(holds, assignments, f)
    <3>1. f \in HoldRow /\ g.asg = f.asg /\ g.kind = f.kind /\ g.nth = f.nth /\ g.lo = f.lo
          /\ g.vehicle = f.vehicle
      BY <1>7, <1>11, <2>1
    <3>2. f.asg \in Ids /\ assignments'[f.asg].changes = assignments[f.asg].changes
      BY <1>4, <3>1 DEF HoldRow
    <3>3. \A k \in Own(holds', f.asg) : \E j \in Own(holds, f.asg) : k.nth = j.nth
      BY <1>10, <1>11 DEF Own
    <3> QED BY <3>1, <3>2, <3>3 DEF HoldRow, Again
  <2>3. b.lo \in Nat /\ b.hi \in Nat /\ b.lo <= b.hi /\ b.hi <= Open
    BY <1>1 DEF FleetRows, FleetRow
  <2>4. Overlap(f, b) => Taken(holds, assignments, b)
    BY <2>2 DEF Taken
  <2>5. CASE g # f
    <3>1. /\ f \in first /\ g.hi = end /\ f \in Own(holds, a) /\ f.vehicle = asg.vehicle
          /\ f.lo <= end /\ f.lo <= b.hi /\ b.lo <= end
      BY <1>11, <1>19, <2>1, <2>2, <2>5 DEF Overlap
    <3>2. asg.status \in VehicleHolding /\ asg.vehicle # None
      <4>1. asg.status \in VehicleHolding
        BY <1>7, <3>1 DEF CarPlanInv, NoHoldOutlivesAssignment
      <4> QED BY <1>9, <3>1, <4>1
    <3>3. ASSUME NEW k \in Own(holds, a), k # f, k.vehicle = asg.vehicle
          PROVE  f.nth < k.nth /\ k \in holds' /\ (g # k => ~Overlap(g, k))
      <4>1. f.nth <= k.nth /\ f.nth # k.nth
        BY <1>17, <1>18, <3>1, <3>3 DEF InOrder
      <4>2. k \notin first
        BY <1>18, <1>19, <3>1, <4>1
      <4>3. k \in holds'
        BY <1>10, <1>11, <1>19, <4>2
      <4> QED BY <1>17, <1>19, <2>2, <3>1, <3>3, <4>1, <4>3 DEF DbAcceptsHolds
    <3>4. CASE asg.hi = Open
      <4>1. CASE f.hi = Open
        BY <1>3, <2>2, <2>3, <2>4, <3>1, <4>1 DEF Overlap
      <4>2. CASE f.hi # Open
        <5>1. StaysOpen(holds, asg, a)
          BY <1>17, <3>4 DEF InOrder
        <5>2. PICK k \in Own(holds, a) : /\ k.nth = asg.changes /\ k.vehicle = asg.vehicle
                                         /\ k.hi = Open
          BY <3>2, <5>1 DEF StaysOpen
        <5>3. f.hi + 1 = k.lo
          BY <3>1, <4>2, <5>1, <5>2 DEF StaysOpen
        <5>4. ~Overlap(g, k)
          BY <1>1, <3>1, <3>3, <4>2, <5>2
        <5>5. end <= f.hi
          BY <1>3, <2>2, <3>1, <5>2, <5>3, <5>4 DEF Overlap
        <5> QED BY <1>3, <2>2, <2>3, <2>4, <3>1, <5>5 DEF Overlap
      <4> QED BY <4>1, <4>2
    <3>5. CASE asg.hi # Open
      <4>1. PoolConflicts(asg.vehicle, [lo |-> asg.hi + 1, hi |-> end]) = {} /\ end > asg.hi
        BY <1>1, <1>6, <3>2, <3>5
      <4>2. ~Overlap(b, [lo |-> asg.hi + 1, hi |-> end])
        BY <2>2, <3>1, <4>1 DEF PoolConflicts
      <4>3. b.hi <= asg.hi
        BY <1>3, <2>3, <3>1, <4>1, <4>2 DEF Overlap
      <4>4. PICK c \in Own(holds, a) : c.vehicle = asg.vehicle /\ c.hi = asg.hi
        BY <1>17, <3>2 DEF InOrder
      <4>5. CASE c = f
        BY <1>3, <2>2, <2>3, <2>4, <3>1, <4>3, <4>4, <4>5 DEF Overlap
      <4>6. CASE c # f
        <5>0. g.hi # c.hi
          BY <1>3, <3>1, <4>1, <4>4
        <5>1. f.nth < c.nth /\ ~Overlap(g, c)
          BY <3>3, <4>4, <4>6, <5>0
        <5>2. c.lo <= c.hi
          <6>1. c.hi < c.lo => c.nth <= f.nth
            BY <1>17, <3>1, <4>4 DEF InOrder
          <6> QED BY <1>19, <3>1, <5>1, <6>1
        <5>3. c.lo \in Nat /\ c.hi \in Nat
          BY <1>19
        <5> QED BY <1>3, <2>2, <2>3, <3>1, <4>1, <4>3, <4>4, <5>1, <5>2, <5>3 DEF Overlap
      <4> QED BY <4>5, <4>6
    <3> QED BY <3>4, <3>5
  <2> QED BY <2>1, <2>4, <2>5
<1> QED BY <1>1, <1>2, <1>4, <1>5, <1>14, <1>15, <1>16, <1>17, <1>21, <1>22, OneAssignmentSound

(* An exchange cuts the hold of the vehicle before, and holds the new one to
   the end of the assignment. *)
LEMMA ChangeVehicleSound ==
    ASSUME CarPlanInv, NEW a \in Ids, NEW v \in Vehicles, NEW on \in today..MaxDay,
           ChangeVehicle(a, v, on)
    PROVE  CarPlanInv'
<1> DEFINE asg == assignments[a]
           first == FirstHold(a, Vehicles)
           cut == CutHold(first, on)
           hold == [NewHold(a, v, [lo |-> on, hi |-> asg.hi], "assignment") EXCEPT !.nth = @ + 1]
<1>1. /\ CarPlanRows /\ FleetRows /\ DbAcceptsAssignments(assignments)
      /\ asg.status \in {"allocated", "active", "suspended"}
      /\ v # asg.vehicle /\ on <= asg.hi /\ asg.changes < MaxChanges
      /\ PoolConflicts(v, [lo |-> on, hi |-> asg.hi]) = {}
      /\ DbAcceptsHolds(cut) /\ DbAcceptsHold(cut, hold)
      /\ holds' = cut \cup {hold}
      /\ assignments' = [assignments EXCEPT ![a].vehicle = v, ![a].status = "allocated",
                                            ![a].changes = @ + 1]
      /\ UNCHANGED inspections /\ UNCHANGED fleetVars /\ UNCHANGED today /\ Spend("life")
  BY DEF ChangeVehicle, CarPlanInv
<1>2. FleetLeftAlone
  BY <1>1, Spent DEF FleetLeftAlone, fleetVars
<1>3. /\ on \in Nat /\ asg \in AssignmentRow /\ asg.lo \in Nat /\ asg.hi \in Nat
      /\ MaxChanges \in Nat /\ asg.changes \in Nat /\ asg.changes + 1 \in 0..MaxChanges
      /\ asg.changes + 1 # 0
  <2>1. today \in Nat /\ MaxChanges \in Nat /\ MaxDay \in Nat
    BY <1>1, CarPlanAssumption DEF FleetRows
  <2> QED BY <1>1, <2>1 DEF CarPlanRows, AssignmentRow
<1>4. /\ assignments' \in [Ids -> AssignmentRow]
      /\ assignments'[a].lo = asg.lo /\ assignments'[a].hi = asg.hi
      /\ assignments'[a].who = asg.who
      /\ assignments'[a].status = "allocated" /\ assignments'[a].vehicle = v
      /\ assignments'[a].changes = asg.changes + 1
      /\ \A b \in Ids : b # a => assignments'[b] = assignments[b]
  BY <1>1, <1>3 DEF CarPlanRows, AssignmentRow, Status
<1>5. Ordered(assignments'[a])
  BY <1>1, <1>4 DEF Ordered, CarPlanRows
<1>6. DbAcceptsAssignments(assignments')
  BY <1>1, <1>4, BeneficiariesKept DEF Holding
<1>7. /\ \A h \in first : h \in holds /\ h.asg = a /\ h.kind = "assignment"
      /\ \A h \in holds : h \in HoldRow /\ h.lo \in Nat
  BY <1>1, FirstHoldIs DEF CarPlanRows, HoldRow
<1>8. \A h \in HoldRow : h.lo < on =>
        /\ Until(h, on - 1) \in HoldRow
        /\ Until(h, on - 1).asg = h.asg /\ Until(h, on - 1).vehicle = h.vehicle
        /\ Until(h, on - 1).kind = h.kind /\ Until(h, on - 1).lo = h.lo
        /\ Until(h, on - 1).nth = h.nth /\ Until(h, on - 1).hi = on - 1
  <2> SUFFICES ASSUME NEW h \in HoldRow, h.lo < on
               PROVE  /\ Until(h, on - 1) \in HoldRow
                      /\ Until(h, on - 1).asg = h.asg /\ Until(h, on - 1).vehicle = h.vehicle
                      /\ Until(h, on - 1).kind = h.kind /\ Until(h, on - 1).lo = h.lo
                      /\ Until(h, on - 1).nth = h.nth /\ Until(h, on - 1).hi = on - 1
    OBVIOUS
  <2>1. on - 1 \in Nat
    BY <1>3 DEF HoldRow
  <2> QED BY <2>1, UntilIs
<1>9. /\ hold \in HoldRow /\ hold.asg = a /\ hold.vehicle = v /\ hold.kind = "assignment"
      /\ hold.lo = on /\ hold.hi = asg.hi /\ hold.nth = asg.changes + 1
  <2>1. hold = [asg |-> a, vehicle |-> v, kind |-> "assignment", lo |-> on, hi |-> asg.hi,
                nth |-> asg.changes + 1]
    BY DEF NewHold
  <2> QED BY <1>3, <2>1 DEF HoldRow
<1> HIDE DEF hold, first
<1>10. cut = (holds \ first) \cup {Until(h, on - 1) : h \in {k \in first : k.lo < on}}
  BY DEF CutHold
<1> HIDE DEF cut
<1>11. \A g \in cut : \/ g \in holds /\ g \notin first
                      \/ \E h \in first : h.lo < on /\ g = Until(h, on - 1)
  BY <1>10
<1>12. \A h \in holds : h \notin first => h \in cut
  BY <1>10
<1>13. \A g \in cut : \E h \in holds :
         /\ g \in HoldRow /\ g.asg = h.asg /\ g.vehicle = h.vehicle /\ g.kind = h.kind
         /\ g.nth = h.nth
         /\ \/ g = h /\ h \notin first
            \/ h \in first /\ g = Until(h, on - 1) /\ g.lo = h.lo /\ g.lo < on /\ g.hi = on - 1
  BY <1>7, <1>8, <1>11
<1>14. holds' \subseteq HoldRow
  BY <1>1, <1>9, <1>13
<1>15. \A h \in HoldRow : h.asg # a => (h \in holds' <=> h \in holds)
  BY <1>1, <1>7, <1>9, <1>12, <1>13
<1>16. DbAcceptsHolds(holds')
  BY <1>1, <1>3, <1>9, OneMoreHold DEF Ordered
<1>17. InOrder(holds, asg, a)
  BY DEF CarPlanInv, AllInOrder
<1>19. /\ \A f \in first, k \in Own(holds, a) : f.nth <= k.nth
       /\ \A f \in first : f \in Own(holds, a)
       /\ \A h \in Own(holds, a) : (\A k \in Own(holds, a) : h.nth <= k.nth) => h \in first
       /\ \A h \in Own(holds, a) : h \in holds /\ h \in HoldRow /\ h.nth \in Nat
                                   /\ h.lo \in Nat /\ h.hi \in Nat
  BY <1>7 DEF first, FirstHold, Own, HoldRow
<1>20. /\ hold \in Own(holds', a)
       /\ \A g \in Own(holds', a) : g = hold \/
            (g.nth \in Nat /\ \E h \in Own(holds, a) :
              /\ g.vehicle = h.vehicle /\ g.nth = h.nth
              /\ \/ g = h /\ h \notin first
                 \/ h \in first /\ g = Until(h, on - 1) /\ g.lo < on /\ g.hi = on - 1)
  <2>1. hold \in Own(holds', a)
    BY <1>1, <1>9 DEF Own
  <2>2. ASSUME NEW g \in Own(holds', a), g # hold
        PROVE  g.nth \in Nat /\ \E h \in Own(holds, a) :
                 /\ g.vehicle = h.vehicle /\ g.nth = h.nth
                 /\ \/ g = h /\ h \notin first
                    \/ h \in first /\ g = Until(h, on - 1) /\ g.lo < on /\ g.hi = on - 1
    <3>1. g \in cut /\ g.asg = a /\ g.kind = "assignment"
      BY <1>1, <2>2 DEF Own
    <3>2. PICK h \in holds :
            /\ g.asg = h.asg /\ g.vehicle = h.vehicle /\ g.kind = h.kind /\ g.nth = h.nth
            /\ \/ g = h /\ h \notin first
               \/ h \in first /\ g = Until(h, on - 1) /\ g.lo < on /\ g.hi = on - 1
      BY <1>13, <3>1
    <3>3. h \in Own(holds, a)
      BY <3>1, <3>2 DEF Own
    <3>4. g.nth \in Nat
      BY <1>19, <3>2, <3>3
    <3> QED BY <3>2, <3>3, <3>4
  <2> QED BY <2>1, <2>2
<1>21. InOrder(holds', assignments'[a], a)
  <2>1. ASSUME NEW g \in Own(holds', a)
        PROVE  g.nth <= asg.changes + 1 /\ (g # hold => g.nth <= asg.changes)
    BY <1>3, <1>9, <1>17, <1>20 DEF InOrder
  <2>2. ASSUME NEW g \in Own(holds', a), NEW j \in Own(holds', a), g.nth = j.nth
        PROVE  g = j
    <3>1. CASE g = hold \/ j = hold
      BY <1>3, <1>9, <1>20, <2>1, <2>2, <3>1
    <3>2. CASE g # hold /\ j # hold
      <4>1. PICK h \in Own(holds, a) : /\ g.nth = h.nth
                                       /\ \/ g = h /\ h \notin first
                                          \/ h \in first /\ g = Until(h, on - 1)
        BY <1>20, <3>2
      <4>2. PICK k \in Own(holds, a) : /\ j.nth = k.nth
                                       /\ \/ j = k /\ k \notin first
                                          \/ k \in first /\ j = Until(k, on - 1)
        BY <1>20, <3>2
      <4>3. h = k
        BY <1>17, <2>2, <4>1, <4>2 DEF InOrder
      <4> QED BY <4>1, <4>2, <4>3
    <3> QED BY <3>1, <3>2
  <2>3. ASSUME NEW g \in Own(holds', a), NEW j \in Own(holds', a), g.vehicle = j.vehicle, g.hi < g.lo
        PROVE  g.nth <= j.nth
    <3>1. g # hold
      BY <1>1, <1>3, <1>9, <2>3
    <3>2. CASE j = hold
      BY <1>3, <1>9, <1>20, <2>1, <3>1, <3>2
    <3>3. CASE j # hold
      <4>1. PICK h \in Own(holds, a) : /\ g.vehicle = h.vehicle /\ g.nth = h.nth
                                       /\ \/ g = h
                                          \/ h \in first
        BY <1>20, <3>1
      <4>2. PICK k \in Own(holds, a) : j.vehicle = k.vehicle /\ j.nth = k.nth
        BY <1>20, <3>3
      <4>3. CASE h \in first
        BY <1>19, <4>1, <4>2, <4>3
      <4>4. CASE g = h
        BY <1>17, <2>3, <4>1, <4>2, <4>4 DEF InOrder
      <4> QED BY <4>1, <4>3, <4>4
    <3> QED BY <3>2, <3>3
  <2>4. \E g \in Own(holds', a) : g.vehicle = v /\ g.hi = asg.hi
    BY <1>9, <1>20
  <2>5. ASSUME asg.hi = Open
        PROVE  StaysOpen(holds', assignments'[a], a)
    <3>1. StaysOpen(holds, asg, a)
      BY <1>17, <2>5 DEF InOrder
    <3>2. ASSUME NEW g \in Own(holds', a), g.hi # Open, NEW j \in Own(holds', a)
          PROVE  g.nth <= j.nth /\ (j.nth = asg.changes + 1 => g.hi + 1 = j.lo)
      <4>1. g # hold
        BY <1>9, <2>5, <3>2
      <4>2. PICK h \in Own(holds, a) : /\ g.nth = h.nth
                                       /\ \/ g = h /\ h \notin first
                                          \/ h \in first /\ g.hi = on - 1
        BY <1>20, <4>1
      <4>3. h \in first /\ g.hi = on - 1
        <5> SUFFICES ASSUME g = h, h \notin first PROVE FALSE
          BY <4>2
        <5>1. \A k \in Own(holds, a) : h.nth <= k.nth
          BY <3>1, <3>2, <4>2 DEF StaysOpen
        <5> QED BY <1>19, <4>2, <5>1
      <4>4. CASE j = hold
        BY <1>3, <1>9, <1>20, <2>1, <4>1, <4>3, <4>4
      <4>5. CASE j # hold
        <5>1. PICK k \in Own(holds, a) : j.nth = k.nth
          BY <1>20, <4>5
        <5>2. g.nth <= j.nth
          BY <1>19, <4>2, <4>3, <5>1
        <5>3. j.nth # asg.changes + 1
          BY <1>3, <1>20, <2>1, <4>5
        <5> QED BY <5>2, <5>3
      <4> QED BY <4>4, <4>5
    <3>3. hold.nth = asg.changes + 1 /\ hold.vehicle = v /\ hold.hi = Open
      BY <1>9, <2>5
    <3> QED BY <1>4, <1>20, <3>2, <3>3 DEF StaysOpen
  <2> QED BY <1>4, <2>1, <2>2, <2>3, <2>4, <2>5 DEF InOrder
<1>22. NoBookingTaken
  <2> SUFFICES ASSUME NEW b \in bookings, NEW g \in holds', g.vehicle = b.vehicle, Overlap(g, b),
                      ~Again(holds', assignments', g)
               PROVE  Taken(holds, assignments, b)
    BY DEF NoBookingTaken, Taken
  <2>0. b.lo \in Nat /\ b.hi \in Nat /\ b.lo <= b.hi
    BY <1>1 DEF FleetRows, FleetRow
  <2>1. CASE g = hold
    <3>1. b \notin PoolConflicts(v, [lo |-> on, hi |-> asg.hi])
      BY <1>1
    <3> QED BY <1>9, <2>1, <3>1 DEF PoolConflicts, Overlap
  <2>2. CASE g \in cut
    <3>1. PICK h \in holds : /\ g.asg = h.asg /\ g.vehicle = h.vehicle /\ g.kind = h.kind
                             /\ g.nth = h.nth
                             /\ \/ g = h /\ h \notin first
                                \/ h \in first /\ g.lo = h.lo /\ g.lo < on /\ g.hi = on - 1
      BY <1>13, <2>2
    <3>2. h.asg \in Ids /\ h.nth \in Nat /\ assignments[h.asg].changes \in Nat
      BY <1>1, <1>7, CarPlanAssumption DEF HoldRow, CarPlanRows, AssignmentRow
    <3>3. /\ assignments[h.asg].changes <= assignments'[h.asg].changes
          /\ h.asg = a => assignments'[h.asg].changes = asg.changes + 1
      BY <1>3, <1>4, <3>2
    <3>4. ~Again(holds, assignments, h)
      <4>1. SUFFICES ASSUME Again(holds, assignments, h) PROVE FALSE
        OBVIOUS
      <4>2. assignments'[h.asg].changes \in Nat /\ h.nth + 1 < assignments'[h.asg].changes
        BY <1>3, <1>4, <3>2, <3>3, <4>1 DEF Again
      <4>3. PICK k \in Own(holds', h.asg) : ~(h.nth <= k.nth)
        BY <3>1, <4>1, <4>2 DEF Again
      <4>4. k = hold \/ \E j \in Own(holds, h.asg) : k.nth = j.nth
        BY <1>1, <1>13, <4>3 DEF Own
      <4>5. k = hold
        BY <4>1, <4>3, <4>4 DEF Again
      <4>6. h.asg = a /\ h \in Own(holds, a)
        BY <1>9, <4>1, <4>3, <4>5 DEF Again, Own
      <4>7. h.nth <= asg.changes
        BY <1>17, <4>6 DEF InOrder
      <4> QED BY <1>3, <1>9, <3>2, <4>3, <4>5, <4>7
    <3>5. CASE g = h
      BY <3>1, <3>4, <3>5 DEF Taken
    <3>6. CASE h \in first /\ g.lo = h.lo /\ g.lo < on /\ g.hi = on - 1
      <4>1. h \in Own(holds, a) /\ h.asg = a /\ h.kind = "assignment" /\ h.nth <= asg.changes
        BY <1>17, <1>19, <3>6 DEF InOrder, Own
      <4>2. h.nth = asg.changes
        <5>1. \A k \in Own(holds', a) : g.nth <= k.nth
          BY <1>3, <1>9, <1>19, <1>20, <3>1, <3>6, <4>1
        <5> QED BY <1>3, <3>1, <3>2, <3>3, <4>1, <5>1 DEF Again
      <4>3. PICK c \in Own(holds, a) : c.hi = asg.hi
        BY <1>1, <1>17 DEF InOrder, VehicleHolding, Holding
      <4>4. c.nth <= asg.changes /\ h.nth <= c.nth /\ c.nth \in Nat
        BY <1>17, <1>19, <3>6, <4>3 DEF InOrder
      <4>5. h = c
        BY <1>3, <1>17, <4>1, <4>2, <4>3, <4>4 DEF InOrder
      <4>6. h.hi = asg.hi /\ h.lo \in Nat /\ h.vehicle = b.vehicle
        BY <1>19, <3>1, <4>1, <4>3, <4>5
      <4>7. Overlap(h, b)
        BY <1>1, <1>3, <2>0, <3>6, <4>6 DEF Overlap
      <4> QED BY <3>4, <4>6, <4>7 DEF Taken
    <3> QED BY <3>1, <3>5, <3>6
  <2> QED BY <1>1, <2>1, <2>2
<1>18. assignments'[a].status \in VehicleHolding
  BY <1>4 DEF VehicleHolding, Holding
<1> QED BY <1>1, <1>2, <1>4, <1>5, <1>6, <1>14, <1>15, <1>16, <1>18, <1>21, <1>22, OneAssignmentSound

(* A replacement vehicle adds a hold of another kind, and its end removes it. *)
LEMMA ReplacementSound ==
    ASSUME CarPlanInv, NEW a \in Ids,
           \/ EndReplacement(a)
           \/ \E v \in Vehicles, w \in Windows : StartReplacement(a, v, w)
    PROVE  CarPlanInv'
<1>1. /\ CarPlanRows /\ FleetRows /\ DbAcceptsAssignments(assignments)
      /\ DbAcceptsHolds(holds)
      /\ UNCHANGED assignments /\ UNCHANGED inspections /\ UNCHANGED fleetVars
      /\ UNCHANGED today /\ (UNCHANGED left \/ Spend("life"))
  BY DEF CarPlanInv, EndReplacement, StartReplacement
<1>2. FleetLeftAlone
  BY <1>1, Spent DEF FleetLeftAlone, fleetVars, FleetRows
<1>3. /\ assignments' \in [Ids -> AssignmentRow] /\ Ordered(assignments'[a])
      /\ \A b \in Ids : b # a => assignments'[b] = assignments[b]
      /\ DbAcceptsAssignments(assignments')
      /\ \A h \in holds : h \in HoldRow
  BY <1>1 DEF CarPlanRows
<1>4. InOrder(holds, assignments'[a], a)
  BY <1>1 DEF CarPlanInv, AllInOrder
<1>5. CASE EndReplacement(a)
  <2>1. holds' = {h \in holds : ~(h.asg = a /\ h.kind = "replacement")}
    BY <1>5 DEF EndReplacement
  <2>2. NoBookingTaken /\ DbAcceptsHolds(holds')
    <3>1. \A h \in holds' : h \in holds /\ assignments'[h.asg].changes = assignments[h.asg].changes
      BY <1>1, <2>1
    <3> QED BY <1>1, <3>1, FewerHolds
  <2>3. assignments'[a].status \in VehicleHolding \/ \A h \in holds' : h.asg # a
    BY <1>1, <2>1 DEF CarPlanInv, NoHoldOutlivesAssignment
  <2>4. InOrder(holds', assignments'[a], a)
    <3>1. Own(holds', a) = Own(holds, a)
      BY <2>1 DEF Own
    <3> QED BY <1>4, <3>1, OwnKept
  <2>5. /\ holds' \subseteq HoldRow
        /\ \A h \in HoldRow : h.asg # a => (h \in holds' <=> h \in holds)
    BY <1>3, <2>1
  <2> QED BY <1>1, <1>2, <1>3, <2>2, <2>3, <2>4, <2>5, OneAssignmentSound
<1>6. ASSUME NEW v \in Vehicles, NEW w \in Windows, StartReplacement(a, v, w)
      PROVE  CarPlanInv'
  <2>1. PICK hold : hold = NewHold(a, v, w, "replacement")
    OBVIOUS
  <2>2. /\ assignments[a].status \in Running /\ PoolConflicts(v, w) = {}
        /\ DbAcceptsHold(holds, hold) /\ holds' = holds \cup {hold}
    BY <1>6, <2>1 DEF StartReplacement
  <2>3. w.lo \in Nat /\ w.hi \in Nat /\ w.lo <= w.hi
    BY CarPlanAssumption DEF Period
  <2>4. /\ hold \in HoldRow /\ hold.asg = a /\ hold.vehicle = v /\ hold.kind = "replacement"
        /\ hold.lo = w.lo /\ hold.hi = w.hi
    BY <1>1, <2>1, <2>3, NewHoldRow
  <2>5. DbAcceptsHolds(holds')
    BY <1>1, <2>2, <2>3, <2>4, OneMoreHold DEF Ordered
  <2>6. NoBookingTaken
    <3> SUFFICES ASSUME NEW b \in bookings, hold.vehicle = b.vehicle, Overlap(hold, b)
                 PROVE  FALSE
      <4>1. \A x : Own(holds', x) = Own(holds, x)
        BY <2>2, <2>4 DEF Own
      <4>2. \A h : Again(holds', assignments', h) <=> Again(holds, assignments, h)
        BY <1>1, <4>1 DEF Again
      <4> QED BY <2>2, <4>2 DEF NoBookingTaken, Taken
    <3>1. b \notin PoolConflicts(v, w)
      BY <2>2
    <3> QED BY <2>4, <3>1 DEF PoolConflicts, Overlap
  <2>7. assignments'[a].status \in VehicleHolding
    BY <1>1, <2>2 DEF Running, VehicleHolding, Holding
  <2>8. InOrder(holds', assignments'[a], a)
    <3>1. Own(holds', a) = Own(holds, a)
      BY <2>2, <2>4 DEF Own
    <3> QED BY <1>4, <3>1, OwnKept
  <2>9. /\ holds' \subseteq HoldRow
        /\ \A h \in HoldRow : h.asg # a => (h \in holds' <=> h \in holds)
    BY <1>3, <2>2, <2>4
  <2> QED BY <1>1, <1>2, <1>3, <2>5, <2>6, <2>7, <2>8, <2>9, OneAssignmentSound
<1> QED BY <1>5, <1>6

-----------------------------------------------------------------------------
(* The shared fleet's side *)

(* A step that leaves the assignments and the holds alone. *)
LEMMA FleetSideSound ==
    ASSUME CarPlanInv, UNCHANGED <<assignments, holds>>,
           \A i \in inspections' : i.asg \in Ids, FleetRows',
           PoolPlanExcludesCarPlan'
    PROVE  CarPlanInv'
<1>1. CarPlanRows' /\ (DbAcceptsHolds(holds) /\ DbAcceptsAssignments(assignments))'
  BY DEF CarPlanInv, CarPlanRows
<1>2. NoHoldOutlivesAssignment'
  BY DEF CarPlanInv, NoHoldOutlivesAssignment
<1>3. AllInOrder'
  BY DEF CarPlanInv, AllInOrder
<1> QED BY <1>1, <1>2, <1>3 DEF CarPlanInv

LEMMA InspectionSound ==
    ASSUME CarPlanInv,
           \/ \E a \in Ids, kind \in {"handover", "return"} : CreateInspection(a, kind)
           \/ \E i \in inspections : SignAsBeneficiary(i)
           \/ ActivateReplacements
           \/ UNCHANGED vars
    PROVE  CarPlanInv'
<1>1. CarPlanRows /\ FleetRows
  BY DEF CarPlanInv
<1>2. /\ UNCHANGED <<assignments, holds>> /\ UNCHANGED fleetVars
      /\ UNCHANGED <<today, left>>
  BY DEF CreateInspection, SignAsBeneficiary, ActivateReplacements, vars, carplanVars
<1>3. \A i \in inspections' : i.asg \in Ids
  <2>1. ASSUME NEW a \in Ids, NEW kind \in {"handover", "return"}, CreateInspection(a, kind)
        PROVE  \A i \in inspections' : i.asg \in Ids
    BY <1>1, <2>1 DEF CreateInspection, CarPlanRows
  <2>2. ASSUME NEW i \in inspections, SignAsBeneficiary(i)
        PROVE  \A j \in inspections' : j.asg \in Ids
    <3>1. [i EXCEPT !.employee = TRUE].asg = i.asg
      BY <1>1 DEF CarPlanRows
    <3> QED BY <1>1, <2>2, <3>1 DEF SignAsBeneficiary, CarPlanRows
  <2>3. CASE ActivateReplacements \/ UNCHANGED vars
    BY <1>1, <2>3 DEF ActivateReplacements, vars, carplanVars, CarPlanRows
  <2> QED BY <2>1, <2>2, <2>3
<1>4. FleetLeftAlone
  BY <1>1, <1>2 DEF FleetLeftAlone, fleetVars, FleetRows
<1>5. FleetRows' /\ NoBookingTaken
  BY <1>1, <1>2, <1>4, FleetKept DEF NoBookingTaken
<1>6. PoolPlanExcludesCarPlan'
  BY <1>4, <1>5, PoolKept DEF CarPlanInv
<1> QED BY <1>2, <1>3, <1>5, <1>6, FleetSideSound

LEMMA ModesKept ==
    ASSUME CarPlanInv, NEW v \in Vehicles,
           \/ \E m \in {"pool"} \cup Kinds : RequestModeChange(v, m)
           \/ \E approve \in BOOLEAN : DecideModeChange(v, approve)
    PROVE  CarPlanInv'
<1>1. CarPlanRows /\ FleetRows /\ {"pool"} \cup Kinds \subseteq Modes
  BY CarPlanAssumption DEF CarPlanInv, Modes
<1>2. /\ UNCHANGED <<assignments, holds, inspections>> /\ UNCHANGED <<releases, bookings, today>>
      /\ (UNCHANGED left \/ Spend("fleet"))
  BY DEF RequestModeChange, DecideModeChange, carplanVars
<1>3. left' \in [{"requests", "life", "fleet"} -> Nat]
  BY <1>1, <1>2, Spent DEF FleetRows
<1>4. \A i \in inspections' : i.asg \in Ids
  BY <1>1, <1>2 DEF CarPlanRows
<1>5. CASE \E m \in {"pool"} \cup Kinds : RequestModeChange(v, m)
  <2>1. PICK m \in Modes : asked' = [asked EXCEPT ![v] = m] /\ mode' = mode
    BY <1>1, <1>5 DEF RequestModeChange
  <2>2. FleetRows'
    BY <1>1, <1>2, <1>3, <2>1 DEF FleetRows
  <2>3. PoolPlanExcludesCarPlan'
    BY <1>2, <2>1 DEF CarPlanInv, PoolPlanExcludesCarPlan, Released, HoldsOn, CutAgain
  <2> QED BY <1>2, <1>4, <2>2, <2>3, FleetSideSound
<1>6. CASE \E approve \in BOOLEAN : DecideModeChange(v, approve)
  <2>1. PICK approve \in BOOLEAN : DecideModeChange(v, approve)
    BY <1>6
  <2>2. /\ asked[v] # None /\ (approve => ModeAllowed(v))
        /\ mode' = [mode EXCEPT ![v] = IF approve THEN asked[v] ELSE @]
        /\ asked' = [asked EXCEPT ![v] = None]
    BY <2>1 DEF DecideModeChange
  <2>3. FleetRows'
    BY <1>1, <1>2, <1>3, <2>2 DEF FleetRows
  <2>4. ASSUME NEW b \in bookings
        PROVE  \/ Released(b.vehicle, b)'
               \/ mode'[b.vehicle] = "pool" /\ ~Taken(holds, assignments, b)
    <3>1. \/ Released(b.vehicle, b)
          \/ mode[b.vehicle] = "pool" /\ ~Taken(holds, assignments, b)
      BY PoolIs DEF CarPlanInv
    <3>2. Released(b.vehicle, b)' <=> Released(b.vehicle, b)
      BY <1>2 DEF Released
    <3>3. b.vehicle \in Vehicles /\ mode \in [Vehicles -> Modes]
      BY <1>1 DEF FleetRows, FleetRow
    <3>4. CASE b.vehicle # v \/ ~approve
      <4>1. mode'[b.vehicle] = mode[b.vehicle]
        BY <2>2, <3>3, <3>4
      <4> QED BY <3>1, <3>2, <4>1
    <3>5. CASE b.vehicle = v /\ approve /\ mode[v] = "pool"
      <4>1. b \notin PoolConflicts(v, From(today))
        BY <2>2, <3>5 DEF ModeAllowed
      <4>2. /\ b.lo \in Nat /\ b.hi \in Nat /\ b.lo <= b.hi /\ today <= b.hi /\ b.hi <= Open
            /\ today \in Nat /\ Open \in Nat
        BY <1>1, CarPlanAssumption DEF FleetRows, FleetRow
      <4>3. Overlap(b, From(today))
        BY <4>2 DEF Overlap, From
      <4> QED BY <2>4, <3>5, <4>1, <4>3 DEF PoolConflicts
    <3>6. CASE b.vehicle = v /\ mode[v] # "pool"
      BY <3>1, <3>2, <3>6
    <3> QED BY <3>4, <3>5, <3>6
  <2>5. PoolPlanExcludesCarPlan'
    BY <1>2, <2>4 DEF PoolPlanExcludesCarPlan, HoldsOn, CutAgain, Taken, Again, Own
  <2> QED BY <1>2, <1>4, <2>3, <2>5, FleetSideSound
<1> QED BY <1>5, <1>6

LEMMA ReleasesKept ==
    ASSUME CarPlanInv,
           \/ \E v \in Vehicles, w \in Windows : ReleaseToPool(v, w)
           \/ \E r \in releases : RevokeRelease(r)
    PROVE  CarPlanInv'
<1>1. CarPlanRows /\ FleetRows
  BY DEF CarPlanInv
<1>2. /\ UNCHANGED <<assignments, holds, inspections>> /\ UNCHANGED <<mode, asked, bookings, today>>
      /\ (UNCHANGED left \/ Spend("fleet"))
  BY DEF ReleaseToPool, RevokeRelease, carplanVars
<1>3. left' \in [{"requests", "life", "fleet"} -> Nat]
  BY <1>1, <1>2, Spent DEF FleetRows
<1>4. \A i \in inspections' : i.asg \in Ids
  BY <1>1, <1>2 DEF CarPlanRows
<1>5. \A b \in bookings : /\ b.lo \in Nat /\ b.hi \in Nat /\ b.lo <= b.hi /\ today <= b.hi
                          /\ today \in Nat
  BY <1>1, <1>2, CarPlanAssumption DEF FleetRows, FleetRow
<1>6. ASSUME \A b \in bookings : Released(b.vehicle, b) => Released(b.vehicle, b)'
      PROVE  PoolPlanExcludesCarPlan'
  <2> SUFFICES ASSUME NEW b \in bookings
               PROVE  \/ Released(b.vehicle, b)'
                      \/ mode[b.vehicle] = "pool" /\ ~Taken(holds, assignments, b)
    BY <1>2 DEF PoolPlanExcludesCarPlan, HoldsOn, CutAgain, Taken, Again, Own
  <2>1. \/ Released(b.vehicle, b)
        \/ mode[b.vehicle] = "pool" /\ ~Taken(holds, assignments, b)
    BY PoolIs DEF CarPlanInv
  <2> QED BY <1>6, <2>1
<1>7. ASSUME NEW v \in Vehicles, NEW w \in Windows, ReleaseToPool(v, w)
      PROVE  CarPlanInv'
  <2>1. releases' = releases \cup {[vehicle |-> v, lo |-> w.lo, hi |-> w.hi]}
    BY <1>7 DEF ReleaseToPool
  <2>2. releases' \subseteq FleetRow
    BY <1>1, <2>1, CarPlanAssumption DEF FleetRows, FleetRow, Period
  <2>3. FleetRows'
    BY <1>1, <1>2, <1>3, <2>2 DEF FleetRows
  <2>4. \A b \in bookings : Released(b.vehicle, b) => Released(b.vehicle, b)'
    BY <2>1 DEF Released
  <2> QED BY <1>2, <1>4, <1>6, <2>3, <2>4, FleetSideSound
<1>8. ASSUME NEW r \in releases, RevokeRelease(r)
      PROVE  CarPlanInv'
  <2>1. Revocable(r) /\ releases' = releases \ {r}
    BY <1>8 DEF RevokeRelease
  <2>2. FleetRows'
    BY <1>1, <1>2, <1>3, <2>1 DEF FleetRows
  <2>3. ASSUME NEW b \in bookings, Released(b.vehicle, b)
        PROVE  Released(b.vehicle, b)'
    <3>1. PICK s \in releases : s.vehicle = b.vehicle /\ s.lo <= b.lo /\ b.hi <= s.hi
      BY <2>3 DEF Released
    <3>2. s # r
      <4> SUFFICES ASSUME s = r PROVE FALSE
        OBVIOUS
      <4> DEFINE first == IF r.lo > today THEN r.lo ELSE today
                 p == [lo |-> first, hi |-> r.hi]
      <4>1. r.lo \in Nat /\ r.hi \in Nat
        BY <1>1 DEF FleetRows, FleetRow
      <4>2. ~(r.hi < today)
        BY <1>5, <3>1, <4>1
      <4>3. b \notin PoolConflicts(r.vehicle, p)
        BY <2>1, <4>2 DEF Revocable
      <4>4. Overlap(b, p)
        BY <1>5, <3>1, <4>1 DEF Overlap
      <4> QED BY <3>1, <4>3, <4>4 DEF PoolConflicts
    <3> QED BY <2>1, <3>1, <3>2 DEF Released
  <2> QED BY <1>2, <1>4, <1>6, <2>2, <2>3, FleetSideSound
<1> QED BY <1>7, <1>8

LEMMA BookingsKept ==
    ASSUME CarPlanInv,
           \/ \E v \in Vehicles, w \in Windows : Book(v, w)
           \/ EndBooking \/ NextDay
    PROVE  CarPlanInv'
<1>1. CarPlanRows /\ FleetRows /\ MaxDay \in Nat
  BY CarPlanAssumption DEF CarPlanInv
<1>2. /\ UNCHANGED <<assignments, holds, inspections>> /\ UNCHANGED <<mode, asked>>
      /\ (UNCHANGED left \/ Spend("fleet"))
  BY DEF Book, EndBooking, NextDay, carplanVars
<1>3. left' \in [{"requests", "life", "fleet"} -> Nat]
  BY <1>1, <1>2, Spent DEF FleetRows
<1>4. \A i \in inspections' : i.asg \in Ids
  BY <1>1, <1>2 DEF CarPlanRows
<1>6. ASSUME NEW v \in Vehicles, NEW w \in Windows, Book(v, w)
      PROVE  CarPlanInv'
  <2>1. PICK b : b = [vehicle |-> v, lo |-> w.lo, hi |-> w.hi]
    OBVIOUS
  <2>2. /\ w.lo >= today /\ ~Blocked(v, w) /\ bookings' = {b}
        /\ UNCHANGED <<today, releases>>
    BY <1>6, <2>1 DEF Book
  <2>3. b \in FleetRow /\ b.vehicle = v /\ b.lo = w.lo /\ b.hi = w.hi
    BY <2>1, CarPlanAssumption DEF FleetRow, Period
  <2>4. /\ w.lo \in Nat /\ w.hi \in Nat /\ w.lo <= w.hi /\ w.hi < Open
        /\ Open \in Nat /\ today \in Nat
    BY <1>1, CarPlanAssumption DEF Period, FleetRows
  <2>5. FleetRows'
    BY <1>1, <1>2, <1>3, <2>2, <2>3, <2>4 DEF FleetRows
  <2>6. ~Blocked(b.vehicle, b)
    <3>1. HoldsOn(v, b) = HoldsOn(v, w)
      BY <2>3 DEF HoldsOn, Overlap
    <3>2. Released(v, b) <=> Released(v, w)
      BY <2>3 DEF Released
    <3> QED BY <2>2, <2>3, <3>1, <3>2 DEF Blocked
  <2>7. PoolPlanExcludesCarPlan'
    BY <1>2, <2>2, <2>6 DEF PoolPlanExcludesCarPlan, Blocked, Released, HoldsOn, CutAgain
  <2> QED BY <1>2, <1>4, <2>5, <2>7, FleetSideSound
<1>7. CASE EndBooking
  <2>1. bookings' = {} /\ UNCHANGED <<today, releases>>
    BY <1>7 DEF EndBooking
  <2>2. FleetRows'
    BY <1>1, <1>2, <1>3, <2>1 DEF FleetRows
  <2>3. PoolPlanExcludesCarPlan'
    BY <2>1 DEF PoolPlanExcludesCarPlan
  <2> QED BY <1>2, <1>4, <2>2, <2>3, FleetSideSound
<1>8. CASE NextDay
  <2>1. /\ today < MaxDay /\ today' = today + 1
        /\ bookings' = {b \in bookings : b.hi > today}
        /\ releases' = {r \in releases : r.hi > today}
    BY <1>8 DEF NextDay
  <2>2. today \in Nat /\ today' \in 0..MaxDay
    BY <1>1, <2>1 DEF FleetRows
  <2>3. \A b \in bookings' : b \in bookings /\ b \in FleetRow /\ b.hi \in Nat /\ b.hi > today
    BY <1>1, <2>1 DEF FleetRows, FleetRow
  <2>4. FleetRows'
    BY <1>1, <1>2, <1>3, <2>1, <2>2, <2>3 DEF FleetRows
  <2>5. ASSUME NEW b \in bookings'
        PROVE  \/ Released(b.vehicle, b)'
               \/ mode[b.vehicle] = "pool" /\ ~Taken(holds, assignments, b)
    <3>1. \/ Released(b.vehicle, b)
          \/ mode[b.vehicle] = "pool" /\ ~Taken(holds, assignments, b)
      BY <2>3, <2>5, PoolIs DEF CarPlanInv
    <3>2. Released(b.vehicle, b) => Released(b.vehicle, b)'
      <4> SUFFICES ASSUME Released(b.vehicle, b) PROVE Released(b.vehicle, b)'
        OBVIOUS
      <4>1. PICK s \in releases : s.vehicle = b.vehicle /\ s.lo <= b.lo /\ b.hi <= s.hi
        BY DEF Released
      <4>2. s.hi \in Nat
        BY <1>1 DEF FleetRows, FleetRow
      <4>3. s \in releases'
        BY <2>1, <2>2, <2>3, <4>1, <4>2
      <4> QED BY <4>1, <4>3 DEF Released
    <3> QED BY <3>1, <3>2
  <2>6. PoolPlanExcludesCarPlan'
    BY <1>2, <2>5 DEF PoolPlanExcludesCarPlan, HoldsOn, CutAgain, Taken, Again, Own
  <2> QED BY <1>2, <1>4, <2>4, <2>6, FleetSideSound
<1> QED BY <1>6, <1>7, <1>8

-----------------------------------------------------------------------------
(* The theorems *)

LEMMA CarPlanInitially == Init => CarPlanInv
<1> SUFFICES ASSUME Init PROVE CarPlanInv
  OBVIOUS
<1>1. CarPlanRows
  <2>1. MaxChanges \in Nat
    BY CarPlanAssumption
  <2>2. NoAssignment \in AssignmentRow /\ Ordered(NoAssignment)
    BY <2>1 DEF NoAssignment, AssignmentRow, Status, Ordered
  <2>3. /\ assignments = [a \in Ids |-> NoAssignment]
        /\ holds = {} /\ inspections = {}
    BY DEF Init
  <2> HIDE DEF NoAssignment
  <2> QED BY <2>2, <2>3 DEF CarPlanRows
<1>2. FleetRows
  <2>1. MaxDay \in Nat /\ {"pool"} \cup Kinds \subseteq Modes
    BY CarPlanAssumption DEF Modes
  <2>2. mode \in [Vehicles -> Modes] /\ asked \in [Vehicles -> Modes \cup {None}]
    BY <2>1 DEF Init
  <2>3. left \in [{"requests", "life", "fleet"} -> Nat]
    BY CarPlanAssumption DEF Init
  <2>4. today \in 0..MaxDay /\ releases = {} /\ bookings = {}
    BY <2>1 DEF Init
  <2> QED BY <2>2, <2>3, <2>4 DEF FleetRows
<1>3. DbAcceptsHolds(holds) /\ NoHoldOutlivesAssignment /\ PoolPlanExcludesCarPlan
  BY DEF Init, DbAcceptsHolds, NoHoldOutlivesAssignment, PoolPlanExcludesCarPlan
<1>4. \A a \in Ids : assignments[a].status = "none"
  BY DEF Init, NoAssignment
<1>5. DbAcceptsAssignments(assignments)
  BY <1>4 DEF DbAcceptsAssignments, Holding
<1>6. AllInOrder
  <2> SUFFICES ASSUME NEW a \in Ids PROVE InOrder(holds, assignments[a], a)
    BY DEF AllInOrder
  <2>1. Own(holds, a) = {} /\ assignments[a].status \notin VehicleHolding
    BY <1>4 DEF Init, Own, VehicleHolding, Holding
  <2> QED BY <2>1, NoneInOrder
<1> QED BY <1>1, <1>2, <1>3, <1>5, <1>6 DEF CarPlanInv

LEMMA CarPlanPreserved == CarPlanInv /\ [Next]_vars => CarPlanInv'
<1> SUFFICES ASSUME CarPlanInv, [Next]_vars PROVE CarPlanInv'
  OBVIOUS
<1>1. CASE \E v \in Vehicles : \/ \E m \in {"pool"} \cup Kinds : RequestModeChange(v, m)
                               \/ \E approve \in BOOLEAN : DecideModeChange(v, approve)
  BY <1>1, ModesKept
<1>2. CASE \/ \E v \in Vehicles, w \in Windows : ReleaseToPool(v, w)
           \/ \E r \in releases : RevokeRelease(r)
  BY <1>2, ReleasesKept
<1>3. CASE \/ \E v \in Vehicles, w \in Windows : Book(v, w)
           \/ EndBooking \/ NextDay
  BY <1>3, BookingsKept
<1>4. CASE \E r \in Requests : RequestAssignment(r)
  BY <1>4, RequestsSound
<1>5. CASE \E a \in Ids : \/ ValidateAssignment(a) \/ RejectAssignment(a)
                          \/ Suspend(a) \/ Resume(a) \/ RequestReturn(a) \/ Close(a)
  BY <1>5, TransitionSound
<1>6. CASE \E a \in Ids : CancelAssignment(a)
  BY <1>6, CancelSound
<1>7. CASE \E a \in Ids : RollOverRenewal(a)
  BY <1>7, RollOverSound
<1>8. CASE \/ \E a \in Ids, kind \in {"handover", "return"} : CreateInspection(a, kind)
           \/ \E i \in inspections : SignAsBeneficiary(i)
           \/ ActivateReplacements
           \/ UNCHANGED vars
  BY <1>8, InspectionSound
<1>9. CASE \E i \in inspections : SignAsManager(i)
  BY <1>9, SignAsManagerSound
<1>10. CASE \E a \in Ids, end \in NewEnds : Extend(a, end) \/ Renew(a, end)
  BY <1>10, ExtendSound, RequestsSound
<1>11. CASE \E a \in Ids, v \in Vehicles : AllocateVehicle(a, v)
  BY <1>11, AllocateSound
<1>12. CASE \E a \in Ids, v \in Vehicles : \E on \in today..MaxDay : ChangeVehicle(a, v, on)
  BY <1>12, ChangeVehicleSound
<1>13. CASE \E a \in Ids : \/ EndReplacement(a)
                           \/ \E v \in Vehicles, w \in Windows : StartReplacement(a, v, w)
  BY <1>13, ReplacementSound
<1> QED BY <1>1, <1>2, <1>3, <1>4, <1>5, <1>6, <1>7, <1>8, <1>9, <1>10, <1>11, <1>12, <1>13
        DEF Next

(* The invariant the other theorems rest on. *)
THEOREM CarPlanInvariant == Spec => []CarPlanInv
<1> QED BY CarPlanInitially, CarPlanPreserved, PTL DEF Spec

(* The rows of the Car Plan keep their types and the two exclusion constraints
   hold, whatever the requests (models.py: excl_carplan_vehicle_hold_overlap,
   excl_carplan_beneficiary_overlap). *)
THEOREM CarPlanTyped == Spec => []CarPlanTypeOK
<1>1. CarPlanInv => CarPlanTypeOK
  BY DEF CarPlanInv, CarPlanRows, FleetRows, CarPlanTypeOK, AssignmentRow, HoldRow
<1> QED BY <1>1, CarPlanInvariant, PTL

(* Every ending of an assignment gives back all it held: the vehicle, the ones
   it was exchanged for, the replacement (complete_return, cancel_assignment,
   _close_for_renewal). *)
THEOREM HoldsEnd == Spec => []NoHoldOutlivesAssignment
<1>1. CarPlanInv => NoHoldOutlivesAssignment
  BY DEF CarPlanInv
<1> QED BY <1>1, CarPlanInvariant, PTL

(* Whatever the exchanges, extensions and renewals, the vehicle an assignment
   has is held to the planned end (change_vehicle, extend_assignment). *)
THEOREM VehicleHeld == Spec => []AssignedVehicleHeld
<1>1. CarPlanInv => AssignedVehicleHeld
  BY DEF CarPlanInv, AllInOrder, InOrder, Own, AssignedVehicleHeld
<1> QED BY <1>1, CarPlanInvariant, PTL

(* No booking to come of the shared fleet is on a vehicle the Car Plan has
   taken, but under a release (_pool_conflicts, pool_block_reason), or on the
   days a second exchange of an assignment takes back (services.py:664). *)
THEOREM PoolPlan == Spec => []PoolPlanExcludesCarPlan
<1>1. CarPlanInv => PoolPlanExcludesCarPlan
  BY DEF CarPlanInv
<1> QED BY <1>1, CarPlanInvariant, PTL
==============================================================================
