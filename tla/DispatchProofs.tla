----------------------------- MODULE DispatchProofs -----------------------------
(***************************************************************************)
(* The rules of a grouped mission, proved for any number of trips: the     *)
(* order of the stops, the loops over them, the windows.                   *)
(***************************************************************************)
EXTENDS DispatchRules, SetLemmas

IsTour(planned) ==
    /\ IsFiniteSet(DOMAIN planned) /\ DOMAIN planned \subseteq Trips
    /\ planned = [t \in DOMAIN planned |-> planned[t]]
    /\ \A t \in DOMAIN planned : planned[t] \in Windows

Typed ==
    /\ IsTour(tour)
    /\ other \in Windows /\ ((other.dep = None) <=> (other.arr = None))
    /\ other.dep # None => other.dep <= other.arr

-----------------------------------------------------------------------------
(* The tour is always one. *)
LEMMA JoinTyped ==
    ASSUME Typed, NEW t \in Trips, NEW w \in Windows, Join(t, w) PROVE Typed'
<1>1. DOMAIN tour' = DOMAIN tour \cup {t} /\ tour' = [u \in DOMAIN tour' |-> tour'[u]]
  BY DEF Join
<1>2. \A u \in DOMAIN tour' : tour'[u] \in Windows
  BY DEF Join, Typed, IsTour
<1>3. IsFiniteSet(DOMAIN tour \cup {t})
  BY FS_AddElement DEF Typed, IsTour
<1>4. IsTour(tour')
  BY <1>1, <1>2, <1>3 DEF Typed, IsTour
<1> QED BY <1>4 DEF Typed, Join

LEMMA LeaveTyped ==
    ASSUME Typed, NEW t, Leave(t)
    PROVE  /\ Typed' /\ DOMAIN tour' \subseteq DOMAIN tour
           /\ \A u \in DOMAIN tour' : tour'[u] = tour[u]
<1>1. /\ DOMAIN tour' = DOMAIN tour \ {t} /\ tour' = [u \in DOMAIN tour' |-> tour'[u]]
      /\ \A u \in DOMAIN tour' : tour'[u] = tour[u]
  BY DEF Leave
<1>2. IsFiniteSet(DOMAIN tour \ {t})
  BY FS_RemoveElement DEF Typed, IsTour
<1>3. IsTour(tour')
  BY <1>1, <1>2 DEF Typed, IsTour
<1> QED BY <1>1, <1>3 DEF Typed, Leave

LEMMA AlwaysTyped == Spec => []Typed
<1>1. Init => Typed
  <2> SUFFICES ASSUME Init PROVE Typed
    OBVIOUS
  <2>1. DOMAIN tour = {} /\ tour = [u \in DOMAIN tour |-> tour[u]]
    BY DEF Init
  <2>2. IsTour(tour)
    BY <2>1, FS_EmptySet DEF IsTour
  <2> QED BY <2>2 DEF Init, Typed
<1>2. Typed /\ [Next]_vars => Typed'
  <2> SUFFICES ASSUME Typed, [Next]_vars PROVE Typed'
    OBVIOUS
  <2>1. CASE UNCHANGED vars
    BY <2>1 DEF vars, Typed
  <2> QED BY <2>1, JoinTyped, LeaveTyped DEF Next
<1> QED BY <1>1, <1>2, PTL DEF Spec

-----------------------------------------------------------------------------
(* The order of the stops *)
Pickup(planned, t) == [trip |-> t, kind |-> "pickup", at |-> planned[t].dep]
Dropoff(planned, t) == [trip |-> t, kind |-> "dropoff", at |-> planned[t].arr]

Stops == [trip : Trips, kind : {"pickup", "dropoff"}, at : Instants \cup {None}]
Sooner(S) == {p \in S \X S : Before(p[1], p[2])}

LEMMA SpecsTyped ==
    ASSUME NEW planned, IsTour(planned)
    PROVE  /\ StopSpecs(planned) = {Pickup(planned, t) : t \in DOMAIN planned}
                                   \cup {Dropoff(planned, t) : t \in DOMAIN planned}
           /\ StopSpecs(planned) \subseteq Stops
           /\ IsFiniteSet(StopSpecs(planned))
<1> DEFINE D == DOMAIN planned
           up == [t \in D |-> Pickup(planned, t)]
           down == [t \in D |-> Dropoff(planned, t)]
<1>1. StopSpecs(planned) = {Pickup(planned, t) : t \in D} \cup {Dropoff(planned, t) : t \in D}
  BY DEF StopSpecs, Pickup, Dropoff
<1>2. \A t \in D : Pickup(planned, t) \in Stops /\ Dropoff(planned, t) \in Stops
  BY DEF IsTour, Pickup, Dropoff, Windows, Stops
<1>3. IsFiniteSet({up[t] : t \in D}) /\ IsFiniteSet({down[t] : t \in D})
  <2>1. IsFiniteSet(D) /\ DOMAIN up = D /\ DOMAIN down = D
    BY DEF IsTour
  <2>2. up = [t \in D |-> up[t]] /\ down = [t \in D |-> down[t]]
    OBVIOUS
  <2> HIDE DEF up, down
  <2> QED BY <2>1, <2>2, FiniteImage
<1>4. {up[t] : t \in D} = {Pickup(planned, t) : t \in D} /\ {down[t] : t \in D} = {Dropoff(planned, t) : t \in D}
  OBVIOUS
<1>5. IsFiniteSet({Pickup(planned, t) : t \in D} \cup {Dropoff(planned, t) : t \in D})
  BY <1>3, <1>4, FS_Union
<1> QED BY <1>1, <1>2, <1>5

LEMMA SoonerIsOrder ==
    ASSUME NEW S \in SUBSET Stops
    PROVE  /\ StrictOrder(Sooner(S), S)
           /\ \A x, y \in S : ~(Before(x, y) /\ Before(y, x))
<1>0. /\ \A x \in Stops :
           /\ x.trip \in Nat /\ x.kind \in {"pickup", "dropoff"} /\ (x.at = None \/ (x.at \in Nat /\ x.at # None))
           /\ x = [trip |-> x.trip, kind |-> x.kind, at |-> x.at]
  <2> SUFFICES ASSUME NEW x \in Stops
               PROVE  /\ x.trip \in Nat /\ x.kind \in {"pickup", "dropoff"}
                      /\ x.at = None \/ (x.at \in Nat /\ x.at # None)
                      /\ x = [trip |-> x.trip, kind |-> x.kind, at |-> x.at]
    OBVIOUS
  <2>1. /\ x.trip \in Trips /\ x.kind \in {"pickup", "dropoff"} /\ x.at \in Instants \cup {None}
        /\ x = [trip |-> x.trip, kind |-> x.kind, at |-> x.at]
    BY DEF Stops
  <2>2. x.trip \in Nat /\ (x.at = None \/ (x.at \in Nat /\ x.at # None))
    BY <2>1, RulesAssumption DEF RulesAssumption
  <2> QED BY <2>1, <2>2
<1>1. \A x \in S : <<x, x>> \notin Sooner(S)
  <2>1. \A x \in Stops : ~Before(x, x)
    BY <1>0 DEF Before
  <2> QED BY <2>1 DEF Sooner
<1>2. \A x, y, z \in S : <<x, y>> \in Sooner(S) /\ <<y, z>> \in Sooner(S) => <<x, z>> \in Sooner(S)
  <2>1. \A x, y, z \in Stops : Before(x, y) /\ Before(y, z) => Before(x, z)
    BY <1>0 DEF Before
  <2> QED BY <2>1 DEF Sooner
<1>3. \A x, y \in S : x = y \/ <<x, y>> \in Sooner(S) \/ <<y, x>> \in Sooner(S)
  <2>1. \A x, y \in Stops : x = y \/ Before(x, y) \/ Before(y, x)
    BY <1>0 DEF Before
  <2> QED BY <2>1 DEF Sooner
<1>4. \A x, y \in S : ~(Before(x, y) /\ Before(y, x))
  <2>1. \A x, y \in Stops : ~(Before(x, y) /\ Before(y, x))
    BY <1>0 DEF Before
  <2> QED BY <2>1
<1> QED BY <1>1, <1>2, <1>3, <1>4 DEF StrictOrder

Follows(stops, S) ==
    /\ Len(stops) \in Nat /\ stops = [i \in 1..Len(stops) |-> stops[i]]
    /\ \A i \in 1..Len(stops) : stops[i] \in S
    /\ \A s \in S : \E i \in 1..Len(stops) : stops[i] = s
    /\ \A i, j \in 1..Len(stops) : i < j <=> Before(stops[i], stops[j])

LEMMA Ordered ==
    ASSUME NEW S \in SUBSET Stops, IsFiniteSet(S)
    PROVE  Follows(OrderStops(S), S)
<1> DEFINE n == Cardinality(S)
           R == Sooner(S)
           stops == OrderStops(S)
           rank(s) == Cardinality({u \in S : Before(u, s)})
<1>1. n \in Nat
  BY FS_CardinalityType
<1>2. StrictOrder(R, S)
  BY SoonerIsOrder
<1>3. \A s \in S : Below(R, S, s) = {u \in S : Before(u, s)}
  BY DEF Below, Sooner
<1>4. \A s \in S : rank(s) \in 0..(n - 1) /\ \A u \in S : Before(u, s) => rank(u) < rank(s)
  <2> SUFFICES ASSUME NEW s \in S
               PROVE  rank(s) \in 0..(n - 1) /\ \A u \in S : Before(u, s) => rank(u) < rank(s)
    OBVIOUS
  <2>1. /\ Cardinality(Below(R, S, s)) \in 0..(n - 1)
        /\ \A u \in S : <<u, s>> \in R => Cardinality(Below(R, S, u)) < Cardinality(Below(R, S, s))
    BY <1>2, RanksFollow
  <2>2. \A u \in S : Before(u, s) => <<u, s>> \in R
    BY DEF Sooner
  <2> QED BY <1>3, <2>1, <2>2
<1>5. \A k \in 0..(n - 1) : \E s \in S : rank(s) = k
  <2> SUFFICES ASSUME NEW k \in 0..(n - 1) PROVE \E s \in S : rank(s) = k
    OBVIOUS
  <2>1. \E s \in S : Cardinality(Below(R, S, s)) = k
    BY <1>2, RanksOnto
  <2> QED BY <1>3, <2>1
<1>6. \A s, u \in S : s = u \/ Before(s, u) \/ Before(u, s)
  BY <1>2 DEF StrictOrder, Sooner
<1>7. /\ stops = [i \in 1..n |-> CHOOSE s \in S : rank(s) = i - 1]
  BY DEF OrderStops
<1> HIDE DEF rank
<1>8. \A i \in 1..n : stops[i] \in S /\ rank(stops[i]) = i - 1
  <2> SUFFICES ASSUME NEW i \in 1..n PROVE stops[i] \in S /\ rank(stops[i]) = i - 1
    OBVIOUS
  <2>1. i - 1 \in 0..(n - 1)
    BY <1>1
  <2>2. \E s \in S : rank(s) = i - 1
    BY <1>5, <2>1
  <2>3. stops[i] = CHOOSE s \in S : rank(s) = i - 1
    BY <1>7
  <2> QED BY <2>2, <2>3
<1>9. Len(stops) = n /\ stops = [i \in 1..n |-> stops[i]]
  BY <1>1, <1>7
<1> HIDE DEF stops
<1>10. ASSUME NEW s \in S PROVE \E i \in 1..n : stops[i] = s
  <2> DEFINE i == rank(s) + 1
  <2>1. i \in 1..n /\ i - 1 = rank(s)
    BY <1>1, <1>4
  <2>2. stops[i] \in S /\ rank(stops[i]) = rank(s)
    BY <1>8, <2>1
  <2>3. ~Before(stops[i], s) /\ ~Before(s, stops[i])
    BY <1>1, <1>4, <2>2
  <2> QED BY <1>6, <2>1, <2>2, <2>3
<1>11. ASSUME NEW i \in 1..n, NEW j \in 1..n PROVE i < j <=> Before(stops[i], stops[j])
  <2>1. /\ stops[i] \in S /\ rank(stops[i]) = i - 1
        /\ stops[j] \in S /\ rank(stops[j]) = j - 1
    BY <1>8
  <2>2. Before(stops[i], stops[j]) => i < j
    BY <1>1, <1>4, <2>1
  <2>3. Before(stops[j], stops[i]) => j < i
    BY <1>1, <1>4, <2>1
  <2>4. stops[i] = stops[j] => i = j
    BY <1>1, <2>1
  <2>5. i \in Int /\ j \in Int
    BY <1>1
  <2>6. stops[i] = stops[j] \/ Before(stops[i], stops[j]) \/ Before(stops[j], stops[i])
    BY <1>6, <2>1
  <2>7. i < j => Before(stops[i], stops[j])
    BY <2>3, <2>4, <2>5, <2>6
  <2> QED BY <2>2, <2>7
<1>12. Follows(stops, S)
  BY <1>1, <1>8, <1>9, <1>10, <1>11 DEF Follows
<1> QED BY <1>12 DEF stops

Done(stops, i) == {stops[j] : j \in 1..i}

LEMMA DoneStops ==
    ASSUME NEW S \in SUBSET Stops, NEW stops, Follows(stops, S)
    PROVE  /\ Done(stops, 0) = {} /\ Done(stops, Len(stops)) = S
           /\ \A i \in 1..Len(stops) :
                /\ Done(stops, i) = Done(stops, i - 1) \cup {stops[i]} /\ stops[i] \notin Done(stops, i - 1)
                /\ \A u \in S : u \in Done(stops, i - 1) <=> Before(u, stops[i])
<1> DEFINE n == Len(stops)
<1>1. /\ n \in Nat /\ \A i \in 1..n : stops[i] \in S
      /\ \A s \in S : \E i \in 1..n : stops[i] = s
      /\ \A i, j \in 1..n : i < j <=> Before(stops[i], stops[j])
  BY DEF Follows
<1>2. Done(stops, 0) = {}
  BY DEF Done
<1>3. Done(stops, n) = S
  BY <1>1 DEF Done
<1>4. ASSUME NEW i \in 1..n
      PROVE  /\ Done(stops, i) = Done(stops, i - 1) \cup {stops[i]} /\ stops[i] \notin Done(stops, i - 1)
             /\ \A u \in S : u \in Done(stops, i - 1) <=> Before(u, stops[i])
  <2> HIDE DEF n
  <2>1. 1..i = (1..(i - 1)) \cup {i} /\ 1..(i - 1) \subseteq 1..n /\ \A j \in 1..(i - 1) : j < i
    BY <1>1
  <2>2. Done(stops, i) = Done(stops, i - 1) \cup {stops[i]}
    BY <2>1 DEF Done
  <2>3. \A u \in S : u \in Done(stops, i - 1) <=> Before(u, stops[i])
    <3> SUFFICES ASSUME NEW u \in S PROVE u \in Done(stops, i - 1) <=> Before(u, stops[i])
      OBVIOUS
    <3>1. PICK j \in 1..n : stops[j] = u
      BY <1>1
    <3>2. Before(u, stops[i]) => j \in 1..(i - 1)
      BY <1>1, <3>1
    <3>3. Before(u, stops[i]) => u \in Done(stops, i - 1)
      BY <3>1, <3>2 DEF Done
    <3>4. u \in Done(stops, i - 1) => Before(u, stops[i])
      BY <1>1, <2>1 DEF Done
    <3> QED BY <3>3, <3>4
  <2>4. stops[i] \notin Done(stops, i - 1)
    BY <1>1, <2>3
  <2> QED BY <2>2, <2>3, <2>4
<1> QED BY <1>2, <1>3, <1>4

-----------------------------------------------------------------------------
(* Who is on board after each stop: those who have boarded, unless they have
   alighted after boarding. *)
InOrder(planned, t) == Before(Pickup(planned, t), Dropoff(planned, t))
On(planned, stops, i) ==
    {t \in DOMAIN planned :
        /\ Pickup(planned, t) \in Done(stops, i)
        /\ ~(Dropoff(planned, t) \in Done(stops, i) /\ InOrder(planned, t))}

(* stops is the tour planned, in order. *)
Planned(planned, stops) == IsTour(planned) /\ Follows(stops, StopSpecs(planned))

LEMMA ItsStops ==
    ASSUME NEW planned, NEW stops, Planned(planned, stops)
    PROVE  /\ Len(stops) \in Nat /\ DOMAIN stops = 1..Len(stops)
           /\ \A i \in 1..Len(stops) :
                /\ stops[i].trip \in DOMAIN planned
                /\ stops[i].kind = "pickup" => stops[i] = Pickup(planned, stops[i].trip)
                /\ stops[i].kind # "pickup" => stops[i] = Dropoff(planned, stops[i].trip)
           /\ \A t \in DOMAIN planned :
                /\ Pickup(planned, t) # Dropoff(planned, t)
                /\ \E i \in 1..Len(stops) : stops[i] = Dropoff(planned, t)
<1>1. /\ IsTour(planned) /\ Follows(stops, StopSpecs(planned))
      /\ StopSpecs(planned) = {Pickup(planned, t) : t \in DOMAIN planned}
                                   \cup {Dropoff(planned, t) : t \in DOMAIN planned}
  BY SpecsTyped DEF Planned
<1>2. \A t : /\ Pickup(planned, t).trip = t /\ Pickup(planned, t).kind = "pickup"
             /\ Dropoff(planned, t).trip = t /\ Dropoff(planned, t).kind = "dropoff"
  BY DEF Pickup, Dropoff
<1>3. \A t : Pickup(planned, t) # Dropoff(planned, t)
  BY <1>2
<1>4. Len(stops) \in Nat /\ stops = [i \in 1..Len(stops) |-> stops[i]]
  BY <1>1 DEF Follows
<1>5. DOMAIN stops = 1..Len(stops)
  BY <1>4
<1>6. ASSUME NEW i \in 1..Len(stops)
      PROVE  /\ stops[i].trip \in DOMAIN planned
             /\ stops[i].kind = "pickup" => stops[i] = Pickup(planned, stops[i].trip)
             /\ stops[i].kind # "pickup" => stops[i] = Dropoff(planned, stops[i].trip)
  <2>1. \E t \in DOMAIN planned : stops[i] = Pickup(planned, t) \/ stops[i] = Dropoff(planned, t)
    BY <1>1 DEF Follows
  <2> QED BY <1>2, <2>1
<1>7. ASSUME NEW t \in DOMAIN planned
      PROVE  \E i \in 1..Len(stops) : stops[i] = Dropoff(planned, t)
  <2>1. Dropoff(planned, t) \in StopSpecs(planned)
    BY <1>1
  <2> QED BY <1>1, <2>1 DEF Follows
<1> QED BY <1>3, <1>4, <1>5, <1>6, <1>7

LEMMA OnStep ==
    ASSUME NEW planned, NEW stops, Planned(planned, stops), NEW i \in 1..Len(stops)
    PROVE  LET t == stops[i].trip
               was == On(planned, stops, i - 1)
           IN  /\ stops[i].kind = "pickup" => t \notin was /\ On(planned, stops, i) = was \cup {t}
               /\ stops[i].kind # "pickup" => /\ t \in was <=> InOrder(planned, t)
                                              /\ On(planned, stops, i) = was \ {t}
<1> DEFINE t == stops[i].trip
           S == StopSpecs(planned)
<1>1. /\ S \in SUBSET Stops /\ Follows(stops, S)
      /\ S = {Pickup(planned, x) : x \in DOMAIN planned} \cup {Dropoff(planned, x) : x \in DOMAIN planned}
  BY SpecsTyped DEF Planned
<1>2. /\ Done(stops, i) = Done(stops, i - 1) \cup {stops[i]} /\ stops[i] \notin Done(stops, i - 1)
      /\ \A u \in S : u \in Done(stops, i - 1) <=> Before(u, stops[i])
  BY <1>1, DoneStops
<1>3. t \in DOMAIN planned
  BY ItsStops
<1>4. \A x, y : /\ Pickup(planned, x) = Pickup(planned, y) => x = y
                /\ Dropoff(planned, x) = Dropoff(planned, y) => x = y
                /\ Pickup(planned, x) # Dropoff(planned, y)
  <2>1. \A x : /\ Pickup(planned, x).trip = x /\ Pickup(planned, x).kind = "pickup"
               /\ Dropoff(planned, x).trip = x /\ Dropoff(planned, x).kind = "dropoff"
    BY DEF Pickup, Dropoff
  <2> QED BY <2>1
<1>5. \A x \in DOMAIN planned : Pickup(planned, x) \in S /\ Dropoff(planned, x) \in S
  BY <1>1
<1>6. CASE stops[i].kind = "pickup"
  <2>1. stops[i] = Pickup(planned, t)
    BY <1>6, ItsStops
  <2>2. t \notin On(planned, stops, i - 1)
    BY <1>2, <2>1 DEF On
  <2>3. /\ \A x \in DOMAIN planned \ {t} :
             /\ Pickup(planned, x) \in Done(stops, i) <=> Pickup(planned, x) \in Done(stops, i - 1)
             /\ Dropoff(planned, x) \in Done(stops, i) <=> Dropoff(planned, x) \in Done(stops, i - 1)
    BY <1>2, <1>4, <2>1
  <2>4. Pickup(planned, t) \in Done(stops, i)
    BY <1>2, <2>1
  <2>5. ~(Dropoff(planned, t) \in Done(stops, i) /\ InOrder(planned, t))
    <3>1. Dropoff(planned, t) \in Done(stops, i) => Before(Dropoff(planned, t), Pickup(planned, t))
      BY <1>2, <1>3, <1>4, <1>5, <2>1
    <3>2. ~(Before(Dropoff(planned, t), Pickup(planned, t)) /\ Before(Pickup(planned, t), Dropoff(planned, t)))
      BY <1>1, <1>3, <1>5, SoonerIsOrder
    <3> QED BY <3>1, <3>2 DEF InOrder
  <2>6. On(planned, stops, i) = On(planned, stops, i - 1) \cup {t}
    BY <1>3, <2>3, <2>4, <2>5 DEF On
  <2> QED BY <1>6, <2>2, <2>6
<1>7. CASE stops[i].kind # "pickup"
  <2>1. stops[i] = Dropoff(planned, t)
    BY <1>7, ItsStops
  <2>2. /\ \A x \in DOMAIN planned \ {t} :
             /\ Pickup(planned, x) \in Done(stops, i) <=> Pickup(planned, x) \in Done(stops, i - 1)
             /\ Dropoff(planned, x) \in Done(stops, i) <=> Dropoff(planned, x) \in Done(stops, i - 1)
    BY <1>2, <1>4, <2>1
  <2>3. /\ Dropoff(planned, t) \notin Done(stops, i - 1) /\ Dropoff(planned, t) \in Done(stops, i)
        /\ Pickup(planned, t) \in Done(stops, i) <=> InOrder(planned, t)
        /\ Pickup(planned, t) \in Done(stops, i - 1) <=> InOrder(planned, t)
    BY <1>2, <1>3, <1>4, <1>5, <2>1 DEF InOrder
  <2>4. t \in On(planned, stops, i - 1) <=> InOrder(planned, t)
    BY <1>3, <2>3 DEF On
  <2>5. On(planned, stops, i) = On(planned, stops, i - 1) \ {t}
    BY <1>3, <2>2, <2>3 DEF On
  <2> QED BY <1>7, <2>4, <2>5
<1> QED BY <1>6, <1>7

(* A loop over the stops that starts and goes on as c does computes c. *)
LEMMA OneLoop ==
    ASSUME NEW n \in Nat, NEW g, NEW c, g[0] = c[0],
           \A i \in 1..n : g[i - 1] = c[i - 1] => g[i] = c[i]
    PROVE  \A i \in 0..n : g[i] = c[i]
<1> DEFINE Wrong == {k \in 0..n : g[k] # c[k]}
<1> SUFFICES ASSUME Wrong # {} PROVE FALSE
  OBVIOUS
<1>0. Wrong \in SUBSET Nat
  OBVIOUS
<1>1. PICK k \in Wrong : \A j \in Wrong : k <= j
  BY <1>0, LeastNatural
<1>2. k \in 1..n
  OBVIOUS
<1>3. k - 1 \in 0..n /\ ~(k <= k - 1)
  BY <1>2
<1>4. g[k - 1] = c[k - 1]
  BY <1>1, <1>3
<1> QED BY <1>2, <1>4

LEMMA OnAround ==
    ASSUME NEW planned, NEW stops, Planned(planned, stops)
    PROVE  /\ On(planned, stops, 0) = {}
           /\ (\A t \in DOMAIN planned : InOrder(planned, t)) => On(planned, stops, Len(stops)) = {}
           /\ \A i : IsFiniteSet(On(planned, stops, i)) /\ On(planned, stops, i) \subseteq DOMAIN planned
<1> DEFINE S == StopSpecs(planned)
<1>1. /\ S \in SUBSET Stops /\ Follows(stops, S) /\ IsTour(planned)
      /\ S = {Pickup(planned, x) : x \in DOMAIN planned} \cup {Dropoff(planned, x) : x \in DOMAIN planned}
  BY SpecsTyped DEF Planned
<1>2. Done(stops, 0) = {} /\ Done(stops, Len(stops)) = S
  BY <1>1, DoneStops
<1>3. \A i : On(planned, stops, i) \in SUBSET DOMAIN planned
  BY DEF On
<1>4. \A i : IsFiniteSet(On(planned, stops, i))
  BY <1>1, <1>3, FS_Subset DEF IsTour
<1> QED BY <1>1, <1>2, <1>3, <1>4 DEF On

(* sequence_is_coherent accepts the stops of a tour exactly when every trip
   boards before it alights. *)
LEMMA CoherentMeansInOrder ==
    ASSUME NEW planned, NEW stops, Planned(planned, stops)
    PROVE  SequenceIsCoherent(stops) <=> \A t \in DOMAIN planned : InOrder(planned, t)
<1> DEFINE n == Len(stops)
           c == [i \in 0..n |-> On(planned, stops, i)]
<1>1. /\ n \in Nat /\ DOMAIN stops = 1..n
      /\ c[0] = {}
      /\ \A i \in 1..n : c[i - 1] = On(planned, stops, i - 1) /\ c[i] = On(planned, stops, i)
      /\ c[n] = On(planned, stops, n)
  BY ItsStops, OnAround
<1>2. ASSUME NEW i \in 1..n
      PROVE  c[i] = IF stops[i].kind = "pickup" THEN c[i - 1] \cup {stops[i].trip}
                    ELSE c[i - 1] \ {stops[i].trip}
  <2>1. c[i - 1] = On(planned, stops, i - 1) /\ c[i] = On(planned, stops, i)
    BY <1>1
  <2> HIDE DEF c, n
  <2>2. /\ stops[i].kind = "pickup" => On(planned, stops, i) = On(planned, stops, i - 1) \cup {stops[i].trip}
        /\ stops[i].kind # "pickup" => On(planned, stops, i) = On(planned, stops, i - 1) \ {stops[i].trip}
    BY OnStep DEF n
  <2> QED BY <2>1, <2>2
<1>3. c = [i \in 0..Len(stops) |->
             IF i = 0 THEN {}
             ELSE IF stops[i].kind = "pickup" THEN c[i - 1] \cup {stops[i].trip}
                  ELSE c[i - 1] \ {stops[i].trip}]
  <2>1. ASSUME NEW i \in 0..n
        PROVE  c[i] = IF i = 0 THEN {}
                      ELSE IF stops[i].kind = "pickup" THEN c[i - 1] \cup {stops[i].trip}
                      ELSE c[i - 1] \ {stops[i].trip}
    <3> HIDE DEF c
    <3>1. i = 0 \/ i \in 1..n
      BY <1>1
    <3> QED BY <1>1, <1>2, <3>1
  <2>2. c = [i \in 0..n |-> c[i]]
    OBVIOUS
  <2> HIDE DEF c
  <2> QED BY <2>1, <2>2
<1> HIDE DEF c
<1>4. PICK g :
        /\ g = [i \in 0..Len(stops) |->
                  IF i = 0 THEN {}
                  ELSE IF stops[i].kind = "pickup" THEN g[i - 1] \cup {stops[i].trip}
                       ELSE g[i - 1] \ {stops[i].trip}]
        /\ SequenceIsCoherent(stops) <=>
             /\ \A i \in DOMAIN stops :
                  stops[i].kind = "pickup" <=> stops[i].trip \notin g[i - 1]
             /\ g[Len(stops)] = {}
  BY <1>3 DEF SequenceIsCoherent
<1>5. \A i \in 0..n : g[i] = c[i]
  <2>1. g[0] = c[0]
    BY <1>1, <1>4
  <2>2. ASSUME NEW i \in 1..n
        PROVE  g[i] = IF stops[i].kind = "pickup" THEN g[i - 1] \cup {stops[i].trip}
                      ELSE g[i - 1] \ {stops[i].trip}
    <3>1. i \in 0..Len(stops) /\ i # 0
      BY <1>1
    <3> HIDE DEF n
    <3> QED BY <1>4, <3>1
  <2>3. \A i \in 1..n : g[i - 1] = c[i - 1] => g[i] = c[i]
    BY <1>2, <2>2
  <2>4. n \in Nat
    BY <1>1
  <2> HIDE DEF n
  <2> QED BY <2>1, <2>3, <2>4, OneLoop
<1>6. \A i \in 1..n : g[i - 1] = On(planned, stops, i - 1)
  BY <1>1, <1>5
<1>7. g[n] = On(planned, stops, n)
  BY <1>1, <1>5
<1>8. ASSUME \A t \in DOMAIN planned : InOrder(planned, t) PROVE SequenceIsCoherent(stops)
  <2>1. ASSUME NEW i \in 1..n
        PROVE  stops[i].kind = "pickup" <=> stops[i].trip \notin On(planned, stops, i - 1)
    <3>1. stops[i].trip \in DOMAIN planned
      BY ItsStops
    <3> QED BY <1>8, <3>1, OnStep
  <2>2. On(planned, stops, n) = {}
    BY <1>8, OnAround
  <2>3. \A i \in DOMAIN stops : stops[i].kind = "pickup" <=> stops[i].trip \notin g[i - 1]
    BY <1>1, <1>6, <2>1
  <2>4. g[Len(stops)] = {}
    BY <1>7, <2>2
  <2> QED BY <1>4, <2>3, <2>4
<1>9. ASSUME SequenceIsCoherent(stops), NEW t \in DOMAIN planned PROVE InOrder(planned, t)
  <2>1. PICK i \in 1..n : stops[i] = Dropoff(planned, t)
    BY ItsStops
  <2>2. stops[i].kind # "pickup" /\ stops[i].trip = t
    BY <2>1 DEF Dropoff
  <2>3. t \in On(planned, stops, i - 1)
    BY <1>1, <1>4, <1>6, <1>9, <2>2
  <2> QED BY <2>2, <2>3, OnStep
<1> QED BY <1>8, <1>9

LEMMA InOrderMeansSound ==
    ASSUME NEW planned, IsTour(planned), NEW t \in DOMAIN planned
    PROVE  InOrder(planned, t) <=>
             /\ planned[t].dep = None => planned[t].arr = None
             /\ (planned[t].dep # None /\ planned[t].arr # None) => planned[t].dep <= planned[t].arr
<1>1. /\ planned[t].dep = None \/ (planned[t].dep # None /\ planned[t].dep \in Nat)
      /\ planned[t].arr = None \/ (planned[t].arr # None /\ planned[t].arr \in Nat)
  <2>1. planned[t].dep \in Instants \cup {None} /\ planned[t].arr \in Instants \cup {None}
    BY DEF IsTour, Windows
  <2> QED BY <2>1, RulesAssumption DEF RulesAssumption
<1>2. InOrder(planned, t) <=>
        \/ planned[t].dep # None /\ planned[t].arr = None
        \/ planned[t].dep # None /\ planned[t].arr # None /\ planned[t].dep < planned[t].arr
        \/ planned[t].dep = planned[t].arr
  BY DEF InOrder, Before, Pickup, Dropoff
<1> QED BY <1>1, <1>2

LEMMA OrderedTour ==
    ASSUME NEW planned, IsTour(planned)
    PROVE  Planned(planned, OrderStops(StopSpecs(planned)))
BY SpecsTyped, Ordered DEF Planned

(* On any tour, whatever times are equal or missing, the ordered stops are
   refused exactly when some trip arrives before it leaves or has an arrival
   and no departure. *)
THEOREM CoherenceJudgesWindows == Spec => []CoherentIffWindowsSound
<1>1. Typed => CoherentIffWindowsSound
  <2> SUFFICES ASSUME Typed PROVE CoherentIffWindowsSound
    OBVIOUS
  <2>1. IsTour(tour) /\ Planned(tour, Itinerary)
    BY OrderedTour DEF Typed, Itinerary
  <2>2. SequenceIsCoherent(Itinerary) <=> \A t \in DOMAIN tour : InOrder(tour, t)
    BY <2>1, CoherentMeansInOrder
  <2> QED BY <2>1, <2>2, InOrderMeansSound DEF CoherentIffWindowsSound
<1> QED BY <1>1, AlwaysTyped, PTL

-----------------------------------------------------------------------------
(* Windows *)
LEMMA WindowOfTour ==
    ASSUME NEW planned, IsTour(planned)
    PROVE  LET w == WindowFor(StopSpecs(planned))
           IN  /\ (w.dep = None) <=> (w.arr = None)
               /\ w.dep # None => w.dep \in Nat /\ w.arr \in Nat /\ w.dep <= w.arr
<1> DEFINE T == Timed(StopSpecs(planned))
<1>1. T \in SUBSET Nat /\ None \notin T
  <2>1. T \subseteq Instants
    BY SpecsTyped DEF Timed, Stops
  <2> QED BY <2>1, RulesAssumption DEF RulesAssumption, Timed
<1>2. IsFiniteSet(T)
  <2> DEFINE S == StopSpecs(planned)
             at == [s \in S |-> s.at]
  <2>1. IsFiniteSet(S) /\ DOMAIN at = S /\ at = [s \in S |-> at[s]]
    BY SpecsTyped
  <2>2. {at[s] : s \in S} = {s.at : s \in S}
    OBVIOUS
  <2> HIDE DEF at
  <2>3. IsFiniteSet({at[s] : s \in S})
    BY <2>1, FiniteImage
  <2>4. IsFiniteSet({s.at : s \in S})
    BY <2>2, <2>3
  <2>5. T \in SUBSET {s.at : s \in S}
    BY DEF Timed
  <2> QED BY <2>4, <2>5, FS_Subset
<1>3. CASE T = {}
  <2>1. WindowFor(StopSpecs(planned)) = [dep |-> None, arr |-> None]
    BY <1>3 DEF WindowFor
  <2> QED BY <2>1
<1>4. CASE T # {}
  <2>1. WindowFor(StopSpecs(planned)) = [dep |-> Min(T), arr |-> Max(T)]
    BY <1>4 DEF WindowFor
  <2> HIDE DEF T
  <2>2. \E x \in T : \A y \in T : x <= y
    BY <1>1, <1>4, LeastNatural
  <2>3. Min(T) \in T /\ \A y \in T : Min(T) <= y
    BY <2>2 DEF Min
  <2>4. \E x \in T : \A y \in T : y <= x
    BY <1>1, <1>2, <1>4, GreatestNatural
  <2>5. \E x \in T : \A y \in T : x >= y
    BY <1>1, <2>4
  <2>6. Max(T) \in T
    BY <2>5 DEF Max
  <2>7. /\ Min(T) \in Nat /\ Max(T) \in Nat /\ Min(T) <= Max(T)
        /\ Min(T) # None /\ Max(T) # None
    BY <1>1, <2>3, <2>6
  <2> QED BY <2>1, <2>7
<1> QED BY <1>3, <1>4

(* Whatever a mission's trips are, the verdict on it and another mission of the
   vehicle is the same in both orders, and what it lets through leaves the
   transfer time between them. *)
THEOREM VerdictSymmetric == Spec => []ResourceCheckSymmetric
<1>1. Typed => ResourceCheckSymmetric
  <2> SUFFICES ASSUME Typed PROVE ResourceCheckSymmetric
    OBVIOUS
  <2> DEFINE mine == WindowFor(StopSpecs(tour))
  <2>1. /\ (mine.dep = None) <=> (mine.arr = None)
        /\ mine.dep # None => mine.dep \in Nat /\ mine.arr \in Nat /\ mine.dep <= mine.arr
    BY WindowOfTour DEF Typed
  <2>2. /\ (other.dep = None) <=> (other.arr = None)
        /\ other.dep # None => other.dep \in Nat /\ other.arr \in Nat /\ other.dep <= other.arr
    BY RulesAssumption DEF RulesAssumption, Typed, Windows
  <2>3. Transfer \in Nat \ {0}
    BY RulesAssumption DEF RulesAssumption
  <2> HIDE DEF mine
  <2> SUFFICES ASSUME mine.dep # None, other.dep # None
               PROVE  /\ ResourceFree(mine, other) <=> ResourceFree(other, mine)
                      /\ ResourceFree(mine, other) =>
                           other.arr + Transfer <= mine.dep \/ mine.arr + Transfer <= other.dep
    BY DEF ResourceCheckSymmetric, mine
  <2> QED BY <2>1, <2>2, <2>3 DEF ResourceFree, WindowsOverlap, BufferFeasible
<1> QED BY <1>1, AlwaysTyped, PTL

-----------------------------------------------------------------------------
(* Passengers of a set of trips: the sum the community module computes by
   taking the members one by one, shown to depend on the set only. *)
People(S) == MapThenSumSet(LAMBDA t : Pax[t], S)
Taken(S) == CHOOSE x \in S : TRUE
Adds(g, S) == g = [s \in SUBSET S |-> IF s = {} THEN 0 ELSE Pax[Taken(s)] + g[s \ {Taken(s)}]]

LEMMA TakenOne ==
    ASSUME NEW S, S # {}, IsFiniteSet(S)
    PROVE  /\ Taken(S) \in S /\ IsFiniteSet(S \ {Taken(S)})
           /\ Cardinality(S) \in Nat /\ Cardinality(S) # 0
           /\ Cardinality(S \ {Taken(S)}) = Cardinality(S) - 1
<1>1. Taken(S) \in S
  BY DEF Taken
<1>2. /\ IsFiniteSet(S \ {Taken(S)})
      /\ Cardinality(S \ {Taken(S)}) = Cardinality(S) - 1
  BY <1>1, FS_RemoveElement
<1>3. Cardinality(S) \in Nat
  BY FS_CardinalityType
<1>4. Cardinality(S) # 0
  BY FS_EmptySet
<1> QED BY <1>1, <1>2, <1>3, <1>4

(* The sums of the subsets of up to k members can be added up one after the
   other. *)
LEMMA SomeSum ==
    ASSUME NEW S, IsFiniteSet(S)
    PROVE  \E g : Adds(g, S)
<1> DEFINE Small(k) == {s \in SUBSET S : Cardinality(s) <= k}
           Sums(g, k) == g = [s \in Small(k) |-> IF s = {} THEN 0 ELSE Pax[Taken(s)] + g[s \ {Taken(s)}]]
           Unsummed == {k \in Nat : ~\E g : Sums(g, k)}
<1>1. \A s \in SUBSET S : IsFiniteSet(s) /\ Cardinality(s) \in Nat
  <2>1. \A s \in SUBSET S : IsFiniteSet(s)
    BY FS_Subset
  <2> QED BY <2>1, FS_CardinalityType
<1>2. Unsummed = {}
  <2> SUFFICES ASSUME Unsummed # {} PROVE FALSE
    OBVIOUS
  <2>0. Unsummed \in SUBSET Nat
    OBVIOUS
  <2>1. PICK k \in Unsummed : \A j \in Unsummed : k <= j
    <3> HIDE DEF Unsummed
    <3> QED BY <2>0, LeastNatural
  <2>2. CASE k = 0
    <3> DEFINE g == [s \in Small(0) |-> 0]
    <3>1. \A s \in Small(0) : s = {}
      <4> SUFFICES ASSUME NEW s \in SUBSET S, Cardinality(s) <= 0 PROVE s = {}
        OBVIOUS
      <4>1. IsFiniteSet(s) /\ Cardinality(s) = 0
        BY <1>1
      <4> QED BY <4>1, FS_EmptySet
    <3>2. Sums(g, 0)
      BY <3>1
    <3> HIDE DEF Sums, g
    <3> QED BY <2>1, <2>2, <3>2
  <2>3. CASE k # 0
    <3>1. k - 1 \in Nat /\ ~(k <= k - 1)
      BY <2>3
    <3>2. PICK h : Sums(h, k - 1)
      <4> HIDE DEF Sums
      <4> QED BY <2>1, <3>1
    <3> DEFINE g == [s \in Small(k) |-> IF s = {} THEN 0 ELSE Pax[Taken(s)] + h[s \ {Taken(s)}]]
    <3>3. ASSUME NEW s \in Small(k), s # {} PROVE g[s \ {Taken(s)}] = h[s \ {Taken(s)}]
      <4> DEFINE u == s \ {Taken(s)}
      <4>1. /\ IsFiniteSet(s) /\ Cardinality(s) \in Nat /\ Cardinality(u) = Cardinality(s) - 1
        BY <1>1, <3>3, TakenOne
      <4>2. u \in Small(k - 1) /\ u \in Small(k)
        BY <3>1, <4>1
      <4> HIDE DEF u
      <4>3. h[u] = IF u = {} THEN 0 ELSE Pax[Taken(u)] + h[u \ {Taken(u)}]
        BY <3>2, <4>2
      <4>4. g[u] = IF u = {} THEN 0 ELSE Pax[Taken(u)] + h[u \ {Taken(u)}]
        BY <4>2
      <4> QED BY <4>3, <4>4 DEF u
    <3>4. Sums(g, k)
      <4>1. \A s \in Small(k) : g[s] = IF s = {} THEN 0 ELSE Pax[Taken(s)] + g[s \ {Taken(s)}]
        BY <3>3
      <4>2. g = [s \in Small(k) |-> g[s]]
        OBVIOUS
      <4> HIDE DEF g, Small
      <4> QED BY <4>1, <4>2
    <3> HIDE DEF Sums, g
    <3> QED BY <2>1, <3>4
  <2> QED BY <2>2, <2>3
<1>3. Cardinality(S) \in Nat
  BY FS_CardinalityType
<1>4. Small(Cardinality(S)) = SUBSET S
  BY FS_Subset
<1>5. \E g : Sums(g, Cardinality(S))
  <2> HIDE DEF Sums
  <2> QED BY <1>2, <1>3
<1> HIDE DEF Small
<1> QED BY <1>4, <1>5 DEF Adds

(* Two ways of adding agree on what both add. *)
LEMMA SameSum ==
    ASSUME NEW S, NEW T, NEW g, NEW h, Adds(g, S), Adds(h, T),
           NEW s \in (SUBSET S) \cap (SUBSET T), IsFiniteSet(s)
    PROVE  g[s] = h[s]
<1> DEFINE Differ(u) == u \in (SUBSET S) \cap (SUBSET T) /\ IsFiniteSet(u) /\ g[u] # h[u]
           Sizes == {k \in Nat : \E u : Differ(u) /\ k = Cardinality(u)}
<1> SUFFICES ASSUME Differ(s) PROVE FALSE
  OBVIOUS
<1>1. Sizes # {} /\ Sizes \in SUBSET Nat
  BY FS_CardinalityType
<1>2. PICK k \in Sizes : \A j \in Sizes : k <= j
  <2> HIDE DEF Sizes
  <2> QED BY <1>1, LeastNatural
<1>3. PICK u : Differ(u) /\ k = Cardinality(u)
  OBVIOUS
<1>4. /\ g[u] = IF u = {} THEN 0 ELSE Pax[Taken(u)] + g[u \ {Taken(u)}]
      /\ h[u] = IF u = {} THEN 0 ELSE Pax[Taken(u)] + h[u \ {Taken(u)}]
  BY <1>3 DEF Adds
<1>5. u # {}
  BY <1>3, <1>4
<1> DEFINE v == u \ {Taken(u)}
<1>6. /\ IsFiniteSet(v) /\ Cardinality(u) \in Nat /\ Cardinality(u) # 0
      /\ Cardinality(v) = Cardinality(u) - 1
  BY <1>3, <1>5, TakenOne
<1>7. Cardinality(v) \in Nat /\ ~(k <= Cardinality(v))
  BY <1>3, <1>6
<1>8. ~Differ(v)
  <2> HIDE DEF Differ, v
  <2> QED BY <1>2, <1>7
<1>9. g[v] = h[v]
  BY <1>3, <1>6, <1>8
<1> QED BY <1>3, <1>4, <1>5, <1>9

LEMMA PeopleAdds ==
    ASSUME NEW S, IsFiniteSet(S)
    PROVE  \E g : Adds(g, S) /\ People(S) = g[S]
<1>1. \E g : g = [s \in SUBSET S |-> IF s = {} THEN 0
                   ELSE Pax[CHOOSE x \in s : TRUE] + g[s \ {CHOOSE x \in s : TRUE}]]
  BY SomeSum DEF Adds, Taken
<1>2. \E g : /\ g = [s \in SUBSET S |-> IF s = {} THEN 0
                       ELSE Pax[CHOOSE x \in s : TRUE] + g[s \ {CHOOSE x \in s : TRUE}]]
             /\ MapThenSumSet(LAMBDA t : Pax[t], S) = g[S]
  BY <1>1 DEF MapThenSumSet, MapThenFoldSet
<1> QED BY <1>2 DEF Adds, Taken, People

LEMMA PeopleByOne ==
    ASSUME NEW S, IsFiniteSet(S)
    PROVE  /\ S = {} => People(S) = 0
           /\ S # {} => People(S) = Pax[Taken(S)] + People(S \ {Taken(S)})
<1>1. PICK g : Adds(g, S) /\ People(S) = g[S]
  BY PeopleAdds
<1>2. g[S] = IF S = {} THEN 0 ELSE Pax[Taken(S)] + g[S \ {Taken(S)}]
  BY <1>1 DEF Adds
<1>3. ASSUME S # {} PROVE g[S \ {Taken(S)}] = People(S \ {Taken(S)})
  <2> DEFINE u == S \ {Taken(S)}
  <2>1. IsFiniteSet(u)
    BY <1>3, TakenOne
  <2>2. PICK h : Adds(h, u) /\ People(u) = h[u]
    BY <2>1, PeopleAdds
  <2>3. u \in (SUBSET S) \cap (SUBSET u)
    OBVIOUS
  <2> HIDE DEF u
  <2>4. g[u] = h[u]
    BY <1>1, <2>1, <2>2, <2>3, SameSum
  <2> QED BY <2>2, <2>4 DEF u
<1> QED BY <1>1, <1>2, <1>3

LEMMA PeopleTyped ==
    ASSUME NEW S \in SUBSET Trips, IsFiniteSet(S)
    PROVE  People(S) \in Nat
<1> DEFINE Bad(u) == u \in SUBSET Trips /\ IsFiniteSet(u) /\ People(u) \notin Nat
           Sizes == {k \in Nat : \E u : Bad(u) /\ k = Cardinality(u)}
<1> SUFFICES ASSUME Bad(S) PROVE FALSE
  OBVIOUS
<1>1. Sizes # {} /\ Sizes \in SUBSET Nat
  BY FS_CardinalityType
<1>2. PICK k \in Sizes : \A j \in Sizes : k <= j
  <2> HIDE DEF Sizes
  <2> QED BY <1>1, LeastNatural
<1>3. PICK u : Bad(u) /\ k = Cardinality(u)
  OBVIOUS
<1>4. u # {}
  BY <1>3, PeopleByOne
<1> DEFINE v == u \ {Taken(u)}
<1>5. /\ IsFiniteSet(v) /\ Cardinality(u) \in Nat /\ Cardinality(u) # 0
      /\ Cardinality(v) = Cardinality(u) - 1 /\ Taken(u) \in u
  BY <1>3, <1>4, TakenOne
<1>6. Cardinality(v) \in Nat /\ ~(k <= Cardinality(v))
  BY <1>3, <1>5
<1>7. ~Bad(v)
  <2> HIDE DEF Bad, v
  <2> QED BY <1>2, <1>6
<1>8. People(v) \in Nat
  BY <1>3, <1>5, <1>7
<1>9. Pax[Taken(u)] \in Nat
  BY <1>3, <1>5, RulesAssumption DEF RulesAssumption
<1>10. People(u) = Pax[Taken(u)] + People(v)
  BY <1>3, <1>4, PeopleByOne
<1> QED BY <1>3, <1>8, <1>9, <1>10

(* Any member may be the one taken. *)
LEMMA PeopleWithout ==
    ASSUME NEW S \in SUBSET Trips, IsFiniteSet(S), NEW x \in S
    PROVE  /\ People(S) = Pax[x] + People(S \ {x})
           /\ People(S \ {x}) \in Nat /\ Pax[x] \in Nat
<1> DEFINE Bad(u) == /\ u \in SUBSET Trips /\ IsFiniteSet(u)
                     /\ \E y \in u : People(u) # Pax[y] + People(u \ {y})
           Sizes == {k \in Nat : \E u : Bad(u) /\ k = Cardinality(u)}
<1>1. \A y \in Trips : Pax[y] \in Nat
  BY RulesAssumption DEF RulesAssumption
<1>2. ~Bad(S)
  <2> SUFFICES ASSUME Bad(S) PROVE FALSE
    OBVIOUS
  <2>1. Sizes # {} /\ Sizes \in SUBSET Nat
    BY FS_CardinalityType
  <2>2. PICK k \in Sizes : \A j \in Sizes : k <= j
    <3> HIDE DEF Sizes
    <3> QED BY <2>1, LeastNatural
  <2>3. PICK u : Bad(u) /\ k = Cardinality(u)
    OBVIOUS
  <2>4. PICK y \in u : People(u) # Pax[y] + People(u \ {y})
    BY <2>3
  <2> DEFINE p == Taken(u)
             v == u \ {y}
             w == u \ {p}
             z == v \ {p}
  <2>5. /\ p \in u /\ IsFiniteSet(w) /\ Cardinality(u) \in Nat /\ Cardinality(u) # 0
        /\ Cardinality(w) = Cardinality(u) - 1
    BY <2>3, TakenOne
  <2>6. IsFiniteSet(v) /\ Cardinality(v) = Cardinality(u) - 1
    BY <2>3, FS_RemoveElement
  <2>7. Cardinality(u) - 1 \in Nat /\ ~(k <= Cardinality(u) - 1)
    BY <2>3, <2>5
  <2>8. ~Bad(v) /\ ~Bad(w)
    <3> HIDE DEF Bad, v, w
    <3> QED BY <2>2, <2>5, <2>6, <2>7
  <2>9. People(u) = Pax[p] + People(w)
    BY <2>3, PeopleByOne
  <2>10. p # y /\ y \in w /\ p \in v
    BY <2>4, <2>5, <2>9
  <2>11. z = w \ {y}
    OBVIOUS
  <2>12. People(w) = Pax[y] + People(z)
    BY <2>3, <2>5, <2>8, <2>10, <2>11
  <2>13. People(v) = Pax[p] + People(z)
    BY <2>3, <2>6, <2>8, <2>10
  <2>14. IsFiniteSet(z) /\ z \in SUBSET Trips
    BY <2>3, <2>6, FS_RemoveElement
  <2>15. People(z) \in Nat /\ Pax[y] \in Nat /\ Pax[p] \in Nat
    BY <1>1, <2>3, <2>5, <2>14, PeopleTyped
  <2> HIDE DEF p, v, w, z
  <2>16. People(u) = Pax[y] + People(v)
    BY <2>9, <2>12, <2>13, <2>15
  <2> QED BY <2>4, <2>16 DEF v
<1>3. IsFiniteSet(S \ {x})
  BY FS_RemoveElement
<1>4. People(S \ {x}) \in Nat
  BY <1>3, PeopleTyped
<1> QED BY <1>1, <1>2, <1>4

LEMMA FewerPeople ==
    ASSUME NEW S \in SUBSET Trips, IsFiniteSet(S), NEW T \in SUBSET S
    PROVE  /\ IsFiniteSet(T) /\ People(T) \in Nat /\ People(S) \in Nat
           /\ People(T) <= People(S)
<1> DEFINE Bad(u) == /\ u \in SUBSET S /\ T \subseteq u /\ ~(People(T) <= People(u))
           Sizes == {k \in Nat : \E u : Bad(u) /\ k = Cardinality(u)}
<1>1. \A u \in SUBSET S : IsFiniteSet(u) /\ u \in SUBSET Trips
  BY FS_Subset
<1>2. \A u \in SUBSET S : People(u) \in Nat /\ Cardinality(u) \in Nat
  BY <1>1, PeopleTyped, FS_CardinalityType
<1>3. ~Bad(S)
  <2> SUFFICES ASSUME Bad(S) PROVE FALSE
    OBVIOUS
  <2>1. Sizes # {} /\ Sizes \in SUBSET Nat
    BY <1>2
  <2>2. PICK k \in Sizes : \A j \in Sizes : k <= j
    <3> HIDE DEF Sizes
    <3> QED BY <2>1, LeastNatural
  <2>3. PICK u : Bad(u) /\ k = Cardinality(u)
    OBVIOUS
  <2>4. PICK x \in u : x \notin T
    BY <1>2, <2>3
  <2> DEFINE v == u \ {x}
  <2>5. v \in SUBSET S /\ T \subseteq v
    BY <2>3, <2>4
  <2>6. IsFiniteSet(u) /\ Cardinality(v) = Cardinality(u) - 1
    BY <1>1, <2>3, FS_RemoveElement
  <2>7. Cardinality(v) \in Nat /\ ~(k <= Cardinality(v))
    BY <1>2, <2>3, <2>5, <2>6
  <2>8. ~Bad(v)
    <3> HIDE DEF Bad, v
    <3> QED BY <2>2, <2>7
  <2>9. u \in SUBSET Trips /\ IsFiniteSet(u)
    BY <1>1, <2>3
  <2>10. People(u) = Pax[x] + People(v) /\ Pax[x] \in Nat
    BY <2>9, PeopleWithout
  <2>11. People(T) <= People(v)
    BY <2>5, <2>8
  <2>12. People(T) \in Nat /\ People(v) \in Nat
    BY <1>2, <2>5
  <2> HIDE DEF v
  <2> QED BY <2>3, <2>10, <2>11, <2>12
<1> QED BY <1>1, <1>2, <1>3

-----------------------------------------------------------------------------
(* On a coherent tour the running count of people is the passengers of the
   trips on board. *)
LEMMA ProfileCounts ==
    ASSUME NEW planned, NEW stops, Planned(planned, stops), SequenceIsCoherent(stops)
    PROVE  /\ DOMAIN OccupancyProfile(stops) = 1..Len(stops)
           /\ \A i \in 1..Len(stops) : OccupancyProfile(stops)[i] = People(On(planned, stops, i))
<1> DEFINE n == Len(stops)
           c == [i \in 0..n |-> People(On(planned, stops, i))]
<1>1. /\ n \in Nat /\ DOMAIN stops = 1..n
      /\ \A i \in 1..n : i \in 0..n /\ i - 1 \in 0..n /\ i # 0
      /\ \A i \in 0..n : i = 0 \/ i \in 1..n
  BY ItsStops
<1>2. c[0] = 0
  <2>0. 0 \in 0..n /\ On(planned, stops, 0) = {}
    BY <1>1, OnAround
  <2>1. c[0] = People({})
    BY <2>0
  <2> QED BY <2>1, FS_EmptySet, PeopleByOne
<1>3. \A t \in DOMAIN planned : InOrder(planned, t)
  BY CoherentMeansInOrder
<1>4. ASSUME NEW i \in 1..n
      PROVE  c[i] = c[i - 1] + (IF stops[i].kind = "pickup" THEN Pax[stops[i].trip] ELSE -Pax[stops[i].trip])
  <2> DEFINE t == stops[i].trip
             was == On(planned, stops, i - 1)
             is == On(planned, stops, i)
  <2>1. c[i] = People(is) /\ c[i - 1] = People(was)
    BY <1>1
  <2>2. t \in DOMAIN planned
    BY ItsStops
  <2>3. /\ stops[i].kind = "pickup" => t \notin was /\ is = was \cup {t}
        /\ stops[i].kind # "pickup" => t \in was /\ is = was \ {t}
    BY <1>3, <2>2, OnStep
  <2>4. /\ is \in SUBSET Trips /\ was \in SUBSET Trips
        /\ IsFiniteSet(is) /\ IsFiniteSet(was)
    BY OnAround DEF Planned, IsTour
  <2> HIDE DEF c, t, was, is
  <2>5. CASE stops[i].kind = "pickup"
    <3>1. t \in is /\ was = is \ {t}
      BY <2>3, <2>5
    <3>2. People(is) = Pax[t] + People(was) /\ People(was) \in Nat /\ Pax[t] \in Nat
      BY <2>4, <3>1, PeopleWithout
    <3> QED BY <2>1, <2>5, <3>2 DEF t
  <2>6. CASE stops[i].kind # "pickup"
    <3>1. t \in was /\ is = was \ {t}
      BY <2>3, <2>6
    <3>2. People(was) = Pax[t] + People(is) /\ People(is) \in Nat /\ Pax[t] \in Nat
      BY <2>4, <3>1, PeopleWithout
    <3> QED BY <2>1, <2>6, <3>2 DEF t
  <2> QED BY <2>5, <2>6
<1>5. \A i \in 1..n : c[i] = People(On(planned, stops, i))
  BY <1>1
<1>6. c = [i \in 0..n |-> c[i]]
  OBVIOUS
<1> HIDE DEF c
<1>7. c = [i \in 0..Len(stops) |->
             IF i = 0 THEN 0
             ELSE c[i - 1]
                  + (IF stops[i].kind = "pickup" THEN Pax[stops[i].trip] ELSE -Pax[stops[i].trip])]
  <2>1. ASSUME NEW i \in 0..n
        PROVE  c[i] = IF i = 0 THEN 0
                      ELSE c[i - 1] + (IF stops[i].kind = "pickup" THEN Pax[stops[i].trip]
                                       ELSE -Pax[stops[i].trip])
    BY <1>1, <1>2, <1>4
  <2> QED BY <1>6, <2>1
<1>8. PICK g :
        /\ g = [i \in 0..Len(stops) |->
                  IF i = 0 THEN 0
                  ELSE g[i - 1]
                       + (IF stops[i].kind = "pickup" THEN Pax[stops[i].trip] ELSE -Pax[stops[i].trip])]
        /\ OccupancyProfile(stops) = [i \in DOMAIN stops |-> g[i]]
  BY <1>7 DEF OccupancyProfile
<1>9. \A i \in 0..n : g[i] = c[i]
  <2>1. g[0] = c[0]
    BY <1>1, <1>2, <1>8
  <2>2. ASSUME NEW i \in 1..n
        PROVE  g[i] = g[i - 1] + (IF stops[i].kind = "pickup" THEN Pax[stops[i].trip]
                                  ELSE -Pax[stops[i].trip])
    <3>1. i \in 0..Len(stops) /\ i # 0
      BY <1>1
    <3> HIDE DEF n
    <3> QED BY <1>8, <3>1
  <2>3. \A i \in 1..n : g[i - 1] = c[i - 1] => g[i] = c[i]
    BY <1>4, <2>2
  <2>4. n \in Nat
    BY <1>1
  <2> HIDE DEF n
  <2> QED BY <2>1, <2>3, <2>4, OneLoop
<1> QED BY <1>1, <1>5, <1>8, <1>9

(* The greatest count, as a fact about the trips on board. *)
LEMMA PeakCounts ==
    ASSUME NEW planned, NEW stops, Planned(planned, stops), SequenceIsCoherent(stops)
    PROVE  /\ MaxOccupancy(stops) \in Nat
           /\ \A i \in 1..Len(stops) : People(On(planned, stops, i)) <= MaxOccupancy(stops)
           /\ DOMAIN planned = {} => MaxOccupancy(stops) = 0
           /\ DOMAIN planned # {} =>
                \E i \in 1..Len(stops) : MaxOccupancy(stops) = People(On(planned, stops, i))
<1> DEFINE n == Len(stops)
           counts == {OccupancyProfile(stops)[i] : i \in DOMAIN stops}
<1>1. /\ n \in Nat /\ DOMAIN stops = 1..n
      /\ \A i \in 1..n : stops[i].trip \in DOMAIN planned
      /\ \A t \in DOMAIN planned : \E i \in 1..n : stops[i] = Dropoff(planned, t)
  BY ItsStops
<1>2. \A i \in 1..n : OccupancyProfile(stops)[i] = People(On(planned, stops, i))
  BY ProfileCounts
<1>3. \A i \in 1..n : People(On(planned, stops, i)) \in Nat
  <2>1. \A i \in 1..n : On(planned, stops, i) \in SUBSET Trips /\ IsFiniteSet(On(planned, stops, i))
    BY OnAround DEF Planned, IsTour
  <2> QED BY <2>1, PeopleTyped
<1>4. CASE stops = << >>
  <2>1. n = 0 /\ MaxOccupancy(stops) = 0
    BY <1>4 DEF MaxOccupancy
  <2>2. DOMAIN planned = {}
    BY <1>1, <2>1
  <2> QED BY <2>1, <2>2
<1>5. CASE stops # << >>
  <2>1. MaxOccupancy(stops) = Max(counts)
    BY <1>5 DEF MaxOccupancy
  <2>2. DOMAIN stops # {}
    <3>1. stops \in Seq(StopSpecs(planned))
      <4>1. stops = [i \in 1..n |-> stops[i]] /\ \A i \in 1..n : stops[i] \in StopSpecs(planned)
        BY DEF Planned, Follows
      <4> HIDE DEF n
      <4> QED BY <1>1, <4>1
    <3>2. Len(stops) # 0
      BY <1>5, <3>1
    <3> QED BY <1>1, <3>2
  <2>3. counts # {} /\ counts \in SUBSET Nat
    <3>1. \A i \in DOMAIN stops : OccupancyProfile(stops)[i] \in Nat
      BY <1>1, <1>2, <1>3
    <3> QED BY <2>2, <3>1
  <2>4. IsFiniteSet(counts)
    <3> DEFINE f == [i \in 1..n |-> OccupancyProfile(stops)[i]]
    <3>1. IsFiniteSet(1..n)
      BY <1>1, FS_Interval
    <3>2. DOMAIN f = 1..n /\ f = [i \in 1..n |-> f[i]] /\ counts = {f[i] : i \in 1..n}
      BY <1>1
    <3> HIDE DEF f, counts
    <3> QED BY <3>1, <3>2, FiniteImage
  <2>5. \E x \in counts : \A y \in counts : x >= y
    <3> HIDE DEF counts
    <3>1. \E x \in counts : \A y \in counts : y <= x
      BY <2>3, <2>4, GreatestNatural
    <3> QED BY <2>3, <3>1
  <2>6. Max(counts) \in counts /\ \A y \in counts : Max(counts) >= y
    <3> HIDE DEF counts
    <3> QED BY <2>5 DEF Max
  <2>7. /\ Max(counts) \in Nat
        /\ \A y \in counts : y <= Max(counts)
    BY <2>3, <2>6
  <2>8. \E i \in 1..n : Max(counts) = People(On(planned, stops, i))
    BY <1>1, <1>2, <2>6
  <2>9. \A i \in 1..n : People(On(planned, stops, i)) <= Max(counts)
    BY <1>1, <1>2, <2>7
  <2>10. DOMAIN planned # {}
    BY <1>1, <2>2
  <2> HIDE DEF counts
  <2> QED BY <2>1, <2>7, <2>8, <2>9, <2>10
<1> QED BY <1>4, <1>5

(* Who is on board at a stop depends on the stops before it only. *)
LEMMA OnAtStop ==
    ASSUME NEW planned, NEW stops, Planned(planned, stops), SequenceIsCoherent(stops),
           NEW i \in 1..Len(stops)
    PROVE  On(planned, stops, i) =
             {t \in DOMAIN planned :
                /\ Pickup(planned, t) = stops[i] \/ Before(Pickup(planned, t), stops[i])
                /\ ~(Dropoff(planned, t) = stops[i] \/ Before(Dropoff(planned, t), stops[i]))}
<1> DEFINE S == StopSpecs(planned)
<1>1. /\ S \in SUBSET Stops /\ Follows(stops, S)
      /\ S = {Pickup(planned, x) : x \in DOMAIN planned} \cup {Dropoff(planned, x) : x \in DOMAIN planned}
  BY SpecsTyped DEF Planned
<1>2. /\ Done(stops, i) = Done(stops, i - 1) \cup {stops[i]}
      /\ \A u \in S : u \in Done(stops, i - 1) <=> Before(u, stops[i])
  BY <1>1, DoneStops
<1>3. \A t \in DOMAIN planned : InOrder(planned, t) /\ Pickup(planned, t) \in S /\ Dropoff(planned, t) \in S
  BY <1>1, CoherentMeansInOrder
<1>4. \A u \in S : u \in Done(stops, i) <=> (u = stops[i] \/ Before(u, stops[i]))
  BY <1>2
<1> QED BY <1>3, <1>4 DEF On

-----------------------------------------------------------------------------
(* A trip leaves *)
LEMMA FewerFit ==
    ASSUME NEW planned, IsTour(planned), NEW left, IsTour(left), DOMAIN left \subseteq DOMAIN planned,
           \A t \in DOMAIN left : left[t] = planned[t],
           NEW before, before = OrderStops(StopSpecs(planned)),
           NEW after, after = OrderStops(StopSpecs(left)),
           SequenceIsCoherent(before)
    PROVE  /\ SequenceIsCoherent(after)
           /\ MaxOccupancy(before) \in Nat /\ MaxOccupancy(after) \in Nat
           /\ MaxOccupancy(after) <= MaxOccupancy(before)
<1>1. Planned(planned, before) /\ Planned(left, after)
  BY OrderedTour
<1>2. \A t \in DOMAIN left : Pickup(left, t) = Pickup(planned, t) /\ Dropoff(left, t) = Dropoff(planned, t)
  BY DEF Pickup, Dropoff
<1>3. SequenceIsCoherent(after)
  <2>1. \A t \in DOMAIN planned : InOrder(planned, t)
    BY <1>1, CoherentMeansInOrder
  <2>2. \A t \in DOMAIN left : InOrder(left, t)
    BY <1>2, <2>1 DEF InOrder
  <2> QED BY <1>1, <2>2, CoherentMeansInOrder
<1>4. MaxOccupancy(before) \in Nat /\ MaxOccupancy(after) \in Nat
  BY <1>1, <1>3, PeakCounts
<1>5. CASE DOMAIN left = {}
  BY <1>1, <1>3, <1>4, <1>5, PeakCounts
<1>6. CASE DOMAIN left # {}
  <2>1. PICK i \in 1..Len(after) : MaxOccupancy(after) = People(On(left, after, i))
    BY <1>1, <1>3, <1>6, PeakCounts
  <2>2. after[i] \in StopSpecs(left) /\ StopSpecs(left) \subseteq StopSpecs(planned)
    BY <1>1, <1>2, SpecsTyped DEF Planned, Follows
  <2>3. PICK j \in 1..Len(before) : before[j] = after[i]
    BY <1>1, <2>2 DEF Planned, Follows
  <2>4. On(left, after, i) \subseteq On(planned, before, j)
    <3>1. On(left, after, i) =
             {t \in DOMAIN left :
                /\ Pickup(left, t) = after[i] \/ Before(Pickup(left, t), after[i])
                /\ ~(Dropoff(left, t) = after[i] \/ Before(Dropoff(left, t), after[i]))}
      BY <1>1, <1>3, OnAtStop
    <3>2. On(planned, before, j) =
             {t \in DOMAIN planned :
                /\ Pickup(planned, t) = before[j] \/ Before(Pickup(planned, t), before[j])
                /\ ~(Dropoff(planned, t) = before[j] \/ Before(Dropoff(planned, t), before[j]))}
      BY <1>1, OnAtStop
    <3> QED BY <1>2, <2>3, <3>1, <3>2
  <2>5. On(planned, before, j) \in SUBSET Trips /\ IsFiniteSet(On(planned, before, j))
    BY <1>1, OnAround DEF IsTour
  <2>6. /\ People(On(left, after, i)) <= People(On(planned, before, j))
        /\ People(On(left, after, i)) \in Nat /\ People(On(planned, before, j)) \in Nat
    BY <2>4, <2>5, FewerPeople
  <2>7. People(On(planned, before, j)) <= MaxOccupancy(before)
    BY <1>1, PeakCounts
  <2> QED BY <1>3, <1>4, <2>1, <2>6, <2>7
<1> QED BY <1>3, <1>4, <1>5, <1>6

(* Taking any trip out of any feasible tour leaves it feasible, in any vehicle
   that could carry it: the rebuilding of a mission need not check. *)
THEOREM LeavingHarmless == Spec => LeavingKeepsFeasibility
<1> DEFINE Kept ==
      DOMAIN tour' \subseteq DOMAIN tour =>
        LET before == Itinerary
            after == OrderStops(StopSpecs(tour'))
        IN SequenceIsCoherent(before) =>
             /\ SequenceIsCoherent(after)
             /\ \A capacity \in 0..MaxOccupancy(before) :
                  CapacityOk(before, capacity) => CapacityOk(after, capacity)
<1>1. ASSUME Typed, Next PROVE Kept
  <2>1. PICK t \in Trips : (\E w \in Windows : Join(t, w)) \/ Leave(t)
    BY <1>1 DEF Next
  <2>2. CASE \E w \in Windows : Join(t, w)
    BY <2>2 DEF Join
  <2>3. CASE Leave(t)
    <3>1. /\ IsTour(tour) /\ IsTour(tour') /\ DOMAIN tour' \subseteq DOMAIN tour
          /\ \A u \in DOMAIN tour' : tour'[u] = tour[u]
      BY <1>1, <2>3, LeaveTyped DEF Typed
    <3> DEFINE before == Itinerary
               after == OrderStops(StopSpecs(tour'))
    <3>2. before = OrderStops(StopSpecs(tour))
      BY DEF Itinerary
    <3> HIDE DEF before, after
    <3>3. SequenceIsCoherent(before) =>
            /\ SequenceIsCoherent(after)
            /\ MaxOccupancy(before) \in Nat /\ MaxOccupancy(after) \in Nat
            /\ MaxOccupancy(after) <= MaxOccupancy(before)
      BY <3>1, <3>2, FewerFit DEF after
    <3>4. SequenceIsCoherent(before) =>
            \A capacity \in 0..MaxOccupancy(before) :
              CapacityOk(before, capacity) => CapacityOk(after, capacity)
      BY <3>3 DEF CapacityOk
    <3> QED BY <3>3, <3>4 DEF before, after
  <2> QED BY <2>1, <2>2, <2>3
<1>2. Typed /\ [Next]_vars => [Kept]_vars
  BY <1>1
<1> QED BY <1>2, AlwaysTyped, PTL DEF Spec, LeavingKeepsFeasibility

-----------------------------------------------------------------------------
(* The peak *)
Aboard(planned, x) ==
    {t \in DOMAIN planned : /\ planned[t].dep # None /\ planned[t].dep <= x
                            /\ planned[t].arr # None => x <= planned[t].arr}

LEMMA LoadCounts ==
    ASSUME NEW planned, IsTour(planned), NEW x
    PROVE  /\ LoadAt(planned, x) = People(Aboard(planned, x))
           /\ Aboard(planned, x) \in SUBSET Trips /\ IsFiniteSet(Aboard(planned, x))
<1>1. LoadAt(planned, x) = People(Aboard(planned, x))
  BY DEF LoadAt, People, Aboard
<1>2. Aboard(planned, x) \in SUBSET DOMAIN planned
  BY DEF Aboard
<1>3. IsFiniteSet(Aboard(planned, x))
  BY <1>2, FS_Subset DEF IsTour
<1> QED BY <1>1, <1>2, <1>3 DEF IsTour

LEMMA TourTimes ==
    ASSUME NEW planned, IsTour(planned), NEW t \in DOMAIN planned
    PROVE  /\ planned[t].dep \in Instants \cup {None} /\ planned[t].arr \in Instants \cup {None}
           /\ planned[t].dep # None => planned[t].dep \in Nat
           /\ planned[t].arr # None => planned[t].arr \in Nat
<1>1. planned[t].dep \in Instants \cup {None} /\ planned[t].arr \in Instants \cup {None}
  BY DEF IsTour, Windows
<1> QED BY <1>1, RulesAssumption DEF RulesAssumption

(* Whoever is on board after a stop is on board at its time, or at the last
   departure when it has none. *)
LEMMA StopsWithinLoads ==
    ASSUME NEW planned, NEW stops, Planned(planned, stops), SequenceIsCoherent(stops),
           \A t \in DOMAIN planned : planned[t].dep # None,
           NEW i \in 1..Len(stops)
    PROVE  \E x \in Instants : On(planned, stops, i) \subseteq Aboard(planned, x)
<1> DEFINE s == stops[i]
           D == {planned[t].dep : t \in DOMAIN planned}
<1>1. /\ s.trip \in DOMAIN planned
      /\ s = Pickup(planned, s.trip) \/ s = Dropoff(planned, s.trip)
  BY ItsStops
<1>2. /\ IsTour(planned)
      /\ \A t \in DOMAIN planned :
           /\ planned[t].dep \in Instants /\ planned[t].dep \in Nat /\ planned[t].dep # None
           /\ planned[t].arr # None => planned[t].arr \in Instants /\ planned[t].arr \in Nat
  BY TourTimes DEF Planned
<1>3. /\ s.at = None \/ (s.at # None /\ s.at \in Instants /\ s.at \in Nat)
  BY <1>1, <1>2 DEF Pickup, Dropoff
<1>4. \A t \in DOMAIN planned :
        /\ Pickup(planned, t).at = planned[t].dep /\ Dropoff(planned, t).at = planned[t].arr
  BY DEF Pickup, Dropoff
<1>5. On(planned, stops, i) =
             {t \in DOMAIN planned :
                /\ Pickup(planned, t) = s \/ Before(Pickup(planned, t), s)
                /\ ~(Dropoff(planned, t) = s \/ Before(Dropoff(planned, t), s))}
  BY OnAtStop
<1> HIDE DEF s
<1>6. CASE s.at # None
  <2>1. ASSUME NEW t \in On(planned, stops, i) PROVE t \in Aboard(planned, s.at)
    <3>1. /\ t \in DOMAIN planned
          /\ Pickup(planned, t) = s \/ Before(Pickup(planned, t), s)
          /\ ~Before(Dropoff(planned, t), s)
      BY <1>5
    <3>2. planned[t].dep <= s.at
      BY <1>2, <1>3, <1>4, <1>6, <3>1 DEF Before
    <3>3. planned[t].arr # None => s.at <= planned[t].arr
      BY <1>2, <1>3, <1>4, <1>6, <3>1 DEF Before
    <3> QED BY <1>2, <3>1, <3>2, <3>3 DEF Aboard
  <2> QED BY <1>3, <1>6, <2>1
<1>7. CASE s.at = None
  <2>1. D \in SUBSET Nat /\ D # {} /\ D \subseteq Instants
    BY <1>1, <1>2
  <2>2. IsFiniteSet(D)
    <3> DEFINE f == [t \in DOMAIN planned |-> planned[t].dep]
    <3>1. IsFiniteSet(DOMAIN planned) /\ DOMAIN f = DOMAIN planned /\ f = [t \in DOMAIN planned |-> f[t]]
      BY <1>2 DEF IsTour
    <3>2. D = {f[t] : t \in DOMAIN planned}
      OBVIOUS
    <3> HIDE DEF f, D
    <3> QED BY <3>1, <3>2, FiniteImage
  <2>3. PICK x \in D : \A y \in D : y <= x
    <3> HIDE DEF D
    <3> QED BY <2>1, <2>2, GreatestNatural
  <2>4. ASSUME NEW t \in On(planned, stops, i) PROVE t \in Aboard(planned, x)
    <3>1. t \in DOMAIN planned /\ ~Before(Dropoff(planned, t), s)
      BY <1>5
    <3>2. planned[t].dep <= x
      BY <2>3, <3>1
    <3>3. planned[t].arr = None
      BY <1>4, <1>7, <3>1 DEF Before
    <3> QED BY <1>2, <3>1, <3>2, <3>3 DEF Aboard
  <2> QED BY <2>1, <2>4
<1> QED BY <1>6, <1>7

(* Whoever is on board at an instant is on board after the last pickup that
   precedes it. *)
LEMMA LoadsWithinStops ==
    ASSUME NEW planned, NEW stops, Planned(planned, stops), SequenceIsCoherent(stops),
           NEW x \in Instants, Aboard(planned, x) # {}
    PROVE  \E i \in 1..Len(stops) : Aboard(planned, x) \subseteq On(planned, stops, i)
<1> DEFINE n == Len(stops)
           B == {i \in 1..n : stops[i].kind = "pickup" /\ stops[i].at # None /\ stops[i].at <= x}
<1>1. /\ IsTour(planned) /\ n \in Nat /\ x \in Nat
  BY ItsStops, RulesAssumption DEF Planned, RulesAssumption
<1>2. \A t \in Aboard(planned, x) :
        /\ t \in DOMAIN planned /\ planned[t].dep # None /\ planned[t].dep \in Nat /\ planned[t].dep <= x
        /\ planned[t].arr # None => planned[t].arr \in Nat /\ x <= planned[t].arr
  BY <1>1, TourTimes DEF Aboard
<1>3. \A t : /\ Pickup(planned, t).kind = "pickup" /\ Pickup(planned, t).at = planned[t].dep
             /\ Dropoff(planned, t).kind = "dropoff" /\ Dropoff(planned, t).at = planned[t].arr
  BY DEF Pickup, Dropoff
<1>4. \A t \in DOMAIN planned : \E i \in 1..n : stops[i] = Pickup(planned, t)
  <2>1. \A t \in DOMAIN planned : Pickup(planned, t) \in StopSpecs(planned)
    BY <1>1, SpecsTyped
  <2> QED BY <2>1 DEF Planned, Follows
<1>5. \A i, j \in 1..n : i < j <=> Before(stops[i], stops[j])
  BY DEF Planned, Follows
<1>6. ASSUME NEW t \in Aboard(planned, x), NEW k \in 1..n, stops[k] = Pickup(planned, t) PROVE k \in B
  BY <1>2, <1>3, <1>6
<1>7. B \in SUBSET Nat /\ B # {} /\ \A i \in B : i <= n
  BY <1>1, <1>2, <1>4, <1>6
<1>8. PICK i \in B : \A j \in B : j <= i
  <2> HIDE DEF B, n
  <2> QED BY <1>1, <1>7, GreatestBelow
<1>9. i \in 1..n /\ stops[i].kind = "pickup" /\ stops[i].at # None /\ stops[i].at <= x /\ stops[i].at \in Nat
  <2>1. stops[i] \in StopSpecs(planned) /\ StopSpecs(planned) \subseteq Stops
    BY <1>1, SpecsTyped DEF Planned, Follows
  <2>2. stops[i].at \in Instants \cup {None}
    BY <2>1 DEF Stops
  <2> QED BY <2>2, RulesAssumption DEF RulesAssumption
<1>10. ASSUME NEW t \in Aboard(planned, x) PROVE t \in On(planned, stops, i)
  <2>1. PICK k \in 1..n : stops[k] = Pickup(planned, t)
    BY <1>2, <1>4
  <2>2. k \in B
    BY <1>6, <2>1
  <2>3. k <= i
    BY <1>8, <2>2
  <2>4. Pickup(planned, t) = stops[i] \/ Before(Pickup(planned, t), stops[i])
    <3>1. k = i \/ k < i
      BY <1>1, <1>9, <2>3
    <3> QED BY <1>5, <1>9, <2>1, <3>1
  <2>5. Dropoff(planned, t) # stops[i]
    BY <1>3, <1>9
  <2>6. ~Before(Dropoff(planned, t), stops[i])
    <3> DEFINE d == Dropoff(planned, t)
               s == stops[i]
    <3>1. /\ s.kind = "pickup" /\ s.at # None /\ s.at <= x /\ s.at \in Nat
          /\ d.kind = "dropoff"
          /\ d.at # None => d.at \in Nat /\ x <= d.at
      BY <1>2, <1>3, <1>9
    <3> HIDE DEF d, s
    <3>2. ~Before(d, s)
      BY <1>1, <3>1 DEF Before
    <3> QED BY <3>2 DEF d, s
  <2>7. t \in DOMAIN planned
    BY <1>2
  <2> QED BY <1>9, <2>4, <2>5, <2>6, <2>7, OnAtStop
<1> QED BY <1>9, <1>10

(* The greatest occupancy the loop finds over the ordered stops is the greatest
   load at any instant, for any number of trips: those that follow one another
   do not add up, those that touch do. *)
THEOREM PeakSound == Spec => []PeakIsGreatestLoad
<1>1. Typed => PeakIsGreatestLoad
  <2> SUFFICES ASSUME Typed, \A t \in DOMAIN tour : tour[t].dep # None, SequenceIsCoherent(Itinerary)
               PROVE  MaxOccupancy(Itinerary) = Max({0} \cup {LoadAt(tour, x) : x \in Instants})
    BY DEF PeakIsGreatestLoad
  <2> DEFINE stops == Itinerary
             peak == MaxOccupancy(stops)
             loads == {LoadAt(tour, x) : x \in Instants}
             on(i) == On(tour, stops, i)
  <2>1. IsTour(tour) /\ Planned(tour, stops) /\ SequenceIsCoherent(stops)
    BY OrderedTour DEF Typed, Itinerary
  <2> HIDE DEF stops
  <2>2. \A x \in Instants :
          /\ LoadAt(tour, x) = People(Aboard(tour, x)) /\ People(Aboard(tour, x)) \in Nat
          /\ Aboard(tour, x) \in SUBSET Trips /\ IsFiniteSet(Aboard(tour, x))
    BY <2>1, LoadCounts, PeopleTyped
  <2>3. \A i \in 1..Len(stops) :
          on(i) \in SUBSET Trips /\ IsFiniteSet(on(i)) /\ People(on(i)) \in Nat
    BY <2>1, OnAround, PeopleTyped DEF IsTour
  <2>4. /\ peak \in Nat
        /\ \A i \in 1..Len(stops) : People(on(i)) <= peak
        /\ DOMAIN tour = {} => peak = 0
        /\ DOMAIN tour # {} => \E i \in 1..Len(stops) : peak = People(on(i))
    BY <2>1, PeakCounts
  <2> HIDE DEF peak, on
  <2>5. \A y \in {0} \cup loads : y \in Nat /\ y <= peak
    <3>1. ASSUME NEW x \in Instants PROVE LoadAt(tour, x) \in Nat /\ LoadAt(tour, x) <= peak
      <4>1. CASE Aboard(tour, x) = {}
        <5>1. LoadAt(tour, x) = 0
          BY <2>2, <4>1, FS_EmptySet, PeopleByOne
        <5> QED BY <2>4, <5>1
      <4>2. CASE Aboard(tour, x) # {}
        <5>1. PICK i \in 1..Len(stops) : Aboard(tour, x) \subseteq on(i)
          BY <2>1, <4>2, LoadsWithinStops DEF on
        <5>2. People(Aboard(tour, x)) <= People(on(i))
          BY <2>3, <5>1, FewerPeople
        <5> QED BY <2>2, <2>3, <2>4, <5>2
      <4> QED BY <4>1, <4>2
    <3> QED BY <2>4, <3>1
  <2>6. peak \in {0} \cup loads
    <3>1. CASE DOMAIN tour = {}
      BY <2>4, <3>1
    <3>2. CASE DOMAIN tour # {}
      <4>1. PICK i \in 1..Len(stops) : peak = People(on(i))
        BY <2>4, <3>2
      <4>2. PICK x \in Instants : on(i) \subseteq Aboard(tour, x)
        BY <2>1, StopsWithinLoads DEF on
      <4>3. People(on(i)) <= People(Aboard(tour, x))
        BY <2>2, <4>2, FewerPeople
      <4>4. LoadAt(tour, x) \in Nat /\ LoadAt(tour, x) <= peak
        BY <2>5
      <4>5. LoadAt(tour, x) = peak
        BY <2>2, <2>3, <2>4, <4>1, <4>3, <4>4
      <4> QED BY <4>5
    <3> QED BY <3>1, <3>2
  <2> DEFINE all == {0} \cup loads
  <2> HIDE DEF all
  <2>7. \E y \in all : \A z \in all : y >= z
    BY <2>4, <2>5, <2>6 DEF all
  <2>8. Max(all) \in all /\ \A z \in all : Max(all) >= z
    BY <2>7 DEF Max
  <2>9. peak \in all /\ Max(all) \in Nat /\ Max(all) <= peak
    BY <2>5, <2>6, <2>8 DEF all
  <2>10. Max(all) >= peak
    BY <2>8, <2>9
  <2>11. Max(all) = peak
    BY <2>4, <2>9, <2>10
  <2> QED BY <2>11 DEF all, peak, stops
<1> QED BY <1>1, AlwaysTyped, PTL
=============================================================================
