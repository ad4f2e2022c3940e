----------------------- MODULE ConcurrencyGroupsProofs -----------------------
(***************************************************************************)
(* What TLAPS proves about the concurrency groups, for every set of works, *)
(* keys and declarations: sets of groups are held whole, what is held and  *)
(* what runs fits every budget, and a waiter keeps its place.              *)
(***************************************************************************)
EXTENDS ConcurrencyGroups, DataLemmas

-----------------------------------------------------------------------------
(* The inductive invariant.                                                *)

(* The rows of w on all of its keys are in one state, which `granted' and  *)
(* the arrival agree with.                                                 *)
RowStates == {"none", "live", "superseded", "waiting"}
RowsAre(a, w, s) ==
  \A k \in Own(w) :
    /\ w \in a.waiters[k] <=> s = "waiting"
    /\ a.holders[k][w] = IF s = "waiting" THEN "none" ELSE s
Whole(a, w) ==
  \E s \in RowStates :
    /\ RowsAre(a, w, s)
    /\ w \in a.granted => s = "live"
    /\ s # "none" => Has(a.arrivals, w)

(* Nobody has a row in a group it did not declare.                         *)
Foreign(a, w) == \A k \in Keys \ Own(w) : a.holders[k][w] = "none" /\ w \notin a.waiters[k]

Ordered(a) == IsOrder(a.arrivals) /\ IsOrder(a.claims)

(* A set of works fits the budget each of them declared.                   *)
Within(ws, k) == \A h \in ws : CostOf(ws, k) <= Declared[h][k].capacity

WholeInv == \A w \in Works : Whole(adm, w) /\ Foreign(adm, w)
BudgetInv == \A k \in Keys : Within(LiveHolders(adm, k), k)

(* The job agrees with its rows: the superseded are asked to stop, who is  *)
(* done holds nothing, and a permit's rows outlast the award unless the    *)
(* job is to stop.                                                         *)
Agrees(w) ==
  /\ \A k \in Keys : /\ adm.holders[k][w] = "superseded" => job[w].cancel
                     /\ job[w].status = "done" => adm.holders[k][w] = "none"
  /\ job[w].status = "running" => job[w].permit
  /\ job[w].permit /\ ~job[w].cancel => ttl[w] >= job[w].lease
  /\ job[w].status = "running" /\ ~job[w].cancel /\ job[w].lease > 0 => w \in adm.granted
JobInv == \A w \in Works : Agrees(w)

IInv == TypeOK /\ WholeInv /\ BudgetInv /\ JobInv

-----------------------------------------------------------------------------
(* Budgets.                                                                *)

(* The works that declared the group k.                                    *)
Takers(k) == {w \in Works : k \in Own(w)}

LEMMA Declarations ==
  ASSUME NEW w \in Works, NEW k \in Own(w)
  PROVE  /\ k \in Keys
         /\ Declared[w][k].cost \in Nat /\ Declared[w][k].cost > 0
         /\ Declared[w][k].capacity \in Nat
         /\ Declared[w][k].timed \in BOOLEAN
         /\ Declared[w][k].policy \in {"queue", "skip", "fail", "cancel_others"}
BY GroupAssumption DEF Own

LEMMA CostIsUnits ==
  ASSUME NEW k, NEW ws \in SUBSET Takers(k)
  PROVE  /\ IsFiniteSet(ws)
         /\ \A w \in ws : Declared[w][k].cost \in Nat
         /\ \A us \in SUBSET ws :
              CostOf(us, k) = Cardinality(Units(us, [w \in ws |-> Declared[w][k].cost]))
<1>1. \A w \in ws : w \in Works /\ k \in Own(w)
  BY DEF Takers
<1>2. \A w \in ws : Declared[w][k].cost \in Nat
  BY <1>1, Declarations
<1>3. IsFiniteSet(ws)
  <2>1. ws \in SUBSET Works
    BY <1>1
  <2> QED BY <2>1, FS_Subset, GroupAssumption
<1>4. ASSUME NEW us \in SUBSET ws
      PROVE  CostOf(us, k) = Cardinality(Units(us, [w \in ws |-> Declared[w][k].cost]))
  <2> DEFINE c == [w \in us |-> Declared[w][k].cost]
             d == [w \in ws |-> Declared[w][k].cost]
  <2>1. IsFiniteSet(us) /\ \A x \in us : c[x] \in Nat
    BY <1>2, <1>3, FS_Subset
  <2>2. SumFunctionOnSet(c, us) = Cardinality(Units(us, c))
    <3> HIDE DEF c
    <3> QED BY <2>1, SumIsUnits
  <2>3. Units(us, c) = Units(us, d)
    BY DEF Units
  <2> QED BY <2>2, <2>3 DEF CostOf
<1> QED BY <1>2, <1>3, <1>4

(* Costs add up.                                                           *)
LEMMA CostAdds ==
  ASSUME NEW k, NEW ws \in SUBSET Takers(k), NEW us \in SUBSET ws
  PROVE  /\ CostOf(ws, k) = CostOf(us, k) + CostOf(ws \ us, k)
         /\ CostOf(us, k) \in Nat
         /\ CostOf(ws \ us, k) \in Nat
<1> DEFINE c == [w \in ws |-> Declared[w][k].cost]
<1>1. IsFiniteSet(ws) /\ \A w \in ws : c[w] \in Nat
  BY CostIsUnits
<1>2. /\ CostOf(ws, k) = Cardinality(Units(ws, c))
      /\ CostOf(us, k) = Cardinality(Units(us, c))
      /\ CostOf(ws \ us, k) = Cardinality(Units(ws \ us, c))
  BY CostIsUnits
<1>3. /\ Cardinality(Units(ws, c)) = Cardinality(Units(us, c)) + Cardinality(Units(ws \ us, c))
      /\ Cardinality(Units(us, c)) \in Nat
      /\ Cardinality(Units(ws \ us, c)) \in Nat
  <2> HIDE DEF c
  <2> QED BY <1>1, UnitsAdd
<1> QED BY <1>2, <1>3

LEMMA CostNat ==
  ASSUME NEW k, NEW ws \in SUBSET Takers(k)
  PROVE  CostOf(ws, k) \in Nat
BY CostAdds

LEMMA CostOfOne ==
  ASSUME NEW w \in Works, NEW k \in Own(w)
  PROVE  CostOf({w}, k) = Declared[w][k].cost
<1> DEFINE c == [v \in {w} |-> Declared[v][k].cost]
<1>1. {w} \in SUBSET Takers(k)
  BY DEF Takers
<1>2. CostOf({w}, k) = Cardinality(Units({w}, c))
  BY <1>1, CostIsUnits
<1>3. c[w] = Declared[w][k].cost /\ c[w] \in Nat
  BY Declarations
<1>4. Cardinality(Units({w}, c)) = c[w]
  <2> HIDE DEF c
  <2> QED BY <1>3, UnitsOfOne
<1> QED BY <1>2, <1>3, <1>4

LEMMA CostWithOneMore ==
  ASSUME NEW k, NEW ws \in SUBSET Takers(k), NEW w \in Takers(k) \ ws
  PROVE  CostOf(ws \cup {w}, k) = CostOf(ws, k) + Declared[w][k].cost
<1> DEFINE all == ws \cup {w}
<1>1. all \in SUBSET Takers(k) /\ ws \in SUBSET all /\ all \ ws = {w}
  OBVIOUS
<1>2. /\ CostOf(all, k) = CostOf(ws, k) + CostOf(all \ ws, k)
      /\ CostOf(ws, k) \in Nat
      /\ CostOf(all \ ws, k) \in Nat
  <2> HIDE DEF all
  <2> QED BY <1>1, CostAdds
<1>3. CostOf({w}, k) = Declared[w][k].cost
  BY CostOfOne DEF Takers
<1> QED BY <1>1, <1>2, <1>3

(* A part of what fits, fits.                                              *)
LEMMA WithinShrinks ==
  ASSUME NEW k, NEW ws \in SUBSET Takers(k), NEW us \in SUBSET ws, Within(ws, k)
  PROVE  Within(us, k)
<1>1. CostOf(ws, k) = CostOf(us, k) + CostOf(ws \ us, k)
      /\ CostOf(us, k) \in Nat /\ CostOf(ws \ us, k) \in Nat
  BY CostAdds
<1>2. \A h \in us : CostOf(ws, k) <= Declared[h][k].capacity /\ Declared[h][k].capacity \in Nat
  BY Declarations DEF Within, Takers
<1> QED BY <1>1, <1>2 DEF Within

(* What fits the least capacity declared can be added.                     *)
LEMMA WithinGrows ==
  ASSUME NEW k, NEW ws \in SUBSET Takers(k), NEW w \in Takers(k) \ ws, NEW capacity \in Nat,
         Fits(CostOf(ws, k), Declared[w][k].cost, capacity),
         \A h \in ws \cup {w} : capacity <= Declared[h][k].capacity
  PROVE  Within(ws \cup {w}, k)
<1>1. CostOf(ws \cup {w}, k) = CostOf(ws, k) + Declared[w][k].cost
  BY CostWithOneMore
<1>2. CostOf(ws, k) \in Nat
  BY CostNat
<1>3. \A h \in ws \cup {w} : Declared[h][k].capacity \in Nat
  BY Declarations DEF Takers
<1>4. Declared[w][k].cost \in Nat
  BY Declarations DEF Takers
<1>5. CostOf(ws \cup {w}, k) <= capacity
  BY <1>1, <1>2, <1>4 DEF Fits
<1>6. CostOf(ws \cup {w}, k) \in Nat
  BY <1>1, <1>2, <1>4
<1> SUFFICES ASSUME NEW h \in ws \cup {w}
             PROVE  CostOf(ws \cup {w}, k) <= Declared[h][k].capacity
  BY DEF Within
<1> QED BY <1>3, <1>5, <1>6

(* effectiveCapacity is a lower bound of what was declared.                *)
LEMMA EffectiveIsLeast ==
  ASSUME NEW a, NEW k, LiveHolders(a, k) \subseteq Takers(k), NEW capacity \in Nat
  PROVE  /\ EffectiveCapacity(a, k, capacity) \in Nat
         /\ EffectiveCapacity(a, k, capacity) <= capacity
         /\ \A h \in LiveHolders(a, k) : EffectiveCapacity(a, k, capacity) <= Declared[h][k].capacity
<1> DEFINE T == {capacity} \cup {Declared[h][k].capacity : h \in LiveHolders(a, k)}
<1>1. \A h \in LiveHolders(a, k) : Declared[h][k].capacity \in Nat
  BY Declarations DEF Takers
<1>2. T \in SUBSET Nat /\ T # {}
  BY <1>1
<1>3. PICK x \in T : \A y \in T : x <= y
  <2> HIDE DEF T
  <2> QED BY <1>2, LeastNatural
<1>4. Min(T) \in T /\ \A y \in T : Min(T) <= y
  <2> HIDE DEF T
  <2> QED BY <1>3 DEF Min
<1>5. EffectiveCapacity(a, k, capacity) = Min(T)
  BY DEF EffectiveCapacity
<1>6. capacity \in T /\ \A h \in LiveHolders(a, k) : Declared[h][k].capacity \in T
  OBVIOUS
<1> HIDE DEF T
<1> QED BY <1>2, <1>4, <1>5, <1>6

(* cancel_others takes live holders: enough of them, or all.               *)
LEMMA VictimsFacts ==
  ASSUME NEW a, NEW w, NEW k, LiveHolders(a, k) \subseteq Takers(k)
  PROVE  /\ Victims(a, w, k) \subseteq LiveHolders(a, k)
         /\ \/ Victims(a, w, k) = LiveHolders(a, k)
            \/ Fits(Used(a, k) - CostOf(Victims(a, w, k), k), Declared[w][k].cost,
                    EffectiveCapacity(a, k, Declared[w][k].capacity))
<1> DEFINE live == LiveHolders(a, k)
           effCap == EffectiveCapacity(a, k, Declared[w][k].capacity)
           oldest == {{v \in live : <<v, h>> \in a.claims} : h \in live}
           enough == {vs \in oldest :
                        Fits(Used(a, k) - CostOf(vs, k), Declared[w][k].cost, effCap)}
           C == enough \cup {live}
           V == CHOOSE vs \in C : \A us \in C : Cardinality(vs) <= Cardinality(us)
<1>1. Victims(a, w, k) = V
  BY DEF Victims
<1>2. \A vs \in C : vs \subseteq live
  OBVIOUS
<1>3. IsFiniteSet(live)
  BY CostIsUnits
<1>4. \A vs \in C : IsFiniteSet(vs)
  BY <1>2, <1>3, FS_Subset
<1>5. C # {}
  OBVIOUS
<1>6. \E vs \in C : \A us \in C : Cardinality(vs) <= Cardinality(us)
  <2> HIDE DEF C
  <2> QED BY <1>4, <1>5, Smallest
<1>7. V \in C
  <2> HIDE DEF C
  <2> QED BY <1>6
<1> HIDE DEF V
<1> QED BY <1>1, <1>2, <1>7

(* Once they are gone, w fits among those who remain.                      *)
LEMMA VictimsMakeRoom ==
  ASSUME NEW a, NEW k, NEW w \in Takers(k), LiveHolders(a, k) \subseteq Takers(k) \ {w},
         Declared[w][k].cost <= Declared[w][k].capacity
  PROVE  Within((LiveHolders(a, k) \ Victims(a, w, k)) \cup {w}, k)
<1> DEFINE live == LiveHolders(a, k)
           vs == Victims(a, w, k)
           capacity == EffectiveCapacity(a, k, Declared[w][k].capacity)
<1>1. w \in Works /\ k \in Own(w) /\ Declared[w][k].cost \in Nat /\ Declared[w][k].capacity \in Nat
  BY Declarations DEF Takers
<1>2. live \in SUBSET Takers(k) /\ vs \in SUBSET live
  BY VictimsFacts
<1>3. CASE vs = live
  <2>1. (live \ vs) \cup {w} = {w}
    BY <1>3
  <2> QED BY <2>1, <1>1, CostOfOne DEF Within
<1>4. CASE Fits(Used(a, k) - CostOf(vs, k), Declared[w][k].cost, capacity)
  <2>1. /\ CostOf(live, k) = CostOf(vs, k) + CostOf(live \ vs, k)
        /\ CostOf(vs, k) \in Nat
        /\ CostOf(live \ vs, k) \in Nat
    <3> HIDE DEF live, vs
    <3> QED BY <1>2, CostAdds
  <2>2. Used(a, k) - CostOf(vs, k) = CostOf(live \ vs, k)
    BY <2>1 DEF Used
  <2>3. /\ capacity \in Nat
        /\ capacity <= Declared[w][k].capacity
        /\ \A h \in live : capacity <= Declared[h][k].capacity
    BY <1>1, <1>2, EffectiveIsLeast
  <2>4. Fits(CostOf(live \ vs, k), Declared[w][k].cost, capacity)
    BY <1>4, <2>2
  <2>5. live \ vs \in SUBSET Takers(k) /\ w \in Takers(k) \ (live \ vs)
    OBVIOUS
  <2>6. \A h \in (live \ vs) \cup {w} : capacity <= Declared[h][k].capacity
    BY <2>3
  <2> DEFINE rest == live \ vs
  <2>7. Within(rest \cup {w}, k)
    <3> HIDE DEF rest, capacity
    <3>1. rest \in SUBSET Takers(k) /\ w \in Takers(k) \ rest
      BY <2>5 DEF rest
    <3>2. \A h \in rest \cup {w} : capacity <= Declared[h][k].capacity
      BY <2>6 DEF rest
    <3>3. Fits(CostOf(rest, k), Declared[w][k].cost, capacity)
      BY <2>4 DEF rest
    <3> QED BY <3>1, <3>2, <3>3, <2>3, WithinGrows
  <2> QED BY <2>7
<1> QED BY <1>2, <1>3, <1>4, VictimsFacts

-----------------------------------------------------------------------------
(* Orders.                                                                 *)

LEMMA WithoutOrder ==
  ASSUME NEW o, IsOrder(o), NEW ws
  PROVE  /\ IsOrder(Without(o, ws))
         /\ Without(o, ws) \subseteq o
         /\ \A w \in Works : Has(Without(o, ws), w) <=> Has(o, w) /\ w \notin ws
BY DEF IsOrder, Without, Has

LEMMA AtEndOrder ==
  ASSUME NEW o, IsOrder(o), NEW w \in Works, ~Has(o, w)
  PROVE  /\ IsOrder(AtEnd(o, w))
         /\ \A v \in Works : Has(AtEnd(o, w), v) <=> Has(o, v) \/ v = w
         /\ \A u \in Works, v \in Works \ {w} : <<u, v>> \in AtEnd(o, w) => <<u, v>> \in o
<1> DEFINE b == AtEnd(o, w)
<1>1. \A u, v \in Works : <<u, v>> \in b <=> <<u, v>> \in o \/ (v = w /\ (Has(o, u) \/ u = w))
  BY DEF AtEnd
<1>2. b \subseteq Works \X Works
  BY DEF AtEnd, IsOrder
<1>3. \A v \in Works : Has(b, v) <=> Has(o, v) \/ v = w
  BY <1>1 DEF Has
<1>4. \A u, v \in Works : <<u, v>> \in o => u # w /\ v # w
  BY DEF IsOrder
<1> HIDE DEF b
<1>5. \A u, v \in Works :
        /\ <<u, v>> \in b => Has(b, u) /\ Has(b, v)
        /\ <<u, v>> \in b /\ <<v, u>> \in b => u = v
        /\ Has(b, u) /\ Has(b, v) => <<u, v>> \in b \/ <<v, u>> \in b
  BY <1>1, <1>3, <1>4 DEF IsOrder
<1>6. \A x, u, v \in Works : <<x, u>> \in b /\ <<u, v>> \in b => <<x, v>> \in b
  BY <1>1, <1>3, <1>4 DEF IsOrder
<1>7. IsOrder(b)
  BY <1>2, <1>5, <1>6 DEF IsOrder
<1> QED BY <1>1, <1>3, <1>7 DEF b

-----------------------------------------------------------------------------
(* The tables.                                                             *)

Holding == {"none", "live", "superseded"}

(* A table by its parts.                                                   *)
LEMMA TableParts ==
  ASSUME NEW a \in Tables
  PROVE  /\ a.holders \in [Keys -> [Works -> Holding]]
         /\ a.waiters \in [Keys -> SUBSET Works]
         /\ a.granted \in SUBSET Works
         /\ a.arrivals \in SUBSET (Works \X Works)
         /\ a.claims \in SUBSET (Works \X Works)
         /\ \A k \in Keys, v \in Works : a.holders[k][v] \in Holding
         /\ \A k \in Keys : a.waiters[k] \in SUBSET Works
BY DEF Tables, Holding

LEMMA ClearMakes ==
  ASSUME NEW a \in Tables, Ordered(a), NEW ws
  PROVE  /\ Clear(a, ws) \in Tables /\ Ordered(Clear(a, ws))
         /\ \A k \in Keys, v \in Works :
              /\ Clear(a, ws).holders[k][v] = IF v \in ws THEN "none" ELSE a.holders[k][v]
              /\ v \in Clear(a, ws).waiters[k] <=> v \in a.waiters[k] /\ v \notin ws
         /\ Clear(a, ws).granted = a.granted
         /\ Clear(a, ws).arrivals = a.arrivals
<1> DEFINE h == [k \in Keys |-> [w \in Works |-> IF w \in ws THEN "none" ELSE a.holders[k][w]]]
           q == [k \in Keys |-> a.waiters[k] \ ws]
           c == Without(a.claims, ws)
           b == [a EXCEPT !.holders = h, !.waiters = q, !.claims = c]
<1>1. Clear(a, ws) = b
  BY DEF Clear
<1>2. h \in [Keys -> [Works -> Holding]] /\ q \in [Keys -> SUBSET Works]
  BY TableParts DEF Holding
<1>3. IsOrder(c)
  BY WithoutOrder DEF Ordered
<1>4. c \in SUBSET (Works \X Works)
  BY <1>3 DEF IsOrder
<1>5. \A k \in Keys, v \in Works :
        /\ h[k][v] = IF v \in ws THEN "none" ELSE a.holders[k][v]
        /\ v \in q[k] <=> v \in a.waiters[k] /\ v \notin ws
  OBVIOUS
<1> HIDE DEF h, q, c
<1>6. b \in Tables
  BY <1>2, <1>4 DEF Tables, Holding
<1>7. /\ b.holders = h /\ b.waiters = q /\ b.claims = c
      /\ b.granted = a.granted /\ b.arrivals = a.arrivals
  BY DEF Tables
<1>8. Ordered(b)
  BY <1>3, <1>7 DEF Ordered
<1> HIDE DEF b
<1> QED BY <1>1, <1>5, <1>6, <1>7, <1>8

LEMMA DiscardMakes ==
  ASSUME NEW a \in Tables, Ordered(a), NEW ws
  PROVE  /\ Discard(a, ws) \in Tables /\ Ordered(Discard(a, ws))
         /\ \A k \in Keys, v \in Works :
              /\ Discard(a, ws).holders[k][v] = IF v \in ws THEN "none" ELSE a.holders[k][v]
              /\ v \in Discard(a, ws).waiters[k] <=> v \in a.waiters[k] /\ v \notin ws
         /\ Discard(a, ws).granted = a.granted \ ws
         /\ Discard(a, ws).arrivals \subseteq a.arrivals
         /\ \A v \in Works : Has(Discard(a, ws).arrivals, v) <=> Has(a.arrivals, v) /\ v \notin ws
<1> DEFINE c == Clear(a, ws)
           o == Without(a.arrivals, ws)
           g == a.granted \ ws
           b == [c EXCEPT !.arrivals = o, !.granted = g]
<1>1. /\ c \in Tables /\ Ordered(c)
      /\ c.granted = a.granted /\ c.arrivals = a.arrivals
      /\ \A k \in Keys, v \in Works :
           /\ c.holders[k][v] = IF v \in ws THEN "none" ELSE a.holders[k][v]
           /\ v \in c.waiters[k] <=> v \in a.waiters[k] /\ v \notin ws
  BY ClearMakes
<1>2. Discard(a, ws) = b
  BY <1>1 DEF Discard
<1>3. /\ IsOrder(o) /\ o \subseteq a.arrivals
      /\ \A v \in Works : Has(o, v) <=> Has(a.arrivals, v) /\ v \notin ws
  BY WithoutOrder DEF Ordered
<1>4. g \in SUBSET Works
  BY TableParts
<1> HIDE DEF c, o
<1>5. b \in Tables
  BY <1>1, <1>3, <1>4 DEF Tables, IsOrder
<1>6. /\ b.holders = c.holders /\ b.waiters = c.waiters /\ b.claims = c.claims
      /\ b.granted = g /\ b.arrivals = o
  BY <1>1 DEF Tables
<1>7. Ordered(b)
  BY <1>1, <1>3, <1>6 DEF Ordered
<1> HIDE DEF b
<1> QED BY <1>1, <1>2, <1>3, <1>5, <1>6, <1>7

LEMMA InsertMakes ==
  ASSUME NEW a \in Tables, Ordered(a), NEW w \in Works, NEW k \in Keys
  PROVE  /\ Insert(a, w, k) \in Tables /\ Ordered(Insert(a, w, k))
         /\ \A j \in Keys, v \in Works :
              /\ Insert(a, w, k).holders[j][v] =
                   IF j = k /\ v = w THEN "live" ELSE a.holders[j][v]
              /\ v \in Insert(a, w, k).waiters[j] <=> v \in a.waiters[j] /\ ~(j = k /\ v = w)
         /\ Insert(a, w, k).granted = a.granted
         /\ Insert(a, w, k).arrivals = a.arrivals
<1> DEFINE h == [a.holders EXCEPT ![k][w] = "live"]
           q == [a.waiters EXCEPT ![k] = @ \ {w}]
           c == IF Has(a.claims, w) THEN a.claims ELSE AtEnd(a.claims, w)
           b == [a EXCEPT !.holders = h, !.waiters = q, !.claims = c]
<1>1. Insert(a, w, k) = b
  BY DEF Insert, Tables
<1>2. h \in [Keys -> [Works -> Holding]] /\ q \in [Keys -> SUBSET Works]
  BY TableParts DEF Holding
<1>3. IsOrder(c)
  BY AtEndOrder DEF Ordered
<1>4. c \in SUBSET (Works \X Works)
  BY <1>3 DEF IsOrder
<1>5. \A j \in Keys, v \in Works :
        /\ h[j][v] = IF j = k /\ v = w THEN "live" ELSE a.holders[j][v]
        /\ v \in q[j] <=> v \in a.waiters[j] /\ ~(j = k /\ v = w)
  BY TableParts
<1> HIDE DEF h, q, c
<1>6. b \in Tables
  BY <1>2, <1>4 DEF Tables, Holding
<1>7. /\ b.holders = h /\ b.waiters = q /\ b.claims = c
      /\ b.granted = a.granted /\ b.arrivals = a.arrivals
  BY DEF Tables
<1>8. Ordered(b)
  BY <1>3, <1>7 DEF Ordered
<1> HIDE DEF b
<1> QED BY <1>1, <1>5, <1>6, <1>7, <1>8

LEMMA SupersedeMakes ==
  ASSUME NEW a \in Tables, Ordered(a), NEW vs
  PROVE  /\ Supersede(a, vs) \in Tables /\ Ordered(Supersede(a, vs))
         /\ \A j \in Keys, v \in Works :
              Supersede(a, vs).holders[j][v] =
                IF v \in vs /\ a.holders[j][v] = "live" THEN "superseded" ELSE a.holders[j][v]
         /\ Supersede(a, vs).waiters = a.waiters
         /\ Supersede(a, vs).granted = a.granted \ vs
         /\ Supersede(a, vs).arrivals = a.arrivals
<1> DEFINE h == [k \in Keys |-> [w \in Works |->
                   IF w \in vs /\ a.holders[k][w] = "live" THEN "superseded" ELSE a.holders[k][w]]]
           g == a.granted \ vs
           b == [a EXCEPT !.holders = h, !.granted = g]
<1>1. Supersede(a, vs) = b
  BY DEF Supersede
<1>2. h \in [Keys -> [Works -> Holding]] /\ g \in SUBSET Works
  BY TableParts DEF Holding
<1>3. \A j \in Keys, v \in Works :
        h[j][v] = IF v \in vs /\ a.holders[j][v] = "live" THEN "superseded" ELSE a.holders[j][v]
  OBVIOUS
<1> HIDE DEF h
<1>4. b \in Tables
  BY <1>2 DEF Tables, Holding
<1>5. /\ b.holders = h /\ b.granted = g /\ b.waiters = a.waiters
      /\ b.arrivals = a.arrivals /\ b.claims = a.claims
  BY DEF Tables
<1>6. Ordered(b)
  BY <1>5 DEF Ordered
<1> HIDE DEF b
<1> QED BY <1>1, <1>3, <1>4, <1>5, <1>6

(* Rows left alone, taken away and superseded stay whole.                  *)
LEMMA RowsKept ==
  ASSUME NEW a, NEW b, NEW v \in Works,
         \A k \in Keys : /\ b.holders[k][v] = a.holders[k][v]
                         /\ v \in b.waiters[k] <=> v \in a.waiters[k],
         v \in b.granted => v \in a.granted,
         Has(a.arrivals, v) => Has(b.arrivals, v),
         Whole(a, v), Foreign(a, v)
  PROVE  Whole(b, v) /\ Foreign(b, v)
<1>1. Own(v) \subseteq Keys
  BY GroupAssumption DEF Own
<1>2. Foreign(b, v)
  BY DEF Foreign
<1>3. PICK s \in RowStates : /\ RowsAre(a, v, s)
                             /\ v \in a.granted => s = "live"
                             /\ s # "none" => Has(a.arrivals, v)
  BY DEF Whole
<1>4. RowsAre(b, v, s)
  BY <1>1, <1>3 DEF RowsAre
<1> QED BY <1>2, <1>3, <1>4 DEF Whole

LEMMA RowsGone ==
  ASSUME NEW b, NEW v \in Works,
         \A k \in Keys : b.holders[k][v] = "none" /\ v \notin b.waiters[k],
         v \notin b.granted
  PROVE  Whole(b, v) /\ Foreign(b, v)
<1>1. Own(v) \subseteq Keys
  BY GroupAssumption DEF Own
<1>2. RowsAre(b, v, "none")
  BY <1>1 DEF RowsAre
<1> QED BY <1>2 DEF Whole, Foreign, RowStates

LEMMA RowsSuperseded ==
  ASSUME NEW a, NEW b, NEW v \in Works,
         \A k \in Keys : /\ b.holders[k][v] =
                              IF a.holders[k][v] = "live" THEN "superseded" ELSE a.holders[k][v]
                         /\ v \in b.waiters[k] <=> v \in a.waiters[k],
         v \notin b.granted,
         Has(a.arrivals, v) => Has(b.arrivals, v),
         Whole(a, v), Foreign(a, v)
  PROVE  Whole(b, v) /\ Foreign(b, v)
<1>1. Own(v) \subseteq Keys
  BY GroupAssumption DEF Own
<1>2. Foreign(b, v)
  BY DEF Foreign
<1>3. PICK s \in RowStates : /\ RowsAre(a, v, s)
                             /\ v \in a.granted => s = "live"
                             /\ s # "none" => Has(a.arrivals, v)
  BY DEF Whole
<1>4. CASE s = "live"
  <2>1. RowsAre(b, v, "superseded")
    BY <1>1, <1>3, <1>4 DEF RowsAre
  <2> QED BY <1>2, <1>3, <1>4, <2>1 DEF Whole, RowStates
<1>5. CASE s # "live"
  <2>1. RowsAre(b, v, s)
    BY <1>1, <1>3, <1>5 DEF RowsAre
  <2> QED BY <1>2, <1>3, <2>1 DEF Whole
<1> QED BY <1>4, <1>5

(* What a table owes its works is kept when some are discarded.            *)
LEMMA DiscardWhole ==
  ASSUME NEW a \in Tables, Ordered(a), NEW ws, NEW v \in Works, v \in ws \/ (Whole(a, v) /\ Foreign(a, v))
  PROVE  Whole(Discard(a, ws), v) /\ Foreign(Discard(a, ws), v)
<1> DEFINE b == Discard(a, ws)
<1>1. /\ \A k \in Keys :
           /\ b.holders[k][v] = IF v \in ws THEN "none" ELSE a.holders[k][v]
           /\ v \in b.waiters[k] <=> v \in a.waiters[k] /\ v \notin ws
      /\ b.granted = a.granted \ ws
      /\ Has(b.arrivals, v) <=> Has(a.arrivals, v) /\ v \notin ws
  BY DiscardMakes
<1> HIDE DEF b
<1>2. CASE v \in ws
  BY <1>1, <1>2, RowsGone DEF b
<1>3. CASE v \notin ws
  <2>1. Whole(b, v) /\ Foreign(b, v)
    BY <1>1, <1>3, RowsKept
  <2> QED BY <2>1 DEF b
<1> QED BY <1>2, <1>3

-----------------------------------------------------------------------------
(* The trial, key by key.                                                  *)

(* A finite, nonempty set of naturals has a greatest element.              *)
LEMMA MaxIsGreatest ==
  ASSUME NEW T \in SUBSET Nat, IsFiniteSet(T), T # {}
  PROVE  Max(T) \in T /\ \A y \in T : y <= Max(T)
<1> DEFINE Above(x) == {y \in T : y > x}
           C == {Above(x) : x \in T}
<1>1. C # {} /\ \A S \in C : IsFiniteSet(S)
  <2>1. \A x \in T : Above(x) \in SUBSET T
    OBVIOUS
  <2>2. \A x \in T : IsFiniteSet(Above(x))
    <3> HIDE DEF Above
    <3> QED BY <2>1, FS_Subset
  <2> HIDE DEF Above
  <2> QED BY <2>2
<1>2. PICK S \in C : \A U \in C : Cardinality(S) <= Cardinality(U)
  <2> HIDE DEF C
  <2> QED BY <1>1, Smallest
<1>3. PICK x \in T : S = Above(x)
  OBVIOUS
<1>4. ASSUME NEW y \in T, y > x PROVE FALSE
  <2>1. Above(y) \in C /\ Above(y) \in SUBSET Above(x) /\ y \in Above(x) /\ y \notin Above(y)
    <3>1. x \in Nat /\ y \in Nat /\ \A z \in T : z \in Nat
      OBVIOUS
    <3>2. Above(y) \in C
      OBVIOUS
    <3>3. y \in Above(x) /\ y \notin Above(y)
      BY <1>4, <3>1
    <3>4. \A z \in T : z > y => z > x
      BY <1>4, <3>1
    <3>5. Above(y) \in SUBSET Above(x)
      BY <3>4
    <3> QED BY <3>2, <3>3, <3>5
  <2>2. IsFiniteSet(Above(x)) /\ IsFiniteSet(Above(y))
    BY FS_Subset
  <2>3. Cardinality(Above(x)) <= Cardinality(Above(y))
    BY <1>2, <1>3, <2>1
  <2> HIDE DEF Above
  <2>4. /\ Cardinality(Above(y)) <= Cardinality(Above(x))
        /\ Cardinality(Above(x)) = Cardinality(Above(y)) => Above(x) = Above(y)
    BY <2>1, <2>2, FS_Subset
  <2>5. Cardinality(Above(x)) \in Nat /\ Cardinality(Above(y)) \in Nat
    BY <2>2, FS_CardinalityType
  <2> QED BY <2>1, <2>3, <2>4, <2>5
<1>5. \A y \in T : x >= y
  BY <1>4
<1>6. \A y \in T : Max(T) >= y /\ Max(T) \in T
  BY <1>5 DEF Max
<1> QED BY <1>6

Start(a) == [kind |-> "granted", adm |-> a, victims |-> {}]

(* f is the trial on every set of keys within ks.                          *)
FollowsTrial(f, ks, a, w, r) ==
  f = [T \in SUBSET ks |-> IF T = {} THEN Start(a)
                           ELSE TryKey(f[T \ {Max(T)}], w, Max(T), r)]

LEMMA TrialFollows ==
  ASSUME NEW a, NEW w \in Works, NEW r
  PROVE  \E f : FollowsTrial(f, Own(w), a, w, r) /\ Trial(a, w, r) = f[Own(w)]
<1>1. Own(w) \in SUBSET Nat /\ IsFiniteSet(Own(w))
  <2>1. Own(w) \in SUBSET Keys
    BY GroupAssumption DEF Own
  <2> QED BY <2>1, GroupAssumption, FS_Subset
<1>2. \A ks \in SUBSET Own(w) : ks \in SUBSET Nat /\ IsFiniteSet(ks) /\ Cardinality(ks) \in Nat
  BY <1>1, FS_Subset, FS_CardinalityType
<1>3. ASSUME NEW ks \in SUBSET Own(w), ks # {},
             \E f : FollowsTrial(f, ks \ {Max(ks)}, a, w, r)
      PROVE  \E f : FollowsTrial(f, ks, a, w, r)
  <2> DEFINE m == Max(ks)
             js == ks \ {m}
  <2>1. PICK f : FollowsTrial(f, js, a, w, r)
    BY <1>3
  <2>2. m \in ks /\ \A y \in ks : y <= m
    BY <1>2, <1>3, MaxIsGreatest
  <2>3. ASSUME NEW T \in SUBSET ks, T # {}
        PROVE  Max(T) \in T /\ (m \in T => Max(T) = m)
    <3>1. T \in SUBSET Nat /\ IsFiniteSet(T)
      BY <1>2
    <3>2. Max(T) \in T /\ \A y \in T : y <= Max(T)
      BY <3>1, <2>3, MaxIsGreatest
    <3>3. Max(T) \in ks /\ Max(T) <= m /\ m \in Nat /\ Max(T) \in Nat
      BY <3>1, <3>2, <2>2, <1>2
    <3> HIDE DEF m
    <3> QED BY <3>2, <3>3
  <2> DEFINE g == [T \in SUBSET ks |-> IF m \in T THEN TryKey(f[T \ {m}], w, m, r) ELSE f[T]]
  <2>4. \A T \in SUBSET js : g[T] = f[T]
    OBVIOUS
  <2>5. \A T \in SUBSET js :
          f[T] = IF T = {} THEN Start(a) ELSE TryKey(f[T \ {Max(T)}], w, Max(T), r)
    BY <2>1 DEF FollowsTrial
  <2>6. ASSUME NEW T \in SUBSET ks
        PROVE  g[T] = IF T = {} THEN Start(a) ELSE TryKey(g[T \ {Max(T)}], w, Max(T), r)
    <3>1. CASE m \in T
      <4>1. T # {} /\ Max(T) = m /\ T \ {m} \in SUBSET js
        BY <3>1, <2>3
      <4>2. g[T] = TryKey(f[T \ {m}], w, m, r)
        BY <3>1
      <4>3. g[T \ {m}] = f[T \ {m}]
        BY <4>1, <2>4
      <4> HIDE DEF g, m
      <4> QED BY <4>1, <4>2, <4>3
    <3>2. CASE m \notin T
      <4>1. T \in SUBSET js
        BY <3>2
      <4>2. T \ {Max(T)} \in SUBSET js
        BY <4>1
      <4> HIDE DEF g, js
      <4> QED BY <4>1, <4>2, <2>4, <2>5
    <3> QED BY <3>1, <3>2
  <2>7. FollowsTrial(g, ks, a, w, r)
    <3>1. g = [T \in SUBSET ks |-> g[T]]
      OBVIOUS
    <3> HIDE DEF g
    <3> QED BY <2>6, <3>1 DEF FollowsTrial
  <2> QED BY <2>7
<1>4. \E f : FollowsTrial(f, {}, a, w, r)
  <2> DEFINE f == [T \in SUBSET {} |-> Start(a)]
  <2>1. FollowsTrial(f, {}, a, w, r)
    BY DEF FollowsTrial
  <2> QED BY <2>1
<1>5. \A ks \in SUBSET Own(w) : \E f : FollowsTrial(f, ks, a, w, r)
  <2> DEFINE Bad == {ks \in SUBSET Own(w) : ~\E f : FollowsTrial(f, ks, a, w, r)}
  <2> SUFFICES ASSUME Bad # {} PROVE FALSE
    OBVIOUS
  <2>1. PICK ks \in Bad : \A U \in Bad : Cardinality(ks) <= Cardinality(U)
    <3>1. \A U \in Bad : IsFiniteSet(U)
      BY <1>2
    <3> HIDE DEF Bad
    <3> QED BY <3>1, Smallest
  <2>2. ks # {}
    BY <1>4
  <2>3. Max(ks) \in ks
    BY <1>2, <2>2, MaxIsGreatest
  <2>4. ks \ {Max(ks)} \in Bad
    BY <1>3, <2>2
  <2>5. Cardinality(ks \ {Max(ks)}) = Cardinality(ks) - 1
    BY <1>2, <2>3, FS_RemoveElement
  <2>6. Cardinality(ks) <= Cardinality(ks \ {Max(ks)}) /\ Cardinality(ks) \in Nat
    BY <2>1, <2>4, <1>2
  <2> QED BY <2>5, <2>6
<1>6. PICK f : FollowsTrial(f, Own(w), a, w, r)
  BY <1>5
<1> DEFINE after == CHOOSE h : FollowsTrial(h, Own(w), a, w, r)
<1>7. FollowsTrial(after, Own(w), a, w, r)
  BY <1>6
<1>8. Trial(a, w, r) = after[Own(w)]
  BY DEF Trial, FollowsTrial, Start
<1> QED BY <1>7, <1>8

(* The live holders, the one who asks among them whatever its lease.       *)
LiveWith(a, w, k) == {v \in Works : a.holders[k][v] = "live" /\ (ttl[v] > 0 \/ v = w)}

(* What the trial of w begins with.                                        *)
Ready(a, w) ==
  /\ a \in Tables /\ Ordered(a) /\ Has(a.arrivals, w) /\ w \notin a.granted
  /\ \A v \in Works \ {w} : Whole(a, v)
  /\ \A v \in Works : Foreign(a, v)
  /\ \A k \in Own(w) : \/ a.holders[k][w] = "none"
                       \/ a.holders[k][w] = "live" /\ w \notin a.waiters[k] /\ WorkLive(w)
  /\ \A k \in Keys : Within(LiveWith(a, w, k), k)

(* What it has made of a, with the victims vs, once the keys ks are        *)
(* granted: w holds these and is on the others as it was, only the dead    *)
(* are reaped and only victims are superseded, and every budget is kept.   *)
Tried(b, vs, a, w, ks) ==
  /\ b \in Tables /\ Ordered(b) /\ Has(b.arrivals, w)
  /\ b.granted \subseteq a.granted /\ b.arrivals \subseteq a.arrivals
  /\ vs \subseteq Works \ {w}
  /\ \A v \in Works \ {w} : Whole(b, v)
  /\ \A v \in Works : Foreign(b, v)
  /\ \A k \in ks : b.holders[k][w] = "live" /\ w \notin b.waiters[k]
  /\ \A k \in Own(w) \ ks : /\ b.holders[k][w] = a.holders[k][w]
                            /\ w \in b.waiters[k] <=> w \in a.waiters[k]
  /\ \A v \in Works \ {w}, k \in Keys :
       /\ b.holders[k][v] = "superseded" => a.holders[k][v] = "superseded" \/ v \in vs
       /\ a.holders[k][v] = "none" => b.holders[k][v] = "none"
  /\ \A v \in a.granted : WorkLive(v) => v \in b.granted \/ v \in vs
  /\ \A k \in Keys : Within(LiveWith(b, w, k), k)

LEMMA LiveAreTakers ==
  ASSUME NEW a, \A v \in Works : Foreign(a, v), NEW k \in Keys, NEW w
  PROVE  LiveWith(a, w, k) \in SUBSET Takers(k)
<1>1. \A v \in LiveWith(a, w, k) : v \in Works /\ a.holders[k][v] = "live"
  BY DEF LiveWith
<1>2. \A v \in LiveWith(a, w, k) : k \in Own(v)
  BY <1>1 DEF Foreign
<1> QED BY <1>1, <1>2 DEF Takers

LEMMA ReapTried ==
  ASSUME NEW a, NEW w \in Works, NEW ks \in SUBSET Own(w), NEW k \in Own(w) \ ks,
         NEW b, NEW vs, Ready(a, w), Tried(b, vs, a, w, ks)
  PROVE  Tried(ReapHolders(b, k), vs, a, w, ks)
<1> DEFINE ws == {v \in HolderRows(b, k) : ~WorkLive(v)}
           c == Discard(b, ws)
<1>1. ReapHolders(b, k) = c
  BY DEF ReapHolders
<1>2. b \in Tables /\ Ordered(b) /\ Own(w) \subseteq Keys
  BY GroupAssumption DEF Tried, Own
<1>3. w \notin ws /\ \A v \in ws : ~WorkLive(v)
  <2>1. b.holders[k][w] = a.holders[k][w]
    BY DEF Tried
  <2>2. a.holders[k][w] # "none" => WorkLive(w)
    BY DEF Ready
  <2> QED BY <2>1, <2>2 DEF HolderRows
<1> HIDE DEF ws
<1>4. /\ c \in Tables /\ Ordered(c)
      /\ \A j \in Keys, v \in Works :
           /\ c.holders[j][v] = IF v \in ws THEN "none" ELSE b.holders[j][v]
           /\ v \in c.waiters[j] <=> v \in b.waiters[j] /\ v \notin ws
      /\ c.granted = b.granted \ ws
      /\ c.arrivals \subseteq b.arrivals
      /\ \A v \in Works : Has(c.arrivals, v) <=> Has(b.arrivals, v) /\ v \notin ws
  BY <1>2, DiscardMakes
<1>5. \A v \in Works : (v # w => Whole(c, v)) /\ Foreign(c, v)
  <2> SUFFICES ASSUME NEW v \in Works PROVE (v # w => Whole(c, v)) /\ Foreign(c, v)
    OBVIOUS
  <2>1. Foreign(b, v) /\ (v # w => Whole(b, v))
    BY DEF Tried
  <2>2. v # w => Whole(c, v)
    BY <1>2, <2>1, DiscardWhole
  <2>3. Foreign(c, v)
    BY <1>4, <2>1 DEF Foreign
  <2> QED BY <2>2, <2>3
<1> HIDE DEF c
<1>6. Has(c.arrivals, w) /\ c.granted \subseteq a.granted /\ c.arrivals \subseteq a.arrivals
  BY <1>3, <1>4 DEF Tried
<1>7. /\ \A j \in ks : c.holders[j][w] = "live" /\ w \notin c.waiters[j]
      /\ \A j \in Own(w) \ ks : /\ c.holders[j][w] = a.holders[j][w]
                                /\ w \in c.waiters[j] <=> w \in a.waiters[j]
  BY <1>2, <1>3, <1>4 DEF Tried
<1>8. \A v \in Works \ {w}, j \in Keys :
        /\ c.holders[j][v] = "superseded" => a.holders[j][v] = "superseded" \/ v \in vs
        /\ a.holders[j][v] = "none" => c.holders[j][v] = "none"
  BY <1>4 DEF Tried
<1>9. \A v \in a.granted : WorkLive(v) => v \in c.granted \/ v \in vs
  BY <1>3, <1>4 DEF Tried
<1>10. ASSUME NEW j \in Keys PROVE Within(LiveWith(c, w, j), j)
  <2>1. LiveWith(b, w, j) \in SUBSET Takers(j)
    BY LiveAreTakers DEF Tried
  <2>2. LiveWith(c, w, j) \in SUBSET LiveWith(b, w, j)
    BY <1>4 DEF LiveWith
  <2>3. Within(LiveWith(b, w, j), j)
    BY DEF Tried
  <2> QED BY <2>1, <2>2, <2>3, WithinShrinks
<1>11. vs \subseteq Works \ {w}
  BY DEF Tried
<1>12. Tried(c, vs, a, w, ks)
  BY <1>4, <1>5, <1>6, <1>7, <1>8, <1>9, <1>10, <1>11 DEF Tried
<1> QED BY <1>1, <1>12

LEMMA SupersedeTried ==
  ASSUME NEW a, NEW w \in Works, NEW ks \in SUBSET Own(w),
         NEW b, NEW vs, NEW us \in SUBSET (Works \ {w}), Tried(b, vs, a, w, ks)
  PROVE  Tried(Supersede(b, us), vs \cup us, a, w, ks)
<1> DEFINE c == Supersede(b, us)
<1>1. b \in Tables /\ Ordered(b) /\ Own(w) \subseteq Keys
  BY GroupAssumption DEF Tried, Own
<1>2. /\ c \in Tables /\ Ordered(c)
      /\ \A j \in Keys, v \in Works :
           c.holders[j][v] =
             IF v \in us /\ b.holders[j][v] = "live" THEN "superseded" ELSE b.holders[j][v]
      /\ c.waiters = b.waiters
      /\ c.granted = b.granted \ us
      /\ c.arrivals = b.arrivals
  BY <1>1, SupersedeMakes
<1> HIDE DEF c
<1>3. \A v \in Works : (v # w => Whole(c, v)) /\ Foreign(c, v)
  <2> SUFFICES ASSUME NEW v \in Works PROVE (v # w => Whole(c, v)) /\ Foreign(c, v)
    OBVIOUS
  <2>1. Foreign(b, v) /\ (v # w => Whole(b, v))
    BY DEF Tried
  <2>2. Foreign(c, v)
    BY <1>2, <2>1 DEF Foreign
  <2>3. CASE v \in us
    BY <1>2, <2>1, <2>2, <2>3, RowsSuperseded
  <2>4. CASE v \notin us
    BY <1>2, <2>1, <2>2, <2>4, RowsKept
  <2> QED BY <2>3, <2>4
<1>4. Has(c.arrivals, w) /\ c.granted \subseteq a.granted /\ c.arrivals \subseteq a.arrivals
  BY <1>2 DEF Tried
<1>5. /\ \A j \in ks : c.holders[j][w] = "live" /\ w \notin c.waiters[j]
      /\ \A j \in Own(w) \ ks : /\ c.holders[j][w] = a.holders[j][w]
                                /\ w \in c.waiters[j] <=> w \in a.waiters[j]
  BY <1>1, <1>2 DEF Tried
<1>6. \A v \in Works \ {w}, j \in Keys :
        /\ c.holders[j][v] = "superseded" => a.holders[j][v] = "superseded" \/ v \in vs \cup us
        /\ a.holders[j][v] = "none" => c.holders[j][v] = "none"
  BY <1>2 DEF Tried
<1>7. \A v \in a.granted : WorkLive(v) => v \in c.granted \/ v \in vs \cup us
  BY <1>2 DEF Tried
<1>8. ASSUME NEW j \in Keys PROVE Within(LiveWith(c, w, j), j)
  <2>1. LiveWith(b, w, j) \in SUBSET Takers(j)
    BY LiveAreTakers DEF Tried
  <2>2. LiveWith(c, w, j) \in SUBSET LiveWith(b, w, j)
    BY <1>2 DEF LiveWith
  <2>3. Within(LiveWith(b, w, j), j)
    BY DEF Tried
  <2> QED BY <2>1, <2>2, <2>3, WithinShrinks
<1>9. vs \cup us \subseteq Works \ {w}
  BY DEF Tried
<1>10. Tried(c, vs \cup us, a, w, ks)
  BY <1>2, <1>3, <1>4, <1>5, <1>6, <1>7, <1>8, <1>9 DEF Tried
<1> QED BY <1>10 DEF c

LEMMA InsertTried ==
  ASSUME NEW a, NEW w \in Works, NEW ks \in SUBSET Own(w), NEW k \in Own(w),
         NEW b, NEW vs, Tried(b, vs, a, w, ks), Within(LiveWith(b, w, k) \cup {w}, k)
  PROVE  Tried(Insert(b, w, k), vs, a, w, ks \cup {k})
<1> DEFINE c == Insert(b, w, k)
<1>1. b \in Tables /\ Ordered(b) /\ Own(w) \subseteq Keys /\ k \in Keys
  BY GroupAssumption DEF Tried, Own
<1>2. /\ c \in Tables /\ Ordered(c)
      /\ \A j \in Keys, v \in Works :
           /\ c.holders[j][v] = IF j = k /\ v = w THEN "live" ELSE b.holders[j][v]
           /\ v \in c.waiters[j] <=> v \in b.waiters[j] /\ ~(j = k /\ v = w)
      /\ c.granted = b.granted
      /\ c.arrivals = b.arrivals
  BY <1>1, InsertMakes
<1> HIDE DEF c
<1>3. \A v \in Works : (v # w => Whole(c, v)) /\ Foreign(c, v)
  <2> SUFFICES ASSUME NEW v \in Works PROVE (v # w => Whole(c, v)) /\ Foreign(c, v)
    OBVIOUS
  <2>1. Foreign(b, v) /\ (v # w => Whole(b, v))
    BY DEF Tried
  <2>2. Foreign(c, v)
    BY <1>2, <2>1 DEF Foreign
  <2>3. v # w => Whole(c, v)
    BY <1>2, <2>1, RowsKept
  <2> QED BY <2>2, <2>3
<1>4. Has(c.arrivals, w) /\ c.granted \subseteq a.granted /\ c.arrivals \subseteq a.arrivals
  BY <1>2 DEF Tried
<1>5. /\ \A j \in ks \cup {k} : c.holders[j][w] = "live" /\ w \notin c.waiters[j]
      /\ \A j \in Own(w) \ (ks \cup {k}) : /\ c.holders[j][w] = a.holders[j][w]
                                           /\ w \in c.waiters[j] <=> w \in a.waiters[j]
  BY <1>1, <1>2 DEF Tried
<1>6. \A v \in Works \ {w}, j \in Keys :
        /\ c.holders[j][v] = "superseded" => a.holders[j][v] = "superseded" \/ v \in vs
        /\ a.holders[j][v] = "none" => c.holders[j][v] = "none"
  BY <1>2 DEF Tried
<1>7. \A v \in a.granted : WorkLive(v) => v \in c.granted \/ v \in vs
  BY <1>2 DEF Tried
<1>8. ASSUME NEW j \in Keys PROVE Within(LiveWith(c, w, j), j)
  <2>1. CASE j # k
    <3>1. LiveWith(c, w, j) = LiveWith(b, w, j)
      BY <1>2, <2>1 DEF LiveWith
    <3> QED BY <3>1 DEF Tried
  <2>2. CASE j = k
    <3>1. LiveWith(c, w, k) = LiveWith(b, w, k) \cup {w}
      BY <1>1, <1>2 DEF LiveWith
    <3> QED BY <2>2, <3>1
  <2> QED BY <2>1, <2>2
<1>9. vs \subseteq Works \ {w}
  BY DEF Tried
<1>10. Tried(c, vs, a, w, ks \cup {k})
  BY <1>2, <1>3, <1>4, <1>5, <1>6, <1>7, <1>8, <1>9 DEF Tried
<1> QED BY <1>10 DEF c

Refusals == {"queued", "skipped", "failed"}
Trials == [kind : Refusals \cup {"granted"}, adm : Tables, victims : SUBSET Works]

(* The answers of acquireConcurrencySlotTx.                                *)
LEMMA AcquireCases ==
  ASSUME NEW t \in Trials, NEW w \in Works, NEW k \in Own(w)
  PROVE  LET b == ReapHolders(t.adm, k)
             d == Declared[w][k]
         IN \/ \E kind \in Refusals : AcquireSlot(t, w, k) = [t EXCEPT !.kind = kind]
            \/ b.holders[k][w] = "live" /\ AcquireSlot(t, w, k) = [t EXCEPT !.adm = b]
            \/ /\ b.holders[k][w] # "live"
               /\ Fits(Used(b, k), d.cost, EffectiveCapacity(b, k, d.capacity))
               /\ AcquireSlot(t, w, k) = [t EXCEPT !.adm = Insert(b, w, k)]
            \/ /\ b.holders[k][w] # "live" /\ d.cost <= d.capacity
               /\ AcquireSlot(t, w, k) =
                    [t EXCEPT !.adm = Insert(Supersede(b, Victims(b, w, k)), w, k),
                              !.victims = @ \cup Victims(b, w, k)]
<1> DEFINE d == Declared[w][k]
           b == ReapHolders(t.adm, k)
           free == Fits(Used(b, k), d.cost, EffectiveCapacity(b, k, d.capacity))
           go == free /\ ~(d.policy = "queue" /\ EarlierRunnable(b, w, k))
           vs == Victims(b, w, k)
           taken == [t EXCEPT !.adm = Insert(Supersede(b, vs), w, k), !.victims = @ \cup vs]
           Answer(kind) == [t EXCEPT !.kind = kind]
<1>1. /\ d.cost \in Nat /\ d.capacity \in Nat
      /\ d.policy \in {"queue", "skip", "fail", "cancel_others"}
  BY Declarations
<1>2. AcquireSlot(t, w, k) =
        CASE d.cost > d.capacity -> Answer(IF d.policy = "skip" THEN "skipped" ELSE "failed")
          [] d.cost <= d.capacity /\ b.holders[k][w] = "live" -> [t EXCEPT !.adm = b]
          [] OTHER ->
               IF go THEN [t EXCEPT !.adm = Insert(b, w, k)]
               ELSE CASE d.policy = "skip" -> Answer("skipped")
                      [] d.policy = "fail" -> Answer("failed")
                      [] d.policy = "queue" -> Answer("queued")
                      [] d.policy = "cancel_others" -> taken
  BY DEF AcquireSlot
<1>3. go => free
  OBVIOUS
<1>4. ~(d.cost > d.capacity) <=> d.cost <= d.capacity
  BY <1>1
<1> HIDE DEF d, b, free, go, vs, taken
<1>5. CASE d.cost > d.capacity
  <2>1. AcquireSlot(t, w, k) = Answer(IF d.policy = "skip" THEN "skipped" ELSE "failed")
    BY <1>2, <1>4, <1>5
  <2> QED BY <2>1 DEF Refusals
<1>6. CASE d.cost <= d.capacity /\ b.holders[k][w] = "live"
  <2>1. AcquireSlot(t, w, k) = [t EXCEPT !.adm = b]
    BY <1>2, <1>4, <1>6
  <2> QED BY <2>1, <1>6 DEF b
<1>7. CASE d.cost <= d.capacity /\ b.holders[k][w] # "live"
  <2>1. CASE go
    <3>1. AcquireSlot(t, w, k) = [t EXCEPT !.adm = Insert(b, w, k)]
      BY <1>2, <1>4, <1>7, <2>1
    <3> QED BY <3>1, <1>3, <1>7, <2>1 DEF b, d, free
  <2>2. CASE ~go
    <3>1. AcquireSlot(t, w, k) =
            CASE d.policy = "skip" -> Answer("skipped")
              [] d.policy = "fail" -> Answer("failed")
              [] d.policy = "queue" -> Answer("queued")
              [] d.policy = "cancel_others" -> taken
      BY <1>2, <1>4, <1>7, <2>2
    <3>2. \/ \E kind \in Refusals : AcquireSlot(t, w, k) = Answer(kind)
          \/ AcquireSlot(t, w, k) = taken
      BY <1>1, <3>1 DEF Refusals
    <3> QED BY <3>2, <1>7 DEF b, d, vs, taken
  <2> QED BY <2>1, <2>2
<1> QED BY <1>4, <1>5, <1>6, <1>7

(* A key that is granted leaves a budget everybody fits in.                *)
LEMMA SlotTried ==
  ASSUME NEW a, NEW w \in Works, Ready(a, w), NEW ks \in SUBSET Own(w), NEW k \in Own(w) \ ks,
         NEW t \in Trials, Tried(t.adm, t.victims, a, w, ks), t.kind = "granted"
  PROVE  LET u == AcquireSlot(t, w, k)
         IN /\ u \in Trials
            /\ u.kind = "granted" => Tried(u.adm, u.victims, a, w, ks \cup {k})
<1> DEFINE u == AcquireSlot(t, w, k)
           b == ReapHolders(t.adm, k)
           d == Declared[w][k]
           vs == Victims(b, w, k)
           live == LiveHolders(b, k)
<1>1. Tried(b, t.victims, a, w, ks)
  BY ReapTried
<1>2. w \in Takers(k) /\ k \in Keys /\ d.cost \in Nat /\ d.capacity \in Nat
  BY Declarations DEF Takers
<1> HIDE DEF b
<1>3. LiveWith(b, w, k) \in SUBSET Takers(k)
  BY <1>1, <1>2, LiveAreTakers DEF Tried
<1>4. b.holders[k][w] # "live" => live = LiveWith(b, w, k) /\ live \subseteq Takers(k) \ {w}
  BY <1>3 DEF LiveHolders, LiveWith
<1>5. \/ \E kind \in Refusals : u = [t EXCEPT !.kind = kind]
      \/ b.holders[k][w] = "live" /\ u = [t EXCEPT !.adm = b]
      \/ /\ b.holders[k][w] # "live"
         /\ Fits(Used(b, k), d.cost, EffectiveCapacity(b, k, d.capacity))
         /\ u = [t EXCEPT !.adm = Insert(b, w, k)]
      \/ /\ b.holders[k][w] # "live" /\ d.cost <= d.capacity
         /\ u = [t EXCEPT !.adm = Insert(Supersede(b, vs), w, k), !.victims = @ \cup vs]
  BY AcquireCases DEF b
<1> HIDE DEF u
<1>6. ASSUME NEW kind \in Refusals, u = [t EXCEPT !.kind = kind]
      PROVE  u \in Trials /\ u.kind # "granted"
  BY <1>6 DEF Trials, Refusals
<1>7. ASSUME b.holders[k][w] = "live", u = [t EXCEPT !.adm = b]
      PROVE  u \in Trials /\ Tried(u.adm, u.victims, a, w, ks \cup {k})
  <2>1. u \in Trials /\ u.adm = b /\ u.victims = t.victims
    BY <1>1, <1>7 DEF Trials, Tried
  <2>2. a.holders[k][w] = "live" /\ w \notin a.waiters[k]
    BY <1>1, <1>7 DEF Tried, Ready
  <2>3. w \notin b.waiters[k]
    BY <1>1, <2>2 DEF Tried
  <2>4. Tried(b, t.victims, a, w, ks \cup {k})
    <3>1. /\ \A j \in ks \cup {k} : b.holders[j][w] = "live" /\ w \notin b.waiters[j]
          /\ \A j \in Own(w) \ (ks \cup {k}) : /\ b.holders[j][w] = a.holders[j][w]
                                               /\ w \in b.waiters[j] <=> w \in a.waiters[j]
      BY <1>1, <1>7, <2>3 DEF Tried
    <3> QED BY <1>1, <3>1 DEF Tried
  <2> QED BY <2>1, <2>4
<1>8. ASSUME b.holders[k][w] # "live",
             Fits(Used(b, k), d.cost, EffectiveCapacity(b, k, d.capacity)),
             u = [t EXCEPT !.adm = Insert(b, w, k)]
      PROVE  u \in Trials /\ Tried(u.adm, u.victims, a, w, ks \cup {k})
  <2> DEFINE capacity == EffectiveCapacity(b, k, d.capacity)
  <2>1. /\ capacity \in Nat /\ capacity <= d.capacity
        /\ \A h \in live : capacity <= Declared[h][k].capacity
    BY <1>2, <1>4, <1>8, EffectiveIsLeast
  <2>2. Within(live \cup {w}, k)
    <3>1. Fits(CostOf(live, k), Declared[w][k].cost, capacity)
      BY <1>8 DEF Used
    <3>2. live \in SUBSET Takers(k) /\ w \in Takers(k) \ live
      BY <1>2, <1>4, <1>8
    <3>3. \A h \in live \cup {w} : capacity <= Declared[h][k].capacity
      BY <2>1
    <3> HIDE DEF capacity, live
    <3> QED BY <2>1, <3>1, <3>2, <3>3, WithinGrows
  <2>3. Tried(Insert(b, w, k), t.victims, a, w, ks \cup {k})
    BY <1>1, <1>4, <1>8, <2>2, InsertTried
  <2>4. u \in Trials /\ u.adm = Insert(b, w, k) /\ u.victims = t.victims
    BY <1>8, <2>3 DEF Trials, Tried
  <2> QED BY <2>3, <2>4
<1>9. ASSUME b.holders[k][w] # "live", d.cost <= d.capacity,
             u = [t EXCEPT !.adm = Insert(Supersede(b, vs), w, k), !.victims = @ \cup vs]
      PROVE  u \in Trials /\ Tried(u.adm, u.victims, a, w, ks \cup {k})
  <2> DEFINE c == Supersede(b, vs)
  <2>1. vs \in SUBSET live
    BY <1>4, <1>9, VictimsFacts
  <2>2. live \in SUBSET (Works \ {w})
    BY <1>4, <1>9 DEF Takers
  <2>3. vs \in SUBSET (Works \ {w})
    BY <2>1, <2>2
  <2>4. Tried(c, t.victims \cup vs, a, w, ks)
    <3> HIDE DEF vs
    <3> QED BY <1>1, <2>3, SupersedeTried
  <2>5. Within((live \ vs) \cup {w}, k)
    BY <1>2, <1>4, <1>9, VictimsMakeRoom
  <2>6. LiveWith(c, w, k) = live \ vs
    <3>1. \A v \in Works : c.holders[k][v] =
            IF v \in vs /\ b.holders[k][v] = "live" THEN "superseded" ELSE b.holders[k][v]
      <4> HIDE DEF vs
      <4>1. b \in Tables /\ Ordered(b)
        BY <1>1 DEF Tried
      <4> QED BY <1>2, <4>1, SupersedeMakes
    <3> HIDE DEF vs, c
    <3>2. LiveWith(c, w, k) = LiveWith(b, w, k) \ vs
      BY <3>1 DEF LiveWith
    <3> QED BY <3>2, <1>4, <1>9
  <2>7. Tried(Insert(c, w, k), t.victims \cup vs, a, w, ks \cup {k})
    <3> HIDE DEF c, vs, live
    <3> QED BY <2>4, <2>5, <2>6, InsertTried
  <2>8. u \in Trials /\ u.adm = Insert(c, w, k) /\ u.victims = t.victims \cup vs
    <3>1. Insert(c, w, k) \in Tables /\ t.victims \cup vs \in SUBSET Works
      BY <2>7 DEF Tried
    <3> HIDE DEF c, vs
    <3> QED BY <1>9, <3>1 DEF Trials, c
  <2> QED BY <2>7, <2>8
<1> QED BY <1>5, <1>6, <1>7, <1>8, <1>9 DEF u

(* The whole trial.                                                        *)
LEMMA TrialMakes ==
  ASSUME NEW a, NEW w \in Works, NEW r, Ready(a, w)
  PROVE  /\ Trial(a, w, r) \in Trials
         /\ Trial(a, w, r).kind = "granted" =>
              Tried(Trial(a, w, r).adm, Trial(a, w, r).victims, a, w, Own(w))
<1>1. PICK f : FollowsTrial(f, Own(w), a, w, r) /\ Trial(a, w, r) = f[Own(w)]
  BY TrialFollows
<1> DEFINE Good(ks) == /\ f[ks] \in Trials
                       /\ f[ks].kind = "granted" => Tried(f[ks].adm, f[ks].victims, a, w, ks)
<1>2. \A ks \in SUBSET Own(w) : ks \in SUBSET Nat /\ IsFiniteSet(ks) /\ Cardinality(ks) \in Nat
  <2>1. Own(w) \in SUBSET Nat /\ IsFiniteSet(Own(w))
    <3>1. Own(w) \in SUBSET Keys
      BY GroupAssumption DEF Own
    <3> QED BY <3>1, GroupAssumption, FS_Subset
  <2> QED BY <2>1, FS_Subset, FS_CardinalityType
<1>3. Good({})
  <2>1. f[{}] = Start(a)
    BY <1>1 DEF FollowsTrial
  <2>2. Start(a) \in Trials
    BY DEF Start, Trials, Ready
  <2>3. Tried(a, {}, a, w, {})
    BY DEF Tried, Ready
  <2> QED BY <2>1, <2>2, <2>3 DEF Start
<1>4. ASSUME NEW ks \in SUBSET Own(w), ks # {}, Good(ks \ {Max(ks)})
      PROVE  Good(ks)
  <2> DEFINE k == Max(ks)
             js == ks \ {k}
             t == f[js]
  <2>1. k \in ks
    BY <1>2, <1>4, MaxIsGreatest
  <2>2. f[ks] = TryKey(t, w, k, r)
    BY <1>1, <1>4 DEF FollowsTrial
  <2>3. js \in SUBSET Own(w) /\ k \in Own(w) \ js /\ js \cup {k} = ks
    BY <2>1
  <2>4. t \in Trials /\ (t.kind = "granted" => Tried(t.adm, t.victims, a, w, js))
    BY <1>4
  <2> HIDE DEF t, js, k
  <2>5. CASE t.kind # "granted"
    <3>1. f[ks] = t
      BY <2>2, <2>5 DEF TryKey
    <3> QED BY <2>4, <2>5, <3>1
  <2>6. CASE t.kind = "granted" /\ Overdue(w, k) /\ r
    <3>1. f[ks] = [t EXCEPT !.kind = "failed"]
      BY <2>2, <2>6 DEF TryKey
    <3>2. f[ks] \in Trials /\ f[ks].kind = "failed"
      BY <2>4, <3>1 DEF Trials, Refusals
    <3> QED BY <3>2
  <2>7. CASE t.kind = "granted" /\ ~(Overdue(w, k) /\ r)
    <3>1. f[ks] = AcquireSlot(t, w, k)
      BY <2>2, <2>7 DEF TryKey
    <3> DEFINE u == AcquireSlot(t, w, k)
    <3>2. u \in Trials /\ (u.kind = "granted" => Tried(u.adm, u.victims, a, w, js \cup {k}))
      BY <2>3, <2>4, <2>7, SlotTried
    <3> HIDE DEF u
    <3>3. f[ks] = u
      BY <3>1 DEF u
    <3> QED BY <2>3, <3>2, <3>3
  <2> QED BY <2>5, <2>6, <2>7
<1> DEFINE Bad == {ks \in SUBSET Own(w) : ~Good(ks)}
<1>5. Bad = {}
  <2> SUFFICES ASSUME Bad # {} PROVE FALSE
    OBVIOUS
  <2>1. PICK ks \in Bad : \A U \in Bad : Cardinality(ks) <= Cardinality(U)
    <3>1. \A U \in Bad : IsFiniteSet(U)
      BY <1>2
    <3> HIDE DEF Bad
    <3> QED BY <3>1, Smallest
  <2> HIDE DEF Good
  <2>2. ks # {}
    BY <1>3
  <2>3. Max(ks) \in ks
    BY <1>2, <2>2, MaxIsGreatest
  <2>4. ks \ {Max(ks)} \in Bad
    BY <1>4, <2>2
  <2>5. Cardinality(ks \ {Max(ks)}) = Cardinality(ks) - 1
    BY <1>2, <2>3, FS_RemoveElement
  <2>6. Cardinality(ks) <= Cardinality(ks \ {Max(ks)}) /\ Cardinality(ks) \in Nat
    BY <2>1, <2>4, <1>2
  <2> QED BY <2>5, <2>6
<1>6. Good(Own(w))
  <2> HIDE DEF Good
  <2> QED BY <1>5
<1> QED BY <1>1, <1>6

-----------------------------------------------------------------------------
(* Arriving and waiting.                                                   *)

(* Whoever asks and is not to stop has no superseded row: it begins with   *)
(* what it reserved, or with nothing.                                      *)
LEMMA ArrivedReady ==
  ASSUME IInv, NEW w \in Works, job[w].status = "claimed", ~job[w].cancel
  PROVE  /\ Ready(Arrived(w), w)
         /\ Arrived(w).granted = adm.granted \ {w}
         /\ \A v \in Works \ {w}, k \in Keys : Arrived(w).holders[k][v] = adm.holders[k][v]
         /\ \A u \in Works, v \in Works \ {w} : <<u, v>> \in Arrived(w).arrivals => <<u, v>> \in adm.arrivals
         /\ Retained(w) => Arrived(w).arrivals = adm.arrivals
<1>1. /\ adm \in Tables /\ Ordered(adm)
      /\ \A v \in Works : Whole(adm, v) /\ Foreign(adm, v)
      /\ Own(w) \subseteq Keys
      /\ \A k \in Keys : Within(LiveHolders(adm, k), k)
      /\ \A k \in Keys : adm.holders[k][w] # "superseded"
  BY GroupAssumption DEF IInv, TypeOK, WholeInv, BudgetInv, JobInv, Agrees, Ordered, Own
<1> DEFINE base == IF Retained(w) THEN adm
                   ELSE [Clear(adm, {w}) EXCEPT !.arrivals = AtEnd(Without(@, {w}), w)]
           a == [base EXCEPT !.granted = @ \ {w}]
<1>2. Arrived(w) = a
  BY DEF Arrived
<1>3. ASSUME NEW b \in Tables, Ordered(b)
      PROVE  LET c == [b EXCEPT !.granted = @ \ {w}]
             IN /\ c \in Tables /\ Ordered(c)
                /\ c.holders = b.holders /\ c.waiters = b.waiters /\ c.arrivals = b.arrivals
                /\ c.granted = b.granted \ {w}
  BY <1>3 DEF Tables, Ordered
<1>4. CASE Retained(w)
  <2>1. base = adm
    BY <1>4
  <2>2. /\ a \in Tables /\ Ordered(a)
        /\ a.holders = adm.holders /\ a.waiters = adm.waiters /\ a.arrivals = adm.arrivals
        /\ a.granted = adm.granted \ {w}
    BY <1>1, <1>3, <2>1
  <2> HIDE DEF a
  <2>3. WorkLive(w) /\ Has(a.arrivals, w)
    BY <1>4, <2>2 DEF Retained, WorkLive
  <2>4. \A v \in Works : Foreign(a, v) /\ (v # w => Whole(a, v))
    BY <1>1, <2>2, RowsKept
  <2>5. \A k \in Own(w) : \/ a.holders[k][w] = "none"
                          \/ a.holders[k][w] = "live" /\ w \notin a.waiters[k] /\ WorkLive(w)
    <3>1. PICK s \in RowStates : RowsAre(adm, w, s)
      BY <1>1 DEF Whole
    <3> QED BY <1>1, <2>2, <2>3, <3>1 DEF RowsAre, RowStates
  <2>6. \A k \in Keys : Within(LiveWith(a, w, k), k)
    <3>1. \A k \in Keys : LiveWith(a, w, k) = LiveHolders(adm, k)
      BY <2>2, <2>3 DEF LiveWith, LiveHolders, WorkLive
    <3> QED BY <1>1, <3>1
  <2>7. Ready(a, w)
    BY <2>2, <2>3, <2>4, <2>5, <2>6 DEF Ready
  <2> QED BY <1>2, <2>2, <2>7
<1>5. CASE ~Retained(w)
  <2> DEFINE c == Clear(adm, {w})
             o == Without(adm.arrivals, {w})
             e == AtEnd(o, w)
             b == [c EXCEPT !.arrivals = e]
  <2>1. /\ c \in Tables /\ Ordered(c)
        /\ \A k \in Keys, v \in Works :
             /\ c.holders[k][v] = IF v \in {w} THEN "none" ELSE adm.holders[k][v]
             /\ v \in c.waiters[k] <=> v \in adm.waiters[k] /\ v \notin {w}
        /\ c.granted = adm.granted
        /\ c.arrivals = adm.arrivals
    BY <1>1, ClearMakes
  <2>2. base = b
    BY <1>5, <2>1
  <2>3. /\ IsOrder(o) /\ o \subseteq adm.arrivals
        /\ \A v \in Works : Has(o, v) <=> Has(adm.arrivals, v) /\ v \notin {w}
    BY <1>1, WithoutOrder DEF Ordered
  <2>4. /\ IsOrder(e)
        /\ \A v \in Works : Has(e, v) <=> Has(o, v) \/ v = w
        /\ \A u \in Works, v \in Works \ {w} : <<u, v>> \in e => <<u, v>> \in o
    <3> HIDE DEF o
    <3> QED BY <2>3, AtEndOrder
  <2> HIDE DEF c, o, e
  <2>5. /\ b \in Tables /\ Ordered(b)
        /\ b.holders = c.holders /\ b.waiters = c.waiters /\ b.granted = c.granted
        /\ b.arrivals = e
    <3>1. e \in SUBSET (Works \X Works)
      BY <2>4 DEF IsOrder
    <3> QED BY <2>1, <2>4, <3>1 DEF Tables, Ordered
  <2> HIDE DEF b
  <2>6. /\ a \in Tables /\ Ordered(a)
        /\ a.holders = c.holders /\ a.waiters = c.waiters /\ a.arrivals = e
        /\ a.granted = adm.granted \ {w}
    BY <1>3, <2>1, <2>2, <2>5
  <2> HIDE DEF a
  <2>7. Has(a.arrivals, w)
    BY <2>4, <2>6
  <2>8. \A v \in Works : Foreign(a, v) /\ (v # w => Whole(a, v))
    <3> SUFFICES ASSUME NEW v \in Works PROVE Foreign(a, v) /\ (v # w => Whole(a, v))
      OBVIOUS
    <3>1. Foreign(a, v)
      BY <1>1, <2>1, <2>6 DEF Foreign
    <3>2. v # w => Whole(a, v)
      <4>1. Has(adm.arrivals, v) /\ v # w => Has(a.arrivals, v)
        BY <2>3, <2>4, <2>6
      <4> QED BY <1>1, <2>1, <2>6, <4>1, RowsKept
    <3> QED BY <3>1, <3>2
  <2>9. \A k \in Own(w) : a.holders[k][w] = "none"
    BY <1>1, <2>1, <2>6
  <2>10. ASSUME NEW k \in Keys PROVE Within(LiveWith(a, w, k), k)
    <3>1. LiveWith(a, w, k) \in SUBSET LiveHolders(adm, k)
      BY <2>1, <2>6 DEF LiveWith, LiveHolders
    <3>2. LiveHolders(adm, k) \in SUBSET Takers(k)
      <4>1. LiveHolders(adm, k) \in SUBSET LiveWith(adm, w, k)
        BY DEF LiveHolders, LiveWith
      <4>2. LiveWith(adm, w, k) \in SUBSET Takers(k)
        BY <1>1, LiveAreTakers
      <4> QED BY <4>1, <4>2
    <3> QED BY <1>1, <3>1, <3>2, WithinShrinks
  <2>11. Ready(a, w)
    BY <2>6, <2>7, <2>8, <2>9, <2>10 DEF Ready
  <2> QED BY <1>2, <1>5, <2>1, <2>3, <2>4, <2>6, <2>11
<1> QED BY <1>4, <1>5

(* A wait: rows on every key, and nothing held.                            *)
LEMMA ParkMakes ==
  ASSUME NEW a, NEW w \in Works, NEW t, Ready(a, w)
  PROVE  LET b == Park(a, w, t)
         IN /\ b \in Tables /\ Ordered(b)
            /\ \A v \in Works : Whole(b, v) /\ Foreign(b, v)
            /\ \A v \in Works, k \in Keys :
                 b.holders[k][v] = IF v = w THEN "none" ELSE a.holders[k][v]
            /\ b.granted = a.granted /\ b.arrivals = a.arrivals
<1> DEFINE c == Clear(a, {w})
           q == [k \in Keys |-> c.waiters[k] \cup (IF k \in Own(w) THEN {w} ELSE {})]
           b == [c EXCEPT !.waiters = q]
<1>1. /\ c \in Tables /\ Ordered(c)
      /\ \A k \in Keys, v \in Works :
           /\ c.holders[k][v] = IF v \in {w} THEN "none" ELSE a.holders[k][v]
           /\ v \in c.waiters[k] <=> v \in a.waiters[k] /\ v \notin {w}
      /\ c.granted = a.granted
      /\ c.arrivals = a.arrivals
  BY ClearMakes DEF Ready
<1>2. Park(a, w, t) = b
  BY <1>1 DEF Park
<1> HIDE DEF c
<1>3. q \in [Keys -> SUBSET Works]
  BY <1>1, TableParts
<1>4. \A k \in Keys, v \in Works :
        v \in q[k] <=> IF v = w THEN k \in Own(w) ELSE v \in a.waiters[k]
  BY <1>1
<1> HIDE DEF q
<1>5. /\ b \in Tables /\ Ordered(b)
      /\ b.holders = c.holders /\ b.waiters = q /\ b.granted = a.granted
      /\ b.arrivals = a.arrivals
  BY <1>1, <1>3 DEF Tables, Ordered
<1> HIDE DEF b
<1>6. \A v \in Works, k \in Keys : b.holders[k][v] = IF v = w THEN "none" ELSE a.holders[k][v]
  BY <1>1, <1>5
<1>7. Foreign(b, w) /\ Whole(b, w)
  <2>1. Own(w) \subseteq Keys
    BY GroupAssumption DEF Own
  <2>2. RowsAre(b, w, "waiting")
    BY <1>4, <1>5, <1>6, <2>1 DEF RowsAre
  <2>3. Foreign(b, w)
    BY <1>4, <1>5, <1>6 DEF Foreign
  <2>4. w \notin b.granted /\ Has(b.arrivals, w)
    BY <1>5 DEF Ready
  <2> QED BY <2>2, <2>3, <2>4 DEF Whole, RowStates
<1>8. \A v \in Works \ {w} : Whole(b, v) /\ Foreign(b, v)
  <2> SUFFICES ASSUME NEW v \in Works \ {w} PROVE Whole(b, v) /\ Foreign(b, v)
    OBVIOUS
  <2>1. Whole(a, v) /\ Foreign(a, v)
    BY DEF Ready
  <2> QED BY <1>4, <1>5, <1>6, <2>1, RowsKept
<1> QED BY <1>2, <1>5, <1>6, <1>7, <1>8

-----------------------------------------------------------------------------
(* The steps.                                                              *)

LEMMA JobParts ==
  ASSUME TypeOK, NEW v \in Works
  PROVE  /\ job[v].status \in {"ready", "claimed", "running", "done"}
         /\ job[v].lease \in 0..Lease /\ job[v].cancel \in BOOLEAN /\ job[v].permit \in BOOLEAN
         /\ ttl[v] \in 0..Lease
         /\ job[v].lease \in Nat /\ ttl[v] \in Nat
BY GroupAssumption DEF TypeOK, Jobs

LEMMA LeaseNat == Lease \in Nat /\ Lease > 0 /\ Lease \in 0..Lease /\ 0 \in 0..Lease
BY GroupAssumption

(* Nobody new holds anything: the budgets are kept.                        *)
LEMMA FewerLive ==
  ASSUME IInv, \A k \in Keys : LiveHolders(adm, k)' \subseteq LiveHolders(adm, k)
  PROVE  BudgetInv'
<1> SUFFICES ASSUME NEW k \in Keys PROVE Within(LiveHolders(adm, k)', k)
  BY DEF BudgetInv, Within
<1>1. LiveHolders(adm, k)' \in SUBSET LiveHolders(adm, k)
  OBVIOUS
<1>2. Within(LiveHolders(adm, k), k)
  BY DEF IInv, BudgetInv
<1>3. LiveHolders(adm, k) \in SUBSET Takers(k)
  <2>1. \A v \in LiveHolders(adm, k) : v \in Works /\ adm.holders[k][v] = "live"
    BY DEF LiveHolders
  <2> QED BY <2>1 DEF IInv, WholeInv, Foreign, Takers
<1> DEFINE new == LiveHolders(adm, k)'
<1> HIDE DEF new
<1>4. new \in SUBSET LiveHolders(adm, k)
  BY <1>1 DEF new
<1>5. Within(new, k)
  BY <1>2, <1>3, <1>4, WithinShrinks
<1> QED BY <1>5 DEF new

(* The tables stay as they are.                                            *)
LEMMA SameTables ==
  ASSUME IInv, UNCHANGED adm, \A v \in Works : ttl'[v] > 0 => ttl[v] > 0
  PROVE  WholeInv' /\ BudgetInv'
<1>1. WholeInv'
  BY DEF IInv, WholeInv, Whole, RowsAre, Foreign
<1>2. \A k \in Keys : LiveHolders(adm, k)' \subseteq LiveHolders(adm, k)
  BY DEF LiveHolders
<1> QED BY <1>1, <1>2, FewerLive

(* Rows are discarded.                                                     *)
LEMMA Discarded ==
  ASSUME IInv, NEW ws, adm' = Discard(adm, ws), \A v \in Works : ttl'[v] > 0 => ttl[v] > 0
  PROVE  /\ adm' \in Tables /\ IsOrder(adm'.arrivals) /\ IsOrder(adm'.claims)
         /\ WholeInv' /\ BudgetInv'
         /\ \A v \in Works, k \in Keys : adm'.holders[k][v] = IF v \in ws THEN "none" ELSE adm.holders[k][v]
         /\ adm'.granted = adm.granted \ ws
         /\ adm'.arrivals \subseteq adm.arrivals
<1> DEFINE b == Discard(adm, ws)
<1>1. adm \in Tables /\ Ordered(adm)
  BY DEF IInv, TypeOK, Ordered
<1>2. /\ b \in Tables /\ Ordered(b)
      /\ \A k \in Keys, v \in Works :
           /\ b.holders[k][v] = IF v \in ws THEN "none" ELSE adm.holders[k][v]
           /\ v \in b.waiters[k] <=> v \in adm.waiters[k] /\ v \notin ws
      /\ b.granted = adm.granted \ ws
      /\ b.arrivals \subseteq adm.arrivals
      /\ \A v \in Works : Has(b.arrivals, v) <=> Has(adm.arrivals, v) /\ v \notin ws
  BY <1>1, DiscardMakes
<1>3. \A v \in Works : Whole(b, v) /\ Foreign(b, v)
  BY <1>1, DiscardWhole DEF IInv, WholeInv
<1> HIDE DEF b
<1>4. adm' = b
  BY DEF b
<1>5. WholeInv'
  BY <1>3, <1>4 DEF WholeInv, Whole, RowsAre, Foreign
<1>6. \A k \in Keys : LiveHolders(adm, k)' \subseteq LiveHolders(adm, k)
  BY <1>2, <1>4 DEF LiveHolders
<1>7. BudgetInv'
  BY <1>6, FewerLive
<1> QED BY <1>2, <1>4, <1>5, <1>7 DEF Ordered

LEMMA SettleKeeps ==
  ASSUME IInv, NEW w \in Works, Settle(w), ticks' \in 0..MaxTicks
  PROVE  IInv' /\ adm'.arrivals \subseteq adm.arrivals
<1>1. /\ job' = [job EXCEPT ![w] = [FreshJob EXCEPT !.status = "done"]]
      /\ adm' = Discard(adm, {w})
      /\ ttl' = [ttl EXCEPT ![w] = 0]
      /\ late' = late \ {w}
  BY DEF Settle
<1>2. job \in [Works -> Jobs] /\ ttl \in [Works -> 0..Lease] /\ late \subseteq Works
  BY DEF IInv, TypeOK
<1>3. \A v \in Works : ttl'[v] > 0 => ttl[v] > 0
  BY <1>1, <1>2
<1> DEFINE ws == {w}
<1>4. adm' = Discard(adm, ws)
  BY <1>1
<1>5. /\ adm' \in Tables /\ IsOrder(adm'.arrivals) /\ IsOrder(adm'.claims)
      /\ WholeInv' /\ BudgetInv'
      /\ \A v \in Works, k \in Keys : adm'.holders[k][v] = IF v \in ws THEN "none" ELSE adm.holders[k][v]
      /\ adm'.granted = adm.granted \ ws
      /\ adm'.arrivals \subseteq adm.arrivals
  <2> HIDE DEF ws
  <2> QED BY <1>3, <1>4, Discarded
<1>6. TypeOK'
  <2>1. [FreshJob EXCEPT !.status = "done"] \in Jobs
    BY LeaseNat DEF FreshJob, Jobs
  <2>2. job' \in [Works -> Jobs] /\ ttl' \in [Works -> 0..Lease] /\ late' \subseteq Works
    BY <1>1, <1>2, <2>1, LeaseNat
  <2> QED BY <1>5, <2>2 DEF TypeOK
<1>7. JobInv'
  <2> SUFFICES ASSUME NEW v \in Works PROVE Agrees(v)'
    BY DEF JobInv
  <2>1. CASE v = w
    <3>1. job'[w] = [FreshJob EXCEPT !.status = "done"]
      BY <1>1, <1>2
    <3>2. job'[w].status = "done" /\ ~job'[w].permit
      BY <3>1 DEF FreshJob
    <3>3. \A k \in Keys : adm'.holders[k][w] = "none"
      BY <1>5
    <3> QED BY <2>1, <3>2, <3>3 DEF Agrees
  <2>2. CASE v # w
    <3>1. job'[v] = job[v] /\ ttl'[v] = ttl[v]
      BY <1>1, <1>2, <2>2
    <3>2. Agrees(v)
      BY DEF IInv, JobInv
    <3> QED BY <1>5, <2>2, <3>1, <3>2 DEF Agrees
  <2> QED BY <2>1, <2>2
<1> QED BY <1>5, <1>6, <1>7 DEF IInv

(* An admission: granted whole, parked whole, or settled.                  *)
LEMMA MayStartKeeps ==
  ASSUME IInv, NEW w \in Works, MayStart(w)
  PROVE  /\ IInv'
         /\ \A u \in Works, v \in Works \ {w} : <<u, v>> \in adm'.arrivals => <<u, v>> \in adm.arrivals
         /\ Retained(w) => adm'.arrivals \subseteq adm.arrivals
<1> DEFINE a == Arrived(w)
           t == Trial(a, w, Waited(w))
<1>1. /\ job[w].status = "claimed" /\ job[w].lease > 0 /\ ~job[w].cancel
      /\ UNCHANGED ticks
  BY DEF MayStart
<1>2. /\ Ready(a, w)
      /\ a.granted = adm.granted \ {w}
      /\ \A v \in Works \ {w}, k \in Keys : a.holders[k][v] = adm.holders[k][v]
      /\ \A u \in Works, v \in Works \ {w} : <<u, v>> \in a.arrivals => <<u, v>> \in adm.arrivals
      /\ Retained(w) => a.arrivals = adm.arrivals
  BY <1>1, ArrivedReady
<1>3. \/ /\ t.kind \in {"granted", "queued"}
         /\ \E n \in job[w].lease..Lease : ttl' = [ttl EXCEPT ![w] = n]
         /\ late' = IF Retained(w) THEN late ELSE late \ {w}
         /\ adm' = IF t.kind = "granted" THEN [t.adm EXCEPT !.granted = @ \cup {w}]
                   ELSE Park(a, w, t)
         /\ job' = [v \in Works |->
                      IF v = w THEN [job[v] EXCEPT !.permit = TRUE]
                      ELSE [job[v] EXCEPT !.cancel = @ \/ (t.kind = "granted" /\ v \in t.victims)]]
      \/ t.kind \in {"skipped", "failed"} /\ Settle(w)
  BY DEF MayStart
<1> HIDE DEF a
<1>4. /\ t \in Trials
      /\ t.kind = "granted" => Tried(t.adm, t.victims, a, w, Own(w))
  BY <1>2, TrialMakes
<1> HIDE DEF t
<1>5. TypeOK /\ job \in [Works -> Jobs] /\ ttl \in [Works -> 0..Lease] /\ late \subseteq Works
  BY DEF IInv, TypeOK
<1>6. CASE t.kind \in {"skipped", "failed"} /\ Settle(w)
  <2>1. ticks' \in 0..MaxTicks
    BY <1>1, <1>5 DEF TypeOK
  <2> QED BY <1>6, <2>1, SettleKeeps, TableParts DEF IInv, TypeOK
<1>7. ASSUME t.kind \in {"granted", "queued"},
             NEW n \in job[w].lease..Lease, ttl' = [ttl EXCEPT ![w] = n],
             late' = IF Retained(w) THEN late ELSE late \ {w},
             adm' = IF t.kind = "granted" THEN [t.adm EXCEPT !.granted = @ \cup {w}]
                    ELSE Park(a, w, t),
             job' = [v \in Works |->
                      IF v = w THEN [job[v] EXCEPT !.permit = TRUE]
                      ELSE [job[v] EXCEPT !.cancel = @ \/ (t.kind = "granted" /\ v \in t.victims)]]
      PROVE  IInv' /\ adm'.arrivals \subseteq a.arrivals
  <2>1. n \in Nat /\ n > 0 /\ n >= job[w].lease /\ n \in 0..Lease
    BY <1>1, <1>5, JobParts, LeaseNat
  <2>2. ttl' \in [Works -> 0..Lease] /\ late' \subseteq Works
    BY <1>5, <1>7, <2>1
  <2>3. /\ ttl'[w] = n
        /\ \A v \in Works \ {w} : ttl'[v] = ttl[v]
    BY <1>5, <1>7
  <2>4. job' \in [Works -> Jobs]
    <3> SUFFICES ASSUME NEW v \in Works PROVE job'[v] \in Jobs
      BY <1>7
    <3>1. job[v] \in Jobs
      BY <1>5
    <3>2. CASE v = w
      BY <1>7, <3>1, <3>2 DEF Jobs
    <3>3. CASE v # w
      <4>1. job'[v] = [job[v] EXCEPT !.cancel = job[v].cancel \/ (t.kind = "granted" /\ v \in t.victims)]
        BY <1>7, <3>3
      <4> QED BY <3>1, <4>1 DEF Jobs
    <3> QED BY <3>2, <3>3
  <2>5. /\ job'[w].status = "claimed" /\ job'[w].lease = job[w].lease /\ job'[w].permit
        /\ job'[w].cancel = job[w].cancel
    BY <1>1, <1>5, <1>7 DEF Jobs
  <2>6. ASSUME NEW v \in Works \ {w}
        PROVE  /\ job'[v].status = job[v].status /\ job'[v].lease = job[v].lease
               /\ job'[v].permit = job[v].permit
               /\ job[v].cancel => job'[v].cancel
               /\ t.kind = "granted" /\ v \in t.victims => job'[v].cancel
    <3>1. job[v] \in Jobs
      BY <1>5
    <3>2. job'[v] = [job[v] EXCEPT !.cancel = job[v].cancel \/ (t.kind = "granted" /\ v \in t.victims)]
      BY <1>7
    <3> QED BY <3>1, <3>2 DEF Jobs
  <2>7. CASE t.kind = "granted"
    <3> DEFINE b == t.adm
               c == [b EXCEPT !.granted = @ \cup {w}]
    <3>1. Tried(b, t.victims, a, w, Own(w)) /\ adm' = c
      BY <1>4, <1>7, <2>7
    <3> HIDE DEF b
    <3>2. b \in Tables /\ Ordered(b) /\ Own(w) \subseteq Keys
      BY <3>1, GroupAssumption DEF Tried, Own
    <3>3. /\ c \in Tables /\ Ordered(c)
          /\ c.holders = b.holders /\ c.waiters = b.waiters /\ c.arrivals = b.arrivals
          /\ c.granted = b.granted \cup {w}
      BY <3>2 DEF Tables, Ordered
    <3> HIDE DEF c
    <3>4. TypeOK'
      BY <1>1, <1>5, <2>2, <2>4, <3>1, <3>3 DEF TypeOK, Ordered
    <3>5. \A v \in Works : Whole(c, v) /\ Foreign(c, v)
      <4> SUFFICES ASSUME NEW v \in Works PROVE Whole(c, v) /\ Foreign(c, v)
        OBVIOUS
      <4>1. CASE v = w
        <5>1. Foreign(b, w)
          BY <3>1 DEF Tried
        <5>2. RowsAre(c, w, "live")
          BY <3>1, <3>3 DEF RowsAre, Tried
        <5>3. Has(c.arrivals, w)
          BY <3>1, <3>3 DEF Tried
        <5> QED BY <3>3, <4>1, <5>1, <5>2, <5>3 DEF Whole, Foreign, RowStates
      <4>2. CASE v # w
        <5>1. Whole(b, v) /\ Foreign(b, v)
          BY <3>1, <4>2 DEF Tried
        <5> QED BY <3>3, <4>2, <5>1, RowsKept
      <4> QED BY <4>1, <4>2
    <3>6. WholeInv'
      BY <3>1, <3>5 DEF WholeInv, Whole, RowsAre, Foreign
    <3>7. BudgetInv'
      <4> SUFFICES ASSUME NEW k \in Keys PROVE Within(LiveHolders(adm, k)', k)
        BY DEF BudgetInv, Within
      <4>1. LiveHolders(adm, k)' = LiveWith(b, w, k)
        BY <2>1, <2>3, <3>1, <3>3 DEF LiveHolders, LiveWith
      <4> QED BY <3>1, <4>1 DEF Tried
    <3>8. JobInv'
      <4> SUFFICES ASSUME NEW v \in Works PROVE Agrees(v)'
        BY DEF JobInv
      <4>1. CASE v = w
        <5>1. \A k \in Keys : adm'.holders[k][w] # "superseded"
          BY <3>1, <3>3 DEF Tried, Foreign
        <5> QED BY <2>1, <2>3, <2>5, <4>1, <5>1 DEF Agrees
      <4>2. CASE v # w
        <5>1. Agrees(v)
          BY DEF IInv, JobInv
        <5>2. ttl'[v] = ttl[v]
          BY <2>3, <4>2
        <5>3. ASSUME NEW k \in Keys, adm'.holders[k][v] = "superseded" PROVE job'[v].cancel
          <6>1. a.holders[k][v] = "superseded" \/ v \in t.victims
            BY <3>1, <3>3, <4>2, <5>3 DEF Tried
          <6>2. a.holders[k][v] = adm.holders[k][v]
            BY <1>2, <4>2
          <6> QED BY <2>6, <2>7, <4>2, <5>1, <6>1, <6>2 DEF Agrees
        <5>4. ASSUME NEW k \in Keys, job'[v].status = "done" PROVE adm'.holders[k][v] = "none"
          <6>1. adm.holders[k][v] = "none"
            BY <2>6, <4>2, <5>1, <5>4 DEF Agrees
          <6>2. a.holders[k][v] = "none"
            BY <1>2, <4>2, <6>1
          <6> QED BY <3>1, <3>3, <4>2, <6>2 DEF Tried
        <5>5. ASSUME job'[v].status = "running", ~job'[v].cancel, job'[v].lease > 0
              PROVE  v \in adm'.granted
          <6>1. /\ job[v].status = "running" /\ ~job[v].cancel /\ job[v].lease > 0
                /\ v \notin t.victims
            BY <2>6, <2>7, <4>2, <5>5
          <6>2. v \in a.granted /\ ttl[v] >= job[v].lease
            BY <1>2, <4>2, <5>1, <6>1 DEF Agrees
          <6>3. WorkLive(v)
            BY <1>5, <6>1, <6>2, JobParts DEF WorkLive
          <6> QED BY <3>1, <3>3, <6>1, <6>2, <6>3 DEF Tried
        <5> QED BY <2>6, <4>2, <5>1, <5>2, <5>3, <5>4, <5>5 DEF Agrees
      <4> QED BY <4>1, <4>2
    <3>9. adm'.arrivals \subseteq a.arrivals
      BY <3>1, <3>3 DEF Tried
    <3> QED BY <3>4, <3>6, <3>7, <3>8, <3>9 DEF IInv
  <2>8. CASE t.kind = "queued"
    <3> DEFINE b == Park(a, w, t)
    <3>1. adm' = b
      BY <1>7, <2>8
    <3>2. /\ b \in Tables /\ Ordered(b)
          /\ \A v \in Works : Whole(b, v) /\ Foreign(b, v)
          /\ \A v \in Works, k \in Keys :
               b.holders[k][v] = IF v = w THEN "none" ELSE a.holders[k][v]
          /\ b.granted = a.granted /\ b.arrivals = a.arrivals
      BY <1>2, ParkMakes
    <3> HIDE DEF b
    <3>3. TypeOK'
      BY <1>1, <1>5, <2>2, <2>4, <3>1, <3>2 DEF TypeOK, Ordered
    <3>4. WholeInv'
      BY <3>1, <3>2 DEF WholeInv, Whole, RowsAre, Foreign
    <3>5. BudgetInv'
      <4>1. \A k \in Keys : LiveHolders(adm, k)' \subseteq LiveHolders(adm, k)
        BY <1>2, <2>3, <3>1, <3>2 DEF LiveHolders
      <4> QED BY <4>1, FewerLive
    <3>6. JobInv'
      <4> SUFFICES ASSUME NEW v \in Works PROVE Agrees(v)'
        BY DEF JobInv
      <4>1. CASE v = w
        BY <2>1, <2>3, <2>5, <3>1, <3>2, <4>1 DEF Agrees
      <4>2. CASE v # w
        <5>1. Agrees(v)
          BY DEF IInv, JobInv
        <5>2. /\ ttl'[v] = ttl[v] /\ (v \in adm.granted => v \in adm'.granted)
              /\ \A k \in Keys : adm'.holders[k][v] = adm.holders[k][v]
          BY <1>2, <2>3, <3>1, <3>2, <4>2
        <5> QED BY <2>6, <4>2, <5>1, <5>2 DEF Agrees
      <4> QED BY <4>1, <4>2
    <3>7. adm'.arrivals \subseteq a.arrivals
      BY <3>1, <3>2
    <3> QED BY <3>3, <3>4, <3>5, <3>6, <3>7 DEF IInv
  <2> QED BY <1>7, <2>7, <2>8
<1>8. ASSUME IInv', adm'.arrivals \subseteq a.arrivals
      PROVE  /\ IInv'
             /\ \A u \in Works, v \in Works \ {w} : <<u, v>> \in adm'.arrivals => <<u, v>> \in adm.arrivals
             /\ Retained(w) => adm'.arrivals \subseteq adm.arrivals
  BY <1>2, <1>8
<1> QED BY <1>3, <1>6, <1>7, <1>8

(* The steps that leave the tables alone: the types, and then the jobs.    *)
LEMMA JobStep ==
  ASSUME IInv, UNCHANGED adm, \A v \in Works : ttl'[v] > 0 => ttl[v] > 0,
         job' \in [Works -> Jobs], ttl' \in [Works -> 0..Lease],
         late' \subseteq Works, ticks' \in 0..MaxTicks, JobInv'
  PROVE  IInv'
<1>1. WholeInv' /\ BudgetInv'
  BY SameTables
<1>2. TypeOK'
  BY DEF IInv, TypeOK
<1> QED BY <1>1, <1>2 DEF IInv

(* Only the job of w changes.                                              *)
LEMMA OneJobStep ==
  ASSUME IInv, NEW w \in Works, UNCHANGED <<adm, late>>, NEW j \in Jobs,
         job' = [job EXCEPT ![w] = j],
         ttl' \in [Works -> 0..Lease], \A v \in Works \ {w} : ttl'[v] = ttl[v],
         ttl'[w] > 0 => ttl[w] > 0, ticks' \in 0..MaxTicks,
         Agrees(w)'
  PROVE  IInv'
<1>1. job \in [Works -> Jobs] /\ late \subseteq Works
  BY DEF IInv, TypeOK
<1>2. job' \in [Works -> Jobs]
  BY <1>1
<1>3. JobInv'
  <2> SUFFICES ASSUME NEW v \in Works, v # w PROVE Agrees(v)'
    BY DEF JobInv
  <2>1. job'[v] = job[v] /\ ttl'[v] = ttl[v]
    BY <1>1
  <2>2. Agrees(v)
    BY DEF IInv, JobInv
  <2> QED BY <2>1, <2>2 DEF Agrees
<1>4. \A v \in Works : ttl'[v] > 0 => ttl[v] > 0
  OBVIOUS
<1>5. late' \subseteq Works
  BY <1>1
<1> QED BY <1>2, <1>3, <1>4, <1>5, JobStep

LEMMA InitHolds == Init => IInv
<1> SUFFICES ASSUME Init PROVE IInv
  OBVIOUS
<1>1. /\ job = [w \in Works |-> FreshJob] /\ adm = NoRows
      /\ ttl = [w \in Works |-> 0] /\ late = {} /\ ticks = 0
  BY DEF Init
<1>2. FreshJob \in Jobs
  BY LeaseNat DEF FreshJob, Jobs
<1>3. /\ adm \in Tables /\ adm.arrivals = {} /\ adm.claims = {} /\ adm.granted = {}
      /\ \A k \in Keys, v \in Works : adm.holders[k][v] = "none" /\ v \notin adm.waiters[k]
  BY <1>1 DEF NoRows, Tables
<1>4. IsOrder(adm.arrivals) /\ IsOrder(adm.claims)
  BY <1>3 DEF IsOrder, Has
<1>5. TypeOK
  BY <1>1, <1>2, <1>3, <1>4, GroupAssumption DEF TypeOK
<1>6. WholeInv
  BY <1>3, RowsGone DEF WholeInv
<1>7. BudgetInv
  BY <1>1, <1>3 DEF BudgetInv, Within, LiveHolders
<1>8. JobInv
  BY <1>1, <1>3 DEF JobInv, Agrees, FreshJob
<1> QED BY <1>5, <1>6, <1>7, <1>8 DEF IInv

(* Every step keeps the invariant, and none but an arrival moves anybody   *)
(* ahead of anybody.                                                       *)
LEMMA StepHolds ==
  ASSUME IInv, [Next]_vars
  PROVE  /\ IInv'
         /\ \/ adm'.arrivals \subseteq adm.arrivals
            \/ \E w \in Works : MayStart(w)
<1>1. /\ TypeOK /\ job \in [Works -> Jobs] /\ ttl \in [Works -> 0..Lease]
      /\ late \subseteq Works /\ ticks \in 0..MaxTicks /\ MaxTicks \in Nat
  BY GroupAssumption DEF IInv, TypeOK
<1>2. \A v \in Works : Agrees(v)
  BY DEF IInv, JobInv
<1>3. CASE UNCHANGED vars
  <2>1. UNCHANGED <<job, adm, ttl, late, ticks>>
    BY <1>3 DEF vars
  <2>2. JobInv'
    BY <1>2, <2>1 DEF JobInv, Agrees
  <2> QED BY <1>1, <2>1, <2>2, JobStep
<1>4. ASSUME NEW w \in Works, ClaimUnit(w)
      PROVE  IInv' /\ UNCHANGED adm
  <2> DEFINE j == [FreshJob EXCEPT !.status = "claimed", !.lease = Lease]
  <2>1. /\ ~job[w].cancel /\ job' = [job EXCEPT ![w] = j]
        /\ UNCHANGED <<adm, ttl, late, ticks>>
    BY <1>4 DEF ClaimUnit, Unchanged
  <2>2. j \in Jobs /\ ~j.permit /\ j.status = "claimed" /\ ~j.cancel
    BY LeaseNat DEF FreshJob, Jobs
  <2> HIDE DEF j
  <2>3. job'[w] = j
    BY <1>1, <2>1
  <2>4. Agrees(w)'
    BY <1>2, <2>1, <2>2, <2>3 DEF Agrees
  <2> QED BY <1>1, <2>1, <2>2, <2>4, OneJobStep
<1>5. ASSUME NEW w \in Works, StartExecution(w)
      PROVE  IInv' /\ UNCHANGED adm
  <2> DEFINE j == [job[w] EXCEPT !.status = "running"]
  <2>1. /\ job[w].permit /\ w \in adm.granted
        /\ job' = [job EXCEPT ![w] = j]
        /\ UNCHANGED <<adm, ttl, late, ticks>>
    BY <1>5 DEF StartExecution, Unchanged
  <2>2. /\ j \in Jobs /\ j.status = "running" /\ j.permit = job[w].permit
        /\ j.cancel = job[w].cancel /\ j.lease = job[w].lease
    BY <1>1 DEF Jobs
  <2> HIDE DEF j
  <2>3. job'[w] = j
    BY <1>1, <2>1
  <2>4. Agrees(w)'
    BY <1>2, <2>1, <2>2, <2>3 DEF Agrees
  <2> QED BY <1>1, <2>1, <2>2, <2>4, OneJobStep
<1>6. ASSUME NEW w \in Works, Report(w) \/ OwnerCancel(w)
      PROVE  IInv' /\ adm'.arrivals \subseteq adm.arrivals
  <2>1. Settle(w) /\ UNCHANGED ticks
    BY <1>6 DEF Report, OwnerCancel
  <2> QED BY <1>1, <2>1, SettleKeeps
<1>7. ASSUME NEW w \in Works, GiveBack(w)
      PROVE  IInv' /\ adm'.arrivals \subseteq adm.arrivals
  <2> DEFINE ws == {w}
  <2>1. /\ job' = [job EXCEPT ![w] = FreshJob] /\ adm' = Discard(adm, ws)
        /\ ttl' = [ttl EXCEPT ![w] = 0] /\ late' = late \ {w}
        /\ ticks < MaxTicks /\ ticks' = ticks + 1
    BY <1>7 DEF GiveBack
  <2>2. \A v \in Works : ttl'[v] > 0 => ttl[v] > 0
    BY <1>1, <2>1
  <2>3. /\ adm' \in Tables /\ IsOrder(adm'.arrivals) /\ IsOrder(adm'.claims)
        /\ WholeInv' /\ BudgetInv'
        /\ \A v \in Works, k \in Keys : adm'.holders[k][v] = IF v \in ws THEN "none" ELSE adm.holders[k][v]
        /\ adm'.granted = adm.granted \ ws
        /\ adm'.arrivals \subseteq adm.arrivals
    <3> HIDE DEF ws
    <3> QED BY <2>1, <2>2, Discarded
  <2>4. TypeOK'
    <3>1. FreshJob \in Jobs
      BY LeaseNat DEF FreshJob, Jobs
    <3>2. /\ job' \in [Works -> Jobs] /\ ttl' \in [Works -> 0..Lease] /\ late' \subseteq Works
          /\ ticks' \in 0..MaxTicks
      BY <1>1, <2>1, <3>1, LeaseNat
    <3> QED BY <2>3, <3>2 DEF TypeOK
  <2>5. JobInv'
    <3> SUFFICES ASSUME NEW v \in Works PROVE Agrees(v)'
      BY DEF JobInv
    <3>1. CASE v = w
      <4>1. job'[w].status = "ready" /\ ~job'[w].permit
        BY <1>1, <2>1 DEF FreshJob
      <4>2. \A k \in Keys : adm'.holders[k][w] = "none"
        BY <2>3
      <4> QED BY <3>1, <4>1, <4>2 DEF Agrees
    <3>2. CASE v # w
      <4>1. job'[v] = job[v] /\ ttl'[v] = ttl[v]
        BY <1>1, <2>1, <3>2
      <4> QED BY <1>2, <2>3, <3>2, <4>1 DEF Agrees
    <3> QED BY <3>1, <3>2
  <2> QED BY <2>3, <2>4, <2>5 DEF IInv
<1>8. ASSUME NEW w \in Works, Renew(w)
      PROVE  IInv' /\ UNCHANGED adm
  <2> DEFINE j == [job[w] EXCEPT !.lease = Lease]
  <2>1. /\ job[w].lease > 0 /\ job' = [job EXCEPT ![w] = j]
        /\ ttl' = IF ttl[w] > 0 /\ ~job[w].cancel THEN [ttl EXCEPT ![w] = Lease] ELSE ttl
        /\ UNCHANGED <<adm, late, ticks>>
    BY <1>8 DEF Renew, RenewedCapacity
  <2>2. j \in Jobs /\ j.permit = job[w].permit /\ j.cancel = job[w].cancel
        /\ j.status = job[w].status /\ j.lease = Lease
    BY <1>1, LeaseNat DEF Jobs
  <2> HIDE DEF j
  <2>3. job'[w] = j
    BY <1>1, <2>1
  <2>4. /\ ttl' \in [Works -> 0..Lease] /\ \A v \in Works \ {w} : ttl'[v] = ttl[v]
        /\ ttl'[w] > 0 => ttl[w] > 0
        /\ ttl[w] > 0 /\ ~job[w].cancel => ttl'[w] = Lease
    BY <1>1, <2>1, LeaseNat
  <2>5. job[w].permit /\ ~job[w].cancel => ttl[w] > 0
    BY <1>1, <1>2, <2>1, JobParts DEF Agrees
  <2>6. Agrees(w)'
    BY <1>2, <2>1, <2>2, <2>3, <2>4, <2>5, LeaseNat DEF Agrees
  <2> QED BY <1>1, <2>1, <2>2, <2>4, <2>6, OneJobStep
<1>9. ASSUME NEW w \in Works, OwnerRenew(w)
      PROVE  IInv' /\ UNCHANGED adm
  <2>1. /\ ttl' = IF ttl[w] > 0 /\ ~job[w].cancel THEN [ttl EXCEPT ![w] = Lease] ELSE ttl
        /\ UNCHANGED <<job, adm, late, ticks>>
    BY <1>9 DEF OwnerRenew, RenewedCapacity
  <2>2. /\ ttl' \in [Works -> 0..Lease]
        /\ \A v \in Works : (ttl'[v] > 0 => ttl[v] > 0) /\ ttl'[v] >= ttl[v]
    BY <1>1, <2>1, JobParts, LeaseNat
  <2>3. JobInv'
    <3> SUFFICES ASSUME NEW v \in Works PROVE Agrees(v)'
      BY DEF JobInv
    <3>1. ttl'[v] \in Nat /\ ttl[v] \in Nat /\ job[v].lease \in Nat /\ ttl'[v] >= ttl[v]
      BY <1>1, <2>2, JobParts, LeaseNat
    <3> QED BY <1>2, <2>1, <3>1 DEF Agrees
  <2> QED BY <1>1, <2>1, <2>2, <2>3, JobStep
<1>10. ASSUME NEW w \in Works, Reap(w)
       PROVE  IInv' /\ adm'.arrivals \subseteq adm.arrivals
  <2>1. CASE Settle(w)
    <3>1. UNCHANGED ticks
      BY <1>10 DEF Reap
    <3> QED BY <1>1, <2>1, <3>1, SettleKeeps
  <2>2. CASE ~job[w].cancel /\ job' = [job EXCEPT ![w] = FreshJob] /\ UNCHANGED <<adm, ttl, late>>
    <3>1. UNCHANGED <<adm, ttl, late, ticks>>
      BY <1>10, <2>2 DEF Reap
    <3>2. FreshJob \in Jobs /\ ~FreshJob.permit /\ FreshJob.status = "ready" /\ ~FreshJob.cancel
      BY LeaseNat DEF FreshJob, Jobs
    <3>3. job'[w] = FreshJob
      BY <1>1, <2>2
    <3>4. Agrees(w)'
      BY <1>2, <2>2, <3>1, <3>2, <3>3 DEF Agrees
    <3> QED BY <1>1, <2>2, <3>1, <3>2, <3>4, OneJobStep
  <2> QED BY <1>10, <2>1, <2>2 DEF Reap
<1>11. ASSUME NEW w \in Works, Cancel(w)
       PROVE  IInv' /\ adm'.arrivals \subseteq adm.arrivals
  <2>1. ticks' \in 0..MaxTicks
    BY <1>1, <1>11 DEF Cancel
  <2>2. CASE Settle(w)
    BY <2>1, <2>2, SettleKeeps
  <2>3. CASE job' = [job EXCEPT ![w].cancel = TRUE] /\ UNCHANGED <<adm, ttl, late>>
    <3> DEFINE j == [job[w] EXCEPT !.cancel = TRUE]
    <3>1. job' = [job EXCEPT ![w] = j]
      BY <2>3
    <3>2. j \in Jobs /\ j.permit = job[w].permit /\ j.cancel /\ j.status = job[w].status
      BY <1>1 DEF Jobs
    <3> HIDE DEF j
    <3>3. job'[w] = j
      BY <1>1, <3>1
    <3>4. Agrees(w)'
      BY <1>2, <2>3, <3>2, <3>3 DEF Agrees
    <3> QED BY <1>1, <2>1, <2>3, <3>1, <3>2, <3>4, OneJobStep
  <2> QED BY <1>11, <2>2, <2>3 DEF Cancel
<1>12. ASSUME NEW w \in Works, QueueDeadline(w)
       PROVE  IInv' /\ UNCHANGED adm
  <2>1. late' = late \cup {w} /\ UNCHANGED <<job, adm, ttl, ticks>>
    BY <1>12 DEF QueueDeadline
  <2>2. JobInv'
    BY <1>2, <2>1 DEF JobInv, Agrees
  <2> QED BY <1>1, <2>1, <2>2, JobStep
<1>13. ASSUME NEW w \in Works, NewRun(w)
       PROVE  IInv' /\ UNCHANGED adm
  <2>1. job[w].status = "done" /\ job' = [job EXCEPT ![w] = FreshJob]
        /\ UNCHANGED <<adm, ttl, late, ticks>>
    BY <1>13 DEF NewRun, Unchanged
  <2>2. FreshJob \in Jobs /\ ~FreshJob.permit /\ FreshJob.status = "ready" /\ ~FreshJob.cancel
    BY LeaseNat DEF FreshJob, Jobs
  <2>3. job'[w] = FreshJob
    BY <1>1, <2>1
  <2>4. Agrees(w)'
    BY <1>2, <2>1, <2>2, <2>3 DEF Agrees
  <2> QED BY <1>1, <2>1, <2>2, <2>4, OneJobStep
<1>14. ASSUME Maintain
       PROVE  IInv' /\ adm'.arrivals \subseteq adm.arrivals
  <2> DEFINE ws == Stale
  <2>1. adm' = Discard(adm, ws) /\ UNCHANGED <<job, ttl, late, ticks>>
    BY <1>14 DEF Maintain
  <2>2. \A v \in ws : ~WorkLive(v)
    BY DEF Stale
  <2> HIDE DEF ws
  <2>3. /\ adm' \in Tables /\ IsOrder(adm'.arrivals) /\ IsOrder(adm'.claims)
        /\ WholeInv' /\ BudgetInv'
        /\ \A v \in Works, k \in Keys : adm'.holders[k][v] = IF v \in ws THEN "none" ELSE adm.holders[k][v]
        /\ adm'.granted = adm.granted \ ws
        /\ adm'.arrivals \subseteq adm.arrivals
    BY <2>1, Discarded
  <2>4. TypeOK'
    BY <1>1, <2>1, <2>3 DEF TypeOK
  <2>5. JobInv'
    <3> SUFFICES ASSUME NEW v \in Works PROVE Agrees(v)'
      BY DEF JobInv
    <3>1. Agrees(v) /\ job'[v] = job[v] /\ ttl'[v] = ttl[v]
      BY <1>2, <2>1
    <3>2. ASSUME job[v].status = "running", ~job[v].cancel, job[v].lease > 0
          PROVE  v \in adm'.granted
      <4>1. WorkLive(v)
        BY <1>1, <3>1, <3>2, JobParts DEF Agrees, WorkLive
      <4> QED BY <2>2, <2>3, <3>1, <3>2, <4>1 DEF Agrees
    <3> QED BY <2>3, <3>1, <3>2 DEF Agrees
  <2> QED BY <2>3, <2>4, <2>5 DEF IInv
<1>15. ASSUME Tick
       PROVE  IInv' /\ UNCHANGED adm
  <2>1. /\ ticks < MaxTicks /\ ticks' = ticks + 1
        /\ job' = [v \in Works |-> [job[v] EXCEPT !.lease = Less(@)]]
        /\ ttl' = [v \in Works |-> Less(ttl[v])]
        /\ UNCHANGED <<adm, late>>
    BY <1>15 DEF Tick
  <2>2. \A n \in 0..Lease : Less(n) \in 0..Lease /\ (Less(n) > 0 => n > 0)
    BY LeaseNat DEF Less
  <2>3. ASSUME NEW v \in Works
        PROVE  /\ job'[v] \in Jobs /\ job'[v].status = job[v].status
               /\ job'[v].cancel = job[v].cancel /\ job'[v].permit = job[v].permit
               /\ job'[v].lease = Less(job[v].lease)
    <3>1. job'[v] = [job[v] EXCEPT !.lease = Less(job[v].lease)] /\ job[v] \in Jobs
      BY <1>1, <2>1
    <3>2. Less(job[v].lease) \in 0..Lease
      BY <1>1, <2>2, JobParts
    <3> QED BY <3>1, <3>2 DEF Jobs
  <2>4. /\ job' \in [Works -> Jobs] /\ ttl' \in [Works -> 0..Lease] /\ ticks' \in 0..MaxTicks
        /\ \A v \in Works : ttl'[v] > 0 => ttl[v] > 0
    <3>1. job' \in [Works -> Jobs]
      BY <2>1, <2>3
    <3>2. \A v \in Works : ttl[v] \in 0..Lease /\ ttl'[v] = Less(ttl[v])
      BY <1>1, <2>1
    <3> HIDE DEF Less
    <3>3. \A v \in Works : ttl'[v] \in 0..Lease /\ (ttl'[v] > 0 => ttl[v] > 0)
      BY <2>2, <3>2
    <3>4. ttl' \in [Works -> 0..Lease]
      BY <2>1, <3>3
    <3> QED BY <1>1, <2>1, <3>1, <3>3, <3>4
  <2>5. JobInv'
    <3> SUFFICES ASSUME NEW v \in Works PROVE Agrees(v)'
      BY DEF JobInv
    <3>1. \A n, m \in Nat : (n >= m => Less(n) >= Less(m)) /\ (Less(n) > 0 => n > 0)
      BY DEF Less
    <3>2. ttl'[v] = Less(ttl[v])
      BY <2>1
    <3>3. ttl[v] \in Nat /\ job[v].lease \in Nat
      BY <1>1, JobParts
    <3> QED BY <1>2, <2>1, <2>3, <3>1, <3>2, <3>3 DEF Agrees
  <2>6. late' \subseteq Works
    BY <1>1, <2>1
  <2> QED BY <2>1, <2>4, <2>5, <2>6, JobStep
<1>16. ASSUME NEW w \in Works, MayStart(w)
       PROVE  IInv'
  BY <1>16, MayStartKeeps
<1>17. CASE Next
  BY <1>4, <1>5, <1>6, <1>7, <1>8, <1>9, <1>10, <1>11, <1>12, <1>13, <1>14, <1>15, <1>16, <1>17 DEF Next
<1> QED BY <1>3, <1>17, <1>1

-----------------------------------------------------------------------------
(* The theorems.                                                           *)

(* The invariant holds whatever is declared, of any number of groups, by   *)
(* any number of works.                                                    *)
THEOREM GroupsSound == Spec => []IInv
<1>1. Init => IInv
  BY InitHolds
<1>2. IInv /\ [Next]_vars => IInv'
  BY StepHolds
<1> QED BY <1>1, <1>2, PTL DEF Spec

(* The tables and the jobs have their types, and works that arrived, or    *)
(* hold, did so one after the other.                                       *)
THEOREM GroupsTyped == Spec => []TypeOK
<1>1. IInv => TypeOK
  BY DEF IInv
<1> QED BY <1>1, GroupsSound, PTL

(* The rows of every work are all live, all superseded, all waiting or     *)
(* none, at every moment: admitWorkTx grants a set of groups whole.        *)
THEOREM SetsAreWhole == Spec => []WholeSets
<1>1. IInv => WholeSets
  <2> SUFFICES ASSUME IInv, NEW w \in Works
               PROVE  LET rows == {IF w \in adm.waiters[k] THEN "waiting" ELSE adm.holders[k][w] : k \in Own(w)}
                      IN /\ Cardinality(rows) = 1
                         /\ w \in adm.granted => rows = {"live"}
                         /\ rows # {"none"} => Has(adm.arrivals, w)
    BY DEF WholeSets
  <2> DEFINE rows == {IF w \in adm.waiters[k] THEN "waiting" ELSE adm.holders[k][w] : k \in Own(w)}
  <2>1. PICK s \in RowStates : /\ RowsAre(adm, w, s)
                               /\ w \in adm.granted => s = "live"
                               /\ s # "none" => Has(adm.arrivals, w)
    BY DEF IInv, WholeInv, Whole
  <2>2. PICK k \in Own(w) : TRUE
    BY GroupAssumption DEF Own
  <2>3. \A j \in Own(w) : (IF w \in adm.waiters[j] THEN "waiting" ELSE adm.holders[j][w]) = s
    BY <2>1 DEF RowsAre, RowStates
  <2>4. rows = {s}
    BY <2>2, <2>3
  <2>5. Cardinality({s}) = 1
    BY FS_Singleton
  <2> HIDE DEF rows
  <2>6. /\ Cardinality(rows) = 1
        /\ w \in adm.granted => rows = {"live"}
        /\ rows # {"none"} => Has(adm.arrivals, w)
    BY <2>1, <2>4, <2>5
  <2> QED BY <2>6 DEF rows
<1> QED BY <1>1, GroupsSound, PTL

(* What txCheckConcurrencyInvariants looks for is never there: the live    *)
(* holders of a group fit the least capacity one of them declared, and     *)
(* nobody holds and waits.                                                 *)
THEOREM NothingToReport == Spec => []InvariantsHold
<1>1. IInv => InvariantsHold
  <2> SUFFICES ASSUME IInv, NEW k \in Keys
               PROVE  /\ \A h \in LiveHolders(adm, k) : Used(adm, k) <= Declared[h][k].capacity
                      /\ LiveHolders(adm, k) \cap adm.waiters[k] = {}
    BY DEF InvariantsHold
  <2>1. \A h \in LiveHolders(adm, k) : Used(adm, k) <= Declared[h][k].capacity
    BY DEF IInv, BudgetInv, Within, Used
  <2>2. ASSUME NEW h \in LiveHolders(adm, k) PROVE h \notin adm.waiters[k]
    <3>1. h \in Works /\ adm.holders[k][h] = "live"
      BY DEF LiveHolders
    <3>2. Whole(adm, h) /\ Foreign(adm, h)
      BY <3>1 DEF IInv, WholeInv
    <3>3. k \in Own(h)
      BY <3>1, <3>2 DEF Foreign
    <3> QED BY <3>1, <3>2, <3>3 DEF Whole, RowsAre
  <2> QED BY <2>1, <2>2
<1> QED BY <1>1, GroupsSound, PTL

(* The jobs that run under a live award, and are not asked to stop, fit    *)
(* together in what each of them declared.                                 *)
THEOREM RunningFits == Spec => []RunningBudget
<1>1. IInv => RunningBudget
  <2> SUFFICES ASSUME IInv, NEW k \in Keys
               PROVE  Within({w \in Works : /\ k \in Own(w) /\ job[w].status = "running"
                                            /\ job[w].lease > 0 /\ ~job[w].cancel}, k)
    BY DEF RunningBudget, Within
  <2> DEFINE running == {w \in Works : /\ k \in Own(w) /\ job[w].status = "running"
                                       /\ job[w].lease > 0 /\ ~job[w].cancel}
  <2>1. ASSUME NEW w \in running PROVE w \in LiveHolders(adm, k)
    <3>1. w \in Works /\ Agrees(w) /\ Whole(adm, w) /\ TypeOK
      BY DEF IInv, JobInv, WholeInv
    <3>2. w \in adm.granted /\ ttl[w] >= job[w].lease
      BY <3>1 DEF Agrees
    <3>3. ttl[w] > 0
      BY <3>1, <3>2, JobParts
    <3>4. adm.holders[k][w] = "live"
      BY <3>1, <3>2 DEF Whole, RowsAre
    <3> QED BY <3>1, <3>3, <3>4 DEF LiveHolders
  <2>2. LiveHolders(adm, k) \in SUBSET Takers(k)
    <3>1. \A v \in LiveHolders(adm, k) : v \in Works /\ adm.holders[k][v] = "live"
      BY DEF LiveHolders
    <3> QED BY <3>1 DEF IInv, WholeInv, Foreign, Takers
  <2>3. Within(LiveHolders(adm, k), k)
    BY DEF IInv, BudgetInv
  <2> HIDE DEF running
  <2>4. running \in SUBSET LiveHolders(adm, k)
    BY <2>1
  <2>5. Within(running, k)
    BY <2>2, <2>3, <2>4, WithinShrinks
  <2> QED BY <2>5 DEF running
<1> QED BY <1>1, GroupsSound, PTL

(* A live waiter keeps its place: an admission puts nobody before it, and  *)
(* its own polls find it Retained.                                         *)
THEOREM PlacesAreKept == Spec => ArrivalsKept
<1>1. ASSUME IInv, [Next]_vars, NEW v \in Works, Waiting(v), ttl[v] > 0
      PROVE  Ahead(adm'.arrivals, v) \subseteq Ahead(adm.arrivals, v)
  <2>1. CASE adm'.arrivals \subseteq adm.arrivals
    BY <2>1 DEF Ahead, Before
  <2>2. ASSUME NEW w \in Works, MayStart(w)
        PROVE  Ahead(adm'.arrivals, v) \subseteq Ahead(adm.arrivals, v)
    <3>1. /\ \A x \in Works, y \in Works \ {w} : <<x, y>> \in adm'.arrivals => <<x, y>> \in adm.arrivals
          /\ Retained(w) => adm'.arrivals \subseteq adm.arrivals
      BY <1>1, <2>2, MayStartKeeps
    <3>2. CASE v # w
      BY <3>1, <3>2 DEF Ahead, Before
    <3>3. CASE v = w
      <4>1. PICK s \in RowStates : RowsAre(adm, v, s) /\ (s # "none" => Has(adm.arrivals, v))
        BY <1>1 DEF IInv, WholeInv, Whole
      <4>2. s = "waiting"
        BY <1>1, <4>1 DEF Waiting, RowsAre
      <4>3. Retained(v)
        BY <1>1, <4>1, <4>2 DEF Retained, RowsAre
      <4> QED BY <3>1, <3>3, <4>3, <2>1
    <3> QED BY <3>2, <3>3
  <2>3. adm'.arrivals \subseteq adm.arrivals \/ \E w \in Works : MayStart(w)
    BY <1>1, StepHolds
  <2> QED BY <2>1, <2>2, <2>3
<1>2. IInv /\ [Next]_vars =>
        [\A v \in Works : (Waiting(v) /\ ttl[v] > 0 /\ Waiting(v)')
                          => Ahead(adm'.arrivals, v) \subseteq Ahead(adm.arrivals, v)]_vars
  BY <1>1
<1> QED BY <1>2, GroupsSound, PTL DEF Spec, ArrivalsKept
=============================================================================
