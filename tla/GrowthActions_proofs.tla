------------------------- MODULE GrowthActions_proofs -------------------------
(***************************************************************************)
(* Machine-checked theorems about GrowthActions, for any requests, any      *)
(* recommendations and runs, any proposals and any allowance.               *)
(***************************************************************************)
EXTENDS GrowthActions, FiniteSetTheorems, SequenceTheorems, TLAPS

-----------------------------------------------------------------------------
(* The inductive invariant: GrowthTypeOK and four groups.                   *)

RequestType ==
  [step : Steps, run : AgentRuns \cup {None}, approve : BOOLEAN,
   selected : Seq(Kinds), todo : Seq(Kinds), ids : Seq(1..MaxActions), rec : Recs \cup {None},
   seeded : BOOLEAN, sited : BOOLEAN, target : 0..MaxActions, status : ActionStatus]

\* Between the look at a proposal and the row for it
Creating == {"seek", "allow", "create"}

\* Which steps belong to an execution, and for what a request is on its way
Shape(q) ==
  /\ q.step \in {"next", "stop"} => q.run # None
  /\ q.run # None => q.step \in Creating \cup {"next", "stop"}
  /\ q.step \in {"seek", "follow"} => q.rec # None
  /\ q.step = "next" => q.rec = None /\ q.seeded = FALSE
  /\ q.run # None /\ q.step \in Creating =>
       /\ q.todo # <<>> /\ Head(q.todo) # Report
       /\ IF Head(q.todo) = Plain THEN q.rec = None ELSE q.rec = Head(q.todo)

\* The row that a proposal asked for: of this run, or of the recommendation
Fits(rows, r, p, id) ==
  /\ id \in DOMAIN rows
  /\ IF p = Plain THEN rows[id].by = r ELSE rows[id].rec = p

\* The first n of a list of proposals are carried out, one row for each, in order.
CarriedOut(rows, r, list, n, ids) ==
  /\ Len(ids) = Cardinality(Wanted(list, n))
  /\ \A i \in Wanted(list, n) : Fits(rows, r, list[i], ids[Cardinality(Wanted(list, i))])

\* An execution has the rest of its selection before it and has carried out the
\* part behind it; a run that has to be approved was.
Underway(rows, q) ==
  q.run # None /\ q.step # "stop" =>
    /\ q.run \in Careful => q.approve = TRUE
    /\ Len(q.todo) <= Len(q.selected)
    /\ \A i \in 1..Len(q.todo) : q.todo[i] = q.selected[Len(q.selected) - Len(q.todo) + i]
    /\ CarriedOut(rows, q.run, q.selected, Len(q.selected) - Len(q.todo), q.ids)

RequestsFit ==
  \A u \in ActionRequests : Shape(request[u]) /\ Underway(actions, request[u])

RunsFit ==
  \A r \in AgentRuns : agentRuns[r].approval = "EXECUTED" =>
    /\ r \in Careful => carried[r].approve = TRUE
    /\ CarriedOut(actions, r, carried[r].selected, Len(carried[r].selected),
                  agentRuns[r].executed)

\* Those who passed the check of the allowance and have no row yet
Passing == {u \in ActionRequests : request[u].step = "create" /\ request[u].sited = TRUE}

OvershootCounted ==
  Cardinality(Counted) + Cardinality(Passing) <= Allowance + Cardinality(ActionRequests) - 1

\* The actions that a recommendation seeded, and those who found none and are on
\* their way to seed one
Seeds(r) == {a \in Live : actions[a].rec = r /\ actions[a].seeded = TRUE}
Seeding(r) == {u \in ActionRequests :
                 /\ request[u].step \in {"allow", "create"}
                 /\ request[u].rec = r /\ request[u].seeded = TRUE}

SeedsCounted ==
  \A r \in Recs : Cardinality(Seeds(r)) + Cardinality(Seeding(r)) <= Cardinality(ActionRequests)

GInv == GrowthTypeOK /\ RequestsFit /\ RunsFit /\ OvershootCounted /\ SeedsCounted

-----------------------------------------------------------------------------
(* Counting                                                                 *)

LEMMA RequestsCounted ==
  IsFiniteSet(ActionRequests) /\ Cardinality(ActionRequests) \in Nat \ {0} /\ Allowance \in Nat
<1>1. IsFiniteSet(ActionRequests) /\ ActionRequests # {} /\ Allowance \in Nat
  BY GrowthAssumption
<1> QED
  BY <1>1, FS_CardinalityType, FS_EmptySet

\* Two finite sets that shrink keep the bound of their sum.
LEMMA SumShrinks ==
  ASSUME NEW A, NEW B, IsFiniteSet(A), IsFiniteSet(B), NEW A2 \in SUBSET A,
         NEW B2 \in SUBSET B, NEW bound \in Int, Cardinality(A) + Cardinality(B) <= bound
  PROVE  Cardinality(A2) + Cardinality(B2) <= bound
<1>1. /\ IsFiniteSet(A2) /\ Cardinality(A2) <= Cardinality(A)
      /\ IsFiniteSet(B2) /\ Cardinality(B2) <= Cardinality(B)
  BY FS_Subset
<1>2. /\ Cardinality(A) \in Nat /\ Cardinality(A2) \in Nat
      /\ Cardinality(B) \in Nat /\ Cardinality(B2) \in Nat
  BY <1>1, FS_CardinalityType
<1> QED
  BY <1>1, <1>2

\* One more here and one less there
LEMMA SumMoves ==
  ASSUME NEW A, NEW B, IsFiniteSet(A), IsFiniteSet(B), NEW x, NEW y \in B,
         NEW A2 \in SUBSET (A \cup {x}), NEW B2 \in SUBSET (B \ {y}),
         NEW bound \in Int, Cardinality(A) + Cardinality(B) <= bound
  PROVE  Cardinality(A2) + Cardinality(B2) <= bound
<1>1. /\ IsFiniteSet(A \cup {x}) /\ Cardinality(A \cup {x}) \in Nat
      /\ Cardinality(A \cup {x}) <= Cardinality(A) + 1
  <2>1. Cardinality(A) \in Nat
    BY FS_CardinalityType
  <2>2. /\ IsFiniteSet(A \cup {x})
        /\ Cardinality(A \cup {x}) = IF x \in A THEN Cardinality(A) ELSE Cardinality(A) + 1
    BY FS_AddElement
  <2> QED
    BY <2>1, <2>2
<1>2. /\ IsFiniteSet(B \ {y}) /\ Cardinality(B \ {y}) = Cardinality(B) - 1
  BY FS_RemoveElement
<1>3. Cardinality(A) \in Nat /\ Cardinality(B) \in Nat /\ Cardinality(B \ {y}) \in Nat
  BY <1>2, FS_CardinalityType
<1>4. Cardinality(A2) \in Nat /\ Cardinality(A2) <= Cardinality(A \cup {x})
  BY <1>1, FS_Subset, FS_CardinalityType
<1>5. Cardinality(B2) \in Nat /\ Cardinality(B2) <= Cardinality(B \ {y})
  BY <1>2, FS_Subset, FS_CardinalityType
<1> QED
  BY <1>1, <1>2, <1>3, <1>4, <1>5

LEMMA RowsTable ==
  ASSUME GrowthTypeOK
  PROVE  /\ actions \in Seq(Actions) /\ Len(actions) \in Nat /\ Len(actions) <= MaxActions
         /\ DOMAIN actions = 1..Len(actions) /\ MaxActions \in Nat
         /\ \A a \in DOMAIN actions : actions[a] \in Actions
         /\ IsFiniteSet(DOMAIN actions)
<1>1. actions \in Seq(Actions) /\ Len(actions) <= MaxActions
  BY DEF GrowthTypeOK
<1>2. Len(actions) \in Nat /\ DOMAIN actions = 1..Len(actions)
  BY <1>1, LenProperties
<1>3. \A a \in DOMAIN actions : actions[a] \in Actions
  BY <1>1, <1>2, ElementOfSeq
<1>4. IsFiniteSet(1..Len(actions)) /\ MaxActions \in Nat
  BY <1>2, FS_Interval, GrowthAssumption
<1> QED
  BY <1>1, <1>2, <1>3, <1>4

LEMMA SetsFinite ==
  ASSUME GrowthTypeOK
  PROVE  /\ IsFiniteSet(Counted) /\ IsFiniteSet(Passing)
         /\ \A r : IsFiniteSet(Seeds(r)) /\ IsFiniteSet(Seeding(r))
<1>1. IsFiniteSet(DOMAIN actions) /\ IsFiniteSet(ActionRequests)
  BY RowsTable, RequestsCounted
<1>2. Counted \in SUBSET DOMAIN actions /\ Passing \in SUBSET ActionRequests
  BY DEF Counted, Live, Passing
<1>3. \A r : Seeds(r) \in SUBSET DOMAIN actions /\ Seeding(r) \in SUBSET ActionRequests
  BY DEF Seeds, Live, Seeding
<1> QED
  BY <1>1, <1>2, <1>3, FS_Subset

LEMMA WantedFinite ==
  ASSUME NEW list, NEW n \in Nat
  PROVE  IsFiniteSet(Wanted(list, n)) /\ Cardinality(Wanted(list, n)) \in Nat
<1>1. Wanted(list, n) \in SUBSET (1..n) /\ IsFiniteSet(1..n)
  BY FS_Interval DEF Wanted
<1> QED
  BY <1>1, FS_Subset, FS_CardinalityType

\* The number of a wanted proposal among the wanted ones
LEMMA WantedPlace ==
  ASSUME NEW list, NEW n \in Nat, NEW i \in Wanted(list, n)
  PROVE  Cardinality(Wanted(list, i)) \in 1..Cardinality(Wanted(list, n))
<1>1. i \in Nat /\ i <= n /\ i \in Wanted(list, i)
  BY DEF Wanted
<1>2. Wanted(list, i) \in SUBSET Wanted(list, n)
  BY <1>1 DEF Wanted
<1>3. /\ IsFiniteSet(Wanted(list, n)) /\ IsFiniteSet(Wanted(list, i))
      /\ Cardinality(Wanted(list, n)) \in Nat /\ Cardinality(Wanted(list, i)) \in Nat
  BY <1>1, WantedFinite
<1>4. Cardinality(Wanted(list, i)) <= Cardinality(Wanted(list, n))
  BY <1>2, <1>3, FS_Subset
<1>5. Cardinality(Wanted(list, i)) # 0
  BY <1>1, <1>3, FS_EmptySet
<1> QED
  BY <1>3, <1>4, <1>5

LEMMA WantedNext ==
  ASSUME NEW list, NEW n \in Nat
  PROVE  /\ list[n + 1] = Report => Wanted(list, n + 1) = Wanted(list, n)
         /\ list[n + 1] # Report =>
              /\ Wanted(list, n + 1) = Wanted(list, n) \cup {n + 1}
              /\ Cardinality(Wanted(list, n + 1)) = Cardinality(Wanted(list, n)) + 1
<1>1. 1..(n + 1) = (1..n) \cup {n + 1}
  OBVIOUS
<1>2. list[n + 1] = Report => Wanted(list, n + 1) = Wanted(list, n)
  BY <1>1 DEF Wanted
<1>3. list[n + 1] # Report => Wanted(list, n + 1) = Wanted(list, n) \cup {n + 1}
  BY <1>1 DEF Wanted
<1>4. n + 1 \notin Wanted(list, n)
  BY DEF Wanted
<1>5. IsFiniteSet(Wanted(list, n))
  BY WantedFinite
<1> QED
  BY <1>2, <1>3, <1>4, <1>5, FS_AddElement

-----------------------------------------------------------------------------
(* What an execution has carried out                                        *)

\* Rows are never removed and say for ever where they come from.
RowsKept(rows, rows2) ==
  \A id \in DOMAIN rows : /\ id \in DOMAIN rows2
                          /\ rows2[id].rec = rows[id].rec /\ rows2[id].by = rows[id].by

LEMMA FitsKept ==
  ASSUME NEW rows, NEW rows2, RowsKept(rows, rows2), NEW r, NEW p, NEW id,
         Fits(rows, r, p, id)
  PROVE  Fits(rows2, r, p, id)
BY DEF Fits, RowsKept

LEMMA CarriedKept ==
  ASSUME NEW rows, NEW rows2, RowsKept(rows, rows2), NEW r, NEW list, NEW n, NEW ids,
         CarriedOut(rows, r, list, n, ids)
  PROVE  CarriedOut(rows2, r, list, n, ids)
BY FitsKept DEF CarriedOut

LEMMA UnderwayKept ==
  ASSUME NEW rows, NEW rows2, RowsKept(rows, rows2), NEW q, Underway(rows, q)
  PROVE  Underway(rows2, q)
BY CarriedKept DEF Underway

\* A report adds no row.
LEMMA CarriedReport ==
  ASSUME NEW rows, NEW r, NEW list, NEW n \in Nat, NEW ids,
         CarriedOut(rows, r, list, n, ids), list[n + 1] = Report
  PROVE  CarriedOut(rows, r, list, n + 1, ids)
<1>1. Wanted(list, n + 1) = Wanted(list, n)
  BY WantedNext
<1> QED
  BY <1>1 DEF CarriedOut

\* Any other proposal adds the row that it asks for at the end.
LEMMA CarriedOn ==
  ASSUME NEW rows, NEW rows2, RowsKept(rows, rows2), NEW r, NEW list, NEW n \in Nat,
         NEW S, NEW ids \in Seq(S), NEW id \in S,
         CarriedOut(rows, r, list, n, ids), list[n + 1] # Report,
         Fits(rows2, r, list[n + 1], id)
  PROVE  CarriedOut(rows2, r, list, n + 1, Append(ids, id))
<1> DEFINE ids2 == Append(ids, id)
           place(i) == Cardinality(Wanted(list, i))
<1>1. /\ Len(ids) \in Nat /\ Len(ids2) = Len(ids) + 1 /\ ids2[Len(ids) + 1] = id
      /\ \A k \in 1..Len(ids) : ids2[k] = ids[k]
  BY AppendProperties, LenProperties
<1>2. /\ Wanted(list, n + 1) = Wanted(list, n) \cup {n + 1}
      /\ place(n + 1) = place(n) + 1
  BY WantedNext
<1>3. Len(ids) = place(n)
  BY DEF CarriedOut
<1>4. ASSUME NEW i \in Wanted(list, n + 1) PROVE Fits(rows2, r, list[i], ids2[place(i)])
  <2>1. CASE i = n + 1
    BY <1>1, <1>2, <1>3, <2>1
  <2>2. CASE i \in Wanted(list, n)
    <3>1. place(i) \in 1..place(n)
      BY <2>2, WantedPlace
    <3>2. Fits(rows, r, list[i], ids[place(i)])
      BY <2>2 DEF CarriedOut
    <3> HIDE DEF place, ids2
    <3>3. ids2[place(i)] = ids[place(i)]
      BY <1>1, <1>3, <3>1
    <3> QED
      BY <3>2, <3>3, FitsKept
  <2> QED
    BY <1>2, <2>1, <2>2
<1> QED
  BY <1>1, <1>2, <1>3, <1>4 DEF CarriedOut

\* A request gets its row: an execution has one proposal less before it, and
\* what it has carried out is longer by that row.
Delivered(q, id) ==
  IF q.run = None THEN Idle
  ELSE [q EXCEPT !.step = "next", !.todo = Tail(q.todo), !.ids = Append(q.ids, id),
                 !.rec = None, !.seeded = FALSE, !.sited = FALSE]

LEMMA IdleFits ==
  Idle \in RequestType /\ Shape(Idle) /\ \A rows : Underway(rows, Idle)
<1>1. /\ Idle.step = "idle" /\ Idle.run = None /\ Idle.approve = FALSE
      /\ Idle.selected = <<>> /\ Idle.todo = <<>> /\ Idle.ids = <<>> /\ Idle.rec = None
      /\ Idle.seeded = FALSE /\ Idle.sited = FALSE /\ Idle.target = 0 /\ Idle.status = "TODO"
  BY DEF Idle
<1>2. /\ <<>> \in Seq(Kinds) /\ <<>> \in Seq(1..MaxActions)
      /\ 0 \in 0..MaxActions
  BY EmptySeq, GrowthAssumption
<1>3. Idle \in RequestType
  BY <1>2 DEF Idle, RequestType, Steps, ActionStatus
<1>4. Shape(Idle)
  BY <1>1 DEF Shape, Creating
<1>5. \A rows : Underway(rows, Idle)
  BY <1>1 DEF Underway
<1> QED
  BY <1>3, <1>4, <1>5

LEMMA DeliveredFits ==
  ASSUME NEW rows, NEW rows2, RowsKept(rows, rows2),
         NEW q \in RequestType, Shape(q), Underway(rows, q), q.step \in Creating,
         NEW id \in 1..MaxActions, id \in DOMAIN rows2,
         q.rec # None => rows2[id].rec = q.rec,
         q.run # None /\ q.rec = None => rows2[id].by = q.run
  PROVE  /\ Delivered(q, id) \in RequestType
         /\ Shape(Delivered(q, id)) /\ Underway(rows2, Delivered(q, id))
         /\ Delivered(q, id).step \in {"idle", "next"}
<1>1. CASE q.run = None
  <2>1. Delivered(q, id) = Idle /\ Idle.step = "idle"
    BY <1>1 DEF Delivered, Idle
  <2> QED
    BY <2>1, IdleFits
<1>2. CASE q.run # None
  <2> DEFINE new == [q EXCEPT !.step = "next", !.todo = Tail(q.todo), !.ids = Append(q.ids, id),
                              !.rec = None, !.seeded = FALSE, !.sited = FALSE]
             n == Len(q.selected) - Len(q.todo)
  <2>1. Delivered(q, id) = new
    BY <1>2 DEF Delivered
  <2>2. /\ q.selected \in Seq(Kinds) /\ q.todo \in Seq(Kinds) /\ q.ids \in Seq(1..MaxActions)
        /\ Len(q.selected) \in Nat /\ Len(q.todo) \in Nat
    BY LenProperties DEF RequestType
  <2>3. /\ q.todo # <<>> /\ Head(q.todo) # Report
        /\ IF Head(q.todo) = Plain THEN q.rec = None ELSE q.rec = Head(q.todo)
    BY <1>2 DEF Shape
  <2>4. /\ Tail(q.todo) \in Seq(Kinds) /\ Len(Tail(q.todo)) = Len(q.todo) - 1
        /\ \A i \in 1..Len(Tail(q.todo)) : Tail(q.todo)[i] = q.todo[i + 1]
        /\ Len(q.todo) > 0 /\ Head(q.todo) = q.todo[1] /\ Head(q.todo) \in Kinds
    BY <2>2, <2>3, HeadTailProperties, EmptySeq
  <2>5. Append(q.ids, id) \in Seq(1..MaxActions)
    BY <2>2, AppendProperties
  <2>6. /\ new.step = "next" /\ new.run = q.run /\ new.approve = q.approve
        /\ new.selected = q.selected /\ new.todo = Tail(q.todo) /\ new.ids = Append(q.ids, id)
        /\ new.rec = None /\ new.seeded = FALSE
    BY DEF RequestType
  <2>7. new \in RequestType
    BY <2>4, <2>5 DEF RequestType, Steps
  <2>8. Shape(new)
    BY <1>2, <2>6 DEF Shape, Creating
  <2>9. /\ q.run \in Careful => q.approve = TRUE
        /\ Len(q.todo) <= Len(q.selected)
        /\ \A i \in 1..Len(q.todo) : q.todo[i] = q.selected[n + i]
        /\ CarriedOut(rows, q.run, q.selected, n, q.ids)
    BY <1>2 DEF Underway, Creating
  <2>10. n \in Nat /\ Head(q.todo) = q.selected[n + 1]
         /\ Len(q.selected) - Len(Tail(q.todo)) = n + 1
    <3>1. n \in Nat /\ Len(q.selected) - (Len(q.todo) - 1) = n + 1
      BY <2>2, <2>9
    <3>2. 1 \in 1..Len(q.todo)
      BY <2>2, <2>4
    <3> HIDE DEF n
    <3> QED
      BY <2>4, <2>9, <3>1, <3>2
  <2>11. Fits(rows2, q.run, Head(q.todo), id)
    <3>1. Head(q.todo) # Plain => q.rec # None
      BY <2>3, <2>4, GrowthAssumption DEF Kinds
    <3> QED
      BY <1>2, <2>3, <3>1 DEF Fits
  <2>12. CarriedOut(rows2, q.run, q.selected, n + 1, Append(q.ids, id))
    <3> HIDE DEF n
    <3> QED
      BY <2>2, <2>3, <2>9, <2>10, <2>11, CarriedOn
  <2>13. \A i \in 1..Len(Tail(q.todo)) : Tail(q.todo)[i] = q.selected[n + 1 + i]
    <3> SUFFICES ASSUME NEW i \in 1..Len(Tail(q.todo))
                 PROVE  Tail(q.todo)[i] = q.selected[n + 1 + i]
      OBVIOUS
    <3>1. i \in Nat /\ i + 1 \in 1..Len(q.todo)
      BY <2>2, <2>4
    <3>2. q.todo[i + 1] = q.selected[n + (i + 1)]
      BY <2>9, <3>1
    <3> HIDE DEF n
    <3>3. n \in Nat /\ n + (i + 1) = n + 1 + i
      BY <2>10, <3>1
    <3> QED
      BY <2>4, <3>2, <3>3
  <2> HIDE DEF new, n
  <2>14. Len(new.todo) <= Len(new.selected) /\ Len(new.selected) - Len(new.todo) = n + 1
    <3>1. Len(Tail(q.todo)) <= Len(q.selected)
      <4>1. Len(q.todo) <= Len(q.selected) /\ Len(Tail(q.todo)) = Len(q.todo) - 1
        BY <2>4, <2>9
      <4> QED
        BY <2>2, <4>1
    <3>2. new.todo = Tail(q.todo) /\ new.selected = q.selected
      BY <2>6
    <3> QED
      BY <2>10, <3>1, <3>2
  <2>15. Underway(rows2, new)
    BY <2>6, <2>9, <2>12, <2>13, <2>14 DEF Underway
  <2> QED
    BY <2>1, <2>6, <2>7, <2>8, <2>15
<1> QED
  BY <1>1, <1>2

\* An exception ends the request, or leads to the end of its execution.
Thrown(q) ==
  IF q.run = None \/ q.step = "stop" THEN Idle ELSE [q EXCEPT !.step = "stop"]

LEMMA ThrownFits ==
  ASSUME NEW rows, NEW q \in RequestType, Shape(q)
  PROVE  /\ Thrown(q) \in RequestType /\ Shape(Thrown(q)) /\ Underway(rows, Thrown(q))
         /\ Thrown(q).step \in {"idle", "stop"}
<1>1. CASE q.run = None \/ q.step = "stop"
  <2>1. Thrown(q) = Idle /\ Idle.step = "idle"
    BY <1>1 DEF Thrown, Idle
  <2> QED
    BY <2>1, IdleFits
<1>2. CASE ~(q.run = None \/ q.step = "stop")
  <2> DEFINE new == [q EXCEPT !.step = "stop"]
  <2>1. Thrown(q) = new
    BY <1>2 DEF Thrown
  <2>2. new \in RequestType /\ new.step = "stop" /\ new.run = q.run
    BY DEF RequestType, Steps
  <2> HIDE DEF new
  <2>3. Shape(new) /\ Underway(rows, new)
    BY <1>2, <2>2 DEF Shape, Underway, Creating
  <2> QED
    BY <2>1, <2>2, <2>3
<1> QED
  BY <1>1, <1>2

-----------------------------------------------------------------------------
(* Steps that leave the rows alone                                          *)

LEMMA RequestOf ==
  ASSUME GInv, NEW u \in ActionRequests
  PROVE  request[u] \in RequestType /\ Shape(request[u]) /\ Underway(actions, request[u])
BY DEF GInv, GrowthTypeOK, RequestsFit, RequestType

\* A request that passes neither the check of the allowance nor the look for an
\* action of its recommendation
NoFurther(q, new) ==
  /\ new.step = "create" /\ new.sited = TRUE => q.step = "create" /\ q.sited = TRUE
  /\ new.step \in {"allow", "create"} /\ new.seeded = TRUE =>
       q.step \in {"allow", "create"} /\ q.seeded = TRUE /\ q.rec = new.rec

LEMMA MovesFit ==
  ASSUME GInv, NEW u \in ActionRequests, NEW new \in RequestType,
         Shape(new), Underway(actions', new), RowsKept(actions, actions'),
         request' = [request EXCEPT ![u] = new]
  PROVE  request' \in [ActionRequests -> RequestType] /\ RequestsFit'
<1>1. request \in [ActionRequests -> RequestType]
  BY DEF GInv, GrowthTypeOK, RequestType
<1>2. request'[u] = new /\ \A w \in ActionRequests \ {u} : request'[w] = request[w]
  BY <1>1
<1>3. ASSUME NEW w \in ActionRequests PROVE Shape(request'[w]) /\ Underway(actions', request'[w])
  <2>1. CASE w = u
    BY <1>2, <2>1
  <2>2. CASE w # u
    <3>1. Shape(request[w]) /\ Underway(actions, request[w])
      BY RequestOf
    <3> QED
      BY <1>2, <2>2, <3>1, UnderwayKept
  <2> QED
    BY <2>1, <2>2
<1>4. RequestsFit'
  BY <1>3 DEF RequestsFit
<1> QED
  BY <1>1, <1>4

LEMMA BoundsTyped ==
  ASSUME GInv
  PROVE  /\ Allowance + Cardinality(ActionRequests) - 1 \in Int
         /\ Cardinality(ActionRequests) \in Int
         /\ IsFiniteSet(Counted) /\ IsFiniteSet(Passing)
         /\ \A r : IsFiniteSet(Seeds(r)) /\ IsFiniteSet(Seeding(r))
BY RequestsCounted, SetsFinite DEF GInv

LEMMA MovesCount ==
  ASSUME GInv, NEW u \in ActionRequests, NEW new, NoFurther(request[u], new),
         request' = [request EXCEPT ![u] = new],
         Counted' \subseteq Counted, \A r : Seeds(r)' \subseteq Seeds(r)
  PROVE  OvershootCounted' /\ SeedsCounted'
<1>1. request \in [ActionRequests -> RequestType]
  BY DEF GInv, GrowthTypeOK, RequestType
<1>2. request'[u] = new /\ \A w \in ActionRequests \ {u} : request'[w] = request[w]
  BY <1>1
<1>3. Passing' \subseteq Passing
  BY <1>2 DEF Passing, NoFurther
<1>4. \A r : Seeding(r)' \subseteq Seeding(r)
  BY <1>2 DEF Seeding, NoFurther
<1>5. OvershootCounted'
  <2>1. Cardinality(Counted) + Cardinality(Passing) <= Allowance + Cardinality(ActionRequests) - 1
    BY DEF GInv, OvershootCounted
  <2>2. Cardinality(Counted') + Cardinality(Passing')
          <= Allowance + Cardinality(ActionRequests) - 1
    BY <1>3, <2>1, BoundsTyped, SumShrinks
  <2> QED
    BY <2>2 DEF OvershootCounted
<1>6. SeedsCounted'
  <2> SUFFICES ASSUME NEW r \in Recs
               PROVE  Cardinality(Seeds(r)') + Cardinality(Seeding(r)')
                        <= Cardinality(ActionRequests)
    BY DEF SeedsCounted
  <2>1. Cardinality(Seeds(r)) + Cardinality(Seeding(r)) <= Cardinality(ActionRequests)
    BY DEF GInv, SeedsCounted
  <2>2. Seeds(r)' \subseteq Seeds(r) /\ Seeding(r)' \subseteq Seeding(r)
    BY <1>4
  <2> QED
    BY <2>1, <2>2, BoundsTyped, SumShrinks
<1> QED
  BY <1>5, <1>6

LEMMA RowsSame ==
  ASSUME UNCHANGED actions
  PROVE  /\ RowsKept(actions, actions') /\ Live' = Live
         /\ Counted' \subseteq Counted /\ \A r : Seeds(r)' \subseteq Seeds(r)
BY DEF RowsKept, Live, Counted, Seeds

\* Runs that say EXECUTED keep their account, rows being kept.
LEMMA RunsKept ==
  ASSUME GInv, RowsKept(actions, actions'), UNCHANGED <<agentRuns, carried>>
  PROVE  RunsFit'
<1> SUFFICES ASSUME NEW r \in AgentRuns, agentRuns[r].approval = "EXECUTED"
             PROVE  /\ r \in Careful => carried[r].approve = TRUE
                    /\ CarriedOut(actions', r, carried[r].selected, Len(carried[r].selected),
                                  agentRuns[r].executed)
  BY DEF RunsFit
<1>1. /\ r \in Careful => carried[r].approve = TRUE
      /\ CarriedOut(actions, r, carried[r].selected, Len(carried[r].selected),
                    agentRuns[r].executed)
  BY DEF GInv, RunsFit
<1> QED
  BY <1>1, CarriedKept

RunType == [status : {"none", "RUNNING", "COMPLETED", "FAILED"},
            approval : {"NOT_REQUIRED", "PENDING", "EXECUTED"},
            proposals : Seq(Kinds), executed : Seq(1..MaxActions)]
CarriedType == [approve : BOOLEAN, selected : Seq(Kinds)]

LEMMA Moves ==
  ASSUME GInv, NEW u \in ActionRequests, NEW new \in RequestType,
         Shape(new), Underway(actions, new), NoFurther(request[u], new),
         request' = [request EXCEPT ![u] = new],
         UNCHANGED <<actions, agentRuns, carried>>,
         recs' \in [Recs -> RecStatus], requests' \in 0..MaxRequests
  PROVE  GInv'
<1>1. /\ RowsKept(actions, actions')
      /\ Counted' \subseteq Counted /\ \A r : Seeds(r)' \subseteq Seeds(r)
  BY RowsSame
<1>2. request' \in [ActionRequests -> RequestType] /\ RequestsFit'
  BY <1>1, MovesFit
<1>3. OvershootCounted' /\ SeedsCounted'
  BY <1>1, MovesCount
<1>4. RunsFit'
  BY <1>1, RunsKept
<1>5. GrowthTypeOK'
  BY <1>2 DEF GInv, GrowthTypeOK, RequestType
<1> QED
  BY <1>2, <1>3, <1>4, <1>5 DEF GInv

LEMMA ThrowKeeps ==
  ASSUME GInv, NEW u \in ActionRequests, Throw(u),
         UNCHANGED <<actions, recs, agentRuns, requests, carried>>
  PROVE  GInv'
<1>1. request[u] \in RequestType /\ Shape(request[u])
  BY RequestOf
<1>2. request' = [request EXCEPT ![u] = Thrown(request[u])]
  BY DEF Throw, Thrown
<1> DEFINE new == Thrown(request[u])
<1>3. /\ new \in RequestType /\ Shape(new) /\ Underway(actions, new)
      /\ new.step \in {"idle", "stop"}
  BY <1>1, ThrownFits
<1> HIDE DEF new
<1>4. NoFurther(request[u], new)
  BY <1>3 DEF NoFurther
<1>5. recs' \in [Recs -> RecStatus] /\ requests' \in 0..MaxRequests
  BY DEF GInv, GrowthTypeOK
<1> QED
  BY <1>2, <1>3, <1>4, <1>5, Moves DEF new

\* The answers of the steps that end a request
LEMMA EndKeeps ==
  ASSUME GInv, NEW u \in ActionRequests, request' = [request EXCEPT ![u] = Idle],
         UNCHANGED <<actions, agentRuns, requests, carried>>,
         recs' \in [Recs -> RecStatus]
  PROVE  GInv'
<1>1. Idle \in RequestType /\ Shape(Idle) /\ Underway(actions, Idle)
  BY IdleFits
<1>2. NoFurther(request[u], Idle)
  BY DEF NoFurther, Idle
<1>3. requests' \in 0..MaxRequests
  BY DEF GInv, GrowthTypeOK
<1> QED
  BY <1>1, <1>2, <1>3, Moves

LEMMA DeliverKeeps ==
  ASSUME GInv, NEW u \in ActionRequests, request[u].step = "seek",
         NEW a \in Existing(request[u].rec), Deliver(u, a),
         UNCHANGED <<actions, recs, agentRuns, requests, carried>>
  PROVE  GInv'
<1> DEFINE q == request[u]  new == Delivered(q, a)
<1>1. q \in RequestType /\ Shape(q) /\ Underway(actions, q) /\ q.step \in Creating
      /\ q.rec # None
  BY RequestOf DEF Creating, Shape
<1>2. request' = [request EXCEPT ![u] = new]
  BY DEF Deliver, Delivered
<1>3. a \in 1..MaxActions /\ a \in DOMAIN actions /\ actions[a].rec = q.rec
  <2>1. a \in DOMAIN actions /\ actions[a].rec = q.rec
    BY DEF Existing, Live
  <2>2. /\ DOMAIN actions = 1..Len(actions) /\ Len(actions) \in Nat /\ MaxActions \in Nat
        /\ Len(actions) <= MaxActions
    BY RowsTable DEF GInv
  <2> QED
    BY <2>1, <2>2
<1>4. RowsKept(actions, actions)
  BY DEF RowsKept
<1> HIDE DEF q
<1>5. new \in RequestType /\ Shape(new) /\ Underway(actions, new)
      /\ new.step \in {"idle", "next"}
  BY <1>1, <1>3, <1>4, DeliveredFits
<1> HIDE DEF new
<1>6. NoFurther(request[u], new)
  BY <1>5 DEF NoFurther
<1>7. recs' \in [Recs -> RecStatus] /\ requests' \in 0..MaxRequests
  BY DEF GInv, GrowthTypeOK
<1> QED
  BY <1>2, <1>5, <1>6, <1>7, Moves

LEMMA SeekKeeps ==
  ASSUME GInv, NEW u \in ActionRequests, SeekAction(u)
  PROVE  GInv'
<1>1. request[u].step = "seek" /\ UNCHANGED <<actions, recs, agentRuns, requests, carried>>
  BY DEF SeekAction
<1>2. CASE Existing(request[u].rec) # {}
  <2>1. PICK a \in Existing(request[u].rec) : Deliver(u, a)
    BY <1>2 DEF SeekAction
  <2> QED
    BY <1>1, <2>1, DeliverKeeps
<1>3. CASE Existing(request[u].rec) = {}
  <2> DEFINE q == request[u]  new == [q EXCEPT !.step = "allow"]
  <2>1. q \in RequestType /\ Shape(q) /\ Underway(actions, q) /\ q.step = "seek"
    BY <1>1, RequestOf
  <2>2. request' = [request EXCEPT ![u] = new]
    BY <1>3 DEF SeekAction
  <2> HIDE DEF q
  <2>3. /\ new \in RequestType /\ new.step = "allow" /\ new.rec = q.rec
        /\ new.seeded = q.seeded /\ new.run = q.run /\ new.approve = q.approve
        /\ new.selected = q.selected /\ new.todo = q.todo /\ new.ids = q.ids
    BY <2>1 DEF RequestType, Steps
  <2> HIDE DEF new
  <2>4. Shape(new) /\ Underway(actions, new)
    BY <2>1, <2>3 DEF Shape, Underway, Creating
  <2>5. /\ RowsKept(actions, actions')
        /\ Counted' \subseteq Counted /\ \A r : Seeds(r)' \subseteq Seeds(r)
    BY <1>1, RowsSame
  <2>6. request' \in [ActionRequests -> RequestType] /\ RequestsFit'
    <3>1. Underway(actions', new)
      BY <1>1, <2>4
    <3> QED
      BY <2>2, <2>3, <2>4, <2>5, <3>1, MovesFit
  <2>7. RunsFit'
    BY <1>1, <2>5, RunsKept
  <2>8. request'[u] = new /\ \A w \in ActionRequests \ {u} : request'[w] = request[w]
    BY <2>2 DEF GInv, GrowthTypeOK
  <2>9. OvershootCounted'
    <3>1. Passing' \subseteq Passing
      BY <2>3, <2>8 DEF Passing
    <3>2. Cardinality(Counted) + Cardinality(Passing)
            <= Allowance + Cardinality(ActionRequests) - 1
      BY DEF GInv, OvershootCounted
    <3>3. Cardinality(Counted') + Cardinality(Passing')
            <= Allowance + Cardinality(ActionRequests) - 1
      BY <2>5, <3>1, <3>2, BoundsTyped, SumShrinks
    <3> QED
      BY <3>3 DEF OvershootCounted
  <2>10. SeedsCounted'
    <3> SUFFICES ASSUME NEW r \in Recs
                 PROVE  Cardinality(Seeds(r)') + Cardinality(Seeding(r)')
                          <= Cardinality(ActionRequests)
      BY DEF SeedsCounted
    <3>1. CASE r = q.rec
      <4>1. Seeds(r)' = {}
        BY <1>3, <2>5, <3>1 DEF Seeds, Existing, q
      <4>2. Cardinality(Seeds(r)') = 0
        BY <4>1, FS_EmptySet
      <4>3. Seeding(r)' \in SUBSET ActionRequests
        BY DEF Seeding
      <4>4. /\ Cardinality(Seeding(r)') <= Cardinality(ActionRequests)
            /\ Cardinality(Seeding(r)') \in Nat
        BY <4>3, RequestsCounted, FS_Subset, FS_CardinalityType
      <4> QED
        BY <4>2, <4>4, RequestsCounted
    <3>2. CASE r # q.rec
      <4>1. Seeding(r)' \subseteq Seeding(r)
        BY <2>3, <2>8, <3>2 DEF Seeding
      <4>2. Cardinality(Seeds(r)) + Cardinality(Seeding(r)) <= Cardinality(ActionRequests)
        BY DEF GInv, SeedsCounted
      <4>3. Seeds(r)' \subseteq Seeds(r)
        BY <2>5
      <4> QED
        BY <4>1, <4>2, <4>3, BoundsTyped, SumShrinks
    <3> QED
      BY <3>1, <3>2
  <2>11. GrowthTypeOK'
    BY <1>1, <2>6 DEF GInv, GrowthTypeOK, RequestType
  <2> QED
    BY <2>6, <2>7, <2>9, <2>10, <2>11 DEF GInv
<1> QED
  BY <1>2, <1>3

\* Who passes the check finds fewer rows than the allowance; all others may have
\* passed it too.
LEMMA CheckKeeps ==
  ASSUME GInv, NEW u \in ActionRequests, CheckAllowance(u)
  PROVE  GInv'
<1>1. request[u].step = "allow" /\ UNCHANGED <<actions, recs, agentRuns, requests, carried>>
  BY DEF CheckAllowance
<1>2. CASE ~WithinAllowance
  BY <1>1, <1>2, ThrowKeeps DEF CheckAllowance
<1>3. CASE WithinAllowance
  <2> DEFINE q == request[u]  new == [q EXCEPT !.step = "create"]
  <2>1. q \in RequestType /\ Shape(q) /\ Underway(actions, q) /\ q.step = "allow"
    BY <1>1, RequestOf
  <2>2. request' = [request EXCEPT ![u] = new]
    BY <1>3 DEF CheckAllowance
  <2> HIDE DEF q
  <2>3. /\ new \in RequestType /\ new.step = "create" /\ new.rec = q.rec
        /\ new.seeded = q.seeded /\ new.run = q.run /\ new.approve = q.approve
        /\ new.selected = q.selected /\ new.todo = q.todo /\ new.ids = q.ids
    BY <2>1 DEF RequestType, Steps
  <2> HIDE DEF new
  <2>4. Shape(new) /\ Underway(actions, new)
    BY <2>1, <2>3 DEF Shape, Underway, Creating
  <2>5. /\ RowsKept(actions, actions')
        /\ Counted' \subseteq Counted /\ \A r : Seeds(r)' \subseteq Seeds(r)
    BY <1>1, RowsSame
  <2>6. request' \in [ActionRequests -> RequestType] /\ RequestsFit'
    <3>1. Underway(actions', new)
      BY <1>1, <2>4
    <3> QED
      BY <2>2, <2>3, <2>4, <2>5, <3>1, MovesFit
  <2>7. RunsFit'
    BY <1>1, <2>5, RunsKept
  <2>8. request'[u] = new /\ \A w \in ActionRequests \ {u} : request'[w] = request[w]
    BY <2>2 DEF GInv, GrowthTypeOK
  <2>9. OvershootCounted'
    <3>1. /\ Cardinality(Counted) < Allowance /\ Cardinality(Counted) \in Nat
          /\ Counted' = Counted
      BY <1>1, <1>3, BoundsTyped, FS_CardinalityType DEF WithinAllowance, Counted, Live
    <3>2. Passing' \in SUBSET ActionRequests
      BY DEF Passing
    <3>3. /\ Cardinality(Passing') <= Cardinality(ActionRequests)
          /\ Cardinality(Passing') \in Nat
      BY <3>2, RequestsCounted, FS_Subset, FS_CardinalityType
    <3>4. Cardinality(Counted') + Cardinality(Passing')
            <= Allowance + Cardinality(ActionRequests) - 1
      BY <3>1, <3>3, RequestsCounted
    <3> QED
      BY <3>4 DEF OvershootCounted
  <2>10. SeedsCounted'
    <3> SUFFICES ASSUME NEW r \in Recs
                 PROVE  Cardinality(Seeds(r)') + Cardinality(Seeding(r)')
                          <= Cardinality(ActionRequests)
      BY DEF SeedsCounted
    <3>1. Seeding(r)' \subseteq Seeding(r)
      BY <2>1, <2>3, <2>8 DEF Seeding, q
    <3>2. Cardinality(Seeds(r)) + Cardinality(Seeding(r)) <= Cardinality(ActionRequests)
      BY DEF GInv, SeedsCounted
    <3>3. Seeds(r)' \subseteq Seeds(r)
      BY <2>5
    <3> QED
      BY <3>1, <3>2, <3>3, BoundsTyped, SumShrinks
  <2>11. GrowthTypeOK'
    BY <1>1, <2>6 DEF GInv, GrowthTypeOK, RequestType
  <2> QED
    BY <2>6, <2>7, <2>9, <2>10, <2>11 DEF GInv
<1> QED
  BY <1>2, <1>3

-----------------------------------------------------------------------------
(* Steps that write rows                                                    *)

LEMMA CreateKeeps ==
  ASSUME GInv, NEW u \in ActionRequests, CreateRow(u)
  PROVE  GInv'
<1> DEFINE q == request[u]
           n == Len(actions) + 1
           row == [rec |-> q.rec, seeded |-> q.seeded, by |-> q.run, sited |-> q.sited,
                   status |-> "TODO"]
           new == Delivered(q, n)
<1>1. q \in RequestType /\ Shape(q) /\ Underway(actions, q) /\ q.step = "create"
  BY RequestOf DEF CreateRow
<1>2. /\ actions \in Seq(Actions) /\ Len(actions) \in Nat /\ Len(actions) < MaxActions
      /\ DOMAIN actions = 1..Len(actions) /\ MaxActions \in Nat
  BY RowsTable DEF GInv, CreateRow
<1>3. /\ actions' = Append(actions, row) /\ request' = [request EXCEPT ![u] = new]
      /\ UNCHANGED <<recs, agentRuns, requests, carried>>
  BY DEF CreateRow, Deliver, Delivered
<1> HIDE DEF q
<1>4. /\ row \in Actions /\ row.rec = q.rec /\ row.seeded = q.seeded /\ row.by = q.run
      /\ row.sited = q.sited /\ row.status = "TODO"
  BY <1>1 DEF RequestType, Actions, ActionStatus
<1> HIDE DEF row
<1>5. /\ actions' \in Seq(Actions) /\ Len(actions') = n /\ DOMAIN actions' = 1..n
      /\ \A a \in DOMAIN actions : actions'[a] = actions[a]
      /\ actions'[n] = row
  <2>1. /\ actions' \in Seq(Actions) /\ Len(actions') = n
        /\ \A a \in 1..Len(actions) : actions'[a] = actions[a]
        /\ actions'[n] = row
    BY <1>2, <1>3, <1>4, AppendProperties
  <2> QED
    BY <1>2, <2>1, LenProperties
<1>6. n \in 1..MaxActions /\ n \in DOMAIN actions' /\ DOMAIN actions' = DOMAIN actions \cup {n}
      /\ n \notin DOMAIN actions
  BY <1>2, <1>5
<1> HIDE DEF n
<1>7. RowsKept(actions, actions')
  BY <1>5, <1>6 DEF RowsKept
<1>8. new \in RequestType /\ Shape(new) /\ Underway(actions', new) /\ new.step \in {"idle", "next"}
  BY <1>1, <1>4, <1>5, <1>6, <1>7, DeliveredFits DEF Creating
<1> HIDE DEF new
<1>9. request' \in [ActionRequests -> RequestType] /\ RequestsFit'
  BY <1>3, <1>7, <1>8, MovesFit
<1>10. RunsFit'
  BY <1>3, <1>7, RunsKept
<1>11. GrowthTypeOK'
  <2>1. Len(actions') <= MaxActions
    BY <1>2, <1>5, <1>6
  <2> QED
    BY <1>3, <1>5, <1>9, <2>1 DEF GInv, GrowthTypeOK, RequestType
<1>12. request'[u] = new /\ \A w \in ActionRequests \ {u} : request'[w] = request[w]
  BY <1>3 DEF GInv, GrowthTypeOK
<1>13. Passing' \subseteq Passing \ {u} /\ \A r : Seeding(r)' \subseteq Seeding(r) \ {u}
  BY <1>8, <1>12 DEF Passing, Seeding
<1>14. OvershootCounted'
  <2>1. Cardinality(Counted) + Cardinality(Passing) <= Allowance + Cardinality(ActionRequests) - 1
    BY DEF GInv, OvershootCounted
  <2>2. CASE q.sited = TRUE
    <3>1. u \in Passing
      BY <1>1, <2>2 DEF Passing, q
    <3>2. Counted' \subseteq Counted \cup {n}
      BY <1>5, <1>6 DEF Counted, Live
    <3> DEFINE bound == Allowance + Cardinality(ActionRequests) - 1
    <3>3. /\ Counted' \in SUBSET (Counted \cup {n}) /\ Passing' \in SUBSET (Passing \ {u})
          /\ IsFiniteSet(Counted) /\ IsFiniteSet(Passing) /\ bound \in Int
          /\ Cardinality(Counted) + Cardinality(Passing) <= bound
      BY <1>13, <2>1, <3>2, BoundsTyped
    <3> HIDE DEF bound
    <3>4. Cardinality(Counted') + Cardinality(Passing') <= bound
      BY <3>1, <3>3, SumMoves
    <3> USE DEF bound
    <3> QED
      BY <3>4 DEF OvershootCounted
  <2>3. CASE q.sited # TRUE
    <3>1. q.sited = FALSE
      BY <1>1, <2>3 DEF RequestType
    <3>2. Counted' \subseteq Counted
      BY <1>4, <1>5, <1>6, <3>1 DEF Counted, Live
    <3>3. Cardinality(Counted') + Cardinality(Passing')
            <= Allowance + Cardinality(ActionRequests) - 1
      BY <1>13, <2>1, <3>2, BoundsTyped, SumShrinks
    <3> QED
      BY <3>3 DEF OvershootCounted
  <2> QED
    BY <2>2, <2>3
<1>15. SeedsCounted'
  <2> SUFFICES ASSUME NEW r \in Recs
               PROVE  Cardinality(Seeds(r)') + Cardinality(Seeding(r)')
                        <= Cardinality(ActionRequests)
    BY DEF SeedsCounted
  <2>1. Cardinality(Seeds(r)) + Cardinality(Seeding(r)) <= Cardinality(ActionRequests)
    BY DEF GInv, SeedsCounted
  <2>2. CASE q.rec = r /\ q.seeded = TRUE
    <3>1. u \in Seeding(r)
      BY <1>1, <2>2 DEF Seeding, q
    <3>2. Seeds(r)' \subseteq Seeds(r) \cup {n}
      BY <1>5, <1>6 DEF Seeds, Live
    <3> QED
      BY <1>13, <2>1, <3>1, <3>2, BoundsTyped, SumMoves
  <2>3. CASE ~(q.rec = r /\ q.seeded = TRUE)
    <3>1. Seeds(r)' \subseteq Seeds(r)
      BY <1>4, <1>5, <1>6, <2>3 DEF Seeds, Live
    <3> QED
      BY <1>13, <2>1, <3>1, BoundsTyped, SumShrinks
  <2> QED
    BY <2>2, <2>3
<1> QED
  BY <1>9, <1>10, <1>11, <1>14, <1>15 DEF GInv

\* A status is written to a live row, or a row is deleted: no row comes to life.
LEMMA StatusRows ==
  ASSUME GInv, NEW a \in Live, NEW status \in ActionStatus \cup {"deleted"},
         actions' = [actions EXCEPT ![a].status = status]
  PROVE  /\ actions' \in Seq(Actions) /\ Len(actions') <= MaxActions
         /\ RowsKept(actions, actions')
         /\ Counted' \subseteq Counted /\ \A r : Seeds(r)' \subseteq Seeds(r)
<1> DEFINE row == [actions[a] EXCEPT !.status = status]
<1>1. /\ actions \in Seq(Actions) /\ Len(actions) \in Nat /\ DOMAIN actions = 1..Len(actions)
      /\ a \in DOMAIN actions /\ actions[a] \in Actions /\ Len(actions) <= MaxActions
  BY RowsTable DEF GInv, Live
<1>2. /\ row \in Actions /\ row.rec = actions[a].rec /\ row.seeded = actions[a].seeded
      /\ row.by = actions[a].by /\ row.sited = actions[a].sited
  BY <1>1 DEF Actions
<1>3. actions' = [actions EXCEPT ![a] = row]
  OBVIOUS
<1> HIDE DEF row
<1>4. actions' \in Seq(Actions) /\ Len(actions') = Len(actions) /\ DOMAIN actions' = DOMAIN actions
  <2>1. actions' \in Seq(Actions) /\ Len(actions') = Len(actions)
    BY <1>1, <1>2, <1>3, ExceptSeq
  <2> QED
    BY <1>1, <1>3, <2>1
<1>5. actions'[a] = row /\ \A b \in DOMAIN actions \ {a} : actions'[b] = actions[b]
  BY <1>1, <1>3
<1>6. RowsKept(actions, actions')
  BY <1>2, <1>4, <1>5 DEF RowsKept
<1>7. Live' \subseteq Live
  BY <1>4, <1>5 DEF Live
<1>8. \A b \in Live' : /\ actions'[b].rec = actions[b].rec /\ actions'[b].sited = actions[b].sited
                      /\ actions'[b].seeded = actions[b].seeded
  BY <1>2, <1>4, <1>5 DEF Live
<1>9. Counted' \subseteq Counted
  BY <1>7, <1>8 DEF Counted
<1>10. \A r : Seeds(r)' \subseteq Seeds(r)
  BY <1>7, <1>8 DEF Seeds
<1> QED
  BY <1>1, <1>4, <1>6, <1>9, <1>10

LEMMA StatusKeeps ==
  ASSUME GInv, NEW u \in ActionRequests, WriteStatus(u)
  PROVE  GInv'
<1> DEFINE q == request[u]
<1>1. /\ q \in RequestType /\ Shape(q) /\ q.step = "status"
      /\ UNCHANGED <<recs, agentRuns, requests, carried>>
  BY RequestOf DEF WriteStatus
<1>2. CASE q.target \notin Live
  <2>1. request' = [request EXCEPT ![u] = Idle] /\ UNCHANGED actions
    BY <1>2 DEF WriteStatus
  <2>2. recs' \in [Recs -> RecStatus]
    BY <1>1 DEF GInv, GrowthTypeOK
  <2> QED
    BY <1>1, <2>1, <2>2, EndKeeps
<1>3. CASE q.target \in Live
  <2> DEFINE new == IF q.rec = None THEN Idle ELSE [q EXCEPT !.step = "follow"]
  <2>1. /\ actions' = [actions EXCEPT ![q.target].status = q.status]
        /\ request' = [request EXCEPT ![u] = new]
    BY <1>3 DEF WriteStatus
  <2>2. q.status \in ActionStatus
    BY <1>1 DEF RequestType
  <2>3. q.run = None
    BY <1>1 DEF Shape, Creating
  <2> HIDE DEF q
  <2>4. /\ actions' \in Seq(Actions) /\ Len(actions') <= MaxActions
        /\ RowsKept(actions, actions')
        /\ Counted' \subseteq Counted /\ \A r : Seeds(r)' \subseteq Seeds(r)
    BY <1>3, <2>1, <2>2, StatusRows
  <2>5. /\ new \in RequestType /\ Shape(new) /\ Underway(actions', new)
        /\ new.step \in {"idle", "follow"}
    <3>1. CASE q.rec = None
      BY <3>1, IdleFits DEF Idle
    <3>2. CASE q.rec # None
      <4> DEFINE goes == [q EXCEPT !.step = "follow"]
      <4>1. /\ goes \in RequestType /\ goes.step = "follow" /\ goes.run = None
            /\ goes.rec # None
        BY <1>1, <2>3, <3>2 DEF RequestType, Steps
      <4>2. new = goes
        BY <3>2
      <4> HIDE DEF goes, new
      <4> QED
        BY <4>1, <4>2 DEF Shape, Underway, Creating
    <3> QED
      BY <3>1, <3>2
  <2> HIDE DEF new
  <2>6. request' \in [ActionRequests -> RequestType] /\ RequestsFit'
    BY <2>1, <2>4, <2>5, MovesFit
  <2>7. OvershootCounted' /\ SeedsCounted'
    <3>1. NoFurther(request[u], new)
      BY <2>5 DEF NoFurther
    <3> QED
      BY <2>1, <2>4, <3>1, MovesCount
  <2>8. RunsFit'
    BY <1>1, <2>4, RunsKept
  <2>9. GrowthTypeOK'
    BY <1>1, <2>4, <2>6 DEF GInv, GrowthTypeOK, RequestType
  <2> QED
    BY <2>6, <2>7, <2>8, <2>9 DEF GInv
<1> QED
  BY <1>2, <1>3

LEMMA DeleteKeeps ==
  ASSUME GInv, NEW u \in ActionRequests, NEW a \in 1..MaxActions, DeleteAction(u, a)
  PROVE  GInv'
<1>1. /\ a \in Live /\ actions' = [actions EXCEPT ![a].status = "deleted"]
      /\ UNCHANGED <<recs, agentRuns, request, carried>>
      /\ requests < MaxRequests /\ requests' = requests + 1
  BY DEF DeleteAction, Begin
<1>2. /\ actions' \in Seq(Actions) /\ Len(actions') <= MaxActions
      /\ RowsKept(actions, actions')
      /\ Counted' \subseteq Counted /\ \A r : Seeds(r)' \subseteq Seeds(r)
  BY <1>1, StatusRows
<1>3. request \in [ActionRequests -> RequestType]
  BY DEF GInv, GrowthTypeOK, RequestType
<1> DEFINE same == request[u]
<1>4. request' = [request EXCEPT ![u] = same] /\ same \in RequestType /\ Shape(same)
      /\ Underway(actions, same)
  BY <1>1, <1>3, RequestOf
<1>5. NoFurther(request[u], same)
  BY DEF NoFurther
<1> HIDE DEF same
<1>6. OvershootCounted' /\ SeedsCounted'
  BY <1>2, <1>4, <1>5, MovesCount
<1>7. RequestsFit'
  BY <1>2, <1>4, UnderwayKept, MovesFit
<1>8. RunsFit'
  BY <1>1, <1>2, RunsKept
<1>9. GrowthTypeOK'
  <2>1. requests' \in 0..MaxRequests
    BY <1>1, GrowthAssumption DEF GInv, GrowthTypeOK
  <2> QED
    BY <1>1, <1>2, <2>1 DEF GInv, GrowthTypeOK
<1> QED
  BY <1>6, <1>7, <1>8, <1>9 DEF GInv

-----------------------------------------------------------------------------
(* Requests begin, go on and end                                            *)

\* A request begins that no run asked for
LEMMA BeginKeeps ==
  ASSUME GInv, NEW u \in ActionRequests, Begin(u), NEW new \in RequestType,
         new.run = None, new.step \in {"seek", "allow", "status"},
         new.step = "seek" => new.rec # None,
         new.step = "allow" => new.seeded = FALSE,
         request' = [request EXCEPT ![u] = new],
         UNCHANGED <<actions, recs, agentRuns, carried>>
  PROVE  GInv'
<1>1. Shape(new) /\ Underway(actions, new)
  BY DEF Shape, Underway, Creating
<1>2. NoFurther(request[u], new)
  BY DEF NoFurther
<1>3. recs' \in [Recs -> RecStatus] /\ requests' \in 0..MaxRequests
  BY GrowthAssumption DEF GInv, GrowthTypeOK, Begin
<1> QED
  BY <1>1, <1>2, <1>3, Moves

LEMMA PostKeeps ==
  ASSUME GInv, NEW u \in ActionRequests, NEW r \in Recs \cup {None}, NEW sited \in BOOLEAN,
         PostAction(u, r, sited)
  PROVE  GInv'
<1> DEFINE new == [Idle EXCEPT !.step = "allow", !.rec = r, !.sited = sited]
<1>1. /\ Begin(u) /\ request' = [request EXCEPT ![u] = new]
      /\ UNCHANGED <<actions, recs, agentRuns, carried>>
  BY DEF PostAction, Begin
<1>2. Idle \in RequestType /\ Idle.run = None /\ Idle.seeded = FALSE
  BY IdleFits DEF Idle
<1>3. /\ new \in RequestType /\ new.run = None /\ new.step = "allow" /\ new.seeded = FALSE
  BY <1>2 DEF RequestType, Steps
<1> HIDE DEF new
<1> QED
  BY <1>1, <1>3, BeginKeeps

LEMMA ConvertKeeps ==
  ASSUME GInv, NEW u \in ActionRequests, NEW r \in Recs, ConvertRec(u, r)
  PROVE  GInv'
<1> DEFINE new == [Idle EXCEPT !.step = "seek", !.rec = r, !.seeded = TRUE, !.sited = TRUE]
<1>1. /\ Begin(u) /\ request' = [request EXCEPT ![u] = new]
      /\ UNCHANGED <<actions, recs, agentRuns, carried>>
  BY DEF ConvertRec, Begin
<1>2. Idle \in RequestType /\ Idle.run = None /\ r # None
  BY IdleFits, GrowthAssumption DEF Idle
<1>3. /\ new \in RequestType /\ new.run = None /\ new.step = "seek" /\ new.rec # None
  BY <1>2 DEF RequestType, Steps
<1> HIDE DEF new
<1> QED
  BY <1>1, <1>3, BeginKeeps

LEMMA ReadStatusKeeps ==
  ASSUME GInv, NEW u \in ActionRequests, NEW a \in 1..MaxActions, NEW status \in ActionStatus,
         ReadForStatus(u, a, status)
  PROVE  GInv'
<1> DEFINE new == [Idle EXCEPT !.step = "status", !.target = a, !.rec = actions[a].rec,
                               !.status = status]
<1>1. /\ Begin(u) /\ request' = [request EXCEPT ![u] = new] /\ a \in DOMAIN actions
      /\ UNCHANGED <<actions, recs, agentRuns, carried>>
  BY DEF ReadForStatus, Begin, Live
<1>2. Idle \in RequestType /\ Idle.run = None
  BY IdleFits DEF Idle
<1>3. actions[a].rec \in Recs \cup {None} /\ a \in 0..MaxActions
  BY <1>1, RowsTable DEF GInv, Actions
<1>4. /\ new \in RequestType /\ new.run = None /\ new.step = "status"
  BY <1>2, <1>3 DEF RequestType, Steps
<1> HIDE DEF new
<1> QED
  BY <1>1, <1>4, BeginKeeps

LEMMA RecStatusKeeps ==
  ASSUME GInv, NEW u \in ActionRequests, WriteRecStatus(u)
  PROVE  GInv'
<1>1. request[u] \in RequestType
  BY RequestOf
<1>2. RecStatusFor(request[u].status) \in RecStatus
  BY <1>1 DEF RecStatusFor, RecStatus, ActionStatus, RequestType
<1>3. recs' \in [Recs -> RecStatus]
  BY <1>2 DEF WriteRecStatus, GInv, GrowthTypeOK
<1> QED
  BY <1>3, EndKeeps DEF WriteRecStatus

LEMMA SelectionsTyped ==
  ASSUME GInv, NEW r \in AgentRuns, NEW selected \in Selections(r)
  PROVE  selected \in Seq(Kinds)
<1> DEFINE list == agentRuns[r].proposals
<1>1. list \in Seq(Kinds)
  BY DEF GInv, GrowthTypeOK
<1>2. Len(list) \in Nat /\ DOMAIN list = 1..Len(list) /\ \A i \in DOMAIN list : list[i] \in Kinds
  BY <1>1, LenProperties, ElementOfSeq
<1>3. \A i, j \in DOMAIN list : <<list[i], list[j]>> \in Seq(Kinds) /\ <<list[i]>> \in Seq(Kinds)
  BY <1>2
<1>4. \/ selected = list
      \/ \E i, j \in DOMAIN list : selected = <<list[i], list[j]>>
      \/ \E i \in DOMAIN list : selected = <<list[i]>>
  BY DEF Selections
<1> HIDE DEF list
<1> QED
  BY <1>1, <1>3, <1>4

\* Nothing is carried out yet of a selection whose execution begins.
LEMMA NothingCarried ==
  ASSUME NEW rows, NEW r, NEW list
  PROVE  CarriedOut(rows, r, list, 0, <<>>)
<1>1. Wanted(list, 0) = {}
  BY DEF Wanted
<1>2. Cardinality(Wanted(list, 0)) = 0
  BY <1>1, FS_EmptySet
<1> QED
  BY <1>1, <1>2, EmptySeq DEF CarriedOut

LEMMA ExecutionKeeps ==
  ASSUME GInv, NEW u \in ActionRequests, NEW r \in AgentRuns, NEW approve \in BOOLEAN,
         NEW selected \in Selections(r), BeginExecution(u, r, approve, selected)
  PROVE  GInv'
<1> DEFINE new == [Idle EXCEPT !.step = "next", !.run = r, !.approve = approve,
                               !.selected = selected, !.todo = selected]
<1>1. /\ Begin(u) /\ request' = [request EXCEPT ![u] = new]
      /\ UNCHANGED <<actions, recs, agentRuns, carried>>
  BY DEF BeginExecution, Begin
<1>2. /\ Idle \in RequestType /\ Idle.rec = None /\ Idle.seeded = FALSE /\ Idle.ids = <<>>
      /\ r # None
  BY IdleFits, GrowthAssumption DEF Idle
<1>3. selected \in Seq(Kinds) /\ Len(selected) \in Nat
  BY SelectionsTyped, LenProperties
<1>4. /\ new \in RequestType /\ new.run = r /\ new.step = "next" /\ new.rec = None
      /\ new.seeded = FALSE /\ new.approve = approve /\ new.selected = selected
      /\ new.todo = selected /\ new.ids = <<>>
  BY <1>2, <1>3 DEF RequestType, Steps
<1> HIDE DEF new
<1>5. Shape(new)
  BY <1>2, <1>4 DEF Shape, Creating
<1>6. Underway(actions, new)
  <2>1. Len(selected) - Len(selected) = 0 /\ Len(selected) <= Len(selected)
        /\ \A i \in 1..Len(selected) : 0 + i = i
    BY <1>3
  <2>2. CarriedOut(actions, r, selected, 0, <<>>)
    BY NothingCarried
  <2>3. r \in Careful => approve = TRUE
    BY Zenon DEF BeginExecution, MayBegin
  <2> QED
    BY <1>4, <2>1, <2>2, <2>3 DEF Underway
<1>7. NoFurther(request[u], new)
  BY <1>4 DEF NoFurther
<1>8. recs' \in [Recs -> RecStatus] /\ requests' \in 0..MaxRequests
  BY <1>1, GrowthAssumption DEF GInv, GrowthTypeOK, Begin
<1> QED
  BY <1>1, <1>4, <1>5, <1>6, <1>7, <1>8, Moves

\* What is before an execution, when it takes the next proposal
LEMMA NextProposal ==
  ASSUME NEW rows, NEW q \in RequestType, Shape(q), Underway(rows, q), q.step = "next",
         q.todo # <<>>
  PROVE  /\ q.run # None /\ q.rec = None /\ q.seeded = FALSE
         /\ q.run \in Careful => q.approve = TRUE
         /\ Len(q.selected) - Len(q.todo) \in Nat
         /\ Len(q.selected) \in Nat /\ Len(q.todo) \in Nat \ {0}
         /\ Head(q.todo) \in Kinds /\ Tail(q.todo) \in Seq(Kinds)
         /\ Len(Tail(q.todo)) = Len(q.todo) - 1
         /\ \A i \in 1..Len(Tail(q.todo)) : Tail(q.todo)[i] = q.todo[i + 1]
         /\ \A i \in 1..Len(q.todo) :
              q.todo[i] = q.selected[Len(q.selected) - Len(q.todo) + i]
         /\ Head(q.todo) = q.selected[Len(q.selected) - Len(q.todo) + 1]
         /\ CarriedOut(rows, q.run, q.selected, Len(q.selected) - Len(q.todo), q.ids)
<1>1. q.run # None /\ q.rec = None /\ q.seeded = FALSE
  BY DEF Shape
<1>2. /\ q.run \in Careful => q.approve = TRUE
      /\ Len(q.todo) <= Len(q.selected)
      /\ \A i \in 1..Len(q.todo) : q.todo[i] = q.selected[Len(q.selected) - Len(q.todo) + i]
      /\ CarriedOut(rows, q.run, q.selected, Len(q.selected) - Len(q.todo), q.ids)
  BY <1>1 DEF Underway
<1>3. q.selected \in Seq(Kinds) /\ q.todo \in Seq(Kinds)
  BY DEF RequestType
<1>4. Len(q.selected) \in Nat /\ Len(q.todo) \in Nat \ {0}
  BY <1>3, LenProperties, EmptySeq
<1>5. /\ Head(q.todo) \in Kinds /\ Tail(q.todo) \in Seq(Kinds)
      /\ Len(Tail(q.todo)) = Len(q.todo) - 1
      /\ \A i \in 1..Len(Tail(q.todo)) : Tail(q.todo)[i] = q.todo[i + 1]
      /\ Head(q.todo) = q.todo[1]
  BY <1>3, HeadTailProperties
<1>6. Len(q.todo) <= Len(q.selected)
  BY <1>2
<1>7. Len(q.selected) - Len(q.todo) \in Nat
  BY <1>4, <1>6
<1>8. Head(q.todo) = q.selected[Len(q.selected) - Len(q.todo) + 1]
  <2>1. 1 \in 1..Len(q.todo)
    BY <1>4
  <2>2. q.todo[1] = q.selected[Len(q.selected) - Len(q.todo) + 1]
    BY <1>2, <2>1
  <2> QED
    BY <1>5, <2>2
<1> QED
  BY <1>1, <1>2, <1>4, <1>5, <1>7, <1>8

LEMMA ReportKeeps ==
  ASSUME GInv, NEW u \in ActionRequests, GenerateReport(u)
  PROVE  GInv'
<1> DEFINE q == request[u]  new == [q EXCEPT !.todo = Tail(q.todo)]
           n == Len(q.selected) - Len(q.todo)
<1>1. /\ q \in RequestType /\ Shape(q) /\ Underway(actions, q)
      /\ q.step = "next" /\ q.todo # <<>> /\ Head(q.todo) = Report
      /\ UNCHANGED <<actions, recs, agentRuns, requests, carried>>
  BY RequestOf DEF GenerateReport, Executing
<1>2. CASE Throw(u)
  BY <1>1, <1>2, ThrowKeeps
<1>3. CASE request' = [request EXCEPT ![u].todo = Tail(@)]
  <2>1. request' = [request EXCEPT ![u] = new]
    BY <1>3
  <2> HIDE DEF q
  <2>2. /\ q.run # None /\ q.rec = None /\ q.seeded = FALSE
        /\ q.run \in Careful => q.approve = TRUE
        /\ n \in Nat /\ Len(q.selected) \in Nat /\ Len(q.todo) \in Nat \ {0}
        /\ Tail(q.todo) \in Seq(Kinds) /\ Len(Tail(q.todo)) = Len(q.todo) - 1
        /\ \A i \in 1..Len(Tail(q.todo)) : Tail(q.todo)[i] = q.todo[i + 1]
        /\ \A i \in 1..Len(q.todo) : q.todo[i] = q.selected[n + i]
        /\ Head(q.todo) = q.selected[n + 1]
        /\ CarriedOut(actions, q.run, q.selected, n, q.ids)
    BY <1>1, NextProposal
  <2>3. /\ new \in RequestType /\ new.run = q.run /\ new.step = "next" /\ new.rec = None
        /\ new.seeded = FALSE /\ new.approve = q.approve /\ new.selected = q.selected
        /\ new.todo = Tail(q.todo) /\ new.ids = q.ids
    BY <1>1, <2>2 DEF RequestType
  <2>4. Len(q.selected) - Len(Tail(q.todo)) = n + 1 /\ Len(Tail(q.todo)) <= Len(q.selected)
    <3> DEFINE rest == Tail(q.todo)
    <3>1. /\ Len(q.selected) \in Nat /\ Len(q.todo) \in Nat \ {0}
          /\ n \in Nat /\ n = Len(q.selected) - Len(q.todo)
      BY <2>2
    <3>2. Len(rest) = Len(q.todo) - 1
      BY <2>2
    <3> HIDE DEF rest, n
    <3>3. Len(q.selected) - Len(rest) = n + 1 /\ Len(rest) <= Len(q.selected)
      BY <3>1, <3>2
    <3> QED
      BY <3>3 DEF rest
  <2> HIDE DEF new, n
  <2>5. Shape(new)
    BY <2>2, <2>3 DEF Shape, Creating
  <2>6. CarriedOut(actions, q.run, q.selected, n + 1, q.ids)
    BY <1>1, <2>2, CarriedReport
  <2>7. \A i \in 1..Len(Tail(q.todo)) : Tail(q.todo)[i] = q.selected[n + 1 + i]
    <3> SUFFICES ASSUME NEW i \in 1..Len(Tail(q.todo))
                 PROVE  Tail(q.todo)[i] = q.selected[n + 1 + i]
      OBVIOUS
    <3>1. i \in Nat /\ i + 1 \in 1..Len(q.todo) /\ n + (i + 1) = n + 1 + i
      BY <2>2
    <3> QED
      BY <2>2, <3>1
  <2>8. Underway(actions, new)
    BY <2>2, <2>3, <2>4, <2>6, <2>7 DEF Underway
  <2>9. NoFurther(request[u], new)
    BY <2>3 DEF NoFurther
  <2>10. recs' \in [Recs -> RecStatus] /\ requests' \in 0..MaxRequests
    BY <1>1 DEF GInv, GrowthTypeOK
  <2> QED
    BY <1>1, <2>1, <2>3, <2>5, <2>8, <2>9, <2>10, Moves
<1> QED
  BY <1>2, <1>3 DEF GenerateReport

\* On the way to a row for a proposal: what is before the execution and behind it
\* is as it was.
LEMMA OnTheWay ==
  ASSUME NEW rows, NEW q \in RequestType, Shape(q), Underway(rows, q), q.step = "next",
         NEW new \in RequestType, new.run = q.run, new.approve = q.approve,
         new.selected = q.selected, new.todo = q.todo, new.ids = q.ids,
         new.step \in Creating
  PROVE  Underway(rows, new)
BY DEF Underway, Shape, Creating

LEMMA TakeKeeps ==
  ASSUME GInv, NEW u \in ActionRequests, TakeProposal(u)
  PROVE  GInv'
<1> DEFINE q == request[u]  p == Head(q.todo)
<1>1. /\ q \in RequestType /\ Shape(q) /\ Underway(actions, q)
      /\ q.step = "next" /\ q.todo # <<>> /\ p # Report
      /\ UNCHANGED <<actions, recs, agentRuns, requests, carried>>
  BY RequestOf DEF TakeProposal, Executing
<1>2. q.run # None /\ q.rec = None /\ q.seeded = FALSE /\ p \in Kinds
  BY <1>1, NextProposal
<1>3. recs' \in [Recs -> RecStatus] /\ requests' \in 0..MaxRequests
  BY <1>1 DEF GInv, GrowthTypeOK
<1>4. CASE Throw(u)
  BY <1>1, <1>4, ThrowKeeps
<1>5. CASE /\ p = Plain
           /\ request' = [request EXCEPT ![u] = [q EXCEPT !.step = "allow", !.sited = TRUE]]
  <2> DEFINE new == [q EXCEPT !.step = "allow", !.sited = TRUE]
  <2>1. request' = [request EXCEPT ![u] = new]
    BY <1>5
  <2>2. /\ new \in RequestType /\ new.run = q.run /\ new.step = "allow" /\ new.rec = None
        /\ new.seeded = FALSE /\ new.approve = q.approve /\ new.selected = q.selected
        /\ new.todo = q.todo /\ new.ids = q.ids
    BY <1>1, <1>2 DEF RequestType, Steps
  <2> HIDE DEF new, q
  <2>3. Shape(new)
    BY <1>1, <1>2, <1>5, <2>2 DEF Shape, Creating
  <2>4. Underway(actions, new)
    BY <1>1, <2>2, OnTheWay DEF Creating
  <2>5. NoFurther(request[u], new)
    BY <2>2 DEF NoFurther
  <2> QED
    BY <1>1, <1>3, <2>1, <2>2, <2>3, <2>4, <2>5, Moves
<1>6. CASE /\ p # Plain
           /\ request' = [request EXCEPT ![u] =
                [q EXCEPT !.step = "seek", !.rec = p, !.seeded = TRUE, !.sited = TRUE]]
  <2> DEFINE new == [q EXCEPT !.step = "seek", !.rec = p, !.seeded = TRUE, !.sited = TRUE]
  <2>1. request' = [request EXCEPT ![u] = new]
    BY <1>6
  <2>2. p \in Recs /\ p # None
    BY <1>1, <1>2, <1>6, GrowthAssumption DEF Kinds
  <2>3. /\ new \in RequestType /\ new.run = q.run /\ new.step = "seek" /\ new.rec = p
        /\ new.approve = q.approve /\ new.selected = q.selected
        /\ new.todo = q.todo /\ new.ids = q.ids
    BY <1>1, <2>2 DEF RequestType, Steps
  <2> HIDE DEF new, q
  <2>4. Shape(new)
    BY <1>1, <1>2, <1>6, <2>2, <2>3 DEF Shape, Creating
  <2>5. Underway(actions, new)
    BY <1>1, <2>3, OnTheWay DEF Creating
  <2>6. NoFurther(request[u], new)
    BY <2>3 DEF NoFurther
  <2> QED
    BY <1>1, <1>3, <2>1, <2>3, <2>4, <2>5, <2>6, Moves
<1> QED
  BY <1>4, <1>5, <1>6 DEF TakeProposal

-----------------------------------------------------------------------------
(* Runs                                                                     *)

\* A step that changes runs and ends requests
LEMMA RunsMove ==
  ASSUME GInv, UNCHANGED <<actions, recs, requests>>,
         request' \in [ActionRequests -> RequestType], RequestsFit',
         OvershootCounted', SeedsCounted', RunsFit',
         agentRuns' \in [AgentRuns -> RunType], carried' \in [AgentRuns -> CarriedType]
  PROVE  GInv'
<1>1. GrowthTypeOK'
  BY DEF GInv, GrowthTypeOK, RequestType, RunType, CarriedType
<1> QED
  BY <1>1 DEF GInv

LEMMA IdleEnd ==
  ASSUME GInv, NEW u \in ActionRequests, request' = [request EXCEPT ![u] = Idle],
         UNCHANGED actions
  PROVE  /\ request' \in [ActionRequests -> RequestType] /\ RequestsFit'
         /\ OvershootCounted' /\ SeedsCounted'
<1>1. /\ RowsKept(actions, actions')
      /\ Counted' \subseteq Counted /\ \A r : Seeds(r)' \subseteq Seeds(r)
  BY RowsSame
<1>2. Idle \in RequestType /\ Shape(Idle) /\ Underway(actions', Idle)
  BY IdleFits
<1>3. NoFurther(request[u], Idle)
  BY DEF NoFurther, Idle
<1> QED
  BY <1>1, <1>2, <1>3, MovesFit, MovesCount

LEMMA FinishKeeps ==
  ASSUME GInv, NEW u \in ActionRequests, FinishExecution(u)
  PROVE  GInv'
<1> DEFINE q == request[u]  x == q.run
           row == [agentRuns[x] EXCEPT !.approval = "EXECUTED", !.executed = q.ids]
           asked == [approve |-> q.approve, selected |-> q.selected]
<1>1. /\ q \in RequestType /\ Shape(q) /\ Underway(actions, q)
      /\ q.step = "next" /\ q.todo = <<>>
      /\ agentRuns' = [agentRuns EXCEPT ![x] = row]
      /\ carried' = [carried EXCEPT ![x] = asked]
      /\ request' = [request EXCEPT ![u] = Idle]
      /\ UNCHANGED <<actions, recs, requests>>
  BY RequestOf DEF FinishExecution
<1> HIDE DEF q
<1>2. x \in AgentRuns /\ x # None
  BY <1>1 DEF Shape, RequestType
<1>3. agentRuns \in [AgentRuns -> RunType] /\ carried \in [AgentRuns -> CarriedType]
  BY DEF GInv, GrowthTypeOK, RunType, CarriedType
<1>4. row \in RunType /\ row.approval = "EXECUTED" /\ row.executed = q.ids
  BY <1>1, <1>2, <1>3 DEF RunType, RequestType
<1>5. asked \in CarriedType /\ asked.approve = q.approve /\ asked.selected = q.selected
  BY <1>1 DEF CarriedType, RequestType
<1>6. /\ x \in Careful => q.approve = TRUE
      /\ CarriedOut(actions, x, q.selected, Len(q.selected), q.ids)
  <2>1. /\ x \in Careful => q.approve = TRUE
        /\ CarriedOut(actions, x, q.selected, Len(q.selected) - Len(q.todo), q.ids)
    BY <1>1, <1>2 DEF Underway
  <2>2. Len(q.selected) \in Nat /\ Len(q.todo) = 0
    <3>1. q.selected \in Seq(Kinds)
      BY <1>1 DEF RequestType
    <3> QED
      BY <1>1, <3>1, LenProperties, EmptySeq
  <2>3. Len(q.selected) - Len(q.todo) = Len(q.selected)
    BY <2>2
  <2> QED
    BY <2>1, <2>3
<1> HIDE DEF row, asked
<1>7. RunsFit'
  <2> SUFFICES ASSUME NEW r \in AgentRuns, agentRuns'[r].approval = "EXECUTED"
               PROVE  /\ r \in Careful => carried'[r].approve = TRUE
                      /\ CarriedOut(actions, r, carried'[r].selected, Len(carried'[r].selected),
                                    agentRuns'[r].executed)
    BY <1>1 DEF RunsFit
  <2>1. CASE r = x
    <3>1. agentRuns'[r] = row /\ carried'[r] = asked
      BY <1>1, <1>2, <1>3, <2>1
    <3> QED
      BY <1>4, <1>5, <1>6, <2>1, <3>1
  <2>2. CASE r # x
    <3>1. agentRuns'[r] = agentRuns[r] /\ carried'[r] = carried[r]
      BY <1>1, <1>3, <2>2
    <3> QED
      BY <3>1 DEF GInv, RunsFit
  <2> QED
    BY <2>1, <2>2
<1>8. agentRuns' \in [AgentRuns -> RunType] /\ carried' \in [AgentRuns -> CarriedType]
  BY <1>1, <1>3, <1>4, <1>5
<1> QED
  BY <1>1, <1>7, <1>8, IdleEnd, RunsMove

\* A run that does not say EXECUTED after a step
LEMMA RowChanges ==
  ASSUME GInv, NEW r \in AgentRuns, NEW row \in RunType, UNCHANGED <<actions, carried>>,
         agentRuns' = [agentRuns EXCEPT ![r] = row],
         row.approval = "EXECUTED" =>
           agentRuns[r].approval = "EXECUTED" /\ row.executed = agentRuns[r].executed
  PROVE  /\ RunsFit' /\ agentRuns' \in [AgentRuns -> RunType]
         /\ carried' \in [AgentRuns -> CarriedType]
<1>1. agentRuns \in [AgentRuns -> RunType] /\ carried \in [AgentRuns -> CarriedType]
  BY DEF GInv, GrowthTypeOK, RunType, CarriedType
<1>2. agentRuns'[r] = row /\ \A o \in AgentRuns \ {r} : agentRuns'[o] = agentRuns[o]
  BY <1>1
<1>3. RunsFit'
  <2> SUFFICES ASSUME NEW o \in AgentRuns, agentRuns'[o].approval = "EXECUTED"
               PROVE  /\ o \in Careful => carried[o].approve = TRUE
                      /\ CarriedOut(actions, o, carried[o].selected, Len(carried[o].selected),
                                    agentRuns'[o].executed)
    BY DEF RunsFit
  <2>1. agentRuns[o].approval = "EXECUTED" /\ agentRuns'[o].executed = agentRuns[o].executed
    BY <1>2
  <2> QED
    BY <2>1 DEF GInv, RunsFit
<1> QED
  BY <1>1, <1>3

LEMMA StopKeeps ==
  ASSUME GInv, NEW u \in ActionRequests, StopExecution(u)
  PROVE  GInv'
<1> DEFINE q == request[u]  x == q.run
           row == [agentRuns[x] EXCEPT !.approval = "PENDING", !.executed = q.ids]
<1>1. /\ q \in RequestType /\ Shape(q) /\ q.step = "stop"
      /\ agentRuns' = [agentRuns EXCEPT ![x] = row]
      /\ request' = [request EXCEPT ![u] = Idle]
      /\ UNCHANGED <<actions, recs, requests, carried>>
  BY RequestOf DEF StopExecution
<1> HIDE DEF q
<1>2. x \in AgentRuns
  BY <1>1 DEF Shape, RequestType
<1>3. agentRuns[x] \in RunType
  BY <1>2 DEF GInv, GrowthTypeOK, RunType
<1>4. row \in RunType /\ row.approval = "PENDING"
  BY <1>1, <1>3 DEF RunType, RequestType
<1> HIDE DEF row, x
<1> QED
  BY <1>1, <1>2, <1>4, IdleEnd, RowChanges, RunsMove

\* Steps of a run on its own
LEMMA RunKeeps ==
  ASSUME GInv, NEW r \in AgentRuns, NEW row \in RunType,
         UNCHANGED <<actions, recs, request, requests, carried>>,
         agentRuns' = [agentRuns EXCEPT ![r] = row],
         row.approval = "EXECUTED" =>
           agentRuns[r].approval = "EXECUTED" /\ row.executed = agentRuns[r].executed
  PROVE  GInv'
<1>1. /\ RunsFit' /\ agentRuns' \in [AgentRuns -> RunType]
      /\ carried' \in [AgentRuns -> CarriedType]
  BY RowChanges
<1>2. request' \in [ActionRequests -> RequestType] /\ RequestsFit'
  BY DEF GInv, GrowthTypeOK, RequestType, RequestsFit
<1>3. Counted' = Counted /\ Passing' = Passing
      /\ \A o : Seeds(o)' = Seeds(o) /\ Seeding(o)' = Seeding(o)
  BY DEF Counted, Live, Passing, Seeds, Seeding
<1>4. OvershootCounted' /\ SeedsCounted'
  BY <1>3 DEF GInv, OvershootCounted, SeedsCounted
<1> QED
  BY <1>1, <1>2, <1>4, RunsMove

LEMMA RunsKeep ==
  ASSUME GInv, NEW r \in AgentRuns,
         StartRun(r) \/ FailRun(r) \/ \E list \in ProposalLists : FinishRun(r, list)
  PROVE  GInv'
<1>1. agentRuns[r] \in RunType
  BY DEF GInv, GrowthTypeOK, RunType
<1>2. UNCHANGED <<actions, recs, request, requests, carried>>
  BY DEF StartRun, FailRun, FinishRun
<1>3. ASSUME NEW status \in {"RUNNING", "FAILED"},
             agentRuns' = [agentRuns EXCEPT ![r].status = status]
      PROVE  GInv'
  <2> DEFINE row == [agentRuns[r] EXCEPT !.status = status]
  <2>1. agentRuns' = [agentRuns EXCEPT ![r] = row]
    BY <1>3
  <2>2. /\ row \in RunType /\ row.approval = agentRuns[r].approval
        /\ row.executed = agentRuns[r].executed
    BY <1>1 DEF RunType
  <2> HIDE DEF row
  <2> QED
    BY <1>2, <2>1, <2>2, RunKeeps
<1>4. ASSUME NEW list \in ProposalLists, FinishRun(r, list)
      PROVE  GInv'
  <2> DEFINE row == [status |-> "COMPLETED", proposals |-> list, executed |-> <<>>,
                     approval |-> IF list # <<>> /\ r \in Careful THEN "PENDING"
                                  ELSE "NOT_REQUIRED"]
  <2>1. agentRuns' = [agentRuns EXCEPT ![r] = row]
    BY <1>4 DEF FinishRun
  <2>2. list \in Seq(Kinds) /\ <<>> \in Seq(1..MaxActions)
    BY GrowthAssumption, EmptySeq DEF Kinds
  <2>3. row \in RunType /\ row.approval # "EXECUTED"
    BY <2>2 DEF RunType
  <2> HIDE DEF row
  <2> QED
    BY <1>2, <2>1, <2>3, RunKeeps
<1> QED
  BY <1>3, <1>4 DEF StartRun, FailRun

-----------------------------------------------------------------------------
(* The invariant                                                            *)

LEMMA InitGInv == InitGrowth => GInv
<1> SUFFICES ASSUME InitGrowth PROVE GInv
  OBVIOUS
<1>1. /\ actions = <<>> /\ requests = 0 /\ request = [u \in ActionRequests |-> Idle]
      /\ recs = [r \in Recs |-> "OPEN"]
      /\ agentRuns = [r \in AgentRuns |->
                       [status |-> "none", approval |-> "NOT_REQUIRED",
                        proposals |-> <<>>, executed |-> <<>>]]
      /\ carried = [r \in AgentRuns |-> [approve |-> FALSE, selected |-> <<>>]]
  BY DEF InitGrowth
<1>2. /\ Idle \in RequestType /\ Shape(Idle) /\ Underway(actions, Idle) /\ Idle.step = "idle"
  BY IdleFits DEF Idle
<1>3. /\ actions \in Seq(Actions) /\ Len(actions) = 0 /\ DOMAIN actions = {}
      /\ MaxActions \in Nat /\ MaxRequests \in Nat
  BY <1>1, EmptySeq, GrowthAssumption
<1>4. GrowthTypeOK
  <2>1. <<>> \in Seq(Kinds) /\ <<>> \in Seq(1..MaxActions)
    BY EmptySeq
  <2>2. agentRuns \in [AgentRuns -> RunType] /\ carried \in [AgentRuns -> CarriedType]
    BY <1>1, <2>1 DEF RunType, CarriedType
  <2>3. recs \in [Recs -> RecStatus] /\ request \in [ActionRequests -> RequestType]
    BY <1>1, <1>2 DEF RecStatus
  <2>4. Len(actions) <= MaxActions /\ requests \in 0..MaxRequests
    BY <1>1, <1>3
  <2> QED
    BY <1>3, <2>2, <2>3, <2>4 DEF GrowthTypeOK, RunType, CarriedType, RequestType
<1>5. RequestsFit
  BY <1>1, <1>2 DEF RequestsFit
<1>6. RunsFit
  BY <1>1 DEF RunsFit
<1>7. Counted = {} /\ Passing = {} /\ \A r : Seeds(r) = {} /\ Seeding(r) = {}
  BY <1>1, <1>2, <1>3 DEF Counted, Live, Passing, Seeds, Seeding
<1>8. OvershootCounted /\ SeedsCounted
  <2>1. Cardinality({}) = 0
    BY FS_EmptySet
  <2>2. 0 + 0 <= Allowance + Cardinality(ActionRequests) - 1
        /\ 0 + 0 <= Cardinality(ActionRequests)
    BY RequestsCounted
  <2>3. OvershootCounted
    BY <1>7, <2>1, <2>2 DEF OvershootCounted
  <2>4. SeedsCounted
    BY <1>7, <2>1, <2>2 DEF SeedsCounted
  <2> QED
    BY <2>3, <2>4
<1> QED
  BY <1>4, <1>5, <1>6, <1>8 DEF GInv

LEMMA StepGInv == GInv /\ [NextGrowth]_growthVars => GInv'
<1> SUFFICES ASSUME GInv, [NextGrowth]_growthVars PROVE GInv'
  OBVIOUS
<1>1. ASSUME NEW r \in AgentRuns,
             StartRun(r) \/ FailRun(r) \/ \E list \in ProposalLists : FinishRun(r, list)
      PROVE  GInv'
  BY <1>1, RunsKeep
<1>2. ASSUME NEW u \in ActionRequests,
             SeekAction(u) \/ CheckAllowance(u) \/ CreateRow(u) \/ DatabaseError(u)
      PROVE  GInv'
  BY <1>2, SeekKeeps, CheckKeeps, CreateKeeps, ThrowKeeps DEF DatabaseError
<1>3. ASSUME NEW u \in ActionRequests, WriteStatus(u) \/ WriteRecStatus(u)
      PROVE  GInv'
  BY <1>3, StatusKeeps, RecStatusKeeps
<1>4. ASSUME NEW u \in ActionRequests, GenerateReport(u) \/ TakeProposal(u)
      PROVE  GInv'
  BY <1>4, ReportKeeps, TakeKeeps
<1>5. ASSUME NEW u \in ActionRequests, FinishExecution(u) \/ StopExecution(u)
      PROVE  GInv'
  BY <1>5, FinishKeeps, StopKeeps
<1>6. ASSUME NEW u \in ActionRequests, NEW r \in Recs, ConvertRec(u, r)
      PROVE  GInv'
  BY <1>6, ConvertKeeps
<1>7. ASSUME NEW u \in ActionRequests, NEW r \in Recs \cup {None}, NEW sited \in BOOLEAN,
             PostAction(u, r, sited)
      PROVE  GInv'
  BY <1>7, PostKeeps
<1>8. ASSUME NEW u \in ActionRequests, NEW a \in 1..MaxActions, DeleteAction(u, a)
      PROVE  GInv'
  BY <1>8, DeleteKeeps
<1>9. ASSUME NEW u \in ActionRequests, NEW a \in 1..MaxActions, NEW status \in ActionStatus,
             ReadForStatus(u, a, status)
      PROVE  GInv'
  BY <1>9, ReadStatusKeeps
<1>10. ASSUME NEW u \in ActionRequests, NEW r \in AgentRuns, NEW approve \in BOOLEAN,
              NEW selected \in Selections(r), BeginExecution(u, r, approve, selected)
       PROVE  GInv'
  BY <1>10, ExecutionKeeps
<1>11. CASE UNCHANGED growthVars
  <2>1. /\ actions' = actions /\ recs' = recs /\ agentRuns' = agentRuns
        /\ request' = request /\ requests' = requests /\ carried' = carried
    BY <1>11 DEF growthVars
  <2>2. GrowthTypeOK' /\ RequestsFit' /\ RunsFit'
    BY <2>1 DEF GInv, GrowthTypeOK, RequestsFit, RunsFit
  <2>3. Counted' = Counted /\ Passing' = Passing
        /\ \A r : Seeds(r)' = Seeds(r) /\ Seeding(r)' = Seeding(r)
    BY <2>1 DEF Counted, Live, Passing, Seeds, Seeding
  <2>4. OvershootCounted' /\ SeedsCounted'
    BY <2>3 DEF GInv, OvershootCounted, SeedsCounted
  <2> QED
    BY <2>2, <2>4 DEF GInv
<1> QED
  BY <1>1, <1>2, <1>3, <1>4, <1>5, <1>6, <1>7, <1>8, <1>9, <1>10, <1>11 DEF NextGrowth

\* The inductive invariant holds throughout.
THEOREM GrowthInv == SpecGrowth => []GInv
BY InitGInv, StepGInv, PTL DEF SpecGrowth

-----------------------------------------------------------------------------
(* The theorems                                                             *)

\* The rows, the runs, the requests and the account of what was approved keep
\* their types.
THEOREM GrowthTyped == SpecGrowth => []GrowthTypeOK
<1>1. GInv => GrowthTypeOK
  BY DEF GInv
<1> QED
  BY <1>1, GrowthInv, PTL

\* approveAndExecute: a run that says EXECUTED was approved if it had to be and has
\* one action for every proposal of the selection that was approved, in order,
\* whatever other executions of the run do.
THEOREM ExecutionAsApproved == SpecGrowth => []ExecutedAsApproved
<1>1. GInv => ExecutedAsApproved
  BY DEF GInv, RunsFit, CarriedOut, Fits, ExecutedAsApproved
<1> QED
  BY <1>1, GrowthInv, PTL

\* checkActionAllowance: however many requests are under way together, the actions
\* of the month exceed the allowance by fewer than there are of these requests.
THEOREM OvershootIsBounded == SpecGrowth => []OvershootBounded
<1>1. GInv => OvershootBounded
  <2> SUFFICES ASSUME GInv PROVE OvershootBounded
    OBVIOUS
  <2>1. Cardinality(Counted) \in Nat /\ Cardinality(Passing) \in Nat
    BY BoundsTyped, FS_CardinalityType
  <2>2. Cardinality(Counted) + Cardinality(Passing)
          <= Allowance + Cardinality(ActionRequests) - 1
    BY DEF GInv, OvershootCounted
  <2> QED
    BY <2>1, <2>2, RequestsCounted DEF OvershootBounded
<1> QED
  BY <1>1, GrowthInv, PTL

\* createActionFromRecommendation: however many requests are under way together, a
\* recommendation seeds no more actions than there are of them: a request that
\* looks while one exists creates none.
THEOREM SeedsAreBounded == SpecGrowth => []SeedsBounded
<1>1. GInv => SeedsBounded
  <2> SUFFICES ASSUME GInv, NEW r \in Recs
               PROVE  Cardinality({a \in Live : actions[a].rec = r /\ actions[a].seeded})
                        <= Cardinality(ActionRequests)
    BY DEF SeedsBounded
  <2>1. Cardinality(Seeds(r)) \in Nat /\ Cardinality(Seeding(r)) \in Nat
    BY BoundsTyped, FS_CardinalityType
  <2>2. Cardinality(Seeds(r)) + Cardinality(Seeding(r)) <= Cardinality(ActionRequests)
    BY DEF GInv, SeedsCounted
  <2>3. {a \in Live : actions[a].rec = r /\ actions[a].seeded} = Seeds(r)
    <3>1. \A a \in Live : actions[a].seeded \in BOOLEAN
      BY RowsTable DEF GInv, Live, Actions
    <3> QED
      BY <3>1, Zenon DEF Seeds
  <2>4. Cardinality(Seeds(r)) <= Cardinality(ActionRequests)
    BY <2>1, <2>2, RequestsCounted
  <2> QED
    BY <2>3, <2>4
<1> QED
  BY <1>1, GrowthInv, PTL
=============================================================================
