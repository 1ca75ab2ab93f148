----------------------- MODULE RequestSettlementProofs -----------------------
(***************************************************************************)
(* An ask of any number of legs, at any cost and cap, with any number of   *)
(* lost writes and rebuilds, and in whatever order its legs are settled:   *)
(* it is charged once at most, and never for work that did not answer.     *)
(***************************************************************************)
EXTENDS RequestSettlement, FiniteSetTheorems, WellFoundedInduction, TLAPS

LegType ==
    [at : {"waiting", "running", "ended", "closed", "settled"},
     id : {0} \cup Ids, outcome : {"none"} \cup Outcomes]

RowType ==
    [stored : BOOLEAN, credits : 0..Cap, linked : BOOLEAN,
     result : {"none", "success", "failure", "cancellation"}]

Builds == {NoBuild} \cup [at : {"fetched"}, id : Ids, row : RowType]

Types ==
    /\ run \in {"running", "awaiting", "final"}
    /\ leg \in [Legs -> LegType]
    /\ spent \in [Ids -> 0..MaxSpend]
    /\ row \in [Ids -> RowType]
    /\ charge \in [Ids -> 0..Cap]
    /\ rebuild \in Builds
    /\ rebuilds \in 0..MaxRebuilds
    /\ lost \in 0..MaxLost
    /\ overlap \in BOOLEAN
    /\ raced \in BOOLEAN

\* The run is streaming while a leg is, and over once one has answered.
LegOK(l) ==
    /\ leg[l].at = "waiting" => leg[l].id = 0
    /\ leg[l].at # "waiting" => leg[l].id # 0
    /\ leg[l].at \in {"waiting", "running"} => leg[l].outcome = "none"
    /\ leg[l].at = "running" => run = "running"
    /\ leg[l].outcome = "success" => run = "final"

OneLeg ==
    \A k, l \in Legs :
        \/ leg[k].at = "running" /\ leg[l].at = "running"
        \/ leg[k].outcome = "success" /\ leg[l].outcome = "success"
        => k = l

\* Request i was opened by leg i.
Opener(i) == leg[i].id = i

RowOK(i) ==
    /\ ~row[i].stored => row[i].credits = 0 /\ ~row[i].linked /\ row[i].result = "none"
    /\ row[i].linked => row[i].result # "none"
    /\ row[i].stored => Opener(i)

Answered(i) == \E l \in Legs : leg[l].id = i /\ leg[l].outcome = "success"

\* No leg of request i will be settled any more, and none will join it.
Abandoned(i) ==
    /\ ~row[i].linked
    /\ \A l \in Legs : leg[l].id = i => leg[l].at = "settled"

\* A row that is worth something belongs to a request that answered, or to one
\* nobody will charge: it was never closed, and derived as a success later.
Earned(i) ==
    /\ row[i].credits > 0 \/ row[i].result = "success" => Answered(i) \/ Abandoned(i)
    /\ charge[i] > 0 => Answered(i)

Structure ==
    /\ \A l \in Legs : LegOK(l)
    /\ OneLeg
    /\ \A l \in Legs : leg[l].id # 0 => Opener(leg[l].id)
    /\ \A i \in Ids : RowOK(i)
    /\ rebuild # NoBuild => Opener(rebuild.id)

\* The inductive invariant.
Settling == Types /\ Structure /\ (~raced => \A i \in Ids : Earned(i))

-----------------------------------------------------------------------------
LEMMA Bounds ==
    /\ LastLeg \in Nat /\ LastLeg > 0 /\ Legs \subseteq Nat /\ Ids = Legs /\ 0 \notin Ids
    /\ MaxSpend \in Nat /\ Cap \in Nat /\ MaxLost \in Nat /\ MaxRebuilds \in Nat
BY SettlementAssumption DEF Legs, Ids

LEMMA RowFields ==
    ASSUME NEW r \in RowType
    PROVE  /\ r.stored \in BOOLEAN /\ r.linked \in BOOLEAN /\ r.credits \in 0..Cap
           /\ r.result \in {"none", "success", "failure", "cancellation"}
BY DEF RowType

LEMMA LegFields ==
    ASSUME NEW g \in LegType
    PROVE  /\ g.at \in {"waiting", "running", "ended", "closed", "settled"}
           /\ g.id \in {0} \cup Ids /\ g.outcome \in {"none"} \cup Outcomes
BY DEF LegType

LEMMA BuildFields ==
    ASSUME NEW b \in Builds
    PROVE  /\ b # NoBuild <=> b.at = "fetched"
           /\ b # NoBuild => b.id \in Ids /\ b.row \in RowType
BY DEF Builds, NoBuild

LEMMA RowsTyped ==
    /\ NoRow \in RowType /\ ~NoRow.stored /\ NoRow.credits = 0
    /\ ~NoRow.linked /\ NoRow.result = "none"
    /\ Opened \in RowType /\ Opened.stored /\ Opened.credits = 0
    /\ ~Opened.linked /\ Opened.result = "none"
<1>1. /\ NoRow \in RowType /\ ~NoRow.stored /\ NoRow.credits = 0
      /\ ~NoRow.linked /\ NoRow.result = "none"
  <2>1. 0 \in 0..Cap
    BY Bounds
  <2>. QED  BY <2>1 DEF NoRow, RowType
<1>2. Opened \in RowType /\ Opened.stored /\ Opened.credits = NoRow.credits
      /\ Opened.linked = NoRow.linked /\ Opened.result = NoRow.result
  BY <1>1 DEF Opened, RowType
<1>. QED  BY <1>1, <1>2

\* The greatest of some requests is one of them.
Above == {ss \in Nat \X Nat : ss[1] < ss[2]}

LEMMA AboveWellFounded == IsWellFoundedOn(Above, Nat)
<1>1. Above = OpToRel(<, Nat)
  BY Zenon DEF Above, OpToRel
<1>. QED  BY ONLY <1>1, NatLessThanWellFounded, Zenon

LEMMA NewestIsOne ==
    ASSUME NEW S \in SUBSET Ids, S # {}
    PROVE  Max(S) \in S
<1>. DEFINE T == {LastLeg - x : x \in S}
<1>1. S \subseteq 1..LastLeg /\ LastLeg \in Nat
  BY Bounds DEF Ids, Legs
<1>2. T \subseteq Nat /\ T # {}
  BY <1>1
<1>3. PICK t \in T : \A y \in T : ~(<<y, t>> \in Above)
  BY <1>2, AboveWellFounded, WFMin
<1>4. PICK x \in S : t = LastLeg - x
  BY <1>3
<1>5. \A y \in S : y <= x
  <2>1. \A i, j \in Nat : i < j => <<i, j>> \in Above
    BY DEF Above
  <2>2. SUFFICES ASSUME NEW y \in S PROVE ~(y > x)
    BY <1>1
  <2>3. LastLeg - y \in T /\ LastLeg - y \in Nat /\ t \in Nat
    BY <1>2, <1>3
  <2>4. ~(LastLeg - y < t)
    BY <1>3, <2>1, <2>3
  <2>. QED  BY <1>1, <1>4, <2>4
<1>. QED  BY <1>5 DEF Max

LEMMA CreditsTyped ==
    ASSUME Types, NEW i \in Ids, NEW result
    PROVE  /\ Credits(i, result) \in 0..Cap
           /\ Credits(i, result) > 0 => result = "success"
BY Bounds DEF Types, Credits, Least

LEMMA SettlingInit == Init => Settling
<1>. SUFFICES ASSUME Init PROVE Settling
  OBVIOUS
<1>1. /\ leg \in [Legs -> LegType]
      /\ \A l \in Legs : /\ leg[l].at = IF l = 1 THEN "running" ELSE "waiting"
                         /\ leg[l].id = IF l = 1 THEN 1 ELSE 0
                         /\ leg[l].outcome = "none"
  <2>0. 1 \in Ids
    BY Bounds DEF Ids, Legs
  <2>1. leg = [l \in Legs |-> [at |-> IF l = 1 THEN "running" ELSE "waiting",
                               id |-> IF l = 1 THEN 1 ELSE 0, outcome |-> "none"]]
    BY DEF Init
  <2>2. \A l \in Legs : [at |-> IF l = 1 THEN "running" ELSE "waiting",
                         id |-> IF l = 1 THEN 1 ELSE 0, outcome |-> "none"] \in LegType
    BY <2>0 DEF LegType
  <2>. QED  BY <2>1, <2>2
<1>2. /\ row \in [Ids -> RowType]
      /\ \A i \in Ids : /\ row[i].credits = 0 /\ ~row[i].linked /\ row[i].result = "none"
                        /\ row[i].stored => i = 1
      /\ lost \in 0..MaxLost
  <2>1. CASE row = [i \in Ids |-> IF i = 1 THEN Opened ELSE NoRow] /\ lost = 0
    <3>1. \A i \in Ids : row[i] = IF i = 1 THEN Opened ELSE NoRow
      BY <2>1
    <3>2. row \in [Ids -> RowType] /\ lost \in 0..MaxLost
      BY <2>1, RowsTyped, Bounds
    <3>. QED  BY <3>1, <3>2, RowsTyped, Zenon
  <2>2. CASE row = [i \in Ids |-> NoRow] /\ lost = 1 /\ MaxLost > 0
    <3>1. \A i \in Ids : row[i] = NoRow
      BY <2>2
    <3>2. row \in [Ids -> RowType] /\ lost \in 0..MaxLost
      BY <2>2, RowsTyped, Bounds
    <3>. QED  BY <3>1, <3>2, RowsTyped, Zenon
  <2>. QED  BY <2>1, <2>2 DEF Init
<1>3. run = "running" /\ rebuild = NoBuild /\ \A i \in Ids : charge[i] = 0
  BY DEF Init
<1>4. Types
  <2>1. /\ rebuild \in Builds /\ 0 \in 0..MaxSpend /\ 0 \in 0..Cap /\ 0 \in 0..MaxRebuilds
    BY <1>3, Bounds DEF Builds
  <2>. QED  BY <1>1, <1>2, <1>3, <2>1 DEF Init, Types
<1>5. (\A l \in Legs : LegOK(l)) /\ OneLeg
  <2>1. \A l \in Legs : LegOK(l)
    <3>. SUFFICES ASSUME NEW l \in Legs PROVE LegOK(l)
      OBVIOUS
    <3>1. CASE l = 1
      BY <1>1, <1>3, <3>1 DEF LegOK
    <3>2. CASE l # 1
      BY <1>1, <1>3, <3>2 DEF LegOK
    <3>. QED  BY <3>1, <3>2
  <2>2. OneLeg
    BY <1>1 DEF OneLeg
  <2>. QED  BY <2>1, <2>2
<1>6. \A i \in Ids : RowOK(i)
  BY <1>1, <1>2, Bounds DEF RowOK, Opener
<1>7. \A l \in Legs : leg[l].id # 0 => Opener(leg[l].id)
  BY <1>1 DEF Opener
<1>8. \A i \in Ids : Earned(i)
  <2>1. ASSUME NEW i \in Ids
        PROVE  ~(row[i].credits > 0) /\ row[i].result # "success" /\ ~(charge[i] > 0)
    <3>1. row[i].credits = 0 /\ row[i].result = "none" /\ charge[i] = 0
      BY <1>2, <1>3, Zenon
    <3>. QED  BY <3>1
  <2>. QED  BY <2>1, Zenon DEF Earned
<1>. QED  BY <1>3, <1>4, <1>5, <1>6, <1>7, <1>8 DEF Settling, Structure

-----------------------------------------------------------------------------
LEMMA StructureSame ==
    ASSUME Structure, UNCHANGED <<run, leg, row, rebuild>> PROVE Structure'
BY DEF Structure, LegOK, OneLeg, Opener, RowOK

LEMMA EarnedSame ==
    ASSUME NEW i \in Ids, Earned(i), UNCHANGED <<leg, row, charge>> PROVE Earned(i)'
BY DEF Earned, Answered, Abandoned

\* A request somebody is still settling was not abandoned.
LEMMA InHand ==
    ASSUME NEW l \in Legs, leg[l].at # "settled"
    PROVE  ~Abandoned(leg[l].id)
BY DEF Abandoned

LEMMA SettlingSpend == ASSUME Settling, NEW l \in Legs, Spend(l) PROVE Settling'
<1>1. UNCHANGED <<run, leg, row, charge, rebuild, rebuilds, lost, overlap, raced>>
  BY DEF Spend
<1>2. leg[l].id \in Ids
  <2>1. leg[l].at # "waiting"
    BY DEF Spend, Settling, Structure, LegOK, Outcomes
  <2>. QED  BY <2>1, LegFields DEF Settling, Structure, LegOK, Types
<1>3. spent' \in [Ids -> 0..MaxSpend]
  <2>. DEFINE id == leg[l].id
  <2>1. /\ spent \in [Ids -> 0..MaxSpend] /\ spent[id] < MaxSpend
        /\ spent' = [spent EXCEPT ![id] = @ + 1]
    BY DEF Spend, Settling, Types
  <2>. HIDE DEF id
  <2>2. id \in Ids
    BY <1>2 DEF id
  <2>. QED  BY <2>1, <2>2, Bounds
<1>4. Types'
  BY <1>1, <1>3 DEF Settling, Types
<1>. QED  BY <1>1, <1>4, StructureSame, EarnedSame DEF Settling

\* One leg moves, within its request.
LEMMA LegMoves ==
    ASSUME Types, NEW l \in Legs, NEW g \in LegType, leg' = [leg EXCEPT ![l] = g]
    PROVE  /\ leg' \in [Legs -> LegType] /\ leg'[l] = g
           /\ \A k \in Legs : k # l => leg'[k] = leg[k]
BY DEF Types

LEMMA SettlingEnd ==
    ASSUME Settling, NEW l \in Legs, NEW outcome \in Outcomes, End(l, outcome)
    PROVE  Settling'
<1>. DEFINE g == [leg[l] EXCEPT !.at = "ended", !.outcome = outcome]
<1>1. /\ leg[l] \in LegType /\ leg[l].at = "running"
      /\ leg' = [leg EXCEPT ![l] = g]
      /\ run' = IF outcome = "parked" THEN "awaiting" ELSE "final"
      /\ UNCHANGED <<spent, row, charge, rebuild, rebuilds, lost, overlap, raced>>
  BY DEF End, Settling, Types
<1>2. g \in LegType /\ g.at = "ended" /\ g.id = leg[l].id /\ g.outcome = outcome
  BY <1>1 DEF LegType
<1>. HIDE DEF g
<1>3. /\ leg' \in [Legs -> LegType] /\ leg'[l] = g
      /\ \A k \in Legs : k # l => leg'[k] = leg[k]
  BY <1>1, <1>2, LegMoves DEF Settling
<1>4. \A k \in Legs : leg'[k].id = leg[k].id
  BY <1>2, <1>3
<1>5. \A k \in Legs : LegOK(k) /\ (leg[l].at = "running" /\ leg[k].at = "running" => k = l)
  BY DEF Settling, Structure, OneLeg
<1>6. run = "running" /\ leg[l].outcome = "none" /\ leg[l].id # 0
  BY <1>1, <1>5 DEF LegOK
<1>7. \A k \in Legs : k # l => leg[k].outcome # "success" /\ leg[k].at # "running"
  BY <1>1, <1>5, <1>6 DEF LegOK
<1>8. \A k \in Legs : LegOK(k)'
  <2>1. LegOK(l)'
    BY <1>1, <1>2, <1>3, <1>6 DEF LegOK
  <2>2. \A k \in Legs : k # l => LegOK(k)'
    BY <1>3, <1>5, <1>7 DEF LegOK
  <2>. QED  BY <2>1, <2>2
<1>9. OneLeg'
  BY <1>2, <1>3, <1>7 DEF OneLeg
<1>10. Structure'
  BY <1>1, <1>4, <1>8, <1>9 DEF Settling, Structure, Opener, RowOK
<1>11. Types'
  BY <1>1, <1>3 DEF Settling, Types
<1>12. ASSUME NEW i \in Ids, Earned(i) PROVE Earned(i)'
  <2>1. Answered(i) => Answered(i)'
    BY <1>3, <1>4, <1>6 DEF Answered
  <2>2. Abandoned(i) => Abandoned(i)'
    BY <1>1, <1>3, <1>4 DEF Abandoned
  <2>. QED  BY <1>1, <1>12, <2>1, <2>2 DEF Earned
<1>. QED  BY <1>1, <1>10, <1>11, <1>12 DEF Settling

\* A write of row id, or its loss.
LEMMA RowWrites ==
    ASSUME Types, NEW id \in Ids, NEW new \in RowType, Write(id, new)
    PROVE  /\ row' \in [Ids -> RowType] /\ lost' \in 0..MaxLost
           /\ row'[id] \in {row[id], new}
           /\ \A i \in Ids : i # id => row'[i] = row[i]
BY Bounds DEF Types, Write

LEMMA SettlingClose == ASSUME Settling, NEW l \in Legs, Close(l) PROVE Settling'
<1>. DEFINE id == leg[l].id
            result == Result(leg[l].outcome)
            new == [stored |-> TRUE, result |-> result, linked |-> TRUE,
                    credits |-> Credits(id, result)]
            g == [leg[l] EXCEPT !.at = "closed"]
<1>1. /\ leg[l] \in LegType /\ leg[l].at = "ended" /\ LegOK(l) /\ Types
      /\ leg' = [leg EXCEPT ![l] = g]
      /\ Write(id, new)
      /\ UNCHANGED <<run, spent, charge, rebuild, rebuilds, overlap, raced>>
  BY DEF Close, Settling, Structure, Types
<1>2. /\ g \in LegType /\ g.at = "closed" /\ g.id = leg[l].id /\ g.outcome = leg[l].outcome
  BY <1>1 DEF LegType
<1>. HIDE DEF g
<1>3. /\ leg' \in [Legs -> LegType] /\ leg'[l] = g
      /\ \A k \in Legs : k # l => leg'[k] = leg[k]
  BY <1>1, <1>2, LegMoves
<1>4. id \in Ids /\ Opener(id)
  BY <1>1, LegFields DEF LegOK, Settling, Structure
<1>5. /\ result \in {"success", "failure", "cancellation"}
      /\ result = "success" => leg[l].outcome = "success"
  BY DEF Result
<1>6. /\ new \in RowType /\ new.stored /\ new.linked /\ new.result = result
      /\ new.credits > 0 => result = "success"
  <2>1. Credits(id, result) \in 0..Cap /\ (Credits(id, result) > 0 => result = "success")
    BY <1>1, <1>4, CreditsTyped
  <2>. HIDE DEF result, id
  <2>. QED  BY <1>5, <2>1 DEF RowType
<1>. HIDE DEF new, result, id
<1>7. /\ row' \in [Ids -> RowType] /\ lost' \in 0..MaxLost /\ row'[id] \in {row[id], new}
      /\ \A i \in Ids : i # id => row'[i] = row[i]
  BY <1>1, <1>4, <1>6, RowWrites
<1>8. \A k \in Legs : leg'[k].id = leg[k].id /\ leg'[k].outcome = leg[k].outcome
  BY <1>2, <1>3
<1>9. \A k \in Legs : LegOK(k)'
  <2>1. LegOK(l)'
    BY <1>1, <1>2, <1>3 DEF LegOK
  <2>2. \A k \in Legs : k # l => LegOK(k)'
    BY <1>1, <1>3 DEF LegOK, Settling, Structure
  <2>. QED  BY <2>1, <2>2
<1>10. OneLeg'
  BY <1>2, <1>3, <1>8 DEF OneLeg, Settling, Structure
<1>11. \A i \in Ids : RowOK(i)'
  <2>1. \A i \in Ids : RowOK(i) /\ Opener(i)' = Opener(i)
    BY <1>8, Bounds DEF Settling, Structure, Opener
  <2>2. ASSUME NEW i \in Ids, i = id PROVE RowOK(i)'
    <3>1. RowOK(i) /\ Opener(i)'
      BY <1>4, <2>1, <2>2
    <3>2. CASE row'[i] = row[i]
      BY <3>1, <3>2 DEF RowOK
    <3>3. CASE row'[i] = new
      BY <1>5, <1>6, <3>1, <3>3 DEF RowOK
    <3>. QED  BY <1>7, <2>2, <3>2, <3>3
  <2>3. \A i \in Ids : i # id => RowOK(i)'
    BY <1>7, <2>1 DEF RowOK
  <2>. QED  BY <2>2, <2>3
<1>12. Structure'
  BY <1>1, <1>8, <1>9, <1>10, <1>11 DEF Settling, Structure, Opener
<1>13. Types'
  BY <1>1, <1>3, <1>7 DEF Types
<1>14. ASSUME NEW i \in Ids, Earned(i) PROVE Earned(i)'
  <2>1. Answered(i)' = Answered(i)
    BY <1>8 DEF Answered
  <2>2. CASE i # id
    <3>1. Abandoned(i)' = Abandoned(i)
      BY <1>2, <1>3, <1>7, <1>8, <2>2 DEF Abandoned, id
    <3>. QED  BY <1>1, <1>7, <1>14, <2>1, <2>2, <3>1 DEF Earned
  <2>3. CASE i = id
    <3>1. ~Abandoned(i)
      BY <1>1, <2>3, InHand DEF id
    <3>2. result = "success" => Answered(i)
      BY <1>5, <2>3 DEF Answered, id
    <3>3. row'[i].credits > 0 \/ row'[i].result = "success" => Answered(i)
      BY <1>6, <1>7, <1>14, <2>3, <3>1, <3>2 DEF Earned
    <3>. QED  BY <1>1, <1>14, <2>1, <3>3 DEF Earned
  <2>. QED  BY <2>2, <2>3
<1>. QED  BY <1>1, <1>12, <1>13, <1>14 DEF Settling

LEMMA SettlingSettle == ASSUME Settling, NEW l \in Legs, Settle(l) PROVE Settling'
<1>. DEFINE id == leg[l].id
            g == [leg[l] EXCEPT !.at = "settled"]
<1>1. /\ leg[l] \in LegType /\ leg[l].at = "closed" /\ LegOK(l) /\ Types
      /\ leg' = [leg EXCEPT ![l] = g]
      /\ UNCHANGED <<run, spent, row, rebuild, rebuilds, overlap, raced>>
      /\ UNCHANGED charge \/ charge' = [charge EXCEPT ![id] = row[id].credits]
  BY DEF Settle, Settling, Structure, Types
<1>2. /\ g \in LegType /\ g.at = "settled" /\ g.id = leg[l].id /\ g.outcome = leg[l].outcome
  BY <1>1 DEF LegType
<1>. HIDE DEF g
<1>3. /\ leg' \in [Legs -> LegType] /\ leg'[l] = g
      /\ \A k \in Legs : k # l => leg'[k] = leg[k]
  BY <1>1, <1>2, LegMoves
<1>4. id \in Ids /\ row[id].credits \in 0..Cap
  BY <1>1, LegFields, RowFields DEF LegOK, Types
<1>5. ~Abandoned(id)
  BY <1>1, InHand
<1>6. charge' \in [Ids -> 0..Cap] /\ lost' \in 0..MaxLost
  <2>1. lost' \in 0..MaxLost
    BY <1>1, Bounds DEF Settle, Types
  <2>. HIDE DEF id
  <2>. QED  BY <1>1, <1>4, <2>1 DEF Types
<1>7. \A k \in Legs : leg'[k].id = leg[k].id /\ leg'[k].outcome = leg[k].outcome
  BY <1>2, <1>3
<1>8. \A k \in Legs : LegOK(k)'
  <2>1. LegOK(l)'
    BY <1>1, <1>2, <1>3 DEF LegOK
  <2>2. \A k \in Legs : k # l => LegOK(k)'
    BY <1>1, <1>3 DEF LegOK, Settling, Structure
  <2>. QED  BY <2>1, <2>2
<1>9. OneLeg'
  BY <1>2, <1>3, <1>7 DEF OneLeg, Settling, Structure
<1>10. Structure'
  BY <1>1, <1>7, <1>8, <1>9 DEF Settling, Structure, Opener, RowOK
<1>11. Types'
  BY <1>1, <1>3, <1>6 DEF Types
<1>. HIDE DEF id
<1>12. ASSUME NEW i \in Ids, Earned(i), Earned(id) PROVE Earned(i)'
  <2>1. Answered(i)' = Answered(i)
    BY <1>7 DEF Answered
  <2>2. Abandoned(i) => Abandoned(i)'
    BY <1>1, <1>2, <1>3, <1>7 DEF Abandoned
  <2>3. charge'[i] > 0 => Answered(i)
    <3>1. CASE UNCHANGED charge
      BY <1>12, <3>1 DEF Earned
    <3>2. CASE charge' = [charge EXCEPT ![id] = row[id].credits]
      <4>1. i # id => charge'[i] = charge[i]
        BY <1>1, <3>2 DEF Types
      <4>2. i = id => charge'[i] = row[i].credits
        BY <1>1, <3>2 DEF Types
      <4>. QED  BY <1>5, <1>12, <4>1, <4>2 DEF Earned
    <3>. QED  BY <1>1, <3>1, <3>2
  <2>. QED  BY <1>1, <1>12, <2>1, <2>2, <2>3 DEF Earned
<1>. QED  BY <1>1, <1>4, <1>10, <1>11, <1>12 DEF Settling

\* The next leg joins request id, which is linked, or is its own and new.
LEMMA SettlingDecide == ASSUME Settling, NEW l \in Legs, Decide(l) PROVE Settling'
<1>1. PICK id \in Ids :
        /\ \/ row[id].linked /\ UNCHANGED <<row, lost>>
           \/ id = l /\ Write(l, Opened)
        /\ leg' = [leg EXCEPT ![l].at = "running", ![l].id = id]
  <2>1. CASE Linked = {}
    BY <2>1, Bounds DEF Decide
  <2>2. CASE Linked # {}
    <3>1. Max(Linked) \in Linked
      BY <2>2, NewestIsOne DEF Linked
    <3>. QED  BY <2>2, <3>1 DEF Decide, Linked
  <2>. QED  BY <2>1, <2>2
<1>. DEFINE g == [leg[l] EXCEPT !.at = "running", !.id = id]
<1>2. /\ Types /\ leg[l] \in LegType /\ leg[l].at = "waiting" /\ run = "awaiting"
      /\ run' = "running" /\ overlap' \in BOOLEAN
      /\ leg' = [leg EXCEPT ![l] = g]
      /\ UNCHANGED <<spent, charge, rebuild, rebuilds, raced>>
  BY <1>1 DEF Decide, Settling, Types
<1>3. /\ g \in LegType /\ g.at = "running" /\ g.id = id /\ g.outcome = leg[l].outcome
  BY <1>2 DEF LegType
<1>. HIDE DEF g
<1>4. /\ leg' \in [Legs -> LegType] /\ leg'[l] = g
      /\ \A k \in Legs : k # l => leg'[k] = leg[k]
  BY <1>2, <1>3, LegMoves
<1>5. \A k \in Legs : LegOK(k)
  BY DEF Settling, Structure
\* Nothing streams, and nothing has answered.
<1>6. /\ \A k \in Legs : leg[k].at # "running" /\ leg[k].outcome # "success"
      /\ leg[l].outcome = "none" /\ leg[l].id = 0 /\ id # 0
  BY <1>2, <1>5, Bounds DEF LegOK
<1>7. /\ row' \in [Ids -> RowType] /\ lost' \in 0..MaxLost
      /\ row'[id] \in {row[id], Opened}
      /\ \A i \in Ids : i # id => row'[i] = row[i]
  <2>1. CASE UNCHANGED <<row, lost>>
    BY <1>2, <2>1 DEF Types
  <2>2. CASE id = l /\ Write(l, Opened)
    BY <1>2, <2>2, RowWrites, RowsTyped
  <2>. QED  BY <1>1, <2>1, <2>2
<1>8. /\ Opener(id)'
      /\ \A i \in Ids : Opener(i) => i # l /\ Opener(i)'
      /\ \A i \in Ids : RowOK(i)
  <2>1. \A i \in Ids : RowOK(i)
    BY DEF Settling, Structure
  <2>2. \A i \in Ids : Opener(i) => i # l /\ Opener(i)'
    BY <1>4, <1>6, Bounds DEF Opener
  <2>3. Opener(id)'
    <3>1. CASE id = l
      BY <1>3, <1>4, <3>1 DEF Opener
    <3>2. CASE row[id].linked
      <4>1. row[id].stored
        BY <2>1, <3>2, RowFields, <1>2 DEF RowOK, Types
      <4>. QED  BY <2>1, <2>2, <4>1 DEF RowOK
    <3>. QED  BY <1>1, <3>1, <3>2
  <2>. QED  BY <2>1, <2>2, <2>3
<1>9. \A k \in Legs : LegOK(k)'
  <2>1. LegOK(l)'
    BY <1>2, <1>3, <1>4, <1>6 DEF LegOK
  <2>2. \A k \in Legs : k # l => LegOK(k)'
    BY <1>4, <1>5, <1>6 DEF LegOK
  <2>. QED  BY <2>1, <2>2
<1>10. OneLeg'
  BY <1>3, <1>4, <1>6 DEF OneLeg
<1>11. \A k \in Legs : leg'[k].id # 0 => leg'[leg'[k].id].id = leg'[k].id
  <2>1. ASSUME NEW k \in Legs, leg'[k].id # 0 PROVE leg'[leg'[k].id].id = leg'[k].id
    <3>1. CASE k = l
      BY <1>3, <1>4, <1>8, <3>1 DEF Opener
    <3>2. CASE k # l
      <4>1. leg[k].id \in Ids /\ Opener(leg[k].id) /\ leg'[k] = leg[k]
        BY <1>2, <1>4, <2>1, <3>2, LegFields DEF Settling, Structure, Types
      <4>. QED  BY <1>8, <4>1 DEF Opener
    <3>. QED  BY <3>1, <3>2
  <2>. QED  BY <2>1
<1>12. \A i \in Ids : RowOK(i)'
  <2>1. ASSUME NEW i \in Ids, i = id PROVE RowOK(i)'
    <3>1. RowOK(i) /\ Opener(i)'
      BY <1>8, <2>1
    <3>2. CASE row'[i] = row[i]
      BY <3>1, <3>2 DEF RowOK
    <3>3. CASE row'[i] = Opened
      BY <3>1, <3>3, RowsTyped DEF RowOK
    <3>. QED  BY <1>7, <2>1, <3>2, <3>3
  <2>2. \A i \in Ids : i # id => RowOK(i)'
    BY <1>7, <1>8 DEF RowOK
  <2>. QED  BY <2>1, <2>2
<1>13. rebuild' # NoBuild => leg'[rebuild'.id].id = rebuild'.id
  BY <1>2, <1>8, BuildFields DEF Settling, Structure, Types, Opener
<1>14. Structure'
  BY <1>9, <1>10, <1>11, <1>12, <1>13 DEF Structure, Opener
<1>15. Types'
  BY <1>2, <1>4, <1>7 DEF Types
<1>16. ASSUME NEW i \in Ids, Earned(i) PROVE Earned(i)'
  <2>1. ~Answered(i) /\ ~(charge[i] > 0)
    BY <1>6, <1>16 DEF Answered, Earned
  <2>2. CASE i = id
    <3>1. ~(row[i].credits > 0 \/ row[i].result = "success")
      <4>1. CASE row[i].linked
        BY <1>16, <2>1, <4>1 DEF Earned, Abandoned
      <4>2. CASE i = l
        <5>1. ~row[i].stored
          BY <1>8, <4>2 DEF RowOK
        <5>. QED  BY <1>8, <5>1 DEF RowOK
      <4>. QED  BY <1>1, <2>2, <4>1, <4>2
    <3>2. ~(row'[i].credits > 0 \/ row'[i].result = "success")
      BY <1>7, <2>2, <3>1, RowsTyped
    <3>. QED  BY <1>2, <2>1, <3>2 DEF Earned
  <2>3. CASE i # id
    <3>1. Abandoned(i) => Abandoned(i)'
      BY <1>3, <1>4, <1>7, <2>3 DEF Abandoned
    <3>. QED  BY <1>2, <1>7, <1>16, <2>1, <2>3, <3>1 DEF Earned
  <2>. QED  BY <2>2, <2>3
<1>. QED  BY <1>2, <1>14, <1>15, <1>16 DEF Settling

LEMMA SettlingFetch == ASSUME Settling, NEW i \in Ids, FetchRow(i) PROVE Settling'
<1>1. /\ Types /\ row[i].stored /\ rebuilds < MaxRebuilds /\ rebuilds' = rebuilds + 1
      /\ rebuild' = [at |-> "fetched", id |-> i, row |-> row[i]]
      /\ UNCHANGED <<run, leg, spent, row, charge, lost, overlap, raced>>
  BY DEF FetchRow, Settling
<1>2. rebuild' \in Builds /\ rebuild'.id = i
  BY <1>1 DEF Types, Builds
<1>3. rebuilds' \in 0..MaxRebuilds
  BY <1>1, Bounds DEF Types
<1>4. Types'
  BY <1>1, <1>2, <1>3 DEF Types
<1>5. Opener(i)
  BY <1>1 DEF Settling, Structure, RowOK
<1>6. Structure'
  BY <1>1, <1>2, <1>5 DEF Settling, Structure, LegOK, OneLeg, Opener, RowOK
<1>. QED  BY <1>1, <1>4, <1>6, EarnedSame DEF Settling

\* A row derived again is worth something if it was, or if it was never closed;
\* unless that raced, nobody will settle it then.
LEMMA SettlingDerive == ASSUME Settling, DeriveRow PROVE Settling'
<1>. DEFINE result == IF rebuild.row.result = "none" THEN "success" ELSE rebuild.row.result
<1>1. PICK id \in Ids : id = rebuild.id
  BY BuildFields DEF DeriveRow, Settling, Types
<1>. DEFINE new == [stored |-> TRUE, result |-> result, linked |-> rebuild.row.linked,
                    credits |-> Credits(id, result)]
<1>2. /\ Types /\ rebuild.at = "fetched" /\ rebuild # NoBuild
      /\ rebuild.row \in RowType /\ rebuild' = NoBuild
      /\ row' = [row EXCEPT ![id] = new]
      /\ UNCHANGED <<run, leg, spent, charge, rebuilds, lost, overlap>>
  BY <1>1, BuildFields DEF DeriveRow, Settling, Types
<1>3. /\ raced' \in BOOLEAN
      /\ ~raced' => /\ ~raced /\ rebuild.row = row[id]
                    /\ \A k \in Legs : leg[k].id = id => leg[k].at = "settled"
  BY <1>1, <1>2 DEF DeriveRow, Race, LegsOf, Types
<1>4. result \in {"success", "failure", "cancellation"}
  BY <1>2, RowFields
<1>5. Credits(id, result) \in 0..Cap /\ (Credits(id, result) > 0 => result = "success")
  BY <1>2, CreditsTyped
<1>6. /\ new \in RowType /\ new.stored /\ new.linked = rebuild.row.linked
      /\ new.result = result
      /\ new.credits > 0 => result = "success"
  <2>1. rebuild.row.linked \in BOOLEAN
    BY <1>2, RowFields
  <2>. HIDE DEF result
  <2>. QED  BY <1>4, <1>5, <2>1 DEF RowType
<1>7. result = "success" => rebuild.row.result \in {"none", "success"}
  BY <1>2, RowFields
<1>. HIDE DEF new, result
<1>8. /\ row' \in [Ids -> RowType] /\ row'[id] = new
      /\ \A i \in Ids : i # id => row'[i] = row[i]
  BY <1>2, <1>6 DEF Types
<1>9. Types'
  BY <1>2, <1>3, <1>8 DEF Types, Builds
<1>10. Opener(id) /\ \A i \in Ids : RowOK(i)
  BY <1>1, <1>2 DEF Settling, Structure
<1>11. \A i \in Ids : RowOK(i)'
  <2>1. ASSUME NEW i \in Ids, i = id PROVE RowOK(i)'
    BY <1>2, <1>4, <1>6, <1>8, <1>10, <2>1 DEF RowOK, Opener
  <2>2. \A i \in Ids : i # id => RowOK(i)'
    BY <1>2, <1>8, <1>10 DEF RowOK, Opener
  <2>. QED  BY <2>1, <2>2
<1>12. Structure'
  BY <1>2, <1>11 DEF Settling, Structure, LegOK, OneLeg, Opener
<1>13. ASSUME NEW i \in Ids, ~raced', Earned(i) PROVE Earned(i)'
  <2>1. Answered(i)' = Answered(i)
    BY <1>2 DEF Answered
  <2>2. CASE i # id
    <3>1. Abandoned(i)' = Abandoned(i)
      BY <1>2, <1>8, <2>2 DEF Abandoned
    <3>. QED  BY <1>2, <1>8, <1>13, <2>1, <2>2, <3>1 DEF Earned
  <2>3. CASE i = id
    <3>1. CASE Abandoned(i)
      <4>1. Abandoned(i)'
        BY <1>2, <1>3, <1>6, <1>8, <1>13, <2>3, <3>1 DEF Abandoned
      <4>. QED  BY <1>2, <1>13, <2>1, <4>1 DEF Earned
    <3>2. CASE ~Abandoned(i)
      \* Settled and not abandoned: linked, so it was closed.
      <4>1. rebuild.row = row[i] /\ row[i].result # "none"
        BY <1>3, <1>10, <1>13, <2>3, <3>2 DEF Abandoned, RowOK
      <4>2. result = "success" => Answered(i)
        BY <1>7, <1>13, <3>2, <4>1 DEF Earned
      <4>. QED  BY <1>2, <1>6, <1>8, <1>13, <2>1, <2>3, <4>2 DEF Earned
    <3>. QED  BY <3>1, <3>2
  <2>. QED  BY <2>2, <2>3
<1>. QED  BY <1>3, <1>9, <1>12, <1>13 DEF Settling

-----------------------------------------------------------------------------
LEMMA SettlingStep == Settling /\ [Next]_vars => Settling'
<1>. SUFFICES ASSUME Settling, [Next]_vars PROVE Settling'
  OBVIOUS
<1>1. CASE UNCHANGED vars
  <2>1. Types'
    BY <1>1 DEF vars, Settling, Types
  <2>. QED  BY <1>1, <2>1, StructureSame, EarnedSame DEF vars, Settling
<1>. QED
  BY <1>1, SettlingSpend, SettlingEnd, SettlingClose, SettlingSettle, SettlingDecide,
     SettlingFetch, SettlingDerive DEF Next

LEMMA SettlingInvariant == Spec => []Settling
BY SettlingInit, SettlingStep, PTL DEF Spec

\* The types of the ask, its legs, rows and charges.
THEOREM TypeCorrect == Spec => []TypeOK
<1>1. Settling => TypeOK
  BY BuildFields DEF Settling, Types, TypeOK, LegType, RowType
<1>. QED  BY <1>1, SettlingInvariant, PTL

\* What is charged was answered: a leg that failed, was cancelled or waits for a
\* decision closes a row worth nothing, and what a rebuild makes of a row that
\* was never closed is charged to nobody.
THEOREM FailureIsFree == Spec => []FailedWorkIsFree
<1>1. Settling => FailedWorkIsFree
  BY DEF Settling, Earned, Answered, FailedWorkIsFree, AnsweredLegIsCharged, LegsOf
<1>. QED  BY <1>1, SettlingInvariant, PTL

\* An ask is charged under one request at most: only one leg of it answers.
THEOREM ChargedOnce == Spec => []OneChargePerAsk
<1>1. Settling => OneChargePerAsk
  BY DEF Settling, Structure, OneLeg, Earned, Answered, OneChargePerAsk
<1>. QED  BY <1>1, SettlingInvariant, PTL

-----------------------------------------------------------------------------
(* What a rebuild finds *)

\* No leg of request i will write its row or add to its cost.
Done(i) ==
    \A l \in Legs : leg[l].id = i =>
        leg[l].at \in {"closed", "settled"} /\ leg[l].outcome # "cancelled"

\* Row i says what would be derived for it now.
UpToDate(i) ==
    /\ row[i].stored
    /\ row[i].result # "none"
    /\ row[i].credits = Credits(i, row[i].result)

\* With no write lost, the row of a request whose legs are through is up to date,
\* rebuilds that raced with a leg included: the last leg wrote after them, or they
\* wrote after the last leg.
Deriving ==
    /\ Settling
    /\ lost = 0 => \A i \in Ids : Opener(i) /\ Done(i) => UpToDate(i)

LEMMA DerivingInit == Init => Deriving
<1>. SUFFICES ASSUME Init, NEW i \in Ids, Opener(i), Done(i) PROVE FALSE
  BY SettlingInit DEF Deriving
<1>1. 0 \notin Ids
  BY Bounds
<1>2. leg[i].id = i /\ leg[i].at \in {"waiting", "running"} /\ i \in Legs
  BY DEF Init, Opener, Ids
<1>. QED  BY <1>2 DEF Done

LEMMA DerivingStep == Deriving /\ [Next]_vars => Deriving'
<1>. SUFFICES ASSUME Deriving, [Next]_vars, lost' = 0, NEW i \in Ids, Opener(i)', Done(i)'
              PROVE  UpToDate(i)'
  BY SettlingStep DEF Deriving
<1>t. Settling /\ Settling' /\ Types /\ lost \in Nat
  BY SettlingStep, Bounds DEF Deriving, Settling, Types
<1>s. ASSUME Opener(i), Done(i), lost = 0, row'[i] = row[i], spent'[i] = spent[i]
      PROVE  UpToDate(i)'
  BY <1>s DEF Deriving, UpToDate, Credits
<1>1. ASSUME NEW l \in Legs, Spend(l) PROVE UpToDate(i)'
  <2>1. UNCHANGED <<leg, row, lost>> /\ spent' = [spent EXCEPT ![leg[l].id] = @ + 1]
    BY <1>1 DEF Spend
  <2>2. Opener(i) /\ Done(i)
    BY <2>1 DEF Opener, Done
  <2>3. leg[l].id # i
    BY <1>1, <2>2 DEF Spend, Done
  <2>4. spent'[i] = spent[i]
    BY <1>t, <2>1, <2>3 DEF Types
  <2>. QED  BY <1>s, <2>1, <2>2, <2>4
<1>2. ASSUME NEW l \in Legs, NEW o \in Outcomes, End(l, o) PROVE UpToDate(i)'
  <2>1. /\ leg' = [leg EXCEPT ![l].at = "ended", ![l].outcome = o]
        /\ UNCHANGED <<row, spent, lost>>
    BY <1>2 DEF End
  <2>2. /\ leg \in [Legs -> LegType] /\ leg[l] \in LegType
        /\ \A k \in Legs : k # l => leg'[k] = leg[k]
    BY <1>t, <2>1 DEF Types
  <2>3. leg'[l].at = "ended" /\ leg'[l].id = leg[l].id
    BY <2>1, <2>2 DEF LegType
  <2>4. leg[l].id # i
    BY <2>3 DEF Done
  <2>5. Opener(i) /\ Done(i)
    BY <2>2, <2>3, <2>4 DEF Opener, Done, Ids
  <2>. QED  BY <1>s, <2>1, <2>5
<1>3. ASSUME NEW l \in Legs, Close(l) PROVE UpToDate(i)'
  <2>. DEFINE id == leg[l].id
              result == Result(leg[l].outcome)
              new == [stored |-> TRUE, result |-> result, linked |-> TRUE,
                      credits |-> Credits(id, result)]
  <2>1. /\ leg' = [leg EXCEPT ![l].at = "closed"]
        /\ Write(id, new) /\ UNCHANGED spent
        /\ leg[l].at = "ended"
    BY <1>3 DEF Close
  <2>2. lost = 0 /\ row' = [row EXCEPT ![id] = new]
    BY <1>t, <2>1 DEF Write
  <2>3. row \in [Ids -> RowType] /\ leg \in [Legs -> LegType] /\ leg[l] \in LegType
    BY <1>t DEF Types
  <2>4. CASE i = id
    <3>1. row'[i] = new
      BY <2>2, <2>3, <2>4
    <3>2. result # "none"
      BY DEF Result
    <3>3. /\ row'[i].stored /\ row'[i].result = result
          /\ row'[i].credits = Credits(i, result)
      BY <2>4, <3>1
    <3>. QED  BY <2>1, <3>2, <3>3 DEF UpToDate, Credits
  <2>5. CASE i # id
    <3>1. row'[i] = row[i]
      BY <2>2, <2>3, <2>5
    <3>2. \A k \in Legs : leg'[k].id = leg[k].id /\ (k # l => leg'[k] = leg[k])
      BY <2>1, <2>3 DEF LegType
    <3>3. Opener(i) /\ Done(i)
      BY <2>5, <3>2 DEF Opener, Done, Ids
    <3>. QED  BY <1>s, <2>1, <2>2, <3>1, <3>3
  <2>. QED  BY <2>4, <2>5
<1>4. ASSUME NEW l \in Legs, Settle(l) PROVE UpToDate(i)'
  <2>1. /\ leg' = [leg EXCEPT ![l].at = "settled"] /\ leg[l].at = "closed"
        /\ UNCHANGED <<row, spent>>
        /\ lost = 0
    BY <1>t, <1>4 DEF Settle
  <2>2. \A k \in Legs : /\ leg'[k].id = leg[k].id /\ leg'[k].outcome = leg[k].outcome
                        /\ k # l => leg'[k] = leg[k]
    BY <1>t, <2>1 DEF Types, LegType
  <2>3. Opener(i) /\ Done(i)
    BY <2>1, <2>2 DEF Opener, Done, Ids
  <2>. QED  BY <1>s, <2>1, <2>3
<1>5. ASSUME NEW l \in Legs, Decide(l) PROVE UpToDate(i)'
  <2>. DEFINE id == IF Linked = {} THEN l ELSE Max(Linked)
  <2>1. /\ leg[l].at = "waiting" /\ UNCHANGED spent
        /\ leg' = [leg EXCEPT ![l].at = "running", ![l].id = id]
        /\ IF Linked = {} THEN Write(l, Opened) ELSE UNCHANGED <<row, lost>>
    BY <1>5 DEF Decide
  <2>2. leg \in [Legs -> LegType] /\ row \in [Ids -> RowType]
    BY <1>t DEF Types
  <2>3. /\ leg'[l].at = "running" /\ leg'[l].id = id
        /\ \A k \in Legs : k # l => leg'[k] = leg[k]
    <3>. HIDE DEF id
    <3>. QED  BY <2>1, <2>2 DEF LegType
  <2>4. i # id
    BY <2>3 DEF Done
  <2>5. leg[l].id = 0
    BY <1>t, <2>1 DEF Settling, Structure, LegOK
  <2>6. Opener(i) /\ Done(i)
    BY <2>3, <2>4, <2>5, Bounds DEF Opener, Done, Ids
  <2>7. row'[i] = row[i] /\ lost = 0
    BY <1>t, <2>1, <2>2, <2>4 DEF Write
  <2>. QED  BY <1>s, <2>1, <2>6, <2>7
<1>6. ASSUME NEW j \in Ids, FetchRow(j) PROVE UpToDate(i)'
  <2>1. UNCHANGED <<leg, row, spent, lost>>
    BY <1>6 DEF FetchRow
  <2>2. Opener(i) /\ Done(i)
    BY <2>1 DEF Opener, Done
  <2>. QED  BY <1>s, <2>1, <2>2
<1>7. CASE DeriveRow
  <2>. DEFINE result == IF rebuild.row.result = "none" THEN "success" ELSE rebuild.row.result
  <2>1. /\ row' = [row EXCEPT ![rebuild.id] =
                      [stored |-> TRUE, result |-> result, linked |-> rebuild.row.linked,
                       credits |-> Credits(rebuild.id, result)]]
        /\ UNCHANGED <<leg, spent, lost>>
    BY <1>7 DEF DeriveRow
  <2>2. Opener(i) /\ Done(i) /\ row \in [Ids -> RowType]
    BY <1>t, <2>1 DEF Opener, Done, Types
  <2>3. CASE i # rebuild.id
    BY <1>s, <2>1, <2>2, <2>3
  <2>4. CASE i = rebuild.id
    <3>1. row'[i] = [stored |-> TRUE, result |-> result, linked |-> rebuild.row.linked,
                     credits |-> Credits(i, result)]
      BY <2>1, <2>2, <2>4
    <3>2. result # "none"
      OBVIOUS
    <3>. HIDE DEF result
    <3>3. row'[i].stored /\ row'[i].result = result /\ row'[i].credits = Credits(i, result)
      BY <3>1
    <3>. QED  BY <2>1, <3>2, <3>3 DEF UpToDate, Credits
  <2>. QED  BY <2>3, <2>4
<1>8. CASE UNCHANGED vars
  <2>1. UNCHANGED <<leg, row, spent, lost>>
    BY <1>8 DEF vars
  <2>2. Opener(i) /\ Done(i)
    BY <2>1 DEF Opener, Done
  <2>. QED  BY <1>s, <2>1, <2>2
<1>. QED  BY <1>1, <1>2, <1>3, <1>4, <1>5, <1>6, <1>7, <1>8 DEF Next

\* Deriving the row of a settled request again changes nothing, whatever rebuilds
\* and settlements happened in which order, as long as no write was lost.
THEOREM RebuildAgainIsNothing == Spec => RebuildChangesNothing
<1>1. Deriving /\ [Next]_vars => [RebuildIsNoOp]_vars
  <2>1. SUFFICES ASSUME Deriving, Next, rebuild.at = "fetched", rebuild'.at = "idle", lost = 0,
                        rebuild.row = row[rebuild.id],
                        \A l \in LegsOf(rebuild.id) :
                            leg[l].at = "settled" /\ leg[l].outcome # "cancelled"
                 PROVE  row' = row
    BY DEF RebuildIsNoOp
  <2>2. Types /\ rebuild \in Builds /\ rebuild # NoBuild
    BY <2>1, BuildFields DEF Deriving, Settling, Types
  <2>3. PICK id \in Ids : id = rebuild.id
    BY <2>2, BuildFields
  <2>4. UpToDate(id)
    <3>1. Opener(id)
      BY <2>1, <2>2, <2>3 DEF Deriving, Settling, Structure
    <3>2. Done(id)
      BY <2>1, <2>3 DEF Done, LegsOf
    <3>. QED  BY <2>1, <3>1, <3>2 DEF Deriving
  <2>5. CASE DeriveRow
    <3>1. row' = [row EXCEPT ![id] =
                     [stored |-> TRUE, result |-> row[id].result, linked |-> row[id].linked,
                      credits |-> Credits(id, row[id].result)]]
      BY <2>1, <2>3, <2>4, <2>5 DEF DeriveRow, UpToDate
    <3>2. row \in [Ids -> RowType] /\ row[id] \in RowType
      BY <2>2 DEF Types
    <3>3. row[id] = [stored |-> TRUE, result |-> row[id].result, linked |-> row[id].linked,
                     credits |-> Credits(id, row[id].result)]
      BY <2>4, <3>2 DEF UpToDate, RowType
    <3>. QED  BY <3>1, <3>2, <3>3
  <2>6. CASE \E l \in Legs : \/ Spend(l) \/ Close(l) \/ Settle(l) \/ Decide(l)
                             \/ \E o \in Outcomes : End(l, o)
    BY <2>1, <2>6 DEF Spend, Close, Settle, Decide, End
  <2>7. CASE \E i \in Ids : FetchRow(i)
    BY <2>1, <2>7 DEF FetchRow
  <2>. QED  BY <2>1, <2>5, <2>6, <2>7 DEF Next
<1>. QED  BY <1>1, DerivingInit, DerivingStep, PTL DEF Spec, RebuildChangesNothing

-----------------------------------------------------------------------------
(* What an orderly ask is charged *)

Started(l) == leg[l].at # "waiting"

\* The leg paused for a decision, and was billed before it came.
Resumed(l) == leg[l].at = "settled" /\ leg[l].outcome = "parked"

ClosedLeg(l) == leg[l].at \in {"closed", "settled"}

\* Leg l answered, and its answer is in the row.
Won(l) == ClosedLeg(l) /\ leg[l].outcome = "success"

Billed(l) == leg[l].at = "settled" /\ leg[l].outcome = "success"

\* Every leg belongs to the first one's request, and follows legs that were billed.
InLine ==
    /\ Started(1)
    /\ \A l \in Legs : Started(l) => leg[l].id = 1
    /\ \A k, l \in Legs : k < l /\ Started(l) => Resumed(k)
    /\ run = "awaiting" => \A l \in Legs : Started(l) => leg[l].outcome = "parked"

\* The row of the request is worth what the answer cost, and so is the charge.
Balanced ==
    /\ (\E l \in Legs : ClosedLeg(l)) => row[1].linked
    /\ row[1].result = "success" <=> \E l \in Legs : Won(l)
    /\ row[1].credits = IF \E l \in Legs : Won(l) THEN Least(spent[1], Cap) ELSE 0
    /\ charge[1] = IF \E l \in Legs : Billed(l) THEN row[1].credits ELSE 0
    /\ \A i \in Ids : i # 1 => spent[i] = 0

Ordering == Settling /\ (Orderly => InLine /\ Balanced)

\* Only the first request has a row, or a charge.
LEMMA OtherRequests ==
    ASSUME Settling, ~raced, InLine, NEW i \in Ids, i # 1
    PROVE  ~row[i].stored /\ row[i].credits = 0 /\ ~row[i].linked /\ charge[i] = 0
<1>1. \A l \in Legs : leg[l].id # i
  BY Bounds DEF Settling, Structure, LegOK, InLine, Started
<1>2. ~Opener(i) /\ ~Answered(i)
  BY <1>1 DEF Opener, Answered, Ids
<1>3. charge[i] \in Nat
  BY Bounds DEF Settling, Types
<1>. QED  BY <1>2, <1>3 DEF Settling, Structure, RowOK, Earned

\* While a leg is not billed, every other one waits, or was billed and parked.
LEMMA OthersResumed ==
    ASSUME InLine, NEW l \in Legs, Started(l), ~Resumed(l), NEW k \in Legs, k # l
    PROVE  ~Started(k) \/ Resumed(k)
<1>1. k < l \/ l < k
  BY Bounds
<1>. QED  BY <1>1 DEF InLine

\* So it is the only one that could have answered.
LEMMA OnlyOneWins ==
    ASSUME InLine, NEW l \in Legs, Started(l), ~Resumed(l), NEW k \in Legs, k # l
    PROVE  /\ ~Won(k) /\ ~Billed(k) /\ (ClosedLeg(k) => Resumed(k))
           /\ leg[k].outcome = "success" => leg[k].at = "waiting"
BY OthersResumed DEF Started, Resumed, Won, Billed, ClosedLeg

\* The sequence of legs and the row look only at these.
LEMMA OrderingSame ==
    ASSUME Types, InLine, Balanced, UNCHANGED <<run, leg, spent, row, charge>>
    PROVE  InLine' /\ Balanced'
BY DEF InLine, Balanced, Started, Resumed, ClosedLeg, Won, Billed

LEMMA OrderingInit == Init => Ordering
<1>. SUFFICES ASSUME Init PROVE InLine /\ Balanced
  BY SettlingInit DEF Ordering
<1>1. 1 \in Ids /\ Ids = Legs /\ Legs \subseteq Nat /\ \A k, l \in Legs : k < l => l # 1
  BY Bounds DEF Ids, Legs
<1>2. \A l \in Legs : /\ leg[l].at = IF l = 1 THEN "running" ELSE "waiting"
                      /\ leg[l].id = IF l = 1 THEN 1 ELSE 0
                      /\ leg[l].outcome = "none"
  BY DEF Init
<1>3. InLine
  BY <1>1, <1>2 DEF Init, InLine, Started
<1>4. row[1] \in {NoRow, Opened} /\ charge[1] = 0 /\ \A i \in Ids : spent[i] = 0
  BY <1>1 DEF Init
<1>5. row[1].result = "none" /\ row[1].credits = 0
  BY <1>4, RowsTyped
<1>6. \A l \in Legs : ~ClosedLeg(l) /\ ~Won(l) /\ ~Billed(l)
  BY <1>2 DEF ClosedLeg, Won, Billed
<1>. QED  BY <1>3, <1>4, <1>5, <1>6 DEF Balanced

\* The cost of an answered request does not change: nobody spends under it.
LEMMA OrderingSpend ==
    ASSUME Settling, InLine, Balanced, NEW l \in Legs, Spend(l)
    PROVE  InLine' /\ Balanced'
<1>1. /\ UNCHANGED <<run, leg, row, charge>>
      /\ spent' = [spent EXCEPT ![leg[l].id] = @ + 1]
      /\ spent \in [Ids -> 0..MaxSpend]
  BY DEF Spend, Settling, Types
<1>2. Started(l) /\ ~Resumed(l) /\ ~Won(l)
  BY DEF Spend, Settling, Structure, LegOK, Started, Resumed, Won, ClosedLeg
<1>3. ~\E k \in Legs : Won(k)
  BY <1>2, OnlyOneWins
<1>4. leg[l].id = 1
  BY <1>2 DEF InLine
<1>5. \A i \in Ids : i # 1 => spent'[i] = spent[i]
  BY <1>1, <1>4
<1>6. InLine'
  BY <1>1 DEF InLine, Started, Resumed
<1>7. Balanced'
  BY <1>1, <1>3, <1>5 DEF Balanced, ClosedLeg, Won, Billed
<1>. QED  BY <1>6, <1>7

LEMMA OrderingEnd ==
    ASSUME Settling, InLine, Balanced, NEW l \in Legs, NEW o \in Outcomes, End(l, o)
    PROVE  InLine' /\ Balanced'
<1>1. /\ leg \in [Legs -> LegType] /\ leg[l].at = "running"
      /\ leg' = [leg EXCEPT ![l].at = "ended", ![l].outcome = o]
      /\ run' = IF o = "parked" THEN "awaiting" ELSE "final"
      /\ UNCHANGED <<spent, row, charge>>
  BY DEF End, Settling, Types
<1>2. /\ leg'[l].at = "ended" /\ leg'[l].outcome = o /\ leg'[l].id = leg[l].id
      /\ \A k \in Legs : k # l => leg'[k] = leg[k]
  BY <1>1 DEF LegType
<1>3. Started(l) /\ ~Resumed(l) /\ ~Won(l) /\ ~Billed(l) /\ ~ClosedLeg(l)
  BY <1>1 DEF Started, Resumed, Won, Billed, ClosedLeg
<1>4. \A k \in Legs : k # l => ~Started(k) \/ Resumed(k)
  BY <1>3, OthersResumed
<1>5. InLine'
  <2>1. 1 \in Legs
    BY Bounds DEF Legs
  <2>2. Started(1)' /\ \A k \in Legs : Started(k)' => leg'[k].id = 1
    BY <1>2, <1>3, <2>1 DEF InLine, Started
  <2>3. ASSUME NEW k \in Legs, NEW m \in Legs, k < m, Started(m)' PROVE Resumed(k)'
    <3>1. Started(m) /\ Resumed(k)
      BY <1>2, <1>3, <2>3 DEF InLine, Started
    <3>. QED  BY <1>2, <1>3, <3>1 DEF Resumed
  <2>4. run' = "awaiting" => \A k \in Legs : Started(k)' => leg'[k].outcome = "parked"
    BY <1>1, <1>2, <1>4 DEF Started, Resumed
  <2>. QED  BY <2>2, <2>3, <2>4 DEF InLine
<1>6. \A k \in Legs : /\ Won(k)' <=> Won(k)
                      /\ Billed(k)' <=> Billed(k)
                      /\ ClosedLeg(k)' <=> ClosedLeg(k)
  BY <1>2, <1>3 DEF Won, Billed, ClosedLeg
<1>7. Balanced'
  BY <1>1, <1>6 DEF Balanced
<1>. QED  BY <1>5, <1>7

\* A leg that is being billed: the legs are in line still.
LEMMA InLineBilling ==
    ASSUME Settling, InLine, NEW l \in Legs, leg[l].at \in {"ended", "closed"},
           UNCHANGED run,
           leg' \in [Legs -> LegType], leg'[l].at \in {"closed", "settled"},
           leg'[l].id = leg[l].id, leg'[l].outcome = leg[l].outcome,
           \A k \in Legs : k # l => leg'[k] = leg[k]
    PROVE  InLine'
<1>1. 1 \in Legs
  BY Bounds DEF Legs
<1>2. \A k \in Legs : (Started(k)' <=> Started(k)) /\ (Resumed(k) => Resumed(k)')
  BY DEF Started, Resumed
<1>3. \A k \in Legs : leg'[k].id = leg[k].id /\ leg'[k].outcome = leg[k].outcome
  OBVIOUS
<1>4. ASSUME NEW k \in Legs, NEW m \in Legs, k < m, Started(m)' PROVE Resumed(k)'
  BY <1>2, <1>4 DEF InLine
<1>. QED  BY <1>1, <1>2, <1>3, <1>4 DEF InLine

\* The row is written from the leg that closes: no other leg answered.
LEMMA OrderingClose ==
    ASSUME Settling, InLine, Balanced, NEW l \in Legs, Close(l), UNCHANGED lost
    PROVE  InLine' /\ Balanced'
<1>. DEFINE result == Result(leg[l].outcome)
            new == [stored |-> TRUE, result |-> result, linked |-> TRUE,
                    credits |-> Credits(1, result)]
<1>1. /\ leg[l].at = "ended" /\ leg' = [leg EXCEPT ![l].at = "closed"]
      /\ leg \in [Legs -> LegType] /\ row \in [Ids -> RowType] /\ lost \in Nat
      /\ UNCHANGED <<run, spent, charge>>
  BY Bounds DEF Close, Settling, Types
<1>2. Started(l) /\ ~Resumed(l) /\ ~Won(l) /\ ~Billed(l)
  BY <1>1 DEF Started, Resumed, Won, Billed, ClosedLeg
<1>3. leg[l].id = 1 /\ 1 \in Ids
  BY <1>2, Bounds DEF InLine, Ids, Legs
<1>4. row' = [row EXCEPT ![1] = new]
  BY <1>1, <1>3 DEF Close, Write
<1>5. /\ leg'[l].at = "closed" /\ leg'[l].outcome = leg[l].outcome /\ leg'[l].id = leg[l].id
      /\ leg' \in [Legs -> LegType]
      /\ \A k \in Legs : k # l => leg'[k] = leg[k]
  BY <1>1 DEF LegType
<1>6. InLine'
  BY <1>1, <1>5, InLineBilling
<1>7. /\ result = "success" <=> leg[l].outcome = "success"
      /\ leg[l].outcome = "success" <=> Won(l)'
  BY <1>1, <1>5 DEF Result, Won, ClosedLeg
<1>8. \A k \in Legs : /\ ~Billed(k)'
                      /\ Won(k)' => k = l
  <2>1. \A k \in Legs : k # l => ~Won(k) /\ ~Billed(k)
    BY <1>2, OnlyOneWins
  <2>. QED  BY <1>5, <2>1 DEF Won, Billed, ClosedLeg
<1>9. charge[1] = 0
  BY <1>2, OnlyOneWins DEF Balanced
<1>10. /\ row'[1].linked /\ row'[1].result = result
       /\ row'[1].credits = IF result = "success" THEN Least(spent[1], Cap) ELSE 0
  <2>1. row'[1] = new
    BY <1>1, <1>3, <1>4
  <2>. HIDE DEF result
  <2>. QED  BY <2>1 DEF Credits
<1>. HIDE DEF result
<1>11. (\E k \in Legs : Won(k)') <=> result = "success"
  BY <1>7, <1>8
<1>12. Balanced'
  BY <1>1, <1>8, <1>9, <1>10, <1>11 DEF Balanced, Least
<1>. QED  BY <1>6, <1>12

\* The charge is posted from the row: nothing was charged before an answer.
LEMMA OrderingSettle ==
    ASSUME Settling, InLine, Balanced, NEW l \in Legs, Settle(l), UNCHANGED lost
    PROVE  InLine' /\ Balanced'
<1>1. /\ leg[l].at = "closed" /\ leg' = [leg EXCEPT ![l].at = "settled"]
      /\ leg \in [Legs -> LegType] /\ charge \in [Ids -> 0..Cap] /\ lost \in Nat
      /\ UNCHANGED <<run, spent, row>>
  BY Bounds DEF Settle, Settling, Types
<1>2. Started(l) /\ ~Resumed(l) /\ ~Billed(l) /\ ClosedLeg(l)
  BY <1>1 DEF Started, Resumed, Billed, ClosedLeg
<1>3. leg[l].id = 1 /\ 1 \in Ids
  BY <1>2, Bounds DEF InLine, Ids, Legs
<1>4. \A k \in Legs : k # l => ~Won(k) /\ ~Billed(k)
  BY <1>2, OnlyOneWins
<1>5. charge[1] = 0
  BY <1>2, <1>4 DEF Balanced
<1>6. charge'[1] = row[1].credits
  BY <1>1, <1>3, <1>5 DEF Settle
<1>7. /\ leg'[l].at = "settled" /\ leg'[l].outcome = leg[l].outcome /\ leg'[l].id = leg[l].id
      /\ leg' \in [Legs -> LegType]
      /\ \A k \in Legs : k # l => leg'[k] = leg[k]
  BY <1>1 DEF LegType
<1>8. InLine'
  BY <1>1, <1>7, InLineBilling
<1>9. \A k \in Legs : /\ Won(k)' <=> Won(k)
                      /\ Billed(k)' <=> k = l /\ Won(l)
                      /\ ClosedLeg(k)' <=> ClosedLeg(k)
  BY <1>1, <1>4, <1>7 DEF Won, Billed, ClosedLeg
<1>10. row[1].credits = IF Won(l) THEN Least(spent[1], Cap) ELSE 0
  BY <1>4 DEF Balanced
<1>11. Balanced'
  BY <1>1, <1>6, <1>9, <1>10 DEF Balanced
<1>. QED  BY <1>8, <1>11

\* The decision waited for the bill, so the leg finds the request linked.
LEMMA OrderingDecide ==
    ASSUME Settling, Orderly, InLine, Balanced, NEW l \in Legs, Decide(l), ~overlap',
           UNCHANGED lost
    PROVE  InLine' /\ Balanced'
<1>1. /\ run = "awaiting" /\ run' = "running" /\ leg[l].at = "waiting"
      /\ \A k \in 1..(l - 1) : leg[k].at # "waiting"
      /\ leg[l - 1].at = "settled"
      /\ leg \in [Legs -> LegType] /\ leg[l] \in LegType
      /\ UNCHANGED <<spent, charge>>
  BY DEF Decide, Settling, Types
<1>2. 1 \in Legs /\ 1 \in Ids /\ Legs \subseteq Nat /\ l # 1 /\ l - 1 \in Legs
  <2>1. 1 \in Legs /\ Legs \subseteq Nat /\ l # 1
    BY <1>1, Bounds DEF Legs, InLine, Started
  <2>. QED  BY <2>1, Bounds DEF Legs
<1>3. Started(l - 1) /\ ClosedLeg(l - 1) /\ leg[l - 1].outcome = "parked"
  BY <1>1, <1>2 DEF InLine, Started, ClosedLeg
<1>4. Linked = {1}
  <2>1. row[1].linked
    BY <1>2, <1>3 DEF Balanced
  <2>2. \A i \in Ids : i # 1 => ~row[i].linked
    BY OtherRequests DEF Orderly
  <2>. QED  BY <1>2, <2>1, <2>2 DEF Linked
<1>5. Max(Linked) = 1
  BY <1>2, <1>4, NewestIsOne
<1>6. leg' = [leg EXCEPT ![l].at = "running", ![l].id = 1] /\ UNCHANGED row
  <2>1. Linked # {}
    BY <1>4
  <2>. QED  BY <1>5, <2>1 DEF Decide
<1>7. /\ leg'[l].at = "running" /\ leg'[l].id = 1
      /\ \A k \in Legs : k # l => leg'[k] = leg[k]
  BY <1>1, <1>6 DEF LegType
<1>8. ~Started(l) /\ ~Resumed(l) /\ ~Won(l) /\ ~Billed(l) /\ ~ClosedLeg(l)
  BY <1>1 DEF Started, Resumed, Won, Billed, ClosedLeg
<1>9. InLine'
  <2>1. Started(1)' /\ \A k \in Legs : Started(k)' => leg'[k].id = 1
    BY <1>2, <1>7 DEF InLine, Started
  <2>2. ASSUME NEW k \in Legs, NEW m \in Legs, k < m, Started(m)' PROVE Resumed(k)'
    <3>1. Resumed(k)
      <4>1. CASE m # l
        <5>1. Started(m)
          BY <1>7, <2>2, <4>1 DEF Started
        <5>. QED  BY <2>2, <5>1 DEF InLine
      <4>2. CASE m = l
        <5>1. k = l - 1 \/ k < l - 1
          BY <1>2, <2>2, <4>2
        <5>2. Resumed(l - 1)
          BY <1>1, <1>3 DEF Resumed
        <5>. QED  BY <1>2, <1>3, <5>1, <5>2 DEF InLine
      <4>. QED  BY <4>1, <4>2
    <3>2. k # l
      BY <1>8, <3>1
    <3>. QED  BY <1>7, <3>1, <3>2 DEF Resumed
  <2>. QED  BY <1>1, <2>1, <2>2 DEF InLine
<1>10. \A k \in Legs : /\ Won(k)' <=> Won(k)
                       /\ Billed(k)' <=> Billed(k)
                       /\ ClosedLeg(k)' <=> ClosedLeg(k)
  BY <1>7, <1>8 DEF Won, Billed, ClosedLeg
<1>11. Balanced'
  BY <1>1, <1>6, <1>10 DEF Balanced
<1>. QED  BY <1>9, <1>11

\* A rebuild that raced with nothing finds a billed request, and writes what is
\* there.
LEMMA OrderingDerive ==
    ASSUME Settling, InLine, Balanced, DeriveRow, ~raced'
    PROVE  InLine' /\ Balanced'
<1>1. /\ rebuild.id \in Ids /\ rebuild.row \in RowType /\ Opener(rebuild.id)
      /\ row \in [Ids -> RowType] /\ row[rebuild.id] = rebuild.row
      /\ \A l \in Legs : leg[l].id = rebuild.id => leg[l].at = "settled"
      /\ UNCHANGED <<run, leg, spent, charge>>
  BY BuildFields DEF DeriveRow, Race, LegsOf, Settling, Types, Structure
<1>2. rebuild.id = 1 /\ 1 \in Legs /\ 1 \in Ids
  BY <1>1, Bounds DEF Opener, Settling, Structure, LegOK, InLine, Started, Ids
<1>3. row[1].linked
  BY <1>1, <1>2 DEF Opener, ClosedLeg, Balanced
<1>4. row[1].result # "none"
  BY <1>2, <1>3 DEF Settling, Structure, RowOK
<1>5. row' = [row EXCEPT ![1] =
                 [stored |-> TRUE, result |-> row[1].result, linked |-> row[1].linked,
                  credits |-> Credits(1, row[1].result)]]
  BY <1>1, <1>2, <1>4 DEF DeriveRow
<1>6. row'[1] = [stored |-> TRUE, result |-> row[1].result, linked |-> row[1].linked,
                 credits |-> Credits(1, row[1].result)]
  BY <1>1, <1>2, <1>5
<1>7. row'[1].linked = row[1].linked /\ row'[1].result = row[1].result
  BY <1>6
<1>8. row'[1].credits = row[1].credits
  BY <1>6 DEF Balanced, Credits
<1>9. InLine'
  BY <1>1 DEF InLine, Started, Resumed
<1>10. \A k \in Legs : /\ Won(k)' <=> Won(k)
                       /\ Billed(k)' <=> Billed(k)
                       /\ ClosedLeg(k)' <=> ClosedLeg(k)
  BY <1>1 DEF Won, Billed, ClosedLeg
<1>11. Balanced'
  BY <1>1, <1>7, <1>8, <1>10 DEF Balanced
<1>. QED  BY <1>9, <1>11

\* An ask that is orderly was orderly before.
LEMMA OrderlyBefore ==
    ASSUME Settling, Next, Orderly', Settling'
    PROVE  Orderly /\ UNCHANGED lost
<1>1. lost \in Nat /\ overlap \in BOOLEAN /\ raced \in BOOLEAN
  BY Bounds DEF Settling, Types
<1>2. ASSUME NEW l \in Legs, Close(l) \/ Settle(l) \/ Decide(l) PROVE Orderly /\ UNCHANGED lost
  BY <1>1, <1>2 DEF Orderly, Close, Settle, Decide, Write
<1>3. CASE DeriveRow
  BY <1>1, <1>3 DEF Orderly, DeriveRow, Race
<1>4. ASSUME NEW l \in Legs, Spend(l) \/ \E o \in Outcomes : End(l, o)
      PROVE  Orderly /\ UNCHANGED lost
  BY <1>4 DEF Orderly, Spend, End
<1>5. CASE \E i \in Ids : FetchRow(i)
  BY <1>5 DEF Orderly, FetchRow
<1>. QED  BY <1>2, <1>3, <1>4, <1>5 DEF Next

LEMMA OrderingStep == Ordering /\ [Next]_vars => Ordering'
<1>. SUFFICES ASSUME Ordering, [Next]_vars, Orderly' PROVE InLine' /\ Balanced'
  BY SettlingStep DEF Ordering
<1>1. CASE UNCHANGED vars
  BY <1>1, OrderingSame DEF vars, Ordering, Orderly, Settling
<1>2. CASE Next
  <2>1. /\ Settling /\ Settling' /\ Types
        /\ Orderly /\ UNCHANGED lost /\ ~overlap' /\ ~raced'
    BY <1>2, SettlingStep, OrderlyBefore DEF Ordering, Orderly, Settling
  <2>2. InLine /\ Balanced
    BY <2>1 DEF Ordering
  <2>3. CASE \E i \in Ids : FetchRow(i)
    BY <2>1, <2>2, <2>3, OrderingSame DEF FetchRow
  <2>4. CASE DeriveRow
    BY <2>1, <2>2, <2>4, OrderingDerive
  <2>5. ASSUME NEW l \in Legs, Spend(l) PROVE InLine' /\ Balanced'
    BY <2>1, <2>2, <2>5, OrderingSpend
  <2>6. ASSUME NEW l \in Legs, Close(l) PROVE InLine' /\ Balanced'
    BY <2>1, <2>2, <2>6, OrderingClose
  <2>7. ASSUME NEW l \in Legs, Settle(l) PROVE InLine' /\ Balanced'
    BY <2>1, <2>2, <2>7, OrderingSettle
  <2>8. ASSUME NEW l \in Legs, Decide(l) PROVE InLine' /\ Balanced'
    BY <2>1, <2>2, <2>8, OrderingDecide
  <2>9. ASSUME NEW l \in Legs, NEW o \in Outcomes, End(l, o) PROVE InLine' /\ Balanced'
    BY <2>1, <2>2, <2>9, OrderingEnd
  <2>. QED  BY <1>2, <2>3, <2>4, <2>5, <2>6, <2>7, <2>8, <2>9 DEF Next
<1>. QED  BY <1>1, <1>2

-----------------------------------------------------------------------------
\* What is nothing but for the first request adds up to the first one's.  The fold
\* is the only function that satisfies its equation on the subsets of Ids.
LEMMA SumOfFirst ==
    ASSUME NEW f, f[1] \in Nat, \A i \in Ids : i # 1 => f[i] = 0
    PROVE  MapThenSumSet(LAMBDA i : f[i], Ids) = f[1]
<1>. DEFINE Some(s) == CHOOSE x \in s : TRUE
            body(sum) == [s \in SUBSET Ids |->
                             IF s = {} THEN 0 ELSE f[Some(s)] + sum[s \ {Some(s)}]]
            chosen == CHOOSE sum : sum = body(sum)
            first == [s \in SUBSET Ids |-> IF 1 \in s THEN f[1] ELSE 0]
<1>1. MapThenSumSet(LAMBDA i : f[i], Ids) = chosen[Ids]
  BY DEF MapThenSumSet, MapThenFoldSet
<1>2. \A s : s # {} => Some(s) \in s
  OBVIOUS
<1>. HIDE DEF Some
<1>3. \A s \in SUBSET Ids : s # {} => first[s] = f[Some(s)] + first[s \ {Some(s)}]
  <2>1. SUFFICES ASSUME NEW s \in SUBSET Ids, s # {}
                 PROVE  first[s] = f[Some(s)] + first[s \ {Some(s)}]
    OBVIOUS
  <2>2. Some(s) \in s /\ Some(s) \in Ids /\ s \ {Some(s)} \in SUBSET Ids
    BY <1>2, <2>1
  <2>3. first[s \ {Some(s)}] = IF 1 \in s /\ Some(s) # 1 THEN f[1] ELSE 0
    BY <2>2
  <2>4. first[s] = IF 1 \in s THEN f[1] ELSE 0
    OBVIOUS
  <2>5. CASE Some(s) = 1
    BY <2>2, <2>3, <2>4, <2>5
  <2>6. CASE Some(s) # 1
    BY <2>2, <2>3, <2>4, <2>6
  <2>. QED  BY <2>5, <2>6
<1>4. first = body(first)
  BY <1>3
<1>5. chosen = body(chosen)
  BY <1>4
<1>6. /\ chosen[{}] = 0
      /\ \A s \in SUBSET Ids : s # {} => chosen[s] = f[Some(s)] + chosen[s \ {Some(s)}]
  <2>. HIDE DEF chosen
  <2>. QED  BY <1>5
<1>. HIDE DEF chosen
<1>. DEFINE C == {s \in SUBSET Ids : chosen[s] # first[s]}
<1>7. C = {}
  <2>1. SUFFICES ASSUME C # {} PROVE FALSE
    OBVIOUS
  <2>2. IsWellFoundedOn(StrictSubsetOrdering(Ids), SUBSET Ids)
    <3>1. IsFiniteSet(Ids)
      <4>1. LastLeg \in Int /\ Ids = 1..LastLeg
        BY Bounds DEF Ids, Legs
      <4>. QED  BY <4>1, FS_Interval
    <3>2. FiniteSubsetsOf(Ids) = SUBSET Ids
      BY <3>1, FS_FiniteSubsetsOfFinite
    <3>. QED  BY <3>1, <3>2, FS_StrictSubsetOrderingWellFounded
  <2>3. PICK s \in C : \A t \in C : ~(<<t, s>> \in StrictSubsetOrdering(Ids))
    <3>1. C \subseteq SUBSET Ids
      OBVIOUS
    <3>. HIDE DEF C
    <3>. QED  BY <2>1, <2>2, <3>1, WFMin
  <2>4. s \in SUBSET Ids /\ s # {}
    BY <1>6
  <2>5. s \ {Some(s)} \notin C /\ s \ {Some(s)} \in SUBSET Ids
    BY <1>2, <2>3, <2>4 DEF StrictSubsetOrdering
  <2>6. chosen[s \ {Some(s)}] = first[s \ {Some(s)}]
    BY <2>5
  <2>7. chosen[s] = first[s]
    <3>. HIDE DEF first
    <3>. QED  BY <1>3, <1>6, <2>4, <2>6
  <2>. QED  BY <2>7
<1>8. \A s \in SUBSET Ids : chosen[s] = first[s]
  BY <1>7
<1>9. first[Ids] = f[1]
  BY Bounds DEF Ids, Legs
<1>. QED  BY <1>1, <1>8, <1>9

\* A settled ask whose legs followed one another, with no write lost and no rebuild
\* in between, is charged the cost of all its legs, capped, if the last one
\* answered, and nothing otherwise; its one cost row says so.
THEOREM ChargedWhatItCost == Spec => []OrderlyAskIsCharged
<1>1. Ordering => OrderlyAskIsCharged
  <2>1. SUFFICES ASSUME Ordering, Settled, Orderly
                 PROVE  Charged = Owed /\ \A i \in Ids : charge[i] = row[i].credits
    BY DEF OrderlyAskIsCharged
  <2>2. Settling /\ Types /\ ~raced /\ InLine /\ Balanced /\ 1 \in Ids
    BY <2>1, Bounds DEF Ordering, Orderly, Settling, Ids, Legs
  <2>3. \A i \in Ids : spent[i] \in Nat /\ charge[i] \in Nat
    BY <2>2, Bounds DEF Types
  <2>4. \A i \in Ids : i # 1 => charge[i] = 0 /\ row[i].credits = 0 /\ spent[i] = 0
    BY <2>2, OtherRequests DEF Balanced
  <2>5. \A l \in Legs : /\ leg[l].outcome = "success" <=> Won(l)
                        /\ leg[l].outcome = "success" <=> Billed(l)
    BY <2>1, <2>2 DEF Settled, Won, Billed, ClosedLeg, Settling, Structure, LegOK
  <2>6. charge[1] = row[1].credits
    BY <2>2, <2>5 DEF Balanced
  <2>7. row[1].credits = IF \E l \in Legs : leg[l].outcome = "success"
                         THEN Least(spent[1], Cap) ELSE 0
    BY <2>2, <2>5 DEF Balanced
  <2>8. Charged = charge[1]
    BY <2>2, <2>3, <2>4, SumOfFirst DEF Charged
  <2>9. MapThenSumSet(LAMBDA i : spent[i], Ids) = spent[1]
    BY <2>2, <2>3, <2>4, SumOfFirst
  <2>10. Owed = IF \E l \in Legs : leg[l].outcome = "success"
                THEN Least(spent[1], Cap) ELSE 0
    BY <2>9 DEF Owed
  <2>. QED  BY <2>4, <2>6, <2>7, <2>8, <2>10
<1>. QED  BY <1>1, OrderingInit, OrderingStep, PTL DEF Spec
=============================================================================
