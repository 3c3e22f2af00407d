------------------------ MODULE ChecklistOrder_proofs ------------------------
(***************************************************************************)
(* Proofs about ChecklistOrder, for every set of items and checklists,     *)
(* every assignment of checklists to cards, every capacity, last position  *)
(* and version bound.                                                      *)
(***************************************************************************)
EXTENDS ChecklistOrder, FiniteSetTheorems, TLAPS

-----------------------------------------------------------------------------
(* Rows. *)

Typed(rows) == rows \in [Items -> Rows \cup {NoRow}]

LEMMA StoredRow ==
  ASSUME NEW rows, Typed(rows), NEW i \in Items, Stored(rows[i])
  PROVE  /\ rows[i] \in Rows /\ rows[i].list \in Checklists
         /\ rows[i].pos \in 0 .. PositionMax /\ rows[i].pos \in Nat
         /\ rows[i].version \in 1 .. MutateMax + 1 /\ rows[i].version \in Nat
  BY ChecklistOrderAssumption DEF Typed, Stored, NoRow, Rows

LEMMA MakeRow ==
  ASSUME NEW k \in Checklists, NEW p \in Nat, p <= PositionMax,
         NEW v \in 1 .. MutateMax + 1
  PROVE  [list |-> k, pos |-> p, version |-> v] \in Rows
  BY ChecklistOrderAssumption DEF Rows

LEMMA VersionOne == 1 \in 1 .. MutateMax + 1
  BY ChecklistOrderAssumption

LEMMA NextVersion ==
  ASSUME TypeOK, NEW i \in Items, Mutable(i)
  PROVE  /\ Stored(row[i]) /\ row[i] \in Rows
         /\ row[i].version + 1 \in 1 .. MutateMax + 1
<1>1. Stored(row[i]) /\ row[i].version \in Nat /\ row[i] \in Rows
  BY StoredRow DEF TypeOK, Typed, Mutable
<1>2. QED
  BY <1>1, ChecklistOrderAssumption DEF Mutable

LEMMA PositionsNat ==
  ASSUME NEW rows, Typed(rows), NEW k
  PROVE  /\ \A q \in Positions(rows, k) : q \in 0 .. PositionMax
         /\ \A p \in Starts(rows, k) : p \in Nat
<1>1. \A i \in ItemsIn(rows, k) : rows[i].pos \in 0 .. PositionMax
  BY StoredRow DEF ItemsIn
<1>2. QED
  BY <1>1, ChecklistOrderAssumption DEF Positions, Starts

\* An item whose row is given a position no other item of its checklist has.
LEMMA PlacedDistinct ==
  ASSUME NEW rows, Distinct(rows), NEW i \in Items, NEW r, NEW after,
         after = [j \in Items |-> IF j = i THEN r ELSE rows[j]],
         \A j \in ItemsIn(rows, r.list) : j # i => rows[j].pos # r.pos
  PROVE  Distinct(after)
  BY DEF Distinct, ItemsIn

LEMMA UpdateTyped ==
  ASSUME NEW rows, Typed(rows), NEW i \in Items, NEW r \in Rows \cup {NoRow}
  PROVE  /\ Typed([rows EXCEPT ![i] = r])
         /\ [rows EXCEPT ![i] = r] = [j \in Items |-> IF j = i THEN r ELSE rows[j]]
  BY DEF Typed

\* The position behind the last item is free.
LEMMA NextIsFree ==
  ASSUME NEW rows, Typed(rows), NEW k, NEW p \in Starts(rows, k), IsNext(rows, k, p)
  PROVE  /\ p \in Nat
         /\ \A j \in ItemsIn(rows, k) : rows[j].pos < p
         /\ \A q \in Nat, j \in ItemsIn(rows, k) : q >= p => rows[j].pos # q
<1>1. p \in Nat
  BY PositionsNat
<1>2. \A j \in ItemsIn(rows, k) : rows[j].pos \in Nat /\ rows[j].pos < p
  BY StoredRow DEF ItemsIn, IsNext, Positions
<1>3. QED
  BY <1>1, <1>2
-----------------------------------------------------------------------------
(* Capacity. *)

LEMMA ItemsOnFinite ==
  ASSUME NEW rows, NEW c
  PROVE  /\ IsFiniteSet(ItemsOn(rows, c))
         /\ Total(rows, c) \in Nat
<1>1. IsFiniteSet(ItemsOn(rows, c))
  BY ChecklistOrderAssumption, FS_Subset DEF ItemsOn
<1>2. QED
  BY <1>1, FS_CardinalityType DEF Total

LEMMA FewerItems ==
  ASSUME NEW rows, NEW after, NEW c, ItemsOn(after, c) \subseteq ItemsOn(rows, c)
  PROVE  Total(after, c) <= Total(rows, c)
  BY ItemsOnFinite, FS_Subset DEF Total

LEMMA BatchItems ==
  ASSUME NEW rows, NEW after, NEW c, NEW batch, IsFiniteSet(batch),
         ItemsOn(after, c) \subseteq ItemsOn(rows, c) \cup batch
  PROVE  Total(after, c) <= Total(rows, c) + Cardinality(batch)
<1> DEFINE A == ItemsOn(rows, c)
           B == ItemsOn(after, c)
<1>1. IsFiniteSet(A) /\ IsFiniteSet(B)
  BY ItemsOnFinite
<1> HIDE DEF A, B
<1>2. IsFiniteSet(A \cup batch)
  BY <1>1, FS_Union
<1>3. Cardinality(A \cup batch) = Cardinality(A) + Cardinality(batch) - Cardinality(A \cap batch)
  BY <1>1, FS_Union
<1>4. IsFiniteSet(A \cap batch)
  BY <1>1, FS_Intersection
<1>5. /\ Cardinality(A) \in Nat /\ Cardinality(batch) \in Nat /\ Cardinality(B) \in Nat
      /\ Cardinality(A \cap batch) \in Nat
  BY <1>1, <1>4, FS_CardinalityType
<1>6. B \subseteq A \cup batch
  BY DEF A, B
<1>7. Cardinality(B) <= Cardinality(A \cup batch)
  BY <1>2, <1>6, FS_Subset
<1>8. Cardinality(B) <= Cardinality(A) + Cardinality(batch)
  BY <1>3, <1>5, <1>7
<1>9. QED
  BY <1>8 DEF A, B, Total

LEMMA OneItem ==
  ASSUME NEW rows, NEW after, NEW c, NEW i,
         ItemsOn(after, c) \subseteq ItemsOn(rows, c) \cup {i}
  PROVE  Total(after, c) <= Total(rows, c) + 1
<1>1. IsFiniteSet({i}) /\ Cardinality({i}) = 1
  BY FS_Singleton
<1>2. QED
  BY <1>1, BatchItems

Within(rows) == \A k \in Checklists : Total(rows, CardOf[k]) <= Capacity
-----------------------------------------------------------------------------
(* The inductive invariant: how far a numbering has come.                  *)

Members == {j \in Items : tx.place[j] # -1}
Block == tx.base .. tx.base + tx.size - 1
Sibling(j) == j \in Members /\ j # tx.item

\* What the checks of write_order established, and the committed rows keep.
Planned ==
  /\ tx.base + tx.size <= PositionMax + 1
  /\ tx.item \in Members /\ tx.advanced \subseteq {tx.item}
  /\ \A j \in Members : tx.place[j] \in 0 .. tx.size - 1
  /\ \A i, j \in Members : tx.place[i] = tx.place[j] => i = j
  /\ Mutable(tx.item) /\ Fits(tx.item, tx.list)
  /\ tx.item \notin tx.advanced => row[tx.item].list = tx.list
  /\ \A j \in Items : Sibling(j) <=> j \in ItemsIn(row, tx.list) /\ j # tx.item
  /\ \A j \in Members : Changed(j) => row[j].version <= MutateMax
  /\ \A i, j \in Members : Sibling(i) /\ Sibling(j) =>
       (row[i].pos < row[j].pos <=> tx.place[i] < tx.place[j])

Increment(b) == IF b THEN 1 ELSE 0

StageInv ==
  \A j \in Members :
    /\ work[j].list = tx.list
    /\ work[j].version = row[j].version + Increment(j \in tx.advanced)
    /\ IF tx.place[j] < tx.at THEN work[j].pos = tx.base + tx.place[j]
                              ELSE work[j].pos \notin Block

SettleInv ==
  \A j \in Members :
    /\ work[j].list = tx.list
    /\ work[j].version = row[j].version +
         Increment(j \in tx.advanced \/ (tx.place[j] < tx.at /\ Changed(j)))
    /\ work[j].pos = IF tx.place[j] < tx.at THEN tx.place[j] ELSE tx.base + tx.place[j]

Others == \A j \in Items \ Members : work[j] = row[j]

Open ==
  /\ tx \in Txs /\ Planned /\ Others
  /\ tx.pass = "stage" => StageInv
  /\ tx.pass = "settle" => SettleInv

IInv ==
  /\ TypeOK /\ PositionsDistinct /\ CardWithinCapacity
  /\ tx = NoTx => work = row
  /\ tx # NoTx => Open
-----------------------------------------------------------------------------
(* Transactions that need no staging keep the invariant. *)

LEMMA Atomic ==
  ASSUME IInv, NEW rows, Typed(rows), Distinct(rows), Within(rows), Atomically(rows)
  PROVE  IInv'
<1>1. tx = NoTx /\ tx' = NoTx /\ row' = rows /\ work' = rows
  BY DEF Atomically
<1>2. TypeOK'
  BY <1>1 DEF TypeOK, Typed
<1>3. PositionsDistinct' /\ CardWithinCapacity'
  BY <1>1 DEF PositionsDistinct, Distinct, Stored, CardWithinCapacity, Within, Total,
              ItemsOn
<1>4. QED
  BY <1>1, <1>2, <1>3 DEF IInv

LEMMA Committed ==
  ASSUME IInv
  PROVE  Typed(row) /\ Distinct(row) /\ Within(row)
  BY DEF IInv, TypeOK, Typed, PositionsDistinct, CardWithinCapacity, Within

LEMMA AddItemStep ==
  ASSUME IInv, NEW k \in Checklists, NEW i \in Items, AddItem(k, i)
  PROVE  IInv'
<1>1. PICK p \in Starts(row, k) :
        IsNext(row, k, p) /\ Atomically([row EXCEPT ![i] = NewItem(k, p)])
  BY DEF AddItem
<1> DEFINE r == NewItem(k, p)
           rows == [row EXCEPT ![i] = r]
<1>2. Typed(row) /\ Distinct(row) /\ Within(row)
  BY Committed
<1>3. p \in Nat /\ \A j \in ItemsIn(row, k) : row[j].pos # p
  BY <1>1, <1>2, NextIsFree
<1>4. p <= PositionMax
  <2>1. CASE p = 0
    BY <2>1, ChecklistOrderAssumption
  <2>2. CASE p # 0
    <3>1. PICK j \in ItemsIn(row, k) : p = row[j].pos + 1
      BY <1>1, <2>2 DEF Starts, Positions
    <3>2. row[j].pos < PositionMax /\ row[j].pos \in Nat
      BY <1>2, <3>1, StoredRow DEF AddItem, ItemsIn, ItemsOn
    <3>3. QED
      BY <3>1, <3>2, ChecklistOrderAssumption
  <2>3. QED
    BY <2>1, <2>2
<1>5. r \in Rows /\ r.list = k /\ r.pos = p
  BY <1>3, <1>4, VersionOne, MakeRow DEF NewItem
<1>a. Atomically(rows)
  BY <1>1
<1> HIDE DEF r
<1>6. Typed(rows) /\ rows = [j \in Items |-> IF j = i THEN r ELSE row[j]]
  BY <1>2, <1>5, UpdateTyped
<1> HIDE DEF rows
<1>7. Distinct(rows)
  BY <1>2, <1>3, <1>5, <1>6, PlacedDistinct
<1>8. Within(rows)
  <2> SUFFICES ASSUME NEW l \in Checklists PROVE Total(rows, CardOf[l]) <= Capacity
    BY DEF Within
  <2>1. CASE CardOf[l] = CardOf[k]
    <3>1. ItemsOn(rows, CardOf[l]) \subseteq ItemsOn(row, CardOf[l]) \cup {i}
      BY <1>6 DEF ItemsOn
    <3>2. Total(rows, CardOf[l]) <= Total(row, CardOf[l]) + 1
      BY <3>1, OneItem
    <3>3. Total(row, CardOf[l]) < Capacity
      BY <2>1 DEF AddItem
    <3>4. QED
      BY <3>2, <3>3, ItemsOnFinite, ChecklistOrderAssumption
  <2>2. CASE CardOf[l] # CardOf[k]
    <3>1. ItemsOn(rows, CardOf[l]) \subseteq ItemsOn(row, CardOf[l])
      BY <1>5, <1>6, <2>2 DEF ItemsOn
    <3>2. QED
      BY <1>2, <3>1, FewerItems, ItemsOnFinite, ChecklistOrderAssumption DEF Within
  <2>3. QED
    BY <2>1, <2>2
<1>9. QED
  BY <1>a, <1>6, <1>7, <1>8, Atomic

LEMMA AddItemsStep ==
  ASSUME IInv, NEW k \in Checklists, NEW batch \in SUBSET Items, AddItems(k, batch)
  PROVE  IInv'
<1> DEFINE b == Cardinality(batch)
<1>1. PICK p \in Starts(row, k), line \in [batch -> 0 .. b - 1] :
        /\ IsNext(row, k, p) /\ p + b <= PositionMax + 1
        /\ \A i, j \in batch : line[i] = line[j] => i = j
        /\ Atomically([i \in Items |->
             IF i \in batch THEN NewItem(k, p + line[i]) ELSE row[i]])
  BY DEF AddItems
<1> DEFINE rows == [i \in Items |-> IF i \in batch THEN NewItem(k, p + line[i]) ELSE row[i]]
<1>2. Typed(row) /\ Distinct(row) /\ Within(row)
  BY Committed
<1>3. /\ p \in Nat /\ \A j \in ItemsIn(row, k) : row[j].pos < p
      /\ \A q \in Nat, j \in ItemsIn(row, k) : q >= p => row[j].pos # q
  BY <1>1, <1>2, NextIsFree
<1>4. IsFiniteSet(batch) /\ b \in Nat
  BY ChecklistOrderAssumption, FS_Subset, FS_CardinalityType
<1>5. \A i \in batch : line[i] \in Nat /\ line[i] <= b - 1
  BY <1>1, <1>4
<1> HIDE DEF b
<1>6. \A i \in batch : p + line[i] \in Nat /\ p + line[i] >= p /\ p + line[i] <= PositionMax
  BY <1>1, <1>3, <1>4, <1>5, ChecklistOrderAssumption
<1>7. \A i \in batch : NewItem(k, p + line[i]) \in Rows
  BY <1>6, VersionOne, MakeRow DEF NewItem
<1>8. Typed(rows)
  BY <1>2, <1>7 DEF Typed
<1>9. \A i \in batch : rows[i].list = k /\ rows[i].pos = p + line[i]
  BY DEF NewItem
<1>10. \A i \in Items \ batch : rows[i] = row[i]
  OBVIOUS
<1>11. Atomically(rows)
  BY <1>1
<1> HIDE DEF rows
<1>12. ASSUME NEW i \in Items, NEW j \in Items, Stored(rows[i]), Stored(rows[j]),
              rows[i].list = rows[j].list, rows[i].pos = rows[j].pos
       PROVE  i = j
  <2>1. CASE i \in batch /\ j \in batch
    BY <1>1, <1>3, <1>5, <1>9, <1>12, <2>1
  <2>2. CASE i \in batch /\ j \notin batch
    BY <1>3, <1>6, <1>9, <1>10, <1>12, <2>2 DEF ItemsIn
  <2>3. CASE i \notin batch /\ j \in batch
    BY <1>3, <1>6, <1>9, <1>10, <1>12, <2>3 DEF ItemsIn
  <2>4. CASE i \notin batch /\ j \notin batch
    BY <1>2, <1>10, <1>12, <2>4 DEF Distinct
  <2>5. QED
    BY <2>1, <2>2, <2>3, <2>4
<1>13. Distinct(rows)
  BY <1>12 DEF Distinct
<1>14. Within(rows)
  <2> SUFFICES ASSUME NEW l \in Checklists PROVE Total(rows, CardOf[l]) <= Capacity
    BY DEF Within
  <2>1. CASE CardOf[l] = CardOf[k]
    <3>1. ItemsOn(rows, CardOf[l]) \subseteq ItemsOn(row, CardOf[l]) \cup batch
      BY <1>10 DEF ItemsOn
    <3>2. Total(rows, CardOf[l]) <= Total(row, CardOf[l]) + b
      BY <1>4, <3>1, BatchItems DEF b
    <3>3. Total(row, CardOf[l]) + b <= Capacity
      BY <2>1 DEF AddItems, Room, b
    <3>4. QED
      BY <1>4, <3>2, <3>3, ItemsOnFinite, ChecklistOrderAssumption
  <2>2. CASE CardOf[l] # CardOf[k]
    <3>1. ItemsOn(rows, CardOf[l]) \subseteq ItemsOn(row, CardOf[l])
      BY <1>9, <1>10, <2>2 DEF ItemsOn
    <3>2. QED
      BY <1>2, <3>1, FewerItems, ItemsOnFinite, ChecklistOrderAssumption DEF Within
  <2>3. QED
    BY <2>1, <2>2
<1>15. QED
  BY <1>8, <1>11, <1>13, <1>14, Atomic

\* Fewer rows, each of them where it was.
LEMMA Shrunk ==
  ASSUME IInv, NEW rows, Typed(rows), Atomically(rows),
         \A i \in Items : Stored(rows[i]) =>
           Stored(row[i]) /\ rows[i].list = row[i].list /\ rows[i].pos = row[i].pos
  PROVE  IInv'
<1>1. Typed(row) /\ Distinct(row) /\ Within(row)
  BY Committed
<1>2. Distinct(rows)
  BY <1>1 DEF Distinct
<1>3. \A c : Total(rows, c) <= Total(row, c)
  <2> TAKE c
  <2>1. ItemsOn(rows, c) \subseteq ItemsOn(row, c)
    BY DEF ItemsOn
  <2>2. QED
    BY <2>1, FewerItems
<1>4. Within(rows)
  BY <1>1, <1>3, ItemsOnFinite, ChecklistOrderAssumption DEF Within
<1>5. QED
  BY <1>2, <1>4, Atomic

LEMMA NoRowNotStored == ~Stored(NoRow)
  BY DEF Stored, NoRow

LEMMA RenameItemStep ==
  ASSUME IInv, NEW i \in Items, RenameItem(i)
  PROVE  IInv'
<1> DEFINE r == [row[i] EXCEPT !.version = @ + 1]
           rows == [row EXCEPT ![i] = r]
<1>1. TypeOK /\ Typed(row) /\ Mutable(i)
  BY Committed DEF IInv, RenameItem
<1>2. Stored(row[i]) /\ row[i] \in Rows /\ row[i].version + 1 \in 1 .. MutateMax + 1
  BY <1>1, NextVersion
<1>3. r \in Rows /\ r.list = row[i].list /\ r.pos = row[i].pos
  BY <1>2 DEF Rows
<1>4. Atomically(rows)
  BY DEF RenameItem
<1> HIDE DEF r
<1>5. Typed(rows) /\ rows = [j \in Items |-> IF j = i THEN r ELSE row[j]]
  BY <1>1, <1>3, UpdateTyped
<1>6. \A j \in Items : Stored(rows[j]) =>
        Stored(row[j]) /\ rows[j].list = row[j].list /\ rows[j].pos = row[j].pos
  BY <1>2, <1>3, <1>5
<1>7. QED
  BY <1>4, <1>5, <1>6, Shrunk

LEMMA DeleteItemStep ==
  ASSUME IInv, NEW i \in Items, DeleteItem(i)
  PROVE  IInv'
<1> DEFINE rows == [row EXCEPT ![i] = NoRow]
<1>1. Typed(row) /\ Atomically(rows)
  BY Committed DEF DeleteItem
<1>2. Typed(rows) /\ rows = [j \in Items |-> IF j = i THEN NoRow ELSE row[j]]
  BY <1>1, UpdateTyped
<1>3. \A j \in Items : Stored(rows[j]) =>
        Stored(row[j]) /\ rows[j].list = row[j].list /\ rows[j].pos = row[j].pos
  BY <1>2, NoRowNotStored
<1>4. QED
  BY <1>1, <1>2, <1>3, Shrunk

LEMMA DeleteChecklistStep ==
  ASSUME IInv, NEW k \in Checklists, DeleteChecklist(k)
  PROVE  IInv'
<1> DEFINE rows == [i \in Items |-> IF i \in ItemsIn(row, k) THEN NoRow ELSE row[i]]
<1>1. Typed(row) /\ Atomically(rows)
  BY Committed DEF DeleteChecklist
<1>2. Typed(rows)
  BY <1>1 DEF Typed
<1>3. \A j \in Items : Stored(rows[j]) =>
        Stored(row[j]) /\ rows[j].list = row[j].list /\ rows[j].pos = row[j].pos
  BY NoRowNotStored
<1>4. QED
  BY <1>1, <1>2, <1>3, Shrunk

\* The row of an item that goes to position p of another checklist.
LEMMA MovedRow ==
  ASSUME IInv, NEW i \in Items, NEW k \in Checklists, Mutable(i),
         NEW p \in Nat, p <= PositionMax, \A j \in ItemsIn(row, k) : row[j].pos # p
  PROVE  /\ Typed(MovedTo(i, k, p)) /\ Distinct(MovedTo(i, k, p))
         /\ MovedTo(i, k, p)[i] = [list |-> k, pos |-> p, version |-> row[i].version + 1]
         /\ \A j \in Items : j # i => MovedTo(i, k, p)[j] = row[j]
<1> DEFINE r == [list |-> k, pos |-> p, version |-> row[i].version + 1]
<1>1. TypeOK /\ Typed(row) /\ Distinct(row)
  BY Committed DEF IInv
<1>2. r \in Rows /\ r.list = k /\ r.pos = p
  BY <1>1, NextVersion, MakeRow
<1>3. MovedTo(i, k, p) = [row EXCEPT ![i] = r]
  BY DEF MovedTo
<1> HIDE DEF r
<1>4. /\ Typed(MovedTo(i, k, p))
      /\ MovedTo(i, k, p) = [j \in Items |-> IF j = i THEN r ELSE row[j]]
  <2>1. /\ Typed([row EXCEPT ![i] = r])
        /\ [row EXCEPT ![i] = r] = [j \in Items |-> IF j = i THEN r ELSE row[j]]
    BY <1>1, <1>2, UpdateTyped
  <2>2. QED
    BY <1>3, <2>1
<1>5. Distinct(MovedTo(i, k, p))
  BY <1>1, <1>2, <1>4, PlacedDistinct
<1>6. QED
  BY <1>4, <1>5 DEF r

\* Nothing but the one item comes to the card of the checklist.
LEMMA MovedWithin ==
  ASSUME IInv, NEW rows, NEW i \in Items, NEW k \in Checklists, Mutable(i), Fits(i, k),
         \A j \in Items : j # i /\ Stored(rows[j]) =>
           Stored(row[j]) /\ rows[j].list = row[j].list,
         rows[i].list = k
  PROVE  Within(rows)
<1>1. Within(row) /\ Stored(row[i])
  BY Committed DEF Mutable
<1> SUFFICES ASSUME NEW l \in Checklists PROVE Total(rows, CardOf[l]) <= Capacity
  BY DEF Within
<1>2. CASE CardOf[l] = CardOf[k] /\ CardOf[k] # CardOf[row[i].list]
  <2>1. ItemsOn(rows, CardOf[l]) \subseteq ItemsOn(row, CardOf[l]) \cup {i}
    BY DEF ItemsOn
  <2>2. Total(rows, CardOf[l]) <= Total(row, CardOf[l]) + 1
    BY <2>1, OneItem
  <2>3. Total(row, CardOf[l]) < Capacity
    BY <1>2 DEF Fits
  <2>4. QED
    BY <2>2, <2>3, ItemsOnFinite, ChecklistOrderAssumption
<1>3. CASE CardOf[l] # CardOf[k] \/ CardOf[k] = CardOf[row[i].list]
  <2>1. ItemsOn(rows, CardOf[l]) \subseteq ItemsOn(row, CardOf[l])
    BY <1>1, <1>3 DEF ItemsOn
  <2>2. QED
    BY <1>1, <2>1, FewerItems, ItemsOnFinite, ChecklistOrderAssumption DEF Within
<1>4. QED
  BY <1>2, <1>3

LEMMA MoveToEndStep ==
  ASSUME IInv, NEW i \in Items, NEW k \in Checklists, MoveToEnd(i, k)
  PROVE  IInv'
<1>1. PICK p \in Starts(row, k) :
        IsNext(row, k, p) /\ p <= PositionMax /\ Atomically(MovedTo(i, k, p))
  BY DEF MoveToEnd
<1>2. Mutable(i) /\ Fits(i, k)
  BY DEF MoveToEnd, Movable
<1>3. p \in Nat /\ \A j \in ItemsIn(row, k) : row[j].pos # p
  BY <1>1, Committed, NextIsFree
<1>4. /\ Typed(MovedTo(i, k, p)) /\ Distinct(MovedTo(i, k, p))
      /\ MovedTo(i, k, p)[i] = [list |-> k, pos |-> p, version |-> row[i].version + 1]
      /\ \A j \in Items : j # i => MovedTo(i, k, p)[j] = row[j]
  BY <1>1, <1>2, <1>3, MovedRow
<1>5. Within(MovedTo(i, k, p))
  BY <1>2, <1>4, MovedWithin
<1>6. QED
  BY <1>1, <1>4, <1>5, Atomic
-----------------------------------------------------------------------------
(* The places of a numbering. *)

LEMMA RankFacts ==
  ASSUME NEW rows, Typed(rows), Distinct(rows), NEW k, NEW r \in Ranks(rows, k)
  PROVE  /\ Count(rows, k) \in Nat
         /\ \A j \in ItemsIn(rows, k) : r[j] \in 0 .. Count(rows, k) - 1
         /\ \A i, j \in ItemsIn(rows, k) : rows[i].pos < rows[j].pos <=> r[i] < r[j]
         /\ \A i, j \in ItemsIn(rows, k) : r[i] = r[j] => i = j
<1> DEFINE S == ItemsIn(rows, k)
           n == Count(rows, k)
<1>1. IsFiniteSet(S)
  BY ChecklistOrderAssumption, FS_Subset DEF ItemsIn
<1>2. n \in Nat
  BY <1>1, FS_CardinalityType DEF Count
<1>3. r \in [S -> 0 .. n - 1]
  BY DEF Ranks
<1>4. \A i, j \in S : rows[i].pos < rows[j].pos => r[i] < r[j]
  BY DEF Ranks
<1>5. \A i, j \in S : i # j => rows[i].pos # rows[j].pos
  BY DEF Distinct, ItemsIn
<1>6. \A i \in S : rows[i].pos \in Nat
  BY StoredRow DEF ItemsIn
<1> HIDE DEF S, n
<1>7. \A j \in S : r[j] \in 0 .. n - 1 /\ r[j] \in Nat
  BY <1>2, <1>3
<1>8. \A i, j \in S : r[i] = r[j] => i = j
  <2> TAKE i, j \in S
  <2>1. r[i] \in Nat /\ r[j] \in Nat /\ rows[i].pos \in Nat /\ rows[j].pos \in Nat
    BY <1>6, <1>7
  <2>2. ~(r[i] < r[j]) /\ ~(r[j] < r[i]) => rows[i].pos = rows[j].pos
    BY <1>4, <2>1
  <2>3. QED
    BY <1>5, <2>1, <2>2
<1>9. \A i, j \in S : rows[i].pos < rows[j].pos <=> r[i] < r[j]
  <2> TAKE i, j \in S
  <2>1. r[i] \in Nat /\ r[j] \in Nat /\ rows[i].pos \in Nat /\ rows[j].pos \in Nat
    BY <1>6, <1>7
  <2>2. r[i] < r[j] => rows[i].pos < rows[j].pos
    <3>1. SUFFICES ASSUME r[i] < r[j], ~(rows[i].pos < rows[j].pos) PROVE FALSE
      OBVIOUS
    <3>2. rows[j].pos < rows[i].pos \/ i = j
      BY <1>5, <2>1, <3>1
    <3>3. QED
      BY <1>4, <2>1, <3>1, <3>2
  <2>3. QED
    BY <1>4, <2>2
<1>10. QED
  BY <1>2, <1>7, <1>8, <1>9 DEF S, n

\* The ranks r of the items S are different numbers below n.
Ranking(S, n, r) ==
  /\ n \in Nat
  /\ \A j \in S : r[j] \in 0 .. n - 1
  /\ \A i, j \in S : r[i] = r[j] => i = j

ShiftedRanking(S, n, r, m, to) ==
  /\ \A j \in S : Shifted(r, m, to, j) \in 0 .. n - 1
  /\ \A i, j \in S : Shifted(r, m, to, i) = Shifted(r, m, to, j) => i = j
  /\ \A i, j \in S : i # m /\ j # m =>
       (r[i] < r[j] <=> Shifted(r, m, to, i) < Shifted(r, m, to, j))

\* Moving one rank to another place keeps the ranks apart and the others in order.
LEMMA ShiftedFacts ==
  ASSUME NEW S, NEW n, NEW r, Ranking(S, n, r), NEW m \in S, NEW to \in 0 .. n - 1
  PROVE  ShiftedRanking(S, n, r, m, to)
<1> USE DEF Ranking
<1>1. \A j \in S : r[j] \in Int /\ 0 <= r[j] /\ r[j] < n
  OBVIOUS
<1>2. \A j \in S : j # m => r[j] # r[m]
  OBVIOUS
<1>3. Shifted(r, m, to, m) = to
  BY DEF Shifted
<1>4. ASSUME NEW j \in S, j # m
      PROVE  Shifted(r, m, to, j) = IF to <= r[j] /\ r[j] < r[m] THEN r[j] + 1
                                    ELSE IF r[m] < r[j] /\ r[j] <= to THEN r[j] - 1
                                    ELSE r[j]
  <2>1. CASE to <= r[j] /\ r[j] < r[m]
    <3>1. ~(r[m] < r[j])
      BY <1>1, <2>1
    <3>2. QED
      BY <1>4, <2>1, <3>1 DEF Shifted
  <2>2. CASE ~(to <= r[j] /\ r[j] < r[m])
    BY <1>4, <2>2 DEF Shifted
  <2>3. QED
    BY <2>1, <2>2
<1>5. \A j \in S : Shifted(r, m, to, j) \in 0 .. n - 1
  BY <1>1, <1>2, <1>3, <1>4
<1>6. \A j \in S : j # m => Shifted(r, m, to, j) # to
  BY <1>1, <1>2, <1>4
<1>7. ASSUME NEW i \in S, NEW j \in S, i # m, j # m
      PROVE  /\ r[i] < r[j] <=> Shifted(r, m, to, i) < Shifted(r, m, to, j)
             /\ Shifted(r, m, to, i) = Shifted(r, m, to, j) => i = j
  <2>1. r[i] # r[m] /\ r[j] # r[m] /\ (r[i] = r[j] => i = j)
    BY <1>2, <1>7
  <2>2. r[i] \in Int /\ r[j] \in Int /\ r[m] \in Int /\ to \in Int
    BY <1>1
  <2>3. QED
    BY <1>4, <1>7, <2>1, <2>2
<1>8. QED
  BY <1>3, <1>5, <1>6, <1>7 DEF ShiftedRanking
-----------------------------------------------------------------------------
(* The checks of write_order, and the first state of its two passes. *)

LEMMA WriteOrderStep ==
  ASSUME IInv, tx = NoTx, NEW rows, Typed(rows), Distinct(rows), NEW i \in Items,
         Mutable(i), Stored(rows[i]), Fits(i, rows[i].list),
         NEW to \in Nat, NEW r \in Ranks(rows, rows[i].list), NEW advanced \in SUBSET {i},
         \A j \in Items : j # i => rows[j] = row[j],
         i \notin advanced => rows[i] = row[i],
         rows[i].version = row[i].version + Increment(i \in advanced),
         WriteOrder(rows, i, r, to, advanced)
  PROVE  IInv'
<1> DEFINE k == rows[i].list
           S == ItemsIn(rows, k)
           n == Count(rows, k)
           place == Places(rows, k, r, i, to)
<1>1. PICK base \in Starts(rows, k) :
        /\ IsFirstGap(rows, k, base, n) /\ base + n <= PositionMax + 1
        /\ tx' = [pass |-> "stage", at |-> 0, item |-> i, list |-> k, place |-> place,
                  size |-> n, base |-> base, advanced |-> advanced]
  BY DEF WriteOrder
<1>2. /\ to < n /\ work' = rows /\ row' = row
      /\ \A j \in S : rows[j].pos # place[j] /\ j \notin advanced => rows[j].version <= MutateMax
  BY DEF WriteOrder
<1>3. /\ n \in Nat /\ \A j \in S : r[j] \in 0 .. n - 1
      /\ \A j, l \in S : rows[j].pos < rows[l].pos <=> r[j] < r[l]
      /\ \A j, l \in S : r[j] = r[l] => j = l
  BY RankFacts
<1>4. i \in S /\ S \subseteq Items /\ k \in Checklists /\ base \in Nat
  BY <1>1, StoredRow, PositionsNat DEF ItemsIn
<1>5. to \in 0 .. n - 1
  BY <1>2, <1>3
<1>6. \A j \in Items : place[j] = IF j \in S THEN Shifted(r, i, to, j) ELSE -1
  BY DEF Places
<1> HIDE DEF place
<1>7. \A j \in S : rows[j].pos \notin base .. base + n - 1
  <2> TAKE j \in S
  <2>1. rows[j].pos \in Positions(rows, k) /\ rows[j].pos \in Nat
    BY StoredRow DEF Positions, ItemsIn
  <2>2. rows[j].pos < base \/ rows[j].pos >= base + n
    BY <1>1, <2>1 DEF IsFirstGap, FreeBlock
  <2>3. QED
    BY <1>3, <1>4, <2>1, <2>2
<1>8. \A j \in S : j # i => j \in ItemsIn(row, k)
  BY DEF ItemsIn
<1>9. \A j \in ItemsIn(row, k) : j # i => j \in S
  BY DEF ItemsIn
<1> HIDE DEF S, n
<1>10. /\ \A j \in S : Shifted(r, i, to, j) \in 0 .. n - 1
       /\ \A j, l \in S : Shifted(r, i, to, j) = Shifted(r, i, to, l) => j = l
       /\ \A j, l \in S : j # i /\ l # i =>
            (r[j] < r[l] <=> Shifted(r, i, to, j) < Shifted(r, i, to, l))
  <2>1. Ranking(S, n, r)
    BY <1>3 DEF Ranking
  <2>2. ShiftedRanking(S, n, r, i, to)
    BY <1>4, <1>5, <2>1, ShiftedFacts
  <2>3. QED
    BY <2>2 DEF ShiftedRanking
<1>11. place \in [Items -> Int]
  <2>1. place = [j \in Items |-> place[j]]
    BY DEF place, Places
  <2>2. \A j \in Items : place[j] \in Int
    BY <1>3, <1>6, <1>10
  <2>3. QED
    BY <2>1, <2>2
<1>12. tx' \in Txs /\ tx' # NoTx /\ tx'.pass = "stage"
  BY <1>1, <1>3, <1>4, <1>11 DEF Txs, NoTx
<1>13. /\ tx'.at = 0 /\ tx'.item = i /\ tx'.list = k /\ tx'.place = place /\ tx'.size = n
       /\ tx'.base = base /\ tx'.advanced = advanced
  BY <1>1
<1>14. Members' = S
  <2>1. \A j \in Items : place[j] # -1 <=> j \in S
    BY <1>3, <1>6, <1>10
  <2>2. QED
    BY <1>4, <1>13, <2>1 DEF Members
<1> HIDE DEF k
<1>15. \A j \in S : place[j] = Shifted(r, i, to, j)
  BY <1>4, <1>6
<1>16. Planned'
  <2>1. tx'.base + tx'.size <= PositionMax + 1
    BY <1>1, <1>13
  <2>2. tx'.item \in Members' /\ tx'.advanced \subseteq {tx'.item}
    BY <1>4, <1>13, <1>14
  <2>3. \A j \in Members' : tx'.place[j] \in 0 .. tx'.size - 1
    BY <1>10, <1>13, <1>14, <1>15
  <2>4. \A j, l \in Members' : tx'.place[j] = tx'.place[l] => j = l
    BY <1>10, <1>13, <1>14, <1>15
  <2>5. Mutable(tx.item)' /\ Fits(tx.item, tx.list)'
    BY <1>2, <1>13 DEF Mutable, Fits, Total, ItemsOn, k
  <2>6. tx'.item \notin tx'.advanced => row'[tx'.item].list = tx'.list
    BY <1>2, <1>13 DEF k
  <2>7. \A j \in Items : Sibling(j)' <=> j \in ItemsIn(row, tx.list)' /\ j # tx'.item
    <3>1. ItemsIn(row, tx.list)' = ItemsIn(row, k)
      BY <1>2, <1>13 DEF ItemsIn
    <3>2. QED
      BY <1>8, <1>9, <1>13, <1>14, <3>1 DEF Sibling, k
  <2>8. ASSUME NEW j \in Members', Changed(j)' PROVE row'[j].version <= MutateMax
    <3>1. row[j].pos # place[j] /\ j \notin advanced
      BY <1>2, <1>13, <2>8 DEF Changed
    <3>2. rows[j] = row[j] /\ j \in S
      BY <1>4, <1>14, <3>1
    <3>3. QED
      BY <1>2, <3>1, <3>2
  <2>9. ASSUME NEW j \in Members', NEW l \in Members', Sibling(j)', Sibling(l)'
        PROVE  row'[j].pos < row'[l].pos <=> tx'.place[j] < tx'.place[l]
    <3>1. j \in S /\ l \in S /\ j # i /\ l # i
      BY <1>13, <1>14, <2>9 DEF Sibling
    <3>2. rows[j] = row[j] /\ rows[l] = row[l]
      BY <1>4, <3>1
    <3>3. row[j].pos < row[l].pos <=> r[j] < r[l]
      BY <1>3, <3>1, <3>2
    <3>4. QED
      BY <1>2, <1>10, <1>13, <1>15, <3>1, <3>3
  <2>10. QED
    BY <2>1, <2>2, <2>3, <2>4, <2>5, <2>6, <2>7, <2>8, <2>9 DEF Planned
<1>17. Others'
  BY <1>2, <1>4, <1>14 DEF Others
<1>18. StageInv'
  <2> SUFFICES ASSUME NEW j \in S
               PROVE  /\ rows[j].list = k
                      /\ rows[j].version = row[j].version + Increment(j \in advanced)
                      /\ IF place[j] < 0 THEN rows[j].pos = base + place[j]
                                         ELSE rows[j].pos \notin base .. base + n - 1
    BY <1>2, <1>13, <1>14 DEF StageInv, Block
  <2>1. rows[j].list = k /\ Stored(rows[j])
    BY DEF S, ItemsIn
  <2>2. ~(place[j] < 0)
    BY <1>3, <1>10, <1>15
  <2>3. rows[j].version = row[j].version + Increment(j \in advanced)
    <3>1. CASE j = i
      BY <3>1
    <3>2. CASE j # i
      <4>1. rows[j] = row[j] /\ j \notin advanced
        BY <1>4, <3>2
      <4>2. rows[j].version \in Nat
        BY <1>4, <2>1, StoredRow
      <4>3. QED
        BY <4>1, <4>2 DEF Increment
    <3>3. QED
      BY <3>1, <3>2
  <2>4. QED
    BY <1>7, <2>1, <2>2, <2>3
<1>19. TypeOK' /\ PositionsDistinct' /\ CardWithinCapacity'
  BY <1>2, <1>12 DEF IInv, TypeOK, Typed, PositionsDistinct, Distinct, CardWithinCapacity,
                     Total, ItemsOn
<1>20. QED
  BY <1>12, <1>16, <1>17, <1>18, <1>19 DEF IInv, Open

LEMMA ReorderStep ==
  ASSUME IInv, NEW i \in Items, NEW to \in Nat, Reorder(i, to)
  PROVE  IInv'
<1>1. PICK r \in Ranks(row, row[i].list) : WriteOrder(row, i, r, to, {})
  BY DEF Reorder
<1>2. Typed(row) /\ Distinct(row) /\ Mutable(i) /\ tx = NoTx /\ Stored(row[i])
  BY Committed DEF Reorder, Mutable
<1>3. Fits(i, row[i].list) /\ {} \in SUBSET {i} /\ i \notin {}
  BY DEF Fits
<1>4. row[i].version = row[i].version + Increment(i \in {})
  BY <1>2, StoredRow DEF Increment
<1>5. QED
  BY <1>1, <1>2, <1>3, <1>4, WriteOrderStep

LEMMA MoveToStep ==
  ASSUME IInv, NEW i \in Items, NEW k \in Checklists, NEW to \in Nat, MoveTo(i, k, to)
  PROVE  IInv'
<1>1. PICK p \in Starts(row, k) :
        /\ IsFirstFree(k, p) /\ p <= PositionMax
        /\ \E r \in Ranks(MovedTo(i, k, p), k) : WriteOrder(MovedTo(i, k, p), i, r, to, {i})
  BY DEF MoveTo
<1> DEFINE rows == MovedTo(i, k, p)
<1>2. PICK r \in Ranks(rows, k) : WriteOrder(rows, i, r, to, {i})
  BY <1>1
<1>3. Mutable(i) /\ Fits(i, k) /\ tx = NoTx
  BY DEF MoveTo, Movable
<1>4. Typed(row) /\ p \in Nat
  BY Committed, PositionsNat
<1>5. ASSUME NEW j \in ItemsIn(row, k) PROVE row[j].pos # p
  <2>1. row[j].pos \in Positions(row, k) /\ row[j].pos \in Nat
    BY <1>4, StoredRow DEF Positions, ItemsIn
  <2>2. row[j].pos < p \/ row[j].pos >= p + 1
    BY <1>1, <2>1 DEF IsFirstFree, IsFirstGap, FreeBlock
  <2>3. QED
    BY <1>4, <2>1, <2>2
<1>6. /\ Typed(rows) /\ Distinct(rows)
      /\ rows[i] = [list |-> k, pos |-> p, version |-> row[i].version + 1]
      /\ \A j \in Items : j # i => rows[j] = row[j]
  BY <1>1, <1>3, <1>4, <1>5, MovedRow
<1>7. rows[i].list = k /\ rows[i].version = row[i].version + 1
  BY <1>6
<1>8. row[i].version + 1 \in 1 .. MutateMax + 1 /\ row[i].version \in Nat
  BY <1>3, <1>4, NextVersion, StoredRow DEF IInv
<1>9. Stored(rows[i])
  BY <1>7, <1>8 DEF Stored
<1>10. rows[i].version = row[i].version + Increment(i \in {i})
  BY <1>7 DEF Increment
<1>11. {i} \in SUBSET {i} /\ i \in {i}
  OBVIOUS
<1> HIDE DEF rows
<1>12. QED
  BY <1>2, <1>3, <1>6, <1>7, <1>9, <1>10, <1>11, WriteOrderStep
-----------------------------------------------------------------------------
(* The statements of the two passes keep the invariant. *)

LEMMA OpenFacts ==
  ASSUME IInv, tx # NoTx
  PROVE  /\ Open /\ tx \in Txs /\ Planned /\ Others
         /\ Typed(row) /\ Typed(work) /\ Distinct(row) /\ Distinct(work)
         /\ tx.at \in Nat /\ tx.size \in Nat /\ tx.base \in Nat /\ tx.list \in Checklists
         /\ \A j \in Members : /\ j \in Items /\ tx.place[j] \in Nat
                               /\ tx.place[j] < tx.size
<1>1. /\ Open /\ tx \in Txs /\ Planned /\ Others
      /\ Typed(row) /\ Typed(work) /\ Distinct(row) /\ Distinct(work)
  BY DEF IInv, Open, TypeOK, Typed, PositionsDistinct
<1>2. tx.at \in Nat /\ tx.size \in Nat /\ tx.base \in Nat /\ tx.list \in Checklists
  BY <1>1 DEF Txs
<1>3. \A j \in Members : tx.place[j] \in 0 .. tx.size - 1
  BY <1>1 DEF Planned
<1>4. \A j \in Members : j \in Items /\ tx.place[j] \in Nat /\ tx.place[j] < tx.size
  BY <1>2, <1>3 DEF Members
<1>5. QED
  BY <1>1, <1>2, <1>4

\* Members were stored before; in work they have that version or the next one.
LEMMA MemberRow ==
  ASSUME IInv, tx # NoTx, NEW j \in Members
  PROVE  /\ Stored(row[j]) /\ row[j] \in Rows /\ row[j].version \in Nat
         /\ j # tx.item => j \in ItemsIn(row, tx.list)
<1>1. Planned /\ Typed(row) /\ j \in Items
  BY OpenFacts
<1>2. j # tx.item => j \in ItemsIn(row, tx.list)
  BY <1>1 DEF Planned, Sibling
<1>3. Stored(row[j])
  BY <1>1, <1>2 DEF Planned, Mutable, ItemsIn
<1>4. QED
  BY <1>1, <1>2, <1>3, StoredRow

\* A statement changes neither the committed rows nor the plan.
LEMMA PlanStands ==
  ASSUME tx \in Txs, Planned, row' = row, NEW at \in Nat,
         NEW pass \in {"stage", "settle"},
         tx' = [tx EXCEPT !.at = at] \/ tx' = [tx EXCEPT !.pass = pass, !.at = at]
  PROVE  /\ Planned' /\ tx' \in Txs /\ tx' # NoTx /\ tx'.at = at
         /\ tx'.place = tx.place /\ tx'.list = tx.list /\ tx'.base = tx.base
         /\ tx'.size = tx.size /\ tx'.item = tx.item /\ tx'.advanced = tx.advanced
         /\ tx' = [tx EXCEPT !.at = at] => tx'.pass = tx.pass
         /\ tx' = [tx EXCEPT !.pass = pass, !.at = at] => tx'.pass = pass
         /\ Members' = Members /\ Block' = Block
         /\ \A j \in Items : Changed(j)' <=> Changed(j)
<1>1. /\ tx'.place = tx.place /\ tx'.list = tx.list /\ tx'.base = tx.base /\ tx'.at = at
      /\ tx'.size = tx.size /\ tx'.item = tx.item /\ tx'.advanced = tx.advanced
      /\ tx' = [tx EXCEPT !.at = at] => tx'.pass = tx.pass
      /\ tx' = [tx EXCEPT !.pass = pass, !.at = at] => tx'.pass = pass
  BY DEF Txs
<1>2. tx' \in Txs
  BY DEF Txs
<1>3. tx' # NoTx
  <2>1. tx'.pass \in {"stage", "settle"}
    BY <1>2 DEF Txs
  <2>2. QED
    BY <2>1 DEF NoTx
<1>4. Members' = Members /\ Block' = Block
  BY <1>1 DEF Members, Block
<1>5. \A j \in Items : Changed(j)' <=> Changed(j)
  BY <1>1 DEF Changed
<1>6. Planned'
  BY <1>1 DEF Planned, Members, Changed, Sibling, Mutable, Fits, Total, ItemsOn, ItemsIn
<1>7. QED
  BY <1>1, <1>2, <1>3, <1>4, <1>5, <1>6

\* One row of work is written; nothing else.
LEMMA WrittenFacts ==
  ASSUME IInv, tx # NoTx, NEW i \in Members, NEW r \in Rows,
         r.list = tx.list,
         \A j \in Members : j # i => work[j].pos # r.pos,
         \A j \in Members : work[j].list = tx.list,
         Written(i, r)
  PROVE  /\ TypeOK' /\ PositionsDistinct' /\ CardWithinCapacity' /\ Others'
         /\ row' = row /\ work'[i] = r
         /\ \A j \in Items : j # i => work'[j] = work[j]
         /\ Planned' /\ tx' \in Txs /\ tx' # NoTx /\ tx'.at = tx.at + 1
         /\ tx'.place = tx.place /\ tx'.list = tx.list /\ tx'.base = tx.base
         /\ tx'.size = tx.size /\ tx'.item = tx.item /\ tx'.advanced = tx.advanced
         /\ tx'.pass = tx.pass /\ Members' = Members /\ Block' = Block
         /\ \A j \in Items : Changed(j)' <=> Changed(j)
<1>1. /\ tx \in Txs /\ Planned /\ Others /\ tx.at \in Nat /\ i \in Items
      /\ Typed(row) /\ Typed(work) /\ Distinct(row) /\ Distinct(work)
  BY OpenFacts
<1>2. row' = row /\ work' = [work EXCEPT ![i] = r] /\ tx' = [tx EXCEPT !.at = tx.at + 1]
  BY DEF Written
<1>3. Typed(work') /\ work' = [j \in Items |-> IF j = i THEN r ELSE work[j]]
  BY <1>1, <1>2, UpdateTyped
<1>4. tx.at + 1 \in Nat /\ "stage" \in {"stage", "settle"}
  BY <1>1
<1>5. /\ Planned' /\ tx' \in Txs /\ tx' # NoTx /\ tx'.at = tx.at + 1
      /\ tx'.place = tx.place /\ tx'.list = tx.list /\ tx'.base = tx.base
      /\ tx'.size = tx.size /\ tx'.item = tx.item /\ tx'.advanced = tx.advanced
      /\ tx'.pass = tx.pass /\ Members' = Members /\ Block' = Block
      /\ \A j \in Items : Changed(j)' <=> Changed(j)
  BY <1>1, <1>2, <1>4, PlanStands
<1>6. \A j \in ItemsIn(work, r.list) : j # i => work[j].pos # r.pos
  <2> SUFFICES ASSUME NEW j \in ItemsIn(work, r.list), j # i PROVE work[j].pos # r.pos
    OBVIOUS
  <2>1. CASE j \in Members
    BY <2>1
  <2>2. CASE j \notin Members
    <3>1. j \in Items /\ work[j] = row[j]
      BY <1>1, <2>2 DEF Others, ItemsIn
    <3>2. j \in ItemsIn(row, tx.list)
      BY <3>1 DEF ItemsIn
    <3>3. j = tx.item
      BY <1>1, <2>2, <3>1, <3>2 DEF Planned, Sibling
    <3>4. QED
      BY <1>1, <2>2, <3>3 DEF Planned
  <2>3. QED
    BY <2>1, <2>2
<1>7. Distinct(work')
  BY <1>1, <1>3, <1>6, PlacedDistinct
<1>8. TypeOK' /\ PositionsDistinct' /\ CardWithinCapacity'
  BY <1>1, <1>2, <1>3, <1>5, <1>7 DEF TypeOK, Typed, PositionsDistinct, Distinct, IInv,
     CardWithinCapacity, Total, ItemsOn
<1>9. Others'
  BY <1>1, <1>2, <1>3, <1>5 DEF Others
<1>10. work'[i] = r /\ \A j \in Items : j # i => work'[j] = work[j]
  BY <1>1, <1>3
<1>11. row' = row
  BY <1>2
<1>12. QED
  BY <1>5, <1>8, <1>9, <1>10, <1>11

LEMMA OpenPass ==
  ASSUME IInv, tx.pass \in {"stage", "settle"}
  PROVE  tx # NoTx
  BY DEF NoTx

LEMMA StageStep ==
  ASSUME IInv, NEW i \in Items, Stage(i)
  PROVE  IInv'
<1> DEFINE p == tx.base + tx.at
           r == [work[i] EXCEPT !.pos = p]
<1>1. tx # NoTx /\ tx.pass = "stage" /\ tx.place[i] = tx.at /\ Written(i, r)
  BY OpenPass DEF Stage
<1>2. /\ Open /\ tx \in Txs /\ Planned /\ Typed(work)
      /\ tx.at \in Nat /\ tx.size \in Nat /\ tx.base \in Nat
      /\ \A j \in Members : j \in Items /\ tx.place[j] \in Nat /\ tx.place[j] < tx.size
  BY <1>1, OpenFacts
<1>3. i \in Members
  BY <1>1, <1>2 DEF Members
<1>4. StageInv
  BY <1>1, <1>2 DEF Open
<1>5. Stored(row[i]) /\ row[i].version \in Nat /\ row[i].version > 0
  BY <1>1, <1>3, MemberRow DEF Stored
<1>6. Stored(work[i]) /\ work[i] \in Rows
  <2>1. work[i].version = row[i].version + Increment(i \in tx.advanced)
    BY <1>3, <1>4 DEF StageInv
  <2>2. Stored(work[i])
    BY <1>5, <2>1 DEF Stored, Increment
  <2>3. QED
    BY <1>2, <2>2, StoredRow
<1>7. p \in Nat /\ p <= PositionMax /\ p \in Block
  <2>1. tx.at < tx.size /\ tx.base + tx.size <= PositionMax + 1
    BY <1>1, <1>2, <1>3 DEF Planned
  <2>2. QED
    BY <1>2, <2>1, ChecklistOrderAssumption DEF Block
<1>8. r \in Rows /\ r.pos = p /\ r.list = work[i].list /\ r.version = work[i].version
  BY <1>6, <1>7, ChecklistOrderAssumption DEF Rows
<1>9. r.list = tx.list /\ r.version = row[i].version + Increment(i \in tx.advanced)
  BY <1>3, <1>4, <1>8 DEF StageInv
<1>10. ASSUME NEW j \in Members, j # i PROVE work[j].pos # p
  <2>1. tx.place[j] # tx.at
    BY <1>1, <1>2, <1>3, <1>10 DEF Planned
  <2>2. CASE tx.place[j] < tx.at
    <3>1. work[j].pos = tx.base + tx.place[j]
      BY <1>4, <2>2 DEF StageInv
    <3>2. QED
      BY <1>2, <2>2, <3>1
  <2>3. CASE ~(tx.place[j] < tx.at)
    BY <1>4, <1>7, <2>3 DEF StageInv
  <2>4. QED
    BY <2>2, <2>3
<1>11. \A j \in Members : work[j].list = tx.list
  BY <1>4 DEF StageInv
<1> HIDE DEF r
<1>12. /\ TypeOK' /\ PositionsDistinct' /\ CardWithinCapacity' /\ Others'
       /\ row' = row /\ work'[i] = r
       /\ \A j \in Items : j # i => work'[j] = work[j]
       /\ Planned' /\ tx' \in Txs /\ tx' # NoTx /\ tx'.at = tx.at + 1
       /\ tx'.place = tx.place /\ tx'.list = tx.list /\ tx'.base = tx.base
       /\ tx'.size = tx.size /\ tx'.item = tx.item /\ tx'.advanced = tx.advanced
       /\ tx'.pass = tx.pass /\ Members' = Members /\ Block' = Block
  BY <1>1, <1>3, <1>8, <1>9, <1>10, <1>11, WrittenFacts
<1>13. StageInv'
  <2> SUFFICES ASSUME NEW j \in Members
               PROVE  /\ work'[j].list = tx.list
                      /\ work'[j].version = row[j].version + Increment(j \in tx.advanced)
                      /\ IF tx.place[j] < tx.at + 1
                         THEN work'[j].pos = tx.base + tx.place[j]
                         ELSE work'[j].pos \notin Block
    BY <1>12 DEF StageInv
  <2>1. CASE j = i
    BY <1>1, <1>2, <1>8, <1>9, <1>12, <2>1
  <2>2. CASE j # i
    <3>1. work'[j] = work[j]
      BY <1>2, <1>12, <2>2
    <3>2. tx.place[j] # tx.at
      BY <1>1, <1>2, <1>3, <2>2 DEF Planned
    <3>3. tx.place[j] < tx.at + 1 <=> tx.place[j] < tx.at
      BY <1>2, <3>2
    <3>4. QED
      BY <1>4, <3>1, <3>3 DEF StageInv
  <2>3. QED
    BY <2>1, <2>2
<1>14. QED
  BY <1>1, <1>12, <1>13 DEF IInv, Open

LEMMA StagedStep ==
  ASSUME IInv, Staged
  PROVE  IInv'
<1>1. /\ tx # NoTx /\ tx.pass = "stage" /\ tx.at = tx.size /\ row' = row /\ work' = work
      /\ tx' = [tx EXCEPT !.pass = "settle", !.at = 0]
  BY OpenPass DEF Staged
<1>2. /\ Open /\ tx \in Txs /\ Planned /\ Others /\ Typed(work) /\ Typed(row)
      /\ \A j \in Members : j \in Items /\ tx.place[j] \in Nat /\ tx.place[j] < tx.size
  BY <1>1, OpenFacts
<1>3. StageInv
  BY <1>1, <1>2 DEF Open
<1>4. 0 \in Nat /\ "settle" \in {"stage", "settle"}
  OBVIOUS
<1>5. /\ Planned' /\ tx' \in Txs /\ tx' # NoTx /\ tx'.at = 0 /\ tx'.pass = "settle"
      /\ tx'.place = tx.place /\ tx'.list = tx.list /\ tx'.base = tx.base
      /\ tx'.advanced = tx.advanced /\ Members' = Members
  BY <1>1, <1>2, <1>4, PlanStands
<1>6. SettleInv'
  <2> SUFFICES ASSUME NEW j \in Members
               PROVE  /\ work[j].list = tx.list
                      /\ work[j].version = row[j].version +
                           Increment(j \in tx.advanced \/ (tx.place[j] < 0 /\ Changed(j)'))
                      /\ work[j].pos = IF tx.place[j] < 0 THEN tx.place[j]
                                       ELSE tx.base + tx.place[j]
    BY <1>1, <1>5 DEF SettleInv
  <2>1. tx.place[j] < tx.at /\ ~(tx.place[j] < 0)
    BY <1>1, <1>2
  <2>2. QED
    BY <1>3, <2>1 DEF StageInv
<1>7. TypeOK' /\ PositionsDistinct' /\ CardWithinCapacity'
  BY <1>1, <1>5 DEF IInv, TypeOK, PositionsDistinct, Distinct, CardWithinCapacity, Total,
     ItemsOn
<1>8. Others'
  BY <1>1, <1>2, <1>5 DEF Others
<1>9. QED
  BY <1>5, <1>6, <1>7, <1>8 DEF IInv, Open

LEMMA SettleStep ==
  ASSUME IInv, NEW i \in Items, Settle(i)
  PROVE  IInv'
<1> DEFINE r == [work[i] EXCEPT !.pos = tx.at,
                                !.version = IF Changed(i) THEN @ + 1 ELSE @]
<1>1. tx # NoTx /\ tx.pass = "settle" /\ tx.place[i] = tx.at /\ Written(i, r)
  BY OpenPass DEF Settle
<1>2. /\ Open /\ tx \in Txs /\ Planned /\ Typed(work)
      /\ tx.at \in Nat /\ tx.size \in Nat /\ tx.base \in Nat
      /\ \A j \in Members : j \in Items /\ tx.place[j] \in Nat /\ tx.place[j] < tx.size
  BY <1>1, OpenFacts
<1>3. i \in Members
  BY <1>1, <1>2 DEF Members
<1>4. SettleInv
  BY <1>1, <1>2 DEF Open
<1>5. Stored(row[i]) /\ row[i].version \in Nat /\ row[i].version > 0
  BY <1>1, <1>3, MemberRow DEF Stored
<1>6. work[i].version = row[i].version + Increment(i \in tx.advanced)
  <2>1. ~(tx.place[i] < tx.at)
    BY <1>1, <1>2
  <2>2. QED
    BY <1>3, <1>4, <2>1 DEF SettleInv
<1>7. Stored(work[i]) /\ work[i] \in Rows /\ work[i].version \in 1 .. MutateMax + 1
  <2>1. Stored(work[i])
    BY <1>5, <1>6 DEF Stored, Increment
  <2>2. QED
    BY <1>2, <2>1, StoredRow
<1>8. tx.at \in 0 .. PositionMax
  <2>1. tx.at < tx.size /\ tx.base + tx.size <= PositionMax + 1
    BY <1>1, <1>2, <1>3 DEF Planned
  <2>2. QED
    BY <1>2, <2>1, ChecklistOrderAssumption
<1>9. (IF Changed(i) THEN work[i].version + 1 ELSE work[i].version)
        = row[i].version + Increment(i \in tx.advanced \/ Changed(i))
  <2>1. Changed(i) => i \notin tx.advanced
    BY DEF Changed
  <2>2. QED
    BY <1>5, <1>6, <2>1 DEF Increment
<1>10. (IF Changed(i) THEN work[i].version + 1 ELSE work[i].version) \in 1 .. MutateMax + 1
  <2>1. CASE Changed(i)
    <3>1. row[i].version <= MutateMax /\ i \notin tx.advanced
      BY <1>2, <1>3, <2>1 DEF Planned, Changed
    <3>2. work[i].version = row[i].version
      BY <1>5, <1>6, <3>1 DEF Increment
    <3>3. QED
      BY <1>5, <2>1, <3>1, <3>2, ChecklistOrderAssumption
  <2>2. CASE ~Changed(i)
    BY <1>7, <2>2
  <2>3. QED
    BY <2>1, <2>2
<1>11. /\ r \in Rows /\ r.pos = tx.at /\ r.list = work[i].list
       /\ r.version = row[i].version + Increment(i \in tx.advanced \/ Changed(i))
  BY <1>7, <1>8, <1>9, <1>10 DEF Rows
<1>12. r.list = tx.list
  BY <1>3, <1>4, <1>11 DEF SettleInv
<1>13. ASSUME NEW j \in Members, j # i PROVE work[j].pos # tx.at
  <2>1. tx.place[j] # tx.at
    BY <1>1, <1>2, <1>3, <1>13 DEF Planned
  <2>2. work[j].pos = IF tx.place[j] < tx.at THEN tx.place[j] ELSE tx.base + tx.place[j]
    BY <1>4 DEF SettleInv
  <2>3. QED
    BY <1>2, <2>1, <2>2
<1>14. \A j \in Members : work[j].list = tx.list
  BY <1>4 DEF SettleInv
<1> HIDE DEF r
<1>15. /\ TypeOK' /\ PositionsDistinct' /\ CardWithinCapacity' /\ Others'
       /\ row' = row /\ work'[i] = r
       /\ \A j \in Items : j # i => work'[j] = work[j]
       /\ Planned' /\ tx' \in Txs /\ tx' # NoTx /\ tx'.at = tx.at + 1
       /\ tx'.place = tx.place /\ tx'.list = tx.list /\ tx'.base = tx.base
       /\ tx'.size = tx.size /\ tx'.item = tx.item /\ tx'.advanced = tx.advanced
       /\ tx'.pass = tx.pass /\ Members' = Members /\ Block' = Block
       /\ \A j \in Items : Changed(j)' <=> Changed(j)
  BY <1>1, <1>3, <1>11, <1>12, <1>13, <1>14, WrittenFacts
<1>16. SettleInv'
  <2> SUFFICES ASSUME NEW j \in Members
               PROVE  /\ work'[j].list = tx.list
                      /\ work'[j].version = row[j].version +
                           Increment(j \in tx.advanced \/ (tx.place[j] < tx.at + 1 /\ Changed(j)))
                      /\ work'[j].pos = IF tx.place[j] < tx.at + 1 THEN tx.place[j]
                                        ELSE tx.base + tx.place[j]
    BY <1>2, <1>15 DEF SettleInv
  <2>1. CASE j = i
    <3>1. tx.place[i] < tx.at + 1
      BY <1>1, <1>2
    <3>2. QED
      BY <1>1, <1>11, <1>12, <1>15, <2>1, <3>1
  <2>2. CASE j # i
    <3>1. work'[j] = work[j]
      BY <1>2, <1>15, <2>2
    <3>2. tx.place[j] # tx.at
      BY <1>1, <1>2, <1>3, <2>2 DEF Planned
    <3>3. tx.place[j] < tx.at + 1 <=> tx.place[j] < tx.at
      BY <1>2, <3>2
    <3>4. QED
      BY <1>4, <3>1, <3>3 DEF SettleInv
  <2>3. QED
    BY <2>1, <2>2
<1>17. QED
  BY <1>1, <1>15, <1>16 DEF IInv, Open

\* What a finished numbering has made of its checklist.
LEMMA CommitFacts ==
  ASSUME IInv, Commit
  PROVE  /\ tx # NoTx /\ row' = work
         /\ \A j \in Members :
              /\ row'[j].list = tx.list /\ row'[j].pos = tx.place[j]
              /\ row'[j].version = row[j].version + Increment(j \in tx.advanced \/ Changed(j))
         /\ \A j \in Items \ Members : row'[j] = row[j]
<1>1. tx # NoTx /\ row' = work /\ tx.pass = "settle" /\ tx.at = tx.size
  BY OpenPass DEF Commit
<1>2. SettleInv /\ Others /\ \A j \in Members : tx.place[j] < tx.at
  BY <1>1, OpenFacts DEF Open
<1>3. QED
  BY <1>1, <1>2 DEF SettleInv, Others

LEMMA CommitStep ==
  ASSUME IInv, Commit
  PROVE  IInv'
<1>1. /\ tx # NoTx /\ row' = work /\ work' = work /\ tx' = NoTx
      /\ \A j \in Members : row'[j].list = tx.list
      /\ \A j \in Items \ Members : row'[j] = row[j]
  BY CommitFacts DEF Commit
<1>2. /\ Planned /\ Typed(work) /\ Distinct(work) /\ tx.list \in Checklists /\ tx.item \in Items
  BY <1>1, OpenFacts DEF Planned, Members
<1>3. Within(work)
  <2>1. Mutable(tx.item) /\ Fits(tx.item, tx.list) /\ tx.item \in Members
    BY <1>2 DEF Planned
  <2>2. ASSUME NEW j \in Items, j # tx.item, Stored(work[j])
        PROVE  Stored(row[j]) /\ work[j].list = row[j].list
    <3>1. CASE j \in Members
      BY <1>1, <2>2, <3>1, MemberRow DEF ItemsIn
    <3>2. CASE j \notin Members
      BY <1>1, <2>2, <3>2
    <3>3. QED
      BY <3>1, <3>2
  <2>3. work[tx.item].list = tx.list
    BY <1>1, <2>1
  <2>4. QED
    BY <1>2, <2>1, <2>2, <2>3, MovedWithin
<1>4. TypeOK' /\ PositionsDistinct' /\ CardWithinCapacity'
  BY <1>1, <1>2, <1>3 DEF TypeOK, Typed, PositionsDistinct, Distinct, CardWithinCapacity,
     Within, Total, ItemsOn
<1>5. QED
  BY <1>1, <1>4 DEF IInv

LEMMA RollbackStep ==
  ASSUME IInv, Rollback
  PROVE  IInv'
<1>1. row' = row /\ work' = row /\ tx' = NoTx
  BY DEF Rollback
<1>2. QED
  BY <1>1 DEF IInv, TypeOK, PositionsDistinct, Distinct, CardWithinCapacity, Total, ItemsOn

LEMMA InitInv == Init => IInv
<1> SUFFICES ASSUME Init PROVE IInv
  OBVIOUS
<1>1. row = [i \in Items |-> NoRow] /\ work = row /\ tx = NoTx
  BY DEF Init
<1>2. \A i \in Items : ~Stored(row[i])
  BY <1>1, NoRowNotStored
<1>3. TypeOK /\ PositionsDistinct
  BY <1>1, <1>2 DEF TypeOK, PositionsDistinct, Distinct
<1>4. \A c : Total(row, c) = 0
  <2> TAKE c
  <2>1. ItemsOn(row, c) = {}
    BY <1>2 DEF ItemsOn
  <2>2. QED
    BY <2>1, FS_EmptySet DEF Total
<1>5. CardWithinCapacity
  BY <1>4, ChecklistOrderAssumption DEF CardWithinCapacity
<1>6. QED
  BY <1>1, <1>3, <1>5 DEF IInv

LEMMA NextInv == IInv /\ [Next]_vars => IInv'
<1> SUFFICES ASSUME IInv, [Next]_vars PROVE IInv'
  OBVIOUS
<1>1. \A to \in 0 .. Cardinality(Items) - 1 : to \in Nat
  BY ChecklistOrderAssumption, FS_CardinalityType
<1>2. CASE \E i \in Items : RenameItem(i) \/ DeleteItem(i) \/ Stage(i) \/ Settle(i)
  BY <1>2, RenameItemStep, DeleteItemStep, StageStep, SettleStep
<1>3. CASE \E i \in Items, k \in Checklists : AddItem(k, i) \/ MoveToEnd(i, k)
  BY <1>3, AddItemStep, MoveToEndStep
<1>4. CASE \E i \in Items, to \in 0 .. Cardinality(Items) - 1 :
             Reorder(i, to) \/ \E k \in Checklists : MoveTo(i, k, to)
  BY <1>1, <1>4, ReorderStep, MoveToStep
<1>5. CASE \E k \in Checklists :
             DeleteChecklist(k) \/ \E batch \in SUBSET Items \ {{}} : AddItems(k, batch)
  BY <1>5, DeleteChecklistStep, AddItemsStep
<1>6. CASE Staged \/ Commit \/ Rollback
  BY <1>6, StagedStep, CommitStep, RollbackStep
<1>7. CASE UNCHANGED vars
  BY <1>7 DEF vars, IInv, TypeOK, PositionsDistinct, Distinct, CardWithinCapacity, Total,
     ItemsOn, ItemsIn, Open, Planned, Others, StageInv, SettleInv, Members, Block, Sibling,
     Changed, Mutable, Fits
<1>8. QED
  BY <1>2, <1>3, <1>4, <1>5, <1>6, <1>7 DEF Next
-----------------------------------------------------------------------------
(* The committed rows change only in these ways. *)

LEMMA RowChanges ==
  ASSUME [Next]_vars
  PROVE  row' = row \/ tx = NoTx \/ Commit
<1>1. CASE \E i \in Items : RenameItem(i) \/ DeleteItem(i)
  BY <1>1 DEF RenameItem, DeleteItem, Atomically
<1>2. CASE \E i \in Items : Stage(i) \/ Settle(i)
  BY <1>2 DEF Stage, Settle, Written
<1>3. CASE \E i \in Items, k \in Checklists : AddItem(k, i) \/ MoveToEnd(i, k)
  BY <1>3 DEF AddItem, MoveToEnd, Movable, Atomically
<1>4. CASE \E i \in Items, to \in 0 .. Cardinality(Items) - 1 :
             Reorder(i, to) \/ \E k \in Checklists : MoveTo(i, k, to)
  BY <1>4 DEF Reorder, MoveTo, Movable
<1>5. CASE \E k \in Checklists :
             DeleteChecklist(k) \/ \E batch \in SUBSET Items \ {{}} : AddItems(k, batch)
  BY <1>5 DEF DeleteChecklist, AddItems, Atomically
<1>6. CASE Staged \/ Commit \/ Rollback
  BY <1>6 DEF Staged, Rollback
<1>7. CASE UNCHANGED vars
  BY <1>7 DEF vars
<1>8. QED
  BY <1>1, <1>2, <1>3, <1>4, <1>5, <1>6, <1>7 DEF Next

LEMMA CommittedMovesLand ==
  ASSUME IInv, Commit
  PROVE  /\ row'[tx.item].list = tx.list /\ row'[tx.item].pos = tx.place[tx.item]
         /\ \A j \in Items : Stored(row'[j]) /\ row'[j].list = tx.list => row'[j].pos < tx.size
         /\ \A i, j \in Items \ {tx.item} : KeepsOrder(i, j)
<1>1. /\ tx # NoTx
      /\ \A j \in Members : row'[j].list = tx.list /\ row'[j].pos = tx.place[j]
      /\ \A j \in Items \ Members : row'[j] = row[j]
  BY CommitFacts
<1>2. Planned /\ \A j \in Members : tx.place[j] < tx.size
  BY <1>1, OpenFacts
<1>3. tx.item \in Members
  BY <1>2 DEF Planned
<1>4. ASSUME NEW j \in Items, Stored(row'[j]), row'[j].list = tx.list
      PROVE  row'[j].pos < tx.size
  <2>1. CASE j \in Members
    BY <1>1, <1>2, <2>1
  <2>2. CASE j \notin Members
    <3>1. j \in ItemsIn(row, tx.list) /\ j # tx.item
      BY <1>1, <1>3, <1>4, <2>2 DEF ItemsIn
    <3>2. QED
      BY <1>2, <2>2, <3>1 DEF Planned, Sibling
  <2>3. QED
    BY <2>1, <2>2
<1>5. ASSUME NEW i \in Items \ {tx.item}, NEW j \in Items \ {tx.item} PROVE KeepsOrder(i, j)
  <2> SUFFICES ASSUME Stored(row[i]), Stored(row[j]), row[i].list = row[j].list
               PROVE  /\ row'[i].list = row'[j].list
                      /\ row[i].pos < row[j].pos <=> row'[i].pos < row'[j].pos
    BY DEF KeepsOrder
  <2>1. CASE row[i].list = tx.list
    <3>1. Sibling(i) /\ Sibling(j)
      BY <1>2, <2>1 DEF Planned, ItemsIn
    <3>2. i \in Members /\ j \in Members
      BY <3>1 DEF Sibling
    <3>3. row[i].pos < row[j].pos <=> tx.place[i] < tx.place[j]
      BY <1>2, <3>1, <3>2 DEF Planned
    <3>4. QED
      BY <1>1, <3>2, <3>3
  <2>2. CASE row[i].list # tx.list
    <3>1. i \notin Members /\ j \notin Members
      BY <1>1, <2>2, MemberRow DEF ItemsIn
    <3>2. QED
      BY <1>1, <3>1
  <2>3. QED
    BY <2>1, <2>2
<1>6. QED
  BY <1>1, <1>3, <1>4, <1>5

LEMMA SameRow ==
  ASSUME NEW r \in Rows, NEW s \in Rows,
         r.list = s.list, r.pos = s.pos, r.version = s.version
  PROVE  r = s
<1>1. r = [list |-> r.list, pos |-> r.pos, version |-> r.version]
  BY DEF Rows
<1>2. s = [list |-> s.list, pos |-> s.pos, version |-> s.version]
  BY DEF Rows
<1>3. QED
  BY <1>1, <1>2

LEMMA CommittedVersions ==
  ASSUME IInv, Commit, NEW i \in Items, Stored(row[i]), row'[i].version = row[i].version
  PROVE  row'[i] = row[i]
<1>1. tx # NoTx /\ row' = work
  BY CommitFacts
<1>2. CASE i \notin Members
  BY <1>2, CommitFacts
<1>3. CASE i \in Members
  <2>1. /\ row'[i].list = tx.list /\ row'[i].pos = tx.place[i]
        /\ row'[i].version = row[i].version + Increment(i \in tx.advanced \/ Changed(i))
    BY <1>3, CommitFacts
  <2>2. row[i] \in Rows /\ row[i].version \in Nat /\ Planned
    BY <1>1, <1>3, MemberRow, OpenFacts
  <2>3. i \notin tx.advanced /\ ~Changed(i)
    BY <2>1, <2>2 DEF Increment
  <2>4. row[i].pos = tx.place[i]
    BY <2>3 DEF Changed
  <2>5. row[i].list = tx.list
    BY <1>1, <1>3, <2>2, <2>3, MemberRow DEF Planned, ItemsIn
  <2>6. row'[i] \in Rows
    <3>1. Stored(row'[i])
      BY DEF Stored
    <3>2. Typed(work)
      BY <1>1, OpenFacts
    <3>3. QED
      BY <1>1, <3>1, <3>2, StoredRow
  <2>7. QED
    BY <2>1, <2>2, <2>4, <2>5, <2>6, SameRow
<1>4. QED
  BY <1>2, <1>3

\* A transaction of one statement leaves a row alone or changes its version.
LEMMA AtomicVersions ==
  ASSUME TypeOK, tx = NoTx, [Next]_vars, NEW i \in Items, Stored(row[i]),
         row'[i].version = row[i].version
  PROVE  row'[i] = row[i]
<1>0. row \in [Items -> Rows \cup {NoRow}] /\ row[i].version \in Nat /\ row[i].version # 0
  BY StoredRow DEF TypeOK, Typed, Stored
<1>1. CASE \E j \in Items : RenameItem(j)
  <2>1. PICK j \in Items : row' = [row EXCEPT ![j] = [row[j] EXCEPT !.version = @ + 1]] /\ Mutable(j)
    BY <1>1 DEF RenameItem, Atomically
  <2>2. j # i
    <3>1. SUFFICES ASSUME j = i PROVE FALSE
      OBVIOUS
    <3>2. row[i] \in Rows
      BY <1>0, StoredRow DEF Typed
    <3>3. row'[i] = [row[i] EXCEPT !.version = @ + 1]
      BY <1>0, <2>1, <3>1
    <3>4. row'[i].version = row[i].version + 1
      BY <3>2, <3>3 DEF Rows
    <3>5. QED
      BY <1>0, <3>4
  <2>3. QED
    BY <1>0, <2>1, <2>2
<1>2. CASE \E j \in Items : DeleteItem(j)
  BY <1>0, <1>2 DEF DeleteItem, Atomically, NoRow
<1>3. CASE \E k \in Checklists : DeleteChecklist(k)
  BY <1>0, <1>3 DEF DeleteChecklist, Atomically, NoRow
<1>4. CASE \E k \in Checklists, j \in Items : AddItem(k, j)
  BY <1>0, <1>4 DEF AddItem, Atomically
<1>5. CASE \E k \in Checklists, batch \in SUBSET Items \ {{}} : AddItems(k, batch)
  <2>1. PICK k \in Checklists, batch \in SUBSET Items \ {{}} : AddItems(k, batch)
    BY <1>5
  <2>2. i \notin batch
    BY <2>1 DEF AddItems
  <2>3. QED
    BY <2>1, <2>2 DEF AddItems, Atomically
<1>6. CASE \E k \in Checklists, j \in Items : MoveToEnd(j, k)
  <2>1. PICK k \in Checklists, j \in Items : MoveToEnd(j, k)
    BY <1>6
  <2>2. PICK p \in Starts(row, k) :
          row' = [row EXCEPT ![j] = [list |-> k, pos |-> p, version |-> row[j].version + 1]]
    BY <2>1 DEF MoveToEnd, Atomically, MovedTo
  <2>3. j # i
    BY <1>0, <2>2
  <2>4. QED
    BY <1>0, <2>2, <2>3
<1>8. tx.pass \notin {"stage", "settle"}
  BY DEF NoTx
<1>9. CASE \E j \in Items : Stage(j) \/ Settle(j)
  BY <1>8, <1>9 DEF Stage, Settle
<1>10. CASE Staged \/ Commit \/ Rollback
  BY <1>8, <1>10 DEF Staged, Commit, Rollback
<1>11. CASE \E j \in Items, to \in 0 .. Cardinality(Items) - 1 :
              Reorder(j, to) \/ \E k \in Checklists : MoveTo(j, k, to)
  <2>1. row' = row
    BY <1>11 DEF Reorder, MoveTo, WriteOrder
  <2>2. QED
    BY <2>1
<1>12. CASE UNCHANGED vars
  BY <1>12 DEF vars
<1>13. QED
  BY <1>1, <1>2, <1>3, <1>4, <1>5, <1>6, <1>9, <1>10, <1>11, <1>12 DEF Next
-----------------------------------------------------------------------------
LEMMA Invariance == Spec => []IInv
  BY InitInv, NextInv, PTL DEF Spec

\* Rows keep their shape: positions stay in 0 .. PositionMax and versions
\* readable, wherever a free block lies.
THEOREM TypeCorrect == Spec => []TypeOK
<1>1. IInv => TypeOK
  BY DEF IInv
<1>2. QED
  BY <1>1, Invariance, PTL

\* No statement meets UNIQUE(checklist_id, position).
THEOREM PositionsAlwaysDistinct == Spec => []PositionsDistinct
<1>1. IInv => PositionsDistinct
  BY DEF IInv
<1>2. QED
  BY <1>1, Invariance, PTL

\* No card ever holds more items than Capacity.
THEOREM CapacityHolds == Spec => []CardWithinCapacity
<1>1. IInv => CardWithinCapacity
  BY DEF IInv
<1>2. QED
  BY <1>1, Invariance, PTL

\* An item that is put elsewhere, or moved over, has its next version.
THEOREM VersionsTell == Spec => UnversionedUntouched
<1>1. IInv /\ [Next]_vars =>
        [\A i \in Items :
           Stored(row[i]) /\ row'[i].version = row[i].version => row'[i] = row[i]]_vars
  <2> SUFFICES ASSUME IInv, [Next]_vars, NEW i \in Items, Stored(row[i]),
                      row'[i].version = row[i].version
               PROVE  row'[i] = row[i]
    OBVIOUS
  <2>1. TypeOK
    BY DEF IInv
  <2>2. QED
    BY <2>1, RowChanges, AtomicVersions, CommittedVersions
<1>2. QED
  BY <1>1, Invariance, PTL DEF Spec, UnversionedUntouched

\* A move that names a place puts its item there and nothing else.
THEOREM MovesLand == Spec => MovesLandExactly
<1>1. IInv /\ [Next]_vars =>
        [tx # NoTx /\ row' # row =>
          /\ row'[tx.item].list = tx.list /\ row'[tx.item].pos = tx.place[tx.item]
          /\ \A j \in Items : Stored(row'[j]) /\ row'[j].list = tx.list
               => row'[j].pos < tx.size
          /\ \A i, j \in Items \ {tx.item} : KeepsOrder(i, j)]_vars
  BY RowChanges, CommittedMovesLand
<1>2. QED
  BY <1>1, Invariance, PTL DEF Spec, MovesLandExactly
=============================================================================
