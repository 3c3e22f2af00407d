----------------------- MODULE HierarchyOrder_proofs ------------------------
(***************************************************************************)
(* Proofs about HierarchyOrder, for every number of lists and desktop      *)
(* processes.  The inductive invariant says that committed positions are   *)
(* exactly 0, 1, 2, ... (Contiguous), what every row must hold while the   *)
(* two statements of a move run (Planned), and that the process that moves *)
(* shows the committed order (MoverIsCurrent).                             *)
(***************************************************************************)
EXTENDS HierarchyOrder, FiniteSetTheorems, FunctionTheorems, SequenceTheorems, TLAPS

\* The number of lists is a natural number, not above that of identities.
LEMMA CountIsNat ==
  IsFiniteSet(Rows) /\ Count \in Nat /\ Count <= Cardinality(Items)
  /\ Cardinality(Items) \in Nat /\ Cardinality(Items) <= Shift
<1>1. Rows \in SUBSET Items
  BY DEF Rows
<1>2. IsFiniteSet(Rows) /\ Cardinality(Rows) <= Cardinality(Items)
  BY <1>1, HierarchyOrderAssumption, FS_Subset
<1> QED BY <1>2, HierarchyOrderAssumption, FS_CardinalityType DEF Count

\* Committed positions are 0 .. Count - 1, each owned by one row.
Contiguous ==
  /\ \A i \in Rows : pos[i] \in 0 .. Count - 1
  /\ \A p \in 0 .. Count - 1 : \E i \in Rows : pos[i] = p
  /\ \A i, j \in Rows : pos[i] = pos[j] => i = j

\* The row set below a position has that position's cardinality.
LEMMA BeforeCount ==
  ASSUME Contiguous, NEW i \in Rows
  PROVE  Cardinality(Before(i)) = pos[i]
<1> DEFINE S == Before(i)
           T == 0 .. pos[i] - 1
           f == [j \in S |-> pos[j]]
<1>1. pos[i] \in 0 .. Count - 1 /\ Count \in Nat /\ pos[i] \in Nat
  BY CountIsNat DEF Contiguous
<1>2. S \subseteq Rows /\ IsFiniteSet(S)
  BY CountIsNat, FS_Subset DEF Before
<1>3. \A j \in S : pos[j] \in T
  BY <1>1, <1>2, CountIsNat DEF Before, Contiguous
<1>4. \A p \in T : \E j \in S : pos[j] = p
  <2> SUFFICES ASSUME NEW p \in T PROVE \E j \in S : pos[j] = p
    OBVIOUS
  <2>1. p \in 0 .. Count - 1 /\ p < pos[i]
    BY <1>1
  <2>2. PICK j \in Rows : pos[j] = p
    BY <2>1 DEF Contiguous
  <2> QED BY <2>1, <2>2 DEF Before
<1>5. \A j, k \in S : pos[j] = pos[k] => j = k
  BY <1>2 DEF Contiguous
<1>6. Cardinality(T) = pos[i]
  BY <1>1, FS_Interval
<1> HIDE DEF S, T
<1>7. f \in Surjection(S, T) /\ f \in Injection(S, T)
  BY <1>3, <1>4, <1>5 DEF Surjection, Injection, IsInjective
<1> HIDE DEF f
<1>8. Cardinality(T) = Cardinality(S)
  BY <1>2, <1>7, FS_Surjection
<1> QED BY <1>6, <1>8 DEF S

\* The n-th list of the snapshot is the one at position n - 1.
LEMMA NthIsAt ==
  ASSUME Contiguous, NEW n \in 1 .. Count
  PROVE  Nth(n) \in Rows /\ pos[Nth(n)] = n - 1
<1>1. PICK i \in Rows : pos[i] = n - 1
  <2>1. n - 1 \in 0 .. Count - 1
    BY CountIsNat
  <2> QED BY <2>1 DEF Contiguous
<1>2. Cardinality(Before(i)) = n - 1
  BY <1>1, BeforeCount
<1>3. Nth(n) \in Rows /\ Cardinality(Before(Nth(n))) = n - 1
  BY <1>2 DEF Nth
<1> QED BY <1>3, BeforeCount

LEMMA SnapshotIs ==
  ASSUME Contiguous
  PROVE  /\ DOMAIN Snapshot = 1 .. Count
         /\ \A n \in 1 .. Count :
              /\ Snapshot[n] = [item |-> Nth(n), sort |-> n - 1]
              /\ Nth(n) \in Rows /\ pos[Nth(n)] = n - 1
         /\ Snapshot \in Seq(Entries) /\ Len(Snapshot) = Count
<1>1. \A n \in 1 .. Count : Nth(n) \in Rows /\ pos[Nth(n)] = n - 1
  BY NthIsAt
<1>2. Snapshot = [n \in 1 .. Count |-> [item |-> Nth(n), sort |-> pos[Nth(n)]]]
  BY DEF Snapshot
<1>3. \A n \in 1 .. Count : [item |-> Nth(n), sort |-> pos[Nth(n)]] \in Entries
  BY <1>1, CountIsNat DEF Entries, Rows
<1>4. Snapshot \in [1 .. Count -> Entries]
  BY <1>2, <1>3
<1>5. Snapshot \in Seq(Entries) /\ Len(Snapshot) = Count
  BY <1>4, CountIsNat
<1> QED BY <1>1, <1>2, <1>5
\* A sequence that shows the lists in the order of their positions is the
\* snapshot; also in the next state.
IsOrder(s) ==
  /\ s = [n \in 1 .. Count |-> [item |-> s[n].item, sort |-> n - 1]]
  /\ \A n \in 1 .. Count : s[n].item \in Rows /\ pos[s[n].item] = n - 1
OrderIsUnique == Contiguous => \A s : IsOrder(s) => s = Snapshot
SnapshotType == Contiguous => Snapshot \in Seq(Entries)

LEMMA OrderIsUniqueHere == OrderIsUnique
<1> SUFFICES ASSUME Contiguous, NEW s, IsOrder(s) PROVE s = Snapshot
  BY DEF OrderIsUnique
<1>1. /\ s = [n \in 1 .. Count |-> [item |-> s[n].item, sort |-> n - 1]]
      /\ \A n \in 1 .. Count : s[n].item \in Rows /\ pos[s[n].item] = n - 1
  BY DEF IsOrder
<1>2. /\ \A n \in 1 .. Count : Nth(n) \in Rows /\ pos[Nth(n)] = n - 1
  BY NthIsAt
<1>3. \A n \in 1 .. Count : s[n].item = Nth(n)
  BY <1>1, <1>2 DEF Contiguous
<1>4. Snapshot = [n \in 1 .. Count |-> [item |-> Nth(n), sort |-> pos[Nth(n)]]]
  BY DEF Snapshot
<1>5. \A n \in 1 .. Count :
        [item |-> s[n].item, sort |-> n - 1] = [item |-> Nth(n), sort |-> pos[Nth(n)]]
  BY <1>2, <1>3
<1> QED BY <1>1, <1>4, <1>5

LEMMA OrderIsUniqueNext == OrderIsUnique'
BY OrderIsUniqueHere, PTL

LEMMA SnapshotTypeHere == SnapshotType
BY SnapshotIs DEF SnapshotType

LEMMA SnapshotTypeNext == SnapshotType'
BY SnapshotTypeHere, PTL
-----------------------------------------------------------------------------
(* The inductive invariant. *)

\* What every row holds while a move runs.
Planned ==
  IF tx = NoTx THEN work = pos
  ELSE /\ tx \in Txs
       /\ tx.item \in Rows /\ version[tx.item] <= MutateMax
       /\ tx.old = pos[tx.item] /\ tx.target \in 0 .. Count - 1
       /\ tx.done \subseteq Rows
       /\ \A i \in Rows :
            /\ tx.stage = "shift" =>
                 work[i] = IF i \in tx.done THEN pos[i] + Shift ELSE pos[i]
            /\ tx.stage = "place" =>
                 work[i] = IF i \in tx.done THEN Placed(i, pos[i]) ELSE pos[i] + Shift

\* The process that moves a list shows the committed order.
MoverIsCurrent == tx # NoTx /\ tx.by \in Clients => cache[tx.by] = Snapshot

IInv == TypeOK /\ Contiguous /\ Planned /\ MoverIsCurrent

\* What a move makes of the committed positions: they are contiguous again,
\* the list is where it was sent, the others keep their order.
LEMMA PlacedPositions ==
  ASSUME Contiguous, NEW o \in 0 .. Count - 1, NEW t \in 0 .. Count - 1,
         tx.old = o, tx.target = t, tx.item \in Rows, pos[tx.item] = o
  PROVE  /\ \A i \in Rows : Placed(i, pos[i]) \in 0 .. Count - 1
         /\ \A p \in 0 .. Count - 1 : \E i \in Rows : Placed(i, pos[i]) = p
         /\ \A i, j \in Rows : Placed(i, pos[i]) = Placed(j, pos[j]) => i = j
         /\ Placed(tx.item, o) = t
         /\ \A i, j \in Rows \ {tx.item} :
              pos[i] < pos[j] <=> Placed(i, pos[i]) < Placed(j, pos[j])
<1>0. Count \in Nat
  BY CountIsNat
<1>1. \A i \in Rows : pos[i] \in 0 .. Count - 1
  BY DEF Contiguous
<1>2. \A i \in Rows : i # tx.item => pos[i] # o
  BY DEF Contiguous
<1>3. Placed(tx.item, o) = t
  BY DEF Placed
<1>4. ASSUME NEW i \in Rows, i # tx.item
      PROVE  /\ t <= pos[i] /\ pos[i] < o => Placed(i, pos[i]) = pos[i] + 1
             /\ o < pos[i] /\ pos[i] <= t => Placed(i, pos[i]) = pos[i] - 1
             /\ ~(t <= pos[i] /\ pos[i] < o) /\ ~(o < pos[i] /\ pos[i] <= t)
                  => Placed(i, pos[i]) = pos[i]
  BY <1>0, <1>1, <1>4 DEF Placed
<1>5. ASSUME NEW i \in Rows, i # tx.item
      PROVE  Placed(i, pos[i]) \in 0 .. Count - 1 /\ Placed(i, pos[i]) # t
  BY <1>0, <1>1, <1>2, <1>4, <1>5
<1>6. ASSUME NEW i \in Rows, NEW j \in Rows, i # tx.item, j # tx.item
      PROVE  pos[i] < pos[j] <=> Placed(i, pos[i]) < Placed(j, pos[j])
  BY <1>0, <1>1, <1>2, <1>4, <1>6
<1>7. ASSUME NEW i \in Rows, NEW j \in Rows, Placed(i, pos[i]) = Placed(j, pos[j])
      PROVE  i = j
  <2>1. CASE i = tx.item \/ j = tx.item
    BY <1>3, <1>5, <1>7, <2>1
  <2>2. CASE i # tx.item /\ j # tx.item
    <3>1. ~(pos[i] < pos[j]) /\ ~(pos[j] < pos[i])
      BY <1>0, <1>5, <1>6, <1>7, <2>2
    <3>2. pos[i] = pos[j]
      BY <1>0, <1>1, <3>1
    <3> QED BY <3>2 DEF Contiguous
  <2> QED BY <2>1, <2>2
<1>8. ASSUME NEW p \in 0 .. Count - 1
      PROVE  \E i \in Rows : Placed(i, pos[i]) = p
  <2>1. CASE p = t
    BY <1>3, <2>1
  <2>2. CASE p # t
    <3> DEFINE m == IF t < p /\ p <= o THEN p - 1
                    ELSE IF o <= p /\ p < t THEN p + 1 ELSE p
    <3>1. m \in 0 .. Count - 1 /\ m # o
      BY <1>0, <2>2
    <3>2. PICK i \in Rows : pos[i] = m
      BY <3>1 DEF Contiguous
    <3>3. i # tx.item
      BY <3>1, <3>2
    <3>4. Placed(i, pos[i]) = p
      BY <1>0, <1>4, <2>2, <3>1, <3>2, <3>3
    <3> QED BY <3>4
  <2> QED BY <2>1, <2>2
<1>9. \A i \in Rows : Placed(i, pos[i]) \in 0 .. Count - 1
  BY <1>3, <1>5
<1> QED BY <1>3, <1>6, <1>7, <1>8, <1>9

\* No update of a row meets the position of another row.
LEMMA PlannedDistinct == IInv => PositionsDistinct
<1> SUFFICES ASSUME IInv, NEW i \in Rows, NEW j \in Rows, work[i] = work[j]
             PROVE  i = j
  BY DEF PositionsDistinct
<1>1. /\ Contiguous /\ Planned
      /\ Count \in Nat /\ Shift \in Nat /\ Count <= Shift
  BY CountIsNat, HierarchyOrderAssumption DEF IInv
<1>2. /\ pos[i] \in 0 .. Count - 1 /\ pos[j] \in 0 .. Count - 1
      /\ pos[i] = pos[j] => i = j
  BY <1>1 DEF Contiguous
<1>3. CASE tx = NoTx
  BY <1>1, <1>2, <1>3 DEF Planned
<1>4. CASE tx # NoTx /\ tx.stage = "shift"
  <2>1. /\ work[i] = IF i \in tx.done THEN pos[i] + Shift ELSE pos[i]
        /\ work[j] = IF j \in tx.done THEN pos[j] + Shift ELSE pos[j]
    BY <1>1, <1>4 DEF Planned
  <2>2. pos[i] \in Nat /\ pos[j] \in Nat /\ pos[i] < Shift /\ pos[j] < Shift
    BY <1>1, <1>2
  <2> DEFINE a == pos[i]
             b == pos[j]
  <2>3. /\ a \in Nat /\ b \in Nat /\ a < Shift /\ b < Shift
        /\ work[i] = a + Shift \/ work[i] = a
        /\ work[j] = b + Shift \/ work[j] = b
    BY <2>1, <2>2
  <2>4. a = b => i = j
    BY <1>2
  <2> HIDE DEF a, b
  <2>5. work[i] = work[j]
    OBVIOUS
  <2> QED BY <1>1, <2>3, <2>4, <2>5
<1>5. CASE tx # NoTx /\ tx.stage = "place"
  <2>1. /\ work[i] = IF i \in tx.done THEN Placed(i, pos[i]) ELSE pos[i] + Shift
        /\ work[j] = IF j \in tx.done THEN Placed(j, pos[j]) ELSE pos[j] + Shift
    BY <1>1, <1>5 DEF Planned
  <2>2. /\ tx.item \in Rows /\ tx.old = pos[tx.item] /\ tx.target \in 0 .. Count - 1
        /\ tx.old \in 0 .. Count - 1
    BY <1>1, <1>5 DEF Planned, Contiguous
  <2>3. /\ Placed(i, pos[i]) \in 0 .. Count - 1 /\ Placed(j, pos[j]) \in 0 .. Count - 1
        /\ Placed(i, pos[i]) = Placed(j, pos[j]) => i = j
    BY <1>1, <2>2, PlacedPositions
  <2> DEFINE a == pos[i]
             b == pos[j]
             aa == Placed(i, a)
             bb == Placed(j, b)
  <2>4. /\ a \in 0 .. Count - 1 /\ b \in 0 .. Count - 1
        /\ aa \in 0 .. Count - 1 /\ bb \in 0 .. Count - 1
        /\ work[i] = a + Shift \/ work[i] = aa
        /\ work[j] = b + Shift \/ work[j] = bb
    BY <1>2, <2>1, <2>3
  <2>5. (a = b => i = j) /\ (aa = bb => i = j)
    BY <1>2, <2>3
  <2> HIDE DEF a, b, aa, bb
  <2>6. work[i] = work[j]
    OBVIOUS
  <2> QED BY <1>1, <2>4, <2>5, <2>6
<1> QED BY <1>1, <1>3, <1>4, <1>5 DEF Planned, Txs
-----------------------------------------------------------------------------
(* The steps. *)

LEMMA InitIInv == Init => IInv
<1> SUFFICES ASSUME Init PROVE IInv
  OBVIOUS
<1>1. Rows = {}
  BY DEF Init, Rows
<1>2. Count = 0
  BY <1>1, FS_EmptySet DEF Count
<1>3. Contiguous
  BY <1>1, <1>2 DEF Contiguous
<1>4. pos \in [Items -> Nat] /\ work \in [Items -> Nat]
  BY DEF Init
<1>5. version \in [Items -> 0 .. MutateMax + 1]
  BY HierarchyOrderAssumption DEF Init
<1>6. tx \in Txs \cup {NoTx} /\ cache \in [Clients -> Seq(Entries)]
  BY DEF Init
<1> QED BY <1>3, <1>4, <1>5, <1>6 DEF IInv, TypeOK, Planned, MoverIsCurrent, Init

\* The next position is the number of lists.
LEMMA NextIsCount ==
  ASSUME Contiguous, NEW p \in Nat, IsNext(p)
  PROVE  p = Count
<1>1. Count \in Nat
  BY CountIsNat
<1>2. CASE Count = 0
  <2>1. Rows = {}
    BY <1>2, CountIsNat, FS_EmptySet DEF Count
  <2> QED BY <1>2, <2>1 DEF IsNext
<1>3. CASE Count # 0
  <2>1. PICK i \in Rows : pos[i] = Count - 1
    <3>1. Count - 1 \in 0 .. Count - 1
      BY <1>1, <1>3
    <3> QED BY <3>1 DEF Contiguous
  <2>2. Count - 1 < p
    BY <2>1 DEF IsNext
  <2>3. PICK j \in Rows : pos[j] = p - 1
    BY <1>1, <1>3, <2>2 DEF IsNext
  <2>4. p - 1 \in 0 .. Count - 1
    BY <2>3 DEF Contiguous
  <2> QED BY <1>1, <2>2, <2>4
<1> QED BY <1>2, <1>3

LEMMA AddedInv ==
  ASSUME IInv, NEW i \in Items, NEW p \in Nat, Added(i, p)
  PROVE  /\ Contiguous' /\ Planned' /\ UNCHANGED tx /\ tx = NoTx
         /\ pos' \in [Items -> Nat] /\ work' \in [Items -> Nat]
         /\ version' \in [Items -> 0 .. MutateMax + 1]
         /\ Rows' = Rows \cup {i} /\ i \notin Rows /\ Count' = Count + 1 /\ p = Count
         /\ \A j \in Rows : pos'[j] = pos[j]
         /\ pos'[i] = p
<1>0. TypeOK /\ Contiguous
  BY DEF IInv
<1>1. /\ tx = NoTx /\ version[i] = 0 /\ IsNext(p) /\ pos' = [pos EXCEPT ![i] = p]
      /\ work' = pos' /\ version' = [version EXCEPT ![i] = 1] /\ tx' = tx
  BY DEF Added
<1>2. p = Count
  BY <1>0, <1>1, NextIsCount
<1>3. Rows' = Rows \cup {i} /\ i \notin Rows
  BY <1>0, <1>1 DEF Rows, TypeOK
<1>4. Count \in Nat /\ IsFiniteSet(Rows)
  BY CountIsNat
<1>5. Count' = Count + 1
  BY <1>3, <1>4, FS_AddElement DEF Count
<1>6. \A j \in Rows : j # i /\ pos'[j] = pos[j] /\ j \in Items
  BY <1>0, <1>1, <1>3 DEF TypeOK, Rows
<1>7. pos'[i] = p
  BY <1>0, <1>1 DEF TypeOK
<1>8. Contiguous'
  <2>1. ASSUME NEW j \in Rows' PROVE pos'[j] \in 0 .. Count'- 1
    BY <1>0, <1>2, <1>3, <1>4, <1>5, <1>6, <1>7 DEF Contiguous
  <2>2. ASSUME NEW q \in 0 .. Count' - 1 PROVE \E j \in Rows' : pos'[j] = q
    <3>1. CASE q = Count
      BY <1>2, <1>3, <1>7, <3>1
    <3>2. CASE q # Count
      <4>1. q \in 0 .. Count - 1
        BY <1>4, <1>5, <3>2
      <4> QED BY <1>0, <1>3, <1>6, <4>1 DEF Contiguous
    <3> QED BY <3>1, <3>2
  <2>3. ASSUME NEW j \in Rows', NEW k \in Rows', pos'[j] = pos'[k] PROVE j = k
    <3>1. \A l \in Rows : pos'[l] # p
      BY <1>0, <1>2, <1>4, <1>6 DEF Contiguous
    <3> QED BY <1>0, <1>3, <1>6, <1>7, <2>3, <3>1 DEF Contiguous
  <2> QED BY <2>1, <2>2, <2>3 DEF Contiguous
<1>9. version' \in [Items -> 0 .. MutateMax + 1]
  BY <1>0, <1>1, HierarchyOrderAssumption DEF TypeOK
<1>10. pos' \in [Items -> Nat] /\ work' \in [Items -> Nat]
  BY <1>0, <1>1 DEF TypeOK
<1>11. Planned'
  BY <1>1 DEF Planned
<1> QED BY <1>1, <1>2, <1>3, <1>5, <1>6, <1>7, <1>8, <1>9, <1>10, <1>11

LEMMA CreateStep ==
  ASSUME IInv, NEW i \in Items, WebCreate(i) \/ \E c \in Clients : Create(c, i)
  PROVE  IInv'
<1>0. Cardinality(Items) \in Nat
  BY CountIsNat
<1>1. CASE WebCreate(i)
  <2>1. PICK p \in 0 .. Cardinality(Items) : Added(i, p) /\ UNCHANGED cache
    BY <1>1 DEF WebCreate
  <2>2. p \in Nat
    BY <1>0
  <2> QED BY <2>1, <2>2, AddedInv DEF IInv, TypeOK, MoverIsCurrent
<1>2. ASSUME NEW c \in Clients, Create(c, i) PROVE IInv'
  <2>1. PICK p \in 0 .. Cardinality(Items) :
          Added(i, p) /\ cache' = [cache EXCEPT ![c] = Append(@, [item |-> i, sort |-> p])]
    BY <1>2 DEF Create
  <2>2. p \in Nat
    BY <1>0
  <2>3. cache' \in [Clients -> Seq(Entries)]
    <3>1. [item |-> i, sort |-> p] \in Entries
      BY <2>2 DEF Entries
    <3>2. cache[c] \in Seq(Entries)
      BY DEF IInv, TypeOK
    <3>3. Append(cache[c], [item |-> i, sort |-> p]) \in Seq(Entries)
      BY <3>1, <3>2
    <3> QED BY <2>1, <3>3 DEF IInv, TypeOK
  <2> QED BY <2>1, <2>2, <2>3, AddedInv DEF IInv, TypeOK, MoverIsCurrent
<1> QED BY <1>1, <1>2

LEMMA ReloadStep ==
  ASSUME IInv, NEW c \in Clients, Reload(c)
  PROVE  IInv'
<1>1. /\ UNCHANGED <<pos, version, work, tx>> /\ cache' = [cache EXCEPT ![c] = Snapshot]
      /\ tx # NoTx => tx.by # c
  BY DEF Reload
<1>2. Rows' = Rows /\ Count' = Count
  BY <1>1 DEF Rows, Count
<1>3. Snapshot' = Snapshot
  BY <1>1, <1>2 DEF Snapshot, Nth, Before
<1>4. Snapshot \in Seq(Entries)
  BY SnapshotIs DEF IInv
<1>5. TypeOK'
  BY <1>1, <1>4 DEF IInv, TypeOK
<1>6. Contiguous'
  BY <1>1, <1>2 DEF IInv, Contiguous
<1>7. Planned'
  BY <1>1, <1>2 DEF IInv, Planned, Placed
<1>8. MoverIsCurrent'
  BY <1>1, <1>3 DEF IInv, TypeOK, MoverIsCurrent
<1> QED BY <1>5, <1>6, <1>7, <1>8 DEF IInv

\* A cache whose order is the committed one, both compact, is the snapshot.
LEMMA SameOrderIsSnapshot ==
  ASSUME IInv, NEW c \in Clients, SameOrder(cache[c])
  PROVE  cache[c] = Snapshot
<1> DEFINE s == cache[c]
<1>1. s \in Seq(Entries)
  BY DEF IInv, TypeOK
<1>2. /\ DOMAIN Snapshot = 1 .. Count /\ Snapshot \in Seq(Entries)
      /\ \A n \in 1 .. Count : Snapshot[n] = [item |-> Nth(n), sort |-> n - 1]
  BY SnapshotIs DEF IInv
<1>3. Compact(s) /\ Shown(s) = Shown(Snapshot)
  BY DEF SameOrder
<1>4. DOMAIN s = DOMAIN Shown(s) /\ DOMAIN Shown(Snapshot) = DOMAIN Snapshot
  BY DEF Shown
<1>5. DOMAIN s = 1 .. Count
  BY <1>2, <1>3, <1>4
<1>6. \A n \in DOMAIN s : s[n].item = Shown(s)[n]
  BY DEF Shown
<1>7. \A n \in DOMAIN Snapshot : Snapshot[n].item = Shown(Snapshot)[n]
  BY DEF Shown
<1>8. ASSUME NEW n \in 1 .. Count PROVE s[n] = Snapshot[n]
  <2>1. s[n].item = Nth(n) /\ s[n].sort = n - 1
    BY <1>2, <1>3, <1>5, <1>6, <1>7 DEF Compact
  <2>2. s[n] \in Entries
    <3> HIDE DEF s
    <3>1. n \in 1 .. Len(s)
      BY <1>1, <1>5, LenProperties
    <3> QED BY <1>1, <3>1, ElementOfSeq
  <2>3. s[n] = [item |-> Nth(n), sort |-> n - 1]
    BY <2>1, <2>2 DEF Entries
  <2> QED BY <1>2, <2>3
<1>9. s = Snapshot
  <2> HIDE DEF s
  <2>1. s = [n \in DOMAIN s |-> s[n]] /\ Snapshot = [n \in DOMAIN Snapshot |-> Snapshot[n]]
    BY <1>1, <1>2
  <2> QED BY <1>2, <1>5, <1>8, <2>1
<1> QED BY <1>9

LEMMA BeginStep ==
  ASSUME IInv, NEW i \in Items, NEW t \in Places,
         WebMove(i, t) \/ \E c \in Clients : Move(c, i, t)
  PROVE  IInv'
<1>1. PICK by \in Clients \cup {Web} :
        Begin(by, i, t) /\ (by \in Clients => SameOrder(cache[by]))
  BY HierarchyOrderAssumption DEF WebMove, Move
<1>2. /\ tx = NoTx /\ i \in Rows /\ version[i] <= MutateMax /\ t < Count
      /\ tx' = [stage |-> "shift", done |-> {}, item |-> i, old |-> pos[i],
                target |-> t, by |-> by]
      /\ UNCHANGED <<pos, version, work, cache>>
  BY <1>1 DEF Begin, Movable
<1>3. Rows' = Rows /\ Count' = Count
  BY <1>2 DEF Rows, Count
<1>4. Snapshot' = Snapshot
  BY <1>2, <1>3 DEF Snapshot, Nth, Before
<1>5. t \in 0 .. Count - 1 /\ t \in Nat
  BY <1>2, CountIsNat DEF Places
<1>6. pos[i] \in Nat
  BY DEF IInv, TypeOK
<1>7. tx' \in Txs
  BY <1>2, <1>5, <1>6 DEF Txs
<1>8. TypeOK'
  BY <1>2, <1>7 DEF IInv, TypeOK
<1>9. Contiguous'
  BY <1>2, <1>3 DEF IInv, Contiguous
<1>10. Planned'
  <2>1. work' = pos'
    BY <1>2 DEF IInv, Planned
  <2>2. tx' # NoTx
    BY <1>2 DEF NoTx
  <2>3. /\ tx'.stage = "shift" /\ tx'.done = {} /\ tx'.item = i /\ tx'.old = pos[i]
        /\ tx'.target = t
    BY <1>2
  <2> QED BY <1>2, <1>3, <1>5, <1>7, <2>1, <2>2, <2>3 DEF Planned
<1>11. MoverIsCurrent'
  <2>1. tx'.by = by
    BY <1>2
  <2>2. by \in Clients => cache[by] = Snapshot
    BY <1>1, SameOrderIsSnapshot
  <2> QED BY <1>2, <1>4, <2>1, <2>2 DEF MoverIsCurrent
<1> QED BY <1>8, <1>9, <1>10, <1>11 DEF IInv


LEMMA UpdateRowStep ==
  ASSUME IInv, NEW i \in Items, UpdateRow(i)
  PROVE  IInv'
<1>1. /\ tx # NoTx /\ i \in Rows /\ i \notin tx.done
      /\ work' = [work EXCEPT ![i] = IF tx.stage = "shift" THEN Lifted(@) ELSE Settled(i, @)]
      /\ tx' = [tx EXCEPT !.done = @ \cup {i}]
      /\ UNCHANGED <<pos, version, cache>>
  BY DEF UpdateRow
<1>2. Rows' = Rows /\ Count' = Count
  BY <1>1 DEF Rows, Count
<1>3. Snapshot' = Snapshot
  BY <1>1, <1>2 DEF Snapshot, Nth, Before
<1>4. /\ tx \in Txs /\ tx.item \in Rows /\ version[tx.item] <= MutateMax
      /\ tx.old = pos[tx.item] /\ tx.target \in 0 .. Count - 1 /\ tx.done \subseteq Rows
      /\ \A j \in Rows :
           /\ tx.stage = "shift" =>
                work[j] = IF j \in tx.done THEN pos[j] + Shift ELSE pos[j]
           /\ tx.stage = "place" =>
                work[j] = IF j \in tx.done THEN Placed(j, pos[j]) ELSE pos[j] + Shift
  BY <1>1 DEF IInv, Planned
<1>5. /\ tx' \in Txs /\ tx' # NoTx /\ tx'.stage = tx.stage /\ tx'.item = tx.item
      /\ tx'.old = tx.old /\ tx'.target = tx.target /\ tx'.by = tx.by
      /\ tx'.done = tx.done \cup {i}
  BY <1>1, <1>4 DEF Txs, NoTx
<1>6. \A j \in Rows : Placed(j, pos[j])' = Placed(j, pos[j])
  BY <1>1, <1>5 DEF Placed
<1>7. /\ pos[i] \in Nat /\ i \in Items /\ Shift \in Nat /\ work \in [Items -> Nat]
  BY <1>1, HierarchyOrderAssumption DEF IInv, TypeOK
<1>8. \A j \in Items : j # i => work'[j] = work[j]
  BY <1>1, <1>7
<1>9. Placed(i, pos[i]) \in 0 .. Count - 1 /\ Count \in Nat
  <2>1. Contiguous /\ tx.old \in 0 .. Count - 1
    BY <1>4 DEF IInv, Contiguous
  <2> QED BY <1>1, <1>4, <2>1, PlacedPositions, CountIsNat
<1>10. /\ tx.stage = "shift" => work'[i] = pos[i] + Shift
       /\ tx.stage = "place" => work'[i] = Placed(i, pos[i])
  <2>1. CASE tx.stage = "shift"
    <3>1. work[i] = pos[i]
      BY <1>1, <1>4, <2>1
    <3> QED BY <1>1, <1>7, <2>1, <3>1 DEF Lifted
  <2>2. CASE tx.stage = "place"
    <3>1. work[i] = pos[i] + Shift
      BY <1>1, <1>4, <2>2
    <3>2. work'[i] = Settled(i, work[i])
      BY <1>1, <1>7, <2>2
    <3>3. work[i] - Shift = pos[i]
      BY <1>7, <3>1
    <3> QED BY <2>2, <3>2, <3>3 DEF Settled
  <2> QED BY <2>1, <2>2
<1>11. work' \in [Items -> Nat]
  <2>1. work'[i] \in Nat
    BY <1>4, <1>7, <1>9, <1>10 DEF Txs
  <2>2. work' = [work EXCEPT ![i] = work'[i]]
    BY <1>1, <1>7
  <2> QED BY <1>7, <2>1, <2>2
<1>12. TypeOK'
  BY <1>1, <1>5, <1>11 DEF IInv, TypeOK
<1>13. Contiguous'
  BY <1>1, <1>2 DEF IInv, Contiguous
<1>14. Planned'
  <2>1. ASSUME NEW j \in Rows
        PROVE  /\ tx.stage = "shift" =>
                    work'[j] = IF j \in tx.done \cup {i} THEN pos[j] + Shift ELSE pos[j]
               /\ tx.stage = "place" =>
                    work'[j] = IF j \in tx.done \cup {i} THEN Placed(j, pos[j]) ELSE pos[j] + Shift
    <3>1. CASE j = i
      BY <1>10, <3>1
    <3>2. CASE j # i
      <4>1. work'[j] = work[j] /\ (j \in tx.done \cup {i} <=> j \in tx.done)
        BY <1>8, <3>2 DEF Rows
      <4> QED BY <1>4, <4>1
    <3> QED BY <3>1, <3>2
  <2>2. \A j \in Rows' :
          /\ tx'.stage = "shift" =>
               work'[j] = IF j \in tx'.done THEN pos'[j] + Shift ELSE pos'[j]
          /\ tx'.stage = "place" =>
               work'[j] = IF j \in tx'.done THEN Placed(j, pos[j])' ELSE pos'[j] + Shift
    BY <1>1, <1>2, <1>5, <1>6, <2>1
  <2> QED BY <1>1, <1>2, <1>4, <1>5, <2>2 DEF Planned
<1>15. MoverIsCurrent'
  BY <1>1, <1>3, <1>5 DEF IInv, MoverIsCurrent
<1> QED BY <1>12, <1>13, <1>14, <1>15 DEF IInv

LEMMA SecondStatementStep ==
  ASSUME IInv, SecondStatement
  PROVE  IInv'
<1>1. /\ tx # NoTx /\ tx.stage = "shift" /\ tx.done = Rows
      /\ tx' = [tx EXCEPT !.stage = "place", !.done = {}]
      /\ UNCHANGED <<pos, version, work, cache>>
  BY DEF SecondStatement
<1>2. Rows' = Rows /\ Count' = Count
  BY <1>1 DEF Rows, Count
<1>3. Snapshot' = Snapshot
  BY <1>1, <1>2 DEF Snapshot, Nth, Before
<1>4. /\ tx \in Txs /\ tx.item \in Rows /\ version[tx.item] <= MutateMax
      /\ tx.old = pos[tx.item] /\ tx.target \in 0 .. Count - 1
      /\ \A j \in Rows : work[j] = pos[j] + Shift
  BY <1>1 DEF IInv, Planned
<1>5. /\ tx' \in Txs /\ tx' # NoTx /\ tx'.stage = "place" /\ tx'.item = tx.item
      /\ tx'.old = tx.old /\ tx'.target = tx.target /\ tx'.by = tx.by
      /\ tx'.done = {}
  BY <1>1, <1>4 DEF Txs, NoTx
<1>6. TypeOK'
  BY <1>1, <1>5 DEF IInv, TypeOK
<1>7. Contiguous'
  BY <1>1, <1>2 DEF IInv, Contiguous
<1>8. Planned'
  BY <1>1, <1>2, <1>4, <1>5 DEF Planned
<1>9. MoverIsCurrent'
  BY <1>1, <1>3, <1>5 DEF IInv, MoverIsCurrent
<1> QED BY <1>6, <1>7, <1>8, <1>9 DEF IInv

LEMMA RollbackStep ==
  ASSUME IInv, Rollback
  PROVE  IInv'
<1>1. work' = pos /\ tx' = NoTx /\ UNCHANGED <<pos, version, cache>>
  BY DEF Rollback
<1>2. Rows' = Rows /\ Count' = Count
  BY <1>1 DEF Rows, Count
<1>3. TypeOK'
  BY <1>1 DEF IInv, TypeOK
<1>4. Contiguous'
  BY <1>1, <1>2 DEF IInv, Contiguous
<1> QED BY <1>1, <1>3, <1>4 DEF IInv, Planned, MoverIsCurrent


\* The mover's own change of its snapshot gives the snapshot of what it commits.
LEMMA CommitFacts ==
  ASSUME IInv, Commit
  PROVE  /\ IInv'
         /\ pos'[tx.item] = tx.target
         /\ \A j, k \in Rows \ {tx.item} : pos[j] < pos[k] <=> pos'[j] < pos'[k]
         /\ version' = [version EXCEPT ![tx.item] = @ + 1] /\ tx.item \in Rows
         /\ tx.by \in Clients => cache'[tx.by] = Snapshot'
<1>1. /\ tx # NoTx /\ tx.stage = "place" /\ tx.done = Rows
      /\ pos' = work /\ tx' = NoTx /\ work' = work
      /\ version' = [version EXCEPT ![tx.item] = @ + 1]
      /\ cache' = [c \in Clients |->
                     IF c = tx.by THEN Renumbered(cache[c], tx.old + 1, tx.target + 1)
                     ELSE cache[c]]
  BY DEF Commit
<1>2. /\ tx \in Txs /\ tx.item \in Rows /\ version[tx.item] <= MutateMax
      /\ tx.old = pos[tx.item] /\ tx.target \in 0 .. Count - 1
      /\ \A j \in Rows : work[j] = Placed(j, pos[j])
  BY <1>1 DEF IInv, Planned
<1>3. /\ TypeOK /\ Contiguous /\ Count \in Nat /\ MutateMax \in Nat
  BY CountIsNat, HierarchyOrderAssumption DEF IInv
<1>4. tx.old \in 0 .. Count - 1
  BY <1>2, <1>3 DEF Contiguous
<1>5. version' \in [Items -> 0 .. MutateMax + 1] /\ Rows' = Rows /\ Count' = Count
  <2>1. tx.item \in Items /\ version[tx.item] > 0 /\ version[tx.item] \in 0 .. MutateMax + 1
    BY <1>2, <1>3 DEF TypeOK, Rows
  <2>2. version[tx.item] + 1 \in 0 .. MutateMax + 1 /\ version[tx.item] + 1 > 0
    BY <1>2, <1>3, <2>1
  <2>3. version' \in [Items -> 0 .. MutateMax + 1]
    BY <1>1, <1>3, <2>2 DEF TypeOK
  <2>4. \A i \in Items : version'[i] > 0 <=> version[i] > 0
    BY <1>1, <1>3, <2>1, <2>2 DEF TypeOK
  <2>5. Rows' = Rows
    BY <2>4 DEF Rows
  <2> QED BY <2>3, <2>5 DEF Count
<1>6. \A j \in Rows : pos'[j] = Placed(j, pos[j])
  BY <1>1, <1>2
<1>7. /\ \A i \in Rows : Placed(i, pos[i]) \in 0 .. Count - 1
      /\ \A p \in 0 .. Count - 1 : \E i \in Rows : Placed(i, pos[i]) = p
      /\ \A i, j \in Rows : Placed(i, pos[i]) = Placed(j, pos[j]) => i = j
      /\ Placed(tx.item, tx.old) = tx.target
      /\ \A i, j \in Rows \ {tx.item} :
           pos[i] < pos[j] <=> Placed(i, pos[i]) < Placed(j, pos[j])
  BY <1>2, <1>3, <1>4, PlacedPositions
<1>8. Contiguous'
  BY <1>5, <1>6, <1>7 DEF Contiguous
<1>9. pos'[tx.item] = tx.target
  BY <1>2, <1>6, <1>7
<1>10. \A j, k \in Rows \ {tx.item} : pos[j] < pos[k] <=> pos'[j] < pos'[k]
  BY <1>6, <1>7
<1>11. Planned'
  BY <1>1 DEF Planned
<1>12. MoverIsCurrent'
  BY <1>1 DEF MoverIsCurrent
<1>13. ASSUME tx.by \in Clients
       PROVE  Renumbered(cache[tx.by], tx.old + 1, tx.target + 1) = Snapshot'
  <2>0. PICK r : r = Renumbered(Snapshot, tx.old + 1, tx.target + 1)
    OBVIOUS
  <2>1. cache[tx.by] = Snapshot
    BY <1>1, <1>13 DEF IInv, MoverIsCurrent
  <2>2. /\ DOMAIN Snapshot = 1 .. Count
        /\ \A n \in 1 .. Count : /\ Snapshot[n] = [item |-> Nth(n), sort |-> n - 1]
                                  /\ Nth(n) \in Rows /\ pos[Nth(n)] = n - 1
    BY <1>3, SnapshotIs
  <2>3. \A n \in 1 .. Count :
          r[n] = [item |-> Nth(CASE n = tx.target + 1 -> tx.old + 1
                                 [] tx.old + 1 <= n /\ n < tx.target + 1 -> n + 1
                                 [] tx.target + 1 < n /\ n <= tx.old + 1 -> n - 1
                                 [] OTHER -> n),
                  sort |-> n - 1]
    <3> SUFFICES ASSUME NEW n \in 1 .. Count
                 PROVE  r[n] = [item |-> Nth(CASE n = tx.target + 1 -> tx.old + 1
                                 [] tx.old + 1 <= n /\ n < tx.target + 1 -> n + 1
                                 [] tx.target + 1 < n /\ n <= tx.old + 1 -> n - 1
                                 [] OTHER -> n),
                                sort |-> n - 1]
      OBVIOUS
    <3> DEFINE m == CASE n = tx.target + 1 -> tx.old + 1
                      [] tx.old + 1 <= n /\ n < tx.target + 1 -> n + 1
                      [] tx.target + 1 < n /\ n <= tx.old + 1 -> n - 1
                      [] OTHER -> n
    <3>1. m \in 1 .. Count
      BY <1>2, <1>3, <1>4
    <3>2. r[n] = [item |-> Snapshot[m].item, sort |-> n - 1]
      BY <2>0, <2>2 DEF Renumbered
    <3> HIDE DEF m
    <3>3. Snapshot[m].item = Nth(m)
      BY <2>2, <3>1
    <3>4. r[n] = [item |-> Nth(m), sort |-> n - 1]
      BY <3>2, <3>3
    <3> QED BY <3>4 DEF m
  <2>4. DOMAIN r = 1 .. Count /\ r = [n \in 1 .. Count |-> r[n]]
    BY <2>0, <2>2 DEF Renumbered
  <2>5. ASSUME NEW n \in 1 .. Count
        PROVE  r[n].sort = n - 1 /\ r[n].item \in Rows /\ pos'[r[n].item] = n - 1
    <3>1. CASE n = tx.target + 1
      <4>1. r[n] = [item |-> Nth(tx.old + 1), sort |-> n - 1] /\ tx.old + 1 \in 1 .. Count
        BY <1>2, <1>3, <1>4, <2>3, <3>1
      <4>2. Nth(tx.old + 1) \in Rows /\ pos[Nth(tx.old + 1)] = tx.old
        BY <1>3, <1>4, <2>2, <4>1
      <4>3. Nth(tx.old + 1) = tx.item
        BY <1>2, <1>3, <4>2 DEF Contiguous
      <4> QED BY <1>2, <1>3, <1>9, <3>1, <4>1, <4>3
    <3>2. CASE n # tx.target + 1
      <4> DEFINE m == IF tx.old + 1 <= n /\ n < tx.target + 1 THEN n + 1
                      ELSE IF tx.target + 1 < n /\ n <= tx.old + 1 THEN n - 1 ELSE n
      <4>1. m \in 1 .. Count /\ m # tx.old + 1 /\ m \in Nat
        BY <1>2, <1>3, <1>4, <3>2
      <4>2. r[n] = [item |-> Nth(m), sort |-> n - 1]
        <5>1. m = CASE n = tx.target + 1 -> tx.old + 1
                    [] tx.old + 1 <= n /\ n < tx.target + 1 -> n + 1
                    [] tx.target + 1 < n /\ n <= tx.old + 1 -> n - 1
                    [] OTHER -> n
          BY <1>2, <1>3, <1>4, <3>2
        <5> HIDE DEF m
        <5> QED BY <2>3, <5>1
      <4>3. /\ tx.old <= n - 1 /\ n - 1 < tx.target => m = n + 1
            /\ tx.target < n - 1 /\ n - 1 <= tx.old => m = n - 1
            /\ ~(tx.old <= n - 1 /\ n - 1 < tx.target)
               /\ ~(tx.target < n - 1 /\ n - 1 <= tx.old) => m = n
        BY <1>2, <1>3, <1>4
      <4> HIDE DEF m
      <4> DEFINE i == Nth(m)
      <4>4. i \in Rows /\ pos[i] = m - 1 /\ r[n].item = i /\ r[n].sort = n - 1
        BY <2>2, <4>1, <4>2
      <4> HIDE DEF i
      <4>5. i # tx.item
        BY <1>2, <1>4, <4>1, <4>4
      <4>6. pos'[i] = Placed(i, m - 1)
        BY <1>6, <4>4
      <4>7. Placed(i, m - 1) = n - 1
        BY <1>2, <1>3, <1>4, <3>2, <4>1, <4>3, <4>5 DEF Placed
      <4> QED BY <4>4, <4>6, <4>7
    <3> QED BY <3>1, <3>2
  <2>6. \A n \in 1 .. Count : r[n] = [item |-> r[n].item, sort |-> n - 1]
    <3> SUFFICES ASSUME NEW n \in 1 .. Count
                 PROVE  r[n] = [item |-> r[n].item, sort |-> n - 1]
      OBVIOUS
    <3>1. PICK i : r[n] = [item |-> i, sort |-> n - 1]
      BY <2>3
    <3> QED BY <3>1
  <2>7. IsOrder(r)'
    BY <1>5, <2>4, <2>5, <2>6 DEF IsOrder
  <2>8. r = Snapshot'
    BY <1>8, <2>7, OrderIsUniqueNext DEF OrderIsUnique
  <2> QED BY <2>0, <2>1, <2>8
<1>14. cache' \in [Clients -> Seq(Entries)] /\ (tx.by \in Clients => cache'[tx.by] = Snapshot')
  <2>1. tx.by \in Clients => cache'[tx.by] = Snapshot'
    BY <1>1, <1>13
  <2>2. Snapshot' \in Seq(Entries)
    BY <1>8, SnapshotTypeNext DEF SnapshotType
  <2>3. ASSUME NEW c \in Clients PROVE cache'[c] \in Seq(Entries)
    <3>1. CASE c = tx.by
      BY <2>1, <2>2, <3>1
    <3>2. CASE c # tx.by
      BY <1>1, <1>3, <3>2 DEF TypeOK
    <3> QED BY <3>1, <3>2
  <2>4. cache' = [c \in Clients |-> cache'[c]]
    BY <1>1
  <2> HIDE DEF Snapshot
  <2> QED BY <2>1, <2>3, <2>4
<1>15. TypeOK'
  BY <1>1, <1>3, <1>5, <1>14 DEF TypeOK
<1> QED BY <1>1, <1>2, <1>8, <1>9, <1>10, <1>11, <1>12, <1>14, <1>15 DEF IInv

\* Every step preserves the invariant.
LEMMA NextIInv == IInv /\ [Next]_vars => IInv'
<1> SUFFICES ASSUME IInv, [Next]_vars PROVE IInv'
  OBVIOUS
<1>1. CASE UNCHANGED vars
  <2>1. UNCHANGED <<pos, version, work, tx, cache>>
    BY <1>1 DEF vars
  <2>2. Rows' = Rows /\ Count' = Count
    BY <2>1 DEF Rows, Count
  <2>3. Snapshot' = Snapshot
    BY <2>1, <2>2 DEF Snapshot, Nth, Before
  <2>4. \A j \in Rows : Placed(j, pos[j])' = Placed(j, pos[j])
    BY <2>1 DEF Placed
  <2>5. Planned'
    BY <2>1, <2>2, <2>4 DEF IInv, Planned
  <2>6. TypeOK' /\ Contiguous'
    BY <2>1, <2>2 DEF IInv, TypeOK, Contiguous
  <2> QED BY <2>1, <2>3, <2>5, <2>6 DEF IInv, MoverIsCurrent
<1>2. ASSUME NEW i \in Items, WebCreate(i) \/ \E c \in Clients : Create(c, i) PROVE IInv'
  BY <1>2, CreateStep
<1>3. ASSUME NEW i \in Items, UpdateRow(i) PROVE IInv'
  BY <1>3, UpdateRowStep
<1>4. ASSUME NEW i \in Items, NEW t \in Places,
             WebMove(i, t) \/ \E c \in Clients : Move(c, i, t)
      PROVE  IInv'
  BY <1>4, BeginStep
<1>5. ASSUME NEW c \in Clients, Reload(c) PROVE IInv'
  BY <1>5, ReloadStep
<1>6. CASE SecondStatement
  BY <1>6, SecondStatementStep
<1>7. CASE Commit
  BY <1>7, CommitFacts
<1>8. CASE Rollback
  BY <1>8, RollbackStep
<1> QED BY <1>1, <1>2, <1>3, <1>4, <1>5, <1>6, <1>7, <1>8 DEF Next

LEMMA Invariance == Spec => []IInv
BY InitIInv, NextIInv, PTL DEF Spec

\* While a transaction is open, only its commit changes a version.
LEMMA OnlyCommitChanges ==
  ASSUME IInv, [Next]_vars, tx # NoTx, version' # version
  PROVE  Commit
BY DEF Next, vars, WebCreate, Create, Added, UpdateRow, WebMove, Move, Begin, Reload,
       SecondStatement, Rollback

\* Without one, only a creation does, and it changes no existing list.
LEMMA OnlyAdditionsChange ==
  ASSUME IInv, [Next]_vars, tx = NoTx
  PROVE  \A i \in Rows : version'[i] = version[i]
<1>1. CASE version' = version
  BY <1>1
<1>2. ASSUME NEW j \in Items, WebCreate(j) \/ \E c \in Clients : Create(c, j)
      PROVE  \A i \in Rows : version'[i] = version[i]
  <2>1. version[j] = 0 /\ version' = [version EXCEPT ![j] = 1]
    BY <1>2 DEF WebCreate, Create, Added
  <2> QED BY <2>1 DEF IInv, TypeOK, Rows
<1> QED BY <1>1, <1>2 DEF Next, vars, UpdateRow, WebMove, Move, Begin, Reload,
       SecondStatement, Commit, Rollback

\* A process that shows the committed order appends what it creates where the
\* committed order has it.
LEMMA CreateKeepsOrder ==
  ASSUME IInv, NEW c \in Clients, NEW i \in Items, Create(c, i), cache[c] = Snapshot
  PROVE  cache'[c] = Snapshot'
<1>1. PICK p \in 0 .. Cardinality(Items) :
        Added(i, p) /\ cache' = [cache EXCEPT ![c] = Append(@, [item |-> i, sort |-> p])]
  BY DEF Create
<1>2. p \in Nat
  BY CountIsNat
<1>3. /\ Contiguous' /\ Rows' = Rows \cup {i} /\ Count' = Count + 1 /\ p = Count
      /\ \A j \in Rows : pos'[j] = pos[j]
      /\ pos'[i] = p
  BY <1>1, <1>2, AddedInv
<1>4. PICK s : s = Snapshot
  OBVIOUS
<1>5. /\ s \in Seq(Entries) /\ Len(s) = Count /\ Count \in Nat
      /\ \A n \in 1 .. Count : /\ s[n] = [item |-> Nth(n), sort |-> n - 1]
                                /\ Nth(n) \in Rows /\ pos[Nth(n)] = n - 1
  BY <1>4, SnapshotIs, CountIsNat DEF IInv
<1>6. PICK r : r = Append(s, [item |-> i, sort |-> p])
  OBVIOUS
<1>7. /\ r \in Seq(Entries) /\ Len(r) = Count + 1
      /\ \A n \in 1 .. Count : r[n] = s[n]
      /\ r[Count + 1] = [item |-> i, sort |-> p]
  <2>1. [item |-> i, sort |-> p] \in Entries
    BY <1>2 DEF Entries
  <2> QED BY <1>5, <1>6, <2>1, AppendProperties
<1>8. ASSUME NEW n \in 1 .. Count + 1
      PROVE  /\ r[n] = [item |-> r[n].item, sort |-> n - 1]
             /\ r[n].item \in Rows' /\ pos'[r[n].item] = n - 1
  <2>1. CASE n = Count + 1
    BY <1>3, <1>5, <1>7, <2>1
  <2>2. CASE n # Count + 1
    <3>1. n \in 1 .. Count
      BY <1>5, <2>2
    <3>2. PICK j : j = Nth(n)
      OBVIOUS
    <3>3. r[n] = [item |-> j, sort |-> n - 1] /\ j \in Rows /\ pos[j] = n - 1
      BY <1>5, <1>7, <3>1, <3>2
    <3> QED BY <1>3, <3>3
  <2> QED BY <2>1, <2>2
<1>9. r = [n \in 1 .. Count + 1 |-> [item |-> r[n].item, sort |-> n - 1]]
  <2>1. DOMAIN r = 1 .. Count + 1 /\ r = [n \in DOMAIN r |-> r[n]]
    BY <1>7, LenProperties
  <2> QED BY <1>8, <2>1
<1>10. IsOrder(r)'
  BY <1>3, <1>8, <1>9 DEF IsOrder
<1>11. r = Snapshot'
  BY <1>3, <1>10, OrderIsUniqueNext DEF OrderIsUnique
<1>12. cache'[c] = r
  BY <1>1, <1>4, <1>6 DEF IInv, TypeOK
<1> QED BY <1>11, <1>12
-----------------------------------------------------------------------------
(* The theorems. *)

\* TypeOK for every number of lists and processes: what the code stores in
\* positions, versions and snapshots stays within its range.
THEOREM TypeCorrect == Spec => []TypeOK
BY Invariance, PTL DEF IInv

\* The two UPDATE statements of a move violate UNIQUE(board_id, position) at
\* no row, in whatever order the rows are visited.
THEOREM PositionsStayDistinct == Spec => []PositionsDistinct
BY Invariance, PlannedDistinct, PTL

\* Creations and moves keep positions exactly 0 .. count - 1.
THEOREM PositionsStayContiguous == Spec => []PositionsContiguous
<1>1. IInv => PositionsContiguous
  BY DEF IInv, Contiguous, PositionsContiguous
<1> QED BY <1>1, Invariance, PTL

\* A move lands where it was sent and disturbs neither the versions nor the
\* order of the other lists.
THEOREM MovesStayExact == Spec => MovesLandExactly
<1>1. ASSUME IInv, [Next]_vars, NEW i \in Rows, version'[i] # version[i]
      PROVE  /\ pos'[i] = tx.target
             /\ \A j, k \in Rows \ {i} :
                  /\ version'[j] = version[j]
                  /\ pos[j] < pos[k] <=> pos'[j] < pos'[k]
  <2>1. tx # NoTx /\ version' # version
    BY <1>1, OnlyAdditionsChange
  <2>2. /\ pos'[tx.item] = tx.target
        /\ \A j, k \in Rows \ {tx.item} : pos[j] < pos[k] <=> pos'[j] < pos'[k]
        /\ version' = [version EXCEPT ![tx.item] = @ + 1]
    BY <1>1, <2>1, OnlyCommitChanges, CommitFacts
  <2>3. \A j \in Rows : j # tx.item => version'[j] = version[j]
    BY <1>1, <2>2 DEF IInv, TypeOK, Rows
  <2>4. i = tx.item
    BY <1>1, <2>3
  <2> QED BY <2>2, <2>3, <2>4
<1>2. IInv /\ [Next]_vars =>
        [\A i \in Rows :
           \/ version'[i] = version[i]
           \/ /\ pos'[i] = tx.target
              /\ \A j, k \in Rows \ {i} :
                   /\ version'[j] = version[j]
                   /\ pos[j] < pos[k] <=> pos'[j] < pos'[k]]_vars
  BY <1>1
<1> QED BY <1>2, Invariance, PTL DEF Spec, MovesLandExactly

\* A desktop process that commits a move shows the committed order: whoever
\* showed another one could not begin.
THEOREM MovesStayCurrent == Spec => MovesNeedCurrentOrder
<1>1. IInv /\ [Next]_vars =>
        [tx # NoTx /\ version' # version /\ tx.by \in Clients =>
           cache'[tx.by] = Snapshot']_vars
  BY OnlyCommitChanges, CommitFacts
<1> QED BY <1>1, Invariance, PTL DEF Spec, MovesNeedCurrentOrder

\* A desktop process whose copy was current shows the committed order after
\* each of its own creations, moves and loads.
THEOREM OwnChangesStayCurrent == Spec => OwnChangesKeepCacheCurrent
<1>1. ASSUME IInv, [Next]_vars, NEW c \in Clients, Own(c), cache[c] = Snapshot
      PROVE  cache'[c] = Snapshot'
  <2>1. CASE \E i \in Items : Create(c, i)
    BY <1>1, <2>1, CreateKeepsOrder
  <2>2. CASE Reload(c)
    <3>1. UNCHANGED <<pos, version>> /\ cache'[c] = Snapshot
      BY <1>1, <2>2 DEF Reload, IInv, TypeOK
    <3>2. Rows' = Rows /\ Count' = Count
      BY <3>1 DEF Rows, Count
    <3> QED BY <3>1, <3>2 DEF Snapshot, Nth, Before
  <2>3. CASE Commit /\ tx.by = c
    BY <1>1, <2>3, CommitFacts
  <2> QED BY <1>1, <2>1, <2>2, <2>3 DEF Own
<1>2. IInv /\ [Next]_vars =>
        [\A c \in Clients :
           Own(c) /\ cache[c] = Snapshot => (cache[c] = Snapshot)']_vars
  BY <1>1
<1> QED BY <1>2, Invariance, PTL DEF Spec, OwnChangesKeepCacheCurrent
=============================================================================
