--------------------------- MODULE ChecklistOrder ---------------------------
(***************************************************************************)
(* The positions of the items inside the checklists of cards, and the      *)
(* transactions that change them, one SQL statement at a time.  The        *)
(* checklists of a card are ordered by the same code: read "card" for      *)
(* "checklist" and "checklist" for "item".                                 *)
(*                                                                         *)
(* Deleting and moving away leave gaps, so positions creep upwards.  A     *)
(* move that names a place numbers the whole checklist 0, 1, 2, ... again, *)
(* in two passes: every item first goes to a block of free positions and   *)
(* then to its place.  The block is the first one that is free, at the     *)
(* largest position as well, and may overlap the final places.             *)
(* checklist_items has UNIQUE(checklist_id, position), which SQLite checks *)
(* after every statement.                                                  *)
(*                                                                         *)
(* Versions of cards and checklists, scopes and titles are the matter of   *)
(* CardContents.  A refused request changes nothing and is no action.      *)
(*                                                                         *)
(* A definition named Wrong... is a mistake the code could have made; the  *)
(* manifest pairs it with the property that tells it from the real one.    *)
(***************************************************************************)
EXTENDS Integers, FiniteSets

CONSTANTS
  Items,        \* identities an item can be created under
  Checklists,
  CardOf,       \* the card of every checklist
  Capacity,     \* WENA_CHECKLIST_MAX_ITEMS of a card (1024)
  PositionMax,  \* WENA_CHECKLIST_POSITION_MAX (2147483647)
  MutateMax     \* WENA_VERSION_MUTATE_MAX

ASSUME ChecklistOrderAssumption ==
  /\ IsFiniteSet(Items)
  /\ Capacity \in Nat \ {0}
  /\ PositionMax \in Nat
  /\ MutateMax \in Nat \ {0}

VARIABLES
  row,    \* the committed row of every item identity
  work,   \* the rows as the open transaction sees them
  tx      \* the open transaction that numbers a checklist again

vars == <<row, work, tx>>

NoRow == [version |-> 0]
Rows == [list : Checklists, pos : 0 .. PositionMax, version : 1 .. MutateMax + 1]

NoTx == [pass |-> "none"]
Txs == [pass : {"stage", "settle"},
        at : Nat,               \* items the pass has already written
        item : Items,           \* the item that was asked to move
        list : Checklists,      \* the checklist that is numbered again
        place : [Items -> Int], \* final places of its items, -1 elsewhere
        size : Nat,             \* how many there are
        base : Nat,             \* first position of the free block
        advanced : SUBSET Items]\* already given their next version

TypeOK ==
  /\ row \in [Items -> Rows \cup {NoRow}]
  /\ work \in [Items -> Rows \cup {NoRow}]
  /\ tx \in Txs \cup {NoTx}
-----------------------------------------------------------------------------
(* Reading a checklist, and its card. *)

Stored(r) == r.version > 0
ItemsIn(rows, k) == {i \in Items : Stored(rows[i]) /\ rows[i].list = k}
ItemsOn(rows, card) == {i \in Items : Stored(rows[i]) /\ CardOf[rows[i].list] = card}
Count(rows, k) == Cardinality(ItemsIn(rows, k))
Total(rows, card) == Cardinality(ItemsOn(rows, card))
Positions(rows, k) == {rows[i].pos : i \in ItemsIn(rows, k)}

\* Where a gap can begin: at 0, or behind an item.
Starts(rows, k) == {0} \cup {p + 1 : p \in Positions(rows, k)}

\* max(position) + 1 of a checklist, 0 for an empty one.
IsNext(rows, k, p) == p \in Starts(rows, k) /\ \A q \in Positions(rows, k) : q < p

\* The first gap of n positions: the block write_order stages its rows in.
WrongFreeBlock(rows, k, p, n) == \A q \in Positions(rows, k) : q < p \/ q >= p + n - 1
FreeBlock(rows, k, p, n) == \A q \in Positions(rows, k) : q < p \/ q >= p + n
IsFirstGap(rows, k, p, n) ==
  /\ p \in Starts(rows, k) /\ FreeBlock(rows, k, p, n)
  /\ \A s \in Starts(rows, k) : s < p => ~FreeBlock(rows, k, s, n)

\* ORDER BY position: the ranks 0, 1, 2, ... of the items of a checklist.
Ranks(rows, k) ==
  {r \in [ItemsIn(rows, k) -> 0 .. Count(rows, k) - 1] :
     /\ \A i, j \in ItemsIn(rows, k) : rows[i].pos < rows[j].pos => r[i] < r[j]
     /\ \A n \in 0 .. Count(rows, k) - 1 : \E i \in ItemsIn(rows, k) : r[i] = n}

WrongMutable(i) == Stored(row[i])
Mutable(i) == Stored(row[i]) /\ row[i].version <= MutateMax
-----------------------------------------------------------------------------
Init ==
  /\ row = [i \in Items |-> NoRow]
  /\ work = row
  /\ tx = NoTx

(* Transactions that need no staging. *)

Atomically(rows) == tx = NoTx /\ row' = rows /\ work' = rows /\ UNCHANGED tx

NewItem(k, p) == [list |-> k, pos |-> p, version |-> 1]

\* ADD_CHECKLIST_ITEM: no item of the card may be at the last position.
AddItem(k, i) ==
  /\ ~Stored(row[i])
  /\ Total(row, CardOf[k]) < Capacity
  /\ \A j \in ItemsOn(row, CardOf[k]) : row[j].pos < PositionMax
  /\ \E p \in Starts(row, k) :
       /\ IsNext(row, k, p)
       /\ Atomically([row EXCEPT ![i] = NewItem(k, p)])

\* Capacity belongs to the complete card.
Room(k, batch) == Total(row, CardOf[k]) + Cardinality(batch) <= Capacity

\* ADD_CHECKLIST_ITEMS: one item for every title, one behind the other.
AddItems(k, batch) ==
  /\ \A i \in batch : ~Stored(row[i])
  /\ Room(k, batch)
  /\ \E p \in Starts(row, k), line \in [batch -> 0 .. Cardinality(batch) - 1] :
       /\ IsNext(row, k, p) /\ p + Cardinality(batch) <= PositionMax + 1
       /\ \A i, j \in batch : line[i] = line[j] => i = j
       /\ Atomically([i \in Items |->
            IF i \in batch THEN NewItem(k, p + line[i]) ELSE row[i]])

RenameItem(i) ==
  /\ Mutable(i)
  /\ Atomically([row EXCEPT ![i] = [row[i] EXCEPT !.version = @ + 1]])

DeleteItem(i) ==
  /\ Mutable(i)
  /\ Atomically([row EXCEPT ![i] = NoRow])

DeleteChecklist(k) ==
  /\ ItemsIn(row, k) # {}
  /\ Atomically([i \in Items |-> IF i \in ItemsIn(row, k) THEN NoRow ELSE row[i]])

\* MOVE_CHECKLIST_ITEM: another checklist, of the same card or of another.
Fits(i, k) ==
  CardOf[k] = CardOf[row[i].list] \/ Total(row, CardOf[k]) < Capacity

Movable(i, k) == tx = NoTx /\ Mutable(i) /\ row[i].list # k /\ Fits(i, k)
MovedTo(i, k, p) ==
  [row EXCEPT ![i] = [list |-> k, pos |-> p, version |-> row[i].version + 1]]

\* Without targetPosition: behind the last item.
MoveToEnd(i, k) ==
  /\ Movable(i, k)
  /\ \E p \in Starts(row, k) :
       /\ IsNext(row, k, p) /\ p <= PositionMax
       /\ Atomically(MovedTo(i, k, p))
-----------------------------------------------------------------------------
(* write_order: the item goes to the place with number to, and the whole    *)
(* checklist is numbered again.                                             *)

\* memmove: the rank of item j after item i went to rank to.
WrongShifted(r, i, to, j) ==
  IF j = i THEN to ELSE IF r[j] = to THEN r[i] ELSE r[j]
Shifted(r, i, to, j) ==
  CASE j = i -> to
    [] j # i /\ to <= r[j] /\ r[j] < r[i] -> r[j] + 1
    [] j # i /\ r[i] < r[j] /\ r[j] <= to -> r[j] - 1
    [] OTHER -> r[j]
Places(rows, k, r, i, to) ==
  [j \in Items |-> IF j \in ItemsIn(rows, k) THEN Shifted(r, i, to, j) ELSE -1]

\* The rows are as read in this transaction; advanced ones keep their version.
WriteOrder(rows, i, r, to, advanced) ==
  LET k == rows[i].list
      n == Count(rows, k)
      place == Places(rows, k, r, i, to)
  IN  /\ to < n
      /\ \A j \in ItemsIn(rows, k) :
           rows[j].pos # place[j] /\ j \notin advanced => rows[j].version <= MutateMax
      /\ \E base \in Starts(rows, k) :
           /\ IsFirstGap(rows, k, base, n) /\ base + n <= PositionMax + 1
           /\ tx' = [pass |-> "stage", at |-> 0, item |-> i, list |-> k, place |-> place,
                     size |-> n, base |-> base, advanced |-> advanced]
      /\ work' = rows
      /\ UNCHANGED row

\* REORDER_CHECKLIST_ITEM; its present place changes nothing.
Reorder(i, to) ==
  /\ tx = NoTx /\ Mutable(i)
  /\ \E r \in Ranks(row, row[i].list) : r[i] # to /\ WriteOrder(row, i, r, to, {})

\* The first position that is free: transfer_position.
IsFirstFree(k, p) == IsFirstGap(row, k, p, 1)

\* MOVE_CHECKLIST_ITEM with targetPosition: one statement moves the item to a
\* free position and gives it its next version, then the checklist is
\* numbered again.
MoveTo(i, k, to) ==
  /\ Movable(i, k)
  /\ \E p \in Starts(row, k) :
       /\ IsFirstFree(k, p) /\ p <= PositionMax
       /\ \E r \in Ranks(MovedTo(i, k, p), k) : WriteOrder(MovedTo(i, k, p), i, r, to, {i})

Written(i, r) ==
  /\ work' = [work EXCEPT ![i] = r]
  /\ tx' = [tx EXCEPT !.at = @ + 1]
  /\ UNCHANGED row

Stage(i) ==
  /\ tx.pass = "stage" /\ tx.place[i] = tx.at
  /\ Written(i, [work[i] EXCEPT !.pos = tx.base + tx.at])

Staged ==
  /\ tx.pass = "stage" /\ tx.at = tx.size
  /\ tx' = [tx EXCEPT !.pass = "settle", !.at = 0]
  /\ UNCHANGED <<row, work>>

WrongChanged(i) == i = tx.item /\ i \notin tx.advanced
\* Siblings whose position changes advance once.
Changed(i) == row[i].pos # tx.place[i] /\ i \notin tx.advanced

Settle(i) ==
  /\ tx.pass = "settle" /\ tx.place[i] = tx.at
  /\ Written(i, [work[i] EXCEPT !.pos = tx.at,
                                !.version = IF Changed(i) THEN @ + 1 ELSE @])

Commit ==
  /\ tx.pass = "settle" /\ tx.at = tx.size
  /\ row' = work /\ tx' = NoTx
  /\ UNCHANGED work

\* A failed statement or check, a failed COMMIT, or the end of the process.
Rollback ==
  /\ tx # NoTx
  /\ work' = row /\ tx' = NoTx
  /\ UNCHANGED row
-----------------------------------------------------------------------------
Next ==
  \/ \E i \in Items :
       \/ RenameItem(i) \/ DeleteItem(i) \/ Stage(i) \/ Settle(i)
       \/ \E k \in Checklists : AddItem(k, i) \/ MoveToEnd(i, k)
       \/ \E to \in 0 .. Cardinality(Items) - 1 :
            Reorder(i, to) \/ \E k \in Checklists : MoveTo(i, k, to)
  \/ \E k \in Checklists :
       DeleteChecklist(k) \/ \E batch \in SUBSET Items \ {{}} : AddItems(k, batch)
  \/ Staged \/ Commit \/ Rollback

Spec == Init /\ [][Next]_vars
-----------------------------------------------------------------------------
Distinct(rows) ==
  \A i, j \in Items :
    Stored(rows[i]) /\ Stored(rows[j]) /\ rows[i].list = rows[j].list
      /\ rows[i].pos = rows[j].pos => i = j

\* No statement meets the constraint UNIQUE(checklist_id, position), wherever
\* the free block lies: two items of a checklist never share a position, not
\* between the statements of the two passes of write_order either.
PositionsDistinct == Distinct(row) /\ Distinct(work)

\* "Capacity belongs to the complete card" (server/mutations/
\* checklist_batch.c:61): whichever way items come to a card, one by one, as
\* a batch, or from a checklist of another card, it never holds more.
CardWithinCapacity == \A k \in Checklists : Total(row, CardOf[k]) <= Capacity

\* Staging never changes revisions, and no item is put elsewhere behind the
\* back of who holds its version: an item with the version it had is in the
\* checklist and at the position it had.
UnversionedUntouched ==
  [][\A i \in Items :
       Stored(row[i]) /\ row'[i].version = row[i].version => row'[i] = row[i]]_vars

KeepsOrder(i, j) ==
  Stored(row[i]) /\ Stored(row[j]) /\ row[i].list = row[j].list
    /\ Stored(row'[i]) /\ Stored(row'[j])
    => /\ row'[i].list = row'[j].list
       /\ row[i].pos < row[j].pos <=> row'[i].pos < row'[j].pos

\* When write_order commits, the item is at the place it was asked to go to,
\* in front of as many items as the request says, and every other item of the
\* board is in its checklist and in its order.
MovesLandExactly ==
  [][tx # NoTx /\ row' # row =>
       /\ row'[tx.item].list = tx.list /\ row'[tx.item].pos = tx.place[tx.item]
       /\ \A j \in Items : Stored(row'[j]) /\ row'[j].list = tx.list
            => row'[j].pos < tx.size
       /\ \A i, j \in Items \ {tx.item} : KeepsOrder(i, j)]_vars
=============================================================================
