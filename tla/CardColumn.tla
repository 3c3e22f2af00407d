----------------------------- MODULE CardColumn -----------------------------
(***************************************************************************)
(* The positions of cards inside the columns of boards, and the            *)
(* transactions that change them, one SQL statement at a time.             *)
(*                                                                         *)
(* A move that names a place rewrites the whole destination column in two  *)
(* passes: every card is first given a position above all others and then  *)
(* its final one.  cards has UNIQUE(list_id, swimlane_id, position), which *)
(* SQLite checks after every statement, so each intermediate row set must  *)
(* satisfy it.  BEGIN IMMEDIATE lets one writer in at a time; readers see  *)
(* the committed rows; a failed check, a failed statement or a crash       *)
(* leaves the committed rows as they were.                                 *)
(*                                                                         *)
(* What a reader sees of all this is stated by ColumnOrder, which the      *)
(* transactions implement (KeepsPromise).                                  *)
(*                                                                         *)
(* Active parents and WIP limits are the matter of BoardStore: here every  *)
(* list and swimlane is active and no limit is set.  Positions stay far    *)
(* below LONG_MAX - 2048, where the readers of a column give up.           *)
(*                                                                         *)
(* A definition named Wrong... is a mistake the code could have made; the  *)
(* manifest pairs it with the property that tells it from the real one.    *)
(***************************************************************************)
EXTENDS Integers, Sequences, FiniteSets

CONSTANTS
  Cards,      \* identities a card can be created under
  Columns,    \* the pairs of a list and a swimlane of the same board
  BoardOf,    \* the board of every column
  Capacity,   \* WENA_CARD_ORDER_CAPACITY (2048)
  MutateMax   \* WENA_VERSION_MUTATE_MAX

ASSUME CardColumnAssumption ==
  /\ IsFiniteSet(Cards)
  /\ Capacity \in Nat \ {0}
  /\ MutateMax \in Nat \ {0}

VARIABLES
  row,    \* the committed row of every card identity
  work,   \* the rows as the open transaction sees them
  tx      \* the open transaction that rewrites a column

vars == <<row, work, tx>>

NoRow == [version |-> 0]
Rows == [column : Columns, pos : Nat, archived : BOOLEAN,
         version : 1 .. MutateMax + 1]

NoTx == [stage |-> "none"]
Txs == [stage : {"arrive", "spread", "settle"},
        at : Nat,                   \* statements of the stage already done
        column : Columns,           \* the column that is rewritten
        arrive : Seq(Cards),        \* cards moved behind its last one first
        explicit : BOOLEAN,         \* their positions are computed beforehand
        order : Seq(Cards),         \* the final order, arrivals included
        last : Int,                 \* largest position before, -1 when empty
        advance : SUBSET Cards]     \* cards whose version the rewrite advances

TypeOK ==
  /\ row \in [Cards -> Rows \cup {NoRow}]
  /\ work \in [Cards -> Rows \cup {NoRow}]
  /\ tx \in Txs \cup {NoTx}
-----------------------------------------------------------------------------
(* Reading a column. *)

Stored(r) == r.version > 0
CardsIn(rows, k) == {c \in Cards : Stored(rows[c]) /\ rows[c].column = k}
CardsOn(rows, b) ==
  {c \in Cards : Stored(rows[c]) /\ BoardOf[rows[c].column] = b}
Count(rows, k) == Cardinality(CardsIn(rows, k))

\* max(position) + 1 of a column, 0 for an empty one.
IsNext(rows, k, p) ==
  /\ \A c \in CardsIn(rows, k) : rows[c].pos < p
  /\ p = 0 \/ \E c \in CardsIn(rows, k) : rows[c].pos = p - 1
NextPositions(rows, k) == {0} \cup {rows[c].pos + 1 : c \in CardsIn(rows, k)}

Increasing(s, key) == \A i, j \in DOMAIN s : i < j => key[s[i]] < key[s[j]]
\* The ways to list the cards S with increasing keys: one when keys differ.
Sorted(S, key) == {s \in [1 .. Cardinality(S) -> S] : Increasing(s, key)}
WrongOrders(rows, k) ==
  Sorted({c \in CardsIn(rows, k) : ~rows[c].archived},
         [c \in CardsIn(rows, k) |-> rows[c].pos])
\* ORDER BY position: archived cards are part of a column's order.
Orders(rows, k) ==
  Sorted(CardsIn(rows, k), [c \in CardsIn(rows, k) |-> rows[c].pos])

LastOf(rows, old) == IF old = <<>> THEN -1 ELSE rows[old[Len(old)]].pos

WrongMovable(c) == Stored(row[c]) /\ ~row[c].archived
\* The version is the one the request expects, and the card is not archived.
Movable(c) == Stored(row[c]) /\ row[c].version <= MutateMax /\ ~row[c].archived

Members(s) == {s[i] : i \in DOMAIN s}
Selections ==
  {sel \in UNION {[1 .. n -> {c \in Cards : Movable(c)}] :
                     n \in 1 .. Cardinality(Cards)} :
     \A i, j \in DOMAIN sel : sel[i] = sel[j] => i = j}
-----------------------------------------------------------------------------
(* The final order of a rewrite. *)

WrongReordered(old, from, to) ==
  [old EXCEPT ![to] = old[from], ![from] = old[to]]
\* memmove of reorder_card: the card at place from goes to place to.
Reordered(old, from, to) ==
  [i \in DOMAIN old |->
     CASE i = to -> old[from]
       [] from <= i /\ i < to -> old[i + 1]
       [] to < i /\ i <= from -> old[i - 1]
       [] OTHER -> old[i]]

\* memmove of insert_card: c becomes number t + 1.
InsertedAt(old, c, t) ==
  [i \in 1 .. Len(old) + 1 |->
     CASE i <= t -> old[i] [] i = t + 1 -> c [] OTHER -> old[i - 1]]

WrongSlotKey(old, sel, before, c) ==
  LET n == Len(sel) + 1
  IN  IF c \in Members(sel)
      THEN (before + (CHOOSE j \in DOMAIN sel : sel[j] = c)) * n - 1
      ELSE (CHOOSE i \in DOMAIN old : old[i] = c) * n
\* The turn at which wena_card_order_insert_selection emits a card: it walks
\* the slots, emits the selection in front of slot number before + 1, and
\* every slot whose card is not selected in its turn.
SlotKey(old, sel, before, c) ==
  LET n == Len(sel) + 1
  IN  IF c \in Members(sel)
      THEN before * n + (CHOOSE j \in DOMAIN sel : sel[j] = c)
      ELSE (CHOOSE i \in DOMAIN old : old[i] = c) * n
WithSelection(old, sel, before) ==
  LET S == Members(old) \cup Members(sel)
  IN  Sorted(S, [c \in S |-> SlotKey(old, sel, before, c)])
-----------------------------------------------------------------------------
Init ==
  /\ row = [c \in Cards |-> NoRow]
  /\ work = row
  /\ tx = NoTx

(* Transactions of one statement. *)

Atomically(rows) == row' = rows /\ work' = rows /\ tx' = NoTx

Create(c, k) ==
  /\ tx = NoTx /\ ~Stored(row[c])
  /\ \E p \in NextPositions(row, k) :
       /\ IsNext(row, k, p)
       /\ Atomically([row EXCEPT ![c] = [column |-> k, pos |-> p,
                                         archived |-> FALSE, version |-> 1]])

\* MOVE_CARD without a place: behind the last card, also of the own column.
MoveToEnd(c, k) ==
  /\ tx = NoTx /\ Movable(c) /\ BoardOf[k] = BoardOf[row[c].column]
  /\ \E p \in NextPositions(row, k) :
       /\ IsNext(row, k, p)
       /\ Atomically([row EXCEPT ![c] = [row[c] EXCEPT !.column = k, !.pos = p,
                                                      !.version = @ + 1]])

SetArchived(c, archived) ==
  /\ tx = NoTx /\ Stored(row[c]) /\ row[c].version <= MutateMax
  /\ row[c].archived # archived
  /\ Atomically([row EXCEPT ![c] = [row[c] EXCEPT !.archived = archived,
                                                 !.version = @ + 1]])

ArchiveCard(c) == SetArchived(c, TRUE)
RestoreCard(c) == SetArchived(c, FALSE)
-----------------------------------------------------------------------------
(* Transactions that rewrite a column: their checks, then their statements. *)

Rewrite(k, arrive, explicit, order, last, advance) ==
  /\ tx' = [stage |-> "arrive", at |-> 0, column |-> k, arrive |-> arrive,
            explicit |-> explicit, order |-> order, last |-> last,
            advance |-> advance]
  /\ UNCHANGED <<row, work>>

WrongAdvance(c) == {}
Advance(c) == {c}

\* MOVE_CARD with a targetPosition inside the card's own column; its present
\* place changes nothing.
Reorder(c, to) ==
  /\ tx = NoTx /\ Movable(c)
  /\ LET k == row[c].column
     IN  /\ Count(row, k) <= Capacity
         /\ \E old \in Orders(row, k) : \E from \in DOMAIN old :
              /\ old[from] = c /\ to \in DOMAIN old /\ to # from
              /\ Rewrite(k, <<>>, FALSE, Reordered(old, from, to),
                         LastOf(row, old), Advance(c))

\* MOVE_CARD with an insertPosition, into another column of the board.
Insert(c, k, t) ==
  /\ tx = NoTx /\ Movable(c)
  /\ k # row[c].column /\ BoardOf[k] = BoardOf[row[c].column]
  /\ Count(row, row[c].column) <= Capacity /\ Count(row, k) < Capacity
  /\ \E old \in Orders(row, k) :
       /\ t <= Len(old)
       /\ Rewrite(k, <<c>>, FALSE, InsertedAt(old, c, t), LastOf(row, old), {})

\* MOVE_SELECTED_CARDS: the order found already changes nothing.
MoveSelected(sel, k, before) ==
  LET b == BoardOf[k]
  IN  /\ tx = NoTx /\ Members(sel) \subseteq CardsOn(row, b)
      /\ Cardinality(CardsOn(row, b)) <= Capacity
      /\ \E old \in Orders(row, k) :
           /\ before <= Len(old)
           /\ \E new \in WithSelection(old, sel, before) :
                /\ new # old
                /\ Rewrite(k, sel, FALSE, new, LastOf(row, old), {})

\* TRANSFER_SELECTED_CARDS: from board b to the board of column k.
TransferSelected(sel, b, k, before) ==
  LET t == BoardOf[k]
  IN  /\ tx = NoTx /\ b # t /\ Members(sel) \subseteq CardsOn(row, b)
      /\ Cardinality(CardsOn(row, b)) <= Capacity
      /\ Cardinality(CardsOn(row, t)) + Len(sel) <= Capacity
      /\ \E old \in Orders(row, k) :
           /\ before <= Len(old)
           /\ \E new \in WithSelection(old, sel, before) :
                Rewrite(k, sel, TRUE, new, LastOf(row, old), {})
-----------------------------------------------------------------------------
(* The statements. *)

WrongBase == tx.last + 1
\* The first position of the first pass: above the column and its arrivals.
Base == tx.last + 1 + Len(tx.arrive)

Done(n) == tx' = [tx EXCEPT !.at = n]
StageDone(stage) == tx' = [tx EXCEPT !.stage = stage, !.at = 0]

Arrive ==
  LET c == tx.arrive[tx.at + 1]
  IN  /\ tx.stage = "arrive" /\ tx.at < Len(tx.arrive)
      /\ \E p \in {tx.last + 1 + tx.at} \cup NextPositions(work, tx.column) :
           /\ IF tx.explicit THEN p = tx.last + 1 + tx.at
                             ELSE IsNext(work, tx.column, p)
           /\ work' = [work EXCEPT ![c] = [work[c] EXCEPT !.column = tx.column,
                                             !.pos = p, !.version = @ + 1]]
      /\ Done(tx.at + 1)
      /\ UNCHANGED row

Arrived ==
  /\ tx.stage = "arrive" /\ tx.at = Len(tx.arrive)
  /\ StageDone("spread")
  /\ UNCHANGED <<row, work>>

Spread ==
  LET c == tx.order[tx.at + 1]
  IN  /\ tx.stage = "spread" /\ tx.at < Len(tx.order)
      /\ work' = [work EXCEPT ![c] = [work[c] EXCEPT !.pos = Base + tx.at]]
      /\ Done(tx.at + 1)
      /\ UNCHANGED row

HasSpread ==
  /\ tx.stage = "spread" /\ tx.at = Len(tx.order)
  /\ StageDone("settle")
  /\ UNCHANGED <<row, work>>

Settle ==
  LET c == tx.order[tx.at + 1]
  IN  /\ tx.stage = "settle" /\ tx.at < Len(tx.order)
      /\ work' = [work EXCEPT ![c] = [work[c] EXCEPT !.pos = tx.at,
                    !.version = @ + IF c \in tx.advance THEN 1 ELSE 0]]
      /\ Done(tx.at + 1)
      /\ UNCHANGED row

Commit ==
  /\ tx.stage = "settle" /\ tx.at = Len(tx.order)
  /\ row' = work /\ tx' = NoTx
  /\ UNCHANGED work

\* A failed statement or check, a failed COMMIT, or the end of the process.
Rollback ==
  /\ tx # NoTx
  /\ work' = row /\ tx' = NoTx
  /\ UNCHANGED row
-----------------------------------------------------------------------------
Boards == {BoardOf[k] : k \in Columns}

Next ==
  \/ \E c \in Cards, k \in Columns : Create(c, k) \/ MoveToEnd(c, k)
  \/ \E c \in Cards : ArchiveCard(c) \/ RestoreCard(c)
  \/ \E c \in Cards, to \in 1 .. Cardinality(Cards) : Reorder(c, to)
  \/ \E k \in Columns, before \in 0 .. Cardinality(Cards) :
       \/ \E c \in Cards : Insert(c, k, before)
       \/ \E sel \in Selections :
            \/ MoveSelected(sel, k, before)
            \/ \E b \in Boards : TransferSelected(sel, b, k, before)
  \/ Arrive \/ Arrived \/ Spread \/ HasSpread \/ Settle \/ Commit \/ Rollback

Spec == Init /\ [][Next]_vars
-----------------------------------------------------------------------------
Distinct(rows) ==
  \A c, d \in Cards :
    Stored(rows[c]) /\ Stored(rows[d]) /\ rows[c].column = rows[d].column
      /\ rows[c].pos = rows[d].pos => c = d

\* No statement of any move meets the constraint UNIQUE(list_id, swimlane_id,
\* position): two cards of a column never share a position, not even between
\* the statements of a two-pass rewrite.
PositionsDistinct == Distinct(row) /\ Distinct(work)

Unversioned(c) == Stored(row[c]) /\ row'[c].version = row[c].version

SameToItsHolder(c) ==
  /\ row'[c].column = row[c].column /\ row'[c].archived = row[c].archived
  /\ \A d \in Cards : Unversioned(d) /\ row[d].column = row[c].column =>
       (row[c].pos < row[d].pos <=> row'[c].pos < row'[d].pos)

\* A rewrite changes the positions of cards whose version it does not advance.
\* That is invisible to whoever holds such a version: the card is in the same
\* column, active or archived as before, and before or behind the same cards.
UnversionedKeepOrder ==
  [][\A c \in Cards : Unversioned(c) => SameToItsHolder(c)]_vars
-----------------------------------------------------------------------------
(* What a reader of the committed rows sees. *)

\* The cards of a column in the order of their positions.
Before(rows, c) ==
  {d \in CardsIn(rows, rows[c].column) : rows[d].pos < rows[c].pos}
OrderOf(rows, k) ==
  [i \in 1 .. Count(rows, k) |->
     CHOOSE c \in CardsIn(rows, k) : Cardinality(Before(rows, c)) = i - 1]

Promise == INSTANCE ColumnOrder WITH
  order <- [k \in Columns |-> OrderOf(row, k)],
  version <- [c \in Cards |-> row[c].version]

\* Whatever statements a transaction is made of, and wherever it fails, a
\* reader of the committed rows sees cards only created at the end of a
\* column or moved as one selection to one place, with their next version,
\* and every other card with its version and in its order.
KeepsPromise == Promise!Spec
=============================================================================
