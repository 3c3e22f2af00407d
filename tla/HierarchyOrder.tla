--------------------------- MODULE HierarchyOrder ---------------------------
(***************************************************************************)
(* The order of the lists of a board (its swimlanes are ordered by the     *)
(* same code), the moves that change it, one updated row at a time, and    *)
(* the copies of the order that desktop processes keep.                    *)
(*                                                                         *)
(* A move is two UPDATE statements over all siblings: the first lifts      *)
(* every position by Shift, the second puts every row where it belongs.    *)
(* UNIQUE(board_id, position) is checked row by row, in whatever order     *)
(* SQLite visits the rows.  Desktop processes send a fingerprint of the    *)
(* order they show; a form of the HTTP service need not.                   *)
(*                                                                         *)
(* Archived siblings keep their positions; that they cannot be moved is    *)
(* the matter of BoardStore.  Moves that are refused, and moves to the     *)
(* place an item has, which desktop processes do not turn into a write,    *)
(* change nothing and are no actions.                                      *)
(*                                                                         *)
(* A definition named Wrong... is a mistake the code could have made; the  *)
(* manifest pairs it with the property that tells it from the real one.    *)
(***************************************************************************)
EXTENDS Integers, Sequences, FiniteSets

CONSTANTS
  Items,      \* identities a list can be created under
  Clients,    \* desktop processes
  Shift,      \* 100000 in the code
  Capacity,   \* WENA_SQLITE_BOARD_MAX_LISTS (128) or _SWIMLANES (64)
  MutateMax   \* WENA_VERSION_MUTATE_MAX

Web == "web"  \* a form of the HTTP service

ASSUME HierarchyOrderAssumption ==
  /\ IsFiniteSet(Items)
  /\ Shift \in Nat /\ Cardinality(Items) <= Shift
  /\ Capacity \in Nat
  /\ MutateMax \in Nat \ {0}
  /\ Web \notin Clients

VARIABLES
  pos,      \* the committed position of every item, 0 before it is created
  version,  \* its committed version, 0 before it is created
  work,     \* the positions as the open transaction sees them
  tx,       \* the open transaction
  cache     \* of every desktop process: its copy of the lists of the board

vars == <<pos, version, work, tx, cache>>

NoTx == [stage |-> "none"]
Txs == [stage : {"shift", "place"},   \* the statement that runs
        done : SUBSET Items,          \* the rows it has updated
        item : Items, old : Nat, target : Nat,
        by : Clients \cup {Web}]
Entries == [item : Items, sort : Nat]

TypeOK ==
  /\ pos \in [Items -> Nat] /\ work \in [Items -> Nat]
  /\ version \in [Items -> 0 .. MutateMax + 1]
  /\ tx \in Txs \cup {NoTx}
  /\ cache \in [Clients -> Seq(Entries)]
-----------------------------------------------------------------------------
(* The rows, and the snapshot a process loads. *)

Rows == {i \in Items : version[i] > 0}
Count == Cardinality(Rows)
Before(i) == {j \in Rows : pos[j] < pos[i]}
Nth(n) == CHOOSE i \in Rows : Cardinality(Before(i)) = n - 1
Snapshot == [n \in 1 .. Count |-> [item |-> Nth(n), sort |-> pos[Nth(n)]]]

\* The position max(position) + 1, or 0.
WrongIsNext(p) == \A i \in Rows : pos[i] < p
IsNext(p) ==
  /\ \A i \in Rows : pos[i] < p
  /\ p = 0 \/ \E i \in Rows : pos[i] = p - 1

\* Positions are 0, 1, 2, ...: the fingerprint is refused otherwise.
Compact(s) == \A n \in DOMAIN s : s[n].sort = n - 1
Shown(s) == [n \in DOMAIN s |-> s[n].item]

WrongSameOrder(s) == Compact(s) /\ Compact(Snapshot) /\ Len(s) = Count
SameOrder(s) ==
  /\ Compact(s) /\ Compact(Snapshot)
  /\ Count <= Capacity
  /\ Shown(s) = Shown(Snapshot)
-----------------------------------------------------------------------------
(* Creating a list: server and desktop. *)

Init ==
  /\ pos = [i \in Items |-> 0] /\ version = [i \in Items |-> 0]
  /\ work = pos /\ tx = NoTx
  /\ cache = [c \in Clients |-> <<>>]

Added(i, p) ==
  /\ tx = NoTx /\ version[i] = 0 /\ IsNext(p)
  /\ pos' = [pos EXCEPT ![i] = p] /\ work' = pos'
  /\ version' = [version EXCEPT ![i] = 1]
  /\ UNCHANGED tx

WebCreate(i) == \E p \in 0 .. Cardinality(Items) : Added(i, p) /\ UNCHANGED cache

WrongCreate(c, i) == Len(cache[c]) < Capacity /\ WebCreate(i)
Create(c, i) ==
  \E p \in 0 .. Cardinality(Items) :
    /\ Len(cache[c]) < Capacity
    /\ Added(i, p)
    /\ cache' = [cache EXCEPT ![c] = Append(@, [item |-> i, sort |-> p])]

\* A process starts, or loads the board again; one with too many lists is
\* refused.
Reload(c) ==
  /\ Count <= Capacity /\ (tx # NoTx => tx.by # c)
  /\ cache' = [cache EXCEPT ![c] = Snapshot]
  /\ UNCHANGED <<pos, version, work, tx>>
-----------------------------------------------------------------------------
(* Moving a list to the place with number t. *)

WrongMovable(i) == i \in Rows
Movable(i) == i \in Rows /\ version[i] <= MutateMax

Begin(by, i, t) ==
  /\ tx = NoTx /\ Movable(i) /\ t < Count
  /\ tx' = [stage |-> "shift", done |-> {}, item |-> i, old |-> pos[i],
            target |-> t, by |-> by]
  /\ UNCHANGED <<pos, version, work, cache>>

WebMove(i, t) == Begin(Web, i, t)

Move(c, i, t) ==
  /\ SameOrder(cache[c]) /\ pos[i] # t
  /\ Begin(c, i, t)

\* What the second statement makes of a position before the first one.
WrongPlaced(i, p) ==
  IF i = tx.item THEN tx.target ELSE IF p = tx.target THEN tx.old ELSE p
Placed(i, p) ==
  CASE i = tx.item -> tx.target
    [] i # tx.item /\ tx.target <= p /\ p < tx.old -> p + 1
    [] i # tx.item /\ tx.old < p /\ p <= tx.target -> p - 1
    [] OTHER -> p

\* What it does to the lifted position of a row, and the first to a position.
Settled(i, p) == Placed(i, p - Shift)
WrongLifted(p) == p + 1
Lifted(p) == p + Shift

UpdateRow(i) ==
  /\ tx # NoTx /\ i \in Rows \ tx.done
  /\ work' = [work EXCEPT ![i] = IF tx.stage = "shift" THEN Lifted(@) ELSE Settled(i, @)]
  /\ tx' = [tx EXCEPT !.done = @ \cup {i}]
  /\ UNCHANGED <<pos, version, cache>>

SecondStatement ==
  /\ tx # NoTx /\ tx.stage = "shift" /\ tx.done = Rows
  /\ tx' = [tx EXCEPT !.stage = "place", !.done = {}]
  /\ UNCHANGED <<pos, version, work, cache>>

\* The entry at one place is moved to another and all are numbered again.
WrongRenumbered(s, from, to) ==
  [n \in DOMAIN s |->
     [item |-> s[IF n = to THEN from ELSE IF n = from THEN to ELSE n].item, sort |-> n - 1]]
Renumbered(s, from, to) ==
  [n \in DOMAIN s |->
     [item |-> s[CASE n = to -> from
                   [] from <= n /\ n < to -> n + 1
                   [] to < n /\ n <= from -> n - 1
                   [] OTHER -> n].item,
      sort |-> n - 1]]

Commit ==
  /\ tx # NoTx /\ tx.stage = "place" /\ tx.done = Rows
  /\ pos' = work /\ tx' = NoTx
  /\ version' = [version EXCEPT ![tx.item] = @ + 1]
  /\ cache' = [c \in Clients |->
                 IF c = tx.by THEN Renumbered(cache[c], tx.old + 1, tx.target + 1)
                 ELSE cache[c]]
  /\ UNCHANGED work

\* A statement or the commit fails, or the process ends.
Rollback ==
  /\ tx # NoTx
  /\ work' = pos /\ tx' = NoTx
  /\ UNCHANGED <<pos, version, cache>>
-----------------------------------------------------------------------------
Places == 0 .. Cardinality(Items) - 1

Next ==
  \/ \E i \in Items :
       \/ WebCreate(i) \/ UpdateRow(i)
       \/ \E c \in Clients : Create(c, i)
       \/ \E t \in Places : WebMove(i, t) \/ \E c \in Clients : Move(c, i, t)
  \/ \E c \in Clients : Reload(c)
  \/ SecondStatement \/ Commit \/ Rollback

Spec == Init /\ [][Next]_vars
-----------------------------------------------------------------------------
\* In whatever order the rows are updated, no update gives a row the position
\* of another: the UNIQUE constraint never makes a move fail.
PositionsDistinct == \A i, j \in Rows : work[i] = work[j] => i = j

\* "Every sibling, including archived entries, owns exactly one contiguous
\* nonnegative position" (client/features/hierarchy_move.c:17).
PositionsContiguous == {pos[i] : i \in Rows} = 0 .. Count - 1

\* A move puts its list where it was asked to, and every other one keeps its
\* version and its place among the others.
MovesLandExactly ==
  [][\A i \in Rows :
       \/ version'[i] = version[i]
       \/ /\ pos'[i] = tx.target
          /\ \A j, k \in Rows \ {i} :
               /\ version'[j] = version[j]
               /\ pos[j] < pos[k] <=> pos'[j] < pos'[k]]_vars

\* What process c loads, or commits and then repeats on its copy.
Own(c) ==
  \/ Reload(c)
  \/ \E i \in Items : Create(c, i)
  \/ Commit /\ tx.by = c

\* After each of its own changes a process that was up to date shows what
\* loading the board again would show: it forgets no change and repeats each
\* as it was committed (client/features/hierarchy_move_mutation.c:103-114).
OwnChangesKeepCacheCurrent ==
  [][\A c \in Clients :
       Own(c) /\ cache[c] = Snapshot => (cache[c] = Snapshot)']_vars

\* A process that was not up to date cannot move a list: after its move it
\* shows what loading the board again would show.
MovesNeedCurrentOrder ==
  [][tx # NoTx /\ version' # version /\ tx.by \in Clients =>
       cache'[tx.by] = Snapshot']_vars
=============================================================================
