----------------------------- MODULE BoardStore -----------------------------
(***************************************************************************)
(* The board rows of the SQLite store and the guarded mutations that       *)
(* change them: cards, the lists and swimlanes that hold them, the archive *)
(* flags and stamps, the WIP limits and the optimistic versions.           *)
(*                                                                         *)
(* wena_sqlite_persistence_apply runs every mutation inside BEGIN          *)
(* IMMEDIATE ... COMMIT and rolls back on the first failed check, so a     *)
(* mutation is one action whose guard is the conjunction of its checks.  A *)
(* request names the versions it expects; one whose version is stale       *)
(* changes nothing, so an action takes the current version.  Positions     *)
(* inside a column are the matter of CardColumn, request identities of     *)
(* HttpRequests.                                                           *)
(*                                                                         *)
(* A definition named Wrong... is a mistake the code could have made; the  *)
(* manifest pairs it with the property that tells it from the real one.    *)
(***************************************************************************)
EXTENDS Naturals, FiniteSets, WipLimit

CONSTANTS
  Cards, Lists, Lanes,  \* identities a row can be created under
  ListBoard, LaneBoard, \* the board every list and swimlane belongs to
  MutateMax,            \* WENA_VERSION_MUTATE_MAX: largest version to mutate
  Times                 \* what the wall clock can read, in any order

ReadMax == MutateMax + 1
Boards == {ListBoard[l] : l \in Lists}

ASSUME BoardStoreAssumption ==
  /\ IsFiniteSet(Cards)
  /\ MutateMax \in Nat \ {0}
  /\ Times \subseteq Nat \ {0}
  /\ ListBoard = [l \in Lists |-> ListBoard[l]]
  /\ LaneBoard = [n \in Lanes |-> LaneBoard[n]]

VARIABLES
  card,    \* the row of every card identity
  list,    \* the row of every list identity
  lane,    \* the row of every swimlane identity
  board,   \* the version of every board row
  hidden   \* history: the cards the last archiving of a swimlane hid

vars == <<card, list, lane, board, hidden>>

Versions == 1 .. ReadMax
NoRow == [version |-> 0]

CardRows == [list : Lists, lane : Lanes, archived : BOOLEAN, at : Nat,
             version : Versions]
ListRows == [archived : BOOLEAN, wip : WipLimits, version : Versions]
LaneRows == [archived : BOOLEAN, at : Nat, version : Versions]

TypeOK ==
  /\ card \in [Cards -> CardRows \cup {NoRow}]
  /\ list \in [Lists -> ListRows \cup {NoRow}]
  /\ lane \in [Lanes -> LaneRows \cup {NoRow}]
  /\ board \in [Boards -> Versions]
  /\ hidden \in [Lanes -> SUBSET Cards]
-----------------------------------------------------------------------------
(* Reading the rows. *)

Stored(row) == row.version > 0
WrongMutable(row) == row.version \in 1 .. ReadMax
\* An expected version a request may carry: decimal(expected, MUTATE_MAX).
Mutable(row) == Stored(row) /\ row.version <= MutateMax
Active(row) == Stored(row) /\ ~row.archived

ParentsActive(c) == Active(list[card[c].list]) /\ Active(lane[card[c].lane])

CardsIn(n) == {c \in Cards : Stored(card[c]) /\ card[c].lane = n}
\* The cards a WIP limit counts, given the card rows cs.
ActiveIn(cs, l) == {c \in Cards : Active(cs[c]) /\ cs[c].list = l}
Count(cs, l) == Cardinality(ActiveIn(cs, l))

\* The destination check of a mutation that has already written cs, where
\* incoming of the counted cards are new (wena_sqlite_list_wip_check_batch).
WipHolds(cs, l, incoming) ==
  WipAllowed(list[l].wip, Count(cs, l) - incoming, 0, incoming)

(* Writing the rows. *)

Bumped(row) == [row EXCEPT !.version = @ + 1]

\* The stamp after prior when the clock reads now: it never goes back.
StampAfter(prior, now) == IF now > prior THEN now ELSE prior + 1

ArchivedRow(row, floor, now) ==
  [Bumped(row) EXCEPT
     !.archived = TRUE,
     !.at = StampAfter(IF row.at > floor THEN row.at ELSE floor, now)]

WrongRestoredRow(row) == [row EXCEPT !.archived = FALSE]
RestoredRow(row) == [Bumped(row) EXCEPT !.archived = FALSE]

WrongPlacedRow(row, l, n) == [Bumped(row) EXCEPT !.list = l]
PlacedRow(row, l, n) == [Bumped(row) EXCEPT !.list = l, !.lane = n]

\* The card rows after archiving the cards S, each at its own clock reading.
CardsArchived(S, floor, now) ==
  [c \in Cards |-> IF c \in S THEN ArchivedRow(card[c], floor, now[c])
                              ELSE card[c]]
CardsRestored(S) ==
  [c \in Cards |-> IF c \in S THEN RestoredRow(card[c]) ELSE card[c]]
CardsPlaced(S, l, n) ==
  [c \in Cards |-> IF c \in S THEN PlacedRow(card[c], l, n) ELSE card[c]]
-----------------------------------------------------------------------------
(* A new workspace: one list and one swimlane on every board, no card. *)

NewList == [archived |-> FALSE, wip |-> DefaultLimit, version |-> 1]
NewLane == [archived |-> FALSE, at |-> 0, version |-> 1]

OnePerBoard(S, boardOf) ==
  \A b \in Boards : \E x \in S : boardOf[x] = b /\ \A y \in S : boardOf[y] = b => y = x

Init ==
  /\ \E ls \in SUBSET Lists :
       /\ OnePerBoard(ls, ListBoard)
       /\ list = [l \in Lists |-> IF l \in ls THEN NewList ELSE NoRow]
  /\ \E ns \in SUBSET Lanes :
       /\ OnePerBoard(ns, LaneBoard)
       /\ lane = [n \in Lanes |-> IF n \in ns THEN NewLane ELSE NoRow]
  /\ card = [c \in Cards |-> NoRow]
  /\ board = [b \in Boards |-> 1]
  /\ hidden = [n \in Lanes |-> {}]
-----------------------------------------------------------------------------
(* Creation, titles, colours and the settings of a board. *)

CreateList(l) ==
  /\ ~Stored(list[l])
  /\ list' = [list EXCEPT ![l] = NewList]
  /\ UNCHANGED <<card, lane, board, hidden>>

CreateLane(n) ==
  /\ ~Stored(lane[n])
  /\ lane' = [lane EXCEPT ![n] = NewLane]
  /\ UNCHANGED <<card, list, board, hidden>>

CreateCard(c, l, n) ==
  /\ ~Stored(card[c])
  /\ ListBoard[l] = LaneBoard[n]
  /\ Active(list[l]) /\ Active(lane[n])
  /\ card' = [card EXCEPT ![c] = [list |-> l, lane |-> n, archived |-> FALSE,
                                  at |-> 0, version |-> 1]]
  /\ WipHolds(card', l, 1)
  /\ UNCHANGED <<list, lane, board, hidden>>

\* A title or a description: only the card itself must be active.
EditCard(c) ==
  /\ Mutable(card[c]) /\ ~card[c].archived
  /\ card' = [card EXCEPT ![c] = Bumped(card[c])]
  /\ UNCHANGED <<list, lane, board, hidden>>

EditListTitle(l) ==
  /\ Mutable(list[l])
  /\ list' = [list EXCEPT ![l] = Bumped(list[l])]
  /\ UNCHANGED <<card, lane, board, hidden>>

EditLaneTitle(n) ==
  /\ Mutable(lane[n])
  /\ lane' = [lane EXCEPT ![n] = Bumped(lane[n])]
  /\ UNCHANGED <<card, list, board, hidden>>

EditBoardTitle(b) ==
  /\ board[b] <= MutateMax
  /\ board' = [board EXCEPT ![b] = @ + 1]
  /\ UNCHANGED <<card, list, lane, hidden>>

\* A colour, for active rows only; the colour stored already writes nothing.
SetListColor(l) ==
  /\ Mutable(list[l]) /\ ~list[l].archived
  /\ list' = [list EXCEPT ![l] = Bumped(list[l])]
  /\ UNCHANGED <<card, lane, board, hidden>>

SetLaneColor(n) ==
  /\ Mutable(lane[n]) /\ ~lane[n].archived
  /\ lane' = [lane EXCEPT ![n] = Bumped(lane[n])]
  /\ UNCHANGED <<card, list, board, hidden>>

\* The checklist and collapse flags of a board; equal flags write nothing.
SetBoardPresentation(b) ==
  /\ board[b] <= MutateMax
  /\ board' = [board EXCEPT ![b] = @ + 1]
  /\ UNCHANGED <<card, list, lane, hidden>>
-----------------------------------------------------------------------------
(* Movement.  A move of one card inside its column is a move too; a batch  *)
(* names every card with its version and moves all of them or none.        *)

MovableCard(c) == Mutable(card[c]) /\ ~card[c].archived /\ ParentsActive(c)

MoveCard(c, l, n) ==
  /\ MovableCard(c)
  /\ ListBoard[l] = ListBoard[card[c].list] /\ LaneBoard[n] = ListBoard[l]
  /\ Active(list[l]) /\ Active(lane[n])
  /\ WipAllowed(list[l].wip, Count(card, l), 0,
                IF card[c].list = l THEN 0 ELSE 1)
  /\ card' = [card EXCEPT ![c] = PlacedRow(card[c], l, n)]
  /\ UNCHANGED <<list, lane, board, hidden>>

\* MOVE_SELECTED_CARDS: within one board.
MoveSelectedCards(S, l, n) ==
  LET incoming == Cardinality({c \in S : card[c].list # l})
  IN  /\ S # {} /\ \A c \in S : MovableCard(c) /\ ListBoard[card[c].list] = ListBoard[l]
      /\ LaneBoard[n] = ListBoard[l]
      /\ Active(list[l]) /\ Active(lane[n])
      /\ WipAllowed(list[l].wip, Count(card, l), 0, incoming)
      /\ card' = CardsPlaced(S, l, n)
      /\ WipHolds(card', l, incoming)
      /\ UNCHANGED <<list, lane, board, hidden>>

\* TRANSFER_SELECTED_CARDS: to another board; both board versions advance.
TransferSelectedCards(S, b, l, n) ==
  LET t == ListBoard[l]
  IN  /\ S # {} /\ \A c \in S : MovableCard(c) /\ ListBoard[card[c].list] = b
      /\ b # t /\ LaneBoard[n] = t
      /\ board[b] <= MutateMax /\ board[t] <= MutateMax
      /\ Active(list[l]) /\ Active(lane[n])
      /\ WipAllowed(list[l].wip, Count(card, l), 0, Cardinality(S))
      /\ card' = CardsPlaced(S, l, n)
      /\ WipHolds(card', l, Cardinality(S))
      /\ board' = [board EXCEPT ![b] = @ + 1, ![t] = @ + 1]
      /\ UNCHANGED <<list, lane, hidden>>
-----------------------------------------------------------------------------
(* Archives of cards. *)

ArchiveCard(c) ==
  \E now \in Times :
    /\ Mutable(card[c]) /\ ~card[c].archived
    /\ card' = [card EXCEPT ![c] = ArchivedRow(card[c], 0, now)]
    /\ UNCHANGED <<list, lane, board, hidden>>

RestoreCard(c) ==
  /\ Mutable(card[c]) /\ card[c].archived
  /\ ParentsActive(c)
  /\ card' = [card EXCEPT ![c] = RestoredRow(card[c])]
  /\ WipHolds(card', card[c].list, 1)
  /\ UNCHANGED <<list, lane, board, hidden>>

\* The list menu: every active card of the list, or of one swimlane of it.
ArchiveListCards(l, ns) ==
  LET S == {c \in ActiveIn(card, l) : card[c].lane \in ns}
  IN  \E now \in [Cards -> Times] :
        /\ Mutable(list[l]) /\ ~list[l].archived
        /\ ns = Lanes \/ \E n \in Lanes : ns = {n} /\ Mutable(lane[n]) /\ ~lane[n].archived
        /\ S # {} /\ \A c \in S : Mutable(card[c])
        /\ card' = CardsArchived(S, 0, now)
        /\ UNCHANGED <<list, lane, board, hidden>>

ArchiveSelectedCards(S) ==
  \E now \in [Cards -> Times] :
    /\ S # {} /\ \A c \in S : Mutable(card[c]) /\ ~card[c].archived
    /\ \E b \in Boards : \A c \in S : ListBoard[card[c].list] = b
    /\ card' = CardsArchived(S, 0, now)
    /\ UNCHANGED <<list, lane, board, hidden>>
-----------------------------------------------------------------------------
(* Archives of lists and swimlanes.  A list only takes its flag; a swimlane *)
(* takes its active cards along.                                            *)

ArchiveList(l) ==
  /\ Mutable(list[l]) /\ ~list[l].archived
  /\ list' = [list EXCEPT ![l] = [Bumped(list[l]) EXCEPT !.archived = TRUE]]
  /\ UNCHANGED <<card, lane, board, hidden>>

RestoreList(l) ==
  /\ Mutable(list[l]) /\ list[l].archived
  /\ list' = [list EXCEPT ![l] = [Bumped(list[l]) EXCEPT !.archived = FALSE]]
  /\ UNCHANGED <<card, lane, board, hidden>>

WrongIsFloor(n, floor) == floor = lane[n].at
\* The largest stamp among a swimlane and all of its cards.
IsFloor(n, floor) ==
  /\ floor = lane[n].at \/ \E c \in CardsIn(n) : card[c].at = floor
  /\ lane[n].at <= floor /\ \A c \in CardsIn(n) : card[c].at <= floor

ArchiveLane(n) ==
  LET S == {c \in CardsIn(n) : ~card[c].archived}
  IN  /\ Mutable(lane[n]) /\ ~lane[n].archived
      /\ \A c \in S : Mutable(card[c])
      /\ \E floor \in {lane[n].at} \cup {card[c].at : c \in CardsIn(n)},
            laneNow \in Times, now \in [Cards -> Times] :
           LET stamp == StampAfter(floor, laneNow)
           IN  /\ IsFloor(n, floor)
               /\ card' = CardsArchived(S, stamp, now)
               /\ lane' = [lane EXCEPT ![n] =
                             [Bumped(lane[n]) EXCEPT !.archived = TRUE, !.at = stamp]]
      /\ hidden' = [hidden EXCEPT ![n] = S]
      /\ UNCHANGED <<list, board>>

WrongCascade(n) == {c \in CardsIn(n) : card[c].archived}
\* The cards a restored swimlane takes for its own cascade.
Cascade(n) ==
  {c \in CardsIn(n) : card[c].archived /\ lane[n].at > 0 /\ card[c].at >= lane[n].at}

WrongCardsFit(cs, S) == TRUE
\* Each restored card is checked; the last one of a list sees them all.
CardsFit(cs, S) == \A c \in S : WipHolds(cs, card[c].list, 1)

RestoreLane(n) ==
  LET S == Cascade(n)
  IN  /\ Mutable(lane[n]) /\ lane[n].archived
      /\ \A c \in S : Mutable(card[c])
      /\ card' = CardsRestored(S)
      /\ CardsFit(card', S)
      /\ lane' = [lane EXCEPT ![n] = [Bumped(lane[n]) EXCEPT !.archived = FALSE]]
      /\ hidden' = [hidden EXCEPT ![n] = {}]
      /\ UNCHANGED <<list, board>>
-----------------------------------------------------------------------------
(* The WIP editor; an edit that leaves the limit as it is writes nothing. *)

EditListWip(l) ==
  /\ Mutable(list[l]) /\ ~list[l].archived
  /\ \E limit \in EditedLimits(list[l].wip, Count(card, l)) :
       /\ limit # list[l].wip
       /\ list' = [list EXCEPT ![l] = [Bumped(list[l]) EXCEPT !.wip = limit]]
  /\ UNCHANGED <<card, lane, board, hidden>>
-----------------------------------------------------------------------------
CardStep(c) ==
  \/ \E l \in Lists, n \in Lanes : CreateCard(c, l, n) \/ MoveCard(c, l, n)
  \/ EditCard(c)
  \/ ArchiveCard(c)
  \/ RestoreCard(c)

BatchStep(S) ==
  \/ \E l \in Lists, n \in Lanes : MoveSelectedCards(S, l, n)
  \/ \E b \in Boards, l \in Lists, n \in Lanes : TransferSelectedCards(S, b, l, n)
  \/ ArchiveSelectedCards(S)

ListStep(l) ==
  \/ CreateList(l)
  \/ EditListTitle(l)
  \/ SetListColor(l)
  \/ ArchiveList(l)
  \/ RestoreList(l)
  \/ EditListWip(l)
  \/ \E ns \in {Lanes} \cup {{n} : n \in Lanes} : ArchiveListCards(l, ns)

LaneStep(n) ==
  \/ CreateLane(n)
  \/ EditLaneTitle(n)
  \/ SetLaneColor(n)
  \/ ArchiveLane(n)
  \/ RestoreLane(n)

Next ==
  \/ \E c \in Cards : CardStep(c)
  \/ \E S \in SUBSET Cards : BatchStep(S)
  \/ \E l \in Lists : ListStep(l)
  \/ \E n \in Lanes : LaneStep(n)
  \/ \E b \in Boards : EditBoardTitle(b) \/ SetBoardPresentation(b)

Spec == Init /\ [][Next]_vars
-----------------------------------------------------------------------------
(* What the mutations guarantee together. *)

LimitHolds(l) ==
  Stored(list[l]) /\ list[l].wip.enabled /\ ~list[l].wip.soft
    => Count(card, l) <= list[l].wip.value

\* A hard limit that is switched on is never exceeded: no order of creations,
\* moves, transfers, restores of cards or of whole swimlanes and edits of the
\* limit leaves more active cards in a list than it allows.  The check reads
\* the count once before the rows are written and once after.
HardWip == \A l \in Lists : LimitHolds(l)

\* A card and its parents are on one board, and its parents are rows of the
\* store: the transfer between boards changes both parents at once.
ParentsTogether ==
  \A c \in Cards : Stored(card[c]) =>
    /\ ListBoard[card[c].list] = LaneBoard[card[c].lane]
    /\ Stored(list[card[c].list]) /\ Stored(lane[card[c].lane])

LaneArchived(n) == Stored(lane[n]) /\ lane[n].archived

HiddenTold(n) ==
  IF LaneArchived(n)
  THEN /\ lane[n].at > 0
       /\ hidden[n] \subseteq CardsIn(n)
       /\ \A c \in CardsIn(n) :
            card[c].archived /\ (c \in hidden[n] <=> card[c].at >= lane[n].at)
  ELSE hidden[n] = {}

\* The stamps say which cards a swimlane hid: in an archived swimlane every
\* card is archived, and the cards at or after the swimlane's stamp are the
\* ones its archiving took along, whatever the clock read and in whichever
\* order cards and swimlanes were archived, restored and moved.
StampsTellHidden == \A n \in Lanes : HiddenTold(n)

\* Restoring a swimlane brings back exactly the cards its archiving hid: a
\* card archived on its own before stays archived, and none is forgotten.
LaneRestoreExact ==
  [][\A n \in Lanes :
       LaneArchived(n) /\ ~LaneArchived(n)'
         => {c \in Cards : card[c] # card'[c]} = hidden[n]
            /\ \A c \in hidden[n] : Active(card'[c])]_vars

\* An optimistic lock holds only if every change of a row is seen: a changed
\* card, list or swimlane has exactly the next version, also when a batch or
\* a swimlane changed it, and a deleted or reset version never comes back.
ChangesAreVersioned ==
  [][/\ \A c \in Cards : card'[c] # card[c] => card'[c].version = card[c].version + 1
     /\ \A l \in Lists : list'[l] # list[l] => list'[l].version = list[l].version + 1
     /\ \A n \in Lanes : lane'[n] # lane[n] => lane'[n].version = lane[n].version + 1
    ]_vars

\* An archived card stays where it was archived, so that a restore returns it
\* to that list and swimlane, and its stamp never goes back.
ArchivedCardKeepsPlace ==
  [][\A c \in Cards : Stored(card[c]) /\ card[c].archived =>
       /\ card'[c].list = card[c].list /\ card'[c].lane = card[c].lane
       /\ card'[c].at >= card[c].at]_vars
=============================================================================
