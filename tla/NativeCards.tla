---------------------------- MODULE NativeCards ----------------------------
(***************************************************************************)
(* The copies that desktop processes keep of the cards of one board.       *)
(*                                                                         *)
(* A process loads the board once and draws its copy in every frame.  Its  *)
(* own changes are committed first and then repeated on the copy; what     *)
(* other processes and the HTTP service commit is not seen until the board *)
(* is loaded again.                                                        *)
(* The Move form and a drag hold, while they are open, the order of the    *)
(* columns they show and the version of the card.                          *)
(*                                                                         *)
(* Nothing reads the order of a copy across columns, so a copy is a        *)
(* sequence per column.  Titles are not told apart.  A request is one      *)
(* step: CardColumn has its statements, HttpRequests its identity.  A      *)
(* version that is no longer current refuses a request and changes         *)
(* nothing, so forms that only hold a version (archive, restore, edit) and *)
(* requests that are refused are no actions.  A drag differs from the Move *)
(* form in one check more before a card goes behind the last of a column.  *)
(*                                                                         *)
(* A definition named Wrong... is a mistake the code could have made; the  *)
(* manifest pairs it with the property that tells it from the real one.    *)
(***************************************************************************)
EXTENDS Integers, Sequences, FiniteSets, FiniteSetsExt, SequencesExt

CONSTANTS
  Processes,  \* desktop processes with the database open
  Cards,      \* identities a card can be created under
  Columns,    \* the pairs of a list and a swimlane of the board
  MaxCards,   \* WENA_SQLITE_BOARD_MAX_CARDS = WENA_CARD_ORDER_CAPACITY (2048)
  MutateMax   \* WENA_VERSION_MUTATE_MAX

ASSUME NativeCardsAssumption ==
  IsFiniteSet(Cards) /\ MaxCards \in Nat \ {0} /\ MutateMax \in Nat \ {0}

VARIABLES
  row,    \* the committed row of every card identity
  copy,   \* of every process: the cards it shows in every column
  panel   \* of every process: its Move form, or the drag it follows

nativeVars == <<row, copy, panel>>

NoRow == [version |-> 0]
Gone == [version |-> -1]    \* on another board
Rows == [column : Columns, pos : Nat, archived : BOOLEAN,
         version : 1 .. MutateMax + 1]
Entries == [card : Cards, pos : Nat, archived : BOOLEAN]

NoPanel == [version |-> 0]
Panels == [card : Cards, version : 1 .. MutateMax + 1,
           column : Columns, order : SUBSET Entries,    \* where the card was
           target : Columns, targetOrder : SUBSET Entries]

NativeTypeOK ==
  /\ row \in [Cards -> Rows \cup {NoRow, Gone}]
  /\ copy \in [Processes -> [Columns -> Seq(Entries)]]
  /\ \A p \in Processes :
       \/ panel[p] = NoPanel
       \/ /\ panel[p].card \in Cards /\ panel[p].version \in 1 .. MutateMax + 1
          /\ panel[p].column \in Columns /\ panel[p].target \in Columns
          /\ panel[p].order \cup panel[p].targetOrder \subseteq Entries
-----------------------------------------------------------------------------
(* The store, and what loading the board shows. *)

Stored(r) == r.version > 0
CardsIn(rows, k) == {c \in Cards : Stored(rows[c]) /\ rows[c].column = k}
Entry(rows, c) ==
  [card |-> c, pos |-> rows[c].pos, archived |-> rows[c].archived]

\* The entries of S in the order of their positions, which are distinct.
InOrder(S) ==
  [n \in 1 .. Cardinality(S) |->
     CHOOSE e \in S : Cardinality({d \in S : d.pos < e.pos}) = n - 1]

\* ORDER BY position; archived cards are loaded as well.
ColumnOf(rows, k) == InOrder({Entry(rows, c) : c \in CardsIn(rows, k)})
BoardOf(rows) == [k \in Columns |-> ColumnOf(rows, k)]

\* A board with more cards is not loaded at all.
Loadable(rows) == Cardinality({c \in Cards : Stored(rows[c])}) <= MaxCards

\* max(position) + 1 of a column, 0 for an empty one.
NextPosition(rows, k) ==
  IF CardsIn(rows, k) = {} THEN 0
  ELSE Max({rows[c].pos : c \in CardsIn(rows, k)}) + 1

WrongMutable(c) == Stored(row[c])
Mutable(c) == Stored(row[c]) /\ row[c].version <= MutateMax
Movable(c) == Mutable(c) /\ ~row[c].archived

\* write_card_column: the cards of s get the positions 0, 1, 2, ... of column k.
Written(rows, k, s) ==
  LET At(c) == {i \in DOMAIN s : s[i].card = c}
  IN [c \in Cards |->
        IF At(c) = {} THEN rows[c]
        ELSE [rows[c] EXCEPT !.column = k, !.pos = Min(At(c)) - 1]]
Advanced(rows, S) ==
  [c \in Cards |-> IF c \in S THEN [rows[c] EXCEPT !.version = @ + 1]
                              ELSE rows[c]]

Appended(c, k, v) ==
  [row EXCEPT ![c] = [column |-> k, pos |-> NextPosition(row, k),
                      archived |-> FALSE, version |-> v]]
Created(c, k) == Appended(c, k, 1)
Archived(S, to) ==
  Advanced([c \in Cards |-> IF c \in S THEN [row[c] EXCEPT !.archived = to]
                                       ELSE row[c]], S)
\* Behind the last card, also of the card's own column.
MovedTo(c, k) ==
  Advanced([row EXCEPT ![c].column = k, ![c].pos = NextPosition(row, k)], {c})
PlacedAs(k, s, S) == Advanced(Written(row, k, s), S)
Left(S) == [c \in Cards |-> IF c \in S THEN Gone ELSE row[c]]

\* What the fingerprint of a column is computed from: not the archived flags.
Places(s) == [i \in DOMAIN s |-> <<s[i].card, s[i].pos>>]
-----------------------------------------------------------------------------
(* The copy of a process. *)

Shown(p) ==
  {x \in Columns \X (1 .. Cardinality(Cards)) : x[2] \in DOMAIN copy[p][x[1]]}
ShownAs(p, c) == {x \in Shown(p) : copy[p][x[1]][x[2]].card = c}
Total(p) == Cardinality(Shown(p))

\* Cards that went to another column meanwhile may share a position with one
\* that was added: such a column is not captured, and no fingerprint is made
\* of one that is not drawn in the order of its positions.
Distinct(s) == \A i, j \in DOMAIN s : s[i].pos = s[j].pos => i = j
Ascending(s) == \A i, j \in DOMAIN s : i < j => s[i].pos < s[j].pos

\* A card is shown at one place at most.
PlaceIn(s, c) == CHOOSE i \in DOMAIN s : s[i].card = c
Without(s, c) ==
  IF \E i \in DOMAIN s : s[i].card = c THEN RemoveAt(s, PlaceIn(s, c)) ELSE s
WrongRenumbered(s) == s
Renumbered(s) == [i \in DOMAIN s |-> [s[i] EXCEPT !.pos = i - 1]]
WrongPutLast(p, k, e) ==
  [j \in Columns |->
     IF \E i \in DOMAIN copy[p][j] : copy[p][j][i].card = e.card /\ j = k
     THEN [i \in DOMAIN copy[p][j] |->
             IF copy[p][j][i].card = e.card THEN e ELSE copy[p][j][i]]
     ELSE IF j = k THEN Append(Without(copy[p][j], e.card), e)
     ELSE Without(copy[p][j], e.card)]
\* The card is drawn behind all others of its new column.
PutLast(p, k, e) ==
  [j \in Columns |-> IF j = k THEN Append(Without(copy[p][j], e.card), e)
                              ELSE Without(copy[p][j], e.card)]
Marked(p, c, archived) ==
  [k \in Columns |-> [i \in DOMAIN copy[p][k] |->
     IF copy[p][k][i].card = c THEN [copy[p][k][i] EXCEPT !.archived = archived]
                               ELSE copy[p][k][i]]]

WrongIsCurrent(s, order) == {e.card : e \in ToSet(s)} = {e.card : e \in order}
\* wena_card_order_current: the copy has exactly the entries captured.
IsCurrent(s, order) == Distinct(s) /\ ToSet(s) = order

WrongShow(p, cards) == UNCHANGED copy
Show(p, cards) == copy' = [copy EXCEPT ![p] = cards]
-----------------------------------------------------------------------------
NativeInit ==
  /\ row = [c \in Cards |-> NoRow]
  /\ copy = [p \in Processes |-> BoardOf(row)]
  /\ panel = [p \in Processes |-> NoPanel]

\* The toolbar's Refresh after a failed drag closes every panel.
Reload(p) ==
  /\ Loadable(row)
  /\ Show(p, BoardOf(row))
  /\ panel' = [panel EXCEPT ![p] = NoPanel]
  /\ UNCHANGED row

\* Preparing a selection to be moved loads the board into the copy as well.
SelectionLoad(p) ==
  /\ Loadable(row)
  /\ Show(p, BoardOf(row))
  /\ UNCHANGED <<row, panel>>

\* The cache must have room; the store does not count.
Create(p, c, k) ==
  /\ row[c] = NoRow /\ Total(p) < MaxCards
  /\ row' = Created(c, k)
  /\ Show(p, PutLast(p, k, Entry(row', c)))
  /\ UNCHANGED panel

ArchiveCard(p, c) ==
  /\ Movable(c) /\ ShownAs(p, c) # {}
  /\ row' = Archived({c}, TRUE)
  /\ Show(p, Marked(p, c, TRUE))
  /\ UNCHANGED panel

\* "Archived cards reserve their existing unique position in SQLite and in the
\* cache" (client/features/card_mutation.c:349).
RestoreCard(p, c) ==
  /\ Mutable(c) /\ row[c].archived
  /\ \E x \in ShownAs(p, c) : copy[p][x[1]][x[2]].archived
  /\ row' = Archived({c}, FALSE)
  /\ Show(p, Marked(p, c, FALSE))
  /\ UNCHANGED panel

\* Requests about several cards publish the board as their transaction left it:
\* archiving chosen cards or those of a list, archiving or restoring a swimlane.
PublishArchived(p, S, to) ==
  /\ S # {} /\ \A c \in S : Mutable(c) /\ row[c].archived # to
  /\ Loadable(row)
  /\ row' = Archived(S, to)
  /\ Show(p, BoardOf(row'))
  /\ UNCHANGED panel

\* The board is still as SelectionLoad showed it (expectedBoardOrder).
Selected(p, S) ==
  /\ S # {} /\ \A c \in S : Movable(c)
  /\ copy[p] = BoardOf(row)

\* wena_card_order_insert_selection, for a selection in some order.
MoveSelected(p, sel, k, before) ==
  LET old == ColumnOf(row, k)
      Rest(I) == InOrder({e \in {old[i] : i \in I} : e.card \notin ToSet(sel)})
      new == Rest(1 .. before) \o [i \in DOMAIN sel |-> Entry(row, sel[i])]
               \o Rest(before + 1 .. Len(old))
  IN /\ Selected(p, ToSet(sel)) /\ before <= Len(old)
     /\ new # old
     /\ row' = PlacedAs(k, new, ToSet(sel))
     /\ Show(p, BoardOf(row'))
     /\ UNCHANGED panel

TransferSelected(p, S) ==
  /\ Selected(p, S)
  /\ row' = Left(S)
  /\ Show(p, BoardOf(row'))
  /\ UNCHANGED panel
-----------------------------------------------------------------------------
(* The Move form and a drag. *)

Open(p, c) ==
  /\ Stored(row[c]) /\ ~row[c].archived
  /\ \E x \in ShownAs(p, c) :
       LET k == x[1]  s == copy[p][k]
       IN /\ ~s[x[2]].archived /\ Distinct(s)
          /\ panel' = [panel EXCEPT ![p] =
               [card |-> c, version |-> row[c].version, column |-> k,
                order |-> ToSet(s), target |-> k, targetOrder |-> ToSet(s)]]
  /\ UNCHANGED <<row, copy>>

\* A destination is captured once, when it is chosen; one whose positions are
\* not distinct is never current.
Choose(p, k) ==
  /\ panel[p] # NoPanel /\ panel[p].target # k
  /\ panel' = [panel EXCEPT ![p].target = k,
                            ![p].targetOrder = ToSet(copy[p][k])]
  /\ UNCHANGED <<row, copy>>

Close(p) ==
  /\ panel[p] # NoPanel
  /\ panel' = [panel EXCEPT ![p] = NoPanel]
  /\ UNCHANGED <<row, copy>>

\* The card is still drawn where it was, and its version is the one loaded.
Ready(p) ==
  /\ panel[p] # NoPanel
  /\ LET c == panel[p].card
     IN /\ \E x \in ShownAs(p, c) :
             x[1] = panel[p].column /\ ~copy[p][x[1]][x[2]].archived
        /\ Movable(c) /\ row[c].version = panel[p].version

\* Behind the last card of any column, whatever the copy shows of it.
SaveMove(p) ==
  /\ Ready(p)
  /\ LET c == panel[p].card  k == panel[p].target
     IN /\ row' = MovedTo(c, k)
        /\ Show(p, PutLast(p, k, Entry(row', c)))
  /\ panel' = [panel EXCEPT ![p] = NoPanel]

WrongFingerprint(p, k) == Len(copy[p][k]) = Len(ColumnOf(row, k))
\* The fingerprint of what the process shows is the store's.
Fingerprint(p, k) ==
  Ascending(copy[p][k]) /\ Places(copy[p][k]) = Places(ColumnOf(row, k))

\* To place number t + 1 of the card's own column, which is not its present one.
SaveReorder(p, t) ==
  /\ Ready(p)
  /\ LET c == panel[p].card
         k == panel[p].column
         s == copy[p][k]
         at == PlaceIn(s, c)
         new == InsertAt(RemoveAt(s, at), t + 1, s[at])
     IN /\ panel[p].target = k /\ t < Len(s) /\ at # t + 1
        /\ IsCurrent(s, panel[p].order) /\ Fingerprint(p, k)
        /\ row' = PlacedAs(k, new, {c})
        /\ Show(p, [copy[p] EXCEPT ![k] = Renumbered(new)])
  /\ panel' = [panel EXCEPT ![p] = NoPanel]

\* Before the card number t + 1 of another column, or behind its last.
SaveInsert(p, t) ==
  /\ Ready(p)
  /\ LET c == panel[p].card
         from == panel[p].column
         k == panel[p].target
         s == copy[p][from]
         e == s[PlaceIn(s, c)]
         new == InsertAt(copy[p][k], t + 1, e)
     IN /\ k # from /\ t <= Len(copy[p][k]) /\ Len(copy[p][k]) < MaxCards
        /\ IsCurrent(s, panel[p].order)
        /\ IsCurrent(copy[p][k], panel[p].targetOrder)
        /\ Fingerprint(p, from) /\ Fingerprint(p, k)
        /\ row' = PlacedAs(k, new, {c})
        /\ Show(p, [copy[p] EXCEPT ![from] = Without(s, c),
                                   ![k] = Renumbered(new)])
  /\ panel' = [panel EXCEPT ![p] = NoPanel]
-----------------------------------------------------------------------------
\* What other clients commit: the service, and the processes whose copies are
\* not modelled, each with the column it changes as it is.  Titles share the
\* version of the card.  A card of another board comes behind the others of its
\* column, with the version its transfer gave it, if there is room; coming to
\* another place is an addition and a placing.  A card that left does not come back.
Elsewhere ==
  /\ \/ \E c \in Cards, k \in Columns :
          \/ row[c] = NoRow /\ row' = Created(c, k)
          \/ /\ row[c] = NoRow
             /\ \E v \in 2 .. MutateMax + 1 : row' = Appended(c, k, v)
             /\ Loadable(row')
          \/ Movable(c) /\ row' = MovedTo(c, k)
          \/ /\ Movable(c)
             /\ LET s == Without(ColumnOf(row, k), c)
                IN \E t \in 0 .. Len(s) :
                     row' = PlacedAs(k, InsertAt(s, t + 1, Entry(row, c)), {c})
     \/ \E c \in Cards : /\ Mutable(c)
                         /\ \/ row' = Archived({c}, ~row[c].archived)
                            \/ row' = Advanced(row, {c})
                            \/ ~row[c].archived /\ row' = Left({c})
  /\ UNCHANGED <<copy, panel>>

PlaceNumbers == 0 .. Cardinality(Cards)
Selections ==
  {sel \in UNION {[1 .. n -> Cards] : n \in 1 .. Cardinality(Cards)} :
     \A i, j \in DOMAIN sel : sel[i] = sel[j] => i = j}

Changes(p) ==
  \/ \E c \in Cards, k \in Columns : Create(p, c, k)
  \/ \E c \in Cards : ArchiveCard(p, c) \/ RestoreCard(p, c)
  \/ \E S \in SUBSET Cards, to \in BOOLEAN : PublishArchived(p, S, to)
  \/ \E S \in SUBSET Cards : TransferSelected(p, S)

OwnNext(p) ==
  \/ Reload(p) \/ SelectionLoad(p) \/ Changes(p)
  \/ \E sel \in Selections, k \in Columns, n \in PlaceNumbers :
       MoveSelected(p, sel, k, n)

PanelNext(p) ==
  \/ \E c \in Cards : Open(p, c)
  \/ \E k \in Columns : Choose(p, k)
  \/ Close(p) \/ SaveMove(p)
  \/ \E t \in PlaceNumbers : SaveReorder(p, t) \/ SaveInsert(p, t)

NativeNext ==
  \/ \E p \in Processes : OwnNext(p) \/ PanelNext(p)
  \/ Elsewhere

NativeSpec == NativeInit /\ [][NativeNext]_nativeVars
-----------------------------------------------------------------------------
\* "Never update caller-owned display models before the SQLite commit"
\* (client/features/card_mutation.c:112) is half of it: what a process repeats
\* on its copy after the commit is what loading the board again would show,
\* places, archived cards and order included, if the copy was current before.
\* A step that leaves a current copy behind is another client's: it leaves the
\* copy as it was, and is neither a change this process commits nor a step of
\* its form or drag.  (That a move of selected cards is published at all is not
\* asked: it publishes the board of its transaction as the other requests do.)
OwnChangesKeepCopyCurrent ==
  [][\A p \in Processes :
       copy[p] = BoardOf(row) /\ copy'[p] # BoardOf(row')
         => copy'[p] = copy[p] /\ ~Changes(p) /\ ~PanelNext(p)]_nativeVars

\* The cards of column k that are put elsewhere in it with no new version.
Shifted(k) ==
  {c \in CardsIn(row, k) \cap CardsIn(row', k) :
     row'[c].version = row[c].version /\ row'[c].pos # row[c].pos}
Captured(p, k) ==
  IF panel[p].column = k THEN panel[p].order ELSE panel[p].targetOrder
PlacesOf(S) == {<<e.card, e.pos>> : e \in S}

\* A form or a drag that shifts other cards does it to the column its user saw
\* when it was opened, however stale the copy is in other columns, and
\* afterwards shows that column as it is stored.
SavesWhatWasShown ==
  [][\A p \in Processes, k \in Columns :
       panel[p] # NoPanel /\ panel'[p] = NoPanel /\ Shifted(k) # {}
         => /\ PlacesOf(Captured(p, k)) = ToSet(Places(ColumnOf(row, k)))
            /\ Places(copy'[p][k]) = Places(ColumnOf(row', k))]_nativeVars
=============================================================================
