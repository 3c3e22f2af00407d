---------------------------- MODULE CardContents ----------------------------
(***************************************************************************)
(* What belongs to a card, and the mutations that change it or carry it    *)
(* along: checklists with their items, the labels assigned to it from the  *)
(* catalogue of its board, its members and assignees.                      *)
(*                                                                         *)
(* Every row repeats the board, and where it has one the card, that it     *)
(* belongs to, and composite foreign keys tie them together.  A card that  *)
(* goes to another board and a checklist that goes to another card take    *)
(* their rows along in several statements with the check put off until     *)
(* COMMIT (defer_foreign_keys): a row left behind refuses the whole        *)
(* request, every time.                                                    *)
(*                                                                         *)
(* A mutation is one transaction and one action; a request carries the     *)
(* versions of the rows it names, one whose versions are stale changes     *)
(* nothing.  Positions are the matter of ChecklistOrder and CardColumn,    *)
(* lists and swimlanes that of BoardStore, titles and colours are left out.*)
(*                                                                         *)
(* A definition named Wrong... is a mistake the code could have made; the  *)
(* manifest pairs it with the property that tells it from the real one.    *)
(***************************************************************************)
EXTENDS Naturals, FiniteSets

CONSTANTS
  Boards, Cards,
  Checklists, Items,  \* identities a row can be created under
  Labels, LabelBoard, \* identities of labels, and the board of each
  Names,              \* titles of labels, the empty one among them
  Actors, Members,    \* Members[b]: the active members of board b
  ListCapacity,       \* WENA_CHECKLIST_MAX_PER_CARD (64)
  ItemCapacity,       \* WENA_CHECKLIST_MAX_ITEMS of a card (1024)
  LabelCapacity,      \* WENA_BOARD_LABEL_CAPACITY of a board (128)
  MutateMax           \* WENA_VERSION_MUTATE_MAX

ASSUME CardContentsAssumption ==
  /\ IsFiniteSet(Checklists) /\ IsFiniteSet(Items) /\ IsFiniteSet(Labels)
  /\ LabelBoard \in [Labels -> Boards]
  /\ Members \in [Boards -> SUBSET Actors]
  /\ ListCapacity \in Nat /\ ItemCapacity \in Nat /\ LabelCapacity \in Nat
  /\ MutateMax \in Nat \ {0}

VARIABLES
  board,     \* the version of every board
  card,      \* the row of every card
  checklist, \* the row of every checklist identity
  item,      \* the row of every item identity
  label,     \* the row of every label identity
  tags,      \* card_labels
  people     \* card_people

vars == <<board, card, checklist, item, label, tags, people>>

ReadMax == MutateMax + 1
Versions == 1 .. ReadMax
NoRow == [version |-> 0]
Fields == {"members", "assignees"}

CardRows == [board : Boards, archived : BOOLEAN, version : Versions]
ChecklistRows == [board : Boards, card : Cards, version : Versions]
ItemRows ==
  [board : Boards, card : Cards, list : Checklists, version : Versions]
LabelRows == [name : Names, version : Versions]
Tags == [board : Boards, card : Cards, label : Labels]
People == [board : Boards, card : Cards, field : Fields, actor : Actors]

TypeOK ==
  /\ board \in [Boards -> Versions]
  /\ card \in [Cards -> CardRows]
  /\ checklist \in [Checklists -> ChecklistRows \cup {NoRow}]
  /\ item \in [Items -> ItemRows \cup {NoRow}]
  /\ label \in [Labels -> LabelRows \cup {NoRow}]
  /\ tags \subseteq Tags /\ people \subseteq People

-----------------------------------------------------------------------------
(* Reading the rows. *)

Stored(row) == row.version > 0
WrongMutable(row) == row.version \in 1 .. ReadMax
\* A version a request may carry: decimal(expected, MUTATE_MAX).
Mutable(row) == row.version \in 1 .. MutateMax
MutableBoard(b) == board[b] <= MutateMax

ListsOn(c) == {k \in Checklists : Stored(checklist[k]) /\ checklist[k].card = c}
ItemsOn(c) == {i \in Items : Stored(item[i]) /\ item[i].card = c}
ItemsIn(k) == {i \in Items : Stored(item[i]) /\ item[i].list = k}
Catalogue(b) == {l \in Labels : Stored(label[l]) /\ LabelBoard[l] = b}
TagsOn(c) == {t \in tags : t.card = c}
PeopleOn(c) == {p \in people : p.card = c}

\* card_revision: the card a request may change.
Open(c) == ~card[c].archived /\ Mutable(card[c])

OpenList(k) == Mutable(checklist[k]) /\ Open(checklist[k].card)

(* Writing the rows. *)

Advanced(row) == [row EXCEPT !.version = @ + 1]
AdvanceBoards(S) ==
  board' = [b \in Boards |-> IF b \in S THEN board[b] + 1 ELSE board[b]]
AdvanceCards(S) ==
  card' = [c \in Cards |-> IF c \in S THEN Advanced(card[c]) ELSE card[c]]
AdvanceLists(S) ==
  checklist' = [k \in Checklists |->
                  IF k \in S THEN Advanced(checklist[k]) ELSE checklist[k]]

NewChecklist(c) == [board |-> card[c].board, card |-> c, version |-> 1]
NewItem(k) ==
  [board |-> checklist[k].board, card |-> checklist[k].card, list |-> k,
   version |-> 1]

-----------------------------------------------------------------------------
(* Boards as the import of WeKan's files or earlier sessions leave them: any *)
(* contents that fit, every version at 1.                                    *)

Assignable(t) ==
  /\ t.board = card[t.card].board
  /\ Stored(label[t.label]) /\ LabelBoard[t.label] = t.board

Allowed(p) ==
  /\ p.board = card[p.card].board
  /\ p.field = "members" => p.actor \in Members[p.board]

Fits ==
  /\ \A c \in Cards : Cardinality(ListsOn(c)) <= ListCapacity
  /\ \A c \in Cards : Cardinality(ItemsOn(c)) <= ItemCapacity
  /\ \A b \in Boards : Cardinality(Catalogue(b)) <= LabelCapacity

Init ==
  /\ board = [b \in Boards |-> 1]
  /\ card \in [Cards -> [board : Boards, archived : BOOLEAN, version : {1}]]
  /\ checklist \in [Checklists -> {NoRow} \cup {NewChecklist(c) : c \in Cards}]
  /\ item \in [Items -> {NoRow} \cup
                 {NewItem(k) : k \in {m \in Checklists : Stored(checklist[m])}}]
  /\ label \in [Labels -> {NoRow} \cup [name : Names, version : {1}]]
  /\ tags \in SUBSET {t \in Tags : Assignable(t)}
  /\ people \in SUBSET {p \in People : Allowed(p)}
  /\ Fits

-----------------------------------------------------------------------------
(* Checklists and their items: checklist_change and the batch. *)

CreateChecklist(c, k) ==
  /\ Open(c) /\ ~Stored(checklist[k])
  /\ Cardinality(ListsOn(c)) < ListCapacity
  /\ checklist' = [checklist EXCEPT ![k] = NewChecklist(c)]
  /\ AdvanceCards({c})
  /\ UNCHANGED <<board, item, label, tags, people>>

WrongRoomFor(c, n) == Cardinality(ItemsOn(c)) < ItemCapacity

RoomFor(c, n) == Cardinality(ItemsOn(c)) + n <= ItemCapacity

\* One item, or a batch.
AddItems(k, S) ==
  /\ OpenList(k)
  /\ S # {} /\ \A i \in S : ~Stored(item[i])
  /\ RoomFor(checklist[k].card, Cardinality(S))
  /\ item' = [i \in Items |-> IF i \in S THEN NewItem(k) ELSE item[i]]
  /\ AdvanceLists({k}) /\ AdvanceCards({checklist[k].card})
  /\ UNCHANGED <<board, label, tags, people>>

\* A title, or the flags of a checklist.
EditChecklist(k) ==
  /\ OpenList(k)
  /\ AdvanceLists({k}) /\ AdvanceCards({checklist[k].card})
  /\ UNCHANGED <<board, item, label, tags, people>>

WrongEditItem(i) ==
  /\ Mutable(item[i]) /\ OpenList(item[i].list)
  /\ item' = [item EXCEPT ![i] = Advanced(item[i])]
  /\ AdvanceLists({item[i].list})
  /\ UNCHANGED <<board, card, label, tags, people>>

\* A title, or the check mark: the checklist keeps its version.
EditItem(i) ==
  /\ Mutable(item[i]) /\ OpenList(item[i].list)
  /\ item' = [item EXCEPT ![i] = Advanced(item[i])]
  /\ AdvanceCards({item[i].card})
  /\ UNCHANGED <<board, checklist, label, tags, people>>

DeleteItem(i) ==
  /\ Mutable(item[i]) /\ OpenList(item[i].list)
  /\ item' = [item EXCEPT ![i] = NoRow]
  /\ AdvanceLists({item[i].list}) /\ AdvanceCards({item[i].card})
  /\ UNCHANGED <<board, label, tags, people>>

DeleteChecklist(k) ==
  /\ OpenList(k)
  /\ item' = [i \in Items |-> IF i \in ItemsIn(k) THEN NoRow ELSE item[i]]
  /\ checklist' = [checklist EXCEPT ![k] = NoRow]
  /\ AdvanceCards({checklist[k].card})
  /\ UNCHANGED <<board, label, tags, people>>

\* wena_sqlite_checklist_order: the rows that get another position, S.
ReorderChecklists(c, S) ==
  /\ Open(c)
  /\ S # {} /\ S \subseteq ListsOn(c) /\ \A k \in S : Mutable(checklist[k])
  /\ AdvanceLists(S) /\ AdvanceCards({c})
  /\ UNCHANGED <<board, item, label, tags, people>>

ReorderItems(k, S) ==
  /\ OpenList(k)
  /\ S # {} /\ S \subseteq ItemsIn(k) /\ \A i \in S : Mutable(item[i])
  /\ item' = [i \in Items |-> IF i \in S THEN Advanced(item[i]) ELSE item[i]]
  /\ AdvanceLists({k}) /\ AdvanceCards({checklist[k].card})
  /\ UNCHANGED <<board, label, tags, people>>

-----------------------------------------------------------------------------
(* Checklists and items that go to another card, of any board. *)

ListAt(row, c) == [Advanced(row) EXCEPT !.board = card[c].board, !.card = c]

WrongItemAt(row, c, k) == [Advanced(row) EXCEPT !.card = c, !.list = k]

ItemAt(row, c, k) ==
  [Advanced(row) EXCEPT !.board = card[c].board, !.card = c, !.list = k]

\* S: the checklists of the other card that get another position.
MoveChecklist(k, c, S) ==
  LET from == checklist[k].card
  IN /\ OpenList(k) /\ Open(c) /\ c # from
     /\ Cardinality(ListsOn(c)) < ListCapacity
     /\ RoomFor(c, Cardinality(ItemsIn(k)))
     /\ \A i \in ItemsIn(k) : Mutable(item[i])
     /\ S \subseteq ListsOn(c) /\ \A s \in S : Mutable(checklist[s])
     /\ checklist' = [s \in Checklists |->
                        IF s = k THEN ListAt(checklist[k], c)
                        ELSE IF s \in S THEN Advanced(checklist[s])
                        ELSE checklist[s]]
     /\ item' = [i \in Items |-> IF i \in ItemsIn(k) THEN ItemAt(item[i], c, k)
                                                    ELSE item[i]]
     /\ AdvanceCards({from, c})
     /\ UNCHANGED <<board, label, tags, people>>

\* S: the items of the other checklist that get another position.
MoveItem(i, k, S) ==
  LET from == item[i].list
      c == checklist[k].card
  IN /\ Mutable(item[i]) /\ OpenList(from) /\ OpenList(k) /\ k # from
     /\ c # item[i].card => RoomFor(c, 1)
     /\ S \subseteq ItemsIn(k) /\ \A s \in S : Mutable(item[s])
     /\ item' = [s \in Items |-> IF s = i THEN ItemAt(item[i], c, k)
                                 ELSE IF s \in S THEN Advanced(item[s])
                                 ELSE item[s]]
     /\ AdvanceLists({from, k}) /\ AdvanceCards({item[i].card, c})
     /\ UNCHANGED <<board, label, tags, people>>

-----------------------------------------------------------------------------
(* The catalogue of labels, and assignments. *)

CreateLabel(l, n) ==
  /\ ~Stored(label[l]) /\ MutableBoard(LabelBoard[l])
  /\ Cardinality(Catalogue(LabelBoard[l])) < LabelCapacity
  /\ label' = [label EXCEPT ![l] = [name |-> n, version |-> 1]]
  /\ AdvanceBoards({LabelBoard[l]})
  /\ UNCHANGED <<card, checklist, item, tags, people>>

EditLabel(l, n) ==
  /\ Mutable(label[l]) /\ MutableBoard(LabelBoard[l])
  /\ label' = [label EXCEPT ![l] = [Advanced(label[l]) EXCEPT !.name = n]]
  /\ AdvanceBoards({LabelBoard[l]})
  /\ UNCHANGED <<card, checklist, item, tags, people>>

Carrying(l) == {t.card : t \in {u \in tags : u.label = l}}

WrongReached(l) == {c \in Carrying(l) : ~card[c].archived}

\* The cards a deletion changes, the archived ones with them.
Reached(l) == Carrying(l)

DeleteLabel(l) ==
  /\ Mutable(label[l]) /\ MutableBoard(LabelBoard[l])
  /\ \A c \in Reached(l) : Mutable(card[c])
  /\ AdvanceCards(Reached(l))
  /\ tags' = {t \in tags : t.label # l}
  /\ label' = [label EXCEPT ![l] = NoRow]
  /\ AdvanceBoards({LabelBoard[l]})
  /\ UNCHANGED <<checklist, item, people>>

\* Cards selected on a board; only those the request changes advance.
Selected(S, b) == \A c \in S : card[c].board = b /\ Open(c)

AssignLabel(l, S) ==
  LET at == LabelBoard[l]
      changed == S \ Carrying(l)
  IN /\ Mutable(label[l]) /\ MutableBoard(at)
     /\ Selected(S, at) /\ changed # {}
     /\ tags' = tags \cup {[board |-> at, card |-> c, label |-> l] : c \in changed}
     /\ AdvanceCards(changed) /\ AdvanceBoards({at})
     /\ UNCHANGED <<checklist, item, label, people>>

UnassignLabel(l, S) ==
  LET at == LabelBoard[l]
      changed == S \cap Carrying(l)
  IN /\ Mutable(label[l]) /\ MutableBoard(at)
     /\ Selected(S, at) /\ changed # {}
     /\ tags' = {t \in tags : ~(t.label = l /\ t.card \in changed)}
     /\ AdvanceCards(changed) /\ AdvanceBoards({at})
     /\ UNCHANGED <<checklist, item, label, people>>

-----------------------------------------------------------------------------
(* Members and assignees. *)

Having(f, a) == {p.card : p \in {q \in people : q.field = f /\ q.actor = a}}

AddPerson(b, S, f, a) ==
  LET changed == S \ Having(f, a)
  IN /\ MutableBoard(b) /\ a \in Members[b]
     /\ Selected(S, b) /\ changed # {}
     /\ people' = people \cup
          {[board |-> b, card |-> c, field |-> f, actor |-> a] : c \in changed}
     /\ AdvanceCards(changed) /\ AdvanceBoards({b})
     /\ UNCHANGED <<checklist, item, label, tags>>

RemovePerson(b, S, f, a) ==
  LET changed == S \cap Having(f, a)
  IN /\ MutableBoard(b)
     /\ Selected(S, b) /\ changed # {}
     /\ people' = {p \in people :
                     ~(p.field = f /\ p.actor = a /\ p.card \in changed)}
     /\ AdvanceCards(changed) /\ AdvanceBoards({b})
     /\ UNCHANGED <<checklist, item, label, tags>>

-----------------------------------------------------------------------------
(* Cards that go to another board (transfer_selected_cards). *)

NamesOn(c) == {label[t.label].name : t \in TagsOn(c)} \ {""}

\* wena_label_transfer_map: the labels of the other board with a name the card
\* carries, whatever their colour.
LabelsAt(c, b) == {l \in Catalogue(b) : label[l].name \in NamesOn(c)}

TagsAt(S, b) ==
  {t \in tags : t.card \notin S} \cup
  UNION {{[board |-> b, card |-> c, label |-> l] : l \in LabelsAt(c, b)} : c \in S}

WrongStays(p, b) == TRUE
\* Members of the card who are none of the board are left behind.
Stays(p, b) == p.field = "members" => p.actor \in Members[b]

PeopleAt(S, b) ==
  {p \in people : p.card \notin S} \cup
  {[p EXCEPT !.board = b] : p \in {q \in people : q.card \in S /\ Stays(q, b)}}

WrongReboarded(row, b) == [row EXCEPT !.board = b]
Reboarded(row, b) == [Advanced(row) EXCEPT !.board = b]

WrongBothBoards(b, other) == {other}
BothBoards(b, other) == {b, other}

\* Cards shifted in the column they go to keep their versions.
TransferCards(S, from, to) ==
  /\ from # to /\ S # {} /\ Selected(S, from)
  /\ MutableBoard(from) /\ MutableBoard(to)
  /\ \A c \in S : /\ \A k \in ListsOn(c) : Mutable(checklist[k])
                  /\ \A i \in ItemsOn(c) : Mutable(item[i])
  /\ checklist' = [k \in Checklists |->
                     IF \E c \in S : k \in ListsOn(c)
                     THEN Reboarded(checklist[k], to) ELSE checklist[k]]
  /\ item' = [i \in Items |-> IF \E c \in S : i \in ItemsOn(c)
                              THEN Reboarded(item[i], to) ELSE item[i]]
  /\ tags' = TagsAt(S, to)
  /\ people' = PeopleAt(S, to)
  /\ card' = [c \in Cards |-> IF c \in S
                              THEN [Advanced(card[c]) EXCEPT !.board = to]
                              ELSE card[c]]
  /\ AdvanceBoards(BothBoards(from, to))
  /\ UNCHANGED label

\* Archiving and restoring, and every other change of the row of a card.
ChangeCard(c) ==
  /\ Mutable(card[c])
  /\ \E a \in BOOLEAN :
       card' = [card EXCEPT ![c] = [Advanced(card[c]) EXCEPT !.archived = a]]
  /\ UNCHANGED <<board, checklist, item, label, tags, people>>

-----------------------------------------------------------------------------
ChecklistNext ==
  \/ \E c \in Cards, k \in Checklists : CreateChecklist(c, k)
  \/ \E k \in Checklists, S \in SUBSET Items : AddItems(k, S)
  \/ \E k \in Checklists : EditChecklist(k) \/ DeleteChecklist(k)
  \/ \E i \in Items : EditItem(i) \/ DeleteItem(i)
  \/ \E c \in Cards, S \in SUBSET Checklists : ReorderChecklists(c, S)
  \/ \E k \in Checklists, S \in SUBSET Items : ReorderItems(k, S)
  \/ \E k \in Checklists, c \in Cards, S \in SUBSET Checklists :
       MoveChecklist(k, c, S)
  \/ \E i \in Items, k \in Checklists, S \in SUBSET Items : MoveItem(i, k, S)

LabelNext ==
  \/ \E l \in Labels, n \in Names : CreateLabel(l, n) \/ EditLabel(l, n)
  \/ \E l \in Labels : DeleteLabel(l)
  \/ \E l \in Labels, S \in SUBSET Cards : AssignLabel(l, S) \/ UnassignLabel(l, S)

PeopleNext ==
  \E b \in Boards, S \in SUBSET Cards, f \in Fields, a \in Actors :
    AddPerson(b, S, f, a) \/ RemovePerson(b, S, f, a)

CardNext ==
  \/ \E S \in SUBSET Cards, from, to \in Boards : TransferCards(S, from, to)
  \/ \E c \in Cards : ChangeCard(c)

Next == ChecklistNext \/ LabelNext \/ PeopleNext \/ CardNext

Spec == Init /\ [][Next]_vars

-----------------------------------------------------------------------------
\* The composite foreign keys, checked at COMMIT: whatever goes to another
\* board or card, no row of it stays in the scope it left and none points at a
\* label of the board it left, so no request is refused for what it left
\* behind.
ScopesAgree ==
  /\ \A k \in Checklists : Stored(checklist[k]) =>
       checklist[k].board = card[checklist[k].card].board
  /\ \A i \in Items : Stored(item[i]) =>
       LET k == item[i].list
       IN Stored(checklist[k]) /\ item[i].card = checklist[k].card
            /\ item[i].board = checklist[k].board
  /\ \A t \in tags : Assignable(t)
  /\ \A p \in people : p.board = card[p.card].board

\* "Capacity belongs to the complete card" (server/mutations/
\* checklist_batch.c:61), and a catalogue has room for its labels: a checklist
\* that comes with its items is counted as well as single rows are.
WithinCapacity == Fits

\* Nobody becomes a member of a card on a board whose member he is not, by
\* the card changing its board either.
MembersBelong ==
  \A p \in people : p.field = "members" => p.actor \in Members[card[p.card].board]

ContentsOf(c) ==
  <<[k \in ListsOn(c) |-> checklist[k]], [i \in ItemsOn(c) |-> item[i]],
    TagsOn(c), PeopleOn(c), card[c].board>>

\* Dialogs hold the version of a card and save over what they showed: a change
\* of anything on a card, from whichever card or board it comes, gives it
\* another version.
CardTells ==
  \A c \in Cards :
    ContentsOf(c)' # ContentsOf(c) => card'[c].version # card[c].version

CatalogueOf(b) ==
  <<[l \in Catalogue(b) |-> label[l]], {t \in tags : t.board = b},
    {p \in people : p.board = b}>>

\* The client's copy of the labels and people of a board is kept under the
\* version of the board, on both boards of a transfer.
BoardTells ==
  \A b \in Boards : CatalogueOf(b)' # CatalogueOf(b) => board'[b] # board[b]

Tells(row, after) == Stored(row) /\ after.version = row.version => after = row

\* A checklist or an item that was put elsewhere has another version, so a
\* request made against where it was is refused.
RowsTell ==
  /\ \A k \in Checklists : Tells(checklist[k], checklist'[k])
  /\ \A i \in Items : Tells(item[i], item'[i])

\* No change of what a card or a board carries goes unnoticed by the version a
\* request about it is compared with, from whichever operation it comes.
VersionsTell == [][CardTells /\ BoardTells /\ RowsTell]_vars
=============================================================================
