------------------------ MODULE CardContents_proofs -------------------------
(***************************************************************************)
(* Proofs about CardContents, for every set of boards, cards, checklists,  *)
(* items, labels and actors, every capacity and version bound.             *)
(*                                                                         *)
(* Core is the inductive invariant: the types and the scopes of all rows.  *)
(* Safe says what a step from a state of Core does: Core again, nothing    *)
(* unnoticed by whoever holds a version, nothing beyond a capacity.        *)
(***************************************************************************)
EXTENDS CardContents, FiniteSetTheorems, TLAPS

USE CardContentsAssumption

LEMMA Bounds ==
  /\ \A v : v \in 1 .. MutateMax => v \in Versions /\ v + 1 \in Versions
  /\ 1 \in Versions /\ \A v \in Versions : v > 0 /\ v + 1 # v
  /\ \A v \in Versions : v <= MutateMax => v + 1 \in Versions
BY DEF Versions, ReadMax

LEMMA StoredRows ==
  /\ ~Stored(NoRow)
  /\ \A row \in CardRows \cup ChecklistRows \cup ItemRows \cup LabelRows :
       Stored(row)
  /\ \A row : Mutable(row) => Stored(row)
  /\ \A row : Stored(row) => NoRow.version # row.version
BY Bounds DEF Stored, Mutable, NoRow, CardRows, ChecklistRows, ItemRows,
              LabelRows

LEMMA CardAdvanced ==
  ASSUME NEW row \in CardRows, Mutable(row)
  PROVE  /\ Advanced(row) \in CardRows
         /\ Advanced(row).board = row.board
         /\ Advanced(row).archived = row.archived
         /\ Advanced(row).version # row.version
BY Bounds DEF Advanced, Mutable, CardRows

LEMMA CardReboarded ==
  ASSUME NEW row \in CardRows, Mutable(row), NEW b \in Boards
  PROVE  /\ [Advanced(row) EXCEPT !.board = b] \in CardRows
         /\ [Advanced(row) EXCEPT !.board = b].board = b
         /\ [Advanced(row) EXCEPT !.board = b].version # row.version
BY Bounds DEF Advanced, Mutable, CardRows

LEMMA CardArchived ==
  ASSUME NEW row \in CardRows, Mutable(row), NEW a \in BOOLEAN
  PROVE  /\ [Advanced(row) EXCEPT !.archived = a] \in CardRows
         /\ [Advanced(row) EXCEPT !.archived = a].board = row.board
         /\ [Advanced(row) EXCEPT !.archived = a].version # row.version
BY Bounds DEF Advanced, Mutable, CardRows

LEMMA ListAdvanced ==
  ASSUME NEW row \in ChecklistRows, Mutable(row)
  PROVE  /\ Advanced(row) \in ChecklistRows
         /\ Advanced(row).board = row.board
         /\ Advanced(row).card = row.card
         /\ Advanced(row).version # row.version
BY Bounds DEF Advanced, Mutable, ChecklistRows

LEMMA ItemAdvanced ==
  ASSUME NEW row \in ItemRows, Mutable(row)
  PROVE  /\ Advanced(row) \in ItemRows
         /\ Advanced(row).board = row.board
         /\ Advanced(row).card = row.card
         /\ Advanced(row).list = row.list
         /\ Advanced(row).version # row.version
BY Bounds DEF Advanced, Mutable, ItemRows

LEMMA ListMoved ==
  ASSUME NEW row \in ChecklistRows, Mutable(row),
         NEW c \in Cards, card[c] \in CardRows
  PROVE  /\ ListAt(row, c) \in ChecklistRows
         /\ ListAt(row, c).board = card[c].board
         /\ ListAt(row, c).card = c
         /\ ListAt(row, c).version # row.version
BY Bounds DEF ListAt, Advanced, Mutable, ChecklistRows, CardRows

LEMMA ItemMoved ==
  ASSUME NEW row \in ItemRows, Mutable(row), NEW k \in Checklists,
         NEW c \in Cards, card[c] \in CardRows
  PROVE  /\ ItemAt(row, c, k) \in ItemRows
         /\ ItemAt(row, c, k).board = card[c].board
         /\ ItemAt(row, c, k).card = c
         /\ ItemAt(row, c, k).list = k
         /\ ItemAt(row, c, k).version # row.version
BY Bounds DEF ItemAt, Advanced, Mutable, ItemRows, CardRows

LEMMA ListReboarded ==
  ASSUME NEW row \in ChecklistRows, Mutable(row), NEW b \in Boards
  PROVE  /\ Reboarded(row, b) \in ChecklistRows
         /\ Reboarded(row, b).board = b
         /\ Reboarded(row, b).card = row.card
         /\ Reboarded(row, b).version # row.version
BY Bounds DEF Reboarded, Advanced, Mutable, ChecklistRows

LEMMA ItemReboarded ==
  ASSUME NEW row \in ItemRows, Mutable(row), NEW b \in Boards
  PROVE  /\ Reboarded(row, b) \in ItemRows
         /\ Reboarded(row, b).board = b
         /\ Reboarded(row, b).card = row.card
         /\ Reboarded(row, b).list = row.list
         /\ Reboarded(row, b).version # row.version
BY Bounds DEF Reboarded, Advanced, Mutable, ItemRows

LEMMA LabelEdited ==
  ASSUME NEW row \in LabelRows, Mutable(row), NEW n \in Names
  PROVE  [Advanced(row) EXCEPT !.name = n] \in LabelRows
BY Bounds DEF Advanced, Mutable, LabelRows

\* What a row is made of.
LEMMA RowFields ==
  /\ \A row \in CardRows : row.board \in Boards
  /\ \A row \in ChecklistRows : row.board \in Boards /\ row.card \in Cards
  /\ \A row \in ItemRows :
       row.board \in Boards /\ row.card \in Cards /\ row.list \in Checklists
BY DEF CardRows, ChecklistRows, ItemRows

LEMMA NewLists ==
  ASSUME NEW c \in Cards, card[c] \in CardRows
  PROVE  /\ NewChecklist(c) \in ChecklistRows
         /\ NewChecklist(c).board = card[c].board /\ NewChecklist(c).card = c
BY Bounds DEF NewChecklist, CardRows, ChecklistRows

LEMMA NewItems ==
  ASSUME NEW k \in Checklists, checklist[k] \in ChecklistRows
  PROVE  /\ NewItem(k) \in ItemRows
         /\ NewItem(k).board = checklist[k].board
         /\ NewItem(k).card = checklist[k].card /\ NewItem(k).list = k
BY Bounds DEF NewItem, ItemRows, ChecklistRows

-----------------------------------------------------------------------------
\* The parts of TypeOK and of ScopesAgree.
BoardTypes == board \in [Boards -> Versions]
CardTypes == card \in [Cards -> CardRows]
ListTypes == checklist \in [Checklists -> ChecklistRows \cup {NoRow}]
ItemTypes == item \in [Items -> ItemRows \cup {NoRow}]
LabelTypes == label \in [Labels -> LabelRows \cup {NoRow}]
TagTypes == tags \subseteq Tags
PeopleTypes == people \subseteq People

ListScope ==
  \A k \in Checklists : Stored(checklist[k]) =>
    checklist[k].board = card[checklist[k].card].board

ItemScope ==
  \A i \in Items : Stored(item[i]) =>
    /\ Stored(checklist[item[i].list])
    /\ item[i].card = checklist[item[i].list].card
    /\ item[i].board = checklist[item[i].list].board

TagScope == \A t \in tags : Assignable(t)
PersonScope == \A p \in people : Allowed(p)

Core ==
  /\ BoardTypes /\ CardTypes /\ ListTypes /\ ItemTypes /\ LabelTypes
  /\ TagTypes /\ PeopleTypes
  /\ ListScope /\ ItemScope /\ TagScope /\ PersonScope

\* What a step leaves to whoever holds the version a card had before it.
SameLists(c) ==
  \A k \in Checklists :
    /\ k \in ListsOn(c)' <=> k \in ListsOn(c)
    /\ k \in ListsOn(c) => checklist'[k] = checklist[k]
SameItems(c) ==
  \A i \in Items :
    /\ i \in ItemsOn(c)' <=> i \in ItemsOn(c)
    /\ i \in ItemsOn(c) => item'[i] = item[i]
SameTags(c) == \A t : t.card = c => (t \in tags' <=> t \in tags)
SamePeople(c) == \A p : p.card = c => (p \in people' <=> p \in people)
Unnoticed(c) == card'[c].version = card[c].version

CardSame ==
  \A c \in Cards : Unnoticed(c) =>
    /\ card'[c].board = card[c].board
    /\ SameLists(c) /\ SameItems(c) /\ SameTags(c) /\ SamePeople(c)

\* And to whoever holds the version of a board.
BoardSame ==
  \A b \in Boards : board'[b] = board[b] =>
    /\ \A l \in Labels : LabelBoard[l] = b => label'[l] = label[l]
    /\ \A t : t.board = b => (t \in tags' <=> t \in tags)
    /\ \A p : p.board = b => (p \in people' <=> p \in people)

RowsSame ==
  /\ \A k \in Checklists : Tells(checklist[k], checklist'[k])
  /\ \A i \in Items : Tells(item[i], item'[i])

\* Cards, checklists, boards that advance and change in nothing else.
CardsKeep(S) ==
  /\ CardTypes'
  /\ \A c \in Cards :
       /\ card'[c].board = card[c].board
       /\ c \in S => ~Unnoticed(c)
       /\ c \notin S => card'[c] = card[c]

ListsKeep(S) ==
  /\ ListTypes'
  /\ \A k \in Checklists :
       /\ Stored(checklist'[k]) <=> Stored(checklist[k])
       /\ Stored(checklist[k]) =>
            /\ checklist'[k].board = checklist[k].board
            /\ checklist'[k].card = checklist[k].card
       /\ Tells(checklist[k], checklist'[k])
       /\ k \notin S => checklist'[k] = checklist[k]

ItemsKeep(S) ==
  /\ ItemTypes'
  /\ \A i \in Items :
       /\ Stored(item'[i]) <=> Stored(item[i])
       /\ Stored(item[i]) =>
            /\ item'[i].board = item[i].board /\ item'[i].card = item[i].card
            /\ item'[i].list = item[i].list
       /\ Tells(item[i], item'[i])
       /\ i \notin S => item'[i] = item[i]

\* Items of S put in checklist k of card c, on board b; those of T advance.
ItemsPut(S, b, c, k, T) ==
  /\ ItemTypes'
  /\ \A i \in Items :
       /\ Tells(item[i], item'[i])
       /\ i \in S => /\ Stored(item'[i]) /\ item'[i].board = b
                     /\ item'[i].card = c /\ item'[i].list = k
       /\ i \notin S => /\ Stored(item'[i]) <=> Stored(item[i])
                        /\ Stored(item[i]) =>
                             /\ item'[i].board = item[i].board
                             /\ item'[i].card = item[i].card
                             /\ item'[i].list = item[i].list
       /\ i \notin S \cup T => item'[i] = item[i]

\* Checklist k put on card c of board b; those of T advance.
ListPut(k, b, c, T) ==
  /\ ListTypes'
  /\ Stored(checklist'[k]) /\ checklist'[k].board = b /\ checklist'[k].card = c
  /\ \A m \in Checklists :
       /\ Tells(checklist[m], checklist'[m])
       /\ m # k => /\ Stored(checklist'[m]) <=> Stored(checklist[m])
                   /\ Stored(checklist[m]) =>
                        /\ checklist'[m].board = checklist[m].board
                        /\ checklist'[m].card = checklist[m].card
       /\ m \notin T \cup {k} => checklist'[m] = checklist[m]

ItemsGone(S) ==
  /\ ItemTypes'
  /\ \A i \in Items : /\ Tells(item[i], item'[i])
                      /\ i \in S => ~Stored(item'[i])
                      /\ i \notin S => item'[i] = item[i]

BoardsKeep(S) ==
  /\ BoardTypes'
  /\ \A b \in Boards : IF b \in S THEN board'[b] # board[b]
                                  ELSE board'[b] = board[b]

\* Label l written, or taken away.
LabelPut(l) ==
  /\ LabelTypes' /\ Stored(label'[l])
  /\ \A m \in Labels : m # l => label'[m] = label[m]

LEMMA CardsAdvance ==
  ASSUME CardTypes, NEW S, \A c \in Cards : c \in S => Mutable(card[c]),
         AdvanceCards(S)
  PROVE  CardsKeep(S)
<1>1. \A c \in Cards : card'[c] = IF c \in S THEN Advanced(card[c]) ELSE card[c]
  BY DEF AdvanceCards
<1>2. \A c \in Cards : card[c] \in CardRows
  BY DEF CardTypes
<1>3. \A c \in Cards : card'[c] \in CardRows
  BY <1>1, <1>2, CardAdvanced
<1>4. card' = [c \in Cards |-> card'[c]]
  BY DEF AdvanceCards
<1> QED
  BY <1>1, <1>2, <1>3, <1>4, CardAdvanced DEF CardsKeep, CardTypes, Unnoticed

LEMMA ListsAdvance ==
  ASSUME ListTypes, NEW S,
         \A k \in Checklists : k \in S => Mutable(checklist[k]),
         AdvanceLists(S)
  PROVE  ListsKeep(S)
<1>1. \A k \in Checklists :
        checklist'[k] = IF k \in S THEN Advanced(checklist[k]) ELSE checklist[k]
  BY DEF AdvanceLists
<1>2. \A k \in Checklists : k \in S => checklist[k] \in ChecklistRows
  BY StoredRows DEF ListTypes
<1>3. checklist' = [k \in Checklists |-> checklist'[k]]
  BY DEF AdvanceLists
<1>4. ListTypes'
  BY <1>1, <1>2, <1>3, ListAdvanced DEF ListTypes
<1> QED
  BY <1>1, <1>2, <1>4, ListAdvanced, StoredRows DEF ListsKeep, Tells

LEMMA ItemsAdvance ==
  ASSUME ItemTypes, NEW S, \A i \in Items : i \in S => Mutable(item[i]),
         item' = [i \in Items |->
                    IF i \in S THEN Advanced(item[i]) ELSE item[i]]
  PROVE  ItemsKeep(S)
<1>1. \A i \in Items :
        item'[i] = IF i \in S THEN Advanced(item[i]) ELSE item[i]
  OBVIOUS
<1>2. \A i \in Items : i \in S => item[i] \in ItemRows
  BY StoredRows DEF ItemTypes
<1>3. ItemTypes'
  BY <1>1, <1>2, ItemAdvanced DEF ItemTypes
<1> QED
  BY <1>1, <1>2, <1>3, ItemAdvanced, StoredRows DEF ItemsKeep, Tells

LEMMA BoardsAdvance ==
  ASSUME BoardTypes, NEW S, \A b \in Boards : b \in S => MutableBoard(b),
         AdvanceBoards(S)
  PROVE  BoardsKeep(S)
BY Bounds DEF BoardTypes, AdvanceBoards, BoardsKeep, MutableBoard

\* A checklist that a request names: its row, and the one of its card.
LEMMA Named ==
  ASSUME Core, NEW k \in Checklists, OpenList(k)
  PROVE  /\ checklist[k] \in ChecklistRows /\ Stored(checklist[k])
         /\ Mutable(checklist[k]) /\ checklist[k].card \in Cards
         /\ Mutable(card[checklist[k].card])
         /\ card[checklist[k].card] \in CardRows
         /\ checklist[k].board = card[checklist[k].card].board
BY StoredRows, RowFields
   DEF Core, CardTypes, ListTypes, ListScope, OpenList, Open

LEMMA NamedItem ==
  ASSUME Core, NEW i \in Items, Mutable(item[i]), OpenList(item[i].list)
  PROVE  /\ item[i] \in ItemRows /\ Stored(item[i])
         /\ item[i].list \in Checklists
         /\ item[i].card = checklist[item[i].list].card
         /\ item[i].board = checklist[item[i].list].board
         /\ Mutable(card[item[i].card])
BY StoredRows, RowFields DEF Core, ItemTypes, ItemScope, OpenList, Open

\* Every row that is there has a parent that is there.
LEMMA Parents ==
  ASSUME Core
  PROVE  /\ \A k \in Checklists : Stored(checklist[k]) =>
              checklist[k] \in ChecklistRows /\ checklist[k].card \in Cards
         /\ \A i \in Items : Stored(item[i]) =>
              /\ item[i] \in ItemRows /\ item[i].card \in Cards
              /\ item[i].list \in Checklists
         /\ \A t \in tags : t \in Tags /\ t.card \in Cards /\ t.label \in Labels
         /\ \A p \in people : p \in People /\ p.card \in Cards
BY StoredRows, RowFields
   DEF Core, ListTypes, ItemTypes, TagTypes, PeopleTypes, Tags, People

\* What a card or a catalogue gains was counted against its capacity.
Room(capacity, before, after, All) ==
  \/ after \subseteq before
  \/ \E N \in SUBSET All : /\ after \subseteq before \cup N
                           /\ Cardinality(before) + Cardinality(N) <= capacity

ListRoom ==
  \A c \in Cards : Room(ListCapacity, ListsOn(c), ListsOn(c)', Checklists)
ItemRoom == \A c \in Cards : Room(ItemCapacity, ItemsOn(c), ItemsOn(c)', Items)
LabelRoom ==
  \A b \in Boards : Room(LabelCapacity, Catalogue(b), Catalogue(b)', Labels)

LEMMA NoMore ==
  \A capacity, before, after, All :
    after \subseteq before => Room(capacity, before, after, All)
BY DEF Room

LEMMA OneMore ==
  ASSUME NEW All, NEW x \in All, NEW before, NEW after,
         NEW capacity \in Nat, Cardinality(before) \in Nat,
         Cardinality(before) < capacity, after \subseteq before \cup {x}
  PROVE  Room(capacity, before, after, All)
<1>1. Cardinality({x}) = 1
  BY FS_Singleton
<1>2. Cardinality(before) + Cardinality({x}) <= capacity
  BY <1>1
<1> QED
  BY <1>2 DEF Room

LEMMA Finite ==
  /\ \A c \in Cards : /\ Cardinality(ListsOn(c)) \in Nat
                      /\ Cardinality(ItemsOn(c)) \in Nat
  /\ \A b \in Boards : Cardinality(Catalogue(b)) \in Nat
<1>1. \A c \in Cards : IsFiniteSet(ListsOn(c)) /\ IsFiniteSet(ItemsOn(c))
  BY FS_Subset DEF ListsOn, ItemsOn
<1>2. \A b \in Boards : IsFiniteSet(Catalogue(b))
  BY FS_Subset DEF Catalogue
<1> QED
  BY <1>1, <1>2, FS_CardinalityType

Safe ==
  /\ Core' /\ CardSame /\ BoardSame /\ RowsSame
  /\ ListRoom /\ ItemRoom /\ LabelRoom

-----------------------------------------------------------------------------
(* One lemma per action: first what it does to each table it writes, then the
   parts of Safe, each from the tables it is about. *)

LEMMA CreateChecklistSafe ==
  ASSUME Core, NEW c \in Cards, NEW k \in Checklists,
         CreateChecklist(c, k)
  PROVE  Safe
<1>1. card[c] \in CardRows /\ ~Stored(checklist[k])
  BY DEF Core, CardTypes, CreateChecklist
<1>2. CardsKeep({c})
  BY <1>1, CardsAdvance DEF Core, Open, CreateChecklist
<1>3. ListPut(k, card[c].board, c, {})
  BY <1>1, NewLists, StoredRows DEF Core, ListTypes, ListPut, Tells,
    CreateChecklist
<1>4. UNCHANGED <<board, item, label, tags, people>>
  BY DEF CreateChecklist
<1>5. BoardTypes' /\ CardTypes'
  BY <1>1, <1>2, <1>4 DEF Core, BoardTypes, CardTypes, CardsKeep
<1>6. ListTypes' /\ ItemTypes'
  BY <1>1, <1>3, <1>4 DEF Core, ListTypes, ItemTypes, ListPut
<1>7. LabelTypes' /\ TagTypes' /\ PeopleTypes'
  BY <1>1, <1>4 DEF Core, LabelTypes, TagTypes, PeopleTypes
<1>8. ListScope'
  BY <1>1, <1>2, <1>3, Parents, StoredRows DEF Core, ListScope, CardsKeep,
    ListPut
<1>9. ItemScope'
  BY <1>1, <1>3, <1>4, Parents, StoredRows DEF Core, ItemScope, ListPut
<1>10. TagScope'
  BY <1>1, <1>2, <1>4, Parents DEF Core, TagScope, Assignable, CardsKeep
<1>11. PersonScope'
  BY <1>1, <1>2, <1>4, Parents DEF Core, PersonScope, Allowed, CardsKeep
<1>12. CardSame
  BY <1>1, <1>2, <1>3, <1>4, Parents DEF Core, CardSame, SameLists,
    SameItems, SameTags, SamePeople, ListsOn, ItemsOn, Unnoticed, ItemScope,
    CardsKeep, ListPut
<1>13. BoardSame
  BY <1>1, <1>4 DEF Core, BoardSame, TagScope, PersonScope, Assignable,
    Allowed
<1>14. RowsSame
  BY <1>1, <1>3, <1>4, StoredRows DEF Core, RowsSame, Tells, ListPut
<1>15. ListRoom
  <2>1. \A d \in Cards :
          ListsOn(d)' \subseteq IF d = c THEN ListsOn(d) \cup {k}
                                         ELSE ListsOn(d)
    BY <1>1, <1>3, StoredRows DEF ListsOn, ListPut
  <2>2. Cardinality(ListsOn(c)) < ListCapacity
    BY DEF CreateChecklist
  <2> QED
    BY <2>1, <2>2, OneMore, NoMore, Finite DEF ListRoom
<1>16. ItemRoom
  BY <1>1, <1>4, NoMore DEF Core, ItemRoom, ItemsOn
<1>17. LabelRoom
  BY <1>1, <1>4, NoMore DEF Core, LabelRoom, Catalogue
<1> QED
  BY <1>5, <1>6, <1>7, <1>8, <1>9, <1>10, <1>11, <1>12, <1>13, <1>14, <1>15,
    <1>16, <1>17 DEF Safe, Core

LEMMA AddItemsSafe ==
  ASSUME Core, NEW k \in Checklists, NEW S \in SUBSET Items,
         AddItems(k, S)
  PROVE  Safe
<1>1. CardsKeep({checklist[k].card})
  BY Named, CardsAdvance DEF Core, AddItems
<1>2. ListsKeep({k})
  BY Named, ListsAdvance DEF Core, AddItems
<1>3. /\ ItemsPut(S, checklist[k].board, checklist[k].card, k, {})
      /\ Stored(checklist[k]) /\ \A i \in S : ~Stored(item[i])
  BY Named, NewItems, StoredRows DEF Core, ItemTypes, ItemsPut, Tells,
    AddItems
<1>4. UNCHANGED <<board, label, tags, people>>
  BY DEF AddItems
<1>5. BoardTypes' /\ CardTypes'
  BY <1>1, <1>4 DEF Core, BoardTypes, CardTypes, CardsKeep
<1>6. ListTypes' /\ ItemTypes'
  BY <1>2, <1>3 DEF Core, ListTypes, ItemTypes, ListsKeep, ItemsPut
<1>7. LabelTypes' /\ TagTypes' /\ PeopleTypes'
  BY <1>4 DEF Core, LabelTypes, TagTypes, PeopleTypes
<1>8. ListScope'
  BY <1>1, <1>2, Parents, StoredRows DEF Core, ListScope, CardsKeep,
    ListsKeep
<1>9. ItemScope'
  BY <1>2, <1>3, Parents, StoredRows DEF Core, ItemScope, ListsKeep,
    ItemsPut
<1>10. TagScope'
  BY <1>1, <1>4, Parents DEF Core, TagScope, Assignable, CardsKeep
<1>11. PersonScope'
  BY <1>1, <1>4, Parents DEF Core, PersonScope, Allowed, CardsKeep
<1>12. CardSame
  BY <1>1, <1>2, <1>3, <1>4, Parents DEF Core, CardSame, SameLists,
    SameItems, SameTags, SamePeople, ListsOn, ItemsOn, Unnoticed, ItemScope,
    CardsKeep, ListsKeep, ItemsPut
<1>13. BoardSame
  BY <1>4 DEF Core, BoardSame, TagScope, PersonScope, Assignable, Allowed
<1>14. RowsSame
  BY <1>2, <1>3, StoredRows DEF Core, RowsSame, Tells, ListsKeep, ItemsPut
<1>15. ListRoom
  BY <1>2, NoMore, StoredRows DEF Core, ListRoom, ListsOn, ListsKeep
<1>16. ItemRoom
  <2>1. \A d \in Cards :
          ItemsOn(d)' \subseteq IF d = checklist[k].card
                                THEN ItemsOn(d) \cup S ELSE ItemsOn(d)
    BY <1>3, StoredRows DEF ItemsOn, ItemsPut
  <2>2. /\ Cardinality(ItemsOn(checklist[k].card)) + Cardinality(S)
              <= ItemCapacity
    BY DEF AddItems, RoomFor
  <2> QED
    BY <2>1, <2>2 DEF ItemRoom, Room
<1>17. LabelRoom
  BY <1>4, NoMore DEF Core, LabelRoom, Catalogue
<1> QED
  BY <1>5, <1>6, <1>7, <1>8, <1>9, <1>10, <1>11, <1>12, <1>13, <1>14, <1>15,
    <1>16, <1>17 DEF Safe, Core

LEMMA EditChecklistSafe ==
  ASSUME Core, NEW k \in Checklists,
         EditChecklist(k)
  PROVE  Safe
<1>1. CardsKeep({checklist[k].card})
  BY Named, CardsAdvance DEF Core, EditChecklist
<1>2. ListsKeep({k})
  BY Named, ListsAdvance DEF Core, EditChecklist
<1>3. UNCHANGED <<board, item, label, tags, people>>
  BY DEF EditChecklist
<1>4. BoardTypes' /\ CardTypes'
  BY <1>1, <1>3 DEF Core, BoardTypes, CardTypes, CardsKeep
<1>5. ListTypes' /\ ItemTypes'
  BY <1>2, <1>3 DEF Core, ListTypes, ItemTypes, ListsKeep
<1>6. LabelTypes' /\ TagTypes' /\ PeopleTypes'
  BY <1>3 DEF Core, LabelTypes, TagTypes, PeopleTypes
<1>7. ListScope'
  BY <1>1, <1>2, Parents, StoredRows DEF Core, ListScope, CardsKeep,
    ListsKeep
<1>8. ItemScope'
  BY <1>2, <1>3, Parents, StoredRows DEF Core, ItemScope, ListsKeep
<1>9. TagScope'
  BY <1>1, <1>3, Parents DEF Core, TagScope, Assignable, CardsKeep
<1>10. PersonScope'
  BY <1>1, <1>3, Parents DEF Core, PersonScope, Allowed, CardsKeep
<1>11. CardSame
  BY <1>1, <1>2, <1>3, Parents DEF Core, CardSame, SameLists, SameItems,
    SameTags, SamePeople, ListsOn, ItemsOn, Unnoticed, ItemScope, CardsKeep,
    ListsKeep
<1>12. BoardSame
  BY <1>3 DEF Core, BoardSame, TagScope, PersonScope, Assignable, Allowed
<1>13. RowsSame
  BY <1>2, <1>3, StoredRows DEF Core, RowsSame, Tells, ListsKeep
<1>14. ListRoom
  BY <1>2, NoMore, StoredRows DEF Core, ListRoom, ListsOn, ListsKeep
<1>15. ItemRoom
  BY <1>3, NoMore DEF Core, ItemRoom, ItemsOn
<1>16. LabelRoom
  BY <1>3, NoMore DEF Core, LabelRoom, Catalogue
<1> QED
  BY <1>4, <1>5, <1>6, <1>7, <1>8, <1>9, <1>10, <1>11, <1>12, <1>13, <1>14,
    <1>15, <1>16 DEF Safe, Core

LEMMA EditItemSafe ==
  ASSUME Core, NEW i \in Items,
         EditItem(i)
  PROVE  Safe
<1>1. CardsKeep({item[i].card})
  BY NamedItem, CardsAdvance DEF Core, EditItem
<1>2. ItemsKeep({i})
  BY NamedItem, ItemAdvanced, StoredRows DEF Core, ItemTypes, ItemsKeep,
    Tells, EditItem
<1>3. UNCHANGED <<board, checklist, label, tags, people>>
  BY DEF EditItem
<1>4. BoardTypes' /\ CardTypes'
  BY <1>1, <1>3 DEF Core, BoardTypes, CardTypes, CardsKeep
<1>5. ListTypes' /\ ItemTypes'
  BY <1>2, <1>3 DEF Core, ListTypes, ItemTypes, ItemsKeep
<1>6. LabelTypes' /\ TagTypes' /\ PeopleTypes'
  BY <1>3 DEF Core, LabelTypes, TagTypes, PeopleTypes
<1>7. ListScope'
  BY <1>1, <1>3, Parents, StoredRows DEF Core, ListScope, CardsKeep
<1>8. ItemScope'
  BY <1>2, <1>3, Parents, StoredRows DEF Core, ItemScope, ItemsKeep
<1>9. TagScope'
  BY <1>1, <1>3, Parents DEF Core, TagScope, Assignable, CardsKeep
<1>10. PersonScope'
  BY <1>1, <1>3, Parents DEF Core, PersonScope, Allowed, CardsKeep
<1>11. CardSame
  BY <1>1, <1>2, <1>3, Parents DEF Core, CardSame, SameLists, SameItems,
    SameTags, SamePeople, ListsOn, ItemsOn, Unnoticed, ItemScope, CardsKeep,
    ItemsKeep
<1>12. BoardSame
  BY <1>3 DEF Core, BoardSame, TagScope, PersonScope, Assignable, Allowed
<1>13. RowsSame
  BY <1>2, <1>3, StoredRows DEF Core, RowsSame, Tells, ItemsKeep
<1>14. ListRoom
  BY <1>3, NoMore DEF Core, ListRoom, ListsOn
<1>15. ItemRoom
  BY <1>2, NoMore, StoredRows DEF Core, ItemRoom, ItemsOn, ItemsKeep
<1>16. LabelRoom
  BY <1>3, NoMore DEF Core, LabelRoom, Catalogue
<1> QED
  BY <1>4, <1>5, <1>6, <1>7, <1>8, <1>9, <1>10, <1>11, <1>12, <1>13, <1>14,
    <1>15, <1>16 DEF Safe, Core

LEMMA DeleteItemSafe ==
  ASSUME Core, NEW i \in Items,
         DeleteItem(i)
  PROVE  Safe
<1>1. /\ Stored(item[i]) /\ item[i].card = checklist[item[i].list].card
      /\ item[i].list \in Checklists
  BY NamedItem DEF DeleteItem
<1>2. CardsKeep({item[i].card})
  BY <1>1, NamedItem, CardsAdvance DEF Core, DeleteItem
<1>3. ListsKeep({item[i].list})
  BY <1>1, NamedItem, Named, ListsAdvance DEF Core, DeleteItem
<1>4. ItemsGone({i})
  BY <1>1, StoredRows DEF Core, ItemTypes, ItemsGone, Tells, DeleteItem
<1>5. UNCHANGED <<board, label, tags, people>>
  BY DEF DeleteItem
<1>6. BoardTypes' /\ CardTypes'
  BY <1>1, <1>2, <1>5 DEF Core, BoardTypes, CardTypes, CardsKeep
<1>7. ListTypes' /\ ItemTypes'
  BY <1>1, <1>3, <1>4 DEF Core, ListTypes, ItemTypes, ListsKeep, ItemsGone
<1>8. LabelTypes' /\ TagTypes' /\ PeopleTypes'
  BY <1>1, <1>5 DEF Core, LabelTypes, TagTypes, PeopleTypes
<1>9. ListScope'
  BY <1>1, <1>2, <1>3, Parents, StoredRows DEF Core, ListScope, CardsKeep,
    ListsKeep
<1>10. ItemScope'
  BY <1>1, <1>3, <1>4, Parents, StoredRows DEF Core, ItemScope, ListsKeep,
    ItemsGone
<1>11. TagScope'
  BY <1>1, <1>2, <1>5, Parents DEF Core, TagScope, Assignable, CardsKeep
<1>12. PersonScope'
  BY <1>1, <1>2, <1>5, Parents DEF Core, PersonScope, Allowed, CardsKeep
<1>13. CardSame
  <2>1. \A d \in Cards : Unnoticed(d) => card'[d].board = card[d].board
    BY <1>1, <1>2, <1>3, <1>4, <1>5 DEF Core, Unnoticed, ItemScope, ItemsIn,
      CardsKeep, ListsKeep, ItemsGone
  <2>2. \A d \in Cards : Unnoticed(d) => SameLists(d)
    BY <1>1, <1>2, <1>3, <1>4, <1>5, StoredRows, Parents DEF Core,
      SameLists, ListsOn, Unnoticed, ItemScope, ItemsIn, CardsKeep, ListsKeep,
      ItemsGone
  <2>3. \A d \in Cards : Unnoticed(d) => SameItems(d)
    BY <1>1, <1>2, <1>3, <1>4, <1>5, StoredRows, Parents DEF Core,
      SameItems, ItemsOn, Unnoticed, ItemScope, ItemsIn, CardsKeep, ListsKeep,
      ItemsGone
  <2>4. \A d \in Cards : Unnoticed(d) => SameTags(d) /\ SamePeople(d)
    BY <1>1, <1>2, <1>3, <1>4, <1>5, Parents DEF Core, SameTags, SamePeople,
      Unnoticed, ItemScope, ItemsIn, CardsKeep, ListsKeep, ItemsGone
  <2> QED
    BY <2>1, <2>2, <2>3, <2>4 DEF CardSame
<1>14. BoardSame
  BY <1>1, <1>5 DEF Core, BoardSame, TagScope, PersonScope, Assignable,
    Allowed
<1>15. RowsSame
  BY <1>1, <1>3, <1>4, StoredRows DEF Core, RowsSame, Tells, ListsKeep,
    ItemsGone
<1>16. ListRoom
  BY <1>1, <1>3, NoMore, StoredRows DEF Core, ListRoom, ListsOn, ListsKeep
<1>17. ItemRoom
  BY <1>1, <1>4, NoMore, StoredRows DEF Core, ItemRoom, ItemsOn, ItemsGone
<1>18. LabelRoom
  BY <1>1, <1>5, NoMore DEF Core, LabelRoom, Catalogue
<1> QED
  BY <1>6, <1>7, <1>8, <1>9, <1>10, <1>11, <1>12, <1>13, <1>14, <1>15,
    <1>16, <1>17, <1>18 DEF Safe, Core

LEMMA DeleteChecklistSafe ==
  ASSUME Core, NEW k \in Checklists,
         DeleteChecklist(k)
  PROVE  Safe
<1>1. CardsKeep({checklist[k].card})
  BY Named, CardsAdvance DEF Core, DeleteChecklist
<1>2. ItemsGone(ItemsIn(k))
  BY StoredRows DEF Core, ItemTypes, ItemsGone, Tells, DeleteChecklist
<1>3. /\ ListTypes' /\ ~Stored(checklist'[k])
      /\ \A m \in Checklists : Tells(checklist[m], checklist'[m])
      /\ \A m \in Checklists : m # k => checklist'[m] = checklist[m]
  BY StoredRows DEF Core, ListTypes, Tells, DeleteChecklist
<1>4. UNCHANGED <<board, label, tags, people>>
  BY DEF DeleteChecklist
<1>5. BoardTypes' /\ CardTypes'
  BY <1>1, <1>4 DEF Core, BoardTypes, CardTypes, CardsKeep
<1>6. ListTypes' /\ ItemTypes'
  BY <1>2, <1>3 DEF Core, ListTypes, ItemTypes, ItemsGone
<1>7. LabelTypes' /\ TagTypes' /\ PeopleTypes'
  BY <1>4 DEF Core, LabelTypes, TagTypes, PeopleTypes
<1>8. ListScope'
  BY <1>1, <1>3, Parents, StoredRows DEF Core, ListScope, CardsKeep
<1>9. ItemScope'
  BY <1>2, <1>3, Parents, StoredRows DEF Core, ItemScope, ItemsIn, ItemsGone
<1>10. TagScope'
  BY <1>1, <1>4, Parents DEF Core, TagScope, Assignable, CardsKeep
<1>11. PersonScope'
  BY <1>1, <1>4, Parents DEF Core, PersonScope, Allowed, CardsKeep
<1>12. CardSame
  BY <1>1, <1>2, <1>3, <1>4, Parents DEF Core, CardSame, SameLists,
    SameItems, SameTags, SamePeople, ListsOn, ItemsOn, ItemsIn, Unnoticed,
    ItemScope, CardsKeep, ItemsGone
<1>13. BoardSame
  BY <1>4 DEF Core, BoardSame, TagScope, PersonScope, Assignable, Allowed
<1>14. RowsSame
  BY <1>2, <1>3, StoredRows DEF Core, RowsSame, Tells, ItemsGone
<1>15. ListRoom
  BY <1>3, NoMore, StoredRows DEF Core, ListRoom, ListsOn
<1>16. ItemRoom
  BY <1>2, NoMore, StoredRows DEF Core, ItemRoom, ItemsOn, ItemsGone
<1>17. LabelRoom
  BY <1>4, NoMore DEF Core, LabelRoom, Catalogue
<1> QED
  BY <1>5, <1>6, <1>7, <1>8, <1>9, <1>10, <1>11, <1>12, <1>13, <1>14, <1>15,
    <1>16, <1>17 DEF Safe, Core

LEMMA ReorderChecklistsSafe ==
  ASSUME Core, NEW c \in Cards, NEW S \in SUBSET Checklists,
         ReorderChecklists(c, S)
  PROVE  Safe
<1>1. CardsKeep({c})
  BY CardsAdvance DEF Core, ReorderChecklists, Open
<1>2. ListsKeep(S) /\ S \subseteq ListsOn(c)
  BY ListsAdvance DEF Core, ReorderChecklists
<1>3. UNCHANGED <<board, item, label, tags, people>>
  BY DEF ReorderChecklists
<1>4. BoardTypes' /\ CardTypes'
  BY <1>1, <1>3 DEF Core, BoardTypes, CardTypes, CardsKeep
<1>5. ListTypes' /\ ItemTypes'
  BY <1>2, <1>3 DEF Core, ListTypes, ItemTypes, ListsKeep
<1>6. LabelTypes' /\ TagTypes' /\ PeopleTypes'
  BY <1>3 DEF Core, LabelTypes, TagTypes, PeopleTypes
<1>7. ListScope'
  BY <1>1, <1>2, Parents, StoredRows DEF Core, ListScope, CardsKeep,
    ListsKeep
<1>8. ItemScope'
  BY <1>2, <1>3, Parents, StoredRows DEF Core, ItemScope, ListsKeep
<1>9. TagScope'
  BY <1>1, <1>3, Parents DEF Core, TagScope, Assignable, CardsKeep
<1>10. PersonScope'
  BY <1>1, <1>3, Parents DEF Core, PersonScope, Allowed, CardsKeep
<1>11. CardSame
  BY <1>1, <1>2, <1>3, Parents DEF Core, CardSame, SameLists, SameItems,
    SameTags, SamePeople, ListsOn, ItemsOn, Unnoticed, ItemScope, CardsKeep,
    ListsKeep
<1>12. BoardSame
  BY <1>3 DEF Core, BoardSame, TagScope, PersonScope, Assignable, Allowed
<1>13. RowsSame
  BY <1>2, <1>3, StoredRows DEF Core, RowsSame, Tells, ListsKeep
<1>14. ListRoom
  BY <1>2, NoMore, StoredRows DEF Core, ListRoom, ListsOn, ListsKeep
<1>15. ItemRoom
  BY <1>3, NoMore DEF Core, ItemRoom, ItemsOn
<1>16. LabelRoom
  BY <1>3, NoMore DEF Core, LabelRoom, Catalogue
<1> QED
  BY <1>4, <1>5, <1>6, <1>7, <1>8, <1>9, <1>10, <1>11, <1>12, <1>13, <1>14,
    <1>15, <1>16 DEF Safe, Core

LEMMA ReorderItemsSafe ==
  ASSUME Core, NEW k \in Checklists, NEW S \in SUBSET Items,
         ReorderItems(k, S)
  PROVE  Safe
<1>1. CardsKeep({checklist[k].card})
  BY Named, CardsAdvance DEF Core, ReorderItems
<1>2. ListsKeep({k})
  BY Named, ListsAdvance DEF Core, ReorderItems
<1>3. ItemsKeep(S) /\ S \subseteq ItemsIn(k)
  BY ItemsAdvance DEF Core, ReorderItems
<1>4. UNCHANGED <<board, label, tags, people>>
  BY DEF ReorderItems
<1>5. BoardTypes' /\ CardTypes'
  BY <1>1, <1>4 DEF Core, BoardTypes, CardTypes, CardsKeep
<1>6. ListTypes' /\ ItemTypes'
  BY <1>2, <1>3 DEF Core, ListTypes, ItemTypes, ListsKeep, ItemsKeep
<1>7. LabelTypes' /\ TagTypes' /\ PeopleTypes'
  BY <1>4 DEF Core, LabelTypes, TagTypes, PeopleTypes
<1>8. ListScope'
  BY <1>1, <1>2, Parents, StoredRows DEF Core, ListScope, CardsKeep,
    ListsKeep
<1>9. ItemScope'
  BY <1>2, <1>3, Parents, StoredRows DEF Core, ItemScope, ItemsIn,
    ListsKeep, ItemsKeep
<1>10. TagScope'
  BY <1>1, <1>4, Parents DEF Core, TagScope, Assignable, CardsKeep
<1>11. PersonScope'
  BY <1>1, <1>4, Parents DEF Core, PersonScope, Allowed, CardsKeep
<1>12. CardSame
  <2>1. \A d \in Cards : Unnoticed(d) => card'[d].board = card[d].board
    BY <1>1, <1>2, <1>3, <1>4 DEF Core, Unnoticed, ItemScope, ItemsIn,
      CardsKeep, ListsKeep, ItemsKeep
  <2>2. \A d \in Cards : Unnoticed(d) => SameLists(d)
    BY <1>1, <1>2, <1>3, <1>4, StoredRows, Parents DEF Core, SameLists,
      ListsOn, Unnoticed, ItemScope, ItemsIn, CardsKeep, ListsKeep, ItemsKeep
  <2>3. \A d \in Cards : Unnoticed(d) => SameItems(d)
    BY <1>1, <1>2, <1>3, <1>4, StoredRows, Parents DEF Core, SameItems,
      ItemsOn, Unnoticed, ItemScope, ItemsIn, CardsKeep, ListsKeep, ItemsKeep
  <2>4. \A d \in Cards : Unnoticed(d) => SameTags(d) /\ SamePeople(d)
    BY <1>1, <1>2, <1>3, <1>4, Parents DEF Core, SameTags, SamePeople,
      Unnoticed, ItemScope, ItemsIn, CardsKeep, ListsKeep, ItemsKeep
  <2> QED
    BY <2>1, <2>2, <2>3, <2>4 DEF CardSame
<1>13. BoardSame
  BY <1>4 DEF Core, BoardSame, TagScope, PersonScope, Assignable, Allowed
<1>14. RowsSame
  BY <1>2, <1>3, StoredRows DEF Core, RowsSame, Tells, ListsKeep, ItemsKeep
<1>15. ListRoom
  BY <1>2, NoMore, StoredRows DEF Core, ListRoom, ListsOn, ListsKeep
<1>16. ItemRoom
  BY <1>3, NoMore, StoredRows DEF Core, ItemRoom, ItemsOn, ItemsKeep
<1>17. LabelRoom
  BY <1>4, NoMore DEF Core, LabelRoom, Catalogue
<1> QED
  BY <1>5, <1>6, <1>7, <1>8, <1>9, <1>10, <1>11, <1>12, <1>13, <1>14, <1>15,
    <1>16, <1>17 DEF Safe, Core

LEMMA MoveChecklistSafe ==
  ASSUME Core, NEW k \in Checklists, NEW c \in Cards,
         NEW S \in SUBSET Checklists,
         MoveChecklist(k, c, S)
  PROVE  Safe
<1>1. card[c] \in CardRows
  BY DEF Core, CardTypes
<1>2. CardsKeep({checklist[k].card, c})
  BY <1>1, Named, CardsAdvance DEF Core, MoveChecklist, Open
<1>3. ListPut(k, card[c].board, c, S) /\ S \subseteq ListsOn(c)
  BY <1>1, Named, ListMoved, ListAdvanced, StoredRows DEF Core, ListTypes,
    ListPut, Tells, MoveChecklist
<1>4. ItemsPut(ItemsIn(k), card[c].board, c, k, {})
  BY <1>1, ItemMoved, StoredRows DEF Core, ItemTypes, ItemsPut, Tells,
    MoveChecklist
<1>5. UNCHANGED <<board, label, tags, people>>
  BY DEF MoveChecklist
<1>6. BoardTypes' /\ CardTypes'
  BY <1>1, <1>2, <1>5 DEF Core, BoardTypes, CardTypes, CardsKeep
<1>7. ListTypes' /\ ItemTypes'
  BY <1>1, <1>3, <1>4 DEF Core, ListTypes, ItemTypes, ItemsPut, ListPut
<1>8. LabelTypes' /\ TagTypes' /\ PeopleTypes'
  BY <1>1, <1>5 DEF Core, LabelTypes, TagTypes, PeopleTypes
<1>9. ListScope'
  BY <1>1, <1>2, <1>3, Parents, StoredRows DEF Core, ListScope, CardsKeep,
    ListPut
<1>10. ItemScope'
  BY <1>1, <1>3, <1>4, Parents, StoredRows DEF Core, ItemScope, ItemsIn,
    ItemsPut, ListPut
<1>11. TagScope'
  BY <1>1, <1>2, <1>5, Parents DEF Core, TagScope, Assignable, CardsKeep
<1>12. PersonScope'
  BY <1>1, <1>2, <1>5, Parents DEF Core, PersonScope, Allowed, CardsKeep
<1>13. CardSame
  <2>1. \A d \in Cards : Unnoticed(d) => card'[d].board = card[d].board
    BY <1>1, <1>2, <1>3, <1>4, <1>5 DEF Core, Unnoticed, ItemScope, ItemsIn,
      CardsKeep, ItemsPut, ListPut
  <2>2. \A d \in Cards : Unnoticed(d) => SameLists(d)
    BY <1>1, <1>2, <1>3, <1>4, <1>5, StoredRows, Parents DEF Core,
      SameLists, ListsOn, Unnoticed, ItemScope, ItemsIn, CardsKeep, ItemsPut,
      ListPut
  <2>3. \A d \in Cards : Unnoticed(d) => SameItems(d)
    BY <1>1, <1>2, <1>3, <1>4, <1>5, StoredRows, Parents DEF Core,
      SameItems, ItemsOn, Unnoticed, ItemScope, ItemsIn, CardsKeep, ItemsPut,
      ListPut
  <2>4. \A d \in Cards : Unnoticed(d) => SameTags(d) /\ SamePeople(d)
    BY <1>1, <1>2, <1>3, <1>4, <1>5, Parents DEF Core, SameTags, SamePeople,
      Unnoticed, ItemScope, ItemsIn, CardsKeep, ItemsPut, ListPut
  <2> QED
    BY <2>1, <2>2, <2>3, <2>4 DEF CardSame
<1>14. BoardSame
  BY <1>1, <1>5 DEF Core, BoardSame, TagScope, PersonScope, Assignable,
    Allowed
<1>15. RowsSame
  BY <1>1, <1>3, <1>4, StoredRows DEF Core, RowsSame, Tells, ItemsPut,
    ListPut
<1>16. ListRoom
  <2>1. \A d \in Cards :
          ListsOn(d)' \subseteq IF d = c THEN ListsOn(d) \cup {k}
                                         ELSE ListsOn(d)
    BY <1>1, <1>3, StoredRows DEF ListsOn, ListPut
  <2>2. Cardinality(ListsOn(c)) < ListCapacity
    BY DEF MoveChecklist
  <2> QED
    BY <2>1, <2>2, OneMore, NoMore, Finite DEF ListRoom
<1>17. ItemRoom
  <2>1. \A d \in Cards :
          ItemsOn(d)' \subseteq IF d = c THEN ItemsOn(d) \cup ItemsIn(k)
                                         ELSE ItemsOn(d)
    BY <1>1, <1>4, StoredRows DEF ItemsOn, ItemsPut
  <2>2. /\ ItemsIn(k) \subseteq Items
        /\ Cardinality(ItemsOn(c)) + Cardinality(ItemsIn(k)) <= ItemCapacity
    BY DEF MoveChecklist, RoomFor, ItemsIn
  <2> QED
    BY <2>1, <2>2 DEF ItemRoom, Room
<1>18. LabelRoom
  BY <1>1, <1>5, NoMore DEF Core, LabelRoom, Catalogue
<1> QED
  BY <1>6, <1>7, <1>8, <1>9, <1>10, <1>11, <1>12, <1>13, <1>14, <1>15,
    <1>16, <1>17, <1>18 DEF Safe, Core

LEMMA MoveItemSafe ==
  ASSUME Core, NEW i \in Items, NEW k \in Checklists,
         NEW S \in SUBSET Items,
         MoveItem(i, k, S)
  PROVE  Safe
<1>1. /\ Stored(item[i]) /\ item[i].card = checklist[item[i].list].card
      /\ item[i].list \in Checklists /\ Stored(checklist[k])
  BY Named, NamedItem DEF MoveItem
<1>2. CardsKeep({item[i].card, checklist[k].card})
  BY <1>1, NamedItem, Named, CardsAdvance DEF Core, MoveItem
<1>3. ListsKeep({item[i].list, k})
  BY <1>1, NamedItem, Named, ListsAdvance DEF Core, MoveItem
<1>4. /\ ItemsPut({i}, checklist[k].board, checklist[k].card, k, S)
      /\ S \subseteq ItemsIn(k)
  BY <1>1, Named, ItemMoved, ItemAdvanced, StoredRows DEF Core, ItemTypes,
    ItemsPut, Tells, MoveItem
<1>5. UNCHANGED <<board, label, tags, people>>
  BY DEF MoveItem
<1>6. BoardTypes' /\ CardTypes'
  BY <1>1, <1>2, <1>5 DEF Core, BoardTypes, CardTypes, CardsKeep
<1>7. ListTypes' /\ ItemTypes'
  BY <1>1, <1>3, <1>4 DEF Core, ListTypes, ItemTypes, ListsKeep, ItemsPut
<1>8. LabelTypes' /\ TagTypes' /\ PeopleTypes'
  BY <1>1, <1>5 DEF Core, LabelTypes, TagTypes, PeopleTypes
<1>9. ListScope'
  BY <1>1, <1>2, <1>3, Parents, StoredRows DEF Core, ListScope, CardsKeep,
    ListsKeep
<1>10. ItemScope'
  BY <1>1, <1>3, <1>4, Parents, StoredRows DEF Core, ItemScope, ItemsIn,
    ListsKeep, ItemsPut
<1>11. TagScope'
  BY <1>1, <1>2, <1>5, Parents DEF Core, TagScope, Assignable, CardsKeep
<1>12. PersonScope'
  BY <1>1, <1>2, <1>5, Parents DEF Core, PersonScope, Allowed, CardsKeep
<1>13. CardSame
  <2>1. \A d \in Cards : Unnoticed(d) => card'[d].board = card[d].board
    BY <1>1, <1>2, <1>3, <1>4, <1>5 DEF Core, Unnoticed, ItemScope, ItemsIn,
      CardsKeep, ListsKeep, ItemsPut
  <2>2. \A d \in Cards : Unnoticed(d) => SameLists(d)
    BY <1>1, <1>2, <1>3, <1>4, <1>5, StoredRows, Parents DEF Core,
      SameLists, ListsOn, Unnoticed, ItemScope, ItemsIn, CardsKeep, ListsKeep,
      ItemsPut
  <2>3. \A d \in Cards : Unnoticed(d) => SameItems(d)
    BY <1>1, <1>2, <1>3, <1>4, <1>5, StoredRows, Parents DEF Core,
      SameItems, ItemsOn, Unnoticed, ItemScope, ItemsIn, CardsKeep, ListsKeep,
      ItemsPut
  <2>4. \A d \in Cards : Unnoticed(d) => SameTags(d) /\ SamePeople(d)
    BY <1>1, <1>2, <1>3, <1>4, <1>5, Parents DEF Core, SameTags, SamePeople,
      Unnoticed, ItemScope, ItemsIn, CardsKeep, ListsKeep, ItemsPut
  <2> QED
    BY <2>1, <2>2, <2>3, <2>4 DEF CardSame
<1>14. BoardSame
  BY <1>1, <1>5 DEF Core, BoardSame, TagScope, PersonScope, Assignable,
    Allowed
<1>15. RowsSame
  BY <1>1, <1>3, <1>4, StoredRows DEF Core, RowsSame, Tells, ListsKeep,
    ItemsPut
<1>16. ListRoom
  BY <1>1, <1>3, NoMore, StoredRows DEF Core, ListRoom, ListsOn, ListsKeep
<1>17. ItemRoom
  <2>1. \A d \in Cards :
          ItemsOn(d)' \subseteq IF d = checklist[k].card /\ d # item[i].card
                                THEN ItemsOn(d) \cup {i} ELSE ItemsOn(d)
    BY <1>1, <1>4, StoredRows DEF ItemsOn, ItemsPut
  <2>2. checklist[k].card # item[i].card =>
          Cardinality(ItemsOn(checklist[k].card)) + 1 <= ItemCapacity
    BY DEF MoveItem, RoomFor
  <2> QED
    BY <2>1, <2>2, OneMore, NoMore, Finite DEF ItemRoom
<1>18. LabelRoom
  BY <1>1, <1>5, NoMore DEF Core, LabelRoom, Catalogue
<1> QED
  BY <1>6, <1>7, <1>8, <1>9, <1>10, <1>11, <1>12, <1>13, <1>14, <1>15,
    <1>16, <1>17, <1>18 DEF Safe, Core

LEMMA CreateLabelSafe ==
  ASSUME Core, NEW l \in Labels, NEW n \in Names,
         CreateLabel(l, n)
  PROVE  Safe
<1>1. BoardsKeep({LabelBoard[l]})
  BY BoardsAdvance DEF Core, CreateLabel
<1>2. LabelPut(l)
  BY Bounds, StoredRows DEF Core, LabelTypes, LabelRows, LabelPut,
    CreateLabel
<1>3. UNCHANGED <<card, checklist, item, tags, people>>
  BY DEF CreateLabel
<1>4. BoardTypes' /\ CardTypes'
  BY <1>1, <1>3 DEF Core, BoardTypes, CardTypes, BoardsKeep
<1>5. ListTypes' /\ ItemTypes'
  BY <1>3 DEF Core, ListTypes, ItemTypes
<1>6. LabelTypes' /\ TagTypes' /\ PeopleTypes'
  BY <1>2, <1>3, Parents DEF Core, LabelTypes, TagTypes, PeopleTypes,
    LabelPut
<1>7. ListScope'
  BY <1>3 DEF Core, ListScope
<1>8. ItemScope'
  BY <1>3 DEF Core, ItemScope
<1>9. TagScope'
  BY <1>2, <1>3, Parents DEF Core, TagScope, Assignable, LabelPut
<1>10. PersonScope'
  BY <1>3 DEF Core, PersonScope, Allowed
<1>11. CardSame
  BY <1>3 DEF Core, CardSame, SameLists, SameItems, SameTags, SamePeople,
    ListsOn, ItemsOn, Unnoticed, ItemScope
<1>12. BoardSame
  BY <1>1, <1>2, <1>3, Parents DEF Core, BoardSame, TagScope, PersonScope,
    Assignable, Allowed, BoardsKeep, LabelPut
<1>13. RowsSame
  BY <1>3 DEF Core, RowsSame, Tells
<1>14. ListRoom
  BY <1>3, NoMore DEF Core, ListRoom, ListsOn
<1>15. ItemRoom
  BY <1>3, NoMore DEF Core, ItemRoom, ItemsOn
<1>16. LabelRoom
  <2>1. \A b \in Boards :
          Catalogue(b)' \subseteq IF b = LabelBoard[l]
                                  THEN Catalogue(b) \cup {l} ELSE Catalogue(b)
    BY <1>2, StoredRows DEF Catalogue, LabelPut
  <2>2. Cardinality(Catalogue(LabelBoard[l])) < LabelCapacity
    BY DEF CreateLabel
  <2> QED
    BY <2>1, <2>2, OneMore, NoMore, Finite DEF LabelRoom
<1> QED
  BY <1>4, <1>5, <1>6, <1>7, <1>8, <1>9, <1>10, <1>11, <1>12, <1>13, <1>14,
    <1>15, <1>16 DEF Safe, Core

LEMMA EditLabelSafe ==
  ASSUME Core, NEW l \in Labels, NEW n \in Names,
         EditLabel(l, n)
  PROVE  Safe
<1>1. BoardsKeep({LabelBoard[l]})
  BY BoardsAdvance DEF Core, EditLabel
<1>2. LabelPut(l) /\ Stored(label[l])
  BY LabelEdited, StoredRows DEF Core, LabelTypes, LabelPut, EditLabel
<1>3. UNCHANGED <<card, checklist, item, tags, people>>
  BY DEF EditLabel
<1>4. BoardTypes' /\ CardTypes'
  BY <1>1, <1>3 DEF Core, BoardTypes, CardTypes, BoardsKeep
<1>5. ListTypes' /\ ItemTypes'
  BY <1>3 DEF Core, ListTypes, ItemTypes
<1>6. LabelTypes' /\ TagTypes' /\ PeopleTypes'
  BY <1>2, <1>3, Parents DEF Core, LabelTypes, TagTypes, PeopleTypes,
    LabelPut
<1>7. ListScope'
  BY <1>3 DEF Core, ListScope
<1>8. ItemScope'
  BY <1>3 DEF Core, ItemScope
<1>9. TagScope'
  BY <1>2, <1>3, Parents DEF Core, TagScope, Assignable, LabelPut
<1>10. PersonScope'
  BY <1>3 DEF Core, PersonScope, Allowed
<1>11. CardSame
  BY <1>3 DEF Core, CardSame, SameLists, SameItems, SameTags, SamePeople,
    ListsOn, ItemsOn, Unnoticed, ItemScope
<1>12. BoardSame
  BY <1>1, <1>2, <1>3, Parents DEF Core, BoardSame, TagScope, PersonScope,
    Assignable, Allowed, BoardsKeep, LabelPut
<1>13. RowsSame
  BY <1>3 DEF Core, RowsSame, Tells
<1>14. ListRoom
  BY <1>3, NoMore DEF Core, ListRoom, ListsOn
<1>15. ItemRoom
  BY <1>3, NoMore DEF Core, ItemRoom, ItemsOn
<1>16. LabelRoom
  BY <1>2, NoMore, StoredRows DEF Core, LabelRoom, Catalogue, LabelPut
<1> QED
  BY <1>4, <1>5, <1>6, <1>7, <1>8, <1>9, <1>10, <1>11, <1>12, <1>13, <1>14,
    <1>15, <1>16 DEF Safe, Core

LEMMA DeleteLabelSafe ==
  ASSUME Core, NEW l \in Labels,
         DeleteLabel(l)
  PROVE  Safe
<1>1. BoardsKeep({LabelBoard[l]})
  BY BoardsAdvance DEF Core, DeleteLabel
<1>2. /\ CardsKeep(Reached(l))
      /\ \A t \in tags : t.label = l => t.card \in Reached(l)
  BY CardsAdvance DEF Core, Reached, Carrying, DeleteLabel
<1>3. /\ LabelTypes' /\ ~Stored(label'[l])
      /\ \A m \in Labels : m # l => label'[m] = label[m]
  BY StoredRows DEF Core, LabelTypes, DeleteLabel
<1>4. tags' = {t \in tags : t.label # l}
  BY DEF DeleteLabel
<1>5. UNCHANGED <<checklist, item, people>>
  BY DEF DeleteLabel
<1>6. BoardTypes' /\ CardTypes'
  BY <1>1, <1>2 DEF Core, BoardTypes, CardTypes, CardsKeep, BoardsKeep
<1>7. ListTypes' /\ ItemTypes'
  BY <1>5 DEF Core, ListTypes, ItemTypes
<1>8. LabelTypes' /\ TagTypes' /\ PeopleTypes'
  BY <1>3, <1>4, <1>5, Parents DEF Core, LabelTypes, TagTypes, PeopleTypes,
    Tags, People
<1>9. ListScope'
  BY <1>2, <1>5, Parents, StoredRows DEF Core, ListScope, CardsKeep
<1>10. ItemScope'
  BY <1>5 DEF Core, ItemScope
<1>11. TagScope'
  BY <1>2, <1>3, <1>4, Parents DEF Core, TagScope, Assignable, CardsKeep
<1>12. PersonScope'
  BY <1>2, <1>5, Parents DEF Core, PersonScope, Allowed, CardsKeep
<1>13. CardSame
  BY <1>2, <1>4, <1>5, Parents DEF Core, CardSame, SameLists, SameItems,
    SameTags, SamePeople, ListsOn, ItemsOn, Unnoticed, ItemScope, CardsKeep
<1>14. BoardSame
  BY <1>1, <1>3, <1>4, <1>5, Parents DEF Core, BoardSame, TagScope,
    PersonScope, Assignable, Allowed, BoardsKeep
<1>15. RowsSame
  BY <1>5 DEF Core, RowsSame, Tells
<1>16. ListRoom
  BY <1>5, NoMore DEF Core, ListRoom, ListsOn
<1>17. ItemRoom
  BY <1>5, NoMore DEF Core, ItemRoom, ItemsOn
<1>18. LabelRoom
  BY <1>3, NoMore, StoredRows DEF Core, LabelRoom, Catalogue
<1> QED
  BY <1>6, <1>7, <1>8, <1>9, <1>10, <1>11, <1>12, <1>13, <1>14, <1>15,
    <1>16, <1>17, <1>18 DEF Safe, Core

LEMMA AssignLabelSafe ==
  ASSUME Core, NEW l \in Labels, NEW S \in SUBSET Cards,
         AssignLabel(l, S)
  PROVE  Safe
<1>1. BoardsKeep({LabelBoard[l]})
  BY BoardsAdvance DEF Core, AssignLabel
<1>2. CardsKeep(S \ Carrying(l))
  BY CardsAdvance DEF Core, AssignLabel, Selected, Open
<1>3. \A t : t \in tags' <=>
        \/ t \in tags
        \/ \E c \in S \ Carrying(l) :
             t = [board |-> LabelBoard[l], card |-> c, label |-> l]
  BY DEF AssignLabel
<1>4. Stored(label[l]) /\ \A c \in S : card[c].board = LabelBoard[l]
  BY StoredRows DEF AssignLabel, Selected
<1>5. UNCHANGED <<checklist, item, label, people>>
  BY DEF AssignLabel
<1>6. BoardTypes' /\ CardTypes'
  BY <1>1, <1>2 DEF Core, BoardTypes, CardTypes, CardsKeep, BoardsKeep
<1>7. ListTypes' /\ ItemTypes'
  BY <1>5 DEF Core, ListTypes, ItemTypes
<1>8. LabelTypes' /\ TagTypes' /\ PeopleTypes'
  BY <1>3, <1>4, <1>5, Parents DEF Core, LabelTypes, TagTypes, PeopleTypes,
    Tags, People
<1>9. ListScope'
  BY <1>2, <1>5, Parents, StoredRows DEF Core, ListScope, CardsKeep
<1>10. ItemScope'
  BY <1>5 DEF Core, ItemScope
<1>11. TagScope'
  BY <1>2, <1>3, <1>4, <1>5, Parents DEF Core, TagScope, Assignable,
    CardsKeep
<1>12. PersonScope'
  BY <1>2, <1>5, Parents DEF Core, PersonScope, Allowed, CardsKeep
<1>13. CardSame
  BY <1>2, <1>3, <1>4, <1>5, Parents DEF Core, CardSame, SameLists,
    SameItems, SameTags, SamePeople, ListsOn, ItemsOn, Unnoticed, Carrying,
    ItemScope, CardsKeep
<1>14. BoardSame
  BY <1>1, <1>3, <1>4, <1>5, Parents DEF Core, BoardSame, TagScope,
    PersonScope, Assignable, Allowed, BoardsKeep
<1>15. RowsSame
  BY <1>5 DEF Core, RowsSame, Tells
<1>16. ListRoom
  BY <1>5, NoMore DEF Core, ListRoom, ListsOn
<1>17. ItemRoom
  BY <1>5, NoMore DEF Core, ItemRoom, ItemsOn
<1>18. LabelRoom
  BY <1>5, NoMore DEF Core, LabelRoom, Catalogue
<1> QED
  BY <1>6, <1>7, <1>8, <1>9, <1>10, <1>11, <1>12, <1>13, <1>14, <1>15,
    <1>16, <1>17, <1>18 DEF Safe, Core

LEMMA UnassignLabelSafe ==
  ASSUME Core, NEW l \in Labels, NEW S \in SUBSET Cards,
         UnassignLabel(l, S)
  PROVE  Safe
<1>1. BoardsKeep({LabelBoard[l]})
  BY BoardsAdvance DEF Core, UnassignLabel
<1>2. CardsKeep(S \cap Carrying(l))
  BY CardsAdvance DEF Core, UnassignLabel, Selected, Open
<1>3. tags' = {t \in tags : ~(t.label = l /\ t.card \in S \cap Carrying(l))}
  BY DEF UnassignLabel
<1>4. UNCHANGED <<checklist, item, label, people>>
  BY DEF UnassignLabel
<1>5. BoardTypes' /\ CardTypes'
  BY <1>1, <1>2 DEF Core, BoardTypes, CardTypes, CardsKeep, BoardsKeep
<1>6. ListTypes' /\ ItemTypes'
  BY <1>4 DEF Core, ListTypes, ItemTypes
<1>7. LabelTypes' /\ TagTypes' /\ PeopleTypes'
  BY <1>3, <1>4, Parents DEF Core, LabelTypes, TagTypes, PeopleTypes, Tags,
    People
<1>8. ListScope'
  BY <1>2, <1>4, Parents, StoredRows DEF Core, ListScope, CardsKeep
<1>9. ItemScope'
  BY <1>4 DEF Core, ItemScope
<1>10. TagScope'
  BY <1>2, <1>3, <1>4, Parents DEF Core, TagScope, Assignable, CardsKeep
<1>11. PersonScope'
  BY <1>2, <1>4, Parents DEF Core, PersonScope, Allowed, CardsKeep
<1>12. CardSame
  BY <1>2, <1>3, <1>4, Parents DEF Core, CardSame, SameLists, SameItems,
    SameTags, SamePeople, ListsOn, ItemsOn, Unnoticed, Carrying, ItemScope,
    CardsKeep
<1>13. BoardSame
  BY <1>1, <1>3, <1>4, Parents DEF Core, BoardSame, TagScope, PersonScope,
    Assignable, Allowed, BoardsKeep
<1>14. RowsSame
  BY <1>4 DEF Core, RowsSame, Tells
<1>15. ListRoom
  BY <1>4, NoMore DEF Core, ListRoom, ListsOn
<1>16. ItemRoom
  BY <1>4, NoMore DEF Core, ItemRoom, ItemsOn
<1>17. LabelRoom
  BY <1>4, NoMore DEF Core, LabelRoom, Catalogue
<1> QED
  BY <1>5, <1>6, <1>7, <1>8, <1>9, <1>10, <1>11, <1>12, <1>13, <1>14, <1>15,
    <1>16, <1>17 DEF Safe, Core

LEMMA AddPersonSafe ==
  ASSUME Core, NEW b \in Boards, NEW S \in SUBSET Cards, NEW f \in Fields,
         NEW a \in Actors,
         AddPerson(b, S, f, a)
  PROVE  Safe
<1>1. BoardsKeep({b})
  BY BoardsAdvance DEF Core, AddPerson
<1>2. CardsKeep(S \ Having(f, a))
  BY CardsAdvance DEF Core, AddPerson, Selected, Open
<1>3. \A p : p \in people' <=>
        \/ p \in people
        \/ \E c \in S \ Having(f, a) :
             p = [board |-> b, card |-> c, field |-> f, actor |-> a]
  BY DEF AddPerson
<1>4. a \in Members[b] /\ \A c \in S : card[c].board = b
  BY DEF AddPerson, Selected
<1>5. UNCHANGED <<checklist, item, label, tags>>
  BY DEF AddPerson
<1>6. BoardTypes' /\ CardTypes'
  BY <1>1, <1>2 DEF Core, BoardTypes, CardTypes, CardsKeep, BoardsKeep
<1>7. ListTypes' /\ ItemTypes'
  BY <1>5 DEF Core, ListTypes, ItemTypes
<1>8. LabelTypes' /\ TagTypes' /\ PeopleTypes'
  BY <1>3, <1>4, <1>5, Parents DEF Core, LabelTypes, TagTypes, PeopleTypes,
    Tags, People
<1>9. ListScope'
  BY <1>2, <1>5, Parents, StoredRows DEF Core, ListScope, CardsKeep
<1>10. ItemScope'
  BY <1>5 DEF Core, ItemScope
<1>11. TagScope'
  BY <1>2, <1>5, Parents DEF Core, TagScope, Assignable, CardsKeep
<1>12. PersonScope'
  BY <1>2, <1>3, <1>4, Parents DEF Core, PersonScope, Allowed, CardsKeep
<1>13. CardSame
  BY <1>2, <1>3, <1>4, <1>5, Parents DEF Core, CardSame, SameLists,
    SameItems, SameTags, SamePeople, ListsOn, ItemsOn, Unnoticed, Having,
    ItemScope, CardsKeep
<1>14. BoardSame
  BY <1>1, <1>3, <1>4, <1>5, Parents DEF Core, BoardSame, TagScope,
    PersonScope, Assignable, Allowed, BoardsKeep
<1>15. RowsSame
  BY <1>5 DEF Core, RowsSame, Tells
<1>16. ListRoom
  BY <1>5, NoMore DEF Core, ListRoom, ListsOn
<1>17. ItemRoom
  BY <1>5, NoMore DEF Core, ItemRoom, ItemsOn
<1>18. LabelRoom
  BY <1>5, NoMore DEF Core, LabelRoom, Catalogue
<1> QED
  BY <1>6, <1>7, <1>8, <1>9, <1>10, <1>11, <1>12, <1>13, <1>14, <1>15,
    <1>16, <1>17, <1>18 DEF Safe, Core

LEMMA RemovePersonSafe ==
  ASSUME Core, NEW b \in Boards, NEW S \in SUBSET Cards, NEW f \in Fields,
         NEW a \in Actors,
         RemovePerson(b, S, f, a)
  PROVE  Safe
<1>1. BoardsKeep({b})
  BY BoardsAdvance DEF Core, RemovePerson
<1>2. CardsKeep(S \cap Having(f, a))
  BY CardsAdvance DEF Core, RemovePerson, Selected, Open
<1>3. people' =
        {p \in people :
           ~(p.field = f /\ p.actor = a /\ p.card \in S \cap Having(f, a))}
  BY DEF RemovePerson
<1>4. \A c \in S : card[c].board = b
  BY DEF RemovePerson, Selected
<1>5. UNCHANGED <<checklist, item, label, tags>>
  BY DEF RemovePerson
<1>6. BoardTypes' /\ CardTypes'
  BY <1>1, <1>2 DEF Core, BoardTypes, CardTypes, CardsKeep, BoardsKeep
<1>7. ListTypes' /\ ItemTypes'
  BY <1>5 DEF Core, ListTypes, ItemTypes
<1>8. LabelTypes' /\ TagTypes' /\ PeopleTypes'
  BY <1>3, <1>4, <1>5, Parents DEF Core, LabelTypes, TagTypes, PeopleTypes,
    Tags, People
<1>9. ListScope'
  BY <1>2, <1>5, Parents, StoredRows DEF Core, ListScope, CardsKeep
<1>10. ItemScope'
  BY <1>5 DEF Core, ItemScope
<1>11. TagScope'
  BY <1>2, <1>5, Parents DEF Core, TagScope, Assignable, CardsKeep
<1>12. PersonScope'
  BY <1>2, <1>3, <1>4, Parents DEF Core, PersonScope, Allowed, CardsKeep
<1>13. CardSame
  BY <1>2, <1>3, <1>4, <1>5, Parents DEF Core, CardSame, SameLists,
    SameItems, SameTags, SamePeople, ListsOn, ItemsOn, Unnoticed, Having,
    ItemScope, CardsKeep
<1>14. BoardSame
  BY <1>1, <1>3, <1>4, <1>5, Parents DEF Core, BoardSame, TagScope,
    PersonScope, Assignable, Allowed, BoardsKeep
<1>15. RowsSame
  BY <1>5 DEF Core, RowsSame, Tells
<1>16. ListRoom
  BY <1>5, NoMore DEF Core, ListRoom, ListsOn
<1>17. ItemRoom
  BY <1>5, NoMore DEF Core, ItemRoom, ItemsOn
<1>18. LabelRoom
  BY <1>5, NoMore DEF Core, LabelRoom, Catalogue
<1> QED
  BY <1>6, <1>7, <1>8, <1>9, <1>10, <1>11, <1>12, <1>13, <1>14, <1>15,
    <1>16, <1>17, <1>18 DEF Safe, Core

LEMMA ChangeCardSafe ==
  ASSUME Core, NEW c \in Cards,
         ChangeCard(c)
  PROVE  Safe
<1>1. CardsKeep({c})
  BY CardArchived DEF Core, CardTypes, CardsKeep, Unnoticed, ChangeCard
<1>2. UNCHANGED <<board, checklist, item, label, tags, people>>
  BY DEF ChangeCard
<1>3. BoardTypes' /\ CardTypes'
  BY <1>1, <1>2 DEF Core, BoardTypes, CardTypes, CardsKeep
<1>4. ListTypes' /\ ItemTypes'
  BY <1>2 DEF Core, ListTypes, ItemTypes
<1>5. LabelTypes' /\ TagTypes' /\ PeopleTypes'
  BY <1>2 DEF Core, LabelTypes, TagTypes, PeopleTypes
<1>6. ListScope'
  BY <1>1, <1>2, Parents, StoredRows DEF Core, ListScope, CardsKeep
<1>7. ItemScope'
  BY <1>2 DEF Core, ItemScope
<1>8. TagScope'
  BY <1>1, <1>2, Parents DEF Core, TagScope, Assignable, CardsKeep
<1>9. PersonScope'
  BY <1>1, <1>2, Parents DEF Core, PersonScope, Allowed, CardsKeep
<1>10. CardSame
  BY <1>1, <1>2, Parents DEF Core, CardSame, SameLists, SameItems, SameTags,
    SamePeople, ListsOn, ItemsOn, Unnoticed, ItemScope, CardsKeep
<1>11. BoardSame
  BY <1>2 DEF Core, BoardSame, TagScope, PersonScope, Assignable, Allowed
<1>12. RowsSame
  BY <1>2 DEF Core, RowsSame, Tells
<1>13. ListRoom
  BY <1>2, NoMore DEF Core, ListRoom, ListsOn
<1>14. ItemRoom
  BY <1>2, NoMore DEF Core, ItemRoom, ItemsOn
<1>15. LabelRoom
  BY <1>2, NoMore DEF Core, LabelRoom, Catalogue
<1> QED
  BY <1>3, <1>4, <1>5, <1>6, <1>7, <1>8, <1>9, <1>10, <1>11, <1>12, <1>13,
    <1>14, <1>15 DEF Safe, Core

LEMMA TransferCardsSafe ==
  ASSUME Core, NEW S \in SUBSET Cards, NEW from \in Boards,
         NEW to \in Boards, TransferCards(S, from, to)
  PROVE  Safe
<1>1. BoardsKeep({from, to}) /\ from # to
  BY BoardsAdvance DEF Core, TransferCards, BothBoards
<1>2. /\ CardTypes'
      /\ \A c \in Cards :
           /\ c \in S => card[c].board = from /\ card'[c].board = to
           /\ c \notin S => card'[c].board = card[c].board
           /\ c \in S => ~Unnoticed(c)
           /\ c \notin S => card'[c] = card[c]
  BY CardReboarded DEF Core, CardTypes, Unnoticed,
    TransferCards, Selected, Open
<1>3. \A k \in Checklists :
        IF Stored(checklist[k]) /\ checklist[k].card \in S
        THEN /\ checklist'[k] \in ChecklistRows /\ checklist'[k].board = to
             /\ checklist'[k].card = checklist[k].card
             /\ checklist'[k].version # checklist[k].version
        ELSE checklist'[k] = checklist[k]
  BY Parents, ListReboarded DEF TransferCards, ListsOn
<1>4. checklist' = [k \in Checklists |-> checklist'[k]]
  BY DEF TransferCards
<1>5. ListTypes'
  BY <1>3, <1>4 DEF Core, ListTypes
<1>6. \A i \in Items :
        IF Stored(item[i]) /\ item[i].card \in S
        THEN /\ item'[i] \in ItemRows /\ item'[i].board = to
             /\ item'[i].card = item[i].card /\ item'[i].list = item[i].list
             /\ item'[i].version # item[i].version
        ELSE item'[i] = item[i]
  BY Parents, ItemReboarded DEF TransferCards, ItemsOn
<1>7. item' = [i \in Items |-> item'[i]]
  BY DEF TransferCards
<1>8. ItemTypes'
  BY <1>6, <1>7 DEF Core, ItemTypes
<1>9. \A t : t \in tags' <=>
        \/ t \in tags /\ t.card \notin S
        \/ \E c \in S, l \in Labels :
             /\ t = [board |-> to, card |-> c, label |-> l]
             /\ Stored(label[l]) /\ LabelBoard[l] = to /\ l \in LabelsAt(c, to)
  BY DEF TransferCards, TagsAt, LabelsAt, Catalogue
<1>10. \A p \in people :
        p.card \in S => LET r == [p EXCEPT !.board = to]
                        IN /\ r \in People /\ r.board = to /\ r.card = p.card
                           /\ Stays(p, to) => Stays(r, to)
  BY Parents DEF People, Stays
<1>11. \A p \in people' :
        \/ p \in people /\ p.card \notin S
        \/ /\ p \in People /\ p.board = to /\ p.card \in S
           /\ Stays(p, to)
  BY <1>10 DEF TransferCards, PeopleAt
<1>12. \A p \in people : p.card \notin S => p \in people'
  BY DEF TransferCards, PeopleAt
<1>13. UNCHANGED <<label>>
  BY DEF TransferCards
<1>14. BoardTypes' /\ CardTypes'
  BY <1>1, <1>2 DEF Core, BoardTypes, CardTypes, BoardsKeep
<1>15. ListTypes' /\ ItemTypes'
  BY <1>3, <1>4, <1>5, <1>6, <1>7, <1>8 DEF Core, ListTypes, ItemTypes
<1>16. LabelTypes' /\ TagTypes' /\ PeopleTypes'
  BY <1>9, <1>10, <1>11, <1>12, <1>13, Parents DEF Core, LabelTypes,
    TagTypes, PeopleTypes, Tags, People, LabelsAt
<1>17. ListScope'
  BY <1>2, <1>3, <1>4, <1>5, Parents, StoredRows DEF Core, ListScope
<1>18. ItemScope'
  BY <1>3, <1>4, <1>5, <1>6, <1>7, <1>8, Parents, StoredRows DEF Core,
    ItemScope
<1>19. TagScope'
  BY <1>2, <1>9, <1>13, Parents DEF Core, TagScope, Assignable, LabelsAt
<1>20. PersonScope'
  BY <1>2, <1>10, <1>11, <1>12, Parents DEF Core, PersonScope, Allowed,
    Stays
<1>21. CardSame
  <2>1. \A d \in Cards : Unnoticed(d) => card'[d].board = card[d].board
    BY <1>2, <1>3, <1>4, <1>5, <1>6, <1>7, <1>8, <1>9, <1>10, <1>11, <1>12
      DEF Core, Unnoticed, ItemScope, ItemsIn
  <2>2. \A d \in Cards : Unnoticed(d) => SameLists(d)
    BY <1>2, <1>3, <1>4, <1>5, <1>6, <1>7, <1>8, <1>9, <1>10, <1>11, <1>12,
      StoredRows, Parents DEF Core, SameLists, ListsOn, Unnoticed, ItemScope,
      ItemsIn
  <2>3. \A d \in Cards : Unnoticed(d) => SameItems(d)
    BY <1>2, <1>3, <1>4, <1>5, <1>6, <1>7, <1>8, <1>9, <1>10, <1>11, <1>12,
      StoredRows, Parents DEF Core, SameItems, ItemsOn, Unnoticed, ItemScope,
      ItemsIn
  <2>4. \A d \in Cards : Unnoticed(d) => SameTags(d) /\ SamePeople(d)
    BY <1>2, <1>3, <1>4, <1>5, <1>6, <1>7, <1>8, <1>9, <1>10, <1>11, <1>12,
      Parents DEF Core, SameTags, SamePeople, Unnoticed, ItemScope, ItemsIn
  <2> QED
    BY <2>1, <2>2, <2>3, <2>4 DEF CardSame
<1>22. BoardSame
  BY <1>1, <1>2, <1>9, <1>10, <1>11, <1>12, <1>13, Parents DEF Core,
    BoardSame, TagScope, PersonScope, Assignable, Allowed, BoardsKeep
<1>23. RowsSame
  BY <1>3, <1>4, <1>5, <1>6, <1>7, <1>8, StoredRows DEF Core, RowsSame,
    Tells
<1>24. ListRoom
  BY <1>3, <1>4, <1>5, NoMore, StoredRows DEF Core, ListRoom, ListsOn
<1>25. ItemRoom
  BY <1>6, <1>7, <1>8, NoMore, StoredRows DEF Core, ItemRoom, ItemsOn
<1>26. LabelRoom
  BY <1>13, NoMore DEF Core, LabelRoom, Catalogue
<1> QED
  BY <1>14, <1>15, <1>16, <1>17, <1>18, <1>19, <1>20, <1>21, <1>22, <1>23,
    <1>24, <1>25, <1>26 DEF Safe, Core

-----------------------------------------------------------------------------
LEMMA CoreInit == Init => Core
<1> SUFFICES ASSUME Init PROVE Core
  OBVIOUS
<1>1. BoardTypes /\ CardTypes
  BY Bounds DEF Init, BoardTypes, CardTypes, CardRows
<1>2. \A c \in Cards : card[c] \in CardRows
  BY <1>1 DEF CardTypes
<1>3. \A k \in Checklists :
        checklist[k] = NoRow \/ \E c \in Cards : checklist[k] = NewChecklist(c)
  BY DEF Init
<1>4. ListTypes /\ ListScope
  <2>1. \A k \in Checklists : checklist[k] \in ChecklistRows \cup {NoRow}
    BY <1>2, <1>3, NewLists
  <2>2. ListTypes
    BY <2>1 DEF ListTypes, Init
  <2> QED
    BY <1>2, <1>3, <2>2, NewLists, StoredRows DEF ListScope
<1>5. \A i \in Items :
        \/ item[i] = NoRow
        \/ \E k \in Checklists : Stored(checklist[k]) /\ item[i] = NewItem(k)
  BY DEF Init
<1>6. \A k \in Checklists :
        Stored(checklist[k]) => checklist[k] \in ChecklistRows
  BY <1>4, StoredRows DEF ListTypes
<1>7. ItemTypes /\ ItemScope
  <2>1. \A i \in Items : item[i] \in ItemRows \cup {NoRow}
    BY <1>5, <1>6, NewItems
  <2>2. ItemTypes
    BY <2>1 DEF ItemTypes, Init
  <2> QED
    BY <1>5, <1>6, <2>2, NewItems, StoredRows DEF ItemScope
<1>8. LabelTypes
  <2>1. [name : Names, version : {1}] \subseteq LabelRows
    BY Bounds DEF LabelRows
  <2> QED
    BY <2>1 DEF Init, LabelTypes
<1>9. TagTypes /\ PeopleTypes /\ TagScope /\ PersonScope
  BY DEF Init, TagTypes, PeopleTypes, TagScope, PersonScope
<1> QED
  BY <1>1, <1>4, <1>7, <1>8, <1>9 DEF Core

LEMMA ChecklistStep ==
  ASSUME Core, ChecklistNext
  PROVE  Safe
BY CreateChecklistSafe, AddItemsSafe, EditChecklistSafe, EditItemSafe,
   DeleteItemSafe, DeleteChecklistSafe, ReorderChecklistsSafe, ReorderItemsSafe,
   MoveChecklistSafe, MoveItemSafe DEF ChecklistNext

LEMMA OtherSteps ==
  ASSUME Core, LabelNext \/ PeopleNext \/ CardNext
  PROVE  Safe
BY CreateLabelSafe, EditLabelSafe, DeleteLabelSafe, AssignLabelSafe,
   UnassignLabelSafe, AddPersonSafe, RemovePersonSafe, TransferCardsSafe,
   ChangeCardSafe DEF LabelNext, PeopleNext, CardNext

LEMMA StepSafe ==
  ASSUME Core, Next
  PROVE  Safe
BY ChecklistStep, OtherSteps DEF Next

\* The inductive invariant: the types and the scopes of every row, the
\* membership of every member of a card.
THEOREM CoreHolds == Spec => []Core
<1>1. Core /\ UNCHANGED vars => Core'
  BY DEF vars, Core, BoardTypes, CardTypes, ListTypes, ItemTypes, LabelTypes,
         TagTypes, PeopleTypes, ListScope, ItemScope, TagScope, PersonScope,
         Assignable, Allowed, Stored
<1>2. Core /\ [Next]_vars => Core'
  BY <1>1, StepSafe DEF Safe
<1> QED
  BY <1>2, CoreInit, PTL DEF Spec

\* Every row keeps its type, and no version passes what a reader accepts.
THEOREM TypeCorrect == Spec => []TypeOK
<1>1. Core => TypeOK
  BY DEF Core, TypeOK, BoardTypes, CardTypes, ListTypes, ItemTypes, LabelTypes,
         TagTypes, PeopleTypes
<1> QED
  BY <1>1, CoreHolds, PTL

\* The foreign keys of the tables hold at every COMMIT: a card or a checklist
\* that goes elsewhere (mutations/checklist_order.c, transfer_selected_cards)
\* leaves no row behind, so no request is refused for one.
THEOREM ForeignKeysHold == Spec => []ScopesAgree
<1>1. Core => ScopesAgree
  BY DEF Core, ScopesAgree, ListScope, ItemScope, TagScope, PersonScope, Allowed
<1> QED
  BY <1>1, CoreHolds, PTL

\* No request, a transfer to another board among them, makes somebody a member
\* of a card whose board he is no member of (models/card_people.c,
\* server/mutations/card_people_store.c).
THEOREM MembersOfTheBoard == Spec => []MembersBelong
<1>1. Core => MembersBelong
  BY DEF Core, PersonScope, Allowed, MembersBelong
<1> QED
  BY <1>1, CoreHolds, PTL

-----------------------------------------------------------------------------
LEMMA Counted ==
  ASSUME NEW All, IsFiniteSet(All), NEW capacity \in Nat,
         NEW before \in SUBSET All, NEW after \in SUBSET All,
         Cardinality(before) <= capacity, Room(capacity, before, after, All)
  PROVE  Cardinality(after) <= capacity
<1>1. IsFiniteSet(before) /\ Cardinality(before) \in Nat
  BY FS_Subset, FS_CardinalityType
<1>2. CASE after \subseteq before
  <2>1. Cardinality(after) <= Cardinality(before) /\ Cardinality(after) \in Nat
    BY <1>1, <1>2, FS_Subset, FS_CardinalityType
  <2> QED
    BY <1>1, <2>1
<1>3. ASSUME NEW N \in SUBSET All, after \subseteq before \cup N,
             Cardinality(before) + Cardinality(N) <= capacity
      PROVE  Cardinality(after) <= capacity
  <2>1. IsFiniteSet(N) /\ Cardinality(N) \in Nat
    BY FS_Subset, FS_CardinalityType
  <2>2. /\ IsFiniteSet(before \cup N)
        /\ Cardinality(before \cup N) =
             Cardinality(before) + Cardinality(N) - Cardinality(before \cap N)
    BY <1>1, <2>1, FS_Union
  <2>3. Cardinality(before \cap N) \in Nat
    BY <1>1, FS_Subset, FS_CardinalityType
  <2>4. /\ Cardinality(after) <= Cardinality(before \cup N)
        /\ Cardinality(after) \in Nat /\ Cardinality(before \cup N) \in Nat
    BY <1>3, <2>2, FS_Subset, FS_CardinalityType
  <2> QED
    BY <1>1, <1>3, <2>1, <2>2, <2>3, <2>4
<1> QED
  BY <1>2, <1>3 DEF Room

LEMMA FitsStep ==
  ASSUME Fits, ListRoom, ItemRoom, LabelRoom
  PROVE  Fits'
<1>1. \A c \in Cards : /\ ListsOn(c) \subseteq Checklists
                       /\ ListsOn(c)' \subseteq Checklists
                       /\ ItemsOn(c) \subseteq Items
                       /\ ItemsOn(c)' \subseteq Items
  BY DEF ListsOn, ItemsOn
<1>2. \A b \in Boards : /\ Catalogue(b) \subseteq Labels
                        /\ Catalogue(b)' \subseteq Labels
  BY DEF Catalogue
<1>3. \A c \in Cards : Cardinality(ListsOn(c)') <= ListCapacity
  BY <1>1, Counted DEF Fits, ListRoom
<1>4. \A c \in Cards : Cardinality(ItemsOn(c)') <= ItemCapacity
  BY <1>1, Counted DEF Fits, ItemRoom
<1>5. \A b \in Boards : Cardinality(Catalogue(b)') <= LabelCapacity
  BY <1>2, Counted DEF Fits, LabelRoom
<1> QED
  BY <1>3, <1>4, <1>5 DEF Fits

\* No card ever has more checklists or items than it may, and no board more
\* labels: whatever a checklist brings with it was counted (create and batch,
\* checklist_order.c's transfers, labels.c).
THEOREM CapacityKept == Spec => []WithinCapacity
<1>1. Init => WithinCapacity
  BY DEF Init, WithinCapacity
<1>2. WithinCapacity /\ Core /\ [Next]_vars => WithinCapacity'
  <2>1. WithinCapacity /\ Core /\ Next => WithinCapacity'
    BY StepSafe, FitsStep DEF Safe, WithinCapacity
  <2>2. WithinCapacity /\ UNCHANGED vars => WithinCapacity'
    BY DEF vars, WithinCapacity, Fits, ListsOn, ItemsOn, Catalogue, Stored
  <2> QED
    BY <2>1, <2>2
<1> QED
  BY <1>1, <1>2, CoreHolds, PTL DEF Spec

-----------------------------------------------------------------------------
LEMMA ContentsSame ==
  ASSUME CardSame, NEW c \in Cards, Unnoticed(c)
  PROVE  ContentsOf(c)' = ContentsOf(c)
<1>1. /\ card'[c].board = card[c].board
      /\ SameLists(c) /\ SameItems(c) /\ SameTags(c) /\ SamePeople(c)
  BY DEF CardSame
<1>2. /\ ListsOn(c)' = ListsOn(c)
      /\ \A k \in ListsOn(c) : checklist'[k] = checklist[k]
  BY <1>1 DEF SameLists, ListsOn
<1>3. /\ ItemsOn(c)' = ItemsOn(c)
      /\ \A i \in ItemsOn(c) : item'[i] = item[i]
  BY <1>1 DEF SameItems, ItemsOn
<1>4. TagsOn(c)' = TagsOn(c)
  BY <1>1 DEF SameTags, TagsOn
<1>5. PeopleOn(c)' = PeopleOn(c)
  BY <1>1 DEF SamePeople, PeopleOn
<1>6. [k \in ListsOn(c)' |-> checklist'[k]] =
        [k \in ListsOn(c) |-> checklist[k]]
  BY <1>2
<1>7. [i \in ItemsOn(c)' |-> item'[i]] = [i \in ItemsOn(c) |-> item[i]]
  BY <1>3
<1> QED
  BY <1>1, <1>4, <1>5, <1>6, <1>7 DEF ContentsOf

\* Whatever changes on a card, from whichever card or board it comes, the card
\* has another version: a dialog that showed it does not save over it.
LEMMA CardsTell == Core /\ Next => CardTells
  BY StepSafe, ContentsSame DEF Safe, Unnoticed, CardTells

LEMMA CatalogueSame ==
  ASSUME BoardSame, NEW b \in Boards, board'[b] = board[b]
  PROVE  CatalogueOf(b)' = CatalogueOf(b)
<1>1. /\ Catalogue(b)' = Catalogue(b)
      /\ \A l \in Catalogue(b) : label'[l] = label[l]
  BY DEF BoardSame, Catalogue
<1>2. [l \in Catalogue(b)' |-> label'[l]] = [l \in Catalogue(b) |-> label[l]]
  BY <1>1
<1>3. {t \in tags' : t.board = b} = {t \in tags : t.board = b}
  BY DEF BoardSame
<1>4. {p \in people' : p.board = b} = {p \in people : p.board = b}
  BY DEF BoardSame
<1> QED
  BY <1>2, <1>3, <1>4 DEF CatalogueOf

\* The version of a board tells of every change of its labels, of their
\* assignment and of its people, so a copy kept under it is never stale.
LEMMA BoardsTell == Core /\ Next => BoardTells
  BY StepSafe, CatalogueSame DEF Safe, BoardTells

\* A checklist or an item has another version wherever else it is put, so a
\* request made against where it was is refused.
LEMMA RowVersionsTell == Core /\ Next => RowsTell
  BY StepSafe DEF Safe, RowsSame, RowsTell

\* No change of a card, a board, a checklist or an item goes unnoticed by the
\* version a request about it is compared with.
THEOREM VersionsAlwaysTell == Spec => VersionsTell
<1>1. Core /\ Next => CardTells /\ BoardTells /\ RowsTell
  BY CardsTell, BoardsTell, RowVersionsTell
<1> QED
  BY <1>1, CoreHolds, PTL DEF Spec, VersionsTell
=============================================================================
