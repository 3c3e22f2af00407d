------------------------- MODULE BoardStore_proofs --------------------------
(***************************************************************************)
(* Proofs about BoardStore, for every set of cards, lists and swimlanes,   *)
(* every assignment of them to boards and every bound on the versions.     *)
(***************************************************************************)
EXTENDS BoardStore, FiniteSetTheorems, TLAPS

-----------------------------------------------------------------------------
(* What the helpers return. *)

\* A row that is stored has the type of a row.
LEMMA StoredRows ==
  ASSUME TypeOK
  PROVE  /\ \A c \in Cards : Stored(card[c]) => card[c] \in CardRows
         /\ \A l \in Lists : Stored(list[l]) => list[l] \in ListRows
         /\ \A n \in Lanes : Stored(lane[n]) => lane[n] \in LaneRows
  BY DEF TypeOK, Stored, NoRow

\* A mutation of a card row yields a card row with the next version.
LEMMA CardRowWritten ==
  ASSUME NEW row \in CardRows, row.version <= MutateMax
  PROVE  /\ Bumped(row) \in CardRows
         /\ RestoredRow(row) \in CardRows
         /\ \A l \in Lists, n \in Lanes : PlacedRow(row, l, n) \in CardRows
         /\ \A floor, now \in Nat : ArchivedRow(row, floor, now) \in CardRows
<1>1. row.version + 1 \in Versions
  BY BoardStoreAssumption DEF CardRows, Versions, ReadMax
<1>2. Bumped(row) \in CardRows
  BY <1>1 DEF CardRows, Bumped
<1>3. RestoredRow(row) \in CardRows
  BY <1>2 DEF CardRows, RestoredRow
<1>4. ASSUME NEW l \in Lists, NEW n \in Lanes PROVE PlacedRow(row, l, n) \in CardRows
  BY <1>2 DEF CardRows, PlacedRow
<1>5. ASSUME NEW floor \in Nat, NEW now \in Nat
      PROVE  ArchivedRow(row, floor, now) \in CardRows
  <2>1. row.at \in Nat
    BY DEF CardRows
  <2>2. StampAfter(IF row.at > floor THEN row.at ELSE floor, now) \in Nat
    BY <2>1 DEF StampAfter
  <2>3. QED
    BY <1>2, <2>2 DEF CardRows, ArchivedRow
<1>6. QED
  BY <1>2, <1>3, <1>4, <1>5

LEMMA ListRowWritten ==
  ASSUME NEW row \in ListRows, row.version <= MutateMax
  PROVE  /\ Bumped(row) \in ListRows
         /\ \A flag \in BOOLEAN : [Bumped(row) EXCEPT !.archived = flag] \in ListRows
         /\ \A limit \in WipLimits : [Bumped(row) EXCEPT !.wip = limit] \in ListRows
<1>1. row.version + 1 \in Versions
  BY BoardStoreAssumption DEF ListRows, Versions, ReadMax
<1>2. Bumped(row) \in ListRows
  BY <1>1 DEF ListRows, Bumped
<1>3. QED
  BY <1>2 DEF ListRows

LEMMA LaneRowWritten ==
  ASSUME NEW row \in LaneRows, row.version <= MutateMax
  PROVE  /\ Bumped(row) \in LaneRows
         /\ [Bumped(row) EXCEPT !.archived = FALSE] \in LaneRows
         /\ \A at \in Nat : [Bumped(row) EXCEPT !.archived = TRUE, !.at = at] \in LaneRows
<1>1. row.version + 1 \in Versions
  BY BoardStoreAssumption DEF LaneRows, Versions, ReadMax
<1>2. Bumped(row) \in LaneRows
  BY <1>1 DEF LaneRows, Bumped
<1>3. QED
  BY <1>2 DEF LaneRows

\* The counts a limit is compared with are numbers.
LEMMA CountType ==
  ASSUME NEW cs, NEW l
  PROVE  /\ IsFiniteSet(ActiveIn(cs, l))
         /\ Count(cs, l) \in Nat
  BY BoardStoreAssumption, FS_Subset, FS_CardinalityType DEF ActiveIn, Count

\* A raised limit is a limit that holds the count.
LEMMA RaisedHolds ==
  ASSUME NEW limit \in WipLimits, NEW current \in Nat
  PROVE  /\ Raised(limit, current) \in WipLimits
         /\ current <= Raised(limit, current).value
<1>1. CASE limit.value < current
  <2>1. current \in Nat \ {0}
    BY <1>1 DEF WipLimits
  <2>2. QED
    BY <1>1, <2>1 DEF WipLimits, Raised
<1>2. CASE ~(limit.value < current)
  BY <1>2 DEF WipLimits, Raised
<1>3. QED
  BY <1>1, <1>2

\* An edit of a limit yields a limit, and a hard one that is on holds the count.
LEMMA EditedLimitHolds ==
  ASSUME NEW limit \in WipLimits, NEW current \in Nat,
         NEW edited \in EditedLimits(limit, current)
  PROVE  /\ edited \in WipLimits
         /\ edited.enabled /\ ~edited.soft => current <= edited.value
<1>1. CASE edited = ToggleEnabled(limit, current)
  <2>1. CASE limit.enabled
    BY <1>1, <2>1 DEF WipLimits, ToggleEnabled
  <2>2. CASE ~limit.enabled
    <3> DEFINE on == [limit EXCEPT !.enabled = TRUE]
    <3>1. on \in WipLimits /\ on.value = limit.value
      BY DEF WipLimits
    <3>2. edited = Raised(on, current)
      BY <1>1, <2>2 DEF ToggleEnabled
    <3>3. QED
      BY <3>1, <3>2, RaisedHolds
  <2>3. QED
    BY <2>1, <2>2
<1>2. CASE edited = ToggleSoft(limit, current)
  <2>1. CASE limit.soft
    <3> DEFINE hard == [limit EXCEPT !.soft = FALSE]
    <3>1. hard \in WipLimits
      BY DEF WipLimits
    <3>2. edited = Raised(hard, current)
      BY <1>2, <2>1 DEF ToggleSoft
    <3>3. QED
      BY <3>1, <3>2, RaisedHolds
  <2>2. CASE ~limit.soft
    BY <1>2, <2>2 DEF WipLimits, ToggleSoft
  <2>3. QED
    BY <2>1, <2>2
<1>3. ASSUME NEW v \in 1 .. EditorMax, CanApplyValue(limit, v, current),
             edited = ApplyValue(limit, v)
      PROVE  /\ edited \in WipLimits
             /\ edited.enabled /\ ~edited.soft => current <= edited.value
  <2>1. v \in Nat \ {0}
    BY EditorMaxAssumption
  <2>2. QED
    BY <1>3, <2>1 DEF WipLimits, ApplyValue, CanApplyValue
<1>4. QED
  BY <1>1, <1>2, <1>3 DEF EditedLimits

\* A batch leaves a card row under every identity.
LEMMA BatchWritten ==
  ASSUME TypeOK, NEW S \in SUBSET Cards, \A c \in S : Mutable(card[c])
  PROVE  /\ \A l \in Lists, n \in Lanes :
              CardsPlaced(S, l, n) \in [Cards -> CardRows \cup {NoRow}]
         /\ CardsRestored(S) \in [Cards -> CardRows \cup {NoRow}]
         /\ \A floor \in Nat, now \in [Cards -> Times] :
              CardsArchived(S, floor, now) \in [Cards -> CardRows \cup {NoRow}]
<1>1. \A c \in S : card[c] \in CardRows /\ card[c].version <= MutateMax
  BY StoredRows DEF Mutable
<1>2. \A c \in Cards : card[c] \in CardRows \cup {NoRow}
  BY DEF TypeOK
<1>3. ASSUME NEW l \in Lists, NEW n \in Lanes
      PROVE  CardsPlaced(S, l, n) \in [Cards -> CardRows \cup {NoRow}]
  <2>1. \A c \in S : PlacedRow(card[c], l, n) \in CardRows
    BY <1>1, CardRowWritten
  <2>2. QED
    BY <1>2, <2>1 DEF CardsPlaced
<1>4. CardsRestored(S) \in [Cards -> CardRows \cup {NoRow}]
  <2>1. \A c \in S : RestoredRow(card[c]) \in CardRows
    BY <1>1, CardRowWritten
  <2>2. QED
    BY <1>2, <2>1 DEF CardsRestored
<1>5. ASSUME NEW floor \in Nat, NEW now \in [Cards -> Times]
      PROVE  CardsArchived(S, floor, now) \in [Cards -> CardRows \cup {NoRow}]
  <2>1. \A c \in S : ArchivedRow(card[c], floor, now[c]) \in CardRows
    BY <1>1, CardRowWritten, BoardStoreAssumption
  <2>2. QED
    BY <1>2, <2>1 DEF CardsArchived
<1>6. QED
  BY <1>3, <1>4, <1>5
-----------------------------------------------------------------------------
(* Type correctness. *)

LEMMA InitType == Init => TypeOK
<1> SUFFICES ASSUME Init PROVE TypeOK
  OBVIOUS
<1>1. NewList \in ListRows
  BY BoardStoreAssumption DEF NewList, ListRows, Versions, ReadMax, DefaultLimit, WipLimits
<1>2. NewLane \in LaneRows
  BY BoardStoreAssumption DEF NewLane, LaneRows, Versions, ReadMax
<1>3. 1 \in Versions
  BY BoardStoreAssumption DEF Versions, ReadMax
<1>4. list \in [Lists -> ListRows \cup {NoRow}]
  BY <1>1 DEF Init
<1>5. lane \in [Lanes -> LaneRows \cup {NoRow}]
  BY <1>2 DEF Init
<1>6. QED
  BY <1>3, <1>4, <1>5 DEF Init, TypeOK

\* Every operation leaves well-typed rows.
LEMMA TypeStep ==
  ASSUME TypeOK, [Next]_vars
  PROVE  TypeOK'
<1>1. CASE UNCHANGED vars
  BY <1>1 DEF TypeOK, vars
<1>2. ASSUME NEW c \in Cards, CardStep(c) PROVE TypeOK'
  <2>1. ASSUME NEW l \in Lists, NEW n \in Lanes, CreateCard(c, l, n) PROVE TypeOK'
    <3>1. [list |-> l, lane |-> n, archived |-> FALSE, at |-> 0, version |-> 1] \in CardRows
      BY BoardStoreAssumption DEF CardRows, Versions, ReadMax
    <3>2. QED
      BY <2>1, <3>1 DEF CreateCard, TypeOK
  <2>2. ASSUME NEW l \in Lists, NEW n \in Lanes, MoveCard(c, l, n) PROVE TypeOK'
    <3>1. PlacedRow(card[c], l, n) \in CardRows
      BY <2>2, StoredRows, CardRowWritten DEF MoveCard, MovableCard, Mutable
    <3>2. QED
      BY <2>2, <3>1 DEF MoveCard, TypeOK
  <2>3. CASE EditCard(c)
    <3>1. Bumped(card[c]) \in CardRows
      BY <2>3, StoredRows, CardRowWritten DEF EditCard, Mutable
    <3>2. QED
      BY <2>3, <3>1 DEF EditCard, TypeOK
  <2>4. CASE ArchiveCard(c)
    <3>1. PICK now \in Times : card' = [card EXCEPT ![c] = ArchivedRow(card[c], 0, now)]
      BY <2>4 DEF ArchiveCard
    <3>2. ArchivedRow(card[c], 0, now) \in CardRows
      BY <2>4, StoredRows, CardRowWritten, BoardStoreAssumption DEF ArchiveCard, Mutable
    <3>3. QED
      BY <2>4, <3>1, <3>2 DEF ArchiveCard, TypeOK
  <2>5. CASE RestoreCard(c)
    <3>1. RestoredRow(card[c]) \in CardRows
      BY <2>5, StoredRows, CardRowWritten DEF RestoreCard, Mutable
    <3>2. QED
      BY <2>5, <3>1 DEF RestoreCard, TypeOK
  <2>6. QED
    BY <1>2, <2>1, <2>2, <2>3, <2>4, <2>5 DEF CardStep
<1>3. ASSUME NEW S \in SUBSET Cards, BatchStep(S) PROVE TypeOK'
  <2>1. ASSUME NEW l \in Lists, NEW n \in Lanes, MoveSelectedCards(S, l, n) PROVE TypeOK'
    BY <2>1, BatchWritten DEF MoveSelectedCards, MovableCard, TypeOK
  <2>2. ASSUME NEW b \in Boards, NEW l \in Lists, NEW n \in Lanes,
               TransferSelectedCards(S, b, l, n)
        PROVE  TypeOK'
    <3>1. ListBoard[l] \in Boards
      BY DEF Boards
    <3>2. card' \in [Cards -> CardRows \cup {NoRow}]
      BY <2>2, BatchWritten DEF TransferSelectedCards, MovableCard
    <3>3. board' \in [Boards -> Versions]
      BY <2>2, <3>1, BoardStoreAssumption
         DEF TransferSelectedCards, TypeOK, Versions, ReadMax
    <3>4. QED
      BY <2>2, <3>2, <3>3 DEF TransferSelectedCards, TypeOK
  <2>3. CASE ArchiveSelectedCards(S)
    <3>1. PICK now \in [Cards -> Times] : card' = CardsArchived(S, 0, now)
      BY <2>3 DEF ArchiveSelectedCards
    <3>2. card' \in [Cards -> CardRows \cup {NoRow}]
      BY <2>3, <3>1, BatchWritten DEF ArchiveSelectedCards
    <3>3. QED
      BY <2>3, <3>2 DEF ArchiveSelectedCards, TypeOK
  <2>4. QED
    BY <1>3, <2>1, <2>2, <2>3 DEF BatchStep
<1>4. ASSUME NEW l \in Lists, ListStep(l) PROVE TypeOK'
  <2>1. CASE CreateList(l)
    <3>1. NewList \in ListRows
      BY BoardStoreAssumption
         DEF NewList, ListRows, Versions, ReadMax, DefaultLimit, WipLimits
    <3>2. QED
      BY <2>1, <3>1 DEF CreateList, TypeOK
  <2>2. CASE EditListTitle(l) \/ SetListColor(l)
    <3>1. Bumped(list[l]) \in ListRows
      BY <2>2, StoredRows, ListRowWritten DEF EditListTitle, SetListColor, Mutable
    <3>2. QED
      BY <2>2, <3>1 DEF EditListTitle, SetListColor, TypeOK
  <2>3. CASE ArchiveList(l)
    <3>1. [Bumped(list[l]) EXCEPT !.archived = TRUE] \in ListRows
      BY <2>3, StoredRows, ListRowWritten DEF ArchiveList, Mutable
    <3>2. QED
      BY <2>3, <3>1 DEF ArchiveList, TypeOK
  <2>4. CASE RestoreList(l)
    <3>1. [Bumped(list[l]) EXCEPT !.archived = FALSE] \in ListRows
      BY <2>4, StoredRows, ListRowWritten DEF RestoreList, Mutable
    <3>2. QED
      BY <2>4, <3>1 DEF RestoreList, TypeOK
  <2>5. CASE EditListWip(l)
    <3>1. list[l] \in ListRows /\ list[l].version <= MutateMax
      BY <2>5, StoredRows DEF EditListWip, Mutable
    <3>2. PICK limit \in EditedLimits(list[l].wip, Count(card, l)) :
            list' = [list EXCEPT ![l] = [Bumped(list[l]) EXCEPT !.wip = limit]]
      BY <2>5 DEF EditListWip
    <3>3. list[l].wip \in WipLimits
      BY <3>1 DEF ListRows
    <3>4. limit \in WipLimits
      BY <3>2, <3>3, EditedLimitHolds, CountType
    <3>5. [Bumped(list[l]) EXCEPT !.wip = limit] \in ListRows
      BY <3>1, <3>4, ListRowWritten
    <3>6. QED
      BY <2>5, <3>2, <3>5 DEF EditListWip, TypeOK
  <2>6. ASSUME NEW ns, ArchiveListCards(l, ns) PROVE TypeOK'
    <3> DEFINE S == {c \in ActiveIn(card, l) : card[c].lane \in ns}
    <3>1. S \in SUBSET Cards
      BY DEF ActiveIn
    <3>2. PICK now \in [Cards -> Times] : card' = CardsArchived(S, 0, now)
      BY <2>6 DEF ArchiveListCards
    <3>3. card' \in [Cards -> CardRows \cup {NoRow}]
      BY <2>6, <3>1, <3>2, BatchWritten DEF ArchiveListCards
    <3>4. QED
      BY <2>6, <3>3 DEF ArchiveListCards, TypeOK
  <2>7. QED
    BY <1>4, <2>1, <2>2, <2>3, <2>4, <2>5, <2>6 DEF ListStep
<1>5. ASSUME NEW n \in Lanes, LaneStep(n) PROVE TypeOK'
  <2>1. CASE CreateLane(n)
    <3>1. NewLane \in LaneRows
      BY BoardStoreAssumption DEF NewLane, LaneRows, Versions, ReadMax
    <3>2. QED
      BY <2>1, <3>1 DEF CreateLane, TypeOK
  <2>2. CASE EditLaneTitle(n) \/ SetLaneColor(n)
    <3>1. Bumped(lane[n]) \in LaneRows
      BY <2>2, StoredRows, LaneRowWritten DEF EditLaneTitle, SetLaneColor, Mutable
    <3>2. QED
      BY <2>2, <3>1 DEF EditLaneTitle, SetLaneColor, TypeOK
  <2>3. CASE ArchiveLane(n)
    <3> DEFINE S == {c \in CardsIn(n) : ~card[c].archived}
    <3>1. S \in SUBSET Cards
      BY DEF CardsIn
    <3>2. PICK stamp \in Nat, now \in [Cards -> Times] :
            /\ card' = CardsArchived(S, stamp, now)
            /\ lane' = [lane EXCEPT ![n] =
                          [Bumped(lane[n]) EXCEPT !.archived = TRUE, !.at = stamp]]
      <4>1. PICK floor \in {lane[n].at} \cup {card[c].at : c \in CardsIn(n)},
                 laneNow \in Times, now \in [Cards -> Times] :
              /\ card' = CardsArchived(S, StampAfter(floor, laneNow), now)
              /\ lane' = [lane EXCEPT ![n] =
                            [Bumped(lane[n]) EXCEPT !.archived = TRUE,
                                                    !.at = StampAfter(floor, laneNow)]]
        BY <2>3 DEF ArchiveLane
      <4>2. floor \in Nat
        BY <2>3, StoredRows DEF ArchiveLane, Mutable, CardsIn, CardRows, LaneRows
      <4>3. StampAfter(floor, laneNow) \in Nat
        BY <4>2, BoardStoreAssumption DEF StampAfter
      <4>4. QED
        BY <4>1, <4>3
    <3>3. card' \in [Cards -> CardRows \cup {NoRow}]
      BY <2>3, <3>1, <3>2, BatchWritten DEF ArchiveLane
    <3>4. lane' \in [Lanes -> LaneRows \cup {NoRow}]
      <4>1. [Bumped(lane[n]) EXCEPT !.archived = TRUE, !.at = stamp] \in LaneRows
        BY <2>3, StoredRows, LaneRowWritten DEF ArchiveLane, Mutable
      <4>2. QED
        BY <3>2, <4>1 DEF TypeOK
    <3>5. hidden' \in [Lanes -> SUBSET Cards]
      BY <2>3, <3>1 DEF ArchiveLane, TypeOK
    <3>6. QED
      BY <2>3, <3>3, <3>4, <3>5 DEF ArchiveLane, TypeOK
  <2>4. CASE RestoreLane(n)
    <3>1. Cascade(n) \in SUBSET Cards
      BY DEF Cascade, CardsIn
    <3>2. card' \in [Cards -> CardRows \cup {NoRow}]
      BY <2>4, <3>1, BatchWritten DEF RestoreLane
    <3>3. [Bumped(lane[n]) EXCEPT !.archived = FALSE] \in LaneRows
      BY <2>4, StoredRows, LaneRowWritten DEF RestoreLane, Mutable
    <3>4. QED
      BY <2>4, <3>2, <3>3 DEF RestoreLane, TypeOK
  <2>5. QED
    BY <1>5, <2>1, <2>2, <2>3, <2>4 DEF LaneStep
<1>6. ASSUME NEW b \in Boards, EditBoardTitle(b) \/ SetBoardPresentation(b) PROVE TypeOK'
  BY <1>6, BoardStoreAssumption DEF EditBoardTitle, SetBoardPresentation, TypeOK, Versions, ReadMax
<1>7. QED
  BY <1>1, <1>2, <1>3, <1>4, <1>5, <1>6 DEF Next

\* Types are kept in every run of the store: rows stay rows, and a version
\* never leaves 1 .. ReadMax whatever the bound is (models/version.h).
THEOREM TypeCorrect == Spec => []TypeOK
<1>1. TypeOK /\ [Next]_vars => TypeOK'
  BY TypeStep
<1>2. QED
  BY InitType, <1>1, PTL DEF Spec
-----------------------------------------------------------------------------
(* The stamps of an archived swimlane. *)

\* A step that leaves a swimlane's flag, stamp and history alone, and the cards
\* of the swimlane too while it is archived.
LEMMA LaneUntouched ==
  ASSUME NEW n \in Lanes, HiddenTold(n), hidden'[n] = hidden[n],
         LaneArchived(n)' <=> LaneArchived(n),
         LaneArchived(n) => lane'[n].at = lane[n].at,
         LaneArchived(n) =>
           \A c \in Cards : \/ card'[c] = card[c]
                            \/ c \notin CardsIn(n) /\ ~(Stored(card'[c]) /\ card'[c].lane = n)
  PROVE  HiddenTold(n)'
<1>1. CASE ~LaneArchived(n)
  BY <1>1 DEF HiddenTold
<1>2. CASE LaneArchived(n)
  <2>1. CardsIn(n)' = CardsIn(n) /\ \A c \in CardsIn(n) : card'[c] = card[c]
    BY <1>2 DEF CardsIn, Stored
  <2>2. QED
    BY <1>2, <2>1 DEF HiddenTold, CardsIn
<1>3. QED
  BY <1>1, <1>2

\* An operation on cards touches no card of an archived swimlane.
LEMMA CardsChanged ==
  ASSUME StampsTellHidden, UNCHANGED <<lane, hidden>>,
         \A c \in Cards :
           \/ card'[c] = card[c]
           \/ /\ Stored(card[c]) => ~LaneArchived(card[c].lane)
              /\ Stored(card'[c]) => ~LaneArchived(card'[c].lane)
  PROVE  StampsTellHidden'
<1> SUFFICES ASSUME NEW n \in Lanes PROVE HiddenTold(n)'
  BY DEF StampsTellHidden
<1>1. LaneArchived(n)' <=> LaneArchived(n)
  BY DEF LaneArchived, Stored
<1>2. HiddenTold(n)
  BY DEF StampsTellHidden
<1>3. LaneArchived(n) =>
        \A c \in Cards : \/ card'[c] = card[c]
                         \/ c \notin CardsIn(n) /\ ~(Stored(card'[c]) /\ card'[c].lane = n)
  BY DEF CardsIn
<1>4. hidden'[n] = hidden[n] /\ lane'[n].at = lane[n].at
  OBVIOUS
<1>5. QED
  BY <1>1, <1>2, <1>3, <1>4, LaneUntouched

\* No card is active in an archived swimlane.
LEMMA ActiveCardLane ==
  ASSUME TypeOK, StampsTellHidden, NEW c \in Cards, Stored(card[c]), ~card[c].archived
  PROVE  ~LaneArchived(card[c].lane)
<1>1. card[c].lane \in Lanes
  BY StoredRows DEF CardRows
<1>2. QED
  BY <1>1 DEF StampsTellHidden, HiddenTold, CardsIn

\* Archiving some active cards, wherever they are.
LEMMA CardsArchivedTold ==
  ASSUME TypeOK, StampsTellHidden, UNCHANGED <<lane, hidden>>,
         NEW S \in SUBSET Cards, \A c \in S : Stored(card[c]) /\ ~card[c].archived,
         NEW now, card' = CardsArchived(S, 0, now)
  PROVE  StampsTellHidden'
<1>1. ASSUME NEW c \in S
      PROVE  ~LaneArchived(card[c].lane) /\ card'[c].lane = card[c].lane
  <2>1. card[c] \in CardRows
    BY StoredRows
  <2>2. QED
    BY <2>1, ActiveCardLane DEF CardsArchived, ArchivedRow, Bumped, CardRows
<1>2. \A c \in Cards \ S : card'[c] = card[c]
  BY DEF CardsArchived
<1>3. QED
  BY <1>1, <1>2, CardsChanged

\* Moving some cards of active swimlanes to an active swimlane.
LEMMA CardsPlacedTold ==
  ASSUME TypeOK, StampsTellHidden, UNCHANGED <<lane, hidden>>,
         NEW S \in SUBSET Cards, \A c \in S : MovableCard(c),
         NEW l \in Lists, NEW n \in Lanes, Active(lane[n]), card' = CardsPlaced(S, l, n)
  PROVE  StampsTellHidden'
<1>1. ASSUME NEW c \in S
      PROVE  ~LaneArchived(card[c].lane) /\ card'[c].lane = n
  <2>1. card[c] \in CardRows
    BY StoredRows DEF MovableCard, Mutable
  <2>2. QED
    BY <2>1 DEF CardsPlaced, PlacedRow, Bumped, CardRows, MovableCard, ParentsActive,
                Active, LaneArchived
<1>2. \A c \in Cards \ S : card'[c] = card[c]
  BY DEF CardsPlaced
<1>3. ~LaneArchived(n)
  BY DEF Active, LaneArchived
<1>4. QED
  BY <1>1, <1>2, <1>3, CardsChanged

LEMMA InitTold == Init => StampsTellHidden
  BY DEF Init, StampsTellHidden, HiddenTold, LaneArchived, NewLane, NoRow, Stored

\* Archiving a swimlane stamps the cards it hides at or after itself, and every
\* card archived before it earlier.
LEMMA ArchiveLaneTold ==
  ASSUME TypeOK, StampsTellHidden, NEW n \in Lanes, ArchiveLane(n)
  PROVE  HiddenTold(n)'
<1> DEFINE S == {c \in CardsIn(n) : ~card[c].archived}
<1>1. PICK floor \in {lane[n].at} \cup {card[c].at : c \in CardsIn(n)},
           laneNow \in Times, now \in [Cards -> Times] :
        /\ IsFloor(n, floor)
        /\ card' = CardsArchived(S, StampAfter(floor, laneNow), now)
        /\ lane' = [lane EXCEPT ![n] =
                      [Bumped(lane[n]) EXCEPT !.archived = TRUE,
                                              !.at = StampAfter(floor, laneNow)]]
  BY DEF ArchiveLane
<1> DEFINE stamp == StampAfter(floor, laneNow)
<1>2. hidden'[n] = S
  BY DEF ArchiveLane, TypeOK
<1>3. lane[n] \in LaneRows
  BY StoredRows DEF ArchiveLane, Mutable
<1>4. \A c \in CardsIn(n) : card[c] \in CardRows /\ c \in Cards
  BY StoredRows DEF CardsIn
<1>5. floor \in Nat /\ \A c \in CardsIn(n) : card[c].at <= floor
  BY <1>1, <1>3, <1>4 DEF IsFloor, CardRows, LaneRows
<1>6. stamp \in Nat /\ stamp > floor
  BY <1>5, BoardStoreAssumption DEF StampAfter
<1>7. lane'[n].at = stamp /\ LaneArchived(n)'
  <2>1. lane'[n] = [Bumped(lane[n]) EXCEPT !.archived = TRUE, !.at = stamp]
    BY <1>1 DEF TypeOK
  <2>2. QED
    BY <1>3, <2>1 DEF LaneArchived, LaneRows, Versions, Bumped, Stored
<1>8. ASSUME NEW c \in S
      PROVE  /\ c \in Cards /\ Stored(card'[c]) /\ card'[c].lane = n
             /\ card'[c].archived /\ card'[c].at >= stamp
  <2> DEFINE prior == IF card[c].at > stamp THEN card[c].at ELSE stamp
  <2>1. card[c] \in CardRows /\ card[c].lane = n /\ c \in Cards
    BY <1>4 DEF CardsIn
  <2>2. now[c] \in Nat
    BY <2>1, BoardStoreAssumption
  <2>3. StampAfter(prior, now[c]) >= stamp
    BY <1>6, <2>1, <2>2 DEF StampAfter, CardRows
  <2>4. card'[c] = [Bumped(card[c]) EXCEPT !.archived = TRUE, !.at = StampAfter(prior, now[c])]
    BY <1>1, <2>1 DEF CardsArchived, ArchivedRow
  <2>5. QED
    BY <2>1, <2>3, <2>4 DEF Bumped, CardRows, Versions, Stored
<1>9. \A c \in Cards \ S : card'[c] = card[c]
  BY <1>1 DEF CardsArchived
<1>10. CardsIn(n)' = CardsIn(n)
  BY <1>8, <1>9 DEF CardsIn
<1>11. ASSUME NEW c \in CardsIn(n)
       PROVE  card'[c].archived /\ (c \in S <=> card'[c].at >= stamp)
  <2>1. CASE c \in S
    BY <1>8, <2>1
  <2>2. CASE c \notin S
    <3>1. card'[c] = card[c] /\ card[c].at <= floor /\ card[c].at \in Nat
      BY <1>4, <1>5, <1>9, <2>2 DEF CardRows
    <3>2. QED
      BY <1>5, <1>6, <2>2, <3>1
  <2>3. QED
    BY <2>1, <2>2
<1>12. stamp > 0
  BY <1>5, <1>6
<1>13. S \subseteq CardsIn(n)
  OBVIOUS
<1>14. QED
  BY <1>2, <1>7, <1>10, <1>11, <1>12, <1>13 DEF HiddenTold

\* The cards a restore takes are the ones the archiving hid.
LEMMA CascadeIsHidden ==
  ASSUME StampsTellHidden, NEW n \in Lanes, LaneArchived(n)
  PROVE  Cascade(n) = hidden[n]
  BY DEF StampsTellHidden, HiddenTold, Cascade

LEMMA StampsStep ==
  ASSUME TypeOK, StampsTellHidden, [Next]_vars
  PROVE  StampsTellHidden'
<1>1. CASE UNCHANGED vars
  BY <1>1 DEF vars, StampsTellHidden, HiddenTold, LaneArchived, CardsIn, Stored
<1>2. ASSUME NEW c \in Cards, CardStep(c) PROVE StampsTellHidden'
  <2>1. ASSUME NEW l \in Lists, NEW n \in Lanes, CreateCard(c, l, n) PROVE StampsTellHidden'
    <3>1. card'[c].lane = n /\ ~Stored(card[c]) /\ ~LaneArchived(n)
      BY <2>1 DEF CreateCard, TypeOK, Active, LaneArchived
    <3>2. \A d \in Cards \ {c} : card'[d] = card[d]
      BY <2>1 DEF CreateCard, TypeOK
    <3>3. QED
      BY <2>1, <3>1, <3>2, CardsChanged DEF CreateCard
  <2>2. ASSUME NEW l \in Lists, NEW n \in Lanes, MoveCard(c, l, n) PROVE StampsTellHidden'
    <3>1. card' = CardsPlaced({c}, l, n)
      BY <2>2 DEF MoveCard, CardsPlaced, TypeOK
    <3>2. QED
      BY <2>2, <3>1, CardsPlacedTold DEF MoveCard
  <2>3. CASE EditCard(c)
    <3>1. ~LaneArchived(card[c].lane) /\ card'[c].lane = card[c].lane
      BY <2>3, ActiveCardLane, StoredRows
         DEF EditCard, Mutable, TypeOK, Bumped, CardRows
    <3>2. \A d \in Cards \ {c} : card'[d] = card[d]
      BY <2>3 DEF EditCard, TypeOK
    <3>3. QED
      BY <2>3, <3>1, <3>2, CardsChanged DEF EditCard
  <2>4. CASE ArchiveCard(c)
    <3>1. PICK now \in Times : card' = [card EXCEPT ![c] = ArchivedRow(card[c], 0, now)]
      BY <2>4 DEF ArchiveCard
    <3>2. card' = CardsArchived({c}, 0, [d \in Cards |-> now])
      BY <3>1 DEF CardsArchived, TypeOK
    <3>3. QED
      BY <2>4, <3>2, CardsArchivedTold DEF ArchiveCard, Mutable
  <2>5. CASE RestoreCard(c)
    <3>1. ~LaneArchived(card[c].lane) /\ card'[c].lane = card[c].lane
      BY <2>5, StoredRows
         DEF RestoreCard, RestoredRow, ParentsActive, Active, LaneArchived, Mutable, TypeOK,
             Bumped, CardRows
    <3>2. \A d \in Cards \ {c} : card'[d] = card[d]
      BY <2>5 DEF RestoreCard, TypeOK
    <3>3. QED
      BY <2>5, <3>1, <3>2, CardsChanged DEF RestoreCard
  <2>6. QED
    BY <1>2, <2>1, <2>2, <2>3, <2>4, <2>5 DEF CardStep
<1>3. ASSUME NEW S \in SUBSET Cards, BatchStep(S) PROVE StampsTellHidden'
  <2>1. ASSUME NEW l \in Lists, NEW n \in Lanes, MoveSelectedCards(S, l, n)
        PROVE  StampsTellHidden'
    BY <2>1, CardsPlacedTold DEF MoveSelectedCards
  <2>2. ASSUME NEW b \in Boards, NEW l \in Lists, NEW n \in Lanes,
               TransferSelectedCards(S, b, l, n)
        PROVE  StampsTellHidden'
    BY <2>2, CardsPlacedTold DEF TransferSelectedCards
  <2>3. CASE ArchiveSelectedCards(S)
    <3>1. PICK now \in [Cards -> Times] : card' = CardsArchived(S, 0, now)
      BY <2>3 DEF ArchiveSelectedCards
    <3>2. QED
      BY <2>3, <3>1, CardsArchivedTold DEF ArchiveSelectedCards, Mutable
  <2>4. QED
    BY <1>3, <2>1, <2>2, <2>3 DEF BatchStep
<1>4. ASSUME NEW l \in Lists, ListStep(l) PROVE StampsTellHidden'
  <2>1. CASE UNCHANGED <<card, lane, hidden>>
    BY <2>1, CardsChanged
  <2>2. ASSUME NEW ns, ArchiveListCards(l, ns) PROVE StampsTellHidden'
    <3> DEFINE S == {c \in ActiveIn(card, l) : card[c].lane \in ns}
    <3>1. S \in SUBSET Cards /\ \A c \in S : Stored(card[c]) /\ ~card[c].archived
      BY DEF ActiveIn, Active
    <3>2. PICK now \in [Cards -> Times] : card' = CardsArchived(S, 0, now)
      BY <2>2 DEF ArchiveListCards
    <3>3. QED
      BY <2>2, <3>1, <3>2, CardsArchivedTold DEF ArchiveListCards
  <2>3. QED
    BY <1>4, <2>1, <2>2
       DEF ListStep, CreateList, EditListTitle, SetListColor, ArchiveList, RestoreList, EditListWip
<1>5. ASSUME NEW n \in Lanes, LaneStep(n) PROVE StampsTellHidden'
  <2> SUFFICES ASSUME NEW m \in Lanes PROVE HiddenTold(m)'
    BY DEF StampsTellHidden
  <2>0. HiddenTold(m) /\ HiddenTold(n)
    BY DEF StampsTellHidden
  <2>1. CASE CreateLane(n)
    <3>1. LaneArchived(m)' <=> LaneArchived(m)
      BY <2>1 DEF CreateLane, LaneArchived, NewLane, TypeOK
    <3>2. LaneArchived(m) => lane'[m].at = lane[m].at
      BY <2>1 DEF CreateLane, LaneArchived, TypeOK
    <3>3. QED
      <4>1. \A c \in Cards : card'[c] = card[c]
        BY <2>1 DEF CreateLane
      <4>2. hidden'[m] = hidden[m]
        BY <2>1 DEF CreateLane
      <4>3. QED
        BY <2>0, <3>1, <3>2, <4>1, <4>2, LaneUntouched
  <2>2. CASE EditLaneTitle(n) \/ SetLaneColor(n)
    <3>1. lane[n] \in LaneRows
      BY <2>2, StoredRows DEF EditLaneTitle, SetLaneColor, Mutable
    <3>2. /\ LaneArchived(m)' <=> LaneArchived(m)
          /\ LaneArchived(m) => lane'[m].at = lane[m].at
      BY <2>2, <3>1
         DEF EditLaneTitle, SetLaneColor, LaneArchived, Bumped, Stored, LaneRows, Versions, TypeOK
    <3>3. QED
      <4>1. \A c \in Cards : card'[c] = card[c]
        BY <2>2 DEF EditLaneTitle, SetLaneColor
      <4>2. hidden'[m] = hidden[m]
        BY <2>2 DEF EditLaneTitle, SetLaneColor
      <4>3. QED
        BY <2>0, <3>2, <4>1, <4>2, LaneUntouched
  <2>3. CASE ArchiveLane(n)
    <3>1. CASE m = n
      BY <2>3, <3>1, ArchiveLaneTold
    <3>2. CASE m # n
      <4>1. lane'[m] = lane[m] /\ hidden'[m] = hidden[m]
        BY <2>3, <3>2 DEF ArchiveLane, TypeOK
      <4>2. \A c \in Cards : \/ card'[c] = card[c]
                             \/ c \notin CardsIn(m) /\ ~(Stored(card'[c]) /\ card'[c].lane = m)
        <5>1. \A c \in CardsIn(n) : card[c] \in CardRows /\ card[c].lane = n
          BY StoredRows DEF CardsIn
        <5>2. \A c \in Cards : \/ card'[c] = card[c]
                               \/ c \in CardsIn(n) /\ card'[c].lane = n
          <6> DEFINE S == {c \in CardsIn(n) : ~card[c].archived}
          <6>1. PICK stamp, now : card' = CardsArchived(S, stamp, now)
            BY <2>3 DEF ArchiveLane
          <6>2. ASSUME NEW c \in S PROVE card'[c].lane = n
            BY <5>1, <6>1 DEF CardsArchived, ArchivedRow, Bumped, CardRows, CardsIn
          <6>3. \A c \in Cards \ S : card'[c] = card[c]
            BY <6>1 DEF CardsArchived
          <6>4. QED
            BY <6>2, <6>3
        <5>3. QED
          BY <3>2, <5>1, <5>2 DEF CardsIn
      <4>3. QED
        BY <2>0, <4>1, <4>2, LaneUntouched DEF LaneArchived
    <3>3. QED
      BY <3>1, <3>2
  <2>4. CASE RestoreLane(n)
    <3>1. CASE m = n
      <4>1. ~LaneArchived(n)'
        BY <2>4, StoredRows
           DEF RestoreLane, Mutable, LaneArchived, LaneRows, Bumped, TypeOK
      <4>2. hidden'[n] = {}
        BY <2>4 DEF RestoreLane, TypeOK
      <4>3. QED
        BY <3>1, <4>1, <4>2 DEF HiddenTold
    <3>2. CASE m # n
      <4>1. lane'[m] = lane[m] /\ hidden'[m] = hidden[m]
        BY <2>4, <3>2 DEF RestoreLane, TypeOK
      <4>2. \A c \in Cards : \/ card'[c] = card[c]
                             \/ c \notin CardsIn(m) /\ ~(Stored(card'[c]) /\ card'[c].lane = m)
        <5>1. \A c \in CardsIn(n) : card[c] \in CardRows /\ card[c].lane = n
          BY StoredRows DEF CardsIn
        <5>2. \A c \in Cards : \/ card'[c] = card[c]
                               \/ c \in CardsIn(n) /\ card'[c].lane = n
          <6> DEFINE S == Cascade(n)
          <6>1. card' = CardsRestored(S) /\ S \subseteq CardsIn(n)
            BY <2>4 DEF RestoreLane, Cascade
          <6>2. ASSUME NEW c \in S PROVE card'[c].lane = n
            BY <5>1, <6>1 DEF CardsRestored, RestoredRow, Bumped, CardRows, CardsIn
          <6>3. \A c \in Cards \ S : card'[c] = card[c]
            BY <6>1 DEF CardsRestored
          <6>4. QED
            BY <6>1, <6>2, <6>3
        <5>3. QED
          BY <3>2, <5>1, <5>2 DEF CardsIn
      <4>3. QED
        BY <2>0, <4>1, <4>2, LaneUntouched DEF LaneArchived
    <3>3. QED
      BY <3>1, <3>2
  <2>5. QED
    BY <1>5, <2>1, <2>2, <2>3, <2>4 DEF LaneStep
<1>6. ASSUME NEW b \in Boards, EditBoardTitle(b) \/ SetBoardPresentation(b) PROVE StampsTellHidden'
  BY <1>6, CardsChanged DEF EditBoardTitle, SetBoardPresentation
<1>7. QED
  BY <1>1, <1>2, <1>3, <1>4, <1>5, <1>6 DEF Next

\* The stamps tell the hidden cards in every run: the order of archives,
\* restores and moves and the readings of the clock do not matter.
THEOREM StampsAlwaysTellHidden == Spec => []StampsTellHidden
<1>1. StampsTellHidden /\ TypeOK /\ [Next]_vars => StampsTellHidden'
  BY StampsStep
<1>2. QED
  BY InitTold, TypeCorrect, <1>1, PTL DEF Spec

\* Restoring a swimlane returns exactly the cards its archiving took along.
THEOREM RestoreIsExact == Spec => LaneRestoreExact
<1> DEFINE Exact ==
      \A n \in Lanes :
        LaneArchived(n) /\ ~LaneArchived(n)'
          => {c \in Cards : card[c] # card'[c]} = hidden[n]
             /\ \A c \in hidden[n] : Active(card'[c])
<1>1. ASSUME TypeOK, StampsTellHidden, [Next]_vars PROVE [Exact]_vars
  <2> SUFFICES ASSUME NEW n \in Lanes, LaneArchived(n), ~LaneArchived(n)'
               PROVE  /\ {c \in Cards : card[c] # card'[c]} = hidden[n]
                      /\ \A c \in hidden[n] : Active(card'[c])
    OBVIOUS
  <2>1. RestoreLane(n)
    <3>1. lane'[n] # lane[n]
      BY DEF LaneArchived
    <3>2. PICK m \in Lanes : LaneStep(m)
      BY <1>1, <3>1
         DEF Next, vars, CardStep, CreateCard, MoveCard, EditCard, ArchiveCard, RestoreCard,
             BatchStep, MoveSelectedCards, TransferSelectedCards, ArchiveSelectedCards,
             ListStep, CreateList, EditListTitle, SetListColor, ArchiveList, RestoreList, EditListWip,
             ArchiveListCards, EditBoardTitle, SetBoardPresentation
    <3>3. m = n
      BY <1>1, <3>1, <3>2
         DEF LaneStep, CreateLane, EditLaneTitle, SetLaneColor, ArchiveLane, RestoreLane, TypeOK
    <3>4. ~CreateLane(n) /\ ~ArchiveLane(n)
      BY DEF CreateLane, ArchiveLane, LaneArchived
    <3>5. ~(EditLaneTitle(n) \/ SetLaneColor(n))
      <4> SUFFICES ASSUME EditLaneTitle(n) \/ SetLaneColor(n) PROVE LaneArchived(n)'
        OBVIOUS
      <4>1. lane[n] \in LaneRows
        BY <1>1, StoredRows DEF LaneArchived
      <4>2. lane'[n] = Bumped(lane[n])
        BY <1>1 DEF EditLaneTitle, SetLaneColor, TypeOK
      <4>3. QED
        BY <4>1, <4>2 DEF LaneArchived, LaneRows, Versions, Bumped, Stored
    <3>6. QED
      BY <3>2, <3>3, <3>4, <3>5 DEF LaneStep
  <2>2. card' = CardsRestored(hidden[n])
    BY <1>1, <2>1, CascadeIsHidden DEF RestoreLane
  <2>3. \A c \in hidden[n] : c \in Cards /\ card[c] \in CardRows
    BY <1>1, StoredRows DEF StampsTellHidden, HiddenTold, CardsIn
  <2>4. ASSUME NEW c \in hidden[n] PROVE card'[c] # card[c] /\ Active(card'[c])
    <3>1. card'[c] = [Bumped(card[c]) EXCEPT !.archived = FALSE]
      BY <2>2, <2>3 DEF CardsRestored, RestoredRow
    <3>2. card'[c].version = card[c].version + 1 /\ ~card'[c].archived
      BY <2>3, <3>1 DEF CardRows, Bumped
    <3>3. card[c].version \in Nat
      BY <2>3, BoardStoreAssumption DEF CardRows, Versions, ReadMax
    <3>4. QED
      BY <3>2, <3>3 DEF Active, Stored
  <2>5. \A c \in Cards \ hidden[n] : card'[c] = card[c]
    BY <2>2 DEF CardsRestored
  <2>6. QED
    BY <2>3, <2>4, <2>5
<1>2. QED
  BY <1>1, TypeCorrect, StampsAlwaysTellHidden, PTL DEF Spec, LaneRestoreExact
-----------------------------------------------------------------------------
(* Limits. *)

\* The check after a batch: either the limit holds, or nothing came in.
LEMMA CheckedLimit ==
  ASSUME NEW l \in Lists, list[l].wip \in WipLimits, NEW cs, NEW incoming \in Nat,
         WipHolds(cs, l, incoming), list[l].wip.enabled, ~list[l].wip.soft
  PROVE  Count(cs, l) <= list[l].wip.value \/ incoming = 0
<1> DEFINE total == Count(cs, l)
<1>1. total \in Nat /\ (total - incoming) - 0 + incoming = total
  BY CountType
<1>2. list[l].wip.value \in Nat
  BY DEF WipLimits
<1>3. ~(total > list[l].wip.value) \/ total <= total - incoming
  BY <1>1 DEF WipHolds, WipAllowed, Exceeded
<1>4. QED
  BY <1>1, <1>2, <1>3

\* A list whose limit stays and whose active cards do not grow.
LEMMA LimitKept ==
  ASSUME TypeOK, NEW l \in Lists, LimitHolds(l),
         Stored(list'[l]) => Stored(list[l]) /\ list'[l].wip = list[l].wip,
         \A c \in Cards : Active(card'[c]) /\ card'[c].list = l
                           => Active(card[c]) /\ card[c].list = l
  PROVE  LimitHolds(l)'
<1> SUFFICES ASSUME Stored(list'[l]), list'[l].wip.enabled, ~list'[l].wip.soft
             PROVE  Count(card', l) <= list'[l].wip.value
  BY DEF LimitHolds, Stored
<1>1. ActiveIn(card', l) \subseteq ActiveIn(card, l)
  BY DEF ActiveIn
<1>2. Count(card', l) <= Count(card, l)
  BY <1>1, CountType, FS_Subset DEF Count
<1>3. Count(card', l) \in Nat /\ Count(card, l) \in Nat
  BY CountType
<1>4. list[l].wip.value \in Nat
  BY StoredRows DEF ListRows, WipLimits
<1>5. Count(card, l) <= list[l].wip.value
  BY DEF LimitHolds
<1>6. QED
  BY <1>2, <1>3, <1>4, <1>5

\* A list that was checked after the cards were written.
LEMMA LimitChecked ==
  ASSUME TypeOK, NEW l \in Lists, Stored(list[l]), list'[l] = list[l],
         NEW incoming \in Nat \ {0}, WipHolds(card', l, incoming)
  PROVE  LimitHolds(l)'
<1>1. list[l].wip \in WipLimits
  BY StoredRows DEF ListRows
<1>2. list[l].wip.enabled /\ ~list[l].wip.soft => Count(card', l) <= list[l].wip.value
  BY <1>1, CheckedLimit
<1>3. QED
  BY <1>2 DEF LimitHolds

\* Archiving cards shrinks every list.
LEMMA LimitsAfterArchive ==
  ASSUME TypeOK, HardWip, UNCHANGED list,
         NEW S \in SUBSET Cards, \A c \in S : Stored(card[c]),
         NEW floor, NEW now, card' = CardsArchived(S, floor, now)
  PROVE  HardWip'
<1>1. \A c \in S : card'[c].archived
  <2> SUFFICES ASSUME NEW c \in S PROVE card'[c].archived
    OBVIOUS
  <2>1. card[c] \in CardRows
    BY StoredRows
  <2>2. QED
    BY <2>1 DEF CardsArchived, ArchivedRow, Bumped, CardRows
<1>2. \A c \in Cards \ S : card'[c] = card[c]
  BY DEF CardsArchived
<1>3. QED
  BY <1>1, <1>2, LimitKept DEF HardWip, Active

\* Placing cards into a list: other lists do not grow.
LEMMA LimitsAfterPlacing ==
  ASSUME TypeOK, HardWip, UNCHANGED list,
         NEW S \in SUBSET Cards, \A c \in S : Stored(card[c]) /\ ~card[c].archived,
         NEW k \in Lists, NEW n \in Lanes, card' = CardsPlaced(S, k, n)
  PROVE  /\ \A l \in Lists \ {k} : LimitHolds(l)'
         /\ (\A c \in S : card[c].list = k) => LimitHolds(k)'
<1>1. \A c \in S : card'[c].list = k /\ Active(card[c])
  <2> SUFFICES ASSUME NEW c \in S PROVE card'[c].list = k /\ Active(card[c])
    OBVIOUS
  <2>1. card[c] \in CardRows
    BY StoredRows
  <2>2. QED
    BY <2>1 DEF CardsPlaced, PlacedRow, Bumped, CardRows, Active
<1>2. \A c \in Cards \ S : card'[c] = card[c]
  BY DEF CardsPlaced
<1>3. QED
  BY <1>1, <1>2, LimitKept DEF HardWip, Stored

LEMMA InitLimits == Init => HardWip
  BY DEF Init, HardWip, LimitHolds, NewList, NoRow, DefaultLimit, Stored

\* One more card in a list that has room for it.
LEMMA LimitAfterMove ==
  ASSUME TypeOK, HardWip, NEW c \in Cards, NEW k \in Lists, NEW n \in Lanes,
         MoveCard(c, k, n)
  PROVE  LimitHolds(k)'
<1>1. card[c] \in CardRows /\ card' = CardsPlaced({c}, k, n) /\ list' = list
  BY StoredRows DEF MoveCard, MovableCard, Mutable, CardsPlaced, TypeOK
<1>2. CASE card[c].list = k
  BY <1>1, <1>2, LimitsAfterPlacing DEF MoveCard, MovableCard, Mutable
<1>3. CASE card[c].list # k
  <2> SUFFICES ASSUME Stored(list[k]), list[k].wip.enabled, ~list[k].wip.soft
               PROVE  Count(card', k) <= list[k].wip.value
    BY <1>1 DEF LimitHolds
  <2>1. ActiveIn(card', k) \subseteq ActiveIn(card, k) \cup {c}
    BY <1>1 DEF ActiveIn, CardsPlaced
  <2>2. c \notin ActiveIn(card, k)
    BY <1>3 DEF ActiveIn
  <2>3. /\ IsFiniteSet(ActiveIn(card, k) \cup {c})
        /\ Cardinality(ActiveIn(card, k) \cup {c}) = Count(card, k) + 1
    BY <2>2, CountType, FS_AddElement DEF Count
  <2>4. Count(card', k) <= Count(card, k) + 1
    BY <2>1, <2>3, FS_Subset DEF Count
  <2>5. Count(card, k) \in Nat /\ Count(card', k) \in Nat /\ list[k].wip.value \in Nat
    BY CountType, StoredRows DEF ListRows, WipLimits
  <2>6. WipAllowed(list[k].wip, Count(card, k), 0, 1)
    BY <1>3 DEF MoveCard
  <2>7. Count(card, k) + 1 <= list[k].wip.value
    BY <2>5, <2>6 DEF WipAllowed, Exceeded
  <2>8. QED
    BY <2>4, <2>5, <2>7
<1>4. QED
  BY <1>2, <1>3

\* Restoring a swimlane: a list that gets a card back was checked, the others
\* do not grow.
LEMMA LimitsAfterRestoreLane ==
  ASSUME TypeOK, ParentsTogether, HardWip, NEW n \in Lanes, RestoreLane(n)
  PROVE  HardWip'
<1> DEFINE S == Cascade(n)
<1> SUFFICES ASSUME NEW l \in Lists PROVE LimitHolds(l)'
  BY DEF HardWip
<1>1. list' = list /\ card' = CardsRestored(S)
  BY DEF RestoreLane, CardsFit
<1>2. \A c \in S : c \in Cards /\ Stored(card[c]) /\ card[c] \in CardRows
  BY StoredRows DEF Cascade, CardsIn
<1>3. \A c \in S : card'[c].list = card[c].list
  BY <1>1, <1>2 DEF CardsRestored, RestoredRow, Bumped, CardRows
<1>4. CASE \E c \in S : card[c].list = l
  <2>1. WipHolds(card', l, 1) /\ Stored(list[l])
    BY <1>2, <1>4 DEF RestoreLane, CardsFit, ParentsTogether
  <2>2. QED
    BY <1>1, <2>1, LimitChecked
<1>5. CASE \A c \in S : card[c].list # l
  <2>1. \A c \in Cards \ S : card'[c] = card[c]
    BY <1>1 DEF CardsRestored
  <2>2. \A c \in Cards : Active(card'[c]) /\ card'[c].list = l
                            => Active(card[c]) /\ card[c].list = l
    BY <1>3, <1>5, <2>1
  <2>3. QED
    BY <1>1, <2>2, LimitKept DEF HardWip
<1>6. QED
  BY <1>4, <1>5
-----------------------------------------------------------------------------
(* What one step does to one row. *)

\* Where a changed card ends: where it was, or between active parents of one
\* board, and only a card that is not archived goes elsewhere.
Placed(c) ==
  \/ /\ Stored(card[c])
     /\ card'[c].list = card[c].list /\ card'[c].lane = card[c].lane
     /\ card'[c].at >= card[c].at
  \/ /\ Stored(card[c]) => ~card[c].archived
     /\ ListBoard[card'[c].list] = LaneBoard[card'[c].lane]
     /\ Active(list[card'[c].list]) /\ Active(lane[card'[c].lane])

Effect(c) ==
  card'[c] # card[c] => card'[c].version = card[c].version + 1 /\ Placed(c)

\* The rows the operations write have the next version.
LEMMA NextVersion ==
  ASSUME NEW row \in CardRows
  PROVE  /\ Bumped(row).version = row.version + 1 /\ Bumped(row).at = row.at
         /\ Bumped(row).list = row.list /\ Bumped(row).lane = row.lane
         /\ RestoredRow(row) = [Bumped(row) EXCEPT !.archived = FALSE]
         /\ RestoredRow(row).version = row.version + 1 /\ RestoredRow(row).at = row.at
         /\ RestoredRow(row).list = row.list /\ RestoredRow(row).lane = row.lane
         /\ \A l, n : /\ PlacedRow(row, l, n).version = row.version + 1
                      /\ PlacedRow(row, l, n).list = l /\ PlacedRow(row, l, n).lane = n
  BY DEF CardRows, Bumped, RestoredRow, PlacedRow

LEMMA ArchivedNext ==
  ASSUME NEW row \in CardRows, NEW floor \in Nat, NEW now \in Nat
  PROVE  /\ ArchivedRow(row, floor, now).version = row.version + 1
         /\ ArchivedRow(row, floor, now).at >= row.at
         /\ ArchivedRow(row, floor, now).list = row.list
         /\ ArchivedRow(row, floor, now).lane = row.lane
<1> DEFINE prior == IF row.at > floor THEN row.at ELSE floor
<1>1. row.at \in Nat
  BY DEF CardRows
<1>2. StampAfter(prior, now) >= row.at
  BY <1>1 DEF StampAfter
<1>3. ArchivedRow(row, floor, now)
        = [Bumped(row) EXCEPT !.archived = TRUE, !.at = StampAfter(prior, now)]
  BY DEF ArchivedRow
<1>4. QED
  BY <1>2, <1>3 DEF Bumped, CardRows

LEMMA ArchiveEffect ==
  ASSUME TypeOK, NEW S \in SUBSET Cards, \A c \in S : Stored(card[c]),
         NEW floor \in Nat, NEW now \in [Cards -> Times],
         card' = CardsArchived(S, floor, now), NEW c \in Cards
  PROVE  Effect(c)
<1>1. CASE c \in S
  <2>1. card[c] \in CardRows /\ now[c] \in Nat
    BY <1>1, StoredRows, BoardStoreAssumption
  <2>2. card'[c] = ArchivedRow(card[c], floor, now[c])
    BY <1>1 DEF CardsArchived
  <2>3. QED
    BY <1>1, <2>1, <2>2, ArchivedNext DEF Effect, Placed
<1>2. CASE c \notin S
  BY <1>2 DEF CardsArchived, Effect
<1>3. QED
  BY <1>1, <1>2

LEMMA RestoreEffect ==
  ASSUME TypeOK, NEW S \in SUBSET Cards, \A c \in S : Stored(card[c]),
         card' = CardsRestored(S), NEW c \in Cards
  PROVE  Effect(c)
<1>1. CASE c \in S
  <2>1. card[c] \in CardRows /\ card[c].at \in Nat
    BY <1>1, StoredRows DEF CardRows
  <2>2. card'[c] = RestoredRow(card[c])
    BY <1>1 DEF CardsRestored
  <2>3. QED
    BY <1>1, <2>1, <2>2, NextVersion DEF Effect, Placed
<1>2. CASE c \notin S
  BY <1>2 DEF CardsRestored, Effect
<1>3. QED
  BY <1>1, <1>2

LEMMA PlaceEffect ==
  ASSUME TypeOK, NEW S \in SUBSET Cards, \A c \in S : MovableCard(c),
         NEW l \in Lists, NEW n \in Lanes, ListBoard[l] = LaneBoard[n],
         Active(list[l]), Active(lane[n]),
         card' = CardsPlaced(S, l, n), NEW c \in Cards
  PROVE  Effect(c)
<1>1. CASE c \in S
  <2>1. card[c] \in CardRows /\ ~card[c].archived
    BY <1>1, StoredRows DEF MovableCard, Mutable
  <2>2. card'[c] = PlacedRow(card[c], l, n)
    BY <1>1 DEF CardsPlaced
  <2>3. QED
    BY <2>1, <2>2, NextVersion DEF Effect, Placed
<1>2. CASE c \notin S
  BY <1>2 DEF CardsPlaced, Effect
<1>3. QED
  BY <1>1, <1>2

\* The effect of any step on any card.
LEMMA CardEffect ==
  ASSUME TypeOK, [Next]_vars
  PROVE  \A d \in Cards : Effect(d)
<1>1. CASE UNCHANGED card
  BY <1>1 DEF Effect
<1>2. ASSUME NEW c \in Cards, CardStep(c) PROVE \A d \in Cards : Effect(d)
  <2>1. ASSUME NEW l \in Lists, NEW n \in Lanes, CreateCard(c, l, n)
        PROVE  \A d \in Cards : Effect(d)
    <3>1. /\ card'[c] = [list |-> l, lane |-> n, archived |-> FALSE, at |-> 0, version |-> 1]
          /\ \A d \in Cards \ {c} : card'[d] = card[d]
      BY <2>1 DEF CreateCard, TypeOK
    <3>2. card[c].version = 0
      BY <2>1, BoardStoreAssumption
         DEF CreateCard, Stored, TypeOK, NoRow, CardRows, Versions, ReadMax
    <3>3. QED
      BY <2>1, <3>1, <3>2 DEF CreateCard, Effect, Placed
  <2>2. ASSUME NEW l \in Lists, NEW n \in Lanes, MoveCard(c, l, n)
        PROVE  \A d \in Cards : Effect(d)
    <3>1. card' = CardsPlaced({c}, l, n)
      BY <2>2 DEF MoveCard, CardsPlaced, TypeOK
    <3>2. QED
      BY <2>2, <3>1, PlaceEffect DEF MoveCard
  <2>3. CASE EditCard(c)
    <3>1. card[c] \in CardRows /\ card[c].at \in Nat
      BY <2>3, StoredRows DEF EditCard, Mutable, CardRows
    <3>2. card'[c] = Bumped(card[c]) /\ \A d \in Cards \ {c} : card'[d] = card[d]
      BY <2>3 DEF EditCard, TypeOK
    <3>3. QED
      BY <2>3, <3>1, <3>2, NextVersion DEF EditCard, Mutable, Effect, Placed
  <2>4. CASE ArchiveCard(c)
    <3>1. PICK now \in Times : card' = [card EXCEPT ![c] = ArchivedRow(card[c], 0, now)]
      BY <2>4 DEF ArchiveCard
    <3>2. card' = CardsArchived({c}, 0, [d \in Cards |-> now])
      BY <3>1 DEF CardsArchived, TypeOK
    <3>3. QED
      BY <2>4, <3>2, ArchiveEffect DEF ArchiveCard, Mutable
  <2>5. CASE RestoreCard(c)
    <3>1. card' = CardsRestored({c})
      BY <2>5 DEF RestoreCard, CardsRestored, TypeOK
    <3>2. QED
      BY <2>5, <3>1, RestoreEffect DEF RestoreCard, Mutable
  <2>6. QED
    BY <1>2, <2>1, <2>2, <2>3, <2>4, <2>5 DEF CardStep
<1>3. ASSUME NEW S \in SUBSET Cards, BatchStep(S) PROVE \A d \in Cards : Effect(d)
  <2>1. ASSUME NEW l \in Lists, NEW n \in Lanes, MoveSelectedCards(S, l, n)
        PROVE  \A d \in Cards : Effect(d)
    BY <2>1, PlaceEffect DEF MoveSelectedCards
  <2>2. ASSUME NEW b \in Boards, NEW l \in Lists, NEW n \in Lanes,
               TransferSelectedCards(S, b, l, n)
        PROVE  \A d \in Cards : Effect(d)
    BY <2>2, PlaceEffect DEF TransferSelectedCards
  <2>3. CASE ArchiveSelectedCards(S)
    <3>1. PICK now \in [Cards -> Times] : card' = CardsArchived(S, 0, now)
      BY <2>3 DEF ArchiveSelectedCards
    <3>2. QED
      BY <2>3, <3>1, ArchiveEffect DEF ArchiveSelectedCards, Mutable
  <2>4. QED
    BY <1>3, <2>1, <2>2, <2>3 DEF BatchStep
<1>4. ASSUME NEW l \in Lists, NEW ns, ArchiveListCards(l, ns)
      PROVE  \A d \in Cards : Effect(d)
  <2> DEFINE S == {c \in ActiveIn(card, l) : card[c].lane \in ns}
  <2>1. S \in SUBSET Cards /\ \A c \in S : Stored(card[c])
    BY DEF ActiveIn, Active
  <2>2. PICK now \in [Cards -> Times] : card' = CardsArchived(S, 0, now)
    BY <1>4 DEF ArchiveListCards
  <2>3. QED
    BY <2>1, <2>2, ArchiveEffect
<1>5. ASSUME NEW n \in Lanes, ArchiveLane(n) PROVE \A d \in Cards : Effect(d)
  <2> DEFINE S == {c \in CardsIn(n) : ~card[c].archived}
  <2>1. S \in SUBSET Cards /\ \A c \in S : Stored(card[c])
    BY DEF CardsIn
  <2>2. PICK floor \in {lane[n].at} \cup {card[c].at : c \in CardsIn(n)},
             laneNow \in Times, now \in [Cards -> Times] :
          card' = CardsArchived(S, StampAfter(floor, laneNow), now)
    BY <1>5 DEF ArchiveLane
  <2>3. floor \in Nat
    BY <1>5, StoredRows DEF ArchiveLane, Mutable, CardsIn, CardRows, LaneRows
  <2>4. StampAfter(floor, laneNow) \in Nat
    BY <2>3, BoardStoreAssumption DEF StampAfter
  <2>5. QED
    BY <2>1, <2>2, <2>4, ArchiveEffect
<1>6. ASSUME NEW n \in Lanes, RestoreLane(n) PROVE \A d \in Cards : Effect(d)
  BY <1>6, RestoreEffect DEF RestoreLane, Cascade, CardsIn
<1>7. QED
  BY <1>1, <1>2, <1>3, <1>4, <1>5, <1>6
     DEF Next, vars, ListStep, CreateList, EditListTitle, SetListColor, ArchiveList, RestoreList,
         EditListWip, LaneStep, CreateLane, EditLaneTitle, SetLaneColor, EditBoardTitle, SetBoardPresentation

\* The effect of any step on any list and swimlane.
LEMMA ParentEffect ==
  ASSUME TypeOK, [Next]_vars
  PROVE  /\ \A l \in Lists : list'[l] # list[l] => list'[l].version = list[l].version + 1
         /\ \A n \in Lanes : lane'[n] # lane[n] => lane'[n].version = lane[n].version + 1
<1>1. CASE UNCHANGED <<list, lane>>
  BY <1>1
<1>2. ASSUME NEW l \in Lists, ListStep(l), ~UNCHANGED <<list, lane>>
      PROVE  /\ lane' = lane /\ \A k \in Lists \ {l} : list'[k] = list[k]
             /\ list'[l].version = list[l].version + 1
  <2>1. ~(\E ns : ArchiveListCards(l, ns))
    BY <1>2 DEF ArchiveListCards
  <2>2. CASE CreateList(l)
    <3>1. list[l].version = 0
      BY <2>2, BoardStoreAssumption
         DEF CreateList, Stored, TypeOK, NoRow, ListRows, Versions, ReadMax
    <3>2. QED
      BY <2>2, <3>1 DEF CreateList, NewList, TypeOK
  <2>3. CASE ~CreateList(l)
    <3>1. list[l] \in ListRows
      BY <1>2, <2>1, <2>3, StoredRows
         DEF ListStep, EditListTitle, SetListColor, ArchiveList, RestoreList, EditListWip, Mutable
    <3>2. \E row : /\ row.version = list[l].version + 1
                  /\ list' = [list EXCEPT ![l] = row]
      <4>1. CASE EditListTitle(l) \/ SetListColor(l)
        BY <3>1, <4>1 DEF EditListTitle, SetListColor, Bumped, ListRows
      <4>2. CASE ArchiveList(l)
        BY <3>1, <4>2 DEF ArchiveList, Bumped, ListRows
      <4>3. CASE RestoreList(l)
        BY <3>1, <4>3 DEF RestoreList, Bumped, ListRows
      <4>4. CASE EditListWip(l)
        <5>1. PICK limit : list' = [list EXCEPT ![l] = [Bumped(list[l]) EXCEPT !.wip = limit]]
          BY <4>4 DEF EditListWip
        <5>2. [Bumped(list[l]) EXCEPT !.wip = limit].version = list[l].version + 1
          BY <3>1 DEF Bumped, ListRows
        <5>3. QED
          BY <5>1, <5>2
      <4>5. QED
        BY <1>2, <2>1, <2>3, <4>1, <4>2, <4>3, <4>4 DEF ListStep
    <3>3. lane' = lane
      BY <1>2, <2>1, <2>3
         DEF ListStep, EditListTitle, SetListColor, ArchiveList, RestoreList, EditListWip
    <3>4. QED
      BY <3>2, <3>3 DEF TypeOK
  <2>4. QED
    BY <2>2, <2>3
<1>3. ASSUME NEW n \in Lanes, LaneStep(n)
      PROVE  /\ list' = list /\ \A m \in Lanes \ {n} : lane'[m] = lane[m]
             /\ lane'[n].version = lane[n].version + 1
  <2>1. CASE CreateLane(n)
    <3>1. lane[n].version = 0
      BY <2>1, BoardStoreAssumption
         DEF CreateLane, Stored, TypeOK, NoRow, LaneRows, Versions, ReadMax
    <3>2. QED
      BY <2>1, <3>1 DEF CreateLane, NewLane, TypeOK
  <2>2. CASE ArchiveLane(n)
    <3>1. PICK stamp : lane' = [lane EXCEPT ![n] =
                       [Bumped(lane[n]) EXCEPT !.archived = TRUE, !.at = stamp]]
      BY <2>2 DEF ArchiveLane
    <3>2. lane[n] \in LaneRows /\ list' = list
      BY <2>2, StoredRows DEF ArchiveLane, Mutable
    <3>3. [Bumped(lane[n]) EXCEPT !.archived = TRUE, !.at = stamp].version
            = lane[n].version + 1
      BY <3>2 DEF Bumped, LaneRows
    <3>4. QED
      BY <3>1, <3>2, <3>3 DEF TypeOK
  <2>3. CASE EditLaneTitle(n) \/ SetLaneColor(n) \/ RestoreLane(n)
    <3>1. lane[n] \in LaneRows
      BY <2>3, StoredRows DEF EditLaneTitle, SetLaneColor, RestoreLane, Mutable
    <3>2. CASE EditLaneTitle(n) \/ SetLaneColor(n)
      BY <3>1, <3>2 DEF EditLaneTitle, SetLaneColor, Bumped, LaneRows, TypeOK
    <3>3. CASE RestoreLane(n)
      <4>1. [Bumped(lane[n]) EXCEPT !.archived = FALSE].version = lane[n].version + 1
        BY <3>1 DEF Bumped, LaneRows
      <4>2. QED
        BY <3>3, <4>1 DEF RestoreLane, TypeOK
    <3>4. QED
      BY <2>3, <3>2, <3>3
  <2>4. QED
    BY <1>3, <2>1, <2>2, <2>3 DEF LaneStep
<1>4. QED
  BY <1>1, <1>2, <1>3
     DEF Next, vars, CardStep, CreateCard, MoveCard, EditCard, ArchiveCard, RestoreCard,
         BatchStep, MoveSelectedCards, TransferSelectedCards, ArchiveSelectedCards,
         EditBoardTitle, SetBoardPresentation

\* Every change of a row has the next version, so that two contents of a row
\* never carry one version and a compared version detects every change.
THEOREM EveryChangeIsVersioned == Spec => ChangesAreVersioned
<1>1. TypeOK /\ [Next]_vars =>
        [/\ \A c \in Cards : card'[c] # card[c] => card'[c].version = card[c].version + 1
         /\ \A l \in Lists : list'[l] # list[l] => list'[l].version = list[l].version + 1
         /\ \A n \in Lanes : lane'[n] # lane[n] => lane'[n].version = lane[n].version + 1
        ]_vars
  BY CardEffect, ParentEffect DEF Effect
<1>2. QED
  BY <1>1, TypeCorrect, PTL DEF Spec, ChangesAreVersioned

\* An archived card keeps its list, its swimlane and at least its stamp.
THEOREM ArchivedCardStays == Spec => ArchivedCardKeepsPlace
<1>1. ASSUME TypeOK, [Next]_vars
      PROVE  \A c \in Cards : Stored(card[c]) /\ card[c].archived =>
               /\ card'[c].list = card[c].list /\ card'[c].lane = card[c].lane
               /\ card'[c].at >= card[c].at
  <2> SUFFICES ASSUME NEW c \in Cards, Stored(card[c]), card[c].archived
               PROVE  /\ card'[c].list = card[c].list /\ card'[c].lane = card[c].lane
                      /\ card'[c].at >= card[c].at
    OBVIOUS
  <2>1. card[c].at \in Nat
    BY <1>1, StoredRows DEF CardRows
  <2>2. QED
    BY <1>1, <2>1, CardEffect DEF Effect, Placed
<1>2. QED
  BY <1>1, TypeCorrect, PTL DEF Spec, ArchivedCardKeepsPlace
-----------------------------------------------------------------------------
(* Parents and limits of every run. *)

\* Rows are never deleted.
LEMMA RowsStay ==
  ASSUME TypeOK, [Next]_vars
  PROVE  /\ \A l \in Lists : Stored(list[l]) => Stored(list'[l])
         /\ \A n \in Lanes : Stored(lane[n]) => Stored(lane'[n])
<1>1. /\ \A l \in Lists : Stored(list[l]) => list[l].version \in Nat
      /\ \A n \in Lanes : Stored(lane[n]) => lane[n].version \in Nat
  BY StoredRows, BoardStoreAssumption DEF ListRows, LaneRows, Versions, ReadMax
<1>2. QED
  BY <1>1, ParentEffect DEF Stored

LEMMA ParentsStep ==
  ASSUME TypeOK, ParentsTogether, [Next]_vars
  PROVE  ParentsTogether'
<1> SUFFICES ASSUME NEW c \in Cards, Stored(card'[c])
             PROVE  /\ ListBoard[card'[c].list] = LaneBoard[card'[c].lane]
                    /\ Stored(list'[card'[c].list]) /\ Stored(lane'[card'[c].lane])
  BY DEF ParentsTogether, Stored
<1>1. card'[c].list \in Lists /\ card'[c].lane \in Lanes
  BY TypeStep DEF TypeOK, Stored, NoRow, CardRows
<1>2. /\ ListBoard[card'[c].list] = LaneBoard[card'[c].lane]
      /\ Stored(list[card'[c].list]) /\ Stored(lane[card'[c].lane])
  <2>1. CASE card'[c] = card[c]
    BY <2>1 DEF ParentsTogether
  <2>2. CASE card'[c] # card[c]
    BY <2>2, CardEffect DEF Effect, Placed, ParentsTogether, Active
  <2>3. QED
    BY <2>1, <2>2
<1>3. QED
  BY <1>1, <1>2, RowsStay

\* A card and its parents are on one board in every run.
THEOREM ParentsAlwaysTogether == Spec => []ParentsTogether
<1>1. Init => ParentsTogether
  BY DEF Init, ParentsTogether, Stored, NoRow
<1>2. ParentsTogether /\ TypeOK /\ [Next]_vars => ParentsTogether'
  BY ParentsStep
<1>3. QED
  BY <1>1, <1>2, TypeCorrect, PTL DEF Spec

\* No operation lets a list grow past a hard limit.
LEMMA LimitsStep ==
  ASSUME TypeOK, ParentsTogether, HardWip, [Next]_vars
  PROVE  HardWip'
<1>1. ASSUME UNCHANGED card,
             \A l \in Lists : Stored(list'[l]) =>
                             Stored(list[l]) /\ list'[l].wip = list[l].wip
      PROVE  HardWip'
  BY <1>1, LimitKept DEF HardWip
<1>2. ASSUME NEW c \in Cards, CardStep(c) PROVE HardWip'
  <2>1. ASSUME NEW k \in Lists, NEW n \in Lanes, CreateCard(c, k, n) PROVE HardWip'
    <3>1. /\ list' = list /\ card'[c].list = k
          /\ \A d \in Cards \ {c} : card'[d] = card[d]
      BY <2>1 DEF CreateCard, TypeOK
    <3>2. LimitHolds(k)'
      <4>1. Stored(list[k]) /\ WipHolds(card', k, 1) /\ 1 \in Nat \ {0}
        BY <2>1 DEF CreateCard, Active
      <4>2. QED
        BY <3>1, <4>1, LimitChecked
    <3>3. \A l \in Lists \ {k} : LimitHolds(l)'
      BY <3>1, LimitKept DEF HardWip
    <3>4. QED
      BY <3>2, <3>3 DEF HardWip
  <2>2. ASSUME NEW k \in Lists, NEW n \in Lanes, MoveCard(c, k, n) PROVE HardWip'
    <3>1. card' = CardsPlaced({c}, k, n) /\ list' = list
      BY <2>2 DEF MoveCard, CardsPlaced, TypeOK
    <3>2. \A l \in Lists \ {k} : LimitHolds(l)'
      BY <2>2, <3>1, LimitsAfterPlacing DEF MoveCard, MovableCard, Mutable
    <3>3. QED
      BY <2>2, <3>2, LimitAfterMove DEF HardWip
  <2>3. CASE EditCard(c)
    <3>1. card[c] \in CardRows
      BY <2>3, StoredRows DEF EditCard, Mutable
    <3>2. /\ card'[c].list = card[c].list /\ Active(card[c])
          /\ list' = list /\ \A d \in Cards \ {c} : card'[d] = card[d]
      BY <2>3, <3>1, NextVersion DEF EditCard, Mutable, Active, TypeOK
    <3>3. QED
      BY <3>2, LimitKept DEF HardWip
  <2>4. CASE ArchiveCard(c)
    <3>1. PICK now \in Times : card' = [card EXCEPT ![c] = ArchivedRow(card[c], 0, now)]
      BY <2>4 DEF ArchiveCard
    <3>2. card' = CardsArchived({c}, 0, [d \in Cards |-> now])
      BY <3>1 DEF CardsArchived, TypeOK
    <3>3. QED
      BY <2>4, <3>2, LimitsAfterArchive DEF ArchiveCard, Mutable
  <2>5. CASE RestoreCard(c)
    <3>0. card[c] \in CardRows
      BY <2>5, StoredRows DEF RestoreCard, Mutable
    <3>1. PICK k \in Lists : card[c].list = k
      BY <3>0 DEF CardRows
    <3>2. /\ list' = list /\ card'[c].list = k
          /\ \A d \in Cards \ {c} : card'[d] = card[d]
      BY <2>5, <3>0, <3>1, NextVersion DEF RestoreCard, TypeOK
    <3>3. LimitHolds(k)'
      <4>1. Stored(list[k]) /\ WipHolds(card', k, 1) /\ 1 \in Nat \ {0}
        BY <2>5, <3>1 DEF RestoreCard, ParentsActive, Active
      <4>2. QED
        BY <3>2, <4>1, LimitChecked
    <3>4. \A l \in Lists \ {k} : LimitHolds(l)'
      <4> SUFFICES ASSUME NEW l \in Lists, l # k PROVE LimitHolds(l)'
        OBVIOUS
      <4>1. \A d \in Cards : Active(card'[d]) /\ card'[d].list = l
                              => Active(card[d]) /\ card[d].list = l
        BY <3>2
      <4>2. LimitHolds(l) /\ (Stored(list'[l]) => Stored(list[l]) /\ list'[l].wip = list[l].wip)
        BY <3>2 DEF HardWip
      <4>3. QED
        BY <4>1, <4>2, LimitKept
    <3>5. QED
      BY <3>3, <3>4 DEF HardWip
  <2>6. QED
    BY <1>2, <2>1, <2>2, <2>3, <2>4, <2>5 DEF CardStep
<1>3. ASSUME NEW S \in SUBSET Cards, BatchStep(S) PROVE HardWip'
  <2>0. IsFiniteSet(S)
    BY BoardStoreAssumption, FS_Subset
  <2>1. ASSUME NEW k \in Lists, NEW n \in Lanes, MoveSelectedCards(S, k, n)
        PROVE  HardWip'
    <3> DEFINE new == {c \in S : card[c].list # k}
    <3>1. IsFiniteSet(new) /\ Cardinality(new) \in Nat
      BY <2>0, FS_Subset, FS_CardinalityType
    <3>2. /\ \A l \in Lists \ {k} : LimitHolds(l)'
          /\ new = {} => LimitHolds(k)'
      BY <2>1, LimitsAfterPlacing DEF MoveSelectedCards, MovableCard, Mutable
    <3>3. CASE new # {}
      <4>1. Cardinality(new) \in Nat \ {0}
        BY <3>1, <3>3, FS_EmptySet
      <4>2. LimitHolds(k)'
        BY <2>1, <4>1, LimitChecked DEF MoveSelectedCards, Active
      <4>3. QED
        BY <3>2, <4>2 DEF HardWip
    <3>4. QED
      BY <3>2, <3>3 DEF HardWip
  <2>2. ASSUME NEW b \in Boards, NEW k \in Lists, NEW n \in Lanes,
               TransferSelectedCards(S, b, k, n)
        PROVE  HardWip'
    <3>1. Cardinality(S) \in Nat \ {0}
      BY <2>0, <2>2, FS_CardinalityType, FS_EmptySet DEF TransferSelectedCards
    <3>2. LimitHolds(k)'
      BY <2>2, <3>1, LimitChecked DEF TransferSelectedCards, Active
    <3>3. \A l \in Lists \ {k} : LimitHolds(l)'
      BY <2>2, LimitsAfterPlacing DEF TransferSelectedCards, MovableCard, Mutable
    <3>4. QED
      BY <3>2, <3>3 DEF HardWip
  <2>3. CASE ArchiveSelectedCards(S)
    <3>1. PICK now \in [Cards -> Times] : card' = CardsArchived(S, 0, now)
      BY <2>3 DEF ArchiveSelectedCards
    <3>2. QED
      BY <2>3, <3>1, LimitsAfterArchive DEF ArchiveSelectedCards, Mutable
  <2>4. QED
    BY <1>3, <2>1, <2>2, <2>3 DEF BatchStep
<1>4. ASSUME NEW k \in Lists, ListStep(k) PROVE HardWip'
  <2>1. CASE CreateList(k)
    <3>1. /\ LimitHolds(k)' /\ card' = card
          /\ \A l \in Lists \ {k} : list'[l] = list[l]
      BY <2>1 DEF CreateList, TypeOK, LimitHolds, NewList, DefaultLimit
    <3>2. QED
      BY <3>1, LimitKept DEF HardWip
  <2>2. CASE EditListTitle(k) \/ SetListColor(k)
    <3>1. list[k] \in ListRows
      BY <2>2, StoredRows DEF EditListTitle, SetListColor, Mutable
    <3>2. QED
      BY <1>1, <2>2, <3>1 DEF EditListTitle, SetListColor, Mutable, Bumped, ListRows, TypeOK
  <2>3. CASE ArchiveList(k)
    <3>1. list[k] \in ListRows
      BY <2>3, StoredRows DEF ArchiveList, Mutable
    <3>2. list'[k].wip = list[k].wip /\ \A l \in Lists \ {k} : list'[l] = list[l]
      BY <2>3, <3>1 DEF ArchiveList, Bumped, ListRows, TypeOK
    <3>3. QED
      BY <1>1, <2>3, <3>2 DEF ArchiveList, Mutable
  <2>4. CASE RestoreList(k)
    <3>1. list[k] \in ListRows
      BY <2>4, StoredRows DEF RestoreList, Mutable
    <3>2. list'[k].wip = list[k].wip /\ \A l \in Lists \ {k} : list'[l] = list[l]
      BY <2>4, <3>1 DEF RestoreList, Bumped, ListRows, TypeOK
    <3>3. QED
      BY <1>1, <2>4, <3>2 DEF RestoreList, Mutable
  <2>5. CASE EditListWip(k)
    <3>1. list[k] \in ListRows /\ list[k].wip \in WipLimits
      BY <2>5, StoredRows DEF EditListWip, Mutable, ListRows
    <3>2. PICK limit \in EditedLimits(list[k].wip, Count(card, k)) :
            list' = [list EXCEPT ![k] = [Bumped(list[k]) EXCEPT !.wip = limit]]
      BY <2>5 DEF EditListWip
    <3>3. list'[k].wip = limit /\ \A l \in Lists \ {k} : list'[l] = list[l]
      BY <3>1, <3>2 DEF Bumped, ListRows, TypeOK
    <3>4. limit.enabled /\ ~limit.soft => Count(card, k) <= limit.value
      BY <3>1, <3>2, EditedLimitHolds, CountType
    <3>5. card' = card
      BY <2>5 DEF EditListWip
    <3>6. LimitHolds(k)'
      BY <3>3, <3>4, <3>5 DEF LimitHolds
    <3>7. QED
      BY <3>3, <3>5, <3>6, LimitKept DEF HardWip
  <2>6. ASSUME NEW ns, ArchiveListCards(k, ns) PROVE HardWip'
    <3> DEFINE S == {c \in ActiveIn(card, k) : card[c].lane \in ns}
    <3>1. S \in SUBSET Cards /\ \A c \in S : Stored(card[c])
      BY DEF ActiveIn, Active
    <3>2. PICK now \in [Cards -> Times] : card' = CardsArchived(S, 0, now)
      BY <2>6 DEF ArchiveListCards
    <3>3. QED
      BY <2>6, <3>1, <3>2, LimitsAfterArchive DEF ArchiveListCards
  <2>7. QED
    BY <1>4, <2>1, <2>2, <2>3, <2>4, <2>5, <2>6 DEF ListStep
<1>5. ASSUME NEW n \in Lanes, LaneStep(n) PROVE HardWip'
  <2>1. CASE CreateLane(n) \/ EditLaneTitle(n) \/ SetLaneColor(n)
    BY <1>1, <2>1 DEF CreateLane, EditLaneTitle, SetLaneColor
  <2>2. CASE ArchiveLane(n)
    <3> DEFINE S == {c \in CardsIn(n) : ~card[c].archived}
    <3>1. S \in SUBSET Cards /\ \A c \in S : Stored(card[c])
      BY DEF CardsIn
    <3>2. PICK stamp, now : card' = CardsArchived(S, stamp, now)
      BY <2>2 DEF ArchiveLane
    <3>3. QED
      BY <2>2, <3>1, <3>2, LimitsAfterArchive DEF ArchiveLane
  <2>3. CASE RestoreLane(n)
    BY <2>3, LimitsAfterRestoreLane
  <2>4. QED
    BY <1>5, <2>1, <2>2, <2>3 DEF LaneStep
<1>6. QED
  BY <1>1, <1>2, <1>3, <1>4, <1>5 DEF Next, vars, EditBoardTitle, SetBoardPresentation

\* A hard limit is never exceeded in any run.
THEOREM HardLimitsHold == Spec => []HardWip
<1>1. HardWip /\ TypeOK /\ ParentsTogether /\ [Next]_vars => HardWip'
  BY LimitsStep
<1>2. QED
  BY InitLimits, <1>1, TypeCorrect, ParentsAlwaysTogether, PTL DEF Spec
=============================================================================
