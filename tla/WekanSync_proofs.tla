-------------------------- MODULE WekanSync_proofs --------------------------
(***************************************************************************)
(* Proofs about WekanSync, for any sets of lists, checklists, titles and   *)
(* colours, with or without refused writes.  The inductive invariant says  *)
(* what three copies of a document tell about each other: a difference     *)
(* between Wena's row and the shadow is an edit of the user (EditedTells), *)
(* a document only Wena has is new to the file (NewIsNew), a list is never *)
(* deleted (ListsStay), and the shadow is what the file would be read as,  *)
(* unless somebody else changed the document (ShadowTells).                *)
(***************************************************************************)
EXTENDS WekanSync, FiniteSetTheorems, TLAPS

EditedTells ==
  running => \A d \in Docs :
    /\ (rows[d] = Gone) # (shadow[d] = Gone) => <<d, "life">> \in edited
    /\ rows[d] # Gone /\ shadow[d] # Gone =>
         \A f \in Fields : rows[d][f] # shadow[d][f] => <<d, f>> \in edited

NewIsNew ==
  running => \A d \in Docs :
    rows[d] # Gone /\ shadow[d] = Gone => file[d] = Gone

ListsStay ==
  running => \A d \in Lists : shadow[d] # Gone => rows[d] # Gone

\* Row r is what document x is read as, but for its place in the order.
Shows(r, x) ==
  /\ (x = Gone) = (r = Gone)
  /\ r # Gone => /\ r.title = Cut[x.title]
                 /\ r.color # None => r.color = x.color

ShadowTells ==
  running => \A d \in Docs \ apart : Shows(shadow[d], file[d])

IInv == TypeOK /\ EditedTells /\ NewIsNew /\ ListsStay /\ ShadowTells

\* Rows are documents, and neither is Gone.
LEMMA RowFacts ==
  /\ Row \subseteq Document /\ Gone \notin Row
  /\ CutTitles \subseteq Titles /\ \A t \in CutTitles : Cut[t] = t
BY WekanSyncAssumption, GoneAssumption DEF Row, Document, CutTitles

\* What the import makes of a file is a table of rows that show it.
LEMMA ReadFacts ==
  ASSUME NEW table \in [Docs -> Document \cup {Gone}]
  PROVE  /\ Read(table) \in [Docs -> Row \cup {Gone}]
         /\ \A d \in Docs : Shows(Read(table)[d], table[d])
<1> SUFFICES ASSUME NEW d \in Docs
             PROVE  /\ Read(table)[d] \in Row \cup {Gone}
                    /\ Shows(Read(table)[d], table[d])
  BY DEF Read
<1>1. Rank(table, d) \in Nat
  <2> DEFINE S == {e \in Kin(d) \cap Present(table) : Before(table, e, d)}
  <2>1. S \subseteq Docs
    BY DEF Kin, Present
  <2> QED BY <2>1, WekanSyncAssumption, FS_Subset, FS_CardinalityType DEF Rank
<1>2. CASE table[d] = Gone
  BY <1>2 DEF Read, Shows
<1>3. CASE table[d] # Gone
  <2> DEFINE r == [title |-> Cut[table[d].title], color |-> Known(table[d].color),
                   sort |-> Rank(table, d)]
  <2>1. table[d] \in Document /\ Read(table)[d] = r
    BY <1>3 DEF Read
  <2>2. Cut[table[d].title] \in CutTitles
    BY <2>1 DEF Document, CutTitles
  <2>3. Known(table[d].color) \in Palette \cup {None}
    BY DEF Known
  <2>4. r \in Row
    BY <1>1, <2>2, <2>3 DEF Row
  <2>5. r # Gone
    BY <2>4, RowFacts
  <2>6. r.color # None => r.color = table[d].color
    BY DEF Known
  <2> QED BY <1>3, <2>1, <2>4, <2>5, <2>6 DEF Shows
<1> QED BY <1>2, <1>3

\* A change the user makes: what it touches is told, nothing comes back under
\* an old identity, lists stay.
Told(table, touched) ==
  /\ \A d \in Docs : (table[d] = Gone) # (rows[d] = Gone) => <<d, "life">> \in touched
  /\ \A d \in Docs : table[d] # Gone /\ rows[d] # Gone =>
       \A f \in Fields : table[d][f] # rows[d][f] => <<d, f>> \in touched
  /\ \A d \in Docs : rows[d] = Gone /\ table[d] # Gone => New(d)
  /\ \A d \in Lists : rows[d] # Gone => table[d] # Gone

LEMMA ChangedKeeps ==
  ASSUME IInv, running,
         NEW table \in [Docs -> Row \cup {Gone}],
         NEW touched \in SUBSET (Docs \X (Fields \cup {"life"})),
         Told(table, touched), Changed(table, touched)
  PROVE  IInv'
<1>1. TypeOK'
  BY DEF IInv, TypeOK, Changed
<1>2. EditedTells'
  <2> SUFFICES ASSUME NEW d \in Docs
               PROVE /\ (table[d] = Gone) # (shadow[d] = Gone) => <<d, "life">> \in edited'
                     /\ table[d] # Gone /\ shadow[d] # Gone =>
                          \A f \in Fields : table[d][f] # shadow[d][f] => <<d, f>> \in edited'
    BY DEF EditedTells, Changed
  <2>1. edited' = edited \cup touched
    BY DEF Changed
  <2>2. (table[d] = Gone) # (shadow[d] = Gone) => <<d, "life">> \in edited'
    BY <2>1 DEF IInv, EditedTells, Told
  <2>3. ASSUME table[d] # Gone, shadow[d] # Gone, NEW f \in Fields,
               table[d][f] # shadow[d][f]
        PROVE  <<d, f>> \in edited'
    <3>1. rows[d] # Gone
      BY <2>3 DEF Told, New
    <3>2. rows[d][f] # shadow[d][f] => <<d, f>> \in edited
      BY <2>3, <3>1 DEF IInv, EditedTells
    <3>3. table[d][f] # rows[d][f] => <<d, f>> \in touched
      BY <2>3, <3>1 DEF Told
    <3> QED BY <2>1, <2>3, <3>2, <3>3
  <2> QED BY <2>2, <2>3
<1>3. NewIsNew'
  BY DEF IInv, NewIsNew, Told, New, Changed
<1>4. ListsStay'
  BY DEF IInv, ListsStay, Told, Changed, Docs
<1>5. ShadowTells'
  BY DEF IInv, ShadowTells, Changed
<1> QED BY <1>1, <1>2, <1>3, <1>4, <1>5 DEF IInv

LEMMA EditTitleKeeps ==
  ASSUME IInv, NEW d \in Docs, NEW t \in CutTitles, EditTitle(d, t)
  PROVE  IInv'
<1> DEFINE table == [rows EXCEPT ![d].title = t]
<1>1. running /\ rows[d] \in Row /\ rows \in [Docs -> Row \cup {Gone}]
  BY DEF EditTitle, IInv, TypeOK
<1>2. table[d] \in Row /\ table[d].color = rows[d].color /\ table[d].sort = rows[d].sort
  BY <1>1 DEF Row
<1>3. \A e \in Docs \ {d} : table[e] = rows[e]
  BY <1>1
<1>4. table \in [Docs -> Row \cup {Gone}]
  BY <1>1, <1>2
<1>5. table[d] # Gone /\ rows[d] # Gone
  BY <1>1, <1>2, RowFacts
<1>6. \A f \in Fields : table[d][f] # rows[d][f] => f = "title"
  BY <1>1, <1>2 DEF Fields, Row
<1>7. {<<d, "title">>} \in SUBSET (Docs \X (Fields \cup {"life"}))
  BY DEF Fields
<1>8. Changed(table, {<<d, "title">>})
  BY DEF EditTitle
<1> HIDE DEF table
<1>9. Told(table, {<<d, "title">>})
  BY <1>3, <1>5, <1>6 DEF Told, Docs
<1> QED BY <1>1, <1>4, <1>7, <1>8, <1>9, ChangedKeeps

LEMMA EditColorKeeps ==
  ASSUME IInv, NEW d \in Docs, NEW c \in Palette \cup {None}, EditColor(d, c)
  PROVE  IInv'
<1> DEFINE table == [rows EXCEPT ![d].color = c]
<1>1. running /\ rows[d] \in Row /\ rows \in [Docs -> Row \cup {Gone}]
  BY DEF EditColor, IInv, TypeOK
<1>2. table[d] \in Row /\ table[d].title = rows[d].title /\ table[d].sort = rows[d].sort
  BY <1>1 DEF Row
<1>3. \A e \in Docs \ {d} : table[e] = rows[e]
  BY <1>1
<1>4. table \in [Docs -> Row \cup {Gone}]
  BY <1>1, <1>2
<1>5. table[d] # Gone /\ rows[d] # Gone
  BY <1>1, <1>2, RowFacts
<1>6. \A f \in Fields : table[d][f] # rows[d][f] => f = "color"
  BY <1>1, <1>2 DEF Fields, Row
<1>7. {<<d, "color">>} \in SUBSET (Docs \X (Fields \cup {"life"}))
  BY DEF Fields
<1>8. Changed(table, {<<d, "color">>})
  BY DEF EditColor
<1> HIDE DEF table
<1>9. Told(table, {<<d, "color">>})
  BY <1>3, <1>5, <1>6 DEF Told, Docs
<1> QED BY <1>1, <1>4, <1>7, <1>8, <1>9, ChangedKeeps

LEMMA AddKeeps ==
  ASSUME IInv, NEW d \in Docs, NEW t \in CutTitles, NEW p \in Nat, Add(d, t, p)
  PROVE  IInv'
<1> DEFINE r == [title |-> t, color |-> None, sort |-> p]
           table == [rows EXCEPT ![d] = r]
<1>1. running /\ New(d) /\ rows \in [Docs -> Row \cup {Gone}]
  BY DEF Add, IInv, TypeOK
<1>2. r \in Row
  BY DEF Row
<1>3. table[d] # Gone /\ \A e \in Docs \ {d} : table[e] = rows[e]
  BY <1>1, <1>2, RowFacts
<1>4. table \in [Docs -> Row \cup {Gone}]
  BY <1>1, <1>2
<1>5. {<<d, "life">>} \in SUBSET (Docs \X (Fields \cup {"life"}))
  OBVIOUS
<1>6. Changed(table, {<<d, "life">>})
  BY DEF Add
<1> HIDE DEF table
<1>7. Told(table, {<<d, "life">>})
  BY <1>1, <1>3 DEF Told, Docs, New
<1> QED BY <1>1, <1>4, <1>5, <1>6, <1>7, ChangedKeeps

LEMMA DeleteKeeps ==
  ASSUME IInv, NEW d \in Checklists, Delete(d)
  PROVE  IInv'
<1> DEFINE table == [rows EXCEPT ![d] = Gone]
<1>1. running /\ rows \in [Docs -> Row \cup {Gone}] /\ d \in Docs
  BY DEF Delete, IInv, TypeOK, Docs
<1>2. table[d] = Gone /\ \A e \in Docs \ {d} : table[e] = rows[e]
  BY <1>1
<1>3. table \in [Docs -> Row \cup {Gone}]
  BY <1>1
<1>4. {<<d, "life">>} \in SUBSET (Docs \X (Fields \cup {"life"}))
  BY <1>1
<1>5. Changed(table, {<<d, "life">>})
  BY DEF Delete
<1> HIDE DEF table
<1>6. Told(table, {<<d, "life">>})
  BY <1>2, WekanSyncAssumption DEF Told, Docs
<1> QED BY <1>1, <1>3, <1>4, <1>5, <1>6, ChangedKeeps

LEMMA MoveKeeps ==
  ASSUME IInv, NEW d \in Lists, NEW p \in Nat, Move(d, p)
  PROVE  IInv'
<1> DEFINE table == [e \in Docs |->
                       IF e \in Lists /\ rows[e] # Gone
                       THEN [rows[e] EXCEPT !.sort = MovedTo(d, p, e)]
                       ELSE rows[e]]
           moved == {e \in Docs : table[e] # rows[e]}
<1>1. running /\ rows \in [Docs -> Row \cup {Gone}] /\ d \in Docs
  BY DEF Move, IInv, TypeOK, Docs
<1>2. rows[d] \in Row
  BY <1>1 DEF Move
<1>3. ASSUME NEW e \in Docs, e \in Lists, rows[e] # Gone
      PROVE  /\ table[e] \in Row
             /\ table[e].title = rows[e].title /\ table[e].color = rows[e].color
  <2>1. rows[e] \in Row
    BY <1>1, <1>3
  <2>2. rows[e].sort \in Nat /\ rows[d].sort \in Nat
    BY <1>2, <2>1 DEF Row
  <2>3. MovedTo(d, p, e) \in Nat
    BY <2>2 DEF MovedTo
  <2>4. table[e] = [rows[e] EXCEPT !.sort = MovedTo(d, p, e)]
    BY <1>3
  <2> QED BY <2>1, <2>3, <2>4 DEF Row
<1>4. \A e \in Docs : ~(e \in Lists /\ rows[e] # Gone) => table[e] = rows[e]
  OBVIOUS
<1>5. table \in [Docs -> Row \cup {Gone}]
  BY <1>1, <1>3
<1>6. moved \X {"sort"} \in SUBSET (Docs \X (Fields \cup {"life"}))
  BY DEF Fields
<1>7. Changed(table, moved \X {"sort"})
  BY DEF Move
<1>8. \A e \in Docs : (table[e] = Gone) = (rows[e] = Gone)
  BY <1>3, <1>4, RowFacts
<1> HIDE DEF table
<1>9. ASSUME NEW e \in Docs, table[e] # Gone, rows[e] # Gone, NEW f \in Fields,
             table[e][f] # rows[e][f]
      PROVE  <<e, f>> \in moved \X {"sort"}
  <2>1. e \in moved
    BY <1>9
  <2>2. f = "sort"
    BY <1>3, <1>4, <1>9 DEF Fields
  <2> QED BY <2>1, <2>2
<1>10. Told(table, moved \X {"sort"})
  BY <1>8, <1>9 DEF Told, Docs
<1> HIDE DEF moved
<1> QED BY <1>1, <1>5, <1>6, <1>7, <1>10, ChangedKeeps

LEMMA StartKeeps ==
  ASSUME IInv, Start
  PROVE  IInv'
<1>1. /\ rows' = Read(file) /\ shadow' = Read(file) /\ file' = file
      /\ running' = TRUE /\ dirty' = FALSE /\ edited' = {} /\ apart' = {}
  BY DEF Start
<1>2. file \in [Docs -> Document \cup {Gone}]
  BY DEF IInv, TypeOK
<1>3. Read(file) \in [Docs -> Row \cup {Gone}]
      /\ \A d \in Docs : Shows(Read(file)[d], file[d])
  BY <1>2, ReadFacts
<1>4. TypeOK'
  BY <1>1, <1>2, <1>3 DEF TypeOK
<1>5. EditedTells' /\ NewIsNew' /\ ListsStay' /\ ShadowTells'
  BY <1>1, <1>3 DEF EditedTells, NewIsNew, ListsStay, ShadowTells
<1> QED BY <1>4, <1>5 DEF IInv

LEMMA StopKeeps ==
  ASSUME IInv, Stop
  PROVE  IInv'
<1>1. TypeOK'
  BY DEF IInv, TypeOK, Stop, Empty
<1>2. running' = FALSE
  BY DEF Stop
<1> QED BY <1>1, <1>2 DEF IInv, EditedTells, NewIsNew, ListsStay, ShadowTells

\* What a good export makes of a document: a document that shows the row, if
\* nobody else changed it and the removal was not refused.
LEMMA WrittenFacts ==
  ASSUME IInv, running, ~Blocked, NEW refused \in SUBSET Deleted, NEW d \in Docs
  PROVE  /\ Written(d, refused) \in Document \cup {Gone}
         /\ d \notin apart \cup refused => Shows(rows[d], Written(d, refused))
<1> DEFINE w == Written(d, refused)
<1>1. /\ rows[d] \in Row \cup {Gone} /\ shadow[d] \in Row \cup {Gone}
      /\ file[d] \in Document \cup {Gone}
  BY DEF IInv, TypeOK
<1>2. d \notin apart => Shows(shadow[d], file[d])
  BY DEF IInv, ShadowTells
<1>3. CASE rows[d] # Gone /\ shadow[d] = Gone
  <2>1. w = rows[d] /\ w \in Row
    BY <1>1, <1>3 DEF Written, Stale, Deleted
  <2>2. Cut[w.title] = w.title
    BY <2>1, RowFacts DEF Row
  <2> QED BY <1>3, <2>1, <2>2, RowFacts DEF Shows
<1>4. CASE Stale(d)
  <2>1. rows[d] \in Row /\ shadow[d] \in Row /\ file[d] \in Document
    BY <1>1, <1>4 DEF Stale, Blocked
  <2>2. w = [title |-> Merged(d, "title"), color |-> Merged(d, "color"),
             sort |-> Merged(d, "sort")]
    BY <1>4 DEF Written, Stale, Deleted
  <2>3. Merged(d, "title") \in {rows[d].title, file[d].title}
        /\ Merged(d, "color") \in {rows[d].color, file[d].color}
        /\ Merged(d, "sort") \in {rows[d].sort, file[d].sort}
    BY DEF Merged
  <2>4. rows[d] \in Document
    BY <2>1, RowFacts
  <2>5. w \in Document
    BY <2>1, <2>2, <2>3, <2>4 DEF Document
  <2>6. w # Gone /\ rows[d] # Gone
    BY <2>1, <2>5, GoneAssumption, RowFacts
  <2>7. ASSUME d \notin apart \cup refused
        PROVE  /\ rows[d].title = Cut[w.title]
               /\ rows[d].color # None => rows[d].color = w.color
    <3>1. /\ shadow[d].title = Cut[file[d].title]
          /\ shadow[d].color # None => shadow[d].color = file[d].color
      BY <1>2, <1>4, <2>7 DEF Shows, Stale
    <3>2. w.title = Merged(d, "title") /\ w.color = Merged(d, "color")
      BY <2>2
    <3>3. rows[d].title \in CutTitles
      BY <2>1 DEF Row
    <3>4. rows[d].title = Cut[w.title]
      BY <3>1, <3>2, <3>3, RowFacts DEF Merged, Differs
    <3>5. rows[d].color # None => rows[d].color = w.color
      BY <3>1, <3>2 DEF Merged, Differs
    <3> QED BY <3>4, <3>5
  <2> QED BY <2>5, <2>6, <2>7 DEF Shows
<1>5. CASE rows[d] # Gone /\ shadow[d] # Gone /\ ~Stale(d)
  <2>1. w = file[d]
    BY <1>5 DEF Written, Deleted
  <2>2. rows[d].title = shadow[d].title
        /\ (rows[d].color # None => rows[d].color = shadow[d].color)
    BY <1>5 DEF Stale, Differs, Fields
  <2> QED BY <1>1, <1>2, <1>5, <2>1, <2>2 DEF Shows
<1>6. CASE rows[d] = Gone /\ shadow[d] # Gone
  <2>1. d \in Checklists /\ d \in Deleted
    BY <1>6 DEF IInv, ListsStay, Docs, Deleted
  <2>2. d \notin refused => w = Gone
    BY <1>6, <2>1 DEF Written, Stale
  <2>3. d \in refused => w = file[d]
    BY <1>6, <2>1 DEF Written, Stale
  <2> QED BY <1>1, <1>6, <2>2, <2>3 DEF Shows
<1>7. CASE rows[d] = Gone /\ shadow[d] = Gone
  <2>1. w = file[d]
    BY <1>7 DEF Written, Stale, Deleted
  <2> QED BY <1>1, <1>2, <1>7, <2>1 DEF Shows
<1> QED BY <1>3, <1>4, <1>5, <1>6, <1>7

LEMMA ExportKeeps ==
  ASSUME IInv, NEW refused \in SUBSET Deleted, Export(refused)
  PROVE  IInv'
<1>1. /\ running /\ running' /\ ~Blocked /\ rows' = rows /\ shadow' = rows
      /\ edited' = {} /\ apart' = apart \cup refused /\ dirty' = FALSE
      /\ file' = [d \in Docs |-> Written(d, refused)] /\ running' = running
  BY DEF Export
<1>2. \A d \in Docs :
        /\ Written(d, refused) \in Document \cup {Gone}
        /\ d \notin apart \cup refused => Shows(rows[d], Written(d, refused))
  BY <1>1, WrittenFacts
<1>3. refused \subseteq Docs
  BY DEF Deleted, Docs
<1>4. TypeOK'
  BY <1>1, <1>2, <1>3 DEF IInv, TypeOK
<1>5. EditedTells' /\ NewIsNew' /\ ListsStay'
  BY <1>1 DEF EditedTells, NewIsNew, ListsStay
<1>6. ShadowTells'
  BY <1>1, <1>2 DEF ShadowTells
<1> QED BY <1>4, <1>5, <1>6 DEF IInv

LEMMA ExportFailsKeeps ==
  ASSUME IInv, ExportFails
  PROVE  IInv'
BY DEF IInv, ExportFails, TypeOK, EditedTells, NewIsNew, ListsStay, ShadowTells

LEMMA ElsewhereKeeps ==
  ASSUME IInv, NEW d \in Docs, NEW x \in Document \cup {Gone},
         ElsewhereChanged(d, x), file[d] # Gone \/ New(d)
  PROVE  IInv'
<1>1. /\ file' = [file EXCEPT ![d] = x] /\ apart' \in SUBSET Docs
      /\ running => apart' = apart \cup {d}
      /\ UNCHANGED <<rows, shadow, running, dirty, edited>>
  BY DEF ElsewhereChanged, IInv, TypeOK
<1>2. file \in [Docs -> Document \cup {Gone}]
  BY DEF IInv, TypeOK
<1>3. TypeOK'
  BY <1>1, <1>2 DEF IInv, TypeOK
<1>4. EditedTells' /\ ListsStay'
  BY <1>1 DEF IInv, EditedTells, ListsStay
<1>5. NewIsNew'
  <2> SUFFICES ASSUME running, NEW e \in Docs, rows[e] # Gone, shadow[e] = Gone
               PROVE  file'[e] = Gone
    BY <1>1 DEF NewIsNew
  <2>1. file[e] = Gone
    BY DEF IInv, NewIsNew
  <2>2. e # d
    BY <2>1 DEF New
  <2> QED BY <1>1, <1>2, <2>1, <2>2
<1>6. ShadowTells'
  BY <1>1, <1>2 DEF IInv, ShadowTells
<1> QED BY <1>3, <1>4, <1>5, <1>6 DEF IInv

LEMMA TouchKeeps ==
  ASSUME IInv, Touch
  PROVE  IInv'
<1>1. rows \in [Docs -> Row \cup {Gone}] /\ running /\ Changed(rows, {})
  BY DEF IInv, TypeOK, Touch
<1>2. Told(rows, {})
  BY DEF Told
<1>3. {} \in SUBSET (Docs \X (Fields \cup {"life"}))
  OBVIOUS
<1> QED BY <1>1, <1>2, <1>3, ChangedKeeps

LEMMA InitHolds == Init => IInv
BY DEF Init, Empty, IInv, TypeOK, EditedTells, NewIsNew, ListsStay, ShadowTells

LEMMA DocumentsAreTyped ==
  \A d \in Docs : WekanDocuments(d) \subseteq Document
BY WekanSyncAssumption DEF WekanDocuments, Document

LEMMA StepKeeps == IInv /\ [Next]_vars => IInv'
<1> SUFFICES ASSUME IInv, [Next]_vars PROVE IInv'
  OBVIOUS
<1>1. CASE Start
  BY <1>1, StartKeeps
<1>2. CASE Touch
  BY <1>2, TouchKeeps
<1>6. CASE UserStep /\ ~Touch
  <2>1. PICK d \in Docs :
          \/ \E t \in CutTitles :
               EditTitle(d, t) \/ \E p \in 0 .. MaxPosition : Add(d, t, p)
          \/ d \in Lists /\ \E c \in Palette \cup {None} : EditColor(d, c)
          \/ /\ d \in Lists
             /\ \E e \in Lists \cap Present(rows) : Move(d, rows[e].sort)
          \/ d \in Checklists /\ Delete(d)
    BY <1>6 DEF UserStep
  <2>2. CASE \E t \in CutTitles : EditTitle(d, t)
    BY <2>2, EditTitleKeeps
  <2>3. CASE \E t \in CutTitles, p \in 0 .. MaxPosition : Add(d, t, p)
    BY <2>3, AddKeeps, WekanSyncAssumption
  <2>4. CASE \E c \in Palette \cup {None} : EditColor(d, c)
    BY <2>4, EditColorKeeps
  <2>5. CASE d \in Lists /\ \E e \in Lists \cap Present(rows) : Move(d, rows[e].sort)
    <3>1. PICK e \in Lists \cap Present(rows) : Move(d, rows[e].sort)
      BY <2>5
    <3>2. rows[e] \in Row
      BY <3>1 DEF Present, IInv, TypeOK
    <3>3. rows[e].sort \in Nat
      BY <3>2 DEF Row
    <3> QED BY <2>5, <3>1, <3>3, MoveKeeps
  <2>6. CASE d \in Checklists /\ Delete(d)
    BY <2>6, DeleteKeeps
  <2> QED BY <2>1, <2>2, <2>3, <2>4, <2>5, <2>6
<1>3. CASE Frame
  BY <1>3, ExportKeeps, ExportFailsKeeps DEF Frame
<1>4. CASE Stop
  BY <1>4, StopKeeps
<1>5. CASE Elsewhere
  <2>1. PICK d \in Docs : \/ WekanRemove(d)
                          \/ \E x \in WekanDocuments(d) : WekanEdit(d, x) \/ WekanAdd(d, x)
    BY <1>5 DEF Elsewhere
  <2>2. CASE WekanRemove(d)
    BY <2>2, ElsewhereKeeps DEF WekanRemove
  <2>3. CASE \E x \in WekanDocuments(d) : WekanEdit(d, x) \/ WekanAdd(d, x)
    <3>1. PICK x \in WekanDocuments(d) : WekanEdit(d, x) \/ WekanAdd(d, x)
      BY <2>3
    <3>2. x \in Document
      BY DocumentsAreTyped
    <3> QED BY <3>1, <3>2, ElsewhereKeeps DEF WekanEdit, WekanAdd
  <2> QED BY <2>1, <2>2, <2>3
<1>7. CASE UNCHANGED vars
  BY <1>7 DEF vars, IInv, TypeOK, EditedTells, NewIsNew, ListsStay, ShadowTells
<1> QED BY <1>1, <1>2, <1>3, <1>4, <1>5, <1>6, <1>7 DEF Next

THEOREM Invariance == Spec => []IInv
BY InitHolds, StepKeeps, PTL DEF Spec

\* Documents, rows, the shadow and the history variables keep their types.
THEOREM TypeCorrect == Spec => []TypeOK
<1>1. IInv => TypeOK
  BY DEF IInv
<1> QED BY <1>1, Invariance, PTL

\* Once everything is written, the file reads as Wena shows it, but for the
\* order and for colours taken away (wena_wekan_sync_export).
THEOREM FileShowsTheSame == Spec => []ReopenShowsTheSame
<1>1. IInv => ReopenShowsTheSame
  BY DEF IInv, ShadowTells, Shows, ReopenShowsTheSame
<1> QED BY <1>1, Invariance, PTL

\* A frame changes nothing in WeKan's documents that the user of Wena did not
\* change (export_kind, write_document).
THEOREM OnlyOwnEdits == Spec => OwnEditsOnly
<1>1. ASSUME IInv, [Next]_vars, dirty, ~dirty', NEW d \in Docs
      PROVE  IF file[d] = Gone \/ file'[d] = Gone
             THEN file'[d] # file[d] => <<d, "life">> \in edited
             ELSE \A f \in Fields :
                    file'[d][f] # file[d][f] => <<d, f>> \in edited
  <2>1. CASE \E refused \in SUBSET Deleted : Export(refused)
    <3>1. PICK refused \in SUBSET Deleted : Export(refused)
      BY <2>1
    <3>2. running /\ ~Blocked /\ file'[d] = Written(d, refused)
      BY <3>1 DEF Export
    <3>3. /\ rows[d] \in Row \cup {Gone} /\ shadow[d] \in Row \cup {Gone}
          /\ file[d] \in Document \cup {Gone}
      BY <1>1 DEF IInv, TypeOK
    <3>4. CASE rows[d] # Gone /\ shadow[d] = Gone
      BY <1>1, <3>2, <3>4 DEF IInv, EditedTells, NewIsNew
    <3>5. CASE Stale(d)
      <4>1. rows[d] # Gone /\ shadow[d] # Gone
        BY <3>5 DEF Stale
      <4>2. file'[d] = [title |-> Merged(d, "title"), color |-> Merged(d, "color"),
                        sort |-> Merged(d, "sort")]
        BY <3>2, <3>5, <4>1 DEF Written, Stale, Deleted
      <4>3. file[d] # Gone /\ file'[d] # Gone
        <5>1. file[d] # Gone
          BY <3>2, <3>5 DEF Blocked
        <5>2. rows[d] \in Document /\ file[d] \in Document
          BY <3>3, <4>1, <5>1, RowFacts
        <5>3. Merged(d, "title") \in {rows[d].title, file[d].title}
              /\ Merged(d, "color") \in {rows[d].color, file[d].color}
              /\ Merged(d, "sort") \in {rows[d].sort, file[d].sort}
          BY DEF Merged
        <5>4. file'[d] \in Document
          BY <4>2, <5>2, <5>3 DEF Document
        <5> QED BY <5>1, <5>4, GoneAssumption
      <4>4. \A f \in Fields : file'[d][f] = Merged(d, f)
        BY <4>2 DEF Fields
      <4>5. \A f \in Fields : Merged(d, f) # file[d][f] => rows[d][f] # shadow[d][f]
        BY DEF Merged, Differs
      <4> QED BY <1>1, <3>2, <4>1, <4>3, <4>4, <4>5 DEF IInv, EditedTells
    <3>6. CASE d \in Deleted
      <4>1. <<d, "life">> \in edited
        BY <1>1, <3>2, <3>6 DEF IInv, EditedTells, Deleted
      <4>2. file'[d] = Gone \/ file'[d] = file[d]
        BY <3>2, <3>6 DEF Written, Deleted, Stale
      <4> QED BY <4>1, <4>2
    <3>7. CASE ~(rows[d] # Gone /\ shadow[d] = Gone) /\ ~Stale(d) /\ d \notin Deleted
      <4>1. file'[d] = file[d]
        BY <3>2, <3>7 DEF Written
      <4> QED BY <4>1
    <3> QED BY <3>4, <3>5, <3>6, <3>7
  <2>2. CASE ~\E refused \in SUBSET Deleted : Export(refused)
    <3>1. file' = file
      BY <1>1, <2>2 DEF Next, vars, Start, Stop, UserStep, Touch, EditTitle,
         EditColor, Add, Delete, Move, Changed, Frame, ExportFails, Elsewhere, WekanEdit,
         WekanAdd, WekanRemove, ElsewhereChanged
    <3> QED BY <3>1
  <2> QED BY <2>1, <2>2
<1>2. IInv /\ [Next]_vars =>
        [dirty /\ ~dirty' =>
           \A d \in Docs :
             IF file[d] = Gone \/ file'[d] = Gone
             THEN file'[d] # file[d] => <<d, "life">> \in edited
             ELSE \A f \in Fields :
                    file'[d][f] # file[d][f] => <<d, f>> \in edited]_vars
  BY <1>1
<1> QED BY <1>2, Invariance, PTL DEF Spec, OwnEditsOnly
=============================================================================
