----------------------------- MODULE WekanSync -----------------------------
(***************************************************************************)
(* Wena's tables in memory over WeKan's own file: what the desktop reads   *)
(* when it starts, what it writes back at the end of a frame, and what     *)
(* WeKan, or another Wena, does to the same file in the meantime.          *)
(*                                                                         *)
(* A document is a list or a checklist of WeKan.  Of its fields the model  *)
(* keeps three: a title (Wena cuts the ones it cannot hold), a colour (the *)
(* projection leaves an absent one out) and the number that orders it      *)
(* among the documents of its kind (Wena numbers its rows 0, 1, 2, ...).   *)
(* Identities are numbers, in the order SQLite compares them.              *)
(*                                                                         *)
(* A change the program refuses is no action, unless it wrote something    *)
(* before it was rolled back (Touch).  An export is one transaction over   *)
(* the file.                                                               *)
(*                                                                         *)
(* A definition named Wrong... is a mistake the code could have made; the  *)
(* manifest pairs it with the property that tells it from the real one.    *)
(***************************************************************************)
EXTENDS Naturals, FiniteSets

CONSTANTS
  Lists,       \* identities of lists: never deleted by Wena
  Checklists,  \* identities of checklists: Wena may delete them
  Titles,      \* titles of WeKan's documents
  Cut,         \* what wena_title makes of each
  Colors,      \* colours of WeKan's documents
  Palette,     \* the ones Wena knows
  Sorts,       \* order numbers that WeKan gives
  MaxPosition, \* 2147483647
  None, Gone,  \* no colour, no document
  MayFail      \* whether SQLite may refuse a write to the file

Docs == Lists \cup Checklists

ASSUME WekanSyncAssumption ==
  /\ Lists \subseteq Nat /\ Checklists \subseteq Nat
  /\ Lists \cap Checklists = {} /\ IsFiniteSet(Docs)
  /\ Cut \in [Titles -> Titles] /\ \A t \in Titles : Cut[Cut[t]] = Cut[t]
  /\ Palette \subseteq Colors /\ None \notin Colors
  /\ Sorts \subseteq Nat /\ MaxPosition \in Nat
  /\ MayFail \in BOOLEAN

VARIABLES
  file,     \* WeKan's documents, on disk
  rows,     \* Wena's tables, as their projection shows them
  shadow,   \* wena_wekan_shadow: the projection last read or written
  running,  \* whether Wena is running
  dirty,    \* whether sqlite3_total_changes differs from synced_changes
  edited,   \* what the user changed since the start or the last good export
  apart     \* documents whose file Wena no longer knows

vars == <<file, rows, shadow, running, dirty, edited, apart>>

Document == [title : Titles, color : Colors \cup {None}, sort : Nat]
CutTitles == {Cut[t] : t \in Titles}
Row == [title : CutTitles, color : Palette \cup {None}, sort : Nat]
Fields == {"title", "color", "sort"}
ASSUME GoneAssumption == Gone \notin Document
Empty == [d \in Docs |-> Gone]

TypeOK ==
  /\ file \in [Docs -> Document \cup {Gone}]
  /\ rows \in [Docs -> Row \cup {Gone}]
  /\ shadow \in [Docs -> Row \cup {Gone}]
  /\ running \in BOOLEAN /\ dirty \in BOOLEAN
  /\ edited \subseteq Docs \X (Fields \cup {"life"})
  /\ apart \subseteq Docs
-----------------------------------------------------------------------------
(***************************************************************************)
(* The import.                                                             *)
(***************************************************************************)
Kin(d) == IF d \in Lists THEN Lists ELSE Checklists
Present(table) == {d \in Docs : table[d] # Gone}

\* ORDER BY coalesce(sort, 0), _id
Before(table, d, e) ==
  \/ table[d].sort < table[e].sort
  \/ table[d].sort = table[e].sort /\ d < e

\* row_number() OVER (PARTITION BY ... ORDER BY ...) - 1
Rank(table, d) ==
  Cardinality({e \in Kin(d) \cap Present(table) : Before(table, e, d)})

Known(c) == IF c \in Palette THEN c ELSE None

\* Without wena_title.
WrongRead(table) ==
  [d \in Docs |->
     IF table[d] = Gone THEN Gone
     ELSE [table[d] EXCEPT !.sort = Rank(table, d)]]

Read(table) ==
  [d \in Docs |->
     IF table[d] = Gone THEN Gone
     ELSE [title |-> Cut[table[d].title], color |-> Known(table[d].color),
           sort |-> Rank(table, d)]]

\* Wena starts: it reads the documents and remembers their projection.
Start ==
  /\ ~running
  /\ rows' = Read(file) /\ shadow' = rows'
  /\ running' = TRUE /\ dirty' = FALSE
  /\ edited' = {} /\ apart' = {}
  /\ UNCHANGED file

\* The window is closed (after the last export) or the process dies: the
\* tables were in memory.
Stop ==
  /\ running
  /\ rows' = Empty /\ shadow' = Empty
  /\ running' = FALSE /\ dirty' = FALSE
  /\ edited' = {} /\ apart' = {}
  /\ UNCHANGED file
-----------------------------------------------------------------------------
(***************************************************************************)
(* What the user does in Wena.                                             *)
(***************************************************************************)
Changed(table, touched) ==
  /\ rows' = table /\ dirty' = TRUE
  /\ edited' = edited \cup touched
  /\ UNCHANGED <<file, shadow, running, apart>>

EditTitle(d, t) ==
  /\ running /\ rows[d] # Gone /\ rows[d].title # t
  /\ Changed([rows EXCEPT ![d].title = t], {<<d, "title">>})

EditColor(d, c) ==
  /\ running /\ rows[d] # Gone /\ rows[d].color # c
  /\ Changed([rows EXCEPT ![d].color = c], {<<d, "color">>})

\* Writes that leave the projection as it was: a star, a collapsed list, the
\* language, rows of a change that was rolled back.
Touch == running /\ ~dirty /\ Changed(rows, {})

\* max(position) + 1 of the kind, 0 for the first.
IsNext(d, p) ==
  /\ \A e \in Kin(d) \cap Present(rows) : rows[e].sort < p
  /\ p = 0 \/ \E e \in Kin(d) \cap Present(rows) : rows[e].sort + 1 = p

\* An identity Wena makes is new to the tables, the shadow and the file.
New(d) == rows[d] = Gone /\ shadow[d] = Gone /\ file[d] = Gone

Add(d, t, p) ==
  /\ running /\ New(d) /\ IsNext(d, p) /\ p <= MaxPosition
  /\ Changed([rows EXCEPT ![d] = [title |-> t, color |-> None, sort |-> p]],
             {<<d, "life">>})

Delete(d) ==
  /\ running /\ rows[d] # Gone
  /\ Changed([rows EXCEPT ![d] = Gone], {<<d, "life">>})

\* A list goes from its position to p; the ones between make room.
MovedTo(d, p, e) ==
  LET from == rows[d].sort  at == rows[e].sort
  IN CASE e = d -> p
       [] from < at /\ at <= p -> at - 1
       [] p <= at /\ at < from -> at + 1
       [] OTHER -> at

Move(d, p) ==
  /\ running /\ rows[d] # Gone /\ rows[d].sort # p
  /\ LET table == [e \in Docs |->
                     IF e \in Lists /\ rows[e] # Gone
                     THEN [rows[e] EXCEPT !.sort = MovedTo(d, p, e)]
                     ELSE rows[e]]
         moved == {e \in Docs : table[e] # rows[e]}
     IN Changed(table, moved \X {"sort"})
-----------------------------------------------------------------------------
(***************************************************************************)
(* The export at the end of a frame that changed something.                *)
(***************************************************************************)
\* Every field the projection has.
WrongDiffers(d, f) == f = "color" => rows[d].color # None

\* A field the projection has and the shadow does not have so.
Differs(d, f) ==
  /\ rows[d][f] # shadow[d][f]
  /\ f = "color" => rows[d].color # None

Stale(d) ==
  rows[d] # Gone /\ shadow[d] # Gone /\ \E f \in Fields : Differs(d, f)

\* set_field finds no document to set a field of: the whole export fails.
Blocked == \E d \in Docs : Stale(d) /\ file[d] = Gone

Deleted == {d \in Checklists : shadow[d] # Gone /\ rows[d] = Gone}

Merged(d, f) == IF Differs(d, f) THEN rows[d][f] ELSE file[d][f]

\* The document after write_document; `refused` are the deletions whose
\* failure wena_ferretdb_delete reported and nobody looked at.
Written(d, refused) ==
  CASE rows[d] # Gone /\ shadow[d] = Gone -> rows[d]
    [] Stale(d) -> [title |-> Merged(d, "title"), color |-> Merged(d, "color"),
                    sort |-> Merged(d, "sort")]
    [] d \in Deleted \ refused -> Gone
    [] OTHER -> file[d]

Export(refused) ==
  /\ running /\ dirty /\ ~Blocked
  /\ refused = {} \/ MayFail
  /\ file' = [d \in Docs |-> Written(d, refused)]
  /\ shadow' = rows
  /\ dirty' = FALSE /\ edited' = {}
  /\ apart' = apart \cup refused
  /\ UNCHANGED <<rows, running>>

\* The shadow outside the transaction.
WrongExportFails ==
  /\ running /\ dirty
  /\ Blocked \/ MayFail
  /\ shadow' = rows /\ dirty' = FALSE
  /\ UNCHANGED <<file, rows, running, edited, apart>>

\* synced_changes is set all the same.
ExportFails ==
  /\ running /\ dirty
  /\ Blocked \/ MayFail
  /\ dirty' = FALSE
  /\ UNCHANGED <<file, rows, shadow, running, edited, apart>>
-----------------------------------------------------------------------------
(***************************************************************************)
(* WeKan, or another Wena, on the same file.                               *)
(***************************************************************************)
ElsewhereChanged(d, document) ==
  /\ file' = [file EXCEPT ![d] = document]
  /\ apart' = IF running THEN apart \cup {d} ELSE apart
  /\ UNCHANGED <<rows, shadow, running, dirty, edited>>

WekanEdit(d, document) ==
  /\ file[d] # Gone /\ document # file[d]
  /\ ElsewhereChanged(d, document)
WekanAdd(d, document) == New(d) /\ ElsewhereChanged(d, document)
WekanRemove(d) == file[d] # Gone /\ ElsewhereChanged(d, Gone)
-----------------------------------------------------------------------------
\* Checklists have no colour.
WekanDocuments(d) ==
  [title : Titles, color : {None} \cup (IF d \in Lists THEN Colors ELSE {}),
   sort : Sorts]

\* A new file; WeKan may fill it before Wena starts.
Init ==
  /\ file = Empty /\ rows = Empty /\ shadow = Empty
  /\ running = FALSE /\ dirty = FALSE
  /\ edited = {} /\ apart = {}

UserStep ==
  \/ Touch
  \/ \E d \in Docs :
       \/ \E t \in CutTitles :
            EditTitle(d, t) \/ \E p \in 0 .. MaxPosition : Add(d, t, p)
       \/ d \in Lists /\ \E c \in Palette \cup {None} : EditColor(d, c)
       \/ /\ d \in Lists
          /\ \E e \in Lists \cap Present(rows) : Move(d, rows[e].sort)
       \/ d \in Checklists /\ Delete(d)

\* An export that new documents alone do not bring about.
WrongFrame ==
  /\ \E d \in Docs : Stale(d)
  /\ (\E refused \in SUBSET Deleted : Export(refused)) \/ ExportFails

Frame == (\E refused \in SUBSET Deleted : Export(refused)) \/ ExportFails

Elsewhere ==
  \E d \in Docs :
    \/ WekanRemove(d)
    \/ \E document \in WekanDocuments(d) :
         WekanEdit(d, document) \/ WekanAdd(d, document)

Next == Start \/ UserStep \/ Frame \/ Stop \/ Elsewhere

\* The loop of the desktop runs on without waiting for anybody, and every turn
\* ends with the export when something changed.
Spec == Init /\ [][Next]_vars /\ WF_vars(Frame)
-----------------------------------------------------------------------------
(***************************************************************************)
(* Properties.                                                             *)
(***************************************************************************)
\* A frame writes to a document of WeKan only the fields that the user of
\* Wena changed since the start or the last export, makes only documents the
\* user made and removes only documents the user deleted: titles Wena cut,
\* colours it does not know, numbers it does not keep and documents WeKan
\* removed stay as WeKan has them (export_kind, write_document).
OwnEditsOnly ==
  [][dirty /\ ~dirty' =>
       \A d \in Docs :
         IF file[d] = Gone \/ file'[d] = Gone
         THEN file'[d] # file[d] => <<d, "life">> \in edited
         ELSE \A f \in Fields :
                file'[d][f] # file[d][f] => <<d, f>> \in edited]_vars

\* What Wena shows once everything is written is what it would read from the
\* file again: the same documents with the same titles and colours, for every
\* document nobody else changed.  Two things are not so, and are left out
\* here: the order (see OrderSurvives), and a colour taken away, which stays
\* in the file because the projection has no field to write.
ReopenShowsTheSame ==
  running /\ rows = shadow =>
    \A d \in Docs \ apart :
      /\ (file[d] = Gone) = (rows[d] = Gone)
      /\ rows[d] # Gone =>
           /\ rows[d].title = Cut[file[d].title]
           /\ rows[d].color # None => rows[d].color = file[d].color

Titled(d) ==
  rows[d] # Gone /\ d \notin apart =>
    file[d] # Gone /\ Cut[file[d].title] = rows[d].title

\* What a failed export did not write, a later one writes: if exports do not
\* fail for ever, and the user goes on changing things, the file has every
\* title Wena shows again and again, for the documents nobody else changed.
TitlesReachFile ==
  <>[][~ExportFails]_vars /\ []<>dirty => []<>(\A d \in Docs : Titled(d))

\* The order too is the one Wena shows.  Violated: only the numbers that
\* changed are written, among numbers of WeKan's that are not 0, 1, 2, ...
OrderSurvives ==
  running /\ rows = shadow /\ apart = {} =>
    \A d \in Lists : rows[d] # Gone => Rank(file, d) = rows[d].sort

\* After a frame, what the user changed in a document that is still in the
\* file is in the file.  Violated: one document that WeKan removed makes every
\* later export fail as a whole, and nothing tries again.
EditsAreWritten ==
  running /\ ~dirty =>
    \A d \in Docs : rows[d] # Gone /\ file[d] # Gone => rows[d] = shadow[d]
=============================================================================
