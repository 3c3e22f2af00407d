# Verification of Wena

TLA+ models of Wena (C89, SQLite, Nuklear), the TLC runs that check them on small
instances, and the theorems the TLA+ proof system checks for every instance. Every
definition is translated from the C source; the file and lines each one stands for
are in `PROJECT.json` under `map`. Paths below are relative to the repository.

Run a model with `tlc -config <run>.cfg MC<Module>` and a proof with
`tlapm <Module>_proofs.tla` (the proofs about `HttpRequests` and `NativeCards` are in `Clients_proofs`).

## The system

A Wena process is either the desktop client (`client/desktop.c`, one event loop) or
the small HTTP server (`server/http_listener.c`, one request at a time). Both change
boards only through `wena_sqlite_persistence_apply` (`server/sqlite_persistence.c`),
inside `BEGIN IMMEDIATE ... COMMIT`, and several processes may have the same SQLite
file open. On WeKan's own file the desktop works differently: its tables are in
memory, read from WeKan's documents at the start and written back after each frame
that changed something (`server/wekan_sync.c`), while WeKan, or another Wena, may
write to the same file.

There are no threads. Concurrency is between processes (SQLite lets one writer in
at a time), between a process and the version or order it read some time ago, and
between the steps of one operation and a crash or a failing statement.

| Component | State it keeps | Operations | Correct when |
| --- | --- | --- | --- |
| Board mutations (`server/sqlite_persistence.c`, `server/mutations/*_archive.c`, `list_wip.c`, `hierarchy_colors.c`, `board_settings.c`, `server/list_state.c`, `models/wip_limit.c`) | rows of boards, lists, swimlanes and cards; archive flags and stamps; WIP limits; versions | create, edit, move, transfer, archive, restore, limits, colours | hard limits hold, a swimlane restore is exact, every change is versioned |
| Order of a column (`server/sqlite_persistence.c`, `models/card_order.c`, `models/card_selection.c`) | one integer position per card, unique in a column | append, insert, reorder, selected moves and transfers | positions are unique after every statement, the order is the one the user saw |
| Order of lists and swimlanes (`server/sqlite_persistence.c`, `client/features/hierarchy_mutation.c`, `hierarchy_move_mutation.c`, `server/sqlite_board.c`) | one position per list; each process's copy of the board | create, move, reload | positions are 0, 1, 2, ..., a copy that is out of date moves nothing |
| Request identities and HTTP service (`server/http_listener.c`, `runtime.c`, `router.c`, `security.c`, `domain_operation.c`, `client/features/card_mutation.c`) | sessions, form tokens, the next and the last request version, `idempotency_keys` | login, GET, POST, stop, start; a desktop process picks a number | a request changes the board at most once, a page that was served can be submitted |
| WeKan synchronisation (`server/wekan_sync.c`, `server/ferretdb_sqlite.c`, `client/desktop.c`) | WeKan's documents on disk, Wena's tables in memory, the shadow of what was read or written last | import, export after a frame, new board, the user's document | the merge of the three copies loses no edit of either side |
| Native client (`client/desktop.c`, `client/features/*`) | a copy of the board, open dialogs with the versions they read | load, open, save, drag, publish after commit | the copy after a success is what a reload gives |
| Checklists (`server/mutations/checklist_*.c`, `checklist_change`) | checklists, items, positions, timestamps | create, batch, rename, toggle, reorder, move, delete | positions stay unique after every statement, parents agree, capacities hold, versions tell of every change |
| Labels and people (`server/mutations/labels.c`, `card_people.c`, `selected_people.c`) | catalogue of a board, assignments | create, edit, delete, assign, change board | an assignment refers to the card's own board, a member of a card is one of its board |
| Workspace files (`server/sqlite_workspace.c`, `sqlite_storage.c`, `sqlite_backup.c`, `sqlite_restore.c`) | files next to the database, schema version | create, migrate, back up, restore | a crash loses no committed workspace, a failure leaves the old or the new one and the operation can be repeated |
| Preferences (`imports/preferences/*`) | a file per workspace, actor and board; versioned rows | load, save, reset | the last successful save is what is read |
| Views and charts (`models/view_rows.c`, `models/charts.c`, `server/wekan_views.c`) | none | pure functions of a board | agree with their definition |
| Readers of FerretDB, JSON and SJSON (`imports/json`, `imports/ferretdb`, `server/ferretdb_*.c`) | none | parse, edit text | not modelled: parsers |
| Server settings and platform (`server/settings.c`, `root_url.c`, `sha256.c`, `sqlite_amiga_vfs.c`, ...) | none that outlives a call | validate, hash, render | not modelled |
| Drawing, text, icons, languages (`client/components`, `client/platform`, `imports/ui`, `imports/i18n`) | none that is shared | draw | not modelled: immediate-mode drawing |

The behaviours that make the system hard, each at its line and with the properties
that watch it, are listed under `hazards` in `PROJECT.json`.

## The modules

| Module | What it is |
| --- | --- |
| `WipLimit` | the pure rules of `models/wip_limit.c`, used by `BoardStore` |
| `BoardStore` | rows, versions, archives, parents and limits: one action per domain operation, its guard the conjunction of the operation's checks |
| `ColumnOrder` | the abstract promise to a reader: each column is a sequence, a selection moves as one piece and stands together in its order, only the moved cards get their next version |
| `CardColumn` | the positions and the SQL statements that change them, one statement per step, with the open transaction as a variable; at its end the refinement mapping to `ColumnOrder` |
| `HierarchyOrder` | the positions of lists, the two `UPDATE` statements of a move row by row, and the desktop processes' copies |
| `HttpRequests` | forms, tokens, request numbers, idempotency keys, desktop processes, restarts and crashes of the service |
| `ChecklistOrder` | the positions of checklist items and the two passes of `write_order` through a free block, one statement per step |
| `CardContents` | what belongs to a card: checklists, items, labels, people, with the scopes, capacities and versions their mutations keep, and what they become when a card or a checklist goes elsewhere |
| `WorkspaceFiles` | the files of a workspace, one file operation per step: backup, restore, creation, failures, kills, recovery |
| `NativeCards` | the copy of a board's cards in a desktop process, the Move form and the drag, and the store they save to |
| `WekanSync` | import, user, frame, failure of an export, restart, and WeKan on the same file |
| `MC<Module>` | the instance TLC checks: model values, symmetry, bounds |
| `<Module>_proofs` | the theorems about the module |
| `Clients_proofs` | the theorems about `HttpRequests` and about `NativeCards`, the two sides of a client |

Each module says at its top what it abstracts. In all of them a change the program
refuses leaves the state as it was and is no action; a definition named `Wrong...` or
`Bad...` is a plausible mistake that the manifest (`mutants`) pairs with the property
that detects it.

How state and actions correspond to the code:

- **BoardStore.** `card`, `list`, `lane` are the rows by identity with version 0 for "no
  row"; `board` the board versions; `hidden` a history variable (which cards the last
  archiving of a swimlane took along). Optimistic versions: a request names the
  version it expects and is refused otherwise, so an action takes the current one.
  The clock is a free choice from `Times`: it may stand still or go back.
- **CardColumn.** `row` is what is committed, `work` what the open transaction sees, `tx`
  the rewrite in progress (`arrive`, `spread`, `settle`). A statement that would break
  the UNIQUE index is what `PositionsDistinct` is about. `Rollback` stands for a failed
  check, a failed statement and a crash.
- **HierarchyOrder.** `pos`/`version` committed, `work`/`tx` the open move with the rows the
  statement has visited (`done`), `cache` each process's own copy in its order. Forms
  of the service (`Web`) send no expected order.
- **HttpRequests.** `next` is the listener's number, `last` the adapter's, `keys` the rows
  SQLite keeps, `picked` what a desktop process has read but not yet used. `commits`,
  `applied` and `calm` are history.
- **WekanSync.** `file`, `rows`, `shadow` are the three copies; `dirty` is "total changes
  differ from synced_changes"; `edited` (what the user changed since the start or the
  last good export) and `apart` (documents somebody else changed) are history.
  `WekanEdit`, `WekanAdd`, `WekanRemove` are external: any change of a document by
  another program at any moment between two transactions.
- **ChecklistOrder.** `row`, `work`, `tx` as in CardColumn; a rewrite stages every item in
  the first free block of positions (`FreeBlock`) and then settles it at its place.
  Where the code looks for the first block, `Starts` is the set of places it tries.
- **CardContents.** One function per table, version 0 for "no row"; rows repeat their
  board and card as the tables do, so a row left behind is a state the model can be
  in. Every operation of `checklist_change`, `labels.c`, `card_people.c`,
  `selected_people.c` and the transfer is one action, for its transaction is atomic.
- **WorkspaceFiles.** `file` gives every name its contents, a number for the last
  transaction it holds; `job` is the next operation of the administrator's call, `seen`
  the checksum it has computed; `faults`, `told`, `owed` and `stale` are history.
  `Crash` may come between any two operations. `DamageBackup` and `RemoveFile` are
  external: somebody at the files of a backup. Stopping the runtime has no failing
  outcome: it is not running afterwards, whatever happens (`server/runtime.c:5`), so the
  refusal at `server/sqlite_restore.c:177` is never met. `Recover` is the administrator
  putting the original back, which the code leaves to him.
- **NativeCards.** `row` is the store, `copy` what a process shows per column, `panel` the
  Move form or the drag with what it captured. A process's own request is one step, its
  commit and what it then does to the copy. `Elsewhere` is a commit of any other client,
  at any moment; it stands for the other processes, so one process is enough. It also
  brings cards of other boards, with the versions they have; a card that left for another
  board does not come back. Loading the board sets every column of the copy
  (`BoardOf`), the other operations repeat by hand what was committed.
  `OwnChangesKeepCopyCurrent` and, in `HierarchyOrder`, `OwnChangesKeepCacheCurrent` speak
  of the process's own steps, so that a change that is not repeated at all violates them
  as well as one repeated wrongly.

## The runs

| Run | Instance | What it shows |
| --- | --- | --- |
| `boards` | 2 cards, 3 lists and 3 swimlanes on two boards, versions to 4, clock {1, 2}, limits to 1 | `StampsTellHidden`, `LaneRestoreExact`: the stamps alone tell a swimlane which cards its archiving hid; `HardWip`, `ParentsTogether` and `ChangesAreVersioned` through creations, batches, transfers and swimlanes that come back to a list with a limit |
| `card_column` | 3 cards, 2 columns of one board and one of another, versions to 3 | `PositionsDistinct`, `KeepsPromise` (refinement of `ColumnOrder`), transfers included |
| `hierarchy_order` | 4 lists, a process that can show 3, forms of the service | `PositionsDistinct`, `PositionsContiguous`, `MovesLandExactly`, `OwnChangesKeepCacheCurrent`, `MovesNeedCurrentOrder` |
| `http_requests` | 3 forms, 2 sessions, 2 scopes, 2 desktop processes, 3 numbers, 2 token slots | `ChangesHappenOnce`, `PlainPostsAvailableIfCalm` under lost answers, restarts and crashes |
| `http_restart` | 2 forms, nothing goes wrong but a restart | **violation**: see the findings |
| `wekan_sync` | 2 lists and a checklist (2 documents at a time), 3 titles of which one is cut, 2 colours of which one is unknown to Wena | `OwnEditsOnly`, `ReopenShowsTheSame` with failing writes, restarts and another writer; liveness: `TitlesReachFile` |
| `checklist_order` | 4 items, 2 checklists of a card and one of another, 6 positions, 3 items to a card | `PositionsDistinct`, `UnversionedUntouched`, `MovesLandExactly` at every statement, also where the free block overlaps the final places or does not exist |
| `card_contents` | 2 boards with a card and a label each, 3 checklists, 3 items, a person | `ScopesAgree`, `WithinCapacity`, `MembersBelong`, `VersionsTell` through edits, moves, deletions and transfers |
| `workspace_files` | 3 commits, 2 creating processes, 2 failures in a call, any number of kills | `NothingLost`, `DatabaseWhole`, `SumMatches`, `NoResidue`, `AllOrNothing` |
| `native_cards` | a process, 4 identities of cards of which it can show 3, 2 columns, versions to 3 | `OwnChangesKeepCopyCurrent`, `SavesWhatWasShown` while other clients commit |
| `sync_order`, `sync_blocked` | the same instance, SQLite refuses nothing | **violations**: see the findings |

Bounds. Versions end (`MutateMax`) as they do in the code, only sooner, so those runs
may stop (`CHECK_DEADLOCK FALSE`); `http_requests` runs out of forms and numbers in the
same way. The properties of an order relate two or three cards or lists at a time, so
three cards (four lists, so that one is beyond what a process can show) give every
relative place of a moved, a displaced and an untouched one; two swimlanes, two
boards and two processes give every pair. The constraint of `MCBoardStore` (`Bounded`)
lets a behaviour explore the swimlanes of the second board with its cards, or the lists
of both boards, or a list of the second board whose limit is edited while cards of it are
hidden with a swimlane that comes back, and keeps the rows the behaviour is not about at
their first version; an editor asks for limits up to `EditorMax` (1 here, 99 in the code). `MCCardColumn` (`TwoTurns`)
expands no state behind the second change of versions. `MCWekanSync` limits the
documents that exist together (`Together`: two lists, or a list and a checklist) and the
edits and changes elsewhere that are pending at the same time (`FewChanges`), not how
many there are over time. `MCCardContents` starts from every way a card with a
checklist and an item can have people and a label (`Start`) and makes two changes of
each card and board at most (`TwoTurns`), enough for a transfer there and back.
`MCNativeCards` starts from a board with two cards whose positions have a gap and
expands no state with more than four versions handed out (`Few`): two own or foreign
changes before the one that is checked. `workspace_files` has no constraint: its commits
end with `CommitMax`, everything else goes round. `Shift` is the smallest the assumption
of the proofs allows. Symmetry is used only where the constants are exchangeable, and not
in `wekan_sync`, whose liveness it would make unsound.

Fairness. `WekanSync` alone states fairness, `WF_vars(Frame)`: the desktop's loop waits for
nobody, and every turn ends with the export when something changed
(`client/desktop.c:3140-3145`), so a process that has something to write and is not
stopped does export or fail to. Nothing is assumed of the user, of WeKan, or of SQLite
granting the lock: that exports do not fail for ever is the premise of `TitlesReachFile`,
not of the specification. The user's going on is a premise as well, for a failed export
is repeated only after the next change (finding 3 is the same fact without it). TLC checks
the liveness on the behaviours that stay within `FewChanges`. The other modules claim no
liveness: a user and a browser may stop at any time, every operation of the code is
one call that returns, and a lock that SQLite does not grant makes the call fail.

## What is proved

For all values of the constants that satisfy the named assumptions (finite sets of
cards, lists and documents; positive bounds; any assignment of columns to boards; `Cardinality(Items) <= Shift`, which is
100000 in the code; an idempotent cut of titles; for `CardContents` finite sets of rows and any members):

- **BoardStore**: `TypeOK`, `StampsTellHidden`, `LaneRestoreExact`, `ChangesAreVersioned`,
  `ParentsTogether`, `HardWip`, and `ArchivedCardKeepsPlace`, which no run checks. `StampsTellHidden` is inductive
  with the type invariant; the exactness of a restore follows from it. `HardWip` rests
  on lemmas about cardinalities: what a batch removes and adds is what the check
  counted beforehand.
- **CardColumn**: `TypeOK`, `PositionsDistinct`, `UnversionedKeepOrder`, and `KeepsPromise`:
  the statements implement `ColumnOrder`. A rewrite in
  progress says nothing about the rows not yet visited, so the invariant `IInv` adds
  what each stage has done and what the plan still holds: the order is a permutation of the
  column, arrivals lie above all others, spread rows lie above `last` and settled
  ones below, and the cards asked for stand together in it, in the order asked for. The
  refinement rests on two facts about the mapping `OrderOf`, which
  places a card by the number of cards before it: it lists a column with ascending
  positions (`OrderReads`), and no other listing does (`OnlyReading`). Committed rows
  change in the one-statement transactions and in `Commit`; each of them is a step
  `Create`, `Touch` or `Move` of `ColumnOrder` (`CreateRefines`, `SetArchivedRefines`,
  `MoveToEndRefines`, `CommitRefines`), every other step a stutter. `ColumnOrder` says of a move
  what becomes of each column (which cards, in which order, the selection together)
  and not how the new sequence is computed, which would take a recursive definition;
  a list without repetitions has only one form that satisfies this for each place.
- **HierarchyOrder**: `TypeOK`, `PositionsDistinct`, `PositionsContiguous`,
  `MovesLandExactly`, `OwnChangesKeepCacheCurrent`, `MovesNeedCurrentOrder`. `IInv` says
  that committed positions are exactly 0 .. count - 1 (`Contiguous`), where each row is
  during the two statements (`Planned`), and that the process that moves shows the
  committed order (`MoverIsCurrent`); the lemma `OrderIsUnique` makes a copy that
  lists the rows in order equal to a reload.
- **HttpRequests**: `TypeOK`, `ChangesHappenOnce` from an invariant
  about what keys and tokens remember; `PlainPostsAvailableIfCalm` from a second one
  (`Ahead`), which holds until an answer is lost, the service stops or a desktop
  process writes in the scope of a form.
- **NativeCards**: `NativeTypeOK`, `OwnChangesKeepCopyCurrent`, `SavesWhatWasShown`, for any number of
  processes, cards and columns and any commits of other clients. The invariant
  `NativeInv` is the types, the distinct positions of stored cards in a column
  (`RowsDistinct`; without it a column has no one order), and that an open panel captured
  entries. A loaded column is the only ascending listing of its cards (`InOrderSorts`,
  `SortedIsInOrder`), so for each request it is enough to show that what the process
  leaves in its copy lists the new rows of the column in ascending order. The
  fingerprint determines the cards and places of the column (`PlacesMatch`), and with the
  captured entries it is what a form that shifts other cards was shown.
- **WekanSync**: `TypeOK`, `ReopenShowsTheSame`, `OwnEditsOnly`. `IInv` says what the
  three copies tell about each other: a difference between a row and the shadow is an
  edit (`EditedTells`), a document only Wena has is new to the file (`NewIsNew`), a
  list is never deleted (`ListsStay`), the shadow is what the file would be read as
  unless somebody else changed the document (`ShadowTells`).

- **ChecklistOrder**: `TypeOK`, `PositionsDistinct`, `UnversionedUntouched`,
  `MovesLandExactly`, and `CardWithinCapacity`. `IInv` adds what the open transaction
  has done (`Open`): the plan is a numbering of the checklist, staged items are in the block,
  and a settled item has left it, so no final place is taken although the block may overlap.
- **CardContents**: `TypeOK`, `ScopesAgree`, `MembersBelong`, `WithinCapacity`,
  `VersionsTell`. `Core` is the types and scopes of all rows; `Safe` says what any step
  from a state of `Core` does, and one lemma per action proves it table by table.
- **WorkspaceFiles**: `TypeOK`, `NothingLost`, `DatabaseWhole`, `SumMatches`, `NoResidue`,
  `AllOrNothing`, for any number of commits, failures and creating processes. `IInv` says
  for each step of a call what the names it works through hold, which of them are its
  own, and where the committed contents are.

Every invariant and action property of the passing runs, and the refinement, is stated by
a theorem. Only model-checked are the liveness `TitlesReachFile`, for liveness under
fairness and `ENABLED` are out of the prover's reach, and the violation runs, where a
counterexample is the result.

## What the checks found

Disagreements of the code with its own documentation or comments, each with a run:

1. `http_restart`: after a restart the listener numbers requests from 1 again
   (`server/runtime.c:5`); plain forms are refused as repetitions, for good, because a
   refusal does not advance the number.
2. `sync_order`: positions of Wena are written among WeKan's `sort` numbers
   (`server/wekan_sync.c:803`), so a list added last is first after a restart.
3. `sync_blocked`: a failed export counts as done (`client/desktop.c:3144`), and one
   document that WeKan removed makes every later export fail.

Noted while modelling, without a run of their own:

- Creating a card, or moving one to the end, does not count the column
  (`server/sqlite_persistence.c:265`, `:312`), while `docs/card-insertion.md:20` promises at
  most 2,048 cards and the ordered moves then refuse the column; two processes, or a
  form, can likewise make a board that no process can load.
- After a kill between the two renames of a restore there is no database under its name;
  the next start with `--create` serves a new, empty workspace while the old one stays as
  `.restore-original`, and every later restore is refused until somebody puts it back
  (`server/sqlite_restore.c:168`). Nothing is lost (`NothingLost`).
- When the redirect after a committed change is lost, the number does not advance
  (`server/http_listener.c:376`), and the next plain form of the scope is refused.
- The script of the page posts with a content type without the charset that the
  router wants (`server/capability.c:40`, `server/router.c:153-157`).
- A colour taken away is absent from the projection (`server/wekan_sync.c:490-502`), so
  it stays in WeKan's document and comes back at the next start; `ReopenShowsTheSame`
  leaves this case out.
- The result of a deletion in the file is ignored (`server/wekan_sync.c:843`).
- A plain move of a card whose copy is stale is accepted: it needs the card's version, not
  the order of a column (`client/features/card_mutation.c:255`); a move to a place is not.

## Not modelled, and the plan

1. `WekanSync`: the user's document (stars, watch levels, permission, language), the arrays of
   labels and members, new boards and items. Its state is already at the size TLC can
   search together with another writer, so this is a module of its own.
2. `WorkspaceFiles`: the steps of a migration, a second process with the database open
   across a restore, a loss of power (`docs/sqlite-storage.md:36-43` speaks of it; the code of
   backup and restore asks for no fsync, so what is renamed is taken to be on disk),
   and `remove()` failing.
3. `HttpRequests`: expiry of sessions and tokens, parsing of headers.
4. `NativeCards`: the copies of checklists, labels and sections; they are read again after each
   change of the process itself (`client/desktop.c:3070-3110`).
5. Preferences: one file written under a fixed temporary name, one table of versions.
6. Views and charts are pure functions of a loaded board, a few of them with a calendar;
   checking them against a second definition would only write them twice.

Of the implementation's 176,000 lines, 133,000 are tables of translations and font
data (`imports/i18n/ui_catalog_data.h`, `client/platform/font_data.h`), and most of the rest
draws widgets; the models cover the code that keeps state. Parsers, rendering, hashing,
platform code and drawing keep no state that another component reads and are left out.
