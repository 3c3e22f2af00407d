--------------------------- MODULE WorkspaceFiles ---------------------------
(***************************************************************************)
(* The files of a workspace: the database, its verified backup, and the    *)
(* temporary names a backup and a restore work through, one file operation *)
(* at a time.  Any operation may fail, and the process may be killed       *)
(* between any two; SQLite then keeps every committed transaction, and     *)
(* every file stays as it is.  Other processes may create the workspace,   *)
(* and somebody may damage or remove the files of a backup.                *)
(*                                                                         *)
(* The contents of a file are a number: that of the last transaction it    *)
(* holds, 0 for a new workspace.  A checksum file holds the number of what *)
(* it is the checksum of.  The write-ahead log is part of its database.    *)
(*                                                                         *)
(* Left out: a second process with the database open across a restore, a   *)
(* loss of power (what is renamed is on disk), and remove() failing.       *)
(*                                                                         *)
(* A definition named Wrong... is a mistake the code could have made; the  *)
(* manifest pairs it with the property that tells it from the real one.    *)
(***************************************************************************)
EXTENDS Integers

CONSTANTS
  Creators,   \* processes that start with --create
  CommitMax,  \* bound on the transactions committed
  FaultMax    \* bound on the operations of one call that fail

ASSUME WorkspaceFilesAssumption == CommitMax \in Nat /\ FaultMax \in Nat

VARIABLES
  file,     \* the contents of every name
  running,  \* the server runs on the database
  job,      \* what the administrator's call does next
  seen,     \* the contents whose checksum the call has computed
  faults,   \* operations of the call that have failed
  told,     \* what the last call, a restore, has told the administrator,
            \* until the server is started or stopped again
  clock,    \* the transactions committed so far
  creator,  \* what every creating process does next
  owed,     \* committed contents nothing has replaced
  stale     \* temporary names the present call has found, or left by a kill

vars ==
  <<file, running, job, seen, faults, told, clock, creator, owed, stale>>

-----------------------------------------------------------------------------
BackupNames == {"backup", "sum", "backup.tmp", "sum.tmp"}
Names == BackupNames \cup {"database", "restore.tmp", "restore-original"}

\* What a call must not leave behind: a later one refuses to begin.
Passing == {"backup.tmp", "sum.tmp", "restore.tmp", "restore-original"}

Missing == -2
Damaged == -1  \* bytes that are not, or not yet, what they should be
Contents == Missing .. CommitMax

BackupSteps == {"snapshot", "sum", "write", "publish", "seal"}
RestoreSteps ==
  {"copy", "fill", "prepare", "stop", "keep", "install", "start", "discard",
   "undo", "withdraw", "back", "restart", "tidy"}
Jobs == BackupSteps \cup RestoreSteps \cup {"idle"}

TypeOK ==
  /\ file \in [Names -> Contents]
  /\ running \in BOOLEAN
  /\ running => file["database"] # Missing
  /\ job \in Jobs /\ seen \in Contents
  /\ faults \in 0 .. FaultMax
  /\ told \in {"nothing", "restored", "refused"}
  /\ clock \in 0 .. CommitMax
  /\ creator \in [Creators -> {"absent", "looked", "ready"}]
  /\ owed \subseteq 1 .. clock
  /\ stale \subseteq Passing

Exists(n) == file[n] # Missing
Left(f) == {n \in Passing : f[n] # Missing}

Put(n, c) == [file EXCEPT ![n] = c]
Without(names) == [n \in Names |-> IF n \in names THEN Missing ELSE file[n]]
Renamed(a, b) == [file EXCEPT ![a] = Missing, ![b] = file[a]]

Init ==
  /\ file = [n \in Names |-> Missing]
  /\ running = FALSE /\ job = "idle" /\ seen = Missing
  /\ faults = 0 /\ told = "nothing" /\ clock = 0
  /\ creator = [c \in Creators |-> "absent"]
  /\ owed = {} /\ stale = {}

-----------------------------------------------------------------------------
\* The steps of a call.

Call == <<running, clock, creator, owed, stale>>

Fault == faults < FaultMax /\ faults' = faults + 1

\* The call goes on with another step.
Goes(step) == job' = step /\ told' = told

Returns(answer) == job' = "idle" /\ told' = answer

Begins(step) ==
  /\ job = "idle" /\ running
  /\ job' = step /\ faults' = 0 /\ told' = "nothing"
  /\ stale' = Left(file)
  /\ UNCHANGED <<running, clock, creator, owed>>

-----------------------------------------------------------------------------
\* wena_sqlite_backup_create.

WrongBackupRefused == Exists("backup") \/ Exists("backup.tmp")

BackupRefused == \E n \in BackupNames : Exists(n)

BeginBackup ==
  /\ ~BackupRefused
  /\ file' = Put("backup.tmp", Damaged) /\ seen' = seen
  /\ Begins("snapshot")

Snapshot ==
  /\ job = "snapshot"
  /\ file' = Put("backup.tmp", file["database"])
  /\ seen' = file["database"]
  /\ Goes("sum") /\ UNCHANGED <<faults, Call>>

OpenSum ==
  /\ job = "sum"
  /\ file' = Put("sum.tmp", Damaged)
  /\ Goes("write") /\ UNCHANGED <<seen, faults, Call>>

WriteSum ==
  /\ job = "write"
  /\ file' = Put("sum.tmp", seen)
  /\ Goes("publish") /\ UNCHANGED <<seen, faults, Call>>

PublishBackup ==
  /\ job = "publish"
  /\ file' = Renamed("backup.tmp", "backup")
  /\ Goes("seal") /\ UNCHANGED <<seen, faults, Call>>

SealBackup ==
  /\ job = "seal"
  /\ file' = Renamed("sum.tmp", "sum")
  /\ Returns("nothing") /\ UNCHANGED <<seen, faults, Call>>

WrongFailed == {"backup.tmp"}

\* What a failed backup takes away.  A backup without its checksum is not
\* left, so the next attempt is not refused.
Failed ==
  {"backup.tmp", "sum.tmp"} \cup (IF job = "seal" THEN {"backup"} ELSE {})

FailBackup ==
  /\ job \in BackupSteps
  /\ Fault
  /\ file' = Without(Failed)
  /\ Returns("nothing") /\ UNCHANGED <<seen, Call>>

-----------------------------------------------------------------------------
\* wena_sqlite_restore, with the runtime as its lifecycle.

\* preflight: the bytes have the checksum beside them, and are a database.
Verified ==
  Exists("backup") /\ file["backup"] # Damaged /\ file["sum"] = file["backup"]

WrongRestoreRefused == Exists("restore.tmp")

RestoreRefused == Exists("restore.tmp") \/ Exists("restore-original")

BeginRestore ==
  /\ ~RestoreRefused
  /\ Exists("database") /\ Verified
  /\ seen' = file["backup"] /\ file' = file
  /\ Begins("copy")

\* copy_file: the name is taken exclusively, then filled from what the backup
\* holds by now, or held when it was removed.
OpenCopy ==
  /\ job = "copy"
  /\ IF Exists("backup") THEN file' = Put("restore.tmp", Damaged) /\ Goes("fill")
                         ELSE file' = file /\ Returns("refused")
  /\ UNCHANGED <<seen, faults, Call>>

FillCopy ==
  /\ job = "fill"
  /\ \E c \in IF Exists("backup") THEN {file["backup"]} ELSE {seen, Damaged} :
       file' = Put("restore.tmp", c)
  /\ Goes("prepare") /\ UNCHANGED <<seen, faults, Call>>

WrongPrepared == Exists("restore.tmp")

\* "Recheck copied bytes to catch a changed backup between preflight and
\* copy."
Prepared == file["restore.tmp"] = seen

PrepareCopy ==
  /\ job = "prepare"
  /\ IF Prepared THEN file' = file /\ Goes("stop")
                 ELSE file' = Without({"restore.tmp"}) /\ Returns("refused")
  /\ UNCHANGED <<seen, faults, Call>>

\* Stopping never fails: the runtime is not running afterwards, whatever
\* became of its listener (server/runtime.c:5).
StopForRestore ==
  /\ job = "stop"
  /\ running' = FALSE
  /\ Goes("keep") /\ UNCHANGED <<file, seen, faults, clock, creator, owed, stale>>

KeepOriginal ==
  /\ job = "keep"
  /\ file' = Renamed("database", "restore-original")
  /\ Goes("install") /\ UNCHANGED <<seen, faults, Call>>

InstallCopy ==
  /\ job = "install"
  /\ file' = Renamed("restore.tmp", "database")
  /\ Goes("start") /\ UNCHANGED <<seen, faults, Call>>

WrongOpened == file

\* wena_sqlite_open creates a missing database.
Opened == IF Exists("database") THEN file ELSE Put("database", 0)

WrongAfterFault ==
  [copy |-> "idle", fill |-> "idle", prepare |-> "idle", keep |-> "restart",
   install |-> "restart", undo |-> "restart", start |-> "withdraw",
   back |-> "idle", restart |-> "tidy"]

\* Where each operation that fails leads.  The result of the rename that puts
\* the original back is looked at in one place and not in the other.
AfterFault ==
  [copy |-> "idle", fill |-> "idle", prepare |-> "idle", keep |-> "restart",
   install |-> "undo", undo |-> "restart", start |-> "withdraw",
   back |-> "idle", restart |-> "tidy"]

FailRestore ==
  /\ job \in DOMAIN AfterFault
  /\ Fault
  /\ CASE job \in {"fill", "prepare", "keep"} -> file' = Without({"restore.tmp"})
       [] job = "restart" -> file' \in {file, Opened}
       [] OTHER -> file' = file
  /\ IF AfterFault[job] = "idle" THEN Returns("refused") ELSE Goes(AfterFault[job])
  /\ UNCHANGED <<seen, Call>>

Started(step) ==
  /\ file' = Opened /\ running' = TRUE
  /\ Goes(step) /\ UNCHANGED <<seen, faults, clock, creator, owed, stale>>

StartRestored == job = "start" /\ Started("discard")

\* The restored database replaces the one the server was stopped on.
DiscardOriginal ==
  /\ job = "discard"
  /\ file' = Without({"restore-original"})
  /\ owed' = {file["database"]} \ {0}
  /\ Returns("restored")
  /\ UNCHANGED <<running, seen, faults, clock, creator, stale>>

Withdraw ==
  /\ job = "withdraw"
  /\ file' = Without({"database"})
  /\ Goes("back") /\ UNCHANGED <<seen, faults, Call>>

PutBack ==
  /\ job \in {"undo", "back"}
  /\ file' = Renamed("restore-original", "database")
  /\ Goes("restart") /\ UNCHANGED <<seen, faults, Call>>

Restart == job = "restart" /\ Started("tidy")

Tidy ==
  /\ job = "tidy"
  /\ file' = Without({"restore.tmp"})
  /\ Returns("refused") /\ UNCHANGED <<seen, faults, Call>>

-----------------------------------------------------------------------------
\* The server and other processes.

Idle == told' = "nothing" /\ UNCHANGED <<job, seen, faults>>

\* The contents a commit replaces are no longer owed, unless they are those
\* of the original a restore has put aside.
Commit ==
  /\ running /\ clock < CommitMax
  /\ clock' = clock + 1
  /\ file' = Put("database", clock')
  /\ owed' = (owed \ ({file["database"]} \ {file["restore-original"]}))
               \cup {clock'}
  /\ UNCHANGED <<running, job, seen, faults, told, creator, stale>>

StartServer ==
  /\ job = "idle" /\ ~running
  /\ file' = Opened /\ running' = TRUE
  /\ Idle /\ UNCHANGED <<clock, creator, owed, stale>>

StopServer ==
  /\ job = "idle" /\ running
  /\ running' = FALSE
  /\ Idle /\ UNCHANGED <<file, clock, creator, owed, stale>>

\* The process of the server is killed.
Crash ==
  /\ job # "idle" \/ running
  /\ running' = FALSE /\ job' = "idle" /\ told' = "nothing"
  /\ stale' = Left(file)
  /\ UNCHANGED <<file, seen, faults, clock, creator, owed>>

\* Somebody removes or damages a file of a backup, or takes away a temporary
\* name a kill has left, while no call of this process works on it.
RemoveFile ==
  \E n \in BackupNames \cup {"restore.tmp"} :
    /\ Exists(n)
    /\ n \in {"backup", "sum"} \/ job = "idle"
    /\ job \notin BackupSteps
    /\ file' = Without({n})
    /\ UNCHANGED <<running, job, seen, faults, told, clock, creator, owed, stale>>

DamageBackup ==
  /\ Exists("backup") /\ job \notin BackupSteps
  /\ file' = Put("backup", Damaged)
  /\ UNCHANGED <<running, job, seen, faults, told, clock, creator, owed, stale>>

\* Somebody puts back the original a kill has left, where there is no database.
Recover ==
  /\ job = "idle" /\ Exists("restore-original") /\ ~Exists("database")
  /\ file' = Renamed("restore-original", "database")
  /\ UNCHANGED <<running, job, seen, faults, told, clock, creator, owed, stale>>

\* wena_sqlite_workspace_create: the name is looked for, a complete workspace
\* is made in a directory of its own, and link() publishes it unless the name
\* exists by then.  Whatever happens, the directory is removed.
Look(c) ==
  /\ creator[c] = "absent" /\ ~Exists("database")
  /\ creator' = [creator EXCEPT ![c] = "looked"]
  /\ UNCHANGED <<file, running, job, seen, faults, told, clock, owed, stale>>

Build(c) ==
  /\ creator[c] = "looked"
  /\ creator' = [creator EXCEPT ![c] = "ready"]
  /\ UNCHANGED <<file, running, job, seen, faults, told, clock, owed, stale>>

WrongLinked == Put("database", 0)

Linked == IF Exists("database") THEN file ELSE Put("database", 0)

Link(c) ==
  /\ creator[c] = "ready"
  /\ creator' = [creator EXCEPT ![c] = "absent"]
  /\ file' = Linked
  /\ UNCHANGED <<running, job, seen, faults, told, clock, owed, stale>>

GiveUp(c) ==
  /\ creator[c] # "absent"
  /\ creator' = [creator EXCEPT ![c] = "absent"]
  /\ UNCHANGED <<file, running, job, seen, faults, told, clock, owed, stale>>

-----------------------------------------------------------------------------
BackupNext ==
  \/ BeginBackup \/ Snapshot \/ OpenSum \/ WriteSum \/ PublishBackup
  \/ SealBackup \/ FailBackup

RestoreNext ==
  \/ BeginRestore \/ OpenCopy \/ FillCopy \/ PrepareCopy \/ StopForRestore
  \/ KeepOriginal \/ InstallCopy \/ FailRestore \/ StartRestored
  \/ DiscardOriginal \/ Withdraw \/ PutBack \/ Restart \/ Tidy

OtherNext ==
  \/ Commit \/ StartServer \/ StopServer \/ Crash \/ RemoveFile \/ DamageBackup
  \/ Recover
  \/ \E c \in Creators : Look(c) \/ Build(c) \/ Link(c) \/ GiveUp(c)

Next == BackupNext \/ RestoreNext \/ OtherNext

Spec == Init /\ [][Next]_vars

-----------------------------------------------------------------------------
\* "The previous generation remains recoverable" (docs/sqlite-storage.md:42):
\* whatever fails, and wherever the process is killed, every committed
\* workspace nothing has replaced is whole under one of two names, and a
\* further restore, or a workspace created meanwhile, does not write over it.
NothingLost == owed \subseteq {file["database"], file["restore-original"]}

\* What the server opens is never a half-written copy, nor a backup that was
\* changed after its checksum had been compared.
DatabaseWhole == file["database"] # Damaged

\* A checksum is only ever beside the backup it was computed from, however
\* many attempts were killed and however their left-overs were cleared.
SumMatches ==
  Exists("sum") /\ Exists("backup") /\ file["backup"] # Damaged
    => file["sum"] = file["backup"]

\* A call that was not killed, and met one failure at most, leaves no name
\* behind that was not there before: since stale names refuse every later
\* backup and restore, it could never be repeated.
NoResidue == job = "idle" /\ faults <= 1 => Left(file) \subseteq stale

\* A restore that returns after one failure at most has the server running,
\* on the restored database or on the original, and everything owed is in it.
AllOrNothing ==
  told # "nothing" /\ faults <= 1
    => running /\ owed \subseteq {file["database"]}
=============================================================================
