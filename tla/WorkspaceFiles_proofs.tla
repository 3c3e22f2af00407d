----------------------- MODULE WorkspaceFiles_proofs ------------------------
(***************************************************************************)
(* The invariants of WorkspaceFiles for any number of commits, failures    *)
(* and creating processes.  The argument is one inductive invariant, IInv: *)
(* where the call stands tells what the names it works through hold, which *)
(* of them are its own, whether the server runs, and where the committed   *)
(* contents are.                                                           *)
(***************************************************************************)
EXTENDS WorkspaceFiles, TLAPS

\* The parts of TypeOK that nothing else tells.
Flags ==
  /\ running \in BOOLEAN
  /\ creator \in [Creators -> {"absent", "looked", "ready"}]

Steps ==
  /\ job \in Jobs /\ faults \in 0 .. FaultMax
  /\ told \in {"nothing", "restored", "refused"}
  /\ running => Exists("database")

\* What has been committed so far bounds every number.
Numbers ==
  /\ clock \in 0 .. CommitMax
  /\ file \in [Names -> Missing .. clock]
  /\ seen \in Missing .. clock

Counted == owed \subseteq 1 .. clock /\ stale \subseteq Passing

\* Nothing becomes, or is put aside from, the database but a whole one.
Whole ==
  /\ file["database"] # Damaged
  /\ file["restore-original"] # Damaged
  /\ job \in RestoreSteps => seen \in Nat
  /\ job \in {"stop", "keep", "install"} => file["restore.tmp"] = seen

\* Where a backup stands.
Backup ==
  /\ job \in BackupSteps => file["sum"] = Missing
  /\ job \in BackupSteps \ {"seal"} => file["backup"] = Missing
  /\ job \in {"sum", "write", "publish"} => file["backup.tmp"] = seen
  /\ job = "seal" => file["backup"] = seen
  /\ job \in {"publish", "seal"} => file["sum.tmp"] = seen
  /\ SumMatches

\* The server is stopped from the moment before the original is put aside
\* until a database is there to start on.
Server ==
  /\ job \in {"keep", "install", "start", "undo", "withdraw", "back", "restart"}
       => ~running
  /\ job \in {"copy", "fill", "prepare", "stop", "discard"} => running
  /\ job = "tidy" /\ faults <= 1 => running
  /\ job \in {"undo", "withdraw", "back", "restart", "tidy"} => faults >= 1

\* Where the committed contents are.
Kept ==
  /\ NothingLost
  /\ job \in {"install", "start", "undo", "withdraw", "back"}
       => owed \subseteq {file["restore-original"]}
  /\ job \in {"copy", "fill", "prepare", "stop", "keep"}
       => file["restore-original"] = Missing
  /\ job \in {"restart", "tidy"} /\ faults <= 1
       => file["restore-original"] = Missing

\* A name is the call's own from the step that makes it to the one that takes
\* it away; two failures leave the original where it was put.
Mine(n) ==
  \/ n = "backup.tmp" /\ job \in {"snapshot", "sum", "write", "publish"}
  \/ n = "sum.tmp" /\ job \in {"write", "publish", "seal"}
  \/ /\ n = "restore.tmp"
     /\ job \in {"fill", "prepare", "stop", "keep", "install", "undo",
                "restart", "tidy"}
  \/ /\ n = "restore-original"
     /\ \/ job \in {"install", "undo", "start", "discard", "withdraw", "back"}
        \/ job \in {"restart", "tidy", "idle"} /\ faults >= 2

Residue == \A n \in Passing : Exists(n) => n \in stale \/ Mine(n)

Answer ==
  /\ told # "nothing" => job = "idle"
  /\ told # "nothing" /\ faults <= 1
       => /\ running /\ file["restore-original"] = Missing
          /\ owed \subseteq {file["database"]}

IInv ==
  /\ Flags /\ Steps /\ Numbers /\ Counted
  /\ Whole /\ Backup /\ Server /\ Kept /\ Residue /\ Answer

-----------------------------------------------------------------------------
\* The names, and what the steps of a call have in common, are in view
\* everywhere; the parts of the invariant are cited where they are needed.
USE DEF Missing, Damaged, Names, BackupNames, Passing, BackupSteps,
        RestoreSteps, Jobs, Contents, Exists, Left, Put, Without, Renamed,
        Call, Fault, Goes, Returns, Begins, Idle, Opened, Started,
        NothingLost, SumMatches, Mine

-----------------------------------------------------------------------------
\* Every action preserves every part of the invariant.

LEMMA BeginBackupStep == ASSUME IInv, BeginBackup PROVE IInv'
<1>1. Flags'
  BY DEF IInv, Flags, BeginBackup, BackupRefused
<1>2. Numbers' /\ Steps'
  BY WorkspaceFilesAssumption DEF IInv, Steps, Numbers, Whole, Server,
    BeginBackup, BackupRefused
<1>3. Counted'
  BY DEF IInv, Steps, Numbers, Counted, Whole, Server, BeginBackup,
    BackupRefused
<1>4. Whole' /\ Backup'
  BY DEF IInv, Steps, Numbers, Whole, Backup, BeginBackup, BackupRefused
<1>5. Server' /\ Residue'
  BY DEF IInv, Steps, Numbers, Server, Residue, BeginBackup, BackupRefused
<1>6. Kept' /\ Answer'
  BY DEF IInv, Steps, Numbers, Counted, Whole, Server, Kept, Answer,
    BeginBackup, BackupRefused
<1> QED
  BY <1>1, <1>2, <1>3, <1>4, <1>5, <1>6 DEF IInv

LEMMA SnapshotStep == ASSUME IInv, Snapshot PROVE IInv'
<1>1. Flags'
  BY DEF IInv, Flags, Snapshot
<1>2. Numbers' /\ Steps'
  BY WorkspaceFilesAssumption DEF IInv, Steps, Numbers, Whole, Server,
    Snapshot
<1>3. Counted'
  BY DEF IInv, Steps, Numbers, Counted, Whole, Server, Snapshot
<1>4. Whole' /\ Backup'
  BY DEF IInv, Steps, Numbers, Whole, Backup, Snapshot
<1>5. Server' /\ Residue'
  BY DEF IInv, Steps, Numbers, Server, Residue, Snapshot
<1>6. Kept' /\ Answer'
  BY DEF IInv, Steps, Numbers, Counted, Whole, Server, Kept, Answer, Snapshot
<1> QED
  BY <1>1, <1>2, <1>3, <1>4, <1>5, <1>6 DEF IInv

LEMMA OpenSumStep == ASSUME IInv, OpenSum PROVE IInv'
<1>1. Flags'
  BY DEF IInv, Flags, OpenSum
<1>2. Numbers' /\ Steps'
  BY WorkspaceFilesAssumption DEF IInv, Steps, Numbers, Whole, Server, OpenSum
<1>3. Counted'
  BY DEF IInv, Steps, Numbers, Counted, Whole, Server, OpenSum
<1>4. Whole' /\ Backup'
  BY DEF IInv, Steps, Numbers, Whole, Backup, OpenSum
<1>5. Server' /\ Residue'
  BY DEF IInv, Steps, Numbers, Server, Residue, OpenSum
<1>6. Kept' /\ Answer'
  BY DEF IInv, Steps, Numbers, Counted, Whole, Server, Kept, Answer, OpenSum
<1> QED
  BY <1>1, <1>2, <1>3, <1>4, <1>5, <1>6 DEF IInv

LEMMA WriteSumStep == ASSUME IInv, WriteSum PROVE IInv'
<1>1. Flags'
  BY DEF IInv, Flags, WriteSum
<1>2. Numbers' /\ Steps'
  BY WorkspaceFilesAssumption DEF IInv, Steps, Numbers, Whole, Server,
    WriteSum
<1>3. Counted'
  BY DEF IInv, Steps, Numbers, Counted, Whole, Server, WriteSum
<1>4. Whole' /\ Backup'
  BY DEF IInv, Steps, Numbers, Whole, Backup, WriteSum
<1>5. Server' /\ Residue'
  BY DEF IInv, Steps, Numbers, Server, Residue, WriteSum
<1>6. Kept' /\ Answer'
  BY DEF IInv, Steps, Numbers, Counted, Whole, Server, Kept, Answer, WriteSum
<1> QED
  BY <1>1, <1>2, <1>3, <1>4, <1>5, <1>6 DEF IInv

LEMMA PublishBackupStep == ASSUME IInv, PublishBackup PROVE IInv'
<1>1. Flags'
  BY DEF IInv, Flags, PublishBackup
<1>2. Numbers' /\ Steps'
  BY WorkspaceFilesAssumption DEF IInv, Steps, Numbers, Whole, Server,
    PublishBackup
<1>3. Counted'
  BY DEF IInv, Steps, Numbers, Counted, Whole, Server, PublishBackup
<1>4. Whole' /\ Backup'
  BY DEF IInv, Steps, Numbers, Whole, Backup, PublishBackup
<1>5. Server' /\ Residue'
  BY DEF IInv, Steps, Numbers, Server, Residue, PublishBackup
<1>6. Kept' /\ Answer'
  BY DEF IInv, Steps, Numbers, Counted, Whole, Server, Kept, Answer,
    PublishBackup
<1> QED
  BY <1>1, <1>2, <1>3, <1>4, <1>5, <1>6 DEF IInv

LEMMA SealBackupStep == ASSUME IInv, SealBackup PROVE IInv'
<1>1. Flags'
  BY DEF IInv, Flags, SealBackup
<1>2. Numbers' /\ Steps'
  BY WorkspaceFilesAssumption DEF IInv, Steps, Numbers, Whole, Server,
    SealBackup
<1>3. Counted'
  BY DEF IInv, Steps, Numbers, Counted, Whole, Server, SealBackup
<1>4. Whole' /\ Backup'
  BY DEF IInv, Steps, Numbers, Whole, Backup, SealBackup
<1>5. Server' /\ Residue'
  BY DEF IInv, Steps, Numbers, Server, Residue, SealBackup
<1>6. Kept' /\ Answer'
  BY DEF IInv, Steps, Numbers, Counted, Whole, Server, Kept, Answer,
    SealBackup
<1> QED
  BY <1>1, <1>2, <1>3, <1>4, <1>5, <1>6 DEF IInv

LEMMA FailBackupStep == ASSUME IInv, FailBackup PROVE IInv'
<1>1. Flags'
  BY DEF IInv, Flags, FailBackup, Failed
<1>2. Numbers' /\ Steps'
  BY WorkspaceFilesAssumption DEF IInv, Steps, Numbers, Whole, Server,
    FailBackup, Failed
<1>3. Counted'
  BY DEF IInv, Steps, Numbers, Counted, Whole, Server, FailBackup, Failed
<1>4. Whole' /\ Backup'
  BY DEF IInv, Steps, Numbers, Whole, Backup, FailBackup, Failed
<1>5. Server' /\ Residue'
  BY DEF IInv, Steps, Numbers, Server, Residue, FailBackup, Failed
<1>6. Kept' /\ Answer'
  BY DEF IInv, Steps, Numbers, Counted, Whole, Server, Kept, Answer,
    FailBackup, Failed
<1> QED
  BY <1>1, <1>2, <1>3, <1>4, <1>5, <1>6 DEF IInv

LEMMA BeginRestoreStep == ASSUME IInv, BeginRestore PROVE IInv'
<1>1. Flags'
  BY DEF IInv, Flags, BeginRestore, RestoreRefused, Verified
<1>2. Numbers' /\ Steps'
  BY WorkspaceFilesAssumption DEF IInv, Steps, Numbers, Whole, Server,
    BeginRestore, RestoreRefused, Verified
<1>3. Counted'
  BY DEF IInv, Steps, Numbers, Counted, Whole, Server, BeginRestore,
    RestoreRefused, Verified
<1>4. Whole' /\ Backup'
  BY DEF IInv, Steps, Numbers, Whole, Backup, BeginRestore, RestoreRefused,
    Verified
<1>5. Server' /\ Residue'
  BY DEF IInv, Steps, Numbers, Server, Residue, BeginRestore, RestoreRefused,
    Verified
<1>6. Kept' /\ Answer'
  BY DEF IInv, Steps, Numbers, Counted, Whole, Server, Kept, Answer,
    BeginRestore, RestoreRefused, Verified
<1> QED
  BY <1>1, <1>2, <1>3, <1>4, <1>5, <1>6 DEF IInv

LEMMA OpenCopyStep == ASSUME IInv, OpenCopy PROVE IInv'
<1>1. Flags'
  BY DEF IInv, Flags, OpenCopy
<1>2. Numbers' /\ Steps'
  BY WorkspaceFilesAssumption DEF IInv, Steps, Numbers, Whole, Server,
    OpenCopy
<1>3. Counted'
  BY DEF IInv, Steps, Numbers, Counted, Whole, Server, OpenCopy
<1>4. Whole' /\ Backup'
  BY DEF IInv, Steps, Numbers, Whole, Backup, OpenCopy
<1>5. Server' /\ Residue'
  BY DEF IInv, Steps, Numbers, Server, Residue, OpenCopy
<1>6. Kept' /\ Answer'
  BY DEF IInv, Steps, Numbers, Counted, Whole, Server, Kept, Answer, OpenCopy
<1> QED
  BY <1>1, <1>2, <1>3, <1>4, <1>5, <1>6 DEF IInv

LEMMA FillCopyStep == ASSUME IInv, FillCopy PROVE IInv'
<1>1. Flags'
  BY DEF IInv, Flags, FillCopy
<1>2. Numbers' /\ Steps'
  BY WorkspaceFilesAssumption DEF IInv, Steps, Numbers, Whole, Server,
    FillCopy
<1>3. Counted'
  BY DEF IInv, Steps, Numbers, Counted, Whole, Server, FillCopy
<1>4. Whole' /\ Backup'
  BY DEF IInv, Steps, Numbers, Whole, Backup, FillCopy
<1>5. Server' /\ Residue'
  BY DEF IInv, Steps, Numbers, Server, Residue, FillCopy
<1>6. Kept' /\ Answer'
  BY DEF IInv, Steps, Numbers, Counted, Whole, Server, Kept, Answer, FillCopy
<1> QED
  BY <1>1, <1>2, <1>3, <1>4, <1>5, <1>6 DEF IInv

LEMMA PrepareCopyStep == ASSUME IInv, PrepareCopy PROVE IInv'
<1>1. Flags'
  BY DEF IInv, Flags, PrepareCopy, Prepared
<1>2. Numbers' /\ Steps'
  BY WorkspaceFilesAssumption DEF IInv, Steps, Numbers, Whole, Server,
    PrepareCopy, Prepared
<1>3. Counted'
  BY DEF IInv, Steps, Numbers, Counted, Whole, Server, PrepareCopy, Prepared
<1>4. Whole' /\ Backup'
  BY DEF IInv, Steps, Numbers, Whole, Backup, PrepareCopy, Prepared
<1>5. Server' /\ Residue'
  BY DEF IInv, Steps, Numbers, Server, Residue, PrepareCopy, Prepared
<1>6. Kept' /\ Answer'
  BY DEF IInv, Steps, Numbers, Counted, Whole, Server, Kept, Answer,
    PrepareCopy, Prepared
<1> QED
  BY <1>1, <1>2, <1>3, <1>4, <1>5, <1>6 DEF IInv

LEMMA StopForRestoreStep == ASSUME IInv, StopForRestore PROVE IInv'
<1>1. Flags'
  BY DEF IInv, Flags, StopForRestore
<1>2. Numbers' /\ Steps'
  BY WorkspaceFilesAssumption DEF IInv, Steps, Numbers, Whole, Server,
    StopForRestore
<1>3. Counted'
  BY DEF IInv, Steps, Numbers, Counted, Whole, Server, StopForRestore
<1>4. Whole' /\ Backup'
  BY DEF IInv, Steps, Numbers, Whole, Backup, StopForRestore
<1>5. Server' /\ Residue'
  BY DEF IInv, Steps, Numbers, Server, Residue, StopForRestore
<1>6. Kept' /\ Answer'
  BY DEF IInv, Steps, Numbers, Counted, Whole, Server, Kept, Answer,
    StopForRestore
<1> QED
  BY <1>1, <1>2, <1>3, <1>4, <1>5, <1>6 DEF IInv

LEMMA KeepOriginalStep == ASSUME IInv, KeepOriginal PROVE IInv'
<1>1. Flags'
  BY DEF IInv, Flags, KeepOriginal
<1>2. Numbers' /\ Steps'
  BY WorkspaceFilesAssumption DEF IInv, Steps, Numbers, Whole, Server,
    KeepOriginal
<1>3. Counted'
  BY DEF IInv, Steps, Numbers, Counted, Whole, Server, KeepOriginal
<1>4. Whole' /\ Backup'
  BY DEF IInv, Steps, Numbers, Whole, Backup, KeepOriginal
<1>5. Server' /\ Residue'
  BY DEF IInv, Steps, Numbers, Server, Residue, KeepOriginal
<1>6. Kept' /\ Answer'
  BY DEF IInv, Steps, Numbers, Counted, Whole, Server, Kept, Answer,
    KeepOriginal
<1> QED
  BY <1>1, <1>2, <1>3, <1>4, <1>5, <1>6 DEF IInv

LEMMA InstallCopyStep == ASSUME IInv, InstallCopy PROVE IInv'
<1>1. Flags'
  BY DEF IInv, Flags, InstallCopy
<1>2. Numbers' /\ Steps'
  BY WorkspaceFilesAssumption DEF IInv, Steps, Numbers, Whole, Server,
    InstallCopy
<1>3. Counted'
  BY DEF IInv, Steps, Numbers, Counted, Whole, Server, InstallCopy
<1>4. Whole' /\ Backup'
  BY DEF IInv, Steps, Numbers, Whole, Backup, InstallCopy
<1>5. Server' /\ Residue'
  BY DEF IInv, Steps, Numbers, Server, Residue, InstallCopy
<1>6. Kept' /\ Answer'
  BY DEF IInv, Steps, Numbers, Counted, Whole, Server, Kept, Answer,
    InstallCopy
<1> QED
  BY <1>1, <1>2, <1>3, <1>4, <1>5, <1>6 DEF IInv

LEMMA FailRestoreStep == ASSUME IInv, FailRestore PROVE IInv'
<1>1. Flags'
  BY DEF IInv, Flags, FailRestore, AfterFault
<1>2. Numbers' /\ Steps'
  BY WorkspaceFilesAssumption DEF IInv, Steps, Numbers, Whole, Server,
    FailRestore, AfterFault
<1>3. Counted'
  BY DEF IInv, Steps, Numbers, Counted, Whole, Server, FailRestore, AfterFault
<1>4. Whole' /\ Backup'
  BY DEF IInv, Steps, Numbers, Whole, Backup, FailRestore, AfterFault
<1>5. Server' /\ Residue'
  BY DEF IInv, Steps, Numbers, Server, Residue, FailRestore, AfterFault
<1>6. Kept' /\ Answer'
  BY DEF IInv, Steps, Numbers, Counted, Whole, Server, Kept, Answer,
    FailRestore, AfterFault
<1> QED
  BY <1>1, <1>2, <1>3, <1>4, <1>5, <1>6 DEF IInv

LEMMA StartRestoredStep == ASSUME IInv, StartRestored PROVE IInv'
<1>1. Flags'
  BY DEF IInv, Flags, StartRestored
<1>2. Numbers' /\ Steps'
  BY WorkspaceFilesAssumption DEF IInv, Steps, Numbers, Whole, Server,
    StartRestored
<1>3. Counted'
  BY DEF IInv, Steps, Numbers, Counted, Whole, Server, StartRestored
<1>4. Whole' /\ Backup'
  BY DEF IInv, Steps, Numbers, Whole, Backup, StartRestored
<1>5. Server' /\ Residue'
  BY DEF IInv, Steps, Numbers, Server, Residue, StartRestored
<1>6. Kept' /\ Answer'
  BY DEF IInv, Steps, Numbers, Counted, Whole, Server, Kept, Answer,
    StartRestored
<1> QED
  BY <1>1, <1>2, <1>3, <1>4, <1>5, <1>6 DEF IInv

LEMMA DiscardOriginalStep == ASSUME IInv, DiscardOriginal PROVE IInv'
<1>1. Flags'
  BY DEF IInv, Flags, DiscardOriginal
<1>2. Numbers' /\ Steps'
  BY WorkspaceFilesAssumption DEF IInv, Steps, Numbers, Whole, Server,
    DiscardOriginal
<1>3. Counted'
  BY DEF IInv, Steps, Numbers, Counted, Whole, Server, DiscardOriginal
<1>4. Whole' /\ Backup'
  BY DEF IInv, Steps, Numbers, Whole, Backup, DiscardOriginal
<1>5. Server' /\ Residue'
  BY DEF IInv, Steps, Numbers, Server, Residue, DiscardOriginal
<1>6. Kept' /\ Answer'
  BY DEF IInv, Steps, Numbers, Counted, Whole, Server, Kept, Answer,
    DiscardOriginal
<1> QED
  BY <1>1, <1>2, <1>3, <1>4, <1>5, <1>6 DEF IInv

LEMMA WithdrawStep == ASSUME IInv, Withdraw PROVE IInv'
<1>1. Flags'
  BY DEF IInv, Flags, Withdraw
<1>2. Numbers' /\ Steps'
  BY WorkspaceFilesAssumption DEF IInv, Steps, Numbers, Whole, Server,
    Withdraw
<1>3. Counted'
  BY DEF IInv, Steps, Numbers, Counted, Whole, Server, Withdraw
<1>4. Whole' /\ Backup'
  BY DEF IInv, Steps, Numbers, Whole, Backup, Withdraw
<1>5. Server' /\ Residue'
  BY DEF IInv, Steps, Numbers, Server, Residue, Withdraw
<1>6. Kept' /\ Answer'
  BY DEF IInv, Steps, Numbers, Counted, Whole, Server, Kept, Answer, Withdraw
<1> QED
  BY <1>1, <1>2, <1>3, <1>4, <1>5, <1>6 DEF IInv

LEMMA PutBackStep == ASSUME IInv, PutBack PROVE IInv'
<1>1. Flags'
  BY DEF IInv, Flags, PutBack
<1>2. Numbers' /\ Steps'
  BY WorkspaceFilesAssumption DEF IInv, Steps, Numbers, Whole, Server, PutBack
<1>3. Counted'
  BY DEF IInv, Steps, Numbers, Counted, Whole, Server, PutBack
<1>4. Whole' /\ Backup'
  BY DEF IInv, Steps, Numbers, Whole, Backup, PutBack
<1>5. Server' /\ Residue'
  BY DEF IInv, Steps, Numbers, Server, Residue, PutBack
<1>6. Kept' /\ Answer'
  BY DEF IInv, Steps, Numbers, Counted, Whole, Server, Kept, Answer, PutBack
<1> QED
  BY <1>1, <1>2, <1>3, <1>4, <1>5, <1>6 DEF IInv

LEMMA RestartStep == ASSUME IInv, Restart PROVE IInv'
<1>1. Flags'
  BY DEF IInv, Flags, Restart
<1>2. Numbers' /\ Steps'
  BY WorkspaceFilesAssumption DEF IInv, Steps, Numbers, Whole, Server, Restart
<1>3. Counted'
  BY DEF IInv, Steps, Numbers, Counted, Whole, Server, Restart
<1>4. Whole' /\ Backup'
  BY DEF IInv, Steps, Numbers, Whole, Backup, Restart
<1>5. Server' /\ Residue'
  BY DEF IInv, Steps, Numbers, Server, Residue, Restart
<1>6. Kept' /\ Answer'
  BY DEF IInv, Steps, Numbers, Counted, Whole, Server, Kept, Answer, Restart
<1> QED
  BY <1>1, <1>2, <1>3, <1>4, <1>5, <1>6 DEF IInv

LEMMA TidyStep == ASSUME IInv, Tidy PROVE IInv'
<1>1. Flags'
  BY DEF IInv, Flags, Tidy
<1>2. Numbers' /\ Steps'
  BY WorkspaceFilesAssumption DEF IInv, Steps, Numbers, Whole, Server, Tidy
<1>3. Counted'
  BY DEF IInv, Steps, Numbers, Counted, Whole, Server, Tidy
<1>4. Whole' /\ Backup'
  BY DEF IInv, Steps, Numbers, Whole, Backup, Tidy
<1>5. Server' /\ Residue'
  BY DEF IInv, Steps, Numbers, Server, Residue, Tidy
<1>6. Kept' /\ Answer'
  BY DEF IInv, Steps, Numbers, Counted, Whole, Server, Kept, Answer, Tidy
<1> QED
  BY <1>1, <1>2, <1>3, <1>4, <1>5, <1>6 DEF IInv

LEMMA CommitStep == ASSUME IInv, Commit PROVE IInv'
<1>1. Flags'
  BY DEF IInv, Flags, Commit
<1>2. Numbers' /\ Steps'
  BY WorkspaceFilesAssumption DEF IInv, Steps, Numbers, Whole, Server, Commit
<1>3. Counted'
  <2>1. clock' \in Nat /\ clock < clock' /\ stale' = stale
    BY DEF IInv, Numbers, Commit
  <2>2. ASSUME NEW n \in owed' PROVE n \in 1 .. clock'
    BY <2>1, <2>2 DEF IInv, Counted, Numbers, Commit
  <2> QED
    BY <2>1, <2>2 DEF IInv, Counted
<1>4. Whole' /\ Backup'
  BY DEF IInv, Steps, Numbers, Whole, Backup, Commit
<1>5. Server' /\ Residue'
  BY DEF IInv, Steps, Numbers, Server, Residue, Commit
<1>6. Kept' /\ Answer'
  BY DEF IInv, Steps, Numbers, Counted, Whole, Server, Kept, Answer, Commit
<1> QED
  BY <1>1, <1>2, <1>3, <1>4, <1>5, <1>6 DEF IInv

LEMMA StartServerStep == ASSUME IInv, StartServer PROVE IInv'
<1>1. Flags'
  BY DEF IInv, Flags, StartServer
<1>2. Numbers' /\ Steps'
  BY WorkspaceFilesAssumption DEF IInv, Steps, Numbers, Whole, Server,
    StartServer
<1>3. Counted'
  BY DEF IInv, Steps, Numbers, Counted, Whole, Server, StartServer
<1>4. Whole' /\ Backup'
  BY DEF IInv, Steps, Numbers, Whole, Backup, StartServer
<1>5. Server' /\ Residue'
  BY DEF IInv, Steps, Numbers, Server, Residue, StartServer
<1>6. Kept' /\ Answer'
  BY DEF IInv, Steps, Numbers, Counted, Whole, Server, Kept, Answer,
    StartServer
<1> QED
  BY <1>1, <1>2, <1>3, <1>4, <1>5, <1>6 DEF IInv

LEMMA StopServerStep == ASSUME IInv, StopServer PROVE IInv'
<1>1. Flags'
  BY DEF IInv, Flags, StopServer
<1>2. Numbers' /\ Steps'
  BY WorkspaceFilesAssumption DEF IInv, Steps, Numbers, Whole, Server,
    StopServer
<1>3. Counted'
  BY DEF IInv, Steps, Numbers, Counted, Whole, Server, StopServer
<1>4. Whole' /\ Backup'
  BY DEF IInv, Steps, Numbers, Whole, Backup, StopServer
<1>5. Server' /\ Residue'
  BY DEF IInv, Steps, Numbers, Server, Residue, StopServer
<1>6. Kept' /\ Answer'
  BY DEF IInv, Steps, Numbers, Counted, Whole, Server, Kept, Answer,
    StopServer
<1> QED
  BY <1>1, <1>2, <1>3, <1>4, <1>5, <1>6 DEF IInv

LEMMA CrashStep == ASSUME IInv, Crash PROVE IInv'
<1>1. Flags'
  BY DEF IInv, Flags, Crash
<1>2. Numbers' /\ Steps'
  BY WorkspaceFilesAssumption DEF IInv, Steps, Numbers, Whole, Server, Crash
<1>3. Counted'
  BY DEF IInv, Steps, Numbers, Counted, Whole, Server, Crash
<1>4. Whole' /\ Backup'
  BY DEF IInv, Steps, Numbers, Whole, Backup, Crash
<1>5. Server' /\ Residue'
  BY DEF IInv, Steps, Numbers, Server, Residue, Crash
<1>6. Kept' /\ Answer'
  BY DEF IInv, Steps, Numbers, Counted, Whole, Server, Kept, Answer, Crash
<1> QED
  BY <1>1, <1>2, <1>3, <1>4, <1>5, <1>6 DEF IInv

LEMMA RemoveFileStep == ASSUME IInv, RemoveFile PROVE IInv'
<1>1. Flags'
  BY DEF IInv, Flags, RemoveFile
<1>2. Numbers' /\ Steps'
  BY WorkspaceFilesAssumption DEF IInv, Steps, Numbers, Whole, Server,
    RemoveFile
<1>3. Counted'
  BY DEF IInv, Steps, Numbers, Counted, Whole, Server, RemoveFile
<1>4. Whole' /\ Backup'
  BY DEF IInv, Steps, Numbers, Whole, Backup, RemoveFile
<1>5. Server' /\ Residue'
  BY DEF IInv, Steps, Numbers, Server, Residue, RemoveFile
<1>6. Kept' /\ Answer'
  BY DEF IInv, Steps, Numbers, Counted, Whole, Server, Kept, Answer,
    RemoveFile
<1> QED
  BY <1>1, <1>2, <1>3, <1>4, <1>5, <1>6 DEF IInv

LEMMA DamageBackupStep == ASSUME IInv, DamageBackup PROVE IInv'
<1>1. Flags'
  BY DEF IInv, Flags, DamageBackup
<1>2. Numbers' /\ Steps'
  BY WorkspaceFilesAssumption DEF IInv, Steps, Numbers, Whole, Server,
    DamageBackup
<1>3. Counted'
  BY DEF IInv, Steps, Numbers, Counted, Whole, Server, DamageBackup
<1>4. Whole' /\ Backup'
  BY DEF IInv, Steps, Numbers, Whole, Backup, DamageBackup
<1>5. Server' /\ Residue'
  BY DEF IInv, Steps, Numbers, Server, Residue, DamageBackup
<1>6. Kept' /\ Answer'
  BY DEF IInv, Steps, Numbers, Counted, Whole, Server, Kept, Answer,
    DamageBackup
<1> QED
  BY <1>1, <1>2, <1>3, <1>4, <1>5, <1>6 DEF IInv

LEMMA RecoverStep == ASSUME IInv, Recover PROVE IInv'
<1>1. Flags'
  BY DEF IInv, Flags, Recover
<1>2. Numbers' /\ Steps'
  BY WorkspaceFilesAssumption DEF IInv, Steps, Numbers, Whole, Server, Recover
<1>3. Counted'
  BY DEF IInv, Steps, Numbers, Counted, Whole, Server, Recover
<1>4. Whole' /\ Backup'
  BY DEF IInv, Steps, Numbers, Whole, Backup, Recover
<1>5. Server' /\ Residue'
  BY DEF IInv, Steps, Numbers, Server, Residue, Recover
<1>6. Kept' /\ Answer'
  BY DEF IInv, Steps, Numbers, Counted, Whole, Server, Kept, Answer, Recover
<1> QED
  BY <1>1, <1>2, <1>3, <1>4, <1>5, <1>6 DEF IInv

LEMMA LookStep == ASSUME IInv, NEW c \in Creators, Look(c) PROVE IInv'
<1>1. Flags'
  BY DEF IInv, Flags, Look
<1>2. Numbers' /\ Steps'
  BY WorkspaceFilesAssumption DEF IInv, Steps, Numbers, Whole, Server, Look
<1>3. Counted'
  BY DEF IInv, Steps, Numbers, Counted, Whole, Server, Look
<1>4. Whole' /\ Backup'
  BY DEF IInv, Steps, Numbers, Whole, Backup, Look
<1>5. Server' /\ Residue'
  BY DEF IInv, Steps, Numbers, Server, Residue, Look
<1>6. Kept' /\ Answer'
  BY DEF IInv, Steps, Numbers, Counted, Whole, Server, Kept, Answer, Look
<1> QED
  BY <1>1, <1>2, <1>3, <1>4, <1>5, <1>6 DEF IInv

LEMMA BuildStep == ASSUME IInv, NEW c \in Creators, Build(c) PROVE IInv'
<1>1. Flags'
  BY DEF IInv, Flags, Build
<1>2. Numbers' /\ Steps'
  BY WorkspaceFilesAssumption DEF IInv, Steps, Numbers, Whole, Server, Build
<1>3. Counted'
  BY DEF IInv, Steps, Numbers, Counted, Whole, Server, Build
<1>4. Whole' /\ Backup'
  BY DEF IInv, Steps, Numbers, Whole, Backup, Build
<1>5. Server' /\ Residue'
  BY DEF IInv, Steps, Numbers, Server, Residue, Build
<1>6. Kept' /\ Answer'
  BY DEF IInv, Steps, Numbers, Counted, Whole, Server, Kept, Answer, Build
<1> QED
  BY <1>1, <1>2, <1>3, <1>4, <1>5, <1>6 DEF IInv

LEMMA LinkStep == ASSUME IInv, NEW c \in Creators, Link(c) PROVE IInv'
<1>1. Flags'
  BY DEF IInv, Flags, Link, Linked
<1>2. Numbers' /\ Steps'
  BY WorkspaceFilesAssumption DEF IInv, Steps, Numbers, Whole, Server, Link,
    Linked
<1>3. Counted'
  BY DEF IInv, Steps, Numbers, Counted, Whole, Server, Link, Linked
<1>4. Whole' /\ Backup'
  BY DEF IInv, Steps, Numbers, Whole, Backup, Link, Linked
<1>5. Server' /\ Residue'
  BY DEF IInv, Steps, Numbers, Server, Residue, Link, Linked
<1>6. Kept' /\ Answer'
  BY DEF IInv, Steps, Numbers, Counted, Whole, Server, Kept, Answer, Link,
    Linked
<1> QED
  BY <1>1, <1>2, <1>3, <1>4, <1>5, <1>6 DEF IInv

LEMMA GiveUpStep == ASSUME IInv, NEW c \in Creators, GiveUp(c) PROVE IInv'
<1>1. Flags'
  BY DEF IInv, Flags, GiveUp
<1>2. Numbers' /\ Steps'
  BY WorkspaceFilesAssumption DEF IInv, Steps, Numbers, Whole, Server, GiveUp
<1>3. Counted'
  BY DEF IInv, Steps, Numbers, Counted, Whole, Server, GiveUp
<1>4. Whole' /\ Backup'
  BY DEF IInv, Steps, Numbers, Whole, Backup, GiveUp
<1>5. Server' /\ Residue'
  BY DEF IInv, Steps, Numbers, Server, Residue, GiveUp
<1>6. Kept' /\ Answer'
  BY DEF IInv, Steps, Numbers, Counted, Whole, Server, Kept, Answer, GiveUp
<1> QED
  BY <1>1, <1>2, <1>3, <1>4, <1>5, <1>6 DEF IInv

-----------------------------------------------------------------------------
LEMMA InitInv == ASSUME Init PROVE IInv
<1>1. Flags
  BY Zenon DEF Init, Flags
<1>2. Steps /\ Numbers /\ Counted
  BY WorkspaceFilesAssumption DEF Init, Steps, Numbers, Counted
<1>3. Whole /\ Backup /\ Server /\ Kept /\ Residue /\ Answer
  BY DEF Init, Whole, Backup, Server, Kept, Residue, Answer
<1> QED
  BY <1>1, <1>2, <1>3 DEF IInv

LEMMA StepInv == ASSUME IInv, [Next]_vars PROVE IInv'
<1>1. CASE BackupNext
  BY <1>1, BeginBackupStep, SnapshotStep, OpenSumStep, WriteSumStep,
     PublishBackupStep, SealBackupStep, FailBackupStep DEF BackupNext
<1>2. CASE RestoreNext
  BY <1>2, BeginRestoreStep, OpenCopyStep, FillCopyStep, PrepareCopyStep,
     StopForRestoreStep, KeepOriginalStep, InstallCopyStep, FailRestoreStep,
     StartRestoredStep, DiscardOriginalStep, WithdrawStep, PutBackStep,
     RestartStep, TidyStep DEF RestoreNext
<1>3. CASE OtherNext
  BY <1>3, CommitStep, StartServerStep, StopServerStep, CrashStep,
     RemoveFileStep, DamageBackupStep, RecoverStep, LookStep, BuildStep,
     LinkStep, GiveUpStep DEF OtherNext
<1>4. CASE UNCHANGED vars
  BY <1>4 DEF vars, IInv, Flags, Steps, Numbers, Counted, Whole, Backup,
     Server, Kept, Residue, Answer
<1> QED
  BY <1>1, <1>2, <1>3, <1>4 DEF Next

LEMMA Inductive == Spec => []IInv
BY InitInv, StepInv, PTL DEF Spec

LEMMA InvType == IInv => TypeOK
BY WorkspaceFilesAssumption DEF IInv, Flags, Steps, Numbers, Counted, TypeOK

LEMMA InvResidue == IInv => NoResidue
BY DEF IInv, Steps, Residue, NoResidue

-----------------------------------------------------------------------------
\* No name ever holds anything but a number that was committed, or bytes
\* known to be damaged, and the server runs on a database that is there.
THEOREM TypeCorrect == Spec => []TypeOK
BY Inductive, InvType, PTL

\* wena_sqlite_restore and wena_sqlite_workspace_create, killed or failing
\* anywhere, never cost a committed workspace.
THEOREM WorkspaceSurvives == Spec => []NothingLost
<1>1. IInv => NothingLost
  BY DEF IInv, Kept
<1> QED
  BY Inductive, <1>1, PTL

\* The recheck of the copied bytes and the order of the renames keep
\* everything unfinished or changed away from the database's name.
THEOREM DatabaseStaysWhole == Spec => []DatabaseWhole
<1>1. IInv => DatabaseWhole
  BY DEF IInv, Whole, DatabaseWhole
<1> QED
  BY Inductive, <1>1, PTL

\* wena_sqlite_backup_create never puts a backup beside the checksum of
\* another one.
THEOREM ChecksumsMatch == Spec => []SumMatches
<1>1. IInv => SumMatches
  BY DEF IInv, Backup
<1> QED
  BY Inductive, <1>1, PTL

\* After one failure a backup or a restore can be tried again.
THEOREM NothingLeftBehind == Spec => []NoResidue
BY Inductive, InvResidue, PTL

\* A restore replaces everything or nothing, and serves again, after one
\* failure.
THEOREM RestoreIsAtomic == Spec => []AllOrNothing
<1>1. IInv => AllOrNothing
  BY DEF IInv, Answer, AllOrNothing
<1> QED
  BY Inductive, <1>1, PTL
=============================================================================
