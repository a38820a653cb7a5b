----------------------------- MODULE BackupStore -----------------------------
(***************************************************************************)
(* Backups: rows of the database, one archive file each, and the two        *)
(* directories in which an archive is put together and unpacked.  A backup  *)
(* contains the database in which its own row is, and a restore of SQLite   *)
(* replaces that database as a whole; PostgreSQL is left to the operator.   *)
(* The factory reset empties the database, and leaves the archives alone.   *)
(***************************************************************************)
EXTENDS PanelJobs

CONSTANTS NoDump        \* an archive without a database

ASSUME NoDumpAssumption == NoDump \notin Requests

VARIABLES
    db,         \* the database: here its rows of backups
    row,        \* the row of a backup that each job has loaded
    dir,        \* the dump in the directory a backup is put together in
    archive,    \* the archive files
    unpacked,   \* the directories archives are unpacked in
    engine,     \* the kind of database in db_config.json
    configured, \* db_config.json exists
    rewound,    \* history: the database was replaced or emptied
    cut         \* history: jobs whose last save failed, or that died

storeVars == <<db, row, dir, archive, unpacked, engine, configured, rewound, cut>>
fileVars  == <<dir, archive, unpacked>>
siteVars  == <<engine, configured, rewound, cut>>

BackupRow   == [status : {"none", "pending", "running", "completed", "failed"}, file : BOOLEAN]
NoRow       == [status |-> "none", file |-> FALSE]
NoArchive   == [state |-> "none", dump |-> NoDump]
Completed(i) == db.backup[i].status = "completed"

StoreTypeOK ==
    /\ db.backup \in [Ids -> BackupRow]
    /\ row \in [Requests -> BackupRow]
    /\ \A i \in Ids : archive[i].state \in {"none", "partial", "whole"}
    /\ \A i \in Ids : unpacked[i].state \in {"none", "partial", "whole"}
    /\ engine \in {"sqlite", "postgres"}
    /\ configured \in BOOLEAN /\ rewound \in BOOLEAN
    /\ cut \subseteq Requests

SetRow(i, value) == db' = [db EXCEPT !.backup[i] = value]

-----------------------------------------------------------------------------
(***************************************************************************)
(* create_backup, and create_backup_logic for the task.                     *)
(***************************************************************************)
StartBackup(r) ==
    /\ At(r, "backup", "start")
    /\ SetRow(r, [NoRow EXCEPT !.status = "running"])
    /\ row' = [row EXCEPT ![r] = [NoRow EXCEPT !.status = "running"]]
    /\ Goto(r, "dump")
    /\ UNCHANGED <<fileVars, siteVars>>

\* A dump that is not asked for, or fails, is only noted in the answer.
Dump(r) ==
    /\ pc[r] = "dump"
    /\ \/ configured /\ dir' = [dir EXCEPT ![r] = db]
       \/ UNCHANGED dir
    /\ Goto(r, "archive")
    /\ UNCHANGED <<db, row, archive, unpacked, siteVars>>

Archive(r) ==
    /\ pc[r] = "archive"
    /\ archive' = [archive EXCEPT ![r] = [state |-> "whole", dump |-> dir[r]]]
    /\ dir' = [dir EXCEPT ![r] = NoDump]
    /\ Goto(r, "complete")
    /\ UNCHANGED <<db, row, unpacked, siteVars>>

\* The disk is full, a directory cannot be made or removed.
ArchiveFails(r) ==
    /\ pc[r] \in {"dump", "archive"}
    /\ archive' \in {archive} \union
                    {[archive EXCEPT ![r] = [state |-> s, dump |-> dir[r]]] :
                        s \in IF pc[r] = "archive" THEN {"partial", "whole"} ELSE {}}
    /\ Goto(r, "fail")
    /\ UNCHANGED <<db, row, dir, unpacked, siteVars>>

\* backup.save() writes every column, and the row again if it has gone.
CompletedRow(r) == [status |-> "completed", file |-> TRUE]
Complete(r) ==
    /\ pc[r] = "complete"
    /\ row' = [row EXCEPT ![r] = CompletedRow(r)]
    /\ \/ /\ SetRow(r, CompletedRow(r))
          /\ Goto(r, "end")
       \/ /\ UNCHANGED db                   \* the save raises
          /\ Goto(r, "fail")
    /\ UNCHANGED <<fileVars, siteVars>>

\* Variant: a failure keeps the status it was about to save.
KeptRow(r)   == CompletedRow(r)
FailedRow(r) == [row[r] EXCEPT !.status = "failed"]

Failed(r) ==
    /\ pc[r] = "fail"
    /\ \/ SetRow(r, FailedRow(r)) /\ UNCHANGED cut
       \/ UNCHANGED db /\ cut' = cut \union {r}         \* this save raises, too
    /\ Goto(r, "end")
    /\ UNCHANGED <<row, fileVars, engine, configured, rewound>>

\* schedule_backup: a row that no task ever looks at.
ScheduleBackup(r) ==
    /\ At(r, "schedule", "start")
    /\ SetRow(r, [NoRow EXCEPT !.status = "pending"])
    /\ Goto(r, "end")
    /\ UNCHANGED <<row, fileVars, siteVars>>

-----------------------------------------------------------------------------
(***************************************************************************)
(* restore_backup and delete_backup.                                        *)
(***************************************************************************)
LoadBackup(r) ==
    /\ pc[r] = "start" /\ op[r].kind \in {"restore", "deleteBackup"}
    /\ row' = [row EXCEPT ![r] = db.backup[op[r].id]]
    /\ Goto(r, CASE db.backup[op[r].id].status = "none" -> "end"
                 [] op[r].kind = "deleteBackup" -> "unlink"
                 [] OTHER -> IF Completed(op[r].id) THEN "extract" ELSE "end")
    /\ UNCHANGED <<db, fileVars, siteVars>>

\* An archive that is not there ends the request; one that cannot be read, or a
\* full disk, as well, and then the directory stays.
Extract(r) ==
    /\ pc[r] = "extract"
    /\ \/ /\ archive[op[r].id].state # "none"
          /\ unpacked' = [unpacked EXCEPT ![op[r].id] =
                             [archive[op[r].id] EXCEPT !.state = "partial"]]
          /\ Goto(r, "end")
       \/ /\ archive[op[r].id].state = "whole"
          /\ unpacked' = [unpacked EXCEPT ![op[r].id] = archive[op[r].id]]
          /\ Goto(r, "copy")
       \/ /\ archive[op[r].id].state = "none"
          /\ UNCHANGED unpacked
          /\ Goto(r, "end")
    /\ UNCHANGED <<db, row, dir, archive, siteVars>>

\* The file of an SQLite database is replaced by the dump, if there is one in the
\* directory and db_config.json can be read.
CopyDatabase(r) ==
    LET found == unpacked[op[r].id]
        usable == found.state # "none" /\ found.dump # NoDump
    IN  /\ pc[r] = "copy"
        /\ IF usable /\ configured /\ engine = "sqlite"
           THEN db' = found.dump /\ rewound' = TRUE
           ELSE UNCHANGED <<db, rewound>>
        /\ Goto(r, IF usable /\ ~configured THEN "end" ELSE "clean")
        /\ UNCHANGED <<row, fileVars, engine, configured, cut>>

\* shutil.rmtree, which raises if another restore has removed it; the mail and the
\* configuration files, which the model leaves out, were restored before.
CleanUp(r) ==
    /\ pc[r] = "clean"
    /\ unpacked' = [unpacked EXCEPT ![op[r].id] = NoArchive]
    /\ Goto(r, "end")
    /\ UNCHANGED <<db, row, dir, archive, siteVars>>

Unlink(r) ==
    /\ pc[r] = "unlink"
    /\ archive' = IF row[r].file THEN [archive EXCEPT ![op[r].id] = NoArchive] ELSE archive
    /\ Goto(r, "drop")
    /\ UNCHANGED <<db, row, dir, unpacked, siteVars>>

DropRow(r) ==
    /\ pc[r] = "drop"
    /\ \/ SetRow(op[r].id, NoRow) /\ UNCHANGED cut
       \/ UNCHANGED db /\ cut' = cut \union {r}         \* the database is away
    /\ Goto(r, "end")
    /\ UNCHANGED <<row, fileVars, engine, configured, rewound>>

-----------------------------------------------------------------------------
(***************************************************************************)
(* run_factory_reset: the files of the installation, then the database.     *)
(* The stack is torn down later, by a thread (StackHealth).                 *)
(***************************************************************************)
ClearArtifacts(r) ==
    /\ At(r, "reset", "start")
    /\ configured' = FALSE
    /\ Goto(r, "flush")
    /\ UNCHANGED <<db, row, fileVars, engine, rewound, cut>>

EmptyOf(rows) == [i \in Ids |-> rows]
Flush(r, empty) ==
    /\ pc[r] = "flush"
    /\ \/ /\ db' = empty
          /\ rewound' = TRUE
          /\ pc' = [pc EXCEPT ![r] = "teardown"] /\ UNCHANGED <<op, faults>>
       \/ /\ UNCHANGED <<db, rewound>>
          /\ Goto(r, "end")
    /\ UNCHANGED <<row, fileVars, engine, configured, cut>>

StoreStep(r) ==
    \/ StartBackup(r) \/ Dump(r) \/ Archive(r) \/ ArchiveFails(r) \/ Complete(r) \/ Failed(r)
    \/ ScheduleBackup(r) \/ LoadBackup(r) \/ Extract(r) \/ CopyDatabase(r) \/ CleanUp(r)
    \/ Unlink(r) \/ DropRow(r) \/ ClearArtifacts(r)

-----------------------------------------------------------------------------
(***************************************************************************)
(* Properties.                                                              *)
(***************************************************************************)
Making(r)   == op[r].kind = "backup" /\ pc[r] \in {"dump", "archive", "complete", "fail"}
Deleting(i) == \E r \in Requests : op[r].id = i /\ (pc[r] = "drop" \/ r \in cut)

\* A completed backup has its archive, whole, unless it is being deleted; one
\* that is shown as running is being made, unless its job died or could save
\* nothing; and no archive contains a database that calls the very backup
\* completed.  A database that was restored or emptied breaks the first two:
\* its rows are older than the files.
BackupsAreTrue ==
    /\ ~rewound => \A i \in Ids :
          /\ Completed(i) => archive[i].state = "whole" \/ Deleting(i)
          /\ (db.backup[i].status = "running" /\ i # First) => Making(i) \/ i \in cut
    /\ \A i \in Ids : archive[i].dump # NoDump => archive[i].dump.backup[i].status # "completed"
=============================================================================
