--------------------------- MODULE Operations_proofs ---------------------------
(***************************************************************************)
(* Proofs about the operations of an installed panel: a completed backup    *)
(* has its archive and no archive contains a database that is younger than  *)
(* itself, alerts are neither doubled nor opened again, and the daemons     *)
(* serve the certificate of the volume, each unless one of the races or     *)
(* failures the property names has happened.  They hold for any number of   *)
(* jobs and faults, whatever operations the jobs stand for.                 *)
(***************************************************************************)
EXTENDS Operations, TLAPS

(***************************************************************************)
(* The inductive invariant.                                                 *)
(***************************************************************************)

\* The whole database, as it is and as archives contain it.
Database == [backup : [Ids -> BackupRow], alert : [Ids -> AlertRow], limit : [Ids -> LimitRow]]
Dumps    == Database \cup {NoDump}
Archives == [Ids -> [state : {"none", "partial", "whole"}, dump : Dumps]]

StoreType == /\ db \in Database
             /\ row \in [Requests -> BackupRow]
             /\ dir \in [Requests -> Dumps]
             /\ archive \in Archives /\ unpacked \in Archives
             /\ engine \in {"sqlite", "postgres"}
             /\ configured \in BOOLEAN /\ rewound \in BOOLEAN
             /\ cut \subseteq Requests

\* The steps at which each operation may stand, as far as the proofs tell them apart.
BackupSteps == {"dump", "archive", "complete", "fail"}
PlaceOK(r) ==
    /\ pc[r] \in BackupSteps => op[r].kind = "backup"
    /\ pc[r] \in {"unlink", "drop"} => op[r].kind = "deleteBackup"
    /\ pc[r] \in {"look", "create"} => op[r].kind \in Watchers
    /\ pc[r] = "teardown" => rewound

\* No database, wherever it is kept, calls a backup completed whose archive was
\* not written yet; of its own backup no archive ever says so.
Early == {"start", "dump", "archive"}
Before(d) == d # NoDump => \A r \in Requests : pc[r] \in Early => d.backup[r].status # "completed"
DumpOK ==
    /\ \A r \in Requests : pc[r] \in Early => db.backup[r].status # "completed"
    /\ \A r \in Requests : Before(dir[r])
    /\ \A i \in Ids : Before(archive[i].dump) /\ Before(unpacked[i].dump)
    /\ \A r \in Requests : dir[r] # NoDump => dir[r].backup[r].status # "completed"
    /\ \A i \in Ids : archive[i].dump # NoDump => archive[i].dump.backup[i].status # "completed"

\* While the database is neither restored nor emptied: a row with a file is settled,
\* and whoever deletes it knew that; a backup that is about to be completed has
\* its archive.
BackupOK(r) ==
    /\ pc[r] \in Early \cup {"complete"} => ~db.backup[r].file
    /\ pc[r] = "start" => db.backup[r].status = "none"
    /\ pc[r] = "complete" => archive[r].state = "whole"
    /\ (pc[r] = "unlink" /\ row[r].file) => op[r].id = First \/ pc[op[r].id] = "end"
FilesOK ==
    /\ \A r \in Requests : db.backup[r].file => pc[r] = "end"
    /\ \A r \in Requests : BackupOK(r)
    /\ \A i \in Ids : Completed(i) => archive[i].state = "whole" \/ Deleting(i)
    /\ \A i \in Ids : (db.backup[i].status = "running" /\ i # First) => Making(i) \/ i \in cut

\* Alerts: unless a stale row was saved, nobody has created twice.
Hopeful == {"start", "look", "create"}
AlertOK ==
    /\ \A r \in Requests : pc[r] \in Hopeful => r \notin resolved /\ ~db.alert[r].there
    /\ \A i \in resolved : ~db.alert[i].open
    /\ \A q \in Requests : pc[q] = "saveAlert" => acopy[q].there
    /\ ~overlapped =>
          /\ \A r, q \in Requests : (r # q /\ pc[r] = "create" /\ pc[q] = "create") =>
                want[r].cat # want[q].cat
          /\ \A r \in Requests : pc[r] = "create" => Matches(r) = {}
          /\ \A i, j \in OpenOnes : i # j =>
                \/ db.alert[i].cat # db.alert[j].cat
                \/ db.alert[i].sev # db.alert[j].sev
                \/ db.alert[i].cat \in ByCount /\ db.alert[i].value # db.alert[j].value

\* Unless the volume is torn, one job at most writes it, and what it has written and
\* whom it has told follows from its step.
TlsOK ==
    /\ \A r, q \in Requests : (InFlight(r) /\ InFlight(q)) => r = q
    /\ \A r \in Requests : pc[r] \in {"cert", "certOnly"} => vol["ca"] = r
    /\ \A r \in Requests : pc[r] \in Daemons => vol["ca"] = vol["cert"]
    /\ \A r \in Requests : pc[r] = "dovecot" =>
          (("postfix" \notin unloaded /\ up["postfix"] = "up") => mem["postfix"] = vol["cert"])
    /\ (\A r \in Requests : ~InFlight(r)) =>
          /\ vol["ca"] = vol["cert"]
          /\ \A d \in Daemons \ unloaded : up[d] = "up" => mem[d] = vol["cert"]

IInv == /\ TypeOK /\ StoreType
        /\ \A r \in Requests : PlaceOK(r)
        /\ DumpOK
        /\ ~rewound => FilesOK
        /\ rewound \/ (("alert" \notin stale => AlertOK) /\ ("limit" \notin stale => db.limit = asked))
        /\ ~torn => TlsOK

-----------------------------------------------------------------------------
(***************************************************************************)
(* Types, and what each statement changes in the database.                  *)
(***************************************************************************)
JobType   == /\ op \in [Requests -> Asked]
             /\ pc \in [Requests -> Labels]
             /\ faults \in 0..MaxFaults
AlertType == /\ want \in [Requests -> Finding]
             /\ acopy \in [Requests -> AlertRow]
             /\ lcopy \in [Requests -> LimitRow]
             /\ asked \in [Ids -> LimitRow]
             /\ resolved \subseteq Ids
             /\ overlapped \in BOOLEAN /\ stale \subseteq {"alert", "limit"}
Types == JobType /\ StoreType /\ AlertType /\ StackTypeOK

LEMMA TypeParts ==
    /\ TypeOK /\ StoreType <=> Types
    /\ TypeOK' /\ StoreType' <=> Types'
<1>1. StoreType => StoreTypeOK /\ db.alert \in [Ids -> AlertRow] /\ db.limit \in [Ids -> LimitRow]
  BY DEF StoreType, StoreTypeOK, Database, Archives
<1>2. StoreType' => StoreTypeOK' /\ db'.alert \in [Ids -> AlertRow] /\ db'.limit \in [Ids -> LimitRow]
  BY DEF StoreType, StoreTypeOK, Database, Archives
<1> QED
  BY <1>1, <1>2 DEF TypeOK, Types, JobType, AlertType, AlertTypeOK

LEMMA OpFacts ==
    ASSUME JobType, NEW r \in Requests
    PROVE  /\ op[r].id \in Ids /\ op[r].kind \in OpKinds
           /\ r \in Ids /\ r # First /\ First \in Ids
BY AskedAssumption, JobsAssumption DEF JobType, Ids

LEMMA DbFacts ==
    ASSUME db \in Database
    PROVE  /\ db.backup \in [Ids -> BackupRow]
           /\ db.alert \in [Ids -> AlertRow]
           /\ db.limit \in [Ids -> LimitRow]
BY DEF Database

LEMMA SetRowFacts ==
    ASSUME db \in Database, NEW i \in Ids, NEW v \in BackupRow, SetRow(i, v)
    PROVE  /\ db' \in Database
           /\ db'.backup = [db.backup EXCEPT ![i] = v]
           /\ db'.alert = db.alert /\ db'.limit = db.limit
BY DEF SetRow, Database

LEMMA SetAlertFacts ==
    ASSUME db \in Database, NEW i \in Ids, NEW v \in AlertRow, SetAlert(i, v)
    PROVE  /\ db' \in Database
           /\ db'.alert = [db.alert EXCEPT ![i] = v]
           /\ db'.backup = db.backup /\ db'.limit = db.limit
BY DEF SetAlert, Database

LEMMA AlertsFacts ==
    ASSUME db \in Database, NEW rows \in [Ids -> AlertRow], db' = [db EXCEPT !.alert = rows]
    PROVE  /\ db' \in Database
           /\ db'.alert = rows /\ db'.backup = db.backup /\ db'.limit = db.limit
BY DEF Database

LEMMA LimitFacts ==
    ASSUME db \in Database, NEW i \in Ids, NEW v \in LimitRow, SetLimit(i, v)
    PROVE  /\ db' \in Database
           /\ db'.limit = [db.limit EXCEPT ![i] = v]
           /\ db'.backup = db.backup /\ db'.alert = db.alert
BY DEF SetLimit, Database

LEMMA EmptyFacts ==
    /\ EmptyDb \in Database
    /\ \A i \in Ids : EmptyDb.backup[i] = NoRow
    /\ NoRow \in BackupRow /\ NoAlert \in AlertRow /\ NoLimit \in LimitRow
    /\ NoRow.status = "none" /\ ~NoRow.file /\ ~NoAlert.there /\ ~NoAlert.open
BY DEF EmptyDb, EmptyOf, Database, NoRow, BackupRow, NoAlert, AlertRow, NoLimit, LimitRow,
       Severity, Values, Categories, Settings

LEMMA RowFacts ==
    /\ \A s \in {"none", "pending", "running", "completed", "failed"}, b \in BOOLEAN :
          [status |-> s, file |-> b] \in BackupRow
    /\ \A x \in BackupRow, s \in {"none", "pending", "running", "completed", "failed"} :
          /\ [x EXCEPT !.status = s] \in BackupRow
          /\ [x EXCEPT !.status = s].status = s
          /\ [x EXCEPT !.status = s].file = x.file
BY DEF BackupRow

LEMMA ArchiveFacts ==
    ASSUME NEW a \in Archives, NEW i \in Ids, NEW s \in {"none", "partial", "whole"}, NEW d \in Dumps
    PROVE  /\ [a EXCEPT ![i] = [state |-> s, dump |-> d]] \in Archives
           /\ [a EXCEPT ![i] = NoArchive] \in Archives
           /\ NoArchive.state = "none" /\ NoArchive.dump = NoDump
BY DEF Archives, NoArchive, Dumps

-----------------------------------------------------------------------------
(***************************************************************************)
(* Where each step leads.                                                   *)
(***************************************************************************)

\* A job goes on from one step to another.
Moves(r, from, to) == pc[r] = from /\ Goto(r, to)

LEMMA MovesFacts ==
    ASSUME JobType, NEW r \in Requests, NEW from \in Labels, NEW to \in Labels, Moves(r, from, to)
    PROVE  /\ JobType' /\ op' = op /\ faults' = faults
           /\ pc[r] = from /\ pc'[r] = to
           /\ \A q \in Requests \ {r} : pc'[q] = pc[q]
BY DEF JobType, Moves, Goto

\* The steps that belong to backups, to alerts and to the stack.
StoreLabels == {"dump", "archive", "complete", "fail", "extract", "copy", "clean", "unlink", "drop",
                "flush"}
AlertLabels == {"look", "create", "stamp", "saveAlert", "saveLimit"}
StackLabels == {"files", "probe", "ca", "caOnly", "cert", "certOnly", "postfix", "dovecot", "again",
                "routing", "outbound", "ensure", "ensureAgain", "maps", "mapsBad", "quota",
                "quotaBad", "last", "restartDaemons"}

\* A step that only jobs of some kinds take is entered by such a job, or from another
\* step of that kind.
Fits(r, from, to) ==
    /\ to \in BackupSteps => from \in BackupSteps \/ op[r].kind = "backup"
    /\ to \in {"unlink", "drop"} => from = "unlink" \/ op[r].kind = "deleteBackup"
    /\ to \in {"look", "create"} => from = "look" \/ op[r].kind \in Watchers
    /\ to = "teardown" => rewound'

LEMMA LoadBackupGoes ==
    ASSUME NEW r \in Requests, LoadBackup(r)
    PROVE  \/ Moves(r, "start", "end")
           \/ Moves(r, "start", "unlink") /\ op[r].kind = "deleteBackup"
           \/ Moves(r, "start", "extract") /\ op[r].kind = "restore"
BY Zenon DEF LoadBackup, Moves

LEMMA StoreMoves ==
    ASSUME NEW r \in Requests, StoreStep(r) \/ Flush(r, EmptyDb)
    PROVE  \E from \in StoreLabels \cup {"start"}, to \in StoreLabels \cup {"end", "teardown"} :
              Moves(r, from, to) /\ Fits(r, from, to)
<1> USE DEF Moves
<1>2. CASE StartBackup(r)
  <2>1. Moves(r, "start", "dump") /\ op[r].kind = "backup"
    BY <1>2 DEF StartBackup, At
  <2> QED
    BY <2>1 DEF StoreLabels, Fits, BackupSteps
<1>3. CASE Dump(r)
  <2>1. Moves(r, "dump", "archive")
    BY <1>3 DEF Dump, At
  <2> QED
    BY <2>1 DEF StoreLabels, Fits, BackupSteps
<1>4. CASE Archive(r)
  <2>1. Moves(r, "archive", "complete")
    BY <1>4 DEF Archive, At
  <2> QED
    BY <2>1 DEF StoreLabels, Fits, BackupSteps
<1>5. CASE ArchiveFails(r)
  <2>1. Moves(r, "dump", "fail") \/ Moves(r, "archive", "fail")
    BY <1>5 DEF ArchiveFails, At
  <2> QED
    BY <2>1 DEF StoreLabels, Fits, BackupSteps
<1>6. CASE Complete(r)
  <2>1. Moves(r, "complete", "end") \/ Moves(r, "complete", "fail")
    BY <1>6 DEF Complete, At
  <2> QED
    BY <2>1 DEF StoreLabels, Fits, BackupSteps
<1>7. CASE Failed(r)
  <2>1. Moves(r, "fail", "end")
    BY <1>7 DEF Failed, At
  <2> QED
    BY <2>1 DEF StoreLabels, Fits, BackupSteps
<1>8. CASE ScheduleBackup(r)
  <2>1. Moves(r, "start", "end")
    BY <1>8 DEF ScheduleBackup, At
  <2> QED
    BY <2>1 DEF StoreLabels, Fits, BackupSteps
<1>9. CASE LoadBackup(r)
  <2>1. \/ Moves(r, "start", "end")
        \/ Moves(r, "start", "unlink") /\ op[r].kind = "deleteBackup"
        \/ Moves(r, "start", "extract")
    BY <1>9, LoadBackupGoes
  <2> QED
    BY <2>1 DEF StoreLabels, Fits, BackupSteps
<1>10. CASE Extract(r)
  <2>1. Moves(r, "extract", "end") \/ Moves(r, "extract", "copy")
    BY <1>10 DEF Extract, At
  <2> QED
    BY <2>1 DEF StoreLabels, Fits, BackupSteps
<1>11. CASE CopyDatabase(r)
  <2>1. Moves(r, "copy", "end") \/ Moves(r, "copy", "clean")
    BY <1>11 DEF CopyDatabase, At
  <2> QED
    BY <2>1 DEF StoreLabels, Fits, BackupSteps
<1>12. CASE CleanUp(r)
  <2>1. Moves(r, "clean", "end")
    BY <1>12 DEF CleanUp, At
  <2> QED
    BY <2>1 DEF StoreLabels, Fits, BackupSteps
<1>13. CASE Unlink(r)
  <2>1. Moves(r, "unlink", "drop")
    BY <1>13 DEF Unlink, At
  <2> QED
    BY <2>1 DEF StoreLabels, Fits, BackupSteps
<1>14. CASE DropRow(r)
  <2>1. Moves(r, "drop", "end")
    BY <1>14 DEF DropRow, At
  <2> QED
    BY <2>1 DEF StoreLabels, Fits, BackupSteps
<1>15. CASE ClearArtifacts(r)
  <2>1. Moves(r, "start", "flush")
    BY <1>15 DEF ClearArtifacts, At
  <2> QED
    BY <2>1 DEF StoreLabels, Fits, BackupSteps
<1>16. CASE Flush(r, EmptyDb)
  BY <1>16 DEF Flush, Goto, StoreLabels, Fits, BackupSteps
<1> QED
  BY <1>2, <1>3, <1>4, <1>5, <1>6, <1>7, <1>8, <1>9, <1>10, <1>11, <1>12, <1>13, <1>14,
     <1>15, <1>16 DEF StoreStep

LEMMA StoreTypes ==
    ASSUME Types, NEW r \in Requests, StoreStep(r) \/ Flush(r, EmptyDb)
    PROVE  StoreType'
<1> USE DEF fileVars, siteVars
<1>0. /\ r \in Ids /\ op[r].id \in Ids /\ db \in Database /\ db.backup \in [Ids -> BackupRow]
      /\ row[r] \in BackupRow /\ dir[r] \in Dumps
  BY OpFacts, DbFacts DEF Types, StoreType
<1>1. CASE StartBackup(r)
  <2>1. PICK x \in BackupRow : x = [NoRow EXCEPT !.status = "running"]
    BY EmptyFacts, RowFacts
  <2>2. SetRow(r, x) /\ row' = [row EXCEPT ![r] = x]
    BY <1>1, <2>1 DEF StartBackup
  <2> QED
    BY <1>0, <1>1, <2>2, SetRowFacts DEF StartBackup, At, Types, StoreType
<1>2. CASE Dump(r)
  BY <1>0, <1>2 DEF Dump, Types, StoreType, Dumps
<1>3. CASE Archive(r) \/ ArchiveFails(r)
  <2>1. archive' \in Archives
    <3>1. CASE Archive(r)
      BY <1>0, <3>1, ArchiveFacts DEF Archive, Types, StoreType
    <3>2. CASE ArchiveFails(r)
      <4>1. CASE archive' = archive
        BY <4>1 DEF Types, StoreType
      <4>2. CASE \E s \in {"partial", "whole"} :
                    archive' = [archive EXCEPT ![r] = [state |-> s, dump |-> dir[r]]]
        <5>1. PICK s \in {"none", "partial", "whole"} :
                 archive' = [archive EXCEPT ![r] = [state |-> s, dump |-> dir[r]]]
          BY <4>2
        <5>2. PICK a \in Archives : a = archive
          BY DEF Types, StoreType
        <5>3. [a EXCEPT ![r] = [state |-> s, dump |-> dir[r]]] \in Archives
          BY <1>0, ArchiveFacts
        <5> QED
          BY <5>1, <5>2, <5>3
      <4> QED
        BY <3>2, <4>1, <4>2 DEF ArchiveFails
    <3> QED
      BY <1>3, <3>1, <3>2
  <2>2. dir' \in [Requests -> Dumps]
    BY <1>3 DEF Archive, ArchiveFails, Types, StoreType, Dumps
  <2> QED
    BY <1>3, <2>1, <2>2 DEF Archive, ArchiveFails, Types, StoreType
<1>4. CASE Complete(r)
  <2>1. CompletedRow(r) \in BackupRow
    BY RowFacts DEF CompletedRow
  <2> QED
    BY <1>0, <1>4, <2>1, SetRowFacts DEF Complete, Types, StoreType
<1>5. CASE Failed(r)
  <2>1. FailedRow(r) \in BackupRow
    BY <1>0, RowFacts DEF FailedRow
  <2> QED
    BY <1>0, <1>5, <2>1, SetRowFacts DEF Failed, Types, StoreType
<1>6. CASE ScheduleBackup(r)
  <2>1. PICK x \in BackupRow : x = [NoRow EXCEPT !.status = "pending"]
    BY EmptyFacts, RowFacts
  <2>2. SetRow(r, x)
    BY <1>6, <2>1 DEF ScheduleBackup
  <2> QED
    BY <1>0, <1>6, <2>2, SetRowFacts DEF ScheduleBackup, At, Types, StoreType
<1>7. CASE LoadBackup(r)
  <2>1. row' \in [Requests -> BackupRow]
    BY <1>0, <1>7 DEF LoadBackup, Types, StoreType
  <2>2. UNCHANGED <<db, dir, archive, unpacked, engine, configured, rewound, cut>>
    BY <1>7 DEF LoadBackup
  <2> QED
    BY <2>1, <2>2 DEF Types, StoreType
<1>8. CASE Extract(r)
  <2>1. unpacked' \in Archives
    <3>1. PICK a \in [state : {"none", "partial", "whole"}, dump : Dumps] : a = archive[op[r].id]
      BY <1>0 DEF Types, StoreType, Archives
    <3>2. [a EXCEPT !.state = "partial"] \in [state : {"none", "partial", "whole"}, dump : Dumps]
      OBVIOUS
    <3> QED
      BY <1>0, <1>8, <3>1, <3>2 DEF Extract, Types, StoreType, Archives
  <2> QED
    BY <1>8, <2>1 DEF Extract, Types, StoreType
<1>9. CASE CopyDatabase(r)
  <2>1. db' \in Database /\ rewound' \in BOOLEAN
    BY <1>0, <1>9 DEF CopyDatabase, Types, StoreType, Archives, Dumps
  <2> QED
    BY <1>9, <2>1 DEF CopyDatabase, Types, StoreType
<1>10. CASE CleanUp(r) \/ Unlink(r)
  <2>1. unpacked' \in Archives /\ archive' \in Archives
    BY <1>0, <1>10, ArchiveFacts DEF CleanUp, Unlink, Types, StoreType
  <2> QED
    BY <1>10, <2>1 DEF CleanUp, Unlink, Types, StoreType
<1>11. CASE DropRow(r)
  BY <1>0, <1>11, EmptyFacts, SetRowFacts DEF DropRow, Types, StoreType
<1>12. CASE ClearArtifacts(r) \/ Flush(r, EmptyDb)
  BY <1>12, EmptyFacts DEF ClearArtifacts, Flush, Goto, At, Types, StoreType
<1> QED
  BY <1>1, <1>2, <1>3, <1>4, <1>5, <1>6, <1>7, <1>8, <1>9, <1>10, <1>11, <1>12 DEF StoreStep

LEMMA DoneGoes ==
    ASSUME NEW r \in Requests, Done(r)
    PROVE  \E to \in {"stamp", "end"} : Goto(r, to)
BY DEF Done

LEMMA CategoryFacts ==
    /\ Watchers = {"evaluate", "metrics", "queue", "logins"}
    /\ \A k, m : Findings(k, m) \subseteq [cat : {CategoryOf(k, m)}, sev : Severity, value : Values]
    /\ \A k, m : m \in Metrics => CategoryOf(k, m) \in Categories
    /\ \A k \in Watchers : Reads[k] \subseteq Metrics
<1>1. Watchers = {"evaluate", "metrics", "queue", "logins"}
  BY DEF Watchers, Reads
<1>2. \A k, m : m \in Metrics => CategoryOf(k, m) \in Categories
  BY DEF CategoryOf, Category, Metrics, Categories
<1>3. \A k \in Watchers : Reads[k] \subseteq Metrics
  BY <1>1 DEF Reads, Metrics
<1> QED
  BY <1>1, <1>2, <1>3 DEF Findings

\* What a job finds due.
LEMMA CompareFinds ==
    ASSUME AlertType, db \in Database, NEW r \in Requests, Compare(r)
    PROVE  /\ want' \in [Requests -> Finding] /\ lcopy' \in [Requests -> LimitRow]
           /\ \A q \in Requests \ {r} : want'[q] = want[q]
           /\ op[r].kind \in Watchers
<1>1. ASSUME NEW i \in Watched(r), NEW f \in Findings(op[r].kind, db.limit[i].metric)
      PROVE  f \in Finding
  <2>1. db.limit[i].metric \in Metrics
    BY <1>1, CategoryFacts DEF Watched, Compare
  <2> QED
    BY <1>1, <2>1, CategoryFacts DEF Finding
<1>2. want' \in [Requests -> Finding] /\ \A q \in Requests \ {r} : want'[q] = want[q]
  BY <1>1 DEF Compare, AlertType
<1>3. lcopy' \in [Requests -> LimitRow]
  BY DEF Compare, AlertType, Database, Watched
<1> QED
  BY <1>2, <1>3 DEF Compare

LEMMA AlertMoves ==
    ASSUME NEW r \in Requests, AlertStep(r)
    PROVE  \E from \in AlertLabels \cup {"start"}, to \in AlertLabels \cup {"end"} :
              Moves(r, from, to) /\ Fits(r, from, to)
<1> USE DEF Moves
<1>1. CASE Compare(r)
  <2>1. Moves(r, "start", "stamp") \/ Moves(r, "start", "end")
        \/ (Moves(r, "start", "look") /\ op[r].kind \in Watchers)
    BY <1>1, DoneGoes DEF Compare
  <2> QED
    BY <2>1 DEF AlertLabels, Fits, BackupSteps
<1>2. CASE LookForAlert(r)
  <2>1. Moves(r, "look", "create") \/ Moves(r, "look", "stamp") \/ Moves(r, "look", "end")
    BY <1>2, DoneGoes DEF LookForAlert, At
  <2> QED
    BY <2>1 DEF AlertLabels, Fits, BackupSteps
<1>3. CASE CreateAlert(r)
  <2>1. Moves(r, "create", "stamp") \/ Moves(r, "create", "end")
    BY <1>3, DoneGoes DEF CreateAlert, At
  <2> QED
    BY <2>1 DEF AlertLabels, Fits, BackupSteps
<1>4. CASE Stamp(r)
  <2>1. Moves(r, "stamp", "end")
    BY <1>4 DEF Stamp, At
  <2> QED
    BY <2>1 DEF AlertLabels, Fits, BackupSteps
<1>5. CASE LoadAlert(r)
  <2>1. Moves(r, "start", "saveAlert") \/ Moves(r, "start", "end")
    BY <1>5 DEF LoadAlert, At
  <2> QED
    BY <2>1 DEF AlertLabels, Fits, BackupSteps
<1>6. CASE SaveAlert(r)
  <2>1. Moves(r, "saveAlert", "end")
    BY <1>6 DEF SaveAlert, At
  <2> QED
    BY <2>1 DEF AlertLabels, Fits, BackupSteps
<1>7. CASE ResolveAll(r)
  <2>1. Moves(r, "start", "end")
    BY <1>7 DEF ResolveAll, At
  <2> QED
    BY <2>1 DEF AlertLabels, Fits, BackupSteps
<1>8. CASE ReadAll(r)
  <2>1. Moves(r, "start", "end")
    BY <1>8 DEF ReadAll, At
  <2> QED
    BY <2>1 DEF AlertLabels, Fits, BackupSteps
<1>9. CASE Cleanup(r)
  <2>1. Moves(r, "start", "end")
    BY <1>9 DEF Cleanup, At
  <2> QED
    BY <2>1 DEF AlertLabels, Fits, BackupSteps
<1>10. CASE LoadLimit(r)
  <2>1. Moves(r, "start", "saveLimit") \/ Moves(r, "start", "end")
    BY <1>10 DEF LoadLimit, At
  <2> QED
    BY <2>1 DEF AlertLabels, Fits, BackupSteps
<1>11. CASE SaveLimit(r)
  <2>1. Moves(r, "saveLimit", "end")
    BY <1>11 DEF SaveLimit, At
  <2> QED
    BY <2>1 DEF AlertLabels, Fits, BackupSteps
<1>12. CASE AddLimit(r)
  <2>1. Moves(r, "start", "end")
    BY <1>12 DEF AddLimit, At
  <2> QED
    BY <2>1 DEF AlertLabels, Fits, BackupSteps
<1> QED
  BY <1>1, <1>2, <1>3, <1>4, <1>5, <1>6, <1>7, <1>8, <1>9, <1>10, <1>11, <1>12 DEF AlertStep

LEMMA AlertTypes ==
    ASSUME Types, NEW r \in Requests, PlaceOK(r), AlertStep(r)
    PROVE  /\ StoreType' /\ AlertType' /\ db'.backup = db.backup
           /\ UNCHANGED <<row, fileVars, siteVars>>
<1> USE DEF fileVars, siteVars, storeVars, alertVars, jobCopies, alertPast
<1>0. /\ r \in Ids /\ op[r].id \in Ids /\ op[r].kind \in OpKinds
      /\ db \in Database /\ db.alert \in [Ids -> AlertRow] /\ db.limit \in [Ids -> LimitRow]
      /\ want[r] \in Finding /\ acopy[r] \in AlertRow /\ lcopy[r] \in LimitRow
  BY OpFacts, DbFacts DEF Types, AlertType, StoreType
<1>1. CASE Compare(r)
  <2>1. want' \in [Requests -> Finding] /\ lcopy' \in [Requests -> LimitRow]
    BY <1>0, <1>1, CompareFinds DEF Types
  <2>2. pc[r] = "start" /\ \E to \in {"look", "stamp", "end"} : Goto(r, to)
    BY <1>1, DoneGoes DEF Compare
  <2> QED
    BY <1>1, <2>1, <2>2 DEF Compare, Types, AlertType, StoreType
<1>2. CASE LookForAlert(r)
  <2>1. pc[r] = "look" /\ \E to \in {"create", "stamp", "end"} : Goto(r, to)
    BY <1>2, DoneGoes DEF LookForAlert
  <2>2. overlapped' \in BOOLEAN
    BY <1>2 DEF LookForAlert, Types, AlertType
  <2> QED
    BY <1>2, <2>1, <2>2 DEF LookForAlert, Types, AlertType, StoreType
<1>3. CASE CreateAlert(r)
  <2>1. pc[r] = "create" /\ \E to \in {"stamp", "end"} : Goto(r, to)
    BY <1>3, DoneGoes DEF CreateAlert
  <2>2. PICK x \in AlertRow : SetAlert(r, x)
    BY <1>0, <1>3 DEF CreateAlert, AlertRow, Finding
  <2>3. db' \in Database /\ db'.backup = db.backup
    BY <1>0, <2>2, SetAlertFacts
  <2> QED
    BY <1>3, <2>1, <2>3 DEF CreateAlert, Types, AlertType, StoreType
<1>4. CASE Stamp(r)
  BY <1>0, <1>4, LimitFacts DEF Stamp, Types, AlertType, StoreType
<1>5. CASE LoadAlert(r)
  BY <1>0, <1>5 DEF LoadAlert, Types, AlertType, StoreType
<1>6. CASE SaveAlert(r)
  <2>1. PICK x \in AlertRow : SetAlert(op[r].id, x)
    <3>1. /\ [acopy[r] EXCEPT !.read = TRUE] \in AlertRow
          /\ [acopy[r] EXCEPT !.open = FALSE] \in AlertRow
      BY <1>0 DEF AlertRow
    <3> QED
      BY <1>6, <3>1 DEF SaveAlert
  <2>2. resolved' \subseteq Ids /\ stale' \subseteq {"alert", "limit"}
    BY <1>0, <1>6 DEF SaveAlert, Types, AlertType
  <2> QED
    BY <1>0, <1>6, <2>1, <2>2, SetAlertFacts DEF SaveAlert, Types, AlertType, StoreType
<1>7. CASE ResolveAll(r) \/ ReadAll(r) \/ Cleanup(r)
  <2>1. PICK rows \in [Ids -> AlertRow] : db' = [db EXCEPT !.alert = rows]
    <3>1. \A i \in Ids, b \in BOOLEAN :
             /\ [db.alert[i] EXCEPT !.open = b] \in AlertRow
             /\ [db.alert[i] EXCEPT !.read = b] \in AlertRow
             /\ db.alert[i].there \in BOOLEAN
      BY <1>0 DEF AlertRow
    <3>2. CASE ResolveAll(r)
      <4>1. [i \in Ids |-> [db.alert[i] EXCEPT !.open = FALSE]] \in [Ids -> AlertRow]
        BY <3>1
      <4> QED
        BY <3>2, <4>1 DEF ResolveAll
    <3>3. CASE ReadAll(r)
      <4>1. [i \in Ids |-> [db.alert[i] EXCEPT !.read = db.alert[i].there]] \in [Ids -> AlertRow]
        BY <3>1
      <4> QED
        BY <3>3, <4>1 DEF ReadAll
    <3>4. CASE Cleanup(r)
      <4>1. \A old : [i \in Ids |-> IF i \in old THEN NoAlert ELSE db.alert[i]] \in [Ids -> AlertRow]
        BY <1>0, EmptyFacts
      <4> QED
        BY <3>4, <4>1 DEF Cleanup
    <3> QED
      BY <1>7, <3>2, <3>3, <3>4
  <2>2. db' \in Database /\ db'.backup = db.backup
    BY <1>0, <2>1, AlertsFacts
  <2>3. resolved' \subseteq Ids
    BY <1>7 DEF ResolveAll, ReadAll, Cleanup, OpenOnes, Existing, Types, AlertType
  <2> QED
    BY <1>7, <2>2, <2>3 DEF ResolveAll, ReadAll, Cleanup, At, Types, AlertType, StoreType
<1>8. CASE LoadLimit(r)
  BY <1>0, <1>8 DEF LoadLimit, Types, AlertType, StoreType
<1>9. ASSUME NEW i \in Ids, NEW v \in LimitRow, SetLimit(i, v)
      PROVE  db' \in Database /\ db'.backup = db.backup
  BY <1>0, <1>9, LimitFacts
<1>10. \A m \in Settings : [there |-> TRUE, metric |-> m] \in LimitRow
  BY DEF LimitRow
<1>11. CASE SaveLimit(r)
  <2>1. PICK v \in LimitRow : SetLimit(op[r].id, v) /\ asked' = [asked EXCEPT ![op[r].id] = v]
    <3>1. [there : {TRUE}, metric : Settings] \subseteq LimitRow
      BY DEF LimitRow
    <3> QED
      BY <1>11, <3>1, EmptyFacts DEF SaveLimit
  <2>2. db' \in Database /\ db'.backup = db.backup
    BY <1>0, <1>9, <2>1
  <2>3. asked' \in [Ids -> LimitRow]
    BY <1>0, <2>1 DEF Types, AlertType
  <2> QED
    BY <1>11, <2>2, <2>3 DEF SaveLimit, Types, AlertType, StoreType
<1>12. CASE AddLimit(r)
  <2>1. db' \in Database /\ db'.backup = db.backup /\ asked' \in [Ids -> LimitRow]
    BY <1>0, <1>9, <1>10, <1>12 DEF AddLimit, Types, AlertType
  <2> QED
    BY <1>12, <2>1 DEF AddLimit, Types, AlertType, StoreType
<1> QED
  BY <1>1, <1>2, <1>3, <1>4, <1>5, <1>6, <1>7, <1>8, <1>11, <1>12 DEF AlertStep

LEMMA StackGoes ==
    ASSUME NEW r \in Requests,
           StartHeal(r) \/ WriteFails(r) \/ HealPostfix(r)
    PROVE  /\ StartHeal(r) => \E to \in {"ca", "files", "routing"} : Moves(r, "start", to)
           /\ WriteFails(r) => \E to \in {"end", "ensure", "again"} : Goto(r, to)
           /\ HealPostfix(r) => \E to \in {"probe", "outbound", "quota", "quotaBad", "end"} : Goto(r, to)
<1>1. StartHeal(r) => \E to \in {"ca", "files", "routing"} : Moves(r, "start", to)
  BY DEF StartHeal, Moves
<1>2. WriteFails(r) => \E to \in {"end", "ensure", "again"} : Goto(r, to)
  BY DEF WriteFails
<1>3. HealPostfix(r) => \E to \in {"probe", "outbound", "quota", "quotaBad", "end"} : Goto(r, to)
  BY DEF HealPostfix
<1> QED
  BY <1>1, <1>2, <1>3

\* A file that is cut off is empty; a volume that is not torn by it is as it was, and
\* nobody was at it.
LEMMA CutOffTypes ==
    ASSUME StackTypeOK, NEW jobs, CutOff(jobs)
    PROVE  vol' \in [{"ca", "cert"} -> Ids \union {Nobody}] /\ torn' \in BOOLEAN
BY DEF CutOff, StackTypeOK

LEMMA CutOffKeeps ==
    ASSUME StackTypeOK, NEW jobs, CutOff(jobs), ~torn'
    PROVE  vol' = vol /\ ~torn /\ \A q \in jobs : ~InFlight(q)
<1>1. PICK emptied \in SUBSET UNION {Writing(q) : q \in jobs} :
         /\ vol' = [f \in {"ca", "cert"} |-> IF f \in emptied THEN Nobody ELSE vol[f]]
         /\ torn' = (torn \/ emptied # {} \/ \E q \in jobs : InFlight(q))
  BY DEF CutOff
<1>2. emptied = {}
  BY <1>1
<1> QED
  BY <1>1, <1>2 DEF StackTypeOK

\* A step of the stack: its own job goes on, or all that the workers run, or
\* everything, has died.
LEMMA StackTypes ==
    ASSUME Types, NEW r \in Requests, StackStep(r)
    PROVE  /\ StackTypeOK' /\ op' = op /\ faults' = faults
           /\ \/ \E from \in StackLabels \cup {"start"}, to \in StackLabels \cup {"end"} :
                    Moves(r, from, to)
              \/ \E to \in {"end", "restartDaemons"} : pc[r] = "start" /\ EndTasks(r, to)
              \/ TearDown(r)
<1> USE DEF Moves, stackVars
<1>0. /\ r \in Ids
      /\ vol \in [{"ca", "cert"} -> Ids \union {Nobody}] /\ mem \in [Daemons -> Ids \union {Nobody}]
      /\ up \in [Daemons -> {"up", "down", "stopped", "gone"}]
      /\ maps \in BOOLEAN /\ torn \in BOOLEAN /\ unloaded \subseteq Daemons
  BY OpFacts DEF Types, StackTypeOK
<1>r. ASSUME NEW ds \in SUBSET Daemons, ReadBy(ds)
      PROVE  mem' \in [Daemons -> Ids \union {Nobody}] /\ unloaded' \subseteq Daemons
  BY <1>0, <1>r DEF ReadBy
<1>d. {"postfix"} \subseteq Daemons /\ {"dovecot"} \subseteq Daemons
      /\ \A d \in Daemons : {d} \subseteq Daemons
  BY DEF Daemons
<1>c. ASSUME NEW jobs, CutOff(jobs)
      PROVE  vol' \in [{"ca", "cert"} -> Ids \union {Nobody}] /\ torn' \in BOOLEAN
  BY <1>c, CutOffTypes DEF Types
<1>1. CASE StartHeal(r) \/ LookAtFiles(r) \/ Probe(r) \/ ReadMaps(r) \/ ActionRefused(r) \/ RepairRefused(r)
  <2>1. UNCHANGED stackVars /\ op' = op /\ faults' = faults
    BY <1>1 DEF StartHeal, LookAtFiles, Probe, ReadMaps, ActionRefused, RepairRefused, Goto
  <2>2. \E from \in StackLabels \cup {"start"}, to \in StackLabels \cup {"end"} : Moves(r, from, to)
    <3>1. CASE StartHeal(r)
      BY <3>1, StackGoes DEF StackLabels
    <3> QED
      BY <1>1, <3>1 DEF LookAtFiles, Probe, ReadMaps, ActionRefused, RepairRefused, StackLabels, At
  <2> QED
    BY <1>0, <2>1, <2>2 DEF StackTypeOK
<1>2. CASE WriteCa(r)
  BY <1>0, <1>2 DEF WriteCa, StackTypeOK, StackLabels, Goto
<1>3. CASE WriteCert(r)
  <2>1. pc[r] \in {"cert", "certOnly"} /\ \E to \in {"postfix", "ensure"} : Goto(r, to)
    BY <1>3 DEF WriteCert, ReloadOrder
  <2> QED
    BY <1>0, <1>3, <2>1 DEF WriteCert, StackTypeOK, StackLabels, Goto
<1>4. CASE WriteFails(r)
  <2>1. pc[r] \in {"ca", "caOnly", "cert", "certOnly"} /\ \E to \in {"end", "ensure", "again"} : Goto(r, to)
    BY <1>4, StackGoes DEF WriteFails
  <2> QED
    BY <1>0, <1>4, <1>c, <2>1 DEF WriteFails, StackTypeOK, StackLabels, Goto
<1>5. CASE Reload(r)
  <2>1. pc[r] \in Daemons /\ \E to \in {"dovecot", "end", "again"} : Goto(r, to)
    BY <1>5 DEF Reload, ReloadOrder, Daemons
  <2>2. mem' \in [Daemons -> Ids \union {Nobody}] /\ unloaded' \subseteq Daemons
    BY <1>0, <1>5, <1>r, <1>d DEF Reload
  <2> QED
    BY <1>0, <1>5, <2>1, <2>2 DEF Reload, StackTypeOK, StackLabels, Goto, Daemons
<1>6. CASE HealPostfix(r)
  <2>1. /\ pc[r] \in {"ensure", "ensureAgain", "mapsBad", "last", "start"}
        /\ \E to \in {"probe", "outbound", "quota", "quotaBad", "end"} : Goto(r, to)
    BY <1>6, StackGoes DEF HealPostfix, At
  <2>2. /\ mem' \in [Daemons -> Ids \union {Nobody}] /\ unloaded' \subseteq Daemons
        /\ up' \in [Daemons -> {"up", "down", "stopped", "gone"}] /\ maps' \in BOOLEAN
    BY <1>0, <1>6, <1>r, <1>d DEF HealPostfix
  <2> QED
    BY <1>0, <1>6, <2>1, <2>2 DEF HealPostfix, StackTypeOK, StackLabels, Goto
<1>7. CASE FixRouting(r) \/ EnsureOutbound(r) \/ HealDovecot(r)
  <2>1. /\ pc[r] \in {"routing", "outbound", "quota", "quotaBad", "start"}
        /\ \E to \in {"probe", "maps", "last", "end"} : Goto(r, to)
    BY <1>7 DEF FixRouting, EnsureOutbound, HealDovecot, At
  <2>2. mem' \in [Daemons -> Ids \union {Nobody}] /\ unloaded' \subseteq Daemons /\ maps' \in BOOLEAN
    BY <1>0, <1>7, <1>r, <1>d DEF FixRouting, EnsureOutbound, HealDovecot, RewriteMaps
  <2> QED
    BY <1>0, <1>7, <2>1, <2>2
       DEF FixRouting, EnsureOutbound, HealDovecot, StackTypeOK, StackLabels, Goto
<1>8. CASE RestartDaemons(r)
  <2>1. /\ mem' \in [Daemons -> Ids \union {Nobody}] /\ unloaded' \subseteq Daemons
        /\ up' \in [Daemons -> {"up", "down", "stopped", "gone"}]
    BY <1>0, <1>8, <1>r DEF RestartDaemons
  <2> QED
    BY <1>0, <1>8, <2>1 DEF RestartDaemons, StackTypeOK, StackLabels, Goto
<1>9. ASSUME NEW to \in {"end", "restartDaemons"}, EndTasks(r, to)
      PROVE  StackTypeOK' /\ op' = op /\ faults' = faults
  BY <1>0, <1>9, <1>c DEF EndTasks, StackTypeOK
<1>10. CASE RestartWorkers(r)
  BY <1>9, <1>10 DEF RestartWorkers, At
<1>11. CASE TearDown(r)
  BY <1>0, <1>11, <1>c DEF TearDown, StackTypeOK
<1>12. CASE ContainerAction(r)
  <2>1. CASE EndTasks(r, "end")
    BY <1>9, <1>12, <2>1 DEF ContainerAction, At
  <2>2. CASE /\ \E d \in Daemons : StartOne(d) \/ StopOne(d)
             /\ Goto(r, "end")
             /\ UNCHANGED <<vol, maps, torn>>
    <3>1. PICK d \in Daemons : StartOne(d) \/ StopOne(d)
      BY <2>2
    <3>2. /\ mem' \in [Daemons -> Ids \union {Nobody}] /\ unloaded' \subseteq Daemons
          /\ up' \in [Daemons -> {"up", "down", "stopped", "gone"}]
      BY <1>0, <1>r, <1>d, <3>1 DEF StartOne, StopOne
    <3> QED
      BY <1>0, <1>12, <2>2, <3>2 DEF ContainerAction, At, Goto, StackTypeOK, StackLabels
  <2> QED
    BY <1>12, <2>1, <2>2 DEF ContainerAction
<1> QED
  BY <1>1, <1>2, <1>3, <1>4, <1>5, <1>6, <1>7, <1>8, <1>10, <1>11, <1>12 DEF StackStep

-----------------------------------------------------------------------------
(***************************************************************************)
(* What any step does to the jobs.                                          *)
(***************************************************************************)
StoreTurn(r) == (StoreStep(r) \/ Flush(r, EmptyDb)) /\ UNCHANGED <<alertVars, stackVars>>
AlertTurn(r) == AlertStep(r) /\ UNCHANGED stackVars
StackTurn(r) == StackStep(r) /\ UNCHANGED <<storeVars, alertVars>>
Containers   == (ContainerStops \/ ContainerStarts) /\ UNCHANGED <<storeVars, alertVars>>
Turn(r)      == StoreTurn(r) \/ AlertTurn(r) \/ StackTurn(r) \/ JobDies(r)

Turns(r) == pc[r] \notin {"end", "dead"} /\ Turn(r)

LEMMA NextTurn == Next => Containers \/ \E r \in Requests : Turns(r)
BY DEF Next, Turn, Turns, StoreTurn, AlertTurn, StackTurn, Containers

\* One job takes a step of one of the three kinds, or jobs die.
Walk(r) ==
    /\ op' = op
    /\ \A q \in Requests \ {r} : pc'[q] = pc[q] \/ (pc'[q] = "dead" /\ ~AtRest(q))
    /\ \/ pc'[r] = "dead" /\ ~AtRest(r)
       \/ /\ Fits(r, pc[r], pc'[r])
          /\ pc'[r] # "start"
          /\ \/ pc[r] \in StoreLabels \cup {"start"} /\ pc'[r] \in StoreLabels \cup {"end", "teardown"}
             \/ pc[r] \in AlertLabels \cup {"start"} /\ pc'[r] \in AlertLabels \cup {"end"}
             \/ pc[r] \in StackLabels \cup {"start"} /\ pc'[r] \in StackLabels \cup {"end"}

LEMMA LabelFacts ==
    /\ StoreLabels \subseteq Labels /\ AlertLabels \subseteq Labels /\ StackLabels \subseteq Labels
    /\ {"start", "end", "dead", "teardown"} \subseteq Labels
    /\ "start" \notin StoreLabels \cup AlertLabels \cup StackLabels
BY DEF StoreLabels, AlertLabels, StackLabels, Labels

LEMMA TurnWalks ==
    ASSUME Types, NEW r \in Requests, Turn(r)
    PROVE  JobType' /\ Walk(r)
<1>0. JobType /\ pc \in [Requests -> Labels] /\ op \in [Requests -> Asked]
  BY DEF Types, JobType
<1>1. ASSUME NEW from \in Labels, NEW to \in Labels, Moves(r, from, to), Fits(r, from, to), to # "start",
             \/ from \in StoreLabels \cup {"start"} /\ to \in StoreLabels \cup {"end", "teardown"}
             \/ from \in AlertLabels \cup {"start"} /\ to \in AlertLabels \cup {"end"}
             \/ from \in StackLabels \cup {"start"} /\ to \in StackLabels \cup {"end"}
      PROVE  JobType' /\ Walk(r)
  BY <1>0, <1>1, MovesFacts DEF Walk
<1>2. CASE StoreTurn(r)
  <2>1. PICK from \in StoreLabels \cup {"start"}, to \in StoreLabels \cup {"end", "teardown"} :
           Moves(r, from, to) /\ Fits(r, from, to)
    BY <1>2, StoreMoves DEF StoreTurn
  <2> QED
    BY <1>1, <2>1, LabelFacts
<1>3. CASE AlertTurn(r)
  <2>1. PICK from \in AlertLabels \cup {"start"}, to \in AlertLabels \cup {"end"} :
           Moves(r, from, to) /\ Fits(r, from, to)
    BY <1>3, AlertMoves DEF AlertTurn
  <2> QED
    BY <1>1, <2>1, LabelFacts
<1>4. CASE StackTurn(r)
  <2>1. CASE \E from \in StackLabels \cup {"start"}, to \in StackLabels \cup {"end"} : Moves(r, from, to)
    <3>1. PICK from \in StackLabels \cup {"start"}, to \in StackLabels \cup {"end"} : Moves(r, from, to)
      BY <2>1
    <3>2. Fits(r, from, to)
      BY DEF Fits, StackLabels, BackupSteps
    <3> QED
      BY <1>1, <3>1, <3>2, LabelFacts
  <2>2. CASE \E to \in {"end", "restartDaemons"} : pc[r] = "start" /\ EndTasks(r, to)
    <3>1. PICK to \in {"end", "restartDaemons"} : pc[r] = "start" /\ EndTasks(r, to)
      BY <2>2
    <3>2. /\ pc'[r] = to /\ op' = op /\ faults' = faults
          /\ \A q \in Requests \ {r} : pc'[q] = pc[q] \/ (pc'[q] = "dead" /\ ~AtRest(q))
          /\ pc' \in [Requests -> Labels]
      BY <1>0, <3>1, LabelFacts DEF EndTasks, Others, Labels
    <3>3. Fits(r, pc[r], pc'[r])
      BY <3>1, <3>2 DEF Fits, BackupSteps
    <3> QED
      BY <1>0, <3>1, <3>2, <3>3 DEF Walk, StackLabels, JobType
  <2>3. CASE TearDown(r)
    BY <1>0, <2>3, LabelFacts DEF TearDown, Walk, JobType, AtRest
  <2> QED
    BY <1>4, <2>1, <2>2, <2>3, StackTypes DEF StackTurn
<1>5. CASE JobDies(r)
  BY <1>0, <1>5, LabelFacts, JobsAssumption DEF JobDies, Die, Walk, JobType
<1> QED
  BY <1>2, <1>3, <1>4, <1>5 DEF Turn

LEMMA TurnTypes ==
    ASSUME Types, NEW r \in Requests, PlaceOK(r), Turn(r)
    PROVE  Types'
<1> USE DEF storeVars, fileVars, siteVars, alertVars, stackVars
<1>1. JobType'
  BY TurnWalks
<1>2. CASE StoreTurn(r)
  BY <1>1, <1>2, StoreTypes DEF StoreTurn, Types, AlertType, StackTypeOK
<1>3. CASE AlertTurn(r)
  BY <1>1, <1>3, AlertTypes DEF AlertTurn, Types, StackTypeOK
<1>4. CASE StackTurn(r)
  BY <1>1, <1>4, StackTypes DEF StackTurn, Types, StoreType, AlertType
<1>5. CASE JobDies(r)
  BY <1>1, <1>5, CutOffTypes DEF JobDies, Types, StoreType, AlertType, StackTypeOK
<1> QED
  BY <1>2, <1>3, <1>4, <1>5 DEF Turn

\* Containers that stop and start move no job.
LEMMA ContainersStep ==
    ASSUME Types, Containers
    PROVE  /\ Types' /\ op' = op /\ pc' = pc
           /\ UNCHANGED <<storeVars, alertVars, vol, maps, torn>>
           /\ unloaded' \subseteq unloaded
           /\ \A d \in Daemons : \/ up'[d] # "up"
                                 \/ up[d] = "up" /\ mem'[d] = mem[d] /\ (d \in unloaded => d \in unloaded')
                                 \/ mem'[d] = vol["cert"]
<1>1. CASE ContainerStops
  BY <1>1, JobsAssumption
     DEF Containers, ContainerStops, Types, JobType, StoreType, AlertType, StackTypeOK, storeVars,
         alertVars
<1>2. CASE ContainerStarts
  BY <1>2 DEF Containers, ContainerStarts, ReadBy, Types, JobType, StoreType, AlertType, StackTypeOK,
              storeVars, alertVars, jobVars
<1> QED
  BY <1>1, <1>2 DEF Containers

LEMMA PlaceStep ==
    ASSUME Types, NEW r \in Requests, Turn(r), \A q \in Requests : PlaceOK(q),
           rewound => rewound'
    PROVE  \A q \in Requests : PlaceOK(q)'
<1>1. Walk(r)
  BY TurnWalks
<1>2. \A q \in Requests \ {r} : PlaceOK(q)'
  BY <1>1 DEF Walk, PlaceOK, BackupSteps
<1>3. PlaceOK(r)'
  BY <1>1 DEF Walk, PlaceOK, Fits, BackupSteps, StoreLabels, AlertLabels, StackLabels
<1> QED
  BY <1>2, <1>3

-----------------------------------------------------------------------------
(***************************************************************************)
(* Backups: what the operations on alerts and on the stack leave alone.     *)
(***************************************************************************)
LEMMA RewoundStays ==
    ASSUME NEW r \in Requests, Turn(r)
    PROVE  rewound => rewound'
<1> USE DEF siteVars, storeVars
<1>1. CASE StoreTurn(r)
  BY <1>1 DEF StoreTurn, StoreStep, StartBackup, Dump, Archive, ArchiveFails, Complete, Failed,
              ScheduleBackup, LoadBackup, Extract, CopyDatabase, CleanUp, Unlink, DropRow,
              ClearArtifacts, Flush
<1>2. CASE AlertTurn(r)
  BY <1>2 DEF AlertTurn, AlertStep, Compare, LookForAlert, CreateAlert, Stamp, LoadAlert, SaveAlert,
              ResolveAll, ReadAll, Cleanup, AddLimit, LoadLimit, SaveLimit
<1> QED
  BY <1>1, <1>2 DEF Turn, StackTurn, JobDies

\* A job stays at its step, or moves between steps that no backup takes, or it
\* dies and that is remembered.
BackupLabels == BackupSteps \cup {"unlink", "drop"}
Passes(q) ==
    \/ pc'[q] = pc[q]
    \/ pc[q] \notin BackupLabels \cup {"end"} /\ pc'[q] \notin BackupLabels \cup {"start"}
    \/ pc[q] # "end" /\ pc'[q] = "dead" /\ (q \in cut' \/ rewound)

RowsStay == /\ op' = op /\ db'.backup = db.backup
            /\ row' = row /\ archive' = archive /\ cut \subseteq cut'
            /\ \A q \in Requests : Passes(q)

LEMMA OthersKeepRows ==
    ASSUME Types, NEW r \in Requests, \A q \in Requests : PlaceOK(q),
           pc[r] \notin {"end", "dead"}, AlertTurn(r) \/ StackTurn(r) \/ JobDies(r)
    PROVE  RowsStay /\ UNCHANGED <<dir, unpacked, rewound>>
<1> USE DEF fileVars, siteVars, storeVars
<1>0. Walk(r)
  BY TurnWalks DEF Turn
<1>1. CASE AlertTurn(r)
  <2>1. /\ db'.backup = db.backup /\ UNCHANGED <<row, dir, archive, unpacked, rewound, cut>>
    BY <1>1, AlertTypes DEF AlertTurn
  <2>2. PICK from \in AlertLabels \cup {"start"}, to \in AlertLabels \cup {"end"} : Moves(r, from, to)
    BY <1>1, AlertMoves DEF AlertTurn
  <2>3. \A q \in Requests : Passes(q)
    BY <2>2, MovesFacts, LabelFacts DEF Passes, AlertLabels, BackupLabels, BackupSteps, Types
  <2> QED
    BY <1>0, <2>1, <2>3 DEF RowsStay, Walk
<1>2. CASE StackTurn(r)
  <2>1. UNCHANGED <<db, row, dir, archive, unpacked, rewound, cut>>
    BY <1>2 DEF StackTurn
  <2>2. \A q \in Requests : Passes(q)
    <3>1. CASE \E from \in StackLabels \cup {"start"}, to \in StackLabels \cup {"end"} : Moves(r, from, to)
      <4>1. PICK from \in StackLabels \cup {"start"}, to \in StackLabels \cup {"end"} : Moves(r, from, to)
        BY <3>1
      <4> QED
        BY <4>1, MovesFacts, LabelFacts DEF Passes, StackLabels, BackupLabels, BackupSteps, Types
    <3>2. CASE \E to \in {"end", "restartDaemons"} : pc[r] = "start" /\ EndTasks(r, to)
      BY <3>2 DEF EndTasks, Tasks, Others, AtRest, Passes, PlaceOK, BackupLabels, BackupSteps
    <3>3. CASE TearDown(r)
      BY <3>3 DEF TearDown, AtRest, Passes, PlaceOK
    <3> QED
      BY <1>2, <3>1, <3>2, <3>3, StackTypes DEF StackTurn
  <2> QED
    BY <1>0, <2>1, <2>2 DEF RowsStay, Walk
<1>3. CASE JobDies(r)
  BY <1>0, <1>3 DEF JobDies, Die, RowsStay, Walk, Passes, AtRest, Types, JobType
<1> QED
  BY <1>1, <1>2, <1>3

LEMMA RowsStayFiles ==
    ASSUME Types, RowsStay, ~rewound, FilesOK
    PROVE  FilesOK'
<1>1. \A q \in Requests : pc[q] = "end" => pc'[q] = "end"
  BY DEF RowsStay, Passes
<1>2. \A q \in Requests : pc'[q] \in BackupLabels \cup {"start"} => pc'[q] = pc[q]
  BY DEF RowsStay, Passes, BackupLabels, BackupSteps
<1>3. \A q \in Requests : pc[q] \in BackupLabels => pc'[q] = pc[q] \/ q \in cut'
  BY DEF RowsStay, Passes
<1>4. \A q \in Requests : BackupOK(q)'
  <2> SUFFICES ASSUME NEW q \in Requests
               PROVE  BackupOK(q)'
    OBVIOUS
  <2>1. op[q].id \in Ids
    BY OpFacts DEF Types
  <2>2. BackupOK(q)
    BY DEF FilesOK
  <2> QED
    BY <1>1, <1>2, <2>1, <2>2 DEF RowsStay, BackupOK, Early, BackupLabels, BackupSteps, Ids
<1>5. \A i \in Ids : Completed(i)' => (archive[i].state = "whole")' \/ Deleting(i)'
  BY <1>3 DEF RowsStay, FilesOK, Completed, Deleting, BackupLabels
<1>6. \A i \in Ids : (db'.backup[i].status = "running" /\ i # First) => Making(i)' \/ i \in cut'
  BY <1>3 DEF RowsStay, FilesOK, Making, BackupLabels, BackupSteps, Ids
<1>7. \A q \in Requests : db'.backup[q].file => pc'[q] = "end"
  BY <1>1 DEF RowsStay, FilesOK
<1> QED
  BY <1>4, <1>5, <1>6, <1>7 DEF FilesOK

LEMMA RowsStayDumps ==
    ASSUME Types, RowsStay, UNCHANGED <<dir, unpacked>>, DumpOK
    PROVE  DumpOK'
<1>1. \A q \in Requests : pc'[q] \in Early => pc[q] \in Early
  BY DEF RowsStay, Passes, Early, BackupLabels, BackupSteps
<1> QED
  BY <1>1 DEF RowsStay, DumpOK, Before

-----------------------------------------------------------------------------
(***************************************************************************)
(* Backups: what their own operations do to dumps.                          *)
(***************************************************************************)

\* Where databases and dumps come from: a job sets a row, empties the database or
\* puts an unpacked one in its place; it dumps before its backup is made, archives
\* its dump and unpacks an archive.
RowsFrom == \/ db' = db
            \/ \E i \in Ids, v \in BackupRow :
                  /\ SetRow(i, v)
                  /\ v.status = "completed" => pc'[i] = "end"
            \/ db' = EmptyDb
            \/ \E i \in Ids : unpacked[i].dump # NoDump /\ db' = unpacked[i].dump
DirFrom(q) == dir'[q] \in {dir[q], NoDump} \/ (dir'[q] = db /\ pc[q] \in Early)
ArchiveFrom(i) == archive'[i].dump \in {archive[i].dump, NoDump} 
                  \/ (i \in Requests /\ archive'[i].dump = dir[i])
UnpackedFrom(i) == unpacked'[i].dump \in {unpacked[i].dump, archive[i].dump, NoDump}
Flows == /\ \A q \in Requests : pc'[q] \in Early => pc[q] \in Early
         /\ RowsFrom
         /\ \A q \in Requests : DirFrom(q)
         /\ \A i \in Ids : ArchiveFrom(i) /\ UnpackedFrom(i)

LEMMA FlowsKeepDumps ==
    ASSUME Types, DumpOK, Flows
    PROVE  DumpOK'
<1>0. db \in Database /\ db.backup \in [Ids -> BackupRow] /\ Requests \subseteq Ids
  BY DbFacts DEF Types, StoreType, Ids
<1>1. ASSUME NEW d, Before(d)
      PROVE  d # NoDump => \A q \in Requests : pc'[q] \in Early => d.backup[q].status # "completed"
  BY <1>1 DEF Flows, Before
<1>2. Before(db)
  BY DEF DumpOK, Before
<1>3. \A q \in Requests : pc'[q] \in Early => db'.backup[q].status # "completed"
  <2>1. CASE db' = db
    BY <2>1 DEF DumpOK, Flows
  <2>2. CASE \E i \in Ids, v \in BackupRow : SetRow(i, v) /\ (v.status = "completed" => pc'[i] = "end")
    <3>1. PICK i \in Ids, v \in BackupRow : SetRow(i, v) /\ (v.status = "completed" => pc'[i] = "end")
      BY <2>2
    <3>2. db'.backup = [db.backup EXCEPT ![i] = v]
      BY <1>0, <3>1, SetRowFacts
    <3> QED
      BY <1>0, <3>1, <3>2 DEF DumpOK, Flows, Early
  <2>3. CASE db' = EmptyDb
    BY <1>0, <2>3, EmptyFacts
  <2>4. CASE \E i \in Ids : unpacked[i].dump # NoDump /\ db' = unpacked[i].dump
    BY <1>1, <2>4 DEF DumpOK
  <2> QED
    BY <2>1, <2>2, <2>3, <2>4 DEF Flows, RowsFrom
<1>4. \A q \in Requests : Before(dir[q]) /\ (dir[q] # NoDump => dir[q].backup[q].status # "completed")
  BY DEF DumpOK
<1>5. \A q \in Requests : Before(dir[q])' /\ (dir'[q] # NoDump => dir'[q].backup[q].status # "completed")
  <2> SUFFICES ASSUME NEW q \in Requests
               PROVE  Before(dir[q])' /\ (dir'[q] # NoDump => dir'[q].backup[q].status # "completed")
    OBVIOUS
  <2>1. CASE dir'[q] = dir[q]
    BY <1>1, <1>4, <2>1 DEF Before
  <2>2. CASE dir'[q] = NoDump
    BY <2>2 DEF Before
  <2>3. CASE dir'[q] = db /\ pc[q] \in Early
    BY <1>1, <1>2, <2>3 DEF Before, DumpOK
  <2> QED
    BY <2>1, <2>2, <2>3 DEF Flows, DirFrom
<1>6. \A i \in Ids : /\ Before(archive[i].dump)'
                     /\ (archive'[i].dump # NoDump => archive'[i].dump.backup[i].status # "completed")
  <2> SUFFICES ASSUME NEW i \in Ids
               PROVE  /\ Before(archive[i].dump)'
                      /\ (archive'[i].dump # NoDump => archive'[i].dump.backup[i].status # "completed")
    OBVIOUS
  <2>1. CASE archive'[i].dump = archive[i].dump
    BY <1>1, <2>1 DEF Before, DumpOK
  <2>2. CASE archive'[i].dump = NoDump
    BY <2>2 DEF Before
  <2>3. CASE i \in Requests /\ archive'[i].dump = dir[i]
    BY <1>1, <1>4, <2>3 DEF Before
  <2> QED
    BY <2>1, <2>2, <2>3 DEF Flows, ArchiveFrom
<1>7. \A i \in Ids : Before(unpacked[i].dump)'
  <2> SUFFICES ASSUME NEW i \in Ids
               PROVE  Before(unpacked[i].dump)'
    OBVIOUS
  <2>1. Before(unpacked[i].dump) /\ Before(archive[i].dump)
    BY DEF DumpOK
  <2> QED
    BY <1>1, <2>1 DEF Before, Flows, UnpackedFrom
<1> QED
  BY <1>3, <1>5, <1>6, <1>7 DEF DumpOK

LEMMA StoreFlows ==
    ASSUME Types, NEW r \in Requests, StoreStep(r) \/ Flush(r, EmptyDb)
    PROVE  Flows
<1> USE DEF fileVars, siteVars
<1>0. /\ r \in Ids /\ op[r].id \in Ids /\ row[r] \in BackupRow /\ pc \in [Requests -> Labels]
      /\ dir \in [Requests -> Dumps] /\ archive \in Archives /\ unpacked \in Archives
      /\ Requests \subseteq Ids /\ First \notin Requests
  BY OpFacts, JobsAssumption DEF Types, JobType, StoreType, Ids
<1>1. ASSUME NEW to \in Labels, Goto(r, to), to \in Early => pc[r] \in Early
      PROVE  \A q \in Requests : pc'[q] \in Early => pc[q] \in Early
  BY <1>0, <1>1 DEF Goto
<1>2. ASSUME UNCHANGED <<dir, archive, unpacked>>
      PROVE  /\ \A q \in Requests : DirFrom(q)
             /\ \A i \in Ids : ArchiveFrom(i) /\ UnpackedFrom(i)
  BY <1>2 DEF DirFrom, ArchiveFrom, UnpackedFrom
<1>3. CASE StartBackup(r)
  <2>0. PICK x \in BackupRow : x = [NoRow EXCEPT !.status = "running"]
    BY EmptyFacts, RowFacts
  <2>1. x.status = "running"
    BY <2>0, EmptyFacts, RowFacts
  <2>2. RowsFrom
    BY <1>0, <1>3, <2>0, <2>1 DEF StartBackup, RowsFrom
  <2>3. \A q \in Requests : pc'[q] \in Early => pc[q] \in Early
    BY <1>1, <1>3 DEF StartBackup, At, Early, Labels
  <2> QED
    BY <1>2, <1>3, <2>2, <2>3 DEF StartBackup, Flows
<1>4. CASE Dump(r)
  <2>1. \A q \in Requests : pc'[q] \in Early => pc[q] \in Early
    BY <1>1, <1>4 DEF Dump, Early, Labels
  <2>2. \A q \in Requests : DirFrom(q)
    BY <1>0, <1>4 DEF Dump, DirFrom, Early
  <2> QED
    BY <1>4, <2>1, <2>2 DEF Dump, Flows, RowsFrom, ArchiveFrom, UnpackedFrom
<1>5. CASE Archive(r) \/ ArchiveFails(r)
  <2>1. \A q \in Requests : pc'[q] \in Early => pc[q] \in Early
    BY <1>1, <1>5 DEF Archive, ArchiveFails, Early, Labels
  <2>2. \A q \in Requests : DirFrom(q)
    BY <1>0, <1>5 DEF Archive, ArchiveFails, DirFrom
  <2>3. \A i \in Ids : ArchiveFrom(i)
    <3>1. \/ archive' = archive
          \/ \E s \in {"partial", "whole"} : archive' = [archive EXCEPT ![r] = [state |-> s, dump |-> dir[r]]]
      BY <1>5 DEF Archive, ArchiveFails
    <3>2. CASE archive' = archive
      BY <3>2 DEF ArchiveFrom
    <3>3. CASE \E s \in {"partial", "whole"} :
                  archive' = [archive EXCEPT ![r] = [state |-> s, dump |-> dir[r]]]
      <4>1. PICK s \in {"partial", "whole"} :
               archive' = [archive EXCEPT ![r] = [state |-> s, dump |-> dir[r]]]
        BY <3>3
      <4>2. PICK a : a = [state |-> s, dump |-> dir[r]]
        OBVIOUS
      <4>3. a.dump = dir[r]
        BY <4>2
      <4>4. archive' = [archive EXCEPT ![r] = a]
        BY <4>1, <4>2
      <4> QED
        BY <1>0, <4>3, <4>4 DEF ArchiveFrom, Archives
    <3> QED
      BY <3>1, <3>2, <3>3
  <2> QED
    BY <1>5, <2>1, <2>2, <2>3 DEF Archive, ArchiveFails, Flows, RowsFrom, UnpackedFrom
<1>6. CASE Complete(r)
  <2>1. CompletedRow(r) \in BackupRow
    BY RowFacts DEF CompletedRow
  <2>2. \A q \in Requests : pc'[q] \in Early => pc[q] \in Early
    BY <1>1, <1>6 DEF Complete, Early, Labels
  <2>3. RowsFrom
    <3>1. CASE UNCHANGED db
      BY <3>1 DEF RowsFrom
    <3>2. CASE SetRow(r, CompletedRow(r)) /\ Goto(r, "end")
      BY <1>0, <2>1, <3>2 DEF RowsFrom, Goto
    <3> QED
      BY <1>6, <3>1, <3>2 DEF Complete
  <2> QED
    BY <1>2, <1>6, <2>2, <2>3 DEF Complete, Flows
<1>7. CASE Failed(r) \/ DropRow(r)
  <2>1. /\ FailedRow(r) \in BackupRow /\ FailedRow(r).status = "failed"
        /\ NoRow \in BackupRow /\ NoRow.status = "none"
    BY <1>0, RowFacts, EmptyFacts DEF FailedRow
  <2>2. \A q \in Requests : pc'[q] \in Early => pc[q] \in Early
    BY <1>1, <1>7 DEF Failed, DropRow, Early, Labels
  <2>3. RowsFrom
    BY <1>0, <1>7, <2>1 DEF Failed, DropRow, RowsFrom
  <2> QED
    BY <1>2, <1>7, <2>2, <2>3 DEF Failed, DropRow, Flows
<1>8. CASE ScheduleBackup(r)
  <2>0. PICK x \in BackupRow : x = [NoRow EXCEPT !.status = "pending"]
    BY EmptyFacts, RowFacts
  <2>1. x.status = "pending"
    BY <2>0, EmptyFacts, RowFacts
  <2>2. RowsFrom
    BY <1>0, <1>8, <2>0, <2>1 DEF ScheduleBackup, RowsFrom
  <2>3. \A q \in Requests : pc'[q] \in Early => pc[q] \in Early
    BY <1>1, <1>8 DEF ScheduleBackup, At, Early, Labels
  <2> QED
    BY <1>2, <1>8, <2>2, <2>3 DEF ScheduleBackup, Flows
<1>9. CASE LoadBackup(r)
  <2>1. \E to \in {"end", "unlink", "extract"} : Goto(r, to)
    BY <1>9, LoadBackupGoes DEF Moves
  <2>2. \A q \in Requests : pc'[q] \in Early => pc[q] \in Early
    BY <1>1, <2>1 DEF Early, Labels
  <2> QED
    BY <1>2, <1>9, <2>2 DEF LoadBackup, Flows, RowsFrom
<1>10. CASE Extract(r)
  <2>1. \A q \in Requests : pc'[q] \in Early => pc[q] \in Early
    BY <1>1, <1>10 DEF Extract, Early, Labels
  <2>2. PICK a : a = [archive[op[r].id] EXCEPT !.state = "partial"]
    OBVIOUS
  <2>4. a.dump = archive[op[r].id].dump
    BY <1>0, <2>2 DEF Archives
  <2>3. \A i \in Ids : UnpackedFrom(i)
    BY <1>0, <1>10, <2>2, <2>4 DEF Extract, UnpackedFrom, Archives
  <2> QED
    BY <1>10, <2>1, <2>3 DEF Extract, Flows, RowsFrom, DirFrom, ArchiveFrom
<1>11. CASE CopyDatabase(r)
  <2>1. \A q \in Requests : pc'[q] \in Early => pc[q] \in Early
    BY <1>1, <1>11 DEF CopyDatabase, Early, Labels
  <2>2. RowsFrom
    BY <1>0, <1>11 DEF CopyDatabase, RowsFrom
  <2> QED
    BY <1>2, <1>11, <2>1, <2>2 DEF CopyDatabase, Flows
<1>12. CASE CleanUp(r) \/ Unlink(r)
  <2>1. \A q \in Requests : pc'[q] \in Early => pc[q] \in Early
    BY <1>1, <1>12 DEF CleanUp, Unlink, Early, Labels
  <2>2. NoArchive.dump = NoDump
    BY DEF NoArchive
  <2>3. \A i \in Ids : ArchiveFrom(i) /\ UnpackedFrom(i)
    BY <1>0, <1>12, <2>2 DEF CleanUp, Unlink, ArchiveFrom, UnpackedFrom, Archives
  <2> QED
    BY <1>12, <2>1, <2>3 DEF CleanUp, Unlink, Flows, RowsFrom, DirFrom
<1>13. CASE ClearArtifacts(r) \/ Flush(r, EmptyDb)
  <2>1. \A q \in Requests : pc'[q] \in Early => pc[q] \in Early
    BY <1>0, <1>13 DEF ClearArtifacts, Flush, Goto, Early
  <2>2. RowsFrom
    BY <1>13 DEF ClearArtifacts, Flush, RowsFrom
  <2> QED
    BY <1>2, <1>13, <2>1, <2>2 DEF ClearArtifacts, Flush, Flows
<1> QED
  BY <1>3, <1>4, <1>5, <1>6, <1>7, <1>8, <1>9, <1>10, <1>11, <1>12, <1>13 DEF StoreStep

\* A job that asks for the deletion of a backup does so until its row is dropped.
LEMMA DeletingStays ==
    ASSUME JobType, NEW r \in Requests, NEW to \in Labels, Goto(r, to), cut \subseteq cut',
           NEW i \in Ids, Deleting(i), pc[r] # "drop" \/ op[r].id # i \/ r \in cut'
    PROVE  Deleting(i)'
BY DEF JobType, Goto, Deleting

\* A step of one job leaves alone what FilesOK says of the others, if it touches
\* neither their rows nor their archives.
Apart(r) == /\ \A i \in Ids \ {r} : db'.backup[i] = db.backup[i]
            /\ \A q \in Requests \ {r} : row'[q] = row[q]
            /\ \A i \in Ids \ {r} : archive'[i] = archive[i]
            /\ cut \subseteq cut'

LEMMA ApartFiles ==
    ASSUME Types, FilesOK, NEW r \in Requests, NEW to \in Labels, Goto(r, to), Apart(r),
           pc[r] \notin {"end", "drop"},
           db'.backup[r].file => to = "end",
           BackupOK(r)',
           Completed(r)' => (archive[r].state = "whole")' \/ Deleting(r)',
           db'.backup[r].status = "running" => Making(r)' \/ r \in cut'
    PROVE  FilesOK'
<1>0. r \in Ids /\ pc \in [Requests -> Labels] /\ Requests \subseteq Ids
  BY OpFacts DEF Types, JobType, Ids
<1>1. op' = op /\ pc'[r] = to /\ \A q \in Requests \ {r} : pc'[q] = pc[q]
  BY <1>0 DEF Goto
<1>2. \A q \in Requests : db'.backup[q].file => pc'[q] = "end"
  BY <1>0, <1>1 DEF FilesOK, Apart
<1>3. \A q \in Requests : BackupOK(q)'
  <2> SUFFICES ASSUME NEW q \in Requests, q # r
               PROVE  BackupOK(q)'
    OBVIOUS
  <2>1. op[q].id \in Ids /\ op[r].id \in Ids
    BY OpFacts DEF Types
  <2>2. BackupOK(q)
    BY DEF FilesOK
  <2> QED
    BY <1>0, <1>1, <2>1, <2>2 DEF BackupOK, Apart, Ids
<1>4. \A i \in Ids : Completed(i)' => (archive[i].state = "whole")' \/ Deleting(i)'
  <2> SUFFICES ASSUME NEW i \in Ids, i # r, Completed(i)'
               PROVE  archive'[i].state = "whole" \/ Deleting(i)'
    OBVIOUS
  <2>1. archive[i].state = "whole" \/ Deleting(i)
    BY DEF FilesOK, Apart, Completed
  <2> QED
    BY <2>1, DeletingStays DEF Types, Apart
<1>5. \A i \in Ids : (db'.backup[i].status = "running" /\ i # First) => Making(i)' \/ i \in cut'
  <2> SUFFICES ASSUME NEW i \in Ids, i # First, i # r, db'.backup[i].status = "running"
               PROVE  Making(i)' \/ i \in cut'
    OBVIOUS
  <2>1. Making(i) \/ i \in cut
    BY DEF FilesOK, Apart
  <2> QED
    BY <1>1, <2>1 DEF Making, Apart, Ids
<1> QED
  BY <1>2, <1>3, <1>4, <1>5 DEF FilesOK

LEMMA StoreFiles ==
    ASSUME Types, NEW r \in Requests, StoreStep(r) \/ Flush(r, EmptyDb),
           PlaceOK(r), DumpOK, FilesOK, ~rewound, ~rewound'
    PROVE  FilesOK'
<1> USE DEF fileVars, siteVars
<1>0. /\ r \in Ids /\ op[r].id \in Ids /\ db \in Database /\ row[r] \in BackupRow
      /\ db.backup \in [Ids -> BackupRow] /\ row \in [Requests -> BackupRow]
      /\ archive \in Archives /\ archive \in [Ids -> [state : {"none", "partial", "whole"}, dump : Dumps]]
      /\ pc \in [Requests -> Labels] /\ JobType /\ Requests \subseteq Ids /\ First \notin Requests
      /\ NoRow \in BackupRow /\ ~NoRow.file /\ NoRow.status = "none"
  BY OpFacts, DbFacts, EmptyFacts, JobsAssumption DEF Types, JobType, StoreType, Archives, Ids
<1>f. /\ BackupOK(r) /\ (db.backup[r].file => pc[r] = "end")
      /\ Completed(r) => archive[r].state = "whole" \/ Deleting(r)
      /\ db.backup[r].status = "running" => Making(r) \/ r \in cut
      /\ pc[r] \in Early => db.backup[r].status # "completed"
  BY <1>0 DEF FilesOK, DumpOK
<1>1. CASE StartBackup(r)
  <2>0. PICK x \in BackupRow : x = [NoRow EXCEPT !.status = "running"]
    BY <1>0, RowFacts
  <2>1. x.status = "running" /\ ~x.file
    BY <1>0, <2>0, RowFacts
  <2>2. SetRow(r, x) /\ row' = [row EXCEPT ![r] = x] /\ archive' = archive /\ cut' = cut
    BY <1>1, <2>0 DEF StartBackup
  <2>3. db'.backup = [db.backup EXCEPT ![r] = x]
    BY <1>0, <2>2, SetRowFacts
  <2>4. op[r].kind = "backup" /\ pc[r] = "start" /\ Goto(r, "dump") /\ pc'[r] = "dump" /\ op' = op
    BY <1>0, <1>1 DEF StartBackup, At, Goto
  <2>5. Apart(r)
    BY <1>0, <2>2, <2>3 DEF Apart
  <2>6. BackupOK(r)' /\ Making(r)' /\ ~Completed(r)' /\ ~db'.backup[r].file
    BY <1>0, <2>1, <2>3, <2>4 DEF BackupOK, Making, Completed
  <2> QED
    BY <2>4, <2>5, <2>6, ApartFiles DEF Labels
<1>2. CASE Dump(r)
  <2>1. /\ UNCHANGED <<db, row, archive, cut>> /\ pc[r] = "dump" /\ Goto(r, "archive")
        /\ pc'[r] = "archive" /\ op' = op
    BY <1>0, <1>2 DEF Dump, Goto
  <2>2. Apart(r)
    BY <2>1 DEF Apart
  <2>3. BackupOK(r)' /\ ~db'.backup[r].file
    BY <1>f, <2>1 DEF BackupOK, Early
  <2>4. /\ Completed(r)' => (archive[r].state = "whole")' \/ Deleting(r)'
        /\ db'.backup[r].status = "running" => Making(r)' \/ r \in cut'
    BY <1>f, <2>1 DEF Completed, Making, Early
  <2> QED
    BY <2>1, <2>2, <2>3, <2>4, ApartFiles DEF Labels
<1>3. CASE Archive(r)
  <2>1. /\ UNCHANGED <<db, row, cut>> /\ pc[r] = "archive" /\ Goto(r, "complete")
        /\ pc'[r] = "complete" /\ op' = op
    BY <1>0, <1>3 DEF Archive, Goto
  <2>a. PICK a : a = [state |-> "whole", dump |-> dir[r]]
    OBVIOUS
  <2>b. a.state = "whole" /\ archive' = [archive EXCEPT ![r] = a]
    BY <1>3, <2>a DEF Archive
  <2>c. archive'[r].state = "whole" /\ \A i \in Ids \ {r} : archive'[i] = archive[i]
    BY <1>0, <2>b
  <2>2. Apart(r)
    BY <2>1, <2>c DEF Apart
  <2>3. BackupOK(r)' /\ ~db'.backup[r].file
    BY <1>f, <2>1, <2>c DEF BackupOK, Early
  <2>4. /\ Completed(r)' => (archive[r].state = "whole")' \/ Deleting(r)'
        /\ db'.backup[r].status = "running" => Making(r)' \/ r \in cut'
    BY <1>f, <2>1, <2>c DEF Completed, Making
  <2> QED
    BY <2>1, <2>2, <2>3, <2>4, ApartFiles DEF Labels
<1>4. CASE ArchiveFails(r)
  <2>1. /\ UNCHANGED <<db, row, cut>> /\ pc[r] \in {"dump", "archive"} /\ Goto(r, "fail")
        /\ pc'[r] = "fail" /\ op' = op
    BY <1>0, <1>4 DEF ArchiveFails, Goto
  <2>c. \A i \in Ids \ {r} : archive'[i] = archive[i]
    <3>1. CASE archive' = archive
      BY <3>1
    <3>2. CASE \E s \in {"partial", "whole"} :
                  archive' = [archive EXCEPT ![r] = [state |-> s, dump |-> dir[r]]]
      <4>1. PICK s \in {"partial", "whole"} :
               archive' = [archive EXCEPT ![r] = [state |-> s, dump |-> dir[r]]]
        BY <3>2
      <4>2. PICK a : a = [state |-> s, dump |-> dir[r]]
        OBVIOUS
      <4> QED
        BY <1>0, <4>1, <4>2
    <3> QED
      BY <1>4, <3>1, <3>2 DEF ArchiveFails
  <2>2. Apart(r)
    BY <2>1, <2>c DEF Apart
  <2>3. BackupOK(r)' /\ ~db'.backup[r].file
    BY <1>f, <2>1 DEF BackupOK, Early
  <2>4. /\ ~Completed(r)'
        /\ db'.backup[r].status = "running" => Making(r)' \/ r \in cut'
    BY <1>f, <2>1 DEF Completed, Making, Early
  <2> QED
    BY <2>1, <2>2, <2>3, <2>4, ApartFiles DEF Labels
<1>5. CASE Complete(r)
  <2>1. /\ UNCHANGED <<archive, cut>> /\ pc[r] = "complete" /\ op[r].kind = "backup"
        /\ row' = [row EXCEPT ![r] = CompletedRow(r)]
    BY <1>5 DEF Complete, PlaceOK, BackupSteps
  <2>2. CompletedRow(r) \in BackupRow /\ CompletedRow(r).status = "completed"
    BY RowFacts DEF CompletedRow
  <2>3. CASE SetRow(r, CompletedRow(r)) /\ Goto(r, "end")
    <3>1. db'.backup = [db.backup EXCEPT ![r] = CompletedRow(r)]
      BY <1>0, <2>2, <2>3, SetRowFacts
    <3>2. pc'[r] = "end" /\ op' = op
      BY <1>0, <2>3 DEF Goto
    <3>3. Apart(r)
      BY <1>0, <2>1, <3>1 DEF Apart
    <3>4. BackupOK(r)'
      BY <3>2 DEF BackupOK, Early
    <3>5. archive'[r].state = "whole" /\ db'.backup[r].status # "running"
      BY <1>0, <1>f, <2>1, <2>2, <3>1 DEF BackupOK
    <3> QED
      BY <2>1, <2>3, <3>3, <3>4, <3>5, ApartFiles DEF Labels
  <2>4. CASE UNCHANGED db /\ Goto(r, "fail")
    <3>2. pc'[r] = "fail" /\ op' = op
      BY <1>0, <2>4 DEF Goto
    <3>3. Apart(r)
      BY <1>0, <2>1, <2>4 DEF Apart
    <3>4. BackupOK(r)' /\ ~db'.backup[r].file
      BY <1>f, <2>1, <2>4, <3>2 DEF BackupOK, Early
    <3>5. archive'[r].state = "whole" /\ Making(r)'
      BY <1>f, <2>1, <3>2 DEF BackupOK, Making
    <3> QED
      BY <2>1, <2>4, <3>3, <3>4, <3>5, ApartFiles DEF Labels
  <2> QED
    BY <1>5, <2>3, <2>4 DEF Complete
<1>6. CASE Failed(r)
  <2>1. UNCHANGED <<archive, row>> /\ pc[r] = "fail" /\ Goto(r, "end") /\ pc'[r] = "end" /\ op' = op
    BY <1>0, <1>6 DEF Failed, Goto
  <2>2. FailedRow(r) \in BackupRow /\ FailedRow(r).status = "failed"
    BY <1>0, RowFacts DEF FailedRow
  <2>4. BackupOK(r)'
    BY <2>1 DEF BackupOK, Early
  <2>5. CASE SetRow(r, FailedRow(r)) /\ UNCHANGED cut
    <3>1. db'.backup = [db.backup EXCEPT ![r] = FailedRow(r)]
      BY <1>0, <2>2, <2>5, SetRowFacts
    <3>2. Apart(r)
      BY <1>0, <2>1, <2>5, <3>1 DEF Apart
    <3>3. db'.backup[r].status # "running" /\ ~Completed(r)'
      BY <1>0, <2>2, <3>1 DEF Completed
    <3> QED
      BY <2>1, <2>4, <3>2, <3>3, ApartFiles DEF Labels
  <2>6. CASE UNCHANGED db /\ cut' = cut \union {r}
    <3>2. Apart(r)
      BY <1>0, <2>1, <2>6 DEF Apart
    <3>3. Completed(r)' => (archive[r].state = "whole")' \/ Deleting(r)'
      <4>1. Completed(r)' => archive[r].state = "whole" \/ Deleting(r)
        BY <1>f, <2>6 DEF Completed
      <4>2. cut \subseteq cut'
        BY <2>6
      <4> QED
        BY <1>0, <2>1, <4>1, <4>2, DeletingStays DEF Labels
    <3> QED
      BY <2>1, <2>4, <2>6, <3>2, <3>3, ApartFiles DEF Labels
  <2> QED
    BY <1>6, <2>5, <2>6 DEF Failed
<1>7. CASE ScheduleBackup(r)
  <2>0. PICK x \in BackupRow : x = [NoRow EXCEPT !.status = "pending"]
    BY <1>0, RowFacts
  <2>1. x.status = "pending"
    BY <1>0, <2>0, RowFacts
  <2>2. SetRow(r, x) /\ UNCHANGED <<row, archive, cut>>
    BY <1>7, <2>0 DEF ScheduleBackup
  <2>3. db'.backup = [db.backup EXCEPT ![r] = x]
    BY <1>0, <2>2, SetRowFacts
  <2>4. pc[r] = "start" /\ Goto(r, "end") /\ pc'[r] = "end" /\ op' = op
    BY <1>0, <1>7 DEF ScheduleBackup, At, Goto
  <2>5. Apart(r)
    BY <1>0, <2>2, <2>3 DEF Apart
  <2>6. BackupOK(r)' /\ ~Completed(r)' /\ db'.backup[r].status # "running"
    BY <1>0, <2>1, <2>3, <2>4 DEF BackupOK, Early, Completed
  <2> QED
    BY <2>4, <2>5, <2>6, ApartFiles DEF Labels
<1>8. CASE LoadBackup(r)
  <2>1. /\ UNCHANGED <<db, archive, cut>> /\ pc[r] = "start"
        /\ row' = [row EXCEPT ![r] = db.backup[op[r].id]]
    BY <1>8 DEF LoadBackup
  <2>2. PICK to \in {"end", "unlink", "extract"} : Goto(r, to)
    BY <1>8, LoadBackupGoes DEF Moves
  <2>3. to \in Labels /\ pc'[r] = to /\ op' = op /\ \A q \in Requests \ {r} : pc'[q] = pc[q]
    BY <1>0, <2>2 DEF Goto, Labels
  <2>4. Apart(r)
    BY <1>0, <2>1 DEF Apart
  <2>5. BackupOK(r)'
    <3>1. row'[r] = db.backup[op[r].id]
      BY <1>0, <2>1
    <3>2. db.backup[op[r].id].file => op[r].id = First \/ (pc[op[r].id] = "end" /\ op[r].id # r)
      BY <1>0, <2>1 DEF FilesOK, Ids
    <3> QED
      BY <1>0, <2>1, <2>2, <2>3, <3>1, <3>2 DEF BackupOK, Early, Ids
  <2>6. Completed(r)' => (archive[r].state = "whole")' \/ Deleting(r)'
    BY <1>f, <2>1 DEF Completed, Early
  <2>7. ~db'.backup[r].file /\ db'.backup[r].status # "running"
    BY <1>f, <2>1 DEF BackupOK, Early
  <2> QED
    BY <2>1, <2>2, <2>3, <2>4, <2>5, <2>6, <2>7, ApartFiles
<1>9. CASE Extract(r) \/ CopyDatabase(r) \/ CleanUp(r) \/ ClearArtifacts(r) \/ Flush(r, EmptyDb)
  <2>1. UNCHANGED <<db, row, archive, cut>>
    BY <1>9 DEF Extract, CopyDatabase, CleanUp, ClearArtifacts, Flush
  <2>2. /\ pc[r] \in {"extract", "copy", "clean", "flush", "start"}
        /\ \E to \in {"end", "copy", "clean", "flush"} : Goto(r, to)
    BY <1>9 DEF Extract, CopyDatabase, CleanUp, ClearArtifacts, Flush, At
  <2>3. PICK to \in {"end", "copy", "clean", "flush"} : Goto(r, to)
    BY <2>2
  <2>4. op' = op /\ pc'[r] = to /\ \A q \in Requests \ {r} : pc'[q] = pc[q]
    BY <1>0, <2>3 DEF Goto
  <2>5. RowsStay
    BY <2>1, <2>2, <2>4 DEF RowsStay, Passes, BackupLabels, BackupSteps
  <2> QED
    BY <2>5, RowsStayFiles
<1>10. CASE Unlink(r)
  <2>1. /\ UNCHANGED <<db, row, cut>> /\ pc[r] = "unlink" /\ Goto(r, "drop") /\ pc'[r] = "drop" /\ op' = op
        /\ \A q \in Requests \ {r} : pc'[q] = pc[q]
    BY <1>0, <1>10 DEF Unlink, Goto
  <2>2. \A i \in Ids : i # op[r].id => archive'[i] = archive[i]
    BY <1>0, <1>10 DEF Unlink
  <2>3. archive' = archive \/ op[r].id = First \/ pc[op[r].id] = "end"
    BY <1>f, <1>10, <2>1 DEF Unlink, BackupOK
  <2>4. \A q \in Requests : db'.backup[q].file => pc'[q] = "end"
    BY <2>1 DEF FilesOK
  <2>5. \A q \in Requests : BackupOK(q)'
    <3> SUFFICES ASSUME NEW q \in Requests
                 PROVE  BackupOK(q)'
      OBVIOUS
    <3>1. BackupOK(q) /\ op[q].id \in Ids
      BY OpFacts DEF FilesOK, Types
    <3>2. pc[q] = "complete" => archive'[q] = archive[q]
      BY <1>0, <2>2, <2>3
    <3> QED
      BY <1>0, <2>1, <3>1, <3>2 DEF BackupOK, Early, Ids
  <2>6. \A i \in Ids : Completed(i)' => (archive[i].state = "whole")' \/ Deleting(i)'
    <3> SUFFICES ASSUME NEW i \in Ids, Completed(i)
                 PROVE  archive'[i].state = "whole" \/ Deleting(i)'
      BY <2>1 DEF Completed
    <3>1. CASE i = op[r].id
      BY <2>1, <3>1 DEF Deleting
    <3>2. CASE i # op[r].id
      <4>1. archive'[i].state = "whole" \/ Deleting(i)
        BY <2>2, <3>2 DEF FilesOK
      <4> QED
        BY <1>0, <2>1, <4>1, DeletingStays DEF Labels
    <3> QED
      BY <3>1, <3>2
  <2>7. \A i \in Ids : (db'.backup[i].status = "running" /\ i # First) => Making(i)' \/ i \in cut'
    BY <2>1 DEF FilesOK, Making, Ids
  <2> QED
    BY <2>4, <2>5, <2>6, <2>7 DEF FilesOK
<1>11. CASE DropRow(r)
  <2>1. /\ UNCHANGED <<archive, row>> /\ pc[r] = "drop" /\ Goto(r, "end") /\ pc'[r] = "end" /\ op' = op
        /\ \A q \in Requests \ {r} : pc'[q] = pc[q]
        /\ cut \subseteq cut'
    BY <1>0, <1>11 DEF DropRow, Goto
  <2>3. \A i \in Ids : \/ db'.backup[i] = db.backup[i] /\ (i # op[r].id \/ r \in cut')
                       \/ db'.backup[i] = NoRow
    <3>1. CASE SetRow(op[r].id, NoRow) /\ UNCHANGED cut
      <4>1. db'.backup = [db.backup EXCEPT ![op[r].id] = NoRow]
        BY <1>0, <3>1, SetRowFacts
      <4> QED
        BY <1>0, <4>1
    <3>2. CASE UNCHANGED db /\ cut' = cut \union {r}
      BY <3>2
    <3> QED
      BY <1>11, <3>1, <3>2 DEF DropRow
  <2>4. \A q \in Requests : db'.backup[q].file => pc'[q] = "end"
    BY <1>0, <2>1, <2>3 DEF FilesOK
  <2>5. \A q \in Requests : BackupOK(q)'
    <3> SUFFICES ASSUME NEW q \in Requests
                 PROVE  BackupOK(q)'
      OBVIOUS
    <3>1. BackupOK(q) /\ op[q].id \in Ids
      BY OpFacts DEF FilesOK, Types
    <3> QED
      BY <1>0, <2>1, <2>3, <3>1 DEF BackupOK, Early, Ids
  <2>6. \A i \in Ids : Completed(i)' => (archive[i].state = "whole")' \/ Deleting(i)'
    <3> SUFFICES ASSUME NEW i \in Ids, Completed(i)'
                 PROVE  archive'[i].state = "whole" \/ Deleting(i)'
      OBVIOUS
    <3>1. Completed(i) /\ (op[r].id # i \/ r \in cut')
      BY <1>0, <2>3 DEF Completed
    <3>2. archive[i].state = "whole" \/ Deleting(i)
      BY <3>1 DEF FilesOK
    <3> QED
      BY <1>0, <2>1, <3>1, <3>2, DeletingStays DEF Labels
  <2>7. \A i \in Ids : (db'.backup[i].status = "running" /\ i # First) => Making(i)' \/ i \in cut'
    BY <1>0, <2>1, <2>3 DEF FilesOK, Making, Ids
  <2> QED
    BY <2>4, <2>5, <2>6, <2>7 DEF FilesOK
<1> QED
  BY <1>1, <1>2, <1>3, <1>4, <1>5, <1>6, <1>7, <1>8, <1>9, <1>10, <1>11 DEF StoreStep

-----------------------------------------------------------------------------
(***************************************************************************)
(* Alerts.                                                                  *)
(***************************************************************************)

\* No row appears or is opened, what is resolved is closed, and no job comes to
\* the step at which it creates.
Tame(i) == /\ db'.alert[i].there => /\ db.alert[i].there
                                    /\ db'.alert[i].cat = db.alert[i].cat
                                    /\ db'.alert[i].sev = db.alert[i].sev
                                    /\ db'.alert[i].value = db.alert[i].value
           /\ db'.alert[i].open => db.alert[i].open
Calm == /\ op' = op
        /\ \A i \in Ids : Tame(i)
        /\ \A i \in resolved' : i \in resolved \/ (db.alert[i].there /\ ~db'.alert[i].open)
        /\ overlapped => overlapped'
        /\ \A q \in Requests :
              /\ pc'[q] \in Hopeful => pc[q] \in Hopeful
              /\ pc'[q] = "create" => pc[q] = "create" /\ want'[q] = want[q]
              /\ pc'[q] = "saveAlert" => acopy'[q].there \/ (pc[q] = "saveAlert" /\ acopy'[q] = acopy[q])

LEMMA CalmAlerts ==
    ASSUME Types, AlertOK, Calm
    PROVE  AlertOK'
<1>0. Requests \subseteq Ids /\ resolved \subseteq Ids
  BY DEF Types, AlertType, Ids
<1>1. \A q \in Requests : pc'[q] \in Hopeful => q \notin resolved' /\ ~db'.alert[q].there
  BY <1>0 DEF AlertOK, Calm, Tame
<1>2. \A i \in resolved' : ~db'.alert[i].open
  BY <1>0 DEF AlertOK, Calm, Tame
<1>3. \A q \in Requests : pc'[q] = "saveAlert" => acopy'[q].there
  BY DEF AlertOK, Calm
<1>4. \A i \in OpenOnes' : /\ i \in Ids /\ i \in OpenOnes
                           /\ db'.alert[i].cat = db.alert[i].cat
                           /\ db'.alert[i].sev = db.alert[i].sev
                           /\ db'.alert[i].value = db.alert[i].value
  BY DEF OpenOnes, Existing, Calm, Tame
<1>5. ASSUME ~overlapped'
      PROVE  /\ \A r, q \in Requests : (r # q /\ pc'[r] = "create" /\ pc'[q] = "create") =>
                   want'[r].cat # want'[q].cat
             /\ \A r \in Requests : pc'[r] = "create" => Matches(r)' = {}
             /\ \A i, j \in OpenOnes' : i # j =>
                   \/ db'.alert[i].cat # db'.alert[j].cat
                   \/ db'.alert[i].sev # db'.alert[j].sev
                   \/ db'.alert[i].cat \in ByCount /\ db'.alert[i].value # db'.alert[j].value
  <2>1. ~overlapped
    BY <1>5 DEF Calm
  <2>2. \A r, q \in Requests : (r # q /\ pc'[r] = "create" /\ pc'[q] = "create") =>
                   want'[r].cat # want'[q].cat
    BY <2>1 DEF AlertOK, Calm
  <2>3. \A r \in Requests : pc'[r] = "create" => Matches(r)' = {}
    <3> SUFFICES ASSUME NEW r \in Requests, pc'[r] = "create", NEW i \in Matches(r)'
                 PROVE  FALSE
      OBVIOUS
    <3>1. pc[r] = "create" /\ want'[r] = want[r] /\ op' = op
      BY DEF Calm
    <3>2. i \in Matches(r)
      BY <1>4, <3>1 DEF Matches
    <3> QED
      BY <2>1, <3>1, <3>2 DEF AlertOK
  <2>4. \A i, j \in OpenOnes' : i # j =>
                   \/ db'.alert[i].cat # db'.alert[j].cat
                   \/ db'.alert[i].sev # db'.alert[j].sev
                   \/ db'.alert[i].cat \in ByCount /\ db'.alert[i].value # db'.alert[j].value
    <3>1. \A i, j \in OpenOnes : i # j =>
                   \/ db.alert[i].cat # db.alert[j].cat
                   \/ db.alert[i].sev # db.alert[j].sev
                   \/ db.alert[i].cat \in ByCount /\ db.alert[i].value # db.alert[j].value
      BY <2>1 DEF AlertOK
    <3> QED
      BY <1>4, <3>1
  <2> QED
    BY <2>2, <2>3, <2>4
<1> QED
  BY <1>1, <1>2, <1>3, <1>5 DEF AlertOK

\* What a store, a repair or a death does to the alerts: nothing, or the database goes
\* back as a whole.
LEMMA OthersKeepAlerts ==
    ASSUME Types, NEW r \in Requests, StoreTurn(r) \/ StackTurn(r) \/ JobDies(r)
    PROVE  /\ rewound' \/ (db'.alert = db.alert /\ db'.limit = db.limit)
           /\ UNCHANGED alertVars
           /\ \A q \in Requests : pc'[q] = pc[q] \/ pc'[q] \notin Hopeful \cup {"saveAlert"}
<1> USE DEF fileVars, siteVars, storeVars, alertVars
<1>0. Walk(r) /\ db \in Database /\ r \in Ids /\ op[r].id \in Ids
  BY TurnWalks, OpFacts DEF Turn, Types, StoreType
<1>1. CASE StoreTurn(r)
  <2>1. \E from \in StoreLabels \cup {"start"}, to \in StoreLabels \cup {"end", "teardown"} : Moves(r, from, to)
    BY <1>1, StoreMoves DEF StoreTurn
  <2>2. \A q \in Requests : pc'[q] = pc[q] \/ pc'[q] \notin Hopeful \cup {"saveAlert"}
    BY <2>1, MovesFacts, LabelFacts DEF StoreLabels, Hopeful, Types
  <2>3. \/ db' = db \/ rewound'
        \/ \E i \in Ids, v \in BackupRow : SetRow(i, v)
    <3>2. CASE CopyDatabase(r) \/ Flush(r, EmptyDb)
      BY <3>2 DEF CopyDatabase, Flush
    <3>3. CASE ~(CopyDatabase(r) \/ Flush(r, EmptyDb))
      <4>1. CASE StartBackup(r)
        BY <1>0, <4>1, EmptyFacts, RowFacts DEF StartBackup
      <4>2. CASE Complete(r)
        BY <1>0, <4>2, RowFacts DEF Complete, CompletedRow
      <4>3. CASE Failed(r)
        <5>1. row[r] \in BackupRow
          BY DEF Types, StoreType
        <5>2. FailedRow(r) \in BackupRow
          BY <5>1, RowFacts DEF FailedRow
        <5> QED
          BY <1>0, <4>3, <5>2 DEF Failed
      <4>4. CASE ScheduleBackup(r)
        BY <1>0, <4>4, EmptyFacts, RowFacts DEF ScheduleBackup
      <4>5. CASE DropRow(r)
        BY <1>0, <4>5, EmptyFacts DEF DropRow
      <4> QED
        BY <1>1, <3>3, <4>1, <4>2, <4>3, <4>4, <4>5
           DEF StoreTurn, StoreStep, Dump, Archive, ArchiveFails, LoadBackup, Extract, CleanUp, Unlink,
               ClearArtifacts
    <3> QED
      BY <3>2, <3>3
  <2>4. rewound' \/ (db'.alert = db.alert /\ db'.limit = db.limit)
    BY <1>0, <2>3, SetRowFacts
  <2> QED
    BY <1>1, <2>2, <2>4 DEF StoreTurn
<1>2. CASE StackTurn(r)
  <2>1. \A q \in Requests : pc'[q] = pc[q] \/ pc'[q] \notin Hopeful \cup {"saveAlert"}
    <3>1. CASE \E from \in StackLabels \cup {"start"}, to \in StackLabels \cup {"end"} : Moves(r, from, to)
      BY <3>1, MovesFacts, LabelFacts DEF StackLabels, Hopeful, Types
    <3>2. CASE \E to \in {"end", "restartDaemons"} : pc[r] = "start" /\ EndTasks(r, to)
      BY <3>2 DEF EndTasks, Hopeful
    <3>3. CASE TearDown(r)
      BY <3>3 DEF TearDown, Hopeful
    <3> QED
      BY <1>2, <3>1, <3>2, <3>3, StackTypes DEF StackTurn
  <2> QED
    BY <1>2, <2>1 DEF StackTurn
<1>3. CASE JobDies(r)
  BY <1>0, <1>3 DEF JobDies, Die, Hopeful, Types, JobType
<1> QED
  BY <1>1, <1>2, <1>3

LEMMA OthersAlerts ==
    ASSUME Types, NEW r \in Requests, StoreTurn(r) \/ StackTurn(r) \/ JobDies(r), ~rewound', AlertOK
    PROVE  AlertOK'
<1>1. op' = op
  BY TurnWalks DEF Walk, Turn
<1>2. /\ db'.alert = db.alert /\ UNCHANGED alertVars
      /\ \A q \in Requests : pc'[q] = pc[q] \/ pc'[q] \notin Hopeful \cup {"saveAlert"}
  BY OthersKeepAlerts
<1>3. Calm
  BY <1>1, <1>2 DEF alertVars, Calm, Tame, Hopeful
<1> QED
  BY <1>3, CalmAlerts

LEMMA CreationKeeps ==
    ASSUME Types, NEW r \in Requests, PlaceOK(r), AlertOK, CreateAlert(r)
    PROVE  AlertOK'
<1> USE DEF alertVars
<1>0. /\ r \in Ids /\ op[r].id \in Ids /\ db \in Database /\ want[r] \in Finding
      /\ db.alert \in [Ids -> AlertRow] /\ pc \in [Requests -> Labels] /\ Requests \subseteq Ids
  BY OpFacts, DbFacts DEF Types, JobType, StoreType, AlertType, Ids
<1>1. PICK to \in {"stamp", "end"} : Goto(r, to)
  BY DoneGoes DEF CreateAlert
<1>2. /\ pc[r] = "create" /\ op' = op /\ pc'[r] \notin Hopeful \cup {"saveAlert"}
      /\ \A q \in Requests \ {r} : pc'[q] = pc[q]
      /\ UNCHANGED alertVars
  BY <1>0, <1>1 DEF CreateAlert, Goto, Hopeful
<1>3. PICK x : x = [there |-> TRUE, cat |-> want[r].cat, sev |-> want[r].sev,
                    value |-> want[r].value, open |-> TRUE, read |-> FALSE]
  OBVIOUS
<1>4. /\ x \in AlertRow /\ x.there /\ x.open /\ x.cat = want[r].cat
      /\ x.sev = want[r].sev /\ x.value = want[r].value
  BY <1>0, <1>3 DEF AlertRow, Finding
<1>5. db'.alert = [db.alert EXCEPT ![r] = x]
  BY <1>0, <1>3, <1>4, SetAlertFacts DEF CreateAlert
<1>6. db'.alert[r] = x /\ \A i \in Ids \ {r} : db'.alert[i] = db.alert[i]
  BY <1>0, <1>5
<1>7. \A i \in OpenOnes' : i = r \/ (i \in OpenOnes /\ i \in Ids \ {r})
  BY <1>6 DEF OpenOnes, Existing
<1>8. /\ \A q \in Requests : pc'[q] \in Hopeful => q \notin resolved' /\ ~db'.alert[q].there
      /\ \A i \in resolved' : ~db'.alert[i].open
      /\ \A q \in Requests : pc'[q] = "saveAlert" => acopy'[q].there
  <2>1. r \notin resolved
    BY <1>2 DEF AlertOK, Hopeful
  <2>2. resolved \subseteq Ids
    BY DEF Types, AlertType
  <2> QED
    BY <1>0, <1>2, <1>6, <2>1, <2>2 DEF AlertOK
<1>9. ASSUME ~overlapped'
      PROVE  /\ \A p, q \in Requests : (p # q /\ pc'[p] = "create" /\ pc'[q] = "create") =>
                   want'[p].cat # want'[q].cat
             /\ \A q \in Requests : pc'[q] = "create" => Matches(q)' = {}
             /\ \A i, j \in OpenOnes' : i # j =>
                   \/ db'.alert[i].cat # db'.alert[j].cat
                   \/ db'.alert[i].sev # db'.alert[j].sev
                   \/ db'.alert[i].cat \in ByCount /\ db'.alert[i].value # db'.alert[j].value
  <2>1. ~overlapped
    BY <1>2, <1>9
  <2>2. \A p, q \in Requests : (p # q /\ pc'[p] = "create" /\ pc'[q] = "create") =>
                   want'[p].cat # want'[q].cat
    BY <1>2, <2>1 DEF AlertOK, Hopeful
  <2>3. \A q \in Requests : pc'[q] = "create" => Matches(q)' = {}
    <3> SUFFICES ASSUME NEW q \in Requests, pc'[q] = "create", NEW i \in Matches(q)'
                 PROVE  FALSE
      OBVIOUS
    <3>1. q # r /\ pc[q] = "create" /\ op' = op /\ want' = want
      BY <1>2 DEF Hopeful
    <3>2. want[q].cat # want[r].cat /\ Matches(q) = {}
      BY <1>2, <2>1, <3>1 DEF AlertOK
    <3>3. i # r
      BY <1>4, <1>6, <3>1, <3>2 DEF Matches
    <3>4. i \in OpenOnes /\ db'.alert[i] = db.alert[i]
      BY <1>6, <1>7, <3>3 DEF Matches
    <3>5. i \in Matches(q)
      BY <3>1, <3>4 DEF Matches
    <3> QED
      BY <3>2, <3>5
  <2>4. \A j \in OpenOnes : j # r =>
           \/ x.cat # db.alert[j].cat
           \/ x.sev # db.alert[j].sev
           \/ x.cat \in ByCount /\ x.value # db.alert[j].value
    <3> SUFFICES ASSUME NEW j \in OpenOnes
                 PROVE  \/ x.cat # db.alert[j].cat
                        \/ x.sev # db.alert[j].sev
                        \/ x.cat \in ByCount /\ x.value # db.alert[j].value
      OBVIOUS
    <3>1. j \notin Matches(r)
      BY <1>2, <2>1 DEF AlertOK
    <3> QED
      BY <1>4, <3>1 DEF Matches
  <2>5. \A i, j \in OpenOnes : i # j =>
           \/ db.alert[i].cat # db.alert[j].cat
           \/ db.alert[i].sev # db.alert[j].sev
           \/ db.alert[i].cat \in ByCount /\ db.alert[i].value # db.alert[j].value
    BY <2>1 DEF AlertOK
  <2>6. \A i, j \in OpenOnes' : i # j =>
                   \/ db'.alert[i].cat # db'.alert[j].cat
                   \/ db'.alert[i].sev # db'.alert[j].sev
                   \/ db'.alert[i].cat \in ByCount /\ db'.alert[i].value # db'.alert[j].value
    <3> SUFFICES ASSUME NEW i \in OpenOnes', NEW j \in OpenOnes', i # j
                 PROVE  \/ db'.alert[i].cat # db'.alert[j].cat
                        \/ db'.alert[i].sev # db'.alert[j].sev
                        \/ db'.alert[i].cat \in ByCount /\ db'.alert[i].value # db'.alert[j].value
      OBVIOUS
    <3>1. CASE i = r
      BY <1>6, <1>7, <2>4, <3>1
    <3>2. CASE j = r
      BY <1>6, <1>7, <2>4, <3>2
    <3>3. CASE i # r /\ j # r
      BY <1>6, <1>7, <2>5, <3>3
    <3> QED
      BY <3>1, <3>2, <3>3
  <2> QED
    BY <2>2, <2>3, <2>6
<1> QED
  BY <1>8, <1>9 DEF AlertOK

LEMMA LookKeeps ==
    ASSUME Types, NEW r \in Requests, AlertOK, LookForAlert(r)
    PROVE  AlertOK'
<1> USE DEF storeVars, jobCopies
<1>0. pc \in [Requests -> Labels]
  BY DEF Types, JobType
<1>1. CASE Matches(r) # {}
  <2>1. PICK to \in {"stamp", "end"} : Goto(r, to)
    BY <1>1, DoneGoes DEF LookForAlert
  <2>2. Calm
    BY <1>0, <1>1, <2>1 DEF LookForAlert, Goto, Calm, Tame, Hopeful
  <2> QED
    BY <2>2, CalmAlerts
<1>2. CASE Matches(r) = {}
  <2>1. /\ pc[r] = "look" /\ op' = op /\ pc'[r] = "create"
        /\ \A q \in Requests \ {r} : pc'[q] = pc[q]
        /\ UNCHANGED <<db, want, acopy, resolved>>
    BY <1>0, <1>2 DEF LookForAlert, Goto
  <2>2. /\ \A q \in Requests : pc'[q] \in Hopeful => q \notin resolved' /\ ~db'.alert[q].there
        /\ \A i \in resolved' : ~db'.alert[i].open
        /\ \A q \in Requests : pc'[q] = "saveAlert" => acopy'[q].there
    BY <2>1 DEF AlertOK, Hopeful
  <2>3. ASSUME ~overlapped'
        PROVE  /\ ~overlapped
               /\ \A q \in Requests \ {r} : pc[q] = "create" => want[q].cat # want[r].cat
    BY <1>2, <2>3 DEF LookForAlert, Others
  <2>4. OpenOnes' = OpenOnes /\ \A q \in Requests : Matches(q)' = Matches(q)
    BY <2>1 DEF OpenOnes, Existing, Matches
  <2>5. ASSUME ~overlapped'
        PROVE  /\ \A p, q \in Requests : (p # q /\ pc'[p] = "create" /\ pc'[q] = "create") =>
                     want'[p].cat # want'[q].cat
               /\ \A q \in Requests : pc'[q] = "create" => Matches(q)' = {}
               /\ \A i, j \in OpenOnes' : i # j =>
                     \/ db'.alert[i].cat # db'.alert[j].cat
                     \/ db'.alert[i].sev # db'.alert[j].sev
                     \/ db'.alert[i].cat \in ByCount /\ db'.alert[i].value # db'.alert[j].value
    BY <1>2, <2>1, <2>3, <2>4, <2>5 DEF AlertOK
  <2> QED
    BY <2>2, <2>5 DEF AlertOK
<1> QED
  BY <1>1, <1>2

\* What saving a threshold changes.
LEMMA LimitsMove ==
    ASSUME AlertType, db \in Database, NEW r \in Requests, op[r].id \in Ids, r \in Ids,
           Stamp(r) \/ SaveLimit(r) \/ AddLimit(r)
    PROVE  /\ db'.alert = db.alert
           /\ SaveLimit(r) \/ AddLimit(r) => (db.limit = asked => db'.limit = asked')
           /\ Stamp(r) => asked' = asked /\ db'.limit = [db.limit EXCEPT ![op[r].id] = lcopy[r]]
<1>0. lcopy[r] \in LimitRow /\ [there : {TRUE}, metric : Settings] \subseteq LimitRow
  BY DEF AlertType, LimitRow
<1>1. CASE Stamp(r)
  <2>1. ~SaveLimit(r) /\ ~AddLimit(r)
    BY <1>1 DEF Stamp, SaveLimit, AddLimit, At
  <2> QED
    BY <1>0, <1>1, <2>1, LimitFacts DEF Stamp
<1>2. CASE SaveLimit(r)
  <2>1. ~Stamp(r)
    BY <1>2 DEF Stamp, SaveLimit
  <2>2. PICK v \in LimitRow : SetLimit(op[r].id, v) /\ asked' = [asked EXCEPT ![op[r].id] = v]
    BY <1>0, <1>2, EmptyFacts DEF SaveLimit
  <2> QED
    BY <2>1, <2>2, LimitFacts
<1>3. CASE AddLimit(r)
  <2>1. ~Stamp(r)
    BY <1>3 DEF Stamp, AddLimit, At
  <2>2. CASE UNCHANGED <<db, asked>>
    BY <2>1, <2>2
  <2>3. CASE \E v \in LimitRow : SetLimit(r, v) /\ asked' = [asked EXCEPT ![r] = v]
    <3>1. PICK v \in LimitRow : SetLimit(r, v) /\ asked' = [asked EXCEPT ![r] = v]
      BY <2>3
    <3> QED
      BY <2>1, <3>1, LimitFacts
  <2> QED
    BY <1>0, <1>3, <2>2, <2>3 DEF AddLimit
<1> QED
  BY <1>1, <1>2, <1>3

LEMMA AlertKeeps ==
    ASSUME Types, NEW r \in Requests, PlaceOK(r), AlertStep(r), "alert" \notin stale', AlertOK
    PROVE  AlertOK'
<1> USE DEF fileVars, siteVars, storeVars, alertVars, jobCopies, alertPast
<1>0. /\ r \in Ids /\ op[r].id \in Ids /\ pc \in [Requests -> Labels] /\ db \in Database
      /\ db.alert \in [Ids -> AlertRow] /\ db.limit \in [Ids -> LimitRow] /\ lcopy[r] \in LimitRow
      /\ acopy \in [Requests -> AlertRow] /\ want \in [Requests -> Finding]
      /\ Requests \subseteq Ids
  BY OpFacts, DbFacts DEF Types, JobType, StoreType, AlertType, Ids
<1>1. CASE Compare(r)
  <2>1. pc[r] = "start" /\ \E to \in {"look", "stamp", "end"} : Goto(r, to)
    BY <1>1, DoneGoes DEF Compare
  <2>2. UNCHANGED <<db, acopy, resolved, overlapped>> /\ \A q \in Requests \ {r} : want'[q] = want[q]
    BY <1>0, <1>1, CompareFinds DEF Compare, Types
  <2>3. Calm
    BY <1>0, <2>1, <2>2 DEF Goto, Calm, Tame, Hopeful
  <2> QED
    BY <2>3, CalmAlerts
<1>2. CASE LookForAlert(r)
  BY <1>2, LookKeeps
<1>3. CASE CreateAlert(r)
  BY <1>3, CreationKeeps
<1>4. CASE Stamp(r) \/ SaveLimit(r) \/ AddLimit(r)
  <2>1. /\ pc[r] \in {"stamp", "saveLimit", "start"} /\ Goto(r, "end")
        /\ UNCHANGED <<want, acopy, resolved, overlapped>>
    BY <1>4 DEF Stamp, SaveLimit, AddLimit, At
  <2>2. db'.alert = db.alert
    BY <1>0, <1>4, LimitsMove DEF Types
  <2>4. Calm
    BY <1>0, <2>1, <2>2 DEF Goto, Calm, Tame, Hopeful
  <2> QED
    BY <2>4, CalmAlerts
<1>5. CASE LoadAlert(r)
  <2>1. /\ pc[r] = "start" /\ UNCHANGED <<db, want, resolved, overlapped>>
        /\ acopy'[r] = db.alert[op[r].id] /\ \A q \in Requests \ {r} : acopy'[q] = acopy[q]
    BY <1>0, <1>5 DEF LoadAlert
  <2>2. Goto(r, "end") \/ (Goto(r, "saveAlert") /\ acopy'[r].there)
    BY <1>5, <2>1 DEF LoadAlert
  <2>3. Calm
    BY <1>0, <2>1, <2>2 DEF Goto, Calm, Tame, Hopeful
  <2> QED
    BY <2>3, CalmAlerts
<1>6. CASE LoadLimit(r)
  <2>1. pc[r] = "start" /\ UNCHANGED <<db, want, acopy, resolved, overlapped>>
        /\ \E to \in {"saveLimit", "end"} : Goto(r, to)
    BY <1>6 DEF LoadLimit
  <2>2. Calm
    BY <1>0, <2>1 DEF Goto, Calm, Tame, Hopeful
  <2> QED
    BY <2>2, CalmAlerts
<1>7. CASE SaveAlert(r)
  <2>1. /\ pc[r] = "saveAlert" /\ Goto(r, "end") /\ UNCHANGED <<want, acopy, overlapped>>
        /\ db.alert[op[r].id] = acopy[r] /\ acopy[r] \in AlertRow /\ acopy[r].there
    BY <1>0, <1>7 DEF SaveAlert, AlertOK
  <2>2. PICK x \in AlertRow : /\ SetAlert(op[r].id, x)
                              /\ \/ x = [acopy[r] EXCEPT !.read = TRUE] /\ resolved' = resolved
                                 \/ x = [acopy[r] EXCEPT !.open = FALSE] /\ resolved' = resolved \union {op[r].id}
    <3>1. /\ [acopy[r] EXCEPT !.read = TRUE] \in AlertRow
          /\ [acopy[r] EXCEPT !.open = FALSE] \in AlertRow
      BY <2>1 DEF AlertRow
    <3> QED
      BY <1>7, <3>1 DEF SaveAlert
  <2>3. /\ x.there = acopy[r].there /\ x.cat = acopy[r].cat
        /\ x.sev = acopy[r].sev /\ x.value = acopy[r].value
        /\ x.open => acopy[r].open
        /\ resolved' = resolved \/ (resolved' = resolved \union {op[r].id} /\ ~x.open)
    BY <2>1, <2>2 DEF AlertRow
  <2>8. db'.alert = [db.alert EXCEPT ![op[r].id] = x]
    <3>1. SetAlert(op[r].id, x)
      BY <2>2
    <3> QED
      BY <1>0, <3>1, SetAlertFacts
  <2>4. db'.alert[op[r].id] = x /\ \A i \in Ids \ {op[r].id} : db'.alert[i] = db.alert[i]
    BY <1>0, <2>8
  <2>5. \A i \in Ids : Tame(i)
    BY <2>1, <2>3, <2>4 DEF Tame
  <2>6. \A i \in resolved' : i \in resolved \/ (db.alert[i].there /\ ~db'.alert[i].open)
    BY <2>1, <2>3, <2>4
  <2>7. Calm
    BY <1>0, <2>1, <2>5, <2>6 DEF Goto, Calm, Hopeful
  <2> QED
    BY <2>7, CalmAlerts
<1>8. CASE ResolveAll(r) \/ ReadAll(r) \/ Cleanup(r)
  <2>1. pc[r] = "start" /\ Goto(r, "end") /\ UNCHANGED <<want, acopy, overlapped>>
    BY <1>8 DEF ResolveAll, ReadAll, Cleanup, At
  <2>2. PICK rows \in [Ids -> AlertRow] :
           /\ db' = [db EXCEPT !.alert = rows]
           /\ \A i \in Ids : /\ rows[i].there => /\ db.alert[i].there
                                                 /\ rows[i].cat = db.alert[i].cat
                                                 /\ rows[i].sev = db.alert[i].sev
                                                 /\ rows[i].value = db.alert[i].value
                             /\ rows[i].open => db.alert[i].open
           /\ \/ resolved' = resolved
              \/ resolved' = resolved \union OpenOnes /\ \A i \in Ids : ~rows[i].open
    <3>1. \A i \in Ids, b \in BOOLEAN :
             /\ [db.alert[i] EXCEPT !.open = b] \in AlertRow
             /\ [db.alert[i] EXCEPT !.read = b] \in AlertRow
             /\ db.alert[i].there \in BOOLEAN /\ db.alert[i] \in AlertRow
      BY <1>0 DEF AlertRow
    <3>2. CASE ResolveAll(r)
      <4>1. PICK rows \in [Ids -> AlertRow] :
               rows = [i \in Ids |-> [db.alert[i] EXCEPT !.open = FALSE]]
        BY <3>1
      <4>2. \A i \in Ids : /\ rows[i].there = db.alert[i].there
                           /\ rows[i].cat = db.alert[i].cat
                           /\ rows[i].sev = db.alert[i].sev
                           /\ rows[i].value = db.alert[i].value
                           /\ ~rows[i].open
        BY <3>1, <4>1 DEF AlertRow
      <4>3. db' = [db EXCEPT !.alert = rows] /\ resolved' = resolved \union OpenOnes
        BY <3>2, <4>1 DEF ResolveAll
      <4> QED
        BY <4>2, <4>3
    <3>3. CASE ReadAll(r)
      <4>1. PICK rows \in [Ids -> AlertRow] :
               rows = [i \in Ids |-> [db.alert[i] EXCEPT !.read = db.alert[i].there]]
        BY <3>1
      <4>2. \A i \in Ids : /\ rows[i].there = db.alert[i].there
                           /\ rows[i].cat = db.alert[i].cat
                           /\ rows[i].sev = db.alert[i].sev
                           /\ rows[i].value = db.alert[i].value
                           /\ rows[i].open = db.alert[i].open
        BY <3>1, <4>1 DEF AlertRow
      <4>3. db' = [db EXCEPT !.alert = rows] /\ resolved' = resolved
        BY <3>3, <4>1 DEF ReadAll
      <4> QED
        BY <4>2, <4>3
    <3>4. CASE Cleanup(r)
      <4>1. PICK old : db' = [db EXCEPT !.alert = [i \in Ids |-> IF i \in old THEN NoAlert ELSE db.alert[i]]]
        BY <3>4 DEF Cleanup
      <4>2. PICK rows \in [Ids -> AlertRow] :
               rows = [i \in Ids |-> IF i \in old THEN NoAlert ELSE db.alert[i]]
        BY <1>0, EmptyFacts
      <4>3. \A i \in Ids : (~rows[i].there /\ ~rows[i].open) \/ rows[i] = db.alert[i]
        BY <4>2, EmptyFacts
      <4>4. db' = [db EXCEPT !.alert = rows] /\ resolved' = resolved
        BY <3>4, <4>1, <4>2 DEF Cleanup
      <4> QED
        BY <4>3, <4>4
    <3> QED
      BY <1>8, <3>2, <3>3, <3>4
  <2>3. db'.alert = rows
    BY <1>0, <2>2, AlertsFacts
  <2>4. \A i \in Ids : Tame(i)
    BY <2>2, <2>3 DEF Tame
  <2>5. \A i \in resolved' : i \in resolved \/ (db.alert[i].there /\ ~db'.alert[i].open)
    BY <2>2, <2>3 DEF OpenOnes, Existing
  <2>6. Calm
    BY <1>0, <2>1, <2>4, <2>5 DEF Goto, Calm, Hopeful
  <2> QED
    BY <2>6, CalmAlerts
<1> QED
  BY <1>1, <1>2, <1>3, <1>4, <1>5, <1>6, <1>7, <1>8 DEF AlertStep

\* Saves over changes of others are not forgotten, and without one the threshold is
\* what was asked for last.
LEMMA LimitKeeps ==
    ASSUME Types, NEW r \in Requests, PlaceOK(r), Turn(r)
    PROVE  /\ stale \subseteq stale'
           /\ ("limit" \notin stale' /\ db.limit = asked) => rewound' \/ db'.limit = asked'
<1> USE DEF fileVars, siteVars, storeVars, alertVars, jobCopies, alertPast
<1>1. CASE StoreTurn(r) \/ StackTurn(r) \/ JobDies(r)
  BY <1>1, OthersKeepAlerts
<1>2. CASE AlertTurn(r)
  <2>0. /\ AlertType /\ db \in Database /\ r \in Ids /\ op[r].id \in Ids
        /\ db.limit \in [Ids -> LimitRow] /\ db.alert \in [Ids -> AlertRow]
    BY OpFacts, DbFacts DEF Types, StoreType
  <2>1. stale \subseteq stale'
    BY <1>2 DEF AlertTurn, AlertStep, Compare, LookForAlert, CreateAlert, Stamp, LoadAlert, SaveAlert,
                ResolveAll, ReadAll, Cleanup, AddLimit, LoadLimit, SaveLimit
  <2>2. CASE Stamp(r)
    <3>1. asked' = asked /\ db'.limit = [db.limit EXCEPT ![op[r].id] = lcopy[r]]
      BY <2>0, <2>2, LimitsMove
    <3>2. "limit" \notin stale' => db.limit[op[r].id] = lcopy[r]
      BY <2>2 DEF Stamp
    <3> QED
      BY <2>0, <2>1, <3>1, <3>2
  <2>3. CASE SaveLimit(r) \/ AddLimit(r)
    BY <2>0, <2>1, <2>3, LimitsMove
  <2>4. CASE ~Stamp(r) /\ ~SaveLimit(r) /\ ~AddLimit(r)
    <3>1. asked' = asked
      BY <1>2, <2>4 DEF AlertTurn, AlertStep, Compare, LookForAlert, CreateAlert, LoadAlert, SaveAlert,
                ResolveAll, ReadAll, Cleanup, LoadLimit
    <3>2. db' = db \/ \E rows : db' = [db EXCEPT !.alert = rows]
      <4>1. CASE CreateAlert(r) \/ SaveAlert(r)
        <5>1. \E i, v : SetAlert(i, v)
          BY <4>1 DEF CreateAlert, SaveAlert
        <5>2. PICK i, v : SetAlert(i, v)
          BY <5>1
        <5> QED
          BY <5>2 DEF SetAlert
      <4>2. CASE ResolveAll(r) \/ ReadAll(r) \/ Cleanup(r)
        BY <4>2 DEF ResolveAll, ReadAll, Cleanup
      <4> QED
        BY <1>2, <2>4, <4>1, <4>2 DEF AlertTurn, AlertStep, Compare, LookForAlert, LoadAlert, LoadLimit
    <3>3. db'.limit = db.limit
      BY <2>0, <3>2 DEF Database
    <3> QED
      BY <2>1, <3>1, <3>3
  <2> QED
    BY <2>2, <2>3, <2>4
<1> QED
  BY <1>1, <1>2 DEF Turn

-----------------------------------------------------------------------------
(***************************************************************************)
(* The certificate.                                                         *)
(***************************************************************************)

\* No job comes to a step or leaves one at which the volume and the daemons differ,
\* and a daemon that changes what it serves has read the volume.
Steady == /\ vol' = vol
          /\ \A q \in Requests : pc'[q] = pc[q] \/ (~InFlight(q) /\ ~InFlight(q)')
          /\ \A d \in Daemons :
                (up'[d] = "up" /\ d \notin unloaded') =>
                    mem'[d] = vol["cert"] \/ (up[d] = "up" /\ d \notin unloaded /\ mem'[d] = mem[d])

LEMMA SteadyTls ==
    ASSUME TlsOK, Steady
    PROVE  TlsOK'
<1>1. \A q \in Requests : InFlight(q)' => InFlight(q) /\ pc'[q] = pc[q]
  BY DEF Steady, InFlight
<1>2. \A q \in Requests : InFlight(q) => InFlight(q)'
  BY DEF Steady, InFlight
<1>3. \A q \in Requests : pc'[q] \in {"cert", "certOnly", "postfix", "dovecot"} => pc'[q] = pc[q]
  BY <1>1 DEF InFlight
<1> QED
  BY <1>1, <1>2, <1>3 DEF TlsOK, Steady, Daemons

LEMMA OthersAreSteady ==
    ASSUME Types, NEW r \in Requests, StoreTurn(r) \/ AlertTurn(r) \/ JobDies(r), ~torn'
    PROVE  ~torn /\ Steady
<1> USE DEF stackVars
<1>1. CASE StoreTurn(r)
  <2>1. \E from \in StoreLabels \cup {"start"}, to \in StoreLabels \cup {"end", "teardown"} : Moves(r, from, to)
    BY <1>1, StoreMoves DEF StoreTurn
  <2>2. \A q \in Requests : pc'[q] = pc[q] \/ (~InFlight(q) /\ ~InFlight(q)')
    BY <2>1, MovesFacts, LabelFacts DEF StoreLabels, InFlight, Types
  <2> QED
    BY <1>1, <2>2 DEF StoreTurn, Steady
<1>2. CASE AlertTurn(r)
  <2>1. \E from \in AlertLabels \cup {"start"}, to \in AlertLabels \cup {"end"} : Moves(r, from, to)
    BY <1>2, AlertMoves DEF AlertTurn
  <2>2. \A q \in Requests : pc'[q] = pc[q] \/ (~InFlight(q) /\ ~InFlight(q)')
    BY <2>1, MovesFacts, LabelFacts DEF AlertLabels, InFlight, Types
  <2> QED
    BY <1>2, <2>2 DEF AlertTurn, Steady
<1>3. CASE JobDies(r)
  <2>1. vol' = vol /\ ~torn /\ ~InFlight(r)
    BY <1>3, CutOffKeeps DEF JobDies, Types
  <2> QED
    BY <1>3, <2>1 DEF JobDies, Die, Steady, InFlight, Types, JobType
<1> QED
  BY <1>1, <1>2, <1>3

LEMMA ContainersAreSteady ==
    ASSUME Types, Containers
    PROVE  torn' = torn /\ Steady
<1>1. /\ pc' = pc /\ vol' = vol /\ torn' = torn
      /\ \A d \in Daemons : \/ up'[d] # "up"
                            \/ up[d] = "up" /\ mem'[d] = mem[d] /\ (d \in unloaded => d \in unloaded')
                            \/ mem'[d] = vol["cert"]
  BY ContainersStep
<1> QED
  BY <1>1 DEF Steady

LEMMA StackIsSteady ==
    ASSUME Types, NEW r \in Requests, StackStep(r), ~torn',
           ~WriteCa(r), ~WriteCert(r), ~Reload(r)
    PROVE  ~torn /\ Steady
<1> USE DEF stackVars
<1>0. pc \in [Requests -> Labels] /\ Daemons = {"postfix", "dovecot"} /\ torn \in BOOLEAN
      /\ up \in [Daemons -> {"up", "down", "stopped", "gone"}]
  BY DEF Types, JobType, StackTypeOK, Daemons
<1>1. ASSUME NEW to \in {"end", "again", "ensure", "ca", "caOnly", "files", "routing", "probe", "outbound",
                         "ensureAgain", "quota", "quotaBad", "mapsBad", "maps", "last", "restartDaemons"},
             Goto(r, to), ~InFlight(r)
      PROVE  \A q \in Requests : pc'[q] = pc[q] \/ (~InFlight(q) /\ ~InFlight(q)')
  BY <1>0, <1>1 DEF Goto, InFlight
<1>r. ASSUME NEW d \in Daemons, ReadBy({d}), up' = up \/ up' = [up EXCEPT ![d] = "up"]
      PROVE  \A e \in Daemons :
                (up'[e] = "up" /\ e \notin unloaded') =>
                    mem'[e] = vol["cert"] \/ (up[e] = "up" /\ e \notin unloaded /\ mem'[e] = mem[e])
  BY <1>0, <1>r DEF ReadBy
<1>2. CASE StartHeal(r) \/ LookAtFiles(r) \/ Probe(r) \/ ReadMaps(r) \/ ActionRefused(r) \/ RepairRefused(r)
  <2>1. UNCHANGED stackVars
    BY <1>2 DEF StartHeal, LookAtFiles, Probe, ReadMaps, ActionRefused, RepairRefused
  <2>2. /\ ~InFlight(r)
        /\ \E to \in {"end", "ca", "caOnly", "files", "routing", "ensure", "outbound", "ensureAgain",
                      "quotaBad", "quota", "mapsBad"} : Goto(r, to)
    <3>1. CASE StartHeal(r)
      BY <3>1, StackGoes DEF Moves, InFlight
    <3> QED
      BY <1>2, <3>1 DEF LookAtFiles, Probe, ReadMaps, ActionRefused, RepairRefused, InFlight, At
  <2>3. \A q \in Requests : pc'[q] = pc[q] \/ (~InFlight(q) /\ ~InFlight(q)')
    BY <1>1, <2>2
  <2> QED
    BY <2>1, <2>3 DEF Steady
<1>3. CASE WriteFails(r)
  <2>1. ~InFlight(r) /\ ~torn /\ UNCHANGED <<vol, mem, up, unloaded>>
    BY <1>3, CutOffKeeps DEF WriteFails, Types
  <2>2. \E to \in {"end", "ensure", "again"} : Goto(r, to)
    BY <1>3, StackGoes
  <2>3. \A q \in Requests : pc'[q] = pc[q] \/ (~InFlight(q) /\ ~InFlight(q)')
    BY <1>1, <2>1, <2>2
  <2> QED
    BY <2>1, <2>3 DEF Steady
<1>4. CASE HealPostfix(r)
  <2>1. ~InFlight(r) /\ torn' = torn /\ vol' = vol
    BY <1>4 DEF HealPostfix, InFlight, At
  <2>2. \E to \in {"probe", "outbound", "quota", "quotaBad", "end"} : Goto(r, to)
    BY <1>4, StackGoes
  <2>3. \A q \in Requests : pc'[q] = pc[q] \/ (~InFlight(q) /\ ~InFlight(q)')
    BY <1>1, <2>1, <2>2
  <2>4. \A e \in Daemons :
                (up'[e] = "up" /\ e \notin unloaded') =>
                    mem'[e] = vol["cert"] \/ (up[e] = "up" /\ e \notin unloaded /\ mem'[e] = mem[e])
    <3>1. \/ UNCHANGED <<mem, up, unloaded>>
          \/ up' = [up EXCEPT !["postfix"] = "up"] /\ ReadBy({"postfix"})
          \/ up' = [up EXCEPT !["postfix"] = "up"] /\ up["postfix"] = "up" /\ UNCHANGED <<mem, unloaded>>
      BY <1>4 DEF HealPostfix
    <3>2. CASE up' = [up EXCEPT !["postfix"] = "up"] /\ ReadBy({"postfix"})
      BY <1>0, <1>r, <3>2
    <3> QED
      BY <1>0, <3>1, <3>2
  <2> QED
    BY <2>1, <2>3, <2>4 DEF Steady
<1>5. CASE FixRouting(r) \/ EnsureOutbound(r) \/ HealDovecot(r)
  <2>1. ~InFlight(r) /\ torn' = torn /\ vol' = vol /\ up' = up
    BY <1>5 DEF FixRouting, EnsureOutbound, HealDovecot, InFlight, At
  <2>2. \E to \in {"probe", "maps", "last", "end"} : Goto(r, to)
    BY <1>5 DEF FixRouting, EnsureOutbound, HealDovecot
  <2>3. \A q \in Requests : pc'[q] = pc[q] \/ (~InFlight(q) /\ ~InFlight(q)')
    BY <1>1, <2>1, <2>2
  <2>4. (\E d \in Daemons : ReadBy({d})) \/ UNCHANGED <<mem, unloaded>>
    BY <1>0, <1>5 DEF FixRouting, EnsureOutbound, HealDovecot, RewriteMaps
  <2>5. \A e \in Daemons :
                (up'[e] = "up" /\ e \notin unloaded') =>
                    mem'[e] = vol["cert"] \/ (up[e] = "up" /\ e \notin unloaded /\ mem'[e] = mem[e])
    BY <1>r, <2>1, <2>4
  <2> QED
    BY <2>1, <2>3, <2>5 DEF Steady
<1>6. CASE RestartDaemons(r)
  <2>1. ~InFlight(r) /\ torn' = torn /\ vol' = vol /\ Goto(r, "end")
    BY <1>6 DEF RestartDaemons, InFlight
  <2>2. \A q \in Requests : pc'[q] = pc[q] \/ (~InFlight(q) /\ ~InFlight(q)')
    BY <1>1, <2>1
  <2> QED
    BY <1>6, <2>1, <2>2 DEF RestartDaemons, ReadBy, Steady
<1>7. ASSUME NEW to \in {"end", "restartDaemons"}, EndTasks(r, to), pc[r] = "start"
      PROVE  ~torn /\ Steady
  <2> DEFINE tasks == {q \in Others(r) : op[q].kind \in Tasks /\ ~AtRest(q)}
  <2>1. CutOff(tasks) /\ UNCHANGED <<mem, up, unloaded>>
    BY <1>7 DEF EndTasks
  <2>2. vol' = vol /\ ~torn /\ \A q \in tasks : ~InFlight(q)
    BY <2>1, CutOffKeeps DEF Types
  <2>3. \A q \in Requests : pc'[q] = IF q = r THEN to ELSE IF q \in tasks THEN "dead" ELSE pc[q]
    BY <1>7 DEF EndTasks
  <2>4. \A q \in Requests : pc'[q] = pc[q] \/ (~InFlight(q) /\ ~InFlight(q)')
    BY <1>7, <2>2, <2>3 DEF InFlight
  <2> QED
    BY <2>1, <2>2, <2>4 DEF Steady
<1>8. CASE RestartWorkers(r)
  BY <1>7, <1>8 DEF RestartWorkers, At
<1>9. CASE TearDown(r)
  <2>1. UNCHANGED <<mem, unloaded>> /\ \A d \in Daemons : up'[d] = "gone"
    BY <1>9 DEF TearDown
  <2>2. vol' = vol /\ ~torn /\ \A q \in Others(r) : ~InFlight(q)
    BY <1>9, CutOffKeeps DEF TearDown, Types
  <2>3. \A q \in Requests : pc'[q] = pc[q] \/ (~InFlight(q) /\ ~InFlight(q)')
    BY <1>0, <1>9, <2>2 DEF TearDown, Others, InFlight
  <2> QED
    BY <2>1, <2>2, <2>3 DEF Steady
<1>10. CASE ContainerAction(r)
  <2>1. CASE EndTasks(r, "end")
    BY <1>7, <1>10, <2>1 DEF ContainerAction, At
  <2>2. CASE /\ \E d \in Daemons : StartOne(d) \/ StopOne(d)
             /\ Goto(r, "end")
             /\ UNCHANGED <<vol, maps, torn>>
    <3>1. ~InFlight(r) /\ Goto(r, "end")
      BY <1>10, <2>2 DEF ContainerAction, At, InFlight
    <3>2. \A q \in Requests : pc'[q] = pc[q] \/ (~InFlight(q) /\ ~InFlight(q)')
      BY <1>1, <3>1
    <3>3. PICK d \in Daemons : StartOne(d) \/ StopOne(d)
      BY <2>2
    <3>4. \A e \in Daemons :
                (up'[e] = "up" /\ e \notin unloaded') =>
                    mem'[e] = vol["cert"] \/ (up[e] = "up" /\ e \notin unloaded /\ mem'[e] = mem[e])
      <4>1. CASE StartOne(d)
        BY <1>r, <4>1 DEF StartOne
      <4>2. CASE StopOne(d)
        BY <1>0, <4>2 DEF StopOne
      <4> QED
        BY <3>3, <4>1, <4>2
    <3> QED
      BY <2>2, <3>2, <3>4 DEF Steady
  <2> QED
    BY <1>10, <2>1, <2>2 DEF ContainerAction
<1> QED
  BY <1>2, <1>3, <1>4, <1>5, <1>6, <1>8, <1>9, <1>10 DEF StackStep

LEMMA StackTls ==
    ASSUME Types, NEW r \in Requests, StackStep(r), ~torn', ~torn => TlsOK
    PROVE  TlsOK'
<1>0. /\ r \in Ids /\ pc \in [Requests -> Labels] /\ Daemons = {"postfix", "dovecot"}
      /\ vol \in [{"ca", "cert"} -> Ids \union {Nobody}] /\ mem \in [Daemons -> Ids \union {Nobody}]
  BY OpFacts DEF Types, JobType, StackTypeOK, Daemons
<1>1. CASE WriteCa(r)
  <2>1. /\ \A q \in Requests \ {r} : ~InFlight(q) /\ pc'[q] = pc[q]
        /\ pc'[r] \in {"cert", "certOnly"} /\ vol'["ca"] = r
    BY <1>0, <1>1 DEF WriteCa, Goto, Others
  <2>2. (\A q \in Requests \ {r} : ~InFlight(q)') /\ InFlight(r)'
    BY <2>1 DEF InFlight
  <2> QED
    BY <1>0, <2>1, <2>2 DEF TlsOK, InFlight
<1>2. CASE WriteCert(r)
  <2>0. TlsOK /\ pc[r] \in {"cert", "certOnly"} /\ InFlight(r)
    BY <1>2 DEF WriteCert, InFlight
  <2>1. \A q \in Requests \ {r} : ~InFlight(q)
    BY <2>0 DEF TlsOK
  <2>2. vol'["cert"] = r /\ vol'["ca"] = r
    BY <1>0, <1>2, <2>0 DEF WriteCert, TlsOK
  <2>3. PICK to \in {"postfix", "ensure"} : Goto(r, to) /\ (to = "ensure" => unloaded' = Daemons)
    <3>1. CASE pc[r] = "cert"
      BY <1>2, <3>1 DEF WriteCert, ReloadOrder
    <3>2. CASE pc[r] # "cert"
      BY <1>2, <3>2 DEF WriteCert
    <3> QED
      BY <3>1, <3>2
  <2>4. pc'[r] = to /\ \A q \in Requests \ {r} : pc'[q] = pc[q]
    BY <1>0, <2>3 DEF Goto
  <2>5. \A q \in Requests \ {r} : ~InFlight(q)'
    BY <2>1, <2>4 DEF InFlight
  <2>6. to = "postfix" => InFlight(r)'
    BY <2>4 DEF InFlight
  <2> QED
    BY <1>0, <2>2, <2>3, <2>4, <2>5, <2>6 DEF TlsOK, InFlight
<1>3. CASE Reload(r)
  <2>0. TlsOK /\ pc[r] \in Daemons /\ InFlight(r) /\ vol' = vol /\ up' = up
    BY <1>0, <1>3 DEF Reload, InFlight
  <2>1. vol["ca"] = vol["cert"] /\ \A q \in Requests \ {r} : ~InFlight(q)
    BY <2>0 DEF TlsOK
  <2>2. /\ (up'[pc[r]] = "up" /\ pc[r] \notin unloaded') => mem'[pc[r]] = vol["cert"]
        /\ \A d \in Daemons \ {pc[r]} : mem'[d] = mem[d] /\ (d \in unloaded' <=> d \in unloaded)
    BY <1>0, <1>3 DEF Reload, ReadBy
  <2>3. CASE pc[r] = "postfix"
    <3>1. Goto(r, "dovecot")
      BY <1>3, <2>3 DEF Reload, ReloadOrder
    <3>2. pc'[r] = "dovecot" /\ (\A q \in Requests \ {r} : pc'[q] = pc[q])
      BY <1>0, <3>1 DEF Goto
    <3>3. InFlight(r)' /\ \A q \in Requests \ {r} : ~InFlight(q)'
      BY <2>1, <3>2 DEF InFlight
    <3> QED
      BY <1>0, <2>0, <2>1, <2>2, <2>3, <3>2, <3>3 DEF TlsOK, InFlight
  <2>4. CASE pc[r] = "dovecot"
    <3>1. \E to \in {"end", "again"} : Goto(r, to)
      BY <1>3, <2>4 DEF Reload, ReloadOrder
    <3>2. pc'[r] \in {"end", "again"} /\ (\A q \in Requests \ {r} : pc'[q] = pc[q])
      BY <1>0, <3>1 DEF Goto
    <3>3. \A q \in Requests : ~InFlight(q)'
      BY <2>1, <3>2 DEF InFlight
    <3>4. ("postfix" \notin unloaded /\ up["postfix"] = "up") => mem["postfix"] = vol["cert"]
      BY <2>0, <2>4 DEF TlsOK
    <3>5. \A d \in Daemons \ unloaded' : up'[d] = "up" => mem'[d] = vol["cert"]
      BY <1>0, <2>0, <2>2, <2>4, <3>4
    <3> QED
      BY <1>0, <2>0, <2>1, <3>3, <3>5 DEF TlsOK, InFlight
  <2> QED
    BY <1>0, <2>0, <2>3, <2>4
<1>4. CASE ~WriteCa(r) /\ ~WriteCert(r) /\ ~Reload(r)
  BY <1>4, StackIsSteady, SteadyTls
<1> QED
  BY <1>1, <1>2, <1>3, <1>4

-----------------------------------------------------------------------------
(***************************************************************************)
(* The invariant.                                                           *)
(***************************************************************************)
LEMMA OldFacts ==
    ASSUME NEW m \in Metrics
    PROVE  /\ OldDb(m) \in Database
           /\ OldDb(m).backup[First].status = "running"
           /\ \A i \in Ids \ {First} : OldDb(m).backup[i] = NoRow /\ OldDb(m).alert[i] = NoAlert
<1>1. PICK x \in BackupRow : x = [NoRow EXCEPT !.status = "running"]
  BY EmptyFacts, RowFacts
<1>2. x.status = "running"
  BY <1>1, EmptyFacts, RowFacts
<1>3. [NoAlert EXCEPT !.there = TRUE, !.open = TRUE, !.cat = Category[m]] \in AlertRow
  <2>1. Category[m] \in Categories
    BY DEF Category, Categories, Metrics
  <2> QED
    BY <2>1, EmptyFacts DEF AlertRow
<1>4. PICK y \in AlertRow : y = [NoAlert EXCEPT !.there = TRUE, !.open = TRUE, !.cat = Category[m]]
  BY <1>3
<1>5. PICK l \in LimitRow : l = [there |-> TRUE, metric |-> m]
  BY DEF LimitRow, Settings
<1>6. OldDb(m) = [backup |-> [EmptyOf(NoRow) EXCEPT ![First] = x],
                  alert |-> [EmptyOf(NoAlert) EXCEPT ![First] = y],
                  limit |-> [EmptyOf(NoLimit) EXCEPT ![First] = l]]
  BY <1>1, <1>4, <1>5 DEF OldDb
<1>7. /\ [EmptyOf(NoRow) EXCEPT ![First] = x] \in [Ids -> BackupRow]
      /\ [EmptyOf(NoRow) EXCEPT ![First] = x][First] = x
      /\ [EmptyOf(NoAlert) EXCEPT ![First] = y] \in [Ids -> AlertRow]
      /\ [EmptyOf(NoLimit) EXCEPT ![First] = l] \in [Ids -> LimitRow]
      /\ \A i \in Ids \ {First} : /\ [EmptyOf(NoRow) EXCEPT ![First] = x][i] = NoRow
                                  /\ [EmptyOf(NoAlert) EXCEPT ![First] = y][i] = NoAlert
  BY EmptyFacts DEF EmptyOf, Ids
<1> QED
  BY <1>2, <1>6, <1>7 DEF Database

LEMMA InitInv == Init => IInv
<1> SUFFICES ASSUME Init
             PROVE  IInv
  OBVIOUS
<1>0. /\ First \notin Requests /\ First \in Ids /\ Requests \subseteq Ids
      /\ \A r \in Requests : r # First
  BY JobsAssumption DEF Ids
<1>m. PICK m \in Metrics :
         /\ db = [OldDb(m) EXCEPT !.backup[First] = [status |-> "completed", file |-> TRUE]]
         /\ archive = [EmptyOf(NoArchive) EXCEPT ![First] = [state |-> "whole", dump |-> OldDb(m)]]
         /\ asked = OldDb(m).limit
  BY DEF Init, FirstMetric, Metrics
<1>1. PICK x \in BackupRow : x = [status |-> "completed", file |-> TRUE]
  BY RowFacts
<1>2. x.status = "completed" /\ db = [OldDb(m) EXCEPT !.backup[First] = x]
  BY <1>1, <1>m
<1>3. /\ db \in Database /\ db.backup = [OldDb(m).backup EXCEPT ![First] = x]
      /\ db.alert = OldDb(m).alert /\ db.limit = OldDb(m).limit
  BY <1>0, <1>2, OldFacts DEF Database
<1>4. db.backup[First] = x /\ \A i \in Ids \ {First} : db.backup[i] = NoRow
  BY <1>0, <1>3, OldFacts DEF Database
<1>5. PICK a \in [state : {"none", "partial", "whole"}, dump : Dumps] : a = [state |-> "whole", dump |-> OldDb(m)]
  BY OldFacts DEF Dumps
<1>6. a.state = "whole" /\ a.dump = OldDb(m) /\ archive = [EmptyOf(NoArchive) EXCEPT ![First] = a]
  BY <1>5, <1>m
<1>7. /\ NoArchive \in [state : {"none", "partial", "whole"}, dump : Dumps]
      /\ NoArchive.dump = NoDump
  BY DEF NoArchive, Dumps
<1>8. /\ archive \in Archives /\ unpacked \in Archives /\ archive[First] = a
      /\ \A i \in Ids \ {First} : archive[i] = NoArchive
      /\ \A i \in Ids : unpacked[i].dump = NoDump
  BY <1>0, <1>6, <1>7 DEF Init, EmptyOf, Archives
<1>9. Types
  <2>1. JobType
    BY JobsAssumption, LabelFacts DEF Init, JobType
  <2>2. StoreType
    <3>1. engine \in {"sqlite", "postgres"}
      BY DEF Init, Engines
    <3> QED
      BY <1>3, <1>8, <3>1, EmptyFacts DEF Init, StoreType, Dumps
  <2>3. AlertType
    <3>1. OldDb(m).limit \in [Ids -> LimitRow]
      BY OldFacts DEF Database
    <3>2. [cat |-> "disk", sev |-> "critical", value |-> 1] \in Finding
      BY DEF Finding, Categories, Severity, Values
    <3> QED
      BY <1>m, <3>1, <3>2, EmptyFacts DEF Init, AlertType
  <2>4. StackTypeOK
    BY <1>0 DEF Init, StackTypeOK
  <2> QED
    BY <2>1, <2>2, <2>3, <2>4 DEF Types
<1>10. \A r \in Requests : PlaceOK(r)
  BY DEF Init, PlaceOK, BackupSteps
<1>11. DumpOK
  <2>1. \A r \in Requests : db.backup[r].status # "completed" /\ OldDb(m).backup[r].status # "completed"
    BY <1>0, <1>4, OldFacts, EmptyFacts
  <2>2. Before(OldDb(m)) /\ Before(NoDump)
    BY <2>1 DEF Before
  <2>3. \A i \in Ids : (archive[i].dump = OldDb(m) /\ i = First) \/ archive[i].dump = NoDump
    BY <1>6, <1>7, <1>8
  <2>4. OldDb(m).backup[First].status # "completed"
    BY OldFacts
  <2>5. \A r \in Requests : dir[r] = NoDump
    BY DEF Init
  <2> QED
    BY <1>8, <2>1, <2>2, <2>3, <2>4, <2>5 DEF DumpOK
<1>12. FilesOK
  <2>1. \A r \in Requests : db.backup[r] = NoRow /\ pc[r] = "start"
    BY <1>0, <1>4 DEF Init
  <2>2. \A r \in Requests : BackupOK(r)
    BY <2>1, EmptyFacts DEF BackupOK
  <2>3. \A i \in Ids : Completed(i) => archive[i].state = "whole"
    BY <1>4, <1>6, <1>8, EmptyFacts DEF Completed
  <2>4. \A i \in Ids : db.backup[i].status # "running"
    BY <1>2, <1>4, EmptyFacts
  <2> QED
    BY <2>1, <2>2, <2>3, <2>4, EmptyFacts DEF FilesOK
<1>13. AlertOK
  <2>1. \A i \in Ids \ {First} : ~db.alert[i].there
    BY <1>3, OldFacts, EmptyFacts
  <2>2. OpenOnes \subseteq {First}
    BY <2>1 DEF OpenOnes, Existing
  <2> QED
    BY <1>0, <2>1, <2>2 DEF Init, AlertOK
<1>14. db.limit = asked
  BY <1>3, <1>m
<1>15. TlsOK
  BY DEF Init, TlsOK, InFlight, Daemons
<1> QED
  BY <1>9, <1>10, <1>11, <1>12, <1>13, <1>14, <1>15, TypeParts DEF IInv

LEMMA TurnInv ==
    ASSUME IInv, NEW r \in Requests, Turns(r)
    PROVE  IInv'
<1>0. Types /\ (\A q \in Requests : PlaceOK(q)) /\ PlaceOK(r) /\ Turn(r) /\ pc[r] \notin {"end", "dead"}
  BY TypeParts DEF IInv, Turns
<1>1. Types' /\ (rewound => rewound')
  BY <1>0, TurnTypes, RewoundStays
<1>2. \A q \in Requests : PlaceOK(q)'
  BY <1>0, <1>1, PlaceStep
<1>3. DumpOK' /\ (~rewound' => FilesOK')
  <2>1. DumpOK /\ (~rewound => FilesOK)
    BY DEF IInv
  <2>2. CASE StoreTurn(r)
    <3>1. StoreStep(r) \/ Flush(r, EmptyDb)
      BY <2>2 DEF StoreTurn
    <3>2. DumpOK'
      BY <1>0, <2>1, <3>1, StoreFlows, FlowsKeepDumps
    <3>3. ~rewound' => FilesOK'
      BY <1>0, <1>1, <2>1, <3>1, StoreFiles
    <3> QED
      BY <3>2, <3>3
  <2>3. CASE AlertTurn(r) \/ StackTurn(r) \/ JobDies(r)
    <3>1. RowsStay /\ UNCHANGED <<dir, unpacked, rewound>>
      BY <1>0, <2>3, OthersKeepRows
    <3> QED
      BY <1>0, <2>1, <3>1, RowsStayDumps, RowsStayFiles
  <2> QED
    BY <1>0, <2>2, <2>3 DEF Turn
<1>4. rewound' \/ (("alert" \notin stale' => AlertOK') /\ ("limit" \notin stale' => db'.limit = asked'))
  <2> SUFFICES ASSUME ~rewound'
               PROVE  ("alert" \notin stale' => AlertOK') /\ ("limit" \notin stale' => db'.limit = asked')
    OBVIOUS
  <2>1. ("alert" \notin stale => AlertOK) /\ ("limit" \notin stale => db.limit = asked)
    BY <1>1 DEF IInv
  <2>2. stale \subseteq stale' /\ ("limit" \notin stale' => db'.limit = asked')
    BY <1>0, <2>1, LimitKeeps
  <2>3. ASSUME "alert" \notin stale'
        PROVE  AlertOK'
    <3>1. AlertOK
      BY <2>1, <2>2, <2>3
    <3>2. CASE AlertTurn(r)
      BY <1>0, <2>3, <3>1, <3>2, AlertKeeps DEF AlertTurn
    <3>3. CASE StoreTurn(r) \/ StackTurn(r) \/ JobDies(r)
      BY <1>0, <3>1, <3>3, OthersAlerts
    <3> QED
      BY <1>0, <3>2, <3>3 DEF Turn
  <2> QED
    BY <2>2, <2>3
<1>5. ~torn' => TlsOK'
  <2> SUFFICES ASSUME ~torn'
               PROVE  TlsOK'
    OBVIOUS
  <2>1. ~torn => TlsOK
    BY DEF IInv
  <2>2. CASE StackTurn(r)
    BY <1>0, <2>1, <2>2, StackTls DEF StackTurn
  <2>3. CASE StoreTurn(r) \/ AlertTurn(r) \/ JobDies(r)
    BY <1>0, <2>1, <2>3, OthersAreSteady, SteadyTls
  <2> QED
    BY <1>0, <2>2, <2>3 DEF Turn
<1> QED
  BY <1>1, <1>2, <1>3, <1>4, <1>5, TypeParts DEF IInv

LEMMA ContainersInv ==
    ASSUME IInv, Containers
    PROVE  IInv'
<1> USE DEF fileVars, siteVars, storeVars, alertVars
<1>0. Types
  BY TypeParts DEF IInv
<1>1. Types' /\ op' = op /\ pc' = pc /\ UNCHANGED <<storeVars, alertVars>> /\ torn' = torn
  BY <1>0, ContainersStep
<1>2. \A q \in Requests : PlaceOK(q)'
  BY <1>1 DEF IInv, PlaceOK
<1>3. RowsStay /\ rewound' = rewound
  BY <1>1 DEF RowsStay, Passes
<1>4. DumpOK' /\ (~rewound' => FilesOK')
  BY <1>0, <1>1, <1>3, RowsStayDumps, RowsStayFiles DEF IInv
<1>5. Calm
  BY <1>1 DEF Calm, Tame, Hopeful
<1>6. rewound' \/ (("alert" \notin stale' => AlertOK') /\ ("limit" \notin stale' => db'.limit = asked'))
  BY <1>0, <1>1, <1>5, CalmAlerts DEF IInv
<1>7. ~torn' => TlsOK'
  BY <1>0, ContainersAreSteady, SteadyTls DEF IInv
<1> QED
  BY <1>1, <1>2, <1>4, <1>6, <1>7, TypeParts DEF IInv

LEMMA StutterInv ==
    ASSUME IInv, UNCHANGED vars
    PROVE  IInv'
<1> USE DEF vars, jobVars, storeVars, alertVars, stackVars
<1>0. Types
  BY TypeParts DEF IInv
<1>1. Types'
  BY <1>0 DEF Types, JobType, StoreType, AlertType, StackTypeOK
<1>2. \A q \in Requests : PlaceOK(q)'
  BY DEF IInv, PlaceOK
<1>3. RowsStay /\ rewound' = rewound
  BY DEF RowsStay, Passes
<1>4. DumpOK' /\ (~rewound' => FilesOK')
  BY <1>0, <1>3, RowsStayDumps, RowsStayFiles DEF IInv
<1>5. Calm
  BY DEF Calm, Tame, Hopeful
<1>6. rewound' \/ (("alert" \notin stale' => AlertOK') /\ ("limit" \notin stale' => db'.limit = asked'))
  BY <1>0, <1>5, CalmAlerts DEF IInv
<1>7. Steady
  BY DEF Steady
<1>8. ~torn' => TlsOK'
  BY <1>7, SteadyTls DEF IInv
<1> QED
  BY <1>1, <1>2, <1>4, <1>6, <1>8, TypeParts DEF IInv

LEMMA StepInv == IInv /\ [Next]_vars => IInv'
<1> SUFFICES ASSUME IInv, [Next]_vars
             PROVE  IInv'
  OBVIOUS
<1>1. CASE UNCHANGED vars
  BY <1>1, StutterInv
<1>2. CASE Containers
  BY <1>2, ContainersInv
<1>3. CASE \E r \in Requests : Turns(r)
  BY <1>3, TurnInv
<1> QED
  BY <1>1, <1>2, <1>3, NextTurn

\* The invariant holds in every state the operations reach.
THEOREM Invariance == Spec => []IInv
<1>1. Init => IInv
  BY InitInv
<1>2. IInv /\ [Next]_vars => IInv'
  BY StepInv
<1> QED
  BY <1>1, <1>2, PTL DEF Spec

\* Every variable of backups, alerts and stack keeps its type; in particular a
\* restored database has rows of all tables.
THEOREM TypeCorrect == Spec => []TypeOK
<1>1. IInv => TypeOK
  BY DEF IInv
<1> QED
  BY <1>1, Invariance, PTL

\* Unless the database was replaced or emptied, a completed backup has its whole archive
\* or is being deleted, and one that is shown as running is being made or was cut
\* off (create_backup_logic, delete_backup); and no archive ever contains a database
\* that calls the same backup completed, whatever is restored (restore_backup).
THEOREM BackupsTheorem == Spec => []BackupsAreTrue
<1>1. IInv => BackupsAreTrue
  BY DEF IInv, FilesOK, DumpOK, BackupsAreTrue
<1> QED
  BY <1>1, Invariance, PTL

\* Unless the database was replaced or emptied, or a stale row was saved, no alert that was
\* resolved is open, no two jobs one after the other open the same alert, and the
\* thresholds are those asked for last (evaluate_all_thresholds, evaluate_thresholds,
\* the other tasks of monitoring, and the views of alerts and thresholds).
THEOREM AlertsTheorem == Spec => []AlertsAreTrue
<1>1. IInv => AlertsAreTrue
  BY DEF IInv, AlertOK, AlertsAreTrue
<1> QED
  BY <1>1, Invariance, PTL

\* Outside a repair, and unless two of them wrote at once, one stopped half way, or one
\* left a file empty, the
\* certificate belongs to the CA beside it and every running daemon that was told
\* serves it (heal_mail_tls_pki and all that starts or reloads a daemon).
THEOREM TlsTheorem == Spec => []TlsIsServed
<1>1. IInv => TlsIsServed
  BY DEF IInv, TlsOK, TlsIsServed
<1> QED
  BY <1>1, Invariance, PTL
=============================================================================
