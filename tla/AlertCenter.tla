----------------------------- MODULE AlertCenter -----------------------------
(***************************************************************************)
(* Alerts: tasks and the metrics request compare a value with a threshold,  *)
(* look for an open alert of the same kind and create one, all in separate  *)
(* statements, while administrators read, resolve and delete.  Rows are     *)
(* loaded as instances and saved with all columns.  A task and the metrics  *)
(* request go through all rows of thresholds that are enabled, and treat    *)
(* each by itself: a job of the model treats one of them.                   *)
(***************************************************************************)
EXTENDS BackupStore

VARIABLES
    want,       \* the alert a job has found due
    acopy,      \* the alert an administrator's request has loaded
    lcopy,      \* the threshold a job has loaded
    asked,      \* history: the thresholds the administrators asked for last
    resolved,   \* history: alerts that were resolved
    overlapped, \* history: two jobs were between look-up and creation at once
    stale       \* history: the tables in which a save wrote over changes of others

alertVars == <<want, acopy, lcopy, asked, resolved, overlapped, stale>>
jobCopies == <<want, acopy, lcopy>>
alertPast == <<asked, resolved, overlapped, stale>>

\* The disk stands for the memory and the processor, too.
Metrics    == {"disk_usage", "mail_queue", "failed_logins", "storage_quota"}
Categories == {"disk", "mail_queue", "failed_logins", "storage", "mail", "security"}
Severity   == {"critical", "warning"}
Values     == {1, 2}
Finding    == [cat : Categories, sev : Severity, value : Values]
AlertRow   == [there : BOOLEAN, cat : Categories, sev : Severity, value : Values,
               open : BOOLEAN, read : BOOLEAN]
NoAlert    == [there |-> FALSE, cat |-> "disk", sev |-> "critical", value |-> 1,
               open |-> FALSE, read |-> FALSE]

\* A threshold is that of a metric, or not enabled.
Settings   == Metrics \union {"off"}
LimitRow   == [there : BOOLEAN, metric : Settings]
NoLimit    == [there |-> FALSE, metric |-> "off"]

EmptyDb == [backup |-> EmptyOf(NoRow), alert |-> EmptyOf(NoAlert), limit |-> EmptyOf(NoLimit)]

\* metric.replace('_usage', ''), and the category of the storage alerts.
\* Variant: the name of the metric is taken as it is.
MetricName == [m \in Metrics |-> m]
Category   == [disk_usage |-> "disk", mail_queue |-> "mail_queue",
               failed_logins |-> "failed_logins", storage_quota |-> "storage"]

\* The jobs that compare, and the metrics whose thresholds they read.
Reads    == [evaluate |-> Metrics, metrics |-> Metrics, queue |-> {"mail_queue"},
             logins |-> {"failed_logins"}]
Watchers == DOMAIN Reads
Existing == {i \in Ids : db.alert[i].there}
OpenOnes == {i \in Existing : db.alert[i].open}

AlertTypeOK ==
    /\ db.alert \in [Ids -> AlertRow]
    /\ db.limit \in [Ids -> LimitRow]
    /\ want \in [Requests -> Finding]
    /\ acopy \in [Requests -> AlertRow]
    /\ lcopy \in [Requests -> LimitRow]
    /\ asked \in [Ids -> LimitRow]
    /\ resolved \subseteq Ids
    /\ overlapped \in BOOLEAN /\ stale \subseteq {"alert", "limit"}

SetAlert(i, value) == db' = [db EXCEPT !.alert[i] = value]

-----------------------------------------------------------------------------
(***************************************************************************)
(* evaluate_all_thresholds and check_mail_queue_status every few minutes,   *)
(* check_failed_logins, and evaluate_thresholds of the metrics request.     *)
(***************************************************************************)

\* The threshold rows a job may compare with: a task on the mail queue or the logins
\* takes the first of its metric, which may be any of them.
Watched(r) ==
    {i \in Ids : /\ db.limit[i].there /\ db.limit[i].metric \in Reads[op[r].kind]
                 /\ op[r].kind \in {"evaluate", "metrics"} => i = op[r].id}

\* What a job may find due.  Only the task that evaluates all thresholds looks for
\* warnings, and the metrics request cannot look for alerts of the storage: its
\* filter names a column that alerts do not have, and raises.
ByCount == {"mail", "storage"}      \* alerts that are told apart by their count
CategoryOf(k, m) == CASE k = "queue" -> "mail" [] k = "logins" -> "security"
                      [] OTHER -> Category[m]
Findings(k, m) ==
    {f \in [cat : {CategoryOf(k, m)}, sev : Severity, value : Values] :
        /\ f.sev = "warning" => k = "logins" \/ (k = "evaluate" /\ m # "storage_quota")
        /\ k = "logins" => f.sev = "warning"
        /\ f.cat \notin ByCount => f.value = 1
        /\ k = "metrics" => m # "storage_quota"}

\* threshold.save() belongs to the task that evaluates.
Done(r) == Goto(r, IF op[r].kind = "evaluate" THEN "stamp" ELSE "end")

\* Measure, load the threshold, compare.
Compare(r) ==
    /\ pc[r] = "start" /\ op[r].kind \in Watchers
    /\ \/ \E i \in Watched(r) :
             /\ lcopy' = [lcopy EXCEPT ![r] = db.limit[i]]
             /\ \/ /\ \E f \in Findings(op[r].kind, db.limit[i].metric) :
                         want' = [want EXCEPT ![r] = f]
                   /\ Goto(r, "look")
                \/ /\ UNCHANGED want
                   /\ Done(r)
       \/ /\ Watched(r) = {}
          /\ UNCHANGED <<want, lcopy>>
          /\ Goto(r, "end")
    /\ UNCHANGED <<storeVars, acopy, alertPast>>

\* The filters of the look-up: a warning of the disk looks only for open warnings,
\* the mail queue and the storage only for an alert with the same count.
\* Variant: alerts are looked up under another category, and none is found.
NotMatched(r) == {}
Matches(r) ==
    {i \in OpenOnes :
        /\ db.alert[i].cat = want[r].cat
        /\ (op[r].kind = "evaluate" /\ want[r].sev = "warning") => db.alert[i].sev = "warning"
        /\ want[r].cat \in ByCount => db.alert[i].value = want[r].value}

LookForAlert(r) ==
    /\ pc[r] = "look"
    /\ IF Matches(r) = {}
       THEN /\ Goto(r, "create")
            /\ overlapped' = (overlapped \/ \E q \in Others(r) :
                                   pc[q] = "create" /\ want[q].cat = want[r].cat)
       ELSE /\ Done(r)
            /\ UNCHANGED overlapped
    /\ UNCHANGED <<storeVars, jobCopies, asked, resolved, stale>>

CreateAlert(r) ==
    /\ pc[r] = "create"
    /\ SetAlert(r, [there |-> TRUE, cat |-> want[r].cat, sev |-> want[r].sev,
                    value |-> want[r].value, open |-> TRUE, read |-> FALSE])
    /\ Done(r)
    /\ UNCHANGED <<row, fileVars, siteVars, alertVars>>

\* threshold.save() after last_check: every column as it was loaded.
SetLimit(i, value) == db' = [db EXCEPT !.limit[i] = value]

Stamp(r) ==
    /\ pc[r] = "stamp"
    /\ SetLimit(op[r].id, lcopy[r])
    /\ stale' = IF db.limit[op[r].id] # lcopy[r] THEN stale \union {"limit"} ELSE stale
    /\ Goto(r, "end")
    /\ UNCHANGED <<row, fileVars, siteVars, jobCopies, asked, resolved, overlapped>>

-----------------------------------------------------------------------------
(***************************************************************************)
(* Administrators, and the daily cleaning.                                  *)
(***************************************************************************)
LoadAlert(r) ==
    /\ pc[r] = "start" /\ op[r].kind \in {"readAlert", "resolveAlert"}
    /\ acopy' = [acopy EXCEPT ![r] = db.alert[op[r].id]]
    /\ Goto(r, IF db.alert[op[r].id].there THEN "saveAlert" ELSE "end")
    /\ UNCHANGED <<storeVars, want, lcopy, alertPast>>

SaveAlert(r) ==
    LET i == op[r].id
    IN  /\ pc[r] = "saveAlert"
        /\ stale' = IF db.alert[i] # acopy[r] THEN stale \union {"alert"} ELSE stale
        /\ IF op[r].kind = "readAlert"
           THEN /\ SetAlert(i, [acopy[r] EXCEPT !.read = TRUE])
                /\ UNCHANGED resolved
           ELSE /\ SetAlert(i, [acopy[r] EXCEPT !.open = FALSE])
                /\ resolved' = resolved \union {i}
        /\ Goto(r, "end")
        /\ UNCHANGED <<row, fileVars, siteVars, jobCopies, asked, overlapped>>

\* resolve_all_alerts and mark_all_read are single statements.
ResolveAll(r) ==
    /\ At(r, "resolveAll", "start")
    /\ db' = [db EXCEPT !.alert = [i \in Ids |-> [db.alert[i] EXCEPT !.open = FALSE]]]
    /\ resolved' = resolved \union OpenOnes
    /\ Goto(r, "end")
    /\ UNCHANGED <<row, fileVars, siteVars, jobCopies, asked, overlapped, stale>>

ReadAll(r) ==
    /\ At(r, "readAll", "start")
    /\ db' = [db EXCEPT !.alert =
                 [i \in Ids |-> [db.alert[i] EXCEPT !.read = db.alert[i].there]]]
    /\ Goto(r, "end")
    /\ UNCHANGED <<row, fileVars, siteVars, alertVars>>

\* cleanup_resolved_alerts: those resolved more than 30 days ago.
Cleanup(r) ==
    /\ At(r, "cleanup", "start")
    /\ \E old \in SUBSET (Existing \ OpenOnes) :
          db' = [db EXCEPT !.alert = [i \in Ids |-> IF i \in old THEN NoAlert ELSE db.alert[i]]]
    /\ Goto(r, "end")
    /\ UNCHANGED <<row, fileVars, siteVars, alertVars>>

\* create_threshold, which may be refused.
AddLimit(r) ==
    /\ At(r, "addLimit", "start")
    /\ \/ \E m \in Settings :
             /\ SetLimit(r, [there |-> TRUE, metric |-> m])
             /\ asked' = [asked EXCEPT ![r] = [there |-> TRUE, metric |-> m]]
       \/ UNCHANGED <<db, asked>>
    /\ Goto(r, "end")
    /\ UNCHANGED <<row, fileVars, siteVars, jobCopies, resolved, overlapped, stale>>

LoadLimit(r) ==
    /\ pc[r] = "start" /\ op[r].kind \in {"setLimit", "dropLimit"}
    /\ lcopy' = [lcopy EXCEPT ![r] = db.limit[op[r].id]]
    /\ Goto(r, IF db.limit[op[r].id].there THEN "saveLimit" ELSE "end")
    /\ UNCHANGED <<storeVars, want, acopy, alertPast>>

\* update_threshold saves every column from the request, delete_threshold removes.
SaveLimit(r) ==
    /\ pc[r] = "saveLimit"
    /\ \E new \in IF op[r].kind = "setLimit" THEN [there : {TRUE}, metric : Settings]
                                            ELSE {NoLimit} :
          /\ SetLimit(op[r].id, new)
          /\ asked' = [asked EXCEPT ![op[r].id] = new]
    /\ Goto(r, "end")
    /\ UNCHANGED <<row, fileVars, siteVars, jobCopies, resolved, overlapped, stale>>

AlertStep(r) ==
    \/ Compare(r) \/ LookForAlert(r) \/ CreateAlert(r) \/ Stamp(r)
    \/ LoadAlert(r) \/ SaveAlert(r) \/ ResolveAll(r) \/ ReadAll(r) \/ Cleanup(r)
    \/ AddLimit(r) \/ LoadLimit(r) \/ SaveLimit(r)

-----------------------------------------------------------------------------
(***************************************************************************)
(* Properties.                                                              *)
(***************************************************************************)

\* Two open alerts say different things: another category, another severity, or
\* another count, of the mail queue or of the accounts without storage, unless two
\* jobs looked before either created.  What was resolved stays resolved, and the
\* thresholds are those the administrators asked for last, unless a stale row was
\* saved over one.  A database that was restored or emptied owes nothing of this.
AlertsAreTrue ==
    \/ rewound
    \/ /\ "alert" \notin stale =>
             /\ \A i \in resolved : ~db.alert[i].open
             /\ \A i, j \in OpenOnes : (i # j /\ ~overlapped) =>
                   \/ db.alert[i].cat # db.alert[j].cat
                   \/ db.alert[i].sev # db.alert[j].sev
                   \/ db.alert[i].cat \in ByCount /\ db.alert[i].value # db.alert[j].value
       /\ "limit" \notin stale => db.limit = asked
=============================================================================
