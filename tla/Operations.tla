----------------------------- MODULE Operations -----------------------------
(***************************************************************************)
(* The operations of an installed panel together: backups, alerts and       *)
(* repairs beside each other on one database and one stack.  They meet in   *)
(* the restore, which replaces the rows of the alerts, in the factory       *)
(* reset, which empties the database and then takes the stack away, and in  *)
(* the restart of the stack, which ends the tasks of the workers.           *)
(***************************************************************************)
EXTENDS AlertCenter, StackHealth

CONSTANT Asked      \* the operations a job may stand for

OpKinds == {"backup", "schedule", "restore", "deleteBackup", "reset", "evaluate", "metrics",
            "queue", "logins", "readAlert", "resolveAlert", "resolveAll", "readAll", "cleanup",
            "addLimit", "setLimit", "dropLimit", "autoHeal", "fullRepair", "wizardHeal", "sendHeal",
            "routingFix", "outboundCheck", "postfixHeal", "dovecotHeal", "restart", "control"}
Labels  == {"start", "end", "dead", "dump", "archive", "complete", "fail", "extract", "copy",
            "clean", "unlink", "drop", "flush", "teardown", "files", "look", "create", "stamp",
            "saveAlert", "saveLimit", "probe", "ca", "caOnly", "cert", "certOnly", "postfix",
            "dovecot", "again", "routing", "outbound", "ensure", "ensureAgain", "maps", "mapsBad",
            "quota", "quotaBad", "last", "restartDaemons"}

ASSUME AskedAssumption == Asked \subseteq [kind : OpKinds, id : Ids]

vars == <<jobVars, storeVars, alertVars, stackVars>>

TypeOK ==
    /\ op \in [Requests -> Asked]
    /\ pc \in [Requests -> Labels]
    /\ faults \in 0..MaxFaults
    /\ StoreTypeOK /\ AlertTypeOK /\ StackTypeOK

\* An earlier backup, whose archive was made while its row said running, and a
\* threshold with an open alert.
OldDb(m) == [backup |-> [EmptyOf(NoRow) EXCEPT ![First] = [NoRow EXCEPT !.status = "running"]],
             alert  |-> [EmptyOf(NoAlert) EXCEPT
                            ![First] = [NoAlert EXCEPT !.there = TRUE, !.open = TRUE,
                                                       !.cat = Category[m]]],
             limit  |-> [EmptyOf(NoLimit) EXCEPT ![First] = [there |-> TRUE, metric |-> m]]]

\* Which metric it watches matters only to jobs that compare with it.
FirstMetric == IF \E r \in Requests : op[r].kind \in Watchers THEN Metrics ELSE {"disk_usage"}

\* Which database it is matters only to a restore.
Engines == IF \E r \in Requests : op[r].kind = "restore" THEN {"sqlite", "postgres"} ELSE {"postgres"}

Init ==
    /\ op \in [Requests -> Asked]
    /\ pc = [r \in Requests |-> "start"]
    /\ faults = 0
    /\ \E m \in FirstMetric :
          /\ db = [OldDb(m) EXCEPT !.backup[First] = [status |-> "completed", file |-> TRUE]]
          /\ archive = [EmptyOf(NoArchive) EXCEPT ![First] = [state |-> "whole", dump |-> OldDb(m)]]
          /\ asked = OldDb(m).limit
    /\ row = [r \in Requests |-> NoRow]
    /\ dir = [r \in Requests |-> NoDump]
    /\ unpacked = EmptyOf(NoArchive)
    /\ engine \in Engines
    /\ configured = TRUE
    /\ rewound = FALSE /\ cut = {}
    /\ want = [r \in Requests |-> [cat |-> "disk", sev |-> "critical", value |-> 1]]
    /\ acopy = [r \in Requests |-> NoAlert]
    /\ lcopy = [r \in Requests |-> NoLimit]
    /\ resolved = {} /\ overlapped = FALSE /\ stale = {}
    /\ vol = [f \in {"ca", "cert"} |-> First]
    /\ mem = [d \in Daemons |-> First]
    /\ up = [d \in Daemons |-> "up"]
    /\ maps \in BOOLEAN
    /\ torn = FALSE /\ unloaded = {}

\* A job that dies leaves its last row and half of its files as they are, and the
\* one it was writing perhaps empty.
JobDies(r) ==
    /\ Die(r)
    /\ cut' = cut \union {r}
    /\ CutOff({r})
    /\ UNCHANGED <<db, row, fileVars, engine, configured, rewound, alertVars,
                   mem, up, maps, unloaded>>

Next ==
    \/ \E r \in {q \in Requests : pc[q] \notin {"end", "dead"}} :
          \/ (StoreStep(r) \/ Flush(r, EmptyDb)) /\ UNCHANGED <<alertVars, stackVars>>
          \/ AlertStep(r) /\ UNCHANGED stackVars
          \/ StackStep(r) /\ UNCHANGED <<storeVars, alertVars>>
          \/ JobDies(r)
    \/ (ContainerStops \/ ContainerStarts) /\ UNCHANGED <<storeVars, alertVars>>

Spec == Init /\ [][Next]_vars
=============================================================================
