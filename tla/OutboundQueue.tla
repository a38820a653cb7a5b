---------------------------- MODULE OutboundQueue ----------------------------
(***************************************************************************)
(* The background send pipeline of the webmail.  A request thread of the    *)
(* panel logs the message in MailOutboundLog, stores its attachments on     *)
(* disk and publishes the task send_mail_async; a Celery worker runs it.    *)
(* When publishing raises, the thread runs the same task itself.  There is  *)
(* no transaction and no lock: every ORM call, file operation and SMTP      *)
(* dialogue is a step of its own, and threads, workers, crashes and the     *)
(* deletion of the account interleave between any two of them.              *)
(***************************************************************************)
EXTENDS Naturals

CONSTANTS Requests,     \* the POST requests that ask for a message to be sent
          Kinds,        \* the endpoints they may use, a subset of AllKinds
          SharedMedia,  \* do panel and worker see the same MEDIA_ROOT?
          MaxCrashes    \* bound: processes that die while serving a request

(* "send" is POST /send with background=true, "direct" the same endpoint    *)
(* with background=false; "reply" is a caller of queue_outbound_send that   *)
(* logs nothing itself (reply drafts, the assistant's send_mail); "attach"  *)
(* and "attachDirect" are POST /send-attachments, background or not.        *)
AllKinds == {"send", "direct", "reply", "attach", "attachDirect"}

ASSUME OutboundAssumption == /\ Kinds \subseteq AllKinds
                             /\ SharedMedia \in BOOLEAN
                             /\ MaxCrashes \in Nat

VARIABLES account,    \* does the sender's account still exist?
          kind,       \* endpoint of each request, chosen when it arrives
          web,        \* where the request thread stands
          row,        \* the MailOutboundLog row that is to be settled
          interim,    \* the extra row POST /send creates and then deletes
          files,      \* hosts whose outbound_queue/<id> directory exists
          pc,         \* where each run of send_mail_async stands
          got,        \* runs that hold the attachments in memory
          delivered,  \* copies of the message Postfix accepted
          bare,       \* requests with a copy accepted without attachments
          copies,     \* copies appended to the IMAP Sent folder
          told,       \* outcomes published over SSE
          fault,      \* history: what went wrong around the request
          crashes     \* processes that died so far

vars == <<account, kind, web, row, interim, files, pc, got, delivered, bare,
          copies, told, fault, crashes>>

Executors == {"web", "celery"}
Job == [req : Requests, by : Executors]
WebJob(r)    == [req |-> r, by |-> "web"]
WorkerJob(r) == [req |-> r, by |-> "celery"]

\* The host whose disk a run reads and cleans.
Host(by) == IF SharedMedia THEN "web" ELSE by

Attached   == {"attach", "attachDirect"}
Unqueued   == {"direct", "attachDirect"}   \* sent by the thread, no task

WebState == {"idle", "accepted", "logged", "dropped", "created", "ready",
             "inline", "direct", "done", "failed"}
RowState == {"absent", "pending", "sent", "failed", "gone"}
Attempt  == {"submit1", "submit2", "submit3"}
Idle     == {"none", "queued", "done", "dead"}
PC       == Idle \cup Attempt \cup
            {"load", "decrypt", "check", "open", "append", "ok", "fail",
             "saveOk", "saveFail", "saveNoKey", "saveError", "cleanError",
             "tellSent", "tellFailed"}
Fault    == {"unconfirmed", "ambiguous", "decrypt", "lost"}

TypeOK == /\ account \in BOOLEAN
          /\ kind \in [Requests -> AllKinds \cup {"none"}]
          /\ web \in [Requests -> WebState]
          /\ row \in [Requests -> RowState]
          /\ interim \in [Requests -> BOOLEAN]
          /\ files \in [Requests -> SUBSET Executors]
          /\ pc \in [Job -> PC]
          /\ got \in SUBSET Job
          /\ delivered \in [Requests -> Nat]
          /\ bare \in SUBSET Requests
          /\ copies \in [Requests -> Nat]
          /\ told \in [Requests -> SUBSET {"sent", "failed"}]
          /\ fault \in [Requests -> SUBSET Fault]
          /\ crashes \in Nat

Init == /\ account = TRUE
        /\ kind = [r \in Requests |-> "none"]
        /\ web = [r \in Requests |-> "idle"]
        /\ row = [r \in Requests |-> "absent"]
        /\ interim = [r \in Requests |-> FALSE]
        /\ files = [r \in Requests |-> {}]
        /\ pc = [j \in Job |-> "none"]
        /\ got = {}
        /\ delivered = [r \in Requests |-> 0]
        /\ bare = {}
        /\ copies = [r \in Requests |-> 0]
        /\ told = [r \in Requests |-> {}]
        /\ fault = [r \in Requests |-> {}]
        /\ crashes = 0

mail == <<delivered, bare, copies, told>>

-----------------------------------------------------------------------------
(* The request thread.                                                      *)

\* A request with a live session and valid recipients reaches the handler.
Submit(r) == /\ web[r] = "idle" /\ account
             /\ \E k \in Kinds : kind' = [kind EXCEPT ![r] = k]
             /\ web' = [web EXCEPT ![r] = "accepted"]
             /\ UNCHANGED <<account, row, interim, files, pc, got, mail,
                            fault, crashes>>

\* POST /send logs the message first; a database error there is ignored.
CreateInterim(r) ==
    /\ web[r] = "accepted" /\ kind[r] = "send"
    /\ web' = [web EXCEPT ![r] = "logged"]
    /\ \E ok \in BOOLEAN : /\ ok => account
                           /\ interim' = [interim EXCEPT ![r] = ok]
    /\ UNCHANGED <<account, kind, row, files, pc, got, mail, fault, crashes>>

\* ... and deletes that row again before it queues the message.
DropInterim(r) ==
    /\ web[r] = "logged"
    /\ interim' = [interim EXCEPT ![r] = FALSE]
    /\ web' = [web EXCEPT ![r] = "dropped"]
    /\ UNCHANGED <<account, kind, row, files, pc, got, mail, fault, crashes>>

\* Variant: the attachments are not stored before the task is published.
CreateRowUnstored(r) ==
    /\ \/ web[r] = "dropped"
       \/ web[r] = "accepted" /\ kind[r] \in {"reply", "attach"}
    /\ account
    /\ row' = [row EXCEPT ![r] = "pending"]
    /\ web' = [web EXCEPT ![r] = "ready"]
    /\ UNCHANGED <<account, kind, interim, files, pc, got, mail, fault,
                   crashes>>

\* The row the task will settle.  Without the account the insert fails and
\* the request answers with an error.
CreateRow(r) ==
    /\ \/ web[r] = "dropped"
       \/ web[r] = "accepted" /\ kind[r] \in {"reply", "attach"}
    /\ IF account
       THEN /\ row' = [row EXCEPT ![r] = "pending"]
            /\ web' = [web EXCEPT ![r] = IF kind[r] = "attach" THEN "created"
                                                               ELSE "ready"]
       ELSE /\ web' = [web EXCEPT ![r] = "failed"]
            /\ UNCHANGED row
    /\ UNCHANGED <<account, kind, interim, files, pc, got, mail, fault,
                   crashes>>

\* save_outbound_attachments: the directory is made first, so a write error
\* leaves part of the files behind and, with them, a row nobody will settle.
StoreFiles(r) ==
    /\ web[r] = "created"
    /\ files' = [files EXCEPT ![r] = @ \cup {"web"}]
    /\ \/ /\ web' = [web EXCEPT ![r] = "ready"]
          /\ UNCHANGED fault
       \/ /\ web' = [web EXCEPT ![r] = "failed"]
          /\ fault' = [fault EXCEPT ![r] = @ \cup {"lost"}]
    /\ UNCHANGED <<account, kind, row, interim, pc, got, mail, crashes>>

\* send_mail_async.delay: the broker takes the task,
PublishTask(r) ==
    /\ web[r] = "ready"
    /\ pc' = [pc EXCEPT ![WorkerJob(r)] = "queued"]
    /\ web' = [web EXCEPT ![r] = "done"]
    /\ UNCHANGED <<account, kind, row, interim, files, got, mail, fault,
                   crashes>>

\* or it is unreachable and the thread runs the task itself,
PublishRefused(r) ==
    /\ web[r] = "ready"
    /\ pc' = [pc EXCEPT ![WebJob(r)] = "load"]
    /\ web' = [web EXCEPT ![r] = "inline"]
    /\ UNCHANGED <<account, kind, row, interim, files, got, mail, fault,
                   crashes>>

\* or it takes the task, the connection breaks before the reply, and the
\* thread runs a task that is queued as well.
PublishUnconfirmed(r) ==
    /\ web[r] = "ready"
    /\ pc' = [pc EXCEPT ![WebJob(r)] = "load", ![WorkerJob(r)] = "queued"]
    /\ web' = [web EXCEPT ![r] = "inline"]
    /\ fault' = [fault EXCEPT ![r] = @ \cup {"unconfirmed"}]
    /\ UNCHANGED <<account, kind, row, interim, files, got, mail, crashes>>

\* background=false: POST /send logs the message if it can, and the thread
\* calls send_mail itself with the attachments of the request in hand.
StartDirect(r) ==
    /\ web[r] = "accepted" /\ kind[r] \in Unqueued
    /\ web' = [web EXCEPT ![r] = "direct"]
    /\ \/ /\ kind[r] = "direct" /\ account
          /\ row' = [row EXCEPT ![r] = "pending"]
       \/ UNCHANGED row
    /\ pc' = [pc EXCEPT ![WebJob(r)] = "submit1"]
    /\ got' = IF kind[r] = "attachDirect" THEN got \cup {WebJob(r)} ELSE got
    /\ UNCHANGED <<account, kind, interim, files, mail, fault, crashes>>

-----------------------------------------------------------------------------
(* A run of send_mail_async, by a worker or inside the request thread.      *)

\* The end of a run that raises: nothing is recorded, nothing is published.
Raise(j) == /\ pc' = [pc EXCEPT ![j] = "dead"]
            /\ fault' = [fault EXCEPT ![j.req] = @ \cup {"lost"}]
            /\ web' = IF j.by = "web" THEN [web EXCEPT ![j.req] = "failed"]
                                      ELSE web

\* A run moves on; an inline run that ends lets the thread answer.
Goto(j, next) ==
    /\ pc' = [pc EXCEPT ![j] = next]
    /\ web' = IF j.by = "web" /\ next = "done"
              THEN [web EXCEPT ![j.req] = "done"] ELSE web

\* A worker takes the task; Celery acknowledges it before running it.
Take(j) == /\ pc[j] = "queued"
           /\ Goto(j, "load")
           /\ UNCHANGED <<account, kind, row, interim, files, got, mail,
                          fault, crashes>>

\* No row, nothing to do: not even for the files it came with.
Load(j) == /\ pc[j] = "load"
           /\ Goto(j, IF row[j.req] \in {"absent", "gone"} THEN "done"
                                                           ELSE "decrypt")
           /\ UNCHANGED <<account, kind, row, interim, files, got, mail,
                          fault, crashes>>

\* The worker may have another SECRET_KEY than the thread that encrypted.
Decrypt(j) ==
    /\ pc[j] = "decrypt"
    /\ \/ /\ Goto(j, IF kind[j.req] = "attach" THEN "check" ELSE "submit1")
          /\ UNCHANGED fault
       \/ /\ j.by = "celery"
          /\ Goto(j, "saveNoKey")
          /\ fault' = [fault EXCEPT ![j.req] = @ \cup {"decrypt"}]
    /\ UNCHANGED <<account, kind, row, interim, files, got, mail, crashes>>

\* os.path.isfile: an attachment that is not there is skipped.
CheckFile(j) ==
    /\ pc[j] = "check"
    /\ Goto(j, IF Host(j.by) \in files[j.req] THEN "open" ELSE "submit1")
    /\ UNCHANGED <<account, kind, row, interim, files, got, mail, fault,
                   crashes>>

\* open(path): a file removed since the check raises out of the task.
OpenFile(j) ==
    /\ pc[j] = "open"
    /\ IF Host(j.by) \in files[j.req]
       THEN /\ Goto(j, "submit1")
            /\ got' = got \cup {j}
            /\ UNCHANGED fault
       ELSE Raise(j) /\ UNCHANGED got
    /\ UNCHANGED <<account, kind, row, interim, files, mail, crashes>>

Delivery(j) ==
    /\ delivered' = [delivered EXCEPT ![j.req] = @ + 1]
    /\ bare' = IF kind[j.req] \in Attached /\ j \notin got
               THEN bare \cup {j.req} ELSE bare

\* Postfix takes the message.  Only the first attempt appends to Sent.
Accepted(j) == /\ pc[j] \in Attempt
               /\ Delivery(j)
               /\ Goto(j, IF pc[j] = "submit1" THEN "append" ELSE "ok")
               /\ UNCHANGED <<account, kind, row, interim, files, got, copies,
                              told, fault, crashes>>

\* Variant: any error of the dialogue is retried, not only a TLS error.
AcceptedRetried(j) ==
    /\ pc[j] \in Attempt
    /\ Delivery(j)
    /\ Goto(j, IF pc[j] = "submit1" THEN "submit2" ELSE "fail")
    /\ fault' = [fault EXCEPT ![j.req] = @ \cup {"ambiguous"}]
    /\ UNCHANGED <<account, kind, row, interim, files, got, copies, told,
                   crashes>>

\* Postfix takes the message, but the reply to DATA or to QUIT is lost or
\* is an error: smtplib raises and send_mail reports a failure.
AcceptedUnheard(j) ==
    /\ pc[j] \in Attempt
    /\ Delivery(j)
    /\ Goto(j, "fail")
    /\ fault' = [fault EXCEPT ![j.req] = @ \cup {"ambiguous"}]
    /\ UNCHANGED <<account, kind, row, interim, files, got, copies, told,
                   crashes>>

\* Variant: a refusal of Postfix is not looked at.
RefusalIgnored(j) == /\ pc[j] \in Attempt
                     /\ Goto(j, "ok")
                     /\ UNCHANGED <<account, kind, row, interim, files, got,
                                    mail, fault, crashes>>

\* No recipient, no DKIM signature, no connection, AUTH or RCPT refused.
Refused(j) == /\ pc[j] \in Attempt
              /\ Goto(j, "fail")
              /\ UNCHANGED <<account, kind, row, interim, files, got, mail,
                             fault, crashes>>

\* The TLS handshake fails: retry with a reloaded CA, then with a new PKI;
\* building that PKI may itself raise out of send_mail.
TlsError(j) ==
    /\ \/ pc[j] = "submit1" /\ Goto(j, "submit2") /\ UNCHANGED fault
       \/ pc[j] = "submit2" /\ Goto(j, "submit3") /\ UNCHANGED fault
       \/ pc[j] = "submit3" /\ Goto(j, "fail") /\ UNCHANGED fault
       \/ /\ pc[j] = "submit2"
          /\ IF kind[j.req] \in Unqueued
             THEN Raise(j)
             ELSE Goto(j, "saveError") /\ UNCHANGED fault
    /\ UNCHANGED <<account, kind, row, interim, files, got, mail, crashes>>

\* Variant: a failed append to Sent is reported as a failed send.
AppendFatal(j) ==
    /\ pc[j] = "append"
    /\ \/ copies' = [copies EXCEPT ![j.req] = @ + 1] /\ Goto(j, "ok")
       \/ UNCHANGED copies /\ Goto(j, "fail")
    /\ UNCHANGED <<account, kind, row, interim, files, got, delivered, bare,
                   told, fault, crashes>>

\* The IMAP append to Sent; its failure is only a warning.
AppendSent(j) ==
    /\ pc[j] = "append"
    /\ \/ copies' = [copies EXCEPT ![j.req] = @ + 1]
       \/ UNCHANGED copies
    /\ Goto(j, "ok")
    /\ UNCHANGED <<account, kind, row, interim, files, got, delivered, bare,
                   told, fault, crashes>>

RemoveFiles(j) == files' = [files EXCEPT ![j.req] = @ \ {Host(j.by)}]

\* Variant: the outcome is published and not saved.
CleanupAndTell(j) == /\ kind[j.req] \notin Unqueued
                     /\ \/ pc[j] = "ok"   /\ Goto(j, "tellSent")
                        \/ pc[j] = "fail" /\ Goto(j, "tellFailed")
                     /\ RemoveFiles(j)
                     /\ UNCHANGED <<account, kind, row, interim, got, mail,
                                    fault, crashes>>

\* send_mail returned: the directory is removed before the row is settled,
Cleanup(j) == /\ kind[j.req] \notin Unqueued
              /\ \/ pc[j] = "ok"   /\ Goto(j, "saveOk")
                 \/ pc[j] = "fail" /\ Goto(j, "saveFail")
              /\ RemoveFiles(j)
              /\ UNCHANGED <<account, kind, row, interim, got, mail, fault,
                             crashes>>

\* Variant: an unreadable password defers the message.
SaveDeferred(j) ==
    /\ pc[j] = "saveNoKey" /\ row[j.req] # "gone"
    /\ row' = [row EXCEPT ![j.req] = "deferred"]
    /\ Goto(j, "tellFailed")
    /\ UNCHANGED <<account, kind, interim, files, got, mail, fault, crashes>>

\* Variant: an exception of send_mail is published but the row stays as it is.
SaveUnlessError(j) ==
    /\ pc[j] \in {"saveOk", "saveFail", "saveNoKey", "saveError"}
    /\ row[j.req] # "gone"
    /\ row' = [row EXCEPT ![j.req] = CASE pc[j] = "saveOk"    -> "sent"
                                       [] pc[j] = "saveError" -> @
                                       [] OTHER               -> "failed"]
    /\ Goto(j, IF pc[j] = "saveOk" THEN "tellSent" ELSE "tellFailed")
    /\ UNCHANGED <<account, kind, interim, files, got, mail, fault, crashes>>

\* save(update_fields=[...]) writes the status whatever it is now, and
\* raises when the row is gone.  On the two error paths it comes first.
SaveStatus(j) ==
    /\ pc[j] \in {"saveOk", "saveFail", "saveNoKey", "saveError"}
    /\ IF row[j.req] = "gone"
       THEN Raise(j) /\ UNCHANGED row
       ELSE /\ row' = [row EXCEPT ![j.req] = IF pc[j] = "saveOk"
                                             THEN "sent" ELSE "failed"]
            /\ \/ pc[j] = "saveOk" /\ Goto(j, "tellSent")
               \/ pc[j] = "saveError" /\ Goto(j, "cleanError")
               \/ /\ pc[j] \in {"saveFail", "saveNoKey"}
                  /\ Goto(j, "tellFailed")
            /\ UNCHANGED fault
    /\ UNCHANGED <<account, kind, interim, files, got, mail, crashes>>

\* Variant: the error path leaves the directory behind.
CleanupForgotten(j) ==
    /\ pc[j] = "cleanError"
    /\ Goto(j, "tellFailed")
    /\ UNCHANGED <<account, kind, row, interim, files, got, mail, fault,
                   crashes>>

\* after an exception of send_mail the directory is removed last.
CleanupAfterError(j) ==
    /\ pc[j] = "cleanError"
    /\ RemoveFiles(j)
    /\ Goto(j, "tellFailed")
    /\ UNCHANGED <<account, kind, row, interim, got, mail, fault, crashes>>

\* publish_outbound_status; an error of Redis is swallowed.
Tell(j) ==
    /\ pc[j] \in {"tellSent", "tellFailed"}
    /\ \/ told' = [told EXCEPT ![j.req] = @ \cup
                     {IF pc[j] = "tellSent" THEN "sent" ELSE "failed"}]
       \/ UNCHANGED told
    /\ Goto(j, "done")
    /\ UNCHANGED <<account, kind, row, interim, files, got, delivered, bare,
                   copies, fault, crashes>>

\* background=false: the handler settles the row it created, if it has one.
FinishDirect(j) ==
    /\ kind[j.req] \in Unqueued /\ pc[j] \in {"ok", "fail"}
    /\ \/ row[j.req] = "gone" /\ Raise(j) /\ UNCHANGED row
       \/ row[j.req] = "absent" /\ Goto(j, "done") /\ UNCHANGED <<row, fault>>
       \/ /\ row[j.req] \notin {"gone", "absent"}
          /\ row' = [row EXCEPT ![j.req] = IF pc[j] = "ok" THEN "sent"
                                                          ELSE "failed"]
          /\ Goto(j, "done")
          /\ UNCHANGED fault
    /\ UNCHANGED <<account, kind, interim, files, got, mail, crashes>>

-----------------------------------------------------------------------------
(* What the pipeline does not control.                                      *)

\* An administrator deletes the account; its log rows go with it.
DeleteAccount ==
    /\ account
    /\ account' = FALSE
    /\ row' = [r \in Requests |-> IF row[r] = "absent" THEN "absent"
                                                       ELSE "gone"]
    /\ interim' = [r \in Requests |-> FALSE]
    /\ UNCHANGED <<kind, web, files, pc, got, mail, fault, crashes>>

\* Variant: the broker hands the task of a dead worker to another one.
CrashRedelivered(j) ==
    /\ pc[j] \notin Idle /\ j.by = "celery" /\ crashes < MaxCrashes
    /\ pc' = [pc EXCEPT ![j] = "queued"]
    /\ crashes' = crashes + 1
    /\ UNCHANGED <<account, kind, web, row, interim, files, got, mail, fault>>

\* The process of a run dies (deploy, out of memory, gunicorn timeout).  The
\* task was acknowledged when it was taken, so nobody runs it again.
CrashRun(j) ==
    /\ pc[j] \notin Idle /\ crashes < MaxCrashes
    /\ Raise(j)
    /\ crashes' = crashes + 1
    /\ UNCHANGED <<account, kind, row, interim, files, got, mail>>

\* The request thread dies, or raises, before it has started a run.
CrashThread(r) ==
    /\ web[r] \in {"accepted", "logged", "dropped", "created", "ready"}
    /\ crashes < MaxCrashes
    /\ web' = [web EXCEPT ![r] = "failed"]
    /\ fault' = [fault EXCEPT ![r] = @ \cup {"lost"}]
    /\ crashes' = crashes + 1
    /\ UNCHANGED <<account, kind, row, interim, files, pc, got, mail>>

Thread(r) == \/ CreateInterim(r) \/ DropInterim(r) \/ CreateRow(r)
             \/ StoreFiles(r) \/ StartDirect(r)
             \/ PublishTask(r) \/ PublishRefused(r) \/ PublishUnconfirmed(r)

Run(j) == \/ Take(j) \/ Load(j) \/ Decrypt(j) \/ CheckFile(j) \/ OpenFile(j)
          \/ Accepted(j) \/ AcceptedUnheard(j) \/ Refused(j) \/ TlsError(j)
          \/ AppendSent(j) \/ Cleanup(j) \/ SaveStatus(j)
          \/ CleanupAfterError(j) \/ Tell(j) \/ FinishDirect(j)

Next == \/ \E r \in Requests : Submit(r) \/ Thread(r) \/ CrashThread(r)
        \/ \E j \in Job : Run(j) \/ CrashRun(j)
        \/ DeleteAccount

\* Threads and workers that have work go on with it; SMTP, IMAP and Redis
\* calls end, because each has a timeout.  Nobody has to submit anything.
Fairness == /\ \A r \in Requests : WF_vars(Thread(r))
            /\ \A j \in Job : WF_vars(Run(j))

Spec     == Init /\ [][Next]_vars
FairSpec == Spec /\ Fairness

-----------------------------------------------------------------------------
(* Properties.                                                              *)

\* A row says "sent" only for a message Postfix has accepted, and the Sent
\* folder never holds more copies than Postfix took: the append and the save
\* of send_mail_async come after the submission, on every path through the
\* TLS repairs, the inline run and the worker.
SentIsDelivered ==
    \A r \in Requests : /\ row[r] = "sent" => delivered[r] > 0
                        /\ copies[r] <= delivered[r]

\* Postfix accepts a message at most once; a second copy needs a publication
\* whose outcome the thread misread, and there is never a third: the TLS
\* retries of send_mail and the synchronous fallback do not repeat a message.
DeliveredOnce ==
    \A r \in Requests :
        delivered[r] <= (IF "unconfirmed" \in fault[r] THEN 2 ELSE 1)

\* A row says "failed" for a message that left only when the reply of Postfix
\* was lost or a second run was under way: what happens after the acceptance
\* (Sent append, cleanup) never turns a sent message into a failed one.
FailedIsHonest ==
    \A r \in Requests :
        row[r] = "failed" /\ delivered[r] > 0
            => fault[r] \cap {"ambiguous", "unconfirmed"} # {}

\* A message sent with attachments reaches Postfix with them: the files are
\* stored before the task is published and no other run removes them first
\* (unless the publication was in doubt and two runs share the directory).
AttachmentsDelivered ==
    \A r \in bare : "unconfirmed" \in fault[r]

\* The outcome published over SSE is the one the log already shows, so a
\* client that reloads on the event reads the settled row.
ToldIsRecorded ==
    \A r \in Requests : \A s \in told[r] :
        row[r] \in {s, "gone"} \/ "unconfirmed" \in fault[r]

Ended(r) == /\ web[r] \in {"done", "failed"}
            /\ pc[WebJob(r)] \in {"none", "done", "dead"}
            /\ pc[WorkerJob(r)] \in {"none", "done", "dead"}

\* Once nobody works on a message its attachments are off the shared disk,
\* except after a crash, an unreadable password (the early return of
\* send_mail_async skips the cleanup) or the deletion of the account.
FilesReclaimed ==
    \A r \in Requests :
        Ended(r) /\ files[r] # {}
            => fault[r] \cap {"lost", "decrypt"} # {} \/ row[r] = "gone"

\* Every row left pending, the one POST /send creates for itself included, is
\* settled or removed, in whatever order threads and workers run, unless a
\* process died or raised while it served that message.
PendingIsSettled ==
    \A r \in Requests :
        row[r] = "pending" \/ interim[r]
            ~> (row[r] # "pending" /\ ~interim[r]) \/ "lost" \in fault[r]

\* The pipeline keeps the promises of the abstract log: one row per message,
\* an outcome that is final, no second delivery, except after a publication in
\* doubt, which the refinement reads off the history.
Log == INSTANCE OutboundLog WITH
           doubtful <- {r \in Requests : "unconfirmed" \in fault[r]}
LogPromise == Log!LogSpec
=============================================================================
