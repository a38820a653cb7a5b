# jirmail: TLA+ models, model checking and proofs

This directory holds formal models of the parts of jirmail where several
processes share state: the background send pipeline and the webmail page beside
it, planned messages, the mail agent with its approval queue, the copy of the
mailbox and the assistant that acts on it, the installation wizard, accounts and
domains with their DNS zone, and the operations of the installed panel (backups,
alerts, repairs). Every module is a translation of the Python (or JavaScript)
code named in `PROJECT.json` under `map`; docs were only used to find out what a
reader may expect of the code.

| Modules | Part of the system | Section |
|---|---|---|
| `OutboundLog` (abstract), `OutboundQueue`, `OutboundClient` | background sending, the page's list of pending messages | 3.1, 3.2 |
| `PlannedLog` (abstract), `ScheduledMail` | planned messages | 3.3 |
| `ApprovalLog` (abstract), `MailAgent` | mail agent, approval queue | 3.4 |
| `MailboxCache`, `Assistant`, `MCMailbox` | mailbox and its copy; chat commands and stored tasks | 3.5 |
| `InstallerRun` | installation wizard | 3.6 |
| `DomainDns`, `PanelAdmin`, `MCPanel` | domain, key and zone; accounts and lookup file | 3.7 |
| `PanelJobs`, `BackupStore`, `AlertCenter`, `StackHealth`, `Operations`, `MCOperations` | backups, alerts, repairs, and all of them together | 3.8 |
| modules named `..._proofs` | theorems and their proofs | 6 |

## 1. The system

jirmail is a Django panel (gunicorn, several threads), a Celery worker with
two processes, a Celery beat, PostgreSQL, Redis (broker and pub/sub), and a
mail stack (Postfix, Dovecot) in containers of its own. Three facts about it
shape all that follows:

- There is next to no transaction and no row lock in the code. Each ORM call,
  each file operation, and each SMTP or IMAP dialogue is a step of its own,
  and every other process may act between two of them.
- Celery acknowledges a task when a worker takes it (`config/celery.py` and
  `config/settings.py` set no late acknowledgement). A worker that dies loses
  its task.
- `save(update_fields=[...])` writes a column without a look at its present
  value, and raises when the row is gone.

### 1.1 Components

| Component | State | Operations | Interacts with | What is hard | What makes it correct |
|---|---|---|---|---|---|
| Background sending: `webmail/outbound_queue.py`, `tasks.py`, `smtp_client.py`, `api.py` | `MailOutboundLog` rows, `outbound_queue/<id>/` directories, broker queue, Sent folder | POST /send, /send-attachments, reply drafts, the assistant; `send_mail_async`; `send_mail` | Celery, Postfix, Dovecot, Redis SSE | dying processes, publication in doubt, lost SMTP replies, deletion of the account, shared directory | a row tells what happened; no second delivery; files arrive and are reclaimed; every row is settled |
| Webmail page: `static/js/webmail/mail-app.js` | `outboundPending` | answer of the POST, SSE event, list at load | the pipeline | three channels without an order | the bar names messages that are pending |
| Scheduled mail: `webmail/tasks.py` 205-255 | `ScheduledMail` rows | plan, tick, send, save | beat, Postfix | runs overlap, crash between send and save, failing saves | honest outcome, no repetition without cause, every due message is settled |
| Mail agent: `webmail/ai/agent.py`, `ai/approval.py` | profile mode, rules, `ai_meta`, `MailAiPendingAction` rows, cache rows | agent cycle, organize, approve, reject | IMAP, language model, cache | minutes between read and use, two runs, two requests, lost IMAP answers | risky actions need an approval; status is honest; nothing is hidden that is in the inbox |
| Mailbox cache: `webmail/imap_client.py`, `api.py`, `tasks.py` | `MailFolder`, `MailMessageCache` | synchronize, flags, move, delete, read, drafts, folders | IMAP server, other mail clients, agent, assistant | server first and copy later, rows that are never removed, rebuilt folders | a listed message is where the list says, with the flags it has there |
| Assistant: `webmail/ai/nl_commands.py`, `ai/service.py`, `webmail/tasks.py` | `MailAiTask`, selected rows | chat command, summary, draft, stored task | language model, cache, outbound queue | a command holds uids for seconds to minutes; the end of a task raises | it moves what it found; a task acts once |
| Installation wizard: `installer/api.py`, `orchestrator.py`, `bootstrap_jobs.py` | `InstallationRun`, a daemon thread, per-process flags, the TLS volume, `SystemConfig` | start, steps of a run, bootstrap jobs, older setup request, event stream | Docker, DNS, the panel | check then create, dead thread, several web processes, two writers of one volume | late comers are refused; "completed" means installed; the CA in use is the one that is served |
| Accounts: `core/api.py`, `management/api.py` 1740-1851 | account rows, `vmail` lookup file | create (two handlers), rename, role, toggle, settings, delete | the domain, Postfix | count then act, stale rows saved whole, file rewritten whole | an active full administrator remains; limits hold; the file follows the rows |
| Domains and DNS: `core/api.py`, `dns_providers/`, `alerts/tasks.py` `check_domain_dns` | `MailDomain` row with its key, TXT records of the zone | add, toggle, update, verify, generate, apply, fix, delete, check | the DNS provider | calls fail one by one, stale rows | key and published record fit; foreign records stay, one SPF record |
| Backup: `backup/api.py`, `management/factory_reset.py` | `Backup` rows, archives, work directories | create, restore, delete, schedule; factory reset | pg_dump or SQLite, disk | the dump contains the row of its own backup; failing files and saves | "completed" means there is an archive |
| Alerts: `alerts/tasks.py`, `alerts/api.py` | thresholds, alerts | evaluate (three tasks and a request), acknowledge, resolve, clean, edit | monitoring, restore | overlap, whole-row saves | one open alert per cause; edits are not lost |
| Stack health: `management/mail_stack_health.py`, `mail_repair.py`, `mail_tls.py`, `stack_restart.py`, `installer/mail_pki.py` | TLS volume, certificates in memory, containers, Postfix maps | automatic, requested and wizard's repair; repair by a sending task; restart; tear-down | Docker | repairs at once, reload that fails, a daemon that starts in between | daemons serve the certificate that lies in the volume |
| Everything else | see `PROJECT.json` | | | I/O, rendering, configuration | |

`PROJECT.json` lists every component with its sources and with the reason for
what is left out, and under `hazards` each place where this code could go wrong
in a way a unit test would hardly reach.

### 1.2 How they interact

```
 page --POST--> request thread --row, files--> database, disk
  ^                  |  delay()                     ^
  |                  v                              | save(status)
  |               broker ----> worker: send_mail_async ---> Postfix, Sent
  |                                                 |
  +------------------- SSE <--- Redis <-------------+

 beat --tick--> broker --> worker: process_scheduled_mail --> send_mail
 beat --tick--> broker --> worker: run_agent_cycle --> model, IMAP, cache
 page --approve / reject--> MailAiPendingAction --> IMAP, cache
 page --list, flag, move, read--> IMAP, then cache <-- sync tasks, IDLE
 page --chat, task--> model --> IMAP, cache | outbound queue

 wizard --start--> InstallationRun + thread --> TLS volume, containers, SystemConfig
 panel --accounts, domains--> rows --> lookup file, DNS provider
 panel --backup, restore, reset--> database (alerts included), archives, containers
 beat, page, send error --repair--> TLS volume, reload of Postfix and Dovecot
```

The models are cut where the code is: sending knows nothing of the copy of a
mailbox, the wizard runs before there are accounts. Where parts do share state
they are composed: the page extends the pipeline, the assistant runs on the rows
of `MailboxCache` beside its jobs, accounts and domain meet in the deletion of a
domain (`PanelAdmin` extends `DomainDns`), and `Operations` puts backups, alerts
and repairs on one database and one stack.

## 2. Plan

In the order of what matters most to a user of the system.

| # | Module | Composes | Abstract specification | Theorems | State |
|---|---|---|---|---|---|
| 1 | `OutboundQueue` | | `OutboundLog` | all safety invariants, refinement | checked; proved except `PendingIsSettled` |
| 2 | `OutboundClient` | `OutboundQueue` | | | checked (finding) |
| 3 | `ScheduledMail` | | `PlannedLog` | TypeOK, OutcomeIsHonest, SentOnce, SettledIsFinal, refinement | checked; proved except `DueIsSettled` |
| 4 | `MailAgent` | | `ApprovalLog` | RiskyIsApproved, AppliedIsExecuted, RejectedIsHonest, OnePending, HiddenHasLeft, ResolvedIsFinal, refinement | checked; proved except `HitIsOffered` |
| 5 | `MailboxCache`, `Assistant` | `Assistant` extends the cache | | types, ListTellsPlace, FlagsAgree, TaskActsOnce, CommandsMoveFound | checked and proved |
| 6 | `InstallerRun` | | | TypeOK and the four invariants | checked; proved except `EarlyReaderIsAnswered` |
| 7 | `DomainDns`, `PanelAdmin` | `PanelAdmin` extends the domain | | TypeOK and all five properties | checked and proved |
| 8 | `BackupStore`, `AlertCenter`, `StackHealth` | `Operations` | | TypeOK, BackupsAreTrue, AlertsAreTrue, TlsIsServed | checked and proved |

What is left: other DNS providers, folder totals and search of the webmail, the
digest, the mail and configuration files of a backup (section 7).

## 3. The modules

### 3.1 OutboundQueue

The request thread and the run of `send_mail_async` are two state machines per
message, `web[r]` and `pc[j]`; a job `j` is a message and the process that runs
it, since the thread runs the task itself when publishing raises.

| Model | Code |
|---|---|
| `kind[r]` | the endpoint: POST /send with and without `background`, /send-attachments likewise, `queue_outbound_send` from reply drafts and the assistant |
| `web[r]` | place of the request thread in that handler |
| `row[r]`, `interim[r]` | the `MailOutboundLog` row the task will settle, and the one POST /send creates and deletes before |
| `files[r]` | hosts whose disk holds `outbound_queue/<id>` |
| `got` | runs that have read the attachments |
| `delivered`, `bare` | copies Postfix accepted, and messages of which it accepted one without its attachments |
| `copies` | Sent folder |
| `told` | outcomes published over SSE |
| `fault[r]` | a history variable: `unconfirmed` publication, `ambiguous` SMTP outcome, unreadable password (`decrypt`), a process that died or raised (`lost`) |

Actions follow the code in its order: `CreateInterim`, `DropInterim`,
`CreateRow`, `StoreFiles`, `PublishTask` / `PublishRefused` /
`PublishUnconfirmed`, `StartDirect` for the thread; `Take`, `Load`, `Decrypt`,
`CheckFile`, `OpenFile`, `Accepted` / `AcceptedUnheard` / `Refused` /
`TlsError`, `AppendSent`, `Cleanup`, `SaveStatus`, `CleanupAfterError`, `Tell`,
`FinishDirect` for a run. `DeleteAccount`, `CrashRun`, `CrashThread` may come
between any two.

Abstractions. Recipients, text and headers are not represented: a message is
accepted whole or refused. The attachments of a message are one directory:
present or not. A database error is modelled where the code handles it
(`CreateInterim`); elsewhere it is a raise and so the same as a crash of that
thread. `shutil.rmtree(ignore_errors=True)` is taken to remove the directory.

`OutboundLog` is what a user may rely on, without threads, tasks or SMTP: a row
is settled once, "sent" only after a delivery, one delivery only, except for a
message whose publication was in doubt. `OutboundQueue` implements it under
`doubtful <- messages with an unconfirmed publication` (`LogPromise`).

### 3.2 OutboundClient

Extends the pipeline with the page: `shown` is `outboundPending`, `answer`,
`list` and `inbox` are what is on its way to the page, in channels of their
own. `OnQueued`, `OnOutboundStatus` and `LoadOutboundPending` are the three
callbacks that change the bar.

### 3.3 ScheduledMail

`Beat` puts a tick into the broker; `Take`, `Select`, `Send`, `Save`,
`SaveError` are one run of `process_scheduled_mail`, `SaveFails` a database
error in either save, `Crash` a worker that dies. `todo[w]` is the list of rows
as the run has loaded them. `doubt` is a history variable that records why a
message may have left more than once: two runs held it, a run was cut short, a
reply was lost. Messages are numbered in the order of `send_at`, so that "due"
is `m <= now` and the batch is the lowest numbers (`Earliest`). Mail of other
accounts takes places of the batch, too, so `Select` loads any number of rows from
one to `Batch`.

`PlannedLog` is what a user who plans a message may rely on, without ticks,
batches and the steps of a run: a pending message is picked up, leaves, and its
outcome is recorded, each once, except for a doubtful message; and a message
that is pending again while nobody carries it has not left, unless it is
doubtful. `ScheduledMail` implements it (`PlanPromise`) under `carried <-
messages in some todo[w]`, `doubtful <- messages with an overlap or a cut on
record`, `unheard <- messages with a lost reply on record`. A lost reply excuses
a wrong "failed" there, and no second delivery.

Two things are visible in the source and not in the model, which has one
recipient set per message: a planned message is sent without its cc and bcc and
without the account's password, so no copy reaches the Sent folder
(`webmail/tasks.py` 226-233). `STATUS_CANCELLED` is defined in `models.py` but
nothing assigns it.

### 3.4 MailAgent

A run is triage (one call of the model per unclassified row), then organize
(one decision per row that is not marked deleted). `Choice` and `Route` are the
decision of `organize_inbox`; `Execute` and `Hide` are `execute_imap_action`
and the update of the cache; `CheckPending` and `Create` are
`create_pending_action`, two statements. `Approve`, `Reject`, `ExecuteApproved`,
`HideApproved`, `Resolve` are the two requests of `approval.py`; `RunDies` and
`RequestDies` end them anywhere, also after the IMAP server acted and before it
answered. `MovedElsewhere` is another mail client, `SetMode` the user's profile.

The action of a rule is a text that nobody checks (`AiRuleSchema`,
`webmail/api.py:964`), so `Actions` has all that `execute_imap_action` knows
(`Executable`: those of the approval queue, `flag`, `move_spam`, `not_spam`), the
model's suggestions, and `other` for the rest, which ends in an error. The two
functions do not know the same names: `execute_imap_action` takes `move_spam` for
`spam` (`ai/agent.py:236`), `is_risky_action` does not (`ai/approval.py:8`). In
autopilot a rule with that name moves mail to spam without an approval, although
`docs/ai-posta-ajani-yol-haritasi.md:34` promises a queue for risky actions.
`RiskyIsApproved` and `ApprovalLog` exempt exactly the messages such a rule matches
(`Bidden`); everything else in spam, the trash or a folder has its approval.

The row of a pending action is named by the run and the message that created
it, `<<c, m>>`, since a run creates at most one per message; `status` and
`action` are its columns. `stage[u]` is the place of a request and `held[u]` the
row it has loaded; `want[c]` is the decision a run is carrying out.

`ApprovalLog` is what a user who decides may rely on, without the steps of runs
and requests: a proposal that waits is taken in hand, carried out and decided,
each once, except for a doubtful one; its status says which; one that was carried
out is never put back as if it were not; and only a decision moves a message to
spam, trash or a folder. `MailAgent` implements it (`ApprovalPromise`) under
`inHand <- rows some request holds`, `executed <- approved`, `doubtful <- rows
that two requests held or a dying one`, `bidden <- messages a rule moves past the
queue`.

Rules are fixed during a behaviour, and one rule per message is the first that
matches. A loop runs over its rows in any order, which includes the order of the
code. The synchronization of the cache is left to `MailboxCache`.

### 3.5 MailboxCache and Assistant

The server is `at[m]` (folder and uid of a message, `New` before it arrives,
`Gone` after it was expunged), `flags[m]`, `nextUid[f]` and `exists`; the copy is
`known` (`MailFolder` rows) and `cache[k]` (`MailMessageCache` rows by folder and
uid). A job `j` is a request, a Celery task or a notification of the IDLE
listener; `pc[j]` says what it does next, `key[j]` where, and `todo[j]` what it
has read and has still to use.

| Actions | Code |
|---|---|
| `Sync`, `SyncTask`, `Notified`, `OpenFolder`, `Select`, `Fetch`, `WriteRow` | `sync_folder_metadata` and the four ways to it |
| `SyncAll`, `NextFolder`, `LoadFrauds`, `HideFraud` | `sync_standard_folders`, `purge_blocked_inbound_cache` |
| `PatchFlag`, `LoadRow`, `SaveRow`; `BulkFlag`, `UpdateRow` | `patch_flags`, which saves both flags of the row it loaded; the bulk actions, which update one column |
| `Remove`, `HideRow`; `Move` | delete, bulk move; POST /move, which leaves the row as it is |
| `ReadBody`, `NoteSender`, `Download` | fetching a message whole, which marks it as seen on the server only |
| `SaveDraft`, `AppendDraft`; `CreateFolder`, `DeleteFolder`, `DropFolder`; `ListFolders`, `WriteFolders` | drafts and folders |
| `Arrives`, `Elsewhere`, `Rebuild`, `Break` | new mail, other clients, a new UIDVALIDITY, a call that fails or a process that dies |

What the source does, and the model with it: a synchronization never removes a
row, and returns before it touches any when the folder is empty; UIDVALIDITY is
stored and never compared; GET /folders creates folder rows, after which
GET /messages shows a folder that was never synchronized as empty; a fraud that
only the text of a message tells is shown again by the next synchronization of
headers until its body is read again. `strayed` and `doubt` record which keys a
row may misplace or give wrong flags for, and a synchronization that nobody
disturbs clears them (`Settled`): the two properties say that there is no other
way to go wrong.

`Assistant` adds chat commands (`Chat`, `Answer`, `Resolve`, `ListMatches`,
`MoveMatch`, `MoveFails`, `MarkRead`) and stored tasks (`CreateTask`,
`TaskTalks`, `TaskActs`, `EndTask`; `CreateTwice` is a publication whose answer
was lost). What the patterns or the language model make of a text is a choice.
A chat message never sends a mail by itself, and a command may hit any folder
whose name contains the label. `EndTask` models an error of the code:
`webmail/tasks.py:195` (also 203 and 331) asks
`__import__('django.utils.timezone', fromlist=['timezone']).timezone.now()`,
which is `datetime.timezone`, a class without `now`. So `run_ai_task` always ends
with an error after it has acted, its row says "running" forever, and
`ai_digest_scheduled` raises in its first statement. This was found by reading;
`TaskActsOnce` says that the mail is sent once nevertheless.

### 3.6 InstallerRun

A request `x` is a start request that may become a run, a bootstrap job, or the
older setup request (POST /mail-stack-provision calls `bootstrap_single_server`,
which `installer/api.py` does not import: line 391 raises `NameError`).
`request[x]` is the place of its handler, `life[x]` that of its thread, `cur[x]` and
`sub[x]` the step of the orchestrator and how far it has come in it. `boot[p]` is `_state["status"]` of
one web process, `vol` the two files of the TLS volume by their author, `ca[x]`
the CA an actor works with, `container` a service of the stack, `stream[x]` a
reader of the events: `ended` when told how the run ended, `lost` when the last
event did not reach it.

`Guard`, `CheckActive`, `CreateRun` are the three statements of `start_install`;
`LookAtVolume`, `WriteCa`, `WriteCert` those of `ensure_mail_pki_files`;
`ServiceAction`, `CreateContainer`, `WaitHealthy` the life of a container;
`ProvisionMail`, `SaveMailEndpoints`, `CreateAdmin`, `ApplyDns`, `RequestTls`,
`Conclude`, `Publish` the rest of a run. A Docker run looks at the volume in a step
of its own and hands the CA on to its mail step; a platform run has only the mail
step to look; a bootstrap job looks in both, since it drops the settings in which
the CA of its first look was kept (`orchestrator.py:577`, `single_server.py:151`),
and may write the volume a second time. `StepFails` is any step that raises,
`WriteFails` a write into the volume that does, before it touches the file or once
it has emptied it, `CompletionFails` and `ThreadEnds` are the saves of a run that
raise, `Publish` may lose its event, since `publish_event` swallows every error
(`installer/sse.py:28`), `Crash` is a web process that dies with its threads,
`ContainerChanges` a container that changes by itself.

The model shows by its shape what no property needs to say: a run whose process
died stays "running", and `CheckActive` then refuses every later one until
somebody edits the row; the same holds of a run whose last status could not be
saved. A reader of such a run waits in vain, and so does one whose last event was
lost: `EarlyReaderIsAnswered` has to exempt these three, and says that no other
failure leaves a reader without an answer.

### 3.7 DomainDns and PanelAdmin

`dom` is the row of a domain with its key (`key`) and the record computed from it
(`rec`); `dcopy[r]` is the instance a handler has loaded. `SaveAll` is `save()`:
every column, and an insert if the row has gone. `zone` has the TXT records at
the name of the domain, `selectors` the DKIM records. Applying is
`MayApply`, `ListZone`, `WriteRecord`, `ListDuplicates`, `DeleteDuplicates`,
`WriteOthers`, `SaveApplied`, each of which may fail (`WriteFails`,
`CleaningFails`).

`PanelAdmin` has the account rows `acct`, the instance `copy[r]`, the lookup file
`vmail` and the lines a handler has read of it. A deletion or a role change is
`Load`, `Check` (the count of administrators) and `CommitRole` or `ReadLines`,
`RewriteLines`, `CommitDelete`; a creation is `CountAccounts`, `TakeDomain`,
`TakeKey`, `Insert`, `AppendLine`; a domain goes by `CountDomain`,
`CommitDomain`. `lost`, `vlost`, `crossed`, `switched` record the four ways in
which the counts and copies are overtaken: a stale row was saved, the file was
rewritten over changes, what was counted changed before the count was used (or an
address changed hands before its line was written), an administrator was
deactivated, which nothing counts. The last case of `crossed` was found by the
proof of `VmailFollows`: an account is inserted, deleted by another request, and
then its line is appended.

### 3.8 Operations

`PanelJobs` is what every operation of the panel is: a job that walks through its
steps once and may die. `BackupStore` has the database (`db`, as one value, since
a dump copies it and a restore replaces it), the dump in the work directory, the
archives and the directories they are unpacked in. `AlertCenter` adds to `db` the
alerts and the thresholds; `want`, `acopy` and `lcopy` are what jobs hold of them.
Every enabled threshold is compared, by the task and by the metrics request, and
opens an alert in the category its metric gives (`Category`: the name without
`_usage`); the tasks on the mail queue and the logins have categories of their own.
`Matches` are the filters of the code: one open alert per category, except that
those of the mail queue and of the storage are told apart by their count. One job
treats one threshold row, and the disk stands for memory and processor.
`StackHealth` has the volume, what each daemon has in memory, the containers and
the state of Postfix's maps; its repairs are sequences of `WriteCa`, `WriteCert`,
`Reload`, `Probe`, `HealPostfix`, `FixRouting`, `EnsureOutbound`, `ReadMaps`,
`HealDovecot`. Files are emptied before they are written (`write_bytes`,
`installer/mail_pki.py:374`), so that a write that fails, or is cut off with its
process, may leave one without an author (`CutOff`, `Nobody`). `Operations` lets all of them run beside each other.

What reading and checking showed: a dump contains its own backup as "running", so
that a backup which was restored cannot be restored again; a restore looks for
`backup/db_config.json` while the archive has `configs.tar.gz`; rows of
`schedule-backup` are never run; components that fail are only named in the
answer; an open warning hides a critical value (and not the other way round); the
`storage_quota` branch of `evaluate_thresholds` filters on a field that `Alert` does
not have (`alerts/api.py:153`), so that the metrics request raises instead of opening
an alert of the storage; every further account over its quota opens one more of
these in the task; `check_failed_logins` is not in the beat schedule; the tear-down thread
dies with its own container before it comes to the volumes;
`ensure_outbound_delivery` answers from a report up to 120 s old; the limit on
the rate of repairs is marked only after the repair; `container_action` refuses a
stack managed by Compose while `restart_container` does not.

### 3.9 Variants

An operator whose comment starts with "Variant" is not part of any
specification. It is an action or helper with a fault a change of the code might
bring (a missing filter, a swapped order, a dropped branch). `PROJECT.json`
pairs each with a property under `mutants`: with the variant in the place of the
faithful operator, TLC reports that property violated. This shows that the
property depends on what the code does at that line.

## 4. The runs

Each is `tlc -config X.cfg Module`. All say `CHECK_DEADLOCK FALSE`: nobody is
obliged to send, plan, install or approve anything, and requests end, so each of
these systems may stop; that requests and tasks do not get stuck is what the
liveness properties say instead.

| Config | Module | Shows |
|---|---|---|
| `outbound.cfg` | OutboundQueue | one message by every endpoint, thread and worker, one crash: `SentIsDelivered`, `DeliveredOnce`, `FailedIsHonest`, `AttachmentsDelivered`, `ToldIsRecorded`, `FilesReclaimed`, `PendingIsSettled`, and the refinement `LogPromise` |
| `outbound_compose.cfg` | OutboundQueue | without a shared media directory: `AttachmentsDelivered` is violated (finding 1) |
| `outbound_client.cfg` | OutboundClient | `BarIsCurrent` is violated (finding 2) |
| `scheduled.cfg` | ScheduledMail | two messages, two workers, one fault: `OutcomeIsHonest`, `SentOnce`, `SettledIsFinal`, `DueIsSettled`, and the refinement `PlanPromise` |
| `agent.cfg` | MailAgent | two runs and a request: `RiskyIsApproved`, `OnePending`, `ResolvedIsFinal`, `HitIsOffered` |
| `agent_requests.cfg` | MailAgent | two requests, two faults: `AppliedIsExecuted`, `RejectedIsHonest`, `HiddenHasLeft`, and the refinement `ApprovalPromise` |
| `agent_move.cfg` | MailAgent | `PendingIsExecutable` is violated (finding 3) |
| `agent_assist.cfg` | MailAgent | `AssistIsQueued` is violated (finding 4) |
| `mailbox.cfg` | MCMailbox | any two jobs, chat commands and tasks included: `ListTellsPlace`, `FlagsAgree`, `TaskActsOnce`, `CommandsMoveFound` |
| `installer.cfg` | InstallerRun | any two requests of the wizard in two processes: `LateComersAreRefused`, `CompletedMeansInstalled`, `TrustedCaIsServed`, `BootStateTellsTheJob`, `EarlyReaderIsAnswered` |
| `panel.cfg` | MCPanel | any two requests about accounts and the domain: `KeyFitsRecord`, `ZoneIsKept`, `AdminRemains`, `VmailFollows`, `CountsHold` |
| `operations.cfg` | MCOperations | any two operations of the panel: `BackupsAreTrue`, `AlertsAreTrue`, `TlsIsServed` |

The runs `outbound` and `operations` also check the type invariant; for the other
proved modules `TypeCorrect` establishes it (section 6). The refinements are
checked as temporal properties, step by step, and proved as `Refinement`.

### 4.1 Bounds

- `outbound`: messages share nothing but the account, so one message with both
  of its possible runs shows every interleaving a property can see; the proofs
  cover any number. One crash is enough to reach each state a crash leaves
  behind, since a dead process takes no further step; the proofs allow any
  number.
- `scheduled`: two messages and a batch of two make a run go on after a failure
  and let two runs hold different parts of a batch; the batch is cut after the first row
or after the second, since other mail may have filled it. `MaxQueued = 1` is one tick
  waiting while both workers are busy, which is enough for every overlap of two
  runs. `MaxFaults = 1`: one crash or failing save.
- `agent`: messages meet only in the loops of a run, so one message with two
  runs shows the races of the queue. Suggestion "move" and the rules "spam" and
  "move_spam" stand for the cases that differ in `Choice` and `Route`; all modes occur, and the mode
  changes at any time. `agent_requests` has one run, two requests and two
  faults, with the kinds of action that end differently (hidden or not,
  executable or not).
- `mailbox`: two messages are what it takes to tell a message from one that took
  its place; the four folders are those with rules of their own (inbox, drafts,
  trash, a user's folder). `MaxUid = 2` lets a folder give out a second uid,
  `MaxFaults = 1` is one other client, rebuilt folder, broken call or lost
  answer. Each job happens once, and a violation of these properties is the work
  of at most two of them. The proofs lift all these bounds (section 6).
- `installer`: two requests of three kinds, two processes, one fault (a process
  that dies, a save or an event that fails, a container that changes). Any step may
  fail besides. Processes are alike and so are requests of one kind: both are
  numbered, and one run has a reader. The proofs cover any number.
- `panel`: two requests of 16 kinds, two to four account rows, three addresses,
  `MaxAccounts = 2` so that the limit is met, three key pairs (one before, one
  generated by each request). The proofs cover any number.
- `operations`: two jobs of 27 kinds on the row that was there before or on the
  other one's, one fault, both kinds of database where a job restores it and every
  metric where a job compares with its threshold. Every property relates at most
  two jobs: the one that wrote last and the one that held something older.

### 4.2 Fairness

Weak fairness on threads, workers and runs that have something to do: each SMTP
dialogue, IMAP dialogue, model call and Redis call has a timeout in the code or
in its library, so a process that is alive goes on. `ScheduledMail` also takes
weak fairness on beat, which ticks every minute. `InstallerRun` takes it on the
thread of each run: every wait of the orchestrator has a deadline. Nothing is
assumed of users, administrators, the clock, faults, or other mail clients.
Fairness on `Thread(r)` and `Run(j)` as wholes leaves the outcome of a step open:
a TLS error or a refusal may always come. The other specifications are checked
for safety only and state no fairness.

## 5. Findings

1. *Attachments do not reach the worker in the compose deployment*
   (`webmail/tasks.py:114`, `docker-compose.yml`). The panel stores them in its
   own container, the worker sees no such file, skips it and sends the message
   bare; the row says sent. With a shared directory (`outbound.cfg`) the same
   property holds.
2. *The bar of messages being sent can name a settled one*
   (`mail-app.js:919`). The answer to the POST is handled after the SSE event,
   or says `queued: false`, and the message is added all the same.
3. *A suggestion to move or to reply is queued under a name no approval can
   execute* (`ai/agent.py:379`).
4. *A run that finds assist mode executes actions on its own*
   (`ai/agent.py:357`), because it still carries the autopilot flag it read
   before the triage.

The safety properties that hold name the conditions under which they do. Those
conditions are facts about the code too: a message can be delivered twice after
an unconfirmed publication or, when planned, after an overlap or a crash; a
failed row can belong to a message that left when a reply was lost; a pending
row stays forever when its process dies; files stay on disk when the password
cannot be read.

## 6. Proofs

`OutboundQueue_proofs.tla` proves, for any finite or infinite set of messages,
any subset of endpoints, shared or separate media directories and any number of
crashes:

- `TypeCorrect`, `SentTheorem`, `DeliveryTheorem`, `FailureTheorem`,
  `ToldTheorem`: the invariants of the run `outbound`;
- `Refinement`: `Spec => LogPromise`, so the pipeline implements `OutboundLog`.

The assumption is `OutboundAssumption`, which gives the constants their types.

None of the invariants is inductive alone. The inductive invariant `IInv` is
`TypeOK` and, for each message:

- `ThreadInv`: a thread that has not come to the publication has no run, and
  its row exists exactly from `CreateRow` on;
- `OneRun`: both runs exist only after an unconfirmed publication;
- `CountInv`: a run accounts for at most one delivery, after its dialogue
  (`Used`), and appended copies, with those about to be appended, do not exceed
  deliveries. This is what carries `DeliveredOnce`: three attempts, yet each
  leads to an end of the dialogue once Postfix has accepted;
- `RowInv`: the statements about `row` and `told`;
- `RunInv`: what a run knows at each place: that its row is not settled yet,
  that it exists, that the message was delivered or not.

The steps are grouped by what they disturb: those that only move a run
(`MovesInv`), deliveries (`DeliveryInv`), the append (`AppendInv`), saves
(`SettleInv`), the publication of outcomes (`TellInv`), the launch of runs
(`LaunchInv`), the other steps of the thread (`ThreadStepInv`) and the deletion
of the account (`DeleteInv`). `OutcomeInv` gathers those of a run and `NextInv`
all. `Refinement` uses `IInv` to show that a delivery is allowed by the abstract
log and that a settled row is rewritten only in doubt; every other step is a
stutter or `Accept`, `Doubt`, `Withdraw`.

`OutboundFiles_proofs.tla` proves `AttachmentTheorem` and `ReclaimTheorem` under
the assumption `SharedMedia` (`FilesReclaimed` is about the shared disk, and
`AttachmentsDelivered` fails without it, finding 1). Beside `IInv` its `FilesInv`
has, for each message, `StoreInv`: which requests have a directory, and that it
is complete when the task is published; `CarryInv`: the only run of a message
finds its files until it opens them and holds them afterwards; `ReclaimInv`: a
directory that exists has a run that comes to its removal, or an excuse. `Effect`
says what any step of a run may do to files, so that `RunFilesInv` needs one
argument for all of them.

`ScheduledMail_proofs.tla` proves, for any number of messages, workers, ticks
and faults and any size of the batch (`ScheduleAssumption` gives the constants
their types), `TypeCorrect`, `OutcomeTheorem`, `OnceTheorem`, `FinalTheorem` and
`Refinement` (`Spec => PlanPromise`).
Its `IInv` adds to `TypeOK`:

- `LoopInv`: a run has rows left exactly while it is in its loop;
- `HoldInv`: a message two runs hold is on record as shared. `Select` reads rows
  without a lock, so this is the only trace of an overlap;
- `RunInv`: what a run knows of a message it holds. As long as nothing is on
  record (`Clean`), its row is pending and it has not left before this run
  sends it; afterwards, how it left depends on the save the run stands at;
- `MessageInv`: what the row says, with the part `SentOnce` needs: a clean
  pending message that nobody holds has not left.

A run works on the lowest message it has loaded (`Current`, a `CHOOSE`); that it
exists is `CurrentHeld`, from the well-foundedness of the naturals.

`Refinement` takes `IInv` in the state before and after a step. A loaded row was
pending (`SelectLog`); a run that sends a clean message is the first (`SendLog`,
from `RunInv`); an outcome is written over another one, or while another run
carries the message on, only after an overlap or a cut (`ProceedLog`, from
`RunInv` and `HoldInv`); and what a disturbed run puts down has not left or is
doubtful (`DisturbLog`, from `MessageInv` after the step).

`MailAgent_proofs.tla` proves, for any number of messages, runs, requests and
faults, any rules and any subset of the suggestions (`AgentAssumption`),
`TypeCorrect`, `RiskyTheorem`, `AppliedTheorem`, `RejectedTheorem`,
`OneTheorem`, `HiddenTheorem`, `FinalTheorem` and `Refinement` (`Spec =>
ApprovalPromise`). Its `IInv` adds:

- `RunInv`: a run has queued nothing of what is still on its list or in its
  hand, executes nothing risky, and hides only what has left the inbox;
- `HoldInv`: a request holds one row at most, which exists; unless something is
  on record for it, the row is pending, not executed, and no other request has
  it;
- `ActionInv`: applied rows were executed; an executed one with nothing on
  record is applied or still in the hand of a request;
- `MessageInv`: where a message is, and the approval that moved it, or the rule
  that names `move_spam`;
- `CrossInv`: two runs between check and create of the same message, or one
  beside a waiting row, are on record; two waiting rows come from that.

`RunEffect` and `RequestEffect` say what any step of a run or of a request may
do to the mailbox and the queue, so that the proofs about the other side look at
that effect and not at each action again. `FinalTheorem` is an action property
and follows from `IInv`: a row that is not pending is only written by a request
that loaded it before. `Refinement` maps a run's steps to a proposal, a safe move or
a stutter (`RunLog`), and a request's to taking up, carrying out, deciding or putting
down (`RequestLog`); that a request lets go of a row nobody else holds, unless the row
is doubtful, is `ReleaseLog`, from `HoldInv`.

`InstallerRun_proofs.tla` proves, for any set of requests, processes and number
of faults (`InstallerAssumption`), `TypeCorrect`, `LateTheorem`,
`CompletedTheorem`, `CaTheorem` and `BootTheorem`. Its `IInv` adds to `TypeOK`:

- `RunOK`, for each request: where its handler, its thread and its step may stand
  together (`RequestOK`, `ThreadOK`, `StepOK`); in particular a run past its
  administrator step is in `done`, and whoever is about to write the volume has
  no CA yet;
- `HistoryOK`: a run that a check has seen had come to its end, and nobody was
  let in once the system was installed. `LateComersAreRefused` follows from it;
- `BootOK`: `boot[p]` is "running" exactly while one job of that process lives;
- `VolumeOK`: an undisturbed actor works with what is in the volume, and the CA
  the panel has saved is one that an actor works with who will look for no other
  (`Settled`): a job looks twice, but saves its endpoints as its last step.

`Moves` says what a step of an installation may do, so that each part of `IInv`
needs one argument for all steps.

`PanelAdmin_proofs.tla` proves, for any sets of requests, accounts, addresses and
keys (`DomainAssumption`, `PanelAssumption`, `AskedAssumption`), `TypeCorrect`,
`KeyTheorem`, `ZoneTheorem`, `AdminTheorem`, `LinesTheorem` and `CountsTheorem`.
Its `IInv` adds:

- `CopyOK`: what a handler goes on with is a row it has found, and only
  deletions, renames and creations touch the lookup file;
- `KeyOK`: key and record fit and "verified" is about a record that was looked up,
  unless a handler saved over changes of others; a status check that has found a
  record still holds that one;
- `ZoneOK`: while nobody interferes one handler works on the zone; what it keeps
  is its own record, what it has listed are the other SPF records, and after the
  cleaning one SPF record is left. A foreign TXT that stands beside an SPF record
  is never the one it keeps;
- `EmptyOK`: a domain that is about to be deleted has no accounts;
- `AdminOK`: while an administrator is being reduced nobody else is, and another
  one remains;
- `LimitOK`: while an account is being created nobody else creates one, and there
  is room. This and the former compare cardinalities before and after a step;
- `LinesOK`: a line has an account or a request about to save it, and an address
  that is being given up has no line any more.

`Assistant_proofs.tla` proves, for any number of messages, folders, jobs, uids and
faults (`MailboxAssumption`), `TypeCorrect`, `PlaceTheorem`, `FlagsTheorem`,
`TaskTheorem` and `MoveTheorem`, all of `AssistantSpec`: mailbox and assistant
together. A job holds something about a message between a read and a later write,
and the history variables say when another step has made that untrue, so its `IInv`
adds to the types:

- `PlaceOK`: messages have different keys, with uids that were given away. On it
  rests what was once read: `Given` (the uid of a key is spent, so no other
  message gets the key) and `Claim` (nothing but this message is there);
- `JobOK`, for each job: what it holds was given away and is claimed (`HeldOK`);
  rows about to be written say where the message is and which flags it has, unless
  the key strayed or is in doubt (`CopiedOK`); what is about to be hidden has
  left or is a fraud (`HideOK`, `PurgeOK`); a change of flags that is pending
  leads from the row to the server (`WishOK`);
- `RowOK`, for each row: the two properties of the list, with what pending jobs
  will still write;
- `TaskOK`: a task whose message was not doubled has one worker, and nothing is
  sent before it thinks.

`Careful(S)` says what a step of the jobs `S` may do to what the others hold: from
it follow `OthersKeep` (their `JobOK`) and `RowKept` (rows nobody writes), so that a
step is only looked at for the jobs and the row it concerns. `Onward` (no step of
the mailbox makes a job run a task, or hide what a command found) separates the
parts of the mailbox and of the assistant.

`Operations_proofs.tla` proves, for any sets of jobs, any operations they stand for
and any number of faults (`JobsAssumption`, `NoDumpAssumption`, `NobodyAssumption`,
`AskedAssumption`), `TypeCorrect`,
`BackupsTheorem`, `AlertsTheorem` and `TlsTheorem`. The three parts share the database
and the jobs, so its `IInv` has, beside the types (`StoreType` is stronger than
`TypeOK`: every dump is a database with all its tables, without which a restore could
not keep the type of the alerts):

- `PlaceOK`: which operation a job at a step stands for, and that the stack is only
  torn down after the database was emptied;
- `DumpOK`: no copy of the database, in a work directory, an archive or an unpacked
  directory, calls a backup completed whose archive is not written yet. Copies
  travel from one of these places to another and, with a restore, back into the
  database, so that the statement about archives is only inductive together with
  that about all other places;
- `FilesOK`, while the database was neither replaced nor emptied: a row with a file is
  settled, a backup about to be completed has its archive, and whoever removes a
  file had read a settled row. The last is why a deletion cannot take the archive
  of a backup that is still being made;
- `AlertOK`, unless a stale row was saved: a job that may still create has no row
  yet; two jobs about to create do so under different categories, and what they
  looked for is still not there, neither under the category nor, where alerts are told
  apart by it, with the count;
- `TlsOK`, unless the volume is torn: one job at most is between the CA and the last
  reload, and volume and daemons follow from its step. A write that is cut off and yet
  leaves the volume untorn has emptied nothing (`CutOffKeeps`).

Each part has one relation that says what the operations of the others may do to it
(`RowsStay`, `Calm`, `Steady`), and `Flows` says where any database, dump and archive
comes from, so that only the steps that mean to change something are looked at one by
one. A restore, a factory reset and a restart of the workers are steps of one part
that end jobs or replace rows of another; these are the cases the histories `rewound`,
`cut` and `torn` stand for.

Only model-checked: the liveness properties (`PendingIsSettled`, `DueIsSettled`,
`HitIsOffered`, `EarlyReaderIsAnswered`), which TLAPS does not reach; the four
properties that are violated; and `OutboundClient`, which serves one of these.

## 7. Not modelled

Every component is listed in `PROJECT.json` with its status. What is left out,
and why:

- *Webmail sessions and passwords, panel authentication.* Session and cache
  entries with a time to live; only the outcome (a password can be read or not, a
  request is let in or not) matters to the modelled parts, where it is a choice.
- *Recipients, validation, sender classification, DKIM signing.* Text processing
  without state.
- *Monitoring, discovery, deployment readiness, rendering.* They read.
- *Images, shell scripts, TLS renewal.* Third-party servers and their
  configuration; Postfix and Dovecot are the environment of the models.
- *Of the webmail:* totals and unread counts, search, resolution of folder names,
  the cached row of a Sent copy, compose help, the
  digest on request (a text in the profile; the scheduled one raises, section
  3.5), rows of rules.
- *Of the wizard:* generated files, port scans, image names, networks.
- *Of the panel:* the Namecheap and Route 53 providers (one writes the whole zone in a call, the
  other replaces a record set),
  maildirs, the check of permissions, `update_domain_ai`.
- *Of the operations:* mail and configuration files of an archive, a copy of an
  SQLite file that is cut short, history of repairs. A loop over all threshold rows is
  one job for each of them, and memory and processor are alike to the disk.
- *Planned messages:* cc, bcc and the missing Sent copy (section 3.3).
