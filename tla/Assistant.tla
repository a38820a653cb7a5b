------------------------------ MODULE Assistant ------------------------------
(***************************************************************************)
(* The assistant of the webmail beside the other jobs of MailboxCache.  A   *)
(* chat message is a command that the panel recognizes or an answer of the  *)
(* language model: what either asks for is done to the mailbox at once, in  *)
(* the session of the user, one message after the other.  A stored task     *)
(* (MailAiTask) asks the model in a Celery worker and may send or plan a    *)
(* mail.  Seconds to minutes lie between what was read and what is done.    *)
(***************************************************************************)
EXTENDS MailboxCache

VARIABLES row,      \* the MailAiTask each worker runs, named after the request
          status,   \* of each task
          sent,     \* mails it put into the outbound queue or planned
          twice     \* history: tasks that two workers ran

tasks == <<row, status, sent, twice>>
all   == <<vars, tasks>>

Status == {"none", "pending", "running"}

AssistantTypeOK ==
    /\ TypeOK
    /\ row \in [Jobs -> Jobs \cup {Nobody}]
    /\ status \in [Jobs -> Status]
    /\ sent \in [Jobs -> Nat]
    /\ twice \subseteq Jobs

AssistantInit ==
    /\ Init
    /\ row = [j \in Jobs |-> Nobody]
    /\ status = [j \in Jobs |-> "none"]
    /\ sent = [j \in Jobs |-> 0]
    /\ twice = {}

-----------------------------------------------------------------------------
(* Chat: ai_chat, and /ai/execute with an answer the browser sends back.    *)

Entries(f, S) == {[uid |-> u, msg |-> cache[<<f, u>>].msg, flags |-> {}] :
                    u \in {v \in Uids : /\ Cached(<<f, v>>)
                                        /\ ~cache[<<f, v>>].hidden
                                        /\ cache[<<f, v>>].msg \in S}}

\* A message is selected, or none.
Chat(j) ==
    /\ pc[j] = "idle"
    /\ \/ UNCHANGED <<key, todo>>
       \/ \E f \in known, m \in Messages :
             /\ Entries(f, {m}) # {}
             /\ todo' = [todo EXCEPT ![j] = Entries(f, {m})]
             /\ key' = [key EXCEPT ![j] = <<f, 0>>]
    /\ Goto(j, "think")
    /\ op' = [op EXCEPT ![j] = "chat"]
    /\ UNCHANGED <<server, kind, copy, want, rest, past, faults, tasks>>

\* What the pattern match, or else the model, makes of the message.  Without a
\* selection the user is asked to make one.
Commands(j) == {"talk", "batch"} \cup (IF todo[j] = {} THEN {} ELSE {"move", "markRead"})

\* Greetings, hints, answers in words, an error of the model, no password; and a
\* mail to send, which only the user executes.
Answer(j) ==
    /\ pc[j] = "think" /\ op[j] = "chat"
    /\ "talk" \in Commands(j)
    /\ Clear(j)
    /\ UNCHANGED <<server, kind, copy, past, faults, tasks>>

\* A summary, a reply draft and an analysis fetch the message whole, as the triage of
\* an unread message does.
Summarize(j, k)  == Download(j, k) /\ UNCHANGED tasks
DraftReply(j, k) == Download(j, k) /\ UNCHANGED tasks
Analyze(j, k)    == Download(j, k) /\ UNCHANGED tasks

\* A standard name, or any folder whose name has the label in it.
Targets == Standard \cup known

\* The selected message, or those of a sender; a rule may be stored before the first
\* of them is moved.
Onwards(j, selected) == Goto(j, IF selected = {} THEN "list" ELSE "batch")

\* The folder a command names: one that there is, or a new one.
Resolve(j) ==
    /\ pc[j] = "think" /\ op[j] = "chat"
    /\ \E c \in Commands(j) \cap {"move", "batch"} :
          LET selected == IF c = "move" THEN todo[j] ELSE {}
          IN  /\ todo' = [todo EXCEPT ![j] = selected]
              /\ key' = [key EXCEPT ![j] = IF c = "move" THEN @ ELSE <<"none", 0>>]
              /\ \/ /\ \E g \in Targets : rest' = [rest EXCEPT ![j] = {g}]
                    /\ Onwards(j, selected)
                    /\ UNCHANGED exists
                 \/ \E g \in Custom \ (exists \cup known) :
                       /\ exists' = exists \cup {g}
                       /\ rest' = [rest EXCEPT ![j] = {g}]
                       /\ Goto(j, "folder")
    /\ UNCHANGED <<at, flags, nextUid, kind, copy, op, want, past, faults, tasks>>

\* create_imap_folder synchronizes the new folder, which is empty.
RecordFolder(j) ==
    /\ pc[j] = "folder"
    /\ IF rest[j] \subseteq exists
       THEN known' = known \cup rest[j] /\ Onwards(j, todo[j]) /\ UNCHANGED <<op, key, todo, want, rest>>
       ELSE Clear(j) /\ UNCHANGED known
    /\ UNCHANGED <<server, kind, cache, past, faults, tasks>>

\* find_messages_by_criteria: the rows of one folder from a sender.
ListMatches(j) ==
    /\ pc[j] = "list"
    /\ \E f \in known, S \in SUBSET Messages :
          /\ Entries(f, S) # {}
          /\ todo' = [todo EXCEPT ![j] = Entries(f, S)]
          /\ key' = [key EXCEPT ![j] = <<f, 0>>]
    /\ Goto(j, "batch")
    /\ UNCHANGED <<server, kind, copy, op, want, rest, past, faults, tasks>>

NoMatch(j) ==
    /\ pc[j] = "list"
    /\ Clear(j)
    /\ UNCHANGED <<server, kind, copy, past, faults, tasks>>

\* Variant: the uids are taken for those of the inbox.
InboxKey(j, e) == <<"INBOX", e.uid>>
MatchKey(j, e) == <<key[j][1], e.uid>>

\* execute_imap_action for each of them: the message is moved, its row hidden next.
MoveMatch(j) ==
    /\ pc[j] = "batch"
    /\ \E e \in todo[j] : LET k == MatchKey(j, e) IN
          /\ k[1] \in exists
          /\ \E g \in rest[j] \cap exists : Moved(k, g)
          /\ strayed' = strayed \cup Disputed(k, Jobs \ {j})
          /\ key' = [key EXCEPT ![j] = k]
          /\ todo' = [todo EXCEPT ![j] = @ \ {e}]
          /\ Goto(j, "hide")
    /\ UNCHANGED <<kind, copy, op, want, rest, doubt, faults, tasks>>

\* An error leaves the row, and is at most mentioned; the others are moved nevertheless.
MoveFails(j) ==
    /\ pc[j] = "batch"
    /\ \E e \in todo[j] : LET k == MatchKey(j, e) IN
          /\ \/ /\ k[1] \notin exists \/ ~(rest[j] \subseteq exists)
                /\ UNCHANGED <<server, strayed, faults>>
             \/ /\ faults < MaxFaults /\ faults' = faults + 1
                /\ \/ UNCHANGED <<server, strayed>>
                   \/ /\ k[1] \in exists
                      /\ \E g \in rest[j] \cap exists : Moved(k, g)
                      /\ strayed' = strayed \cup {k}
          /\ IF todo[j] = {e}
             THEN Clear(j)
             ELSE /\ todo' = [todo EXCEPT ![j] = @ \ {e}]
                  /\ UNCHANGED <<pc, op, key, want, rest>>
    /\ UNCHANGED <<kind, copy, doubt, tasks>>

\* "mark_read" of the selected message; its row is updated next.
MarkRead(j) ==
    /\ pc[j] = "think" /\ op[j] = "chat"
    /\ "markRead" \in Commands(j)
    /\ \E e \in todo[j] : LET k == MatchKey(j, e) IN
          /\ k[1] \in exists
          /\ Flagged(k, "seen", TRUE)
          /\ doubt' = doubt \cup Disputed(k, Jobs \ {j})
          /\ key' = [key EXCEPT ![j] = k]
    /\ todo' = [todo EXCEPT ![j] = {}]
    /\ want' = [want EXCEPT ![j] = [flag |-> "seen", add |-> TRUE]]
    /\ Goto(j, "update")
    /\ UNCHANGED <<kind, copy, op, rest, strayed, faults, tasks>>

-----------------------------------------------------------------------------
(* Stored tasks: run_ai_task.                                               *)

Work(S, r) == /\ pc' = [j \in Jobs |-> IF j \in S THEN "think" ELSE pc[j]]
              /\ op' = [j \in Jobs |-> IF j \in S THEN "task" ELSE op[j]]
              /\ row' = [j \in Jobs |-> IF j \in S THEN r ELSE row[j]]
              /\ status' = [status EXCEPT ![r] = "pending"]
              /\ UNCHANGED <<server, kind, copy, key, todo, want, rest, past, sent>>

\* POST /ai/tasks: a worker takes the task, or without a broker the request itself;
\* if the broker took it and its answer was lost, both do.
CreateTask(j) == pc[j] = "idle" /\ Work({j}, j) /\ UNCHANGED <<faults, twice>>

CreateTwice(j, i) == /\ pc[j] = "idle" /\ pc[i] = "idle" /\ i # j
                     /\ faults < MaxFaults /\ faults' = faults + 1
                     /\ Work({j, i}, j)
                     /\ twice' = twice \cup {j}

Thinks(j) == /\ pc[j] = "think" /\ op[j] = "task"
             /\ status' = [status EXCEPT ![row[j]] = "running"]
             /\ Goto(j, "end")
             /\ UNCHANGED <<server, kind, copy, op, key, todo, want, rest, past, faults,
                            row, twice>>

\* The model answers in words or not at all, the password is missing, a recipient is
\* refused, or the action is one that is not executed.
TaskTalks(j) == Thinks(j) /\ UNCHANGED sent

\* A mail is queued or planned.
TaskActs(j) == Thinks(j) /\ sent' = [sent EXCEPT ![row[j]] = @ + 1]

\* The time of the end is asked of a class that has no clock, and once more by the
\* handler of that error: neither "done" nor "failed" is saved, and the error leaves
\* the task, which Celery does not repeat.
\* Variant: it does.
RunAgain(j) == /\ Goto(j, "think")
               /\ UNCHANGED <<op, key, todo, want, rest, row>>
LeaveTask(j) == Clear(j) /\ row' = [row EXCEPT ![j] = Nobody]

EndTask(j) ==
    /\ pc[j] = "end"
    /\ LeaveTask(j)
    /\ UNCHANGED <<server, kind, copy, past, faults, status, sent, twice>>

-----------------------------------------------------------------------------
AssistantRequest(j) ==
    /\ pc[j] = "idle"
    /\ \/ Chat(j) \/ CreateTask(j) \/ (\E i \in Jobs : CreateTwice(j, i))
       \/ \E k \in Keys : Summarize(j, k) \/ DraftReply(j, k) \/ Analyze(j, k)

AssistantStep(j) ==
    \/ Answer(j) \/ Resolve(j) \/ RecordFolder(j) \/ ListMatches(j) \/ NoMatch(j)
    \/ MoveMatch(j) \/ MoveFails(j) \/ MarkRead(j)
    \/ TaskTalks(j) \/ TaskActs(j) \/ EndTask(j)

AssistantNext == \/ Next /\ UNCHANGED tasks
                 \/ \E j \in Jobs : AssistantRequest(j) \/ AssistantStep(j)

AssistantSpec == AssistantInit /\ [][AssistantNext]_all

-----------------------------------------------------------------------------
\* What a command of the assistant moves are messages that it found, by their rows:
\* uids are told apart by their folder, and a message that has left in the meantime
\* is not replaced by another.  A folder rebuilt after it was copied breaks this.
CommandsMoveFound ==
    [][\A j \in Jobs, m \in Messages :
         pc[j] = "batch" /\ pc'[j] = "hide" /\ at'[m] # at[m] =>
             (\E e \in todo[j] : e.msg = m) \/ at[m] \in strayed]_all

\* A task queues or plans its mail once, although it always ends with an error and
\* its row never says that it did: only a lost answer of the broker runs it again.
TaskActsOnce == \A r \in Jobs \ twice : sent[r] <= 1
=============================================================================
