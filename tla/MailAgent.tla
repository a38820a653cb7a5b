------------------------------ MODULE MailAgent ------------------------------
(***************************************************************************)
(* The mail agent and its approval queue.  An agent run (a Celery task, or  *)
(* a request thread) classifies the cached inbox with a language model and  *)
(* then organizes it: what a rule or the model says is either executed over *)
(* IMAP at once (autopilot, safe actions) or stored as a                    *)
(* MailAiPendingAction that a user approves or rejects.  Runs and requests  *)
(* overlap freely: profile, cached rows and pending actions are read, and   *)
(* used much later, without a lock.                                         *)
(***************************************************************************)
EXTENDS Naturals

CONSTANTS Messages,     \* messages of the inbox
          Cycles,       \* agent runs; each happens at most once
          Users,        \* requests that approve or reject
          Suggestions,  \* what the model may suggest besides "none"
          Rules,        \* actions of the user's rules
          Overrides,    \* values of ?autopilot= in POST /ai/organize/inbox
          MaxFaults     \* bound: dying processes and failing answers

\* What can be executed, and what of it waits for an approval in every mode.
\* The action of a rule is any text: what nobody knows is "other".
Safe   == {"archive", "star", "flag", "mark_read", "move_spam", "not_spam"}
Risky  == {"spam", "delete", "move_folder"}
Executable == Safe \cup Risky
AllSuggestions == {"archive", "star", "mark_read", "spam", "move", "reply"}
Actions == Executable \cup AllSuggestions \cup {"other"}

\* After which the cache row is marked as deleted, which takes the message out
\* of its place in the inbox ("move_spam" does, but its row is left alone), and
\* where to: a move into the inbox gives the message another uid there.
Hiding == {"spam", "archive", "delete", "move_folder", "not_spam"}
Moving == Hiding \cup {"move_spam"}
Leads  == [a \in Moving |->
             CASE a \in {"spam", "move_spam"} -> "junk"
               [] a = "archive" -> "archive"
               [] a = "delete" -> "gone"
               [] a = "move_folder" -> "folder"
               [] a = "not_spam" -> "again"]
Guarded == {"junk", "gone", "folder"}       \* where risky actions lead
Places  == Guarded \cup {"inbox", "archive", "again", "elsewhere"}
Modes   == {"off", "assist", "autopilot"}

ASSUME AgentAssumption == /\ Suggestions \subseteq AllSuggestions
                          /\ Rules \subseteq Actions
                          /\ Overrides \subseteq BOOLEAN
                          /\ MaxFaults \in Nat

VARIABLES mode,         \* MailAgentProfile.mode
          rule,         \* action of the first rule that matches a message
          place,        \* where the agent, or another client, put a message
          shown,        \* messages whose cache row is not marked is_deleted
          meta,         \* what the model said of a message (ai_meta)
          status,       \* of the pending action of a run for a message
          action,       \* and what that action is
          pc,           \* where each run stands
          auto,         \* "autopilot" of a run, argument and variable
          assist,       \* did a run read mode "assist" before it organized?
          todo,         \* the cache rows it has loaded and not handled yet
          want,         \* what it is doing
          stage,        \* where each request stands
          held,         \* the pending action it has loaded
          approved,     \* history: pending actions an approval executed
          doubt,        \* history: why a pending action may say otherwise
          crossed,      \* history: messages two runs were queueing at once
          faults        \* faults so far

queue == <<status, action>>
req   == <<stage, held>>
run   == <<pc, auto, assist, todo, want>>
past  == <<approved, doubt, crossed>>
vars  == <<mode, rule, place, shown, meta, queue, run, req, past, faults>>

Ids    == Cycles \X Messages
Meta   == [act : AllSuggestions \cup {"none", "new"}, sure : BOOLEAN]
Row    == [msg : Messages, ai : Meta]
Intent == [msg : Messages, act : Actions]
Status == {"absent", "pending", "applied", "rejected"}

TypeOK == /\ mode \in Modes
          /\ rule \in [Messages -> Rules \cup {"none"}]
          /\ place \in [Messages -> Places]
          /\ shown \subseteq Messages
          /\ meta \in [Messages -> Meta]
          /\ status \in [Ids -> Status]
          /\ action \in [Ids -> Actions \cup {"none"}]
          /\ pc \in [Cycles -> {"idle", "triage", "sort", "execute", "hide",
                                "check", "create", "done", "dead"}]
          /\ auto \in [Cycles -> BOOLEAN]
          /\ assist \in [Cycles -> BOOLEAN]
          /\ todo \in [Cycles -> SUBSET Row]
          /\ want \in [Cycles -> SUBSET Intent]
          /\ stage \in [Users -> {"idle", "execute", "hide", "applied",
                               "rejected"}]
          /\ held \in [Users -> SUBSET Ids]
          /\ approved \subseteq Ids
          /\ doubt \in [Ids -> SUBSET {"shared", "torn"}]
          /\ crossed \subseteq Messages
          /\ faults \in 0..MaxFaults

Untriaged == [act |-> "new", sure |-> FALSE]

Init == /\ mode \in Modes
        /\ rule \in [Messages -> Rules \cup {"none"}]
        /\ place = [m \in Messages |-> "inbox"]
        /\ shown = Messages
        /\ meta = [m \in Messages |-> Untriaged]
        /\ status = [i \in Ids |-> "absent"]
        /\ action = [i \in Ids |-> "none"]
        /\ pc = [c \in Cycles |-> "idle"]
        /\ auto = [c \in Cycles |-> FALSE]
        /\ assist = [c \in Cycles |-> FALSE]
        /\ todo = [c \in Cycles |-> {}]
        /\ want = [c \in Cycles |-> {}]
        /\ stage = [u \in Users |-> "idle"]
        /\ held = [u \in Users |-> {}]
        /\ approved = {} /\ crossed = {}
        /\ doubt = [i \in Ids |-> {}]
        /\ faults = 0

-----------------------------------------------------------------------------
(* The user's settings and other mail clients.                              *)

SetMode == /\ \E new \in Modes \ {mode} : mode' = new
           /\ UNCHANGED <<rule, place, shown, meta, queue, run, req, past,
                          faults>>

\* The message is moved in another client; the cache still shows it.
MovedElsewhere(m) == /\ place[m] = "inbox"
                     /\ place' = [place EXCEPT ![m] = "elsewhere"]
                     /\ UNCHANGED <<mode, rule, shown, meta, queue, run, req,
                                    past, faults>>

-----------------------------------------------------------------------------
(* An agent run.                                                            *)

Goto(c, next) == pc' = [pc EXCEPT ![c] = next]

\* Done with a row: the loop goes on with the next one.
Back(c) == Goto(c, "sort") /\ want' = [want EXCEPT ![c] = {}]

\* The end of a run, and of its variables.
Leave(c, last) == /\ Goto(c, last)
                  /\ auto' = [auto EXCEPT ![c] = FALSE]
                  /\ assist' = [assist EXCEPT ![c] = FALSE]
                  /\ todo' = [todo EXCEPT ![c] = {}]
                  /\ want' = [want EXCEPT ![c] = {}]

\* The cache rows that are not marked as deleted, as a query returns them.
Rows == {[msg |-> m, ai |-> meta[m]] : m \in shown}

\* run_agent_cycle reads the profile once: "off" ends it, the rest of the run
\* uses what it read.  Triage may be switched off.
StartCycle(c) ==
    /\ pc[c] = "idle"
    /\ \/ mode = "off" /\ Goto(c, "done") /\ UNCHANGED <<auto, todo>>
       \/ /\ mode # "off" /\ Goto(c, "triage")
          /\ auto' = [auto EXCEPT ![c] = (mode = "autopilot")]
          /\ \/ UNCHANGED todo
             \/ todo' = [todo EXCEPT ![c] = {x \in Rows : x.ai.act = "new"}]
    /\ UNCHANGED <<mode, rule, place, shown, meta, queue, assist, want, req,
                   past, faults>>

\* The model answers, or does not; its answer overwrites the stored one.
Triage(c) ==
    /\ pc[c] = "triage"
    /\ \E x \in todo[c] :
          /\ todo' = [todo EXCEPT ![c] = @ \ {x}]
          /\ \/ UNCHANGED meta
             \/ \E a \in Suggestions, s \in BOOLEAN :
                    meta' = [meta EXCEPT ![x.msg] = [act |-> a, sure |-> s]]
             \/ meta' = [meta EXCEPT ![x.msg] = [act |-> "none", sure |-> FALSE]]
    /\ UNCHANGED <<mode, rule, place, shown, queue, pc, auto, assist, want,
                   req, past, faults>>

\* organize_inbox reads the profile, but only to add to its argument, and the
\* whole list.
Organize(c, autopilot) ==
    /\ Goto(c, "sort")
    /\ assist' = [assist EXCEPT ![c] = (mode = "assist")]
    /\ auto' = [auto EXCEPT ![c] = autopilot \/ mode = "autopilot"]
    /\ todo' = [todo EXCEPT ![c] = Rows]
    /\ UNCHANGED <<mode, rule, place, shown, meta, queue, want, req, past,
                   faults>>

\* After the triage the run organizes, unless that is switched off.
EndTriage(c) ==
    /\ pc[c] = "triage" /\ todo[c] = {}
    /\ \/ Organize(c, auto[c])
       \/ /\ Leave(c, "done")
          /\ UNCHANGED <<mode, rule, place, shown, meta, queue, req, past,
                         faults>>

\* POST /ai/organize/inbox, or the assistant: no cycle and no first read.
StartOrganize(c) ==
    /\ pc[c] = "idle"
    /\ \E a \in Overrides : Organize(c, a)

\* What a run wants to do with a message, if anything: the rule first, then a
\* confident suggestion in autopilot, then any suggestion in assist mode.
\* Only the second turns "move" into an action that can be executed.  "sure"
\* says that the confidence reaches the threshold of the suggestion and, of a
\* move, that its folder is named.
Choice(c, x) ==
    LET s == x.ai
        Do(a) == {[msg |-> x.msg, act |-> a]}
        Bold == auto[c] /\ s.sure /\ s.act # "reply"
    IN  IF rule[x.msg] # "none" THEN Do(rule[x.msg])
        ELSE IF s.act \in {"none", "new"} THEN {}
        ELSE IF Bold THEN Do(IF s.act = "move" THEN "move_folder" ELSE s.act)
        ELSE IF assist[c] THEN Do(s.act)
        ELSE {}

\* Variant: in autopilot every action is executed at once.
RouteBold(c, i) == IF auto[c] THEN "execute"
                   ELSE IF assist[c] \/ i.act \in Risky THEN "check"
                   ELSE "sort"

\* Variant: actions are queued in assist mode only.
RouteAssist(c, i) == IF auto[c] /\ i.act \notin Risky THEN "execute"
                     ELSE IF assist[c] THEN "check"
                     ELSE "sort"

\* Safe in autopilot: execute.  In assist mode, or risky: queue.  Else the
\* suggestion is only mentioned in the answer.
Route(c, i) == IF auto[c] /\ i.act \notin Risky THEN "execute"
               ELSE IF assist[c] \/ i.act \in Risky THEN "check"
               ELSE "sort"

Decide(c) ==
    /\ pc[c] = "sort"
    /\ \E x \in todo[c] :
          /\ todo' = [todo EXCEPT ![c] = @ \ {x}]
          /\ \/ /\ \A i \in Choice(c, x) : Route(c, i) = "sort"
                /\ UNCHANGED <<pc, want>>
             \/ \E i \in Choice(c, x) : /\ Route(c, i) # "sort"
                                        /\ want' = [want EXCEPT ![c] = {i}]
                                        /\ Goto(c, Route(c, i))
    /\ UNCHANGED <<mode, rule, place, shown, meta, queue, auto, assist, req, past,
                   faults>>

\* What IMAP does: a message that is not in the inbox any more is not moved,
\* and that is no error.
Carry(m, a) == place' = IF a \in Moving /\ place[m] = "inbox"
                        THEN [place EXCEPT ![m] = Leads[a]] ELSE place

\* A run executes its action.  An error, or an answer that is lost, leaves a
\* mention of the message; an action nobody knows is an error.
Execute(c) ==
    /\ pc[c] = "execute"
    /\ \E i \in want[c] :
          \/ /\ i.act \in Executable
             /\ Carry(i.msg, i.act)
             /\ \/ /\ i.act \in Hiding
                   /\ Goto(c, "hide") /\ UNCHANGED <<want, faults>>
                \/ i.act \notin Hiding /\ Back(c) /\ UNCHANGED faults
                \/ Back(c) /\ faults < MaxFaults /\ faults' = faults + 1
          \/ Back(c) /\ UNCHANGED <<place, faults>>
    /\ UNCHANGED <<mode, rule, shown, meta, queue, auto, assist, todo, req,
                   approved, doubt, crossed>>

\* ... and then marks the cache row, if the action hides the message.
Hide(c) == /\ pc[c] = "hide"
           /\ shown' = shown \ {i.msg : i \in want[c]}
           /\ Back(c)
           /\ UNCHANGED <<mode, rule, place, meta, queue, auto, assist, todo,
                          req, past, faults>>

Waiting(m) == {i \in Ids : i[2] = m /\ status[i] = "pending"}

\* Variant: no look at the actions that are pending already.
CheckNothing(c) ==
    /\ pc[c] = "check"
    /\ Goto(c, "create")
    /\ UNCHANGED <<mode, rule, place, shown, meta, queue, auto, assist, todo,
                   want, req, past, faults>>

\* Variant: the action of a message is taken up again, whatever became of it.
CheckReopen(c) ==
    /\ pc[c] = "check"
    /\ \E i \in want[c] :
         LET old == {k \in Ids : k[2] = i.msg /\ status[k] # "absent"}
         IN  /\ \/ old = {} /\ Goto(c, "create") /\ UNCHANGED want
                \/ old # {} /\ Back(c)
             /\ status' = [k \in Ids |-> IF k \in old THEN "pending"
                                                     ELSE status[k]]
    /\ UNCHANGED <<action, mode, rule, place, shown, meta, auto, assist, todo, req,
                   past, faults>>

\* create_pending_action looks for a pending action of the message,
CheckPending(c) ==
    /\ pc[c] = "check"
    /\ \E i \in want[c] :
         /\ \/ Waiting(i.msg) = {} /\ Goto(c, "create") /\ UNCHANGED want
            \/ Waiting(i.msg) # {} /\ Back(c)
         /\ crossed' = IF \E d \in Cycles \ {c} : \E k \in want[d] :
                             pc[d] = "create" /\ k.msg = i.msg
                       THEN crossed \cup {i.msg} ELSE crossed
    /\ UNCHANGED <<mode, rule, place, shown, meta, queue, auto, assist, todo,
                   req, approved, doubt, faults>>

\* and creates one if there was none.
Create(c) ==
    /\ pc[c] = "create"
    /\ \E i \in want[c] :
          /\ status' = [status EXCEPT ![<<c, i.msg>>] = "pending"]
          /\ action' = [action EXCEPT ![<<c, i.msg>>] = i.act]
    /\ Back(c)
    /\ UNCHANGED <<mode, rule, place, shown, meta, auto, assist, todo, req,
                   past, faults>>

Finish(c) == /\ pc[c] = "sort" /\ todo[c] = {}
             /\ Leave(c, "done")
             /\ UNCHANGED <<mode, rule, place, shown, meta, queue, req, past,
                            faults>>

\* The process dies, or a database or folder lookup raises; the task was
\* acknowledged when it was taken, so the run is over.
RunDies(c) == /\ pc[c] \notin {"idle", "done", "dead"} /\ faults < MaxFaults
              /\ Leave(c, "dead")
              /\ faults' = faults + 1
              /\ UNCHANGED <<mode, rule, place, shown, meta, queue, req, past>>

-----------------------------------------------------------------------------
(* Requests that approve or reject.                                         *)

\* Both load the row if it is pending; what another request does with the row
\* from now on they do not see.
Fetch(u, i, next) ==
    /\ stage[u] = "idle" /\ status[i] = "pending"
    /\ stage' = [stage EXCEPT ![u] = next]
    /\ held' = [held EXCEPT ![u] = {i}]
    /\ doubt' = IF \E v \in Users : i \in held[v]
                THEN [doubt EXCEPT ![i] = @ \cup {"shared"}] ELSE doubt
    /\ UNCHANGED <<mode, rule, place, shown, meta, queue, run, approved,
                   crossed, faults>>

\* Variants: the row is loaded whatever its status.
FetchAny(u, i, next) ==
    /\ stage[u] = "idle" /\ status[i] # "absent"
    /\ stage' = [stage EXCEPT ![u] = next]
    /\ held' = [held EXCEPT ![u] = {i}]
    /\ doubt' = IF \E v \in Users : i \in held[v]
                THEN [doubt EXCEPT ![i] = @ \cup {"shared"}] ELSE doubt
    /\ UNCHANGED <<mode, rule, place, shown, meta, queue, run, approved,
                   crossed, faults>>
ApproveAny(u, i) == FetchAny(u, i, "execute")
RejectAny(u, i)  == FetchAny(u, i, "rejected")

Approve(u, i) == Fetch(u, i, "execute")
Reject(u, i) == Fetch(u, i, "rejected")

\* The request goes on with its row, or is over.
Step(u, next) == stage' = [stage EXCEPT ![u] = next] /\ UNCHANGED held
Release(u)    == /\ stage' = [stage EXCEPT ![u] = "idle"]
                 /\ held' = [held EXCEPT ![u] = {}]

\* Variant: the cache row is marked before the message is moved.
ExecuteHidden(u) ==
    /\ stage[u] = "execute"
    /\ \E i \in held[u] :
          /\ shown' = shown \ {i[2]}
          /\ \/ /\ action[i] \in Executable
                /\ Carry(i[2], action[i])
                /\ approved' = approved \cup {i} /\ Step(u, "applied")
             \/ Release(u) /\ UNCHANGED <<place, approved>>
    /\ UNCHANGED <<mode, rule, meta, queue, run, doubt, crossed, faults>>

\* Variant: the result of the action is not looked at.
ExecuteAnyhow(u) ==
    /\ stage[u] = "execute"
    /\ \E i \in held[u] :
          \/ /\ action[i] \in Executable
             /\ Carry(i[2], action[i])
             /\ approved' = approved \cup {i} /\ Step(u, "applied")
          \/ Step(u, "applied") /\ UNCHANGED <<place, approved>>
    /\ UNCHANGED <<mode, rule, shown, meta, queue, run, doubt, crossed,
                   faults>>

\* approve_action executes the action; after an error the row stays pending.
ExecuteApproved(u) ==
    /\ stage[u] = "execute"
    /\ \E i \in held[u] :
          \/ /\ action[i] \in Executable
             /\ Carry(i[2], action[i])
             /\ approved' = approved \cup {i}
             /\ Step(u, IF action[i] \in Hiding THEN "hide" ELSE "applied")
          \/ Release(u) /\ UNCHANGED <<place, approved>>
    /\ UNCHANGED <<mode, rule, shown, meta, queue, run, doubt, crossed,
                   faults>>

HideApproved(u) ==
    /\ stage[u] = "hide"
    /\ shown' = shown \ {i[2] : i \in held[u]}
    /\ Step(u, "applied")
    /\ UNCHANGED <<mode, rule, place, meta, queue, run, past, faults>>

\* save(update_fields=[...]) writes the status whatever it is now.
Resolve(u) ==
    /\ stage[u] \in {"applied", "rejected"}
    /\ status' = [i \in Ids |-> IF i \in held[u] THEN stage[u] ELSE status[i]]
    /\ Release(u)
    /\ UNCHANGED <<action, mode, rule, place, shown, meta, run, past, faults>>

\* A request ends with an error: before the IMAP server answered, although it
\* carried the action out; or in the cache update or the save, or anywhere
\* because its process dies.
Torn(u) == doubt' = [i \in Ids |-> IF i \in held[u]
                                   THEN doubt[i] \cup {"torn"} ELSE doubt[i]]

RequestDies(u) ==
    /\ stage[u] # "idle" /\ faults < MaxFaults
    /\ \/ UNCHANGED <<place, approved>>
       \/ /\ stage[u] = "execute"
          /\ \E i \in held[u] : /\ action[i] \in Executable
                                /\ Carry(i[2], action[i])
                                /\ approved' = approved \cup {i}
    /\ Torn(u)
    /\ Release(u)
    /\ faults' = faults + 1
    /\ UNCHANGED <<mode, rule, shown, meta, queue, run, crossed>>

RunStep(c) == \/ Triage(c) \/ EndTriage(c) \/ Decide(c)
              \/ Execute(c) \/ Hide(c) \/ CheckPending(c) \/ Create(c)
              \/ Finish(c)

Request(u) == \/ \E i \in Ids : Approve(u, i) \/ Reject(u, i)
              \/ ExecuteApproved(u) \/ HideApproved(u) \/ Resolve(u)
              \/ RequestDies(u)

Next == \/ SetMode
        \/ \E m \in Messages : MovedElsewhere(m)
        \/ \E c \in Cycles : \/ StartCycle(c) \/ StartOrganize(c)
                             \/ RunStep(c) \/ RunDies(c)
        \/ \E u \in Users : Request(u)

\* A run that was started goes on: every call it makes has a timeout.
Fairness == \A c \in Cycles : WF_vars(RunStep(c))

Spec     == Init /\ [][Next]_vars
FairSpec == Spec /\ Fairness

-----------------------------------------------------------------------------
(* Properties.                                                              *)

\* What the agent put into spam or a folder, or deleted, it put there because
\* a user approved an action that does so: whatever the mode was, is or becomes
\* while runs are under way.  A rule that names "move_spam" is the one way
\* past the queue: it moves to spam, but is_risky_action does not know it.
Bidden == {m \in Messages : rule[m] = "move_spam"}

RiskyIsApproved ==
    \A m \in Messages : place[m] \in Guarded =>
        \/ \E c \in Cycles : /\ <<c, m>> \in approved
                             /\ action[<<c, m>>] \in Moving
                             /\ Leads[action[<<c, m>>]] = place[m]
        \/ place[m] = "junk" /\ m \in Bidden

\* "applied" is the status of actions that were executed, also when another
\* request holds the same row.
AppliedIsExecuted ==
    \A i \in Ids : status[i] = "applied" => i \in approved

\* "rejected" is the status of actions that were not executed, unless two
\* requests held the row at once or one died with it.
RejectedIsHonest ==
    \A i \in approved : status[i] = "rejected" => doubt[i] # {}

\* A message waits for one decision, unless two runs were queueing it at the
\* same moment: later runs find what earlier ones have queued.
OnePending ==
    \A m \in Messages : \A i, k \in Waiting(m) : i # k => m \in crossed

\* The cache hides only messages that have left their place in the inbox.
HiddenHasLeft == \A m \in Messages \ shown : place[m] # "inbox"

\* A decision stands once no request holds the row any more.
ResolvedIsFinal ==
    [][\A i \in Ids : /\ status[i] \in {"applied", "rejected"}
                      /\ \A u \in Users : i \notin held[u]
                      => status'[i] = status[i] /\ action'[i] = action[i]]_vars

Sorting(c, m) == pc[c] = "sort" /\ \E x \in todo[c] : x.msg = m
Offered(m)    == \E c \in Cycles : status[<<c, m>>] # "absent"

\* A rule with a risky action is never passed over, in any mode: a run that has
\* listed a message dies, or an action of the message waits for the user or is
\* decided (that of the rule, or another that was waiting already).
HitIsOffered ==
    \A c \in Cycles, m \in Messages :
        Sorting(c, m) /\ rule[m] \in Risky ~> Offered(m) \/ pc[c] = "dead"

\* In assist mode every action goes to the approval queue: a run that found
\* the mode so before it organizes executes nothing on its own.
AssistIsQueued == \A c \in Cycles : pc[c] = "execute" => ~assist[c]

\* An action that waits for the user is one that can be approved.
PendingIsExecutable ==
    \A i \in Ids : status[i] = "pending" => action[i] \in Executable

\* What a user who decides may rely on, without the steps of runs and requests:
\* what is decided stands and tells what was done, but for the named races.
InHand   == UNION {held[u] : u \in Users}
Doubtful == {i \in Ids : doubt[i] # {}}

Log == INSTANCE ApprovalLog WITH
         inHand <- InHand, executed <- approved, doubtful <- Doubtful,
         bidden <- Bidden
ApprovalPromise == Log!ApprovalSpec
=============================================================================
