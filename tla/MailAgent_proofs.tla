--------------------------- MODULE MailAgent_proofs ---------------------------
(***************************************************************************)
(* Proofs about the mail agent and its approval queue: risky actions are    *)
(* approved ones, the status of an action tells what happened, a message    *)
(* waits for one decision.  They hold for any number of messages, runs,     *)
(* requests and faults, for any rules and any suggestions of the model.     *)
(***************************************************************************)
EXTENDS MailAgent, TLAPS

-----------------------------------------------------------------------------
(* Type correctness.                                                        *)

LEMMA IdFacts ==
    /\ \A c \in Cycles, m \in Messages : <<c, m>> \in Ids
    /\ \A i \in Ids : /\ i[1] \in Cycles /\ i[2] \in Messages
                      /\ i = <<i[1], i[2]>>
BY DEF Ids

LEMMA RowFacts == ASSUME TypeOK PROVE Rows \in SUBSET Row
BY DEF Rows, Row, TypeOK

\* Where the actions lead that move a message.
LEMMA LeadFacts ==
    /\ Moving \subseteq Executable /\ Hiding \subseteq Moving
    /\ \A a \in Moving : /\ Leads[a] \in Places \ {"inbox"}
                         /\ Leads[a] \in Guarded /\ a \notin Risky
                                => a = "move_spam" /\ Leads[a] = "junk"
                         /\ Leads[a] = "junk" => a \in {"spam", "move_spam"}
                         /\ a \in Risky => Leads[a] \in Guarded
<1>1. \A a \in Moving : Leads[a] =
             CASE a \in {"spam", "move_spam"} -> "junk"
               [] a = "archive" -> "archive"
               [] a = "delete" -> "gone"
               [] a = "move_folder" -> "folder"
               [] a = "not_spam" -> "again"
  BY DEF Leads
<1> QED
  BY <1>1 DEF Moving, Hiding, Executable, Safe, Risky, Guarded, Places

\* What a run decides to do with a row is an action the system knows of.
LEMMA ChoiceType ==
    ASSUME TypeOK, NEW c \in Cycles, NEW x \in Row
    PROVE  /\ Choice(c, x) \in SUBSET Intent
           /\ \A i \in Choice(c, x) : i.msg = x.msg
           /\ \A i, k \in Choice(c, x) : i = k
           /\ \A i \in Choice(c, x) : i.act = "move_spam" => i.msg \in Bidden
<1>1. /\ x.msg \in Messages /\ x.ai \in Meta
      /\ rule[x.msg] \in Rules \cup {"none"} /\ Rules \subseteq Actions
  BY AgentAssumption DEF Row, TypeOK
<1>2. x.ai.act \in AllSuggestions \cup {"none", "new"}
  BY <1>1 DEF Meta
<1>3. rule[x.msg] # "none" => rule[x.msg] \in Actions
  BY <1>1 DEF Actions
<1>4. x.ai.act \notin {"none", "new"} =>
          /\ x.ai.act \in Actions \ {"move_spam"}
          /\ (IF x.ai.act = "move" THEN "move_folder" ELSE x.ai.act)
                 \in Actions \ {"move_spam"}
  BY <1>2 DEF Actions, AllSuggestions, Executable, Safe, Risky
<1> QED
  BY <1>1, <1>3, <1>4 DEF Choice, Intent, Bidden

LEMMA RouteType ==
    ASSUME NEW c \in Cycles, NEW i \in Intent
    PROVE  /\ Route(c, i) \in {"execute", "check", "sort"}
           /\ Route(c, i) = "execute" => i.act \notin Risky
BY DEF Route

LEMMA InitType == Init => TypeOK
BY AgentAssumption DEF Init, TypeOK, Untriaged, Meta, AllSuggestions,
                       Ids, Status, Places

LEMMA RunType ==
    ASSUME TypeOK, NEW c \in Cycles,
           StartCycle(c) \/ StartOrganize(c) \/ RunStep(c) \/ RunDies(c)
    PROVE  TypeOK'
<1>0. Rows \in SUBSET Row
  BY RowFacts
<1> USE DEF TypeOK, run, past, queue, req, Goto, Back, Leave
<1>1. CASE StartCycle(c)
  <2>1. auto' \in [Cycles -> BOOLEAN]
    <3>1. \/ auto' = auto
          \/ auto' = [auto EXCEPT ![c] = (mode = "autopilot")]
      BY <1>1 DEF StartCycle
    <3> QED
      BY <3>1, Zenon
  <2>2. todo' \in [Cycles -> SUBSET Row]
    BY <1>0, <1>1 DEF StartCycle
  <2> QED
    BY <1>1, <2>1, <2>2 DEF StartCycle
<1>2. CASE Triage(c)
  <2>1. PICK x \in todo[c] :
          /\ todo' = [todo EXCEPT ![c] = @ \ {x}]
          /\ \/ UNCHANGED meta
             \/ \E a \in Suggestions, s \in BOOLEAN :
                    meta' = [meta EXCEPT ![x.msg] = [act |-> a, sure |-> s]]
             \/ meta' = [meta EXCEPT ![x.msg] = [act |-> "none", sure |-> FALSE]]
    BY <1>2 DEF Triage
  <2>2. /\ x.msg \in Messages
        /\ \A a \in Suggestions \cup {"none"}, s \in BOOLEAN :
               [act |-> a, sure |-> s] \in Meta
    BY AgentAssumption DEF Row, Meta
  <2>3. \/ meta' = meta
        \/ \E y \in Meta : meta' = [meta EXCEPT ![x.msg] = y]
    BY <2>1, <2>2
  <2>4. meta' \in [Messages -> Meta]
    BY <2>2, <2>3
  <2> QED
    BY <1>2, <2>1, <2>4 DEF Triage
<1>3. ASSUME NEW a \in BOOLEAN, Organize(c, a)
      PROVE  TypeOK'
  <2>1. auto' \in [Cycles -> BOOLEAN] /\ assist' \in [Cycles -> BOOLEAN]
    BY <1>3, Zenon DEF Organize
  <2> QED
    BY <1>0, <1>3, <2>1 DEF Organize
<1>4. CASE StartOrganize(c)
  BY <1>3, <1>4, AgentAssumption DEF StartOrganize
<1>5. CASE EndTriage(c)
  BY <1>3, <1>5 DEF EndTriage
<1>6. CASE Decide(c)
  <2>1. PICK x \in todo[c] :
          /\ todo' = [todo EXCEPT ![c] = @ \ {x}]
          /\ \/ UNCHANGED <<pc, want>>
             \/ \E i \in Choice(c, x) : /\ Route(c, i) # "sort"
                                        /\ want' = [want EXCEPT ![c] = {i}]
                                        /\ Goto(c, Route(c, i))
    BY <1>6 DEF Decide
  <2>2. Choice(c, x) \in SUBSET Intent
    BY ChoiceType
  <2> QED
    BY <1>6, <2>1, <2>2, RouteType DEF Decide
<1>7. CASE Execute(c)
  <2>1. \A m \in Messages, a \in Executable :
            Carry(m, a) =>
                place' \in [Messages -> Places]
    BY LeadFacts DEF Carry
  <2> QED
    BY <1>7, <2>1, AgentAssumption DEF Execute, Intent
<1>8. CASE Hide(c)
  BY <1>8 DEF Hide
<1>9. CASE CheckPending(c)
  BY <1>9 DEF CheckPending, Intent
<1>10. CASE Create(c)
  BY <1>10, IdFacts DEF Create, Intent, Status
<1>11. CASE Finish(c) \/ RunDies(c)
  <2>1. auto' \in [Cycles -> BOOLEAN] /\ assist' \in [Cycles -> BOOLEAN]
    BY <1>11, Zenon DEF Finish, RunDies
  <2> QED
    BY <1>11, <2>1, AgentAssumption DEF Finish, RunDies
<1> QED
  BY <1>1, <1>2, <1>4, <1>5, <1>6, <1>7, <1>8, <1>9, <1>10, <1>11 DEF RunStep

LEMMA RequestType ==
    ASSUME TypeOK, NEW u \in Users, Request(u)
    PROVE  TypeOK'
<1> USE DEF TypeOK, run, past, queue, Step, Release
<1>0. /\ held[u] \in SUBSET Ids
      /\ \A m \in Messages, a \in Executable :
             Carry(m, a) =>
                 place' \in [Messages -> Places]
  BY LeadFacts DEF Carry
<1>1. ASSUME NEW i \in Ids, Approve(u, i) \/ Reject(u, i)
      PROVE  TypeOK'
  BY <1>1 DEF Approve, Reject, Fetch
<1>2. CASE ExecuteApproved(u)
  BY <1>0, <1>2, IdFacts DEF ExecuteApproved
<1>3. CASE HideApproved(u)
  BY <1>0, <1>3 DEF HideApproved
<1>4. CASE Resolve(u)
  <2>1. status' \in [Ids -> Status]
    BY <1>4 DEF Resolve, Status
  <2> QED
    BY <1>4, <2>1 DEF Resolve
<1>5. CASE RequestDies(u)
  <2>1. doubt' \in [Ids -> SUBSET {"shared", "torn"}]
    BY <1>5 DEF RequestDies, Torn
  <2> QED
    BY <1>0, <1>5, <2>1, IdFacts, AgentAssumption DEF RequestDies
<1> QED
  BY <1>1, <1>2, <1>3, <1>4, <1>5 DEF Request

LEMMA TypeStep == TypeOK /\ [Next]_vars => TypeOK'
<1> SUFFICES ASSUME TypeOK, [Next]_vars
             PROVE  TypeOK'
  OBVIOUS
<1>1. CASE SetMode
  BY <1>1 DEF SetMode, TypeOK, run, past, queue, req
<1>2. ASSUME NEW m \in Messages, MovedElsewhere(m)
      PROVE  TypeOK'
  BY <1>2 DEF MovedElsewhere, TypeOK, run, past, queue, req, Places
<1>3. CASE UNCHANGED vars
  BY <1>3 DEF vars, TypeOK, run, past, queue, req
<1> QED
  BY <1>1, <1>2, <1>3, RunType, RequestType DEF Next

-----------------------------------------------------------------------------
(* The inductive invariant.                                                 *)

\* An action a run may take without an approval.
Unasked(i) == /\ i.act \notin Risky
              /\ i.act = "move_spam" => i.msg \in Bidden

\* A run queues at most one action for a message: what it still has on its
\* list, or has in hand, it has not queued.  What it executes on its own is
\* not risky, or spam only by a rule, and what it is about to hide has left its
\* place in the inbox.
RunInv(c) ==
    /\ pc[c] \in {"idle", "triage"}
           => \A m \in Messages : status[<<c, m>>] = "absent"
    /\ pc[c] \notin {"execute", "hide", "check", "create"} => want[c] = {}
    /\ \A x \in todo[c] : status[<<c, x.msg>>] = "absent"
    /\ \A x, y \in todo[c] : x.msg = y.msg => x = y
    /\ \A i \in want[c] : /\ status[<<c, i.msg>>] = "absent"
                          /\ \A x \in todo[c] : x.msg # i.msg
                          /\ \A k \in want[c] : k = i
                          /\ pc[c] = "execute" => Unasked(i)
                          /\ pc[c] = "hide" => place[i.msg] # "inbox"

\* What a request knows of the row it holds.
HoldInv(u, i) ==
    i \in held[u] =>
        /\ status[i] # "absent"
        /\ stage[u] # "idle"
        /\ \A k \in held[u] : k = i
        /\ stage[u] \in {"hide", "applied"} => i \in approved
        /\ stage[u] = "hide" => place[i[2]] # "inbox"
        /\ doubt[i] = {} =>
              /\ status[i] = "pending"
              /\ stage[u] \in {"execute", "rejected"} => i \notin approved
              /\ \A v \in Users : i \in held[v] => v = u

\* What the status of an action says has happened.
ActionInv(i) ==
    /\ status[i] = "applied" => i \in approved
    /\ i \in approved => status[i] # "absent"
    /\ i \in approved /\ doubt[i] = {}
           => status[i] = "applied" \/ \E u \in Users : i \in held[u]

\* A message has been moved by an approval, and is hidden when it has left.
MessageInv(m) ==
    /\ place[m] \in Guarded =>
           \/ \E c \in Cycles : /\ <<c, m>> \in approved
                                /\ action[<<c, m>>] \in Moving
                                /\ Leads[action[<<c, m>>]] = place[m]
           \/ place[m] = "junk" /\ m \in Bidden
    /\ m \notin shown => place[m] # "inbox"

\* Two runs that are about to queue a message, and one that is about to queue
\* it beside an action that waits, are on record.
Queueing(c, m) == pc[c] = "create" /\ \E i \in want[c] : i.msg = m

CrossInv(m) ==
    /\ \A c, d \in Cycles :
           Queueing(c, m) /\ Queueing(d, m) /\ c # d => m \in crossed
    /\ \A c \in Cycles, i \in Ids :
           Queueing(c, m) /\ i \in Waiting(m) => m \in crossed
    /\ \A i, k \in Waiting(m) : i # k => m \in crossed

IInv == /\ TypeOK
        /\ \A c \in Cycles : RunInv(c)
        /\ \A u \in Users, i \in Ids : HoldInv(u, i)
        /\ \A i \in Ids : ActionInv(i)
        /\ \A m \in Messages : MessageInv(m) /\ CrossInv(m)

-----------------------------------------------------------------------------
(* What a step may do to the mailbox and to the queue.                      *)

\* A message that has left the inbox stays where it is.
LEMMA CarryFacts ==
    ASSUME TypeOK, NEW m \in Messages, NEW a \in Executable, Carry(m, a)
    PROVE  /\ \A n \in Messages \ {m} : place'[n] = place[n]
           /\ \/ place'[m] = place[m]
              \/ /\ place[m] = "inbox" /\ a \in Moving
                 /\ place'[m] = Leads[a] /\ place'[m] # "inbox"
           /\ a \in Hiding => place'[m] # "inbox"
BY LeadFacts DEF Carry, TypeOK

\* What another step does not touch keeps the invariant of a run.
LEMMA RunFrame ==
    ASSUME TypeOK, NEW c \in Cycles, RunInv(c),
           pc'[c] = pc[c], todo'[c] = todo[c], want'[c] = want[c],
           rule' = rule,
           \A m \in Messages :
               status[<<c, m>>] = "absent" => status'[<<c, m>>] = "absent",
           \A m \in Messages : place[m] # "inbox" => place'[m] # "inbox"
    PROVE  RunInv(c)'
<1>1. /\ \A x \in todo[c] : x.msg \in Messages
      /\ \A i \in want[c] : i.msg \in Messages
  BY DEF TypeOK, Row, Intent
<1>2. \A i : Unasked(i)' <=> Unasked(i)
  BY DEF Unasked, Bidden
<1> QED
  BY <1>1, <1>2 DEF RunInv

\* Steps of a run: what they leave alone, and what they do to the queue.
LEMMA RunEffect ==
    ASSUME IInv, TypeOK', NEW c \in Cycles,
           StartCycle(c) \/ StartOrganize(c) \/ RunStep(c) \/ RunDies(c)
    PROVE  /\ \A d \in Cycles \ {c} : /\ pc'[d] = pc[d] /\ todo'[d] = todo[d]
                                      /\ want'[d] = want[d]
           /\ stage' = stage /\ held' = held
           /\ approved' = approved /\ doubt' = doubt
           /\ \A m \in Messages : \/ place'[m] = place[m]
                                  \/ /\ place[m] = "inbox" /\ place'[m] # "inbox"
                                     /\ place'[m] \in Guarded
                                            => place'[m] = "junk" /\ m \in Bidden
           /\ rule' = rule
           /\ \A i \in Ids : \/ status'[i] = status[i] /\ action'[i] = action[i]
                             \/ /\ Create(c) /\ i[1] = c /\ Queueing(c, i[2])
                                /\ status[i] = "absent" /\ status'[i] = "pending"
           /\ \A m \in Messages : m \in shown /\ m \notin shown'
                                      => place'[m] # "inbox"
<1> USE DEF IInv, TypeOK, run, past, queue, req, Goto, Back, Leave
<1>1. CASE StartCycle(c)
  BY <1>1 DEF StartCycle
<1>2. CASE StartOrganize(c)
  BY <1>2 DEF StartOrganize, Organize
<1>3. CASE Triage(c)
  BY <1>3 DEF Triage
<1>4. CASE EndTriage(c)
  BY <1>4 DEF EndTriage, Organize
<1>5. CASE Decide(c)
  BY <1>5 DEF Decide
<1>6. CASE Execute(c)
  <2>1. PICK i \in want[c] :
          \/ i.act \in Executable /\ Carry(i.msg, i.act)
          \/ UNCHANGED place
    BY <1>6 DEF Execute
  <2>2. i.msg \in Messages /\ Unasked(i)
    <3>1. RunInv(c) /\ pc[c] = "execute" /\ i \in Intent
      BY <1>6 DEF Execute
    <3> HIDE DEF IInv, TypeOK
    <3> QED
      BY <3>1 DEF RunInv, Intent
  <2>3. \A m \in Messages : \/ place'[m] = place[m]
                            \/ /\ place[m] = "inbox" /\ place'[m] # "inbox"
                               /\ place'[m] \in Guarded
                                      => place'[m] = "junk" /\ m \in Bidden
    BY <2>1, <2>2, CarryFacts, LeadFacts DEF Unasked
  <2> HIDE DEF IInv
  <2> QED
    BY <1>6, <2>3 DEF Execute, IInv
<1>7. CASE Hide(c)
  <2>1. \A i \in want[c] : place[i.msg] # "inbox"
    BY <1>7 DEF Hide, RunInv
  <2> QED
    BY <1>7, <2>1 DEF Hide
<1>8. CASE CheckPending(c)
  BY <1>8 DEF CheckPending
<1>9. CASE Create(c)
  <2>1. PICK i \in want[c] :
          /\ status' = [status EXCEPT ![<<c, i.msg>>] = "pending"]
          /\ action' = [action EXCEPT ![<<c, i.msg>>] = i.act]
    BY <1>9 DEF Create
  <2>2. i.msg \in Messages /\ status[<<c, i.msg>>] = "absent"
    BY DEF RunInv, Intent
  <2>3. Queueing(c, i.msg)
    BY <1>9 DEF Create, Queueing
  <2>4. \A k \in Ids \ {<<c, i.msg>>} : /\ status'[k] = status[k]
                                        /\ action'[k] = action[k]
    BY <2>1
  <2>5. <<c, i.msg>> \in Ids /\ status'[<<c, i.msg>>] = "pending"
    BY <2>1, <2>2, IdFacts
  <2>6. /\ \A d \in Cycles \ {c} : /\ pc'[d] = pc[d] /\ todo'[d] = todo[d]
                                   /\ want'[d] = want[d]
        /\ UNCHANGED <<rule, stage, held, approved, doubt, place, shown>>
    BY <1>9 DEF Create
  <2>7. \A k \in Ids : k = <<c, i.msg>> => k[1] = c /\ k[2] = i.msg
    OBVIOUS
  <2> HIDE DEF IInv, TypeOK
  <2> QED
    BY <1>9, <2>2, <2>3, <2>4, <2>5, <2>6, <2>7
<1>10. CASE Finish(c) \/ RunDies(c)
  BY <1>10 DEF Finish, RunDies
<1> QED
  BY <1>1, <1>2, <1>3, <1>4, <1>5, <1>6, <1>7, <1>8, <1>9, <1>10 DEF RunStep

\* Steps of a request: what they leave alone, and what they do to the mailbox
\* and to the queue.
LEMMA RequestEffect ==
    ASSUME IInv, NEW u \in Users, Request(u)
    PROVE  /\ pc' = pc /\ todo' = todo /\ want' = want /\ crossed' = crossed
           /\ action' = action /\ rule' = rule
           /\ approved \subseteq approved'
           /\ \A m \in Messages :
                  \/ place'[m] = place[m]
                  \/ /\ place[m] = "inbox" /\ place'[m] # "inbox"
                     /\ \E c \in Cycles :
                            /\ <<c, m>> \in approved'
                            /\ action[<<c, m>>] \in Moving
                            /\ Leads[action[<<c, m>>]] = place'[m]
           /\ \A i \in Ids : \/ status'[i] = status[i]
                             \/ /\ i \in held[u] /\ status[i] # "absent"
                                /\ status'[i] \in {"applied", "rejected"}
           /\ \A m \in Messages : m \in shown /\ m \notin shown'
                                      => place[m] # "inbox"
<1>0. TypeOK
  BY DEF IInv
<1> USE DEF run, past, queue, req, Step, Release
<1>1. ASSUME NEW i \in Ids, Approve(u, i) \/ Reject(u, i)
      PROVE  /\ UNCHANGED <<pc, todo, want, crossed, action, approved, place,
                            status, shown, rule>>
  BY <1>1 DEF Approve, Reject, Fetch
<1>2. ASSUME NEW i \in held[u], action[i] \in Executable,
             Carry(i[2], action[i]), approved' = approved \cup {i}
      PROVE  \A m \in Messages :
                  \/ place'[m] = place[m]
                  \/ /\ place[m] = "inbox" /\ place'[m] # "inbox"
                     /\ \E c \in Cycles :
                            /\ <<c, m>> \in approved'
                            /\ action[<<c, m>>] \in Moving
                            /\ Leads[action[<<c, m>>]] = place'[m]
  <2>1. i \in Ids
    BY <1>0 DEF TypeOK
  <2>2. i[1] \in Cycles /\ i[2] \in Messages /\ i = <<i[1], i[2]>>
    BY <2>1, IdFacts
  <2>3. /\ \A n \in Messages \ {i[2]} : place'[n] = place[n]
        /\ \/ place'[i[2]] = place[i[2]]
           \/ /\ place[i[2]] = "inbox"
              /\ action[i] \in Moving
              /\ place'[i[2]] = Leads[action[i]] /\ place'[i[2]] # "inbox"
    BY <1>0, <1>2, <2>2, CarryFacts
  <2> QED
    BY <1>2, <2>2, <2>3
<1>3. CASE ExecuteApproved(u)
  BY <1>2, <1>3 DEF ExecuteApproved
<1>4. CASE HideApproved(u)
  <2>1. \A i \in held[u] : place[i[2]] # "inbox"
    BY <1>0, <1>4 DEF HideApproved, IInv, HoldInv, TypeOK
  <2> QED
    BY <1>4, <2>1 DEF HideApproved
<1>5. CASE Resolve(u)
  <2>1. \A i \in held[u] : status[i] # "absent"
    BY <1>0 DEF IInv, HoldInv, TypeOK
  <2>2. stage[u] \in {"applied", "rejected"}
    BY <1>5 DEF Resolve
  <2> QED
    BY <1>5, <2>1, <2>2 DEF Resolve
<1>6. CASE RequestDies(u)
  BY <1>2, <1>6 DEF RequestDies
<1> QED
  BY <1>1, <1>3, <1>4, <1>5, <1>6 DEF Request

-----------------------------------------------------------------------------
(* Every step keeps the invariant.                                          *)

\* The steps of a run, for that run itself.
LEMMA OwnRunInv ==
    ASSUME IInv, TypeOK', NEW c \in Cycles,
           StartCycle(c) \/ StartOrganize(c) \/ RunStep(c) \/ RunDies(c)
    PROVE  RunInv(c)'
<1> USE DEF run, past, queue, req, Goto
<1>1. RunInv(c)
  BY DEF IInv
<1>2. /\ \A x \in Rows : x.msg \in Messages
      /\ \A x, y \in Rows : x.msg = y.msg => x = y
      /\ \A x \in todo[c] : x.msg \in Messages
      /\ \A i \in want[c] : i.msg \in Messages
      /\ pc \in [Cycles -> {"idle", "triage", "sort", "execute", "hide",
                            "check", "create", "done", "dead"}]
      /\ todo \in [Cycles -> SUBSET Row] /\ want \in [Cycles -> SUBSET Intent]
  BY DEF Rows, Row, Intent, IInv, TypeOK
<1> HIDE DEF IInv
<1>3. CASE StartCycle(c)
  <2>1. /\ pc'[c] \in {"triage", "done"} /\ UNCHANGED <<want, status, place>>
        /\ pc[c] = "idle"
        /\ pc'[c] = "done" => todo' = todo
        /\ todo'[c] \subseteq Rows \/ todo' = todo
    BY <1>2, <1>3 DEF StartCycle
  <2> QED
    BY <1>1, <1>2, <2>1 DEF RunInv
<1>4. CASE Triage(c)
  <2>1. /\ todo'[c] \subseteq todo[c] /\ pc[c] = "triage"
        /\ UNCHANGED <<pc, want, status, place>>
    BY <1>2, <1>4 DEF Triage
  <2> QED
    BY <1>1, <1>2, <2>1 DEF RunInv
<1>5. ASSUME NEW a \in BOOLEAN, Organize(c, a), pc[c] \in {"idle", "triage"}
      PROVE  RunInv(c)'
  <2>1. /\ pc'[c] = "sort" /\ todo'[c] = Rows
        /\ UNCHANGED <<want, status, place>>
    BY <1>2, <1>5 DEF Organize
  <2> QED
    BY <1>1, <1>2, <1>5, <2>1 DEF RunInv
<1>6. CASE StartOrganize(c)
  BY <1>5, <1>6, AgentAssumption DEF StartOrganize
<1>7. ASSUME UNCHANGED <<status, place>>,
             Leave(c, "done") \/ Leave(c, "dead")
      PROVE  RunInv(c)'
  <2>1. pc'[c] \in {"done", "dead"} /\ todo'[c] = {} /\ want'[c] = {}
    BY <1>2, <1>7 DEF Leave
  <2> QED
    BY <2>1 DEF RunInv
<1>8. CASE EndTriage(c)
  <2>1. auto[c] \in BOOLEAN
    BY DEF IInv, TypeOK
  <2> QED
    BY <1>5, <1>7, <1>8, <2>1 DEF EndTriage
<1>9. CASE Finish(c) \/ RunDies(c)
  BY <1>7, <1>9 DEF Finish, RunDies
<1>10. ASSUME Back(c), UNCHANGED todo,
              \A x \in todo[c] : status'[<<c, x.msg>>] = "absent"
       PROVE  RunInv(c)'
  <2>1. pc'[c] = "sort" /\ want'[c] = {}
    BY <1>2, <1>10 DEF Back
  <2> QED
    BY <1>1, <1>10, <2>1 DEF RunInv
<1>11. CASE Decide(c)
  <2>1. PICK x \in todo[c] :
          /\ todo' = [todo EXCEPT ![c] = @ \ {x}]
          /\ \/ UNCHANGED <<pc, want>>
             \/ \E i \in Choice(c, x) : /\ Route(c, i) # "sort"
                                        /\ want' = [want EXCEPT ![c] = {i}]
                                        /\ Goto(c, Route(c, i))
    BY <1>11 DEF Decide
  <2>2. /\ todo'[c] = todo[c] \ {x} /\ UNCHANGED <<status, place>>
        /\ pc[c] = "sort" /\ x \in Row
    BY <1>2, <1>11, <2>1 DEF Decide
  <2>3. CASE UNCHANGED <<pc, want>>
    BY <1>1, <1>2, <2>2, <2>3 DEF RunInv
  <2>4. ASSUME NEW i \in Choice(c, x), Route(c, i) # "sort",
               want' = [want EXCEPT ![c] = {i}], Goto(c, Route(c, i))
        PROVE  RunInv(c)'
    <3>1. i \in Intent /\ i.msg = x.msg
      BY <2>2, ChoiceType DEF IInv
    <3>2. /\ pc'[c] \in {"execute", "check"} /\ want'[c] = {i}
          /\ pc'[c] = "execute" => Unasked(i)'
      <4>1. i.act = "move_spam" => i.msg \in Bidden
        BY <2>2, <2>4, ChoiceType DEF IInv
      <4>2. Bidden' = Bidden
        BY <1>11 DEF Decide, Bidden
      <4> QED
        BY <1>2, <2>4, <3>1, <4>1, <4>2, RouteType DEF Unasked
    <3> QED
      BY <1>1, <1>2, <2>2, <3>1, <3>2 DEF RunInv
  <2> QED
    BY <2>1, <2>3, <2>4
<1>12. CASE Execute(c)
  <2>1. PICK i \in want[c] :
          \/ /\ i.act \in Executable
             /\ Carry(i.msg, i.act)
             /\ \/ /\ i.act \in Hiding
                   /\ Goto(c, "hide") /\ UNCHANGED <<want, faults>>
                \/ Back(c)
          \/ Back(c)
    BY <1>12 DEF Execute
  <2>2. UNCHANGED <<todo, status>>
    BY <1>12 DEF Execute
  <2>3. CASE Back(c)
    BY <1>1, <1>10, <2>2, <2>3 DEF RunInv
  <2>4. CASE /\ i.act \in Executable /\ Carry(i.msg, i.act)
             /\ i.act \in Hiding /\ Goto(c, "hide") /\ UNCHANGED want
    <3>1. place'[i.msg] # "inbox"
      BY <1>2, <2>4, CarryFacts DEF IInv
    <3>2. pc'[c] = "hide"
      BY <1>2, <2>4
    <3> QED
      BY <1>1, <1>2, <2>2, <2>4, <3>1, <3>2 DEF RunInv
  <2> QED
    BY <2>1, <2>3, <2>4
<1>13. CASE Hide(c)
  <2>1. Back(c) /\ UNCHANGED <<todo, status>>
    BY <1>13 DEF Hide
  <2> QED
    BY <1>1, <1>10, <2>1 DEF RunInv
<1>14. CASE CheckPending(c)
  <2>1. /\ UNCHANGED <<todo, status, place>>
        /\ \/ Goto(c, "create") /\ UNCHANGED want
           \/ Back(c)
        /\ pc[c] = "check"
    BY <1>14 DEF CheckPending
  <2>2. CASE Back(c)
    BY <1>1, <1>10, <2>1, <2>2 DEF RunInv
  <2>3. CASE Goto(c, "create") /\ UNCHANGED want
    <3>1. pc'[c] = "create"
      BY <1>2, <2>3
    <3> QED
      BY <1>1, <1>2, <2>1, <2>3, <3>1 DEF RunInv
  <2> QED
    BY <2>1, <2>2, <2>3
<1>15. CASE Create(c)
  <2>1. PICK i \in want[c] :
            status' = [status EXCEPT ![<<c, i.msg>>] = "pending"]
    BY <1>15 DEF Create
  <2>2. Back(c) /\ UNCHANGED todo
    BY <1>15 DEF Create
  <2>3. \A x \in todo[c] : x.msg # i.msg /\ <<c, x.msg>> # <<c, i.msg>>
    BY <1>1 DEF RunInv
  <2>4. \A x \in todo[c] : status'[<<c, x.msg>>] = status[<<c, x.msg>>]
    <3>1. \A x \in todo[c] : <<c, x.msg>> \in Ids
      BY <1>2, IdFacts
    <3>2. status \in [Ids -> Status]
      BY DEF IInv, TypeOK
    <3> QED
      BY <2>1, <2>3, <3>1, <3>2
  <2> QED
    BY <1>1, <1>10, <2>2, <2>4 DEF RunInv
<1> QED
  BY <1>3, <1>4, <1>6, <1>8, <1>9, <1>11, <1>12, <1>13, <1>14, <1>15
  DEF RunStep

\* What requests know of the rows they hold, and what rows say of messages,
\* does not change when a run takes a step.
LEMMA RunElsewhereInv ==
    ASSUME IInv, TypeOK', NEW c \in Cycles,
           StartCycle(c) \/ StartOrganize(c) \/ RunStep(c) \/ RunDies(c)
    PROVE  /\ \A d \in Cycles \ {c} : RunInv(d)'
           /\ \A u \in Users, i \in Ids : HoldInv(u, i)'
           /\ \A i \in Ids : ActionInv(i)'
           /\ \A m \in Messages : MessageInv(m)'
<1>1. /\ \A d \in Cycles \ {c} : /\ pc'[d] = pc[d] /\ todo'[d] = todo[d]
                                 /\ want'[d] = want[d]
      /\ stage' = stage /\ held' = held
      /\ approved' = approved /\ doubt' = doubt
      /\ \A m \in Messages : \/ place'[m] = place[m]
                             \/ /\ place[m] = "inbox" /\ place'[m] # "inbox"
                                /\ place'[m] \in Guarded
                                       => place'[m] = "junk" /\ m \in Bidden
      /\ rule' = rule
      /\ \A i \in Ids : \/ status'[i] = status[i] /\ action'[i] = action[i]
                        \/ /\ i[1] = c
                           /\ status[i] = "absent" /\ status'[i] = "pending"
      /\ \A m \in Messages : m \in shown /\ m \notin shown'
                                 => place'[m] # "inbox"
  BY RunEffect
<1>2. ASSUME NEW d \in Cycles \ {c} PROVE RunInv(d)'
  <2>1. RunInv(d) /\ TypeOK
    BY DEF IInv
  <2>2. \A m \in Messages : status'[<<d, m>>] = status[<<d, m>>]
    BY <1>1, IdFacts
  <2> QED
    BY <1>1, <2>1, <2>2, RunFrame
<1>3. ASSUME NEW u \in Users, NEW i \in Ids PROVE HoldInv(u, i)'
  <2>1. HoldInv(u, i) /\ i[2] \in Messages
    BY IdFacts DEF IInv
  <2> QED
    BY <1>1, <2>1 DEF HoldInv
<1>4. ASSUME NEW i \in Ids PROVE ActionInv(i)'
  <2>1. ActionInv(i)
    BY DEF IInv
  <2> QED
    BY <1>1, <2>1 DEF ActionInv
<1>5. ASSUME NEW m \in Messages PROVE MessageInv(m)'
  <2>1. MessageInv(m)
    BY DEF IInv
  <2>2. ASSUME NEW d \in Cycles, <<d, m>> \in approved
        PROVE  action'[<<d, m>>] = action[<<d, m>>]
    <3>1. <<d, m>> \in Ids /\ status[<<d, m>>] # "absent"
      BY <2>2, IdFacts DEF IInv, ActionInv
    <3> QED
      BY <1>1, <3>1
  <2>3. Bidden' = Bidden
    BY <1>1 DEF Bidden
  <2> QED
    BY <1>1, <2>1, <2>2, <2>3 DEF MessageInv
<1> QED
  BY <1>2, <1>3, <1>4, <1>5

\* Runs that queue the same message at the same time are on record.
LEMMA RunCrossInv ==
    ASSUME IInv, TypeOK', NEW c \in Cycles, NEW m \in Messages,
           StartCycle(c) \/ StartOrganize(c) \/ RunStep(c) \/ RunDies(c)
    PROVE  CrossInv(m)'
<1> USE DEF run, past, queue, req, Goto, Back, Leave
<1>1. CrossInv(m) /\ TypeOK
  BY DEF IInv
<1>2. /\ pc \in [Cycles -> {"idle", "triage", "sort", "execute", "hide",
                            "check", "create", "done", "dead"}]
      /\ want \in [Cycles -> SUBSET Intent] /\ status \in [Ids -> Status]
  BY <1>1 DEF TypeOK
<1>3. \A d \in Cycles \ {c} : Queueing(d, m)' <=> Queueing(d, m)
  BY RunEffect DEF Queueing
<1>4. CASE CheckPending(c)
  <2>1. PICK i \in want[c] :
         /\ \/ Waiting(i.msg) = {} /\ Goto(c, "create") /\ UNCHANGED want
            \/ Waiting(i.msg) # {} /\ Back(c)
         /\ crossed' = IF \E d \in Cycles \ {c} : \E k \in want[d] :
                             pc[d] = "create" /\ k.msg = i.msg
                       THEN crossed \cup {i.msg} ELSE crossed
    BY <1>4 DEF CheckPending
  <2>2. Waiting(m)' = Waiting(m)
    BY <1>4 DEF CheckPending, Waiting
  <2>3. \A k \in want[c] : k = i
    BY DEF IInv, RunInv
  <2>4. Queueing(c, m)' => m = i.msg /\ Waiting(m) = {}
    BY <1>2, <2>1, <2>3 DEF Queueing
  <2>5. \A d \in Cycles \ {c} : Queueing(d, m) /\ m = i.msg => m \in crossed'
    BY <2>1 DEF Queueing
  <2>6. crossed \subseteq crossed'
    BY <2>1
  <2> QED
    BY <1>1, <1>3, <2>2, <2>4, <2>5, <2>6 DEF CrossInv
<1>5. CASE Create(c)
  <2>1. ~Queueing(c, m)' /\ crossed' = crossed
    BY <1>2, <1>5 DEF Create, Queueing
  <2>2. \A i \in Ids : \/ status'[i] = status[i]
                       \/ i[1] = c /\ Queueing(c, i[2])
    BY RunEffect
  <2>3. \A i \in Waiting(m)' : \/ i \in Waiting(m)
                               \/ i = <<c, m>> /\ Queueing(c, m)
    BY <2>2, IdFacts DEF Waiting
  <2> QED
    BY <1>1, <1>3, <2>1, <2>3 DEF CrossInv, Waiting
<1>6. CASE ~CheckPending(c) /\ ~Create(c)
  <2>1. pc'[c] # "create" /\ crossed' = crossed /\ status' = status
    <3>1. CASE StartCycle(c) \/ Triage(c) \/ Hide(c) \/ Finish(c) \/ RunDies(c)
      BY <1>2, <3>1 DEF StartCycle, Triage, Hide, Finish, RunDies
    <3>2. CASE StartOrganize(c) \/ EndTriage(c)
      BY <1>2, <3>2 DEF StartOrganize, EndTriage, Organize
    <3>3. CASE Execute(c)
      BY <1>2, <3>3 DEF Execute
    <3>4. CASE Decide(c)
      <4>1. \A x \in todo[c] : Choice(c, x) \in SUBSET Intent
        BY <1>1, ChoiceType DEF TypeOK
      <4>2. \A i \in Intent : Route(c, i) # "create"
        BY RouteType
      <4> QED
        BY <1>2, <3>4, <4>1, <4>2 DEF Decide
    <3> QED
      BY <1>6, <3>1, <3>2, <3>3, <3>4 DEF RunStep
  <2>2. ~Queueing(c, m)' /\ Waiting(m)' = Waiting(m)
    BY <2>1 DEF Queueing, Waiting
  <2> QED
    BY <1>1, <1>3, <2>1, <2>2 DEF CrossInv
<1> QED
  BY <1>4, <1>5, <1>6

\* Steps of a request: the row it holds.
LEMMA RequestHoldInv ==
    ASSUME IInv, TypeOK', NEW u \in Users, Request(u),
           NEW v \in Users, NEW i \in Ids
    PROVE  HoldInv(v, i)' /\ ActionInv(i)'
<1> USE DEF run, past, queue, req, Step, Release
<1>1. /\ HoldInv(v, i) /\ HoldInv(u, i) /\ ActionInv(i)
      /\ \A w \in Users : HoldInv(w, i)
      /\ i[2] \in Messages
  BY IdFacts DEF IInv
<1>2. /\ stage \in [Users -> {"idle", "execute", "hide", "applied", "rejected"}]
      /\ held \in [Users -> SUBSET Ids] /\ status \in [Ids -> Status]
      /\ doubt \in [Ids -> SUBSET {"shared", "torn"}]
      /\ approved \subseteq Ids
  BY DEF IInv, TypeOK
<1>3. \A m \in Messages : place[m] # "inbox" => place'[m] # "inbox"
  BY RequestEffect
<1>4. ASSUME NEW k \in Ids, Approve(u, k) \/ Reject(u, k)
      PROVE  HoldInv(v, i)' /\ ActionInv(i)'
  <2>1. PICK next \in {"execute", "rejected"} : Fetch(u, k, next)
    BY <1>4 DEF Approve, Reject
  <2>2. /\ stage[u] = "idle" /\ status[k] = "pending"
        /\ stage'[u] = next /\ held'[u] = {k}
        /\ \A w \in Users \ {u} : stage'[w] = stage[w] /\ held'[w] = held[w]
        /\ UNCHANGED <<status, approved, place>>
        /\ i # k => doubt'[i] = doubt[i]
        /\ \/ doubt' = doubt /\ \A w \in Users : k \notin held[w]
           \/ doubt'[k] # {}
    BY <1>2, <2>1 DEF Fetch
  <2>3. CASE i = k
    BY <1>1, <2>2, <2>3 DEF HoldInv, ActionInv
  <2>4. CASE i # k
    <3>1. i \in held[u] => FALSE
      BY <1>1, <2>2 DEF HoldInv
    <3> QED
      BY <1>1, <2>2, <2>4, <3>1 DEF HoldInv, ActionInv
  <2> QED
    BY <2>3, <2>4
<1>5. CASE ExecuteApproved(u)
  <2>1. PICK k \in held[u] :
          \/ /\ action[k] \in Executable
             /\ Carry(k[2], action[k])
             /\ approved' = approved \cup {k}
             /\ Step(u, IF action[k] \in Hiding THEN "hide" ELSE "applied")
          \/ Release(u) /\ UNCHANGED <<place, approved>>
    BY <1>5 DEF ExecuteApproved
  <2>2. stage[u] = "execute" /\ UNCHANGED <<status, doubt>>
    BY <1>5 DEF ExecuteApproved
  <2>3. CASE Release(u) /\ UNCHANGED <<place, approved>>
    BY <1>1, <1>2, <2>2, <2>3 DEF HoldInv, ActionInv
  <2>4. CASE /\ action[k] \in Executable
             /\ Carry(k[2], action[k])
             /\ approved' = approved \cup {k}
             /\ Step(u, IF action[k] \in Hiding THEN "hide" ELSE "applied")
    <3>1. k \in Ids /\ k[2] \in Messages
      BY <1>2, IdFacts
    <3>2. action[k] \in Hiding => place'[k[2]] # "inbox"
      BY <2>4, <3>1, CarryFacts DEF IInv
    <3>3. /\ held' = held
          /\ stage'[u] = IF action[k] \in Hiding THEN "hide" ELSE "applied"
          /\ \A w \in Users \ {u} : stage'[w] = stage[w]
      BY <1>2, <2>4
    <3>4. HoldInv(u, k) /\ ActionInv(k)
      BY <3>1 DEF IInv
    <3>5. CASE i = k
      BY <1>1, <1>3, <2>2, <2>4, <3>2, <3>3, <3>5 DEF HoldInv, ActionInv
    <3>6. CASE i # k
      <4>1. i \notin held[u]
        BY <3>4, <3>6 DEF HoldInv
      <4>2. i \in approved' <=> i \in approved
        BY <2>4, <3>6
      <4> QED
        BY <1>1, <1>3, <2>2, <3>3, <4>1, <4>2 DEF HoldInv, ActionInv
    <3> QED
      BY <3>5, <3>6
  <2> QED
    BY <2>1, <2>3, <2>4
<1>6. CASE HideApproved(u)
  BY <1>1, <1>2, <1>6 DEF HideApproved, HoldInv, ActionInv
<1>7. CASE Resolve(u)
  <2>1. /\ stage[u] \in {"applied", "rejected"} /\ held'[u] = {}
        /\ \A w \in Users \ {u} : stage'[w] = stage[w] /\ held'[w] = held[w]
        /\ status'[i] = IF i \in held[u] THEN stage[u] ELSE status[i]
        /\ UNCHANGED <<doubt, approved, place>>
    BY <1>2, <1>7 DEF Resolve
  <2> QED
    BY <1>1, <2>1 DEF HoldInv, ActionInv
<1>8. CASE RequestDies(u)
  <2>1. /\ stage[u] # "idle" /\ held'[u] = {} /\ UNCHANGED status
        /\ \A w \in Users \ {u} : stage'[w] = stage[w] /\ held'[w] = held[w]
        /\ doubt[i] \subseteq doubt'[i]
        /\ i \in held[u] => doubt'[i] # {}
        /\ i \notin held[u] => doubt'[i] = doubt[i]
        /\ approved \subseteq approved'
        /\ i \notin held[u] => (i \in approved' <=> i \in approved)
    BY <1>2, <1>8 DEF RequestDies, Torn
  <2> QED
    BY <1>1, <1>3, <2>1 DEF HoldInv, ActionInv
<1> QED
  BY <1>4, <1>5, <1>6, <1>7, <1>8 DEF Request

\* Steps of a request: everything else.
LEMMA RequestInv ==
    ASSUME IInv, TypeOK', NEW u \in Users, Request(u)
    PROVE  IInv'
<1>1. /\ pc' = pc /\ todo' = todo /\ want' = want /\ crossed' = crossed
      /\ action' = action /\ rule' = rule
      /\ approved \subseteq approved'
      /\ \A m \in Messages :
             \/ place'[m] = place[m]
             \/ /\ place[m] = "inbox" /\ place'[m] # "inbox"
                /\ \E c \in Cycles : /\ <<c, m>> \in approved'
                                     /\ action[<<c, m>>] \in Moving
                                     /\ Leads[action[<<c, m>>]] = place'[m]
      /\ \A i \in Ids : \/ status'[i] = status[i]
                        \/ /\ i \in held[u] /\ status[i] # "absent"
                           /\ status'[i] \in {"applied", "rejected"}
      /\ \A m \in Messages : m \in shown /\ m \notin shown'
                                 => place[m] # "inbox"
  BY RequestEffect
<1>2. ASSUME NEW c \in Cycles PROVE RunInv(c)'
  <2>1. RunInv(c) /\ TypeOK
    BY DEF IInv
  <2>2. \A m \in Messages : <<c, m>> \in Ids
    BY IdFacts
  <2> QED
    BY <1>1, <2>1, <2>2, RunFrame
<1>3. ASSUME NEW m \in Messages PROVE MessageInv(m)'
  <2>1. MessageInv(m)
    BY DEF IInv
  <2>2. Bidden' = Bidden
    BY <1>1 DEF Bidden
  <2> QED
    BY <1>1, <2>1, <2>2 DEF MessageInv
<1>4. ASSUME NEW m \in Messages PROVE CrossInv(m)'
  <2>1. CrossInv(m)
    BY DEF IInv
  <2>2. Waiting(m)' \subseteq Waiting(m)
    BY <1>1 DEF Waiting
  <2>3. \A c \in Cycles : Queueing(c, m)' <=> Queueing(c, m)
    BY <1>1 DEF Queueing
  <2> QED
    BY <1>1, <2>1, <2>2, <2>3 DEF CrossInv
<1>5. \A v \in Users, i \in Ids : HoldInv(v, i)' /\ ActionInv(i)'
  BY RequestHoldInv
<1>6. \A i \in Ids : ActionInv(i)'
  BY <1>5
<1> QED
  BY <1>2, <1>3, <1>4, <1>5, <1>6 DEF IInv

LEMMA InitInv == Init => IInv
<1> SUFFICES ASSUME Init PROVE IInv
  OBVIOUS
<1>1. TypeOK
  BY InitType
<1>2. \A c \in Cycles : RunInv(c)
  BY IdFacts DEF Init, RunInv
<1>3. \A u \in Users, i \in Ids : HoldInv(u, i)
  BY DEF Init, HoldInv
<1>4. \A i \in Ids : ActionInv(i)
  BY DEF Init, ActionInv
<1>5. ASSUME NEW m \in Messages PROVE MessageInv(m) /\ CrossInv(m)
  BY DEF Init, MessageInv, CrossInv, Queueing, Waiting, Guarded
<1> QED
  BY <1>1, <1>2, <1>3, <1>4, <1>5 DEF IInv

LEMMA NextInv == IInv /\ [Next]_vars => IInv'
<1> SUFFICES ASSUME IInv, [Next]_vars
             PROVE  IInv'
  OBVIOUS
<1>1. TypeOK' /\ TypeOK
  BY TypeStep DEF IInv
<1>2. ASSUME NEW c \in Cycles,
             StartCycle(c) \/ StartOrganize(c) \/ RunStep(c) \/ RunDies(c)
      PROVE  IInv'
  <2>1. RunInv(c)' /\ \A m \in Messages : CrossInv(m)'
    BY <1>1, <1>2, OwnRunInv, RunCrossInv
  <2>2. /\ \A d \in Cycles \ {c} : RunInv(d)'
        /\ \A u \in Users, i \in Ids : HoldInv(u, i)'
        /\ \A i \in Ids : ActionInv(i)'
        /\ \A m \in Messages : MessageInv(m)'
    BY <1>1, <1>2, RunElsewhereInv
  <2> QED
    BY <1>1, <2>1, <2>2 DEF IInv
<1>3. ASSUME SetMode \/ UNCHANGED vars
      PROVE  IInv'
  <2>1. UNCHANGED <<rule, place, shown, status, action, pc, todo, want, stage,
                    held, approved, doubt, crossed>>
    BY <1>3 DEF SetMode, vars, queue, run, req, past
  <2>2. \A m \in Messages : Waiting(m)' = Waiting(m)
    BY <2>1 DEF Waiting
  <2>3. \A c \in Cycles : RunInv(c)'
    BY <2>1 DEF IInv, RunInv, Unasked, Bidden
  <2>4. \A u \in Users, i \in Ids : HoldInv(u, i)'
    BY <2>1 DEF IInv, HoldInv
  <2>5. \A i \in Ids : ActionInv(i)'
    BY <2>1 DEF IInv, ActionInv
  <2>6. \A m \in Messages : MessageInv(m)' /\ CrossInv(m)'
    BY <2>1, <2>2 DEF IInv, MessageInv, CrossInv, Queueing, Bidden
  <2> QED
    BY <1>1, <2>3, <2>4, <2>5, <2>6 DEF IInv
<1>4. ASSUME NEW m \in Messages, MovedElsewhere(m)
      PROVE  IInv'
  <2>1. UNCHANGED <<rule, shown, status, action, pc, todo, want, stage, held,
                    approved, doubt, crossed>>
    BY <1>4 DEF MovedElsewhere, queue, run, req, past
  <2>2. \A n \in Messages : \/ place'[n] = place[n]
                            \/ place[n] = "inbox" /\ place'[n] = "elsewhere"
    BY <1>1, <1>4 DEF MovedElsewhere, TypeOK
  <2>3. \A n \in Messages : Waiting(n)' = Waiting(n)
    BY <2>1 DEF Waiting
  <2>4. ASSUME NEW c \in Cycles PROVE RunInv(c)'
    BY <1>1, <2>1, <2>2, RunFrame DEF IInv
  <2>5. ASSUME NEW u \in Users, NEW i \in Ids PROVE HoldInv(u, i)'
    <3>1. HoldInv(u, i) /\ i[2] \in Messages
      BY IdFacts DEF IInv
    <3> QED
      BY <2>1, <2>2, <3>1 DEF HoldInv
  <2>6. \A i \in Ids : ActionInv(i)'
    BY <2>1 DEF IInv, ActionInv
  <2>7. ASSUME NEW n \in Messages PROVE MessageInv(n)' /\ CrossInv(n)'
    <3>1. MessageInv(n) /\ CrossInv(n)
      BY DEF IInv
    <3>2. MessageInv(n)'
      BY <2>1, <2>2, <3>1 DEF MessageInv, Guarded, Bidden
    <3>3. CrossInv(n)'
      BY <2>1, <2>3, <3>1 DEF CrossInv, Queueing
    <3> QED
      BY <3>2, <3>3
  <2> QED
    BY <1>1, <2>4, <2>5, <2>6, <2>7 DEF IInv
<1>5. ASSUME NEW u \in Users, Request(u)
      PROVE  IInv'
  BY <1>1, <1>5, RequestInv
<1> QED
  BY <1>2, <1>3, <1>4, <1>5 DEF Next

-----------------------------------------------------------------------------
(* The theorems.                                                            *)

\* The inductive invariant holds in every reachable state.
THEOREM Invariance == Spec => []IInv
<1>1. Init => IInv
  BY InitInv
<1>2. IInv /\ [Next]_vars => IInv'
  BY NextInv
<1> QED
  BY <1>1, <1>2, PTL DEF Spec

\* Every variable keeps its type.
THEOREM TypeCorrect == Spec => []TypeOK
<1>1. IInv => TypeOK
  BY DEF IInv
<1> QED
  BY <1>1, Invariance, PTL

\* A message in the spam folder, in the trash or in another folder by the
\* agent's doing was moved by an approval of that very action.
THEOREM RiskyTheorem == Spec => []RiskyIsApproved
<1>1. IInv => RiskyIsApproved
  BY DEF IInv, MessageInv, RiskyIsApproved
<1> QED
  BY <1>1, Invariance, PTL

\* Only actions that were executed are recorded as applied.
THEOREM AppliedTheorem == Spec => []AppliedIsExecuted
<1>1. IInv => AppliedIsExecuted
  BY DEF IInv, ActionInv, AppliedIsExecuted
<1> QED
  BY <1>1, Invariance, PTL

\* An executed action is recorded as rejected only after two requests held it
\* at once or one of them died with it.
THEOREM RejectedTheorem == Spec => []RejectedIsHonest
<1>1. IInv => RejectedIsHonest
  <2> SUFFICES ASSUME IInv, NEW i \in approved, status[i] = "rejected",
                      doubt[i] = {}
               PROVE  FALSE
    BY DEF RejectedIsHonest
  <2>1. i \in Ids
    BY DEF IInv, TypeOK
  <2>2. ActionInv(i) /\ \A u \in Users : HoldInv(u, i)
    BY <2>1 DEF IInv
  <2> QED
    BY <2>2 DEF ActionInv, HoldInv
<1> QED
  BY <1>1, Invariance, PTL

\* Two actions wait for one message only when two runs were queueing it at the
\* same time.
THEOREM OneTheorem == Spec => []OnePending
<1>1. IInv => OnePending
  BY DEF IInv, CrossInv, OnePending
<1> QED
  BY <1>1, Invariance, PTL

\* The cache never hides a message that is in the inbox.
THEOREM HiddenTheorem == Spec => []HiddenHasLeft
<1>1. IInv => HiddenHasLeft
  BY DEF IInv, MessageInv, HiddenHasLeft
<1> QED
  BY <1>1, Invariance, PTL

\* A decision that no request holds any more is never changed: a run queues
\* each message once, and requests write only rows they hold.
THEOREM FinalTheorem == Spec => ResolvedIsFinal
<1>1. IInv /\ [Next]_vars =>
        [\A i \in Ids : /\ status[i] \in {"applied", "rejected"}
                        /\ \A u \in Users : i \notin held[u]
                        => status'[i] = status[i] /\ action'[i] = action[i]]_vars
  <2> SUFFICES ASSUME IInv, [Next]_vars, NEW i \in Ids,
                      status[i] \in {"applied", "rejected"},
                      \A u \in Users : i \notin held[u]
               PROVE  status'[i] = status[i] /\ action'[i] = action[i]
    BY Zenon
  <2>1. TypeOK'
    BY TypeStep DEF IInv
  <2>2. CASE \E c \in Cycles : \/ StartCycle(c) \/ StartOrganize(c)
                               \/ RunStep(c) \/ RunDies(c)
    BY <2>1, <2>2, RunEffect
  <2>3. CASE \E u \in Users : Request(u)
    BY <2>3, RequestEffect
  <2>4. CASE \/ SetMode \/ UNCHANGED vars
             \/ \E m \in Messages : MovedElsewhere(m)
    BY <2>4 DEF SetMode, MovedElsewhere, vars, queue
  <2> QED
    BY <2>2, <2>3, <2>4 DEF Next
<1> QED
  BY <1>1, Invariance, PTL DEF Spec, ResolvedIsFinal

-----------------------------------------------------------------------------
(* Runs and requests behave as the log of decisions promises.               *)

\* A step that leaves mailbox, queue and requests alone is not seen.
LEMMA SameLog ==
    ASSUME UNCHANGED <<status, action, place, held, approved, doubt>>,
           Bidden' = Bidden
    PROVE  UNCHANGED Log!approvalVars
BY DEF Log!approvalVars, InHand, Doubtful

\* Nothing changes the rules.
LEMMA RunBidden ==
    ASSUME NEW c \in Cycles,
           StartCycle(c) \/ StartOrganize(c) \/ RunStep(c) \/ RunDies(c)
    PROVE  Bidden' = Bidden
<1>1. rule' = rule
  BY DEF StartCycle, StartOrganize, Organize, RunStep, RunDies, Triage,
         EndTriage, Decide, Execute, Hide, CheckPending, Create, Finish
<1> QED
  BY <1>1 DEF Bidden

LEMMA RequestBidden ==
    ASSUME NEW u \in Users, Request(u)
    PROVE  Bidden' = Bidden
<1>1. rule' = rule
  BY DEF Request, Approve, Reject, Fetch, ExecuteApproved, HideApproved,
         Resolve, RequestDies
<1> QED
  BY <1>1 DEF Bidden

\* Steps of a run: it proposes an action, or moves a message on its own.
LEMMA RunLog ==
    ASSUME IInv, NEW c \in Cycles,
           StartCycle(c) \/ StartOrganize(c) \/ RunStep(c) \/ RunDies(c)
    PROVE  [Log!ApprovalNext]_(Log!approvalVars)
<1> USE DEF run, past, queue, req, Goto, Back, Leave
<1>1. TypeOK /\ RunInv(c) /\ Bidden' = Bidden
  BY RunBidden DEF IInv
<1>2. CASE Create(c)
  <2>1. PICK i \in want[c] :
          /\ status' = [status EXCEPT ![<<c, i.msg>>] = "pending"]
          /\ action' = [action EXCEPT ![<<c, i.msg>>] = i.act]
    BY <1>2 DEF Create
  <2>2. /\ i.msg \in Messages /\ i.act \in Actions
        /\ status[<<c, i.msg>>] = "absent"
    BY <1>1 DEF TypeOK, RunInv, Intent
  <2>3. InHand' = InHand /\ Doubtful' = Doubtful
    BY <1>2 DEF Create, InHand, Doubtful
  <2>4. Log!Propose(<<c, i.msg>>, i.act)
    BY <1>1, <1>2, <2>1, <2>2, <2>3 DEF Create, Log!Propose
  <2>5. <<c, i.msg>> \in Log!Ids
    BY <2>2 DEF Log!Ids
  <2> QED
    BY <2>2, <2>4, <2>5 DEF Log!ApprovalNext
<1>3. CASE Execute(c)
  <2>1. PICK i \in want[c] : Carry(i.msg, i.act) \/ UNCHANGED place
    BY <1>3 DEF Execute
  <2>2. UNCHANGED <<status, action, held, approved, doubt>>
    BY <1>3 DEF Execute
  <2>3. CASE UNCHANGED place
    BY <1>1, <2>2, <2>3, SameLog
  <2>4. CASE place' # place
    <3>1. i.msg \in Messages /\ Unasked(i)
      <4>1. pc[c] = "execute" /\ i \in Intent
        BY <1>1, <1>3 DEF Execute, TypeOK
      <4>2. Unasked(i)
        BY <1>1, <4>1 DEF RunInv
      <4> QED
        BY <4>1, <4>2 DEF Intent
    <3>2. /\ place[i.msg] = "inbox" /\ i.act \in Moving
          /\ place' = [place EXCEPT ![i.msg] = Leads[i.act]]
      BY <2>1, <2>4 DEF Carry
    <3>3. InHand' = InHand /\ Doubtful' = Doubtful
      BY <2>2 DEF InHand, Doubtful
    <3>4. Leads[i.act] \in {Leads[a] : a \in Risky} => i.msg \in Bidden
      <4>1. Risky \subseteq Moving
        BY DEF Risky, Moving, Hiding
      <4> QED
        BY <3>1, <3>2, <4>1, LeadFacts DEF Unasked
    <3>5. Log!MoveSafely(i.msg, Leads[i.act])
      BY <1>1, <2>2, <3>2, <3>3, <3>4 DEF Log!MoveSafely
    <3> QED
      BY <3>1, <3>2, <3>5 DEF Unasked, Log!ApprovalNext
  <2> QED
    BY <2>3, <2>4
<1>4. CASE ~Create(c) /\ ~Execute(c)
  <2>1. UNCHANGED <<status, action, place, held, approved, doubt>>
    BY <1>4 DEF StartCycle, StartOrganize, RunStep, Triage, EndTriage,
                Organize, Decide, Hide, CheckPending, Finish, RunDies
  <2> QED
    BY <1>1, <2>1, SameLog
<1> QED
  BY <1>2, <1>3, <1>4

\* A request that ends lets go of the one row it held.
LEMMA ReleaseLog ==
    ASSUME IInv, NEW u \in Users, Release(u), NEW i \in held[u],
           \A k \in Ids : doubt[k] \subseteq doubt'[k]
    PROVE  Log!LetGo(i)
<1>1. /\ held \in [Users -> SUBSET Ids] /\ i \in Ids
      /\ held[u] = {i}
  <2>1. held \in [Users -> SUBSET Ids] /\ i \in Ids
    BY DEF IInv, TypeOK
  <2> QED
    BY <2>1 DEF IInv, HoldInv
<1>2. held'[u] = {} /\ \A v \in Users \ {u} : held'[v] = held[v]
  BY <1>1 DEF Release
<1>3. \A k : k \in InHand <=> \E v \in Users : k \in held[v]
  BY DEF InHand
<1>4. \A k : k \in InHand' <=> \E v \in Users : k \in held'[v]
  BY DEF InHand
<1>5. CASE \E v \in Users \ {u} : i \in held[v]
  <2>1. doubt[i] # {}
    BY <1>1, <1>5 DEF IInv, HoldInv
  <2>2. i \in Doubtful'
    BY <1>1, <2>1 DEF Doubtful
  <2>3. ASSUME NEW k PROVE k \in InHand' <=> k \in InHand
    BY <1>1, <1>2, <1>3, <1>4, <1>5
  <2>4. InHand' = InHand
    BY <2>3, Zenon
  <2> QED
    BY <2>2, <2>4 DEF Log!LetGo
<1>6. CASE ~\E v \in Users \ {u} : i \in held[v]
  <2>1. InHand' = InHand \ {i}
    BY <1>1, <1>2, <1>3, <1>4, <1>6
  <2> QED
    BY <2>1 DEF Log!LetGo
<1> QED
  BY <1>5, <1>6

\* Steps of a request: it takes a proposal in hand, carries it out, decides or
\* puts it down.
LEMMA RequestLog ==
    ASSUME IInv, NEW u \in Users, Request(u)
    PROVE  [Log!ApprovalNext]_(Log!approvalVars)
<1> USE DEF run, past, queue, req
<1>1. /\ held \in [Users -> SUBSET Ids] /\ status \in [Ids -> Status]
      /\ doubt \in [Ids -> SUBSET {"shared", "torn"}]
      /\ Bidden' = Bidden
  BY RequestBidden DEF IInv, TypeOK
<1>2. Log!Ids = Ids
  BY DEF Log!Ids, Ids
<1>3. ASSUME NEW i \in held[u]
      PROVE  /\ i \in Ids /\ i \in InHand /\ held[u] = {i}
             /\ HoldInv(u, i) /\ ActionInv(i)
             /\ i \in Doubtful <=> doubt[i] # {}
  <2>1. i \in Ids /\ i \in InHand
    BY <1>1 DEF InHand
  <2>2. HoldInv(u, i) /\ ActionInv(i)
    BY <2>1 DEF IInv
  <2>3. held[u] = {i}
    BY <2>2 DEF HoldInv
  <2> QED
    BY <2>1, <2>2, <2>3 DEF Doubtful
<1>4. ASSUME NEW i \in Ids, Approve(u, i) \/ Reject(u, i)
      PROVE  Log!ApprovalNext
  <2>1. PICK next \in {"execute", "rejected"} : Fetch(u, i, next)
    BY <1>4 DEF Approve, Reject
  <2>2. held[u] = {}
    <3>1. \A k \in held[u] : stage[u] # "idle"
      BY <1>3 DEF HoldInv
    <3> QED
      BY <2>1, <3>1 DEF Fetch
  <2>3. InHand' = InHand \cup {i}
    <3>1. \A k : k \in InHand <=> \E v \in Users : k \in held[v]
      BY DEF InHand
    <3>2. \A k : k \in InHand' <=> \E v \in Users : k \in held'[v]
      BY DEF InHand
    <3>3. held' = [held EXCEPT ![u] = {i}]
      BY <2>1 DEF Fetch
    <3> QED
      BY <1>1, <2>2, <3>1, <3>2, <3>3
  <2>4. Doubtful' = Doubtful \cup ({i} \cap InHand)
    <3>1. i \in InHand <=> \E v \in Users : i \in held[v]
      BY DEF InHand
    <3>2. doubt' = IF i \in InHand
                   THEN [doubt EXCEPT ![i] = @ \cup {"shared"}] ELSE doubt
      BY <2>1, <3>1 DEF Fetch
    <3> QED
      BY <1>1, <3>2 DEF Doubtful
  <2>5. Log!TakeUp(i)
    BY <1>1, <2>1, <2>3, <2>4 DEF Fetch, Log!TakeUp
  <2> QED
    BY <1>2, <2>5 DEF Log!ApprovalNext
<1>5. CASE ExecuteApproved(u)
  <2>1. PICK i \in held[u] :
          \/ /\ Carry(i[2], action[i])
             /\ approved' = approved \cup {i} /\ held' = held
          \/ Release(u) /\ UNCHANGED <<place, approved>>
    BY <1>5 DEF ExecuteApproved, Step
  <2>2. UNCHANGED <<status, action, doubt>> /\ stage[u] = "execute"
    BY <1>5 DEF ExecuteApproved
  <2>3. Doubtful' = Doubtful
    BY <2>2 DEF Doubtful
  <2>4. i \in approved => i \in Doubtful
    BY <1>3, <2>2 DEF HoldInv
  <2>5. CASE /\ Carry(i[2], action[i])
             /\ approved' = approved \cup {i} /\ held' = held
    <3>1. InHand' = InHand
      BY <2>5 DEF InHand
    <3>2. Log!CarryOut(i)
      BY <1>1, <1>3, <2>2, <2>3, <2>4, <2>5, <3>1 DEF Log!CarryOut, Carry
    <3> QED
      BY <1>2, <1>3, <3>2 DEF Log!ApprovalNext
  <2>6. CASE Release(u) /\ UNCHANGED <<place, approved>>
    <3>1. Log!LetGo(i)
      BY <2>2, <2>6, ReleaseLog
    <3>2. Log!PutDown(i)
      BY <1>1, <1>3, <2>2, <2>3, <2>4, <2>6, <3>1 DEF Log!PutDown
    <3> QED
      BY <1>2, <1>3, <3>2 DEF Log!ApprovalNext
  <2> QED
    BY <2>1, <2>5, <2>6
<1>6. CASE HideApproved(u)
  BY <1>1, <1>6, SameLog DEF HideApproved, Step
<1>7. CASE Resolve(u)
  <2>1. /\ stage[u] \in {"applied", "rejected"} /\ Release(u)
        /\ status' = [i \in Ids |-> IF i \in held[u] THEN stage[u]
                                                    ELSE status[i]]
        /\ UNCHANGED <<action, place, approved, doubt>>
    BY <1>7 DEF Resolve
  <2>2. Doubtful' = Doubtful
    BY <2>1 DEF Doubtful
  <2>3. CASE held[u] = {}
    <3>1. status' = status /\ held' = held
      BY <1>1, <2>1, <2>3 DEF Release
    <3> QED
      BY <1>1, <2>1, <3>1, SameLog
  <2>4. ASSUME NEW i \in held[u]
        PROVE  Log!ApprovalNext
    <3>1. Log!LetGo(i)
      BY <2>1, ReleaseLog
    <3>2. status' = [status EXCEPT ![i] = stage[u]]
      BY <1>1, <1>3, <2>1
    <3>3. /\ status[i] = "pending" \/ i \in Doubtful
          /\ stage[u] = "applied" => i \in approved
          /\ stage[u] = "rejected" /\ i \in approved => i \in Doubtful
      BY <1>3 DEF HoldInv
    <3>4. Log!Decide(i, stage[u])
      BY <1>1, <1>3, <2>1, <2>2, <3>1, <3>2, <3>3 DEF Log!Decide
    <3> QED
      BY <1>2, <1>3, <2>1, <3>4 DEF Log!ApprovalNext
  <2> QED
    BY <2>3, <2>4
<1>8. CASE RequestDies(u)
  <2>1. /\ Release(u) /\ Torn(u) /\ UNCHANGED <<status, action>>
        /\ \/ UNCHANGED <<place, approved>>
           \/ /\ stage[u] = "execute"
              /\ \E i \in held[u] : /\ Carry(i[2], action[i])
                                    /\ approved' = approved \cup {i}
    BY <1>8 DEF RequestDies
  <2>2. CASE held[u] = {}
    <3>1. held' = held /\ doubt' = doubt /\ UNCHANGED <<place, approved>>
      BY <1>1, <2>1, <2>2 DEF Release, Torn
    <3> QED
      BY <1>1, <2>1, <3>1, SameLog
  <2>3. ASSUME NEW i \in held[u]
        PROVE  Log!ApprovalNext
    <3>1. Doubtful' = Doubtful \cup {i}
      BY <1>1, <1>3, <2>1 DEF Torn, Doubtful
    <3>2. Log!LetGo(i)
      BY <1>1, <2>1, ReleaseLog DEF Torn
    <3>3. CASE UNCHANGED <<place, approved>>
      <4>1. Log!PutDown(i)
        BY <1>1, <1>3, <2>1, <3>1, <3>2, <3>3 DEF Log!PutDown
      <4> QED
        BY <1>2, <1>3, <4>1 DEF Log!ApprovalNext
    <3>4. CASE /\ stage[u] = "execute" /\ Carry(i[2], action[i])
               /\ approved' = approved \cup {i}
      <4>1. i \in approved => i \in Doubtful
        BY <1>3, <3>4 DEF HoldInv
      <4>2. Log!CarryOut(i)
        BY <1>1, <1>3, <2>1, <3>1, <3>2, <3>4, <4>1 DEF Log!CarryOut, Carry
      <4> QED
        BY <1>2, <1>3, <4>2 DEF Log!ApprovalNext
    <3> QED
      BY <1>3, <2>1, <3>3, <3>4
  <2> QED
    BY <2>2, <2>3
<1> QED
  BY <1>4, <1>5, <1>6, <1>7, <1>8 DEF Request

\* Every behaviour of runs, requests, faults and other mail clients keeps what
\* a user who decides relies on: a proposal is carried out and decided once,
\* its status tells which, and only a decision moves a message riskily, except
\* that one taken twice at once or torn may be decided again.
THEOREM Refinement == Spec => ApprovalPromise
<1>1. Init => Log!ApprovalInit
  BY DEF Init, Log!ApprovalInit, Log!Ids, Ids, InHand, Doubtful, Bidden
<1>2. IInv /\ [Next]_vars => [Log!ApprovalNext]_(Log!approvalVars)
  <2> SUFFICES ASSUME IInv, [Next]_vars
               PROVE  [Log!ApprovalNext]_(Log!approvalVars)
    OBVIOUS
  <2>1. ASSUME NEW m \in Messages, MovedElsewhere(m)
        PROVE  Log!ApprovalNext
    <3>1. InHand' = InHand /\ Doubtful' = Doubtful /\ Bidden' = Bidden
      BY <2>1 DEF MovedElsewhere, InHand, Doubtful, Bidden, req, past
    <3>2. "elsewhere" \notin {Leads[a] : a \in Risky}
      <4>1. Risky \subseteq Moving /\ "elsewhere" \notin Guarded
        BY DEF Risky, Moving, Hiding, Guarded
      <4> QED
        BY <4>1, LeadFacts
    <3>3. Log!MoveSafely(m, "elsewhere")
      BY <2>1, <3>1, <3>2 DEF MovedElsewhere, Log!MoveSafely, queue, past
    <3> QED
      BY <3>3 DEF Log!ApprovalNext
  <2>2. CASE SetMode \/ UNCHANGED vars
    BY <2>2, SameLog DEF SetMode, vars, queue, req, past, Bidden
  <2>3. CASE \E c \in Cycles : \/ StartCycle(c) \/ StartOrganize(c)
                               \/ RunStep(c) \/ RunDies(c)
    BY <2>3, RunLog
  <2>4. CASE \E u \in Users : Request(u)
    BY <2>4, RequestLog
  <2> QED
    BY <2>1, <2>2, <2>3, <2>4 DEF Next
<1> QED
  BY <1>1, <1>2, Invariance, PTL DEF Spec, ApprovalPromise, Log!ApprovalSpec
=============================================================================
