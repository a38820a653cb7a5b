------------------------ MODULE OutboundQueue_proofs ------------------------
(***************************************************************************)
(* Proofs about the background send pipeline, for every set of requests,   *)
(* every choice of endpoints, shared or separate MEDIA_ROOT, and any number *)
(* of crashes.                                                              *)
(***************************************************************************)
EXTENDS OutboundQueue, TLAPS

\* The two runs a request may have are jobs, and there are no others.
LEMMA JobFacts ==
    /\ \A r \in Requests : /\ WebJob(r) \in Job /\ WorkerJob(r) \in Job
                           /\ WebJob(r).req = r /\ WorkerJob(r).req = r
                           /\ WebJob(r).by = "web" /\ WorkerJob(r).by = "celery"
                           /\ WebJob(r) # WorkerJob(r)
    /\ \A j \in Job : /\ j.req \in Requests /\ j.by \in Executors
                      /\ j = WebJob(j.req) \/ j = WorkerJob(j.req)
                      /\ j.by = "web" => j = WebJob(j.req)
BY DEF Executors, Job, WebJob, WorkerJob

\* The inductive invariant.

Unconfirmed(r) == "unconfirmed" \in fault[r]
InDoubt(r) == "ambiguous" \in fault[r] \/ "unconfirmed" \in fault[r]

Unlogged == {"idle", "accepted", "logged", "dropped"}
Unsent   == Unlogged \cup {"created", "ready"}

\* A thread that has not started or published a run: there is none.
ThreadInv(r) ==
    /\ web[r] \in Unsent => /\ pc[WebJob(r)] = "none"
                            /\ pc[WorkerJob(r)] = "none"
                            /\ row[r] \in {"absent", "pending", "gone"}
                            /\ ~Unconfirmed(r)
    /\ web[r] \in Unlogged => row[r] = "absent"
    /\ web[r] \in {"created", "ready"} => row[r] # "absent"

\* Two runs of one message need a publication in doubt.
OneRun(r) ==
    pc[WebJob(r)] = "none" \/ pc[WorkerJob(r)] = "none" \/ Unconfirmed(r)

\* A run that has not reached the end of its SMTP dialogue.
Unsubmitted == {"none", "queued", "load", "decrypt", "check", "open"}
                   \cup Attempt
Used(j)     == IF pc[j] \in Unsubmitted THEN 0 ELSE 1
ToAppend(j) == IF pc[j] = "append" THEN 1 ELSE 0

\* Each run submits the message at most once, and appends it at most once.
CountInv(r) ==
    /\ delivered[r] <= Used(WebJob(r)) + Used(WorkerJob(r))
    /\ copies[r] + ToAppend(WebJob(r)) + ToAppend(WorkerJob(r)) <= delivered[r]

\* What the row says has happened.
RowInv(r) ==
    /\ row[r] = "sent" => delivered[r] > 0
    /\ row[r] = "failed" /\ delivered[r] > 0 => InDoubt(r)
    /\ \A s \in told[r] : row[r] \in {s, "gone"} \/ Unconfirmed(r)

Unsettled == {"queued", "load", "decrypt", "check", "open", "append", "ok",
              "fail", "saveOk", "saveFail", "saveNoKey", "saveError"}
                 \cup Attempt
HasRow    == {"decrypt", "check", "open", "saveOk", "saveFail", "saveNoKey",
              "saveError"}

\* What a run knows of its message when it stands at s.
RunAt(j, s) ==
    /\ s \in Unsettled => row[j.req] \notin {"sent", "failed"}
                             \/ Unconfirmed(j.req)
    /\ (\/ s \in HasRow
        \/ /\ s \in Attempt \cup {"append", "ok", "fail"}
           /\ kind[j.req] \notin Unqueued)
          => row[j.req] # "absent"
    /\ s \in {"append", "ok", "saveOk", "tellSent"} => delivered[j.req] > 0
    /\ s \in {"fail", "saveFail", "saveNoKey", "saveError"}
             /\ delivered[j.req] > 0
          => InDoubt(j.req)
    /\ s = "tellSent"
          => row[j.req] \in {"sent", "gone"} \/ Unconfirmed(j.req)
    /\ s \in {"cleanError", "tellFailed"}
          => row[j.req] \in {"failed", "gone"} \/ Unconfirmed(j.req)

RunInv(j) == RunAt(j, pc[j])

IInv == /\ TypeOK
        /\ \A r \in Requests : /\ ThreadInv(r) /\ OneRun(r)
                               /\ CountInv(r) /\ RowInv(r)
        /\ \A j \in Job : RunInv(j)

-----------------------------------------------------------------------------

\* The effect of a step of a run on its place and on the place of the thread.
LEMMA GotoType ==
    ASSUME TypeOK, NEW j \in Job, NEW next \in PC, Goto(j, next)
    PROVE  /\ pc' \in [Job -> PC] /\ web' \in [Requests -> WebState]
           /\ pc' = [pc EXCEPT ![j] = next]
           /\ \A r \in Requests : web'[r] \in {web[r], "done", "failed"}
BY JobFacts DEF Goto, TypeOK, WebState

\* The same for a run that raises.
LEMMA RaiseType ==
    ASSUME TypeOK, NEW j \in Job, Raise(j)
    PROVE  /\ pc' \in [Job -> PC] /\ web' \in [Requests -> WebState]
           /\ fault' \in [Requests -> SUBSET Fault]
           /\ pc' = [pc EXCEPT ![j] = "dead"]
           /\ fault' = [fault EXCEPT ![j.req] = @ \cup {"lost"}]
           /\ \A r \in Requests : web'[r] \in {web[r], "done", "failed"}
BY JobFacts DEF Raise, TypeOK, WebState, PC, Idle, Fault

\* A run moves to s and touches neither the row nor the counters.
Doubts == \A r \in Requests : \A f \in {"ambiguous", "unconfirmed"} :
              f \in fault'[r] <=> f \in fault[r]
Move(j, s) == /\ pc' = [pc EXCEPT ![j] = s]
              /\ \A r \in Requests : web'[r] \in {web[r], "done", "failed"}
              /\ Doubts
              /\ UNCHANGED <<kind, row, delivered, copies, told>>

\* A step of a run that leaves the row and the counters alone is a move,
LEMMA GotoMove ==
    ASSUME TypeOK, NEW j \in Job, NEW s \in PC, Goto(j, s), Doubts,
           UNCHANGED <<kind, row, delivered, copies, told>>
    PROVE  Move(j, s)
BY GotoType DEF Move

\* and so is an exception.
LEMMA RaiseMove ==
    ASSUME TypeOK, NEW j \in Job, Raise(j),
           UNCHANGED <<kind, row, delivered, copies, told>>
    PROVE  Move(j, "dead")
<1>1. Doubts BY RaiseType, JobFacts DEF Doubts, TypeOK
<1> QED BY <1>1, RaiseType DEF Move

\* Such a move preserves the invariant if the run may stand at s.
LEMMA MoveInv ==
    ASSUME IInv, NEW j \in Job, NEW s \in PC \ {"none", "append"}, Move(j, s),
           TypeOK', pc[j] # "none", RunAt(j, s),
           s \in Unsubmitted => pc[j] \in Unsubmitted
    PROVE  IInv'
<1> USE DEF Move, Doubts, IInv, TypeOK, Unconfirmed, InDoubt
<1>1. ASSUME NEW r \in Requests PROVE (ThreadInv(r) /\ OneRun(r))'
  BY JobFacts DEF ThreadInv, OneRun, Unlogged, Unsent
<1>2. ASSUME NEW r \in Requests PROVE CountInv(r)'
  BY JobFacts DEF CountInv, Used, ToAppend
<1>3. ASSUME NEW r \in Requests PROVE RowInv(r)'
  BY DEF RowInv
<1>4. ASSUME NEW k \in Job PROVE RunInv(k)'
  BY JobFacts DEF RunInv, RunAt
<1> QED BY <1>1, <1>2, <1>3, <1>4

\* While a run is under way its thread does not count as fresh, so whatever
\* the run does to its own message, the fresh threads see nothing of it.
LEMMA FreshThreads ==
    ASSUME IInv, NEW j \in Job, pc[j] # "none",
           \A k \in Job \ {j} : pc'[k] = pc[k],
           \A q \in Requests : web'[q] \in {web[q], "done", "failed"},
           \A q \in Requests \ {j.req} : row'[q] = row[q] /\ fault'[q] = fault[q],
           NEW r \in Requests
    PROVE  ThreadInv(r)'
<1>1. CASE web'[r] \notin Unsent
  BY <1>1 DEF ThreadInv, Unsent
<1>2. CASE web'[r] \in Unsent
  <2>1. web'[r] = web[r] BY <1>2 DEF Unsent, Unlogged
  <2>2. ThreadInv(r) /\ web[r] \in Unsent BY <1>2, <2>1 DEF IInv
  <2>3. j # WebJob(r) /\ j # WorkerJob(r) BY <2>2 DEF ThreadInv
  <2>4. r # j.req BY <2>3, JobFacts
  <2>5. /\ pc'[WebJob(r)] = pc[WebJob(r)] /\ pc'[WorkerJob(r)] = pc[WorkerJob(r)]
        /\ row'[r] = row[r] /\ fault'[r] = fault[r]
    BY <2>3, <2>4, JobFacts
  <2> QED BY <2>1, <2>2, <2>5 DEF ThreadInv, Unconfirmed
<1> QED BY <1>1, <1>2

\* Before the end of its dialogue a run knows that nothing has left yet.
LEMMA NothingLeft ==
    ASSUME IInv, NEW j \in Job, pc[j] \in Unsubmitted, pc[j] # "none"
    PROVE  delivered[j.req] = 0 \/ Unconfirmed(j.req)
<1>1. OneRun(j.req) /\ CountInv(j.req) /\ delivered[j.req] \in Nat
      /\ copies[j.req] \in Nat
  BY JobFacts DEF IInv, TypeOK
<1> QED BY <1>1, JobFacts DEF OneRun, CountInv, Used, Unsubmitted, ToAppend

-----------------------------------------------------------------------------
(* Every step keeps the types.                                              *)

\* One step of anybody keeps the types.
LEMMA TypeStep == TypeOK /\ [Next]_vars => TypeOK'
<1> SUFFICES ASSUME TypeOK, [Next]_vars PROVE TypeOK' OBVIOUS
<1> USE DEF TypeOK, WebState, RowState, PC, Attempt, Idle, Fault, AllKinds
<1>1. ASSUME NEW r \in Requests, Submit(r) PROVE TypeOK'
  BY <1>1, OutboundAssumption DEF Submit, mail
<1>2. ASSUME NEW r \in Requests, Thread(r) PROVE TypeOK'
  <2> USE JobFacts DEF mail
  <2>1. CASE CreateInterim(r) BY <2>1 DEF CreateInterim
  <2>2. CASE DropInterim(r) BY <2>2 DEF DropInterim
  <2>3. CASE CreateRow(r)
    <3>1. row' \in [Requests -> RowState] BY <2>3 DEF CreateRow
    <3>2. \E w \in WebState : web' = [web EXCEPT ![r] = w]
      BY <2>3 DEF CreateRow
    <3> QED BY <2>3, <3>1, <3>2 DEF CreateRow
  <2>4. CASE StoreFiles(r)
    <3>1. files' \in [Requests -> SUBSET Executors]
      BY <2>4 DEF StoreFiles, Executors
    <3>2. \E w \in WebState : web' = [web EXCEPT ![r] = w]
      BY <2>4 DEF StoreFiles
    <3>3. fault' \in [Requests -> SUBSET Fault] BY <2>4 DEF StoreFiles
    <3>4. UNCHANGED <<account, kind, row, interim, pc, got, mail, crashes>>
      BY <2>4 DEF StoreFiles
    <3>5. web' \in [Requests -> WebState] BY <3>2
    <3> QED BY <3>1, <3>3, <3>4, <3>5
  <2>5. CASE StartDirect(r)
    <3>1. row' \in [Requests -> RowState] BY <2>5 DEF StartDirect
    <3>2. pc' \in [Job -> PC] /\ got' \in SUBSET Job BY <2>5 DEF StartDirect
    <3> QED BY <2>5, <3>1, <3>2 DEF StartDirect
  <2>6. CASE PublishTask(r) BY <2>6 DEF PublishTask
  <2>7. CASE PublishRefused(r) BY <2>7 DEF PublishRefused
  <2>8. CASE PublishUnconfirmed(r) BY <2>8 DEF PublishUnconfirmed
  <2> QED BY <1>2, <2>1, <2>2, <2>3, <2>4, <2>5, <2>6, <2>7, <2>8 DEF Thread
<1>3. ASSUME NEW j \in Job, Run(j) PROVE TypeOK'
  <2> USE GotoType, RaiseType, JobFacts DEF Delivery, RemoveFiles, mail
  <2>1. CASE Take(j) BY <2>1 DEF Take
  <2>2. CASE Load(j) BY <2>2 DEF Load
  <2>3. CASE Decrypt(j)
    <3>1. \E s \in PC : Goto(j, s) BY <2>3 DEF Decrypt
    <3>2. \/ UNCHANGED fault
          \/ fault' = [fault EXCEPT ![j.req] = @ \cup {"decrypt"}]
      BY <2>3 DEF Decrypt
    <3>3. pc' \in [Job -> PC] /\ web' \in [Requests -> WebState] BY <3>1
    <3>4. fault' \in [Requests -> SUBSET Fault] BY <3>2
    <3> QED BY <2>3, <3>3, <3>4 DEF Decrypt
  <2>4. CASE CheckFile(j) BY <2>4 DEF CheckFile
  <2>5. CASE OpenFile(j) BY <2>5 DEF OpenFile
  <2>6. CASE Accepted(j) BY <2>6 DEF Accepted
  <2>7. CASE AcceptedUnheard(j) BY <2>7 DEF AcceptedUnheard
  <2>8. CASE Refused(j) BY <2>8 DEF Refused
  <2>9. CASE TlsError(j)
    <3>1. \/ Raise(j)
          \/ \E s \in PC : Goto(j, s) /\ UNCHANGED fault
      BY <2>9 DEF TlsError
    <3> QED BY <2>9, <3>1 DEF TlsError
  <2>10. CASE AppendSent(j)
    <3>1. copies' \in [Requests -> Nat] BY <2>10 DEF AppendSent
    <3> QED BY <2>10, <3>1 DEF AppendSent
  <2>11. CASE Cleanup(j) BY <2>11 DEF Cleanup
  <2>12. CASE SaveStatus(j)
    <3>1. \/ row' = row
          \/ row' = [row EXCEPT ![j.req] = "sent"]
          \/ row' = [row EXCEPT ![j.req] = "failed"]
      BY <2>12 DEF SaveStatus
    <3>2. \/ Raise(j)
          \/ \E s \in PC : Goto(j, s) /\ UNCHANGED fault
      BY <2>12 DEF SaveStatus
    <3> QED BY <2>12, <3>1, <3>2 DEF SaveStatus
  <2>13. CASE CleanupAfterError(j) BY <2>13 DEF CleanupAfterError
  <2>14. CASE Tell(j)
    <3>1. \/ told' = told
          \/ told' = [told EXCEPT ![j.req] = @ \cup {"sent"}]
          \/ told' = [told EXCEPT ![j.req] = @ \cup {"failed"}]
      BY <2>14 DEF Tell
    <3>2. told' \in [Requests -> SUBSET {"sent", "failed"}] BY <3>1
    <3> QED BY <2>14, <3>2 DEF Tell
  <2>15. CASE FinishDirect(j)
    <3>1. \/ row' = row
          \/ row' = [row EXCEPT ![j.req] = "sent"]
          \/ row' = [row EXCEPT ![j.req] = "failed"]
      BY <2>15 DEF FinishDirect
    <3>2. \/ Raise(j)
          \/ Goto(j, "done") /\ UNCHANGED fault
      BY <2>15 DEF FinishDirect
    <3> QED BY <2>15, <3>1, <3>2 DEF FinishDirect
  <2> QED BY <1>3, <2>1, <2>2, <2>3, <2>4, <2>5, <2>6, <2>7, <2>8, <2>9,
             <2>10, <2>11, <2>12, <2>13, <2>14, <2>15 DEF Run
<1>4. ASSUME NEW r \in Requests, CrashThread(r) PROVE TypeOK'
  BY <1>4 DEF CrashThread, mail
<1>5. ASSUME NEW j \in Job, CrashRun(j) PROVE TypeOK'
  BY <1>5, RaiseType DEF CrashRun, mail
<1>6. CASE DeleteAccount BY <1>6 DEF DeleteAccount, mail
<1>7. CASE UNCHANGED vars BY <1>7 DEF vars, mail
<1> QED BY <1>1, <1>2, <1>3, <1>4, <1>5, <1>6, <1>7 DEF Next

-----------------------------------------------------------------------------
(* The run of a message: each action is a move, except for what it counts,  *)
(* settles or publishes.                                                    *)

\* The steps of a run that are moves.
LEMMA MovesInv ==
    ASSUME IInv, TypeOK', NEW j \in Job,
           \/ Take(j) \/ Load(j) \/ Decrypt(j) \/ CheckFile(j) \/ OpenFile(j)
           \/ Refused(j) \/ TlsError(j) \/ Cleanup(j) \/ CleanupAfterError(j)
           \/ CrashRun(j)
    PROVE  IInv'
<1> USE DEF PC, Attempt, Idle
<1>t. TypeOK BY DEF IInv
<1>k. RunAt(j, pc[j]) BY DEF IInv, RunInv
<1>n. pc[j] \in Unsubmitted /\ pc[j] # "none" /\ delivered[j.req] > 0
         => InDoubt(j.req)
  BY <1>t, NothingLeft, JobFacts DEF Unconfirmed, InDoubt, TypeOK
<1>d. RunAt(j, "dead") BY DEF RunAt, Unsettled, HasRow
<1>r. ASSUME Raise(j), pc[j] # "none",
             UNCHANGED <<kind, row, delivered, copies, told>>
      PROVE  IInv'
  BY <1>r, <1>t, <1>d, RaiseMove, MoveInv DEF Unsubmitted
<1>m. ASSUME NEW s \in PC \ {"none", "append"}, Goto(j, s),
             \/ UNCHANGED fault
             \/ fault' = [fault EXCEPT ![j.req] = @ \cup {"decrypt"}],
             UNCHANGED <<kind, row, delivered, copies, told>>,
             pc[j] # "none", RunAt(j, s),
             s \in Unsubmitted => pc[j] \in Unsubmitted
      PROVE  IInv'
  <2>1. Doubts BY <1>m, <1>t, JobFacts DEF Doubts, TypeOK
  <2> QED BY <1>m, <1>t, <2>1, GotoMove, MoveInv
<1>1. CASE Take(j)
  <2>1. RunAt(j, "load") BY <1>1, <1>k DEF Take, RunAt, Unsettled, HasRow
  <2> QED BY <1>1, <1>m, <2>1 DEF Take, mail, Unsubmitted
<1>2. CASE Load(j)
  <2>1. RunAt(j, "done") BY DEF RunAt, Unsettled, HasRow
  <2>2. CASE row[j.req] \in {"absent", "gone"}
    BY <1>2, <1>m, <2>1, <2>2 DEF Load, mail, Unsubmitted
  <2>3. CASE row[j.req] \notin {"absent", "gone"}
    <3>1. RunAt(j, "decrypt")
      BY <1>2, <1>k, <2>3 DEF Load, RunAt, Unsettled, HasRow
    <3> QED BY <1>2, <1>m, <2>3, <3>1 DEF Load, mail, Unsubmitted
  <2> QED BY <2>2, <2>3
<1>3. CASE Decrypt(j)
  <2>1. RunAt(j, "check") /\ RunAt(j, "submit1")
    BY <1>3, <1>k DEF Decrypt, RunAt, Unsettled, HasRow
  <2>2. RunAt(j, "saveNoKey")
    <3>1. delivered[j.req] > 0 => InDoubt(j.req)
      BY <1>3, <1>n DEF Decrypt, Unsubmitted
    <3> QED BY <1>3, <1>k, <3>1 DEF Decrypt, RunAt, Unsettled, HasRow
  <2>3. CASE Goto(j, "saveNoKey")
                /\ fault' = [fault EXCEPT ![j.req] = @ \cup {"decrypt"}]
    BY <1>3, <1>m, <2>2, <2>3 DEF Decrypt, mail, Unsubmitted
  <2>4. CASE (Goto(j, "check") \/ Goto(j, "submit1")) /\ UNCHANGED fault
    BY <1>3, <1>m, <2>1, <2>4 DEF Decrypt, mail, Unsubmitted
  <2> QED BY <1>3, <2>3, <2>4 DEF Decrypt
<1>4. CASE CheckFile(j)
  <2>1. RunAt(j, "open") /\ RunAt(j, "submit1")
    BY <1>4, <1>k DEF CheckFile, RunAt, Unsettled, HasRow
  <2>2. Goto(j, "open") \/ Goto(j, "submit1") BY <1>4 DEF CheckFile
  <2> QED BY <1>4, <1>m, <2>1, <2>2 DEF CheckFile, mail, Unsubmitted
<1>5. CASE OpenFile(j)
  <2>1. RunAt(j, "submit1")
    BY <1>5, <1>k DEF OpenFile, RunAt, Unsettled, HasRow
  <2>2. Raise(j) \/ (Goto(j, "submit1") /\ UNCHANGED fault)
    BY <1>5 DEF OpenFile
  <2> QED BY <1>5, <1>m, <1>r, <2>1, <2>2 DEF OpenFile, mail, Unsubmitted
<1>6. CASE Refused(j) \/ TlsError(j)
  <2>1. pc[j] \in Attempt BY <1>6 DEF Refused, TlsError
  <2>2. delivered[j.req] > 0 => InDoubt(j.req)
    BY <2>1, <1>n DEF Unsubmitted
  <2>3. RunAt(j, "submit2") /\ RunAt(j, "submit3") /\ RunAt(j, "fail")
    BY <1>k, <2>1, <2>2 DEF RunAt, Unsettled, HasRow
  <2>4. kind[j.req] \notin Unqueued => RunAt(j, "saveError")
    BY <1>k, <2>1, <2>2 DEF RunAt, Unsettled, HasRow
  <2>5. UNCHANGED <<kind, row, delivered, copies, told>>
    BY <1>6 DEF Refused, TlsError, mail
  <2>6. \/ Raise(j)
        \/ Goto(j, "saveError") /\ kind[j.req] \notin Unqueued /\ UNCHANGED fault
        \/ (Goto(j, "fail") \/ Goto(j, "submit2") \/ Goto(j, "submit3"))
               /\ UNCHANGED fault
    BY <1>6 DEF Refused, TlsError
  <2> QED BY <1>m, <1>r, <2>1, <2>3, <2>4, <2>5, <2>6 DEF Unsubmitted
<1>7. CASE Cleanup(j)
  <2>1. \/ pc[j] = "ok" /\ Goto(j, "saveOk") /\ RunAt(j, "saveOk")
        \/ pc[j] = "fail" /\ Goto(j, "saveFail") /\ RunAt(j, "saveFail")
    BY <1>7, <1>k DEF Cleanup, RunAt, Unsettled, HasRow
  <2> QED BY <1>7, <1>m, <2>1 DEF Cleanup, mail, Unsubmitted
<1>8. CASE CleanupAfterError(j)
  <2>1. RunAt(j, "tellFailed")
    BY <1>8, <1>k DEF CleanupAfterError, RunAt, Unsettled, HasRow
  <2> QED BY <1>8, <1>m, <2>1 DEF CleanupAfterError, mail, Unsubmitted
<1>9. CASE CrashRun(j) BY <1>9, <1>r DEF CrashRun, mail
<1> QED BY <1>1, <1>2, <1>3, <1>4, <1>5, <1>6, <1>7, <1>8, <1>9

\* Postfix accepts a message: the run was counted as unused so far.
LEMMA DeliveryInv ==
    ASSUME IInv, TypeOK', NEW j \in Job, Accepted(j) \/ AcceptedUnheard(j)
    PROVE  IInv'
<1> USE DEF IInv, TypeOK
<1>1. pc[j] \in Attempt /\ pc[j] # "none"
  BY DEF Accepted, AcceptedUnheard, Attempt
<1>2. PICK s \in {"append", "ok", "fail"} :
         /\ pc' = [pc EXCEPT ![j] = s]
         /\ \A r \in Requests : web'[r] \in {web[r], "done", "failed"}
         /\ s = "fail" => "ambiguous" \in fault'[j.req]
  <2>1. \E s \in {"append", "ok", "fail"} : /\ Goto(j, s)
                                            /\ s = "fail" => AcceptedUnheard(j)
    BY DEF Accepted, AcceptedUnheard
  <2> QED BY <2>1, GotoType, JobFacts DEF AcceptedUnheard, PC
<1>3. \A r \in Requests : /\ fault[r] \subseteq fault'[r]
                          /\ Unconfirmed(r) <=> "unconfirmed" \in fault'[r]
  BY JobFacts DEF Accepted, AcceptedUnheard, Unconfirmed
<1>4. /\ delivered' = [delivered EXCEPT ![j.req] = @ + 1]
      /\ UNCHANGED <<kind, row, copies, told>>
  BY DEF Accepted, AcceptedUnheard, Delivery
<1>5. row[j.req] \notin {"sent", "failed"} \/ Unconfirmed(j.req)
  BY <1>1 DEF RunInv, RunAt, Unsettled
<1> USE DEF Unconfirmed, InDoubt
<1>6. ASSUME NEW r \in Requests PROVE (ThreadInv(r) /\ OneRun(r))'
  <2>1. ThreadInv(r)'
    <3>1. \A k \in Job \ {j} : pc'[k] = pc[k] BY <1>2
    <3>2. \A q \in Requests \ {j.req} : row'[q] = row[q] /\ fault'[q] = fault[q]
      BY <1>4, JobFacts DEF Accepted, AcceptedUnheard
    <3> HIDE DEF IInv
    <3> QED BY <1>1, <1>2, <3>1, <3>2, FreshThreads
  <2>2. OneRun(r)' BY <1>1, <1>2, <1>3, JobFacts DEF OneRun
  <2> QED BY <2>1, <2>2
<1>7. ASSUME NEW r \in Requests PROVE CountInv(r)'
  BY <1>1, <1>2, <1>4, JobFacts
  DEF CountInv, Used, ToAppend, Unsubmitted, Attempt
<1>8. ASSUME NEW r \in Requests PROVE RowInv(r)'
  BY <1>3, <1>4, <1>5, JobFacts DEF RowInv
<1>9. ASSUME NEW k \in Job PROVE RunInv(k)'
  <2>1. CASE k = j
    BY <1>1, <1>2, <1>3, <1>4, <1>5, <2>1, JobFacts
    DEF RunInv, RunAt, Unsettled, HasRow, Attempt
  <2>2. CASE k # j
    <3>1. k.req = j.req => pc[k] = "none" \/ Unconfirmed(k.req)
      BY <1>1, <2>2, JobFacts DEF OneRun
    <3> QED BY <1>2, <1>3, <1>4, <2>2, <3>1, JobFacts
            DEF RunInv, RunAt, Unsettled, HasRow, Attempt
  <2> QED BY <2>1, <2>2
<1> QED BY <1>6, <1>7, <1>8, <1>9

\* The copy in Sent uses up the entitlement of the first attempt.
LEMMA AppendInv ==
    ASSUME IInv, TypeOK', NEW j \in Job, AppendSent(j)
    PROVE  IInv'
<1> USE DEF IInv, TypeOK
<1>1. pc[j] = "append" BY DEF AppendSent
<1>2. /\ pc' = [pc EXCEPT ![j] = "ok"]
      /\ \A r \in Requests : web'[r] \in {web[r], "done", "failed"}
  BY GotoType DEF AppendSent, PC
<1>3. UNCHANGED <<kind, row, delivered, told, fault>> BY DEF AppendSent
<1>4. \A r \in Requests : copies'[r] <= copies[r] + (IF r = j.req THEN 1 ELSE 0)
  BY DEF AppendSent
<1> USE DEF Unconfirmed, InDoubt
<1>5. ASSUME NEW r \in Requests PROVE (ThreadInv(r) /\ OneRun(r))'
  <2>1. ThreadInv(r)'
    <3>1. \A k \in Job \ {j} : pc'[k] = pc[k] BY <1>2
    <3> HIDE DEF IInv
    <3> QED BY <1>1, <1>2, <1>3, <3>1, FreshThreads
  <2>2. OneRun(r)' BY <1>1, <1>2, <1>3, JobFacts DEF OneRun
  <2> QED BY <2>1, <2>2
<1>6. ASSUME NEW r \in Requests PROVE (CountInv(r) /\ RowInv(r))'
  <2>1. RowInv(r)' BY <1>3 DEF RowInv
  <2>2. CountInv(r)'
    BY <1>1, <1>2, <1>3, <1>4, JobFacts
    DEF CountInv, Used, ToAppend, Unsubmitted, Attempt
  <2> QED BY <2>1, <2>2
<1>7. ASSUME NEW k \in Job PROVE RunInv(k)'
  BY <1>1, <1>2, <1>3, JobFacts DEF RunInv, RunAt, Unsettled, HasRow, Attempt
<1> QED BY <1>5, <1>6, <1>7

\* The row is settled: no other run counts on its being open, unless the
\* publication was in doubt.
LEMMA SettleInv ==
    ASSUME IInv, TypeOK', NEW j \in Job, NEW s \in PC,
           NEW v \in {"sent", "failed"},
           Goto(j, s), row[j.req] # "gone", pc[j] \in Unsettled,
           row' = [row EXCEPT ![j.req] = v],
           v = "sent" => /\ delivered[j.req] > 0 /\ s \in {"tellSent", "done"},
           v = "failed" => /\ s \in {"tellFailed", "cleanError", "done"}
                           /\ delivered[j.req] > 0 => InDoubt(j.req),
           UNCHANGED <<kind, delivered, copies, told, fault>>
    PROVE  IInv'
<1> USE DEF IInv, TypeOK
<1>1. /\ pc' = [pc EXCEPT ![j] = s]
      /\ \A r \in Requests : web'[r] \in {web[r], "done", "failed"}
  BY GotoType
<1>2. row[j.req] \notin {"sent", "failed"} \/ Unconfirmed(j.req)
  BY DEF RunInv, RunAt
<1>3. pc[j] # "none" BY DEF Unsettled, Attempt
<1> USE DEF Unconfirmed, InDoubt
<1>4. ASSUME NEW r \in Requests PROVE (ThreadInv(r) /\ OneRun(r))'
  <2>1. ThreadInv(r)'
    <3>1. /\ \A k \in Job \ {j} : pc'[k] = pc[k]
          /\ \A q \in Requests \ {j.req} : row'[q] = row[q] /\ fault'[q] = fault[q]
      BY <1>1
    <3> HIDE DEF IInv
    <3> QED BY <1>1, <1>3, <3>1, FreshThreads
  <2>2. OneRun(r)' BY <1>1, <1>3, JobFacts DEF OneRun
  <2> QED BY <2>1, <2>2
<1>5. ASSUME NEW r \in Requests PROVE (CountInv(r) /\ RowInv(r))'
  <2>1. RowInv(r)' BY <1>2, JobFacts DEF RowInv
  <2>2. CountInv(r)'
    BY <1>1, <1>3, JobFacts DEF CountInv, Used, ToAppend, Unsubmitted, Attempt
  <2> QED BY <2>1, <2>2
<1>6. ASSUME NEW k \in Job PROVE RunInv(k)'
  <2>1. CASE k = j
    BY <1>1, <1>2, <2>1, JobFacts DEF RunInv, RunAt, Unsettled, HasRow, Attempt
  <2>2. CASE k # j
    <3>1. k.req = j.req => pc[k] = "none" \/ Unconfirmed(k.req)
      BY <1>3, <2>2, JobFacts DEF OneRun
    <3> QED BY <1>1, <1>2, <2>2, <3>1, JobFacts
            DEF RunInv, RunAt, Unsettled, HasRow, Attempt
  <2> QED BY <2>1, <2>2
<1> QED BY <1>4, <1>5, <1>6

\* The two places where an outcome is written: the task and the handler.
LEMMA OutcomeInv ==
    ASSUME IInv, TypeOK', NEW j \in Job, SaveStatus(j) \/ FinishDirect(j)
    PROVE  IInv'
<1>t. TypeOK BY DEF IInv
<1>k. RunAt(j, pc[j]) BY DEF IInv, RunInv
<1>u. UNCHANGED <<kind, delivered, copies, told>>
  BY DEF SaveStatus, FinishDirect, mail
<1>p. pc[j] \in {"saveOk", "saveFail", "saveNoKey", "saveError", "ok", "fail"}
  BY DEF SaveStatus, FinishDirect
<1>1. CASE Raise(j) /\ UNCHANGED row
  <2>1. RunAt(j, "dead") BY DEF RunAt, Unsettled, HasRow, Attempt
  <2> QED BY <1>1, <1>t, <1>u, <1>p, <2>1, RaiseMove, MoveInv
          DEF PC, Idle, Unsubmitted, Attempt
<1>2. CASE Goto(j, "done") /\ UNCHANGED <<row, fault>>
  <2>1. RunAt(j, "done") BY DEF RunAt, Unsettled, HasRow, Attempt
  <2>2. Doubts BY <1>2 DEF Doubts
  <2> QED BY <1>2, <1>t, <1>u, <1>p, <2>1, <2>2, GotoMove, MoveInv
          DEF PC, Idle, Unsubmitted, Attempt
<1>3. CASE SaveStatus(j) /\ row[j.req] # "gone"
  <2>1. CASE pc[j] = "saveOk"
    <3>1. delivered[j.req] > 0 BY <1>k, <2>1 DEF RunAt
    <3> QED BY <1>3, <1>u, <2>1, <3>1, SettleInv DEF SaveStatus, PC, Unsettled
  <2>2. CASE pc[j] # "saveOk"
    <3>1. delivered[j.req] > 0 => InDoubt(j.req)
      BY <1>3, <1>k, <2>2 DEF SaveStatus, RunAt
    <3>2. \E s \in {"tellFailed", "cleanError"} : Goto(j, s)
      BY <1>3, <2>2 DEF SaveStatus
    <3> QED BY <1>3, <1>u, <2>2, <3>1, <3>2, SettleInv
            DEF SaveStatus, PC, Unsettled
  <2> QED BY <2>1, <2>2
<1>4. CASE FinishDirect(j) /\ row[j.req] \notin {"gone", "absent"}
  <2>1. pc[j] = "ok" => delivered[j.req] > 0 BY <1>k DEF RunAt
  <2>2. pc[j] = "fail" => (delivered[j.req] > 0 => InDoubt(j.req))
    BY <1>k DEF RunAt
  <2>3. PICK v \in {"sent", "failed"} :
          /\ row' = [row EXCEPT ![j.req] = v]
          /\ v = "sent" => pc[j] = "ok"
          /\ v = "failed" => pc[j] = "fail"
    BY <1>4 DEF FinishDirect
  <2>4. Goto(j, "done") /\ UNCHANGED fault BY <1>4 DEF FinishDirect
  <2> QED BY <1>4, <1>u, <1>p, <2>1, <2>2, <2>3, <2>4, SettleInv
          DEF PC, Idle, Unsettled
<1> QED BY <1>1, <1>2, <1>3, <1>4 DEF SaveStatus, FinishDirect

\* What is published is what the run has just recorded.
LEMMA TellInv ==
    ASSUME IInv, TypeOK', NEW j \in Job, Tell(j)
    PROVE  IInv'
<1> USE DEF IInv, TypeOK
<1>1. /\ pc' = [pc EXCEPT ![j] = "done"] /\ pc[j] \in {"tellSent", "tellFailed"}
      /\ \A r \in Requests : web'[r] \in {web[r], "done", "failed"}
  BY GotoType DEF Tell, PC, Idle
<1>2. UNCHANGED <<kind, row, delivered, copies, fault>> BY DEF Tell
<1> USE DEF Unconfirmed, InDoubt
<1>3. ASSUME NEW r \in Requests PROVE (ThreadInv(r) /\ OneRun(r))'
  <2>1. ThreadInv(r)'
    <3>1. \A k \in Job \ {j} : pc'[k] = pc[k] BY <1>1
    <3> HIDE DEF IInv
    <3> QED BY <1>1, <1>2, <3>1, FreshThreads
  <2>2. OneRun(r)' BY <1>1, <1>2, JobFacts DEF OneRun
  <2> QED BY <2>1, <2>2
<1>4. ASSUME NEW r \in Requests PROVE CountInv(r)'
  BY <1>1, <1>2, JobFacts DEF CountInv, Used, ToAppend, Unsubmitted, Attempt
<1>5. ASSUME NEW r \in Requests PROVE RowInv(r)'
  <2>1. ASSUME NEW s \in told'[r]
        PROVE  row[r] \in {s, "gone"} \/ Unconfirmed(r)
    <3>1. CASE s \in told[r] BY <3>1 DEF RowInv
    <3>2. CASE s \notin told[r]
      <4>1. r = j.req /\ s = (IF pc[j] = "tellSent" THEN "sent" ELSE "failed")
        BY <2>1, <3>2, JobFacts DEF Tell
      <4> QED BY <1>1, <4>1, JobFacts DEF RunInv, RunAt
    <3> QED BY <3>1, <3>2
  <2> QED BY <1>2, <2>1 DEF RowInv
<1>6. ASSUME NEW k \in Job PROVE RunInv(k)'
  BY <1>1, <1>2, JobFacts DEF RunInv, RunAt, Unsettled, HasRow, Attempt
<1> QED BY <1>3, <1>4, <1>5, <1>6

-----------------------------------------------------------------------------
(* The request thread, the administrator, and the theorems.                 *)

\* The row is created, a task is queued, or a run starts.
Launch(r) ==
    /\ row' \in {row, [row EXCEPT ![r] = "pending"]}
    /\ row'[r] = "pending" => row[r] \in {"absent", "pending"}
    /\ \A k \in Job : \/ pc'[k] = pc[k]
                      \/ /\ k.req = r
                         /\ pc'[k] \in {"queued", "load", "submit1"}
    /\ \/ pc'[WorkerJob(r)] = "none"
       \/ pc'[WebJob(r)] = "none"
       \/ "unconfirmed" \in fault'[r]
    /\ \A k \in Job : k.req = r /\ pc'[k] = "submit1" => kind[r] \in Unqueued
    /\ \A q \in Requests \ {r} : web'[q] = web[q] /\ fault'[q] = fault[q]
    /\ fault'[r] \in {fault[r], fault[r] \cup {"unconfirmed"}}
    /\ web'[r] \in Unsent => /\ web'[r] \in {"created", "ready"}
                             /\ pc' = pc /\ fault'[r] = fault[r]
                             /\ row'[r] # "absent"
    /\ UNCHANGED <<kind, delivered, copies, told>>

\* Such a step of the thread keeps the invariant: no run knew anything yet.
LEMMA LaunchInv ==
    ASSUME IInv, TypeOK', NEW r \in Requests, web[r] \in Unsent, Launch(r)
    PROVE  IInv'
<1> USE DEF IInv, TypeOK, Launch, Unconfirmed, InDoubt
<1>1. /\ pc[WebJob(r)] = "none" /\ pc[WorkerJob(r)] = "none"
      /\ row[r] \in {"absent", "pending", "gone"} /\ ~Unconfirmed(r)
  BY DEF ThreadInv
<1>2. \A k \in Job : k.req = r => pc[k] = "none" BY <1>1, JobFacts
<1>3. ASSUME NEW q \in Requests PROVE ThreadInv(q)'
  BY <1>1, JobFacts DEF ThreadInv, Unlogged, Unsent
<1>4. ASSUME NEW q \in Requests PROVE OneRun(q)'
  BY <1>1, JobFacts DEF OneRun
<1>5. ASSUME NEW q \in Requests PROVE CountInv(q)'
  BY <1>1, JobFacts DEF CountInv, Used, ToAppend, Unsubmitted, Attempt
<1>6. ASSUME NEW q \in Requests PROVE RowInv(q)'
  BY <1>1 DEF RowInv
<1>7. ASSUME NEW k \in Job PROVE RunInv(k)'
  <2>1. CASE k.req = r
    <3>1. pc'[k] \in {"none", "queued", "load", "submit1"}
      BY <1>2, <2>1, JobFacts
    <3>2. row'[r] \in {"absent", "pending", "gone"} BY <1>1
    <3> QED BY <2>1, <3>1, <3>2 DEF RunInv, RunAt, Unsettled, HasRow, Attempt
  <2>2. CASE k.req # r
    <3>1. /\ pc'[k] = pc[k] /\ row'[k.req] = row[k.req]
          /\ fault'[k.req] = fault[k.req]
      BY <2>2, JobFacts
    <3>2. RunAt(k, pc[k]) BY DEF RunInv
    <3> QED BY <3>1, <3>2 DEF RunInv, RunAt
  <2> QED BY <2>1, <2>2
<1> QED BY <1>3, <1>4, <1>5, <1>6, <1>7

\* Steps of a thread that has not started a run.
LEMMA ThreadStepInv ==
    ASSUME IInv, TypeOK', NEW r \in Requests,
           Submit(r) \/ Thread(r) \/ CrashThread(r)
    PROVE  IInv'
<1> USE DEF IInv, TypeOK
<1>0. web[r] \in Unsent
  BY DEF Submit, Thread, CrashThread, CreateInterim, DropInterim, CreateRow,
         StoreFiles, StartDirect, PublishTask, PublishRefused,
         PublishUnconfirmed, Unsent, Unlogged
<1>1. /\ pc[WebJob(r)] = "none" /\ pc[WorkerJob(r)] = "none"
      /\ row[r] \in {"absent", "pending", "gone"} /\ ~Unconfirmed(r)
  BY <1>0 DEF ThreadInv
<1>2. UNCHANGED <<delivered, copies, told>>
  BY DEF Submit, Thread, CrashThread, CreateInterim, DropInterim, CreateRow,
         StoreFiles, StartDirect, PublishTask, PublishRefused,
         PublishUnconfirmed, mail
<1> USE DEF Unconfirmed, InDoubt
\* Nothing but the place of the thread changes, or the fault becomes "lost".
<1>3. ASSUME UNCHANGED <<row, pc>>, kind' = kind \/ web[r] = "idle",
             \A q \in Requests \ {r} : web'[q] = web[q] /\ kind'[q] = kind[q],
             \/ web'[r] \in {"done", "failed"}
             \/ web'[r] \in Unlogged /\ web[r] \in Unlogged
             \/ web'[r] = "ready" /\ web[r] = "created",
             Doubts
      PROVE  IInv'
  <2> USE DEF Doubts
  <2>1. ASSUME NEW q \in Requests PROVE (ThreadInv(q) /\ OneRun(q))'
    BY <1>1, <1>3, JobFacts DEF ThreadInv, OneRun, Unlogged, Unsent
  <2>2. ASSUME NEW q \in Requests PROVE (CountInv(q) /\ RowInv(q))'
    BY <1>2, <1>3, JobFacts DEF CountInv, RowInv, Used, ToAppend
  <2>3. ASSUME NEW k \in Job PROVE RunInv(k)'
    BY <1>1, <1>2, <1>3, JobFacts
    DEF RunInv, RunAt, Unsettled, HasRow, Attempt
  <2> QED BY <2>1, <2>2, <2>3
<1>4. CASE Submit(r)
  BY <1>3, <1>4 DEF Submit, Unlogged, Doubts
<1>5. CASE CreateInterim(r) \/ DropInterim(r)
  BY <1>3, <1>5 DEF CreateInterim, DropInterim, Unlogged, Doubts
<1>6. CASE StoreFiles(r)
  BY <1>3, <1>6 DEF StoreFiles, Doubts
<1>7. CASE CrashThread(r)
  BY <1>3, <1>7 DEF CrashThread, Doubts
\* The row is created, a task is queued, or a run starts.
<1>8. Launch(r) => IInv' BY <1>0, LaunchInv
<1>9. CASE CreateRow(r)
  <2>1. web[r] \in Unlogged BY <1>9 DEF CreateRow, Unlogged
  <2>2. row[r] = "absent" BY <2>1 DEF ThreadInv
  <2>3. CASE account
    <3>1. /\ row' = [row EXCEPT ![r] = "pending"]
          /\ web'[r] \in {"created", "ready"}
          /\ \A q \in Requests \ {r} : web'[q] = web[q]
          /\ UNCHANGED <<kind, pc, fault>>
      BY <1>9, <2>3 DEF CreateRow
    <3>2. Launch(r) BY <1>1, <1>2, <2>2, <3>1, JobFacts DEF Launch
    <3> QED BY <1>8, <3>2
  <2>4. CASE ~account
    BY <1>3, <1>9, <2>4 DEF CreateRow, Doubts
  <2> QED BY <2>3, <2>4
<1>10. CASE StartDirect(r)
  <2>1. row[r] = "absent" BY <1>10 DEF StartDirect, ThreadInv, Unlogged
  <2>2. Launch(r)
    BY <1>1, <1>2, <1>10, <2>1, JobFacts DEF StartDirect, Launch, Unsent, Unlogged
  <2> QED BY <1>8, <2>2
<1>11. CASE PublishTask(r) \/ PublishRefused(r) \/ PublishUnconfirmed(r)
  <2>1. /\ UNCHANGED <<kind, row>> /\ web'[r] \notin Unsent
        /\ \A q \in Requests \ {r} : web'[q] = web[q]
    BY <1>11 DEF PublishTask, PublishRefused, PublishUnconfirmed, Unsent, Unlogged
  <2>2. \/ /\ pc' = [pc EXCEPT ![WorkerJob(r)] = "queued"]
           /\ UNCHANGED fault
        \/ /\ pc' = [pc EXCEPT ![WebJob(r)] = "load"]
           /\ UNCHANGED fault
        \/ /\ pc' = [pc EXCEPT ![WebJob(r)] = "load",
                              ![WorkerJob(r)] = "queued"]
           /\ fault' = [fault EXCEPT ![r] = @ \cup {"unconfirmed"}]
    BY <1>11 DEF PublishTask, PublishRefused, PublishUnconfirmed
  <2>3. ASSUME NEW k \in Job
        PROVE  /\ \/ pc'[k] = pc[k]
                  \/ k.req = r /\ pc'[k] \in {"queued", "load"}
               /\ k.req = r => pc'[k] # "submit1"
    BY <1>1, <2>2, JobFacts
  <2>4. /\ \A q \in Requests \ {r} : fault'[q] = fault[q]
        /\ fault'[r] \in {fault[r], fault[r] \cup {"unconfirmed"}}
        /\ \/ pc'[WorkerJob(r)] = "none"
           \/ pc'[WebJob(r)] = "none"
           \/ "unconfirmed" \in fault'[r]
    BY <1>1, <2>2, JobFacts
  <2>5. Launch(r)
    <3> HIDE DEF IInv, TypeOK
    <3> QED BY <1>1, <1>2, <2>1, <2>3, <2>4 DEF Launch
  <2> QED BY <1>8, <2>5
<1> QED BY <1>4, <1>5, <1>6, <1>7, <1>9, <1>10, <1>11 DEF Thread

\* The rows of a deleted account leave every claim about them behind.
LEMMA DeleteInv ==
    ASSUME IInv, TypeOK', DeleteAccount
    PROVE  IInv'
<1> USE DEF IInv, TypeOK, Unconfirmed, InDoubt
<1>1. /\ \A r \in Requests : row'[r] = IF row[r] = "absent" THEN "absent"
                                                           ELSE "gone"
      /\ UNCHANGED <<kind, web, pc, delivered, copies, told, fault>>
  BY DEF DeleteAccount, mail
<1>2. ASSUME NEW r \in Requests PROVE (ThreadInv(r) /\ OneRun(r))'
  BY <1>1 DEF ThreadInv, OneRun
<1>3. ASSUME NEW r \in Requests PROVE (CountInv(r) /\ RowInv(r))'
  BY <1>1 DEF CountInv, RowInv, Used, ToAppend
<1>4. ASSUME NEW k \in Job PROVE RunInv(k)'
  BY <1>1, JobFacts DEF RunInv, RunAt
<1> QED BY <1>2, <1>3, <1>4

\* The invariant holds at the start,
LEMMA InitInv == Init => IInv
<1> SUFFICES ASSUME Init PROVE IInv OBVIOUS
<1> USE DEF Init
<1>1. TypeOK
  BY OutboundAssumption
  DEF TypeOK, AllKinds, WebState, RowState, PC, Idle, Executors, Fault
<1>2. ASSUME NEW r \in Requests
      PROVE  ThreadInv(r) /\ OneRun(r) /\ CountInv(r) /\ RowInv(r)
  BY JobFacts DEF ThreadInv, OneRun, CountInv, RowInv, Used, ToAppend,
                  Unsubmitted, Unconfirmed
<1>3. ASSUME NEW j \in Job PROVE RunInv(j)
  BY JobFacts DEF RunInv, RunAt, Unsettled, HasRow, Attempt
<1> QED BY <1>1, <1>2, <1>3 DEF IInv

\* and every step keeps it.
LEMMA NextInv == IInv /\ [Next]_vars => IInv'
<1> SUFFICES ASSUME IInv, [Next]_vars PROVE IInv' OBVIOUS
<1>t. TypeOK' BY TypeStep DEF IInv
<1>1. CASE UNCHANGED vars
  BY <1>1 DEF vars, IInv, TypeOK, ThreadInv, OneRun, CountInv, RowInv, RunInv,
              RunAt, Used, ToAppend, Unconfirmed, InDoubt
<1>2. ASSUME NEW r \in Requests, Submit(r) \/ Thread(r) \/ CrashThread(r)
      PROVE  IInv'
  BY <1>2, <1>t, ThreadStepInv
<1>3. ASSUME NEW j \in Job, Run(j) \/ CrashRun(j) PROVE IInv'
  BY <1>3, <1>t, MovesInv, DeliveryInv, AppendInv, OutcomeInv, TellInv DEF Run
<1>4. CASE DeleteAccount BY <1>4, <1>t, DeleteInv
<1> QED BY <1>1, <1>2, <1>3, <1>4 DEF Next

\* The inductive invariant holds in every reachable state.
THEOREM Invariance == Spec => []IInv
BY InitInv, NextInv, PTL DEF Spec

\* The variables keep their types, whatever the interleaving.
THEOREM TypeCorrect == Spec => []TypeOK
<1>1. IInv => TypeOK BY DEF IInv
<1> QED BY <1>1, Invariance, PTL

\* A row says "sent" only for a message Postfix has accepted, and Sent never
\* holds more copies than Postfix took (SaveStatus, AppendSent).
THEOREM SentTheorem == Spec => []SentIsDelivered
<1>1. IInv => SentIsDelivered
  <2> SUFFICES ASSUME IInv, NEW r \in Requests
               PROVE  /\ row[r] = "sent" => delivered[r] > 0
                      /\ copies[r] <= delivered[r]
    BY DEF SentIsDelivered
  <2>1. /\ delivered[r] \in Nat /\ copies[r] \in Nat
        /\ CountInv(r) /\ RowInv(r)
    BY DEF IInv, TypeOK
  <2> QED BY <2>1 DEF CountInv, RowInv, ToAppend
<1> QED BY <1>1, Invariance, PTL

\* No message is accepted twice, and after a publication in doubt none is
\* accepted three times (the TLS retries, the fallback in the thread).
THEOREM DeliveryTheorem == Spec => []DeliveredOnce
<1>1. IInv => DeliveredOnce
  <2> SUFFICES ASSUME IInv, NEW r \in Requests
               PROVE  delivered[r] <=
                          (IF "unconfirmed" \in fault[r] THEN 2 ELSE 1)
    BY DEF DeliveredOnce
  <2>1. delivered[r] \in Nat /\ CountInv(r) /\ OneRun(r) BY DEF IInv, TypeOK
  <2> QED BY <2>1 DEF CountInv, OneRun, Used, Unconfirmed, Unsubmitted
<1> QED BY <1>1, Invariance, PTL

\* A row says "failed" of a message that left only if the reply of Postfix was
\* lost or a second run was under way.
THEOREM FailureTheorem == Spec => []FailedIsHonest
<1>1. IInv => FailedIsHonest
  BY DEF IInv, RowInv, FailedIsHonest, InDoubt
<1> QED BY <1>1, Invariance, PTL

\* The outcome published over SSE is the one the log shows.
THEOREM ToldTheorem == Spec => []ToldIsRecorded
<1>1. IInv => ToldIsRecorded
  BY DEF IInv, RowInv, ToldIsRecorded, Unconfirmed
<1> QED BY <1>1, Invariance, PTL

-----------------------------------------------------------------------------
(* The pipeline implements the abstract log.                                *)

Doubtful == {r \in Requests : "unconfirmed" \in fault[r]}

\* Only PublishUnconfirmed changes which publications are in doubt.
LEMMA SameDoubt ==
    ASSUME TypeOK,
           \/ UNCHANGED fault
           \/ \E r \in Requests, f \in Fault \ {"unconfirmed"} :
                  fault' = [fault EXCEPT ![r] = @ \cup {f}]
    PROVE  Doubtful' = Doubtful
BY DEF Doubtful, TypeOK

\* The steps of a request thread map to Accept, to Doubt or to a stutter.
LEMMA ThreadStepLog ==
    ASSUME IInv, NEW r \in Requests, Submit(r) \/ Thread(r) \/ CrashThread(r)
    PROVE  [Log!LogNext]_(Log!logVars)
<1>t. TypeOK BY DEF IInv
<1>i. ThreadInv(r) BY DEF IInv
<1> USE DEF Log!logVars, Log!LogNext, Fault, Doubtful, mail
<1>1. CASE Submit(r) \/ CreateInterim(r) \/ DropInterim(r) \/ PublishTask(r)
             \/ PublishRefused(r)
  BY <1>1 DEF Submit, CreateInterim, DropInterim, PublishTask, PublishRefused
<1>2. CASE StoreFiles(r) \/ CrashThread(r)
  <2>1. Doubtful' = Doubtful
    BY <1>2, <1>t, SameDoubt DEF StoreFiles, CrashThread
  <2> QED BY <1>2, <2>1 DEF StoreFiles, CrashThread
<1>3. CASE CreateRow(r) \/ StartDirect(r)
  <2>1. row[r] = "absent"
    BY <1>3, <1>i DEF CreateRow, StartDirect, ThreadInv, Unlogged
  <2>2. /\ row' \in {row, [row EXCEPT ![r] = "pending"]}
        /\ UNCHANGED <<delivered, fault>>
    BY <1>3 DEF CreateRow, StartDirect
  <2> QED BY <2>1, <2>2 DEF Log!Accept
<1>4. CASE PublishUnconfirmed(r)
  <2>1. r \notin Doubtful
    BY <1>4, <1>i DEF PublishUnconfirmed, ThreadInv, Unsent, Unconfirmed
  <2>2. Doubtful' = Doubtful \cup {r}
    BY <1>4, <1>t DEF PublishUnconfirmed, TypeOK
  <2> QED BY <1>4, <2>1, <2>2 DEF PublishUnconfirmed, Log!Doubt
<1> QED BY <1>1, <1>2, <1>3, <1>4 DEF Thread

\* The steps of a run map to Deliver, to Settle or to a stutter.
LEMMA RunStepLog ==
    ASSUME IInv, NEW j \in Job, Run(j) \/ CrashRun(j)
    PROVE  [Log!LogNext]_(Log!logVars)
<1>t. TypeOK BY DEF IInv
<1>k. RunAt(j, pc[j]) BY DEF IInv, RunInv
<1>q. j.req \in Requests BY JobFacts
<1> USE DEF Log!logVars, Log!LogNext, Fault, Doubtful, mail
\* Everything but a delivery and a settlement is a stutter.
<1>1. ASSUME UNCHANGED <<row, delivered>>,
             \/ UNCHANGED fault
             \/ Raise(j)
             \/ fault' = [fault EXCEPT ![j.req] = @ \cup {"decrypt"}]
      PROVE  UNCHANGED Log!logVars
  <2>1. Doubtful' = Doubtful BY <1>1, <1>t, <1>q, SameDoubt DEF Raise
  <2> QED BY <1>1, <2>1
<1>2. CASE \/ Take(j) \/ Load(j) \/ CheckFile(j) \/ Refused(j)
           \/ AppendSent(j) \/ Cleanup(j) \/ CleanupAfterError(j) \/ Tell(j)
  BY <1>1, <1>2
  DEF Take, Load, CheckFile, Refused, AppendSent, Cleanup, CleanupAfterError, Tell
<1>3. CASE Decrypt(j) \/ OpenFile(j) \/ TlsError(j) \/ CrashRun(j)
  BY <1>1, <1>3 DEF Decrypt, OpenFile, TlsError, CrashRun
<1>4. CASE Accepted(j) \/ AcceptedUnheard(j)
  <2>1. /\ delivered' = [delivered EXCEPT ![j.req] = @ + 1] /\ UNCHANGED row
        /\ pc[j] \in Attempt
    BY <1>4 DEF Accepted, AcceptedUnheard, Delivery
  <2>2. Doubtful' = Doubtful
    BY <1>4, <1>t, <1>q, SameDoubt DEF Accepted, AcceptedUnheard
  <2>3. delivered[j.req] < (IF j.req \in Doubtful THEN 2 ELSE 1)
    <3>1. /\ CountInv(j.req) /\ OneRun(j.req) /\ delivered[j.req] \in Nat
          /\ copies[j.req] \in Nat
      BY <1>q, <1>t DEF IInv, TypeOK
    <3> QED BY <1>q, <2>1, <3>1, JobFacts
            DEF CountInv, OneRun, Used, ToAppend, Unsubmitted, Unconfirmed,
                Attempt
  <2> QED BY <1>q, <2>1, <2>2, <2>3 DEF Log!Deliver
<1>5. CASE SaveStatus(j) \/ FinishDirect(j)
  <2>1. CASE UNCHANGED row
    BY <1>1, <1>5, <2>1 DEF SaveStatus, FinishDirect
  <2>2. CASE row' # row
    <3>1. PICK v \in {"sent", "failed"} :
            /\ row' = [row EXCEPT ![j.req] = v]
            /\ v = "sent" => pc[j] \in {"saveOk", "ok"}
      BY <1>5, <2>2 DEF SaveStatus, FinishDirect
    <3>2. /\ UNCHANGED <<delivered, fault>> /\ row[j.req] # "gone"
          /\ pc[j] \in Unsettled /\ row[j.req] # "absent"
      <4>1. CASE SaveStatus(j)
        BY <4>1, <1>k, <2>2 DEF SaveStatus, RunAt, HasRow, Unsettled
      <4>2. CASE FinishDirect(j)
        BY <4>2, <1>k, <2>2 DEF FinishDirect, Unsettled
      <4> QED BY <1>5, <4>1, <4>2
    <3>3. row[j.req] \in {"absent", "pending", "sent", "failed", "gone"}
      BY <1>t, <1>q DEF TypeOK, RowState
    <3>4. row[j.req] \notin {"sent", "failed"} \/ j.req \in Doubtful
      BY <1>k, <1>q, <3>2 DEF RunAt, Unconfirmed
    <3>5. v = "sent" => delivered[j.req] > 0 BY <1>k, <3>1 DEF RunAt
    <3>6. Log!Settle(j.req, v)
      BY <3>1, <3>2, <3>3, <3>4, <3>5 DEF Log!Settle, Log!Settled
    <3> QED BY <1>q, <3>6 DEF Log!Settled
  <2> QED BY <2>1, <2>2
<1> QED BY <1>2, <1>3, <1>4, <1>5 DEF Run

\* Every behaviour of threads, workers, crashes and deletions keeps what the
\* outbound log promises: an outcome is final, and "sent" and "delivered once"
\* are conditions of the steps, not only of the states.
THEOREM Refinement == Spec => LogPromise
<1>1. Init => Log!LogInit
  BY DEF Init, Log!LogInit
<1>2. IInv /\ [Next]_vars => [Log!LogNext]_(Log!logVars)
  <2> SUFFICES ASSUME IInv, [Next]_vars PROVE [Log!LogNext]_(Log!logVars)
    OBVIOUS
  <2>1. CASE UNCHANGED vars BY <2>1 DEF vars, mail, Log!logVars
  <2>2. CASE DeleteAccount
    BY <2>2 DEF DeleteAccount, mail, Log!LogNext, Log!Withdraw, Log!logVars
  <2>3. ASSUME NEW r \in Requests, Submit(r) \/ Thread(r) \/ CrashThread(r)
        PROVE  [Log!LogNext]_(Log!logVars)
    BY <2>3, ThreadStepLog
  <2>4. ASSUME NEW j \in Job, Run(j) \/ CrashRun(j)
        PROVE  [Log!LogNext]_(Log!logVars)
    BY <2>4, RunStepLog
  <2> QED BY <2>1, <2>2, <2>3, <2>4 DEF Next
<1> QED BY <1>1, <1>2, Invariance, PTL DEF Spec, LogPromise, Log!LogSpec
=============================================================================
