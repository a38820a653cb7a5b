------------------------ MODULE OutboundFiles_proofs ------------------------
(***************************************************************************)
(* Proofs about the attachment directories of the send pipeline, for a      *)
(* media directory that panel and workers share, and for every set of       *)
(* requests, every choice of endpoints and any number of crashes.           *)
(***************************************************************************)
EXTENDS OutboundQueue_proofs

-----------------------------------------------------------------------------
(* The inductive invariant.  It stands beside IInv, which gives the places  *)
(* of threads and runs.                                                     *)

Waiting == {"queued", "load", "decrypt", "check", "open"}

\* The places from which a run still comes to the removal of the directory.
Working == Waiting \cup Attempt
               \cup {"append", "ok", "fail", "saveError", "cleanError"}

\* Where the directory is, and for which requests.
StoreInv(r) ==
    /\ files[r] \subseteq {"web"}
    /\ files[r] # {} => kind[r] = "attach" /\ row[r] # "absent"
    /\ web[r] \in Unlogged \cup {"created"} => files[r] = {}
    /\ web[r] = "ready" /\ kind[r] = "attach" => files[r] = {"web"}
    /\ web[r] = "created" => kind[r] = "attach"
    /\ web[r] \in {"logged", "dropped"} => kind[r] = "send"
    /\ web[r] \in {"created", "ready"} => kind[r] \notin Unqueued
    /\ r \in bare => Unconfirmed(r)

\* The only run of a message finds the attachments, or holds them.
CarryInv(j) ==
    /\ pc[j] \in Waiting => kind[j.req] \notin Unqueued
    /\ ~Unconfirmed(j.req) /\ kind[j.req] = "attach" /\ pc[j] \in Waiting
           => files[j.req] = {"web"}
    /\ ~Unconfirmed(j.req) /\ kind[j.req] \in Attached /\ pc[j] \in Attempt
           => j \in got

\* The directory may be left behind without anybody to remove it.
Excused(r) == fault[r] \cap {"lost", "decrypt"} # {} \/ row[r] = "gone"

\* Somebody will remove the directory.
ReclaimInv(r) ==
    files[r] # {} /\ ~Excused(r)
        => web[r] = "ready" \/ \E j \in Job : j.req = r /\ pc[j] \in Working

FilesInv == /\ \A r \in Requests : StoreInv(r) /\ ReclaimInv(r)
            /\ \A j \in Job : CarryInv(j)

-----------------------------------------------------------------------------
(* What a step of a run that goes to s does to files and attachments.       *)

Effect(j, s) ==
    /\ pc[j] \notin Idle \/ pc[j] = "queued"
    /\ pc' = [pc EXCEPT ![j] = s]
    /\ kind' = kind
    /\ \A r \in Requests : /\ web'[r] \in {web[r], "done", "failed"}
                           /\ fault[r] \subseteq fault'[r]
                           /\ Unconfirmed(r)' <=> Unconfirmed(r)
    /\ \A r \in Requests \ {j.req} :
           /\ UNCHANGED <<web[r], row[r], files[r], fault[r]>>
           /\ r \in bare' => r \in bare
    /\ files'[j.req] \subseteq files[j.req]
    /\ row'[j.req] = "absent" <=> row[j.req] = "absent"
    /\ row[j.req] = "gone" => row'[j.req] = "gone"
    /\ got \subseteq got'
    /\ j.req \in bare' => \/ j.req \in bare
                          \/ /\ pc[j] \in Attempt /\ j \notin got
                             /\ kind[j.req] \in Attached
    /\ s \in Waiting => pc[j] \in Waiting /\ files'[j.req] = files[j.req]
    /\ s \in Attempt =>
           \/ pc[j] \in Attempt
           \/ /\ pc[j] \in Waiting
              /\ kind[j.req] = "attach" /\ files[j.req] = {"web"} => j \in got'
    /\ pc[j] \in Working =>
           \/ s \in Working \/ files'[j.req] = {} \/ Excused(j.req)'
           \/ kind[j.req] # "attach" \/ row[j.req] = "absent"

LEMMA GotoEffect ==
    ASSUME IInv, NEW j \in Job, NEW s \in PC, Goto(j, s)
    PROVE  /\ pc' = [pc EXCEPT ![j] = s]
           /\ \A r \in Requests : web'[r] \in {web[r], "done", "failed"}
           /\ \A r \in Requests \ {j.req} : web'[r] = web[r]
BY JobFacts DEF Goto, IInv, TypeOK

LEMMA RaiseEffect ==
    ASSUME IInv, NEW j \in Job, Raise(j)
    PROVE  /\ pc' = [pc EXCEPT ![j] = "dead"]
           /\ \A r \in Requests : /\ web'[r] \in {web[r], "done", "failed"}
                                  /\ fault[r] \subseteq fault'[r]
                                  /\ Unconfirmed(r)' <=> Unconfirmed(r)
           /\ \A r \in Requests \ {j.req} : /\ web'[r] = web[r]
                                            /\ fault'[r] = fault[r]
           /\ "lost" \in fault'[j.req]
BY JobFacts DEF Raise, IInv, TypeOK, Unconfirmed

\* A run that raises leaves the directory behind, and is excused.
LEMMA RaiseStep ==
    ASSUME IInv, NEW j \in Job, pc[j] \notin Idle, Raise(j),
           UNCHANGED <<kind, row, files, got, bare>>
    PROVE  Effect(j, "dead")
<1>1. Excused(j.req)'
  BY RaiseEffect DEF Excused
<1> QED
  BY <1>1, RaiseEffect DEF Effect, Waiting, Attempt, Idle

\* A run that moves on and does nothing else of note.
LEMMA GotoStep ==
    ASSUME IInv, NEW j \in Job, NEW s \in PC,
           pc[j] \notin Idle \/ pc[j] = "queued", Goto(j, s),
           \A r \in Requests : fault[r] \subseteq fault'[r],
           \A r \in Requests : Unconfirmed(r)' <=> Unconfirmed(r),
           \A r \in Requests \ {j.req} : fault'[r] = fault[r],
           UNCHANGED <<kind, row, files, got, bare>>,
           s \in Waiting => pc[j] \in Waiting,
           s \in Attempt =>
               \/ pc[j] \in Attempt
               \/ /\ pc[j] \in Waiting
                  /\ kind[j.req] # "attach" \/ files[j.req] # {"web"},
           \/ s \in Working \/ Excused(j.req)' \/ kind[j.req] # "attach"
           \/ row[j.req] = "absent" \/ pc[j] \notin Working
    PROVE  Effect(j, s)
BY GotoEffect DEF Effect

-----------------------------------------------------------------------------
(* The steps of a run, in the order of send_mail_async.                     *)

LEMMA StartEffect ==
    ASSUME IInv, SharedMedia, NEW j \in Job,
           Take(j) \/ Load(j) \/ Decrypt(j) \/ CheckFile(j)
    PROVE  \E s \in PC : Effect(j, s)
<1>0. /\ pc[j] \in {"queued", "load", "decrypt", "check"}
      /\ UNCHANGED <<kind, row, files, got, bare>>
  BY DEF Take, Load, Decrypt, CheckFile, mail
<1>1. pc[j] \in Waiting /\ (pc[j] \notin Idle \/ pc[j] = "queued")
  BY <1>0 DEF Waiting, Idle
<1>2. CASE \E s \in {"load", "decrypt", "check", "open"} :
               Goto(j, s) /\ fault' = fault
  <2>1. PICK s \in {"load", "decrypt", "check", "open"} :
               Goto(j, s) /\ fault' = fault
    BY <1>2
  <2>2. s \in PC /\ s \in Waiting /\ s \in Working /\ s \notin Attempt
    BY DEF PC, Waiting, Working, Attempt
  <2>3. Effect(j, s)
    BY <1>0, <1>1, <2>1, <2>2, GotoStep DEF Unconfirmed
  <2> QED
    BY <2>2, <2>3
<1>3. CASE /\ Goto(j, "submit1") /\ fault' = fault
           /\ kind[j.req] # "attach" \/ files[j.req] # {"web"}
  <2>1. "submit1" \in PC /\ "submit1" \notin Waiting /\ "submit1" \in Working
    BY DEF PC, Waiting, Working, Attempt
  <2>2. Effect(j, "submit1")
    BY <1>0, <1>1, <1>3, <2>1, GotoStep DEF Unconfirmed
  <2> QED
    BY <2>1, <2>2
<1>4. CASE /\ Goto(j, "done") /\ fault' = fault
           /\ row[j.req] \in {"absent", "gone"}
  <2>1. "done" \in PC /\ "done" \notin Waiting /\ "done" \notin Attempt
    BY DEF PC, Idle, Waiting, Attempt
  <2>2. row[j.req] = "absent" \/ Excused(j.req)'
    BY <1>0, <1>4 DEF Excused
  <2>3. Effect(j, "done")
    BY <1>0, <1>1, <1>4, <2>1, <2>2, GotoStep DEF Unconfirmed
  <2> QED
    BY <2>1, <2>3
<1>5. CASE /\ Goto(j, "saveNoKey")
           /\ fault' = [fault EXCEPT ![j.req] = @ \cup {"decrypt"}]
  <2>1. "saveNoKey" \in PC \ (Waiting \cup Attempt)
    BY DEF PC, Idle, Waiting, Attempt
  <2>2. /\ \A r \in Requests : /\ fault[r] \subseteq fault'[r]
                               /\ Unconfirmed(r)' <=> Unconfirmed(r)
        /\ \A r \in Requests \ {j.req} : fault'[r] = fault[r]
        /\ "decrypt" \in fault'[j.req]
    BY <1>5, JobFacts DEF IInv, TypeOK, Unconfirmed
  <2>3. Excused(j.req)'
    BY <2>2 DEF Excused
  <2>4. Effect(j, "saveNoKey")
    BY <1>0, <1>1, <1>5, <2>1, <2>2, <2>3, GotoStep
  <2> QED
    BY <2>1, <2>4
<1> QED
  BY <1>2, <1>3, <1>4, <1>5
  DEF Take, Load, Decrypt, CheckFile, Host

LEMMA OpenEffect ==
    ASSUME IInv, SharedMedia, NEW j \in Job, OpenFile(j)
    PROVE  \E s \in PC : Effect(j, s)
<1>0. /\ pc[j] = "open" /\ pc[j] \notin Idle
      /\ UNCHANGED <<kind, row, files, bare>>
  BY DEF OpenFile, mail, Idle
<1>1. CASE Goto(j, "submit1") /\ got' = got \cup {j} /\ UNCHANGED fault
  <2>1. Effect(j, "submit1")
    BY <1>0, <1>1, GotoEffect
    DEF Effect, Unconfirmed, Waiting, Attempt, Working, PC
  <2> QED
    BY <2>1 DEF PC, Attempt
<1>2. CASE Raise(j) /\ UNCHANGED got
  BY <1>0, <1>2, RaiseStep DEF PC, Idle
<1> QED
  BY <1>1, <1>2 DEF OpenFile

LEMMA DialogueEffect ==
    ASSUME IInv, NEW j \in Job,
           Accepted(j) \/ AcceptedUnheard(j) \/ Refused(j) \/ TlsError(j)
    PROVE  \E s \in PC : Effect(j, s)
<1>0. /\ pc[j] \in Attempt /\ pc[j] \notin Idle
      /\ UNCHANGED <<kind, row, files, got>>
  BY DEF Accepted, AcceptedUnheard, Refused, TlsError, mail, Attempt, Idle
<1>1. CASE Accepted(j) \/ AcceptedUnheard(j)
  <2>1. PICK s \in {"append", "ok", "fail"} : Goto(j, s)
    BY <1>1 DEF Accepted, AcceptedUnheard
  <2>2. /\ \A r \in Requests : /\ fault[r] \subseteq fault'[r]
                               /\ Unconfirmed(r)' <=> Unconfirmed(r)
        /\ \A r \in Requests \ {j.req} : fault'[r] = fault[r]
    BY <1>1, JobFacts
    DEF Accepted, AcceptedUnheard, IInv, TypeOK, Unconfirmed
  <2>3. /\ \A r \in Requests \ {j.req} : r \in bare' => r \in bare
        /\ j.req \in bare' => \/ j.req \in bare
                              \/ j \notin got /\ kind[j.req] \in Attached
    BY <1>1 DEF Accepted, AcceptedUnheard, Delivery
  <2>4. s \in PC /\ s \in Working /\ s \notin Waiting /\ s \notin Attempt
    BY DEF PC, Working, Waiting, Attempt
  <2>5. Effect(j, s)
    BY <1>0, <2>1, <2>2, <2>3, <2>4, GotoEffect DEF Effect
  <2> QED
    BY <2>4, <2>5
<1>2. CASE \E s \in Attempt \cup {"fail", "saveError"} :
               Goto(j, s) /\ fault' = fault /\ bare' = bare
  <2>1. PICK s \in Attempt \cup {"fail", "saveError"} :
               Goto(j, s) /\ fault' = fault /\ bare' = bare
    BY <1>2
  <2>2. s \in PC /\ s \in Working /\ s \notin Waiting
    BY DEF PC, Working, Waiting, Attempt
  <2>3. Effect(j, s)
    BY <1>0, <2>1, <2>2, GotoStep DEF Unconfirmed
  <2> QED
    BY <2>2, <2>3
<1>3. CASE Raise(j) /\ bare' = bare
  BY <1>0, <1>3, RaiseStep DEF PC, Idle
<1> QED
  BY <1>1, <1>2, <1>3 DEF Refused, TlsError, mail, Attempt

\* After the dialogue: the append, the removal of the directory, the save.
LEMMA EndEffect ==
    ASSUME IInv, SharedMedia, \A r \in Requests : StoreInv(r), NEW j \in Job,
           \/ AppendSent(j) \/ Cleanup(j) \/ SaveStatus(j)
           \/ CleanupAfterError(j) \/ Tell(j) \/ FinishDirect(j)
    PROVE  \E s \in PC : Effect(j, s)
<1>0. /\ pc[j] \in {"append", "ok", "fail", "saveOk", "saveFail", "saveNoKey",
                    "saveError", "cleanError", "tellSent", "tellFailed"}
      /\ UNCHANGED <<kind, got, bare>>
  BY DEF AppendSent, Cleanup, SaveStatus, CleanupAfterError, Tell,
         FinishDirect, mail
<1>1. pc[j] \notin Idle /\ pc[j] \notin Waiting /\ pc[j] \notin Attempt
  BY <1>0 DEF Idle, Waiting, Attempt
<1>2. CASE AppendSent(j) \/ Tell(j)
  <2>1. PICK s \in {"ok", "done"} :
          /\ Goto(j, s)
          /\ s = "done" => pc[j] \notin Working
          /\ UNCHANGED <<row, files, fault>>
    BY <1>2 DEF AppendSent, Tell, Working, Waiting, Attempt
  <2>2. /\ s \in PC /\ s \notin Waiting /\ s \notin Attempt
        /\ s \in Working \/ pc[j] \notin Working
    BY <2>1 DEF PC, Idle, Waiting, Attempt, Working
  <2>3. Effect(j, s)
    BY <1>0, <1>1, <2>1, <2>2, GotoStep DEF Unconfirmed
  <2> QED
    BY <2>2, <2>3
<1>3. CASE Cleanup(j) \/ CleanupAfterError(j)
  <2>1. PICK s \in {"saveOk", "saveFail", "tellFailed"} :
          Goto(j, s) /\ RemoveFiles(j) /\ UNCHANGED <<row, fault>>
    BY <1>3 DEF Cleanup, CleanupAfterError
  <2>2. s \in PC /\ s \notin Waiting /\ s \notin Attempt
    BY DEF PC, Idle, Waiting, Attempt
  <2>3. /\ files'[j.req] = {}
        /\ \A r \in Requests \ {j.req} : files'[r] = files[r]
    BY <2>1, JobFacts DEF RemoveFiles, Host, StoreInv, IInv, TypeOK
  <2>4. Effect(j, s)
    BY <1>0, <1>1, <2>1, <2>2, <2>3, GotoEffect DEF Effect, Unconfirmed
  <2> QED
    BY <2>2, <2>4
<1>4. CASE (SaveStatus(j) \/ FinishDirect(j)) /\ row[j.req] = "gone"
  <2>1. Raise(j) /\ UNCHANGED <<row, files>>
    BY <1>4 DEF SaveStatus, FinishDirect
  <2> QED
    BY <1>0, <1>1, <1>4, <2>1, RaiseStep DEF PC, Idle
<1>5. CASE (SaveStatus(j) \/ FinishDirect(j)) /\ row[j.req] # "gone"
  <2>1. UNCHANGED <<files, fault>>
    BY <1>5 DEF SaveStatus, FinishDirect
  <2>2. PICK s \in {"tellSent", "cleanError", "tellFailed", "done"} :
          /\ Goto(j, s)
          /\ \/ s = "cleanError" \/ kind[j.req] # "attach"
             \/ pc[j] \notin Working
    BY <1>5 DEF SaveStatus, FinishDirect, Unqueued, Working, Waiting, Attempt
  <2>3. /\ \A r \in Requests \ {j.req} : row'[r] = row[r]
        /\ row'[j.req] = "absent" <=> row[j.req] = "absent"
        /\ row[j.req] = "gone" => row'[j.req] = "gone"
    <3>1. SaveStatus(j) => row[j.req] # "absent"
      BY DEF SaveStatus, IInv, RunInv, RunAt, HasRow
    <3>2. \/ row' = row
          \/ /\ row[j.req] \notin {"absent", "gone"}
             /\ \E v \in {"sent", "failed"} :
                    row' = [row EXCEPT ![j.req] = v]
      BY <1>5, <3>1 DEF SaveStatus, FinishDirect
    <3> QED
      BY <3>2, JobFacts DEF IInv, TypeOK
  <2>4. /\ s \in PC /\ s \notin Waiting /\ s \notin Attempt
        /\ s = "cleanError" => s \in Working
    BY DEF PC, Idle, Waiting, Attempt, Working
  <2>5. Effect(j, s)
    BY <1>0, <1>1, <1>5, <2>1, <2>2, <2>3, <2>4, GotoEffect
    DEF Effect, Unconfirmed
  <2> QED
    BY <2>4, <2>5
<1> QED
  BY <1>2, <1>3, <1>4, <1>5 DEF SaveStatus, FinishDirect

LEMMA RunEffect ==
    ASSUME IInv, SharedMedia, FilesInv, NEW j \in Job, Run(j) \/ CrashRun(j)
    PROVE  \E s \in PC : Effect(j, s)
<1>1. CASE CrashRun(j)
  BY <1>1, RaiseStep DEF CrashRun, mail, PC, Idle
<1>2. \A r \in Requests : StoreInv(r)
  BY DEF FilesInv
<1> QED
  BY <1>1, <1>2, StartEffect, OpenEffect, DialogueEffect, EndEffect DEF Run

-----------------------------------------------------------------------------
(* The steps preserve the invariant.                                        *)

LEMMA RunFilesInv ==
    ASSUME IInv, FilesInv, NEW j \in Job, NEW s \in PC, Effect(j, s)
    PROVE  FilesInv'
<1>t. TypeOK /\ j.req \in Requests
  BY JobFacts DEF IInv
<1>w. pc[j] # "none" /\ web[j.req] \notin Unsent
  <2>1. pc[j] # "none"
    BY DEF Effect, Idle
  <2> QED
    BY <1>t, <2>1, JobFacts DEF IInv, ThreadInv
<1>1. ASSUME NEW r \in Requests
      PROVE  StoreInv(r)'
  <2>1. StoreInv(r)
    BY DEF FilesInv
  <2>2. CASE r # j.req
    BY <1>t, <2>1, <2>2 DEF Effect, StoreInv, Unlogged
  <2>3. CASE r = j.req
    <3>1. web'[r] \notin Unsent
      BY <1>w, <2>3 DEF Effect, Unsent, Unlogged
    <3>2. r \in bare' => Unconfirmed(r)
      <4>1. CarryInv(j)
        BY DEF FilesInv
      <4> QED
        BY <2>1, <2>3, <4>1 DEF Effect, StoreInv, CarryInv
    <3> QED
      BY <2>1, <2>3, <3>1, <3>2 DEF Effect, StoreInv, Unsent, Unlogged
  <2> QED
    BY <2>2, <2>3
<1>2. ASSUME NEW k \in Job
      PROVE  CarryInv(k)'
  <2>1. CarryInv(k) /\ CarryInv(j) /\ k.req \in Requests
    BY JobFacts DEF FilesInv
  <2>2. CASE k = j
    <3>1. pc'[j] = s
      BY <1>t DEF Effect, TypeOK
    <3> QED
      BY <2>1, <2>2, <3>1 DEF Effect, CarryInv, Attached, Unqueued
  <2>3. CASE k # j
    <3>1. pc'[k] = pc[k]
      BY <1>t, <2>3 DEF Effect, TypeOK
    <3>2. CASE k.req # j.req
      BY <2>1, <3>1, <3>2 DEF Effect, CarryInv
    <3>3. CASE k.req = j.req
      <4>1. pc[k] = "none" \/ Unconfirmed(k.req)
        BY <1>w, <2>3, <3>3, JobFacts DEF IInv, OneRun
      <4> QED
        BY <2>1, <3>1, <4>1 DEF Effect, CarryInv, Waiting, Attempt
    <3> QED
      BY <3>2, <3>3
  <2> QED
    BY <2>2, <2>3
<1>3. ASSUME NEW r \in Requests
      PROVE  ReclaimInv(r)'
  <2> SUFFICES ASSUME files'[r] # {}, ~Excused(r)'
               PROVE  \/ web'[r] = "ready"
                      \/ \E k \in Job : k.req = r /\ pc'[k] \in Working
    BY DEF ReclaimInv
  <2>1. files[r] # {} /\ ~Excused(r) /\ StoreInv(r)
    BY <1>t DEF Effect, Excused, FilesInv
  <2>2. web[r] = "ready" \/ \E k \in Job : k.req = r /\ pc[k] \in Working
    BY <2>1 DEF FilesInv, ReclaimInv
  <2>3. CASE r # j.req
    <3>1. web'[r] = web[r] /\ \A k \in Job : k.req = r => pc'[k] = pc[k]
      BY <1>t, <2>3 DEF Effect, TypeOK
    <3> QED
      BY <2>2, <3>1
  <2>4. CASE r = j.req
    <3>1. PICK k \in Job : k.req = r /\ pc[k] \in Working
      BY <1>w, <2>2, <2>4 DEF Unsent
    <3>2. CASE k = j
      <4>1. s \in Working
        BY <2>1, <2>4, <3>1, <3>2 DEF Effect, StoreInv
      <4>2. pc'[j] = s
        BY <1>t DEF Effect, TypeOK
      <4> QED
        BY <2>4, <4>1, <4>2
    <3>3. CASE k # j
      <4>1. pc'[k] = pc[k]
        BY <1>t, <3>3 DEF Effect, TypeOK
      <4> QED
        BY <3>1, <4>1
    <3> QED
      BY <3>2, <3>3
  <2> QED
    BY <2>3, <2>4
<1> QED
  BY <1>1, <1>2, <1>3 DEF FilesInv

\* Steps of the thread that start no run and store no files.
LEMMA QuietInv ==
    ASSUME IInv, FilesInv, NEW r \in Requests, web[r] \in Unsent,
           \/ Submit(r) \/ CreateInterim(r) \/ DropInterim(r) \/ CreateRow(r)
           \/ CrashThread(r)
    PROVE  FilesInv'
<1>t. TypeOK /\ StoreInv(r) /\ ThreadInv(r)
  BY DEF IInv, FilesInv
<1>f. UNCHANGED <<files, pc, got, bare>>
  BY DEF Submit, CreateInterim, DropInterim, CreateRow, CrashThread, mail
<1>q. \A q \in Requests \ {r} :
          UNCHANGED <<kind[q], web[q], row[q], files[q], fault[q]>>
  BY <1>t DEF Submit, CreateInterim, DropInterim, CreateRow, CrashThread,
              TypeOK
<1>d. Unconfirmed(r)' <=> Unconfirmed(r)
  BY <1>t DEF Submit, CreateInterim, DropInterim, CreateRow, CrashThread,
              TypeOK, Unconfirmed
<1>n. \A k \in Job : k.req = r => pc[k] = "none"
  BY <1>t, JobFacts DEF ThreadInv
<1>1. ASSUME NEW q \in Requests
      PROVE  StoreInv(q)'
  <2>1. CASE q # r
    <3>1. StoreInv(q)
      BY DEF FilesInv
    <3> QED
      BY <1>f, <1>q, <2>1, <3>1 DEF StoreInv, Unconfirmed
  <2>2. CASE q = r
    <3>1. CASE Submit(r) \/ CreateInterim(r) \/ DropInterim(r)
      BY <1>t, <1>f, <1>d, <2>2, <3>1
      DEF Submit, CreateInterim, DropInterim, StoreInv, Unlogged, TypeOK
    <3>2. CASE CreateRow(r)
      BY <1>t, <1>f, <1>d, <2>2, <3>2
      DEF CreateRow, StoreInv, Unlogged, Unqueued, TypeOK
    <3>3. CASE CrashThread(r)
      BY <1>t, <1>f, <1>d, <2>2, <3>3
      DEF CrashThread, StoreInv, Unlogged, TypeOK
    <3> QED
      BY <3>1, <3>2, <3>3
  <2> QED
    BY <2>1, <2>2
<1>2. ASSUME NEW k \in Job
      PROVE  CarryInv(k)'
  <2>1. CarryInv(k) /\ k.req \in Requests
    BY JobFacts DEF FilesInv
  <2>2. CASE k.req = r
    BY <1>f, <1>n, <2>2 DEF CarryInv, Waiting, Attempt
  <2>3. CASE k.req # r
    BY <1>f, <1>q, <2>1, <2>3 DEF CarryInv, Unconfirmed
  <2> QED
    BY <2>2, <2>3
<1>3. ASSUME NEW q \in Requests
      PROVE  ReclaimInv(q)'
  <2>1. ReclaimInv(q)
    BY DEF FilesInv
  <2>2. CASE q # r
    BY <1>f, <1>q, <2>1, <2>2 DEF ReclaimInv, Excused
  <2>3. CASE q = r
    <3>1. CASE CrashThread(r)
      BY <1>t, <2>3, <3>1 DEF CrashThread, ReclaimInv, Excused, TypeOK
    <3>2. CASE Submit(r) \/ CreateInterim(r) \/ DropInterim(r) \/ CreateRow(r)
      <4>1. files[r] = {}
        BY <1>t, <3>2 DEF Submit, CreateInterim, DropInterim, CreateRow,
                          StoreInv, Unlogged
      <4> QED
        BY <1>f, <2>3, <4>1 DEF ReclaimInv
    <3> QED
      BY <3>1, <3>2
  <2> QED
    BY <2>2, <2>3
<1> QED
  BY <1>1, <1>2, <1>3 DEF FilesInv
\* The files are stored before the row has a run, so nobody else looks.
LEMMA StoreFilesInv ==
    ASSUME IInv, FilesInv, NEW r \in Requests, StoreFiles(r)
    PROVE  FilesInv'
<1>t. TypeOK /\ StoreInv(r) /\ ThreadInv(r) /\ web[r] = "created"
  BY DEF IInv, FilesInv, StoreFiles
<1>f. UNCHANGED <<kind, row, pc, got, bare>>
  BY DEF StoreFiles, mail
<1>q. \A q \in Requests \ {r} :
          UNCHANGED <<web[q], files[q], fault[q]>>
  BY <1>t DEF StoreFiles, TypeOK
<1>r. /\ files'[r] = {"web"} /\ row[r] # "absent"
      /\ Unconfirmed(r)' <=> Unconfirmed(r)
      /\ web'[r] = "ready" \/ (web'[r] = "failed" /\ "lost" \in fault'[r])
  BY <1>t DEF StoreFiles, TypeOK, StoreInv, ThreadInv, Unlogged, Unconfirmed
<1>k. kind[r] = "attach"
  BY <1>t DEF StoreInv
<1>1. ASSUME NEW q \in Requests
      PROVE  StoreInv(q)' /\ ReclaimInv(q)'
  <2>1. StoreInv(q) /\ ReclaimInv(q)
    BY DEF FilesInv
  <2>2. CASE q # r
    BY <1>f, <1>q, <2>1, <2>2 DEF StoreInv, ReclaimInv, Excused, Unconfirmed
  <2>3. CASE q = r
    BY <1>t, <1>f, <1>r, <1>k, <2>3
    DEF StoreInv, ReclaimInv, Excused, Unlogged, Unqueued
  <2> QED
    BY <2>2, <2>3
<1>2. ASSUME NEW k \in Job
      PROVE  CarryInv(k)'
  <2>1. CarryInv(k) /\ k.req \in Requests
    BY JobFacts DEF FilesInv
  <2>2. CASE k.req = r
    <3>1. pc[k] = "none"
      BY <1>t, <2>2, JobFacts DEF ThreadInv, Unsent
    <3> QED
      BY <1>f, <3>1 DEF CarryInv, Waiting, Attempt
  <2>3. CASE k.req # r
    BY <1>f, <1>q, <2>1, <2>3 DEF CarryInv, Unconfirmed
  <2> QED
    BY <2>2, <2>3
<1> QED
  BY <1>1, <1>2 DEF FilesInv

\* A run starts with the files in place, or with the attachments in hand.
LEMMA StartInv ==
    ASSUME IInv, FilesInv, NEW r \in Requests,
           \/ StartDirect(r) \/ PublishTask(r) \/ PublishRefused(r)
           \/ PublishUnconfirmed(r)
    PROVE  FilesInv'
<1>t. TypeOK /\ StoreInv(r) /\ ThreadInv(r) /\ WebJob(r) \in Job
      /\ WorkerJob(r) \in Job /\ WebJob(r) # WorkerJob(r)
  BY JobFacts DEF IInv, FilesInv
<1>u. web[r] \in Unsent /\ ~Unconfirmed(r)
  BY <1>t DEF StartDirect, PublishTask, PublishRefused, PublishUnconfirmed,
              ThreadInv, Unsent, Unlogged
<1>f. UNCHANGED <<kind, files, bare>> /\ got \subseteq got'
  BY DEF StartDirect, PublishTask, PublishRefused, PublishUnconfirmed, mail
<1>q. /\ \A q \in Requests \ {r} :
             UNCHANGED <<web[q], row[q], fault[q]>>
      /\ \A k \in Job : k.req # r => pc'[k] = pc[k]
  BY <1>t, JobFacts DEF StartDirect, PublishTask, PublishRefused,
                        PublishUnconfirmed, TypeOK
<1>r. /\ row[r] # "absent" => row'[r] # "absent"
      /\ web'[r] \in {"direct", "done", "inline"}
  BY <1>t DEF StartDirect, PublishTask, PublishRefused, PublishUnconfirmed,
              TypeOK
<1>d. /\ fault[r] \subseteq fault'[r]
      /\ Unconfirmed(r) => Unconfirmed(r)'
      /\ row[r] = "gone" => row'[r] = "gone"
  BY <1>t DEF StartDirect, PublishTask, PublishRefused, PublishUnconfirmed,
              TypeOK, ThreadInv, Unlogged, Unconfirmed
<1>n. \A k \in Job : k.req = r => pc[k] = "none"
  BY <1>t, <1>u, JobFacts DEF ThreadInv
<1>1. ASSUME NEW q \in Requests
      PROVE  StoreInv(q)'
  <2>1. StoreInv(q)
    BY DEF FilesInv
  <2>2. CASE q # r
    BY <1>f, <1>q, <2>1, <2>2 DEF StoreInv, Unconfirmed
  <2>3. CASE q = r
    BY <1>f, <1>r, <1>d, <2>1, <2>3 DEF StoreInv, Unlogged
  <2> QED
    BY <2>2, <2>3
<1>2. ASSUME NEW k \in Job
      PROVE  CarryInv(k)'
  <2>1. CarryInv(k) /\ k.req \in Requests
    BY JobFacts DEF FilesInv
  <2>2. CASE k.req # r
    BY <1>f, <1>q, <2>1, <2>2 DEF CarryInv, Unconfirmed
  <2>3. CASE k.req = r /\ StartDirect(r)
    <3>1. /\ kind[r] \in Unqueued
          /\ pc'[k] = IF k = WebJob(r) THEN "submit1" ELSE "none"
          /\ kind[r] = "attachDirect" => WebJob(r) \in got'
      BY <1>t, <1>n, <2>3, JobFacts DEF StartDirect, TypeOK
    <3> QED
      BY <1>f, <2>3, <3>1
      DEF CarryInv, Waiting, Attempt, Attached, Unqueued
  <2>4. CASE k.req = r /\ ~StartDirect(r)
    <3>1. web[r] = "ready" /\ pc'[k] \in {"none", "queued", "load"}
      BY <1>t, <1>n, <2>4, JobFacts
      DEF PublishTask, PublishRefused, PublishUnconfirmed, TypeOK
    <3> QED
      BY <1>t, <1>f, <2>4, <3>1 DEF CarryInv, StoreInv, Waiting, Attempt
  <2> QED
    BY <2>2, <2>3, <2>4
<1>3. ASSUME NEW q \in Requests
      PROVE  ReclaimInv(q)'
  <2>1. ReclaimInv(q)
    BY DEF FilesInv
  <2>2. CASE q # r
    BY <1>f, <1>q, <2>1, <2>2 DEF ReclaimInv, Excused
  <2>3. CASE q = r /\ StartDirect(r)
    <3>1. files[r] = {}
      BY <1>t, <2>3 DEF StartDirect, StoreInv, Unlogged
    <3> QED
      BY <1>f, <2>3, <3>1 DEF ReclaimInv
  <2>4. CASE q = r /\ ~StartDirect(r)
    <3>1. \E k \in Job : k.req = r /\ pc'[k] \in {"queued", "load"}
      BY <1>t, <2>4, JobFacts
      DEF PublishTask, PublishRefused, PublishUnconfirmed, TypeOK
    <3> QED
      BY <2>4, <3>1 DEF ReclaimInv, Working, Waiting
  <2> QED
    BY <2>2, <2>3, <2>4
<1> QED
  BY <1>1, <1>2, <1>3 DEF FilesInv

\* The deletion of the account excuses every directory.
LEMMA DeleteFilesInv ==
    ASSUME IInv, FilesInv, DeleteAccount
    PROVE  FilesInv'
<1>1. UNCHANGED <<kind, web, files, pc, got, bare, fault>>
  BY DEF DeleteAccount, mail
<1>2. \A r \in Requests : row'[r] = IF row[r] = "absent" THEN "absent"
                                                         ELSE "gone"
  BY DEF DeleteAccount
<1> QED
  BY <1>1, <1>2 DEF FilesInv, StoreInv, ReclaimInv, CarryInv, Excused,
                    Unconfirmed

LEMMA InitFilesInv == Init => FilesInv
BY JobFacts DEF Init, FilesInv, StoreInv, ReclaimInv, CarryInv, Unlogged,
                Waiting, Attempt

LEMMA NextFilesInv ==
    ASSUME SharedMedia, IInv, FilesInv, [Next]_vars
    PROVE  FilesInv'
<1>1. CASE UNCHANGED vars
  BY <1>1 DEF vars, FilesInv, StoreInv, ReclaimInv, CarryInv, Excused,
              Unconfirmed
<1>2. ASSUME NEW r \in Requests, Submit(r) \/ Thread(r) \/ CrashThread(r)
      PROVE  FilesInv'
  <2>1. web[r] \in Unsent
    BY <1>2 DEF Submit, Thread, CrashThread, CreateInterim, DropInterim,
                CreateRow, StoreFiles, StartDirect, PublishTask,
                PublishRefused, PublishUnconfirmed, Unsent, Unlogged
  <2> QED
    BY <1>2, <2>1, QuietInv, StoreFilesInv, StartInv DEF Thread
<1>3. ASSUME NEW j \in Job, Run(j) \/ CrashRun(j)
      PROVE  FilesInv'
  BY <1>3, RunEffect, RunFilesInv
<1> QED
  BY <1>1, <1>2, <1>3, DeleteFilesInv DEF Next

-----------------------------------------------------------------------------
(* The theorems.                                                            *)

\* Where panel and workers see the same disk, the invariant about files holds
\* in every reachable state.
THEOREM FilesInvariance ==
    ASSUME SharedMedia
    PROVE  Spec => []FilesInv
<1>1. IInv /\ FilesInv /\ [Next]_vars => FilesInv'
  BY NextFilesInv
<1> QED
  BY <1>1, InitFilesInv, Invariance, PTL DEF Spec

\* There, a message sent with attachments reaches Postfix with them, unless the
\* publication of its task was in doubt and two runs share the directory.
THEOREM AttachmentTheorem ==
    ASSUME SharedMedia
    PROVE  Spec => []AttachmentsDelivered
<1>1. TypeOK /\ FilesInv => AttachmentsDelivered
  BY DEF TypeOK, FilesInv, StoreInv, AttachmentsDelivered, Unconfirmed
<1> QED
  BY <1>1, FilesInvariance, TypeCorrect, PTL

\* And once nobody works on a message its directory is gone, except after a
\* run that ended early, an unreadable password or a deleted account.
THEOREM ReclaimTheorem ==
    ASSUME SharedMedia
    PROVE  Spec => []FilesReclaimed
<1>1. FilesInv => FilesReclaimed
  <2> SUFFICES ASSUME FilesInv, NEW r \in Requests, Ended(r), files[r] # {},
                      ~Excused(r)
               PROVE  FALSE
    BY DEF FilesReclaimed, Excused
  <2>1. PICK j \in Job : j.req = r /\ pc[j] \in Working
    BY DEF FilesInv, ReclaimInv, Ended
  <2>2. pc[j] \in {"none", "done", "dead"}
    BY <2>1, JobFacts DEF Ended
  <2> QED
    BY <2>1, <2>2 DEF Working, Waiting, Attempt
<1> QED
  BY <1>1, FilesInvariance, PTL
=============================================================================
