------------------------- MODULE InstallerRun_proofs -------------------------
(***************************************************************************)
(* Proofs about the installation wizard: late installations are refused, a  *)
(* completed run has installed the system, an undisturbed actor works with  *)
(* the CA of the volume, and the bootstrap state of a process tells whether *)
(* a job lives in it.  They hold for any number of requests, processes and  *)
(* faults.                                                                  *)
(***************************************************************************)
EXTENDS InstallerRun, FiniteSetTheorems, TLAPS

(***************************************************************************)
(* The inductive invariant: what the place of a request and of its thread   *)
(* say of each other.                                                       *)
(***************************************************************************)

\* Before its handler has created anything, a request is nothing but itself,
\* and only a request to start an installation ever has a run.
RequestOK(x) ==
    /\ request[x] # "done" => (life[x] = "idle" /\ status[x] = "none")
    /\ request[x] \in {"guarded", "checked"} => proc[x] \in Procs
    /\ request[x] = "checked" => IsRun(x)
    /\ status[x] # "none" => IsRun(x)
    /\ life[x] = "idle" => ca[x] = NoOne

\* A thread that lives belongs to a process; a run is pending before its first
\* step, running until its status is saved, and settled after that.
ThreadOK(x) ==
    /\ life[x] \in {"idle", "dead"} => (cur[x] = "none" /\ sub[x] = "go")
    /\ life[x] = "alive" => (proc[x] \in Procs /\ (IsRun(x) \/ IsJob(x)))
    /\ (life[x] = "alive" /\ cur[x] = "none") =>
           (IsRun(x) /\ ca[x] = NoOne /\ sub[x] = "go" /\ status[x] = "pending")
    /\ (life[x] = "alive" /\ IsRun(x) /\ cur[x] # "none" /\ sub[x] # "publish") =>
           status[x] = "running"
    /\ sub[x] = "publish" => cur[x] \in {"finish", "failed"}
    /\ status[x] \in {"completed", "failed"} =>
           (life[x] # "idle" /\ (life[x] = "alive" => sub[x] = "publish"))

\* Whoever is about to write the volume has no CA yet.
StepOK(x) ==
    /\ sub[x] \in {"writeCa", "writeCert"} =>
           (life[x] = "alive" /\ ca[x] = NoOne /\ cur[x] \in {"pki", "mail"})
    /\ cur[x] = "pki" => ca[x] = NoOne
    /\ (IsRun(x) /\ cur[x] \in {"dns", "tls", "finish"}) => x \in done
    /\ status[x] = "completed" => x \in done

\* A run that was seen by a check had come to its end, and the first installer
\* to finish had been let in while there was none.
HistoryOK ==
    /\ \A r \in Requests : \A q \in seenRuns[r] : status[q] \in {"completed", "failed"}
    /\ \A x \in Requests : seenDone[x] = {}
    /\ done # {} => installed

Here(p) == {j \in Requests : kind[j] = "bootstrap" /\ proc[j] = p /\ life[j] = "alive"}

BootOK ==
    \A p \in Procs :
        /\ \A j, k \in Here(p) : j = k
        /\ boot[p] = "running" <=> Here(p) # {}

\* Whoever has a CA and is settled keeps it: a run looks for one only while it
\* has none, and a job that has saved its endpoints looks no more.
Settled(x) == IsRun(x) \/ life[x] # "alive" \/ cur[x] \in {"finish", "failed"}

\* An actor nobody disturbed works with what is in the volume, and what the
\* panel has saved is the CA of a settled actor.
VolumeOK ==
    /\ \A a \in Requests : (ca[a] # NoOne /\ a \notin disturbed) =>
                               (ca[a] = vol["ca"] /\ ca[a] = vol["cert"])
    /\ \A a \in Requests : (sub[a] = "writeCert" /\ a \notin disturbed) => vol["ca"] = a
    /\ configCa # NoOne => \E b \in Requests : ca[b] = configCa /\ Settled(b)

RunOK(x) == RequestOK(x) /\ ThreadOK(x) /\ StepOK(x)

IInv == /\ TypeOK
        /\ \A x \in Requests : RunOK(x)
        /\ HistoryOK
        /\ BootOK
        /\ VolumeOK

-----------------------------------------------------------------------------
(***************************************************************************)
(* A step of an installation, summarised: the actor moves on, and owes what *)
(* StepOK says of the place it reaches.                                     *)
(***************************************************************************)
Places == StepName \cup {"finish", "failed"}
Subs   == {"go", "writeCa", "writeCert", "have", "create", "save"}

Moves(a) ==
    /\ life[a] = "alive" /\ cur[a] \in StepName
    /\ UNCHANGED <<status, requestVars, life, stream, faults>>
    /\ \E c \in Places, s \in Subs :
          /\ cur' = [cur EXCEPT ![a] = c]
          /\ sub' = [sub EXCEPT ![a] = s]
          /\ s \in {"writeCa", "writeCert"} => (ca'[a] = NoOne /\ c \in {"pki", "mail"})
          /\ c = "pki" => ca'[a] = NoOne
          /\ (IsRun(a) /\ c \in {"dns", "tls", "finish"}) => a \in done'
    /\ \A b \in Requests \ {a} : ca'[b] = ca[b]
    /\ done \subseteq done' /\ (installed => installed')
    /\ (done' # done) => installed'

LEMMA PlaceFacts ==
    /\ StepName = {"pki", "service", "health", "mail", "admin", "dns", "tls"}
    /\ Follows["pki"] = "service" /\ Follows["service"] = "health"
    /\ Follows["health"] = "mail" /\ Follows["mail"] = "admin"
    /\ Follows["admin"] = "dns" /\ Follows["dns"] = "tls" /\ Follows["tls"] = "finish"
BY DEF StepName, Follows

LEMMA RankFacts == DOMAIN Rank = {"start", "setup", "bootstrap"}
BY DEF Rank

\* Where an actor goes from each of its steps.
LEMMA AfterFacts ==
    ASSUME NEW a \in Requests, cur[a] \in StepName
    PROVE  /\ StepAfter(a) \in Places
           /\ StepAfter(a) # "pki"
           /\ (IsRun(a) /\ StepAfter(a) \in {"dns", "tls", "finish"}) =>
                  cur[a] \in {"admin", "dns", "tls"}
BY PlaceFacts, RankFacts DEF StepAfter, Places, IsJob, IsRun

LEMMA ActorMoves ==
    ASSUME IInv, NEW a \in Requests,
           \/ ActorStep(a) \/ CreateAdmin(a) \/ ApplyDns(a) \/ RequestTls(a)
    PROVE  Moves(a)
<1> USE DEF At, Advance, Fail, Leave, Subs, volumeVars, requestVars, seenVars, configVars
<1>0. /\ RunOK(a) /\ TypeOK
      /\ \A b \in Requests : ca[b] \in Requests \cup {NoOne}
  BY DEF IInv, TypeOK
<1> HIDE DEF IInv
<1>a. ASSUME Stop(a), life[a] = "alive", cur[a] \in StepName,
             UNCHANGED <<status, requestVars, life, ca, configVars, stream, faults>>
      PROVE  Moves(a)
  <2>1. CASE Fail(a)
    BY <1>0, <1>a, <2>1, PlaceFacts DEF Moves, Places
  <2>2. CASE Tolerated(a) /\ Advance(a)
    <3>1. (IsRun(a) /\ StepAfter(a) \in {"dns", "tls", "finish"}) => a \in done
      BY <1>0, <1>a, <2>2, AfterFacts DEF Tolerated, IsRun, IsJob, RunOK, StepOK
    <3> QED
      BY <1>a, <2>2, <3>1, AfterFacts DEF Moves
  <2> QED
    BY <1>a, <2>1, <2>2 DEF Stop
<1>1. CASE StepFails(a) \/ WriteFails(a)
  <2>1. cur[a] \in StepName
    BY <1>0, <1>1, PlaceFacts DEF StepFails, WriteFails, RunOK, StepOK
  <2> QED
    BY <1>1, <1>a, <2>1 DEF StepFails, WriteFails
<1>2. CASE LookAtVolume(a)
  <2>1. CASE ChainVerifies /\ cur[a] = "pki"
    BY <1>0, <1>2, <2>1, AfterFacts, PlaceFacts DEF LookAtVolume, Have, Moves, TypeOK
  <2>2. CASE ~ (ChainVerifies /\ cur[a] = "pki")
    BY <1>0, <1>2, <2>2, PlaceFacts DEF LookAtVolume, Have, Moves, Places, TypeOK
  <2> QED
    BY <2>1, <2>2
<1>3. CASE WriteCa(a)
  BY <1>0, <1>3, PlaceFacts DEF WriteCa, Moves, Places, RunOK, StepOK, TypeOK
<1>4. CASE WriteCert(a)
  <2>1. cur[a] \in {"pki", "mail"} /\ cur[a] \in StepName
    BY <1>0, <1>4, PlaceFacts DEF WriteCert, RunOK, StepOK
  <2>2. CASE cur[a] = "pki"
    BY <1>0, <1>4, <2>1, <2>2, AfterFacts, PlaceFacts DEF WriteCert, Have, Moves, TypeOK
  <2>3. CASE cur[a] = "mail"
    BY <1>0, <1>4, <2>1, <2>3, PlaceFacts DEF WriteCert, Have, Moves, Places, TypeOK
  <2> QED
    BY <2>1, <2>2, <2>3
<1>5. CASE ServiceAction(a)
  BY <1>0, <1>5, AfterFacts, PlaceFacts DEF ServiceAction, Moves, Places, TypeOK
<1>6. CASE CreateContainer(a) \/ WaitHealthy(a)
  BY <1>0, <1>6, AfterFacts, PlaceFacts DEF CreateContainer, WaitHealthy, Moves
<1>7. CASE ProvisionMail(a)
  BY <1>0, <1>7, PlaceFacts
     DEF ProvisionMail, CreateMailContainer, CaAtHand, Moves, Places, TypeOK
<1>8. CASE SaveMailEndpoints(a)
  <2>1. life[a] = "alive" /\ cur[a] = "mail"
    BY <1>8 DEF SaveMailEndpoints, CaAtHand
  <2> QED
    BY <1>0, <1>8, <2>1, AfterFacts, PlaceFacts DEF SaveMailEndpoints, Moves
<1>9. CASE CreateAdmin(a)
  BY <1>0, <1>9, AfterFacts, PlaceFacts DEF CreateAdmin, Moves
<1>10. CASE ApplyDns(a) \/ RequestTls(a)
  BY <1>0, <1>10, AfterFacts, PlaceFacts DEF ApplyDns, RequestTls, Moves, RunOK, StepOK
<1> QED
  BY <1>1, <1>2, <1>3, <1>4, <1>5, <1>6, <1>7, <1>8, <1>9, <1>10 DEF ActorStep

-----------------------------------------------------------------------------
(* Type correctness.                                                        *)

LEMMA InitType == Init => TypeOK
<1> SUFFICES ASSUME Init PROVE TypeOK
  OBVIOUS
<1>1. /\ faults = 0 /\ 0 \in 0..MaxFaults
      /\ installed = FALSE
  BY InstallerAssumption DEF Init
<1>2. kind \in [Requests -> DOMAIN Rank]
  BY DEF Init
<1>3. /\ status = [x \in Requests |-> "none"] /\ request = [x \in Requests |-> "new"]
      /\ life = [x \in Requests |-> "idle"] /\ stream = [x \in Requests |-> "none"]
      /\ cur = [x \in Requests |-> "none"] /\ sub = [x \in Requests |-> "go"]
      /\ proc = [x \in Requests |-> NoOne] /\ ca = [x \in Requests |-> NoOne]
      /\ boot = [p \in Procs |-> "idle"] /\ vol = [f \in {"ca", "cert"} |-> NoOne]
      /\ seenRuns = [x \in Requests |-> {}] /\ seenDone = [x \in Requests |-> {}]
      /\ container \in {"absent", "up"} /\ configCa = NoOne
      /\ disturbed = {} /\ done = {}
  BY DEF Init
<1> QED
  BY <1>1, <1>2, <1>3 DEF TypeOK

LEMMA MovesType ==
    ASSUME IInv, NEW a \in Requests,
           \/ ActorStep(a) \/ CreateAdmin(a) \/ ApplyDns(a) \/ RequestTls(a)
    PROVE  TypeOK'
<1>0. TypeOK /\ Moves(a)
  BY ActorMoves DEF IInv
<1>1. /\ cur' \in [Requests -> StepName \cup {"none", "finish", "failed"}]
      /\ sub' \in [Requests -> {"go", "writeCa", "writeCert", "have", "create", "save", "publish"}]
  BY <1>0 DEF Moves, Places, Subs, TypeOK
<1>2. UNCHANGED <<status, requestVars, life, stream, faults>>
  BY <1>0 DEF Moves
<1>3. SUFFICES /\ vol' \in [{"ca", "cert"} -> Requests \cup {NoOne}]
               /\ ca' \in [Requests -> Requests \cup {NoOne}]
               /\ container' \in {"absent", "starting", "up", "bad"}
               /\ installed' \in BOOLEAN
               /\ configCa' \in Requests \cup {NoOne}
               /\ disturbed' \subseteq Requests
               /\ done' \subseteq Requests
  BY <1>0, <1>1, <1>2, <1>3 DEF TypeOK, requestVars, seenVars
<1> USE DEF At, volumeVars, configVars, TypeOK
<1>4. CASE StepFails(a) \/ ApplyDns(a) \/ RequestTls(a) \/ WaitHealthy(a)
  BY <1>0, <1>4 DEF StepFails, ApplyDns, RequestTls, WaitHealthy
<1>5. CASE LookAtVolume(a)
  BY <1>0, <1>5 DEF LookAtVolume
<1>6. CASE WriteCa(a) \/ WriteCert(a) \/ WriteFails(a)
  BY <1>0, <1>6 DEF WriteCa, WriteCert, WriteFails, Disturb
<1>7. CASE ServiceAction(a) \/ CreateContainer(a) \/ ProvisionMail(a)
  BY <1>0, <1>7 DEF ServiceAction, CreateContainer, ProvisionMail, CreateMailContainer
<1>8. CASE SaveMailEndpoints(a) \/ CreateAdmin(a)
  BY <1>0, <1>8 DEF SaveMailEndpoints, CreateAdmin
<1> QED
  BY <1>4, <1>5, <1>6, <1>7, <1>8 DEF ActorStep

LEMMA RequestType ==
    ASSUME IInv, NEW x \in Requests,
           \/ \E p \in Procs : Guard(x, p) \/ StartJob(x, p)
           \/ CheckActive(x) \/ CreateRun(x) \/ RefuseStart(x) \/ SetupComplete(x)
           \/ OpenStream(x)
    PROVE  TypeOK'
<1>0. TypeOK /\ "pki" \in StepName
  BY PlaceFacts DEF IInv
<1> USE DEF TypeOK, volumeVars, seenVars, requestVars, configVars, Leave
<1>1. ASSUME NEW p \in Procs, Guard(x, p) PROVE TypeOK'
  BY <1>0, <1>1 DEF Guard, Serves
<1>2. ASSUME NEW p \in Procs, StartJob(x, p) PROVE TypeOK'
  BY <1>0, <1>2 DEF StartJob, Serves
<1>3. CASE CheckActive(x)
  BY <1>0, <1>3 DEF CheckActive
<1>4. CASE CreateRun(x) \/ RefuseStart(x)
  BY <1>0, <1>4 DEF CreateRun, RefuseStart
<1>5. CASE SetupComplete(x)
  BY <1>0, <1>5 DEF SetupComplete
<1>6. CASE OpenStream(x)
  BY <1>0, <1>6 DEF OpenStream
<1> QED
  BY <1>1, <1>2, <1>3, <1>4, <1>5, <1>6

LEMMA EndType ==
    ASSUME IInv, NEW x \in Requests,
           \/ BeginRun(x) \/ Conclude(x) \/ Publish(x) \/ EndJob(x)
           \/ CompletionFails(x) \/ ThreadEnds(x)
    PROVE  TypeOK'
<1>0. TypeOK /\ RunOK(x) /\ {"pki", "mail"} \subseteq StepName
  BY PlaceFacts DEF IInv
<1> USE DEF TypeOK, volumeVars, seenVars, requestVars, configVars, Leave
<1>1. CASE BeginRun(x)
  BY <1>0, <1>1 DEF BeginRun, Prepared, FirstSteps
<1>2. CASE Conclude(x)
  BY <1>0, <1>2 DEF Conclude, FinalStatus
<1>c. faults < MaxFaults /\ faults' = faults + 1 => faults' \in 0..MaxFaults
  BY <1>0, InstallerAssumption
<1>3. CASE Publish(x)
  <2>1. stream' \in [Requests -> {"none", "open", "lost", "ended"}]
    BY <1>0, <1>3 DEF Publish, LastEvent
  <2> QED
    BY <1>0, <1>3, <1>c, <2>1 DEF Publish
<1>4. CASE EndJob(x)
  <2>1. /\ life' \in [Requests -> {"idle", "alive", "dead", "over"}]
        /\ proc' \in [Requests -> Procs \cup {NoOne}]
    BY <1>0, <1>4 DEF EndJob
  <2>2. boot' \in [Procs -> {"idle", "running", "done", "error"}]
    BY <1>0, <1>4 DEF EndJob
  <2> QED
    BY <1>0, <1>4, <2>1, <2>2 DEF EndJob
<1>5. CASE CompletionFails(x)
  BY <1>0, <1>5, <1>c DEF CompletionFails, Fail
<1>6. CASE ThreadEnds(x)
  BY <1>0, <1>6, <1>c DEF ThreadEnds
<1> QED
  BY <1>1, <1>2, <1>3, <1>4, <1>5, <1>6

LEMMA WorldType ==
    ASSUME IInv, ContainerChanges \/ \E p \in Procs : Crash(p)
    PROVE  TypeOK'
<1>0. TypeOK
  BY DEF IInv
<1> USE DEF TypeOK, volumeVars, seenVars, requestVars, configVars
<1>1. CASE ContainerChanges
  <2>1. /\ faults' \in 0..MaxFaults
        /\ container' \in {"absent", "starting", "up", "bad"}
    BY <1>0, <1>1, InstallerAssumption DEF ContainerChanges
  <2> QED
    BY <1>0, <1>1, <2>1 DEF ContainerChanges
<1>2. ASSUME NEW p \in Procs, Crash(p) PROVE TypeOK'
  <2>1. /\ life' \in [Requests -> {"idle", "alive", "dead", "over"}]
        /\ request' \in [Requests -> {"new", "guarded", "checked", "done"}]
        /\ proc' \in [Requests -> Procs \cup {NoOne}]
        /\ cur' \in [Requests -> StepName \cup {"none", "finish", "failed"}]
        /\ sub' \in [Requests ->
                        {"go", "writeCa", "writeCert", "have", "create", "save", "publish"}]
    BY <1>0, <1>2 DEF Crash
  <2>2. boot' \in [Procs -> {"idle", "running", "done", "error"}] /\ faults' \in 0..MaxFaults
    BY <1>0, <1>2, InstallerAssumption DEF Crash
  <2> QED
    BY <1>0, <1>2, <2>1, <2>2 DEF Crash
<1> QED
  BY <1>1, <1>2

-----------------------------------------------------------------------------
(* Places: every action keeps what the place of each request says.          *)

LEMMA InitPlaces == Init => \A x \in Requests : RunOK(x)
BY DEF Init, RunOK, RequestOK, ThreadOK, StepOK

LEMMA MovesPlaces ==
    ASSUME IInv, NEW a \in Requests, Moves(a), NEW x \in Requests
    PROVE  RunOK(x)'
<1>0. TypeOK /\ RunOK(x)
  BY DEF IInv
<1>1. CASE x = a
  <2>1. PICK c \in Places, s \in Subs :
            /\ cur' = [cur EXCEPT ![a] = c]
            /\ sub' = [sub EXCEPT ![a] = s]
            /\ s \in {"writeCa", "writeCert"} => (ca'[a] = NoOne /\ c \in {"pki", "mail"})
            /\ c = "pki" => ca'[a] = NoOne
            /\ (IsRun(a) /\ c \in {"dns", "tls", "finish"}) => a \in done'
    BY DEF Moves
  <2>2. cur'[x] = c /\ sub'[x] = s /\ c # "none" /\ s # "publish"
    BY <1>0, <1>1, <2>1, PlaceFacts DEF TypeOK, Places, Subs
  <2>3. /\ life[x] = "alive" /\ cur[x] # "none" /\ done \subseteq done'
        /\ status' = status /\ kind' = kind /\ request' = request
        /\ proc' = proc /\ life' = life
    BY <1>1, PlaceFacts DEF Moves, requestVars
  <2>4. sub[x] # "publish"
    BY <1>0, <1>1, PlaceFacts DEF Moves, RunOK, ThreadOK
  <2>5. RequestOK(x)' /\ ThreadOK(x)'
    BY <1>0, <2>2, <2>3, <2>4 DEF RunOK, RequestOK, ThreadOK, IsRun, IsJob
  <2>6. StepOK(x)'
    BY <1>0, <1>1, <2>1, <2>2, <2>3 DEF RunOK, StepOK, IsRun
  <2> QED
    BY <2>5, <2>6 DEF RunOK
<1>2. CASE x # a
  <2>1. /\ cur'[x] = cur[x] /\ sub'[x] = sub[x] /\ ca'[x] = ca[x]
        /\ status' = status /\ kind' = kind /\ request' = request
        /\ proc' = proc /\ life' = life /\ done \subseteq done'
    BY <1>0, <1>2 DEF Moves, TypeOK, requestVars
  <2> QED
    BY <1>0, <2>1 DEF RunOK, RequestOK, ThreadOK, StepOK, IsRun, IsJob
<1> QED
  BY <1>1, <1>2

LEMMA RequestPlaces ==
    ASSUME IInv, NEW y \in Requests, NEW x \in Requests,
           \/ \E p \in Procs : Guard(y, p) \/ StartJob(y, p)
           \/ CheckActive(y) \/ CreateRun(y) \/ RefuseStart(y) \/ SetupComplete(y)
           \/ OpenStream(y)
    PROVE  RunOK(x)'
<1>0. TypeOK /\ RunOK(x) /\ RunOK(y)
  BY DEF IInv
<1> USE DEF TypeOK, RunOK, RequestOK, ThreadOK, StepOK, IsRun, IsJob,
            volumeVars, seenVars, requestVars, configVars, Leave
<1>1. ASSUME NEW p \in Procs, Guard(y, p) PROVE RunOK(x)'
  BY <1>0, <1>1 DEF Guard, Serves
<1>2. ASSUME NEW p \in Procs, StartJob(y, p) PROVE RunOK(x)'
  BY <1>0, <1>2 DEF StartJob, Serves
<1>3. CASE CheckActive(y)
  BY <1>0, <1>3 DEF CheckActive
<1>4. CASE CreateRun(y)
  BY <1>0, <1>4 DEF CreateRun
<1>5. CASE RefuseStart(y)
  BY <1>0, <1>5 DEF RefuseStart
<1>6. CASE SetupComplete(y)
  BY <1>0, <1>6 DEF SetupComplete
<1>7. CASE OpenStream(y)
  BY <1>0, <1>7 DEF OpenStream
<1> QED
  BY <1>1, <1>2, <1>3, <1>4, <1>5, <1>6, <1>7

LEMMA EndPlaces ==
    ASSUME IInv, NEW y \in Requests, NEW x \in Requests,
           \/ BeginRun(y) \/ Conclude(y) \/ Publish(y) \/ EndJob(y)
           \/ CompletionFails(y) \/ ThreadEnds(y)
    PROVE  RunOK(x)'
<1>0. TypeOK /\ RunOK(x) /\ RunOK(y)
  BY DEF IInv
<1> USE DEF TypeOK, RunOK, RequestOK, ThreadOK, StepOK, IsRun, IsJob,
            volumeVars, seenVars, requestVars, configVars, Leave
<1>1. CASE BeginRun(y)
  BY <1>0, <1>1 DEF BeginRun, Prepared, FirstSteps
<1>2. CASE Conclude(y)
  BY <1>0, <1>2 DEF Conclude, FinalStatus
<1>3. CASE Publish(y)
  BY <1>0, <1>3 DEF Publish
<1>4. CASE EndJob(y)
  BY <1>0, <1>4 DEF EndJob
<1>5. CASE CompletionFails(y)
  BY <1>0, <1>5 DEF CompletionFails, Fail, At
<1>6. CASE ThreadEnds(y)
  BY <1>0, <1>6 DEF ThreadEnds, At
<1> QED
  BY <1>1, <1>2, <1>3, <1>4, <1>5, <1>6

LEMMA WorldPlaces ==
    ASSUME IInv, ContainerChanges \/ \E p \in Procs : Crash(p), NEW x \in Requests
    PROVE  RunOK(x)'
<1>0. TypeOK /\ RunOK(x)
  BY DEF IInv
<1> USE DEF TypeOK, RunOK, RequestOK, ThreadOK, StepOK, IsRun, IsJob,
            volumeVars, seenVars, requestVars, configVars
<1>1. CASE ContainerChanges
  BY <1>0, <1>1 DEF ContainerChanges
<1>2. ASSUME NEW p \in Procs, Crash(p) PROVE RunOK(x)'
  BY <1>0, <1>2 DEF Crash
<1> QED
  BY <1>1, <1>2

-----------------------------------------------------------------------------
(* What was seen, and the bootstrap state of each process.                  *)

LEMMA InitHistory == Init => (HistoryOK /\ BootOK /\ VolumeOK)
BY DEF Init, HistoryOK, BootOK, Here, VolumeOK

\* Nothing but its own run changes what a check has seen.
LEMMA HistoryStep ==
    ASSUME IInv, Next
    PROVE  HistoryOK'
<1>0. TypeOK /\ HistoryOK /\ (\A x \in Requests : RunOK(x))
  BY DEF IInv
<1> USE DEF HistoryOK
<1>1. ASSUME UNCHANGED <<status, seenVars>>, done \subseteq done', installed => installed',
             (done' # done) => installed'
      PROVE  HistoryOK'
  BY <1>0, <1>1 DEF seenVars
<1>2. ASSUME NEW x \in Requests, status[x] \notin {"completed", "failed"},
             UNCHANGED <<seenVars, done, installed>>,
             \A q \in Requests \ {x} : status'[q] = status[q]
      PROVE  HistoryOK'
  BY <1>0, <1>2 DEF seenVars, TypeOK
<1> USE DEF volumeVars, requestVars, configVars
<1>3. ASSUME NEW x \in Requests, NEW p \in Procs, Guard(x, p) PROVE HistoryOK'
  BY <1>0, <1>3 DEF Guard, TypeOK
<1>4. ASSUME NEW r \in Requests, CheckActive(r) PROVE HistoryOK'
  <2>1. CASE RunInTheWay
    BY <1>1, <1>4, <2>1 DEF CheckActive, seenVars
  <2>2. CASE ~ RunInTheWay
    BY <1>0, <1>4, <2>2 DEF CheckActive, RunInTheWay, TypeOK
  <2> QED
    BY <2>1, <2>2
<1>5. ASSUME NEW r \in Requests, CreateRun(r) PROVE HistoryOK'
  <2>1. status[r] = "none" /\ (\A q \in Requests \ {r} : status'[q] = status[q])
    BY <1>0, <1>5 DEF CreateRun, RunOK, RequestOK, TypeOK
  <2> QED
    BY <1>2, <1>5, <2>1 DEF CreateRun
<1>6. ASSUME NEW r \in Requests, BeginRun(r) PROVE HistoryOK'
  <2>1. status[r] = "pending" /\ (\A q \in Requests \ {r} : status'[q] = status[q])
    BY <1>0, <1>6 DEF BeginRun, RunOK, ThreadOK, TypeOK
  <2> QED
    BY <1>2, <1>6, <2>1 DEF BeginRun
<1>7. ASSUME NEW r \in Requests, Conclude(r) PROVE HistoryOK'
  <2>1. status[r] = "running" /\ (\A q \in Requests \ {r} : status'[q] = status[q])
    BY <1>0, <1>7 DEF Conclude, RunOK, ThreadOK, TypeOK
  <2> QED
    BY <1>2, <1>7, <2>1 DEF Conclude
<1>8. ASSUME NEW a \in Requests, ActorStep(a) \/ CreateAdmin(a) \/ ApplyDns(a) \/ RequestTls(a)
      PROVE  HistoryOK'
  BY <1>1, <1>8, ActorMoves DEF Moves
<1>9. ASSUME NEW x \in Requests, SetupComplete(x) PROVE HistoryOK'
  BY <1>1, <1>9 DEF SetupComplete
<1>10. ASSUME NEW x \in Requests,
              \/ RefuseStart(x) \/ OpenStream(x) \/ Publish(x) \/ EndJob(x)
              \/ CompletionFails(x) \/ ThreadEnds(x)
              \/ \E p \in Procs : StartJob(x, p)
       PROVE  HistoryOK'
  BY <1>1, <1>10 DEF RefuseStart, OpenStream, Publish, EndJob, StartJob, CompletionFails,
                     ThreadEnds
<1>11. CASE ContainerChanges \/ \E p \in Procs : Crash(p)
  BY <1>1, <1>11 DEF ContainerChanges, Crash
<1> QED
  BY <1>3, <1>4, <1>5, <1>6, <1>7, <1>8, <1>9, <1>10, <1>11 DEF Next, RunStep

\* Only a job that starts or ends, or the death of its process, changes what a
\* process says of its bootstrap.
LEMMA BootStep ==
    ASSUME IInv, Next
    PROVE  BootOK'
<1>0. TypeOK /\ BootOK /\ (\A x \in Requests : RunOK(x))
  BY DEF IInv
<1>1. ASSUME boot' = boot, kind' = kind,
             \A j \in Requests : kind[j] = "bootstrap" =>
                 (proc'[j] = proc[j] \/ (life[j] # "alive" /\ life'[j] # "alive")),
             \A j \in Requests : kind[j] = "bootstrap" =>
                 (life'[j] = "alive" <=> life[j] = "alive")
      PROVE  BootOK'
  <2>1. \A p : Here(p)' = Here(p)
    BY <1>1 DEF Here
  <2> QED
    BY <1>0, <1>1, <2>1 DEF BootOK
<1> USE DEF requestVars, seenVars, Leave
<1>2. ASSUME NEW x \in Requests, NEW p \in Procs, Guard(x, p) PROVE BootOK'
  BY <1>0, <1>1, <1>2 DEF Guard, TypeOK
<1>3. ASSUME NEW r \in Requests,
             \/ CheckActive(r) \/ CreateRun(r) \/ RefuseStart(r)
             \/ Publish(r) \/ ThreadEnds(r) \/ SetupComplete(r)
      PROVE  BootOK'
  <2>1. /\ kind[r] # "bootstrap" /\ boot' = boot /\ kind' = kind
        /\ \A j \in Requests \ {r} : proc'[j] = proc[j] /\ life'[j] = life[j]
    BY <1>0, <1>3 DEF CheckActive, CreateRun, RefuseStart, Publish, ThreadEnds,
                      SetupComplete, IsRun, RunOK, RequestOK, TypeOK
  <2> QED
    BY <1>1, <2>1
<1>4. ASSUME NEW a \in Requests,
             \/ ActorStep(a) \/ CreateAdmin(a) \/ ApplyDns(a) \/ RequestTls(a)
             \/ BeginRun(a) \/ Conclude(a) \/ CompletionFails(a) \/ OpenStream(a)
      PROVE  BootOK'
  <2>1. UNCHANGED <<requestVars, life>>
    BY <1>4, ActorMoves DEF Moves, BeginRun, Conclude, CompletionFails, OpenStream
  <2> QED
    BY <1>1, <2>1
<1>5. CASE ContainerChanges
  BY <1>1, <1>5 DEF ContainerChanges
<1>6. ASSUME NEW x \in Requests, NEW p \in Procs, StartJob(x, p) PROVE BootOK'
  <2>0. /\ life[x] = "idle" /\ kind' = kind /\ kind[x] = "bootstrap"
        /\ life' = [life EXCEPT ![x] = "alive"] /\ proc' = [proc EXCEPT ![x] = p]
    BY <1>0, <1>6 DEF StartJob, Serves, RunOK, RequestOK, IsJob
  <2>1. boot[p] # "running" /\ boot' = [boot EXCEPT ![p] = "running"]
    BY <1>6 DEF StartJob, BootFree
  <2>2. Here(p) = {}
    BY <1>0, <2>1 DEF BootOK
  <2>3. Here(p)' = {x} /\ \A q \in Procs \ {p} : Here(q)' = Here(q)
    BY <1>0, <2>0, <2>2 DEF Here, TypeOK
  <2>4. boot'[p] = "running" /\ \A q \in Procs \ {p} : boot'[q] = boot[q]
    BY <1>0, <2>1 DEF TypeOK
  <2>5. ASSUME NEW q \in Procs
        PROVE  /\ \A j, k \in Here(q)' : j = k
               /\ boot'[q] = "running" <=> Here(q)' # {}
    BY <1>0, <2>3, <2>4 DEF BootOK
  <2> QED
    BY <2>5 DEF BootOK
<1>7. ASSUME NEW x \in Requests, EndJob(x) PROVE BootOK'
  <2>0. /\ life[x] = "alive" /\ kind' = kind /\ proc[x] \in Procs /\ kind[x] = "bootstrap"
        /\ life' = [life EXCEPT ![x] = "over"] /\ proc' = [proc EXCEPT ![x] = NoOne]
    BY <1>0, <1>7 DEF EndJob, IsJob, RunOK, ThreadOK
  <2>1. PICK s \in {"done", "error"} : boot' = [boot EXCEPT ![proc[x]] = s]
    BY <1>7 DEF EndJob
  <2>2. Here(proc[x]) = {x}
    BY <1>0, <2>0 DEF BootOK, Here
  <2>3. PICK p \in Procs : p = proc[x]
    BY <2>0
  <2>4. Here(p)' = {} /\ \A q \in Procs \ {p} : Here(q)' = Here(q)
    BY <1>0, <2>0, <2>2, <2>3 DEF Here, TypeOK
  <2> QED
    BY <1>0, <2>1, <2>3, <2>4 DEF BootOK, TypeOK
<1>8. ASSUME NEW p \in Procs, Crash(p) PROVE BootOK'
  <2>1. Here(p)' = {} /\ \A q \in Procs \ {p} : Here(q)' = Here(q)
    BY <1>0, <1>8, InstallerAssumption DEF Crash, Here, TypeOK
  <2> QED
    BY <1>0, <1>8, <2>1 DEF BootOK, TypeOK, Crash
<1> QED
  BY <1>2, <1>3, <1>4, <1>5, <1>6, <1>7, <1>8 DEF Next, RunStep

-----------------------------------------------------------------------------
(* The TLS volume.                                                          *)

\* A settled actor with a CA stays settled, and keeps it.
LEMMA SettledStays ==
    ASSUME IInv, Next, NEW b \in Requests, ca[b] # NoOne, Settled(b)
    PROVE  ca'[b] = ca[b] /\ Settled(b)'
<1>0. TypeOK /\ RunOK(b)
  BY DEF IInv
<1>1. life[b] # "idle"
  BY <1>0 DEF RunOK, RequestOK
<1> USE DEF Settled, IsRun, requestVars, volumeVars
<1>2. ASSUME NEW x \in Requests,
             \/ CheckActive(x) \/ CreateRun(x) \/ RefuseStart(x) \/ SetupComplete(x)
             \/ OpenStream(x) \/ BeginRun(x) \/ Conclude(x) \/ CompletionFails(x)
             \/ ThreadEnds(x) \/ Publish(x) \/ EndJob(x)
             \/ \E p \in Procs : Guard(x, p) \/ StartJob(x, p)
      PROVE  ca' = ca /\ Settled(b)'
  <2>1. ca' = ca /\ kind' = kind
    BY <1>2 DEF CheckActive, CreateRun, RefuseStart, SetupComplete, OpenStream, BeginRun,
                Conclude, CompletionFails, ThreadEnds, Publish, EndJob, Guard, StartJob
  <2>2. kind[b] # "start" /\ ~(x = b /\ EndJob(x)) => life'[b] = life[b] /\ cur'[b] = cur[b]
    <3>1. CASE x # b
      BY <1>0, <1>2, <3>1
         DEF CheckActive, CreateRun, RefuseStart, SetupComplete, OpenStream, BeginRun,
             Conclude, CompletionFails, Fail, ThreadEnds, Publish, EndJob, Guard, StartJob,
             TypeOK
    <3>2. CASE x = b
      BY <1>0, <1>1, <1>2, <3>2
         DEF CheckActive, CreateRun, RefuseStart, SetupComplete, OpenStream, BeginRun,
             Conclude, CompletionFails, ThreadEnds, Publish, EndJob, Guard, StartJob,
             Serves, TypeOK, RunOK, RequestOK
    <3> QED
      BY <3>1, <3>2
  <2>3. x = b /\ EndJob(x) => life'[b] = "over"
    BY <1>0 DEF EndJob, TypeOK
  <2> QED
    BY <2>1, <2>2, <2>3
<1>3. ASSUME NEW a \in Requests,
             ActorStep(a) \/ CreateAdmin(a) \/ ApplyDns(a) \/ RequestTls(a)
      PROVE  ca'[b] = ca[b] /\ Settled(b)'
  <2>1. Moves(a)
    BY <1>3, ActorMoves
  <2>2. CASE a # b
    <3>1. cur'[b] = cur[b] /\ ca'[b] = ca[b] /\ life' = life /\ kind' = kind
      BY <1>0, <2>1, <2>2 DEF Moves, TypeOK
    <3> QED
      BY <3>1
  <2>3. CASE a = b
    <3>1. kind[a] = "start" /\ kind' = kind
      BY <2>1, <2>3, PlaceFacts DEF Moves
    <3>2. ~ LookAtVolume(a) /\ ~ WriteCa(a) /\ ~ WriteCert(a)
      BY <1>0, <2>3, <3>1 DEF LookAtVolume, WriteCa, WriteCert, At, IsJob, RunOK, StepOK
    <3>3. ca' = ca
      BY <1>3, <3>2 DEF ActorStep, StepFails, WriteFails, ServiceAction, CreateContainer,
                        WaitHealthy, ProvisionMail, SaveMailEndpoints, CreateAdmin,
                        ApplyDns, RequestTls
    <3> QED
      BY <3>1, <3>3, <2>3
  <2> QED
    BY <2>2, <2>3
<1>4. CASE ContainerChanges
  BY <1>4 DEF ContainerChanges
<1>5. ASSUME NEW p \in Procs, Crash(p) PROVE ca' = ca /\ Settled(b)'
  BY <1>0, <1>5 DEF Crash, TypeOK
<1> QED
  BY <1>2, <1>3, <1>4, <1>5 DEF Next, RunStep

\* Whoever saves the CA of its mail step has one, or none, and is settled then.
LEMMA SavedStep ==
    ASSUME IInv, Next
    PROVE  configCa' # NoOne => \E b \in Requests : ca'[b] = configCa' /\ Settled(b)'
<1>0. TypeOK /\ VolumeOK
  BY DEF IInv
<1>1. ASSUME configCa' # NoOne, configCa' = configCa
      PROVE  \E b \in Requests : ca'[b] = configCa' /\ Settled(b)'
  <2>1. PICK b \in Requests : ca[b] = configCa /\ Settled(b)
    BY <1>0, <1>1 DEF VolumeOK
  <2> QED
    BY <1>1, <2>1, SettledStays
<1> USE DEF volumeVars, configVars, requestVars
<1>2. ASSUME NEW a \in Requests, SaveMailEndpoints(a), configCa' # configCa
      PROVE  ca'[a] = configCa' /\ Settled(a)'
  <2>1. ca' = ca /\ configCa' = ca[a] /\ kind' = kind /\ cur[a] = "mail"
    BY <1>2 DEF SaveMailEndpoints, CaAtHand, At
  <2>2. IsRun(a) \/ (IsJob(a) /\ cur'[a] = "finish")
    <3>1. life[a] = "alive" /\ (IsRun(a) \/ IsJob(a)) /\ Advance(a)
      BY <1>2 DEF SaveMailEndpoints, CaAtHand, At, IInv, RunOK, ThreadOK
    <3> QED
      BY <1>0, <2>1, <3>1 DEF Advance, StepAfter, TypeOK
  <2> QED
    BY <2>1, <2>2 DEF Settled, IsRun
<1>3. ASSUME NEW r \in Requests, CreateAdmin(r), configCa' # NoOne
      PROVE  ca'[r] = configCa' /\ Settled(r)'
  BY <1>3 DEF CreateAdmin, Settled, IsRun
<1>4. ASSUME NEW a \in Requests,
             ActorStep(a) \/ ApplyDns(a) \/ RequestTls(a), ~ SaveMailEndpoints(a)
      PROVE  configCa' = configCa
  BY <1>4 DEF ActorStep, StepFails, LookAtVolume, WriteCa, WriteCert, WriteFails,
              ServiceAction, CreateContainer, WaitHealthy, ProvisionMail, ApplyDns,
              RequestTls
<1>5. ASSUME NEW x \in Requests,
             \/ CheckActive(x) \/ CreateRun(x) \/ RefuseStart(x) \/ SetupComplete(x)
             \/ OpenStream(x) \/ BeginRun(x) \/ Conclude(x) \/ CompletionFails(x)
             \/ ThreadEnds(x) \/ Publish(x) \/ EndJob(x)
             \/ \E p \in Procs : Guard(x, p) \/ StartJob(x, p)
      PROVE  configCa' = configCa
  BY <1>5 DEF CheckActive, CreateRun, RefuseStart, SetupComplete, OpenStream, BeginRun,
              Conclude, CompletionFails, ThreadEnds, Publish, EndJob, Guard, StartJob
<1>6. CASE ContainerChanges \/ \E p \in Procs : Crash(p)
  BY <1>1, <1>6 DEF ContainerChanges, Crash
<1> QED
  BY <1>1, <1>2, <1>3, <1>4, <1>5, <1>6 DEF Next, RunStep

\* Whoever writes a file has no CA of its own yet, and disturbs everybody who
\* has one or is writing, too.
LEMMA WriteStep ==
    ASSUME IInv, Next, NEW a \in Requests, WriteCa(a) \/ WriteCert(a) \/ WriteFails(a)
    PROVE  VolumeOK'
<1>0. /\ TypeOK /\ VolumeOK /\ ca[a] = NoOne
      /\ cur[a] \in {"pki", "mail"}
  BY DEF IInv, RunOK, StepOK, WriteCa, WriteCert, WriteFails
<1>1. \A b \in Requests \ {a} : ca'[b] = ca[b] /\ sub'[b] = sub[b]
  BY <1>0 DEF WriteCa, WriteCert, WriteFails, Have, Stop, Fail, Advance, TypeOK
<1>2. configCa' # NoOne => \E b \in Requests : ca'[b] = configCa' /\ Settled(b)'
  BY SavedStep
<1>3. ASSUME Disturb(a)
      PROVE  /\ \A b \in Requests \ {a} :
                    (ca[b] # NoOne \/ sub[b] \in {"writeCa", "writeCert"}) => b \in disturbed'
             /\ a \in disturbed' <=> a \in disturbed
  BY <1>3 DEF Disturb
<1>4. CASE WriteCa(a)
  <2>1. vol'["ca"] = a /\ ca'[a] = NoOne
    BY <1>0, <1>4 DEF WriteCa, TypeOK
  <2> QED
    BY <1>1, <1>2, <1>3, <1>4, <2>1 DEF VolumeOK, WriteCa
<1>5. CASE WriteCert(a)
  <2>1. /\ vol'["ca"] = vol["ca"] /\ vol'["cert"] = a /\ ca'[a] = a
        /\ sub'[a] # "writeCert" /\ sub[a] = "writeCert"
    BY <1>0, <1>5 DEF WriteCert, Have, Advance, TypeOK
  <2>2. a \notin disturbed => vol["ca"] = a
    BY <1>0, <2>1 DEF VolumeOK
  <2> QED
    BY <1>1, <1>2, <1>3, <1>5, <2>1, <2>2 DEF VolumeOK, WriteCert
<1>6. CASE WriteFails(a)
  <2>1. ca'[a] = NoOne /\ sub'[a] # "writeCert"
    BY <1>0, <1>6 DEF WriteFails, Stop, Fail, Advance, TypeOK
  <2>2. CASE Disturb(a)
    BY <1>1, <1>2, <1>3, <2>1, <2>2 DEF VolumeOK
  <2>3. CASE UNCHANGED <<vol, disturbed>>
    BY <1>0, <1>1, <1>2, <2>1, <2>3 DEF VolumeOK
  <2> QED
    BY <1>6, <2>2, <2>3 DEF WriteFails
<1> QED
  BY <1>4, <1>5, <1>6

LEMMA LookStep ==
    ASSUME IInv, Next, NEW a \in Requests, LookAtVolume(a)
    PROVE  VolumeOK'
<1>0. TypeOK /\ VolumeOK
  BY DEF IInv
<1>1. /\ vol' = vol
      /\ disturbed' = disturbed \ {a}
      /\ sub'[a] # "writeCert"
      /\ \A b \in Requests \ {a} : ca'[b] = ca[b] /\ sub'[b] = sub[b]
  BY <1>0 DEF LookAtVolume, Have, Advance, At, TypeOK
<1>2. ca'[a] # NoOne => (ca'[a] = vol["ca"] /\ ca'[a] = vol["cert"])
  BY <1>0 DEF LookAtVolume, ChainVerifies, TypeOK
<1> QED
  BY <1>0, <1>1, <1>2, SavedStep DEF VolumeOK

LEMMA VolumeStep ==
    ASSUME IInv, Next
    PROVE  VolumeOK'
<1>0. TypeOK /\ VolumeOK /\ (\A x \in Requests : RunOK(x))
  BY DEF IInv
\* The other actions leave the volume alone and start no write.
<1>1. ASSUME UNCHANGED volumeVars,
             \A a \in Requests : sub'[a] = "writeCert" => sub[a] = "writeCert"
      PROVE  VolumeOK'
  BY <1>0, <1>1, SavedStep DEF VolumeOK, volumeVars
<1>2. ASSUME NEW x \in Requests,
             \/ CheckActive(x) \/ CreateRun(x) \/ RefuseStart(x) \/ SetupComplete(x)
             \/ OpenStream(x) \/ BeginRun(x) \/ EndJob(x) \/ Publish(x) \/ ThreadEnds(x)
             \/ \E p \in Procs : Guard(x, p) \/ StartJob(x, p)
      PROVE  VolumeOK'
  BY <1>1, <1>2 DEF CheckActive, CreateRun, RefuseStart, SetupComplete, OpenStream,
                    BeginRun, EndJob, Publish, ThreadEnds, Guard, StartJob
<1>3. ASSUME NEW r \in Requests, Conclude(r) \/ CompletionFails(r) PROVE VolumeOK'
  BY <1>0, <1>1, <1>3 DEF Conclude, CompletionFails, Fail, TypeOK
<1>4. CASE ContainerChanges \/ \E p \in Procs : Crash(p)
  BY <1>0, <1>1, <1>4 DEF ContainerChanges, Crash, TypeOK
<1>5. ASSUME NEW a \in Requests,
             WriteCa(a) \/ WriteCert(a) \/ WriteFails(a) \/ LookAtVolume(a)
      PROVE  VolumeOK'
  BY <1>5, WriteStep, LookStep
<1>6. ASSUME NEW a \in Requests,
             \/ StepFails(a) \/ ServiceAction(a) \/ CreateContainer(a) \/ WaitHealthy(a)
             \/ ProvisionMail(a) \/ ApplyDns(a) \/ RequestTls(a)
             \/ SaveMailEndpoints(a) \/ CreateAdmin(a)
      PROVE  VolumeOK'
  <2>1. UNCHANGED volumeVars
    BY <1>6 DEF StepFails, ServiceAction, CreateContainer, WaitHealthy, ProvisionMail,
                ApplyDns, RequestTls, SaveMailEndpoints, CreateAdmin
  <2>2. \A b \in Requests : sub'[b] = "writeCert" => sub[b] = "writeCert"
    BY <1>0, <1>6
       DEF StepFails, Stop, ServiceAction, CreateContainer, WaitHealthy, ProvisionMail,
           CreateMailContainer, ApplyDns, RequestTls, SaveMailEndpoints, CreateAdmin,
           Advance, Fail, TypeOK
  <2> QED
    BY <1>1, <2>1, <2>2
<1> QED
  BY <1>2, <1>3, <1>4, <1>5, <1>6 DEF Next, RunStep, ActorStep

-----------------------------------------------------------------------------
(* The invariant and what it gives.                                         *)

LEMMA InitInvariant == Init => IInv
BY InitType, InitPlaces, InitHistory DEF IInv

LEMMA StepInvariant == ASSUME IInv, [Next]_vars PROVE IInv'
<1>1. CASE UNCHANGED vars
  BY <1>1 DEF IInv, vars, TypeOK, RunOK, RequestOK, ThreadOK, StepOK, HistoryOK,
              BootOK, Here, VolumeOK, Settled, IsRun, IsJob, requestVars, volumeVars, seenVars, configVars
<1>2. CASE Next
  <2>1. TypeOK'
    BY <1>2, MovesType, RequestType, EndType, WorldType DEF Next, RunStep
  <2>2. ASSUME NEW x \in Requests PROVE RunOK(x)'
    BY <1>2, ActorMoves, MovesPlaces, RequestPlaces, EndPlaces, WorldPlaces
       DEF Next, RunStep
  <2>3. HistoryOK' /\ BootOK' /\ VolumeOK'
    BY <1>2, HistoryStep, BootStep, VolumeStep
  <2> QED
    BY <2>1, <2>2, <2>3 DEF IInv
<1> QED
  BY <1>1, <1>2

\* The inductive invariant holds in every reachable state.
THEOREM Invariance == Spec => []IInv
BY InitInvariant, StepInvariant, PTL DEF Spec

\* Every variable keeps its type.
THEOREM TypeCorrect == Spec => []TypeOK
<1>1. IInv => TypeOK
  BY DEF IInv
<1> QED
  BY <1>1, Invariance, PTL

\* start_install and setup_complete let no late comer in: two installations
\* are under way, or two have finished, only when neither was there at the
\* other's check.
THEOREM LateTheorem == Spec => []LateComersAreRefused
<1>1. IInv => LateComersAreRefused
  <2> SUFFICES ASSUME IInv PROVE LateComersAreRefused
    OBVIOUS
  <2>1. HistoryOK
    BY DEF IInv
  <2>2. ASSUME NEW r \in Requests, NEW q \in Requests, Active(q) PROVE q \notin seenRuns[r]
    BY <2>1, <2>2 DEF HistoryOK, Active
  <2> QED
    BY <2>1, <2>2 DEF LateComersAreRefused, HistoryOK
<1> QED
  BY <1>1, Invariance, PTL

\* run_installation reports "completed" only of a run whose administrator step
\* has marked the system as installed.
THEOREM CompletedTheorem == Spec => []CompletedMeansInstalled
<1>1. IInv => CompletedMeansInstalled
  BY DEF IInv, RunOK, StepOK, HistoryOK, CompletedMeansInstalled
<1> QED
  BY <1>1, Invariance, PTL

\* An actor works with the CA and the certificate of the TLS volume, and the
\* panel has saved that CA, unless somebody else wrote the volume meanwhile.
THEOREM CaTheorem == Spec => []TrustedCaIsServed
<1>1. IInv => TrustedCaIsServed
  <2> SUFFICES ASSUME IInv PROVE TrustedCaIsServed
    OBVIOUS
  <2>1. VolumeOK
    BY DEF IInv
  <2>2. ASSUME disturbed = {} PROVE configCa \in {NoOne, vol["ca"]}
    <3>1. CASE configCa # NoOne
      <4>1. PICK b \in Requests : ca[b] = configCa
        BY <2>1, <3>1 DEF VolumeOK
      <4> QED
        BY <2>1, <2>2, <3>1, <4>1 DEF VolumeOK
    <3> QED
      BY <3>1
  <2> QED
    BY <2>1, <2>2 DEF TrustedCaIsServed, VolumeOK
<1> QED
  BY <1>1, Invariance, PTL

\* A process says that a bootstrap runs exactly while one job of
\* start_bootstrap_async lives in it, and it never has two.
THEOREM BootTheorem == Spec => []BootStateTellsTheJob
<1>1. IInv => BootStateTellsTheJob
  <2> SUFFICES ASSUME IInv, NEW p \in Procs
               PROVE  /\ Cardinality(Here(p)) <= 1
                      /\ boot[p] = "running" <=> Here(p) # {}
    BY DEF BootStateTellsTheJob, Here
  <2>1. /\ \A j, k \in Here(p) : j = k
        /\ boot[p] = "running" <=> Here(p) # {}
    BY DEF IInv, BootOK
  <2>2. Here(p) = {} \/ \E j : Here(p) = {j}
    BY <2>1
  <2>3. CASE Here(p) = {}
    BY <2>1, <2>3, FS_EmptySet
  <2>4. ASSUME NEW j, Here(p) = {j} PROVE Cardinality(Here(p)) <= 1
    <3>1. Cardinality(Here(p)) = 1
      BY <2>4, FS_Singleton, Zenon
    <3> QED
      BY <3>1
  <2> QED
    BY <2>1, <2>2, <2>3, <2>4
<1> QED
  BY <1>1, Invariance, PTL
=============================================================================
