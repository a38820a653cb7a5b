---------------------------- MODULE InstallerRun ----------------------------
(***************************************************************************)
(* The installation wizard.  A start request creates an InstallationRun     *)
(* and a daemon thread that walks through the steps of the orchestrator;    *)
(* before it, or beside it, bootstrap jobs of the wizard build the same     *)
(* containers and the same TLS volume, and the older setup request marks    *)
(* the system as installed in one go.  Several web processes serve these    *)
(* requests, the state of a bootstrap job lives in one of them, and a       *)
(* process that dies takes its threads with it.  One container stands for   *)
(* the services of the stack: every service repeats the same three steps.   *)
(***************************************************************************)
EXTENDS Naturals, FiniteSets

CONSTANTS Requests,     \* requests of the wizard
          Procs,        \* web processes
          NoOne,        \* no process, no author of a certificate
          MaxFaults     \* bound: dying processes, failing saves and events, changing containers

ASSUME InstallerAssumption ==
    /\ Requests \subseteq Nat /\ Procs \subseteq Nat
    /\ NoOne \notin Requests \union Procs
    /\ MaxFaults \in Nat

VARIABLES
    status,     \* InstallationRun.status of a request that became a run
    kind,       \* what a request asks for
    request,    \* where its handler stands
    proc,       \* the process that serves it
    life,       \* the thread of a run or job
    cur,        \* the step it is at
    sub,        \* how far it is within that step
    boot,       \* _state["status"] of each process
    vol,        \* authors of the CA and of the certificate in the TLS volume
    ca,         \* the author of the CA each of them works with
    container,  \* the container of the stack
    installed,  \* SystemConfig.is_installed
    configCa,   \* the CA saved in SystemConfig.installation_log
    stream,     \* a reader of each run's event stream: "lost" waits in vain
    seenRuns,   \* history: the runs that existed when a run passed its check
    seenDone,   \* history: the installers that had finished when one passed the guard
    disturbed,  \* history: someone else wrote the volume since one looked
    done,       \* history: installers that marked the system as installed
    faults      \* faults so far

vars == <<status, kind, request, proc, life, cur, sub, boot, vol, ca, container,
          installed, configCa, stream, seenRuns, seenDone, disturbed, done, faults>>

volumeVars  == <<vol, ca, disturbed>>
seenVars    == <<seenRuns, seenDone>>
requestVars == <<kind, request, proc, boot, seenVars>>
configVars  == <<installed, configCa, done>>

(***************************************************************************)
(* The order of the steps that matter here.  The network and the volumes    *)
(* belong to the begin of a Docker run, the images to "service", the        *)
(* migrations to "admin".  A Docker run goes on with "pki", a platform run  *)
(* begins with "mail"; a job stops there.                                   *)
(***************************************************************************)
Follows == [pki |-> "service", service |-> "health", health |-> "mail",
            mail |-> "admin", admin |-> "dns", dns |-> "tls", tls |-> "finish"]
StepName == DOMAIN Follows

\* Requests are told apart by what they ask for, so their kinds may be ordered.
Rank == [start |-> 1, setup |-> 2, bootstrap |-> 3]

IsRun(x)  == kind[x] = "start"
IsJob(x)  == kind[x] = "bootstrap"
Active(r) == status[r] \in {"pending", "running"}

\* Its process has nothing more to do for x.
Leave(x) == proc' = [proc EXCEPT ![x] = NoOne]

TypeOK ==
    /\ status \in [Requests -> {"none", "pending", "running", "completed", "failed"}]
    /\ kind \in [Requests -> DOMAIN Rank]
    /\ request \in [Requests -> {"new", "guarded", "checked", "done"}]
    /\ proc \in [Requests -> Procs \union {NoOne}]
    /\ life \in [Requests -> {"idle", "alive", "dead", "over"}]
    /\ cur \in [Requests -> StepName \union {"none", "finish", "failed"}]
    /\ sub \in [Requests -> {"go", "writeCa", "writeCert", "have", "create", "save",
                              "publish"}]
    /\ boot \in [Procs -> {"idle", "running", "done", "error"}]
    /\ vol \in [{"ca", "cert"} -> Requests \union {NoOne}]
    /\ ca \in [Requests -> Requests \union {NoOne}]
    /\ container \in {"absent", "starting", "up", "bad"}
    /\ installed \in BOOLEAN
    /\ configCa \in Requests \union {NoOne}
    /\ stream \in [Requests -> {"none", "open", "lost", "ended"}]
    /\ seenRuns \in [Requests -> SUBSET Requests]
    /\ seenDone \in [Requests -> SUBSET Requests]
    /\ disturbed \subseteq Requests
    /\ done \subseteq Requests
    /\ faults \in 0..MaxFaults

Init ==
    /\ status = [x \in Requests |-> "none"]
    /\ kind \in [Requests -> DOMAIN Rank]
    /\ \A x, y \in Requests : x < y => Rank[kind[x]] <= Rank[kind[y]]
    /\ request = [x \in Requests |-> "new"]
    /\ proc = [x \in Requests |-> NoOne]
    /\ life = [x \in Requests |-> "idle"]
    /\ cur = [a \in Requests |-> "none"]
    /\ sub = [a \in Requests |-> "go"]
    /\ boot = [p \in Procs |-> "idle"]
    /\ vol = [f \in {"ca", "cert"} |-> NoOne]
    /\ ca = [a \in Requests |-> NoOne]
    /\ container \in {"absent", "up"}
    /\ installed = FALSE
    /\ configCa = NoOne
    /\ stream = [r \in Requests |-> "none"]
    /\ seenRuns = [r \in Requests |-> {}]
    /\ seenDone = [x \in Requests |-> {}]
    /\ disturbed = {}
    /\ done = {}
    /\ faults = 0

-----------------------------------------------------------------------------
(***************************************************************************)
(* Requests.                                                                *)
(***************************************************************************)

\* Processes are alike, so they are numbered by the requests they serve.
Serves(p, x) == request[x] = "new" /\ p <= x

\* system_is_installed() at the top of the start and the setup handler.
Guard(x, p) ==
    /\ Serves(p, x) /\ kind[x] \in {"start", "setup"}
    /\ ~installed
    /\ request' = [request EXCEPT ![x] = "guarded"]
    /\ proc' = [proc EXCEPT ![x] = p]
    /\ seenDone' = [seenDone EXCEPT ![x] = done]
    /\ UNCHANGED <<kind, seenRuns, status, life, cur, sub, boot, volumeVars, container,
                   configVars, stream, faults>>

\* Variant: a run that has not begun is overlooked.
RunningOnly == \E q \in Requests : status[q] = "running"
RunInTheWay == \E q \in Requests : status[q] \in {"pending", "running"}

\* The start handler looks for a pending or running run; if there is one it
\* answers with it (or fails, when that run ends before it is read).
CheckActive(r) ==
    /\ request[r] = "guarded" /\ IsRun(r)
    /\ IF RunInTheWay
       THEN /\ request' = [request EXCEPT ![r] = "done"]
            /\ Leave(r)
            /\ UNCHANGED seenRuns
       ELSE /\ request' = [request EXCEPT ![r] = "checked"]
            /\ seenRuns' = [seenRuns EXCEPT ![r] = {q \in Requests : status[q] # "none"}]
            /\ UNCHANGED proc
    /\ UNCHANGED <<seenDone, status, kind, life, cur, sub, boot, volumeVars, container,
                   configVars, stream, faults>>

\* The profile, the policy or the database of the request may be refused;
\* otherwise the run is created and its thread started.
CreateRun(r) ==
    /\ request[r] = "checked"
    /\ request' = [request EXCEPT ![r] = "done"]
    /\ status' = [status EXCEPT ![r] = "pending"]
    /\ life' = [life EXCEPT ![r] = "alive"]
    /\ UNCHANGED <<kind, proc, cur, sub, boot, volumeVars, container,
                   configVars, stream, seenVars, faults>>

RefuseStart(r) ==
    /\ request[r] = "checked"
    /\ request' = [request EXCEPT ![r] = "done"]
    /\ Leave(r)
    /\ UNCHANGED <<status, kind, life, cur, sub, boot, volumeVars, container,
                   configVars, stream, seenVars, faults>>

\* _resolve_profile_and_client: a Docker stack, a platform, or no way to go on.
FirstSteps == {"pki", "mail", "failed"}

\* The network and the volumes of a Docker run are found or created; an error
\* ends the run.
Prepared(first) == IF first = "pki" THEN {"pki", "failed"} ELSE {first}

\* run_installation loads the run, marks it and resolves the profile.
BeginRun(r) ==
    /\ IsRun(r) /\ life[r] = "alive" /\ cur[r] = "none"
    /\ status' = [status EXCEPT ![r] = "running"]
    /\ \E profile \in FirstSteps : \E first \in Prepared(profile) :
          cur' = [cur EXCEPT ![r] = first]
    /\ UNCHANGED <<requestVars, life, sub, volumeVars, container, configVars,
                   stream, faults>>

\* The older setup request: migrations, administrator and SystemConfig.
SetupComplete(x) ==
    /\ request[x] = "guarded" /\ kind[x] = "setup"
    /\ request' = [request EXCEPT ![x] = "done"]
    /\ \/ /\ installed' = TRUE
          /\ done' = done \union {x}
       \/ UNCHANGED <<installed, done>>
    /\ Leave(x)
    /\ UNCHANGED <<status, kind, life, cur, sub, boot, volumeVars, container,
                   configCa, stream, seenVars, faults>>

\* Variant: a second job is started beside the first.
BootAlways(p) == TRUE
BootFree(p)   == boot[p] # "running"

\* start_bootstrap_async, under the lock of its process.
StartJob(j, p) ==
    /\ Serves(p, j) /\ IsJob(j)
    /\ BootFree(p)
    /\ boot' = [boot EXCEPT ![p] = "running"]
    /\ request' = [request EXCEPT ![j] = "done"]
    /\ proc' = [proc EXCEPT ![j] = p]
    /\ life' = [life EXCEPT ![j] = "alive"]
    /\ cur' = [cur EXCEPT ![j] = "pki"]
    /\ UNCHANGED <<status, kind, sub, volumeVars, container, configVars, stream, seenVars,
                   faults>>

-----------------------------------------------------------------------------
(***************************************************************************)
(* The steps.  Advance and Fail are the two ends of a step for its actor.   *)
(***************************************************************************)
StepAfter(a) == IF IsJob(a) /\ cur[a] = "mail" THEN "finish" ELSE Follows[cur[a]]

Advance(a) ==
    /\ cur' = [cur EXCEPT ![a] = StepAfter(a)]
    /\ sub' = [sub EXCEPT ![a] = "go"]

Fail(a) == /\ cur' = [cur EXCEPT ![a] = "failed"]
           /\ sub' = [sub EXCEPT ![a] = "go"]

At(a, s, k) == life[a] = "alive" /\ cur[a] = s /\ sub[a] = k

\* An error ends the actor.  The mail, DNS and certificate steps, and in a job the
\* wait, catch their own and go on, unless the record of the error fails, too.
Tolerated(a) == cur[a] \in {"mail", "dns", "tls"} \/ (IsJob(a) /\ cur[a] = "health")

Stop(a) == Fail(a) \/ (Tolerated(a) /\ Advance(a))

\* With the CA at hand the step of its own is over, and the mail step goes on.
Have(a) == IF cur[a] = "pki" THEN Advance(a)
           ELSE sub' = [sub EXCEPT ![a] = "have"] /\ UNCHANGED cur

\* Variant: a CA in the volume is enough.
CaThere       == vol["ca"] # NoOne
ChainVerifies == vol["ca"] # NoOne /\ vol["ca"] = vol["cert"]

\* ensure_mail_pki_volume: use what the volume holds if its chain verifies.
\* A Docker run looks once, in a step of its own, and hands the CA on to its mail
\* step.  A platform run has only the mail step to look.  A job looks in both: it
\* drops the CA of its first look with the copy of the settings it was kept in.
LookAtVolume(a) ==
    /\ \/ At(a, "pki", "go")
       \/ At(a, "mail", "go") /\ (IsJob(a) \/ ca[a] = NoOne)
    /\ disturbed' = disturbed \ {a}
    /\ IF ChainVerifies
       THEN /\ ca' = [ca EXCEPT ![a] = vol["ca"]]
            /\ Have(a)
       ELSE /\ ca' = [ca EXCEPT ![a] = NoOne]
            /\ sub' = [sub EXCEPT ![a] = "writeCa"]
            /\ UNCHANGED cur
    /\ UNCHANGED <<status, requestVars, life, vol, container, configVars, stream,
                   faults>>

\* Writing changes what others have looked at, or are writing.
Disturb(a) == disturbed' = disturbed \union {b \in Requests \ {a} :
                              ca[b] # NoOne \/ sub[b] \in {"writeCa", "writeCert"}}

WriteCa(a) ==
    /\ life[a] = "alive" /\ sub[a] = "writeCa"
    /\ vol' = [vol EXCEPT !["ca"] = a]
    /\ Disturb(a)
    /\ sub' = [sub EXCEPT ![a] = "writeCert"]
    /\ UNCHANGED <<status, requestVars, life, cur, ca, container, configVars,
                   stream, faults>>

WriteCert(a) ==
    /\ life[a] = "alive" /\ sub[a] = "writeCert"
    /\ vol' = [vol EXCEPT !["cert"] = a]
    /\ Disturb(a)
    /\ ca' = [ca EXCEPT ![a] = a]
    /\ Have(a)
    /\ UNCHANGED <<status, requestVars, life, container, configVars, stream,
                   faults>>

\* A write that fails, before it touches the file it is to replace or once it has
\* emptied it, ends the look like any failing step.
WriteFails(a) ==
    /\ life[a] = "alive" /\ sub[a] \in {"writeCa", "writeCert"}
    /\ \/ /\ vol' = [vol EXCEPT ![IF sub[a] = "writeCa" THEN "ca" ELSE "cert"] = NoOne]
          /\ Disturb(a)
       \/ UNCHANGED <<vol, disturbed>>
    /\ Stop(a)
    /\ UNCHANGED <<status, requestVars, life, ca, container, configVars, stream,
                   faults>>

-----------------------------------------------------------------------------
\* What the image, the ports and the configuration of a container may say of
\* it: one that is stale is replaced, and so is any by the policy force_recreate.
Verdicts == [absent |-> {"replace"}, starting |-> {"keep", "replace"},
             up |-> {"keep", "replace"}, bad |-> {"start", "replace"}]

\* _stack_service_action: keep, start or remove what is there.
ServiceAction(a) ==
    /\ At(a, "service", "go")
    /\ \E verdict \in Verdicts[container] :
          \/ /\ verdict = "keep"
             /\ Advance(a)
             /\ UNCHANGED container
          \/ /\ verdict = "start"
             /\ container' = "starting"
             /\ Advance(a)
          \/ /\ verdict = "replace"
             /\ container' = "absent"
             /\ sub' = [sub EXCEPT ![a] = "create"]
             /\ UNCHANGED cur
    /\ UNCHANGED <<status, requestVars, life, volumeVars, configVars, stream, faults>>

CreateContainer(a) ==
    /\ At(a, "service", "create")
    /\ container = "absent"
    /\ container' = "starting"
    /\ Advance(a)
    /\ UNCHANGED <<status, requestVars, life, volumeVars, configVars, stream, faults>>

\* _wait_for_healthy.
WaitHealthy(a) ==
    /\ At(a, "health", "go")
    /\ container = "up"
    /\ Advance(a)
    /\ UNCHANGED <<status, requestVars, life, volumeVars, container, configVars,
                   stream, faults>>

NeedsProvision == container # "up"      \* stopped, unhealthy, still starting or missing
Reachable      == container = "up"      \* the mail ports answer

CreateMailContainer(a) ==
    /\ container = "absent"
    /\ container' = "starting"
    /\ sub' = [sub EXCEPT ![a] = "save"]

\* In the mail step: the CA was handed on, or has just been looked at.
CaAtHand(a) == \/ At(a, "mail", "have")
               \/ At(a, "mail", "go") /\ IsRun(a) /\ ca[a] # NoOne

\* auto_setup_mail_services replaces a mail container that is not healthy
\* (a job has just built the stack and skips this), verifies the endpoints and
\* saves the result.
ProvisionMail(a) ==
    /\ IsRun(a)
    /\ \/ /\ CaAtHand(a)
          /\ NeedsProvision
          /\ container' = "absent"
          /\ sub' = [sub EXCEPT ![a] = "create"]
       \/ /\ At(a, "mail", "create")
          /\ CreateMailContainer(a)
    /\ UNCHANGED <<status, requestVars, life, cur, volumeVars, configVars,
                   stream, faults>>

\* A run saves its endpoints whatever the verification says, a job only when
\* it succeeds; both only into a SystemConfig row that exists.
SaveMailEndpoints(a) ==
    /\ \/ CaAtHand(a) /\ (IsJob(a) \/ ~NeedsProvision)
       \/ At(a, "mail", "save")
    /\ configCa' = IF installed THEN ca[a] ELSE configCa
    /\ Reachable \/ IsRun(a)
    /\ Advance(a)
    /\ UNCHANGED <<status, requestVars, life, volumeVars, container, installed, done,
                   stream, faults>>

\* Any other step may fail: Docker, the disk, a name taken in between, a deadline, the
\* database.
StepFails(a) ==
    /\ life[a] = "alive" /\ cur[a] \in StepName /\ sub[a] \notin {"writeCa", "writeCert"}
    /\ Stop(a)
    /\ UNCHANGED <<status, requestVars, life, volumeVars, container, configVars,
                   stream, faults>>

\* _create_admin_account: the account and the whole SystemConfig row.
CreateAdmin(r) ==
    /\ IsRun(r) /\ At(r, "admin", "go")
    /\ Advance(r)
    /\ installed' = TRUE
    /\ configCa' \in {ca[r], NoOne}       \* the mail step may have no endpoints
    /\ done' = done \union {r}
    /\ UNCHANGED <<status, requestVars, life, volumeVars, container, stream,
                   faults>>

\* The DNS records and the certificate: the step is marked, and the run goes on
\* whether they could be had or not.
ApplyDns(r) ==
    /\ IsRun(r) /\ At(r, "dns", "go")
    /\ Advance(r)
    /\ UNCHANGED <<status, requestVars, life, volumeVars, container, configVars,
                   stream, faults>>

RequestTls(r) ==
    /\ IsRun(r) /\ At(r, "tls", "go")
    /\ Advance(r)
    /\ UNCHANGED <<status, requestVars, life, volumeVars, container, configVars,
                   stream, faults>>

-----------------------------------------------------------------------------
\* Variant: the words of a step's record are used for the run.
StepWords(r)   == IF cur[r] = "finish" THEN "success" ELSE "failed"
FinalStatus(r) == IF cur[r] = "finish" THEN "completed" ELSE "failed"

\* The end of run_installation: save the status, then publish the last event.
Conclude(r) ==
    /\ IsRun(r) /\ life[r] = "alive" /\ cur[r] \in {"finish", "failed"} /\ sub[r] = "go"
    /\ status' = [status EXCEPT ![r] = FinalStatus(r)]
    /\ sub' = [sub EXCEPT ![r] = "publish"]
    /\ UNCHANGED <<requestVars, life, cur, volumeVars, container, configVars,
                   stream, faults>>

\* The save of "completed" raises: the handler of errors takes over.
CompletionFails(r) ==
    /\ IsRun(r) /\ At(r, "finish", "go")
    /\ faults < MaxFaults /\ faults' = faults + 1
    /\ Fail(r)
    /\ UNCHANGED <<status, requestVars, life, volumeVars, container, configVars,
                   stream>>

\* The save of "running", before there is a handler, or that of "failed", within
\* it, raises: the thread ends there, and the run keeps the status it has.
ThreadEnds(r) ==
    /\ IsRun(r)
    /\ At(r, "none", "go") \/ At(r, "failed", "go")
    /\ faults < MaxFaults /\ faults' = faults + 1
    /\ life' = [life EXCEPT ![r] = "dead"]
    /\ cur' = [cur EXCEPT ![r] = "none"]
    /\ Leave(r)
    /\ UNCHANGED <<status, kind, request, boot, seenVars, sub, volumeVars, container,
                   configVars, stream>>

\* Variant: a run that failed says nothing.
LastOfSuccess(r, how) ==
    [stream EXCEPT ![r] = IF @ = "open" /\ cur[r] = "finish" THEN how ELSE @]
LastEvent(r, how) == [stream EXCEPT ![r] = IF @ = "open" THEN how ELSE @]

\* publish_event swallows every error: the reader then waits for nothing.
Publish(r) ==
    /\ IsRun(r) /\ life[r] = "alive" /\ sub[r] = "publish"
    /\ \/ /\ stream' = LastEvent(r, "ended")
          /\ UNCHANGED faults
       \/ /\ stream' = LastEvent(r, "lost")
          /\ faults < MaxFaults /\ faults' = faults + 1
    /\ life' = [life EXCEPT ![r] = "over"]
    /\ Leave(r)
    /\ UNCHANGED <<status, kind, request, boot, seenVars, cur, sub, volumeVars, container,
                   configVars>>

\* The worker stores the result; only an exception outside the bootstrap is an error.
EndJob(j) ==
    /\ IsJob(j) /\ life[j] = "alive" /\ cur[j] \in {"finish", "failed"}
    /\ life' = [life EXCEPT ![j] = "over"]
    /\ \E s \in {"done", "error"} : boot' = [boot EXCEPT ![proc[j]] = s]
    /\ Leave(j)
    /\ UNCHANGED <<status, kind, request, seenVars, cur, sub, volumeVars, container,
                   configVars, stream, faults>>

\* event_stream: a reader hears what is published after it subscribed.
OpenStream(r) ==
    /\ stream[r] = "none" /\ status[r] # "none"
    /\ \A q \in Requests : q < r => ~IsRun(q)      \* bound: one reader, and runs are alike
    /\ stream' = [stream EXCEPT ![r] = "open"]
    /\ UNCHANGED <<status, requestVars, life, cur, sub, volumeVars, container,
                   configVars, faults>>

-----------------------------------------------------------------------------
\* Docker: a container becomes healthy or not; a running one may stop.
ContainerChanges ==
    /\ \/ /\ container = "starting"
          /\ container' \in {"up", "bad"}
          /\ UNCHANGED faults
       \/ /\ container = "up" /\ faults < MaxFaults
          /\ container' = "bad"
          /\ faults' = faults + 1
    /\ UNCHANGED <<status, requestVars, life, cur, sub, volumeVars, configVars,
                   stream>>

\* A web process dies with its requests, its threads and its bootstrap state.
Crash(p) ==
    LET mine == {x \in Requests : proc[x] = p}
        Lost(f, value) == [x \in Requests |-> IF x \in mine THEN value ELSE f[x]]
    IN  /\ faults < MaxFaults /\ mine # {}
        /\ faults' = faults + 1
        /\ life' = [x \in Requests |-> IF x \in mine /\ life[x] = "alive" THEN "dead" ELSE life[x]]
        /\ request' = Lost(request, "done")
        /\ proc' = Lost(proc, NoOne)
        /\ cur' = Lost(cur, "none")
        /\ sub' = Lost(sub, "go")
        /\ boot' = [boot EXCEPT ![p] = "idle"]
        /\ UNCHANGED <<status, kind, seenVars, volumeVars, container, configVars, stream>>

ActorStep(a) ==
    \/ StepFails(a)
    \/ LookAtVolume(a) \/ WriteCa(a) \/ WriteCert(a) \/ WriteFails(a)
    \/ ServiceAction(a) \/ CreateContainer(a) \/ WaitHealthy(a)
    \/ ProvisionMail(a) \/ SaveMailEndpoints(a)

RunStep(r) == \/ BeginRun(r) \/ CreateAdmin(r) \/ ApplyDns(r) \/ RequestTls(r)
              \/ Conclude(r) \/ CompletionFails(r) \/ ThreadEnds(r) \/ Publish(r)

Next ==
    \/ \E x \in Requests, p \in Procs : Guard(x, p)
    \/ \E r \in Requests : CheckActive(r) \/ CreateRun(r) \/ RefuseStart(r)
    \/ \E r \in Requests : OpenStream(r)
    \/ \E x \in Requests : SetupComplete(x)
    \/ \E j \in Requests, p \in Procs : StartJob(j, p)
    \/ \E a \in Requests : ActorStep(a)
    \/ \E r \in Requests : RunStep(r)
    \/ \E j \in Requests : EndJob(j)
    \/ ContainerChanges
    \/ \E p \in Procs : Crash(p)

Spec == Init /\ [][Next]_vars

\* A thread that lives goes on: every wait of a step has a deadline.
FairSpec == Spec /\ \A r \in Requests : WF_vars(ActorStep(r) \/ RunStep(r))

-----------------------------------------------------------------------------
(***************************************************************************)
(* Properties.                                                              *)
(***************************************************************************)

\* Two installations are under way at once, or two requests have marked the
\* system as installed, only if each of them passed its check before the other
\* one came to exist or finished: the checks of start_install and
\* setup_complete let no late comer in, but two at once pass.
LateComersAreRefused ==
    /\ \A r, q \in Requests : r # q /\ Active(r) /\ Active(q) => q \notin seenRuns[r]
    /\ \A x, y \in Requests : x # y /\ x \in done /\ y \in done => y \notin seenDone[x]

\* A run that reports "completed" has finished every step whose failure must
\* end it, and has marked the system as installed.
CompletedMeansInstalled ==
    \A r \in Requests : status[r] = "completed" =>
        /\ r \in done /\ installed

\* The CA an actor works with, and the one saved for the panel, is the one in
\* the volume, and the certificate there is signed by it, unless another
\* actor wrote the volume after this one had looked at it.
TrustedCaIsServed ==
    /\ \A a \in Requests :
          (ca[a] # NoOne /\ a \notin disturbed) => ca[a] = vol["ca"] /\ ca[a] = vol["cert"]
    /\ disturbed = {} => configCa \in {NoOne, vol["ca"]}

\* A process reports a running bootstrap exactly while one job of
\* start_bootstrap_async lives in it, and never two of them live in one process.
BootStateTellsTheJob ==
    \A p \in Procs :
        LET here == {j \in Requests : kind[j] = "bootstrap" /\ proc[j] = p /\ life[j] = "alive"}
        IN  /\ Cardinality(here) <= 1
            /\ boot[p] = "running" <=> here # {}

\* A reader who opens the stream of a run before its last event, and stays, is told
\* how it ended, whatever failed; unless its process dies, the status cannot be
\* saved, or the last event cannot be published, which nobody notices.
EarlyReaderIsAnswered ==
    (\E r \in Requests : stream[r] = "open" /\ life[r] # "over")
    ~> (\A r \in Requests : stream[r] = "open" => life[r] = "dead")
=============================================================================
