----------------------------- MODULE StackHealth -----------------------------
(***************************************************************************)
(* The repairs of the mail stack.  A CA and a server certificate lie in a   *)
(* volume that the panel, Postfix and Dovecot share; the daemons keep the   *)
(* certificate they read when they started or were told to reload.  A       *)
(* repair probes, writes both files anew, reloads the daemons and starts    *)
(* what does not run, while other repairs, a sending task that meets a TLS  *)
(* error, a restart of the stack and the factory reset do their parts.      *)
(***************************************************************************)
EXTENDS PanelJobs

CONSTANT Nobody     \* the author of an empty file

ASSUME NobodyAssumption == Nobody \notin Ids

VARIABLES
    vol,        \* the authors of the CA and of the certificate in the volume
    mem,        \* the certificate each daemon serves
    up,         \* the containers of the daemons
    maps,       \* the lookup tables of Postfix are well formed
    torn,       \* history: two jobs wrote the volume at once, or one stopped half way
    unloaded    \* history: daemons that were not told of a certificate

stackVars == <<vol, mem, up, maps, torn, unloaded>>

Daemons == {"postfix", "dovecot"}
Repairs == {"autoHeal", "fullRepair", "wizardHeal"}

StackTypeOK ==
    /\ vol \in [{"ca", "cert"} -> Ids \union {Nobody}]
    /\ mem \in [Daemons -> Ids \union {Nobody}]
    /\ up \in [Daemons -> {"up", "down", "stopped", "gone"}]
    /\ maps \in BOOLEAN /\ torn \in BOOLEAN
    /\ unloaded \subseteq Daemons

\* The volume has a new CA and the daemons may not have read its certificate.
InFlight(r) == pc[r] \in {"cert", "certOnly", "postfix", "dovecot"}

\* A daemon that starts or reloads reads the certificate; those that do not run
\* read it when they start.
ReadBy(ds) ==
    /\ mem' = [d \in Daemons |-> IF d \in ds THEN vol["cert"] ELSE mem[d]]
    /\ unloaded' = unloaded \ ds

\* What a client finds that trusts the CA of the volume, or a copy of an earlier one
\* while the file there is empty.
Serves(d) == up[d] = "up" /\ mem[d] # Nobody /\ vol["ca"] \in {mem[d], Nobody}

\* The file a job is about to write.  It is emptied first: a job that ends before it
\* has written may leave it so.
Writing(r) == CASE pc[r] \in {"ca", "caOnly"}     -> {"ca"}
                [] pc[r] \in {"cert", "certOnly"} -> {"cert"}
                [] OTHER                          -> {}
CutOff(jobs) ==
    \E emptied \in SUBSET UNION {Writing(q) : q \in jobs} :
        /\ vol' = [f \in {"ca", "cert"} |-> IF f \in emptied THEN Nobody ELSE vol[f]]
        /\ torn' = (torn \/ emptied # {} \/ \E q \in jobs : InFlight(q))

-----------------------------------------------------------------------------
(***************************************************************************)
(* heal_mail_tls_pki, and ensure_mail_pki_files of init_mail_tls.           *)
(***************************************************************************)

\* Each operation's first step.  send_mail heals after a TLS error; stack_verify by
\* itself is a full repair whose first step finds nothing to do.
StartHeal(r) ==
    /\ pc[r] = "start"
    /\ op[r].kind \in Repairs \union {"sendHeal"}
    /\ Goto(r, CASE op[r].kind = "sendHeal" -> "ca"
                 [] op[r].kind = "wizardHeal" -> "files"
                 [] OTHER -> "routing")
    /\ UNCHANGED stackVars

\* Without force, files whose chain verifies are left alone.
LookAtFiles(r) ==
    /\ pc[r] = "files"
    /\ Goto(r, IF vol["ca"] = vol["cert"] /\ vol["ca"] # Nobody THEN "ensure" ELSE "caOnly")
    /\ UNCHANGED stackVars

WriteCa(r) ==
    /\ pc[r] \in {"ca", "caOnly"}
    /\ vol' = [vol EXCEPT !["ca"] = r]
    /\ torn' = \E q \in Others(r) : InFlight(q)
    /\ Goto(r, IF pc[r] = "ca" THEN "cert" ELSE "certOnly")
    /\ UNCHANGED <<mem, up, maps, unloaded>>

\* The certificate, its key, and the panel's choice of the CA file.
\* Variant: Dovecot is not told.
PostfixOnly(r) == [cert |-> "postfix", postfix |-> IF op[r].kind = "sendHeal" THEN "end" ELSE "again"]
ReloadOrder(r) == [cert |-> "postfix", postfix |-> "dovecot",
                   dovecot |-> IF op[r].kind = "sendHeal" THEN "end" ELSE "again"]

WriteCert(r) ==
    /\ pc[r] \in {"cert", "certOnly"}
    /\ vol' = [vol EXCEPT !["cert"] = r]
    /\ unloaded' = IF pc[r] = "cert" THEN unloaded ELSE Daemons
    /\ Goto(r, IF pc[r] = "cert" THEN ReloadOrder(r)["cert"] ELSE "ensure")
    /\ UNCHANGED <<mem, up, maps, torn>>

\* A full disk, or a volume that is read-only.
WriteFails(r) ==
    /\ pc[r] \in {"ca", "caOnly", "cert", "certOnly"}
    /\ CutOff({r})
    /\ Goto(r, CASE op[r].kind = "sendHeal" -> "end"
                 [] pc[r] \in {"caOnly", "certOnly"} -> "ensure"
                 [] OTHER -> "again")
    /\ UNCHANGED <<mem, up, maps, unloaded>>

\* `postfix reload`, `doveadm reload`, or a restart if that fails; without the
\* Docker socket, or if the restart fails as well, nobody is told.
Reload(r) ==
    /\ pc[r] \in Daemons
    /\ \/ /\ up[pc[r]] = "up"
          /\ ReadBy({pc[r]})
       \/ /\ unloaded' = unloaded \union {pc[r]}
          /\ UNCHANGED mem
       \/ /\ up[pc[r]] # "up"
          /\ UNCHANGED <<mem, unloaded>>
    /\ Goto(r, ReloadOrder(r)[pc[r]])
    /\ UNCHANGED <<vol, up, maps, torn>>

-----------------------------------------------------------------------------
(***************************************************************************)
(* verify_mail_stack(fix=True): the SMTP probe decides on the steps.        *)
(***************************************************************************)
\* A probe may fail for reasons of its own (a timeout of four seconds).
Probe(r) ==
    /\ pc[r] \in {"probe", "again"}
    /\ \/ Serves("postfix") /\ Goto(r, "outbound")
       \/ Goto(r, IF pc[r] = "probe" THEN "ca" ELSE "ensureAgain")
    /\ UNCHANGED stackVars

\* heal_postfix_container starts a stopped container and runs the init scripts;
\* a running one is restarted only if Postfix is not running in it.  Docker, or the
\* container, may not be there.
HealPostfix(r) ==
    /\ \/ pc[r] \in {"ensure", "ensureAgain", "mapsBad", "last"}
       \/ At(r, "postfixHeal", "start")
    /\ \/ UNCHANGED <<mem, up, maps, unloaded>>
       \/ /\ up["postfix"] # "gone"
          /\ up' = [up EXCEPT !["postfix"] = "up"]
          /\ maps' \in {maps, TRUE}
          /\ \/ ReadBy({"postfix"})
             \/ up["postfix"] = "up" /\ UNCHANGED <<mem, unloaded>>
    /\ Goto(r, CASE pc[r] = "ensure" -> "probe"
                 [] pc[r] = "ensureAgain" -> "outbound"
                 [] pc[r] = "mapsBad" -> IF maps' THEN "quota" ELSE "quotaBad"
                 [] OTHER -> "end")
    /\ UNCHANGED <<vol, torn>>

\* rewrite_postfix_pgsql_maps, or the scripts of the container that do the same: the
\* maps are written anew in it and Postfix is told to reload; or it cannot be reached.
RewriteMaps ==
    \/ /\ up["postfix"] = "up"
       /\ maps' \in {maps, TRUE}
       /\ ReadBy({"postfix"})
    \/ UNCHANGED <<mem, maps, unloaded>>

\* force_fix_postfix_routing, what follows a change of account and domain rows, and
\* the first step of the automatic repair.
FixRouting(r) ==
    /\ pc[r] = "routing" \/ At(r, "routingFix", "start")
    /\ RewriteMaps
    /\ Goto(r, IF pc[r] = "routing" THEN "probe" ELSE "end")
    /\ UNCHANGED <<vol, up, torn>>

\* ensure_outbound_delivery (of /send and of the sending task, too): a report of this
\* process that is not older than two minutes stands for all of it.
EnsureOutbound(r) ==
    /\ pc[r] = "outbound" \/ At(r, "outboundCheck", "start")
    /\ RewriteMaps
    /\ Goto(r, IF pc[r] = "outbound" THEN "maps" ELSE "end")
    /\ UNCHANGED <<vol, up, torn>>

\* The map file is read out of the container, if it runs.
ReadMaps(r) ==
    /\ pc[r] = "maps"
    /\ Goto(r, IF up["postfix"] # "up" THEN "quotaBad" ELSE IF maps THEN "quota" ELSE "mapsBad")
    /\ UNCHANGED stackVars

\* heal_dovecot_container: mended quota line, then a reload.
HealDovecot(r) ==
    /\ pc[r] \in {"quota", "quotaBad"} \/ At(r, "dovecotHeal", "start")
    /\ \/ up["dovecot"] = "up" /\ ReadBy({"dovecot"})
       \/ UNCHANGED <<mem, unloaded>>
    /\ Goto(r, IF pc[r] = "quotaBad" THEN "last" ELSE "end")
    /\ UNCHANGED <<vol, up, maps, torn>>

\* The operations that the workers run.  They die with their container.
Tasks == {"autoHeal", "sendHeal", "evaluate", "queue", "logins", "cleanup"}

EndTasks(r, l) ==
    LET tasks == {q \in Others(r) : op[q].kind \in Tasks /\ ~AtRest(q)}
    IN  /\ pc' = [q \in Requests |-> IF q = r THEN l ELSE IF q \in tasks THEN "dead" ELSE pc[q]]
        /\ CutOff(tasks)
        /\ UNCHANGED <<op, faults, mem, up, maps, unloaded>>

\* restart_compose_stack: the workers, with the tasks they run, then the daemons;
\* the panel itself is left out.
RestartWorkers(r) == At(r, "restart", "start") /\ EndTasks(r, "restartDaemons")

RestartDaemons(r) ==
    /\ pc[r] = "restartDaemons"
    /\ \E ds \in SUBSET {d \in Daemons : up[d] # "gone"} :
          /\ up' = [d \in Daemons |-> IF d \in ds THEN "up" ELSE up[d]]
          /\ ReadBy(ds)
    /\ Goto(r, "end")
    /\ UNCHANGED <<vol, maps, torn>>

\* The thread of the factory reset removes the containers, its own the last: with
\* that it stops before it comes to the volumes.
TearDown(r) ==
    /\ pc[r] = "teardown"
    /\ up' = [d \in Daemons |-> "gone"]
    /\ CutOff(Others(r))
    /\ pc' = [q \in Requests |-> IF AtRest(q) THEN pc[q] ELSE "dead"]
    /\ UNCHANGED <<op, faults, mem, maps, unloaded>>

\* container_action and restart_container: what the user asks of one daemon, or of
\* the workers.  A container that is stopped this way is started by nobody but a
\* repair or a user.  Stopping the panel itself is a process that dies (JobDies).
StartOne(d) ==
    /\ up[d] # "gone"
    /\ up' = [up EXCEPT ![d] = "up"]
    /\ ReadBy({d})

StopOne(d) ==
    /\ up[d] # "gone"
    /\ up' = [up EXCEPT ![d] = "stopped"]
    /\ UNCHANGED <<mem, unloaded>>

ContainerAction(r) ==
    /\ At(r, "control", "start")
    /\ \/ /\ \E d \in Daemons : StartOne(d) \/ StopOne(d)
          /\ Goto(r, "end")
          /\ UNCHANGED <<vol, maps, torn>>
       \/ EndTasks(r, "end")

\* No session, a name that is not allowed, a stack that Compose manages, Docker
\* that cannot be reached, or nothing to do.
ActionRefused(r) ==
    /\ At(r, "control", "start")
    /\ Goto(r, "end")
    /\ UNCHANGED stackVars

\* A repair that was tried a moment ago, or one that there is not.
RepairRefused(r) ==
    /\ pc[r] = "start"
    /\ op[r].kind \in {"fullRepair", "routingFix", "postfixHeal", "dovecotHeal"}
    /\ Goto(r, "end")
    /\ UNCHANGED stackVars

\* A container stops by itself; Docker starts it again.
ContainerStops ==
    /\ faults < MaxFaults
    /\ \E d \in Daemons : up[d] = "up" /\ up' = [up EXCEPT ![d] = "down"]
    /\ faults' = faults + 1
    /\ UNCHANGED <<op, pc, vol, mem, maps, torn, unloaded>>

ContainerStarts ==
    /\ \E d \in Daemons :
          /\ up[d] = "down"
          /\ up' = [up EXCEPT ![d] = "up"]
          /\ ReadBy({d})
    /\ UNCHANGED <<jobVars, vol, maps, torn>>

StackStep(r) ==
    \/ StartHeal(r) \/ LookAtFiles(r) \/ WriteCa(r) \/ WriteCert(r) \/ WriteFails(r) \/ Reload(r)
    \/ Probe(r) \/ HealPostfix(r) \/ FixRouting(r) \/ EnsureOutbound(r) \/ ReadMaps(r) \/ HealDovecot(r)
    \/ RestartWorkers(r) \/ RestartDaemons(r) \/ TearDown(r)
    \/ ContainerAction(r) \/ ActionRefused(r) \/ RepairRefused(r)

-----------------------------------------------------------------------------
\* When no repair is between the first file and the last reload, the certificate in
\* the volume is signed by the CA beside it, and every daemon that runs serves it.
\* Two repairs that write at once, one that stops half way or leaves a file empty,
\* and a reload that does not reach its daemon break this until a later repair
\* writes alone.
TlsIsServed ==
    \/ torn \/ \E r \in Requests : InFlight(r)
    \/ /\ vol["ca"] = vol["cert"]
       /\ \A d \in Daemons \ unloaded : up[d] = "up" => mem[d] = vol["cert"]
=============================================================================
