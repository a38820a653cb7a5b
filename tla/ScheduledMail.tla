---------------------------- MODULE ScheduledMail ----------------------------
(***************************************************************************)
(* Planned messages.  Users store them as ScheduledMail rows; every minute  *)
(* Celery beat queues process_scheduled_mail, and a worker that takes the   *)
(* task loads a batch of due rows, sends them one by one and saves each     *)
(* outcome.  Nothing marks a row as taken and nothing stops two runs from   *)
(* overlapping, so a row that one run is sending is still "pending" for the *)
(* next one.                                                                *)
(***************************************************************************)
EXTENDS Naturals, FiniteSets

CONSTANTS Messages,     \* planned messages, numbered in the order of send_at
          Workers,      \* processes that run tasks
          Batch,        \* rows loaded by one run (20 in the code)
          MaxQueued,    \* bound: ticks of beat that wait in the broker
          MaxFaults     \* bound: dying workers and failing saves

ASSUME ScheduleAssumption == /\ Messages \subseteq Nat
                             /\ IsFiniteSet(Messages)
                             /\ Batch \in Nat \ {0}
                             /\ MaxQueued \in Nat \ {0}
                             /\ MaxFaults \in Nat

VARIABLES now,          \* messages up to this number are due
          accounts,     \* messages whose account exists
          row,          \* the ScheduledMail row of each message
          queued,       \* ticks in the broker
          step,         \* where each worker stands
          todo,         \* the rows of its batch it has not finished
          delivered,    \* copies Postfix accepted
          doubt,        \* history: why a message may have left again
          faults        \* faults so far

vars == <<now, accounts, row, queued, step, todo, delivered, doubt, faults>>

RowState == {"absent", "pending", "sent", "failed", "gone"}
Step     == {"idle", "query", "send", "saveSent", "saveFailed", "saveError"}
Doubt    == {"shared", "cut", "unheard"}

TypeOK == /\ now \in Nat
          /\ accounts \subseteq Messages
          /\ row \in [Messages -> RowState]
          /\ queued \in 0..MaxQueued
          /\ step \in [Workers -> Step]
          /\ todo \in [Workers -> SUBSET Messages]
          /\ delivered \in [Messages -> Nat]
          /\ doubt \in [Messages -> SUBSET Doubt]
          /\ faults \in 0..MaxFaults

Init == /\ now = 0
        /\ accounts = Messages
        /\ row = [m \in Messages |-> "absent"]
        /\ queued = 0
        /\ step = [w \in Workers |-> "idle"]
        /\ todo = [w \in Workers |-> {}]
        /\ delivered = [m \in Messages |-> 0]
        /\ doubt = [m \in Messages |-> {}]
        /\ faults = 0

-----------------------------------------------------------------------------
(* Users, the clock and beat.                                               *)

\* POST /schedule and the assistant's schedule_mail; send_at may be past.
Schedule(m) == /\ row[m] = "absent" /\ m \in accounts
               /\ row' = [row EXCEPT ![m] = "pending"]
               /\ UNCHANGED <<now, accounts, queued, step, todo, delivered,
                              doubt, faults>>

TimePasses == /\ \E m \in Messages : now < m
              /\ now' = now + 1
              /\ UNCHANGED <<accounts, row, queued, step, todo, delivered,
                             doubt, faults>>

\* Deleting an account deletes its rows, also those a run has loaded.
DeleteAccount(m) ==
    /\ m \in accounts
    /\ accounts' = accounts \ {m}
    /\ row' = [row EXCEPT ![m] = IF @ = "absent" THEN @ ELSE "gone"]
    /\ UNCHANGED <<now, queued, step, todo, delivered, doubt, faults>>

Beat == /\ queued < MaxQueued
        /\ queued' = queued + 1
        /\ UNCHANGED <<now, accounts, row, step, todo, delivered, doubt,
                       faults>>

-----------------------------------------------------------------------------
(* A run of process_scheduled_mail.                                         *)

Take(w) == /\ step[w] = "idle" /\ queued > 0
           /\ queued' = queued - 1
           /\ step' = [step EXCEPT ![w] = "query"]
           /\ UNCHANGED <<now, accounts, row, todo, delivered, doubt, faults>>

\* The first n elements of a set of messages.
Earliest(S, n) == {m \in S : Cardinality({k \in S : k < m}) < n}

\* The rows in S are loaded; one that another run still holds is shared now.
Hold(w, S) ==
    /\ todo' = [todo EXCEPT ![w] = S]
    /\ step' = [step EXCEPT ![w] = IF S = {} THEN "idle" ELSE "send"]
    /\ doubt' = [m \in Messages |->
                    IF m \in S /\ \E v \in Workers \ {w} : m \in todo[v]
                    THEN doubt[m] \cup {"shared"} ELSE doubt[m]]
    /\ UNCHANGED <<now, accounts, row, queued, delivered, faults>>

\* Variant: failed messages are loaded as well.
SelectUnsent(w) ==
    /\ step[w] = "query"
    /\ \E n \in 1..Batch :
          Hold(w, Earliest({m \in Messages : /\ row[m] \in {"pending", "failed"}
                                             /\ m <= now}, n))

\* Variant: the filter on the status is missing.
SelectDue(w) ==
    /\ step[w] = "query"
    /\ \E n \in 1..Batch :
          Hold(w, Earliest({m \in Messages : /\ row[m] \notin {"absent", "gone"}
                                             /\ m <= now}, n))

\* One SELECT: pending and due, ordered by send_at.  Mail that the model leaves out
\* may take places of the batch, but not all of them for ever.
Select(w) ==
    /\ step[w] = "query"
    /\ \E n \in 1..Batch :
          Hold(w, Earliest({m \in Messages : row[m] = "pending" /\ m <= now}, n))

\* The row a run is working on.
Current(w) == CHOOSE m \in todo[w] : \A n \in todo[w] : m <= n

\* send_mail, with an empty password and without cc and bcc.  It succeeds,
\* or the reply of Postfix is lost, or Postfix refuses, or it raises.
Send(w) ==
    /\ step[w] = "send"
    /\ LET m == Current(w)
       IN  \/ /\ step' = [step EXCEPT ![w] = "saveSent"]
              /\ delivered' = [delivered EXCEPT ![m] = @ + 1]
              /\ UNCHANGED doubt
           \/ /\ step' = [step EXCEPT ![w] = "saveFailed"]
              /\ delivered' = [delivered EXCEPT ![m] = @ + 1]
              /\ doubt' = [doubt EXCEPT ![m] = @ \cup {"unheard"}]
           \/ /\ \E s \in {"saveFailed", "saveError"} :
                     step' = [step EXCEPT ![w] = s]
              /\ UNCHANGED <<delivered, doubt>>
    /\ UNCHANGED <<now, accounts, row, queued, todo, faults>>

\* The loop goes on with the next row of the batch.
Proceed(w) ==
    /\ todo' = [todo EXCEPT ![w] = @ \ {Current(w)}]
    /\ step' = [step EXCEPT ![w] = IF todo[w] = {Current(w)} THEN "idle"
                                                             ELSE "send"]

\* A run ends early: the rest of its batch stays as it is.
Abort(w) == /\ todo' = [todo EXCEPT ![w] = {}]
            /\ step' = [step EXCEPT ![w] = "idle"]

\* Variant: the outcome of send_mail is not looked at.
SaveAsSent(w) ==
    /\ step[w] \in {"saveSent", "saveFailed"} /\ row[Current(w)] # "gone"
    /\ row' = [row EXCEPT ![Current(w)] = "sent"]
    /\ Proceed(w)
    /\ UNCHANGED <<now, accounts, queued, delivered, doubt, faults>>

\* Variant: a message that failed stays pending and is tried again.
SaveRetry(w) ==
    /\ step[w] \in {"saveSent", "saveFailed"} /\ row[Current(w)] # "gone"
    /\ row' = [row EXCEPT ![Current(w)] =
                  IF step[w] = "saveSent" THEN "sent" ELSE @]
    /\ Proceed(w)
    /\ UNCHANGED <<now, accounts, queued, delivered, doubt, faults>>

\* row.save(update_fields=[...]) does not look at the stored status; it
\* raises if the row is gone, and that lands in the except branch.
Save(w) ==
    /\ step[w] \in {"saveSent", "saveFailed"}
    /\ LET m == Current(w)
       IN  \/ /\ row[m] = "gone"
              /\ step' = [step EXCEPT ![w] = "saveError"]
              /\ UNCHANGED <<row, todo>>
           \/ /\ row[m] # "gone"
              /\ row' = [row EXCEPT ![m] = IF step[w] = "saveSent" THEN "sent"
                                                                  ELSE "failed"]
              /\ Proceed(w)
    /\ UNCHANGED <<now, accounts, queued, delivered, doubt, faults>>

\* Variant: the except branch only logs.
LogError(w) ==
    /\ step[w] = "saveError"
    /\ Proceed(w)
    /\ UNCHANGED <<now, accounts, row, queued, delivered, doubt, faults>>

\* The except branch saves "failed"; here nothing catches a second error.
SaveError(w) ==
    /\ step[w] = "saveError"
    /\ LET m == Current(w)
       IN  \/ row[m] = "gone" /\ Abort(w) /\ UNCHANGED row
           \/ /\ row[m] # "gone"
              /\ row' = [row EXCEPT ![m] = "failed"]
              /\ Proceed(w)
    /\ UNCHANGED <<now, accounts, queued, delivered, doubt, faults>>

\* A fault between the submission of a message and the save of its outcome.
Cut(w) == /\ faults < MaxFaults
          /\ faults' = faults + 1
          /\ doubt' = [m \in Messages |->
                         IF /\ step[w] \in {"saveSent", "saveFailed", "saveError"}
                            /\ m = Current(w)
                         THEN doubt[m] \cup {"cut"} ELSE doubt[m]]

\* The database is away for a moment: the except branch, or the end.
SaveFails(w) ==
    /\ \/ /\ step[w] \in {"saveSent", "saveFailed"}
          /\ step' = [step EXCEPT ![w] = "saveError"]
          /\ UNCHANGED todo
       \/ step[w] = "saveError" /\ Abort(w)
    /\ Cut(w)
    /\ UNCHANGED <<now, accounts, row, queued, delivered>>

\* The worker dies and is started again; the task was acknowledged before.
Crash(w) == /\ step[w] # "idle"
            /\ Abort(w) /\ Cut(w)
            /\ UNCHANGED <<now, accounts, row, queued, delivered>>

Run(w) == Take(w) \/ Select(w) \/ Send(w) \/ Save(w) \/ SaveError(w)

Next == \/ \E m \in Messages : Schedule(m) \/ DeleteAccount(m)
        \/ TimePasses \/ Beat
        \/ \E w \in Workers : Run(w) \/ SaveFails(w) \/ Crash(w)

\* Beat keeps ticking and a worker that has a task goes on with it; no message
\* has to be planned, and the clock may stop.
Fairness == WF_vars(Beat) /\ \A w \in Workers : WF_vars(Run(w))

Spec     == Init /\ [][Next]_vars
FairSpec == Spec /\ Fairness

-----------------------------------------------------------------------------
(* Properties.                                                              *)

Held(m) == \E w \in Workers : m \in todo[w]

\* "sent" means that Postfix took the message, and "failed" that it did not:
\* a message that left all the same was answered with a lost reply, or was in
\* the hands of two runs, or its run was cut short while it had the message.
OutcomeIsHonest ==
    \A m \in Messages : /\ row[m] = "sent" => delivered[m] > 0
                        /\ row[m] = "failed" /\ delivered[m] > 0
                               => doubt[m] # {}

\* Only an overlap of two runs or a run cut short sends a message twice: a
\* lost reply does not, because a failed message is never loaded again.
SentOnce ==
    \A m \in Messages :
        delivered[m] > 1 => doubt[m] \cap {"shared", "cut"} # {}

\* Once a message is settled and no run holds it any more, it stays so: its
\* outcome stands, it does not leave again and no run ever loads it again,
\* until its account is deleted.
AtRest(m) == row[m] \in {"sent", "failed"} /\ ~Held(m)

SettledIsFinal ==
    [][\A m \in Messages :
           AtRest(m) => /\ row'[m] = "gone" \/ (row'[m] = row[m] /\ AtRest(m)')
                        /\ delivered'[m] = delivered[m]]_vars

\* A message that is due is settled, whatever dies on the way: the row stays
\* pending, so that a later tick finds it again.
DueIsSettled ==
    \A m \in Messages : row[m] = "pending" /\ m <= now ~> row[m] # "pending"

\* What a user who plans a message may rely on: a settled message is written
\* or sent again, and one that left is put back, only in the named races.
Carried  == {m \in Messages : Held(m)}
Doubtful == {m \in Messages : doubt[m] \cap {"shared", "cut"} # {}}
Unheard  == {m \in Messages : "unheard" \in doubt[m]}

Log == INSTANCE PlannedLog WITH
         carried <- Carried, doubtful <- Doubtful, unheard <- Unheard
PlanPromise == Log!PlanSpec
=============================================================================
