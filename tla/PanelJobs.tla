------------------------------ MODULE PanelJobs ------------------------------
(***************************************************************************)
(* What the operations of the panel share: each is a request or a task      *)
(* that walks through its steps once, beside the others, and may die with   *)
(* the process that serves it.                                              *)
(***************************************************************************)
EXTENDS Naturals, FiniteSets

CONSTANTS Requests,     \* requests and tasks, each run once
          First,        \* the row that existed before them
          MaxFaults     \* bound: jobs that die half way

ASSUME JobsAssumption ==
    /\ First \notin Requests
    /\ MaxFaults \in Nat

VARIABLES
    op,         \* what each of them does, and on which row
    pc,         \* the step it is at
    faults      \* faults so far

jobVars == <<op, pc, faults>>

\* A row that a job creates is named after the job.
Ids == Requests \union {First}

At(r, o, l) == op[r].kind = o /\ pc[r] = l
Goto(r, l)  == pc' = [pc EXCEPT ![r] = l] /\ UNCHANGED <<op, faults>>

AtRest(r)  == pc[r] \in {"start", "end", "dead"}
Others(r)  == Requests \ {r}

\* The process that serves a job dies.
Die(r) ==
    /\ ~AtRest(r) /\ faults < MaxFaults
    /\ pc' = [pc EXCEPT ![r] = "dead"]
    /\ faults' = faults + 1
    /\ UNCHANGED op
=============================================================================
