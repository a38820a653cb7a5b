------------------------------ MODULE PlannedLog ------------------------------
(***************************************************************************)
(* What a user who plans a message may rely on, without ticks, batches and  *)
(* the steps of a run.  A message is carried while some run holds it.       *)
(*   - Only a pending message is picked up.                                 *)
(*   - It leaves while it is carried, once; a second time only when it is   *)
(*     doubtful: picked up while it was carried already, or put down after  *)
(*     it had left and before its outcome was recorded.                     *)
(*   - An outcome is recorded by a run that carries the message, once; it   *)
(*     is rewritten only for a doubtful message.                            *)
(*   - "sent" is recorded of messages that have left, and "failed" of one   *)
(*     that has left only when it is doubtful or its reply was unheard.     *)
(***************************************************************************)
EXTENDS Naturals

CONSTANT Messages       \* the messages users plan

VARIABLES row,          \* the row of each message
          delivered,    \* copies that have left
          carried,      \* messages some run holds
          doubtful,     \* messages that may leave a second time
          unheard       \* messages that left although their run saw a failure

planVars == <<row, delivered, carried, doubtful, unheard>>

Settled == {"sent", "failed"}

PlanInit == /\ row = [m \in Messages |-> "absent"]
            /\ delivered = [m \in Messages |-> 0]
            /\ carried = {}
            /\ doubtful = {}
            /\ unheard = {}

\* The message is planned.
Plan(m) == /\ row[m] = "absent"
           /\ row' = [row EXCEPT ![m] = "pending"]
           /\ UNCHANGED <<delivered, carried, doubtful, unheard>>

\* Its account is deleted, and the row with it; a run may carry it all the same.
Withdraw(m) == /\ row[m] # "absent"
               /\ row' = [row EXCEPT ![m] = "gone"]
               /\ UNCHANGED <<delivered, carried, doubtful, unheard>>

\* A run picks up pending messages; those that are carried are doubtful now.
PickUp(S) == /\ \A m \in S : row[m] = "pending"
             /\ carried' = carried \cup S
             /\ doubtful' = doubtful \cup (S \cap carried)
             /\ UNCHANGED <<row, delivered, unheard>>

\* A carried message leaves, for the first time unless it is doubtful.
Leave(m) == /\ m \in carried
            /\ delivered[m] = 0 \/ m \in doubtful
            /\ delivered' = [delivered EXCEPT ![m] = @ + 1]
            /\ unheard' \in {unheard, unheard \cup {m}}
            /\ UNCHANGED <<row, carried, doubtful>>

\* The outcome s is recorded.  Another run may carry the message on, but only
\* if it is doubtful.
Record(m, s) ==
    /\ m \in carried
    /\ \/ row[m] = "pending"
       \/ row[m] \in Settled /\ m \in doubtful
    /\ s = "sent" => delivered[m] > 0
    /\ s = "failed" /\ delivered[m] > 0 => m \in doubtful \cup unheard
    /\ row' = [row EXCEPT ![m] = s]
    /\ \/ carried' = carried \ {m}
       \/ m \in doubtful /\ UNCHANGED carried
    /\ UNCHANGED <<delivered, doubtful, unheard>>

\* A run is disturbed: it puts the messages of S down, and at most one of the
\* carried messages becomes doubtful.  A message that is pending again when
\* nobody carries it has not left, unless it is doubtful.
Disturb(S) ==
    /\ S \subseteq carried
    /\ carried' = carried \ S
    /\ \/ UNCHANGED doubtful
       \/ \E m \in carried : doubtful' = doubtful \cup {m}
    /\ \A m \in S \ doubtful' : row[m] = "pending" => delivered[m] = 0
    /\ UNCHANGED <<row, delivered, unheard>>

PlanNext == \/ \E m \in Messages : \/ Plan(m)
                                   \/ Withdraw(m)
                                   \/ Leave(m)
                                   \/ \E s \in Settled : Record(m, s)
            \/ \E S \in SUBSET Messages : PickUp(S) \/ Disturb(S)

PlanSpec == PlanInit /\ [][PlanNext]_planVars
=============================================================================
