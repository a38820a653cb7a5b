----------------------------- MODULE OutboundLog -----------------------------
(***************************************************************************)
(* What the outbound log (MailOutboundLog) promises about a message that a *)
(* user asked to send, whatever path the message takes through the web     *)
(* process, the Celery worker and Postfix:                                  *)
(*   - a row is settled once, as "sent" or as "failed";                     *)
(*   - a row is "sent" only when Postfix accepted the message;              *)
(*   - Postfix accepts it at most once, unless the publication of the task  *)
(*     was in doubt (the broker kept the task but the client saw an error), *)
(*     which entitles the message to a second run.                          *)
(***************************************************************************)
EXTENDS Naturals

CONSTANT Requests       \* the messages users ask to send

VARIABLES row,          \* the log row of each message
          delivered,    \* copies of it that Postfix accepted
          doubtful      \* messages whose publication was in doubt

logVars == <<row, delivered, doubtful>>

RowState == {"absent", "pending", "sent", "failed", "gone"}
Settled  == {"sent", "failed"}

LogInit == /\ row = [r \in Requests |-> "absent"]
           /\ delivered = [r \in Requests |-> 0]
           /\ doubtful = {}

\* The row is created, pending.
Accept(r) == /\ row[r] = "absent"
             /\ row' = [row EXCEPT ![r] = "pending"]
             /\ UNCHANGED <<delivered, doubtful>>

\* The publication of the task may or may not have reached the broker.
Doubt(r) == /\ r \notin doubtful
            /\ doubtful' = doubtful \cup {r}
            /\ UNCHANGED <<row, delivered>>

\* Postfix accepts a copy: one, and a second one only in doubt.
Deliver(r) == /\ delivered[r] < (IF r \in doubtful THEN 2 ELSE 1)
              /\ delivered' = [delivered EXCEPT ![r] = @ + 1]
              /\ UNCHANGED <<row, doubtful>>

\* The outcome is recorded; a recorded outcome is rewritten only in doubt.
Settle(r, s) == /\ \/ row[r] = "pending"
                   \/ row[r] \in Settled /\ r \in doubtful
                /\ s = "sent" => delivered[r] > 0
                /\ row' = [row EXCEPT ![r] = s]
                /\ UNCHANGED <<delivered, doubtful>>

\* The account is deleted, and its log with it.
Withdraw == /\ row' = [r \in Requests |->
                        IF row[r] = "absent" THEN "absent" ELSE "gone"]
            /\ UNCHANGED <<delivered, doubtful>>

LogNext == \/ \E r \in Requests : \/ Accept(r)
                                  \/ Doubt(r)
                                  \/ Deliver(r)
                                  \/ \E s \in Settled : Settle(r, s)
           \/ Withdraw

LogSpec == LogInit /\ [][LogNext]_logVars
=============================================================================
