---------------------------- MODULE OutboundClient ----------------------------
(***************************************************************************)
(* The webmail page beside the send pipeline.  The page keeps a bar of      *)
(* messages that are "being sent".  Three things change it, each in its own *)
(* callback: the answer to the POST adds the message, the SSE event         *)
(* outbound_status removes it, and the list fetched when the page opens     *)
(* replaces the whole bar.  Answer, event and list travel on connections of *)
(* their own, so they arrive in any order; an event published while the     *)
(* stream is down is lost.                                                  *)
(***************************************************************************)
EXTENDS OutboundQueue, Sequences

CONSTANT MaxDrops       \* bound: how often the stream breaks

VARIABLES shown,      \* outboundPending: the messages in the bar
          answer,     \* the answer to the POST of each message
          list,       \* the answer to GET /outbound/pending
          stream,     \* is the EventSource subscribed?
          inbox,      \* events on their way to the page, oldest first
          drops       \* how often the stream broke

clientVars == <<shown, answer, list, stream, inbox, drops>>

NoList == [state |-> "asked", rows |-> {}]

ClientInit == /\ Init
              /\ shown = {}
              /\ answer = [r \in Requests |-> "none"]
              /\ list = NoList
              /\ stream = FALSE
              /\ inbox = <<>>
              /\ drops = 0

\* The thread answers {success, outbound_id}: the task was queued, or the run
\* inside the thread has sent the message.
Answered(r) == /\ web[r] # "done" /\ web'[r] = "done"
               /\ web[r] = "ready" \/ pc[WebJob(r)] = "tellSent"

Published == {r \in Requests : told'[r] # told[r]}

\* A step of the pipeline, with what it sends to the page.
ServerStep ==
    /\ Next
    /\ answer' = [r \in Requests |-> IF Answered(r) THEN "sent" ELSE answer[r]]
    /\ IF stream /\ Published # {}
       THEN \E r \in Published : inbox' = Append(inbox, r)
       ELSE UNCHANGED inbox
    /\ UNCHANGED <<shown, list, stream, drops>>

\* onQueued, trackOutbound: success and an id are enough to list the message,
\* even when the answer says that nothing was queued.
OnQueued(r) == /\ answer[r] = "sent"
               /\ answer' = [answer EXCEPT ![r] = "handled"]
               /\ shown' = shown \cup {r}
               /\ UNCHANGED <<list, stream, inbox, drops, vars>>

\* onOutboundStatus: whatever the outcome, the message leaves the bar.
OnOutboundStatus == /\ inbox # <<>>
                    /\ shown' = shown \ {Head(inbox)}
                    /\ inbox' = Tail(inbox)
                    /\ UNCHANGED <<answer, list, stream, drops, vars>>

\* outbound_pending reads the rows, and later the page takes them over.
ListPending == /\ list.state = "asked"
               /\ list' = [state |-> "answered",
                           rows  |-> {r \in Requests : row[r] = "pending"}]
               /\ UNCHANGED <<shown, answer, stream, inbox, drops, vars>>

LoadOutboundPending == /\ list.state = "answered"
                       /\ list' = [list EXCEPT !.state = "loaded"]
                       /\ shown' = list.rows
                       /\ UNCHANGED <<answer, stream, inbox, drops, vars>>

\* The EventSource subscribes, and does so again after a break.
StreamUp == /\ ~stream
            /\ stream' = TRUE
            /\ UNCHANGED <<shown, answer, list, inbox, drops, vars>>

StreamDown == /\ stream /\ drops < MaxDrops
              /\ stream' = FALSE
              /\ inbox' = <<>>
              /\ drops' = drops + 1
              /\ UNCHANGED <<shown, answer, list, vars>>

ClientNext == \/ ServerStep
              \/ \E r \in Requests : OnQueued(r)
              \/ OnOutboundStatus \/ ListPending \/ LoadOutboundPending
              \/ StreamUp \/ StreamDown

ClientSpec == ClientInit /\ [][ClientNext]_<<vars, clientVars>>

-----------------------------------------------------------------------------

\* Nothing about r is still on its way to the page.
AtRest(r) == /\ Ended(r) /\ answer[r] # "sent"
             /\ stream /\ inbox = <<>> /\ list.state = "loaded"

\* The bar says "gönderiliyor" (being sent) of a message: when everything the
\* server had to say has arrived, it says so only of messages that are pending.
BarIsCurrent ==
    \A r \in Requests : AtRest(r) /\ r \in shown => row[r] = "pending"
=============================================================================
