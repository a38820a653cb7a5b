------------------------------ MODULE ApprovalLog ------------------------------
(***************************************************************************)
(* What a user may rely on who decides about the actions the mail agent     *)
(* proposes, without the steps of runs and requests.  A proposal is in hand *)
(* while some request holds it.                                             *)
(*   - Only a proposal that waits is taken in hand, and only one that is in *)
(*     hand is carried out or decided.                                      *)
(*   - It is carried out and decided once; again only when it is doubtful:  *)
(*     taken by two requests at once, or in hand of one that died.          *)
(*   - "applied" is recorded of proposals that were carried out, "rejected" *)
(*     of those that were not, or that are doubtful.                        *)
(*   - Whatever else moves messages, the agent moves none to spam or to a   *)
(*     folder, and deletes none, except by carrying out a proposal to do    *)
(*     so, or because the rule of a message bids it.                        *)
(***************************************************************************)
CONSTANTS Messages,     \* messages of the inbox
          Cycles,       \* runs; each proposes at most one action for a message
          Actions,      \* what a run may propose or do
          Moving,       \* those that take the message out of its place
          Leads,        \* and where each of these puts it
          Risky         \* those that need a decision

VARIABLES status,       \* of each proposal
          action,       \* what it proposes
          place,        \* where the agent, or another client, put a message
          inHand,       \* proposals some request holds
          executed,     \* proposals that were carried out
          doubtful,     \* proposals that may be decided a second time
          bidden        \* messages whose rule needs no decision

approvalVars == <<status, action, place, inHand, executed, doubtful, bidden>>

Ids == Cycles \X Messages

ApprovalInit == /\ status = [i \in Ids |-> "absent"]
                /\ action = [i \in Ids |-> "none"]
                /\ place = [m \in Messages |-> "inbox"]
                /\ inHand = {} /\ executed = {} /\ doubtful = {}
                /\ bidden \subseteq Messages

\* A run proposes an action.
Propose(i, a) == /\ status[i] = "absent"
                 /\ status' = [status EXCEPT ![i] = "pending"]
                 /\ action' = [action EXCEPT ![i] = a]
                 /\ UNCHANGED <<place, inHand, executed, doubtful, bidden>>

\* A request takes a waiting proposal in hand; a second one makes it doubtful.
TakeUp(i) == /\ status[i] = "pending"
             /\ inHand' = inHand \cup {i}
             /\ doubtful' = doubtful \cup ({i} \cap inHand)
             /\ UNCHANGED <<status, action, place, executed, bidden>>

\* A request lets go of i: another one may hold it on, but only if it is
\* doubtful.
LetGo(i) == \/ inHand' = inHand \ {i}
            \/ i \in doubtful' /\ UNCHANGED inHand

\* The proposal is carried out: its message is moved, unless it has left the
\* inbox, or flagged.  The request may die before it knows.
CarryOut(i) ==
    /\ i \in inHand
    /\ i \in executed => i \in doubtful
    /\ executed' = executed \cup {i}
    /\ place' = IF action[i] \in Moving /\ place[i[2]] = "inbox"
                THEN [place EXCEPT ![i[2]] = Leads[action[i]]] ELSE place
    /\ \/ UNCHANGED <<inHand, doubtful>>
       \/ doubtful' = doubtful \cup {i} /\ LetGo(i)
    /\ UNCHANGED <<status, action, bidden>>

\* The decision s is recorded.
Decide(i, s) ==
    /\ i \in inHand
    /\ status[i] = "pending" \/ i \in doubtful
    /\ s = "applied" => i \in executed
    /\ s = "rejected" /\ i \in executed => i \in doubtful
    /\ status' = [status EXCEPT ![i] = s]
    /\ LetGo(i)
    /\ UNCHANGED <<action, place, executed, doubtful, bidden>>

\* A request ends without a decision.  A proposal that was carried out is
\* never left behind as if it were not.
PutDown(i) == /\ i \in inHand
              /\ doubtful' \in {doubtful, doubtful \cup {i}}
              /\ LetGo(i)
              /\ i \in executed => i \in doubtful'
              /\ UNCHANGED <<status, action, place, executed, bidden>>

\* Another client, or the agent on its own, moves a message.
MoveSafely(m, p) ==
    /\ place[m] = "inbox"
    /\ p \in {Leads[a] : a \in Risky} => m \in bidden
    /\ place' = [place EXCEPT ![m] = p]
    /\ UNCHANGED <<status, action, inHand, executed, doubtful, bidden>>

ApprovalNext ==
    \/ \E i \in Ids : \/ \E a \in Actions : Propose(i, a)
                      \/ TakeUp(i) \/ CarryOut(i) \/ PutDown(i)
                      \/ \E s \in {"applied", "rejected"} : Decide(i, s)
    \/ \E m \in Messages :
           \E p \in {Leads[a] : a \in Moving \ Risky} \cup {"elsewhere"} :
               MoveSafely(m, p)

ApprovalSpec == ApprovalInit /\ [][ApprovalNext]_approvalVars
=============================================================================
