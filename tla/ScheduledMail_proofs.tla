------------------------- MODULE ScheduledMail_proofs -------------------------
(***************************************************************************)
(* Proofs about planned messages: the outcome of a message is honest, it    *)
(* leaves twice only for a reason, and a settled message is at rest.  They  *)
(* hold for any number of messages, workers, waiting ticks and faults and   *)
(* for any size of the batch.                                               *)
(***************************************************************************)
EXTENDS ScheduledMail, WellFoundedInduction, TLAPS

-----------------------------------------------------------------------------
(* The row a run is working on.                                             *)

\* A set of natural numbers that is not empty has a least element.
LEMMA Least ==
    ASSUME NEW S \in SUBSET Nat, S # {}
    PROVE  \E m \in S : \A n \in S : m <= n
<1>1. \E m \in S : \A n \in S : ~(<<n, m>> \in OpToRel(<, Nat))
  BY NatLessThanWellFounded, WFMin, Zenon
<1>2. ASSUME NEW m \in S, NEW n \in S, n < m
      PROVE  <<n, m>> \in OpToRel(<, Nat)
  <2>1. n \in Nat /\ m \in Nat
    OBVIOUS
  <2> QED
    BY <2>1, <1>2, Zenon DEF OpToRel
<1>3. ASSUME NEW m \in S, NEW n \in S, ~(n < m)
      PROVE  m <= n
  BY <1>3
<1> QED
  BY <1>1, <1>2, <1>3, Zenon

\* A run that has rows left works on one of them.
LEMMA CurrentHeld ==
    ASSUME TypeOK, NEW w \in Workers, todo[w] # {}
    PROVE  Current(w) \in todo[w] /\ Current(w) \in Messages
<1>1. todo[w] \in SUBSET Nat /\ todo[w] \subseteq Messages
  BY ScheduleAssumption DEF TypeOK
<1>2. \E m \in todo[w] : \A n \in todo[w] : m <= n
  BY <1>1, Least
<1> QED
  BY <1>1, <1>2, Zenon DEF Current

\* It works on the same row as long as its rows are the same.
LEMMA CurrentSame ==
    ASSUME NEW w \in Workers, todo'[w] = todo[w]
    PROVE  Current(w)' = Current(w)
BY Zenon DEF Current

-----------------------------------------------------------------------------
(* The inductive invariant.                                                 *)

Saving == {"saveSent", "saveFailed", "saveError"}

\* The run has tried to send the message and has not saved the outcome.
InHand(w, m) == step[w] \in Saving /\ m = Current(w)

\* Nothing has happened that entitles the message to a second delivery.
Clean(m) == "shared" \notin doubt[m] /\ "cut" \notin doubt[m]

\* A run has rows left exactly while it is in its loop.
LoopInv(w) == todo[w] = {} <=> step[w] \in {"idle", "query"}

\* Two runs hold a message only if that is known.
HoldInv(v, w) ==
    \A m \in Messages :
        m \in todo[v] /\ m \in todo[w] /\ v # w => "shared" \in doubt[m]

\* What a run knows of a message it holds: whether it has left, and how.
RunInv(w, m) ==
    m \in todo[w] =>
        /\ Clean(m) => row[m] \in {"pending", "gone"}
        /\ Clean(m) /\ ~InHand(w, m) => delivered[m] = 0
        /\ InHand(w, m) /\ step[w] = "saveSent" => delivered[m] > 0
        /\ InHand(w, m) /\ step[w] = "saveFailed" /\ delivered[m] > 0
               => doubt[m] # {}
        /\ InHand(w, m) /\ step[w] = "saveError" /\ delivered[m] > 0
               => doubt[m] # {} \/ row[m] = "gone"

\* What its row says of a message.
MessageInv(m) ==
    /\ row[m] = "absent" => delivered[m] = 0 /\ ~Held(m)
    /\ Clean(m) => delivered[m] <= 1
    /\ Clean(m) /\ row[m] = "pending" /\ ~Held(m) => delivered[m] = 0
    /\ row[m] = "sent" => delivered[m] > 0
    /\ row[m] = "failed" /\ delivered[m] > 0 => doubt[m] # {}

IInv == /\ TypeOK
        /\ \A w \in Workers : LoopInv(w)
        /\ \A v, w \in Workers : HoldInv(v, w)
        /\ \A w \in Workers, m \in Messages : RunInv(w, m)
        /\ \A m \in Messages : MessageInv(m)

-----------------------------------------------------------------------------
(* Type correctness.                                                        *)

LEMMA InitType == Init => TypeOK
BY ScheduleAssumption DEF Init, TypeOK, RowState, Step, Doubt

LEMMA TypeStep == TypeOK /\ [Next]_vars => TypeOK'
<1> SUFFICES ASSUME TypeOK, [Next]_vars
             PROVE  TypeOK'
  OBVIOUS
<1> USE ScheduleAssumption DEF TypeOK, RowState, Step, Doubt
<1>1. ASSUME NEW m \in Messages, Schedule(m) \/ DeleteAccount(m)
      PROVE  TypeOK'
  BY <1>1 DEF Schedule, DeleteAccount
<1>2. CASE TimePasses
  BY <1>2 DEF TimePasses
<1>5. CASE Beat
  BY <1>5 DEF Beat
<1>3. ASSUME NEW w \in Workers, Run(w) \/ SaveFails(w) \/ Crash(w)
      PROVE  TypeOK'
  <2>0. todo[w] # {} => Current(w) \in Messages
    BY CurrentHeld
  <2>1. CASE Take(w)
    BY <2>1 DEF Take
  <2>2. CASE Select(w)
    BY <2>2 DEF Select, Hold, Earliest
  <2>3. CASE Send(w)
    BY <2>3 DEF Send
  <2>4. CASE Save(w)
    BY <2>4 DEF Save, Proceed
  <2>5. CASE SaveError(w)
    BY <2>5 DEF SaveError, Proceed, Abort
  <2>6. CASE SaveFails(w)
    BY <2>6 DEF SaveFails, Cut, Abort
  <2>7. CASE Crash(w)
    BY <2>7 DEF Crash, Cut, Abort
  <2> QED
    BY <1>3, <2>1, <2>2, <2>3, <2>4, <2>5, <2>6, <2>7 DEF Run
<1>4. CASE UNCHANGED vars
  BY <1>4 DEF vars
<1> QED
  BY <1>1, <1>2, <1>3, <1>4, <1>5 DEF Next

-----------------------------------------------------------------------------
(* Every step keeps the invariant.                                          *)

\* Steps that leave the loops of all runs alone: nobody's list changes.
LEMMA OutsideInv ==
    ASSUME IInv, TypeOK',
           \/ \E m \in Messages : Schedule(m) \/ DeleteAccount(m)
           \/ TimePasses \/ Beat
           \/ \E w \in Workers : Take(w)
           \/ UNCHANGED vars
    PROVE  IInv'
<1>1. /\ todo' = todo /\ delivered' = delivered /\ doubt' = doubt
      /\ \A w \in Workers : \/ step'[w] = step[w]
                            \/ step[w] = "idle" /\ step'[w] = "query"
      /\ \A m \in Messages : \/ row'[m] = row[m]
                             \/ row[m] = "absent" /\ row'[m] = "pending"
                             \/ row[m] # "absent" /\ row'[m] = "gone"
  BY DEF Schedule, DeleteAccount, TimePasses, Beat, Take, vars, IInv, TypeOK
<1>2. \A w \in Workers : Current(w)' = Current(w)
  BY <1>1, CurrentSame
<1>3. ASSUME NEW w \in Workers PROVE LoopInv(w)'
  BY <1>1 DEF IInv, LoopInv
<1>4. ASSUME NEW v \in Workers, NEW w \in Workers PROVE HoldInv(v, w)'
  BY <1>1 DEF IInv, HoldInv
<1>5. ASSUME NEW w \in Workers, NEW m \in Messages PROVE RunInv(w, m)'
  <2>1. RunInv(w, m) /\ MessageInv(m)
    BY DEF IInv
  <2> QED
    BY <1>1, <1>2, <2>1
    DEF RunInv, MessageInv, Held, Clean, InHand, Saving
<1>6. ASSUME NEW m \in Messages PROVE MessageInv(m)'
  <2>1. MessageInv(m)
    BY DEF IInv
  <2>2. Held(m)' <=> Held(m)
    BY <1>1 DEF Held
  <2>3. Clean(m)' <=> Clean(m)
    BY <1>1 DEF Clean
  <2> QED
    BY <1>1, <2>1, <2>2, <2>3 DEF MessageInv
<1> QED
  BY <1>3, <1>4, <1>5, <1>6 DEF IInv

\* A run loads rows that are pending; those of other runs are shared now.
LEMMA SelectInv ==
    ASSUME IInv, TypeOK', NEW w \in Workers, Select(w)
    PROVE  IInv'
<1>1. PICK S \in SUBSET Messages :
          /\ \A m \in S : row[m] = "pending"
          /\ Hold(w, S)
  BY DEF Select, Earliest
<1>2. /\ row' = row /\ delivered' = delivered
      /\ step[w] = "query" /\ todo'[w] = S
      /\ step'[w] = IF S = {} THEN "idle" ELSE "send"
      /\ \A v \in Workers \ {w} : todo'[v] = todo[v] /\ step'[v] = step[v]
      /\ \A m \in Messages : doubt[m] \subseteq doubt'[m]
      /\ \A m \in S, v \in Workers \ {w} :
             m \in todo[v] => "shared" \in doubt'[m]
  BY <1>1 DEF Hold, Select, IInv, TypeOK
<1>3. \A v \in Workers \ {w} : Current(v)' = Current(v)
  BY <1>2, CurrentSame
<1>4. todo[w] = {}
  BY <1>2 DEF IInv, LoopInv
<1>5. ASSUME NEW v \in Workers PROVE LoopInv(v)'
  BY <1>2 DEF IInv, LoopInv
<1>6. ASSUME NEW u \in Workers, NEW v \in Workers PROVE HoldInv(u, v)'
  BY <1>2 DEF IInv, HoldInv
<1>7. ASSUME NEW v \in Workers, NEW m \in Messages PROVE RunInv(v, m)'
  <2>1. RunInv(v, m) /\ MessageInv(m)
    BY DEF IInv
  <2>2. Clean(m)' => Clean(m)
    BY <1>2 DEF Clean
  <2>3. CASE v = w
    <3>1. ~InHand(w, m)'
      BY <1>2 DEF InHand, Saving
    <3>2. m \in S /\ Clean(m)' => ~Held(m)
      BY <1>2, <1>4 DEF Held, Clean
    <3> QED
      BY <1>1, <1>2, <2>1, <2>2, <2>3, <3>1, <3>2 DEF RunInv, MessageInv
  <2>4. CASE v # w
    <3>1. InHand(v, m)' <=> InHand(v, m)
      BY <1>2, <1>3, <2>4 DEF InHand
    <3> QED
      BY <1>2, <2>1, <2>2, <2>4, <3>1 DEF RunInv
  <2> QED
    BY <2>3, <2>4
<1>8. ASSUME NEW m \in Messages PROVE MessageInv(m)'
  <2>1. MessageInv(m)
    BY DEF IInv
  <2>2. Held(m) => Held(m)'
    BY <1>2, <1>4 DEF Held
  <2>3. Held(m)' => Held(m) \/ row[m] = "pending"
    BY <1>1, <1>2 DEF Held
  <2>4. Clean(m)' => Clean(m)
    BY <1>2 DEF Clean
  <2> QED
    BY <1>2, <2>1, <2>2, <2>3, <2>4 DEF MessageInv
<1> QED
  BY <1>5, <1>6, <1>7, <1>8 DEF IInv

\* A run submits the message it works on, with whatever outcome.
LEMMA SendInv ==
    ASSUME IInv, TypeOK', NEW w \in Workers, Send(w)
    PROVE  IInv'
<1>1. PICK c \in Messages : c = Current(w) /\ c \in todo[w]
  BY CurrentHeld DEF IInv, LoopInv, Send
<1>2. /\ row' = row /\ todo' = todo
      /\ step[w] = "send" /\ step'[w] \in Saving
      /\ \A v \in Workers \ {w} : step'[v] = step[v]
      /\ \A m \in Messages \ {c} : /\ delivered'[m] = delivered[m]
                                   /\ doubt'[m] = doubt[m]
      /\ doubt[c] \subseteq doubt'[c] /\ (Clean(c)' <=> Clean(c))
      /\ \/ /\ delivered'[c] = delivered[c] + 1
            /\ \/ step'[w] = "saveSent"
               \/ step'[w] = "saveFailed" /\ doubt'[c] # {}
         \/ delivered'[c] = delivered[c] /\ step'[w] # "saveSent"
  <2>1. /\ step[w] = "send" /\ row' = row /\ todo' = todo
        /\ \/ /\ step' = [step EXCEPT ![w] = "saveSent"]
              /\ delivered' = [delivered EXCEPT ![c] = @ + 1]
              /\ doubt' = doubt
           \/ /\ step' = [step EXCEPT ![w] = "saveFailed"]
              /\ delivered' = [delivered EXCEPT ![c] = @ + 1]
              /\ doubt' = [doubt EXCEPT ![c] = @ \cup {"unheard"}]
           \/ /\ \E s \in {"saveFailed", "saveError"} :
                     step' = [step EXCEPT ![w] = s]
              /\ delivered' = delivered /\ doubt' = doubt
    BY <1>1 DEF Send
  <2>2. /\ step \in [Workers -> Step] /\ delivered \in [Messages -> Nat]
        /\ doubt \in [Messages -> SUBSET Doubt]
    BY DEF IInv, TypeOK
  <2> QED
    BY <2>1, <2>2 DEF Saving, Clean
<1>3. \A v \in Workers : Current(v)' = Current(v)
  BY <1>2, CurrentSame
<1>4. /\ Clean(c) => delivered[c] = 0 /\ row[c] \in {"pending", "gone"}
      /\ Clean(c) \/ doubt[c] # {}
  BY <1>1, <1>2 DEF IInv, RunInv, InHand, Saving, Clean
<1>5. \A v \in Workers \ {w} : c \in todo[v] => ~Clean(c)
  BY <1>1 DEF IInv, HoldInv, Clean
<1>6. delivered[c] \in Nat
  BY <1>1 DEF IInv, TypeOK
<1>7. ASSUME NEW v \in Workers PROVE LoopInv(v)'
  BY <1>1, <1>2 DEF IInv, LoopInv, Saving
<1>8. ASSUME NEW u \in Workers, NEW v \in Workers PROVE HoldInv(u, v)'
  BY <1>2 DEF IInv, HoldInv
<1>9. ASSUME NEW v \in Workers, NEW m \in Messages PROVE RunInv(v, m)'
  <2>1. RunInv(v, m)
    BY DEF IInv
  <2>2. CASE m # c
    <3>1. InHand(v, m)' => InHand(v, m)
      BY <1>1, <1>2, <1>3, <2>2 DEF InHand
    <3>2. InHand(v, m) => InHand(v, m)' /\ step'[v] = step[v]
      BY <1>1, <1>2, <1>3, <2>2 DEF InHand
    <3> QED
      BY <1>2, <2>1, <2>2, <3>1, <3>2 DEF RunInv, Clean
  <2>3. CASE m = c /\ v = w
    <3>1. InHand(w, c)'
      BY <1>1, <1>2, <1>3 DEF InHand
    <3> QED
      BY <1>2, <1>4, <1>6, <2>3, <3>1 DEF RunInv
  <2>4. CASE m = c /\ v # w
    <3>1. InHand(v, c)' <=> InHand(v, c)
      BY <1>2, <1>3, <2>4 DEF InHand
    <3>2. m \in todo[v] => ~Clean(c) /\ doubt'[c] # {}
      BY <1>2, <1>4, <1>5, <2>4
    <3> QED
      BY <1>2, <1>6, <2>1, <2>4, <3>1, <3>2 DEF RunInv
  <2> QED
    BY <2>2, <2>3, <2>4
<1>10. ASSUME NEW m \in Messages PROVE MessageInv(m)'
  <2>1. MessageInv(m)
    BY DEF IInv
  <2>2. Held(m)' <=> Held(m)
    BY <1>2 DEF Held
  <2>3. CASE m # c
    BY <1>2, <2>1, <2>2, <2>3 DEF MessageInv, Clean
  <2>4. CASE m = c
    <3>1. Held(c)
      BY <1>1 DEF Held
    <3> QED
      BY <1>2, <1>4, <1>6, <2>1, <2>2, <2>4, <3>1 DEF MessageInv
  <2> QED
    BY <2>3, <2>4
<1> QED
  BY <1>7, <1>8, <1>9, <1>10 DEF IInv

\* The outcome of the message a run works on is saved, and the loop goes on.
LEMMA ProceedInv ==
    ASSUME IInv, TypeOK', NEW w \in Workers, NEW s \in {"sent", "failed"},
           step[w] \in Saving, Proceed(w),
           row[Current(w)] # "gone",
           row' = [row EXCEPT ![Current(w)] = s],
           s = "sent" => step[w] = "saveSent",
           s = "failed" => step[w] # "saveSent",
           delivered' = delivered, doubt' = doubt
    PROVE  IInv'
<1>1. PICK c \in Messages : c = Current(w) /\ c \in todo[w]
  BY CurrentHeld DEF IInv, LoopInv, Saving
<1>2. /\ todo'[w] = todo[w] \ {c}
      /\ step'[w] = IF todo[w] = {c} THEN "idle" ELSE "send"
      /\ \A v \in Workers \ {w} : todo'[v] = todo[v] /\ step'[v] = step[v]
      /\ row'[c] = s
      /\ \A m \in Messages \ {c} : row'[m] = row[m]
  <2>1. /\ todo' = [todo EXCEPT ![w] = @ \ {c}]
        /\ step' = [step EXCEPT ![w] = IF todo[w] = {c} THEN "idle" ELSE "send"]
        /\ row' = [row EXCEPT ![c] = s]
    BY <1>1 DEF Proceed
  <2> QED
    BY <2>1 DEF IInv, TypeOK
<1>3. \A v \in Workers \ {w} : Current(v)' = Current(v)
  BY <1>2, CurrentSame
<1>4. InHand(w, c)
  BY <1>1 DEF InHand
<1>5. /\ s = "sent" => delivered[c] > 0
      /\ s = "failed" /\ delivered[c] > 0 => doubt[c] # {}
  BY <1>1, <1>4 DEF IInv, RunInv, Saving
<1>6. \A v \in Workers \ {w} : c \in todo[v] => "shared" \in doubt[c]
  BY <1>1 DEF IInv, HoldInv
<1>7. ASSUME NEW v \in Workers PROVE LoopInv(v)'
  BY <1>1, <1>2 DEF IInv, LoopInv
<1>8. ASSUME NEW u \in Workers, NEW v \in Workers PROVE HoldInv(u, v)'
  BY <1>2 DEF IInv, HoldInv
<1>9. ASSUME NEW v \in Workers, NEW m \in Messages PROVE RunInv(v, m)'
  <2>1. RunInv(v, m)
    BY DEF IInv
  <2>2. CASE v = w
    <3>1. ~InHand(w, m)'
      BY <1>2 DEF InHand, Saving
    <3>2. m # c => ~InHand(w, m)
      BY <1>1 DEF InHand
    <3> QED
      BY <1>2, <2>1, <2>2, <3>1, <3>2 DEF RunInv, Clean
  <2>3. CASE v # w
    <3>1. InHand(v, m)' <=> InHand(v, m)
      BY <1>2, <1>3, <2>3 DEF InHand
    <3> QED
      BY <1>2, <1>6, <2>1, <2>3, <3>1 DEF RunInv, Clean
  <2> QED
    BY <2>2, <2>3
<1>10. ASSUME NEW m \in Messages PROVE MessageInv(m)'
  <2>1. MessageInv(m)
    BY DEF IInv
  <2>2. CASE m # c
    <3>1. Held(m)' <=> Held(m)
      BY <1>2, <2>2 DEF Held
    <3> QED
      BY <1>2, <2>1, <2>2, <3>1 DEF MessageInv, Clean
  <2>3. CASE m = c
    BY <1>2, <1>5, <2>1, <2>3 DEF MessageInv, Clean
  <2> QED
    BY <2>2, <2>3
<1> QED
  BY <1>7, <1>8, <1>9, <1>10 DEF IInv

\* A save ends in the except branch: the row is gone, or a fault is on record.
LEMMA ErrorInv ==
    ASSUME IInv, TypeOK', NEW w \in Workers,
           step[w] \in {"saveSent", "saveFailed"},
           step' = [step EXCEPT ![w] = "saveError"],
           row' = row, todo' = todo, delivered' = delivered,
           \A m \in Messages \ {Current(w)} : doubt'[m] = doubt[m],
           doubt[Current(w)] \subseteq doubt'[Current(w)],
           row[Current(w)] = "gone" \/ "cut" \in doubt'[Current(w)]
    PROVE  IInv'
<1>1. PICK c \in Messages : c = Current(w) /\ c \in todo[w]
  BY CurrentHeld DEF IInv, LoopInv
<1>2. /\ step'[w] = "saveError"
      /\ \A v \in Workers \ {w} : step'[v] = step[v]
      /\ \A m \in Messages \ {c} : doubt'[m] = doubt[m]
      /\ doubt[c] \subseteq doubt'[c]
      /\ row[c] = "gone" \/ "cut" \in doubt'[c]
  BY <1>1 DEF IInv, TypeOK
<1>3. \A v \in Workers : Current(v)' = Current(v)
  BY CurrentSame
<1>4. ASSUME NEW v \in Workers, NEW m \in Messages
      PROVE  InHand(v, m)' <=> InHand(v, m)
  BY <1>2, <1>3 DEF InHand, Saving
<1>5. ASSUME NEW m \in Messages
      PROVE  (Held(m)' <=> Held(m)) /\ (Clean(m)' => Clean(m))
  BY <1>2 DEF Held, Clean
<1>6. ASSUME NEW v \in Workers PROVE LoopInv(v)'
  BY <1>2 DEF IInv, LoopInv
<1>7. ASSUME NEW u \in Workers, NEW v \in Workers PROVE HoldInv(u, v)'
  BY <1>2 DEF IInv, HoldInv
<1>8. ASSUME NEW v \in Workers, NEW m \in Messages PROVE RunInv(v, m)'
  <2>1. RunInv(v, m)
    BY DEF IInv
  <2>2. CASE v = w
    <3>1. InHand(w, m) => m = c
      BY <1>1 DEF InHand
    <3> QED
      BY <1>2, <1>4, <1>5, <2>1, <2>2, <3>1 DEF RunInv
  <2>3. CASE v # w
    BY <1>2, <1>4, <1>5, <2>1, <2>3 DEF RunInv
  <2> QED
    BY <2>2, <2>3
<1>9. ASSUME NEW m \in Messages PROVE MessageInv(m)'
  <2>1. MessageInv(m)
    BY DEF IInv
  <2> QED
    BY <1>2, <1>5, <2>1 DEF MessageInv
<1> QED
  BY <1>6, <1>7, <1>8, <1>9 DEF IInv

\* A run ends early.  A message it had in hand is gone, or has a fault on
\* record; the others have not left and wait for the next tick.
LEMMA AbortInv ==
    ASSUME IInv, TypeOK', NEW w \in Workers, Abort(w),
           step[w] # "idle", row' = row, delivered' = delivered,
           \A m \in Messages : doubt[m] \subseteq doubt'[m],
           \A m \in Messages : m \in todo[w] /\ InHand(w, m) =>
               row[m] = "gone" \/ "cut" \in doubt'[m]
    PROVE  IInv'
<1>1. /\ todo'[w] = {} /\ step'[w] = "idle"
      /\ \A v \in Workers \ {w} : todo'[v] = todo[v] /\ step'[v] = step[v]
  BY DEF Abort, IInv, TypeOK
<1>2. \A v \in Workers \ {w} : Current(v)' = Current(v)
  BY <1>1, CurrentSame
<1>3. ASSUME NEW m \in Messages
      PROVE  /\ Clean(m)' => Clean(m)
             /\ Held(m)' => Held(m)
             /\ Held(m) => Held(m)' \/ m \in todo[w]
  BY <1>1 DEF Held, Clean
<1>4. ASSUME NEW v \in Workers PROVE LoopInv(v)'
  BY <1>1 DEF IInv, LoopInv
<1>5. ASSUME NEW u \in Workers, NEW v \in Workers PROVE HoldInv(u, v)'
  BY <1>1 DEF IInv, HoldInv
<1>6. ASSUME NEW v \in Workers, NEW m \in Messages PROVE RunInv(v, m)'
  <2>1. RunInv(v, m)
    BY DEF IInv
  <2>2. CASE v = w
    BY <1>1, <2>2 DEF RunInv
  <2>3. CASE v # w
    <3>1. InHand(v, m)' <=> InHand(v, m)
      BY <1>1, <1>2, <2>3 DEF InHand
    <3> QED
      BY <1>1, <1>3, <2>1, <2>3, <3>1 DEF RunInv
  <2> QED
    BY <2>2, <2>3
<1>7. ASSUME NEW m \in Messages PROVE MessageInv(m)'
  <2>1. MessageInv(m) /\ RunInv(w, m)
    BY DEF IInv
  <2>2. Clean(m)' /\ row[m] = "pending" /\ m \in todo[w] => delivered[m] = 0
    BY <1>3, <2>1 DEF RunInv, Clean
  <2> QED
    BY <1>3, <2>1, <2>2 DEF MessageInv
<1> QED
  BY <1>4, <1>5, <1>6, <1>7 DEF IInv

LEMMA InitInv == Init => IInv
<1> SUFFICES ASSUME Init PROVE IInv
  OBVIOUS
<1>1. TypeOK
  BY InitType
<1> QED
  BY <1>1 DEF Init, IInv, LoopInv, HoldInv, RunInv, MessageInv, Held, Clean

LEMMA NextInv == IInv /\ [Next]_vars => IInv'
<1> SUFFICES ASSUME IInv, [Next]_vars
             PROVE  IInv'
  OBVIOUS
<1>1. TypeOK' /\ TypeOK
  BY TypeStep DEF IInv
<1>2. CASE \/ \E m \in Messages : Schedule(m) \/ DeleteAccount(m)
           \/ TimePasses \/ Beat
           \/ \E w \in Workers : Take(w)
           \/ UNCHANGED vars
  BY <1>1, <1>2, OutsideInv
<1>3. ASSUME NEW w \in Workers,
             \/ Select(w) \/ Send(w) \/ Save(w) \/ SaveError(w)
             \/ SaveFails(w) \/ Crash(w)
      PROVE  IInv'
  <2>1. CASE Select(w)
    BY <1>1, <2>1, SelectInv
  <2>2. CASE Send(w)
    BY <1>1, <2>2, SendInv
  <2>3. CASE Save(w)
    <3>1. CASE row[Current(w)] = "gone"
      BY <1>1, <2>3, <3>1, ErrorInv DEF Save
    <3>2. CASE row[Current(w)] # "gone"
      <4> DEFINE s == IF step[w] = "saveSent" THEN "sent" ELSE "failed"
      <4>1. /\ s \in {"sent", "failed"} /\ step[w] \in Saving
            /\ s = "sent" => step[w] = "saveSent"
            /\ s = "failed" => step[w] # "saveSent"
        BY <2>3 DEF Save, Saving
      <4>2. /\ Proceed(w) /\ row' = [row EXCEPT ![Current(w)] = s]
            /\ delivered' = delivered /\ doubt' = doubt
        BY <2>3, <3>2 DEF Save
      <4> HIDE DEF s
      <4> QED
        BY <1>1, <3>2, <4>1, <4>2, ProceedInv
    <3> QED
      BY <3>1, <3>2
  <2>4. CASE SaveError(w)
    <3>1. CASE row[Current(w)] = "gone"
      <4>1. /\ Abort(w) /\ step[w] # "idle" /\ row' = row
            /\ delivered' = delivered /\ doubt' = doubt
        BY <2>4, <3>1 DEF SaveError
      <4>2. \A m \in Messages : m \in todo[w] /\ InHand(w, m)
                                    => row[m] = "gone"
        BY <3>1 DEF InHand
      <4> QED
        BY <1>1, <4>1, <4>2, AbortInv
    <3>2. CASE row[Current(w)] # "gone"
      <4>1. /\ Proceed(w) /\ row' = [row EXCEPT ![Current(w)] = "failed"]
            /\ delivered' = delivered /\ doubt' = doubt
            /\ step[w] = "saveError"
        BY <2>4, <3>2 DEF SaveError
      <4> QED
        BY <1>1, <3>2, <4>1, ProceedInv DEF Saving
    <3> QED
      BY <3>1, <3>2
  <2>5. ASSUME Cut(w), step[w] \in Step
        PROVE  /\ \A m \in Messages : doubt[m] \subseteq doubt'[m]
               /\ \A m \in Messages \ {Current(w)} : doubt'[m] = doubt[m]
               /\ \A m \in Messages : InHand(w, m) => "cut" \in doubt'[m]
    BY <2>5 DEF Cut, InHand, Saving
  <2>6. CASE SaveFails(w)
    <3>1. /\ Cut(w) /\ row' = row /\ delivered' = delivered /\ step[w] \in Step
      BY <1>1, <2>6 DEF SaveFails, TypeOK
    <3>2. CASE step[w] = "saveError"
      <4>1. Abort(w)
        BY <2>6, <3>2 DEF SaveFails
      <4> QED
        BY <1>1, <2>5, <3>1, <3>2, <4>1, AbortInv
    <3>3. CASE step[w] # "saveError"
      <4>1. /\ step[w] \in {"saveSent", "saveFailed"} /\ todo' = todo
            /\ step' = [step EXCEPT ![w] = "saveError"]
        BY <2>6, <3>3 DEF SaveFails
      <4>2. Current(w) \in Messages /\ InHand(w, Current(w))
        BY <1>1, <4>1, CurrentHeld DEF IInv, LoopInv, InHand, Saving
      <4> QED
        BY <1>1, <2>5, <3>1, <4>1, <4>2, ErrorInv
    <3> QED
      BY <3>2, <3>3
  <2>7. CASE Crash(w)
    <3>1. /\ Abort(w) /\ Cut(w) /\ step[w] # "idle" /\ step[w] \in Step
          /\ row' = row /\ delivered' = delivered
      BY <1>1, <2>7 DEF Crash, TypeOK
    <3> QED
      BY <1>1, <2>5, <3>1, AbortInv
  <2> QED
    BY <1>3, <2>1, <2>2, <2>3, <2>4, <2>6, <2>7
<1> QED
  BY <1>2, <1>3 DEF Next, Run

-----------------------------------------------------------------------------
(* The theorems.                                                            *)

\* The inductive invariant holds in every reachable state.
THEOREM Invariance == Spec => []IInv
<1>1. Init => IInv
  BY InitInv
<1>2. IInv /\ [Next]_vars => IInv'
  BY NextInv
<1> QED
  BY <1>1, <1>2, PTL DEF Spec

\* Every variable keeps its type.
THEOREM TypeCorrect == Spec => []TypeOK
<1>1. IInv => TypeOK
  BY DEF IInv
<1> QED
  BY <1>1, Invariance, PTL

\* A planned message whose row says "sent" has left, and one whose row says
\* "failed" has not, unless a lost reply, an overlap of two runs or a run cut
\* short is on record for it.
THEOREM OutcomeTheorem == Spec => []OutcomeIsHonest
<1>1. IInv => OutcomeIsHonest
  BY DEF IInv, MessageInv, OutcomeIsHonest
<1> QED
  BY <1>1, Invariance, PTL

\* A planned message leaves at most once, unless two runs held it at the same
\* time or a run was cut short between sending it and saving its outcome.
THEOREM OnceTheorem == Spec => []SentOnce
<1>1. IInv => SentOnce
  <2> SUFFICES ASSUME IInv, NEW m \in Messages, delivered[m] > 1
               PROVE  doubt[m] \cap {"shared", "cut"} # {}
    BY DEF SentOnce
  <2>1. delivered[m] \in Nat /\ (Clean(m) => delivered[m] <= 1)
    BY DEF IInv, TypeOK, MessageInv
  <2> QED
    BY <2>1 DEF Clean
<1> QED
  BY <1>1, Invariance, PTL

\* No run ever loads a settled message again: only rows that are pending are
\* selected, and only runs that hold a message send it or write its row.
THEOREM FinalTheorem == Spec => SettledIsFinal
<1> DEFINE A == \A m \in Messages :
                  AtRest(m) =>
                    /\ row'[m] = "gone" \/ (row'[m] = row[m] /\ AtRest(m)')
                    /\ delivered'[m] = delivered[m]
<1>1. IInv /\ [Next]_vars => [A]_vars
  <2> SUFFICES ASSUME IInv, [Next]_vars, NEW m \in Messages, AtRest(m)
               PROVE  /\ row'[m] = "gone" \/ (row'[m] = row[m] /\ AtRest(m)')
                      /\ delivered'[m] = delivered[m]
    BY Zenon
  <2>1. \A w \in Workers : m \notin todo[w]
    BY DEF AtRest, Held
  <2>2. row[m] \in {"sent", "failed"}
    BY DEF AtRest
  <2>3. ASSUME NEW w \in Workers, Run(w) \/ SaveFails(w) \/ Crash(w)
        PROVE  /\ row'[m] = row[m] /\ delivered'[m] = delivered[m]
               /\ \A v \in Workers : m \notin todo'[v]
    <3>1. step[w] \notin {"idle", "query"} => Current(w) # m
      BY <2>1, CurrentHeld DEF IInv, LoopInv
    <3>2. /\ row \in [Messages -> RowState]
          /\ delivered \in [Messages -> Nat]
          /\ todo \in [Workers -> SUBSET Messages]
      BY DEF IInv, TypeOK
    <3>3. CASE Take(w)
      BY <2>1, <3>3 DEF Take
    <3>4. CASE Select(w)
      BY <2>1, <2>2, <3>2, <3>4 DEF Select, Hold, Earliest
    <3>5. CASE Send(w)
      BY <2>1, <3>1, <3>2, <3>5 DEF Send
    <3>6. CASE Save(w)
      BY <2>1, <3>1, <3>2, <3>6 DEF Save, Proceed
    <3>7. CASE SaveError(w)
      BY <2>1, <3>1, <3>2, <3>7 DEF SaveError, Proceed, Abort
    <3>8. CASE SaveFails(w) \/ Crash(w)
      BY <2>1, <3>2, <3>8 DEF SaveFails, Crash, Abort
    <3> QED
      BY <2>3, <3>3, <3>4, <3>5, <3>6, <3>7, <3>8 DEF Run
  <2>4. CASE \E w \in Workers : Run(w) \/ SaveFails(w) \/ Crash(w)
    BY <2>2, <2>3, <2>4 DEF AtRest, Held
  <2>5. ASSUME NEW n \in Messages, Schedule(n) \/ DeleteAccount(n)
        PROVE  /\ row'[m] \in {"gone", row[m]}
               /\ delivered' = delivered /\ todo' = todo
    BY <2>2, <2>5 DEF Schedule, DeleteAccount, IInv, TypeOK
  <2>6. CASE TimePasses \/ Beat \/ UNCHANGED vars
    BY <2>1, <2>2, <2>6 DEF TimePasses, Beat, vars, AtRest, Held
  <2> QED
    BY <2>1, <2>2, <2>4, <2>5, <2>6 DEF Next, AtRest, Held
<1> QED
  BY <1>1, Invariance, PTL DEF Spec, SettledIsFinal

-----------------------------------------------------------------------------
(* A run behaves as the log of planned messages promises.                   *)

\* A message is doubtful exactly when it is not clean.
LEMMA CleanOrDoubtful ==
    ASSUME NEW m \in Messages
    PROVE  m \in Doubtful <=> ~Clean(m)
BY DEF Doubtful, Clean

\* What is not in the hands of a run is seen through its variables alone.
LEMMA SameView ==
    ASSUME row' = row, delivered' = delivered, todo' = todo, doubt' = doubt
    PROVE  UNCHANGED Log!planVars
BY DEF Log!planVars, Carried, Held, Doubtful, Unheard

\* Users, the clock, beat and a run that starts.
LEMMA OutsideLog ==
    ASSUME TypeOK,
           \/ \E m \in Messages : Schedule(m) \/ DeleteAccount(m)
           \/ TimePasses \/ Beat
           \/ \E w \in Workers : Take(w)
           \/ UNCHANGED vars
    PROVE  [Log!PlanNext]_(Log!planVars)
<1> USE DEF Log!planVars, Log!PlanNext
<1>1. ASSUME delivered' = delivered, todo' = todo, doubt' = doubt
      PROVE  /\ Carried' = Carried /\ Doubtful' = Doubtful
             /\ Unheard' = Unheard
  BY <1>1 DEF Carried, Held, Doubtful, Unheard
<1>2. ASSUME NEW m \in Messages, Schedule(m)
      PROVE  [Log!PlanNext]_(Log!planVars)
  <2>1. Log!Plan(m)
    BY <1>1, <1>2 DEF Schedule, Log!Plan
  <2> QED
    BY <2>1
<1>3. ASSUME NEW m \in Messages, DeleteAccount(m)
      PROVE  [Log!PlanNext]_(Log!planVars)
  <2>1. CASE row[m] = "absent"
    <3>1. row' = row
      BY <1>3, <2>1 DEF DeleteAccount, TypeOK
    <3> QED
      BY <1>3, <3>1, SameView DEF DeleteAccount
  <2>2. CASE row[m] # "absent"
    <3>1. Log!Withdraw(m)
      BY <1>1, <1>3, <2>2 DEF DeleteAccount, Log!Withdraw
    <3> QED
      BY <3>1
  <2> QED
    BY <2>1, <2>2
<1>4. CASE \/ TimePasses \/ Beat
           \/ \E w \in Workers : Take(w)
           \/ UNCHANGED vars
  BY <1>4, SameView DEF TimePasses, Beat, Take, vars
<1> QED
  BY <1>2, <1>3, <1>4

\* A run picks up what it loads.
LEMMA SelectLog ==
    ASSUME IInv, TypeOK', NEW w \in Workers, Select(w)
    PROVE  Log!PlanNext
<1>1. PICK S \in SUBSET Messages :
          /\ \A m \in S : row[m] = "pending"
          /\ Hold(w, S)
  BY DEF Select, Earliest
<1>2. /\ row' = row /\ delivered' = delivered
      /\ todo' = [todo EXCEPT ![w] = S]
      /\ doubt' = [m \in Messages |->
                      IF m \in S /\ \E v \in Workers \ {w} : m \in todo[v]
                      THEN doubt[m] \cup {"shared"} ELSE doubt[m]]
  BY <1>1 DEF Hold
<1>3. todo \in [Workers -> SUBSET Messages] /\ todo[w] = {}
  BY DEF IInv, LoopInv, Select, TypeOK
<1>4. ASSUME NEW m \in Messages
      PROVE  /\ Held(m)' <=> Held(m) \/ m \in S
             /\ Held(m) <=> \E v \in Workers \ {w} : m \in todo[v]
  BY <1>2, <1>3 DEF Held
<1>5. Carried' = Carried \cup S
  BY <1>4 DEF Carried
<1>6. Doubtful' = Doubtful \cup (S \cap Carried)
  <2>1. \A m \in Messages :
            doubt'[m] = IF m \in S /\ Held(m) THEN doubt[m] \cup {"shared"}
                                              ELSE doubt[m]
    BY <1>2, <1>4
  <2> QED
    BY <2>1 DEF Doubtful, Carried
<1>7. Unheard' = Unheard
  BY <1>2 DEF Unheard
<1>8. Log!PickUp(S)
  BY <1>1, <1>2, <1>5, <1>6, <1>7 DEF Log!PickUp
<1> QED
  BY <1>8 DEF Log!PlanNext

\* A run submits the message it works on: it leaves, or nothing is seen.
LEMMA SendLog ==
    ASSUME IInv, NEW w \in Workers, Send(w)
    PROVE  [Log!PlanNext]_(Log!planVars)
<1>1. PICK c \in Messages : c = Current(w) /\ c \in todo[w]
  BY CurrentHeld DEF IInv, LoopInv, Send
<1>2. /\ row' = row /\ todo' = todo /\ step[w] = "send"
      /\ \/ /\ delivered' = [delivered EXCEPT ![c] = @ + 1]
            /\ \/ doubt' = doubt
               \/ doubt' = [doubt EXCEPT ![c] = @ \cup {"unheard"}]
         \/ delivered' = delivered /\ doubt' = doubt
  BY <1>1 DEF Send
<1>3. CASE delivered' = delivered /\ doubt' = doubt
  BY <1>2, <1>3, SameView
<1>4. ASSUME delivered' = [delivered EXCEPT ![c] = @ + 1],
             \/ doubt' = doubt
             \/ doubt' = [doubt EXCEPT ![c] = @ \cup {"unheard"}]
      PROVE  Log!PlanNext
  <2>1. Carried' = Carried /\ c \in Carried
    BY <1>1, <1>2 DEF Carried, Held
  <2>2. doubt \in [Messages -> SUBSET Doubt]
    BY DEF IInv, TypeOK
  <2>3. Doubtful' = Doubtful
    BY <1>4, <2>2 DEF Doubtful
  <2>4. Unheard' \in {Unheard, Unheard \cup {c}}
    BY <1>4, <2>2 DEF Unheard
  <2>5. delivered[c] = 0 \/ c \in Doubtful
    <3>1. ~InHand(w, c) /\ RunInv(w, c)
      BY <1>2 DEF InHand, Saving, IInv
    <3> QED
      BY <1>1, <3>1, CleanOrDoubtful DEF RunInv
  <2>6. Log!Leave(c)
    BY <1>2, <1>4, <2>1, <2>3, <2>4, <2>5 DEF Log!Leave
  <2> QED
    BY <2>6 DEF Log!PlanNext
<1> QED
  BY <1>2, <1>3, <1>4

\* A run saves an outcome and goes on: it is recorded.
LEMMA ProceedLog ==
    ASSUME IInv, NEW w \in Workers, NEW s \in {"sent", "failed"},
           step[w] \in Saving, Proceed(w),
           row[Current(w)] # "gone",
           row' = [row EXCEPT ![Current(w)] = s],
           s = "sent" => step[w] = "saveSent",
           s = "failed" => step[w] # "saveSent",
           delivered' = delivered, doubt' = doubt
    PROVE  Log!PlanNext
<1>1. PICK c \in Messages : c = Current(w) /\ c \in todo[w]
  BY CurrentHeld DEF IInv, LoopInv, Saving
<1>2. todo' = [todo EXCEPT ![w] = @ \ {c}] /\ row' = [row EXCEPT ![c] = s]
  BY <1>1 DEF Proceed
<1>3. RunInv(w, c) /\ MessageInv(c) /\ InHand(w, c)
  BY <1>1 DEF IInv, InHand
<1>4. Doubtful' = Doubtful /\ Unheard' = Unheard
  BY DEF Doubtful, Unheard
<1>5. /\ todo \in [Workers -> SUBSET Messages] /\ row[c] \in RowState
      /\ doubt[c] \subseteq Doubt
  BY DEF IInv, TypeOK
<1>6. c \in Carried
  BY <1>1 DEF Carried, Held
<1>7. \/ row[c] = "pending"
      \/ row[c] \in {"sent", "failed"} /\ c \in Doubtful
  <2>1. row[c] # "absent" /\ row[c] # "gone"
    BY <1>1, <1>3 DEF MessageInv, Held
  <2> QED
    BY <1>1, <1>3, <1>5, <2>1, CleanOrDoubtful DEF RunInv, RowState
<1>8. /\ s = "sent" => delivered[c] > 0
      /\ s = "failed" /\ delivered[c] > 0 => c \in Doubtful \cup Unheard
  <2>1. s = "failed" /\ delivered[c] > 0 => doubt[c] # {}
    BY <1>1, <1>3 DEF RunInv, Saving
  <2>2. doubt[c] # {} => c \in Doubtful \cup Unheard
    BY <1>5 DEF Doubt, Doubtful, Unheard
  <2> QED
    BY <1>1, <1>3, <2>1, <2>2 DEF RunInv
<1>9. \/ Carried' = Carried \ {c}
      \/ c \in Doubtful /\ Carried' = Carried
  <2>1. \A m \in Messages : m # c => (Held(m)' <=> Held(m))
    BY <1>2, <1>5 DEF Held
  <2>2. CASE Held(c)'
    <3>1. PICK v \in Workers \ {w} : c \in todo[v]
      BY <1>2, <1>5, <2>2 DEF Held
    <3>2. c \in Doubtful
      BY <1>1, <3>1, CleanOrDoubtful DEF IInv, HoldInv, Clean
    <3> QED
      BY <1>6, <2>1, <2>2, <3>2 DEF Carried
  <2>3. CASE ~Held(c)'
    BY <2>1, <2>3 DEF Carried
  <2> QED
    BY <2>2, <2>3
<1>10. Log!Record(c, s)
  BY <1>2, <1>4, <1>6, <1>7, <1>8, <1>9 DEF Log!Record, Log!Settled
<1> QED
  BY <1>10 DEF Log!PlanNext, Log!Settled

\* A run is disturbed, and puts down what only it held.
LEMMA DisturbLog ==
    ASSUME IInv, IInv', NEW w \in Workers, NEW c,
           row' = row, delivered' = delivered,
           \/ todo' = todo
           \/ todo' = [todo EXCEPT ![w] = {}],
           \/ doubt' = doubt
           \/ /\ doubt' = [m \in Messages |->
                              IF m = c THEN doubt[m] \cup {"cut"} ELSE doubt[m]]
              /\ c \in todo[w]
    PROVE  Log!PlanNext
<1>1. /\ todo \in [Workers -> SUBSET Messages]
      /\ doubt \in [Messages -> SUBSET Doubt]
  BY DEF IInv, TypeOK
<1> DEFINE S == Carried \ Carried'
<1>2. Carried' \subseteq Carried
  BY <1>1 DEF Carried, Held
<1>3. S \in SUBSET Messages /\ S \subseteq Carried /\ Carried' = Carried \ S
  BY <1>2 DEF Carried
<1>4. Unheard' = Unheard
  BY <1>1 DEF Unheard
<1>5. \/ Doubtful' = Doubtful
      \/ \E m \in Carried : Doubtful' = Doubtful \cup {m}
  <2>1. CASE doubt' = doubt
    BY <2>1 DEF Doubtful
  <2>2. CASE /\ doubt' = [m \in Messages |->
                             IF m = c THEN doubt[m] \cup {"cut"} ELSE doubt[m]]
             /\ c \in todo[w]
    <3>1. c \in Messages /\ c \in Carried
      BY <1>1, <2>2 DEF Carried, Held
    <3>2. Doubtful' = Doubtful \cup {c}
      BY <1>1, <2>2, <3>1 DEF Doubtful
    <3> QED
      BY <3>1, <3>2
  <2> QED
    BY <2>1, <2>2
<1>6. ASSUME NEW m \in S \ Doubtful', row[m] = "pending"
      PROVE  delivered[m] = 0
  <2>1. m \in Messages /\ ~Held(m)'
    BY <1>3 DEF Carried
  <2>2. MessageInv(m)'
    BY <2>1 DEF IInv
  <2>3. Clean(m)'
    BY <2>1 DEF Doubtful, Clean
  <2> QED
    BY <1>6, <2>1, <2>2, <2>3 DEF MessageInv
<1>7. Log!Disturb(S)
  BY <1>3, <1>4, <1>5, <1>6 DEF Log!Disturb
<1> QED
  BY <1>3, <1>7 DEF Log!PlanNext

\* A fault makes at most the message in hand doubtful.
LEMMA CutLog ==
    ASSUME IInv, NEW w \in Workers, Cut(w)
    PROVE  \/ doubt' = doubt
           \/ /\ doubt' = [m \in Messages |-> IF m = Current(w)
                                              THEN doubt[m] \cup {"cut"}
                                              ELSE doubt[m]]
              /\ Current(w) \in todo[w]
<1>1. doubt \in [Messages -> SUBSET Doubt]
  BY DEF IInv, TypeOK
<1>2. CASE step[w] \in Saving
  <2>1. Current(w) \in todo[w]
    BY <1>2, CurrentHeld DEF IInv, LoopInv, Saving
  <2> QED
    BY <1>2, <2>1 DEF Cut, Saving
<1>3. CASE step[w] \notin Saving
  BY <1>1, <1>3 DEF Cut, Saving
<1> QED
  BY <1>2, <1>3

\* Every behaviour of beat, overlapping runs, faults and deletions keeps what
\* a user who plans a message relies on: it is picked up only while it is
\* pending, and leaves, is written or is put back a second time only in the
\* races that are on record for it.
THEOREM Refinement == Spec => PlanPromise
<1>1. Init => Log!PlanInit
  BY DEF Init, Log!PlanInit, Carried, Held, Doubtful, Unheard
<1>2. IInv /\ IInv' /\ [Next]_vars => [Log!PlanNext]_(Log!planVars)
  <2> SUFFICES ASSUME IInv, IInv', [Next]_vars
               PROVE  [Log!PlanNext]_(Log!planVars)
    OBVIOUS
  <2>1. TypeOK /\ TypeOK'
    BY DEF IInv
  <2>2. CASE \/ \E m \in Messages : Schedule(m) \/ DeleteAccount(m)
             \/ TimePasses \/ Beat
             \/ \E w \in Workers : Take(w)
             \/ UNCHANGED vars
    BY <2>1, <2>2, OutsideLog
  <2>3. ASSUME NEW w \in Workers,
               \/ Select(w) \/ Send(w) \/ Save(w) \/ SaveError(w)
               \/ SaveFails(w) \/ Crash(w)
        PROVE  [Log!PlanNext]_(Log!planVars)
    <3>1. CASE Select(w)
      BY <2>1, <3>1, SelectLog
    <3>2. CASE Send(w)
      BY <3>2, SendLog
    <3>3. CASE Save(w) /\ row[Current(w)] = "gone"
      BY <3>3, SameView DEF Save
    <3>4. CASE Save(w) /\ row[Current(w)] # "gone"
      <4> DEFINE s == IF step[w] = "saveSent" THEN "sent" ELSE "failed"
      <4>1. /\ s \in {"sent", "failed"} /\ step[w] \in Saving
            /\ s = "sent" => step[w] = "saveSent"
            /\ s = "failed" => step[w] # "saveSent"
        BY <3>4 DEF Save, Saving
      <4>2. /\ Proceed(w) /\ row' = [row EXCEPT ![Current(w)] = s]
            /\ delivered' = delivered /\ doubt' = doubt
        BY <3>4 DEF Save
      <4> HIDE DEF s
      <4> QED
        BY <3>4, <4>1, <4>2, ProceedLog
    <3>5. CASE SaveError(w) /\ row[Current(w)] = "gone"
      BY <3>5, DisturbLog DEF SaveError, Abort
    <3>6. CASE SaveError(w) /\ row[Current(w)] # "gone"
      <4>1. /\ Proceed(w) /\ row' = [row EXCEPT ![Current(w)] = "failed"]
            /\ delivered' = delivered /\ doubt' = doubt
            /\ step[w] = "saveError" /\ step[w] \in Saving
        BY <3>6 DEF SaveError, Saving
      <4> QED
        BY <3>6, <4>1, ProceedLog
    <3>7. CASE SaveFails(w) \/ Crash(w)
      <4>1. /\ Cut(w) /\ row' = row /\ delivered' = delivered
            /\ todo' = todo \/ todo' = [todo EXCEPT ![w] = {}]
        BY <3>7 DEF SaveFails, Crash, Abort
      <4> QED
        BY <4>1, CutLog, DisturbLog
    <3> QED
      BY <2>3, <3>1, <3>2, <3>3, <3>4, <3>5, <3>6, <3>7
  <2> QED
    BY <2>2, <2>3 DEF Next, Run
<1> QED
  BY <1>1, <1>2, Invariance, PTL DEF Spec, PlanPromise, Log!PlanSpec
=============================================================================
