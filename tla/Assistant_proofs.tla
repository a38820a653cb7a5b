--------------------------- MODULE Assistant_proofs ---------------------------
(***************************************************************************)
(* Proofs about the mailbox, its copy and the assistant: the list tells     *)
(* where a message is and which flags it has, each unless one of the races  *)
(* the property names has happened, a command moves what it found, and a    *)
(* task acts once.  They hold for any number of messages, folders, jobs,    *)
(* uids and faults.                                                         *)
(***************************************************************************)
EXTENDS Assistant, FiniteSetTheorems, TLAPS

(***************************************************************************)
(* The inductive invariant.                                                 *)
(***************************************************************************)

\* What was once read about the key k and the message m, and still holds: the uid
\* is given away, and nothing but m is there.  Keys that are excused from both
\* properties may be given away once more.
Firm(k) == k \notin strayed \/ k \notin doubt
Given(k) == Firm(k) => k[2] < nextUid[k[1]]
Claim(k, m) == Firm(k) => \A n \in Messages : at[n] = k => n = m

\* Messages have different keys, with uids that were given away.
PlaceOK ==
    /\ \A m, n \in Messages : (at[m] \in Keys /\ at[m] = at[n]) => m = n
    /\ \A m \in Messages : at[m] \in Keys => at[m][2] < nextUid[at[m][1]]

\* The key of an entry that a job holds.
Spot(j, e) == <<key[j][1], e.uid>>

Carrying == {"write", "purge", "sender", "save", "think", "folder", "batch", "hide"}
Pending  == {"load", "save", "update"}
OneKey   == Pending \cup {"hide", "sender"}

\* What a job holds.
KeyOK(j) ==
    /\ pc[j] = "idle" => todo[j] = {}
    /\ pc[j] \in {"fetch", "write", "select", "drop"} => key[j][1] \in Folders
    /\ pc[j] = "purge" => key[j][1] = "INBOX"
    /\ pc[j] \in OneKey => key[j] \in Keys /\ Given(key[j])
    /\ pc[j] \in {"sender", "save"} => \A e \in todo[j] : e.uid = key[j][2]

HeldOK(j) ==
    pc[j] \in Carrying => \A e \in todo[j] :
        /\ key[j][1] \in Folders
        /\ Given(Spot(j, e))
        /\ Claim(Spot(j, e), e.msg)

CopiedOK(j) ==
    /\ pc[j] = "write" =>
          /\ \A d, e \in todo[j] : d.uid = e.uid => d = e
          /\ \A e \in todo[j] : Spot(j, e) \notin strayed => at[e.msg] = Spot(j, e)
    /\ pc[j] \in {"write", "save"} => \A e \in todo[j] :
          (Spot(j, e) \notin doubt /\ at[e.msg] = Spot(j, e)) => flags[e.msg] = e.flags

PurgeOK(j) ==
    pc[j] = "purge" => \A e \in todo[j] :
        (Spot(j, e) \notin strayed /\ at[e.msg] = Spot(j, e)) => kind[e.msg] # "plain"

WishOK(j) ==
    pc[j] \in Pending => \A m \in Messages :
        (key[j] \notin doubt /\ at[m] = key[j]) =>
            /\ Wished(j, flags[m]) = flags[m]
            /\ (pc[j] # "save" /\ cache[key[j]].msg = m) =>
                   Wished(j, cache[key[j]].flags) = flags[m]

HideOK(j) ==
    (pc[j] = "hide" /\ key[j] \notin strayed) => \A m \in Messages : at[m] # key[j]

JobOK(j) == KeyOK(j) /\ HeldOK(j) /\ CopiedOK(j) /\ PurgeOK(j) /\ WishOK(j) /\ HideOK(j)

\* What a row tells.
Hiding(k) == \E j \in Jobs : pc[j] = "hide" /\ key[j] = k
Waiting(k) == \E j \in Jobs : pc[j] \in Pending /\ key[j] = k
RowOK(k) ==
    Cached(k) =>
        /\ Given(k) /\ Claim(k, cache[k].msg)
        /\ (k \notin strayed /\ There(k)) =>
               /\ cache[k].hidden => Blocked(cache[k].msg, k[1])
               /\ cache[k].fraud => kind[cache[k].msg] # "plain"
        /\ (k \notin strayed /\ ~cache[k].hidden) => There(k) \/ Hiding(k)
        /\ (k \notin doubt /\ There(k)) =>
               cache[k].flags = flags[cache[k].msg] \/ Waiting(k)

\* Who runs a task that was not published twice, and has it acted?
TaskOK ==
    /\ \A j \in Jobs : (op[j] = "task" /\ pc[j] \in {"think", "end"}) =>
          /\ row[j] \in Jobs
          /\ row[j] \notin twice => row[j] = j
          /\ (row[j] \notin twice /\ pc[j] = "think") => sent[j] = 0
    /\ \A r \in Jobs \ twice : sent[r] <= 1 /\ (pc[r] = "idle" => sent[r] = 0)

IInv == AssistantTypeOK /\ PlaceOK /\ (\A j \in Jobs : JobOK(j)) /\ (\A k \in Keys : RowOK(k)) /\ TaskOK

-----------------------------------------------------------------------------
(***************************************************************************)
(* Types.                                                                   *)
(***************************************************************************)
ServerType == /\ at \in [Messages -> Keys \cup {New, Gone}]
              /\ flags \in [Messages -> SUBSET Flags]
              /\ nextUid \in [Folders -> 1..(MaxUid + 1)]
              /\ exists \subseteq Folders
CopyType   == known \subseteq Folders /\ cache \in [Keys -> Row \cup {NoRow}]
JobType    == /\ pc \in [Jobs -> Steps]
              /\ op \in [Jobs -> Ops]
              /\ key \in [Jobs -> (Folders \cup {"none"}) \X (Uids \cup {0})]
              /\ todo \in [Jobs -> SUBSET Entry]
              /\ want \in [Jobs -> [flag : Flags, add : BOOLEAN]]
              /\ rest \in [Jobs -> SUBSET Folders]
PastType   == strayed \subseteq Keys /\ doubt \subseteq Keys /\ faults \in 0..MaxFaults

LEMMA TypeParts ==
    /\ TypeOK <=> /\ ServerType /\ CopyType /\ JobType /\ PastType
                  /\ kind \in [Messages -> Kinds]
    /\ TypeOK' <=> /\ ServerType' /\ CopyType' /\ JobType' /\ PastType'
                   /\ kind' \in [Messages -> Kinds]
BY DEF TypeOK, ServerType, CopyType, JobType, PastType

LEMMA KeyFacts ==
    /\ \A k \in Keys : k = <<k[1], k[2]>> /\ k[1] \in Folders /\ k[2] \in Uids
    /\ \A f \in Folders, u \in Uids : /\ <<f, u>> \in Keys
                                      /\ <<f, u>>[1] = f /\ <<f, u>>[2] = u
    /\ New \notin Keys /\ Gone \notin Keys
    /\ New[1] \notin Folders /\ Gone[1] \notin Folders
    /\ "INBOX" \in Folders /\ "Drafts" \in Folders /\ "Trash" \in Folders
    /\ \A u \in Uids : u \in Nat /\ u # 0
    /\ <<"none", 0>> \in (Folders \cup {"none"}) \X (Uids \cup {0})
    /\ \A f \in Folders : <<f, 0>> \in (Folders \cup {"none"}) \X (Uids \cup {0})
    /\ \A k \in Keys : k \in (Folders \cup {"none"}) \X (Uids \cup {0})
<1>1. New \notin Keys /\ Gone \notin Keys /\ New[1] \notin Folders /\ Gone[1] \notin Folders
  BY MailboxAssumption DEF Keys, Uids, New, Gone
<1> QED
  BY <1>1, MailboxAssumption DEF Keys, Uids

LEMMA RowFacts ==
    /\ NoRow.msg \notin Messages
    /\ \A r \in Row \cup {NoRow} : r # NoRow <=> r.msg \in Messages
    /\ \A r \in Row : /\ [r EXCEPT !.hidden = TRUE] \in Row
                      /\ [r EXCEPT !.hidden = TRUE, !.fraud = TRUE] \in Row
                      /\ \A b \in BOOLEAN : [r EXCEPT !.fraud = b] \in Row
                      /\ \A fl \in SUBSET Flags : [r EXCEPT !.flags = fl] \in Row
    /\ \A m \in Messages, fl \in SUBSET Flags :
          [msg |-> m, flags |-> fl, hidden |-> FALSE, fraud |-> FALSE] \in Row
    /\ NoWish \in [flag : Flags, add : BOOLEAN]
<1>1. /\ NoRow.msg \notin Messages
      /\ \A r \in Row \cup {NoRow} : r # NoRow <=> r.msg \in Messages
      /\ NoWish \in [flag : Flags, add : BOOLEAN]
  BY MailboxAssumption DEF Row, NoRow, Nobody, NoWish
<1>2. ASSUME NEW r \in Row
      PROVE  /\ [r EXCEPT !.hidden = TRUE] \in Row
             /\ [r EXCEPT !.hidden = TRUE, !.fraud = TRUE] \in Row
             /\ \A b \in BOOLEAN : [r EXCEPT !.fraud = b] \in Row
             /\ \A fl \in SUBSET Flags : [r EXCEPT !.flags = fl] \in Row
  BY DEF Row
<1>3. \A m \in Messages, fl \in SUBSET Flags :
         [msg |-> m, flags |-> fl, hidden |-> FALSE, fraud |-> FALSE] \in Row
  BY DEF Row
<1> QED
  BY <1>1, <1>2, <1>3, Zenon

LEMMA EntryFacts ==
    /\ \A e \in Entry : e.uid \in Uids /\ e.msg \in Messages /\ e.flags \in SUBSET Flags
    /\ \A u \in Uids, m \in Messages, fl \in SUBSET Flags :
          [uid |-> u, msg |-> m, flags |-> fl] \in Entry
BY DEF Entry

\* How jobs move on.
LEMMA GotoType ==
    ASSUME JobType, NEW j \in Jobs, NEW s \in Steps, Goto(j, s)
    PROVE  pc' \in [Jobs -> Steps]
BY DEF JobType, Goto

LEMMA ClearType ==
    ASSUME JobType, NEW j \in Jobs, Clear(j)
    PROVE  JobType'
BY KeyFacts, RowFacts DEF JobType, Clear, Steps, Ops

LEMMA StopType ==
    ASSUME JobType, NEW S, Stop(S)
    PROVE  JobType'
<1>1. pc' \in [Jobs -> Steps] /\ op' \in [Jobs -> Ops]
  BY DEF JobType, Stop, Steps, Ops
<1>2. key' \in [Jobs -> (Folders \cup {"none"}) \X (Uids \cup {0})]
  BY KeyFacts DEF JobType, Stop
<1> QED
  BY <1>1, <1>2, RowFacts DEF JobType, Stop

-----------------------------------------------------------------------------
(***************************************************************************)
(* What the calls to the server do to places and uids.                      *)
(***************************************************************************)

\* Uids that were given away stay so, and what was not at such a key is not there
\* later; keys outside X keep their message.
Kept(X) ==
    /\ \A f \in Folders : nextUid[f] <= nextUid'[f]
    /\ \A k \in Keys, m \in Messages :
          k[2] < nextUid[k[1]] => /\ at'[m] = k => at[m] = k
                                  /\ (at[m] = k /\ k \notin X) => at'[m] = k

LEMMA UidFacts ==
    ASSUME ServerType
    PROVE  \A f \in Folders : /\ nextUid[f] \in Nat
                              /\ nextUid[f] <= MaxUid => nextUid[f] \in Uids
BY MailboxAssumption DEF ServerType, Uids

LEMMA MovedFacts ==
    ASSUME ServerType, PlaceOK, NEW k \in Keys, NEW g \in Folders, Moved(k, g)
    PROVE  /\ ServerType' /\ PlaceOK' /\ Kept({k})
           /\ (\A m \in Messages : at'[m] # k) /\ flags' = flags
<1>1. CASE At(k) = {}
  BY <1>1 DEF Moved, ServerType, PlaceOK, Kept, At
<1>2. CASE At(k) # {}
  <2>1. /\ nextUid[g] <= MaxUid
        /\ at' = [m \in Messages |-> IF m \in At(k) THEN <<g, nextUid[g]>> ELSE at[m]]
        /\ nextUid' = [nextUid EXCEPT ![g] = @ + 1]
        /\ flags' = flags /\ exists' = exists
    BY <1>2 DEF Moved
  <2> DEFINE new == <<g, nextUid[g]>>
  <2>2. new \in Keys /\ new[1] = g /\ new[2] = nextUid[g]
    BY <2>1, UidFacts, KeyFacts
  <2>3. \A m \in Messages : at[m] # new
    BY <2>2 DEF PlaceOK, ServerType
  <2>4. new # k
    BY <1>2, <2>3 DEF At
  <2>5. \A m \in Messages : at'[m] = (IF at[m] = k THEN new ELSE at[m])
    BY <2>1 DEF At
  <2>6. nextUid' \in [Folders -> 1..(MaxUid + 1)]
    <3>1. nextUid[g] + 1 \in 1..(MaxUid + 1)
      BY <2>1, UidFacts, MailboxAssumption
    <3> QED
      BY <2>1, <3>1 DEF ServerType
  <2>7. /\ \A f \in Folders : nextUid[f] <= nextUid'[f]
        /\ nextUid[g] < nextUid'[g]
    BY <2>1, UidFacts DEF ServerType
  <2> HIDE DEF new
  <2>8. ServerType'
    <3>1. at' \in [Messages -> Keys \cup {New, Gone}]
      BY <2>1, <2>2 DEF ServerType, new
    <3> QED
      BY <2>1, <2>6, <3>1 DEF ServerType
  <2>9. PlaceOK'
    <3>1. ASSUME NEW m \in Messages, NEW n \in Messages, at'[m] \in Keys, at'[m] = at'[n]
          PROVE  m = n
      BY <2>3, <2>5, <3>1 DEF PlaceOK
    <3>2. ASSUME NEW m \in Messages, at'[m] \in Keys
          PROVE  at'[m][2] < nextUid'[at'[m][1]]
      <4>1. CASE at[m] = k
        BY <2>2, <2>5, <2>7, <4>1
      <4>2. CASE at[m] # k
        BY <2>5, <2>7, <3>2, <4>2, KeyFacts, UidFacts, <2>8 DEF PlaceOK, ServerType
      <4> QED
        BY <4>1, <4>2
    <3> QED
      BY <3>1, <3>2 DEF PlaceOK
  <2>10. Kept({k})
    <3>1. ASSUME NEW x \in Keys, NEW m \in Messages, x[2] < nextUid[x[1]], at'[m] = x
          PROVE  at[m] = x
      <4>1. x # new
        BY <2>2, <3>1, UidFacts
      <4> QED
        BY <2>5, <3>1, <4>1
    <3> QED
      BY <2>5, <2>7, <3>1 DEF Kept
  <2> QED
    BY <2>1, <2>4, <2>5, <2>8, <2>9, <2>10
<1> QED
  BY <1>1, <1>2

LEMMA ExpungedFacts ==
    ASSUME ServerType, PlaceOK, NEW k \in Keys, Expunged(k)
    PROVE  /\ ServerType' /\ PlaceOK' /\ Kept({k})
           /\ (\A m \in Messages : at'[m] # k) /\ flags' = flags
<1>1. /\ \A m \in Messages : at'[m] = (IF at[m] = k THEN Gone ELSE at[m])
      /\ at' \in [Messages -> Keys \cup {New, Gone}]
      /\ UNCHANGED <<flags, nextUid, exists>>
  BY DEF Expunged, At, ServerType
<1>2. \A f \in Folders : nextUid[f] <= nextUid'[f]
  BY <1>1, UidFacts
<1> QED
  BY <1>1, <1>2, KeyFacts DEF ServerType, PlaceOK, Kept

LEMMA StoredFacts ==
    ASSUME ServerType, PlaceOK, NEW m \in Messages, NEW f \in Folders, Stored(m, f)
    PROVE  /\ ServerType' /\ PlaceOK' /\ Kept({})
           /\ flags' = flags /\ at[m] = New
           /\ \A n \in Messages : at[n] \in Keys => at'[n] = at[n]
<1> DEFINE new == <<f, nextUid[f]>>
<1>1. /\ at[m] = New /\ nextUid[f] <= MaxUid
      /\ at' = [at EXCEPT ![m] = new]
      /\ nextUid' = [nextUid EXCEPT ![f] = @ + 1]
      /\ flags' = flags /\ exists' = exists
  BY DEF Stored
<1>2. new \in Keys /\ new[1] = f /\ new[2] = nextUid[f]
  BY <1>1, UidFacts, KeyFacts
<1>3. \A n \in Messages : at[n] # new
  BY <1>2 DEF PlaceOK, ServerType
<1>4. \A n \in Messages : at'[n] = (IF n = m THEN new ELSE at[n])
  BY <1>1 DEF ServerType
<1>5. nextUid' \in [Folders -> 1..(MaxUid + 1)]
  <2>1. nextUid[f] + 1 \in 1..(MaxUid + 1)
    BY <1>1, UidFacts, MailboxAssumption
  <2> QED
    BY <1>1, <2>1 DEF ServerType
<1>6. /\ \A g \in Folders : nextUid[g] <= nextUid'[g]
      /\ nextUid[f] < nextUid'[f]
  BY <1>1, UidFacts DEF ServerType
<1>7. ServerType'
  BY <1>1, <1>2, <1>5 DEF ServerType
<1> HIDE DEF new
<1>8. PlaceOK'
  <2>1. ASSUME NEW x \in Messages, NEW n \in Messages, at'[x] \in Keys, at'[x] = at'[n]
        PROVE  x = n
    BY <1>3, <1>4, <2>1 DEF PlaceOK
  <2>2. ASSUME NEW x \in Messages, at'[x] \in Keys
        PROVE  at'[x][2] < nextUid'[at'[x][1]]
    <3>1. CASE x = m
      BY <1>2, <1>4, <1>6, <3>1
    <3>2. CASE x # m
      BY <1>4, <1>6, <2>2, <3>2, KeyFacts, UidFacts, <1>7 DEF PlaceOK, ServerType
    <3> QED
      BY <3>1, <3>2
  <2> QED
    BY <2>1, <2>2 DEF PlaceOK
<1>9. Kept({})
  <2>1. ASSUME NEW x \in Keys, NEW n \in Messages, x[2] < nextUid[x[1]], at'[n] = x
        PROVE  at[n] = x
    <3>1. x # new
      BY <1>2, <2>1, UidFacts
    <3> QED
      BY <1>4, <2>1, <3>1
  <2>2. ASSUME NEW x \in Keys, NEW n \in Messages, at[n] = x
        PROVE  at'[n] = x
    BY <1>1, <1>4, <2>2, KeyFacts
  <2> QED
    BY <1>6, <2>1, <2>2 DEF Kept
<1> QED
  BY <1>1, <1>4, <1>7, <1>8, <1>9, KeyFacts

LEMMA FlaggedFacts ==
    ASSUME ServerType, PlaceOK, NEW k \in Keys, NEW flag \in Flags, NEW add \in BOOLEAN,
           Flagged(k, flag, add)
    PROVE  /\ ServerType' /\ PlaceOK' /\ Kept({})
           /\ at' = at
           /\ \A m \in Messages : flags'[m] =
                 (IF at[m] # k THEN flags[m]
                  ELSE IF add THEN flags[m] \cup {flag} ELSE flags[m] \ {flag})
<1>1. /\ \A m \in Messages : flags'[m] =
            (IF at[m] # k THEN flags[m]
             ELSE IF add THEN flags[m] \cup {flag} ELSE flags[m] \ {flag})
      /\ flags' \in [Messages -> SUBSET Flags]
      /\ UNCHANGED <<at, nextUid, exists>>
  BY DEF Flagged, At, ServerType
<1>2. \A f \in Folders : nextUid[f] <= nextUid'[f]
  BY <1>1, UidFacts
<1> QED
  BY <1>1, <1>2 DEF ServerType, PlaceOK, Kept

\* A rebuilt folder has one uid for each of its messages.
LEMMA RebuiltFacts ==
    ASSUME ServerType, PlaceOK, NEW f \in Folders, Rebuild(f)
    PROVE  /\ ServerType' /\ PlaceOK' /\ flags' = flags
           /\ \A g \in Folders \ {f} : nextUid'[g] = nextUid[g]
           /\ \A m \in Messages :
                 \/ at[m] \in Keys /\ at[m][1] = f /\ at'[m] \in Keys /\ at'[m][1] = f
                 \/ at'[m] = at[m]
<1> DEFINE n == Cardinality(In(f))
<1>1. PICK new \in [In(f) -> 1..n] :
         /\ \A x, y \in In(f) : x # y => new[x] # new[y]
         /\ at' = [m \in Messages |-> IF m \in In(f) THEN <<f, new[m]>> ELSE at[m]]
  BY DEF Rebuild
<1>2. nextUid' = [nextUid EXCEPT ![f] = n + 1] /\ flags' = flags /\ exists' = exists
  BY DEF Rebuild
<1>3. \A m \in Messages : m \in In(f) <=> at[m] \in Keys /\ at[m][1] = f
  BY KeyFacts DEF In, ServerType
<1>4. n \in Nat /\ n <= MaxUid
  <2> DEFINE uid == [m \in In(f) |-> at[m][2]]
  <2>1. IsFiniteSet(Uids) /\ Cardinality(Uids) = MaxUid
    BY FS_Interval, MailboxAssumption DEF Uids
  <2>2. uid \in [In(f) -> Uids]
    BY <1>3, KeyFacts DEF In
  <2>3. ASSUME NEW x \in In(f), NEW y \in In(f), uid[x] = uid[y]
        PROVE  x = y
    <3>1. x \in Messages /\ y \in Messages /\ at[x][2] = at[y][2]
      BY <2>3 DEF In
    <3>2. at[x] = <<f, at[x][2]>> /\ at[y] = <<f, at[y][2]>>
      BY <1>3, <3>1, KeyFacts
    <3>3. at[x] = at[y]
      BY <3>1, <3>2
    <3> QED
      BY <1>3, <3>1, <3>3 DEF PlaceOK
  <2>4. uid \in Injection(In(f), Uids)
    BY <2>2, <2>3 DEF Injection, IsInjective
  <2> QED
    BY <2>1, <2>4, FS_Injection, FS_CardinalityType
<1> HIDE DEF n
<1>5. \A m \in In(f) : new[m] \in Uids /\ new[m] < n + 1 /\ <<f, new[m]>> \in Keys
  BY <1>1, <1>4, KeyFacts, MailboxAssumption DEF Uids
<1>6. \A m \in Messages : /\ m \in In(f) => /\ at'[m] = <<f, new[m]>> /\ at'[m] \in Keys
                                            /\ at'[m][1] = f /\ at'[m][2] = new[m]
                          /\ m \notin In(f) => at'[m] = at[m]
  BY <1>1, <1>5, KeyFacts
<1>7. /\ nextUid' \in [Folders -> 1..(MaxUid + 1)]
      /\ nextUid'[f] = n + 1
      /\ \A g \in Folders \ {f} : nextUid'[g] = nextUid[g]
  BY <1>2, <1>4, MailboxAssumption DEF ServerType
<1>8. at' \in [Messages -> Keys \cup {New, Gone}]
  BY <1>1, <1>5 DEF ServerType
<1>9. PlaceOK'
  <2>1. ASSUME NEW x \in Messages, NEW y \in Messages, at'[x] \in Keys, at'[x] = at'[y]
        PROVE  x = y
    <3>1. CASE x \in In(f) /\ y \in In(f)
      <4>1. new[x] = new[y]
        BY <1>6, <2>1, <3>1
      <4> QED
        BY <1>1, <3>1, <4>1
    <3>2. CASE x \notin In(f) \/ y \notin In(f)
      <4>1. x \notin In(f) /\ y \notin In(f)
        BY <1>3, <1>6, <2>1, <3>2
      <4> QED
        BY <1>6, <2>1, <4>1 DEF PlaceOK
    <3> QED
      BY <3>1, <3>2
  <2>2. ASSUME NEW x \in Messages, at'[x] \in Keys
        PROVE  at'[x][2] < nextUid'[at'[x][1]]
    <3>1. CASE x \in In(f)
      BY <1>5, <1>6, <1>7, <3>1
    <3>2. CASE x \notin In(f)
      BY <1>3, <1>6, <1>7, <2>2, <3>2, KeyFacts DEF PlaceOK
    <3> QED
      BY <3>1, <3>2
  <2> QED
    BY <2>1, <2>2 DEF PlaceOK
<1> QED
  BY <1>2, <1>3, <1>6, <1>7, <1>8, <1>9 DEF ServerType

-----------------------------------------------------------------------------
(***************************************************************************)
(* What a step of the jobs S, or of nobody, may do to the knowledge of the  *)
(* others: where it moves a message or changes its flags, the history says  *)
(* so, unless no other job holds that key and one of S will tell the row.   *)
(***************************************************************************)
Unforgotten(k) == (k \in strayed => k \in strayed') /\ (k \in doubt => k \in doubt')

StaysWith(i) ==
    \/ UNCHANGED <<pc[i], key[i], todo[i], want[i]>>
    \/ /\ pc[i] \in {"idle", "fetch", "write"}
       /\ pc'[i] \in {"done", "next"} \/ (pc'[i] = "think" /\ todo'[i] = {})

Careful(S) ==
    /\ \A k \in Keys : \/ Unforgotten(k)
                       \/ \A i \in Jobs \ S : ~Holds(i, k) /\ ~Selects(i, k)
    /\ \A k \in Keys : (Firm(k)' /\ k[2] < nextUid[k[1]]) =>
          /\ k[2] < nextUid'[k[1]]
          /\ \A m \in Messages : at'[m] = k => at[m] = k
    /\ \A m \in Messages : at[m] \in Keys => kind'[m] = kind[m]
    /\ \A k \in Keys, m \in Messages : (at[m] = k /\ at'[m] # k) =>
          \/ k \in strayed'
          \/ /\ \A i \in Jobs \ S : ~Holds(i, k)
             /\ \E j \in S : pc'[j] = "hide" /\ key'[j] = k
    /\ \A k \in Keys, m \in Messages :
          (at[m] = k /\ at'[m] = k /\ flags'[m] # flags[m]) =>
             \/ k \in doubt'
             \/ /\ \A i \in Jobs \ S : ~Holds(i, k)
                /\ \E j \in S : pc'[j] \in Pending /\ key'[j] = k
    /\ \A i \in Jobs \ S : StaysWith(i)

\* A row is written with the flags it had, or with those of the server.
RowsAgree ==
    \A k \in Keys, m \in Messages :
       (k \notin doubt' /\ at'[m] = k /\ cache'[k].msg = m) =>
          \/ cache'[k].flags = flags'[m]
          \/ cache[k].msg = m /\ cache'[k].flags = cache[k].flags

\* The key of what a job holds is one that the others look at.
LEMMA SpotFacts ==
    ASSUME JobType, NEW j \in Jobs, JobOK(j), pc[j] \in Carrying, NEW e \in todo[j]
    PROVE  /\ Spot(j, e) \in Keys
           /\ Holds(j, Spot(j, e)) \/ Selects(j, Spot(j, e))
           /\ pc[j] \in {"sender", "save"} => Spot(j, e) = key[j]
<1>1. e \in Entry /\ e.uid \in Uids
  BY EntryFacts DEF JobType
<1>2. Spot(j, e) \in Keys
  BY <1>1, KeyFacts DEF JobOK, HeldOK, Spot
<1>3. ASSUME pc[j] \in {"sender", "save"}
      PROVE  Spot(j, e) = key[j]
  BY <1>3, KeyFacts DEF JobOK, KeyOK, OneKey, Pending, Spot
<1>4. CASE pc[j] \in {"sender", "save"}
  BY <1>2, <1>3, <1>4 DEF Holds
<1>5. CASE pc[j] \in {"write", "purge", "think", "folder", "batch", "hide"}
  BY <1>2, <1>5 DEF Holds, Selects, Spot
<1> QED
  BY <1>2, <1>3, <1>4, <1>5 DEF Carrying

\* What has left a key is never there again.
LEMMA StillGiven ==
    ASSUME NEW S, Careful(S), NEW k \in Keys, Unforgotten(k), Given(k)
    PROVE  /\ Given(k)'
           /\ Firm(k)' => \A m \in Messages : at'[m] = k => at[m] = k
BY DEF Careful, Unforgotten, Given, Firm

LEMMA OthersKeep ==
    ASSUME JobType, NEW S \in SUBSET Jobs, Careful(S), RowsAgree,
           NEW i \in Jobs \ S, JobOK(i)
    PROVE  JobOK(i)'
<1>1. CASE /\ pc[i] \in {"idle", "fetch", "write"}
           /\ pc'[i] \in {"done", "next"} \/ (pc'[i] = "think" /\ todo'[i] = {})
  BY <1>1 DEF JobOK, KeyOK, HeldOK, CopiedOK, PurgeOK, WishOK, HideOK, OneKey, Pending, Carrying
<1>2. CASE UNCHANGED <<pc[i], key[i], todo[i], want[i]>>
  <2>1. ASSUME NEW e \in todo[i], pc[i] \in Carrying
        PROVE  /\ Spot(i, e) \in Keys /\ Spot(i, e)' = Spot(i, e)
               /\ Unforgotten(Spot(i, e))
               /\ e.msg \in Messages
    BY <1>2, <2>1, SpotFacts, EntryFacts DEF Careful, Spot, JobType
  <2>2. ASSUME pc[i] \in OneKey
        PROVE  key[i] \in Keys /\ Holds(i, key[i]) /\ Unforgotten(key[i]) /\ Given(key[i])
    BY <2>2 DEF JobOK, KeyOK, OneKey, Pending, Holds, Careful
  <2>3. KeyOK(i)'
    <3>1. ASSUME pc[i] \in OneKey
          PROVE  key'[i] \in Keys /\ Given(key[i])'
      <4>1. PICK k \in Keys : k = key[i] /\ k = key'[i] /\ Unforgotten(k) /\ Given(k)
        BY <1>2, <2>2, <3>1
      <4> QED
        BY <4>1, StillGiven DEF Given, Firm
    <3>2. pc'[i] \in OneKey => key'[i] \in Keys /\ Given(key[i])'
      BY <1>2, <3>1
    <3> QED
      BY <1>2, <3>2 DEF JobOK, KeyOK
  <2>4. HeldOK(i)'
    <3>1. ASSUME NEW e \in todo[i], pc[i] \in Carrying
          PROVE  key[i][1] \in Folders /\ Given(Spot(i, e))' /\ Claim(Spot(i, e), e.msg)'
      <4>1. key[i][1] \in Folders /\ Given(Spot(i, e)) /\ Claim(Spot(i, e), e.msg)
        BY <3>1 DEF JobOK, HeldOK
      <4>2. PICK k \in Keys : k = Spot(i, e) /\ k = Spot(i, e)'
        BY <2>1, <3>1
      <4>3. Given(k)' /\ Claim(k, e.msg)'
        BY <2>1, <3>1, <4>1, <4>2, StillGiven DEF Claim, Unforgotten, Firm
      <4>4. Given(Spot(i, e))' /\ Claim(Spot(i, e), e.msg)'
        BY <4>2, <4>3 DEF Given, Claim, Firm
      <4> QED
        BY <4>1, <4>4
    <3> QED
      BY <1>2, <3>1 DEF HeldOK
  <2>5. CopiedOK(i)'
    <3>1. ASSUME NEW e \in todo[i], pc[i] \in {"write", "save"}
          PROVE  /\ (pc[i] = "write" /\ Spot(i, e) \notin strayed') => at'[e.msg] = Spot(i, e)
                 /\ (Spot(i, e) \notin doubt' /\ at'[e.msg] = Spot(i, e)) => flags'[e.msg] = e.flags
      <4>1. Spot(i, e) \in Keys /\ Unforgotten(Spot(i, e)) /\ e.msg \in Messages
        BY <2>1, <3>1 DEF Carrying
      <4>2. Holds(i, Spot(i, e))
        BY <3>1, <4>1, SpotFacts DEF Selects, Carrying
      <4>3. Given(Spot(i, e))
        BY <3>1 DEF JobOK, HeldOK, Carrying
      <4>4. PICK k \in Keys : k = Spot(i, e)
        BY <4>1
      <4>5. (k \notin doubt' /\ at'[e.msg] = k) => at[e.msg] = k
        BY <4>1, <4>3, <4>4, StillGiven DEF Firm
      <4> QED
        BY <3>1, <4>1, <4>2, <4>4, <4>5 DEF JobOK, CopiedOK, Careful, Unforgotten
    <3>2. \A e \in todo[i] : pc[i] \in {"write", "save"} => Spot(i, e)' = Spot(i, e)
      BY <2>1 DEF Carrying
    <3> QED
      BY <1>2, <3>1, <3>2 DEF JobOK, CopiedOK
  <2>6. PurgeOK(i)'
    <3>1. ASSUME NEW e \in todo[i], pc[i] = "purge", Spot(i, e) \notin strayed',
                 at'[e.msg] = Spot(i, e)
          PROVE  kind'[e.msg] # "plain"
      <4>1. PICK k \in Keys : k = Spot(i, e) /\ Unforgotten(k) /\ e.msg \in Messages
        BY <2>1, <3>1 DEF Carrying
      <4>2. Given(k)
        BY <3>1, <4>1 DEF JobOK, HeldOK, Carrying
      <4>3. at[e.msg] = k
        BY <3>1, <4>1, <4>2, StillGiven DEF Firm
      <4> QED
        BY <3>1, <4>1, <4>3 DEF JobOK, PurgeOK, Careful, Unforgotten
    <3>2. \A e \in todo[i] : pc[i] = "purge" => Spot(i, e)' = Spot(i, e)
      BY <2>1 DEF Carrying
    <3> QED
      BY <1>2, <3>1, <3>2 DEF PurgeOK
  <2>7. WishOK(i)'
    <3>1. ASSUME pc[i] \in Pending, NEW m \in Messages, key[i] \notin doubt', at'[m] = key[i]
          PROVE  /\ Wished(i, flags'[m]) = flags'[m]
                 /\ (pc[i] # "save" /\ cache'[key[i]].msg = m) =>
                        Wished(i, cache'[key[i]].flags) = flags'[m]
      <4>1. PICK k \in Keys : k = key[i] /\ Unforgotten(k) /\ Given(k) /\ Holds(i, k)
        BY <2>2, <3>1 DEF OneKey
      <4>2. at[m] = k /\ k \notin doubt
        BY <3>1, <4>1, StillGiven DEF Firm, Unforgotten
      <4>3. flags'[m] = flags[m]
        BY <3>1, <4>1, <4>2 DEF Careful
      <4>4. Wished(i, flags[m]) = flags[m]
        BY <3>1, <4>1, <4>2 DEF JobOK, WishOK
      <4>5. ASSUME pc[i] # "save", cache'[k].msg = m
            PROVE  Wished(i, cache'[k].flags) = flags'[m]
        <5>1. CASE cache'[k].flags = flags'[m]
          BY <4>3, <4>4, <5>1
        <5>2. CASE cache[k].msg = m /\ cache'[k].flags = cache[k].flags
          BY <3>1, <4>1, <4>2, <4>3, <4>5, <5>2 DEF JobOK, WishOK
        <5> QED
          BY <3>1, <4>1, <4>5, <5>1, <5>2 DEF RowsAgree
      <4> QED
        BY <4>1, <4>3, <4>4, <4>5
    <3>2. \A x : Wished(i, x)' = Wished(i, x)
      BY <1>2 DEF Wished
    <3> QED
      BY <1>2, <3>1, <3>2 DEF WishOK, Wished
  <2>8. HideOK(i)'
    <3>1. ASSUME pc[i] = "hide", key[i] \notin strayed', NEW m \in Messages, at'[m] = key[i]
          PROVE  FALSE
      <4>1. PICK k \in Keys : k = key[i] /\ Unforgotten(k) /\ Given(k)
        BY <2>2, <3>1 DEF OneKey
      <4>2. at[m] = k /\ k \notin strayed
        BY <3>1, <4>1, StillGiven DEF Firm, Unforgotten
      <4> QED
        BY <3>1, <4>1, <4>2 DEF JobOK, HideOK
    <3> QED
      BY <1>2, <3>1 DEF HideOK
  <2> QED
    BY <2>3, <2>4, <2>5, <2>6, <2>7, <2>8 DEF JobOK
<1> QED
  BY <1>1, <1>2 DEF Careful, StaysWith

\* A row that is not written keeps telling the truth.  What the jobs of S stop to hide
\* or to update is excused, or has been done.
Released(S, k) == Cached(k) =>
    /\ \A j \in S : (pc[j] = "hide" /\ key[j] = k) =>
          \/ k \in strayed' \/ cache'[k].hidden
          \/ pc'[j] = "hide" /\ key'[j] = k
    /\ \A j \in S : (pc[j] \in Pending /\ key[j] = k) =>
          \/ k \in doubt'
          \/ pc'[j] \in Pending /\ key'[j] = k

LEMMA RowKept ==
    ASSUME NEW S \in SUBSET Jobs, Careful(S), NEW k \in Keys, RowOK(k),
           cache'[k] = cache[k], cache[k] \in Row \cup {NoRow}, Unforgotten(k), Released(S, k)
    PROVE  RowOK(k)'
<1> SUFFICES ASSUME Cached(k)'
             PROVE  /\ Given(k)' /\ Claim(k, cache[k].msg)'
                    /\ (k \notin strayed' /\ There(k)') =>
                           /\ cache[k].hidden => Blocked(cache[k].msg, k[1])'
                           /\ cache[k].fraud => kind'[cache[k].msg] # "plain"
                    /\ (k \notin strayed' /\ ~cache[k].hidden) => There(k)' \/ Hiding(k)'
                    /\ (k \notin doubt' /\ There(k)') =>
                           cache[k].flags = flags'[cache[k].msg] \/ Waiting(k)'
  BY DEF RowOK, Claim, There, Blocked
<1>1. PICK m \in Messages : m = cache[k].msg
  BY RowFacts DEF Cached
<1>2. Cached(k) /\ Given(k) /\ Claim(k, m)
  BY <1>1 DEF Cached, RowOK
<1>3. Given(k)' /\ \A n \in Messages : (Firm(k)' /\ at'[n] = k) => at[n] = k
  BY <1>2, StillGiven
<1>4. Claim(k, m)'
  BY <1>2, <1>3 DEF Claim, Firm, Unforgotten
<1>5. (There(k)' <=> at'[m] = k) /\ (There(k) <=> at[m] = k)
  BY <1>1 DEF There
<1>6. ASSUME k \notin strayed', at'[m] = k
      PROVE  at[m] = k /\ kind'[m] = kind[m] /\ k \notin strayed
  BY <1>3, <1>6 DEF Firm, Careful, Unforgotten
<1>7. (k \notin strayed' /\ at'[m] = k) => /\ cache[k].hidden => Blocked(m, k[1])'
                                           /\ cache[k].fraud => kind'[m] # "plain"
  BY <1>1, <1>2, <1>5, <1>6 DEF RowOK, Blocked
<1>8. ASSUME k \notin strayed', ~cache[k].hidden
      PROVE  at'[m] = k \/ Hiding(k)'
  <2>1. CASE at[m] = k
    BY <1>8, <2>1 DEF Careful, Hiding
  <2>2. CASE Hiding(k)
    <3>1. PICK i \in Jobs : pc[i] = "hide" /\ key[i] = k
      BY <2>2 DEF Hiding
    <3>2. pc'[i] = "hide" /\ key'[i] = k
      BY <1>2, <1>8, <3>1 DEF Careful, StaysWith, Released
    <3> QED
      BY <3>2 DEF Hiding
  <2> QED
    BY <1>2, <1>5, <1>8, <2>1, <2>2 DEF RowOK, Unforgotten
<1>9. ASSUME k \notin doubt', at'[m] = k
      PROVE  cache[k].flags = flags'[m] \/ Waiting(k)'
  <2>1. at[m] = k /\ k \notin doubt
    BY <1>3, <1>9 DEF Firm, Unforgotten
  <2>2. CASE flags'[m] # flags[m]
    BY <1>9, <2>1, <2>2 DEF Careful, Waiting
  <2>3. CASE Waiting(k)
    <3>1. PICK i \in Jobs : pc[i] \in Pending /\ key[i] = k
      BY <2>3 DEF Waiting
    <3>2. pc'[i] \in Pending /\ key'[i] = k
      BY <1>2, <1>9, <3>1 DEF Careful, StaysWith, Released, Pending
    <3> QED
      BY <3>2 DEF Waiting
  <2> QED
    BY <1>1, <1>2, <1>5, <2>1, <2>2, <2>3 DEF RowOK
<1> QED
  BY <1>1, <1>3, <1>4, <1>5, <1>7, <1>8, <1>9

\* Steps that neither write rows nor change anything on the server.
Quiet(S) ==
    /\ UNCHANGED <<at, flags, nextUid, cache, kind>>
    /\ strayed \subseteq strayed' /\ doubt \subseteq doubt'
    /\ \A i \in Jobs \ S : StaysWith(i)

LEMMA QuietIsCareful ==
    ASSUME NEW S, Quiet(S)
    PROVE  Careful(S) /\ RowsAgree /\ \A k \in Keys : Unforgotten(k)
BY DEF Quiet, Careful, RowsAgree, Unforgotten

\* The mailbox part of the invariant, and how steps preserve it.
MailInv == /\ PlaceOK
           /\ \A j \in Jobs : JobOK(j)
           /\ \A k \in Keys : RowOK(k)

LEMMA ServerStep ==
    ASSUME JobType, CopyType, MailInv, NEW S \in SUBSET Jobs, Careful(S), PlaceOK',
           cache' = cache, \A k \in Keys : Unforgotten(k) /\ Released(S, k),
           \A j \in S : JobOK(j)'
    PROVE  MailInv'
<1>1. RowsAgree
  BY DEF RowsAgree
<1>2. \A i \in Jobs : JobOK(i)'
  BY <1>1, OthersKeep DEF MailInv
<1>3. \A k \in Keys : RowOK(k)'
  BY RowKept DEF MailInv, CopyType
<1> QED
  BY <1>2, <1>3 DEF MailInv

LEMMA QuietStep ==
    ASSUME JobType, CopyType, MailInv, NEW S \in SUBSET Jobs, Quiet(S),
           \A j \in S : JobOK(j)',
           \A k \in Keys : Released(S, k)
    PROVE  MailInv'
<1>1. Careful(S) /\ (\A k \in Keys : Unforgotten(k))
  BY QuietIsCareful
<1>2. PlaceOK' /\ cache' = cache
  BY DEF MailInv, PlaceOK, Quiet
<1> QED
  BY <1>1, <1>2, ServerStep

\* One row is written.
LEMMA RowStep ==
    ASSUME JobType, CopyType, MailInv, NEW S \in SUBSET Jobs, NEW k \in Keys,
           UNCHANGED <<at, flags, nextUid, kind>>,
           \A x \in Keys \ {k} :
              /\ cache'[x] = cache[x] /\ Unforgotten(x) /\ Released(S, x),
           Unforgotten(k) \/ \A i \in Jobs \ S : ~Holds(i, k) /\ ~Selects(i, k),
           \A i \in Jobs \ S : StaysWith(i),
           \A m \in Messages : (k \notin doubt' /\ at[m] = k /\ cache'[k].msg = m) =>
              \/ cache'[k].flags = flags[m]
              \/ cache[k].msg = m /\ cache'[k].flags = cache[k].flags,
           RowOK(k)', \A j \in S : JobOK(j)'
    PROVE  MailInv'
<1>1. Careful(S)
  BY DEF Careful
<1>2. RowsAgree
  BY DEF RowsAgree
<1>3. \A i \in Jobs : JobOK(i)'
  BY <1>1, <1>2, OthersKeep DEF MailInv
<1>4. \A x \in Keys : RowOK(x)'
  BY <1>1, RowKept DEF MailInv, CopyType
<1>5. PlaceOK'
  BY DEF MailInv, PlaceOK
<1> QED
  BY <1>3, <1>4, <1>5 DEF MailInv

\* A job at one of these places holds nothing.
Free == {"next", "rows", "append", "done", "list", "end"}

LEMMA FreeJob ==
    ASSUME NEW j, pc'[j] \in Free \cup {"fetch", "select", "drop"},
           pc'[j] \in {"fetch", "select", "drop"} => key'[j][1] \in Folders
    PROVE  JobOK(j)'
BY DEF Free, JobOK, KeyOK, HeldOK, CopiedOK, PurgeOK, WishOK, HideOK, OneKey, Pending, Carrying

-----------------------------------------------------------------------------
(***************************************************************************)
(* Type correctness, step by step.                                          *)
(***************************************************************************)
Types == ServerType /\ CopyType /\ JobType /\ PastType /\ kind \in [Messages -> Kinds]

LEMMA DisputedType == \A k \in Keys : \A J : Disputed(k, J) \subseteq Keys
BY DEF Disputed

LEMMA FaultType == ASSUME PastType, faults < MaxFaults, faults' = faults + 1
                   PROVE  faults' \in 0..MaxFaults
BY MailboxAssumption DEF PastType

LEMMA SelectType ==
    ASSUME Types, NEW j \in Jobs, NEW f, Select(j, f)
    PROVE  /\ f \in Folders /\ known' \subseteq Folders
           /\ key' = [key EXCEPT ![j] = <<f, 0>>]
           /\ key' \in [Jobs -> (Folders \cup {"none"}) \X (Uids \cup {0})]
           /\ pc' = [pc EXCEPT ![j] = "fetch"]
           /\ pc' \in [Jobs -> Steps]
BY KeyFacts DEF Types, ServerType, CopyType, JobType, Select, Goto, Steps

\* Synchronizations: jobs and the row of a folder change.
LEMMA SyncTypes ==
    ASSUME Types, NEW j \in Jobs,
           \/ \E f : Sync(j, f)
           \/ SyncAll(j) \/ NextFolder(j) \/ SelectAgain(j)
    PROVE  Types'
<1> USE DEF vars, server, copy, job, past
<1>1. CASE \E f : Sync(j, f)
  BY <1>1, SelectType DEF Sync, Types, ServerType, CopyType, JobType, PastType
<1>2. CASE SyncAll(j)
  <2>1. Standard \subseteq Folders
    BY DEF Standard
  <2> QED
    BY <1>2, <2>1 DEF SyncAll, Goto, Types, ServerType, CopyType, JobType, PastType, Steps, Ops
<1>3. CASE NextFolder(j)
  BY <1>3, SelectType DEF NextFolder, Types, ServerType, CopyType, JobType, PastType
<1>4. CASE SelectAgain(j)
  <2>1. CASE key[j][1] \in exists
    BY <1>4, <2>1, SelectType DEF SelectAgain, Types, ServerType, CopyType, JobType, PastType
  <2>2. CASE key[j][1] \notin exists
    BY <1>4, <2>2, StopType DEF SelectAgain, Types, ServerType, CopyType, PastType
  <2> QED
    BY <2>1, <2>2
<1> QED
  BY <1>1, <1>2, <1>3, <1>4

LEMMA EndSyncType ==
    ASSUME JobType, NEW j \in Jobs, key[j][1] \in Folders, EndSync(j)
    PROVE  JobType'
<1>1. CASE op[j] = "create"
  <2>1. /\ pc' = [pc EXCEPT ![j] = "rows"]
        /\ rest' = [rest EXCEPT ![j] = {key[j][1]}]
        /\ todo' = [todo EXCEPT ![j] = {}]
        /\ UNCHANGED <<op, key, want>>
    BY <1>1 DEF EndSync, Goto
  <2>2. {key[j][1]} \in SUBSET Folders
    OBVIOUS
  <2> QED
    BY <2>1, <2>2 DEF JobType, Steps
<1>2. CASE op[j] # "create"
  BY <1>2, StopType DEF EndSync
<1> QED
  BY <1>1, <1>2

\* What Fetch brings.
Fetched(f, n) ==
    {[uid |-> at[m][2], msg |-> m, flags |-> flags[m]] :
       m \in {x \in In(f) : Cardinality({y \in In(f) : at[y][2] > at[x][2]}) < n}}

LEMMA FetchedFacts ==
    ASSUME ServerType, NEW f \in Folders, NEW n
    PROVE  /\ Fetched(f, n) \subseteq Entry
           /\ \A e \in Fetched(f, n) : /\ e.msg \in Messages
                                       /\ at[e.msg] = <<f, e.uid>>
                                       /\ flags[e.msg] = e.flags
<1>1. ASSUME NEW m \in In(f)
      PROVE  /\ m \in Messages /\ at[m] \in Keys /\ at[m] = <<f, at[m][2]>>
             /\ at[m][2] \in Uids /\ flags[m] \in SUBSET Flags
  BY KeyFacts DEF In, ServerType
<1>2. ASSUME NEW e \in Fetched(f, n)
      PROVE  /\ e \in Entry /\ e.msg \in Messages /\ at[e.msg] = <<f, e.uid>>
             /\ flags[e.msg] = e.flags
  <2>1. PICK m \in In(f) : e = [uid |-> at[m][2], msg |-> m, flags |-> flags[m]]
    BY DEF Fetched
  <2>2. e \in Entry
    BY <1>1, <2>1, EntryFacts
  <2> QED
    BY <1>1, <2>1, <2>2
<1> QED
  BY <1>2

LEMMA FetchTypes ==
    ASSUME Types, MailInv, NEW j \in Jobs, Fetch(j)
    PROVE  Types'
<1>1. key[j][1] \in Folders
  BY DEF Fetch, MailInv, JobOK, KeyOK
<1>2. CASE In(key[j][1]) = {}
  BY <1>1, <1>2, EndSyncType DEF Fetch, Types, ServerType, CopyType, PastType, server, copy, past
<1>3. CASE In(key[j][1]) # {}
  <2>1. PICK n \in Limits : todo' = [todo EXCEPT ![j] = Fetched(key[j][1], n)]
    BY <1>3 DEF Fetch, Fetched
  <2>2. Fetched(key[j][1], n) \subseteq Entry
    BY <1>1, FetchedFacts DEF Types
  <2>3. JobType'
    BY <1>3, <2>1, <2>2 DEF Fetch, Goto, Types, JobType, Steps
  <2> QED
    BY <2>3 DEF Fetch, Types, ServerType, CopyType, PastType, server, copy, past
<1> QED
  BY <1>2, <1>3

\* A row is written in place of another.
LEMMA WriteType ==
    ASSUME CopyType, NEW k, NEW r \in Row \cup {NoRow}, cache' = [cache EXCEPT ![k] = r]
    PROVE  cache' \in [Keys -> Row \cup {NoRow}]
BY DEF CopyType

LEMMA CopiedFacts ==
    ASSUME CopyType, NEW k \in Keys, NEW e \in Entry
    PROVE  /\ Copied(k, e) \in Row \cup {NoRow}
           /\ \/ Copied(k, e).msg = e.msg /\ Copied(k, e).flags = e.flags
                 /\ ~Copied(k, e).hidden /\ ~Copied(k, e).fraud
              \/ /\ kind[e.msg] = "header" /\ k[1] \in Inbound
                 /\ Cached(k) /\ Copied(k, e).msg = cache[k].msg
                 /\ Copied(k, e).flags = cache[k].flags
                 /\ Copied(k, e).hidden /\ Copied(k, e).fraud = cache[k].fraud
              \/ Copied(k, e) = NoRow
<1>1. cache[k] \in Row \cup {NoRow}
  BY DEF CopyType
<1>2. e.msg \in Messages /\ e.flags \in SUBSET Flags
  BY EntryFacts
<1>3. CASE kind[e.msg] = "header" /\ k[1] \in Inbound /\ Cached(k)
  <2>1. cache[k] \in Row
    BY <1>1, <1>3 DEF Cached
  <2>2. PICK r \in Row : r = cache[k]
    BY <2>1
  <2>3. Copied(k, e) = [r EXCEPT !.hidden = TRUE]
    BY <1>3, <2>2 DEF Copied
  <2>4. LET x == [r EXCEPT !.hidden = TRUE]
        IN  x \in Row /\ x.msg = r.msg /\ x.flags = r.flags /\ x.hidden /\ x.fraud = r.fraud
    BY DEF Row
  <2> QED
    BY <1>3, <2>2, <2>3, <2>4
<1>4. CASE kind[e.msg] = "header" /\ k[1] \in Inbound /\ ~Cached(k)
  BY <1>4 DEF Copied
<1>5. CASE ~(kind[e.msg] = "header" /\ k[1] \in Inbound)
  <2>1. Copied(k, e) = [msg |-> e.msg, flags |-> e.flags, hidden |-> FALSE, fraud |-> FALSE]
    BY <1>5 DEF Copied
  <2>2. [msg |-> e.msg, flags |-> e.flags, hidden |-> FALSE, fraud |-> FALSE] \in Row
    BY <1>2, RowFacts
  <2> QED
    BY <2>1, <2>2
<1> QED
  BY <1>3, <1>4, <1>5

LEMMA WriteRowTypes ==
    ASSUME Types, MailInv, NEW j \in Jobs, WriteRow(j)
    PROVE  Types'
<1>1. key[j][1] \in Folders
  BY DEF WriteRow, MailInv, JobOK, KeyOK
<1>2. PICK e \in todo[j] :
         /\ cache' = [cache EXCEPT ![Spot(j, e)] = Copied(Spot(j, e), e)]
         /\ IF todo[j] = {e} THEN EndSync(j)
            ELSE /\ todo' = [todo EXCEPT ![j] = @ \ {e}]
                 /\ UNCHANGED <<pc, op, key, want, rest>>
         /\ strayed' \subseteq strayed /\ doubt' \subseteq doubt
  BY DEF WriteRow, Spot
<1>3. e \in Entry /\ Spot(j, e) \in Keys
  BY <1>1, EntryFacts, KeyFacts DEF Types, JobType, Spot
<1>4. cache' \in [Keys -> Row \cup {NoRow}]
  BY <1>2, <1>3, CopiedFacts, WriteType DEF Types
<1>5. JobType'
  <2>1. CASE todo[j] = {e}
    BY <1>1, <1>2, <2>1, EndSyncType DEF Types
  <2>2. CASE todo[j] # {e}
    BY <1>2, <2>2 DEF Types, JobType
  <2> QED
    BY <2>1, <2>2
<1> QED
  BY <1>2, <1>4, <1>5 DEF WriteRow, Types, ServerType, CopyType, PastType, server

\* The row of k, if there is one, keeps its message and gets these values.
Edited(k) ==
    /\ cache' \in [Keys -> Row \cup {NoRow}]
    /\ \A x \in Keys \ {k} : cache'[x] = cache[x]
    /\ cache'[k].msg = cache[k].msg
    /\ Cached(k)' <=> Cached(k)

Rewritten(k, fl, h, fr) ==
    /\ Edited(k)
    /\ Cached(k) => cache'[k].flags = fl /\ cache'[k].hidden = h /\ cache'[k].fraud = fr

LEMMA RewriteFacts ==
    ASSUME CopyType, NEW k \in Keys, NEW fl, NEW h, NEW fr, NEW new,
           Cached(k) => /\ new \in Row /\ new.msg = cache[k].msg
                        /\ new.flags = fl /\ new.hidden = h /\ new.fraud = fr,
           cache' = [cache EXCEPT ![k] = IF Cached(k) THEN new ELSE NoRow]
    PROVE  Rewritten(k, fl, h, fr)
<1>1. cache'[k] = (IF Cached(k) THEN new ELSE NoRow) /\ \A x \in Keys \ {k} : cache'[x] = cache[x]
  BY DEF CopyType
<1>2. cache' \in [Keys -> Row \cup {NoRow}]
  BY DEF CopyType
<1>3. CASE Cached(k)
  <2>1. new.msg \in Messages
    BY <1>3, RowFacts DEF CopyType, Cached
  <2>2. new # NoRow
    BY <1>3, <2>1, RowFacts
  <2> QED
    BY <1>1, <1>2, <1>3, <2>2 DEF Rewritten, Edited, Cached
<1>4. CASE ~Cached(k)
  BY <1>1, <1>2, <1>4 DEF Rewritten, Edited, Cached
<1> QED
  BY <1>3, <1>4

LEMMA EditFacts ==
    ASSUME NEW r \in Row
    PROVE  /\ LET x == [r EXCEPT !.hidden = TRUE]
              IN  /\ x \in Row /\ x.msg = r.msg
                  /\ x.flags = r.flags /\ x.hidden = TRUE /\ x.fraud = r.fraud
           /\ LET x == [r EXCEPT !.hidden = TRUE, !.fraud = TRUE]
              IN  /\ x \in Row /\ x.msg = r.msg
                  /\ x.flags = r.flags /\ x.hidden = TRUE /\ x.fraud = TRUE
           /\ \A b \in BOOLEAN :
              LET x == [r EXCEPT !.fraud = b]
              IN  /\ x \in Row /\ x.msg = r.msg
                  /\ x.flags = r.flags /\ x.hidden = r.hidden /\ x.fraud = b
           /\ \A fl \in SUBSET Flags :
              LET x == [r EXCEPT !.flags = fl]
              IN  /\ x \in Row /\ x.msg = r.msg
                  /\ x.flags = fl /\ x.hidden = r.hidden /\ x.fraud = r.fraud
<1>1. LET x == [r EXCEPT !.hidden = TRUE]
      IN  /\ x \in Row /\ x.msg = r.msg
          /\ x.flags = r.flags /\ x.hidden = TRUE /\ x.fraud = r.fraud
  BY DEF Row
<1>2. LET x == [r EXCEPT !.hidden = TRUE, !.fraud = TRUE]
      IN  /\ x \in Row /\ x.msg = r.msg
          /\ x.flags = r.flags /\ x.hidden = TRUE /\ x.fraud = TRUE
  BY DEF Row
<1>3. ASSUME NEW b \in BOOLEAN
      PROVE  LET x == [r EXCEPT !.fraud = b]
             IN  /\ x \in Row /\ x.msg = r.msg
                 /\ x.flags = r.flags /\ x.hidden = r.hidden /\ x.fraud = b
  BY DEF Row
<1>4. ASSUME NEW fl \in SUBSET Flags
      PROVE  LET x == [r EXCEPT !.flags = fl]
             IN  /\ x \in Row /\ x.msg = r.msg
                 /\ x.flags = fl /\ x.hidden = r.hidden /\ x.fraud = r.fraud
  BY DEF Row
<1> QED
  BY <1>1, <1>2, <1>3, <1>4, Zenon

LEMMA WishedType ==
    ASSUME JobType, NEW j \in Jobs, NEW fl \in SUBSET Flags
    PROVE  Wished(j, fl) \in SUBSET Flags
<1>1. want[j].flag \in Flags
  BY DEF JobType
<1> QED
  BY <1>1 DEF Wished

\* The rows the jobs write.
LEMMA HideFraudRow ==
    ASSUME Types, MailInv, NEW j \in Jobs, HideFraud(j)
    PROVE  \E e \in todo[j] :
              /\ Spot(j, e) = <<"INBOX", e.uid>> /\ Spot(j, e) \in Keys
              /\ Rewritten(Spot(j, e), cache[Spot(j, e)].flags, TRUE, TRUE)
              /\ IF todo[j] = {e} THEN Clear(j)
                 ELSE /\ todo' = [todo EXCEPT ![j] = @ \ {e}]
                      /\ UNCHANGED <<pc, op, key, want, rest>>
<1>1. key[j][1] = "INBOX"
  BY DEF HideFraud, MailInv, JobOK, KeyOK
<1>2. PICK e \in todo[j] :
         /\ cache' = [cache EXCEPT ![<<"INBOX", e.uid>>] =
               IF Cached(<<"INBOX", e.uid>>)
               THEN [cache[<<"INBOX", e.uid>>] EXCEPT !.hidden = TRUE, !.fraud = TRUE]
               ELSE NoRow]
         /\ IF todo[j] = {e} THEN Clear(j)
            ELSE /\ todo' = [todo EXCEPT ![j] = @ \ {e}]
                 /\ UNCHANGED <<pc, op, key, want, rest>>
  BY DEF HideFraud
<1>3. PICK k \in Keys : k = <<"INBOX", e.uid>>
  BY EntryFacts, KeyFacts DEF Types, JobType
<1>4. Cached(k) => cache[k] \in Row
  BY DEF Types, CopyType, Cached
<1>5. Rewritten(k, cache[k].flags, TRUE, TRUE)
  BY <1>2, <1>3, <1>4, EditFacts, RewriteFacts DEF Types
<1> QED
  BY <1>1, <1>2, <1>3, <1>5 DEF Spot

LEMMA HideRowRow ==
    ASSUME Types, MailInv, NEW j \in Jobs, HideRow(j)
    PROVE  key[j] \in Keys /\ Rewritten(key[j], cache[key[j]].flags, TRUE, cache[key[j]].fraud)
<1>1. PICK k \in Keys : k = key[j]
  BY DEF HideRow, MailInv, JobOK, KeyOK, OneKey
<1>2. cache' = [cache EXCEPT ![k] = IF Cached(k) THEN [cache[k] EXCEPT !.hidden = TRUE] ELSE NoRow]
  BY <1>1 DEF HideRow
<1>3. Cached(k) => cache[k] \in Row
  BY DEF Types, CopyType, Cached
<1>4. Rewritten(k, cache[k].flags, TRUE, cache[k].fraud)
  BY <1>2, <1>3, EditFacts, RewriteFacts DEF Types
<1> QED
  BY <1>1, <1>4

LEMMA FlagsRow ==
    ASSUME CopyType, NEW k \in Keys, NEW fl, Cached(k) => fl \in SUBSET Flags,
           cache' = [cache EXCEPT ![k] =
                       IF Cached(k) THEN [cache[k] EXCEPT !.flags = fl] ELSE NoRow]
    PROVE  Rewritten(k, fl, cache[k].hidden, cache[k].fraud)
<1>1. CASE Cached(k)
  <2>1. PICK r \in Row : r = cache[k]
    BY <1>1 DEF CopyType, Cached
  <2>2. PICK new : new = [r EXCEPT !.flags = fl]
    OBVIOUS
  <2>3. fl \in SUBSET Flags
    BY <1>1
  <2>4. /\ new \in Row /\ new.msg = r.msg /\ new.flags = fl
        /\ new.hidden = r.hidden /\ new.fraud = r.fraud
    BY <2>2, <2>3 DEF Row
  <2>5. cache' = [cache EXCEPT ![k] = IF Cached(k) THEN new ELSE NoRow]
    BY <1>1, <2>1, <2>2
  <2>6. Rewritten(k, fl, r.hidden, r.fraud)
    BY <2>1, <2>4, <2>5, RewriteFacts
  <2> QED
    BY <2>1, <2>6
<1>2. CASE ~Cached(k)
  <2>1. cache' = [cache EXCEPT ![k] = IF Cached(k) THEN NoRow ELSE NoRow]
    BY <1>2
  <2> QED
    BY <1>2, <2>1, RewriteFacts
<1> QED
  BY <1>1, <1>2

LEMMA SaveRowRow ==
    ASSUME Types, MailInv, NEW j \in Jobs, SaveRow(j)
    PROVE  /\ key[j] \in Keys
           /\ \E e \in todo[j] :
                 Rewritten(key[j], e.flags, cache[key[j]].hidden, cache[key[j]].fraud)
<1>1. PICK k \in Keys : k = key[j]
  BY DEF SaveRow, MailInv, JobOK, KeyOK, OneKey, Pending
<1>2. PICK e \in todo[j] :
         cache' = [cache EXCEPT ![k] = IF Cached(k) THEN [cache[k] EXCEPT !.flags = e.flags] ELSE NoRow]
  BY <1>1 DEF SaveRow
<1>3. PICK fl \in SUBSET Flags : fl = e.flags
  BY EntryFacts DEF Types, JobType
<1>4. cache' = [cache EXCEPT ![k] = IF Cached(k) THEN [cache[k] EXCEPT !.flags = fl] ELSE NoRow]
  BY <1>2, <1>3
<1>5. Rewritten(k, fl, cache[k].hidden, cache[k].fraud)
  BY <1>4, FlagsRow DEF Types
<1> QED
  BY <1>1, <1>3, <1>5

LEMMA UpdateRowRow ==
    ASSUME Types, MailInv, NEW j \in Jobs, UpdateRow(j)
    PROVE  /\ key[j] \in Keys
           /\ Rewritten(key[j], Wished(j, cache[key[j]].flags), cache[key[j]].hidden,
                        cache[key[j]].fraud)
<1>1. PICK k \in Keys : k = key[j]
  BY DEF UpdateRow, MailInv, JobOK, KeyOK, OneKey, Pending
<1>2. PICK fl : fl = Wished(j, cache[k].flags)
  OBVIOUS
<1>3. Cached(k) => fl \in SUBSET Flags
  BY <1>2, WishedType DEF Types, CopyType, Cached, Row
<1>4. cache' = [cache EXCEPT ![k] =
                 IF Cached(k) THEN [cache[k] EXCEPT !.flags = fl] ELSE NoRow]
  BY <1>1, <1>2 DEF UpdateRow
<1>5. Rewritten(k, fl, cache[k].hidden, cache[k].fraud)
  BY <1>3, <1>4, FlagsRow DEF Types
<1> QED
  BY <1>1, <1>2, <1>5

LEMMA NoteSenderRow ==
    ASSUME Types, MailInv, NEW j \in Jobs, NoteSender(j)
    PROVE  /\ key[j] \in Keys
           /\ \E e \in todo[j] :
                 Rewritten(key[j], cache[key[j]].flags, cache[key[j]].hidden, kind[e.msg] = "body")
<1>1. PICK k \in Keys : k = key[j]
  BY DEF NoteSender, MailInv, JobOK, KeyOK, OneKey
<1>2. PICK e \in todo[j], b \in BOOLEAN :
         /\ b = (kind[e.msg] = "body")
         /\ cache' = [cache EXCEPT ![k] = IF Cached(k) THEN [cache[k] EXCEPT !.fraud = b] ELSE NoRow]
  BY <1>1 DEF NoteSender
<1>3. Cached(k) => cache[k] \in Row
  BY DEF Types, CopyType, Cached
<1>4. Rewritten(k, cache[k].flags, cache[k].hidden, b)
  BY <1>2, <1>3, EditFacts, RewriteFacts DEF Types
<1> QED
  BY <1>1, <1>2, <1>4

-----------------------------------------------------------------------------
(***************************************************************************)
(* The steps, one after the other: synchronizations.                        *)
(***************************************************************************)

\* A job that held nothing and is at one of the places where nothing is held.
LEMMA FreeStep ==
    ASSUME Types, MailInv, NEW j \in Jobs, Quiet({j}),
           pc[j] \notin Pending \cup {"hide"},
           pc'[j] \in Free \cup {"fetch", "select", "drop"},
           pc'[j] \in {"fetch", "select", "drop"} => key'[j][1] \in Folders
    PROVE  MailInv'
<1>1. \A k \in Keys : Released({j}, k)
  BY DEF Released
<1>2. JobOK(j)'
  BY FreeJob
<1> QED
  BY <1>1, <1>2, QuietStep DEF Types

LEMMA SyncSteps ==
    ASSUME Types, MailInv, NEW j \in Jobs,
           \/ \E f : Sync(j, f)
           \/ SyncAll(j) \/ NextFolder(j) \/ SelectAgain(j)
    PROVE  MailInv'
<1> USE DEF server, copy, past
<1>1. CASE \E f : Sync(j, f)
  <2>1. PICK f : Sync(j, f)
    BY <1>1
  <2>2. f \in Folders /\ key' = [key EXCEPT ![j] = <<f, 0>>] /\ pc' = [pc EXCEPT ![j] = "fetch"]
    BY <2>1, SelectType DEF Sync
  <2>3. Quiet({j})
    BY <2>1, <2>2 DEF Sync, Quiet, StaysWith, Types, JobType
  <2> QED
    BY <2>1, <2>2, <2>3, FreeStep DEF Sync, Types, JobType, Pending
<1>2. CASE SyncAll(j)
  <2>1. Quiet({j})
    BY <1>2 DEF SyncAll, Goto, Quiet, StaysWith, Types, JobType
  <2> QED
    BY <1>2, <2>1, FreeStep DEF SyncAll, Goto, Types, JobType, Pending, Free
<1>3. CASE NextFolder(j)
  <2>1. PICK f : Select(j, f)
    BY <1>3 DEF NextFolder
  <2>2. f \in Folders /\ key' = [key EXCEPT ![j] = <<f, 0>>] /\ pc' = [pc EXCEPT ![j] = "fetch"]
    BY <2>1, SelectType
  <2>3. Quiet({j})
    BY <1>3, <2>2 DEF NextFolder, Quiet, StaysWith, Types, JobType
  <2> QED
    BY <1>3, <2>2, <2>3, FreeStep DEF NextFolder, Types, JobType, Pending
<1>4. CASE SelectAgain(j)
  <2>1. CASE key[j][1] \in exists
    <3>1. /\ key[j][1] \in Folders /\ key' = [key EXCEPT ![j] = <<key[j][1], 0>>]
          /\ pc' = [pc EXCEPT ![j] = "fetch"]
      BY <1>4, <2>1, SelectType DEF SelectAgain
    <3>2. Quiet({j})
      BY <1>4, <2>1, <3>1 DEF SelectAgain, Quiet, StaysWith, Types, JobType
    <3> QED
      BY <1>4, <3>1, <3>2, FreeStep DEF SelectAgain, Types, JobType, Pending
  <2>2. CASE key[j][1] \notin exists
    <3>1. Quiet({j}) /\ pc'[j] \in {"done", "next"}
      BY <1>4, <2>2 DEF SelectAgain, Stop, Quiet, StaysWith
    <3> QED
      BY <1>4, <3>1, FreeStep DEF SelectAgain, Pending, Free
  <2> QED
    BY <2>1, <2>2
<1> QED
  BY <1>1, <1>2, <1>3, <1>4

LEMMA EndSyncFree ==
    ASSUME Types, NEW j \in Jobs, EndSync(j)
    PROVE  /\ pc'[j] \in {"rows", "done", "next"}
           /\ \A i \in Jobs \ {j} : StaysWith(i)
<1>1. CASE op[j] = "create"
  BY <1>1 DEF EndSync, Goto, Types, JobType, StaysWith
<1>2. CASE op[j] # "create"
  BY <1>2 DEF EndSync, Stop, Types, JobType, StaysWith
<1> QED
  BY <1>1, <1>2

LEMMA FetchStep ==
    ASSUME Types, MailInv, NEW j \in Jobs, Fetch(j)
    PROVE  MailInv'
<1> USE DEF server, copy, past
<1>1. key[j][1] \in Folders /\ pc[j] = "fetch"
  BY DEF Fetch, MailInv, JobOK, KeyOK
<1>2. CASE In(key[j][1]) = {}
  <2>1. pc'[j] \in {"rows", "done", "next"} /\ Quiet({j})
    BY <1>2, EndSyncFree DEF Fetch, Quiet
  <2> QED
    BY <1>1, <2>1, FreeStep DEF Pending, Free
<1>3. CASE In(key[j][1]) # {}
  <2>1. PICK f, n : f = key[j][1] /\ todo' = [todo EXCEPT ![j] = Fetched(f, n)]
    <3>1. PICK n \in Limits : todo' = [todo EXCEPT ![j] = Fetched(key[j][1], n)]
      BY <1>3 DEF Fetch, Fetched
    <3> QED
      BY <3>1
  <2>2. /\ pc' = [pc EXCEPT ![j] = "write"] /\ key' = key /\ want' = want
        /\ UNCHANGED <<server, kind, copy, past>>
    BY <1>3 DEF Fetch, Goto
  <2>3. Quiet({j})
    BY <2>1, <2>2 DEF Quiet, StaysWith, Types, JobType
  <2>4. pc'[j] = "write" /\ key'[j] = key[j] /\ todo'[j] = Fetched(f, n)
    BY <2>1, <2>2 DEF Types, JobType
  <2>5. ASSUME NEW e \in Fetched(f, n)
        PROVE  /\ Spot(j, e)' = Spot(j, e) /\ Spot(j, e) \in Keys
               /\ e \in Entry /\ e.msg \in Messages
               /\ at[e.msg] = Spot(j, e) /\ flags[e.msg] = e.flags
    <3>1. /\ e \in Entry /\ e.msg \in Messages
          /\ at[e.msg] = <<f, e.uid>> /\ flags[e.msg] = e.flags
      BY <1>1, <2>1, FetchedFacts DEF Types
    <3> QED
      BY <1>1, <2>1, <2>4, <3>1, EntryFacts, KeyFacts DEF Spot
  <2>6. HeldOK(j)'
    <3>1. ASSUME NEW e \in Fetched(f, n)
          PROVE  Given(Spot(j, e))' /\ Claim(Spot(j, e), e.msg)'
      <4>1. PICK k \in Keys : k = Spot(j, e) /\ k = Spot(j, e)'
        BY <2>5
      <4>2. Given(k)' /\ Claim(k, e.msg)'
        BY <2>2, <2>5, <4>1 DEF MailInv, PlaceOK, Given, Claim, Firm
      <4> QED
        BY <4>1, <4>2 DEF Given, Claim, Firm
    <3> QED
      BY <1>1, <2>4, <3>1 DEF HeldOK
  <2>7. CopiedOK(j)'
    <3>1. ASSUME NEW d \in Fetched(f, n), NEW e \in Fetched(f, n), d.uid = e.uid
          PROVE  d = e
      <4>1. d.msg = e.msg
        BY <2>5, <3>1 DEF MailInv, PlaceOK, Spot
      <4> QED
        BY <2>5, <3>1, <4>1 DEF Entry
    <3> QED
      BY <2>2, <2>4, <2>5, <3>1 DEF CopiedOK
  <2>8. JobOK(j)'
    BY <1>1, <2>4, <2>6, <2>7 DEF JobOK, KeyOK, PurgeOK, WishOK, HideOK, OneKey, Pending
  <2>9. \A k \in Keys : Released({j}, k)
    BY <1>1 DEF Released, Pending
  <2> QED
    BY <2>3, <2>8, <2>9, QuietStep DEF Types
<1> QED
  BY <1>2, <1>3

LEMMA WriteRowStep ==
    ASSUME Types, MailInv, NEW j \in Jobs, WriteRow(j)
    PROVE  MailInv'
<1>1. PICK e \in todo[j], k \in Keys :
         /\ k = Spot(j, e)
         /\ cache' = [cache EXCEPT ![k] = Copied(k, e)]
         /\ IF todo[j] = {e} THEN EndSync(j)
            ELSE /\ todo' = [todo EXCEPT ![j] = @ \ {e}]
                 /\ UNCHANGED <<pc, op, key, want, rest>>
         /\ strayed' = IF Settled(j, k) THEN strayed \ {k} ELSE strayed
         /\ doubt' = IF Settled(j, k) THEN doubt \ {k} ELSE doubt
  <2>1. key[j][1] \in Folders
    BY DEF WriteRow, MailInv, JobOK, KeyOK
  <2>2. \A e \in todo[j] : Spot(j, e) \in Keys
    BY <2>1, EntryFacts, KeyFacts DEF Types, JobType, Spot
  <2> QED
    BY <2>2 DEF WriteRow, Spot
<1>2. pc[j] = "write" /\ UNCHANGED <<at, flags, nextUid, kind>>
  BY DEF WriteRow, server
<1>3. e \in Entry /\ e.msg \in Messages
  BY EntryFacts DEF Types, JobType
<1>4. /\ Given(k) /\ Claim(k, e.msg)
      /\ k \notin strayed => at[e.msg] = k
      /\ (k \notin doubt /\ at[e.msg] = k) => flags[e.msg] = e.flags
  BY <1>1, <1>2 DEF MailInv, JobOK, HeldOK, CopiedOK, Carrying
<1>5. cache'[k] = Copied(k, e) /\ \A x \in Keys \ {k} : cache'[x] = cache[x]
  BY <1>1 DEF Types, CopyType
<1>6. /\ \A x \in Keys \ {k} : Unforgotten(x)
      /\ strayed' \subseteq strayed /\ doubt' \subseteq doubt
      /\ Unforgotten(k) \/ Settled(j, k)
  BY <1>1 DEF Unforgotten
<1>7. \A i \in Jobs \ {j} : StaysWith(i)
  <2>1. CASE todo[j] = {e}
    BY <1>1, <2>1, EndSyncFree
  <2>2. CASE todo[j] # {e}
    BY <1>1, <2>2 DEF StaysWith, Types, JobType
  <2> QED
    BY <2>1, <2>2
<1>8. \A x : Released({j}, x)
  BY <1>2 DEF Released, Pending
<1>9. ASSUME NEW m \in Messages, k \notin doubt', at[m] = k, cache'[k].msg = m
      PROVE  \/ cache'[k].flags = flags[m]
             \/ cache[k].msg = m /\ cache'[k].flags = cache[k].flags
  <2>1. CASE Settled(j, k)
    BY <1>9, <2>1 DEF Settled
  <2>2. CASE ~Settled(j, k)
    <3>1. k \notin doubt
      BY <1>1, <1>9, <2>2
    <3>2. cache'[k] # NoRow
      BY <1>9, RowFacts
    <3>3. \/ cache'[k].msg = e.msg /\ cache'[k].flags = e.flags
          \/ cache'[k].msg = cache[k].msg /\ cache'[k].flags = cache[k].flags
      BY <1>3, <1>5, <3>2, CopiedFacts DEF Types
    <3>4. cache'[k].msg = e.msg => e.flags = flags[m]
      BY <1>4, <1>9, <3>1
    <3> QED
      BY <1>9, <3>3, <3>4
  <2> QED
    BY <2>1, <2>2
<1>10. RowOK(k)'
  <2> SUFFICES ASSUME Cached(k)'
               PROVE  RowOK(k)'
    BY DEF RowOK
  <2>1. /\ cache'[k] # NoRow
        /\ at' = at /\ flags' = flags /\ nextUid' = nextUid /\ kind' = kind
    BY <1>2 DEF Cached
  <2>2. CASE Settled(j, k)
    <3>1. PICK n \in Messages : n = cache'[k].msg /\ at[n] = k
      BY <2>2 DEF Settled, At
    <3>2. ~cache'[k].hidden /\ cache'[k].flags = flags[n]
      BY <2>2, <3>1 DEF Settled
    <3>3. ~cache'[k].fraud
      BY <1>3, <1>5, <2>1, <3>2, CopiedFacts DEF Types
    <3>4. k[2] < nextUid[k[1]] /\ \A m \in Messages : at[m] = k => m = n
      BY <3>1 DEF MailInv, PlaceOK
    <3> QED
      BY <2>1, <3>1, <3>2, <3>3, <3>4 DEF RowOK, Given, Claim, There
  <2>3. CASE ~Settled(j, k)
    <3>1. strayed' = strayed /\ doubt' = doubt
      BY <1>1, <2>3
    <3>2. CASE /\ cache'[k].msg = e.msg /\ cache'[k].flags = e.flags
               /\ ~cache'[k].hidden /\ ~cache'[k].fraud
      BY <1>4, <2>1, <3>1, <3>2 DEF RowOK, Given, Claim, Firm, There
    <3>3. CASE /\ kind[e.msg] = "header" /\ k[1] \in Inbound
               /\ Cached(k) /\ cache'[k].msg = cache[k].msg
               /\ cache'[k].flags = cache[k].flags
               /\ cache'[k].hidden /\ cache'[k].fraud = cache[k].fraud
      <4>1. PICK m \in Messages : m = cache[k].msg
        BY <3>3, RowFacts DEF Types, CopyType, Cached
      <4>2. RowOK(k) /\ Given(k) /\ Claim(k, m)
        BY <3>3, <4>1 DEF MailInv, RowOK
      <4>3. (k \notin strayed /\ at[m] = k) => m = e.msg
        BY <1>3, <1>4, <4>1 DEF MailInv, PlaceOK
      <4>4. (k \notin strayed /\ at[m] = k) => Blocked(m, k[1]) /\ kind[m] # "plain"
        BY <3>3, <4>3 DEF Blocked
      <4>5. (k \notin doubt /\ at[m] = k) => cache[k].flags = flags[m] \/ Waiting(k)'
        <5>1. ASSUME Waiting(k)
              PROVE  Waiting(k)'
          BY <1>2, <1>7, <5>1 DEF Waiting, StaysWith, Pending
        <5> QED
          BY <3>3, <4>1, <4>2, <5>1 DEF RowOK, There
      <4> QED
        BY <2>1, <3>1, <3>3, <4>1, <4>2, <4>4, <4>5
           DEF RowOK, Given, Claim, Firm, There, Blocked
    <3> QED
      BY <1>3, <1>5, <2>1, <3>2, <3>3, CopiedFacts DEF Types
  <2> QED
    BY <2>2, <2>3
<1>11. JobOK(j)'
  <2>1. CASE todo[j] = {e}
    BY <1>1, <2>1, EndSyncFree, FreeJob DEF Free
  <2>2. CASE todo[j] # {e}
    <3>1. /\ pc'[j] = "write" /\ key'[j] = key[j] /\ todo'[j] = todo[j] \ {e}
          /\ \A d : Spot(j, d)' = Spot(j, d)
      BY <1>1, <1>2, <2>2 DEF Types, JobType, Spot
    <3>2. ASSUME NEW d \in todo[j] \ {e}
          PROVE  /\ Spot(j, d) \in Keys \ {k} /\ Unforgotten(Spot(j, d))
                 /\ Spot(j, d) \in strayed' <=> Spot(j, d) \in strayed
                 /\ Spot(j, d) \in doubt' <=> Spot(j, d) \in doubt
      <4>1. d.uid # e.uid
        BY <1>2 DEF MailInv, JobOK, CopiedOK
      <4>2. Spot(j, d) # k /\ Spot(j, d) \in Keys
        BY <1>1, <1>2, <4>1, EntryFacts, KeyFacts
           DEF Spot, MailInv, JobOK, KeyOK, Types, JobType
      <4> QED
        BY <1>1, <1>6, <4>2
    <3>3. KeyOK(j)' /\ PurgeOK(j)' /\ WishOK(j)' /\ HideOK(j)'
      BY <1>2, <3>1 DEF MailInv, JobOK, KeyOK, PurgeOK, WishOK, HideOK, OneKey, Pending
    <3>4. HeldOK(j)'
      <4>1. ASSUME NEW d \in todo[j] \ {e}
            PROVE  Given(Spot(j, d))' /\ Claim(Spot(j, d), d.msg)'
        <5>1. PICK x \in Keys : x = Spot(j, d) /\ x = Spot(j, d)' /\ (x \in strayed' <=> x \in strayed)
                                 /\ (x \in doubt' <=> x \in doubt)
          BY <3>1, <3>2
        <5>2. Given(x) /\ Claim(x, d.msg)
          BY <1>2, <5>1 DEF MailInv, JobOK, HeldOK, Carrying
        <5>3. Given(x)' /\ Claim(x, d.msg)'
          BY <1>2, <5>1, <5>2 DEF Given, Claim, Firm
        <5> QED
          BY <5>1, <5>3 DEF Given, Claim, Firm
      <4>2. key[j][1] \in Folders
        BY <1>2 DEF MailInv, JobOK, KeyOK
      <4> QED
        BY <3>1, <4>1, <4>2 DEF HeldOK
    <3>5. CopiedOK(j)'
      BY <1>2, <3>1, <3>2 DEF MailInv, JobOK, CopiedOK
    <3> QED
      BY <3>3, <3>4, <3>5 DEF JobOK
  <2> QED
    BY <2>1, <2>2
<1>12. Unforgotten(k) \/ \A i \in Jobs \ {j} : ~Holds(i, k) /\ ~Selects(i, k)
  BY <1>6 DEF Settled
<1> QED
  BY <1>2, <1>5, <1>6, <1>7, <1>8, <1>9, <1>10, <1>11, <1>12, RowStep DEF Types

-----------------------------------------------------------------------------
(***************************************************************************)
(* The steps that write one row.                                            *)
(***************************************************************************)
LEMMA RewriteStep ==
    ASSUME Types, MailInv, NEW j \in Jobs, NEW k \in Keys,
           Edited(k),
           UNCHANGED <<at, flags, nextUid, kind, strayed, doubt>>,
           \A i \in Jobs \ {j} : StaysWith(i),
           JobOK(j)',
           \A x \in Keys \ {k} : Released({j}, x),
           \A m \in Messages : (Cached(k) /\ cache[k].msg = m /\ at[m] = k) =>
              /\ k \notin doubt => \/ cache'[k].flags = flags[m]
                                   \/ cache'[k].flags = cache[k].flags /\ pc[j] \notin Pending
              /\ k \notin strayed =>
                    /\ cache'[k].hidden =>
                          cache[k].hidden \/ (k[1] \in Inbound /\ kind[m] # "plain")
                    /\ cache'[k].fraud => kind[m] # "plain",
           Cached(k) => cache'[k].hidden \/ (~cache[k].hidden /\ pc[j] # "hide")
    PROVE  MailInv'
<1>1. /\ \A x \in Keys \ {k} : cache'[x] = cache[x]
      /\ cache'[k].msg = cache[k].msg
      /\ Cached(k)' <=> Cached(k)
  BY DEF Edited
<1>2. \A x : Unforgotten(x)
  BY DEF Unforgotten
<1>3. ASSUME NEW m \in Messages, k \notin doubt', at[m] = k, cache'[k].msg = m
      PROVE  \/ cache'[k].flags = flags[m]
             \/ cache[k].msg = m /\ cache'[k].flags = cache[k].flags
  <2>1. Cached(k)
    BY <1>1, <1>3, RowFacts DEF Cached
  <2> QED
    BY <1>1, <1>3, <2>1
<1>4. RowOK(k)'
  <2> SUFFICES ASSUME Cached(k)'
               PROVE  RowOK(k)'
    BY DEF RowOK
  <2>1. Cached(k)
    BY <1>1
  <2>2. PICK m \in Messages : m = cache[k].msg /\ m = cache'[k].msg
    BY <1>1, <2>1, RowFacts DEF Types, CopyType, Cached
  <2>3. RowOK(k) /\ Given(k) /\ Claim(k, m)
    BY <2>1, <2>2 DEF MailInv, RowOK
  <2>4. Given(k)' /\ Claim(k, m)'
    BY <2>3 DEF Given, Claim, Firm
  <2>5. (k \notin strayed /\ at[m] = k) => /\ cache'[k].hidden => Blocked(m, k[1])
                                           /\ cache'[k].fraud => kind[m] # "plain"
    BY <2>1, <2>2, <2>3 DEF RowOK, There, Blocked
  <2>6. (k \notin strayed /\ ~cache'[k].hidden) => at[m] = k \/ Hiding(k)'
    <3>1. ASSUME Hiding(k), pc[j] # "hide"
          PROVE  Hiding(k)'
      BY <3>1 DEF Hiding, StaysWith
    <3> QED
      BY <2>1, <2>2, <2>3, <3>1 DEF RowOK, There
  <2>7. (k \notin doubt /\ at[m] = k) => cache'[k].flags = flags[m] \/ Waiting(k)'
    <3>1. ASSUME Waiting(k), pc[j] \notin Pending
          PROVE  Waiting(k)'
      BY <3>1 DEF Waiting, StaysWith, Pending
    <3> QED
      BY <2>1, <2>2, <2>3, <3>1 DEF RowOK, There
  <2> QED
    BY <1>1, <2>1, <2>2, <2>4, <2>5, <2>6, <2>7 DEF RowOK, There, Blocked
<1> QED
  BY <1>1, <1>2, <1>3, <1>4, RowStep DEF Types

LEMMA ClearFree ==
    ASSUME Types, NEW j \in Jobs, Clear(j)
    PROVE  /\ pc'[j] = "done" /\ JobOK(j)'
           /\ \A i \in Jobs \ {j} : StaysWith(i)
<1>1. pc'[j] = "done"
  BY DEF Clear, Types, JobType
<1>2. JobOK(j)'
  BY <1>1, FreeJob DEF Free
<1>3. \A i \in Jobs \ {j} : StaysWith(i)
  BY DEF Clear, Types, JobType, StaysWith
<1> QED
  BY <1>1, <1>2, <1>3

\* What a job learns from a row is what the row tells.
LEMMA RowTells ==
    ASSUME Types, MailInv, NEW k \in Keys, Cached(k)
    PROVE  /\ cache[k] \in Row /\ cache[k].msg \in Messages
           /\ Given(k) /\ Claim(k, cache[k].msg)
           /\ (k \notin strayed /\ at[cache[k].msg] = k) =>
                 /\ cache[k].hidden => Blocked(cache[k].msg, k[1])
                 /\ cache[k].fraud => kind[cache[k].msg] # "plain"
           /\ (k \notin doubt /\ at[cache[k].msg] = k) =>
                 cache[k].flags = flags[cache[k].msg] \/ Waiting(k)
<1>1. cache[k] \in Row
  BY DEF Types, CopyType, Cached
<1> QED
  BY <1>1 DEF MailInv, RowOK, There, Row

\* A job that is new at a place, with entries for a folder.
LEMMA HoldingJob ==
    ASSUME NEW j \in Jobs, NEW f \in Folders, key'[j][1] = f,
           \A e \in todo'[j] : /\ <<f, e.uid>> \in Keys
                               /\ Given(<<f, e.uid>>)' /\ Claim(<<f, e.uid>>, e.msg)'
    PROVE  HeldOK(j)'
<1>1. \A e \in todo'[j] : Spot(j, e)' = <<f, e.uid>>
  BY DEF Spot
<1>2. ASSUME NEW e \in todo'[j]
      PROVE  Given(Spot(j, e))' /\ Claim(Spot(j, e), e.msg)'
  <2>1. PICK k \in Keys : k = <<f, e.uid>>
    OBVIOUS
  <2>2. Given(k)' /\ Claim(k, e.msg)' /\ Spot(j, e)' = k
    BY <1>1, <2>1
  <2> QED
    BY <2>2 DEF Given, Claim, Firm
<1> QED
  BY <1>2 DEF HeldOK

LEMMA LoadFraudsStep ==
    ASSUME Types, MailInv, NEW j \in Jobs, LoadFrauds(j)
    PROVE  Types' /\ MailInv'
<1> USE DEF server, copy, past
<1>1. CASE Frauds = {}
  <2>1. Clear(j) /\ pc[j] = "next" /\ UNCHANGED <<server, kind, copy, past, faults>>
    BY <1>1 DEF LoadFrauds
  <2>2. Types'
    BY <2>1, ClearType DEF Types, ServerType, CopyType, PastType
  <2>3. Quiet({j}) /\ pc'[j] = "done"
    BY <2>1, ClearFree DEF Quiet
  <2> QED
    BY <2>1, <2>2, <2>3, FreeStep DEF Pending, Free
<1>2. CASE Frauds # {}
  <2> DEFINE T == {[uid |-> u, msg |-> cache[<<"INBOX", u>>].msg, flags |-> {}] : u \in Frauds}
  <2>1. /\ pc[j] = "next"
        /\ pc' = [pc EXCEPT ![j] = "purge"] /\ key' = [key EXCEPT ![j] = <<"INBOX", 0>>]
        /\ todo' = [todo EXCEPT ![j] = T]
        /\ UNCHANGED <<server, kind, copy, past, faults, op, want, rest>>
    BY <1>2 DEF LoadFrauds, Goto
  <2>2. ASSUME NEW e \in T
        PROVE  /\ e \in Entry /\ <<"INBOX", e.uid>> \in Keys
               /\ Given(<<"INBOX", e.uid>>) /\ Claim(<<"INBOX", e.uid>>, e.msg)
               /\ (<<"INBOX", e.uid>> \notin strayed /\ at[e.msg] = <<"INBOX", e.uid>>) =>
                     kind[e.msg] # "plain"
    <3>1. PICK u \in Frauds : e = [uid |-> u, msg |-> cache[<<"INBOX", u>>].msg, flags |-> {}]
      OBVIOUS
    <3>2. PICK k \in Keys : /\ k = <<"INBOX", u>> /\ Cached(k) /\ cache[k].fraud /\ u \in Uids
      BY <3>1, KeyFacts DEF Frauds, Cached
    <3>3. e.uid = u /\ e.msg = cache[k].msg /\ e \in Entry
      BY <3>1, <3>2, RowTells, EntryFacts
    <3> QED
      BY <3>2, <3>3, RowTells
  <2> HIDE DEF T
  <2>3. JobType'
    <3>1. T \subseteq Entry
      BY <2>2
    <3> QED
      BY <2>1, <3>1, KeyFacts DEF Types, JobType, Steps
  <2>4. Types'
    BY <2>1, <2>3 DEF Types, ServerType, CopyType, PastType
  <2>5. pc'[j] = "purge" /\ key'[j] = <<"INBOX", 0>> /\ todo'[j] = T
    BY <2>1 DEF Types, JobType
  <2>6. Quiet({j})
    BY <2>1 DEF Quiet, StaysWith, Types, JobType
  <2>7. HeldOK(j)'
    <3>1. \A e \in T : Given(<<"INBOX", e.uid>>)' /\ Claim(<<"INBOX", e.uid>>, e.msg)'
      BY <2>1, <2>2 DEF Given, Claim, Firm
    <3> QED
      BY <2>2, <2>5, <3>1, KeyFacts, HoldingJob
  <2>8. JobOK(j)'
    BY <2>1, <2>2, <2>5, <2>7
       DEF JobOK, KeyOK, CopiedOK, PurgeOK, WishOK, HideOK, OneKey, Pending, Spot
  <2>9. \A k : Released({j}, k)
    BY <2>1 DEF Released, Pending
  <2> QED
    BY <2>4, <2>6, <2>8, <2>9, QuietStep DEF Types
<1> QED
  BY <1>1, <1>2

LEMMA RewriteTypes ==
    ASSUME Types, NEW k, NEW fl, NEW h, NEW fr, Rewritten(k, fl, h, fr), JobType',
           UNCHANGED <<server, kind, known, past, faults>>
    PROVE  Types'
BY DEF Types, Rewritten, Edited, ServerType, CopyType, PastType, server, past

LEMMA HideFraudStep ==
    ASSUME Types, MailInv, NEW j \in Jobs, HideFraud(j)
    PROVE  Types' /\ MailInv'
<1>1. PICK e \in todo[j], k \in Keys :
         /\ k = Spot(j, e) /\ k[1] = "INBOX"
         /\ Rewritten(k, cache[k].flags, TRUE, TRUE)
         /\ IF todo[j] = {e} THEN Clear(j)
            ELSE /\ todo' = [todo EXCEPT ![j] = @ \ {e}]
                 /\ UNCHANGED <<pc, op, key, want, rest>>
  <2>1. \A e \in todo[j] : Spot(j, e) = <<"INBOX", e.uid>> => Spot(j, e)[1] = "INBOX"
    OBVIOUS
  <2> QED
    BY <2>1, HideFraudRow
<1>2. pc[j] = "purge" /\ UNCHANGED <<server, kind, known, past, faults>>
  BY DEF HideFraud
<1>3. /\ e.msg \in Messages /\ Claim(k, e.msg) /\ Given(k)
      /\ (k \notin strayed /\ at[e.msg] = k) => kind[e.msg] # "plain"
  BY <1>1, <1>2, EntryFacts DEF Types, JobType, MailInv, JobOK, HeldOK, PurgeOK, Carrying
<1>4. JobType' /\ JobOK(j)' /\ \A i \in Jobs \ {j} : StaysWith(i)
  <2>1. CASE todo[j] = {e}
    BY <1>1, <2>1, ClearType, ClearFree DEF Types
  <2>2. CASE todo[j] # {e}
    <3>1. /\ todo' = [todo EXCEPT ![j] = todo[j] \ {e}]
          /\ UNCHANGED <<pc, op, key, want, rest>>
      BY <1>1, <2>2
    <3>2. JobType' /\ \A i \in Jobs \ {j} : StaysWith(i)
      BY <3>1 DEF Types, JobType, StaysWith
    <3>3. todo'[j] \subseteq todo[j] /\ pc'[j] = "purge" /\ key'[j] = key[j]
      BY <1>2, <3>1 DEF Types, JobType
    <3>4. HeldOK(j)'
      <4>1. ASSUME NEW d \in todo'[j]
            PROVE  /\ <<"INBOX", d.uid>> \in Keys
                   /\ Given(<<"INBOX", d.uid>>)' /\ Claim(<<"INBOX", d.uid>>, d.msg)'
        <5>1. Spot(j, d) = <<"INBOX", d.uid>> /\ d.uid \in Uids
          BY <1>2, <3>3, EntryFacts DEF Types, JobType, MailInv, JobOK, KeyOK, Spot
        <5>2. PICK x \in Keys : x = Spot(j, d) /\ x = <<"INBOX", d.uid>>
          BY <5>1, KeyFacts
        <5>3. Given(x) /\ Claim(x, d.msg)
          BY <1>2, <3>3, <5>2 DEF MailInv, JobOK, HeldOK, Carrying
        <5>4. Given(x)' /\ Claim(x, d.msg)'
          BY <1>2, <5>3 DEF Given, Claim, Firm, server, past
        <5> QED
          BY <5>2, <5>4
      <4> QED
        BY <1>2, <3>3, <4>1, HoldingJob, KeyFacts DEF MailInv, JobOK, KeyOK
    <3>5. JobOK(j)'
      BY <1>2, <3>3, <3>4 DEF MailInv, JobOK, KeyOK, CopiedOK, PurgeOK, WishOK, HideOK,
                              OneKey, Pending, Spot, server, past
    <3> QED
      BY <3>2, <3>5
  <2> QED
    BY <2>1, <2>2
<1>5. Types'
  BY <1>1, <1>2, <1>4, RewriteTypes
<1>6. \A m \in Messages : (k \notin strayed /\ at[m] = k /\ cache[k].msg = m) => kind[m] # "plain"
  BY <1>3 DEF Claim, Firm
<1>7. "INBOX" \in Inbound
  BY KeyFacts DEF Inbound
<1>8. \A x : Released({j}, x)
  BY <1>2 DEF Released, Pending
<1>9. Edited(k) /\ (Cached(k) => cache'[k].hidden /\ cache'[k].flags = cache[k].flags)
  BY <1>1 DEF Rewritten, Edited
<1>10. UNCHANGED <<at, flags, nextUid, kind, strayed, doubt>>
  BY <1>2 DEF server, past
<1>11. MailInv'
  BY <1>1, <1>2, <1>4, <1>6, <1>7, <1>8, <1>9, <1>10, RewriteStep DEF Pending
<1> QED
  BY <1>5, <1>11

\* What a job loads from the row of its key.
LEMMA LoadRowStep ==
    ASSUME Types, MailInv, NEW j \in Jobs, LoadRow(j)
    PROVE  Types' /\ MailInv'
<1> USE DEF server, copy, past
<1>1. PICK k \in Keys : k = key[j] /\ Given(k)
  BY DEF LoadRow, MailInv, JobOK, KeyOK, OneKey, Pending
<1>2. pc[j] = "load" /\ UNCHANGED <<server, kind, copy, past, faults>>
  BY DEF LoadRow
<1>3. CASE ~Cached(k)
  <2>1. Clear(j)
    BY <1>1, <1>3 DEF LoadRow
  <2>2. Types'
    BY <1>2, <2>1, ClearType DEF Types, ServerType, CopyType, PastType
  <2>3. Quiet({j}) /\ JobOK(j)'
    BY <1>2, <2>1, ClearFree DEF Quiet
  <2>4. \A x \in Keys : Released({j}, x)
    BY <1>1, <1>2, <1>3 DEF Released
  <2> QED
    BY <2>2, <2>3, <2>4, QuietStep DEF Types
<1>4. CASE Cached(k)
  <2>1. PICK e : e = [uid |-> k[2], msg |-> cache[k].msg, flags |-> Wished(j, cache[k].flags)]
    OBVIOUS
  <2>2. /\ pc' = [pc EXCEPT ![j] = "save"] /\ todo' = [todo EXCEPT ![j] = {e}]
        /\ UNCHANGED <<op, key, want, rest>>
    BY <1>1, <1>4, <2>1 DEF LoadRow, Goto
  <2>3. /\ e \in Entry /\ e.uid = k[2] /\ e.msg = cache[k].msg
        /\ e.flags = Wished(j, cache[k].flags) /\ e.msg \in Messages
    <3>1. cache[k].flags \in SUBSET Flags /\ cache[k].msg \in Messages
      BY <1>4, RowTells DEF Row
    <3> QED
      BY <2>1, <3>1, WishedType, KeyFacts, EntryFacts DEF Types
  <2>4. pc'[j] = "save" /\ todo'[j] = {e} /\ key'[j] = k /\ want'[j] = want[j]
    BY <1>1, <2>2 DEF Types, JobType
  <2>5. JobType'
    BY <2>2, <2>3 DEF Types, JobType, Steps
  <2>6. Types'
    BY <1>2, <2>5 DEF Types, ServerType, CopyType, PastType
  <2>7. Quiet({j})
    BY <1>2, <2>2 DEF Quiet, StaysWith, Types, JobType
  <2>8. k[1] \in Folders /\ <<k[1], k[2]>> = k
    BY KeyFacts
  <2>9. Given(k)' /\ Claim(k, e.msg)'
    BY <1>1, <1>2, <1>4, <2>3, RowTells DEF Given, Claim, Firm
  <2>10. HeldOK(j)'
    <3>1. \A d \in todo'[j] : <<k[1], d.uid>> = k /\ d.msg = e.msg
      BY <2>3, <2>4, <2>8
    <3> QED
      BY <2>4, <2>8, <2>9, <3>1, HoldingJob
  <2>11. KeyOK(j)'
    <3>1. PICK x : x = key'[j] /\ x = k
      BY <2>4
    <3>2. Given(key[j])'
      BY <2>9, <3>1 DEF Given, Firm
    <3> QED
      BY <2>3, <2>4, <3>2 DEF KeyOK, OneKey
  <2>12. WishOK(j)'
    <3>1. \A x : Wished(j, x)' = Wished(j, x)
      BY <2>4 DEF Wished
    <3>2. ASSUME NEW m \in Messages, k \notin doubt, at[m] = k
          PROVE  Wished(j, flags[m]) = flags[m]
      BY <1>1, <1>2, <3>2 DEF MailInv, JobOK, WishOK, Pending
    <3> QED
      BY <1>2, <2>4, <3>1, <3>2 DEF WishOK, Wished
  <2>13. CopiedOK(j)'
    <3>1. ASSUME k \notin doubt, at[e.msg] = k
          PROVE  flags[e.msg] = e.flags
      BY <1>1, <1>2, <2>3, <3>1 DEF MailInv, JobOK, WishOK, Pending
    <3>2. Spot(j, e)' = k
      BY <2>3, <2>4, <2>8 DEF Spot
    <3> QED
      BY <1>2, <2>4, <3>1, <3>2 DEF CopiedOK
  <2>14. JobOK(j)'
    BY <2>4, <2>10, <2>11, <2>12, <2>13 DEF JobOK, PurgeOK, HideOK
  <2>15. \A x \in Keys : Released({j}, x)
    BY <1>1, <1>2, <2>4 DEF Released, Pending
  <2> QED
    BY <2>6, <2>7, <2>14, <2>15, QuietStep DEF Types
<1> QED
  BY <1>3, <1>4

LEMMA SaveRowStep ==
    ASSUME Types, MailInv, NEW j \in Jobs, SaveRow(j)
    PROVE  Types' /\ MailInv'
<1>1. PICK k \in Keys, e \in todo[j] :
         k = key[j] /\ Rewritten(k, e.flags, cache[k].hidden, cache[k].fraud)
  BY SaveRowRow
<1>2. pc[j] = "save" /\ Clear(j) /\ UNCHANGED <<server, kind, known, past, faults>>
  BY DEF SaveRow
<1>3. Types'
  BY <1>1, <1>2, RewriteTypes, ClearType DEF Types
<1>4. /\ e.msg \in Messages /\ Claim(k, e.msg)
      /\ (k \notin doubt /\ at[e.msg] = k) => flags[e.msg] = e.flags
  <2>1. Spot(j, e) = k
    BY <1>1, <1>2, SpotFacts DEF Types, MailInv, Carrying
  <2> QED
    BY <1>2, <2>1, EntryFacts DEF Types, JobType, MailInv, JobOK, HeldOK, CopiedOK, Carrying
<1>5. Edited(k) /\ (Cached(k) => /\ cache'[k].flags = e.flags /\ cache'[k].hidden = cache[k].hidden
                                 /\ cache'[k].fraud => cache[k].fraud)
  BY <1>1 DEF Rewritten
<1>6. UNCHANGED <<at, flags, nextUid, kind, strayed, doubt>>
  BY <1>2 DEF server, past
<1>7. JobOK(j)' /\ \A i \in Jobs \ {j} : StaysWith(i)
  BY <1>2, ClearFree
<1>8. \A x \in Keys \ {k} : Released({j}, x)
  BY <1>1, <1>2 DEF Released
<1>9. ASSUME NEW m \in Messages, Cached(k), cache[k].msg = m, at[m] = k
      PROVE  /\ k \notin doubt => e.flags = flags[m]
             /\ k \notin strayed => (cache[k].fraud => kind[m] # "plain")
  BY <1>4, <1>9, RowTells DEF Claim, Firm
<1>10. MailInv'
  <2>1. ASSUME NEW m \in Messages, Cached(k), cache[k].msg = m, at[m] = k
        PROVE  /\ k \notin doubt => \/ cache'[k].flags = flags[m]
                                    \/ cache'[k].flags = cache[k].flags /\ pc[j] \notin Pending
               /\ k \notin strayed =>
                     /\ cache'[k].hidden =>
                           cache[k].hidden \/ (k[1] \in Inbound /\ kind[m] # "plain")
                     /\ cache'[k].fraud => kind[m] # "plain"
    BY <1>5, <1>9, <2>1
  <2>2. Cached(k) => cache'[k].hidden \/ (~cache[k].hidden /\ pc[j] # "hide")
    BY <1>2, <1>5
  <2> QED
    BY <1>5, <1>6, <1>7, <1>8, <2>1, <2>2, RewriteStep
<1> QED
  BY <1>3, <1>10

LEMMA UpdateRowStep ==
    ASSUME Types, MailInv, NEW j \in Jobs, UpdateRow(j)
    PROVE  Types' /\ MailInv'
<1>1. PICK k \in Keys :
         k = key[j] /\ Rewritten(k, Wished(j, cache[k].flags), cache[k].hidden, cache[k].fraud)
  BY UpdateRowRow
<1>2. pc[j] = "update" /\ Clear(j) /\ UNCHANGED <<server, kind, known, past, faults>>
  BY DEF UpdateRow
<1>3. Types'
  BY <1>1, <1>2, RewriteTypes, ClearType DEF Types
<1>4. Edited(k) /\ (Cached(k) => /\ cache'[k].flags = Wished(j, cache[k].flags)
                                 /\ cache'[k].hidden = cache[k].hidden
                                 /\ cache'[k].fraud => cache[k].fraud)
  BY <1>1 DEF Rewritten
<1>5. UNCHANGED <<at, flags, nextUid, kind, strayed, doubt>>
  BY <1>2 DEF server, past
<1>6. JobOK(j)' /\ \A i \in Jobs \ {j} : StaysWith(i)
  BY <1>2, ClearFree
<1>7. \A x \in Keys \ {k} : Released({j}, x)
  BY <1>1, <1>2 DEF Released
<1>8. ASSUME NEW m \in Messages, Cached(k), cache[k].msg = m, at[m] = k
      PROVE  /\ k \notin doubt => Wished(j, cache[k].flags) = flags[m]
             /\ k \notin strayed => (cache[k].fraud => kind[m] # "plain")
  <2>1. k \notin doubt => Wished(j, cache[k].flags) = flags[m]
    BY <1>1, <1>2, <1>8 DEF MailInv, JobOK, WishOK, Pending
  <2> QED
    BY <1>8, <2>1, RowTells
<1>9. MailInv'
  <2>1. ASSUME NEW m \in Messages, Cached(k), cache[k].msg = m, at[m] = k
        PROVE  /\ k \notin doubt => \/ cache'[k].flags = flags[m]
                                    \/ cache'[k].flags = cache[k].flags /\ pc[j] \notin Pending
               /\ k \notin strayed =>
                     /\ cache'[k].hidden =>
                           cache[k].hidden \/ (k[1] \in Inbound /\ kind[m] # "plain")
                     /\ cache'[k].fraud => kind[m] # "plain"
    BY <1>4, <1>8, <2>1
  <2>2. Cached(k) => cache'[k].hidden \/ (~cache[k].hidden /\ pc[j] # "hide")
    BY <1>2, <1>4
  <2> QED
    BY <1>4, <1>5, <1>6, <1>7, <2>1, <2>2, RewriteStep
<1> QED
  BY <1>3, <1>9

LEMMA NoteSenderStep ==
    ASSUME Types, MailInv, NEW j \in Jobs, NoteSender(j)
    PROVE  Types' /\ MailInv'
<1>1. PICK k \in Keys, e \in todo[j] :
         k = key[j] /\ Rewritten(k, cache[k].flags, cache[k].hidden, kind[e.msg] = "body")
  BY NoteSenderRow
<1>2. pc[j] = "sender" /\ Clear(j) /\ UNCHANGED <<server, kind, known, past, faults>>
  BY DEF NoteSender
<1>3. Types'
  BY <1>1, <1>2, RewriteTypes, ClearType DEF Types
<1>4. e.msg \in Messages /\ Claim(k, e.msg)
  <2>1. Spot(j, e) = k
    BY <1>1, <1>2, SpotFacts DEF Types, MailInv, Carrying
  <2> QED
    BY <1>2, <2>1, EntryFacts DEF Types, JobType, MailInv, JobOK, HeldOK, Carrying
<1>5. Edited(k) /\ (Cached(k) => /\ cache'[k].flags = cache[k].flags
                                 /\ cache'[k].hidden = cache[k].hidden
                                 /\ cache'[k].fraud => kind[e.msg] = "body")
  BY <1>1 DEF Rewritten
<1>6. UNCHANGED <<at, flags, nextUid, kind, strayed, doubt>>
  BY <1>2 DEF server, past
<1>7. JobOK(j)' /\ \A i \in Jobs \ {j} : StaysWith(i)
  BY <1>2, ClearFree
<1>8. \A x \in Keys \ {k} : Released({j}, x)
  BY <1>2 DEF Released, Pending
<1>9. ASSUME NEW m \in Messages, Cached(k), cache[k].msg = m, at[m] = k
      PROVE  k \notin strayed => m = e.msg
  BY <1>4, <1>9 DEF Claim, Firm
<1>10. MailInv'
  BY <1>2, <1>5, <1>6, <1>7, <1>8, <1>9, RewriteStep DEF Pending
<1> QED
  BY <1>3, <1>10

LEMMA HideRowStep ==
    ASSUME Types, MailInv, NEW j \in Jobs, HideRow(j)
    PROVE  Types' /\ MailInv'
<1>1. PICK k \in Keys :
         k = key[j] /\ Rewritten(k, cache[k].flags, TRUE, cache[k].fraud)
  BY HideRowRow
<1>2. pc[j] = "hide" /\ UNCHANGED <<server, kind, known, past, faults>>
  BY DEF HideRow
<1>3. UNCHANGED <<at, flags, nextUid, kind, strayed, doubt>>
  BY <1>2 DEF server, past
<1>4. JobType' /\ JobOK(j)' /\ \A i \in Jobs \ {j} : StaysWith(i)
  <2>1. CASE todo[j] = {}
    BY <2>1, ClearType, ClearFree DEF HideRow, Types
  <2>2. CASE todo[j] # {}
    <3>1. pc' = [pc EXCEPT ![j] = "batch"] /\ UNCHANGED <<op, key, todo, want, rest>>
      BY <2>2 DEF HideRow, Goto
    <3>2. JobType' /\ (\A i \in Jobs \ {j} : StaysWith(i)) /\ pc'[j] = "batch"
      BY <3>1 DEF Types, JobType, StaysWith, Steps
    <3>3. k[1] \in Folders /\ key'[j][1] = k[1]
      BY <1>1, <3>1, KeyFacts
    <3>4. ASSUME NEW d \in todo'[j]
          PROVE  <<k[1], d.uid>> \in Keys /\ Given(<<k[1], d.uid>>)' /\ Claim(<<k[1], d.uid>>, d.msg)'
      <4>1. Spot(j, d) = <<k[1], d.uid>> /\ d \in todo[j]
        BY <1>1, <3>1, <3>4 DEF Spot
      <4>2. PICK x \in Keys : x = Spot(j, d) /\ x = <<k[1], d.uid>>
        BY <3>3, <4>1, EntryFacts, KeyFacts DEF Types, JobType
      <4>3. Given(x) /\ Claim(x, d.msg)
        BY <1>2, <4>1, <4>2 DEF MailInv, JobOK, HeldOK, Carrying
      <4>4. Given(x)' /\ Claim(x, d.msg)'
        BY <1>3, <4>3 DEF Given, Claim, Firm
      <4> QED
        BY <4>2, <4>4
    <3>5. HeldOK(j)'
      BY <3>3, <3>4, HoldingJob
    <3>6. JobOK(j)'
      BY <3>2, <3>5 DEF JobOK, KeyOK, CopiedOK, PurgeOK, WishOK, HideOK, OneKey, Pending
    <3> QED
      BY <3>2, <3>6
  <2> QED
    BY <2>1, <2>2
<1>5. Types'
  BY <1>1, <1>2, <1>4, RewriteTypes
<1>6. Edited(k) /\ (Cached(k) => /\ cache'[k].flags = cache[k].flags /\ cache'[k].hidden)
  BY <1>1 DEF Rewritten
<1>7. \A x \in Keys \ {k} : Released({j}, x)
  BY <1>1, <1>2 DEF Released, Pending
<1>8. \A m \in Messages : at[m] = k => k \in strayed
  BY <1>1, <1>2 DEF MailInv, JobOK, HideOK
<1>9. MailInv'
  BY <1>2, <1>3, <1>4, <1>6, <1>7, <1>8, RewriteStep DEF Pending
<1> QED
  BY <1>5, <1>9

-----------------------------------------------------------------------------
(***************************************************************************)
(* The steps that change the server.                                        *)
(***************************************************************************)
LEMMA KeptIsCareful ==
    ASSUME ServerType, ServerType', PlaceOK, NEW S, NEW X, Kept(X),
           \A m \in Messages : at[m] \in Keys => kind'[m] = kind[m],
           strayed \subseteq strayed', doubt \subseteq doubt',
           \A k \in X : (\E m \in Messages : at[m] = k) =>
              \/ k \in strayed'
              \/ /\ \A i \in Jobs \ S : ~Holds(i, k)
                 /\ \E j \in S : pc'[j] = "hide" /\ key'[j] = k,
           \A k \in Keys, m \in Messages : (at[m] = k /\ flags'[m] # flags[m]) =>
              \/ k \in doubt'
              \/ /\ \A i \in Jobs \ S : ~Holds(i, k)
                 /\ \E j \in S : pc'[j] \in Pending /\ key'[j] = k,
           \A i \in Jobs \ S : StaysWith(i)
    PROVE  Careful(S) /\ \A k \in Keys : Unforgotten(k)
<1>1. \A k \in Keys : Unforgotten(k)
  BY DEF Unforgotten
<1>2. ASSUME NEW k \in Keys, k[2] < nextUid[k[1]]
      PROVE  k[2] < nextUid'[k[1]] /\ \A m \in Messages : at'[m] = k => at[m] = k
  <2>1. /\ k[1] \in Folders /\ k[2] \in Int /\ nextUid[k[1]] \in Int
        /\ nextUid[k[1]] <= nextUid'[k[1]] /\ nextUid'[k[1]] \in Int
    BY KeyFacts, MailboxAssumption DEF Kept, ServerType
  <2>2. k[2] < nextUid'[k[1]]
    BY <1>2, <2>1
  <2> QED
    BY <1>2, <2>2 DEF Kept
<1>3. ASSUME NEW k \in Keys, NEW m \in Messages, at[m] = k, at'[m] # k
      PROVE  k \in X
  BY <1>3 DEF Kept, PlaceOK
<1> QED
  BY <1>1, <1>2, <1>3 DEF Careful

\* What a job holds is still so after a careful step.
LEMMA StillHolds ==
    ASSUME NEW S, Careful(S), NEW k \in Keys, Unforgotten(k), Given(k)
    PROVE  Given(k)' /\ \A m \in Messages : Claim(k, m) => Claim(k, m)'
BY StillGiven DEF Claim, Firm, Unforgotten

LEMMA DisputedFacts ==
    ASSUME NEW k \in Keys, NEW J
    PROVE  Disputed(k, J) \subseteq Keys /\ (k \notin Disputed(k, J) => \A i \in J : ~Holds(i, k))
BY DEF Disputed

\* A flag is changed, and the row is told next.
LEMMA FlagStep ==
    ASSUME Types, MailInv, NEW j \in Jobs, NEW k \in Keys, NEW flag \in Flags,
           NEW add \in BOOLEAN, NEW next \in {"load", "update"},
           Flagged(k, flag, add), Given(k),
           pc[j] \notin Pending \cup {"hide"},
           doubt' = doubt \cup Disputed(k, Jobs \ {j}),
           want' = [want EXCEPT ![j] = [flag |-> flag, add |-> add]],
           pc' = [pc EXCEPT ![j] = next], key' = [key EXCEPT ![j] = k],
           todo' \in [Jobs -> SUBSET Entry], \A i \in Jobs \ {j} : todo'[i] = todo[i],
           UNCHANGED <<kind, copy, op, rest, strayed, faults>>
    PROVE  Types' /\ MailInv'
<1> USE DEF copy
<1>1. /\ ServerType' /\ PlaceOK' /\ Kept({}) /\ at' = at
      /\ \A m \in Messages : flags'[m] =
            (IF at[m] # k THEN flags[m] ELSE IF add THEN flags[m] \cup {flag} ELSE flags[m] \ {flag})
  BY FlaggedFacts DEF Types, MailInv
<1>2. /\ doubt \subseteq doubt' /\ doubt' \subseteq Keys
      /\ k \notin doubt' => \A i \in Jobs \ {j} : ~Holds(i, k)
  BY DisputedFacts DEF Types, PastType
<1>3. pc'[j] = next /\ key'[j] = k /\ want'[j].flag = flag /\ want'[j].add = add
  BY DEF Types, JobType
<1>4. Types'
  <2>1. JobType'
    BY KeyFacts DEF Types, JobType, Steps
  <2> QED
    BY <1>1, <1>2, <2>1 DEF Types, CopyType, PastType
<1>5. \A i \in Jobs \ {j} : StaysWith(i)
  BY DEF StaysWith, Types, JobType
<1>6. Careful({j}) /\ \A x \in Keys : Unforgotten(x)
  <2>1. \A x \in Keys, m \in Messages : (at[m] = x /\ flags'[m] # flags[m]) =>
           \/ x \in doubt'
           \/ /\ \A i \in Jobs \ {j} : ~Holds(i, x)
              /\ \E i \in {j} : pc'[i] \in Pending /\ key'[i] = x
    BY <1>1, <1>2, <1>3 DEF Pending
  <2> QED
    BY <1>1, <1>2, <1>5, <2>1, KeptIsCareful DEF Types, MailInv
<1>7. JobOK(j)'
  <2>1. KeyOK(j)'
    <3>1. Given(k)'
      BY <1>6, StillHolds
    <3>2. Given(key[j])'
      BY <1>3, <3>1 DEF Given, Firm
    <3> QED
      BY <1>3, <3>2 DEF KeyOK, OneKey, Pending
  <2>2. ASSUME NEW m \in Messages, k \notin doubt', at[m] = k
        PROVE  cache[k].msg = m => cache[k].flags = flags[m]
    <3>1. cache[k].msg = m => Cached(k)
      BY RowFacts DEF Cached
    <3>2. ~Waiting(k)
      BY <1>2, <2>2 DEF Waiting, Holds, Pending
    <3> QED
      BY <2>2, <3>1, <3>2, RowTells
  <2>3. WishOK(j)'
    <3>1. ASSUME NEW m \in Messages, k \notin doubt', at[m] = k
          PROVE  /\ (IF add THEN flags'[m] \cup {flag} ELSE flags'[m] \ {flag}) = flags'[m]
                 /\ cache[k].msg = m =>
                      (IF add THEN cache[k].flags \cup {flag} ELSE cache[k].flags \ {flag}) = flags'[m]
      BY <1>1, <2>2, <3>1
    <3> QED
      BY <1>1, <1>3, <3>1 DEF WishOK, Wished
  <2> QED
    BY <1>3, <2>1, <2>3
       DEF JobOK, HeldOK, CopiedOK, PurgeOK, HideOK, Carrying
<1>8. \A x \in Keys : Released({j}, x)
  BY DEF Released
<1>9. cache' = cache
  OBVIOUS
<1>10. MailInv'
  BY <1>1, <1>6, <1>7, <1>8, <1>9, ServerStep DEF Types
<1> QED
  BY <1>4, <1>10

LEMMA AsksFacts ==
    ASSUME Types, MailInv, NEW j \in Jobs, NEW k \in Keys, Asks(j, k)
    PROVE  pc[j] = "idle" /\ todo[j] = {} /\ Cached(k) /\ Given(k)
BY RowTells DEF Asks, MailInv, JobOK, KeyOK

LEMMA ChangeFlagStep ==
    ASSUME Types, MailInv, NEW j \in Jobs, PatchFlag(j) \/ BulkFlag(j)
    PROVE  Types' /\ MailInv'
<1>1. PICK k \in Keys, flag \in Flags, add \in BOOLEAN, next \in {"load", "update"} :
         ChangeFlag(j, k, flag, add, next)
  BY DEF PatchFlag, BulkFlag
<1>2. pc[j] = "idle" /\ Given(k)
  BY <1>1, AsksFacts DEF ChangeFlag
<1>3. /\ Flagged(k, flag, add) /\ doubt' = doubt \cup Disputed(k, Jobs \ {j})
      /\ want' = [want EXCEPT ![j] = [flag |-> flag, add |-> add]]
      /\ pc' = [pc EXCEPT ![j] = next] /\ key' = [key EXCEPT ![j] = k]
      /\ UNCHANGED <<todo, kind, copy, op, rest, strayed, faults>>
  BY <1>1 DEF ChangeFlag, Hold, Goto
<1>4. todo' \in [Jobs -> SUBSET Entry] /\ \A i \in Jobs \ {j} : todo'[i] = todo[i]
  BY <1>3 DEF Types, JobType
<1> QED
  BY <1>2, <1>3, <1>4, FlagStep DEF Pending

LEMMA MarkReadStep ==
    ASSUME Types, MailInv, NEW j \in Jobs, MarkRead(j)
    PROVE  Types' /\ MailInv'
<1>1. PICK e \in todo[j], k \in Keys :
         /\ k = Spot(j, e) /\ Flagged(k, "seen", TRUE)
         /\ doubt' = doubt \cup Disputed(k, Jobs \ {j})
         /\ key' = [key EXCEPT ![j] = k]
  <2>1. \A e \in todo[j] : Spot(j, e) \in Keys
    BY SpotFacts DEF MarkRead, Types, MailInv, Carrying
  <2> QED
    BY <2>1 DEF MarkRead, MatchKey, Spot
<1>2. /\ pc[j] = "think" /\ todo' = [todo EXCEPT ![j] = {}]
      /\ want' = [want EXCEPT ![j] = [flag |-> "seen", add |-> TRUE]]
      /\ pc' = [pc EXCEPT ![j] = "update"]
      /\ UNCHANGED <<kind, copy, op, rest, strayed, faults>>
  BY DEF MarkRead, Goto
<1>3. Given(k)
  BY <1>1, <1>2 DEF MailInv, JobOK, HeldOK, Carrying
<1>4. todo' \in [Jobs -> SUBSET Entry] /\ \A i \in Jobs \ {j} : todo'[i] = todo[i]
  BY <1>2 DEF Types, JobType
<1>5. "seen" \in Flags
  BY MailboxAssumption
<1> QED
  BY <1>1, <1>2, <1>3, <1>4, <1>5, FlagStep DEF Pending

\* What a job held before, it holds after a careful step of its own.
LEMMA HoldsOn ==
    ASSUME Types, MailInv, NEW j \in Jobs, NEW S, Careful(S), \A x \in Keys : Unforgotten(x),
           pc[j] \in Carrying, todo'[j] \subseteq todo[j], todo'[j] # {} => key'[j][1] = key[j][1]
    PROVE  HeldOK(j)'
<1>1. ASSUME NEW d \in todo'[j]
      PROVE  /\ key'[j][1] \in Folders
             /\ Given(Spot(j, d))' /\ Claim(Spot(j, d), d.msg)'
  <2>1. key'[j][1] = key[j][1] /\ d \in todo[j]
    BY <1>1
  <2>2. key[j][1] \in Folders /\ Given(Spot(j, d)) /\ Claim(Spot(j, d), d.msg)
    BY <2>1 DEF MailInv, JobOK, HeldOK
  <2>3. d.msg \in Messages /\ Spot(j, d) \in Keys
    BY <2>1, SpotFacts, EntryFacts DEF Types, JobType, MailInv
  <2>4. PICK k \in Keys : k = Spot(j, d) /\ k = Spot(j, d)'
    BY <2>1, <2>3 DEF Spot
  <2>5. Given(k)' /\ Claim(k, d.msg)'
    BY <2>2, <2>3, <2>4, StillHolds
  <2> QED
    BY <2>1, <2>2, <2>4, <2>5 DEF Given, Claim, Firm
<1> QED
  BY <1>1 DEF HeldOK

\* What is at a key is taken away, and its row hidden next.
LEMMA TakeStep ==
    ASSUME Types, MailInv, NEW j \in Jobs, NEW k \in Keys,
           ServerType', PlaceOK', Kept({k}), \A m \in Messages : at'[m] # k, flags' = flags,
           Given(k), pc[j] \notin Pending \cup {"hide"},
           strayed' = strayed \cup Disputed(k, Jobs \ {j}),
           pc' = [pc EXCEPT ![j] = "hide"], key' = [key EXCEPT ![j] = k],
           todo' \in [Jobs -> SUBSET Entry], \A i \in Jobs \ {j} : todo'[i] = todo[i],
           todo'[j] # {} => pc[j] \in Carrying /\ key[j][1] = k[1],
           todo'[j] \subseteq todo[j],
           UNCHANGED <<kind, copy, op, want, rest, doubt, faults>>
    PROVE  Types' /\ MailInv'
<1> USE DEF copy
<1>1. /\ strayed \subseteq strayed' /\ strayed' \subseteq Keys
      /\ k \notin strayed' => \A i \in Jobs \ {j} : ~Holds(i, k)
  BY DisputedFacts DEF Types, PastType
<1>2. pc'[j] = "hide" /\ key'[j] = k
  BY DEF Types, JobType
<1>3. Types'
  <2>1. JobType'
    BY KeyFacts DEF Types, JobType, Steps
  <2> QED
    BY <1>1, <2>1 DEF Types, CopyType, PastType
<1>4. \A i \in Jobs \ {j} : StaysWith(i)
  BY DEF StaysWith, Types, JobType
<1>5. Careful({j}) /\ \A x \in Keys : Unforgotten(x)
  <2>1. \A x \in {k} : (\E m \in Messages : at[m] = x) =>
           \/ x \in strayed'
           \/ /\ \A i \in Jobs \ {j} : ~Holds(i, x)
              /\ \E i \in {j} : pc'[i] = "hide" /\ key'[i] = x
    BY <1>1, <1>2
  <2>2. ServerType /\ PlaceOK /\ doubt \subseteq doubt'
    BY DEF Types, MailInv
  <2> QED
    BY <1>1, <1>4, <2>1, <2>2, KeptIsCareful
<1>6. JobOK(j)'
  <2>1. KeyOK(j)'
    <3>1. Given(k)'
      BY <1>5, StillHolds
    <3>2. Given(key[j])'
      BY <1>2, <3>1 DEF Given, Firm
    <3> QED
      BY <1>2, <3>2 DEF KeyOK, OneKey, Pending
  <2>2. HeldOK(j)'
    <3>1. CASE todo'[j] = {}
      BY <3>1 DEF HeldOK
    <3>2. CASE todo'[j] # {}
      BY <1>2, <1>5, <3>2, HoldsOn
    <3> QED
      BY <3>1, <3>2
  <2>3. HideOK(j)'
    BY <1>2 DEF HideOK
  <2> QED
    BY <1>2, <2>1, <2>2, <2>3 DEF JobOK, CopiedOK, PurgeOK, WishOK, Pending
<1>7. \A x \in Keys : Released({j}, x)
  BY DEF Released
<1>8. cache' = cache
  OBVIOUS
<1>9. MailInv'
  BY <1>5, <1>6, <1>7, <1>8, ServerStep DEF Types
<1> QED
  BY <1>3, <1>9

LEMMA RemoveStep ==
    ASSUME Types, MailInv, NEW j \in Jobs, NEW k \in Keys, NEW g \in Folders, Remove(j, k, g)
    PROVE  Types' /\ MailInv'
<1>1. Expunged(k) \/ Moved(k, g)
  BY DEF Remove
<1>2. /\ ServerType' /\ PlaceOK' /\ Kept({k})
      /\ (\A m \in Messages : at'[m] # k) /\ flags' = flags
  BY <1>1, MovedFacts, ExpungedFacts DEF Types, MailInv
<1>3. pc[j] = "idle" /\ todo[j] = {} /\ Given(k)
  BY AsksFacts DEF Remove
<1>4. /\ strayed' = strayed \cup Disputed(k, Jobs \ {j})
      /\ pc' = [pc EXCEPT ![j] = "hide"] /\ key' = [key EXCEPT ![j] = k]
      /\ UNCHANGED <<kind, copy, op, want, rest, doubt, faults, todo>>
  BY DEF Remove, Hold, Goto
<1>5. /\ todo' \in [Jobs -> SUBSET Entry] /\ (\A i \in Jobs \ {j} : todo'[i] = todo[i])
      /\ todo'[j] = {}
  BY <1>3, <1>4 DEF Types, JobType
<1> QED
  BY <1>2, <1>3, <1>4, <1>5, TakeStep DEF Pending

LEMMA MoveMatchStep ==
    ASSUME Types, MailInv, NEW j \in Jobs, MoveMatch(j)
    PROVE  Types' /\ MailInv'
<1>1. PICK e \in todo[j], k \in Keys, g \in Folders :
         /\ k = Spot(j, e) /\ Moved(k, g)
         /\ strayed' = strayed \cup Disputed(k, Jobs \ {j})
         /\ key' = [key EXCEPT ![j] = k]
         /\ todo' = [todo EXCEPT ![j] = @ \ {e}]
  <2>1. \A e \in todo[j] : Spot(j, e) \in Keys
    BY SpotFacts DEF MoveMatch, Types, MailInv, Carrying
  <2>2. rest[j] \subseteq Folders
    BY DEF Types, JobType
  <2> QED
    BY <2>1, <2>2 DEF MoveMatch, MatchKey, Spot
<1>2. /\ ServerType' /\ PlaceOK' /\ Kept({k})
      /\ (\A m \in Messages : at'[m] # k) /\ flags' = flags
  BY <1>1, MovedFacts DEF Types, MailInv
<1>3. /\ pc[j] = "batch" /\ pc' = [pc EXCEPT ![j] = "hide"]
      /\ UNCHANGED <<kind, copy, op, want, rest, doubt, faults>>
  BY DEF MoveMatch, Goto
<1>4. Given(k) /\ key[j][1] = k[1]
  BY <1>1, <1>3 DEF MailInv, JobOK, HeldOK, Carrying, Spot
<1>5. /\ todo' \in [Jobs -> SUBSET Entry] /\ (\A i \in Jobs \ {j} : todo'[i] = todo[i])
      /\ todo'[j] \subseteq todo[j]
  BY <1>1 DEF Types, JobType
<1> QED
  BY <1>1, <1>2, <1>3, <1>4, <1>5, TakeStep DEF Pending, Carrying

\* What is at a key is taken away, and its row stays.
LEMMA LoseStep ==
    ASSUME Types, MailInv, NEW j \in Jobs, NEW k \in Keys,
           ServerType', PlaceOK', Kept({k}), flags' = flags, JobType',
           faults' \in 0..MaxFaults,
           strayed' \subseteq Keys, strayed \subseteq strayed',
           (\E m \in Messages : at[m] = k) => k \in strayed',
           UNCHANGED <<kind, copy, doubt>>,
           \A i \in Jobs \ {j} : StaysWith(i),
           pc[j] \notin Pending \cup {"hide"},
           \/ pc'[j] \in Free
           \/ /\ pc[j] = "batch" /\ pc'[j] = "batch"
              /\ todo'[j] \subseteq todo[j] /\ key'[j] = key[j]
    PROVE  Types' /\ MailInv'
<1> USE DEF copy
<1>1. Types'
  BY DEF Types, CopyType, PastType
<1>2. Careful({j}) /\ \A x \in Keys : Unforgotten(x)
  BY KeptIsCareful DEF Types, MailInv
<1>3. JobOK(j)'
  <2>1. CASE pc'[j] \in Free
    BY <2>1, FreeJob DEF Free
  <2>2. CASE /\ pc[j] = "batch" /\ pc'[j] = "batch"
             /\ todo'[j] \subseteq todo[j] /\ key'[j] = key[j]
    <3>1. HeldOK(j)'
      BY <1>2, <2>2, HoldsOn DEF Carrying
    <3> QED
      BY <2>2, <3>1 DEF JobOK, KeyOK, CopiedOK, PurgeOK, WishOK, HideOK, OneKey, Pending
  <2> QED
    BY <2>1, <2>2
<1>4. \A x \in Keys : Released({j}, x)
  BY DEF Released
<1>5. cache' = cache
  OBVIOUS
<1>6. MailInv'
  BY <1>2, <1>3, <1>4, <1>5, ServerStep DEF Types
<1> QED
  BY <1>1, <1>6

LEMMA MoveStep ==
    ASSUME Types, MailInv, NEW j \in Jobs, NEW k \in Keys, NEW g \in Folders, Move(j, k, g)
    PROVE  Types' /\ MailInv'
<1>1. Moved(k, g) /\ Clear(j) /\ pc[j] = "idle" /\ strayed' = strayed \cup {k}
  BY DEF Move, Asks
<1>2. ServerType' /\ PlaceOK' /\ Kept({k}) /\ flags' = flags
  BY <1>1, MovedFacts DEF Types, MailInv
<1>3. JobType' /\ pc'[j] = "done" /\ \A i \in Jobs \ {j} : StaysWith(i)
  BY <1>1, ClearType, ClearFree DEF Types
<1>4. UNCHANGED <<kind, copy, doubt>> /\ faults' \in 0..MaxFaults
  BY DEF Move, Types, PastType
<1>5. /\ pc[j] \notin Pending \cup {"hide"}
      /\ pc'[j] \in Free \/ (pc[j] = "batch" /\ pc'[j] = "batch")
      /\ strayed' \subseteq Keys /\ strayed \subseteq strayed'
  BY <1>1, <1>3 DEF Free, Pending, Types, PastType
<1> QED
  BY <1>1, <1>2, <1>3, <1>4, <1>5, LoseStep

LEMMA SaveDraftStep ==
    ASSUME Types, MailInv, NEW j \in Jobs, NEW u \in Uids, SaveDraft(j, u)
    PROVE  Types' /\ MailInv'
<1>1. PICK k \in Keys : k = <<"Drafts", u>>
  BY KeyFacts
<1>2. /\ pc[j] = "idle" /\ Expunged(k)
      /\ strayed' = IF At(k) = {} THEN strayed ELSE strayed \cup {k}
      /\ pc' = [pc EXCEPT ![j] = "append"]
      /\ UNCHANGED <<kind, copy, op, key, todo, want, rest, doubt, faults>>
  BY <1>1 DEF SaveDraft, Goto
<1>3. ServerType' /\ PlaceOK' /\ Kept({k}) /\ flags' = flags
  BY <1>2, ExpungedFacts DEF Types, MailInv
<1>4. JobType' /\ pc'[j] = "append" /\ \A i \in Jobs \ {j} : StaysWith(i)
  BY <1>2 DEF Types, JobType, StaysWith, Steps
<1>5. /\ (\E m \in Messages : at[m] = k) => k \in strayed'
      /\ UNCHANGED <<kind, copy, doubt>> /\ faults' \in 0..MaxFaults
  BY <1>2 DEF At, Types, PastType
<1>6. /\ pc[j] \notin Pending \cup {"hide"}
      /\ pc'[j] \in Free \/ (pc[j] = "batch" /\ pc'[j] = "batch")
      /\ strayed' \subseteq Keys /\ strayed \subseteq strayed'
  BY <1>2, <1>4 DEF Free, Pending, Types, PastType
<1> QED
  BY <1>3, <1>4, <1>5, <1>6, LoseStep

LEMMA MoveFailsStep ==
    ASSUME Types, MailInv, NEW j \in Jobs, MoveFails(j)
    PROVE  Types' /\ MailInv'
<1>1. PICK e \in todo[j], k \in Keys :
         /\ k = Spot(j, e)
         /\ \/ UNCHANGED <<server, strayed, faults>>
            \/ /\ faults < MaxFaults /\ faults' = faults + 1
               /\ \/ UNCHANGED <<server, strayed>>
                  \/ /\ \E g \in Folders : Moved(k, g)
                     /\ strayed' = strayed \cup {k}
         /\ IF todo[j] = {e}
            THEN Clear(j)
            ELSE /\ todo' = [todo EXCEPT ![j] = @ \ {e}]
                 /\ UNCHANGED <<pc, op, key, want, rest>>
  <2>1. \A e \in todo[j] : Spot(j, e) \in Keys
    BY SpotFacts DEF MoveFails, Types, MailInv, Carrying
  <2>2. rest[j] \subseteq Folders
    BY DEF Types, JobType
  <2> QED
    BY <2>1, <2>2 DEF MoveFails, MatchKey, Spot
<1>2. pc[j] = "batch" /\ UNCHANGED <<kind, copy, doubt>>
  BY DEF MoveFails
<1>3. faults' \in 0..MaxFaults
  BY <1>1, FaultType DEF Types, PastType
<1>4. /\ JobType' /\ \A i \in Jobs \ {j} : StaysWith(i)
      /\ \/ pc'[j] = "done"
         \/ pc'[j] = "batch" /\ todo'[j] \subseteq todo[j] /\ key'[j] = key[j]
  <2>1. CASE todo[j] = {e}
    BY <1>1, <2>1, ClearType, ClearFree DEF Types
  <2>2. CASE todo[j] # {e}
    BY <1>1, <1>2, <2>2 DEF Types, JobType, StaysWith
  <2> QED
    BY <2>1, <2>2
<1>5. CASE UNCHANGED <<server, strayed>>
  <2>1. Quiet({j})
    BY <1>2, <1>4, <1>5 DEF Quiet, server, copy
  <2>2. Types'
    BY <1>2, <1>3, <1>4, <1>5 DEF Types, ServerType, CopyType, PastType, server, copy
  <2>3. JobOK(j)'
    <3>1. CASE pc'[j] = "done"
      BY <3>1, FreeJob DEF Free
    <3>2. CASE pc'[j] = "batch" /\ todo'[j] \subseteq todo[j] /\ key'[j] = key[j]
      <4>1. HeldOK(j)'
        BY <1>2, <2>1, <3>2, HoldsOn, QuietIsCareful DEF Carrying
      <4> QED
        BY <3>2, <4>1 DEF JobOK, KeyOK, CopiedOK, PurgeOK, WishOK, HideOK, OneKey, Pending
    <3> QED
      BY <1>4, <3>1, <3>2
  <2>4. \A x \in Keys : Released({j}, x)
    BY <1>2 DEF Released, Pending
  <2> QED
    BY <2>1, <2>2, <2>3, <2>4, QuietStep DEF Types
<1>6. CASE /\ \E g \in Folders : Moved(k, g)
           /\ strayed' = strayed \cup {k}
  <2>1. ServerType' /\ PlaceOK' /\ Kept({k}) /\ flags' = flags
    BY <1>6, MovedFacts DEF Types, MailInv
  <2>2. /\ pc[j] \notin Pending \cup {"hide"}
        /\ pc'[j] \in Free \/ (pc[j] = "batch" /\ pc'[j] = "batch")
        /\ strayed' \subseteq Keys /\ strayed \subseteq strayed'
    BY <1>2, <1>4, <1>6 DEF Free, Pending, Types, PastType
  <2> QED
    BY <1>2, <1>3, <1>4, <1>6, <2>1, <2>2, LoseStep
<1> QED
  BY <1>1, <1>5, <1>6

\* A message is opened: the server marks it as seen.
LEMMA OpenedFacts ==
    ASSUME Types, PlaceOK, NEW k \in Keys, Opened(k)
    PROVE  /\ ServerType' /\ PlaceOK' /\ Kept({}) /\ at' = at
           /\ doubt \subseteq doubt' /\ doubt' \subseteq Keys
           /\ \A x \in Keys, m \in Messages : (at[m] = x /\ flags'[m] # flags[m]) => x \in doubt'
<1>1. /\ ServerType' /\ PlaceOK' /\ Kept({}) /\ at' = at
      /\ \A m \in Messages : flags'[m] = (IF at[m] # k THEN flags[m] ELSE flags[m] \cup {"seen"})
  <2>1. PICK flag \in Flags, add \in BOOLEAN : flag = "seen" /\ add = TRUE /\ Flagged(k, flag, add)
    BY MailboxAssumption DEF Opened
  <2>2. /\ ServerType' /\ PlaceOK' /\ Kept({}) /\ at' = at
        /\ \A m \in Messages : flags'[m] =
              (IF at[m] # k THEN flags[m] ELSE IF add THEN flags[m] \cup {flag} ELSE flags[m] \ {flag})
    <3>1. Flagged(k, flag, add) /\ ServerType
      BY <2>1 DEF Types
    <3> QED
      BY <3>1, FlaggedFacts
  <2> QED
    BY <2>1, <2>2
<1>2. doubt' = doubt \cup {at[m] : m \in {n \in At(k) : "seen" \notin flags[n]}}
  BY DEF Opened
<1>3. doubt \subseteq doubt' /\ doubt' \subseteq Keys
  BY <1>2 DEF At, Types, PastType
<1>4. ASSUME NEW m \in Messages, flags'[m] # flags[m]
      PROVE  at[m] \in doubt'
  <2>1. at[m] = k /\ "seen" \notin flags[m]
    BY <1>1, <1>4 DEF Types, ServerType
  <2> QED
    BY <1>2, <2>1 DEF At
<1> QED
  BY <1>1, <1>3, <1>4

LEMMA ReadBodyStep ==
    ASSUME Types, MailInv, NEW j \in Jobs, NEW k \in Keys, ReadBody(j, k)
    PROVE  Types' /\ MailInv'
<1> USE DEF copy
<1>1. /\ pc[j] = "idle" /\ todo[j] = {} /\ Given(k) /\ Opened(k)
      /\ UNCHANGED <<kind, copy, strayed, faults>>
  BY AsksFacts DEF ReadBody
<1>2. /\ ServerType' /\ PlaceOK' /\ Kept({}) /\ at' = at
      /\ doubt \subseteq doubt' /\ doubt' \subseteq Keys
      /\ \A x \in Keys, m \in Messages : (at[m] = x /\ flags'[m] # flags[m]) => x \in doubt'
  BY <1>1, OpenedFacts DEF MailInv
<1>3. ASSUME \A i \in Jobs \ {j} : StaysWith(i)
      PROVE  Careful({j}) /\ \A x \in Keys : Unforgotten(x)
  BY <1>1, <1>2, <1>3, KeptIsCareful DEF Types, MailInv
<1>4. /\ JobType' /\ (\A i \in Jobs \ {j} : StaysWith(i)) /\ JobOK(j)'
  <2>1. CASE At(k) = {}
    BY <2>1, ClearType, ClearFree DEF ReadBody, Types
  <2>2. CASE At(k) # {}
    <3>1. PICK m \in At(k) : todo' = [todo EXCEPT ![j] = {[uid |-> k[2], msg |-> m, flags |-> {}]}]
      BY <2>2 DEF ReadBody
    <3>2. /\ pc' = [pc EXCEPT ![j] = "sender"] /\ key' = [key EXCEPT ![j] = k]
          /\ UNCHANGED <<op, rest, want>>
      BY <2>2 DEF ReadBody, Hold, Goto
    <3>3. PICK e : e = [uid |-> k[2], msg |-> m, flags |-> {}]
      OBVIOUS
    <3>4. e.uid = k[2] /\ e.msg = m
      BY <3>3
    <3>5. JobType' /\ \A i \in Jobs \ {j} : StaysWith(i)
      <4>1. e \in Entry
        BY <3>3, KeyFacts, EntryFacts DEF At
      <4> QED
        BY <3>1, <3>2, <3>3, <4>1, KeyFacts DEF Types, JobType, Steps, StaysWith
    <3>6. pc'[j] = "sender" /\ key'[j] = k /\ todo'[j] = {e}
      BY <3>1, <3>2, <3>3 DEF Types, JobType
    <3>7. Given(k)' /\ Claim(k, e.msg)'
      <4>1. Given(k)'
        BY <1>1, <1>3, <3>5, StillHolds
      <4>2. \A n \in Messages : at[n] = k => n = m
        BY DEF MailInv, PlaceOK, At
      <4> QED
        BY <1>2, <3>4, <4>1, <4>2 DEF Claim
    <3>8. HeldOK(j)'
      <4>1. k[1] \in Folders /\ <<k[1], k[2]>> = k
        BY KeyFacts
      <4>2. \A d \in todo'[j] : <<k[1], d.uid>> = k /\ d.msg = e.msg
        BY <3>4, <3>6, <4>1
      <4> QED
        BY <3>6, <3>7, <4>1, <4>2, HoldingJob
    <3>9. KeyOK(j)'
      <4>1. Given(key[j])'
        BY <3>6, <3>7 DEF Given, Firm
      <4> QED
        BY <3>4, <3>6, <4>1 DEF KeyOK, OneKey
    <3>10. JobOK(j)'
      BY <3>6, <3>8, <3>9 DEF JobOK, CopiedOK, PurgeOK, WishOK, HideOK, Pending
    <3> QED
      BY <3>5, <3>10
  <2> QED
    BY <2>1, <2>2
<1>5. Types'
  BY <1>1, <1>2, <1>4 DEF Types, CopyType, PastType
<1>6. \A x \in Keys : Released({j}, x)
  BY <1>1 DEF Released, Pending
<1>7. MailInv'
  BY <1>1, <1>2, <1>3, <1>4, <1>6, ServerStep DEF Types
<1> QED
  BY <1>5, <1>7

LEMMA DownloadStep ==
    ASSUME Types, MailInv, NEW j \in Jobs, NEW k \in Keys, Download(j, k)
    PROVE  Types' /\ MailInv'
<1> USE DEF copy
<1>1. /\ pc[j] = "idle" /\ Opened(k) /\ Clear(j)
      /\ UNCHANGED <<kind, copy, strayed, faults>>
  BY DEF Download, Asks
<1>2. /\ ServerType' /\ PlaceOK' /\ Kept({}) /\ at' = at
      /\ doubt \subseteq doubt' /\ doubt' \subseteq Keys
      /\ \A x \in Keys, m \in Messages : (at[m] = x /\ flags'[m] # flags[m]) => x \in doubt'
  BY <1>1, OpenedFacts DEF MailInv
<1>3. JobType' /\ (\A i \in Jobs \ {j} : StaysWith(i)) /\ JobOK(j)'
  BY <1>1, ClearType, ClearFree DEF Types
<1>4. Careful({j}) /\ \A x \in Keys : Unforgotten(x)
  BY <1>1, <1>2, <1>3, KeptIsCareful DEF Types, MailInv
<1>5. Types'
  BY <1>1, <1>2, <1>3 DEF Types, CopyType, PastType
<1>6. \A x \in Keys : Released({j}, x)
  BY <1>1 DEF Released, Pending
<1>7. MailInv'
  BY <1>1, <1>2, <1>3, <1>4, <1>6, ServerStep DEF Types
<1> QED
  BY <1>5, <1>7

LEMMA AppendDraftStep ==
    ASSUME Types, MailInv, NEW j \in Jobs, AppendDraft(j)
    PROVE  Types' /\ MailInv'
<1> USE DEF copy, past
<1>1. PICK m \in Messages : Stored(m, "Drafts")
  BY DEF AppendDraft
<1>2. ServerType' /\ PlaceOK' /\ Kept({}) /\ flags' = flags
  BY <1>1, StoredFacts, KeyFacts DEF Types, MailInv
<1>3. pc[j] = "append" /\ UNCHANGED <<kind, copy, past, faults>>
  BY DEF AppendDraft
<1>4. JobType' /\ (\A i \in Jobs \ {j} : StaysWith(i)) /\ JobOK(j)'
  <2>1. CASE Clear(j)
    BY <2>1, ClearType, ClearFree DEF Types
  <2>2. CASE ~Clear(j)
    <3>1. /\ pc' = [pc EXCEPT ![j] = "select"] /\ op' = [op EXCEPT ![j] = "one"]
          /\ key' = [key EXCEPT ![j] = <<"Drafts", 0>>]
          /\ UNCHANGED <<todo, want, rest>>
      BY <2>2 DEF AppendDraft, Goto
    <3>2. JobType' /\ \A i \in Jobs \ {j} : StaysWith(i)
      BY <3>1, KeyFacts DEF Types, JobType, Steps, Ops, StaysWith
    <3>3. pc'[j] = "select" /\ key'[j][1] \in Folders
      BY <3>1, KeyFacts DEF Types, JobType
    <3> QED
      BY <3>2, <3>3, FreeJob DEF Free
  <2> QED
    BY <2>1, <2>2
<1>5. Careful({j}) /\ \A x \in Keys : Unforgotten(x)
  BY <1>2, <1>3, <1>4, KeptIsCareful DEF Types, MailInv
<1>6. Types'
  BY <1>2, <1>3, <1>4 DEF Types, CopyType, PastType
<1>7. \A x \in Keys : Released({j}, x)
  BY <1>3 DEF Released, Pending
<1>8. MailInv'
  BY <1>2, <1>3, <1>4, <1>5, <1>7, ServerStep DEF Types
<1> QED
  BY <1>6, <1>8

\* Steps of nobody.
LEMMA NobodyStep ==
    ASSUME Types, MailInv, ServerType', PlaceOK', UNCHANGED <<copy, job>>,
           kind' \in [Messages -> Kinds], strayed' \subseteq Keys, doubt' \subseteq Keys,
           faults' \in 0..MaxFaults, Careful({}), \A x \in Keys : Unforgotten(x)
    PROVE  Types' /\ MailInv'
<1>1. Types'
  BY DEF Types, CopyType, JobType, PastType, copy, job
<1>2. \A x \in Keys : Released({}, x)
  BY DEF Released
<1>3. cache' = cache
  BY DEF copy
<1>4. MailInv'
  BY <1>2, <1>3, ServerStep DEF Types
<1> QED
  BY <1>1, <1>4

LEMMA ArrivesStep ==
    ASSUME Types, MailInv, NEW m \in Messages, Arrives(m)
    PROVE  Types' /\ MailInv'
<1>1. /\ ServerType' /\ PlaceOK' /\ Kept({}) /\ flags' = flags /\ at[m] = New
  BY StoredFacts, KeyFacts DEF Arrives, Types, MailInv
<1>2. UNCHANGED <<copy, job, past, faults>> /\ \E new \in Kinds : kind' = [kind EXCEPT ![m] = new]
  BY DEF Arrives
<1>3. kind' \in [Messages -> Kinds] /\ \A n \in Messages : at[n] \in Keys => kind'[n] = kind[n]
  BY <1>1, <1>2, KeyFacts DEF Types
<1>4. \A i \in Jobs : StaysWith(i)
  BY <1>2 DEF StaysWith, job
<1>5. Careful({}) /\ \A x \in Keys : Unforgotten(x)
  BY <1>1, <1>2, <1>3, <1>4, KeptIsCareful DEF Types, MailInv, past
<1> QED
  BY <1>1, <1>2, <1>3, <1>5, NobodyStep DEF past, Types, PastType

LEMMA ElsewhereStep ==
    ASSUME Types, MailInv, NEW m \in Messages, Elsewhere(m)
    PROVE  Types' /\ MailInv'
<1>1. /\ at[m] \in Keys /\ faults < MaxFaults /\ faults' = faults + 1
      /\ UNCHANGED <<kind, copy, job>>
  BY DEF Elsewhere
<1>2. faults' \in 0..MaxFaults
  BY <1>1, FaultType DEF Types
<1>3. PICK k \in Keys : k = at[m]
  BY <1>1
<1>4. \A i \in Jobs : StaysWith(i)
  BY <1>1 DEF StaysWith, job
<1>5. CASE \E g \in exists \ {k[1]} : Moved(k, g) /\ strayed' = strayed \cup {k} /\ UNCHANGED doubt
  <2>1. ServerType' /\ PlaceOK' /\ Kept({k}) /\ flags' = flags
    BY <1>5, MovedFacts DEF Types, ServerType, MailInv
  <2>2. Careful({}) /\ \A x \in Keys : Unforgotten(x)
    BY <1>1, <1>4, <1>5, <2>1, KeptIsCareful DEF Types, MailInv
  <2> QED
    BY <1>1, <1>2, <1>5, <2>1, <2>2, NobodyStep DEF Types, PastType
<1>6. CASE \E flag \in Flags : Flagged(k, flag, flag \notin flags[m])
              /\ doubt' = doubt \cup {k} /\ UNCHANGED strayed
  <2>1. PICK flag \in Flags, add \in BOOLEAN : Flagged(k, flag, add)
    BY <1>6
  <2>2. /\ ServerType' /\ PlaceOK' /\ Kept({}) /\ at' = at
        /\ \A n \in Messages : flags'[n] =
              (IF at[n] # k THEN flags[n] ELSE IF add THEN flags[n] \cup {flag} ELSE flags[n] \ {flag})
    BY <2>1, FlaggedFacts DEF Types, MailInv
  <2>3. \A x \in Keys, n \in Messages : (at[n] = x /\ flags'[n] # flags[n]) => x \in doubt'
    BY <1>6, <2>2
  <2>4. kind' = kind /\ strayed' = strayed /\ doubt \subseteq doubt'
    BY <1>1, <1>6
  <2>5. Careful({}) /\ \A x \in Keys : Unforgotten(x)
    BY <1>4, <2>2, <2>3, <2>4, KeptIsCareful DEF Types, MailInv
  <2> QED
    BY <1>1, <1>2, <1>6, <2>2, <2>5, NobodyStep DEF Types, PastType
<1> QED
  BY <1>3, <1>5, <1>6 DEF Elsewhere

-----------------------------------------------------------------------------
(***************************************************************************)
(* Folders that are rebuilt, created and deleted, and broken calls.         *)
(***************************************************************************)
LEMMA FolderStep ==
    ASSUME Types, MailInv, NEW S \in SUBSET Jobs, NEW f \in Folders,
           ServerType', PlaceOK', flags' = flags, kind' = kind, cache' = cache,
           \A g \in Folders \ {f} : nextUid'[g] = nextUid[g],
           \A m \in Messages :
              \/ at[m] \in Keys /\ at[m][1] = f /\ (at'[m] \in Keys => at'[m][1] = f)
              \/ at'[m] = at[m],
           strayed' = strayed \cup {k \in Keys : k[1] = f},
           doubt' = doubt \cup {k \in Keys : k[1] = f},
           \A i \in Jobs \ S : StaysWith(i),
           \A j \in S : pc[j] \notin Pending \cup {"hide"} /\ JobOK(j)'
    PROVE  MailInv'
<1>1. \A k \in Keys : Unforgotten(k)
  BY DEF Unforgotten
<1>2. \A k \in Keys : k[1] \in Folders /\ (Firm(k)' => k[1] # f)
  BY KeyFacts DEF Firm
<1>3. Careful(S)
  <2>1. ASSUME NEW k \in Keys, Firm(k)', k[2] < nextUid[k[1]]
        PROVE  /\ k[2] < nextUid'[k[1]]
               /\ \A m \in Messages : at'[m] = k => at[m] = k
    BY <1>2, <2>1
  <2>2. ASSUME NEW k \in Keys, NEW m \in Messages, at[m] = k, at'[m] # k
        PROVE  k \in strayed'
    BY <2>2
  <2> QED
    BY <1>1, <2>1, <2>2 DEF Careful
<1>4. \A k \in Keys : Released(S, k)
  BY DEF Released
<1> QED
  BY <1>1, <1>3, <1>4, ServerStep DEF Types

LEMMA RebuildStep ==
    ASSUME Types, MailInv, NEW f \in Folders, Rebuild(f)
    PROVE  Types' /\ MailInv'
<1> USE DEF copy
<1>1. /\ Stop(Closed(f)) /\ faults < MaxFaults /\ faults' = faults + 1
      /\ strayed' = strayed \cup {k \in Keys : k[1] = f}
      /\ doubt' = doubt \cup {k \in Keys : k[1] = f}
      /\ UNCHANGED <<kind, flags, exists, copy>>
  BY DEF Rebuild
<1>2. /\ ServerType' /\ PlaceOK' /\ flags' = flags
      /\ \A g \in Folders \ {f} : nextUid'[g] = nextUid[g]
      /\ \A m \in Messages :
            \/ at[m] \in Keys /\ at[m][1] = f /\ at'[m] \in Keys /\ at'[m][1] = f
            \/ at'[m] = at[m]
  BY RebuiltFacts DEF Types, MailInv
<1>3. JobType'
  BY <1>1, StopType DEF Types
<1>4. \A i \in Jobs : StaysWith(i)
  BY <1>1 DEF Stop, Closed, StaysWith
<1>5. Types'
  BY <1>1, <1>2, <1>3, FaultType DEF Types, CopyType, PastType
<1>6. MailInv'
  <2>1. \A m \in Messages :
           \/ at[m] \in Keys /\ at[m][1] = f /\ (at'[m] \in Keys => at'[m][1] = f)
           \/ at'[m] = at[m]
    BY <1>2
  <2>2. PICK S \in SUBSET Jobs : S = {}
    OBVIOUS
  <2> QED
    BY <1>1, <1>2, <1>4, <2>1, <2>2, FolderStep
<1> QED
  BY <1>5, <1>6

LEMMA DeleteFolderStep ==
    ASSUME Types, MailInv, NEW j \in Jobs, NEW f \in Custom, DeleteFolder(j, f)
    PROVE  Types' /\ MailInv'
<1> USE DEF copy
<1>1. /\ pc[j] = "idle" /\ f \in Folders
      /\ at' = [m \in Messages |-> IF m \in In(f) THEN Gone ELSE at[m]]
      /\ nextUid' = [nextUid EXCEPT ![f] = 1]
      /\ exists' = exists \ {f}
      /\ strayed' = strayed \cup {k \in Keys : k[1] = f}
      /\ doubt' = doubt \cup {k \in Keys : k[1] = f}
      /\ UNCHANGED <<flags, kind, copy, todo, want, rest, faults>>
  BY MailboxAssumption DEF DeleteFolder
<1>2. /\ pc' = [i \in Jobs |-> IF i = j THEN "drop"
                               ELSE IF i \in Closed(f) THEN "done" ELSE pc[i]]
      /\ op' = [i \in Jobs |-> IF i \in Closed(f) THEN "none" ELSE op[i]]
      /\ key' = [i \in Jobs |-> IF i = j THEN <<f, 0>>
                                ELSE IF i \in Closed(f) THEN <<"none", 0>> ELSE key[i]]
  BY DEF DeleteFolder
<1>3. \A m \in Messages : IF at[m] \in Keys /\ at[m][1] = f THEN at'[m] = Gone ELSE at'[m] = at[m]
  BY <1>1, KeyFacts DEF In, Types, ServerType
<1>4. ServerType'
  <2>1. 1 \in 1..(MaxUid + 1)
    BY MailboxAssumption
  <2> QED
    BY <1>1, <2>1 DEF Types, ServerType
<1>5. /\ \A g \in Folders \ {f} : nextUid'[g] = nextUid[g]
      /\ \A m \in Messages :
            \/ at[m] \in Keys /\ at[m][1] = f /\ (at'[m] \in Keys => at'[m][1] = f)
            \/ at'[m] = at[m]
  BY <1>1, <1>3, KeyFacts DEF Types, ServerType
<1>6. PlaceOK'
  BY <1>3, <1>5, KeyFacts DEF PlaceOK, MailInv
<1>7. JobType'
  <2>1. pc' \in [Jobs -> Steps] /\ op' \in [Jobs -> Ops]
    BY <1>2 DEF Types, JobType, Steps, Ops
  <2>2. key' \in [Jobs -> (Folders \cup {"none"}) \X (Uids \cup {0})]
    BY <1>1, <1>2, KeyFacts DEF Types, JobType
  <2> QED
    BY <1>1, <2>1, <2>2 DEF Types, JobType
<1>8. Types'
  BY <1>1, <1>4, <1>7 DEF Types, CopyType, PastType
<1>9. \A i \in Jobs \ {j} : StaysWith(i)
  BY <1>1, <1>2 DEF StaysWith, Closed
<1>10. JobOK(j)'
  <2>1. pc'[j] = "drop" /\ key'[j][1] \in Folders
    BY <1>1, <1>2
  <2> QED
    BY <2>1, FreeJob
<1>11. PICK S \in SUBSET Jobs : S = {j}
  OBVIOUS
<1>12. MailInv'
  BY <1>1, <1>4, <1>5, <1>6, <1>9, <1>10, <1>11, FolderStep DEF Pending
<1> QED
  BY <1>8, <1>12

LEMMA DropFolderStep ==
    ASSUME Types, MailInv, NEW j \in Jobs, DropFolder(j)
    PROVE  Types' /\ MailInv'
<1>1. PICK f : /\ f = key[j][1] /\ pc[j] = "drop"
               /\ known' = known \ {f}
               /\ cache' = [k \in Keys |-> IF k[1] = f THEN NoRow ELSE cache[k]]
               /\ Stop({j} \cup {i \in Jobs : pc[i] \in {"fetch", "write"} /\ key[i][1] = f})
               /\ UNCHANGED <<server, kind, past, faults>>
  BY DEF DropFolder
<1>2. /\ UNCHANGED <<at, flags, nextUid, kind, strayed, doubt>>
      /\ \A k \in Keys : IF k[1] = f THEN cache'[k] = NoRow ELSE cache'[k] = cache[k]
  BY <1>1 DEF server, past
<1>3. Types'
  <2>1. JobType'
    BY <1>1, StopType DEF Types
  <2>2. cache' \in [Keys -> Row \cup {NoRow}]
    BY <1>1 DEF Types, CopyType
  <2> QED
    BY <1>1, <2>1, <2>2 DEF Types, ServerType, CopyType, PastType, server, past
<1>4. \A i \in Jobs \ {j} : StaysWith(i)
  BY <1>1 DEF Stop, StaysWith
<1>5. JobOK(j)'
  <2>1. pc'[j] \in {"done", "next"}
    BY <1>1 DEF Stop
  <2> QED
    BY <2>1, FreeJob DEF Free
<1>6. Careful({j}) /\ RowsAgree /\ \A k \in Keys : Unforgotten(k)
  <2>1. \A k \in Keys : Unforgotten(k)
    BY <1>2 DEF Unforgotten
  <2>2. RowsAgree
    BY <1>2, RowFacts DEF RowsAgree
  <2> QED
    BY <1>2, <1>4, <2>1, <2>2 DEF Careful
<1>7. \A i \in Jobs : JobOK(i)'
  BY <1>5, <1>6, OthersKeep DEF MailInv, Types
<1>8. ASSUME NEW k \in Keys
      PROVE  RowOK(k)'
  <2>1. CASE k[1] = f
    BY <1>2, <2>1 DEF RowOK, Cached
  <2>2. CASE k[1] # f
    <3>1. Released({j}, k)
      BY <1>1 DEF Released, Pending
    <3>2. cache'[k] = cache[k] /\ cache[k] \in Row \cup {NoRow}
      BY <1>2, <2>2 DEF Types, CopyType
    <3> QED
      BY <1>6, <3>1, <3>2, RowKept DEF MailInv
  <2> QED
    BY <2>1, <2>2
<1>9. PlaceOK'
  BY <1>2 DEF MailInv, PlaceOK
<1> QED
  BY <1>3, <1>7, <1>8, <1>9 DEF MailInv

LEMMA CreateFolderStep ==
    ASSUME Types, MailInv, NEW j \in Jobs, NEW f \in Custom, CreateFolder(j, f)
    PROVE  Types' /\ MailInv'
<1> USE DEF copy, past
<1>1. /\ pc[j] = "idle" /\ f \in Folders
      /\ pc' = [pc EXCEPT ![j] = "select"] /\ op' = [op EXCEPT ![j] = "create"]
      /\ key' = [key EXCEPT ![j] = <<f, 0>>] /\ exists' = exists \cup {f}
      /\ UNCHANGED <<at, flags, nextUid, kind, copy, todo, want, rest, past, faults>>
  BY MailboxAssumption DEF CreateFolder, Goto
<1>2. JobType' /\ pc'[j] = "select" /\ key'[j][1] = f
  BY <1>1, KeyFacts DEF Types, JobType, Steps, Ops
<1>3. Types'
  BY <1>1, <1>2 DEF Types, ServerType, CopyType, PastType
<1>4. Quiet({j})
  BY <1>1 DEF Quiet, StaysWith, Types, JobType
<1> QED
  BY <1>1, <1>2, <1>3, <1>4, FreeStep DEF Pending

LEMMA ListFoldersStep ==
    ASSUME Types, MailInv, NEW j \in Jobs, ListFolders(j)
    PROVE  Types' /\ MailInv'
<1> USE DEF server, copy, past
<1>1. Types' /\ pc'[j] = "rows" /\ Quiet({j})
  BY DEF ListFolders, Goto, Quiet, StaysWith, Types, ServerType, CopyType, JobType, PastType, Steps
<1> QED
  BY <1>1, FreeStep DEF ListFolders, Pending, Free

LEMMA WriteFoldersStep ==
    ASSUME Types, MailInv, NEW j \in Jobs, WriteFolders(j)
    PROVE  Types' /\ MailInv'
<1> USE DEF server, copy, past
<1>1. Clear(j) /\ pc[j] = "rows"
  BY DEF WriteFolders
<1>2. JobType' /\ pc'[j] = "done" /\ \A i \in Jobs \ {j} : StaysWith(i)
  BY <1>1, ClearType, ClearFree DEF Types
<1>3. Types' /\ Quiet({j})
  BY <1>2 DEF WriteFolders, Quiet, Types, ServerType, CopyType, JobType, PastType
<1> QED
  BY <1>1, <1>2, <1>3, FreeStep DEF Pending, Free

\* What a job that breaks off leaves to do, the history excuses.
LEMMA BreakStep ==
    ASSUME Types, MailInv, NEW j \in Jobs, Break(j)
    PROVE  Types' /\ MailInv'
<1> USE DEF server, copy, past
<1>1. /\ faults < MaxFaults /\ faults' = faults + 1
      /\ Clear(j) \/ Stop({j})
      /\ strayed' = IF pc[j] = "hide" THEN strayed \cup {key[j]} ELSE strayed
      /\ doubt' = IF pc[j] \in {"load", "save", "update"} THEN doubt \cup {key[j]} ELSE doubt
      /\ UNCHANGED <<server, kind, copy>>
  BY DEF Break
<1>2. /\ JobType' /\ pc'[j] \in {"done", "next"}
      /\ \A i \in Jobs \ {j} : StaysWith(i)
  <2>1. CASE Clear(j)
    BY <2>1, ClearType, ClearFree DEF Types
  <2>2. CASE Stop({j})
    BY <2>2, StopType DEF Types, Stop, StaysWith
  <2> QED
    BY <1>1, <2>1, <2>2
<1>3. pc[j] \in OneKey => key[j] \in Keys
  BY DEF MailInv, JobOK, KeyOK
<1>4. Types'
  BY <1>1, <1>2, <1>3, FaultType DEF Types, ServerType, CopyType, PastType, OneKey, Pending
<1>5. Quiet({j})
  BY <1>1, <1>2 DEF Quiet
<1>6. JobOK(j)'
  BY <1>2, FreeJob DEF Free
<1>7. \A k \in Keys : Released({j}, k)
  BY <1>1 DEF Released, Pending
<1> QED
  BY <1>4, <1>5, <1>6, <1>7, QuietStep DEF Types

-----------------------------------------------------------------------------
(***************************************************************************)
(* The steps of the mailbox, together.                                      *)
(***************************************************************************)

\* None of them makes a job run a task, or hide what a command found.
Onward ==
    \A i \in Jobs :
       /\ (pc'[i] = pc[i] /\ op'[i] = op[i]) \/ pc'[i] \notin {"think", "end", "idle"}
       /\ pc[i] = "batch" => pc'[i] # "hide"

LEMMA ClearOnward == ASSUME Types, NEW j \in Jobs, Clear(j) PROVE Onward
BY DEF Clear, Onward, Types, JobType

LEMMA StopOnward == ASSUME Types, NEW S, Stop(S) PROVE Onward
BY DEF Stop, Onward, Types, JobType

LEMMA GotoOnward ==
    ASSUME Types, NEW j \in Jobs, NEW s \in Steps, Goto(j, s),
           \A i \in Jobs \ {j} : op'[i] = op[i],
           s \notin {"think", "end", "idle"}, pc[j] = "batch" => s # "hide"
    PROVE  Onward
BY DEF Goto, Onward, Types, JobType

LEMMA EndSyncOnward == ASSUME Types, NEW j \in Jobs, EndSync(j) PROVE Onward
<1>1. CASE op[j] = "create"
  BY <1>1, GotoOnward DEF EndSync, Steps
<1>2. CASE op[j] # "create"
  BY <1>2, StopOnward DEF EndSync
<1> QED
  BY <1>1, <1>2

LEMMA RequestOnward == ASSUME Types, NEW j \in Jobs, Request(j) PROVE Onward
<1> USE DEF Goto, Types, JobType
<1>1. CASE \/ \E f \in exists : Sync(j, f) \/ SyncTask(j, f) \/ OpenFolder(j, f)
           \/ Notified(j) \/ SyncAll(j) \/ ListFolders(j)
  BY <1>1 DEF Onward, Sync, SyncTask, OpenFolder, Notified, SyncAll, ListFolders, Select
<1>2. CASE PatchFlag(j) \/ BulkFlag(j)
  BY <1>2 DEF Onward, PatchFlag, BulkFlag, ChangeFlag, Hold
<1>3. CASE \E k \in Keys : ReadBody(j, k) \/ Download(j, k)
  <2>1. PICK k \in Keys : ReadBody(j, k) \/ Download(j, k)
    BY <1>3
  <2>2. CASE Clear(j)
    BY <2>2, ClearOnward
  <2>3. CASE Hold(j, k, "sender")
    BY <2>3 DEF Hold, Onward
  <2> QED
    BY <2>1, <2>2, <2>3 DEF ReadBody, Download
<1>4. CASE \E k \in Keys : \E g \in Folders : Remove(j, k, g) \/ Move(j, k, g)
  <2>1. PICK k \in Keys, g \in Folders : Remove(j, k, g) \/ Move(j, k, g)
    BY <1>4
  <2>2. CASE Remove(j, k, g)
    BY <2>2 DEF Remove, Asks, Hold, Onward
  <2>3. CASE Move(j, k, g)
    BY <2>3, ClearOnward DEF Move
  <2> QED
    BY <2>1, <2>2, <2>3
<1>5. CASE \/ \E u \in Uids : SaveDraft(j, u)
           \/ \E f \in Custom : CreateFolder(j, f)
  BY <1>5 DEF SaveDraft, CreateFolder, Onward
<1>6. CASE \E f \in Custom : DeleteFolder(j, f)
  <2>1. PICK f : DeleteFolder(j, f)
    BY <1>6
  <2>2. /\ pc' = [i \in Jobs |-> IF i = j THEN "drop"
                                 ELSE IF i \in Closed(f) THEN "done" ELSE pc[i]]
        /\ op' = [i \in Jobs |-> IF i \in Closed(f) THEN "none" ELSE op[i]]
    BY <2>1 DEF DeleteFolder
  <2> QED
    BY <2>2 DEF Onward
<1> QED
  BY <1>1, <1>2, <1>3, <1>4, <1>5, <1>6 DEF Request

LEMMA StepOnward == ASSUME Types, NEW j \in Jobs, Step(j) PROVE Onward
<1>1. CASE NextFolder(j)
  BY <1>1 DEF NextFolder, Select, Goto, Onward, Types, JobType
<1>2. CASE SelectAgain(j)
  <2>1. CASE Stop({j})
    BY <2>1, StopOnward
  <2>2. CASE Select(j, key[j][1]) /\ op' = op
    BY <2>2 DEF Select, Goto, Onward, Types, JobType
  <2> QED
    BY <1>2, <2>1, <2>2 DEF SelectAgain
<1>3. CASE Fetch(j)
  <2>1. CASE EndSync(j)
    BY <2>1, EndSyncOnward
  <2>2. CASE Goto(j, "write") /\ op' = op
    BY <2>2 DEF Goto, Onward, Types, JobType
  <2> QED
    BY <1>3, <2>1, <2>2 DEF Fetch
<1>4. CASE WriteRow(j)
  <2>1. CASE EndSync(j)
    BY <2>1, EndSyncOnward
  <2>2. CASE UNCHANGED <<pc, op>>
    BY <2>2 DEF Onward
  <2> QED
    BY <1>4, <2>1, <2>2 DEF WriteRow
<1>5. CASE LoadFrauds(j) \/ LoadRow(j) \/ HideRow(j) \/ AppendDraft(j) \/ HideFraud(j)
  <2>1. CASE Clear(j)
    BY <2>1, ClearOnward
  <2>2. CASE UNCHANGED <<pc, op>>
    BY <2>2 DEF Onward
  <2>3. CASE \E s \in {"purge", "save", "batch", "select"} : Goto(j, s) /\ \A i \in Jobs \ {j} : op'[i] = op[i]
    BY <2>3, GotoOnward DEF Steps
  <2>4. CASE AppendDraft(j)
    <3>1. Clear(j) \/ (Goto(j, "select") /\ op' = [op EXCEPT ![j] = "one"])
      BY <2>4 DEF AppendDraft
    <3> QED
      BY <3>1, <2>1, <2>3 DEF Types, JobType
  <2> QED
    BY <1>5, <2>1, <2>2, <2>3, <2>4 DEF LoadFrauds, LoadRow, HideRow, HideFraud
<1>6. CASE SaveRow(j) \/ UpdateRow(j) \/ NoteSender(j) \/ WriteFolders(j)
  BY <1>6, ClearOnward DEF SaveRow, UpdateRow, NoteSender, WriteFolders
<1>7. CASE DropFolder(j)
  BY <1>7, StopOnward DEF DropFolder
<1> QED
  BY <1>1, <1>2, <1>3, <1>4, <1>5, <1>6, <1>7 DEF Step

LEMMA NextOnward == ASSUME Types, Next PROVE Onward
<1>1. CASE \E m \in Messages : Arrives(m) \/ Elsewhere(m)
  BY <1>1 DEF Arrives, Elsewhere, job, Onward
<1>2. CASE \E f \in Folders : Rebuild(f)
  BY <1>2, StopOnward DEF Rebuild
<1>3. CASE \E j \in Jobs : Break(j)
  BY <1>3, ClearOnward, StopOnward DEF Break
<1> QED
  BY <1>1, <1>2, <1>3, RequestOnward, StepOnward DEF Next

LEMMA RequestStep ==
    ASSUME Types, MailInv, NEW j \in Jobs, Request(j)
    PROVE  Types' /\ MailInv'
<1>1. CASE \/ \E f \in exists : Sync(j, f) \/ SyncTask(j, f) \/ OpenFolder(j, f)
           \/ Notified(j)
  <2>1. \E f : Sync(j, f)
    BY <1>1 DEF SyncTask, OpenFolder, Notified
  <2> QED
    BY <2>1, SyncTypes, SyncSteps
<1>2. CASE SyncAll(j)
  BY <1>2, SyncTypes, SyncSteps
<1>3. CASE ListFolders(j)
  BY <1>3, ListFoldersStep
<1>4. CASE PatchFlag(j) \/ BulkFlag(j)
  BY <1>4, ChangeFlagStep
<1>5. CASE \E k \in Keys : ReadBody(j, k) \/ Download(j, k)
  BY <1>5, ReadBodyStep, DownloadStep
<1>6. CASE \E k \in Keys : \E g \in Folders : Remove(j, k, g) \/ Move(j, k, g)
  BY <1>6, RemoveStep, MoveStep
<1>7. CASE \E u \in Uids : SaveDraft(j, u)
  BY <1>7, SaveDraftStep
<1>8. CASE \E f \in Custom : CreateFolder(j, f) \/ DeleteFolder(j, f)
  BY <1>8, CreateFolderStep, DeleteFolderStep
<1> QED
  BY <1>1, <1>2, <1>3, <1>4, <1>5, <1>6, <1>7, <1>8 DEF Request

LEMMA NextStep ==
    ASSUME Types, MailInv, Next
    PROVE  Types' /\ MailInv'
<1>1. CASE \E m \in Messages : Arrives(m) \/ Elsewhere(m)
  BY <1>1, ArrivesStep, ElsewhereStep
<1>2. CASE \E f \in Folders : Rebuild(f)
  BY <1>2, RebuildStep
<1>3. CASE \E j \in Jobs : Request(j)
  BY <1>3, RequestStep
<1>4. CASE \E j \in Jobs : Break(j)
  BY <1>4, BreakStep
<1>5. ASSUME NEW j \in Jobs, Step(j)
      PROVE  Types' /\ MailInv'
  <2>1. CASE NextFolder(j) \/ SelectAgain(j)
    BY <2>1, SyncTypes, SyncSteps
  <2>2. CASE Fetch(j)
    BY <2>2, FetchTypes, FetchStep
  <2>3. CASE WriteRow(j)
    BY <2>3, WriteRowTypes, WriteRowStep
  <2>4. CASE LoadFrauds(j) \/ HideFraud(j)
    BY <2>4, LoadFraudsStep, HideFraudStep
  <2>5. CASE LoadRow(j) \/ SaveRow(j) \/ UpdateRow(j) \/ HideRow(j) \/ NoteSender(j)
    BY <2>5, LoadRowStep, SaveRowStep, UpdateRowStep, HideRowStep, NoteSenderStep
  <2>6. CASE AppendDraft(j) \/ WriteFolders(j) \/ DropFolder(j)
    BY <2>6, AppendDraftStep, WriteFoldersStep, DropFolderStep
  <2> QED
    BY <1>5, <2>1, <2>2, <2>3, <2>4, <2>5, <2>6 DEF Step
<1> QED
  BY <1>1, <1>2, <1>3, <1>4, <1>5 DEF Next

-----------------------------------------------------------------------------
(***************************************************************************)
(* The steps of the assistant.                                              *)
(***************************************************************************)

\* The rows that a command finds.
LEMMA EntriesFacts ==
    ASSUME Types, MailInv, NEW f \in Folders, NEW S
    PROVE  /\ Entries(f, S) \subseteq Entry
           /\ \A e \in Entries(f, S) : /\ <<f, e.uid>> \in Keys
                                       /\ Given(<<f, e.uid>>) /\ Claim(<<f, e.uid>>, e.msg)
<1>1. ASSUME NEW e \in Entries(f, S)
      PROVE  /\ e \in Entry /\ <<f, e.uid>> \in Keys
             /\ Given(<<f, e.uid>>) /\ Claim(<<f, e.uid>>, e.msg)
  <2>1. PICK u \in Uids : /\ e = [uid |-> u, msg |-> cache[<<f, u>>].msg, flags |-> {}]
                          /\ Cached(<<f, u>>)
    BY DEF Entries
  <2>2. PICK k \in Keys : k = <<f, u>>
    BY KeyFacts
  <2>3. e.uid = u /\ e.msg = cache[k].msg /\ cache[k].msg \in Messages /\ Given(k) /\ Claim(k, e.msg)
    BY <2>1, <2>2, RowTells
  <2>4. e \in Entry
    BY <2>1, <2>2, <2>3, EntryFacts
  <2> QED
    BY <2>2, <2>3, <2>4
<1> QED
  BY <1>1

\* A job takes up what it found.
LEMMA FindStep ==
    ASSUME Types, MailInv, NEW j \in Jobs, NEW f \in Folders, NEW T \in SUBSET Entry,
           \A e \in T : <<f, e.uid>> \in Keys /\ Given(<<f, e.uid>>) /\ Claim(<<f, e.uid>>, e.msg),
           pc[j] \in {"idle", "list"}, NEW s \in {"think", "batch"},
           pc' = [pc EXCEPT ![j] = s], key' = [key EXCEPT ![j] = <<f, 0>>],
           todo' = [todo EXCEPT ![j] = T],
           op' \in [Jobs -> Ops],
           UNCHANGED <<at, flags, nextUid, exists, kind, known, cache, want, rest,
                       strayed, doubt, faults>>
    PROVE  Types' /\ MailInv'
<1>1. /\ pc'[j] = s /\ key'[j] = <<f, 0>> /\ key'[j][1] = f /\ todo'[j] = T
  BY DEF Types, JobType
<1>2. JobType'
  BY KeyFacts DEF Types, JobType, Steps
<1>3. Types'
  BY <1>2 DEF Types, ServerType, CopyType, PastType
<1>4. Quiet({j})
  BY DEF Quiet, StaysWith, Types, JobType
<1>5. HeldOK(j)'
  <2>1. \A e \in T : /\ <<f, e.uid>> \in Keys
                                 /\ Given(<<f, e.uid>>)' /\ Claim(<<f, e.uid>>, e.msg)'
    BY DEF Given, Claim, Firm
  <2> QED
    BY <1>1, <2>1, HoldingJob
<1>6. JobOK(j)'
  BY <1>1, <1>5 DEF JobOK, KeyOK, CopiedOK, PurgeOK, WishOK, HideOK, OneKey, Pending
<1>7. \A k \in Keys : Released({j}, k)
  BY DEF Released, Pending
<1> QED
  BY <1>3, <1>4, <1>6, <1>7, QuietStep DEF Types

LEMMA ChatStep ==
    ASSUME Types, MailInv, NEW j \in Jobs, Chat(j)
    PROVE  Types' /\ MailInv'
<1> USE DEF server, copy, past
<1>1. /\ pc[j] = "idle" /\ pc' = [pc EXCEPT ![j] = "think"] /\ op' = [op EXCEPT ![j] = "chat"]
      /\ UNCHANGED <<server, kind, copy, want, rest, past, faults>>
  BY DEF Chat, Goto
<1>2. op' \in [Jobs -> Ops]
  BY <1>1 DEF Types, JobType, Ops
<1>3. CASE UNCHANGED <<key, todo>>
  <2>1. Types'
    BY <1>1, <1>2, <1>3 DEF Types, ServerType, CopyType, JobType, PastType, Steps
  <2>2. Quiet({j})
    BY <1>1, <1>3 DEF Quiet, StaysWith, Types, JobType
  <2>3. pc'[j] = "think" /\ todo'[j] = {}
    BY <1>1, <1>3 DEF MailInv, JobOK, KeyOK, Types, JobType
  <2>4. JobOK(j)'
    BY <2>3 DEF JobOK, KeyOK, HeldOK, CopiedOK, PurgeOK, WishOK, HideOK, OneKey, Pending
  <2>5. \A k \in Keys : Released({j}, k)
    BY <1>1 DEF Released, Pending
  <2> QED
    BY <2>1, <2>2, <2>4, <2>5, QuietStep DEF Types
<1>4. CASE \E f \in known, m \in Messages :
              /\ todo' = [todo EXCEPT ![j] = Entries(f, {m})]
              /\ key' = [key EXCEPT ![j] = <<f, 0>>]
  <2>1. PICK f, S : /\ f \in known /\ todo' = [todo EXCEPT ![j] = Entries(f, S)]
                    /\ key' = [key EXCEPT ![j] = <<f, 0>>]
    BY <1>4
  <2>2. f \in Folders
    BY <2>1 DEF Types, CopyType
  <2>3. PICK s \in {"think", "batch"} : pc' = [pc EXCEPT ![j] = s]
    BY <1>1
  <2>4. PICK T \in SUBSET Entry :
           /\ \A e \in T : <<f, e.uid>> \in Keys /\ Given(<<f, e.uid>>) /\ Claim(<<f, e.uid>>, e.msg)
           /\ todo' = [todo EXCEPT ![j] = T]
    BY <2>1, <2>2, EntriesFacts
  <2> QED
    BY <1>1, <1>2, <2>1, <2>2, <2>3, <2>4, FindStep
<1> QED
  BY <1>3, <1>4 DEF Chat

LEMMA ListMatchesStep ==
    ASSUME Types, MailInv, NEW j \in Jobs, ListMatches(j)
    PROVE  Types' /\ MailInv'
<1>1. PICK f, S : /\ f \in known /\ todo' = [todo EXCEPT ![j] = Entries(f, S)]
                  /\ key' = [key EXCEPT ![j] = <<f, 0>>]
  BY DEF ListMatches
<1>2. /\ pc[j] = "list" /\ pc' = [pc EXCEPT ![j] = "batch"]
      /\ UNCHANGED <<server, kind, copy, op, want, rest, past, faults>>
  BY DEF ListMatches, Goto
<1>3. f \in Folders /\ op' \in [Jobs -> Ops]
  BY <1>1, <1>2 DEF Types, CopyType, JobType
<1>4. PICK s \in {"think", "batch"} : pc' = [pc EXCEPT ![j] = s]
  BY <1>2
<1>5. PICK T \in SUBSET Entry :
         /\ \A e \in T : <<f, e.uid>> \in Keys /\ Given(<<f, e.uid>>) /\ Claim(<<f, e.uid>>, e.msg)
         /\ todo' = [todo EXCEPT ![j] = T]
  BY <1>1, <1>3, EntriesFacts
<1> QED
  BY <1>1, <1>2, <1>3, <1>4, <1>5, FindStep DEF server, copy, past

\* A job ends.
LEMMA ClearStep ==
    ASSUME Types, MailInv, NEW j \in Jobs, Clear(j), pc[j] \notin Pending \cup {"hide"},
           UNCHANGED <<server, kind, cache, past, faults>>, known' \subseteq Folders
    PROVE  Types' /\ MailInv'
<1> USE DEF server, past
<1>1. JobType' /\ pc'[j] = "done" /\ \A i \in Jobs \ {j} : StaysWith(i)
  BY ClearType, ClearFree DEF Types
<1>2. Types' /\ Quiet({j})
  BY <1>1 DEF Quiet, Types, ServerType, CopyType, PastType
<1> QED
  BY <1>1, <1>2, FreeStep DEF Free

\* A command goes on with what it selected.
LEMMA GoOnStep ==
    ASSUME Types, MailInv, NEW j \in Jobs, pc[j] \in {"think", "folder"},
           NEW s \in {"folder", "list", "batch"}, pc' = [pc EXCEPT ![j] = s],
           todo' \in [Jobs -> SUBSET Entry], todo'[j] \subseteq todo[j],
           \A i \in Jobs \ {j} : todo'[i] = todo[i],
           key' \in [Jobs -> (Folders \cup {"none"}) \X (Uids \cup {0})],
           todo'[j] # {} => key'[j][1] = key[j][1],
           \A i \in Jobs \ {j} : key'[i] = key[i],
           op' \in [Jobs -> Ops], want' = want, rest' \in [Jobs -> SUBSET Folders],
           exists' \subseteq Folders, known' \subseteq Folders,
           UNCHANGED <<at, flags, nextUid, kind, cache, past, faults>>
    PROVE  Types' /\ MailInv'
<1> USE DEF past
<1>1. pc'[j] = s /\ pc' \in [Jobs -> Steps] /\ \A i \in Jobs \ {j} : pc'[i] = pc[i]
  BY DEF Types, JobType, Steps
<1>2. Types'
  BY <1>1 DEF Types, ServerType, CopyType, JobType, PastType
<1>3. Quiet({j})
  BY <1>1 DEF Quiet, StaysWith
<1>4. HeldOK(j)'
  BY <1>3, HoldsOn, QuietIsCareful DEF Carrying
<1>5. JobOK(j)'
  BY <1>1, <1>4 DEF JobOK, KeyOK, CopiedOK, PurgeOK, WishOK, HideOK, OneKey, Pending
<1>6. \A k \in Keys : Released({j}, k)
  BY DEF Released, Pending
<1> QED
  BY <1>2, <1>3, <1>5, <1>6, QuietStep DEF Types

LEMMA ResolveStep ==
    ASSUME Types, MailInv, NEW j \in Jobs, Resolve(j)
    PROVE  Types' /\ MailInv'
<1>1. PICK T \in {todo[j], {}} :
         /\ todo' = [todo EXCEPT ![j] = T]
         /\ \/ key' = key
            \/ key' = [key EXCEPT ![j] = <<"none", 0>>] /\ T = {}
         /\ \/ /\ \E g \in Targets : rest' = [rest EXCEPT ![j] = {g}]
               /\ Goto(j, IF T = {} THEN "list" ELSE "batch")
               /\ UNCHANGED exists
            \/ \E g \in Custom \ (exists \cup known) :
                  /\ exists' = exists \cup {g}
                  /\ rest' = [rest EXCEPT ![j] = {g}]
                  /\ Goto(j, "folder")
  <2>1. PICK c \in {"move", "batch"} :
           LET selected == IF c = "move" THEN todo[j] ELSE {}
           IN  /\ todo' = [todo EXCEPT ![j] = selected]
               /\ key' = [key EXCEPT ![j] = IF c = "move" THEN @ ELSE <<"none", 0>>]
               /\ \/ /\ \E g \in Targets : rest' = [rest EXCEPT ![j] = {g}]
                     /\ Goto(j, IF selected = {} THEN "list" ELSE "batch")
                     /\ UNCHANGED exists
                  \/ \E g \in Custom \ (exists \cup known) :
                        /\ exists' = exists \cup {g}
                        /\ rest' = [rest EXCEPT ![j] = {g}]
                        /\ Goto(j, "folder")
    BY DEF Resolve, Onwards
  <2>2. CASE c = "move"
    <3>1. key' = key
      BY <2>1, <2>2 DEF Types, JobType
    <3> QED
      BY <2>1, <2>2, <3>1
  <2>3. CASE c = "batch"
    BY <2>1, <2>3
  <2> QED
    BY <2>2, <2>3
<1>2. /\ pc[j] = "think"
      /\ UNCHANGED <<at, flags, nextUid, kind, copy, op, want, past, faults>>
  BY DEF Resolve
<1>3. PICK s \in {"folder", "list", "batch"} : pc' = [pc EXCEPT ![j] = s]
  BY <1>1 DEF Goto
<1>4. rest' \in [Jobs -> SUBSET Folders] /\ exists' \subseteq Folders
  BY <1>1, MailboxAssumption DEF Targets, Standard, Types, ServerType, CopyType, JobType
<1>5. /\ todo' \in [Jobs -> SUBSET Entry] /\ todo'[j] = T /\ T \subseteq todo[j]
      /\ \A i \in Jobs \ {j} : todo'[i] = todo[i]
  BY <1>1 DEF Types, JobType
<1>6. /\ key' \in [Jobs -> (Folders \cup {"none"}) \X (Uids \cup {0})]
      /\ \A i \in Jobs \ {j} : key'[i] = key[i]
      /\ T # {} => key'[j][1] = key[j][1]
  <2>1. CASE key' = key
    BY <2>1 DEF Types, JobType
  <2>2. CASE key' = [key EXCEPT ![j] = <<"none", 0>>] /\ T = {}
    BY <2>2, KeyFacts DEF Types, JobType
  <2> QED
    BY <1>1, <2>1, <2>2
<1>7. op' \in [Jobs -> Ops] /\ known' \subseteq Folders /\ want' = want
      /\ UNCHANGED <<at, flags, nextUid, kind, cache, past, faults>>
  BY <1>2 DEF Types, CopyType, JobType, copy
<1> QED
  BY <1>2, <1>3, <1>4, <1>5, <1>6, <1>7, GoOnStep

LEMMA RecordFolderStep ==
    ASSUME Types, MailInv, NEW j \in Jobs, RecordFolder(j)
    PROVE  Types' /\ MailInv'
<1>1. pc[j] = "folder" /\ UNCHANGED <<server, kind, cache, past, faults>>
  BY DEF RecordFolder
<1>2. CASE rest[j] \subseteq exists
  <2>1. /\ known' = known \cup rest[j] /\ UNCHANGED <<op, key, todo, want, rest>>
    BY <1>2 DEF RecordFolder
  <2>2. PICK s \in {"folder", "list", "batch"} : pc' = [pc EXCEPT ![j] = s]
    BY <1>2 DEF RecordFolder, Onwards, Goto
  <2> QED
    BY <1>1, <2>1, <2>2, GoOnStep DEF Types, ServerType, CopyType, JobType, server
<1>3. CASE ~(rest[j] \subseteq exists)
  BY <1>1, <1>3, ClearStep DEF RecordFolder, Types, CopyType, Pending
<1> QED
  BY <1>2, <1>3

-----------------------------------------------------------------------------
(***************************************************************************)
(* The stored tasks.                                                        *)
(***************************************************************************)
TaskType == /\ row \in [Jobs -> Jobs \cup {Nobody}]
            /\ status \in [Jobs -> Status]
            /\ sent \in [Jobs -> Nat]
            /\ twice \subseteq Jobs

\* Steps that run no task.
LEMMA TaskKept ==
    ASSUME TaskType, TaskOK, UNCHANGED tasks,
           \A i \in Jobs : pc'[i] = "idle" => pc[i] = "idle",
           \A i \in Jobs : (op'[i] = "task" /\ pc'[i] \in {"think", "end"}) =>
                              op[i] = "task" /\ pc[i] = pc'[i]
    PROVE  TaskType' /\ TaskOK'
<1>1. row' = row /\ status' = status /\ sent' = sent /\ twice' = twice
  BY DEF tasks
<1> QED
  BY <1>1 DEF TaskType, TaskOK

\* Idle jobs take up a task.
LEMMA WorkStep ==
    ASSUME Types, MailInv, NEW S \in SUBSET Jobs, NEW r \in Jobs, Work(S, r),
           \A i \in S : pc[i] = "idle", faults' \in 0..MaxFaults
    PROVE  Types' /\ MailInv'
<1> USE DEF server, copy, past
<1>1. \A i \in Jobs : /\ pc'[i] = IF i \in S THEN "think" ELSE pc[i]
                      /\ todo'[i] = todo[i] /\ key'[i] = key[i] /\ want'[i] = want[i]
  BY DEF Work
<1>2. pc' \in [Jobs -> Steps] /\ op' \in [Jobs -> Ops]
  BY DEF Work, Types, JobType, Steps, Ops
<1>3. Types'
  BY <1>2 DEF Work, Types, ServerType, CopyType, JobType, PastType
<1>4. Quiet(S)
  BY <1>1 DEF Work, Quiet, StaysWith
<1>5. ASSUME NEW i \in S
      PROVE  JobOK(i)'
  <2>1. pc'[i] = "think" /\ todo'[i] = {}
    BY <1>1 DEF MailInv, JobOK, KeyOK
  <2> QED
    BY <2>1 DEF JobOK, KeyOK, HeldOK, CopiedOK, PurgeOK, WishOK, HideOK, OneKey, Pending
<1>6. \A k \in Keys : Released(S, k)
  BY DEF Released, Pending
<1> QED
  BY <1>3, <1>4, <1>5, <1>6, QuietStep DEF Types

LEMMA TakenStep ==
    ASSUME Types, MailInv, TaskType, TaskOK, NEW j \in Jobs, NEW S \in SUBSET Jobs,
           j \in S, Work(S, j), \A i \in S : pc[i] = "idle",
           \/ S = {j} /\ faults' = faults /\ twice' = twice
           \/ faults < MaxFaults /\ faults' = faults + 1 /\ twice' = twice \cup {j}
    PROVE  Types' /\ MailInv' /\ TaskType' /\ TaskOK'
<1>2. faults' \in 0..MaxFaults
  BY MailboxAssumption DEF Types, PastType
<1>3. Types' /\ MailInv'
  BY <1>2, WorkStep
<1>4. /\ \A i \in Jobs : /\ pc'[i] = IF i \in S THEN "think" ELSE pc[i]
                         /\ op'[i] = IF i \in S THEN "task" ELSE op[i]
                         /\ row'[i] = IF i \in S THEN j ELSE row[i]
      /\ row' = [i \in Jobs |-> IF i \in S THEN j ELSE row[i]]
      /\ status' = [status EXCEPT ![j] = "pending"] /\ sent' = sent
  BY DEF Work
<1>5. TaskType'
  BY <1>4 DEF TaskType, Status
<1>6. ASSUME NEW i \in Jobs, op'[i] = "task", pc'[i] \in {"think", "end"}
      PROVE  /\ row'[i] \in Jobs
             /\ row'[i] \notin twice' => row'[i] = i
             /\ (row'[i] \notin twice' /\ pc'[i] = "think") => sent'[i] = 0
  <2>1. CASE i \in S
    BY <1>4, <2>1 DEF TaskOK
  <2>2. CASE i \notin S
    BY <1>4, <1>6, <2>2 DEF TaskOK
  <2> QED
    BY <2>1, <2>2
<1>7. \A i \in Jobs \ twice' : sent'[i] <= 1 /\ (pc'[i] = "idle" => sent'[i] = 0)
  BY <1>4 DEF TaskOK
<1> QED
  BY <1>3, <1>5, <1>6, <1>7 DEF TaskOK

LEMMA CreateStep ==
    ASSUME Types, MailInv, TaskType, TaskOK, NEW j \in Jobs,
           CreateTask(j) \/ \E i \in Jobs : CreateTwice(j, i)
    PROVE  Types' /\ MailInv' /\ TaskType' /\ TaskOK'
<1>1. CASE CreateTask(j)
  <2>1. /\ {j} \in SUBSET Jobs /\ j \in {j} /\ Work({j}, j) /\ \A i \in {j} : pc[i] = "idle"
        /\ faults' = faults /\ twice' = twice
    BY <1>1 DEF CreateTask
  <2> QED
    BY <2>1, TakenStep
<1>2. CASE \E i \in Jobs : CreateTwice(j, i)
  <2>1. PICK i \in Jobs : CreateTwice(j, i)
    BY <1>2
  <2>2. /\ {j, i} \in SUBSET Jobs /\ j \in {j, i} /\ Work({j, i}, j)
        /\ \A x \in {j, i} : pc[x] = "idle"
        /\ faults < MaxFaults /\ faults' = faults + 1 /\ twice' = twice \cup {j}
    BY <2>1 DEF CreateTwice
  <2> QED
    BY <2>2, TakenStep
<1> QED
  BY <1>1, <1>2

LEMMA ThinksStep ==
    ASSUME Types, MailInv, TaskType, TaskOK, NEW j \in Jobs, TaskTalks(j) \/ TaskActs(j)
    PROVE  Types' /\ MailInv' /\ TaskType' /\ TaskOK'
<1> USE DEF server, copy, past
<1>1. /\ pc[j] = "think" /\ op[j] = "task" /\ pc' = [pc EXCEPT ![j] = "end"]
      /\ status' = [status EXCEPT ![row[j]] = "running"]
      /\ UNCHANGED <<server, kind, copy, op, key, todo, want, rest, past, faults, row, twice>>
  BY DEF TaskTalks, TaskActs, Thinks, Goto
<1>2. pc'[j] = "end" /\ \A i \in Jobs \ {j} : pc'[i] = pc[i]
  BY <1>1 DEF Types, JobType
<1>3. Types'
  BY <1>1 DEF Types, ServerType, CopyType, JobType, PastType, Steps
<1>4. Quiet({j})
  BY <1>1, <1>2 DEF Quiet, StaysWith
<1>5. MailInv'
  BY <1>1, <1>2, <1>4, FreeStep DEF Free, Pending
<1>6. PICK r \in Jobs : r = row[j] /\ (r \notin twice => r = j /\ sent[j] = 0)
  BY <1>1 DEF TaskOK
<1>7. /\ sent' \in [Jobs -> Nat]
      /\ \A i \in Jobs \ {r} : sent'[i] = sent[i]
      /\ sent'[r] <= sent[r] + 1
  BY <1>6 DEF TaskTalks, TaskActs, TaskType
<1>8. TaskType'
  BY <1>1, <1>7 DEF TaskType, Status
<1>9. ASSUME NEW i \in Jobs, op'[i] = "task", pc'[i] \in {"think", "end"}
      PROVE  /\ row'[i] \in Jobs
             /\ row'[i] \notin twice' => row'[i] = i
             /\ (row'[i] \notin twice' /\ pc'[i] = "think") => sent'[i] = 0
  BY <1>1, <1>2, <1>6, <1>7, <1>9 DEF TaskOK
<1>10. ASSUME NEW i \in Jobs \ twice'
       PROVE  sent'[i] <= 1 /\ (pc'[i] = "idle" => sent'[i] = 0)
  <2>1. CASE i = r
    BY <1>1, <1>2, <1>6, <1>7, <2>1 DEF TaskType
  <2>2. CASE i # r
    BY <1>1, <1>2, <1>7, <2>2 DEF TaskOK
  <2> QED
    BY <2>1, <2>2
<1> QED
  BY <1>3, <1>5, <1>8, <1>9, <1>10 DEF TaskOK

LEMMA EndTaskStep ==
    ASSUME Types, MailInv, TaskType, TaskOK, NEW j \in Jobs, EndTask(j)
    PROVE  Types' /\ MailInv' /\ TaskType' /\ TaskOK'
<1>1. /\ pc[j] = "end" /\ Clear(j) /\ row' = [row EXCEPT ![j] = Nobody]
      /\ UNCHANGED <<server, kind, copy, past, faults, status, sent, twice>>
  BY DEF EndTask, LeaveTask
<1>2. Types' /\ MailInv'
  BY <1>1, ClearStep DEF Types, CopyType, copy, Pending
<1>3. /\ pc'[j] = "done" /\ \A i \in Jobs \ {j} : pc'[i] = pc[i] /\ op'[i] = op[i]
      /\ \A i \in Jobs \ {j} : row'[i] = row[i]
  BY <1>1 DEF Clear, Types, JobType, TaskType
<1>4. TaskType'
  BY <1>1 DEF TaskType
<1>5. TaskOK'
  BY <1>1, <1>3 DEF TaskOK
<1> QED
  BY <1>2, <1>4, <1>5

-----------------------------------------------------------------------------
(***************************************************************************)
(* The inductive invariant.                                                 *)
(***************************************************************************)
LEMMA AssistantTypes ==
    /\ AssistantTypeOK <=> Types /\ TaskType
    /\ AssistantTypeOK' <=> Types' /\ TaskType'
BY TypeParts DEF AssistantTypeOK, Types, TaskType

LEMMA InitInv == AssistantInit => IInv
<1> SUFFICES ASSUME AssistantInit PROVE IInv
  OBVIOUS
<1>1. PICK m \in Messages, new \in Kinds :
         /\ kind = [n \in Messages |-> IF n = m THEN new ELSE "plain"]
         /\ at = [n \in Messages |-> IF n = m THEN <<"INBOX", 1>> ELSE New]
         /\ \/ known = {} /\ cache = [k \in Keys |-> NoRow]
            \/ /\ known = {"INBOX"}
               /\ cache = [k \in Keys |->
                    IF k = <<"INBOX", 1>> /\ new # "header"
                    THEN [NoRow EXCEPT !.msg = m] ELSE NoRow]
  BY DEF AssistantInit, Init
<1>2. /\ flags = [n \in Messages |-> {}] /\ exists = Standard
      /\ nextUid = [f \in Folders |-> IF f = "INBOX" THEN 2 ELSE 1]
      /\ strayed = {} /\ doubt = {} /\ faults = 0
  BY DEF AssistantInit, Init
<1>3. /\ pc = [j \in Jobs |-> "idle"] /\ op = [j \in Jobs |-> "none"]
      /\ key = [j \in Jobs |-> <<"none", 0>>] /\ todo = [j \in Jobs |-> {}]
      /\ want = [j \in Jobs |-> NoWish] /\ rest = [j \in Jobs |-> {}]
  BY DEF AssistantInit, Init
<1>4. PICK r \in Row : /\ r = [NoRow EXCEPT !.msg = m]
                       /\ r.msg = m /\ r.flags = {} /\ ~r.hidden /\ ~r.fraud
  <2>1. NoRow \in [msg : {Nobody}, flags : {{}}, hidden : {FALSE}, fraud : {FALSE}]
    BY DEF NoRow
  <2>2. PICK x \in [msg : {Nobody}, flags : {{}}, hidden : {FALSE}, fraud : {FALSE}] : x = NoRow
    BY <2>1
  <2>3. /\ [x EXCEPT !.msg = m] \in [msg : Messages, flags : {{}}, hidden : {FALSE}, fraud : {FALSE}]
        /\ [x EXCEPT !.msg = m].msg = m
    OBVIOUS
  <2> QED
    BY <2>2, <2>3 DEF Row
<1>5. \A k \in Keys : cache[k] = NoRow \/ (k = <<"INBOX", 1>> /\ cache[k] = r)
  BY <1>1, <1>4
<1>6. /\ \A f \in Folders : nextUid[f] \in 1..(MaxUid + 1)
      /\ <<"INBOX", 1>> \in Keys
  BY <1>2, MailboxAssumption DEF Keys, Uids
<1>7. ServerType /\ CopyType /\ kind \in [Messages -> Kinds]
  <2>1. at \in [Messages -> Keys \cup {New, Gone}]
    BY <1>1, <1>6
  <2>2. nextUid \in [Folders -> 1..(MaxUid + 1)]
    BY <1>2, <1>6
  <2>3. cache \in [Keys -> Row \cup {NoRow}]
    BY <1>1, <1>4
  <2>4. known \subseteq Folders /\ exists \subseteq Folders
    BY <1>1, <1>2, KeyFacts DEF Standard
  <2>5. kind \in [Messages -> Kinds] /\ flags \in [Messages -> SUBSET Flags]
    BY <1>1, <1>2 DEF Kinds
  <2> QED
    BY <2>1, <2>2, <2>3, <2>4, <2>5 DEF ServerType, CopyType
<1>8. JobType
  <2>1. key \in [Jobs -> (Folders \cup {"none"}) \X (Uids \cup {0})]
    BY <1>3, KeyFacts
  <2> QED
    BY <1>3, <2>1, RowFacts DEF JobType, Steps, Ops
<1>9. PastType
  BY <1>2, MailboxAssumption DEF PastType
<1>10. TaskType /\ TaskOK
  BY <1>3 DEF TaskType, TaskOK, Status, AssistantInit
<1>11. PlaceOK
  <2>1. \A n \in Messages : at[n] \in Keys => n = m /\ at[n] = <<"INBOX", 1>>
    BY <1>1, KeyFacts
  <2> QED
    BY <1>2, <2>1, KeyFacts DEF PlaceOK
<1>12. ASSUME NEW j \in Jobs PROVE JobOK(j)
  <2>1. pc[j] = "idle" /\ todo[j] = {}
    BY <1>3
  <2> QED
    BY <2>1 DEF JobOK, KeyOK, HeldOK, CopiedOK, PurgeOK, WishOK, HideOK, OneKey, Pending, Carrying
<1>13. ASSUME NEW k \in Keys PROVE RowOK(k)
  <2> SUFFICES ASSUME Cached(k) PROVE RowOK(k)
    BY DEF RowOK
  <2>1. k = <<"INBOX", 1>> /\ cache[k] = r
    BY <1>5 DEF Cached
  <2>2. Given(k) /\ Claim(k, m) /\ at[m] = k /\ flags[m] = {}
    BY <1>1, <1>2, <2>1, KeyFacts DEF Given, Claim
  <2> QED
    BY <1>4, <2>1, <2>2 DEF RowOK, There
<1> QED
  BY <1>7, <1>8, <1>9, <1>10, <1>11, <1>12, <1>13, AssistantTypes DEF IInv, Types

LEMMA StepInv == IInv /\ [AssistantNext]_all => IInv'
<1> SUFFICES ASSUME IInv, [AssistantNext]_all PROVE IInv'
  OBVIOUS
<1>1. Types /\ MailInv /\ TaskType /\ TaskOK
  BY AssistantTypes DEF IInv, MailInv
<1>2. SUFFICES Types' /\ MailInv' /\ TaskType' /\ TaskOK'
  BY AssistantTypes DEF IInv, MailInv
<1>3. CASE UNCHANGED all
  <2>1. /\ UNCHANGED <<at, flags, nextUid, exists, kind, known, cache>>
        /\ UNCHANGED <<pc, op, key, todo, want, rest, strayed, doubt, faults, tasks>>
    BY <1>3 DEF all, vars, server, copy, job, past
  <2>2. Types'
    BY <1>1, <2>1 DEF Types, ServerType, CopyType, JobType, PastType
  <2>3. Quiet({})
    BY <2>1 DEF Quiet, StaysWith
  <2>4. MailInv'
    BY <1>1, <2>3, QuietStep DEF Types, Released
  <2> QED
    BY <1>1, <2>1, <2>2, <2>4, TaskKept
<1>4. CASE Next /\ UNCHANGED tasks
  BY <1>1, <1>4, NextStep, NextOnward, TaskKept DEF Onward
<1>5. ASSUME NEW j \in Jobs, AssistantRequest(j) \/ AssistantStep(j)
      PROVE  Types' /\ MailInv' /\ TaskType' /\ TaskOK'
  <2>1. CASE CreateTask(j) \/ \E i \in Jobs : CreateTwice(j, i)
    BY <1>1, <2>1, CreateStep
  <2>2. CASE TaskTalks(j) \/ TaskActs(j)
    BY <1>1, <2>2, ThinksStep
  <2>3. CASE EndTask(j)
    BY <1>1, <2>3, EndTaskStep
  <2>4. CASE \E k \in Keys : Summarize(j, k) \/ DraftReply(j, k) \/ Analyze(j, k)
    <3>1. PICK k \in Keys : Download(j, k) /\ UNCHANGED tasks
      BY <2>4 DEF Summarize, DraftReply, Analyze
    <3>2. Clear(j)
      BY <3>1 DEF Download
    <3> QED
      BY <1>1, <3>1, <3>2, DownloadStep, ClearOnward, TaskKept DEF Onward
  <2>5. CASE Answer(j) \/ NoMatch(j)
    <3>1. /\ pc[j] \in {"think", "list"} /\ Clear(j)
          /\ UNCHANGED <<server, kind, copy, past, faults, tasks>>
      BY <2>5 DEF Answer, NoMatch
    <3>2. Types' /\ MailInv'
      BY <1>1, <3>1, ClearStep DEF Types, CopyType, copy, Pending
    <3> QED
      BY <1>1, <3>1, <3>2, ClearOnward, TaskKept DEF Onward
  <2>6. CASE Chat(j)
    <3>1. UNCHANGED tasks /\ pc' = [pc EXCEPT ![j] = "think"] /\ op' = [op EXCEPT ![j] = "chat"]
      BY <2>6 DEF Chat, Goto
    <3> QED
      BY <1>1, <2>6, <3>1, ChatStep, TaskKept DEF Types, JobType
  <2>7. CASE Resolve(j) \/ RecordFolder(j) \/ ListMatches(j)
    <3>1. Types' /\ MailInv' /\ UNCHANGED tasks
      BY <1>1, <2>7, ResolveStep, RecordFolderStep, ListMatchesStep
         DEF Resolve, RecordFolder, ListMatches
    <3>2. CASE Clear(j)
      BY <1>1, <3>1, <3>2, ClearOnward, TaskKept DEF Onward
    <3>3. CASE op' = op /\ \E s \in {"folder", "list", "batch"} : pc' = [pc EXCEPT ![j] = s]
      BY <1>1, <3>1, <3>3, TaskKept DEF Types, JobType
    <3> QED
      BY <2>7, <3>2, <3>3 DEF Resolve, RecordFolder, ListMatches, Onwards, Goto
  <2>8. CASE MoveMatch(j) \/ MoveFails(j) \/ MarkRead(j)
    <3>1. Types' /\ MailInv' /\ UNCHANGED tasks
      BY <1>1, <2>8, MoveMatchStep, MoveFailsStep, MarkReadStep DEF MoveMatch, MoveFails, MarkRead
    <3>2. CASE Clear(j)
      BY <1>1, <3>1, <3>2, ClearOnward, TaskKept DEF Onward
    <3>3. CASE UNCHANGED <<pc, op>>
      BY <1>1, <3>1, <3>3, TaskKept
    <3>4. CASE op' = op /\ \E s \in {"hide", "update"} : pc' = [pc EXCEPT ![j] = s]
      BY <1>1, <3>1, <3>4, TaskKept DEF Types, JobType
    <3> QED
      BY <2>8, <3>2, <3>3, <3>4 DEF MoveMatch, MoveFails, MarkRead, Goto
  <2> QED
    BY <1>5, <2>1, <2>2, <2>3, <2>4, <2>5, <2>6, <2>7, <2>8 DEF AssistantRequest, AssistantStep
<1> QED
  BY <1>3, <1>4, <1>5 DEF AssistantNext

\* The inductive invariant holds in every reachable state.
THEOREM Invariance == AssistantSpec => []IInv
  BY InitInv, StepInv, PTL DEF AssistantSpec

\* Every variable keeps its type, those of the mailbox and those of the tasks.
THEOREM TypeCorrect == AssistantSpec => []AssistantTypeOK
<1>1. IInv => AssistantTypeOK
  BY DEF IInv
<1> QED
  BY <1>1, Invariance, PTL

-----------------------------------------------------------------------------
(***************************************************************************)
(* The properties.                                                          *)
(***************************************************************************)

\* list_messages shows a message in the folder where it is, and leaves out what has left it
\* or is a fraud, unless its key strayed.
THEOREM PlaceTheorem == AssistantSpec => []ListTellsPlace
<1>1. IInv => ListTellsPlace
  <2> SUFFICES ASSUME IInv, NEW k \in Keys \ strayed, Cached(k)
               PROVE  /\ (Listed(k) \/ Starred(k)) => There(k) \/ Hiding(k)
                      /\ ~Listed(k) => ~There(k) \/ Blocked(cache[k].msg, k[1])
    BY DEF ListTellsPlace, Listed, Starred, Hiding
  <2>1. RowOK(k)
    BY DEF IInv
  <2> QED
    BY <2>1 DEF RowOK, Listed, Starred, Blocked
<1> QED
  BY <1>1, Invariance, PTL

\* The flags of a listed message are those of the server, unless they are disputed.
THEOREM FlagsTheorem == AssistantSpec => []FlagsAgree
<1>1. IInv => FlagsAgree
  BY DEF IInv, RowOK, FlagsAgree, Listed, Waiting, Pending
<1> QED
  BY <1>1, Invariance, PTL

\* run_ai_task queues or plans the mail of a task once, unless its message was doubled.
THEOREM TaskTheorem == AssistantSpec => []TaskActsOnce
<1>1. IInv => TaskActsOnce
  BY DEF IInv, TaskOK, TaskActsOnce
<1> QED
  BY <1>1, Invariance, PTL

\* execute_imap_action moves, for a command, the messages that the command found.
THEOREM MoveTheorem == AssistantSpec => CommandsMoveFound
<1> DEFINE Found ==
      \A j \in Jobs, m \in Messages :
         pc[j] = "batch" /\ pc'[j] = "hide" /\ at'[m] # at[m] =>
             (\E e \in todo[j] : e.msg = m) \/ at[m] \in strayed
<1>1. ASSUME IInv, AssistantNext, NEW j \in Jobs, NEW m \in Messages,
             pc[j] = "batch", pc'[j] = "hide", at'[m] # at[m], at[m] \notin strayed
      PROVE  \E e \in todo[j] : e.msg = m
  <2>1. Types /\ JobOK(j)
    BY <1>1, AssistantTypes DEF IInv
  <2>2. MoveMatch(j)
    <3>1. ~Next
      BY <1>1, <2>1, NextOnward DEF Onward
    <3>2. PICK i \in Jobs : AssistantRequest(i) \/ AssistantStep(i)
      BY <1>1, <3>1 DEF AssistantNext
    <3>3. ~Clear(i) /\ pc' # pc
      BY <1>1, <2>1, ClearOnward DEF Onward
    <3>4. ~ \E s \in {"think", "end", "folder", "list", "batch", "update"} : pc' = [pc EXCEPT ![i] = s]
      BY <1>1, <2>1 DEF Types, JobType
    <3>5. ~ \E S, r : Work(S, r)
      BY <1>1, <2>1 DEF Work
    <3>6. MoveMatch(i)
      <4>1. ~AssistantRequest(i)
        BY <3>3, <3>4, <3>5 DEF AssistantRequest, Chat, CreateTask, CreateTwice, Summarize,
                DraftReply, Analyze, Download, Goto
      <4>2. ~(Answer(i) \/ Resolve(i) \/ RecordFolder(i) \/ ListMatches(i) \/ NoMatch(i))
        BY <3>3, <3>4 DEF Answer, Resolve, RecordFolder, ListMatches, NoMatch, Onwards, Goto
      <4>3. ~(MoveFails(i) \/ MarkRead(i) \/ TaskTalks(i) \/ TaskActs(i) \/ EndTask(i))
        BY <3>3, <3>4 DEF MoveFails, MarkRead, TaskTalks, TaskActs, Thinks, EndTask, LeaveTask, Goto
      <4> QED
        BY <3>2, <4>1, <4>2, <4>3 DEF AssistantStep
    <3> QED
      BY <1>1, <2>1, <3>6 DEF MoveMatch, Goto, Types, JobType
  <2>3. PICK e \in todo[j] : \E g : Moved(Spot(j, e), g)
    BY <2>2 DEF MoveMatch, MatchKey, Spot
  <2>4. at[m] = Spot(j, e)
    BY <1>1, <2>3 DEF Moved, At
  <2>5. e.msg = m
    BY <1>1, <2>1, <2>4 DEF JobOK, HeldOK, Carrying, Claim, Firm
  <2> QED
    BY <2>5
<1>2. (IInv /\ [AssistantNext]_all) => [Found]_all
  <2> SUFFICES ASSUME IInv, AssistantNext PROVE Found
    OBVIOUS
  <2> QED
    BY <1>1
<1> QED
  BY <1>2, Invariance, PTL DEF AssistantSpec, CommandsMoveFound
=============================================================================
