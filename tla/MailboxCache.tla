----------------------------- MODULE MailboxCache -----------------------------
(***************************************************************************)
(* A mailbox on the IMAP server and the copy of its headers that the        *)
(* webmail lists (MailFolder, MailMessageCache).  Requests, Celery tasks    *)
(* and the IDLE listener change the server first and the copy afterwards,   *)
(* or copy what they fetched before; other mail clients change the server   *)
(* alone.  Nothing orders these steps, and a row that was copied once is    *)
(* never removed by a later synchronization.                                *)
(***************************************************************************)
EXTENDS Naturals, FiniteSets

CONSTANTS Messages,
          Folders,      \* folder names of the account
          Custom,       \* those that users create and delete
          Flags,        \* IMAP flags that the copy keeps: \Seen, \Flagged
          Limits,       \* how many of the latest messages a run copies
          Jobs,         \* requests and tasks; each happens at most once
          MaxUid,       \* bound: uids a folder gives out
          MaxFaults     \* bound: broken calls, rebuilt folders, other clients

ASSUME MailboxAssumption == /\ {"INBOX", "Drafts", "Trash"} \subseteq Folders
                            /\ Custom \subseteq Folders
                            /\ Folders \ Custom \subseteq {"INBOX", "Junk", "Sent",
                                               "Drafts", "Trash", "Archive"}
                            /\ {"new", "gone", "none"} \cap Folders = {}
                            /\ "none" \notin Messages
                            /\ "seen" \in Flags
                            /\ Limits \subseteq Nat \ {0}
                            /\ MaxUid \in Nat \ {0} /\ MaxFaults \in Nat

VARIABLES at,           \* where each message is: folder and uid
          kind,         \* "plain", or a fraud told by its headers or its body
          flags,        \* its flags on the server
          nextUid,      \* UIDNEXT of each folder
          exists,       \* folders of the server
          known,        \* MailFolder rows
          cache,        \* MailMessageCache rows, by folder and uid
          pc,           \* where each job stands (the last five Steps: Assistant)
          op,           \* which job it is
          key,          \* the folder and the uid it works on
          todo,         \* fetched messages or loaded rows it has still to write
          want,         \* the flag it changes
          rest,         \* folders it has still to visit
          strayed,      \* history: keys a row may misplace, see ListTellsPlace
          doubt,        \* history: keys with disputed flags, see FlagsAgree
          faults        \* faults so far

server == <<at, flags, nextUid, exists>>
copy   == <<known, cache>>
job    == <<pc, op, key, todo, want, rest>>
past   == <<strayed, doubt>>
vars   == <<server, kind, copy, job, past, faults>>

Uids   == 1..MaxUid
Keys   == Folders \X Uids
New    == <<"new", 0>>          \* a message that has not arrived
Gone   == <<"gone", 0>>         \* one that was expunged
Nobody == "none"
Kinds  == {"plain", "header", "body"}

Inbound  == Folders \cap {"INBOX", "Junk"}
Standard == Folders \ Custom

\* What the copy keeps of a message; a row is also hidden (is_deleted) and may
\* say that its sender is a fraud (sender_meta).
Row   == [msg : Messages, flags : SUBSET Flags, hidden : BOOLEAN, fraud : BOOLEAN]
NoRow == [msg |-> Nobody, flags |-> {}, hidden |-> FALSE, fraud |-> FALSE]
Entry == [uid : Uids, msg : Messages, flags : SUBSET Flags]
NoWish == [flag |-> "seen", add |-> FALSE]

Steps == {"idle", "select", "fetch", "write", "next", "purge", "load", "save",
          "update", "hide", "sender", "append", "drop", "rows", "done",
          "think", "folder", "list", "batch", "end"}
Ops   == {"none", "one", "all", "create", "chat", "task"}

TypeOK == /\ at \in [Messages -> Keys \cup {New, Gone}]
          /\ kind \in [Messages -> Kinds]
          /\ flags \in [Messages -> SUBSET Flags]
          /\ nextUid \in [Folders -> 1..(MaxUid + 1)]
          /\ exists \subseteq Folders /\ known \subseteq Folders
          /\ cache \in [Keys -> Row \cup {NoRow}]
          /\ pc \in [Jobs -> Steps]
          /\ op \in [Jobs -> Ops]
          /\ key \in [Jobs -> (Folders \cup {"none"}) \X (Uids \cup {0})]
          /\ todo \in [Jobs -> SUBSET Entry]
          /\ want \in [Jobs -> [flag : Flags, add : BOOLEAN]]
          /\ rest \in [Jobs -> SUBSET Folders]
          /\ strayed \subseteq Keys /\ doubt \subseteq Keys
          /\ faults \in 0..MaxFaults

\* One message is in the inbox, the others will arrive.  The inbox has been
\* copied already, or not yet.
Init == /\ \E m \in Messages, new \in Kinds :
              /\ kind = [n \in Messages |-> IF n = m THEN new ELSE "plain"]
              /\ at = [n \in Messages |-> IF n = m THEN <<"INBOX", 1>> ELSE New]
              /\ \/ known = {} /\ cache = [k \in Keys |-> NoRow]
                 \/ /\ known = {"INBOX"}
                    /\ cache = [k \in Keys |->
                         IF k = <<"INBOX", 1>> /\ new # "header"
                         THEN [NoRow EXCEPT !.msg = m] ELSE NoRow]
        /\ flags = [m \in Messages |-> {}]
        /\ nextUid = [f \in Folders |-> IF f = "INBOX" THEN 2 ELSE 1]
        /\ exists = Standard
        /\ pc = [j \in Jobs |-> "idle"]
        /\ op = [j \in Jobs |-> "none"]
        /\ key = [j \in Jobs |-> <<"none", 0>>]
        /\ todo = [j \in Jobs |-> {}]
        /\ want = [j \in Jobs |-> NoWish]
        /\ rest = [j \in Jobs |-> {}]
        /\ strayed = {} /\ doubt = {}
        /\ faults = 0

-----------------------------------------------------------------------------
(* The server.                                                              *)

Cached(k) == cache[k] # NoRow
In(f) == {m \in Messages : at[m][1] = f}
At(k) == {m \in Messages : at[m] = k}

\* The row tells where its message is.
There(k) == at[cache[k].msg] = k

\* A message in this folder that its headers, or its text, give away.
Blocked(m, f) == f \in Inbound /\ kind[m] # "plain"

\* Does a job hold something about a message, read before and used later?
Holds(j, k) ==
    \/ pc[j] \in {"write", "purge"} /\ \E e \in todo[j] : k = <<key[j][1], e.uid>>
    \/ pc[j] \in {"load", "save", "update", "hide", "sender"} /\ key[j] = k

\* A command of the assistant will move what has this uid.
Selects(j, k) == /\ pc[j] \in {"think", "folder", "batch", "hide"}
                 /\ \E e \in todo[j] : k = <<key[j][1], e.uid>>

Disputed(k, others) == IF \E j \in others : Holds(j, k) THEN {k} ELSE {}

\* MOVE: the message gets the next uid of the other folder; of a message that
\* is not there nothing is moved, and the answer is the same.
Moved(k, g) ==
    /\ IF At(k) = {}
       THEN UNCHANGED <<at, nextUid>>
       ELSE /\ nextUid[g] <= MaxUid                       \* bound
            /\ at' = [m \in Messages |->
                        IF m \in At(k) THEN <<g, nextUid[g]>> ELSE at[m]]
            /\ nextUid' = [nextUid EXCEPT ![g] = @ + 1]
    /\ UNCHANGED <<flags, exists>>

\* Delete and expunge.
Expunged(k) == /\ at' = [m \in Messages |-> IF m \in At(k) THEN Gone ELSE at[m]]
               /\ UNCHANGED <<flags, nextUid, exists>>

\* A new message is stored in a folder.
Stored(m, f) == /\ at[m] = New
                /\ nextUid[f] <= MaxUid                   \* bound
                /\ at' = [at EXCEPT ![m] = <<f, nextUid[f]>>]
                /\ nextUid' = [nextUid EXCEPT ![f] = @ + 1]
                /\ UNCHANGED <<flags, exists>>

\* A flag is set or removed.
Flagged(k, flag, add) ==
    /\ flags' = [m \in Messages |->
                   IF m \notin At(k) THEN flags[m]
                   ELSE IF add THEN flags[m] \cup {flag} ELSE flags[m] \ {flag}]
    /\ UNCHANGED <<at, nextUid, exists>>

\* New mail, of any kind; what users write themselves is plain.
Arrives(m) == /\ Stored(m, "INBOX")
              /\ \E new \in Kinds : kind' = [kind EXCEPT ![m] = new]
              /\ UNCHANGED <<copy, job, past, faults>>

\* Another client moves a message or changes a flag: the copy is not told.
Elsewhere(m) ==
    /\ at[m] \in Keys /\ faults < MaxFaults
    /\ \/ /\ \E g \in exists \ {at[m][1]} : Moved(at[m], g)
          /\ strayed' = strayed \cup {at[m]}
          /\ UNCHANGED doubt
       \/ /\ \E flag \in Flags : Flagged(at[m], flag, flag \notin flags[m])
          /\ doubt' = doubt \cup {at[m]}
          /\ UNCHANGED strayed
    /\ faults' = faults + 1
    /\ UNCHANGED <<kind, copy, job>>

\* Sessions that have this folder selected are closed.
Closed(f) == {j \in Jobs : pc[j] = "fetch" /\ key[j][1] = f}

\* Jobs end here: with an answer, with an error, or, in sync_standard_folders,
\* with the next folder.
Stop(S) ==
    LET whole == {j \in S : op[j] # "all"}
    IN  /\ pc' = [j \in Jobs |-> IF j \in whole THEN "done"
                                 ELSE IF j \in S THEN "next" ELSE pc[j]]
        /\ op' = [j \in Jobs |-> IF j \in whole THEN "none" ELSE op[j]]
        /\ rest' = [j \in Jobs |-> IF j \in whole THEN {} ELSE rest[j]]
        /\ key' = [j \in Jobs |-> IF j \in S THEN <<"none", 0>> ELSE key[j]]
        /\ todo' = [j \in Jobs |-> IF j \in S THEN {} ELSE todo[j]]
        /\ want' = [j \in Jobs |-> IF j \in S THEN NoWish ELSE want[j]]

\* The folder is rebuilt: UIDVALIDITY changes, and its messages get new uids.
Rebuild(f) ==
    /\ f \in exists /\ In(f) # {} /\ faults < MaxFaults
    /\ \E new \in [In(f) -> 1..Cardinality(In(f))] :
          /\ \A m, n \in In(f) : m # n => new[m] # new[n]
          /\ at' = [m \in Messages |-> IF m \in In(f) THEN <<f, new[m]>> ELSE at[m]]
    /\ nextUid' = [nextUid EXCEPT ![f] = Cardinality(In(f)) + 1]
    /\ Stop(Closed(f))
    /\ strayed' = strayed \cup {k \in Keys : k[1] = f}
    /\ doubt' = doubt \cup {k \in Keys : k[1] = f}
    /\ faults' = faults + 1
    /\ UNCHANGED <<kind, flags, exists, copy>>

-----------------------------------------------------------------------------
(* sync_folder_metadata: a folder is selected, its latest messages are      *)
(* fetched, and one row after the other is written.                         *)

Goto(j, next) == pc' = [pc EXCEPT ![j] = next]

\* SELECT, and the folder's row: its uidvalidity is stored, and never compared.
Select(j, f) == /\ f \in exists
                /\ known' = known \cup {f}
                /\ key' = [key EXCEPT ![j] = <<f, 0>>]
                /\ Goto(j, "fetch")

\* POST /sync.
Sync(j, f) == /\ pc[j] = "idle"
              /\ Select(j, f)
              /\ UNCHANGED <<server, kind, cache, op, todo, want, rest, past, faults>>

\* The Celery task does the same, later.
SyncTask(j, f) == Sync(j, f)

\* The IDLE listener of the inbox, when the server reports a change.
Notified(j) == Sync(j, "INBOX")

\* GET /messages synchronizes only a folder that has no row yet.
OpenFolder(j, f) == /\ f \notin known
                    /\ Sync(j, f)

\* POST /sync-all: the standard folders, then the frauds in the inbox.
SyncAll(j) == /\ pc[j] = "idle"
              /\ Goto(j, "next")
              /\ op' = [op EXCEPT ![j] = "all"]
              /\ rest' = [rest EXCEPT ![j] = Standard]
              /\ UNCHANGED <<server, kind, copy, key, todo, want, past, faults>>

Rank == [INBOX |-> 1, Junk |-> 2, Sent |-> 3, Drafts |-> 4, Trash |-> 5, Archive |-> 6]

NextFolder(j) == /\ pc[j] = "next"
                 /\ \E f \in rest[j] :
                       /\ \A g \in rest[j] : Rank[f] <= Rank[g]
                       /\ Select(j, f)
                       /\ rest' = [rest EXCEPT ![j] = @ \ {f}]
                 /\ UNCHANGED <<server, kind, cache, op, todo, want, past, faults>>

\* create_folder and save_draft synchronize the folder in a session of its own.
SelectAgain(j) == /\ pc[j] = "select"
                  /\ IF key[j][1] \in exists
                     THEN /\ Select(j, key[j][1])
                          /\ UNCHANGED <<op, todo, want, rest>>
                     ELSE Stop({j}) /\ UNCHANGED known
                  /\ UNCHANGED <<server, kind, cache, past, faults>>

\* After the last row create_folder writes the folder's row once more.
EndSync(j) == IF op[j] = "create"
              THEN /\ Goto(j, "rows")
                   /\ rest' = [rest EXCEPT ![j] = {key[j][1]}]
                   /\ todo' = [todo EXCEPT ![j] = {}]
                   /\ UNCHANGED <<op, key, want>>
              ELSE Stop({j})

\* SEARCH ALL and FETCH of the latest ones; an empty folder ends it at once.
Fetch(j) ==
    LET f == key[j][1]
    IN  /\ pc[j] = "fetch"
        /\ IF In(f) = {}
           THEN EndSync(j)
           ELSE /\ \E n \in Limits :
                     todo' = [todo EXCEPT ![j] =
                        {[uid |-> at[m][2], msg |-> m, flags |-> flags[m]] :
                           m \in {x \in In(f) :
                                    Cardinality({y \in In(f) : at[y][2] > at[x][2]}) < n}}]
                /\ Goto(j, "write")
                /\ UNCHANGED <<op, key, want, rest>>
        /\ UNCHANGED <<server, kind, copy, past, faults>>

\* What a synchronization makes of a message: a fraud the headers tell of hides
\* the row there is; any other message gets its row, which is no longer hidden.
Copied(k, e) == IF kind[e.msg] = "header" /\ k[1] \in Inbound
                THEN IF Cached(k) THEN [cache[k] EXCEPT !.hidden = TRUE] ELSE NoRow
                ELSE [msg |-> e.msg, flags |-> e.flags, hidden |-> FALSE,
                      fraud |-> FALSE]

\* A row that now tells the truth, and that no other job will write again.
Settled(j, k) == /\ cache'[k].msg \in At(k)
                 /\ ~cache'[k].hidden
                 /\ cache'[k].flags = flags[cache'[k].msg]
                 /\ \A i \in Jobs \ {j} : ~Holds(i, k) /\ ~Selects(i, k)

WriteRow(j) ==
    /\ pc[j] = "write"
    /\ \E e \in todo[j] :
          LET k == <<key[j][1], e.uid>>
          IN  /\ cache' = [cache EXCEPT ![k] = Copied(k, e)]
              /\ IF todo[j] = {e}
                 THEN EndSync(j)
                 ELSE /\ todo' = [todo EXCEPT ![j] = @ \ {e}]
                      /\ UNCHANGED <<pc, op, key, want, rest>>
              /\ strayed' = IF Settled(j, k) THEN strayed \ {k} ELSE strayed
              /\ doubt' = IF Settled(j, k) THEN doubt \ {k} ELSE doubt
    /\ UNCHANGED <<server, kind, known, faults>>

Clear(j) == /\ pc' = [pc EXCEPT ![j] = "done"]
            /\ op' = [op EXCEPT ![j] = "none"]
            /\ key' = [key EXCEPT ![j] = <<"none", 0>>]
            /\ todo' = [todo EXCEPT ![j] = {}]
            /\ want' = [want EXCEPT ![j] = NoWish]
            /\ rest' = [rest EXCEPT ![j] = {}]

\* purge_blocked_inbound_cache: the rows are read, then hidden one by one.
Frauds == {u \in Uids : LET row == cache[<<"INBOX", u>>]
                        IN  row # NoRow /\ ~row.hidden /\ row.fraud}

LoadFrauds(j) ==
    /\ pc[j] = "next" /\ rest[j] = {}
    /\ IF Frauds = {}
       THEN Clear(j)
       ELSE /\ key' = [key EXCEPT ![j] = <<"INBOX", 0>>]
            /\ todo' = [todo EXCEPT ![j] =
                  {[uid |-> u, msg |-> cache[<<"INBOX", u>>].msg, flags |-> {}] :
                     u \in Frauds}]
            /\ Goto(j, "purge")
            /\ UNCHANGED <<op, want, rest>>
    /\ UNCHANGED <<server, kind, copy, past, faults>>

HideFraud(j) ==
    /\ pc[j] = "purge"
    /\ \E e \in todo[j] :
          LET k == <<"INBOX", e.uid>>
          IN  /\ cache' = [cache EXCEPT ![k] =
                     IF Cached(k) THEN [@ EXCEPT !.hidden = TRUE, !.fraud = TRUE]
                                  ELSE NoRow]
              /\ IF todo[j] = {e}
                 THEN Clear(j)
                 ELSE /\ todo' = [todo EXCEPT ![j] = @ \ {e}]
                      /\ UNCHANGED <<pc, op, key, want, rest>>
    /\ UNCHANGED <<server, kind, known, past, faults>>

-----------------------------------------------------------------------------
(* Requests about one message: first IMAP, then the row.                    *)

\* A request for a message that the list has shown.
Asks(j, k) == pc[j] = "idle" /\ Cached(k) /\ k[1] \in exists

Hold(j, k, next) == /\ Goto(j, next)
                    /\ key' = [key EXCEPT ![j] = k]
                    /\ UNCHANGED <<op, rest>>

\* set_flag, for PATCH /flags (next "load") and the bulk actions ("update").
ChangeFlag(j, k, flag, add, next) ==
    /\ Asks(j, k)
    /\ Flagged(k, flag, add)
    /\ doubt' = doubt \cup Disputed(k, Jobs \ {j})
    /\ want' = [want EXCEPT ![j] = [flag |-> flag, add |-> add]]
    /\ Hold(j, k, next)
    /\ UNCHANGED <<kind, copy, todo, strayed, faults>>

PatchFlag(j) == \E k \in Keys, flag \in Flags, add \in BOOLEAN :
                   ChangeFlag(j, k, flag, add, "load")

BulkFlag(j) == \E k \in Keys, flag \in Flags, add \in BOOLEAN :
                  ChangeFlag(j, k, flag, add, "update")

Wished(j, old) == IF want[j].add THEN old \cup {want[j].flag}
                                 ELSE old \ {want[j].flag}

\* patch_flags loads the row, and writes both of its flags.
LoadRow(j) ==
    /\ pc[j] = "load"
    /\ IF Cached(key[j])
       THEN /\ todo' = [todo EXCEPT ![j] =
                          {[uid |-> key[j][2], msg |-> cache[key[j]].msg,
                            flags |-> Wished(j, cache[key[j]].flags)]}]
            /\ Goto(j, "save")
            /\ UNCHANGED <<op, key, want, rest>>
       ELSE Clear(j)
    /\ UNCHANGED <<server, kind, copy, past, faults>>

SaveRow(j) ==
    /\ pc[j] = "save"
    /\ \E e \in todo[j] :
          cache' = [cache EXCEPT ![key[j]] =
                      IF Cached(key[j]) THEN [@ EXCEPT !.flags = e.flags] ELSE NoRow]
    /\ Clear(j)
    /\ UNCHANGED <<server, kind, known, past, faults>>

\* Variant: "unseen" and "unstar" write the same value as their counterparts.
UpdateRowAlike(j) ==
    /\ pc[j] = "update"
    /\ cache' = [cache EXCEPT ![key[j]] =
                   IF Cached(key[j]) THEN [@ EXCEPT !.flags = @ \cup {want[j].flag}]
                                     ELSE NoRow]
    /\ Clear(j)
    /\ UNCHANGED <<server, kind, known, past, faults>>

\* A bulk action updates the one column.
UpdateRow(j) ==
    LET old == cache[key[j]]
    IN  /\ pc[j] = "update"
        /\ cache' = [cache EXCEPT ![key[j]] =
                       IF Cached(key[j]) THEN [old EXCEPT !.flags = Wished(j, old.flags)]
                                         ELSE NoRow]
        /\ Clear(j)
        /\ UNCHANGED <<server, kind, known, past, faults>>

\* Variant: the row is hidden even if the other folder is not there.
RemoveAnyway(j, k, g) ==
    /\ Asks(j, k)
    /\ \/ /\ k[1] = "Trash" /\ g = "Trash"
          /\ Expunged(k)
       \/ k[1] # g /\ g \in exists /\ Moved(k, g)
       \/ g \notin exists /\ UNCHANGED server
    /\ strayed' = strayed \cup Disputed(k, Jobs \ {j})
    /\ Hold(j, k, "hide")
    /\ UNCHANGED <<kind, copy, todo, want, doubt, faults>>

\* trash_or_delete_message and the bulk actions that move; the row is hidden
\* next.  With an error (the other folder is not there) it is not.
Remove(j, k, g) ==
    /\ Asks(j, k)
    /\ \/ /\ k[1] = "Trash" /\ g = "Trash"
          /\ Expunged(k)
       \/ k[1] # g /\ g \in exists /\ Moved(k, g)
    /\ strayed' = strayed \cup Disputed(k, Jobs \ {j})
    /\ Hold(j, k, "hide")
    /\ UNCHANGED <<kind, copy, todo, want, doubt, faults>>

HideRow(j) ==
    /\ pc[j] = "hide"
    /\ cache' = [cache EXCEPT ![key[j]] =
                   IF Cached(key[j]) THEN [@ EXCEPT !.hidden = TRUE] ELSE NoRow]
    /\ IF todo[j] = {}
       THEN Clear(j)
       ELSE Goto(j, "batch") /\ UNCHANGED <<op, key, todo, want, rest>>
    /\ UNCHANGED <<server, kind, known, past, faults>>

\* POST /move leaves the row as it is.
Move(j, k, g) == /\ Asks(j, k)
                 /\ k[1] # g /\ g \in exists /\ Moved(k, g)
                 /\ strayed' = strayed \cup {k}
                 /\ Clear(j)
                 /\ UNCHANGED <<kind, copy, doubt, faults>>

\* A message that is fetched whole is marked as seen; the row is not told.
Opened(k) ==
    /\ Flagged(k, "seen", TRUE)
    /\ doubt' = doubt \cup {at[m] : m \in {n \in At(k) : "seen" \notin flags[n]}}

\* GET /body: the server marks the message as seen, the row only learns what
\* the text tells of its sender.
ReadBody(j, k) ==
    /\ Asks(j, k)
    /\ Opened(k)
    /\ IF At(k) = {}
       THEN Clear(j)
       ELSE /\ \E m \in At(k) : todo' = [todo EXCEPT ![j] =
                    {[uid |-> k[2], msg |-> m, flags |-> {}]}]
            /\ Hold(j, k, "sender")
            /\ UNCHANGED want
    /\ UNCHANGED <<kind, copy, strayed, faults>>

NoteSender(j) ==
    /\ pc[j] = "sender"
    /\ \E e \in todo[j] :
          LET fraud == kind[e.msg] = "body"
          IN  cache' = [cache EXCEPT ![key[j]] =
                  IF Cached(key[j]) THEN [@ EXCEPT !.fraud = fraud] ELSE NoRow]
    /\ Clear(j)
    /\ UNCHANGED <<server, kind, known, past, faults>>

\* GET /attachments.
Download(j, k) ==
    /\ Asks(j, k)
    /\ Opened(k)
    /\ Clear(j)
    /\ UNCHANGED <<kind, copy, strayed, faults>>

-----------------------------------------------------------------------------
(* Drafts and folders.                                                      *)

\* POST /drafts: the former draft is expunged, and its row stays ...
SaveDraft(j, u) ==
    LET k == <<"Drafts", u>>
    IN  /\ pc[j] = "idle"
        /\ Expunged(k)
        /\ strayed' = IF At(k) = {} THEN strayed ELSE strayed \cup {k}
        /\ Goto(j, "append")
        /\ UNCHANGED <<kind, copy, op, key, todo, want, rest, doubt, faults>>

\* ... the new one is stored; then the folder is synchronized, or the answer
\* of the server is not a number and the request ends here.
AppendDraft(j) ==
    /\ pc[j] = "append"
    /\ \E m \in Messages : Stored(m, "Drafts")
    /\ \/ /\ Goto(j, "select")
          /\ op' = [op EXCEPT ![j] = "one"]
          /\ key' = [key EXCEPT ![j] = <<"Drafts", 0>>]
          /\ UNCHANGED <<todo, want, rest>>
       \/ Clear(j)
    /\ UNCHANGED <<kind, copy, past, faults>>

\* GET /folders: a row for every name the server listed.
ListFolders(j) == /\ pc[j] = "idle"
                  /\ rest' = [rest EXCEPT ![j] = exists]
                  /\ Goto(j, "rows")
                  /\ UNCHANGED <<server, kind, copy, op, key, todo, want, past, faults>>

WriteFolders(j) == /\ pc[j] = "rows"
                   /\ known' = known \cup rest[j]
                   /\ Clear(j)
                   /\ UNCHANGED <<server, kind, cache, past, faults>>

CreateFolder(j, f) ==
    /\ f \in Custom \ exists
    /\ pc[j] = "idle"
    /\ Goto(j, "select")
    /\ op' = [op EXCEPT ![j] = "create"]
    /\ key' = [key EXCEPT ![j] = <<f, 0>>]
    /\ exists' = exists \cup {f}
    /\ UNCHANGED <<at, flags, nextUid, kind, copy, todo, want, rest, past, faults>>

\* The folder goes with its messages ...
DeleteFolder(j, f) ==
    /\ pc[j] = "idle" /\ f \in Custom \cap exists
    /\ at' = [m \in Messages |-> IF m \in In(f) THEN Gone ELSE at[m]]
    /\ nextUid' = [nextUid EXCEPT ![f] = 1]
    /\ exists' = exists \ {f}
    /\ strayed' = strayed \cup {k \in Keys : k[1] = f}
    /\ doubt' = doubt \cup {k \in Keys : k[1] = f}
    /\ pc' = [i \in Jobs |-> IF i = j THEN "drop"
                             ELSE IF i \in Closed(f) THEN "done" ELSE pc[i]]
    /\ op' = [i \in Jobs |-> IF i \in Closed(f) THEN "none" ELSE op[i]]
    /\ key' = [i \in Jobs |-> IF i = j THEN <<f, 0>>
                              ELSE IF i \in Closed(f) THEN <<"none", 0>> ELSE key[i]]
    /\ UNCHANGED <<flags, kind, copy, todo, want, rest, faults>>

\* ... then its row, with the rows of the messages; a synchronization that
\* still writes them fails.
DropFolder(j) ==
    LET f == key[j][1]
    IN  /\ pc[j] = "drop"
        /\ known' = known \ {f}
        /\ cache' = [k \in Keys |-> IF k[1] = f THEN NoRow ELSE cache[k]]
        /\ Stop({j} \cup {i \in Jobs : pc[i] \in {"fetch", "write"} /\ key[i][1] = f})
        /\ UNCHANGED <<server, kind, past, faults>>

\* A call fails, a reply is lost or a process dies: what was done stays done.
Break(j) ==
    /\ pc[j] \notin {"idle", "done"} /\ faults < MaxFaults
    /\ \/ Clear(j)
       \/ op[j] = "all" /\ pc[j] \in {"fetch", "write"} /\ Stop({j})
    /\ strayed' = IF pc[j] = "hide" THEN strayed \cup {key[j]} ELSE strayed
    /\ doubt' = IF pc[j] \in {"load", "save", "update"} THEN doubt \cup {key[j]}
                                                       ELSE doubt
    /\ faults' = faults + 1
    /\ UNCHANGED <<server, kind, copy>>

-----------------------------------------------------------------------------
Request(j) ==
    /\ pc[j] = "idle"
    /\ \/ \E f \in exists : Sync(j, f) \/ SyncTask(j, f) \/ OpenFolder(j, f)
       \/ Notified(j) \/ SyncAll(j) \/ ListFolders(j) \/ PatchFlag(j) \/ BulkFlag(j)
       \/ \E k \in Keys : ReadBody(j, k) \/ Download(j, k)
       \/ \E k \in Keys : \E g \in Folders : Remove(j, k, g) \/ Move(j, k, g)
       \/ \E u \in Uids : SaveDraft(j, u)
       \/ \E f \in Custom : CreateFolder(j, f) \/ DeleteFolder(j, f)

Step(j) ==
    \/ NextFolder(j) \/ SelectAgain(j) \/ Fetch(j) \/ WriteRow(j)
    \/ LoadFrauds(j) \/ HideFraud(j)
    \/ LoadRow(j) \/ SaveRow(j) \/ UpdateRow(j) \/ HideRow(j) \/ NoteSender(j)
    \/ AppendDraft(j) \/ WriteFolders(j) \/ DropFolder(j)

Next ==
    \/ \E m \in Messages : Arrives(m) \/ Elsewhere(m)
    \/ \E f \in Folders : Rebuild(f)
    \/ \E j \in Jobs : Request(j) \/ Step(j) \/ Break(j)

Spec == Init /\ [][Next]_vars

-----------------------------------------------------------------------------
\* list_messages: the rows of a folder that are not hidden; in the inbox and in
\* the spam folder not those whose sender is a fraud either.
Listed(k) == /\ Cached(k)
             /\ ~cache[k].hidden
             /\ k[1] \in Inbound => ~cache[k].fraud

\* The starred messages of all folders: frauds are not left out.
Starred(k) == Cached(k) /\ ~cache[k].hidden /\ "flagged" \in cache[k].flags

\* What the list, or the view of starred messages, shows is in that folder,
\* unless the message left it by another client, by POST /move, as a former
\* draft, with its folder, or while another job still held what it had read of
\* it.  What the list leaves out has left the folder or is a fraud.  A rebuilt
\* folder is excused until the message is fetched again.
ListTellsPlace ==
    \A k \in Keys \ strayed :
       /\ (Listed(k) \/ Starred(k)) =>
             There(k) \/ \E j \in Jobs : pc[j] = "hide" /\ key[j] = k
       /\ (Cached(k) /\ ~Listed(k)) => ~There(k) \/ Blocked(cache[k].msg, k[1])

\* The flags of a listed message are those of the server, unless another client
\* changed them, the message was opened, or two jobs changed or copied them at
\* once; a synchronization that nobody disturbs settles it.
FlagsAgree ==
    \A k \in Keys \ doubt :
       (Listed(k) /\ There(k)) =>
          \/ cache[k].flags = flags[cache[k].msg]
          \/ \E j \in Jobs : pc[j] \in {"load", "save", "update"} /\ key[j] = k
=============================================================================
