----------------------------- MODULE PanelAdmin -----------------------------
(***************************************************************************)
(* Accounts of the panel beside the domain they belong to: requests of      *)
(* administrators (and of account owners, for their own settings) that run  *)
(* at the same time in several processes.  A handler reads, checks, counts, *)
(* edits Postfix's lookup file and saves in separate steps, without a       *)
(* transaction.                                                             *)
(***************************************************************************)
EXTENDS DomainDns

CONSTANTS Ids,          \* rows of accounts that exist or can be created
          Hosted,       \* those that belong to the domain of DomainDns
          Names,        \* addresses
          Boss,         \* SystemConfig.bootstrap_admin_email
          MaxAccounts,  \* SystemConfig.max_accounts
          Asked,        \* what requests may ask for
          FirstAccounts \* the account rows there may be at first

ASSUME PanelAssumption ==
    /\ IsFiniteSet(Ids) /\ Hosted \subseteq Ids
    /\ Boss \in Names /\ MaxAccounts \in Nat

VARIABLES
    acct,       \* the account rows
    copy,       \* the instance of an account each handler works on
    vmail,      \* the addresses in the lookup file
    lines,      \* the lines of the file a handler has read
    lost,       \* history: a handler wrote over, or deleted, a row others had changed
    vlost,      \* history: a handler rewrote the file over changes of others
    crossed,    \* history: what was counted changed before the count was used
    switched    \* history: a full administrator was deactivated

accountVars == <<acct, copy, vmail, lines, lost, vlost, crossed, switched>>
vars == <<domVars, accountVars>>

Account  == [there : BOOLEAN, email : Names, role : {"FULL", "USER"}, active : BOOLEAN]
NoAccount == [there |-> FALSE, email |-> Boss, role |-> "USER", active |-> FALSE]
Existing == {i \in Ids : acct[i].there}
Admins   == {i \in Ids : acct[i].there /\ acct[i].role = "FULL" /\ acct[i].active}

Own     == {"toggle", "settings", "role", "rename", "delete"}
Create  == {"create", "createManaged"}

Kinds   == DomainOps \union Own \union Create
Labels  == {"start", "work", "read", "rewrite", "append", "commit", "domain", "key", "insert",
            "write", "list", "clean", "dkim", "partial", "save", "saveOk",
            "found", "missed", "end"}

\* Requests are of these kinds, and the panel is set up when they come: it has a
\* full administrator and no more accounts than it may have.
ASSUME AskedAssumption ==
    /\ Asked \subseteq [kind : Kinds, id : Ids, name : Names, role : {"FULL", "USER"}]
    /\ \A rows \in FirstAccounts :
          LET There == {i \in Ids : rows[i].there}
          IN  /\ rows \in [Ids -> Account]
              /\ \A i, j \in There : rows[i].email = rows[j].email => i = j
              /\ \E i \in There : rows[i].role = "FULL" /\ rows[i].active
              /\ Cardinality(There) <= MaxAccounts

\* Types, and the unique addresses the schema declares.
TypeOK ==
    /\ op \in [Requests -> [kind : Kinds, id : Ids, name : Names, role : {"FULL", "USER"}]]
    /\ pc \in [Requests -> Labels]
    /\ DomTypeOK
    /\ acct \in [Ids -> Account]
    /\ \A i, j \in Existing : acct[i].email = acct[j].email => i = j
    /\ copy \in [Requests -> Account]
    /\ vmail \subseteq Names
    /\ lines \in [Requests -> SUBSET Names]
    /\ lost \in BOOLEAN /\ vlost \in BOOLEAN /\ switched \in BOOLEAN
    /\ crossed \subseteq {"admins", "limit", "domain", "line"}

-----------------------------------------------------------------------------
(***************************************************************************)
(* Requests about an account: op[r].id is its row, op[r].name the new or    *)
(* created address, op[r].role the new role.                                *)
(***************************************************************************)
Load(r) ==
    /\ pc[r] = "start" /\ op[r].kind \in Own
    /\ copy' = [copy EXCEPT ![r] = acct[op[r].id]]
    /\ Goto(r, IF acct[op[r].id].there THEN "work" ELSE "end")
    /\ UNCHANGED <<op, dom, dcopy, zoneVars, used, dlost, hadBoth, acct, vmail, lines,
                   lost, vlost, crossed, switched>>

Stale(r) == lost' = (lost \/ acct[op[r].id] # copy[r])

\* save() writes every column of the instance: a row that has gone comes back,
\* unless its domain has gone with it; an address taken is an IntegrityError.
HomeIsThere(r) == acct[op[r].id].there \/ op[r].id \notin Hosted \/ dom.there

\* Variant: the address is not unique.
HasDomain(r, row) == HomeIsThere(r)
CanSave(r, row) ==
    /\ HomeIsThere(r)
    /\ \A i \in Existing \ {op[r].id} : acct[i].email # row.email

SaveAccount(r, row) ==
    /\ Stale(r)
    /\ IF CanSave(r, row)
       THEN acct' = [acct EXCEPT ![op[r].id] = row]
       ELSE UNCHANGED acct

\* toggle_account.
Toggle(r) ==
    /\ At(r, "toggle", "work")
    /\ SaveAccount(r, [copy[r] EXCEPT !.active = ~@])
    /\ switched' = (switched \/ (copy[r].active /\ copy[r].role = "FULL"))
    /\ Goto(r, "end")
    /\ UNCHANGED <<op, dom, dcopy, zoneVars, used, dlost, hadBoth, copy, vmail, lines,
                   vlost, crossed>>

\* update_quota, update_email_settings, and update_account with a password:
\* columns the model does not tell apart, but every column is written.
SaveSettings(r) ==
    /\ At(r, "settings", "work")
    /\ SaveAccount(r, copy[r])
    /\ Goto(r, "end")
    /\ UNCHANGED <<op, dom, dcopy, zoneVars, used, dlost, hadBoth, copy, vmail, lines,
                   vlost, crossed, switched>>

\* The administrators may be reduced while more than one is left: update_role
\* and delete_account count them before they write.
Reducing(r) ==
    /\ op[r].kind = "delete" \/ (op[r].kind = "role" /\ op[r].role # "FULL")
    /\ copy[r].role = "FULL"
\* Variant: only the deletion of the last row is refused.
OneLeft   == Cardinality(Existing) <= 1
LastAdmin == Cardinality(Admins) <= 1

Check(r) ==
    /\ pc[r] = "work" /\ op[r].kind \in {"role", "delete"}
    /\ IF \/ Reducing(r) /\ LastAdmin
          \/ copy[r].email = Boss /\ (op[r].kind = "delete" \/ op[r].role # "FULL")
       THEN /\ Goto(r, "end")
            /\ UNCHANGED crossed
       ELSE /\ Goto(r, IF op[r].kind = "delete" THEN "read" ELSE "commit")
            /\ crossed' = IF /\ Reducing(r)
                             /\ \E q \in Requests \ {r} :
                                   Reducing(q) /\ pc[q] \in {"read", "rewrite", "commit"}
                          THEN crossed \union {"admins"} ELSE crossed
    /\ UNCHANGED <<op, dom, dcopy, zoneVars, used, dlost, hadBoth, acct, copy, vmail, lines,
                   lost, vlost, switched>>

\* save(update_fields=['role']): an error if the row is gone.
CommitRole(r) ==
    /\ At(r, "role", "commit")
    /\ acct' = IF acct[op[r].id].there THEN [acct EXCEPT ![op[r].id].role = op[r].role] ELSE acct
    /\ Stale(r)
    /\ Goto(r, "end")
    /\ UNCHANGED <<op, dom, dcopy, zoneVars, used, dlost, hadBoth, copy, vmail, lines,
                   vlost, crossed, switched>>

CommitDelete(r) ==
    /\ At(r, "delete", "commit")
    /\ acct' = [acct EXCEPT ![op[r].id].there = FALSE]
    /\ Stale(r)
    /\ Goto(r, "end")
    /\ UNCHANGED <<op, dom, dcopy, zoneVars, used, dlost, hadBoth, copy, vmail, lines,
                   vlost, crossed, switched>>

\* update_account with a new user name: the file first, the row at the end.
Rename(r) ==
    /\ At(r, "rename", "work")
    /\ Goto(r, IF \E i \in Existing \ {op[r].id} : acct[i].email = op[r].name
               THEN "end" ELSE "read")
    /\ UNCHANGED <<op, dom, dcopy, zoneVars, used, dlost, hadBoth, accountVars>>

\* update_postfix_vmail(..., "remove") reads every line and writes them again.
ReadLines(r) ==
    /\ pc[r] = "read"
    /\ lines' = [lines EXCEPT ![r] = vmail]
    /\ Goto(r, "rewrite")
    /\ UNCHANGED <<op, dom, dcopy, zoneVars, used, dlost, hadBoth, acct, copy, vmail,
                   lost, vlost, crossed, switched>>

\* Variant: the line is left in the file.
AllLines(r)  == lines[r]
LinesLeft(r) == lines[r] \ {copy[r].email}

RewriteLines(r) ==
    /\ pc[r] = "rewrite"
    /\ vmail' = LinesLeft(r)
    /\ vlost' = (vlost \/ vmail # lines[r])
    /\ lines' = [lines EXCEPT ![r] = {}]
    /\ Goto(r, IF op[r].kind = "rename" THEN "append" ELSE "commit")
    /\ UNCHANGED <<op, dom, dcopy, zoneVars, used, dlost, hadBoth, acct, copy,
                   lost, crossed, switched>>

\* The address is that of a created account that is gone or about to go, or it
\* has been taken, or given up, since a new name was found to be free.
Overtaken(r) ==
    \/ op[r].kind = "create" <=> \A i \in Existing : acct[i].email # op[r].name
    \/ \E q \in Requests \ {r} :
          /\ op[q].kind \in {"delete", "rename"} /\ pc[q] \in {"rewrite", "append", "commit"}
          /\ copy[q].email = op[r].name

\* update_postfix_vmail(..., "add") appends a line.
AppendLine(r) ==
    /\ pc[r] = "append"
    /\ vmail' = vmail \union {op[r].name}
    /\ Goto(r, IF op[r].kind = "rename" THEN "commit" ELSE "end")
    /\ crossed' = IF Overtaken(r) THEN crossed \union {"line"} ELSE crossed
    /\ UNCHANGED <<op, dom, dcopy, zoneVars, used, dlost, hadBoth, acct, copy, lines,
                   lost, vlost, switched>>

CommitRename(r) ==
    /\ At(r, "rename", "commit")
    /\ SaveAccount(r, [copy[r] EXCEPT !.email = op[r].name])
    /\ Goto(r, "end")
    /\ UNCHANGED <<op, dom, dcopy, zoneVars, used, dlost, hadBoth, copy, vmail, lines,
                   vlost, crossed, switched>>

-----------------------------------------------------------------------------
(***************************************************************************)
(* Creation: core/api.py (the lookup file is written, the domain as it is)  *)
(* and management/api.py (the domain is switched on and given a key).       *)
(***************************************************************************)

\* Variant: the account that takes the last slot is let in twice.
LimitPassed  == Cardinality(Existing) > MaxAccounts
LimitReached == Cardinality(Existing) >= MaxAccounts

CountAccounts(r) ==
    /\ pc[r] = "start" /\ op[r].kind \in Create
    /\ IF LimitReached
       THEN /\ Goto(r, "end")
            /\ UNCHANGED crossed
       ELSE /\ Goto(r, "domain")
            /\ crossed' = IF \E q \in Requests \ {r} : pc[q] \in {"domain", "key", "insert"}
                          THEN crossed \union {"limit"} ELSE crossed
    /\ UNCHANGED <<op, dom, dcopy, zoneVars, used, dlost, hadBoth, acct, copy, vmail, lines,
                   lost, vlost, switched>>

\* get_or_create of the domain.
TakeDomain(r) ==
    /\ pc[r] = "domain"
    /\ LET row == IF dom.there THEN dom ELSE NewRow(r)
           on  == IF op[r].kind = "createManaged" THEN [row EXCEPT !.active = TRUE] ELSE row
       IN  /\ dom' = on
           /\ dcopy' = [dcopy EXCEPT ![r] = on]
    /\ Goto(r, IF op[r].kind = "createManaged" THEN "key" ELSE "insert")
    /\ UNCHANGED <<op, zoneVars, used, dlost, hadBoth, accountVars>>

\* generate_dkim_keys for a domain that has none.
TakeKey(r) ==
    /\ pc[r] = "key"
    /\ IF dcopy[r].key = NoKey
       THEN GenerateKeys(r)
       ELSE UNCHANGED <<dom, dcopy, used, dlost>>
    /\ Goto(r, "insert")
    /\ UNCHANGED <<op, zoneVars, hadBoth, accountVars>>

\* Rows that others have worked on: a primary key is not used again.
SeenIds == {op[q].id : q \in {x \in Requests : op[x].kind \in Own /\ pc[x] # "start"}}

\* The row, unless the address is taken or the domain gone since.
Insert(r) ==
    /\ pc[r] = "insert"
    /\ IF /\ RowIsThere(r)
          /\ \A i \in Existing : acct[i].email # op[r].name
       THEN /\ \E i \in Hosted \ (Existing \union SeenIds) :
                  acct' = [acct EXCEPT ![i] = [there |-> TRUE, email |-> op[r].name,
                                               role |-> op[r].role, active |-> TRUE]]
            /\ Goto(r, IF op[r].kind = "create" THEN "append" ELSE "end")
            /\ crossed' = IF \E q \in Requests : At(q, "deleteDomain", "commit")
                          THEN crossed \union {"domain"} ELSE crossed
       ELSE /\ Goto(r, "end")
            /\ UNCHANGED <<acct, crossed>>
    /\ UNCHANGED <<op, dom, dcopy, zoneVars, used, dlost, hadBoth, copy, vmail, lines,
                   lost, vlost, switched>>

\* delete_domain counts the accounts, then deletes: rows go with the domain.
\* Variant: the accounts are not counted.
NotCounted(r) == TRUE
NoAccounts(r) == Existing \intersect Hosted = {}

CountDomain(r) ==
    /\ At(r, "deleteDomain", "work")
    /\ Goto(r, IF NoAccounts(r) THEN "commit" ELSE "end")
    /\ UNCHANGED <<op, dom, dcopy, zoneVars, used, dlost, hadBoth, accountVars>>

CommitDomain(r) ==
    /\ At(r, "deleteDomain", "commit")
    /\ IF RowIsThere(r)
       THEN /\ dom' = NoRow
            /\ acct' = [i \in Ids |-> IF i \in Hosted THEN [acct[i] EXCEPT !.there = FALSE]
                                      ELSE acct[i]]
       ELSE UNCHANGED <<dom, acct>>
    /\ Goto(r, "end")
    /\ UNCHANGED <<op, dcopy, zoneVars, used, dlost, hadBoth, copy, vmail, lines,
                   lost, vlost, crossed, switched>>

AccountStep(r) ==
    \/ Load(r) \/ Toggle(r) \/ SaveSettings(r) \/ Check(r) \/ CommitRole(r) \/ CommitDelete(r)
    \/ Rename(r) \/ ReadLines(r) \/ RewriteLines(r) \/ AppendLine(r) \/ CommitRename(r)
    \/ CountAccounts(r) \/ TakeDomain(r) \/ TakeKey(r) \/ Insert(r)
    \/ CountDomain(r) \/ CommitDomain(r)

Next == \E r \in Requests : AccountStep(r) \/ (DomainStep(r) /\ UNCHANGED accountVars)

Init ==
    /\ DomInit
    /\ op \in [Requests -> Asked]
    /\ pc = [r \in Requests |-> "start"]
    /\ acct \in FirstAccounts
    /\ copy = [r \in Requests |-> NoAccount]
    /\ vmail = {acct[i].email : i \in Existing}
    /\ lines = [r \in Requests |-> {}]
    /\ lost = FALSE /\ vlost = FALSE /\ switched = FALSE
    /\ crossed = {}

Spec == Init /\ [][Next]_vars

-----------------------------------------------------------------------------
(***************************************************************************)
(* Properties.                                                              *)
(***************************************************************************)

\* A full administrator remains active (the count before a role change and
\* before a deletion is there for that), unless one was deactivated, which
\* nothing counts, or a count was overtaken, or a stale row was written.
AdminRemains ==
    \/ Admins # {}
    \/ switched \/ lost \/ crossed \intersect {"admins", "domain"} # {}

\* The two other counts hold as well.  There are never more accounts than the
\* configuration allows, unless two creations counted before either inserted;
\* and an account goes only by its own deletion, never with a domain that had
\* accounts, unless one was inserted after they were counted.  A stale save
\* that brings a row back breaks both.
CountsHold ==
    [][/\ Cardinality(Existing') <= MaxAccounts \/ lost' \/ "limit" \in crossed'
       /\ \A i \in Existing :
             \/ acct'[i].there
             \/ \E r \in Requests : At(r, "delete", "commit") /\ op[r].id = i
             \/ lost \/ "domain" \in crossed]_vars

\* The lookup file has no line for an address that no account has, except for a
\* request that is about to save its new name; stale rewrites of the file or of
\* a row, a line written for an address that has changed hands since it was
\* checked or inserted, and a domain deleted over an insertion, break this.
InFlight == {op[r].name : r \in {q \in Requests : At(q, "rename", "commit")}}
VmailFollows ==
    \/ vmail \subseteq {acct[i].email : i \in Existing} \union InFlight
    \/ lost \/ vlost \/ crossed \intersect {"domain", "line"} # {}
=============================================================================
