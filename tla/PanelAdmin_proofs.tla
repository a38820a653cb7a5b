-------------------------- MODULE PanelAdmin_proofs --------------------------
(***************************************************************************)
(* Proofs about accounts and their domain: the key that signs fits its      *)
(* record, a full administrator remains, the counts hold, and the lookup    *)
(* file follows the accounts, each unless one of the interleavings the      *)
(* property names has happened.  They hold for any number of requests,      *)
(* accounts, addresses and keys.                                            *)
(***************************************************************************)
EXTENDS PanelAdmin, FiniteSetTheorems, TLAPS

(***************************************************************************)
(* The inductive invariant, property by property.                           *)
(***************************************************************************)

\* What a handler goes on with is a row it has found; the lookup file is
\* rewritten to delete or to rename an account, and gets a line for a new name.
CopyOK ==
    \A r \in Requests :
        /\ (op[r].kind \in Own /\ pc[r] \notin {"start", "end"}) => copy[r].there
        /\ pc[r] \in {"read", "rewrite"} => op[r].kind \in {"delete", "rename"}
        /\ pc[r] = "append" => op[r].kind \in {"create", "rename"}

\* Between its check and its save the status of a domain is about the record
\* that was looked up.
KeyOK ==
    /\ ~dlost => (dom.key = dom.rec /\ (dom.verified => dom.rec \in vouched))
    /\ \A r \in Requests : pc[r] = "found" => dcopy[r].rec \in vouched

\* While nobody interferes one handler works on the zone; what it keeps is its
\* own record, what it has listed are the other SPF records, and once the records
\* were written and cleaned up one SPF record is left.
Written == published # {} \/ \E r \in Requests : pc[r] \in {"dkim", "saveOk"}
ZoneOK ==
    /\ \A r \in Requests : Applying(r) => keep[r] \in Records
    /\ zdirty \/
       /\ \A r, q \in Requests : (Applying(r) /\ Applying(q)) => r = q
       /\ \A r \in Requests : pc[r] \in {"list", "clean"} => zone[keep[r]] = "ours"
       /\ \A r \in Requests : pc[r] = "clean" => listed[r] = Duplicates(r)
       /\ (Written /\ \A r \in Requests : pc[r] \notin {"list", "clean"}) =>
              \E i \in Records : \A j \in Records : IsSpf(j) <=> j = i
       /\ hadBoth => /\ zone[Txt] = "foreign"
                     /\ \E i \in Records : IsSpf(i)
                     /\ \A r \in Requests : Applying(r) => keep[r] # Txt

\* A domain that is about to be deleted has no accounts.
EmptyOK ==
    \/ lost \/ "domain" \in crossed
    \/ \A r \in Requests : At(r, "deleteDomain", "commit") => Existing \cap Hosted = {}

\* While an administrator is being reduced nobody else is, and another remains.
InReduction(r) == Reducing(r) /\ pc[r] \in {"read", "rewrite", "commit"}
AdminOK ==
    \/ switched \/ lost \/ crossed \cap {"admins", "domain"} # {}
    \/ /\ Admins # {}
       /\ \A r \in Requests : InReduction(r) => \E i \in Admins : i # op[r].id
       /\ \A r, q \in Requests : (InReduction(r) /\ InReduction(q)) => r = q

\* While an account is being created nobody else creates one, and there is room.
InCreation(r) == pc[r] \in {"domain", "key", "insert"}
LimitOK ==
    \/ lost \/ "limit" \in crossed
    \/ /\ Cardinality(Existing) <= MaxAccounts
       /\ \A r \in Requests : InCreation(r) => Cardinality(Existing) < MaxAccounts
       /\ \A r, q \in Requests : (InCreation(r) /\ InCreation(q)) => r = q

\* An address that is being given up has no line any more, unless the new one
\* is the same.
Emails == {acct[i].email : i \in Existing}
LinesOK ==
    \/ lost \/ vlost \/ crossed \cap {"domain", "line"} # {}
    \/ /\ vmail \subseteq Emails \cup InFlight
       /\ \A r \in Requests :
             \/ op[r].kind \notin {"delete", "rename"}
             \/ pc[r] \notin {"append", "commit"}
             \/ copy[r].email \notin vmail
             \/ At(r, "rename", "commit") /\ copy[r].email = op[r].name

IInv == TypeOK /\ CopyOK /\ KeyOK /\ ZoneOK /\ EmptyOK /\ AdminOK /\ LimitOK /\ LinesOK

-----------------------------------------------------------------------------
(***************************************************************************)
(* Steps summarised.                                                        *)
(***************************************************************************)

\* A step about the domain moves its own handler between places of its own.
DomLabels == {"work", "end", "list", "write", "clean", "partial", "dkim", "save",
              "saveOk", "found", "missed"}

DomainMoves(r) ==
    /\ UNCHANGED <<op, accountVars>>
    /\ \E l \in DomLabels : pc' = [pc EXCEPT ![r] = l]
    /\ pc[r] # "end"
    /\ pc[r] = "start" => op[r].kind \in DomainOps

LEMMA DomainEffect ==
    ASSUME NEW r \in Requests, DomainStep(r), UNCHANGED accountVars
    PROVE  DomainMoves(r)
BY DEF DomainStep, DomainMoves, DomLabels, Goto, At, LoadDomain, ToggleDomain, UpdateDomain,
       Verify, Generate, AddDomain, EnsureKeys, SkipApply, MayApply, ListZone, WriteRecord,
       WriteFails, ListDuplicates, DeleteDuplicates, CleaningFails, WriteOthers, SaveApplied,
       CheckDomain, SaveStatus, DomainOps

LEMMA RowFacts ==
    /\ NoRow \in Row /\ NoRow.key = NoKey /\ NoRow.rec = NoKey /\ NoRow.verified = FALSE
    /\ \A r \in Requests \cup {NoKey} :
          /\ NewRow(r) \in Row /\ NewRow(r).key = NoKey /\ NewRow(r).rec = NoKey
          /\ NewRow(r).verified = FALSE
BY DEF NoRow, NewRow, Row

LEMMA WithKeyFacts ==
    ASSUME NEW r \in Requests, dcopy[r] \in Row, NEW k \in Keys
    PROVE  /\ WithKey(r, k) \in Row
           /\ WithKey(r, k).key = k /\ WithKey(r, k).rec = k /\ WithKey(r, k).verified = FALSE
BY DEF WithKey, Row

-----------------------------------------------------------------------------
(* Type correctness.                                                        *)

LEMMA SaveAllType ==
    ASSUME DomTypeOK, NEW r \in Requests, NEW row \in Row, SaveAll(r, row)
    PROVE  dom' \in Row /\ dcopy' \in [Requests -> Row] /\ dlost' \in BOOLEAN
<1>1. dlost' \in BOOLEAN
  <2>1. dlost' = (dlost \/ dom # dcopy[r]) \/ dlost' = dlost
    BY DEF SaveAll
  <2> QED
    BY <2>1, Zenon DEF DomTypeOK
<1> QED
  BY <1>1 DEF SaveAll, DomTypeOK

LEMMA GenerateType ==
    ASSUME DomTypeOK, NEW r \in Requests, GenerateKeys(r)
    PROVE  dom' \in Row /\ dcopy' \in [Requests -> Row] /\ dlost' \in BOOLEAN /\ used' \subseteq Keys
<1>1. PICK k \in Keys \ used : used' = used \cup {k} /\ SaveAll(r, WithKey(r, k))
  BY DEF GenerateKeys
<1>2. WithKey(r, k) \in Row
  BY WithKeyFacts DEF DomTypeOK
<1> QED
  BY <1>1, <1>2, SaveAllType DEF DomTypeOK

LEMMA DomainType ==
    ASSUME DomTypeOK, NEW r \in Requests, DomainStep(r)
    PROVE  DomTypeOK'
<1>1. /\ dcopy[r] \in Row /\ dom \in Row
      /\ \A x \in Row, a \in BOOLEAN : [x EXCEPT !.active = a] \in Row
      /\ \A x \in Row, a \in BOOLEAN : [x EXCEPT !.verified = a] \in Row
      /\ \A x \in Row, k \in Keys \cup {NoKey} : [x EXCEPT !.rec = k] \in Row
      /\ \A x \in Row : /\ x.active \in BOOLEAN /\ x.verified \in BOOLEAN
                        /\ x.key \in Keys \cup {NoKey} /\ x.rec \in Keys \cup {NoKey}
  BY DEF DomTypeOK, Row
<1> USE DEF zoneVars
<1>2. CASE LoadDomain(r)
  BY <1>2 DEF LoadDomain, DomTypeOK
<1>3. CASE ToggleDomain(r)
  <2>1. [dcopy[r] EXCEPT !.active = ~@] \in Row
    <3>1. (~ dcopy[r].active) \in BOOLEAN
      OBVIOUS
    <3> QED
      BY <1>1, <3>1, Zenon
  <2> QED
    BY <1>3, <2>1, SaveAllType DEF ToggleDomain, DomTypeOK
<1>4. CASE UpdateDomain(r)
  BY <1>1, <1>4, SaveAllType DEF UpdateDomain, DomTypeOK
<1>5. CASE Verify(r)
  BY <1>1, <1>5, SaveAllType DEF Verify, DomTypeOK
<1>6. CASE Generate(r)
  BY <1>6, GenerateType DEF Generate, DomTypeOK
<1>7. CASE AddDomain(r)
  BY <1>7, RowFacts DEF AddDomain, DomTypeOK
<1>8. CASE EnsureKeys(r)
  BY <1>8, GenerateType DEF EnsureKeys, DomTypeOK
<1>9. CASE SkipApply(r)
  BY <1>9 DEF SkipApply, DomTypeOK
<1>10. CASE ListZone(r)
  <2>1. zdirty' \in BOOLEAN
    BY <1>10, Zenon DEF ListZone, DomTypeOK
  <2>2. Candidates \subseteq Records /\ r \in Records
    BY DEF Candidates, Present, Records
  <2> QED
    BY <1>10, <2>1, <2>2 DEF ListZone, DomTypeOK
<1>11. CASE WriteRecord(r) \/ WriteFails(r)
  BY <1>11 DEF WriteRecord, WriteFails, DomTypeOK
<1>12. CASE ListDuplicates(r) \/ DeleteDuplicates(r) \/ CleaningFails(r)
  BY <1>12 DEF ListDuplicates, Duplicates, DeleteDuplicates, CleaningFails, DomTypeOK
<1>13. CASE WriteOthers(r)
  BY <1>1, <1>13 DEF WriteOthers, DomTypeOK
<1>14. CASE SaveApplied(r)
  <2>1. dlost' \in BOOLEAN
    BY <1>14, Zenon DEF SaveApplied, DomTypeOK
  <2> QED
    BY <1>1, <1>14, <2>1 DEF SaveApplied, DomTypeOK
<1>15. CASE CheckDomain(r)
  BY <1>1, <1>15 DEF CheckDomain, DomTypeOK
<1>16. CASE SaveStatus(r)
  <2>1. dlost' \in BOOLEAN
    BY <1>16, Zenon DEF SaveStatus, DomTypeOK
  <2> QED
    BY <1>1, <1>16, <2>1 DEF SaveStatus, DomTypeOK
<1> QED
  BY <1>2, <1>3, <1>4, <1>5, <1>6, <1>7, <1>8, <1>9, <1>10, <1>11, <1>12, <1>13, <1>14,
     <1>15, <1>16 DEF DomainStep

LEMMA LabelFacts ==
    /\ DomLabels \subseteq Labels
    /\ {"start", "work", "read", "rewrite", "append", "commit", "domain", "key", "insert", "end"}
           \subseteq Labels
BY DEF DomLabels, Labels

LEMMA InitType == Init => TypeOK
<1> SUFFICES ASSUME Init PROVE TypeOK
  OBVIOUS
<1>1. DomTypeOK
  <2>1. PICK k \in Keys \cup {NoKey} :
            /\ dom = [NewRow(NoKey) EXCEPT !.key = k, !.rec = k]
            /\ used = {k} \ {NoKey} /\ selectors = used
    BY DEF Init, DomInit
  <2>2. [NewRow(NoKey) EXCEPT !.key = k, !.rec = k] \in Row
    BY <2>1, RowFacts DEF Row
  <2>3. zone \in [Records -> {"none", "ours", "old", "foreign"}]
    BY DEF Init, DomInit
  <2>4. hadBoth \in BOOLEAN
    BY Zenon DEF Init, DomInit
  <2> QED
    BY <2>1, <2>2, <2>3, <2>4, RowFacts DEF Init, DomInit, DomTypeOK
<1>2. op \in [Requests -> [kind : Kinds, id : Ids, name : Names, role : {"FULL", "USER"}]]
  BY AskedAssumption DEF Init
<1>3. /\ acct \in [Ids -> Account]
      /\ \A i, j \in Existing : acct[i].email = acct[j].email => i = j
  BY AskedAssumption DEF Init, Existing
<1>4. NoAccount \in Account
  BY PanelAssumption DEF NoAccount, Account
<1>5. vmail \subseteq Names
  BY <1>3 DEF Init, Account, Existing
<1> QED
  BY <1>1, <1>2, <1>3, <1>4, <1>5, LabelFacts DEF Init, TypeOK

\* What saving an account does to the rows.
LEMMA SaveAccountType ==
    ASSUME TypeOK, NEW r \in Requests, NEW row \in Account, SaveAccount(r, row)
    PROVE  /\ acct' \in [Ids -> Account] /\ lost' \in BOOLEAN
           /\ \A i, j \in Existing' : acct'[i].email = acct'[j].email => i = j
<1>1. lost' \in BOOLEAN
  BY Zenon DEF SaveAccount, Stale, TypeOK
<1>2. op[r].id \in Ids
  BY DEF TypeOK
<1>3. CASE CanSave(r, row)
  <2>1. /\ acct' \in [Ids -> Account] /\ acct'[op[r].id] = row
        /\ \A i \in Ids \ {op[r].id} : acct'[i] = acct[i]
    BY <1>2, <1>3 DEF SaveAccount, TypeOK
  <2>2. Existing' \subseteq Existing \cup {op[r].id}
    BY <2>1 DEF Existing
  <2> QED
    BY <1>1, <1>3, <2>1, <2>2 DEF CanSave, Existing, TypeOK
<1>4. CASE ~ CanSave(r, row)
  BY <1>1, <1>4 DEF SaveAccount, Existing, TypeOK
<1> QED
  BY <1>3, <1>4

LEMMA AccountType ==
    ASSUME TypeOK, NEW r \in Requests, AccountStep(r)
    PROVE  TypeOK'
<1>0. /\ DomTypeOK /\ copy[r] \in Account /\ op[r].id \in Ids /\ op[r].name \in Names
      /\ op[r].role \in {"FULL", "USER"} /\ dcopy[r] \in Row /\ dom \in Row
      /\ acct[op[r].id] \in Account
      /\ \A x \in Account : x.email \in Names /\ x.active \in BOOLEAN /\ x.there \in BOOLEAN
  BY DEF TypeOK, DomTypeOK, Account
<1>1. /\ (\E l \in Labels : pc' = [pc EXCEPT ![r] = l]) => pc' \in [Requests -> Labels]
      /\ (UNCHANGED <<dom, dcopy, zoneVars, used, dlost, hadBoth>>) => DomTypeOK'
      /\ acct' = acct =>
             (/\ acct' \in [Ids -> Account]
              /\ \A i, j \in Existing' : acct'[i].email = acct'[j].email => i = j)
  BY DEF TypeOK, DomTypeOK, zoneVars, Existing
<1> USE LabelFacts DEF Goto
<1>2. CASE Load(r)
  BY <1>0, <1>1, <1>2 DEF Load, TypeOK
<1>3. CASE Toggle(r)
  <2>1. [copy[r] EXCEPT !.active = ~@] \in Account
    <3>1. (~ copy[r].active) \in BOOLEAN /\ \A a \in BOOLEAN : [copy[r] EXCEPT !.active = a] \in Account
      BY <1>0 DEF Account
    <3> QED
      BY <3>1, Zenon
  <2>2. switched' \in BOOLEAN
    BY <1>3, Zenon DEF Toggle, TypeOK
  <2> QED
    BY <1>0, <1>1, <1>3, <2>1, <2>2, SaveAccountType DEF Toggle, At, TypeOK
<1>4. CASE SaveSettings(r)
  BY <1>0, <1>1, <1>4, SaveAccountType DEF SaveSettings, At, TypeOK
<1>5. CASE Check(r)
  BY <1>0, <1>1, <1>5 DEF Check, TypeOK
<1>6. CASE CommitRole(r)
  <2>1. lost' \in BOOLEAN
    BY <1>6, Zenon DEF CommitRole, Stale, TypeOK
  <2>2. acct' \in [Ids -> Account] /\ \A i, j \in Existing' : acct'[i].email = acct'[j].email => i = j
    <3>1. [acct[op[r].id] EXCEPT !.role = op[r].role] \in Account
      BY <1>0 DEF Account
    <3> QED
      BY <1>0, <1>6, <3>1 DEF CommitRole, TypeOK, Existing, Account
  <2> QED
    BY <1>0, <1>1, <1>6, <2>1, <2>2 DEF CommitRole, At, TypeOK
<1>7. CASE CommitDelete(r)
  <2>1. lost' \in BOOLEAN
    BY <1>7, Zenon DEF CommitDelete, Stale, TypeOK
  <2>2. acct' \in [Ids -> Account] /\ \A i, j \in Existing' : acct'[i].email = acct'[j].email => i = j
    BY <1>0, <1>7 DEF CommitDelete, TypeOK, Existing, Account
  <2> QED
    BY <1>0, <1>1, <1>7, <2>1, <2>2 DEF CommitDelete, At, TypeOK
<1>8. CASE Rename(r)
  BY <1>0, <1>1, <1>8 DEF Rename, accountVars, TypeOK
<1>9. CASE ReadLines(r)
  BY <1>0, <1>1, <1>9 DEF ReadLines, TypeOK
<1>10. CASE RewriteLines(r)
  <2>1. vlost' \in BOOLEAN
    BY <1>10, Zenon DEF RewriteLines, TypeOK
  <2> QED
    BY <1>0, <1>1, <1>10, <2>1 DEF RewriteLines, LinesLeft, TypeOK
<1>11. CASE AppendLine(r)
  BY <1>0, <1>1, <1>11 DEF AppendLine, TypeOK
<1>12. CASE CommitRename(r)
  <2>1. [copy[r] EXCEPT !.email = op[r].name] \in Account
    BY <1>0 DEF Account
  <2> QED
    BY <1>0, <1>1, <1>12, <2>1, SaveAccountType DEF CommitRename, At, TypeOK
<1>13. CASE CountAccounts(r)
  BY <1>0, <1>1, <1>13 DEF CountAccounts, TypeOK
<1>14. CASE TakeDomain(r)
  <2>1. PICK row \in Row : dom' = row /\ dcopy' = [dcopy EXCEPT ![r] = row]
    <3>1. \A x \in Row : [x EXCEPT !.active = TRUE] \in Row
      BY DEF Row
    <3> QED
      BY <1>0, <1>14, <3>1, RowFacts DEF TakeDomain
  <2>2. DomTypeOK'
    BY <1>0, <1>14, <2>1 DEF TakeDomain, DomTypeOK, zoneVars
  <2> QED
    BY <1>0, <1>1, <1>14, <2>2 DEF TakeDomain, accountVars, TypeOK
<1>15. CASE TakeKey(r)
  <2>1. DomTypeOK'
    BY <1>0, <1>15, GenerateType DEF TakeKey, DomTypeOK, zoneVars
  <2> QED
    BY <1>0, <1>1, <1>15, <2>1 DEF TakeKey, accountVars, TypeOK
<1>16. CASE Insert(r)
  <2>1. acct' \in [Ids -> Account] /\ \A i, j \in Existing' : acct'[i].email = acct'[j].email => i = j
    <3>1. CASE acct' = acct
      BY <1>1, <3>1
    <3>2. CASE acct' # acct
      <4>1. /\ \A i \in Existing : acct[i].email # op[r].name
            /\ \E i \in Hosted \ Existing :
                   acct' = [acct EXCEPT ![i] = [there |-> TRUE, email |-> op[r].name,
                                                role |-> op[r].role, active |-> TRUE]]
        BY <1>16, <3>2 DEF Insert
      <4>2. PICK i \in Ids, row \in Account :
                /\ row.email = op[r].name /\ acct' = [acct EXCEPT ![i] = row]
        BY <1>0, <4>1, PanelAssumption DEF Account
      <4>3. /\ acct' \in [Ids -> Account] /\ acct'[i] = row
            /\ \A j \in Ids \ {i} : acct'[j] = acct[j]
        BY <4>2 DEF TypeOK
      <4>4. Existing' \subseteq Existing \cup {i}
        BY <4>3 DEF Existing
      <4> QED
        BY <4>1, <4>2, <4>3, <4>4 DEF TypeOK, Existing
    <3> QED
      BY <3>1, <3>2
  <2> QED
    BY <1>0, <1>1, <1>16, <2>1 DEF Insert, TypeOK
<1>17. CASE CountDomain(r)
  BY <1>0, <1>1, <1>17 DEF CountDomain, accountVars, TypeOK
<1>18. CASE CommitDomain(r)
  <2>1. acct' \in [Ids -> Account] /\ \A i, j \in Existing' : acct'[i].email = acct'[j].email => i = j
    <3>1. CASE acct' = acct
      BY <1>1, <3>1
    <3>2. CASE acct' # acct
      <4>1. acct' = [i \in Ids |-> IF i \in Hosted THEN [acct[i] EXCEPT !.there = FALSE]
                                   ELSE acct[i]]
        BY <1>18, <3>2 DEF CommitDomain
      <4>2. \A x \in Account : /\ [x EXCEPT !.there = FALSE] \in Account
                                /\ [x EXCEPT !.there = FALSE].there = FALSE
        BY DEF Account
      <4>3. /\ acct' \in [Ids -> Account]
            /\ \A i \in Ids : acct'[i] = acct[i] \/ ~ acct'[i].there
        BY <4>1, <4>2 DEF TypeOK
      <4> QED
        BY <4>3 DEF TypeOK, Existing
    <3> QED
      BY <3>1, <3>2
  <2>2. DomTypeOK'
    BY <1>0, <1>18, RowFacts DEF CommitDomain, DomTypeOK, zoneVars
  <2> QED
    BY <1>0, <1>1, <1>18, <2>1, <2>2 DEF CommitDomain, TypeOK
<1> QED
  BY <1>2, <1>3, <1>4, <1>5, <1>6, <1>7, <1>8, <1>9, <1>10, <1>11, <1>12, <1>13, <1>14,
     <1>15, <1>16, <1>17, <1>18 DEF AccountStep

LEMMA StepType ==
    ASSUME TypeOK, NEW r \in Requests,
           AccountStep(r) \/ (DomainStep(r) /\ UNCHANGED accountVars)
    PROVE  TypeOK'
<1>1. CASE AccountStep(r)
  BY <1>1, AccountType
<1>2. CASE DomainStep(r) /\ UNCHANGED accountVars
  BY <1>2, DomainType, DomainEffect, LabelFacts DEF DomainMoves, accountVars, TypeOK, Existing
<1> QED
  BY <1>1, <1>2

-----------------------------------------------------------------------------
(***************************************************************************)
(* What an account handler leaves alone: whoever does not move from one of  *)
(* these places to another keeps the corresponding part of the invariant.   *)
(***************************************************************************)

\* A save either misses the changes of others, or writes its own over the row it
\* has read.
LEMMA SaveEffect ==
    ASSUME TypeOK, NEW r \in Requests, NEW row \in Account, SaveAccount(r, row), ~ lost'
    PROVE  /\ ~ lost /\ acct[op[r].id] = copy[r]
           /\ \/ ~ CanSave(r, row) /\ acct' = acct
              \/ CanSave(r, row) /\ acct' = [acct EXCEPT ![op[r].id] = row]
BY DEF SaveAccount, Stale

LEMMA CopyStep ==
    ASSUME TypeOK, CopyOK, NEW r \in Requests,
           AccountStep(r) \/ (DomainStep(r) /\ UNCHANGED accountVars)
    PROVE  CopyOK'
<1>1. CASE DomainStep(r) /\ UNCHANGED accountVars
  <2>1. DomainMoves(r)
    BY <1>1, DomainEffect
  <2> QED
    BY <2>1 DEF DomainMoves, DomLabels, CopyOK, accountVars, Own, DomainOps, TypeOK
<1>2. CASE Load(r)
  BY <1>2 DEF Load, Goto, CopyOK, TypeOK
<1>3. CASE AccountStep(r) /\ ~ Load(r)
  <2>1. copy' = copy /\ op' = op
    BY <1>3 DEF AccountStep, Toggle, SaveSettings, Check, CommitRole, CommitDelete, Rename,
                ReadLines, RewriteLines, AppendLine, CommitRename, CountAccounts, TakeDomain,
                TakeKey, Insert, CountDomain, CommitDomain, accountVars
  <2>2. (pc[r] # "start" \/ op[r].kind \in Create) /\ \E l \in Labels : pc' = [pc EXCEPT ![r] = l]
    BY <1>3, LabelFacts
       DEF AccountStep, Toggle, SaveSettings, Check, CommitRole, CommitDelete, Rename,
                ReadLines, RewriteLines, AppendLine, CommitRename, CountAccounts, TakeDomain,
                TakeKey, Insert, CountDomain, CommitDomain, Goto, At
  <2>3. pc[r] # "end"
    BY <1>3
       DEF AccountStep, Toggle, SaveSettings, Check, CommitRole, CommitDelete, Rename,
                ReadLines, RewriteLines, AppendLine, CommitRename, CountAccounts, TakeDomain,
                TakeKey, Insert, CountDomain, CommitDomain, At
  <2>4. /\ pc'[r] \in {"read", "rewrite"} => op[r].kind \in {"delete", "rename"}
        /\ pc'[r] = "append" => op[r].kind \in {"create", "rename"}
    BY <1>3
       DEF AccountStep, Toggle, SaveSettings, Check, CommitRole, CommitDelete, Rename,
                ReadLines, RewriteLines, AppendLine, CommitRename, CountAccounts, TakeDomain,
                TakeKey, Insert, CountDomain, CommitDomain, Goto, At, CopyOK, TypeOK
  <2> QED
    BY <2>1, <2>2, <2>3, <2>4 DEF CopyOK, Own, Create, TypeOK
<1> QED
  BY <1>1, <1>2, <1>3

-----------------------------------------------------------------------------
(* The key and its record.                                                  *)

LEMMA SaveAllKey ==
    ASSUME TypeOK, KeyOK, NEW r \in Requests, NEW row \in Row, SaveAll(r, row),
           vouched \subseteq vouched', pc'[r] # "found",
           \A q \in Requests \ {r} : pc'[q] = "found" => pc[q] = "found",
           row.key = row.rec \/ (row.key = dcopy[r].key /\ row.rec = dcopy[r].rec),
           row.verified => (row.rec \in vouched' \/ (dcopy[r].verified /\ row.rec = dcopy[r].rec))
    PROVE  KeyOK'
<1>1. \A q \in Requests : pc'[q] = "found" => dcopy'[q].rec \in vouched'
  BY DEF SaveAll, KeyOK, TypeOK, DomTypeOK
<1>2. CASE NameIsFree(r)
  <2>1. ~dlost' => (~dlost /\ dom = dcopy[r])
    BY <1>2 DEF SaveAll
  <2>2. dom' = row
    BY <1>2 DEF SaveAll
  <2> QED
    BY <1>1, <2>1, <2>2 DEF KeyOK
<1>3. CASE ~ NameIsFree(r)
  BY <1>1, <1>3 DEF SaveAll, KeyOK
<1> QED
  BY <1>2, <1>3

LEMMA GenerateKey ==
    ASSUME TypeOK, KeyOK, NEW r \in Requests, GenerateKeys(r), vouched' = vouched,
           pc'[r] # "found", \A q \in Requests \ {r} : pc'[q] = pc[q]
    PROVE  KeyOK'
<1>1. PICK k \in Keys : SaveAll(r, WithKey(r, k))
  BY DEF GenerateKeys
<1>2. PICK row \in Row : /\ SaveAll(r, row) /\ row.key = row.rec /\ row.verified = FALSE
  <2>1. dcopy[r] \in Row
    BY DEF TypeOK, DomTypeOK
  <2>2. /\ WithKey(r, k) \in Row /\ WithKey(r, k).key = k
        /\ WithKey(r, k).rec = k /\ WithKey(r, k).verified = FALSE
    BY <2>1, WithKeyFacts
  <2> QED
    BY <1>1, <2>2
<1> QED
  BY <1>2, SaveAllKey

LEMMA DomainKey ==
    ASSUME TypeOK, KeyOK, NEW r \in Requests, DomainStep(r)
    PROVE  KeyOK'
<1>0. /\ dcopy[r] \in Row /\ dom \in Row /\ DomTypeOK
      /\ \A x \in Row, a \in BOOLEAN :
            LET y == [x EXCEPT !.active = a]
            IN  y \in Row /\ y.key = x.key /\ y.rec = x.rec /\ y.verified = x.verified
      /\ \A x \in Row, a \in BOOLEAN :
            LET y == [x EXCEPT !.verified = a]
            IN  y \in Row /\ y.key = x.key /\ y.rec = x.rec /\ y.verified = a
  BY DEF TypeOK, DomTypeOK, Row
\* Steps that leave the row, its copies and what was looked up alone.
<1>1. ASSUME dom' = dom, dlost' = dlost, vouched' = vouched,
             \A q \in Requests : pc'[q] = "found" => (pc[q] = "found" /\ dcopy'[q] = dcopy[q])
      PROVE  KeyOK'
  BY <1>1 DEF KeyOK
<1> USE DEF Goto, At, zoneVars
<1>2. CASE LoadDomain(r)
  BY <1>0, <1>1, <1>2 DEF LoadDomain, TypeOK, DomTypeOK
<1>3. CASE ToggleDomain(r)
  <2>1. PICK a \in BOOLEAN : SaveAll(r, [dcopy[r] EXCEPT !.active = a])
    <3>1. (~ dcopy[r].active) \in BOOLEAN
      OBVIOUS
    <3> QED
      BY <1>3, <3>1, Zenon DEF ToggleDomain
  <2>2. vouched' = vouched /\ pc'[r] # "found" /\ \A q \in Requests \ {r} : pc'[q] = pc[q]
    BY <1>3 DEF ToggleDomain, TypeOK
  <2>3. PICK row \in Row : /\ SaveAll(r, row) /\ row.verified = dcopy[r].verified
                           /\ row.key = dcopy[r].key /\ row.rec = dcopy[r].rec
    BY <1>0, <2>1
  <2> QED
    BY <2>2, <2>3, SaveAllKey
<1>4. CASE UpdateDomain(r)
  <2>1. PICK a \in BOOLEAN : SaveAll(r, [dcopy[r] EXCEPT !.active = a])
    BY <1>4 DEF UpdateDomain
  <2>2. vouched' = vouched /\ pc'[r] # "found" /\ \A q \in Requests \ {r} : pc'[q] = pc[q]
    BY <1>4 DEF UpdateDomain, TypeOK
  <2>3. PICK row \in Row : /\ SaveAll(r, row) /\ row.verified = dcopy[r].verified
                           /\ row.key = dcopy[r].key /\ row.rec = dcopy[r].rec
    BY <1>0, <2>1
  <2> QED
    BY <2>2, <2>3, SaveAllKey
<1>5. CASE Verify(r)
  <2>1. SaveAll(r, [dcopy[r] EXCEPT !.verified = TRUE])
    BY <1>5 DEF Verify
  <2>2. /\ vouched' = vouched \cup {dcopy[r].rec}
        /\ pc'[r] # "found" /\ \A q \in Requests \ {r} : pc'[q] = pc[q]
    BY <1>5 DEF Verify, TypeOK
  <2>3. PICK row \in Row : SaveAll(r, row) /\ row.key = dcopy[r].key /\ row.rec = dcopy[r].rec
    BY <1>0, <2>1
  <2> QED
    BY <2>2, <2>3, SaveAllKey
<1>6. CASE Generate(r)
  <2>1. CASE GenerateKeys(r)
    BY <1>6, <2>1, GenerateKey DEF Generate, TypeOK
  <2>2. CASE UNCHANGED <<dom, dcopy, used, dlost>>
    BY <1>1, <1>6, <2>2 DEF Generate, TypeOK
  <2> QED
    BY <1>6, <2>1, <2>2 DEF Generate
<1>7. CASE AddDomain(r)
  <2>1. CASE dom.there
    BY <1>1, <1>7, <2>1 DEF AddDomain, TypeOK
  <2>2. CASE ~ dom.there
    BY <1>7, <2>2, RowFacts DEF AddDomain, KeyOK, TypeOK, DomTypeOK
  <2> QED
    BY <2>1, <2>2
<1>8. CASE EnsureKeys(r)
  BY <1>8, GenerateKey DEF EnsureKeys, TypeOK
<1>9. CASE SkipApply(r) \/ ListZone(r) \/ WriteRecord(r) \/ WriteFails(r)
  BY <1>1, <1>9 DEF SkipApply, ListZone, WriteRecord, WriteFails, TypeOK
<1>10. CASE ListDuplicates(r) \/ DeleteDuplicates(r) \/ CleaningFails(r) \/ WriteOthers(r)
  BY <1>1, <1>10 DEF ListDuplicates, DeleteDuplicates, CleaningFails, WriteOthers, TypeOK
<1>11. CASE SaveApplied(r)
  <2>1. \A q \in Requests : pc'[q] = "found" => dcopy'[q].rec \in vouched'
    BY <1>11 DEF SaveApplied, KeyOK, TypeOK
  <2>2. CASE RowIsThere(r)
    <3>1. ~dlost' => (~dlost /\ dom.rec = dcopy[r].rec)
      BY <1>11, <2>2 DEF SaveApplied
    <3>2. dom' = [dom EXCEPT !.rec = dcopy[r].rec] /\ vouched' = vouched
      BY <1>11, <2>2 DEF SaveApplied
    <3>3. dom'.rec = dcopy[r].rec /\ dom'.key = dom.key /\ dom'.verified = dom.verified
      BY <1>0, <3>2 DEF Row
    <3> QED
      BY <2>1, <3>1, <3>2, <3>3 DEF KeyOK
  <2>3. CASE ~ RowIsThere(r)
    BY <1>11, <2>1, <2>3 DEF SaveApplied, KeyOK
  <2> QED
    BY <2>2, <2>3
<1>12. CASE CheckDomain(r)
  BY <1>12 DEF CheckDomain, KeyOK, TypeOK
<1>13. CASE SaveStatus(r)
  <2>1. \A q \in Requests : pc'[q] = "found" => dcopy'[q].rec \in vouched'
    BY <1>13 DEF SaveStatus, KeyOK, TypeOK
  <2>2. CASE RowIsThere(r)
    <3>1. ~dlost' => (~dlost /\ dom = dcopy[r])
      BY <1>13, <2>2 DEF SaveStatus
    <3>2. dom' = [dom EXCEPT !.verified = (pc[r] = "found")] /\ vouched' = vouched
      BY <1>13, <2>2 DEF SaveStatus
    <3>3. (pc[r] = "found") \in BOOLEAN
      OBVIOUS
    <3>4. dom'.rec = dom.rec /\ dom'.key = dom.key /\ dom'.verified = (pc[r] = "found")
      BY <1>0, <3>2, <3>3
    <3>5. dom'.verified => pc[r] = "found"
      BY <3>4, Zenon
    <3> QED
      BY <2>1, <3>1, <3>2, <3>4, <3>5 DEF KeyOK
  <2>3. CASE ~ RowIsThere(r)
    BY <1>13, <2>1, <2>3 DEF SaveStatus, KeyOK
  <2> QED
    BY <2>2, <2>3
<1> QED
  BY <1>2, <1>3, <1>4, <1>5, <1>6, <1>7, <1>8, <1>9, <1>10, <1>11, <1>12, <1>13
     DEF DomainStep

LEMMA AccountKey ==
    ASSUME TypeOK, KeyOK, NEW r \in Requests, AccountStep(r)
    PROVE  KeyOK'
<1> USE DEF Goto, At, zoneVars
<1>1. CASE TakeDomain(r)
  <2>1. PICK row \in {dom, NewRow(r)} :
            /\ row = dom \/ row = NewRow(r)
            /\ dom' \in {row, [row EXCEPT !.active = TRUE]}
            /\ dcopy' = [dcopy EXCEPT ![r] = dom']
    BY <1>1 DEF TakeDomain
  <2>2. row \in Row /\ dom'.key = row.key /\ dom'.rec = row.rec /\ dom'.verified = row.verified
    BY <2>1, RowFacts DEF TypeOK, DomTypeOK, Row
  <2>3. UNCHANGED <<dlost, vouched>> /\ pc'[r] # "found" /\ \A q \in Requests \ {r} : pc'[q] = pc[q]
    BY <1>1 DEF TakeDomain, TypeOK
  <2>4. \A q \in Requests : pc'[q] = "found" => dcopy'[q].rec \in vouched'
    BY <2>1, <2>3 DEF KeyOK, TypeOK, DomTypeOK
  <2> QED
    BY <2>1, <2>2, <2>3, <2>4, RowFacts DEF KeyOK
<1>2. CASE TakeKey(r)
  <2>0. vouched' = vouched /\ pc'[r] # "found" /\ \A q \in Requests \ {r} : pc'[q] = pc[q]
    BY <1>2 DEF TakeKey, TypeOK
  <2>1. CASE GenerateKeys(r)
    BY <2>0, <2>1, GenerateKey
  <2>2. CASE UNCHANGED <<dom, dcopy, used, dlost>>
    BY <2>0, <2>2 DEF KeyOK
  <2> QED
    BY <1>2, <2>1, <2>2 DEF TakeKey
<1>3. CASE CommitDomain(r)
  BY <1>3, RowFacts DEF CommitDomain, KeyOK, TypeOK
<1>4. CASE AccountStep(r) /\ ~ TakeDomain(r) /\ ~ TakeKey(r) /\ ~ CommitDomain(r)
  <2>1. UNCHANGED <<dom, dcopy, dlost, vouched>>
    BY <1>4 DEF AccountStep, Load, Toggle, SaveSettings, Check, CommitRole, CommitDelete,
                Rename, ReadLines, RewriteLines, AppendLine, CommitRename, CountAccounts,
                Insert, CountDomain
  <2>2. \A q \in Requests : pc'[q] = "found" => pc[q] = "found"
    BY <1>4 DEF AccountStep, Load, Toggle, SaveSettings, Check, CommitRole, CommitDelete,
                Rename, ReadLines, RewriteLines, AppendLine, CommitRename, CountAccounts,
                Insert, CountDomain, TypeOK
  <2> QED
    BY <2>1, <2>2 DEF KeyOK
<1> QED
  BY <1>1, <1>2, <1>3, <1>4

-----------------------------------------------------------------------------
(* The zone.                                                                *)

\* Handlers that leave the zone alone.
LEMMA ZoneFrame ==
    ASSUME ZoneOK, UNCHANGED <<zone, keep, listed, zdirty, hadBoth>>, Written' => Written,
           \A q \in Requests : Applying(q)' => pc'[q] = pc[q],
           \A q \in Requests : pc[q] \in {"list", "clean"} => pc'[q] = pc[q]
    PROVE  ZoneOK'
BY DEF ZoneOK, Applying, Duplicates, IsSpf

LEMMA AccountZone ==
    ASSUME TypeOK, ZoneOK, NEW r \in Requests, AccountStep(r)
    PROVE  ZoneOK'
<1>1. UNCHANGED <<zone, keep, listed, zdirty, hadBoth, published>>
  BY DEF AccountStep, Load, Toggle, SaveSettings, Check, CommitRole, CommitDelete,
         Rename, ReadLines, RewriteLines, AppendLine, CommitRename, CountAccounts,
         TakeDomain, TakeKey, Insert, CountDomain, CommitDomain, zoneVars
<1>2. /\ pc[r] \notin {"list", "clean"}
      /\ pc'[r] \notin {"write", "list", "clean", "dkim", "saveOk"}
      /\ \A q \in Requests \ {r} : pc'[q] = pc[q]
  BY DEF AccountStep, Load, Toggle, SaveSettings, Check, CommitRole, CommitDelete,
         Rename, ReadLines, RewriteLines, AppendLine, CommitRename, CountAccounts,
         TakeDomain, TakeKey, Insert, CountDomain, CommitDomain, Goto, At, TypeOK
<1>3. Written' => Written
  BY <1>1, <1>2 DEF Written
<1> QED
  BY <1>1, <1>2, <1>3, ZoneFrame DEF Applying

LEMMA DomainZone ==
    ASSUME TypeOK, ZoneOK, NEW r \in Requests, DomainStep(r)
    PROVE  ZoneOK'
<1>0. /\ DomTypeOK /\ pc \in [Requests -> Labels]
      /\ r \in Records /\ r # Txt
  BY DomainAssumption DEF TypeOK, Records
<1> USE DEF Goto, At, zoneVars
<1>1. CASE \/ LoadDomain(r) \/ ToggleDomain(r) \/ UpdateDomain(r) \/ Verify(r) \/ Generate(r)
           \/ AddDomain(r) \/ EnsureKeys(r) \/ SkipApply(r) \/ WriteOthers(r) \/ SaveApplied(r)
           \/ CheckDomain(r) \/ SaveStatus(r)
  <2>1. /\ UNCHANGED <<zone, keep, listed, zdirty, hadBoth>>
        /\ published' = published \/ pc[r] = "saveOk"
        /\ pc[r] \notin {"list", "clean"} /\ pc'[r] \notin {"write", "list", "clean"}
        /\ pc'[r] \in {"dkim", "saveOk"} => pc[r] = "dkim"
        /\ \A q \in Requests \ {r} : pc'[q] = pc[q]
    BY <1>0, <1>1
       DEF LoadDomain, ToggleDomain, UpdateDomain, Verify, Generate, AddDomain, EnsureKeys,
           SkipApply, MayApply, WriteOthers, SaveApplied, CheckDomain, SaveStatus
  <2>2. Written' => Written
    BY <2>1 DEF Written
  <2> QED
    BY <2>1, <2>2, ZoneFrame DEF Applying
<1>2. CASE ListZone(r)
  <2>1. PICK i \in Candidates \cup {r} :
            /\ keep' = [keep EXCEPT ![r] = i]
            /\ pc' = [pc EXCEPT ![r] = IF zone[i] = "ours" THEN "list" ELSE "write"]
    BY <1>2 DEF ListZone
  <2>2. /\ pc[r] = "work" /\ UNCHANGED <<zone, listed, published, hadBoth>>
        /\ zdirty' = (zdirty \/ \E q \in Requests \ {r} : Applying(q))
    BY <1>2 DEF ListZone, MayApply
  <2>3. i \in Records /\ keep'[r] = i /\ \A q \in Requests \ {r} : keep'[q] = keep[q] /\ pc'[q] = pc[q]
    BY <1>0, <2>1 DEF Candidates, Present, DomTypeOK
  <2>4. pc'[r] = IF zone[i] = "ours" THEN "list" ELSE "write"
    BY <1>0, <2>1
  <2>5. Written' => Written
    BY <2>2, <2>3, <2>4 DEF Written
  <2>6. \A q \in Requests : Applying(q)' => keep'[q] \in Records
    BY <2>3 DEF ZoneOK, Applying
  <2>7. CASE zdirty'
    BY <2>6, <2>7 DEF ZoneOK
  <2>8. CASE ~ zdirty'
    <3>1. ~ zdirty /\ \A q \in Requests \ {r} : ~ Applying(q)'
      BY <2>2, <2>3, <2>8 DEF Applying
    <3>2. hadBoth => i # Txt
      <4>1. hadBoth => zone[Txt] = "foreign" /\ \E j \in Records : IsSpf(j)
        BY <3>1 DEF ZoneOK
      <4> QED
        BY <1>0, <2>1, <4>1 DEF Candidates, Present, IsSpf
    <3> QED
      BY <2>2, <2>3, <2>4, <2>5, <2>6, <3>1, <3>2 DEF ZoneOK, Applying, IsSpf, Duplicates
  <2> QED
    BY <2>7, <2>8
<1>3. CASE WriteRecord(r)
  <2>0. /\ pc[r] = "write" /\ keep[r] \in Records
        /\ UNCHANGED <<keep, listed, published, zdirty, hadBoth>>
        /\ \A q \in Requests \ {r} : pc'[q] = pc[q]
    BY <1>0, <1>3 DEF WriteRecord, ZoneOK, Applying
  <2>1. CASE zone' = zone /\ pc'[r] = "partial"
    <3>1. Written' => Written
      BY <2>0, <2>1 DEF Written
    <3> QED
      BY <2>0, <2>1, <3>1, ZoneFrame DEF Applying
  <2>2. CASE zone' = [zone EXCEPT ![keep[r]] = "ours"] /\ pc'[r] = "list"
    <3>1. /\ zone'[keep[r]] = "ours"
          /\ \A j \in Records \ {keep[r]} : zone'[j] = zone[j]
      BY <1>0, <2>0, <2>2 DEF DomTypeOK
    <3>2. Written' => Written
      BY <2>0, <2>2 DEF Written
    <3>3. CASE zdirty
      BY <2>0, <2>2, <3>3 DEF ZoneOK, Applying
    <3>4. CASE ~ zdirty
      <4>1. \A q \in Requests : Applying(q)' => q = r
        BY <2>0, <3>4 DEF ZoneOK, Applying
      <4>2. hadBoth => (zone'[Txt] = "foreign" /\ \E j \in Records : IsSpf(j)')
        BY <2>0, <3>1, <3>4 DEF ZoneOK, Applying, IsSpf, Records
      <4> QED
        BY <2>0, <2>2, <3>1, <3>2, <3>4, <4>1, <4>2 DEF ZoneOK, Applying
    <3> QED
      BY <3>3, <3>4
  <2> QED
    BY <1>0, <1>3, <2>1, <2>2 DEF WriteRecord
<1>4. CASE WriteFails(r)
  <2>0. /\ pc[r] = "write" /\ pc'[r] = "partial"
        /\ UNCHANGED <<keep, listed, published, hadBoth>>
        /\ \A q \in Requests \ {r} : pc'[q] = pc[q]
    BY <1>0, <1>4 DEF WriteFails
  <2>1. CASE UNCHANGED <<zone, zdirty>>
    <3>1. Written' => Written
      BY <2>0 DEF Written
    <3> QED
      BY <2>0, <2>1, <3>1, ZoneFrame DEF Applying
  <2>2. CASE zdirty'
    BY <2>0, <2>2 DEF ZoneOK, Applying
  <2> QED
    BY <1>4, <2>1, <2>2 DEF WriteFails
<1>5. CASE ListDuplicates(r)
  <2>0. /\ pc[r] = "list" /\ pc'[r] = "clean" /\ listed'[r] = Duplicates(r)
        /\ UNCHANGED <<zone, keep, published, zdirty, hadBoth>>
        /\ \A q \in Requests \ {r} : pc'[q] = pc[q] /\ listed'[q] = listed[q]
    BY <1>0, <1>5 DEF ListDuplicates, DomTypeOK
  <2>1. Written' => Written
    BY <2>0 DEF Written
  <2>2. Duplicates(r)' = Duplicates(r)
    BY <2>0 DEF Duplicates, IsSpf
  <2> QED
    BY <2>0, <2>1, <2>2 DEF ZoneOK, Applying, IsSpf, Duplicates
<1>6. CASE DeleteDuplicates(r)
  <2>0. /\ pc[r] = "clean" /\ pc'[r] = "dkim"
        /\ zone' = [i \in Records |-> IF i \in listed[r] THEN "none" ELSE zone[i]]
        /\ UNCHANGED <<keep, published, zdirty, hadBoth>>
        /\ \A q \in Requests \ {r} : pc'[q] = pc[q] /\ listed'[q] = listed[q]
    BY <1>0, <1>6 DEF DeleteDuplicates, DomTypeOK
  <2>1. CASE zdirty
    BY <2>0, <2>1 DEF ZoneOK, Applying
  <2>2. CASE ~ zdirty
    <3>1. /\ \A q \in Requests : Applying(q) => q = r
          /\ zone[keep[r]] = "ours" /\ keep[r] \in Records
          /\ listed[r] = {i \in Records : IsSpf(i)} \ {keep[r]}
      BY <2>0, <2>2 DEF ZoneOK, Applying, Duplicates
    <3>2. \A j \in Records : IsSpf(j)' <=> j = keep[r]
      BY <2>0, <3>1 DEF IsSpf
    <3>3. \A q \in Requests : ~ Applying(q)'
      BY <2>0, <3>1 DEF Applying
    <3>4. hadBoth => zone'[Txt] = "foreign"
      BY <2>0, <2>2, <3>1 DEF ZoneOK, IsSpf, Records
    <3> QED
      BY <2>0, <3>1, <3>2, <3>3, <3>4 DEF ZoneOK, Applying
  <2> QED
    BY <2>1, <2>2
<1>7. CASE CleaningFails(r)
  BY <1>0, <1>7 DEF CleaningFails, ZoneOK, Applying
<1> QED
  BY <1>1, <1>2, <1>3, <1>4, <1>5, <1>6, <1>7 DEF DomainStep

-----------------------------------------------------------------------------
(***************************************************************************)
(* Accounts come and go.                                                    *)
(***************************************************************************)
PanelStep(r) == AccountStep(r) \/ (DomainStep(r) /\ UNCHANGED accountVars)

\* What happened once has happened, and a step moves its own handler only.
LEMMA HistoryGrows ==
    ASSUME TypeOK, NEW r \in Requests, PanelStep(r)
    PROVE  /\ op' = op /\ crossed \subseteq crossed'
           /\ (lost => lost') /\ (vlost => vlost') /\ (switched => switched')
           /\ \A q \in Requests \ {r} : pc'[q] = pc[q] /\ copy'[q] = copy[q]
<1>1. CASE DomainStep(r) /\ UNCHANGED accountVars
  BY <1>1, DomainEffect DEF DomainMoves, accountVars, TypeOK
<1>2. CASE AccountStep(r)
  BY <1>2
     DEF AccountStep, Load, Toggle, SaveSettings, Check, CommitRole, CommitDelete, Rename,
         ReadLines, RewriteLines, AppendLine, CommitRename, CountAccounts, TakeDomain, TakeKey,
         Insert, CountDomain, CommitDomain, accountVars, SaveAccount, Stale, Goto, TypeOK
<1> QED
  BY <1>1, <1>2 DEF PanelStep

\* The saves that write a whole account: nothing but the named column differs
\* from the row, unless somebody else had changed it.
LEMMA SavesKeep ==
    ASSUME TypeOK, CopyOK, NEW r \in Requests, ~ lost',
           Toggle(r) \/ SaveSettings(r) \/ CommitRename(r)
    PROVE  /\ acct[op[r].id] = copy[r] /\ copy[r].there
           /\ \A i \in Ids : /\ acct'[i].there = acct[i].there
                             /\ acct'[i].role = acct[i].role
                             /\ (acct'[i].active = acct[i].active \/ (Toggle(r) /\ i = op[r].id))
                             /\ (acct'[i].email = acct[i].email
                                    \/ (CommitRename(r) /\ i = op[r].id))
<1>0. /\ copy[r] \in Account /\ op[r].id \in Ids /\ op[r].name \in Names
      /\ acct \in [Ids -> Account]
  BY DEF TypeOK
<1>1. copy[r].there
  BY DEF CopyOK, Toggle, SaveSettings, CommitRename, At, Own
<1>2. \A row \in Account :
          (SaveAccount(r, row) /\ row.there = copy[r].there /\ row.role = copy[r].role) =>
              /\ acct[op[r].id] = copy[r]
              /\ acct' = acct \/ acct' = [acct EXCEPT ![op[r].id] = row]
  BY SaveEffect
<1>3. CASE SaveSettings(r)
  BY <1>0, <1>1, <1>2, <1>3 DEF SaveSettings
<1>4. CASE CommitRename(r)
  <2>1. PICK row \in Account : /\ SaveAccount(r, row) /\ row.there = copy[r].there
                               /\ row.role = copy[r].role /\ row.active = copy[r].active
    <3>1. LET y == [copy[r] EXCEPT !.email = op[r].name]
          IN  /\ y \in Account /\ y.there = copy[r].there
              /\ y.role = copy[r].role /\ y.active = copy[r].active
      BY <1>0 DEF Account
    <3> QED
      BY <1>4, <3>1 DEF CommitRename
  <2> QED
    BY <1>0, <1>1, <1>2, <1>4, <2>1
<1>5. CASE Toggle(r)
  <2>1. PICK row \in Account : /\ SaveAccount(r, row) /\ row.there = copy[r].there
                               /\ row.role = copy[r].role /\ row.email = copy[r].email
    <3>1. PICK a \in BOOLEAN : SaveAccount(r, [copy[r] EXCEPT !.active = a])
      <4>1. (~ copy[r].active) \in BOOLEAN
        OBVIOUS
      <4> QED
        BY <1>5, <4>1, Zenon DEF Toggle
    <3>2. LET y == [copy[r] EXCEPT !.active = a]
          IN  /\ y \in Account /\ y.there = copy[r].there
              /\ y.role = copy[r].role /\ y.email = copy[r].email
      BY <1>0 DEF Account
    <3> QED
      BY <3>1, <3>2
  <2> QED
    BY <1>0, <1>1, <1>2, <1>5, <2>1
<1> QED
  BY <1>3, <1>4, <1>5

\* Accounts come by Insert alone, and go by the commit of a deletion, or with a
\* domain that had none.
LEMMA ExistingStep ==
    ASSUME TypeOK, CopyOK, NEW r \in Requests, PanelStep(r), ~ lost'
    PROVE  /\ ~ Insert(r) => Existing' \subseteq Existing
           /\ Insert(r) => Existing \subseteq Existing'
           /\ \A i \in Existing \ Existing' :
                 \/ At(r, "delete", "commit") /\ op[r].id = i
                 \/ At(r, "deleteDomain", "commit") /\ i \in Hosted
<1>1. CASE Toggle(r) \/ SaveSettings(r) \/ CommitRename(r)
  BY <1>1, SavesKeep DEF Existing, Insert, Toggle, SaveSettings, CommitRename, At
<1>2. CASE Insert(r)
  BY <1>2 DEF Insert, Existing, TypeOK
<1>3. CASE CommitRole(r)
  BY <1>3 DEF CommitRole, Existing, TypeOK, Account, Insert, At
<1>4. CASE CommitDelete(r)
  BY <1>4 DEF CommitDelete, Existing, TypeOK, Account, Insert, At
<1>5. CASE CommitDomain(r)
  <2>1. \A i \in Ids : \/ acct'[i] = acct[i]
                       \/ i \in Hosted /\ acct'[i] = [acct[i] EXCEPT !.there = FALSE]
    BY <1>5 DEF CommitDomain, TypeOK
  <2>2. \A x \in Account : [x EXCEPT !.there = FALSE].there = FALSE
    BY DEF Account
  <2>3. \A i \in Ids : acct'[i] = acct[i] \/ (i \in Hosted /\ ~ acct'[i].there)
    BY <2>1, <2>2 DEF TypeOK
  <2> QED
    BY <1>5, <2>3 DEF CommitDomain, Existing, TypeOK, Insert, At
<1>6. CASE acct' = acct
  BY <1>6 DEF Existing
<1> QED
  BY <1>1, <1>2, <1>3, <1>4, <1>5, <1>6
     DEF PanelStep, AccountStep, Load, Check, Rename, ReadLines, RewriteLines, AppendLine,
         CountAccounts, TakeDomain, TakeKey, CountDomain, accountVars

\* Nobody else arrives at one of these places.
LEMMA ArrivalStep ==
    ASSUME TypeOK, CopyOK, NEW r \in Requests, PanelStep(r)
    PROVE  /\ At(r, "deleteDomain", "commit")' => CountDomain(r)
           /\ InCreation(r)' => (CountAccounts(r) \/ InCreation(r))
           /\ InReduction(r)' => (Check(r) \/ InReduction(r))
<1>1. CASE DomainStep(r) /\ UNCHANGED accountVars
  <2>1. op' = op /\ copy' = copy /\ pc'[r] \in DomLabels
    BY <1>1, DomainEffect DEF DomainMoves, accountVars, TypeOK
  <2> QED
    BY <2>1 DEF At, InCreation, InReduction, DomLabels
<1> USE DEF At, Goto, TypeOK, InCreation, InReduction, accountVars
<1>2. CASE Load(r)
  BY <1>2 DEF Load
<1>3. CASE Toggle(r) \/ SaveSettings(r) \/ CommitRole(r) \/ CommitDelete(r) \/ CommitRename(r)
  BY <1>3 DEF Toggle, SaveSettings, CommitRole, CommitDelete, CommitRename
<1>4. CASE Check(r)
  BY <1>4 DEF Check
<1>5. CASE Rename(r) \/ ReadLines(r) \/ RewriteLines(r) \/ AppendLine(r)
  BY <1>5 DEF Rename, ReadLines, RewriteLines, AppendLine, Reducing, CopyOK
<1>6. CASE CountAccounts(r) \/ TakeDomain(r) \/ TakeKey(r) \/ Insert(r)
  BY <1>6 DEF CountAccounts, TakeDomain, TakeKey, Insert, Create
<1>7. CASE CountDomain(r) \/ CommitDomain(r)
  BY <1>7 DEF CountDomain, CommitDomain, Reducing
<1> QED
  BY <1>1, <1>2, <1>3, <1>4, <1>5, <1>6, <1>7 DEF PanelStep, AccountStep

-----------------------------------------------------------------------------
(* The domain that is about to go, and the limit.                           *)

LEMMA EmptyStep ==
    ASSUME TypeOK, CopyOK, EmptyOK, NEW r \in Requests, PanelStep(r)
    PROVE  EmptyOK'
<1>0. SUFFICES ASSUME ~ lost', "domain" \notin crossed',
                      NEW q \in Requests, At(q, "deleteDomain", "commit")'
               PROVE  Existing' \cap Hosted = {}
  BY DEF EmptyOK
<1>1. /\ op' = op /\ ~ lost /\ "domain" \notin crossed
      /\ \A x \in Requests \ {r} : pc'[x] = pc[x]
  BY <1>0, HistoryGrows
<1>2. CASE q = r
  <2>1. CountDomain(r)
    BY <1>0, <1>2, ArrivalStep
  <2>2. Existing \cap Hosted = {} /\ acct' = acct
    BY <1>0, <1>1, <1>2, <2>1 DEF CountDomain, NoAccounts, Goto, At, accountVars, TypeOK
  <2> QED
    BY <2>2 DEF Existing
<1>3. CASE q # r
  <2>1. At(q, "deleteDomain", "commit") /\ Existing \cap Hosted = {}
    BY <1>0, <1>1, <1>3 DEF At, EmptyOK
  <2>2. CASE Insert(r)
    <3>1. acct' = acct
      BY <1>0, <2>1, <2>2 DEF Insert
    <3> QED
      BY <2>1, <3>1 DEF Existing
  <2>3. CASE ~ Insert(r)
    BY <1>0, <2>1, <2>3, ExistingStep
  <2> QED
    BY <2>2, <2>3
<1> QED
  BY <1>2, <1>3

LEMMA Counting ==
    /\ IsFiniteSet(Existing) /\ IsFiniteSet(Admins)
    /\ Cardinality(Existing) \in Nat /\ Cardinality(Admins) \in Nat
<1>1. Existing \subseteq Ids /\ Admins \subseteq Ids
  BY DEF Existing, Admins
<1> QED
  BY <1>1, FS_Subset, FS_CardinalityType, PanelAssumption

LEMMA CountingNext == (IsFiniteSet(Existing) /\ Cardinality(Existing) \in Nat)'
<1>1. Existing' \subseteq Ids
  BY DEF Existing
<1> QED
  BY <1>1, FS_Subset, FS_CardinalityType, PanelAssumption

LEMMA LimitStep ==
    ASSUME TypeOK, CopyOK, LimitOK, NEW r \in Requests, PanelStep(r)
    PROVE  LimitOK'
<1>0. SUFFICES ASSUME ~ lost', "limit" \notin crossed'
               PROVE  /\ Cardinality(Existing') <= MaxAccounts
                      /\ \A q \in Requests :
                            InCreation(q)' => Cardinality(Existing') < MaxAccounts
                      /\ \A q, x \in Requests : (InCreation(q)' /\ InCreation(x)') => q = x
  BY DEF LimitOK
<1>1. /\ op' = op /\ ~ lost /\ "limit" \notin crossed
      /\ \A x \in Requests \ {r} : InCreation(x)' <=> InCreation(x)
  BY <1>0, HistoryGrows DEF InCreation
<1>2. /\ Cardinality(Existing) <= MaxAccounts
      /\ \A q \in Requests : InCreation(q) => Cardinality(Existing) < MaxAccounts
      /\ \A q, x \in Requests : (InCreation(q) /\ InCreation(x)) => q = x
  BY <1>1 DEF LimitOK
<1>3. CASE Insert(r)
  <2>1. InCreation(r) /\ ~ InCreation(r)'
    BY <1>3 DEF Insert, InCreation, Goto, TypeOK
  <2>2. \E i : Existing' \subseteq Existing \cup {i}
    <3>1. CASE acct' = acct
      BY <3>1 DEF Existing
    <3>2. CASE acct' # acct
      <4>1. PICK i \in Hosted : \E row : acct' = [acct EXCEPT ![i] = row]
        BY <1>3, <3>2 DEF Insert
      <4>2. \A j \in Ids \ {i} : acct'[j] = acct[j]
        BY <4>1 DEF TypeOK
      <4>3. Existing' \subseteq Existing \cup {i}
        BY <4>2 DEF Existing
      <4> QED
        BY <4>3
    <3> QED
      BY <3>1, <3>2
  <2>3. PICK i : Existing' \subseteq Existing \cup {i}
    BY <2>2
  <2>4. Cardinality(Existing') <= Cardinality(Existing) + 1
    <3>1. /\ IsFiniteSet(Existing \cup {i})
          /\ Cardinality(Existing \cup {i}) \in {Cardinality(Existing), Cardinality(Existing) + 1}
      BY Counting, FS_AddElement
    <3>2. Cardinality(Existing') <= Cardinality(Existing \cup {i})
      BY <2>3, <3>1, FS_Subset
    <3> QED
      BY <3>1, <3>2, Counting, CountingNext
  <2>5. \A q \in Requests : ~ InCreation(q)'
    BY <1>1, <1>2, <2>1
  <2> QED
    BY <1>2, <2>1, <2>4, <2>5, Counting, CountingNext, PanelAssumption
<1>4. CASE ~ Insert(r)
  <2>1. Existing' \subseteq Existing
    BY <1>0, <1>4, ExistingStep
  <2>2. Cardinality(Existing') <= Cardinality(Existing)
    BY <2>1, Counting, FS_Subset
  <2>3. CASE InCreation(r)' /\ ~ InCreation(r)
    <3>1. CountAccounts(r) /\ ~ LimitReached
      BY <2>3, ArrivalStep DEF CountAccounts, InCreation, Goto, TypeOK
    <3>2. \A q \in Requests \ {r} : ~ InCreation(q)
      BY <1>0, <1>1, <3>1 DEF CountAccounts, InCreation
    <3>3. Cardinality(Existing) < MaxAccounts
      BY <3>1, Counting, PanelAssumption DEF LimitReached
    <3> QED
      BY <1>1, <1>2, <2>2, <3>2, <3>3, Counting, CountingNext, PanelAssumption
  <2>4. CASE ~ (InCreation(r)' /\ ~ InCreation(r))
    <3>1. \A q \in Requests : InCreation(q)' => InCreation(q)
      BY <1>1, <2>4
    <3> QED
      BY <1>2, <2>2, <3>1, Counting, CountingNext, PanelAssumption
  <2> QED
    BY <2>3, <2>4
<1> QED
  BY <1>3, <1>4

-----------------------------------------------------------------------------
(* The administrators.                                                      *)

LEMMA AnotherAdmin ==
    ASSUME ~ LastAdmin, NEW i
    PROVE  \E k \in Admins : k # i
<1> SUFFICES ASSUME \A k \in Admins : k = i PROVE FALSE
  OBVIOUS
<1>1. Admins \subseteq {i} /\ IsFiniteSet({i}) /\ Cardinality({i}) = 1
  BY FS_Singleton
<1>2. Cardinality(Admins) <= Cardinality({i})
  BY <1>1, FS_Subset
<1> QED
  BY <1>1, <1>2, Counting DEF LastAdmin

\* An administrator is lost by the save of a reduction alone.
LEMMA AdminsStep ==
    ASSUME TypeOK, CopyOK, EmptyOK, NEW r \in Requests, PanelStep(r),
           ~ lost', ~ switched', "domain" \notin crossed',
           NEW i \in Admins, i \notin Admins'
    PROVE  InReduction(r) /\ i = op[r].id /\ pc'[r] = "end"
<1>0. /\ ~ lost /\ "domain" \notin crossed /\ op[r].id \in Ids
      /\ i \in Ids /\ acct[i].there /\ acct[i].role = "FULL" /\ acct[i].active
      /\ ~ (acct'[i].there /\ acct'[i].role = "FULL" /\ acct'[i].active)
  BY HistoryGrows DEF Admins, TypeOK
<1>1. ~ (SaveSettings(r) \/ CommitRename(r))
  BY <1>0, SavesKeep DEF SaveSettings, CommitRename, Toggle, At
<1>2. ~ Toggle(r)
  <2> SUFFICES ASSUME Toggle(r) PROVE FALSE
    OBVIOUS
  <2>1. copy[r] = acct[i]
    BY <1>0, SavesKeep
  <2>2. switched'
    BY <1>0, <2>1 DEF Toggle
  <2> QED
    BY <2>2
<1>3. ~ Insert(r)
  <2> SUFFICES ASSUME Insert(r) PROVE FALSE
    OBVIOUS
  <2>1. acct'[i] = acct[i]
    BY <1>0 DEF Insert, Existing, TypeOK
  <2> QED
    BY <1>0, <2>1
<1>4. ~ CommitDomain(r)
  <2> SUFFICES ASSUME CommitDomain(r) PROVE FALSE
    OBVIOUS
  <2>1. i \notin Hosted
    BY <1>0 DEF EmptyOK, CommitDomain, Existing
  <2>2. acct'[i] = acct[i]
    BY <1>0, <2>1 DEF CommitDomain, TypeOK
  <2> QED
    BY <1>0, <2>2
<1>5. CASE CommitRole(r)
  <2>1. acct[op[r].id] = copy[r] /\ pc'[r] = "end"
    BY <1>5 DEF CommitRole, Stale, Goto, TypeOK
  <2>2. i = op[r].id /\ op[r].role # "FULL"
    BY <1>0, <1>5 DEF CommitRole, TypeOK, Account
  <2> QED
    BY <1>0, <1>5, <2>1, <2>2 DEF CommitRole, At, InReduction, Reducing
<1>6. CASE CommitDelete(r)
  <2>1. acct[op[r].id] = copy[r] /\ pc'[r] = "end"
    BY <1>6 DEF CommitDelete, Stale, Goto, TypeOK
  <2>2. i = op[r].id
    BY <1>0, <1>6 DEF CommitDelete, TypeOK
  <2> QED
    BY <1>0, <1>6, <2>1, <2>2 DEF CommitDelete, At, InReduction, Reducing
<1>7. ~ (acct' = acct)
  BY <1>0
<1> QED
  BY <1>1, <1>2, <1>3, <1>4, <1>5, <1>6, <1>7
     DEF PanelStep, AccountStep, Load, Check, Rename, ReadLines, RewriteLines, AppendLine,
         CountAccounts, TakeDomain, TakeKey, CountDomain, accountVars

LEMMA AdminStep ==
    ASSUME TypeOK, CopyOK, EmptyOK, AdminOK, NEW r \in Requests, PanelStep(r)
    PROVE  AdminOK'
<1>0. SUFFICES ASSUME ~ lost', ~ switched', crossed' \cap {"admins", "domain"} = {}
               PROVE  /\ Admins' # {}
                      /\ \A q \in Requests : InReduction(q)' => \E i \in Admins' : i # op[q].id
                      /\ \A q, x \in Requests : (InReduction(q)' /\ InReduction(x)') => q = x
  BY HistoryGrows DEF AdminOK
<1>1. /\ ~ lost /\ ~ switched /\ crossed \cap {"admins", "domain"} = {}
      /\ \A q \in Requests \ {r} : InReduction(q)' <=> InReduction(q)
  BY <1>0, HistoryGrows DEF InReduction, Reducing
<1>2. /\ Admins # {}
      /\ \A q \in Requests : InReduction(q) => \E i \in Admins : i # op[q].id
      /\ \A q, x \in Requests : (InReduction(q) /\ InReduction(x)) => q = x
  BY <1>1 DEF AdminOK
<1>3. CASE Admins \subseteq Admins'
  <2>1. CASE InReduction(r)' /\ ~ InReduction(r)
    <3>1. Check(r) /\ UNCHANGED <<op, copy>> /\ pc'[r] # "end"
      BY <2>1, ArrivalStep DEF Check, InReduction
    <3>2. Reducing(r)
      BY <2>1, <3>1 DEF InReduction, Reducing
    <3>3. /\ ~ LastAdmin
          /\ \A q \in Requests \ {r} : ~ InReduction(q)
      BY <1>0, <3>1, <3>2 DEF Check, InReduction, Goto, TypeOK
    <3> QED
      BY <1>1, <1>2, <1>3, <3>3, AnotherAdmin
  <2>2. CASE ~ (InReduction(r)' /\ ~ InReduction(r))
    <3>1. \A q \in Requests : InReduction(q)' => InReduction(q)
      BY <1>1, <2>2
    <3> QED
      BY <1>2, <1>3, <3>1
  <2> QED
    BY <2>1, <2>2
<1>4. CASE ~ (Admins \subseteq Admins')
  <2>1. InReduction(r) /\ pc'[r] = "end" /\ \A i \in Admins \ Admins' : i = op[r].id
    BY <1>0, <1>4, AdminsStep
  <2>2. \A q \in Requests : ~ InReduction(q)'
    BY <1>1, <1>2, <2>1 DEF InReduction
  <2> QED
    BY <1>2, <2>1, <2>2
<1> QED
  BY <1>3, <1>4

-----------------------------------------------------------------------------
(* The lookup file.                                                         *)
Cleared(r) ==
    \/ op[r].kind \notin {"delete", "rename"}
    \/ pc[r] \notin {"append", "commit"}
    \/ copy[r].email \notin vmail
    \/ At(r, "rename", "commit") /\ copy[r].email = op[r].name

\* Unless a row was lost, an address goes by the commit of a deletion or of a
\* new name.
LEMMA EmailStep ==
    ASSUME TypeOK, CopyOK, EmptyOK, NEW r \in Requests, PanelStep(r),
           ~ lost', "domain" \notin crossed', NEW a \in Emails, a \notin Emails'
    PROVE  /\ CommitDelete(r) \/ CommitRename(r)
           /\ a = copy[r].email
           /\ CommitRename(r) => a # op[r].name
<1>0. /\ ~ lost /\ "domain" \notin crossed /\ op[r].id \in Ids
  BY HistoryGrows DEF TypeOK
<1>1. PICK i \in Existing : a = acct[i].email
  BY DEF Emails
<1>2. ~ (acct'[i].there /\ acct'[i].email = a)
  BY DEF Emails, Existing
<1>3. CASE i \notin Existing'
  <2>1. \/ At(r, "delete", "commit") /\ op[r].id = i
        \/ At(r, "deleteDomain", "commit") /\ i \in Hosted
    BY <1>1, <1>3, ExistingStep
  <2>2. At(r, "delete", "commit") /\ op[r].id = i
    BY <1>0, <1>1, <2>1 DEF EmptyOK
  <2>3. CommitDelete(r)
    <3>1. acct' # acct
      BY <1>1, <1>2 DEF Existing
    <3>2. ~ (Toggle(r) \/ SaveSettings(r) \/ CommitRole(r) \/ CommitRename(r) \/ Insert(r)
             \/ CommitDomain(r))
      BY <2>2 DEF At, Toggle, SaveSettings, CommitRole, CommitRename, Insert, CommitDomain
    <3> QED
      BY <3>1, <3>2
         DEF PanelStep, AccountStep, Load, Check, Rename, ReadLines, RewriteLines, AppendLine,
             CountAccounts, TakeDomain, TakeKey, CountDomain, accountVars
  <2>4. acct[op[r].id] = copy[r] /\ ~ CommitRename(r)
    BY <2>2, <2>3 DEF CommitDelete, Stale, CommitRename, At
  <2> QED
    BY <1>1, <2>2, <2>3, <2>4
<1>4. CASE i \in Existing'
  <2>1. acct'[i].email # a
    BY <1>2, <1>4 DEF Existing
  <2>2. ~ (Toggle(r) \/ SaveSettings(r))
    <3> SUFFICES ASSUME Toggle(r) \/ SaveSettings(r) PROVE FALSE
      OBVIOUS
    <3>1. ~ CommitRename(r)
      BY DEF Toggle, SaveSettings, CommitRename, At
    <3> QED
      BY <1>1, <2>1, <3>1, SavesKeep DEF Existing
  <2>3. ~ (CommitRole(r) \/ CommitDelete(r) \/ CommitDomain(r) \/ Insert(r))
    <3>2. acct[i] \in Account /\ op[r].role \in {"FULL", "USER"}
      BY <1>1 DEF Existing, TypeOK
    <3>3. (CommitRole(r) \/ CommitDelete(r) \/ CommitDomain(r)) =>
              acct'[i] \in {acct[i], [acct[i] EXCEPT !.role = op[r].role],
                           [acct[i] EXCEPT !.there = FALSE]}
      BY <1>1 DEF CommitRole, CommitDelete, CommitDomain, Existing, TypeOK
    <3>4. ~ (CommitRole(r) \/ CommitDelete(r) \/ CommitDomain(r))
      <4>1. CASE acct'[i] = acct[i]
        BY <1>1, <2>1, <4>1
      <4>2. CASE acct'[i] = [acct[i] EXCEPT !.role = op[r].role]
        BY <1>1, <2>1, <3>2, <4>2 DEF Account
      <4>3. CASE acct'[i] = [acct[i] EXCEPT !.there = FALSE]
        BY <1>1, <2>1, <3>2, <4>3 DEF Account
      <4> QED
        BY <3>3, <4>1, <4>2, <4>3
    <3>6. ~ Insert(r)
      BY <1>1, <2>1 DEF Insert, Existing, TypeOK
    <3> QED
      BY <3>4, <3>6
  <2>4. acct' # acct
    BY <1>1, <2>1
  <2>5. CommitRename(r)
    BY <2>2, <2>3, <2>4
       DEF PanelStep, AccountStep, Load, Check, Rename, ReadLines, RewriteLines, AppendLine,
           CountAccounts, TakeDomain, TakeKey, CountDomain, accountVars
  <2>6. i = op[r].id /\ acct[op[r].id] = copy[r]
    BY <1>1, <2>1, <2>5, SavesKeep DEF Existing
  <2>7. acct'[op[r].id].email = op[r].name
    <3>1. LET y == [copy[r] EXCEPT !.email = op[r].name]
          IN  y \in Account /\ y.email = op[r].name
      BY DEF TypeOK, Account
    <3>2. PICK row \in Account : row.email = op[r].name /\ SaveAccount(r, row)
      BY <2>5, <3>1 DEF CommitRename
    <3> QED
      BY <1>0, <2>4, <3>2, SaveEffect DEF TypeOK
  <2> QED
    BY <1>1, <2>1, <2>5, <2>6, <2>7
<1> QED
  BY <1>3, <1>4

LEMMA LinesStep ==
    ASSUME TypeOK, CopyOK, EmptyOK, LinesOK, NEW r \in Requests, PanelStep(r)
    PROVE  LinesOK'
<1>0. SUFFICES ASSUME ~ lost', ~ vlost', crossed' \cap {"domain", "line"} = {}
               PROVE  /\ vmail' \subseteq Emails' \cup InFlight'
                      /\ \A q \in Requests : Cleared(q)'
  BY DEF LinesOK, Cleared
<1>1. /\ op' = op /\ ~ lost /\ ~ vlost /\ crossed \cap {"domain", "line"} = {}
      /\ \A q \in Requests \ {r} : pc'[q] = pc[q] /\ copy'[q] = copy[q]
  BY <1>0, HistoryGrows
<1>2. /\ vmail \subseteq Emails \cup InFlight
      /\ \A q \in Requests : Cleared(q)
  BY <1>1 DEF LinesOK, Cleared
\* Lines never come but by AppendLine, and a handler in flight stays there.
<1>3. ASSUME vmail' \subseteq vmail, Emails \subseteq Emails', ~ At(r, "rename", "commit"),
             copy' = copy \/ pc'[r] \notin {"append", "commit"},
             \/ pc'[r] \notin {"append", "commit"} \/ pc[r] \in {"append", "commit"}
             \/ op[r].kind \notin {"delete", "rename"}
      PROVE  /\ vmail' \subseteq Emails' \cup InFlight'
             /\ \A q \in Requests : Cleared(q)'
  <2>1. InFlight \subseteq InFlight'
    BY <1>1, <1>3 DEF InFlight, At
  <2>2. \A q \in Requests : Cleared(q)'
    BY <1>1, <1>2, <1>3 DEF Cleared, At
  <2> QED
    BY <1>2, <1>3, <2>1, <2>2
<1> USE DEF Goto, At
<1>4. CASE DomainStep(r) /\ UNCHANGED accountVars
  <2>1. pc'[r] \in DomLabels /\ UNCHANGED accountVars
    BY <1>4, DomainEffect DEF DomainMoves, TypeOK
  <2>2. Emails' = Emails /\ vmail' = vmail /\ copy' = copy
    BY <2>1 DEF accountVars, Emails, Existing
  <2>3. pc[r] # "commit"
    BY <1>4 DEF DomainStep, LoadDomain, ToggleDomain, UpdateDomain, Verify, Generate, AddDomain,
                EnsureKeys, SkipApply, MayApply, ListZone, WriteRecord, WriteFails,
                ListDuplicates, DeleteDuplicates, CleaningFails, WriteOthers, SaveApplied,
                CheckDomain, SaveStatus
  <2> QED
    BY <1>3, <2>1, <2>2, <2>3 DEF DomLabels
<1>5. CASE Load(r)
  BY <1>3, <1>5 DEF Load, Emails, Existing, TypeOK
<1>6. CASE \/ Toggle(r) \/ SaveSettings(r) \/ CommitRole(r)
           \/ Insert(r) \/ CommitDomain(r)
  <2>1. Emails \subseteq Emails'
    BY <1>0, <1>6, EmailStep
       DEF PanelStep, AccountStep, Toggle, SaveSettings, CommitRole, Insert, CommitDomain,
           CommitDelete, CommitRename
  <2> QED
    BY <1>3, <1>6, <2>1
       DEF Toggle, SaveSettings, CommitRole, Insert, CommitDomain, TypeOK, Create
<1>7. CASE \/ Rename(r) \/ ReadLines(r) \/ CountAccounts(r) \/ TakeDomain(r)
           \/ TakeKey(r) \/ CountDomain(r)
  BY <1>3, <1>7
     DEF Rename, ReadLines, CountAccounts, TakeDomain, TakeKey, CountDomain, accountVars,
         Emails, Existing, TypeOK
<1>8. CASE Check(r)
  BY <1>3, <1>8 DEF Check, Emails, Existing, TypeOK
<1>9. CASE RewriteLines(r)
  <2>1. /\ vmail' = vmail \ {copy[r].email}
        /\ Emails' = Emails /\ copy' = copy
    BY <1>0, <1>9 DEF RewriteLines, LinesLeft, Emails, Existing
  <2>2. InFlight \subseteq InFlight'
    BY <1>1, <1>9 DEF RewriteLines, InFlight
  <2>3. \A q \in Requests : Cleared(q)'
    BY <1>1, <1>2, <2>1 DEF Cleared
  <2> QED
    BY <1>2, <2>1, <2>2, <2>3
<1>10. CASE AppendLine(r)
  <2>1. /\ vmail' = vmail \cup {op[r].name} /\ ~ Overtaken(r)
        /\ Emails' = Emails /\ copy' = copy
    BY <1>0, <1>10 DEF AppendLine, Emails, Existing
  <2>2. op[r].kind \in {"create", "rename"} /\ pc[r] = "append"
    BY <1>10 DEF AppendLine, CopyOK
  <2>3. InFlight \subseteq InFlight'
    BY <1>1, <1>10 DEF AppendLine, InFlight
  <2>4. op[r].name \in Emails' \cup InFlight'
    <3>1. CASE op[r].kind = "create"
      BY <2>1, <3>1 DEF Overtaken, Emails
    <3>2. CASE op[r].kind = "rename"
      <4>1. pc'[r] = "commit"
        BY <1>10, <3>2 DEF AppendLine, TypeOK
      <4> QED
        BY <1>1, <3>2, <4>1 DEF InFlight
    <3> QED
      BY <2>2, <3>1, <3>2
  <2>5. ASSUME NEW q \in Requests PROVE Cleared(q)'
    <3>1. CASE q = r
      <4>1. copy[r].email \notin vmail \/ op[r].kind \notin {"delete", "rename"}
        BY <1>2, <2>2 DEF Cleared
      <4>2. op[r].kind = "rename" => pc'[r] = "commit"
        BY <1>10 DEF AppendLine, TypeOK
      <4> QED
        BY <1>1, <2>1, <2>2, <3>1, <4>1, <4>2 DEF Cleared
    <3>2. CASE q # r
      BY <1>1, <1>2, <2>1, <3>2 DEF Cleared, Overtaken
    <3> QED
      BY <3>1, <3>2
  <2> QED
    BY <1>2, <2>1, <2>3, <2>4, <2>5
<1>11. CASE CommitDelete(r)
  <2>1. ~ CommitRename(r) /\ vmail' = vmail /\ copy' = copy /\ pc'[r] = "end"
    BY <1>11 DEF CommitDelete, CommitRename, TypeOK
  <2>2. copy[r].email \notin vmail
    BY <1>2, <1>11 DEF CommitDelete, Cleared
  <2>3. InFlight \subseteq InFlight'
    BY <1>1, <1>11 DEF CommitDelete, InFlight
  <2>4. \A a \in Emails : a \in Emails' \/ a = copy[r].email
    BY <1>0, <1>11, EmailStep DEF PanelStep, AccountStep
  <2>5. \A q \in Requests : Cleared(q)'
    BY <1>1, <1>2, <2>1 DEF Cleared
  <2> QED
    BY <1>2, <2>1, <2>2, <2>3, <2>4, <2>5
<1>12. CASE CommitRename(r)
  <2>1. vmail' = vmail /\ copy' = copy /\ pc'[r] = "end"
    BY <1>12 DEF CommitRename, TypeOK
  <2>2. copy[r].email \notin vmail \/ copy[r].email = op[r].name
    BY <1>2, <1>12 DEF CommitRename, Cleared
  <2>3. \A a \in Emails : a \in Emails' \/ (a = copy[r].email /\ a # op[r].name)
    BY <1>0, <1>12, EmailStep DEF PanelStep, AccountStep
  <2>4. op[r].name \in Emails'
    <3>0. /\ op[r].id \in Ids /\ copy[r].there
          /\ acct[op[r].id] = copy[r]
      BY <1>0, <1>12, SavesKeep DEF TypeOK
    <3>1. PICK row \in Account : /\ row.email = op[r].name /\ row.there
                                 /\ SaveAccount(r, row)
      <4>1. LET y == [copy[r] EXCEPT !.email = op[r].name]
            IN  y \in Account /\ y.email = op[r].name /\ y.there = copy[r].there
        BY DEF TypeOK, Account
      <4> QED
        BY <1>12, <3>0, <4>1 DEF CommitRename
    <3>2. CASE CanSave(r, row)
      <4>1. acct'[op[r].id] = row
        BY <1>0, <3>0, <3>1, <3>2, SaveEffect DEF TypeOK
      <4> QED
        BY <3>0, <3>1, <4>1 DEF Emails, Existing
    <3>3. CASE ~ CanSave(r, row)
      <4>1. acct' = acct
        BY <1>0, <3>1, <3>3, SaveEffect
      <4>2. \E i \in Existing : acct[i].email = op[r].name
        BY <3>0, <3>1, <3>3 DEF CanSave, HomeIsThere
      <4> QED
        BY <4>1, <4>2 DEF Emails, Existing
    <3> QED
      BY <3>2, <3>3
  <2>5. \A a \in InFlight : a \in InFlight' \/ a = op[r].name
    BY <1>1 DEF InFlight
  <2>6. \A q \in Requests : Cleared(q)'
    BY <1>1, <1>2, <2>1 DEF Cleared
  <2> QED
    BY <1>2, <2>1, <2>2, <2>3, <2>4, <2>5, <2>6
<1> QED
  BY <1>4, <1>5, <1>6, <1>7, <1>8, <1>9, <1>10, <1>11, <1>12 DEF PanelStep, AccountStep

-----------------------------------------------------------------------------
(* The invariant and what it gives.                                         *)

LEMMA InitInvariant == Init => IInv
<1> SUFFICES ASSUME Init PROVE IInv
  OBVIOUS
<1>1. CopyOK /\ EmptyOK
  BY DEF Init, CopyOK, EmptyOK, At
<1>2. KeyOK
  <2>1. PICK k : dom = [NewRow(NoKey) EXCEPT !.key = k, !.rec = k]
    BY DEF Init, DomInit
  <2>2. dom.key = k /\ dom.rec = k /\ dom.verified = FALSE
    BY <2>1, RowFacts DEF Row
  <2> QED
    BY <2>2 DEF Init, KeyOK
<1>6. ZoneOK
  <2>1. ~ Written /\ \A r \in Requests : ~ Applying(r)
    BY DEF Init, DomInit, Written, Applying
  <2>2. hadBoth => (zone[Txt] = "foreign" /\ IsSpf(Spf) /\ Spf \in Records)
    BY DEF Init, DomInit, IsSpf, Records
  <2> QED
    BY <2>1, <2>2 DEF ZoneOK, Applying
<1>3. Admins # {} /\ Cardinality(Existing) <= MaxAccounts
  BY AskedAssumption DEF Init, Admins, Existing
<1>4. AdminOK /\ LimitOK
  BY <1>3 DEF Init, AdminOK, LimitOK, InReduction, InCreation
<1>5. LinesOK
  BY DEF Init, LinesOK, Emails
<1> QED
  BY <1>1, <1>2, <1>4, <1>5, <1>6, InitType DEF IInv

LEMMA StepInvariant == ASSUME IInv, [Next]_vars PROVE IInv'
<1>1. CASE UNCHANGED vars
  BY <1>1 DEF IInv, vars, domVars, zoneVars, accountVars, TypeOK, DomTypeOK, Existing, CopyOK,
              KeyOK, ZoneOK, Written, Applying, IsSpf, Duplicates, EmptyOK, At, AdminOK, Admins, InReduction, Reducing, LimitOK, InCreation,
              LinesOK, Emails, InFlight
<1>2. CASE Next
  <2>1. PICK r \in Requests : PanelStep(r)
    BY <1>2 DEF Next, PanelStep
  <2>2. TypeOK' /\ CopyOK' /\ KeyOK' /\ ZoneOK'
    BY <2>1, StepType, CopyStep, DomainKey, AccountKey, DomainZone, AccountZone
       DEF IInv, PanelStep
  <2>3. EmptyOK' /\ AdminOK' /\ LimitOK' /\ LinesOK'
    BY <2>1, EmptyStep, AdminStep, LimitStep, LinesStep DEF IInv
  <2> QED
    BY <2>2, <2>3 DEF IInv
<1> QED
  BY <1>1, <1>2

\* The inductive invariant holds in every reachable state.
THEOREM Invariance == Spec => []IInv
BY InitInvariant, StepInvariant, PTL DEF Spec

\* Every variable keeps its type, and no two accounts get the same address.
THEOREM TypeCorrect == Spec => []TypeOK
<1>1. IInv => TypeOK
  BY DEF IInv
<1> QED
  BY <1>1, Invariance, PTL

\* The DKIM key of the domain row fits the record the panel shows and
\* publishes, and "verified" is about that record, unless a handler saved a row
\* others had changed.
THEOREM KeyTheorem == Spec => []KeyFitsRecord
<1>1. IInv => KeyFitsRecord
  BY DEF IInv, KeyOK, KeyFitsRecord
<1> QED
  BY <1>1, Invariance, PTL

\* When the records were applied and nobody is at work there is one SPF record in
\* the zone, and a foreign TXT record beside an SPF record stays as it was, but for
\* two handlers at once or a failing call.
THEOREM ZoneTheorem == Spec => []ZoneIsKept
<1>1. IInv => ZoneIsKept
  <2> SUFFICES ASSUME IInv, ~ zdirty,
                      published # {} /\ \A r \in Requests : ~Applying(r)
               PROVE  Cardinality({i \in Records : IsSpf(i)}) = 1
    BY DEF IInv, ZoneOK, ZoneIsKept
  <2>1. PICK i \in Records : \A j \in Records : IsSpf(j) <=> j = i
    BY DEF IInv, ZoneOK, Written, Applying
  <2>2. {j \in Records : IsSpf(j)} = {i}
    BY <2>1
  <2> QED
    BY <2>2, FS_Singleton, Zenon
<1> QED
  BY <1>1, Invariance, PTL

\* The counts in update_role and delete_account keep an active full
\* administrator, but for a deactivation, a stale row or an overtaken count.
THEOREM AdminTheorem == Spec => []AdminRemains
<1>1. IInv => AdminRemains
  BY DEF IInv, AdminOK, AdminRemains
<1> QED
  BY <1>1, Invariance, PTL

\* The lookup file has lines for existing accounts and for new names about to
\* be saved, but for a stale row or file and an address that changed hands.
THEOREM LinesTheorem == Spec => []VmailFollows
<1>1. IInv => VmailFollows
  BY DEF IInv, LinesOK, VmailFollows, Emails
<1> QED
  BY <1>1, Invariance, PTL

\* There are never more accounts than the limit, and an account goes by its own
\* deletion only, but for a stale row or an overtaken count.
THEOREM CountsTheorem == Spec => CountsHold
<1> DEFINE Step == /\ Cardinality(Existing') <= MaxAccounts \/ lost' \/ "limit" \in crossed'
                   /\ \A i \in Existing :
                         \/ acct'[i].there
                         \/ \E r \in Requests : At(r, "delete", "commit") /\ op[r].id = i
                         \/ lost \/ "domain" \in crossed
<1>1. (IInv /\ IInv' /\ Next) => Step
  <2> SUFFICES ASSUME IInv, IInv', Next PROVE Step
    OBVIOUS
  <2>1. Cardinality(Existing') <= MaxAccounts \/ lost' \/ "limit" \in crossed'
    BY DEF IInv, LimitOK
  <2>2. ASSUME NEW i \in Existing, ~ acct'[i].there, ~ lost, "domain" \notin crossed
        PROVE  \E r \in Requests : At(r, "delete", "commit") /\ op[r].id = i
    <3>1. PICK r \in Requests : PanelStep(r)
      BY DEF Next, PanelStep
    <3>2. /\ TypeOK /\ CopyOK /\ EmptyOK /\ i \in Ids /\ acct[i].there
          /\ copy[r] \in Account /\ op[r].id \in Ids /\ op[r].name \in Names
      BY DEF IInv, Existing, TypeOK
    <3>3. ~ (Toggle(r) \/ SaveSettings(r) \/ CommitRename(r))
      <4> SUFFICES ASSUME Toggle(r) \/ SaveSettings(r) \/ CommitRename(r) PROVE FALSE
        OBVIOUS
      <4>1. copy[r].there
        BY <3>2 DEF CopyOK, Toggle, SaveSettings, CommitRename, At, Own
      <4>2. PICK row : SaveAccount(r, row) /\ row.there = copy[r].there
        <5>1. /\ [copy[r] EXCEPT !.active = ~@].there = copy[r].there
              /\ [copy[r] EXCEPT !.email = op[r].name].there = copy[r].there
          BY <3>2 DEF Account
        <5> QED
          BY <5>1 DEF Toggle, SaveSettings, CommitRename
      <4> QED
        BY <2>2, <3>2, <4>1, <4>2 DEF SaveAccount, TypeOK
    <3>4. ~ CommitRole(r)
      BY <2>2, <3>2 DEF CommitRole, TypeOK, Account
    <3>5. ~ Insert(r)
      BY <2>2, <3>2 DEF Insert, Existing, TypeOK
    <3>6. ~ CommitDomain(r)
      <4> SUFFICES ASSUME CommitDomain(r) PROVE FALSE
        OBVIOUS
      <4>1. i \notin Hosted
        BY <2>2, <3>2 DEF EmptyOK, CommitDomain, Existing
      <4> QED
        BY <2>2, <3>2, <4>1 DEF CommitDomain, TypeOK
    <3>7. CASE CommitDelete(r)
      BY <2>2, <3>2, <3>7 DEF CommitDelete, TypeOK
    <3>8. acct' # acct
      BY <2>2, <3>2
    <3> QED
      BY <3>1, <3>3, <3>4, <3>5, <3>6, <3>7, <3>8
         DEF PanelStep, AccountStep, Load, Check, Rename, ReadLines, RewriteLines, AppendLine,
             CountAccounts, TakeDomain, TakeKey, CountDomain, accountVars
  <2> QED
    BY <2>1, <2>2
<1>2. (IInv /\ IInv' /\ [Next]_vars) => [Step]_vars
  BY <1>1
<1> QED
  BY <1>2, Invariance, PTL DEF Spec, CountsHold
=========================================================================
