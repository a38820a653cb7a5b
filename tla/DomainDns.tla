------------------------------ MODULE DomainDns ------------------------------
(***************************************************************************)
(* A mail domain of the panel: its row with the DKIM key pair, and the DNS  *)
(* zone at the provider.  Every handler loads the row as an instance, works *)
(* on that copy, and saves all of its columns or the named ones, while      *)
(* other requests do the same; applying the records lists, writes and       *)
(* cleans the zone in separate calls to the provider.  The SPF record       *)
(* stands for the records that share their name with foreign ones.          *)
(***************************************************************************)
EXTENDS Naturals, FiniteSets

CONSTANTS Requests,     \* requests of administrators, each handled once
          Keys,         \* key pairs that can be generated
          NoKey,        \* no key pair
          Txt, Spf      \* records the zone may hold before: a foreign TXT, an SPF

ASSUME DomainAssumption ==
    /\ NoKey \notin Keys
    /\ Txt # Spf /\ {Txt, Spf} \intersect Requests = {}

VARIABLES
    op,         \* what each request asks for
    pc,         \* where its handler stands
    dom,        \* the row of the domain
    dcopy,      \* the instance of it each handler works on
    zone,       \* the TXT records at the name of the domain
    selectors,  \* the DKIM records it publishes
    listed,     \* the records a handler found when it listed the zone
    keep,       \* the record a handler takes for its own
    published,  \* requests whose apply wrote every record
    used,       \* history: generated key pairs
    vouched,    \* history: DKIM records found in the zone, or verified by hand
    dlost,      \* history: a save wrote over columns that others had changed
    zdirty,     \* history: two handlers worked on the zone at once, or a call to it failed
    hadBoth     \* history: the zone had an SPF record and a foreign TXT at first

zoneVars == <<zone, selectors, listed, keep, published, vouched, zdirty>>
domVars  == <<op, pc, dom, dcopy, zoneVars, used, dlost, hadBoth>>

Records == Requests \union {Txt, Spf}
\* by: the request that inserted the row, in place of its primary key.
Row     == [there : BOOLEAN, by : Requests \union {NoKey}, active : BOOLEAN,
            verified : BOOLEAN, key : Keys \union {NoKey}, rec : Keys \union {NoKey}]
NoRow   == [there |-> FALSE, by |-> NoKey, active |-> FALSE, verified |-> FALSE,
            key |-> NoKey, rec |-> NoKey]
NewRow(r) == [NoRow EXCEPT !.there = TRUE, !.by = r, !.active = TRUE]

DomainOps == {"addDomain", "toggleDomain", "updateDomain", "verify", "check", "generate",
              "apply", "fix", "deleteDomain"}

DomTypeOK ==
    /\ dom \in Row
    /\ dcopy \in [Requests -> Row]
    /\ zone \in [Records -> {"none", "ours", "old", "foreign"}]
    /\ listed \in [Requests -> SUBSET Records]
    /\ keep \in [Requests -> Records \union {NoKey}]
    /\ published \subseteq Requests
    /\ used \subseteq Keys /\ selectors \subseteq Keys
    /\ vouched \subseteq Keys \union {NoKey}
    /\ dlost \in BOOLEAN /\ zdirty \in BOOLEAN /\ hadBoth \in BOOLEAN

\* A domain without a key, or with the one of an earlier apply; the zone may
\* hold an SPF record of another system, and another TXT or SPF record beside.
DomInit ==
    /\ \E k \in Keys \union {NoKey} :
          /\ dom = [NewRow(NoKey) EXCEPT !.key = k, !.rec = k]
          /\ used = {k} \ {NoKey} /\ selectors = used
    /\ dcopy = [r \in Requests |-> NoRow]
    /\ \E t \in {"none", "foreign", "old"}, s \in {"none", "old"} :
          zone = [i \in Records |-> CASE i = Txt -> t [] i = Spf -> s [] OTHER -> "none"]
    /\ listed = [r \in Requests |-> {}]
    /\ keep = [r \in Requests |-> NoKey]
    /\ published = {} /\ vouched = {}
    /\ dlost = FALSE /\ zdirty = FALSE
    /\ hadBoth = (zone[Spf] = "old" /\ zone[Txt] = "foreign")

Goto(r, l) == pc' = [pc EXCEPT ![r] = l]
At(r, o, l) == op[r].kind = o /\ pc[r] = l

-----------------------------------------------------------------------------
(***************************************************************************)
(* The row.                                                                 *)
(***************************************************************************)

\* MailDomain.objects.get(name=...), or the error for a missing domain.
LoadDomain(r) ==
    /\ pc[r] = "start"
    /\ op[r].kind \in DomainOps \ {"addDomain"}
    /\ dcopy' = [dcopy EXCEPT ![r] = dom]
    /\ Goto(r, IF dom.there THEN "work" ELSE "end")
    /\ UNCHANGED <<op, dom, zoneVars, used, dlost, hadBoth>>

RowIsThere(r) == dom.there /\ dom.by = dcopy[r].by
NameIsFree(r) == ~dom.there \/ dom.by = dcopy[r].by

\* save() of an instance writes every column, and inserts the row if it is gone;
\* if another row has the name by then, it is an IntegrityError.
SaveAll(r, row) ==
    IF NameIsFree(r)
    THEN /\ dom' = row
         /\ dcopy' = [dcopy EXCEPT ![r] = row]
         /\ dlost' = (dlost \/ dom # dcopy[r])
    ELSE UNCHANGED <<dom, dcopy, dlost>>

\* The handlers that change a column and save the row.
ToggleDomain(r) ==
    /\ At(r, "toggleDomain", "work")
    /\ SaveAll(r, [dcopy[r] EXCEPT !.active = ~@])
    /\ Goto(r, "end")
    /\ UNCHANGED <<op, zoneVars, used, hadBoth>>

UpdateDomain(r) ==
    /\ At(r, "updateDomain", "work")
    /\ \E a \in BOOLEAN : SaveAll(r, [dcopy[r] EXCEPT !.active = a])
    /\ Goto(r, "end")
    /\ UNCHANGED <<op, zoneVars, used, hadBoth>>

Verify(r) ==
    /\ At(r, "verify", "work")
    /\ SaveAll(r, [dcopy[r] EXCEPT !.verified = TRUE])
    /\ vouched' = vouched \union {dcopy[r].rec}
    /\ Goto(r, "end")
    /\ UNCHANGED <<op, zone, selectors, listed, keep, published, zdirty, used, hadBoth>>

\* generate_dkim_keys: a fresh key pair and selector, to be verified again.
\* Variant: the new key is saved, the record of the old one stays.
KeyOnly(r, k) == [dcopy[r] EXCEPT !.key = k, !.verified = FALSE]
WithKey(r, k) == [dcopy[r] EXCEPT !.key = k, !.rec = k, !.verified = FALSE]

GenerateKeys(r) ==
    \E k \in Keys \ used :
        /\ used' = used \union {k}
        /\ SaveAll(r, WithKey(r, k))

\* generate_dns_records: a missing key, or a new one on request.
Generate(r) ==
    /\ At(r, "generate", "work")
    /\ \/ GenerateKeys(r)
       \/ dcopy[r].key # NoKey /\ UNCHANGED <<dom, dcopy, used, dlost>>
    /\ Goto(r, "end")
    /\ UNCHANGED <<op, zoneVars, hadBoth>>

\* add_domain, after it found no domain of that name.
AddDomain(r) ==
    /\ At(r, "addDomain", "start")
    /\ IF dom.there
       THEN /\ Goto(r, "end")
            /\ UNCHANGED <<dom, dcopy>>
       ELSE /\ dom' = NewRow(r)
            /\ dcopy' = [dcopy EXCEPT ![r] = NewRow(r)]
            /\ Goto(r, "work")
    /\ UNCHANGED <<op, zoneVars, used, dlost, hadBoth>>

HasKey(r) == dcopy[r].key # NoKey /\ dcopy[r].rec # NoKey

\* fix_all_dns_records and auto_apply_domain_dns generate a missing key.
EnsureKeys(r) ==
    /\ pc[r] = "work" /\ op[r].kind \in {"addDomain", "fix"}
    /\ ~HasKey(r)
    /\ GenerateKeys(r)
    /\ Goto(r, IF NameIsFree(r) THEN "work" ELSE "end")
    /\ UNCHANGED <<op, zoneVars, hadBoth>>

-----------------------------------------------------------------------------
(***************************************************************************)
(* The zone: apply_mail_dns with CloudflareProvider.ensure_record.          *)
(***************************************************************************)
Applying(r) == pc[r] \in {"write", "list", "clean"}
IsSpf(i)    == zone[i] \in {"ours", "old"}
Present     == {i \in Records : zone[i] # "none"}

MayApply(r) ==
    /\ pc[r] = "work"
    /\ op[r].kind = "apply" \/ (op[r].kind \in {"addDomain", "fix"} /\ HasKey(r))

\* No provider, no credentials or no zone: nothing is written.
SkipApply(r) ==
    /\ MayApply(r)
    /\ Goto(r, "end")
    /\ UNCHANGED <<op, dom, dcopy, zoneVars, used, dlost, hadBoth>>

\* _list_matching, and the record it takes for the one to keep or to write:
\* one with the content wanted, else an SPF record, else any TXT record there.
\* Variant: an SPF record is not looked for.
AnyRecord == IF \E i \in Present : zone[i] = "ours" THEN {i \in Present : zone[i] = "ours"}
             ELSE Present
Candidates == IF \E i \in Present : zone[i] = "ours" THEN {i \in Present : zone[i] = "ours"}
              ELSE IF \E i \in Present : IsSpf(i) THEN {i \in Present : IsSpf(i)}
              ELSE Present

\* The list of a zone that cannot be read is taken for an empty one; a record
\* that is right already is not written again.
ListZone(r) ==
    /\ MayApply(r)
    /\ \E i \in Candidates \union {r} :
          /\ keep' = [keep EXCEPT ![r] = i]
          /\ Goto(r, IF zone[i] = "ours" THEN "list" ELSE "write")
    /\ zdirty' = (zdirty \/ \E q \in Requests \ {r} : Applying(q))
    /\ UNCHANGED <<op, dom, dcopy, zone, selectors, listed, published, vouched, used, dlost,
                   hadBoth>>

\* PUT of a record that is there, POST of a new one; a record that has gone
\* since is an error, and the other records are written nevertheless.
WriteRecord(r) ==
    /\ pc[r] = "write"
    /\ IF keep[r] = r \/ zone[keep[r]] # "none"
       THEN /\ zone' = [zone EXCEPT ![keep[r]] = "ours"]
            /\ Goto(r, "list")
       ELSE /\ UNCHANGED zone
            /\ Goto(r, "partial")
    /\ UNCHANGED <<op, dom, dcopy, selectors, listed, keep, published, vouched, used, dlost,
                   zdirty, hadBoth>>

\* _dedupe_conflicting_records: list again, then delete the other SPF records.
\* Variant: the foreign records go as well.
Everything(r) == Present \ {keep[r]}
Duplicates(r) == {i \in Records : IsSpf(i)} \ {keep[r]}

ListDuplicates(r) ==
    /\ pc[r] = "list"
    /\ listed' = [listed EXCEPT ![r] = Duplicates(r)]
    /\ Goto(r, "clean")
    /\ UNCHANGED <<op, dom, dcopy, zone, selectors, keep, published, vouched, used, dlost,
                   zdirty, hadBoth>>

DeleteDuplicates(r) ==
    /\ pc[r] = "clean"
    /\ zone' = [i \in Records |-> IF i \in listed[r] THEN "none" ELSE zone[i]]
    /\ listed' = [listed EXCEPT ![r] = {}]
    /\ Goto(r, "dkim")
    /\ UNCHANGED <<op, dom, dcopy, selectors, keep, published, vouched, used, dlost, zdirty,
                   hadBoth>>

\* A write that fails is reported, even if only its answer was lost; a list or a
\* deletion that fails is not.  The remaining records are written all the same.
WriteFails(r) ==
    /\ pc[r] = "write"
    /\ \/ UNCHANGED <<zone, zdirty>>
       \/ zone' = [zone EXCEPT ![keep[r]] = "ours"] /\ zdirty' = TRUE
    /\ Goto(r, "partial")
    /\ UNCHANGED <<op, dom, dcopy, selectors, listed, keep, published, vouched, used, dlost,
                   hadBoth>>

CleaningFails(r) ==
    /\ pc[r] \in {"list", "clean"}
    /\ \E gone \in SUBSET listed[r] :
          zone' = [i \in Records |-> IF i \in gone THEN "none" ELSE zone[i]]
    /\ listed' = [listed EXCEPT ![r] = {}]
    /\ zdirty' = TRUE
    /\ Goto(r, "dkim")
    /\ UNCHANGED <<op, dom, dcopy, selectors, keep, published, vouched, used, dlost, hadBoth>>

\* The DKIM record of the copy, if it has one, and the other records, whose names
\* nobody else uses: some of them may fail.
WriteOthers(r) ==
    /\ pc[r] \in {"dkim", "partial"}
    /\ \/ /\ selectors' = selectors \union ({dcopy[r].rec} \ {NoKey})
          /\ pc[r] = "dkim" /\ Goto(r, "saveOk")
       \/ /\ selectors' \in {selectors, selectors \union ({dcopy[r].rec} \ {NoKey})}
          /\ Goto(r, "save")
    /\ UNCHANGED <<op, dom, dcopy, zone, listed, keep, published, vouched, zdirty, used, dlost,
                   hadBoth>>

\* save(update_fields=[..., 'dkim_record']): an error if the row is gone.
SaveApplied(r) ==
    /\ pc[r] \in {"save", "saveOk"}
    /\ IF RowIsThere(r)
       THEN /\ dom' = [dom EXCEPT !.rec = dcopy[r].rec]
            /\ dlost' = (dlost \/ dom.rec # dcopy[r].rec)
            /\ published' = IF pc[r] = "saveOk" THEN published \union {r} ELSE published
       ELSE UNCHANGED <<dom, dlost, published>>
    /\ Goto(r, "end")
    /\ UNCHANGED <<op, dcopy, zone, selectors, listed, keep, vouched, used, zdirty, hadBoth>>

-----------------------------------------------------------------------------
(***************************************************************************)
(* The task check_domain_dns resolves the records of the row it has loaded *)
(* (a selector nobody generated if the row has none) and saves the result. *)
(***************************************************************************)
CheckDomain(r) ==
    /\ At(r, "check", "work")
    /\ \/ /\ \E i \in Records : IsSpf(i)
          /\ dcopy[r].rec \in selectors \union {NoKey}
          /\ vouched' = vouched \union {dcopy[r].rec}
          /\ Goto(r, "found")
       \/ /\ UNCHANGED vouched
          /\ Goto(r, "missed")
    /\ UNCHANGED <<op, dom, dcopy, zone, selectors, listed, keep, published, zdirty, used, dlost,
                   hadBoth>>

SaveStatus(r) ==
    /\ pc[r] \in {"found", "missed"}
    /\ IF RowIsThere(r)
       THEN /\ dom' = [dom EXCEPT !.verified = (pc[r] = "found")]
            /\ dlost' = (dlost \/ dom # dcopy[r])
       ELSE UNCHANGED <<dom, dlost>>
    /\ Goto(r, "end")
    /\ UNCHANGED <<op, dcopy, zoneVars, used, hadBoth>>

DomainStep(r) ==
    \/ LoadDomain(r) \/ ToggleDomain(r) \/ UpdateDomain(r) \/ Verify(r) \/ Generate(r)
    \/ AddDomain(r) \/ EnsureKeys(r) \/ SkipApply(r) \/ ListZone(r) \/ WriteRecord(r)
    \/ WriteFails(r) \/ ListDuplicates(r) \/ DeleteDuplicates(r) \/ CleaningFails(r)
    \/ WriteOthers(r) \/ SaveApplied(r) \/ CheckDomain(r) \/ SaveStatus(r)

-----------------------------------------------------------------------------
(***************************************************************************)
(* Properties.                                                              *)
(***************************************************************************)

\* The key that signs mail is the one of the record the panel shows and
\* publishes, and a domain passes as verified only by a record that was found in
\* the zone or confirmed by hand: a fresh key has to be verified again.  Saves of
\* an instance whose row had changed break both.
KeyFitsRecord ==
    ~dlost => dom.key = dom.rec /\ (dom.verified => dom.rec \in vouched)

\* Once a request has reported every record as applied and none is at work, the
\* zone holds one SPF record; and a TXT record of somebody else is never written
\* over where there was an SPF record to take instead.  Two requests that work
\* on the zone at once, or a call that fails halfway, may break both.
ZoneIsKept ==
    ~zdirty =>
        /\ published # {} /\ (\A r \in Requests : ~Applying(r))
              => Cardinality({i \in Records : IsSpf(i)}) = 1
        /\ hadBoth => zone[Txt] = "foreign"
=============================================================================
