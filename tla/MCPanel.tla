------------------------------ MODULE MCPanel ------------------------------
(***************************************************************************)
(* Small instance of PanelAdmin: the administrator of the installation on   *)
(* another domain (row 1), perhaps a second account on this one (row 2),    *)
(* rows 3 and 4 to be created.                                              *)
(***************************************************************************)
EXTENDS PanelAdmin, TLC

CONSTANTS n2, n3        \* addresses beside Boss

Ask(kinds, ids, names, roles) == [kind : kinds, id : ids, name : names, role : roles]

MCAsked ==
    Ask(DomainOps, {1}, {Boss}, {"USER"})
    \union Ask({"toggle", "settings", "delete"}, {1, 2, 3}, {Boss}, {"USER"})
    \union Ask({"role"}, {1, 2, 3}, {Boss}, {"FULL", "USER"})
    \union Ask({"rename"}, {1, 2, 3}, {n3}, {"USER"})
    \union Ask(Create, {1}, {n2, n3}, {"USER"})

MCFirstAccounts ==
    {[i \in Ids |-> CASE i = 1 -> [there |-> TRUE, email |-> Boss, role |-> "FULL", active |-> TRUE]
                      [] i = 2 -> second
                      [] OTHER -> NoAccount] :
        second \in [there : {TRUE}, email : {n2}, role : {"FULL", "USER"}, active : BOOLEAN]
                   \union {NoAccount}}

Symmetry == Permutations(Requests) \union Permutations(Keys)
=============================================================================
