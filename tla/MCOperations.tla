---------------------------- MODULE MCOperations ----------------------------
(***************************************************************************)
(* Small instance of Operations: any two operations, on the earlier rows or *)
(* on those of the other job.                                               *)
(***************************************************************************)
EXTENDS Operations, TLC

\* Operations that name a row.
ById == {"restore", "deleteBackup", "readAlert", "resolveAlert", "evaluate", "metrics",
         "setLimit", "dropLimit"}

MCAsked == [kind : ById, id : Ids] \union [kind : OpKinds \ ById, id : {First}]

Symmetry == Permutations(Requests)
=============================================================================
