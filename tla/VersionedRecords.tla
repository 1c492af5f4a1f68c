--------------------------- MODULE VersionedRecords ---------------------------
(***************************************************************************)
(* What the selector registry promises about the versions of its records:  *)
(* a record is created at version 1, every change moves it on by exactly    *)
(* one, and a deleted record starts again.  SelectorRegistry implements    *)
(* this specification as long as every writer states the version it read.  *)
(***************************************************************************)
EXTENDS Naturals

CONSTANT Id             \* selector IDs

VARIABLE version        \* version[id], 0 if the record does not exist

Init == version \in [Id -> Nat]

Write(id)  == version' = [version EXCEPT ![id] = @ + 1]
Delete(id) == version' = [version EXCEPT ![id] = 0]

Next == \E id \in Id : Write(id) \/ Delete(id)

Spec == Init /\ [][Next]_version
=============================================================================
