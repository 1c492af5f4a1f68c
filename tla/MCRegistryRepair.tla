--------------------------- MODULE MCRegistryRepair ---------------------------
(* Values of RegistryRepair's constants for TLC. *)
EXTENDS RegistryRepair, TLC

CONSTANTS p1, p2

At(kind, version, place) == [kind |-> kind, version |-> version, place |-> place]

\* Any mixture of records, under any index at all.
AnyRecord == {Absent, At("current", 1, p1), At("legacy", 1, p1), At("malformed", 0, NoPlace)}
AnyStores == [records : [Id -> AnyRecord], index : Index]

\* An index without drift over one legacy or current record at p1, or none.
ExactStores ==
    {[records |-> rs,
      index   |-> [key \in IndexKey |-> IF rs[key[2]].place = key[1] THEN key[2] ELSE NoId]] :
        rs \in [Id -> {Absent, At("current", 1, p1), At("legacy", 1, p1)}]}

Anywhere == [id \in Id |-> Place]
InPlace  == [id \in Id |-> {p1}]

Interchangeable == Permutations(Client) \cup Permutations(Id)
=============================================================================
