-------------------------- MODULE MCSelectorRegistry --------------------------
(* Values of SelectorRegistry's constants for TLC. *)
EXTENDS SelectorRegistry, TLC

CONSTANTS p1, p2

At(kind, version, place) == [kind |-> kind, version |-> version, place |-> place]

Entries(rs) == [key \in IndexKey |->
                  IF Readable(rs[key[2]]) /\ rs[key[2]].place = key[1] THEN key[2] ELSE NoId]

\* Each selector is absent, or at p1 as a current or a legacy record.
SomeRecords == [Id -> {Absent, At("current", 1, p1), At("legacy", 1, p1)}]

\* A store as clients leave it, and one with an entry left behind by a deleted record.
CleanStores == {[records |-> rs, index |-> Entries(rs)] : rs \in SomeRecords}
StaleStores == {[s EXCEPT !.index[<<p1, id>>] = id] : s \in CleanStores, id \in Id}
\* Stores whose index was lost, and stores with a record that cannot be read.
BareStores  == {[records |-> rs, index |-> [key \in IndexKey |-> NoId]] : rs \in SomeRecords}
BrokenStores ==
    {[s EXCEPT !.records[id] = At("malformed", 0, NoPlace)] : s \in CleanStores, id \in Id}
AllStores   == CleanStores \cup StaleStores \cup BareStores \cup BrokenStores

Anywhere == [id \in Id |-> Place]

Interchangeable == Permutations(Client) \cup Permutations(Blind) \cup Permutations(Id \ Blind)
=============================================================================
