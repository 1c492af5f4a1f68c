--------------------------- MODULE SelectorRegistry ---------------------------
(***************************************************************************)
(* The selector registry (selectorRegistry.ts): records keyed by selector  *)
(* ID and an index of them by page object and action type, kept in one     *)
(* store by clients that upsert, delete and look up.                       *)
(*                                                                         *)
(* A record and its index entry are separate keys and no operation touches *)
(* both at once: every awaited store call is one action, and a client's    *)
(* frame is job[c].  A place is a page object with an action type; an      *)
(* index key is a place and an ID, its value the ID whose record key it    *)
(* names.  A scan of the store is one action (Redis returns a small        *)
(* keyspace in one SCAN reply) and may stop at any Limit of the keys.      *)
(***************************************************************************)
EXTENDS Integers, FiniteSets

CONSTANTS
    Client,
    Id,              \* selector IDs
    Place,           \* (page object, action type) pairs
    NoId,            \* no index entry
    NoPlace,         \* the place of a record that is absent or unreadable
    InitialStores,   \* the records and the index the store may start with
    UpsertPlaces,    \* UpsertPlaces[id]: the places clients upsert id at
    HasCas,          \* the store offers compareAndSet (both stores of the repository do)
    Blind,           \* selectors whose writers state no expectedVersion
    Limit,           \* lookup limit
    MaxVersion,      \* bound on versions
    MaxDeletes,      \* bound on deletes
    MaxFaults        \* bound on crashes and store errors

Kind     == {"absent", "current", "legacy", "malformed"}
Record   == [kind : Kind, version : Nat, place : Place \cup {NoPlace}]
Absent   == [kind |-> "absent", version |-> 0, place |-> NoPlace]
IndexKey == Place \X Id
Index    == [IndexKey -> Id \cup {NoId}]

Readable(r) == r.kind \in {"current", "legacy"}

\* What is parsed of a stored record: a place and a positive version if it can be
\* read, and nothing of one that does not exist.
WellFormed(r) == /\ Readable(r) <=> r.place \in Place
                 /\ Readable(r) => r.version > 0
                 /\ r.kind = "absent" => r.version = 0

Busy == {"get", "cas", "set", "index", "unindex", "del", "delindex",
         "targets", "records", "all", "listed"}

Job == [pc       : {"idle"} \cup Busy,
        id       : Id \cup {NoId},          \* the record an upsert or delete is about
        place    : Place \cup {NoPlace},    \* the place upserted, or looked up
        expected : Nat,                     \* expectedVersion, 0 for null
        seen     : Record,                  \* existing: the record read, or replaced by the CAS
        keys     : SUBSET Id,               \* a lookup's index keys, then its record keys
        full     : BOOLEAN]                 \* the lookup's limit was reached

IdleJob == [pc |-> "idle", id |-> NoId, place |-> NoPlace, expected |-> 0,
            seen |-> Absent, keys |-> {}, full |-> FALSE]

ASSUME ConstantsAssumption ==
    /\ NoId \notin Id
    /\ NoPlace \notin Place
    /\ InitialStores \subseteq [records : [Id -> Record], index : Index]
    /\ UpsertPlaces \in [Id -> SUBSET Place]
    /\ HasCas \in BOOLEAN
    /\ Blind \subseteq Id
    /\ Limit \in Nat \ {0}
    /\ MaxVersion \in Nat
    /\ MaxDeletes \in Nat
    /\ MaxFaults \in Nat

ASSUME StoresAssumption == \A s \in InitialStores, id \in Id : WellFormed(s.records[id])

VARIABLES
    \* the shared store
    records,     \* records[id]
    index,       \* index[<<place, id>>]: the ID the entry points to, or NoId
    \* the clients
    job,
    \* observation only: the steps depend on these only through the bounds
    disturbed,   \* IDs moved, created or deleted while another operation on them was
                 \* under way, left half done by a failure, or with a wrong index entry
                 \* to begin with
    steady,      \* steady[c]: IDs at c's place since c's lookup began, all the while with
                 \* their index entry unless the place had no entry at all
    missed,      \* missed[c]: the steady IDs that c's last lookup, short of its limit, left out
    deletes,
    faults

store    == <<records, index>>
observed == <<disturbed, steady, missed, deletes, faults>>
vars     == <<store, job, observed>>

Existing       == {id \in Id : records[id].kind # "absent"}
KeysAt(p)      == {id \in Id : index[<<p, id>>] # NoId}
RecordsAt(p)   == {id \in Id : Readable(records[id]) /\ records[id].place = p}
OnRecord(c, id) == job[c].id = id /\ job[c].pc \in Busy \ {"get", "cas"}

\* At most Limit of the keys a scan would return.
Scans(S, limit) == {T \in SUBSET S : /\ Cardinality(T) <= limit
                                     /\ T # S => Cardinality(T) = limit}

\* The entries of id are exactly the one its record calls for.
IndexedExactly(id) ==
    \A p \in Place : index[<<p, id>>] =
        IF Readable(records[id]) /\ records[id].place = p THEN id ELSE NoId

Init ==
    /\ \E s \in InitialStores : records = s.records /\ index = s.index
    /\ job = [c \in Client |-> IdleJob]
    /\ disturbed = {id \in Id : ~IndexedExactly(id)}
    /\ steady = [c \in Client |-> {}]
    /\ missed = [c \in Client |-> {}]
    /\ deletes = 0
    /\ faults = 0

\* Client c goes on with frame j.
Become(c, j)  == job' = [job EXCEPT ![c] = j]
Continue(c, pc) == Become(c, [job[c] EXCEPT !.pc = pc])
Finish(c)     == Become(c, IdleJob)

\* The lookups under way still owe an id while its record stays where it is
\* and its entry, if it had one, stays too.
KeepSteady == steady' = [c \in Client |->
    {id \in steady[c] :
        LET key == <<job[c].place, id>> IN
        /\ Readable(records'[id])
        /\ records'[id].place = job[c].place
        /\ index[key] = id => index'[key] = id}]

\* Client c writes record id.
WriteRecord(c, id, r) ==
    /\ records' = [records EXCEPT ![id] = r]
    /\ disturbed' = IF /\ r.place # records[id].place
                       /\ \E d \in Client \ {c} : OnRecord(d, id)
                    THEN disturbed \cup {id} ELSE disturbed
    /\ UNCHANGED index
    /\ KeepSteady

WriteIndex(key, target) ==
    /\ index' = [index EXCEPT ![key] = target]
    /\ UNCHANGED <<records, disturbed>>
    /\ KeepSteady

ReadsOnly == UNCHANGED <<store, disturbed, steady>>

-----------------------------------------------------------------------------
(* upsert                                                                  *)

\* A client decides to upsert id: unless id is blind, it states the version
\* it has just read (a malformed record cannot be read).
StartUpsert(c, id, p) ==
    /\ job[c].pc = "idle"
    /\ p \in UpsertPlaces[id]
    /\ records[id].version < MaxVersion
    /\ id \notin Blind => records[id].kind # "malformed"
    /\ Become(c, [IdleJob EXCEPT
            !.pc = IF id \notin Blind /\ HasCas THEN "cas" ELSE "get",
            !.id = id,
            !.place = p,
            !.expected = IF id \in Blind THEN 0 ELSE records[id].version])
    /\ ReadsOnly
    /\ UNCHANGED <<missed, deletes, faults>>

\* Mutant of VersionMatches: a newer record is taken for the one expected.
VersionMatches_Bug(id, expected) == records[id].version >= expected

\* expectedVersion null asks for no value at all, a number for that version.
VersionMatches(id, expected) ==
    IF expected = 0 THEN records[id].kind = "absent"
    ELSE Readable(records[id]) /\ records[id].version = expected

UpsertWithCompareAndSet(c) ==
    LET k == job[c] IN
    /\ k.pc = "cas"
    /\ IF VersionMatches(k.id, k.expected)
       THEN /\ WriteRecord(c, k.id, [kind    |-> "current",
                                     version |-> k.expected + 1,
                                     place   |-> k.place])
            /\ Become(c, [k EXCEPT !.pc = "index", !.seen = records[k.id]])
       ELSE Finish(c) /\ ReadsOnly        \* SelectorRegistryConflictError
    /\ UNCHANGED <<missed, deletes, faults>>

\* upsertWithLegacyStore reads the record, checks the version here ...
ReadExisting(c) ==
    LET k == job[c]
        r == records[k.id]
    IN
    /\ k.pc = "get"
    /\ IF r.kind = "malformed" \/ (k.id \notin Blind /\ r.version # k.expected)
       THEN Finish(c)
       ELSE Become(c, [k EXCEPT !.pc = "set", !.seen = r])
    /\ ReadsOnly
    /\ UNCHANGED <<missed, deletes, faults>>

\* ... and then sets it, whatever it is by now.
SetRecord(c) ==
    LET k == job[c] IN
    /\ k.pc = "set"
    /\ WriteRecord(c, k.id, [kind    |-> "current",
                             version |-> k.seen.version + 1,
                             place   |-> k.place])
    /\ Continue(c, "index")
    /\ UNCHANGED <<missed, deletes, faults>>

\* Mutant of SetIndex: the entry at the old place is forgotten.
SetIndex_Bug(c) ==
    /\ job[c].pc = "index"
    /\ WriteIndex(<<job[c].place, job[c].id>>, job[c].id)
    /\ Finish(c)
    /\ UNCHANGED <<missed, deletes, faults>>

SetIndex(c) ==
    LET k == job[c] IN
    /\ k.pc = "index"
    /\ WriteIndex(<<k.place, k.id>>, k.id)
    /\ IF Readable(k.seen) /\ k.seen.place # k.place
       THEN Continue(c, "unindex")
       ELSE Finish(c)
    /\ UNCHANGED <<missed, deletes, faults>>

DeleteOldIndex(c) ==
    LET k == job[c] IN
    /\ k.pc = "unindex"
    /\ WriteIndex(<<k.seen.place, k.id>>, NoId)
    /\ Finish(c)
    /\ UNCHANGED <<missed, deletes, faults>>

-----------------------------------------------------------------------------
(* delete                                                                  *)

StartDelete(c, id) ==
    /\ job[c].pc = "idle"
    /\ deletes < MaxDeletes
    /\ records[id].kind # "malformed"          \* get throws
    /\ Become(c, [IdleJob EXCEPT !.pc = "del", !.id = id, !.seen = records[id]])
    /\ deletes' = deletes + 1
    /\ ReadsOnly
    /\ UNCHANGED <<missed, faults>>

DeleteRecord(c) ==
    LET k == job[c] IN
    /\ k.pc = "del"
    /\ IF records[k.id].kind # "absent" /\ k.seen.kind # "absent"
       THEN Continue(c, "delindex")
       ELSE Finish(c)
    /\ WriteRecord(c, k.id, Absent)
    /\ UNCHANGED <<missed, deletes, faults>>

DeleteIndex(c) ==
    LET k == job[c] IN
    /\ k.pc = "delindex"
    /\ WriteIndex(<<k.seen.place, k.id>>, NoId)
    /\ Finish(c)
    /\ UNCHANGED <<missed, deletes, faults>>

-----------------------------------------------------------------------------
(* listByPageObjectAndAction                                               *)

\* Mutant of StartLookup: no fallback to the records when nothing is indexed.
StartLookup_Bug(c, p) ==
    /\ job[c].pc = "idle"
    /\ \E keys \in Scans(KeysAt(p), Limit) :
          Become(c, [IdleJob EXCEPT !.pc = "targets", !.place = p, !.keys = keys,
                                    !.full = Cardinality(keys) = Limit])
    /\ steady' = [steady EXCEPT ![c] = {id \in RecordsAt(p) :
                                      KeysAt(p) # {} => index[<<p, id>>] = id}]
    /\ missed' = [missed EXCEPT ![c] = {}]
    /\ UNCHANGED <<store, disturbed, deletes, faults>>

StartLookup(c, p) ==
    /\ job[c].pc = "idle"
    /\ \E keys \in Scans(KeysAt(p), Limit) :
          Become(c, [IdleJob EXCEPT
             !.pc = IF keys = {} THEN "all" ELSE "targets",
             !.place = p,
             !.keys = keys,
             !.full = Cardinality(keys) = Limit])
    /\ steady' = [steady EXCEPT ![c] = {id \in RecordsAt(p) :
                                      KeysAt(p) # {} => index[<<p, id>>] = id}]
    /\ missed' = [missed EXCEPT ![c] = {}]
    /\ UNCHANGED <<store, disturbed, deletes, faults>>

ReadTargets(c) ==
    LET k == job[c] IN
    /\ k.pc = "targets"
    /\ Become(c, [k EXCEPT !.pc = "records",
                           !.keys = {index[<<k.place, id>>] : id \in k.keys} \ {NoId}])
    /\ ReadsOnly
    /\ UNCHANGED <<missed, deletes, faults>>

\* No index key: every record is read instead.
ListAll(c) ==
    /\ job[c].pc = "all"
    /\ Become(c, [job[c] EXCEPT !.pc = "listed", !.keys = Existing])
    /\ ReadsOnly
    /\ UNCHANGED <<missed, deletes, faults>>

\* One malformed record fails the whole lookup.
ReadRecords(c) ==
    LET k  == job[c]
        at == {id \in k.keys : Readable(records[id]) /\ records[id].place = k.place}
    IN
    /\ k.pc \in {"records", "listed"}
    /\ \/ \E id \in k.keys : records[id].kind = "malformed" /\ UNCHANGED missed
       \/ /\ \A id \in k.keys : records[id].kind # "malformed"
          /\ \E found \in Scans(at, Limit) :
                missed' = [missed EXCEPT ![c] =
                    IF k.full \/ found # at THEN {} ELSE steady[c] \ found]
    /\ Finish(c)
    /\ steady' = [steady EXCEPT ![c] = {}]
    /\ UNCHANGED <<store, disturbed, deletes, faults>>

-----------------------------------------------------------------------------

\* The process dies or a store call fails: the operation ends where it is.
Fail(c) ==
    LET k == job[c] IN
    /\ k.pc \in Busy
    /\ faults < MaxFaults
    /\ faults' = faults + 1
    /\ Finish(c)
    /\ disturbed' = IF k.id = NoId THEN disturbed ELSE disturbed \cup {k.id}
    /\ steady' = [steady EXCEPT ![c] = {}]
    /\ UNCHANGED <<store, missed, deletes>>

Start(c) ==
    \/ \E id \in Id, p \in Place : StartUpsert(c, id, p)
    \/ \E id \in Id : StartDelete(c, id)
    \/ \E p \in Place : StartLookup(c, p)

Step(c) ==
    \/ UpsertWithCompareAndSet(c)
    \/ ReadExisting(c)
    \/ SetRecord(c)
    \/ SetIndex(c)
    \/ DeleteOldIndex(c)
    \/ DeleteRecord(c)
    \/ DeleteIndex(c)
    \/ ReadTargets(c)
    \/ ListAll(c)
    \/ ReadRecords(c)

Next == \E c \in Client : Start(c) \/ Step(c) \/ Fail(c)

Spec == Init /\ [][Next]_vars

-----------------------------------------------------------------------------

TypeOK ==
    /\ records \in [Id -> Record]
    /\ index \in Index
    /\ job \in [Client -> Job]
    /\ disturbed \subseteq Id
    /\ steady \in [Client -> SUBSET Id]
    /\ missed \in [Client -> SUBSET Id]
    /\ deletes \in 0 .. MaxDeletes
    /\ faults \in 0 .. MaxFaults

Idle(id) == \A c \in Client : job[c].id # id

(***************************************************************************)
(* When nothing is under way on a selector, its index entries are exactly  *)
(* what its record calls for, however upserts, moves between places and    *)
(* deletes by several clients were interleaved, except where a move or a   *)
(* delete overlapped another operation on the same selector, an operation  *)
(* failed half way, or the entries were wrong to begin with.               *)
(***************************************************************************)
IndexFollowsRecords ==
    \A id \in Id \ disturbed : Idle(id) => IndexedExactly(id)

(***************************************************************************)
(* A lookup by page object and action that stays under its limit returns   *)
(* every selector that had its record and its index entry there all the    *)
(* while, whatever moves, deletes and stale entries it ran into; and where *)
(* nothing is indexed, every selector that had its record there.           *)
(***************************************************************************)
LookupFindsSteady == \A c \in Client : missed[c] = {}

(***************************************************************************)
(* An upsert that states an expectedVersion writes only over a record of   *)
(* that version ("Stale expected-version writes throw                      *)
(* SelectorRegistryConflictError and do not overwrite active records").    *)
(***************************************************************************)
StaleWritesNeverLand ==
    [][\A c \in Client, id \in Id \ Blind :
          /\ job[c].pc \in {"cas", "set"}
          /\ job[c].id = id
          /\ job'[c].pc = "index"
          => records[id].version = job[c].expected]_vars

(***************************************************************************)
(* Of a selector whose writers state the version they read, on a store     *)
(* that compares and sets, the version moves one at a time from the        *)
(* creation of the record to its deletion.                                 *)
(***************************************************************************)
Versions == INSTANCE VersionedRecords WITH
    Id      <- Id \ Blind,
    version <- [id \in Id \ Blind |-> records[id].version]
VersionsAdvanceByOne == Versions!Spec
=============================================================================
