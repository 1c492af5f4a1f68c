---------------------------- MODULE RegistryRepair ----------------------------
(***************************************************************************)
(* The registry repair script run with --apply                             *)
(* (scripts/self-healing-registry-repair.ts) beside the clients of         *)
(* SelectorRegistry: it lists the records, upgrades the legacy ones by     *)
(* compare-and-set, reads them again, lists the index and brings the index *)
(* in line with the records it has read.  Its frame is `repair`; every     *)
(* awaited store call is one action.  The order of its loops, that of the  *)
(* keys, is left open.                                                     *)
(***************************************************************************)
EXTENDS SelectorRegistry

CONSTANT RepairLimits    \* the limits a repair may be run with
ASSUME RepairLimitsAssumption == RepairLimits \subseteq Nat \ {0} /\ RepairLimits # {}

VARIABLES
    repair,
    settled     \* observation: since the repair began no client created, moved or
                \* deleted a record or changed the index

repairVars == <<repair, settled>>

Unparsed == [id \in Id |-> Absent]
NoEntries == [key \in IndexKey |-> NoId]

Repair == [pc : {"idle", "payloads", "upgrade", "verify", "listindex", "entries",
                 "set", "delete", "done"},
           limit    : RepairLimits,
           listed   : SUBSET Id,         \* activeKeys
           truncated : BOOLEAN,          \* some listing was cut at the limit
           activeTruncated : BOOLEAN,    \* activeListing.truncated
           parsed   : [Id -> Record],    \* parsedRecords, Absent if not among them
           verified : [Id -> Record],    \* verifiedRecords
           keys     : SUBSET IndexKey,   \* indexListing
           existing : Index,             \* existingIndexes
           todo     : SUBSET Id,         \* what the loop over records has left
           todoKeys : SUBSET IndexKey]   \* what the loop over entries has left

NotStarted == [pc |-> "idle", limit |-> CHOOSE n \in RepairLimits : TRUE, listed |-> {},
               truncated |-> FALSE, activeTruncated |-> FALSE, parsed |-> Unparsed,
               verified |-> Unparsed, keys |-> {}, existing |-> NoEntries, todo |-> {}, todoKeys |-> {}]

RecordsIn(m) == {id \in Id : m[id].kind # "absent"}
Truncated(S, limit) == Cardinality(S) > limit
EntryKeys    == {key \in IndexKey : index[key] # NoId}

\* expectedIndexes: the entry each verified record calls for.
Expected(r) == {<<r.verified[id].place, id>> : id \in RecordsIn(r.verified)}

\* Mutant of SafeToDelete: a cut listing counts as a complete one.
SafeToDelete_Bug(r, key) ==
    LET target == r.existing[key] IN
    IF target \in RecordsIn(r.verified)
    THEN <<r.verified[target].place, target>> # key
    ELSE target \notin r.listed

\* An entry is stale if its target was read and calls for another entry, or if
\* the listing of the records was complete and the target not in it.
SafeToDelete(r, key) ==
    LET target == r.existing[key] IN
    IF target \in RecordsIn(r.verified)
    THEN <<r.verified[target].place, target>> # key
    ELSE ~r.activeTruncated /\ target \notin r.listed

\* The phases of the repair, each skipped if it has nothing to do.
EnterDelete(r) ==
    LET stale == {key \in r.keys : /\ r.existing[key] # NoId
                                   /\ key \notin Expected(r)
                                   /\ SafeToDelete(r, key)}
    IN [r EXCEPT !.pc = IF stale = {} THEN "done" ELSE "delete", !.todoKeys = stale]
\* Mutant of EnterSet: entries with a wrong target are not set right.
EnterSet_Bug(r) ==
    LET wrong == {key \in Expected(r) : r.existing[key] = NoId} IN
    IF wrong = {} THEN EnterDelete(r) ELSE [r EXCEPT !.pc = "set", !.todoKeys = wrong]

EnterSet(r) ==
    LET wrong == {key \in Expected(r) : r.existing[key] # key[2]} IN
    IF wrong = {} THEN EnterDelete(r) ELSE [r EXCEPT !.pc = "set", !.todoKeys = wrong]
EnterVerify(r) ==
    [r EXCEPT !.pc = IF RecordsIn(r.parsed) = {} THEN "listindex" ELSE "verify",
              !.todo = RecordsIn(r.parsed)]
EnterUpgrade(r) ==
    LET legacy == {id \in Id : r.parsed[id].kind = "legacy"} IN
    IF legacy = {} THEN EnterVerify(r) ELSE [r EXCEPT !.pc = "upgrade", !.todo = legacy]

-----------------------------------------------------------------------------

RepairInit == Init /\ repair = NotStarted /\ settled = FALSE

RepairReads == ReadsOnly /\ UNCHANGED settled

ListRecords ==
    /\ repair.pc = "idle"
    /\ \E limit \in RepairLimits : \E ids \in Scans(Existing, limit) :
          repair' = [NotStarted EXCEPT !.pc = "payloads", !.limit = limit, !.listed = ids,
                                       !.truncated = Truncated(Existing, limit),
                                       !.activeTruncated = Truncated(Existing, limit)]
    /\ settled' = TRUE
    /\ ReadsOnly
    /\ UNCHANGED <<job, missed, deletes, faults>>

\* Absent and malformed records are reported and left out.
LoadRecords ==
    /\ repair.pc = "payloads"
    /\ repair' = EnterUpgrade([repair EXCEPT !.parsed =
          [id \in Id |-> IF id \in repair.listed /\ Readable(records[id])
                         THEN records[id] ELSE Absent]])
    /\ RepairReads
    /\ UNCHANGED <<job, missed, deletes, faults>>

\* Mutant of UpgradeLegacy: the upgraded record is set without comparing versions.
UpgradeLegacy_Bug(id) ==
    LET rest == [repair EXCEPT !.todo = @ \ {id}] IN
    /\ repair.pc = "upgrade"
    /\ id \in repair.todo
    /\ records' = [records EXCEPT ![id] = [repair.parsed[id] EXCEPT !.kind = "current"]]
    /\ UNCHANGED <<index, disturbed>>
    /\ KeepSteady
    /\ repair' = IF rest.todo = {} THEN EnterVerify(rest) ELSE rest
    /\ UNCHANGED <<job, missed, deletes, faults, settled>>

UpgradeLegacy(id) ==
    LET r    == repair.parsed[id]
        rest == [repair EXCEPT !.todo = @ \ {id}]
    IN
    /\ repair.pc = "upgrade"
    /\ id \in repair.todo
    /\ IF VersionMatches(id, r.version)
       THEN /\ records' = [records EXCEPT ![id] = [r EXCEPT !.kind = "current"]]
            /\ UNCHANGED <<index, disturbed>>
            /\ KeepSteady
       ELSE ReadsOnly
    /\ repair' = IF rest.todo = {} THEN EnterVerify(rest) ELSE rest
    /\ UNCHANGED <<job, missed, deletes, faults, settled>>

VerifyRecord(id) ==
    LET rest == [repair EXCEPT !.todo = @ \ {id},
                               !.verified[id] = IF Readable(records[id])
                                                THEN records[id] ELSE Absent]
    IN
    /\ repair.pc = "verify"
    /\ id \in repair.todo
    /\ repair' = IF rest.todo = {} THEN [rest EXCEPT !.pc = "listindex"] ELSE rest
    /\ RepairReads
    /\ UNCHANGED <<job, missed, deletes, faults>>

ListIndex ==
    /\ repair.pc = "listindex"
    /\ \E keys \in Scans(EntryKeys, repair.limit) :
          repair' = [repair EXCEPT !.pc = "entries", !.keys = keys,
                                   !.truncated = @ \/ Truncated(EntryKeys, repair.limit)]
    /\ RepairReads
    /\ UNCHANGED <<job, missed, deletes, faults>>

LoadIndex ==
    /\ repair.pc = "entries"
    /\ repair' = EnterSet([repair EXCEPT !.existing =
          [key \in IndexKey |-> IF key \in repair.keys THEN index[key] ELSE NoId]])
    /\ RepairReads
    /\ UNCHANGED <<job, missed, deletes, faults>>

SetExpectedEntry(key) ==
    LET rest == [repair EXCEPT !.todoKeys = @ \ {key}] IN
    /\ repair.pc = "set"
    /\ key \in repair.todoKeys
    /\ WriteIndex(key, key[2])
    /\ repair' = IF rest.todoKeys = {} THEN EnterDelete(rest) ELSE rest
    /\ UNCHANGED <<job, missed, deletes, faults, settled>>

DeleteStaleEntry(key) ==
    LET rest == [repair EXCEPT !.todoKeys = @ \ {key}] IN
    /\ repair.pc = "delete"
    /\ key \in repair.todoKeys
    /\ WriteIndex(key, NoId)
    /\ repair' = IF rest.todoKeys = {} THEN [rest EXCEPT !.pc = "done"] ELSE rest
    /\ UNCHANGED <<job, missed, deletes, faults, settled>>

\* The repair dies or a store call fails; it may be run again.
RepairFails ==
    /\ repair.pc \notin {"idle", "done"}
    /\ faults < MaxFaults
    /\ faults' = faults + 1
    /\ repair' = NotStarted
    /\ UNCHANGED <<store, job, disturbed, steady, missed, deletes, settled>>

RepairStep ==
    \/ ListRecords
    \/ LoadRecords
    \/ \E id \in Id : UpgradeLegacy(id) \/ VerifyRecord(id)
    \/ ListIndex
    \/ LoadIndex
    \/ \E key \in IndexKey : SetExpectedEntry(key) \/ DeleteStaleEntry(key)

\* A client acts beside the repair, on a registry that is not read anew once the
\* repair is done.
ClientStep ==
    /\ repair.pc # "done"
    /\ Next
    /\ settled' = (/\ settled
                   /\ index' = index
                   /\ \A id \in Id : records'[id].place = records[id].place)
    /\ UNCHANGED repair

RepairNext == RepairStep \/ RepairFails \/ ClientStep

RepairSpec == RepairInit /\ [][RepairNext]_<<vars, repairVars>>

-----------------------------------------------------------------------------

RepairTypeOK ==
    /\ TypeOK
    /\ repair \in Repair
    /\ settled \in BOOLEAN

(***************************************************************************)
(* A repair that no limit cuts short, and beside which clients only update *)
(* records in place, leaves the index exact from any drift and after any   *)
(* repair that died half way: each readable record has its entry, and      *)
(* every other entry that is left points to a record that cannot be read.  *)
(***************************************************************************)
RepairRestores ==
    repair.pc = "done" /\ settled /\ ~repair.truncated =>
        \A p \in Place, id \in Id :
            IF Readable(records[id]) /\ records[id].place = p
            THEN index[<<p, id>>] = id
            ELSE \/ index[<<p, id>>] = NoId
                 \/ records[index[<<p, id>>]].kind = "malformed"

(***************************************************************************)
(* The repair never deletes the entry that the record it points to calls   *)
(* for ("deletes only indexes proven stale from scanned active records").  *)
(***************************************************************************)
Live(key) ==
    /\ index[key] # NoId
    /\ Readable(records[index[key]])
    /\ <<records[index[key]].place, index[key]>> = key

RepairDeletesOnlyStale ==
    [][\A key \in IndexKey :
          repair.pc = "delete" /\ repair' # repair /\ index'[key] = NoId
          => ~Live(key)]_<<vars, repairVars>>

(***************************************************************************)
(* The same of a repair beside which clients only update records in place, *)
(* whatever its limit cuts off.                                            *)
(***************************************************************************)
SettledDeletesOnlyStale ==
    [][\A key \in IndexKey :
          settled /\ repair.pc = "delete" /\ repair' # repair /\ index'[key] = NoId
          => ~Live(key)]_<<vars, repairVars>>

(***************************************************************************)
(* The upgrade of a legacy record replaces the record the repair has read, *)
(* never one written since ("concurrent changes become conflicts instead   *)
(* of overwrites").                                                        *)
(***************************************************************************)
UpgradeReplacesWhatWasRead ==
    [][\A id \in Id :
          repair.pc = "upgrade" /\ repair' # repair /\ records'[id] # records[id]
          => records[id] = repair.parsed[id]]_<<vars, repairVars>>
=============================================================================
