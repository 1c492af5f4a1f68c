------------------------- MODULE RegistryRepair_proofs -------------------------
(***************************************************************************)
(* Proofs about RegistryRepair: a repair beside any number of clients, for *)
(* any selectors, places, limits and bounds.  The clients' steps are those *)
(* of SelectorRegistry, so its type lemmas carry over; what is added is    *)
(* the frame of the repair and what it knows of the store at each phase.   *)
(***************************************************************************)
EXTENDS RegistryRepair, SelectorRegistry_proofs, FiniteSetTheorems

-----------------------------------------------------------------------------
(* The frame of the repair.                                                *)

\* What the repair holds of a record: nothing, or one it could read.
Held(r) == r = Absent \/ (Readable(r) /\ WellFormed(r))

RepairOK(r) ==
    /\ \A id \in Id : Held(r.parsed[id]) /\ Held(r.verified[id])
    /\ r.pc = "upgrade" => \A id \in r.todo : r.parsed[id].kind = "legacy"
    /\ r.pc = "set" => r.todoKeys \subseteq Expected(r)
    /\ r.activeTruncated => r.truncated

\* The entries that EnterDelete leaves to delete.
Stale(r) == {key \in r.keys : /\ r.existing[key] # NoId
                              /\ key \notin Expected(r)
                              /\ SafeToDelete(r, key)}

LEMMA HeldType ==
    ASSUME NEW r \in Record
    PROVE  /\ Held(Absent)
           /\ WellFormed(r) /\ Readable(r) => Held(r)
           /\ Held(r) => (r.kind # "absent" <=> Readable(r)) /\ WellFormed(r)
BY AbsentType DEF Held, Readable, Absent

LEMMA ExpectedType ==
    ASSUME NEW r \in Repair, RepairOK(r)
    PROVE  /\ Expected(r) \subseteq IndexKey
           /\ \A p \in Place, id \in Id :
                 <<p, id>> \in Expected(r) <=> /\ Readable(r.verified[id])
                                               /\ r.verified[id].place = p
<1>1. \A id \in Id : /\ r.verified[id] \in Record
                     /\ id \in RecordsIn(r.verified) <=> Readable(r.verified[id])
                     /\ Readable(r.verified[id]) => r.verified[id].place \in Place
  BY HeldType DEF Repair, RepairOK, RecordsIn, WellFormed
<1>2. RecordsIn(r.verified) \subseteq Id
  BY DEF RecordsIn
<1>. QED BY <1>1, <1>2 DEF Expected, IndexKey

LEMMA NotStartedType == NotStarted \in Repair /\ RepairOK(NotStarted)
<1>1. (CHOOSE n \in RepairLimits : TRUE) \in RepairLimits
  BY RepairLimitsAssumption
<1>2. Unparsed \in [Id -> Record] /\ \A id \in Id : Unparsed[id] = Absent
  BY AbsentType DEF Unparsed
<1>3. NoEntries \in Index
  BY DEF NoEntries, Index, IndexKey
<1>4. NotStarted \in Repair
  BY <1>1, <1>2, <1>3 DEF NotStarted, Repair
<1>. QED BY <1>2, <1>4 DEF NotStarted, RepairOK, Held

\* The phases of the repair lead from one frame to another.
LEMMA EnterDeleteType ==
    ASSUME NEW r \in Repair, RepairOK(r)
    PROVE  /\ EnterDelete(r) \in Repair /\ RepairOK(EnterDelete(r))
           /\ EnterDelete(r) = [r EXCEPT !.pc = IF Stale(r) = {} THEN "done" ELSE "delete",
                                         !.todoKeys = Stale(r)]
           /\ EnterDelete(r).pc \in {"done", "delete"}
<1>1. EnterDelete(r) = [r EXCEPT !.pc = IF Stale(r) = {} THEN "done" ELSE "delete",
                                 !.todoKeys = Stale(r)]
  BY DEF EnterDelete, Stale
<1>2. Stale(r) \subseteq IndexKey
  BY DEF Stale, Repair
<1>. DEFINE pc == IF Stale(r) = {} THEN "done" ELSE "delete"
<1>3. pc \in {"done", "delete"}
  OBVIOUS
<1>. HIDE DEF pc
<1>4. [r EXCEPT !.pc = pc, !.todoKeys = Stale(r)] \in Repair
  BY <1>2, <1>3 DEF Repair
<1>5. RepairOK([r EXCEPT !.pc = pc, !.todoKeys = Stale(r)])
  BY <1>3 DEF RepairOK, Repair
<1>6. [r EXCEPT !.pc = pc, !.todoKeys = Stale(r)].pc = pc
  BY DEF Repair
<1>7. EnterDelete(r) = [r EXCEPT !.pc = pc, !.todoKeys = Stale(r)]
  BY <1>1 DEF pc
<1>. QED BY <1>1, <1>3, <1>4, <1>5, <1>6, <1>7

Wrong(r) == {key \in Expected(r) : r.existing[key] # key[2]}

LEMMA EnterSetType ==
    ASSUME NEW r \in Repair, RepairOK(r)
    PROVE  /\ EnterSet(r) \in Repair /\ RepairOK(EnterSet(r))
           /\ Wrong(r) = {} => EnterSet(r) = EnterDelete(r)
           /\ Wrong(r) # {} => EnterSet(r) = [r EXCEPT !.pc = "set", !.todoKeys = Wrong(r)]
           /\ EnterSet(r).pc \in {"set", "done", "delete"}
<1>1. EnterSet(r) = IF Wrong(r) = {} THEN EnterDelete(r)
                    ELSE [r EXCEPT !.pc = "set", !.todoKeys = Wrong(r)]
  BY DEF EnterSet, Wrong
<1>2. Wrong(r) \subseteq Expected(r) /\ Wrong(r) \subseteq IndexKey
  BY ExpectedType DEF Wrong
<1>. DEFINE q == [r EXCEPT !.pc = "set", !.todoKeys = Wrong(r)]
<1>3. q \in Repair
  BY <1>2 DEF Repair
<1>4. Expected(q) = Expected(r)
  BY DEF Expected, Repair
<1>5. RepairOK(q) /\ q.pc = "set"
  BY <1>2, <1>4 DEF RepairOK, Repair
<1>. HIDE DEF q
<1>6. Wrong(r) # {} => EnterSet(r) = q
  BY <1>1 DEF q
<1>7. Wrong(r) = {} => EnterSet(r) = EnterDelete(r)
  BY <1>1
<1>8. /\ EnterSet(r) \in Repair /\ RepairOK(EnterSet(r))
      /\ EnterSet(r).pc \in {"set", "done", "delete"}
  BY <1>3, <1>5, <1>6, <1>7, EnterDeleteType
<1>. QED BY <1>6, <1>7, <1>8 DEF q

LEMMA EnterVerifyType ==
    ASSUME NEW r \in Repair, RepairOK(r)
    PROVE  /\ EnterVerify(r) \in Repair /\ RepairOK(EnterVerify(r))
           /\ EnterVerify(r) =
                [r EXCEPT !.pc = IF RecordsIn(r.parsed) = {} THEN "listindex" ELSE "verify",
                          !.todo = RecordsIn(r.parsed)]
           /\ EnterVerify(r).pc \in {"listindex", "verify"}
<1>. DEFINE pc == IF RecordsIn(r.parsed) = {} THEN "listindex" ELSE "verify"
<1>1. pc \in {"listindex", "verify"} /\ RecordsIn(r.parsed) \subseteq Id
  BY DEF RecordsIn
<1>. HIDE DEF pc
<1>2. [r EXCEPT !.pc = pc, !.todo = RecordsIn(r.parsed)] \in Repair
  BY <1>1 DEF Repair
<1>3. RepairOK([r EXCEPT !.pc = pc, !.todo = RecordsIn(r.parsed)])
  BY <1>1 DEF RepairOK, Repair
<1>4. [r EXCEPT !.pc = pc, !.todo = RecordsIn(r.parsed)].pc = pc
  BY DEF Repair
<1>5. EnterVerify(r) = [r EXCEPT !.pc = pc, !.todo = RecordsIn(r.parsed)]
  BY DEF EnterVerify, pc
<1>. QED BY <1>1, <1>2, <1>3, <1>4, <1>5 DEF pc

Legacies(r) == {id \in Id : r.parsed[id].kind = "legacy"}

LEMMA EnterUpgradeType ==
    ASSUME NEW r \in Repair, RepairOK(r)
    PROVE  /\ EnterUpgrade(r) \in Repair /\ RepairOK(EnterUpgrade(r))
           /\ Legacies(r) = {} => EnterUpgrade(r) = EnterVerify(r)
           /\ Legacies(r) # {} =>
                EnterUpgrade(r) = [r EXCEPT !.pc = "upgrade", !.todo = Legacies(r)]
<1>1. EnterUpgrade(r) = IF Legacies(r) = {} THEN EnterVerify(r)
                        ELSE [r EXCEPT !.pc = "upgrade", !.todo = Legacies(r)]
  BY DEF EnterUpgrade, Legacies
<1>. DEFINE q == [r EXCEPT !.pc = "upgrade", !.todo = Legacies(r)]
<1>2. q \in Repair
  BY DEF Repair, Legacies
<1>3. RepairOK(q)
  BY DEF RepairOK, Repair, Legacies
<1>. HIDE DEF q
<1>. QED BY <1>1, <1>2, <1>3, EnterVerifyType DEF q

-----------------------------------------------------------------------------
(* Type correctness.                                                       *)

\* What the repair leaves alone, it leaves well formed.
LEMMA StoreKept ==
    ASSUME TypeOK, Shape, RepairReads, UNCHANGED <<job, missed, deletes, faults>>
    PROVE  TypeOK' /\ Shape'
BY ReadsOnlyStep DEF RepairReads, ReadsOnly, store, TypeOK, Shape, FrameOK, WellFormed, Readable

LEMMA ListRecordsTypes ==
    ASSUME RepairTypeOK, Shape, RepairOK(repair), ListRecords
    PROVE  RepairTypeOK' /\ Shape' /\ RepairOK(repair')
<1>1. TypeOK' /\ Shape'
  BY ReadsOnlyStep DEF ListRecords, ReadsOnly, store, RepairTypeOK, TypeOK, Shape, FrameOK,
                       WellFormed, Readable
<1>. DEFINE Began(limit, ids) ==
              repair' = [NotStarted EXCEPT !.pc = "payloads", !.limit = limit, !.listed = ids,
                                           !.truncated = Truncated(Existing, limit),
                                           !.activeTruncated = Truncated(Existing, limit)]
<1>0. PICK limit \in RepairLimits : \E ids \in Scans(Existing, limit) : Began(limit, ids)
  BY DEF ListRecords
<1>2. PICK ids \in Scans(Existing, limit) : Began(limit, ids)
  BY <1>0
<1>3. ids \in SUBSET Id /\ Truncated(Existing, limit) \in BOOLEAN
  BY DEF Scans, Existing, Truncated
<1>4. repair' \in Repair
  BY <1>2, <1>3, NotStartedType DEF Repair
<1>5. RepairOK(repair')
  BY <1>2, NotStartedType DEF Repair, RepairOK
<1>. QED BY <1>1, <1>4, <1>5 DEF ListRecords, RepairTypeOK

LEMMA LoadRecordsTypes ==
    ASSUME RepairTypeOK, Shape, RepairOK(repair), LoadRecords
    PROVE  RepairTypeOK' /\ Shape' /\ RepairOK(repair')
<1>. DEFINE m == [id \in Id |-> IF id \in repair.listed /\ Readable(records[id])
                                THEN records[id] ELSE Absent]
            r == [repair EXCEPT !.parsed = m]
<1>1. m \in [Id -> Record] /\ \A id \in Id : Held(m[id])
  BY AbsentType, HeldType DEF RepairTypeOK, TypeOK, Shape
<1>. HIDE DEF m
<1>2. r \in Repair
  BY <1>1 DEF RepairTypeOK, Repair
<1>3. RepairOK(r)
  BY <1>1 DEF LoadRecords, RepairOK, RepairTypeOK, Repair
<1>4. repair' = EnterUpgrade(r)
  BY DEF LoadRecords, m
<1>5. TypeOK' /\ Shape'
  BY StoreKept DEF LoadRecords, RepairTypeOK
<1>6. settled' \in BOOLEAN
  BY DEF LoadRecords, RepairReads, RepairTypeOK
<1>. HIDE DEF r
<1>. QED BY <1>2, <1>3, <1>4, <1>5, <1>6, EnterUpgradeType DEF RepairTypeOK

\* What the compare-and-set of the repair may do to the records.
LEMMA UpgradeWrites ==
    ASSUME RepairTypeOK, Shape, RepairOK(repair), NEW id \in Id, UpgradeLegacy(id)
    PROVE  LET r == repair.parsed[id]
               w == [r EXCEPT !.kind = "current"]
           IN  /\ r \in Record /\ r.kind = "legacy" /\ r.version > 0 /\ r.place \in Place
               /\ w \in Record /\ Readable(w) /\ WellFormed(w)
               /\ \/ UNCHANGED records
                  \/ /\ Readable(records[id]) /\ records[id].version = r.version
                     /\ records' = [records EXCEPT ![id] = w]
<1>. DEFINE r == repair.parsed[id]
            w == [r EXCEPT !.kind = "current"]
<1>1. r \in Record /\ r.kind = "legacy" /\ Held(r)
  BY DEF UpgradeLegacy, RepairTypeOK, RepairOK, Repair
<1>2. r.version > 0 /\ r.place \in Place
  BY <1>1, HeldType DEF Readable, WellFormed
<1>3. w \in Record /\ Readable(w) /\ WellFormed(w)
  BY <1>1, <1>2 DEF Record, Kind, Readable, WellFormed
<1>4. \/ UNCHANGED records
      \/ VersionMatches(id, r.version) /\ records' = [records EXCEPT ![id] = w]
  BY DEF UpgradeLegacy, ReadsOnly, store
<1>5. VersionMatches(id, r.version) => Readable(records[id]) /\ records[id].version = r.version
  BY <1>2 DEF VersionMatches
<1>. HIDE DEF r, w
<1>6. /\ r \in Record /\ r.kind = "legacy" /\ r.version > 0 /\ r.place \in Place
      /\ w \in Record /\ Readable(w) /\ WellFormed(w)
      /\ \/ UNCHANGED records
         \/ /\ Readable(records[id]) /\ records[id].version = r.version
            /\ records' = [records EXCEPT ![id] = w]
  BY <1>1, <1>2, <1>3, <1>4, <1>5
<1>. QED BY <1>6 DEF r, w

LEMMA UpgradeLegacyTypes ==
    ASSUME RepairTypeOK, Shape, RepairOK(repair), NEW id \in Id, UpgradeLegacy(id)
    PROVE  RepairTypeOK' /\ Shape' /\ RepairOK(repair')
<1>. DEFINE w == [repair.parsed[id] EXCEPT !.kind = "current"]
            q == [repair EXCEPT !.todo = repair.todo \ {id}]
<1>1. /\ w \in Record /\ WellFormed(w)
      /\ UNCHANGED records \/ records' = [records EXCEPT ![id] = w]
  BY UpgradeWrites
<1>. HIDE DEF w
<1>2. records' \in [Id -> Record] /\ \A i \in Id : WellFormed(records'[i])
  BY <1>1 DEF RepairTypeOK, TypeOK, Shape
<1>3. UNCHANGED <<index, disturbed>> /\ steady' \in [Client -> SUBSET Id]
  BY DEF UpgradeLegacy, ReadsOnly, store, KeepSteady, RepairTypeOK, TypeOK
<1>4. UNCHANGED <<job, missed, deletes, faults, settled>>
  BY DEF UpgradeLegacy
<1>5. TypeOK' /\ Shape'
  BY <1>2, <1>3, <1>4 DEF RepairTypeOK, TypeOK, Shape
<1>6. q \in Repair
  BY DEF RepairTypeOK, Repair
<1>7. RepairOK(q)
  BY DEF RepairOK, RepairTypeOK, Repair, UpgradeLegacy
<1>8. repair' = EnterVerify(q) \/ repair' = q
  BY DEF UpgradeLegacy
<1>. HIDE DEF q
<1>. QED BY <1>4, <1>5, <1>6, <1>7, <1>8, EnterVerifyType DEF RepairTypeOK

LEMMA VerifyRecordTypes ==
    ASSUME RepairTypeOK, Shape, RepairOK(repair), NEW id \in Id, VerifyRecord(id)
    PROVE  RepairTypeOK' /\ Shape' /\ RepairOK(repair')
<1>. DEFINE w == IF Readable(records[id]) THEN records[id] ELSE Absent
            m == [repair.verified EXCEPT ![id] = w]
            q == [[repair EXCEPT !.todo = repair.todo \ {id}] EXCEPT !.verified = m]
<1>1. w \in Record /\ Held(w)
  BY AbsentType, HeldType DEF RepairTypeOK, TypeOK, Shape
<1>. HIDE DEF w
<1>2. m \in [Id -> Record] /\ \A i \in Id : Held(m[i])
  BY <1>1 DEF RepairTypeOK, Repair, RepairOK
<1>3. q = [repair EXCEPT !.todo = @ \ {id}, !.verified[id] = w]
  BY DEF RepairTypeOK, Repair
<1>. HIDE DEF m
<1>4. q \in Repair /\ [q EXCEPT !.pc = "listindex"] \in Repair
  BY <1>2 DEF RepairTypeOK, Repair
<1>5. RepairOK(q) /\ RepairOK([q EXCEPT !.pc = "listindex"])
  BY <1>2 DEF RepairOK, RepairTypeOK, Repair, VerifyRecord
<1>6. repair' = [q EXCEPT !.pc = "listindex"] \/ repair' = q
  BY <1>3 DEF VerifyRecord, w
<1>7. TypeOK' /\ Shape' /\ settled' \in BOOLEAN
  BY StoreKept DEF VerifyRecord, RepairTypeOK, RepairReads
<1>. HIDE DEF q
<1>. QED BY <1>4, <1>5, <1>6, <1>7 DEF RepairTypeOK

LEMMA ListIndexTypes ==
    ASSUME RepairTypeOK, Shape, RepairOK(repair), ListIndex
    PROVE  RepairTypeOK' /\ Shape' /\ RepairOK(repair')
<1>1. PICK keys \in Scans(EntryKeys, repair.limit) :
        repair' = [repair EXCEPT !.pc = "entries", !.keys = keys,
                                 !.truncated = @ \/ Truncated(EntryKeys, repair.limit)]
  BY DEF ListIndex
<1>2. keys \in SUBSET IndexKey
  BY DEF Scans, EntryKeys
<1>3. repair' \in Repair
  BY <1>1, <1>2 DEF RepairTypeOK, Repair
<1>4. RepairOK(repair')
  BY <1>1 DEF RepairOK, RepairTypeOK, Repair
<1>5. TypeOK' /\ Shape' /\ settled' \in BOOLEAN
  BY StoreKept DEF ListIndex, RepairTypeOK, RepairReads
<1>. QED BY <1>3, <1>4, <1>5 DEF RepairTypeOK

LEMMA LoadIndexTypes ==
    ASSUME RepairTypeOK, Shape, RepairOK(repair), LoadIndex
    PROVE  RepairTypeOK' /\ Shape' /\ RepairOK(repair')
<1>. DEFINE m == [key \in IndexKey |-> IF key \in repair.keys THEN index[key] ELSE NoId]
            q == [repair EXCEPT !.existing = m]
<1>1. m \in Index
  BY DEF RepairTypeOK, TypeOK, Index
<1>. HIDE DEF m
<1>2. q \in Repair
  BY <1>1 DEF RepairTypeOK, Repair
<1>3. RepairOK(q)
  BY DEF RepairOK, RepairTypeOK, Repair, LoadIndex
<1>4. repair' = EnterSet(q)
  BY DEF LoadIndex, m
<1>5. TypeOK' /\ Shape' /\ settled' \in BOOLEAN
  BY StoreKept DEF LoadIndex, RepairTypeOK, RepairReads
<1>. HIDE DEF q
<1>. QED BY <1>2, <1>3, <1>4, <1>5, EnterSetType DEF RepairTypeOK

LEMMA EntryWritten ==
    ASSUME TypeOK, Shape, NEW key \in IndexKey, NEW t \in {key[2], NoId}, WriteIndex(key, t),
           UNCHANGED <<job, missed, deletes, faults>>
    PROVE  TypeOK' /\ Shape'
<1>1. PICK p \in Place, id \in Id : key = <<p, id>>
  BY DEF IndexKey
<1>2. t \in {id, NoId} /\ WriteIndex(<<p, id>>, t)
  BY <1>1
<1>. QED BY <1>2, WriteIndexStep DEF TypeOK, Shape, FrameOK, WellFormed, Readable

LEMMA SetExpectedEntryTypes ==
    ASSUME RepairTypeOK, Shape, RepairOK(repair), NEW key \in IndexKey, SetExpectedEntry(key)
    PROVE  RepairTypeOK' /\ Shape' /\ RepairOK(repair')
<1>. DEFINE q == [repair EXCEPT !.todoKeys = repair.todoKeys \ {key}]
<1>1. q \in Repair
  BY DEF RepairTypeOK, Repair
<1>2. Expected(q) = Expected(repair)
  BY DEF Expected, RepairTypeOK, Repair
<1>3. RepairOK(q)
  BY <1>2 DEF RepairOK, RepairTypeOK, Repair, SetExpectedEntry
<1>4. repair' = EnterDelete(q) \/ repair' = q
  BY DEF SetExpectedEntry
<1>5. TypeOK' /\ Shape'
  BY EntryWritten DEF SetExpectedEntry, RepairTypeOK
<1>6. settled' \in BOOLEAN
  BY DEF SetExpectedEntry, RepairTypeOK
<1>. HIDE DEF q
<1>. QED BY <1>1, <1>3, <1>4, <1>5, <1>6, EnterDeleteType DEF RepairTypeOK

LEMMA DeleteStaleEntryTypes ==
    ASSUME RepairTypeOK, Shape, RepairOK(repair), NEW key \in IndexKey, DeleteStaleEntry(key)
    PROVE  RepairTypeOK' /\ Shape' /\ RepairOK(repair')
<1>. DEFINE q == [repair EXCEPT !.todoKeys = repair.todoKeys \ {key}]
<1>1. q \in Repair /\ [q EXCEPT !.pc = "done"] \in Repair
  BY DEF RepairTypeOK, Repair
<1>2. RepairOK(q) /\ RepairOK([q EXCEPT !.pc = "done"])
  BY DEF RepairOK, RepairTypeOK, Repair, DeleteStaleEntry
<1>3. repair' = [q EXCEPT !.pc = "done"] \/ repair' = q
  BY DEF DeleteStaleEntry
<1>4. TypeOK' /\ Shape'
  BY EntryWritten DEF DeleteStaleEntry, RepairTypeOK
<1>5. settled' \in BOOLEAN
  BY DEF DeleteStaleEntry, RepairTypeOK
<1>. HIDE DEF q
<1>. QED BY <1>1, <1>2, <1>3, <1>4, <1>5 DEF RepairTypeOK

LEMMA RepairFailsTypes ==
    ASSUME RepairTypeOK, Shape, RepairOK(repair), RepairFails
    PROVE  RepairTypeOK' /\ Shape' /\ RepairOK(repair')
<1>1. UNCHANGED <<records, index, job, disturbed, steady, missed, deletes, settled>>
  BY DEF RepairFails, store
<1>2. faults' \in 0 .. MaxFaults
  BY ConstantsAssumption DEF RepairFails, RepairTypeOK, TypeOK
<1>3. repair' = NotStarted
  BY DEF RepairFails
<1>. QED BY <1>1, <1>2, <1>3, NotStartedType
         DEF RepairTypeOK, TypeOK, Shape, FrameOK, WellFormed, Readable

LEMMA RepairTypeStep ==
    RepairTypeOK /\ Shape /\ RepairOK(repair) /\ [RepairNext]_<<vars, repairVars>>
    => RepairTypeOK' /\ Shape' /\ RepairOK(repair')
<1>. SUFFICES ASSUME RepairTypeOK, Shape, RepairOK(repair), [RepairNext]_<<vars, repairVars>>
              PROVE  RepairTypeOK' /\ Shape' /\ RepairOK(repair')
  OBVIOUS
<1>1. CASE UNCHANGED <<vars, repairVars>>
  BY <1>1 DEF vars, store, observed, repairVars, RepairTypeOK, TypeOK, Shape, FrameOK,
              WellFormed, Readable
<1>2. CASE RepairStep
  BY <1>2, ListRecordsTypes, LoadRecordsTypes, UpgradeLegacyTypes, VerifyRecordTypes,
     ListIndexTypes, LoadIndexTypes, SetExpectedEntryTypes, DeleteStaleEntryTypes DEF RepairStep
<1>3. CASE RepairFails
  BY <1>3, RepairFailsTypes
<1>4. CASE ClientStep
  <2>1. Next /\ repair' = repair
    BY <1>4 DEF ClientStep
  <2>2. TypeOK' /\ Shape'
    BY <2>1, TypeStep DEF RepairTypeOK
  <2>3. settled' \in BOOLEAN
    BY <1>4 DEF ClientStep, RepairTypeOK
  <2>. QED BY <2>1, <2>2, <2>3 DEF RepairTypeOK
<1>. QED BY <1>1, <1>2, <1>3, <1>4 DEF RepairNext

LEMMA RepairInitTypes == RepairInit => RepairTypeOK /\ Shape /\ RepairOK(repair)
BY InitTypes, NotStartedType DEF RepairInit, RepairTypeOK

\* The frame of the repair and the store keep their form beside the clients.
THEOREM RepairInvariance == RepairSpec => [](RepairTypeOK /\ Shape /\ RepairOK(repair))
<1>1. RepairOK(repair)' <=> RepairOK(repair')
  BY DEF RepairOK, Held, Readable, WellFormed, Expected, RecordsIn
<1>. QED BY <1>1, RepairInitTypes, RepairTypeStep, PTL DEF RepairSpec

-----------------------------------------------------------------------------
(* What the clients do to the records.                                     *)

\* A record a client leaves is the one there was, one written over the version
\* compared or the version read before, or none.
Written(id) ==
    \/ records'[id] = records[id]
    \/ records'[id].kind = "current" /\ records'[id].version = records[id].version + 1
    \/ \E c \in Client : /\ job[c].pc = "set" /\ job[c].id = id
                         /\ records'[id].kind = "current"
                         /\ records'[id].version = job[c].seen.version + 1
    \/ \E c \in Client : job[c].pc = "del" /\ job[c].id = id /\ records'[id] = Absent

\* A client comes to set or to delete a record it has just read.
TookUp(c) ==
    /\ UNCHANGED records
    /\ job'[c].pc = "set" => job'[c].seen = records[job'[c].id]
    /\ job'[c].pc = "del" => records[job'[c].id].kind # "malformed" /\ MaxDeletes > 0

LEMMA BecomeJobs ==
    ASSUME TypeOK, NEW c \in Client, NEW k, Become(c, k)
    PROVE  job'[c] = k /\ \A d \in Client \ {c} : job'[d] = job[d]
BY DEF Become, TypeOK

LEMMA ClientWrites ==
    ASSUME TypeOK, Shape, Next
    PROVE  /\ \A id \in Id : Written(id)
           /\ \A c \in Client :
                 job'[c].pc \in {"set", "del"} => job'[c] = job[c] \/ TookUp(c)
<1>. DEFINE A == /\ \A id \in Id : Written(id)
                 /\ \A d \in Client :
                       job'[d].pc \in {"set", "del"} => job'[d] = job[d] \/ TookUp(d)
<1>0. job \in [Client -> Job] /\ \A c \in Client : FrameOK(job[c])
  BY DEF TypeOK, Shape
\* A step that leaves the records alone, and its client with nothing to write.
<1>1. ASSUME NEW c \in Client, NEW k, Become(c, k), k.pc \notin {"set", "del"}, UNCHANGED records
      PROVE  A
  BY <1>1, BecomeJobs DEF Written
<1>2. ASSUME NEW c \in Client, NEW id \in Id, NEW p \in Place, StartUpsert(c, id, p) PROVE A
  <2>. DEFINE k == [IdleJob EXCEPT
            !.pc = IF id \notin Blind /\ HasCas THEN "cas" ELSE "get",
            !.id = id,
            !.place = p,
            !.expected = IF id \in Blind THEN 0 ELSE records[id].version]
  <2>1. k.pc \in {"cas", "get"} /\ Become(c, k) /\ UNCHANGED records
    BY <1>2 DEF StartUpsert, IdleJob, ReadsOnly, store
  <2>. HIDE DEF k
  <2>. QED BY <1>1, <2>1
<1>3. ASSUME NEW c \in Client, NEW id \in Id, StartDelete(c, id) PROVE A
  <2>. DEFINE k == [IdleJob EXCEPT !.pc = "del", !.id = id, !.seen = records[id]]
  <2>1. /\ k.pc = "del" /\ k.id = id /\ Become(c, k) /\ UNCHANGED records
        /\ records[id].kind # "malformed" /\ MaxDeletes > 0
    BY <1>3, ConstantsAssumption DEF StartDelete, IdleJob, ReadsOnly, store, TypeOK
  <2>. HIDE DEF k
  <2>2. job'[c] = k /\ \A d \in Client \ {c} : job'[d] = job[d]
    BY <2>1, BecomeJobs
  <2>. QED BY <2>1, <2>2 DEF TookUp, Written
<1>4. ASSUME NEW c \in Client, NEW p \in Place, StartLookup(c, p) PROVE A
  <2>. DEFINE K(keys) == [IdleJob EXCEPT
             !.pc = IF keys = {} THEN "all" ELSE "targets",
             !.place = p,
             !.keys = keys,
             !.full = Cardinality(keys) = Limit]
  <2>1. PICK keys : Become(c, K(keys))
    BY <1>4 DEF StartLookup
  <2>2. K(keys).pc \in {"all", "targets"} /\ UNCHANGED records
    BY <1>4 DEF StartLookup, IdleJob, store
  <2>. HIDE DEF K
  <2>. QED BY <1>1, <2>1, <2>2
<1>5. ASSUME NEW c \in Client, UpsertWithCompareAndSet(c) PROVE A
  <2>. DEFINE j == job[c]
              r == [kind |-> "current", version |-> j.expected + 1, place |-> j.place]
              k == [j EXCEPT !.pc = "index", !.seen = records[j.id]]
  <2>1. j.id \in Id /\ j.expected \in Nat
    BY <1>0, <1>5 DEF UpsertWithCompareAndSet, FrameOK, Upserting, Job
  <2>2. CASE VersionMatches(j.id, j.expected)
    <3>1. records' = [records EXCEPT ![j.id] = r] /\ Become(c, k)
      BY <1>5, <2>2 DEF UpsertWithCompareAndSet, WriteRecord
    <3>2. records[j.id].version = j.expected
      BY <2>1, <2>2 DEF VersionMatches, Shape, WellFormed
    <3>3. k.pc = "index" /\ r.kind = "current" /\ r.version = j.expected + 1
      BY <1>0 DEF Job
    <3>. HIDE DEF r, k
    <3>4. \A id \in Id : records'[id] = IF id = j.id THEN r ELSE records[id]
      BY <3>1 DEF TypeOK
    <3>5. \A id \in Id : Written(id)
      BY <3>2, <3>3, <3>4 DEF Written
    <3>. QED BY <3>1, <3>3, <3>5, BecomeJobs
  <2>3. CASE ~VersionMatches(j.id, j.expected)
    <3>1. Become(c, IdleJob) /\ UNCHANGED records /\ IdleJob.pc = "idle"
      BY <1>5, <2>3 DEF UpsertWithCompareAndSet, Finish, ReadsOnly, store, IdleJob
    <3>. QED BY <1>1, <3>1
  <2>. QED BY <2>2, <2>3
<1>6. ASSUME NEW c \in Client, ReadExisting(c) PROVE A
  <2>. DEFINE j == job[c]
              k == [j EXCEPT !.pc = "set", !.seen = records[j.id]]
  <2>1. UNCHANGED records /\ IdleJob.pc = "idle"
    BY <1>6 DEF ReadExisting, ReadsOnly, store, IdleJob
  <2>2. k.pc = "set" /\ k.id = j.id /\ k.seen = records[j.id]
    BY <1>0 DEF Job
  <2>3. Become(c, k) \/ Become(c, IdleJob)
    BY <1>6 DEF ReadExisting, Finish
  <2>. HIDE DEF k
  <2>4. CASE Become(c, k)
    <3>1. job'[c] = k /\ \A d \in Client \ {c} : job'[d] = job[d]
      BY <2>4, BecomeJobs
    <3>2. TookUp(c)
      BY <2>1, <2>2, <3>1 DEF TookUp
    <3>. QED BY <2>1, <3>1, <3>2 DEF Written
  <2>. QED BY <1>1, <2>1, <2>3, <2>4
<1>7. ASSUME NEW c \in Client, SetRecord(c) PROVE A
  <2>. DEFINE j == job[c]
              r == [kind |-> "current", version |-> j.seen.version + 1, place |-> j.place]
              k == [j EXCEPT !.pc = "index"]
  <2>1. j.pc = "set" /\ records' = [records EXCEPT ![j.id] = r] /\ Become(c, k)
    BY <1>7 DEF SetRecord, WriteRecord, Continue
  <2>2. r.kind = "current" /\ r.version = j.seen.version + 1 /\ k.pc = "index"
    BY <1>0 DEF Job
  <2>. HIDE DEF r, k
  <2>3. \A id \in Id : records'[id] = IF id = j.id THEN r ELSE records[id]
    BY <2>1 DEF TypeOK
  <2>4. \A id \in Id : Written(id)
    BY <2>1, <2>2, <2>3 DEF Written
  <2>. QED BY <2>1, <2>2, <2>4, BecomeJobs
<1>8. ASSUME NEW c \in Client, DeleteRecord(c) PROVE A
  <2>1. job[c].pc = "del" /\ records' = [records EXCEPT ![job[c].id] = Absent]
    BY <1>8 DEF DeleteRecord, WriteRecord
  <2>2. PICK k : Become(c, k) /\ k.pc \notin {"set", "del"}
    <3>1. [job[c] EXCEPT !.pc = "delindex"].pc = "delindex" /\ IdleJob.pc = "idle"
      BY <1>0 DEF Job, IdleJob
    <3>. QED BY <1>8, <3>1 DEF DeleteRecord, Continue, Finish
  <2>3. \A id \in Id : records'[id] = IF id = job[c].id THEN Absent ELSE records[id]
    BY <2>1 DEF TypeOK
  <2>4. \A id \in Id : Written(id)
    BY <2>1, <2>3 DEF Written
  <2>. QED BY <2>2, <2>4, BecomeJobs
<1>9. ASSUME NEW c \in Client,
             \/ SetIndex(c) \/ DeleteOldIndex(c) \/ DeleteIndex(c) \/ ReadTargets(c)
             \/ ListAll(c) \/ ReadRecords(c) \/ Fail(c)
      PROVE  A
  <2>1. UNCHANGED records
    BY <1>9 DEF SetIndex, DeleteOldIndex, DeleteIndex, WriteIndex, ReadTargets, ListAll, ReadRecords,
                Fail, ReadsOnly, store
  <2>. DEFINE k1 == [job[c] EXCEPT !.pc = "unindex"]
              k2 == [job[c] EXCEPT !.pc = "records",
                      !.keys = {index[<<job[c].place, id>>] : id \in job[c].keys} \ {NoId}]
              k3 == [job[c] EXCEPT !.pc = "listed", !.keys = Existing]
  <2>2. k1.pc = "unindex" /\ k2.pc = "records" /\ k3.pc = "listed" /\ IdleJob.pc = "idle"
    BY <1>0 DEF Job, IdleJob
  <2>3. Become(c, k1) \/ Become(c, k2) \/ Become(c, k3) \/ Become(c, IdleJob)
    BY <1>9 DEF SetIndex, DeleteOldIndex, DeleteIndex, ReadTargets, ListAll, ReadRecords,
                Fail, Continue, Finish
  <2>. HIDE DEF k1, k2, k3
  <2>. QED BY <1>1, <2>1, <2>2, <2>3
<1>. QED
  BY <1>2, <1>3, <1>4, <1>5, <1>6, <1>7, <1>8, <1>9 DEF Next, Start, Step

\* What a client holds of a record it is about to delete or to overwrite: it is
\* not malformed, and while it is legacy it is the one that was read.
JobsInv ==
    \A c \in Client :
        /\ job[c].pc = "del" => records[job[c].id].kind # "malformed" /\ MaxDeletes > 0
        /\ job[c].pc = "set" /\ records[job[c].id].kind = "legacy"
           => job[c].seen = records[job[c].id]

RepairInv == RepairTypeOK /\ Shape /\ RepairOK(repair) /\ JobsInv

\* A step of the repair other than an upgrade writes no record.
LEMMA RepairWrites ==
    ASSUME RepairTypeOK, RepairStep \/ RepairFails
    PROVE  UNCHANGED job /\ (UNCHANGED records \/ \E id \in Id : UpgradeLegacy(id))
<1>1. ASSUME NEW id \in Id, UpgradeLegacy(id) PROVE UNCHANGED job
  BY <1>1 DEF UpgradeLegacy
<1>2. ASSUME \/ ListRecords \/ LoadRecords \/ ListIndex \/ LoadIndex \/ RepairFails
             \/ \E id \in Id : VerifyRecord(id)
             \/ \E key \in IndexKey : SetExpectedEntry(key) \/ DeleteStaleEntry(key)
      PROVE  UNCHANGED <<job, records>>
  BY <1>2 DEF ListRecords, LoadRecords, ListIndex, LoadIndex, RepairFails, VerifyRecord,
              SetExpectedEntry, DeleteStaleEntry, RepairReads, ReadsOnly, store, WriteIndex
<1>. QED BY <1>1, <1>2 DEF RepairStep

LEMMA JobsStep ==
    ASSUME RepairInv, [RepairNext]_<<vars, repairVars>>
    PROVE  JobsInv'
<1>. USE DEF RepairInv
<1>0. \A c \in Client : job[c].pc \in {"set", "del"} => job[c].id \in Id
  BY DEF Shape, FrameOK, Upserting, Deleting
<1>1. CASE UNCHANGED <<job, records>>
  BY <1>1 DEF JobsInv
<1>2. ASSUME NEW id \in Id, UpgradeLegacy(id), UNCHANGED job PROVE JobsInv'
  <2>. DEFINE w == [repair.parsed[id] EXCEPT !.kind = "current"]
  <2>1. \/ UNCHANGED records
        \/ records' = [records EXCEPT ![id] = w]
    BY <1>2, UpgradeWrites
  <2>2. w.kind = "current"
    BY DEF RepairTypeOK, Repair, Record
  <2>. HIDE DEF w
  <2>3. \A i \in Id : records'[i] = records[i] \/ records'[i].kind = "current"
    BY <2>1, <2>2 DEF RepairTypeOK, TypeOK
  <2>. QED BY <1>0, <1>2, <2>3 DEF JobsInv
<1>3. CASE RepairStep \/ RepairFails
  BY <1>1, <1>2, <1>3, RepairWrites
<1>4. CASE ClientStep
  <2>1. /\ \A id \in Id : Written(id)
        /\ \A c \in Client :
              job'[c].pc \in {"set", "del"} => job'[c] = job[c] \/ TookUp(c)
    BY <1>4, ClientWrites DEF ClientStep, RepairTypeOK
  <2>2. \A id \in Id : \/ records'[id] = records[id]
                       \/ records'[id].kind \in {"current", "absent"}
    BY <2>1 DEF Written, Absent
  <2>. SUFFICES ASSUME NEW c \in Client
                PROVE  /\ job'[c].pc = "del" => records'[job'[c].id].kind # "malformed" /\ MaxDeletes > 0
                       /\ job'[c].pc = "set" /\ records'[job'[c].id].kind = "legacy"
                          => job'[c].seen = records'[job'[c].id]
    BY DEF JobsInv
  <2>3. CASE job'[c] = job[c]
    BY <1>0, <2>2, <2>3 DEF JobsInv
  <2>4. CASE TookUp(c)
    BY <2>4 DEF TookUp
  <2>. QED BY <2>1, <2>3, <2>4
<1>5. CASE UNCHANGED <<vars, repairVars>>
  BY <1>1, <1>5 DEF vars, store
<1>. QED BY <1>3, <1>4, <1>5 DEF RepairNext

LEMMA RepairInvInit == RepairInit => RepairInv
BY RepairInitTypes DEF RepairInit, Init, IdleJob, RepairInv, JobsInv

LEMMA RepairInvStep == RepairInv /\ [RepairNext]_<<vars, repairVars>> => RepairInv'
<1>1. RepairOK(repair)' <=> RepairOK(repair')
  BY DEF RepairOK, Held, Readable, WellFormed, Expected, RecordsIn
<1>. QED BY <1>1, RepairTypeStep, JobsStep DEF RepairInv

-----------------------------------------------------------------------------
(* The upgrade of legacy records.                                          *)

\* What the repair has still to upgrade is as it was read, or of a later version,
\* and no client is about to write back an earlier one.
UpgradeInv ==
    repair.pc = "upgrade" =>
        \A id \in repair.todo :
            /\ records[id] = repair.parsed[id] \/ records[id].version > repair.parsed[id].version
            /\ \A c \in Client : job[c].pc = "set" /\ job[c].id = id
                                 => job[c].seen.version >= repair.parsed[id].version

LEMMA UpgradeStep ==
    ASSUME MaxDeletes = 0, RepairInv, UpgradeInv, [RepairNext]_<<vars, repairVars>>
    PROVE  UpgradeInv'
<1>. USE DEF RepairInv
<1>0. /\ \A id \in Id : /\ records[id] \in Record /\ repair.parsed[id] \in Record
                        /\ records[id].version \in Nat /\ repair.parsed[id].version \in Nat
      /\ \A c \in Client : job[c].seen \in Record /\ job[c].seen.version \in Nat
      /\ repair.todo \subseteq Id
  BY DEF RepairTypeOK, TypeOK, Repair, Job, Record
<1>1. CASE UNCHANGED <<records, repair, job>>
  BY <1>1 DEF UpgradeInv
<1>2. CASE repair'.pc # "upgrade"
  BY <1>2 DEF UpgradeInv
<1>3. ASSUME ListRecords \/ ListIndex \/ LoadIndex \/ RepairFails PROVE repair'.pc # "upgrade"
  <2>1. CASE ListRecords
    BY <2>1 DEF ListRecords, NotStarted
  <2>2. CASE ListIndex
    BY <2>2 DEF ListIndex, RepairTypeOK, Repair
  <2>3. CASE RepairFails
    BY <2>3 DEF RepairFails, NotStarted
  <2>4. CASE LoadIndex
    <3>. DEFINE q == [repair EXCEPT !.existing =
          [key \in IndexKey |-> IF key \in repair.keys THEN index[key] ELSE NoId]]
    <3>1. q \in Repair
      BY DEF RepairTypeOK, TypeOK, Index, Repair
    <3>2. RepairOK(q)
      BY <2>4 DEF LoadIndex, RepairOK, RepairTypeOK, Repair
    <3>3. repair' = EnterSet(q)
      BY <2>4 DEF LoadIndex
    <3>. HIDE DEF q
    <3>. QED BY <3>1, <3>2, <3>3, EnterSetType
  <2>. QED BY <1>3, <2>1, <2>2, <2>3, <2>4
<1>4. ASSUME NEW id \in Id, VerifyRecord(id) PROVE repair'.pc # "upgrade"
  BY <1>4 DEF VerifyRecord, RepairTypeOK, Repair
<1>5. ASSUME NEW key \in IndexKey, SetExpectedEntry(key) \/ DeleteStaleEntry(key)
      PROVE  repair'.pc # "upgrade"
  <2>. DEFINE q == [repair EXCEPT !.todoKeys = repair.todoKeys \ {key}]
  <2>1. q \in Repair /\ q.pc = repair.pc /\ [q EXCEPT !.pc = "done"].pc = "done"
    BY DEF RepairTypeOK, Repair
  <2>2. RepairOK(q)
    <3>1. Expected(q) = Expected(repair)
      BY DEF Expected, RepairTypeOK, Repair
    <3>. QED BY <1>5, <3>1 DEF RepairOK, RepairTypeOK, Repair, SetExpectedEntry, DeleteStaleEntry
  <2>3. repair' = q \/ repair' = EnterDelete(q) \/ repair' = [q EXCEPT !.pc = "done"]
    BY <1>5 DEF SetExpectedEntry, DeleteStaleEntry
  <2>4. repair.pc # "upgrade"
    BY <1>5 DEF SetExpectedEntry, DeleteStaleEntry
  <2>. HIDE DEF q
  <2>. QED BY <2>1, <2>2, <2>3, <2>4, EnterDeleteType
<1>6. CASE LoadRecords
  <2>. DEFINE m == [id \in Id |-> IF id \in repair.listed /\ Readable(records[id])
                                  THEN records[id] ELSE Absent]
              r == [repair EXCEPT !.parsed = m]
  <2>1. m \in [Id -> Record] /\ \A id \in Id : Held(m[id])
    BY AbsentType, HeldType DEF RepairTypeOK, TypeOK, Shape
  <2>2. \A id \in Id : m[id].kind = "legacy" => m[id] = records[id]
    BY DEF Absent
  <2>. HIDE DEF m
  <2>3. r \in Repair /\ r.parsed = m
    BY <2>1 DEF RepairTypeOK, Repair
  <2>4. RepairOK(r)
    BY <1>6, <2>1 DEF LoadRecords, RepairOK, RepairTypeOK, Repair
  <2>5. repair' = EnterUpgrade(r) /\ UNCHANGED <<records, job>>
    BY <1>6 DEF LoadRecords, m, RepairReads, ReadsOnly, store
  <2>. HIDE DEF r
  <2>6. CASE Legacies(r) = {}
    <3>1. repair'.pc # "upgrade"
      BY <2>3, <2>4, <2>5, <2>6, EnterUpgradeType, EnterVerifyType
    <3>. QED BY <1>2, <3>1
  <2>7. CASE Legacies(r) # {}
    <3>1. repair' = [r EXCEPT !.pc = "upgrade", !.todo = Legacies(r)]
      BY <2>3, <2>4, <2>5, <2>7, EnterUpgradeType
    <3>2. repair'.todo = Legacies(r) /\ repair'.parsed = m
      BY <2>3, <3>1 DEF Repair
    <3>3. \A id \in Legacies(r) : m[id] = records[id] /\ records[id].kind = "legacy"
      BY <2>2, <2>3 DEF Legacies
    <3>. QED BY <1>0, <2>5, <3>2, <3>3 DEF UpgradeInv, JobsInv, Legacies
  <2>. QED BY <2>6, <2>7
<1>7. ASSUME NEW id \in Id, UpgradeLegacy(id) PROVE UpgradeInv'
  <2>. DEFINE q == [repair EXCEPT !.todo = repair.todo \ {id}]
              w == [repair.parsed[id] EXCEPT !.kind = "current"]
  <2>1. q \in Repair /\ q.todo = repair.todo \ {id} /\ q.parsed = repair.parsed
    BY DEF RepairTypeOK, Repair
  <2>2. RepairOK(q)
    BY <1>7 DEF RepairOK, RepairTypeOK, Repair, UpgradeLegacy
  <2>3. repair' = EnterVerify(q) \/ repair' = q
    BY <1>7 DEF UpgradeLegacy
  <2>4. UNCHANGED records \/ records' = [records EXCEPT ![id] = w]
    BY <1>7, UpgradeWrites
  <2>5. UNCHANGED job /\ repair.pc = "upgrade"
    BY <1>7 DEF UpgradeLegacy
  <2>. HIDE DEF q, w
  <2>6. CASE repair' = q
    <3>1. \A i \in Id \ {id} : records'[i] = records[i]
      BY <2>4 DEF RepairTypeOK, TypeOK
    <3>. QED BY <1>0, <2>1, <2>5, <2>6, <3>1 DEF UpgradeInv
  <2>7. CASE repair' = EnterVerify(q)
    <3>1. repair'.pc # "upgrade"
      BY <2>1, <2>2, <2>7, EnterVerifyType
    <3>. QED BY <1>2, <3>1
  <2>. QED BY <2>3, <2>6, <2>7
<1>8. CASE ClientStep
  <2>1. /\ \A id \in Id : Written(id)
        /\ \A c \in Client :
              job'[c].pc \in {"set", "del"} => job'[c] = job[c] \/ TookUp(c)
        /\ repair' = repair
    BY <1>8, ClientWrites DEF ClientStep, RepairTypeOK
  <2>. SUFFICES ASSUME repair.pc = "upgrade", NEW id \in repair.todo
                PROVE  /\ \/ records'[id] = repair.parsed[id]
                          \/ records'[id].version > repair.parsed[id].version
                       /\ \A c \in Client : job'[c].pc = "set" /\ job'[c].id = id
                             => job'[c].seen.version >= repair.parsed[id].version
    BY <2>1 DEF UpgradeInv
  <2>2. id \in Id /\ \A c \in Client : job[c].pc # "del"
    BY <1>0 DEF JobsInv
  <2>3. \/ records'[id] = records[id]
        \/ records'[id].version = records[id].version + 1
        \/ \E c \in Client : /\ job[c].pc = "set" /\ job[c].id = id
                             /\ records'[id].version = job[c].seen.version + 1
    BY <2>1, <2>2 DEF Written
  <2>4. records[id] = repair.parsed[id] \/ records[id].version > repair.parsed[id].version
    BY DEF UpgradeInv
  <2>5. records'[id] = repair.parsed[id] \/ records'[id].version > repair.parsed[id].version
    <3>1. CASE records'[id] = records[id]
      BY <2>4, <3>1
    <3>2. CASE records'[id].version = records[id].version + 1
      BY <1>0, <2>2, <2>4, <3>2
    <3>3. ASSUME NEW c \in Client, job[c].pc = "set", job[c].id = id,
                 records'[id].version = job[c].seen.version + 1
          PROVE  records'[id].version > repair.parsed[id].version
      <4>1. job[c].seen.version >= repair.parsed[id].version
        BY <3>3 DEF UpgradeInv
      <4>. QED BY <1>0, <2>2, <3>3, <4>1
    <3>. QED BY <2>3, <3>1, <3>2, <3>3
  <2>6. ASSUME NEW c \in Client, job'[c].pc = "set", job'[c].id = id
        PROVE  job'[c].seen.version >= repair.parsed[id].version
    <3>1. CASE job'[c] = job[c]
      BY <2>6, <3>1 DEF UpgradeInv
    <3>2. CASE TookUp(c)
      <4>1. job'[c].seen = records[id]
        BY <2>6, <3>2 DEF TookUp
      <4>. QED BY <1>0, <2>2, <2>4, <4>1
    <3>. QED BY <2>1, <2>6, <3>1, <3>2
  <2>. QED BY <2>5, <2>6
<1>9. CASE UNCHANGED <<vars, repairVars>>
  BY <1>1, <1>9 DEF vars, store, repairVars
<1>. QED
  BY <1>2, <1>3, <1>4, <1>5, <1>6, <1>7, <1>8, <1>9 DEF RepairNext, RepairStep

LEMMA UpgradeSafe ==
    ASSUME RepairInv, UpgradeInv, [RepairNext]_<<vars, repairVars>>
    PROVE  \A id \in Id :
              repair.pc = "upgrade" /\ repair' # repair /\ records'[id] # records[id]
              => records[id] = repair.parsed[id]
<1>. USE DEF RepairInv
<1>. SUFFICES ASSUME NEW id \in Id, repair.pc = "upgrade", repair' # repair,
                     records'[id] # records[id]
              PROVE  records[id] = repair.parsed[id]
  OBVIOUS
<1>1. PICK i \in Id : UpgradeLegacy(i)
  BY RepairWrites DEF RepairNext, ClientStep, vars, store, repairVars
<1>2. /\ Readable(records[i]) /\ records[i].version = repair.parsed[i].version
      /\ records' = [records EXCEPT ![i] = [repair.parsed[i] EXCEPT !.kind = "current"]]
  BY <1>1, UpgradeWrites
<1>3. i = id /\ i \in repair.todo
  BY <1>1, <1>2 DEF RepairTypeOK, TypeOK, UpgradeLegacy
<1>4. records[id].version \in Nat
  BY DEF RepairTypeOK, TypeOK, Record
<1>. QED BY <1>2, <1>3, <1>4 DEF UpgradeInv

\* Where no client deletes a record (a record created anew starts again at
\* version 1), the upgrade replaces only the record the repair has read.
THEOREM UpgradesReplaceWhatWasRead ==
    ASSUME MaxDeletes = 0
    PROVE  RepairSpec => UpgradeReplacesWhatWasRead
<1>1. RepairInit => RepairInv /\ UpgradeInv
  BY RepairInvInit DEF RepairInit, NotStarted, UpgradeInv
<1>2. RepairInv /\ UpgradeInv /\ [RepairNext]_<<vars, repairVars>> => RepairInv' /\ UpgradeInv'
  BY RepairInvStep, UpgradeStep
<1>3. RepairInv /\ UpgradeInv /\ [RepairNext]_<<vars, repairVars>>
      => [\A id \in Id :
             repair.pc = "upgrade" /\ repair' # repair /\ records'[id] # records[id]
             => records[id] = repair.parsed[id]]_<<vars, repairVars>>
  BY UpgradeSafe
<1>. QED BY <1>1, <1>2, <1>3, PTL DEF RepairSpec, UpgradeReplacesWhatWasRead

-----------------------------------------------------------------------------
(* What the repair knows of the store, phase by phase, while it is settled. *)
(* `recs` and `idx` stand for the records and the index.                    *)

\* What was read of a record still tells its place.
Kept(r, now) == Readable(r) => Readable(now) /\ now.place = r.place

ExistingIn(recs) == {id \in Id : recs[id].kind # "absent"}
EntriesIn(idx)   == {key \in IndexKey : idx[key] # NoId}

Base(r, recs) ==
    /\ ~r.activeTruncated => r.listed = ExistingIn(recs)
    /\ \A id \in Id : Kept(r.parsed[id], recs[id]) /\ Kept(r.verified[id], recs[id])
ReadAll(r, recs) ==
    ~r.activeTruncated => \A id \in Id : Readable(recs[id]) => Readable(r.parsed[id])
VerifiedAll(r, S) == \A id \in Id \ S : Readable(r.parsed[id]) => Readable(r.verified[id])

AfterVerify == {"listindex", "entries", "set", "delete", "done"}
AfterLoad   == {"upgrade", "verify"} \cup AfterVerify

Learned(r, recs) ==
    /\ r.pc # "idle" => Base(r, recs)
    /\ r.pc \in AfterLoad => ReadAll(r, recs)
    /\ r.pc = "verify" => VerifiedAll(r, r.todo)
    /\ r.pc \in AfterVerify => VerifiedAll(r, {})

\* The entries the repair has seen: all of them if no listing was cut.
Known(r, key) == key \in r.keys \/ ~r.truncated

IndexKnown(r, idx) ==
    /\ r.pc = "entries" /\ ~r.truncated => r.keys = EntriesIn(idx)
    /\ r.pc \in {"set", "delete", "done"} =>
          \A key \in IndexKey : r.existing[key] # NoId => key \in r.keys
    /\ r.pc = "set" => \A key \in IndexKey : Known(r, key) =>
          idx[key] = IF key \in Expected(r) \ r.todoKeys THEN key[2] ELSE r.existing[key]
    /\ r.pc \in {"delete", "done"} => \A key \in IndexKey : Known(r, key) =>
          idx[key] = IF key \in Expected(r) THEN key[2]
                     ELSE IF key \in Stale(r) \ r.todoKeys THEN NoId ELSE r.existing[key]
    /\ r.pc = "delete" => r.todoKeys \subseteq Stale(r)
    /\ r.pc = "done" => r.todoKeys = {}

SettledInv == settled => Learned(repair, records) /\ IndexKnown(repair, index)

LEMMA SettledPrime == SettledInv' <=> (settled' => Learned(repair', records') /\ IndexKnown(repair', index'))
BY DEF SettledInv, Learned, IndexKnown, Base, ReadAll, VerifiedAll, Kept, Readable, Known, Stale,
       Expected, RecordsIn, SafeToDelete, ExistingIn, EntriesIn

\* A listing that is not cut is complete.
LEMMA ScansAll ==
    ASSUME NEW S, IsFiniteSet(S), NEW limit \in Nat, NEW T \in Scans(S, limit), ~Truncated(S, limit)
    PROVE  T = S
<1>1. T \in SUBSET S /\ (T # S => Cardinality(T) = limit) /\ Cardinality(S) <= limit
  BY FS_CardinalityType DEF Scans, Truncated
<1>2. Cardinality(T) <= Cardinality(S) /\ (Cardinality(S) = Cardinality(T) => S = T)
  BY <1>1, FS_Subset
<1>3. Cardinality(T) \in Nat /\ Cardinality(S) \in Nat
  BY <1>1, FS_Subset, FS_CardinalityType
<1>. QED BY <1>1, <1>2, <1>3

\* Records that stay where they are leave true what was learned of them.
SameShape(recs, now) ==
    \A id \in Id : /\ Readable(recs[id]) <=> Readable(now[id])
                   /\ Readable(recs[id]) => now[id].place = recs[id].place
                   /\ recs[id].kind = "absent" <=> now[id].kind = "absent"

LEMMA LearnedStays ==
    ASSUME NEW r, NEW recs, NEW now, SameShape(recs, now), Learned(r, recs)
    PROVE  Learned(r, now)
<1>1. ExistingIn(recs) = ExistingIn(now)
  BY DEF SameShape, ExistingIn
<1>2. Base(r, recs) => Base(r, now)
  BY <1>1 DEF SameShape, Base, Kept
<1>3. ReadAll(r, recs) => ReadAll(r, now)
  BY DEF SameShape, ReadAll
<1>. QED BY <1>2, <1>3 DEF Learned

\* The fields that Stale and Expected look at.
LEMMA SameStale ==
    ASSUME NEW r, NEW q, q.keys = r.keys, q.existing = r.existing, q.verified = r.verified,
           q.listed = r.listed, q.activeTruncated = r.activeTruncated, q.truncated = r.truncated
    PROVE  /\ Stale(q) = Stale(r) /\ Expected(q) = Expected(r)
           /\ \A key : Known(q, key) <=> Known(r, key)
BY DEF Stale, Expected, SafeToDelete, RecordsIn, Known

LEMMA SameBase ==
    ASSUME NEW r, NEW q, NEW recs, q.verified = r.verified, q.parsed = r.parsed,
           q.listed = r.listed, q.activeTruncated = r.activeTruncated
    PROVE  /\ Base(q, recs) <=> Base(r, recs)
           /\ ReadAll(q, recs) <=> ReadAll(r, recs)
           /\ \A S : VerifiedAll(q, S) <=> VerifiedAll(r, S)
BY DEF Base, ReadAll, VerifiedAll

\* What is known as each phase begins.
LEMMA EnterDeleteKnows ==
    ASSUME NEW r \in Repair, RepairOK(r), NEW recs, NEW idx,
           Base(r, recs), ReadAll(r, recs), VerifiedAll(r, {}),
           \A key \in IndexKey : r.existing[key] # NoId => key \in r.keys,
           \A key \in IndexKey : Known(r, key) =>
              idx[key] = IF key \in Expected(r) THEN key[2] ELSE r.existing[key]
    PROVE  Learned(EnterDelete(r), recs) /\ IndexKnown(EnterDelete(r), idx)
<1>. DEFINE q == EnterDelete(r)
            pc == IF Stale(r) = {} THEN "done" ELSE "delete"
<1>1. q = [r EXCEPT !.pc = pc, !.todoKeys = Stale(r)] /\ pc \in {"done", "delete"}
  BY EnterDeleteType
<1>. HIDE DEF q, pc
<1>2. /\ q.pc = pc /\ q.todoKeys = Stale(r) /\ q.keys = r.keys /\ q.existing = r.existing
      /\ q.verified = r.verified /\ q.parsed = r.parsed /\ q.listed = r.listed
      /\ q.activeTruncated = r.activeTruncated /\ q.truncated = r.truncated
  BY <1>1 DEF Repair
<1>3. /\ Stale(q) = Stale(r) /\ Expected(q) = Expected(r)
      /\ \A key : Known(q, key) <=> Known(r, key)
  BY <1>2, SameStale
<1>4. Base(q, recs) /\ ReadAll(q, recs) /\ VerifiedAll(q, {})
  BY <1>2, SameBase
<1>5. Learned(q, recs)
  BY <1>1, <1>2, <1>4 DEF Learned
<1>6. pc = "done" => Stale(r) = {}
  BY DEF pc
<1>7. IndexKnown(q, idx)
  BY <1>1, <1>2, <1>3, <1>6 DEF IndexKnown
<1>. QED BY <1>5, <1>7 DEF q

LEMMA EnterSetKnows ==
    ASSUME NEW r \in Repair, RepairOK(r), NEW recs, NEW idx,
           Base(r, recs), ReadAll(r, recs), VerifiedAll(r, {}),
           \A key \in IndexKey : r.existing[key] # NoId => key \in r.keys,
           \A key \in IndexKey : Known(r, key) => idx[key] = r.existing[key]
    PROVE  Learned(EnterSet(r), recs) /\ IndexKnown(EnterSet(r), idx)
<1>1. CASE Wrong(r) = {}
  <2>1. EnterSet(r) = EnterDelete(r)
    BY <1>1, EnterSetType
  <2>2. \A key \in Expected(r) : r.existing[key] = key[2]
    BY <1>1 DEF Wrong
  <2>. QED BY <2>1, <2>2, EnterDeleteKnows
<1>2. CASE Wrong(r) # {}
  <2>. DEFINE q == EnterSet(r)
  <2>1. q = [r EXCEPT !.pc = "set", !.todoKeys = Wrong(r)]
    BY <1>2, EnterSetType
  <2>. HIDE DEF q
  <2>2. /\ q.pc = "set" /\ q.todoKeys = Wrong(r) /\ q.keys = r.keys /\ q.existing = r.existing
        /\ q.verified = r.verified /\ q.parsed = r.parsed /\ q.listed = r.listed
        /\ q.activeTruncated = r.activeTruncated /\ q.truncated = r.truncated
    BY <2>1 DEF Repair
  <2>3. /\ Expected(q) = Expected(r)
        /\ \A key : Known(q, key) <=> Known(r, key)
    BY <2>2, SameStale
  <2>4. Base(q, recs) /\ ReadAll(q, recs) /\ VerifiedAll(q, {})
    BY <2>2, SameBase
  <2>5. Learned(q, recs)
    BY <2>2, <2>4 DEF Learned, AfterLoad, AfterVerify
  <2>6. \A key \in Expected(r) \ Wrong(r) : r.existing[key] = key[2]
    BY DEF Wrong
  <2>7. IndexKnown(q, idx)
    BY <2>2, <2>3, <2>6 DEF IndexKnown
  <2>. QED BY <2>5, <2>7 DEF q
<1>. QED BY <1>1, <1>2

LEMMA EnterVerifyKnows ==
    ASSUME NEW r \in Repair, RepairOK(r), NEW recs, NEW idx, Base(r, recs), ReadAll(r, recs)
    PROVE  Learned(EnterVerify(r), recs) /\ IndexKnown(EnterVerify(r), idx)
<1>. DEFINE q == EnterVerify(r)
            pc == IF RecordsIn(r.parsed) = {} THEN "listindex" ELSE "verify"
<1>1. q = [r EXCEPT !.pc = pc, !.todo = RecordsIn(r.parsed)] /\ pc \in {"listindex", "verify"}
  BY EnterVerifyType
<1>2. pc = "listindex" => RecordsIn(r.parsed) = {}
  OBVIOUS
<1>. HIDE DEF q, pc
<1>3. /\ q.pc = pc /\ q.todo = RecordsIn(r.parsed) /\ q.verified = r.verified /\ q.parsed = r.parsed
      /\ q.listed = r.listed /\ q.activeTruncated = r.activeTruncated
  BY <1>1 DEF Repair
<1>4. Base(q, recs) /\ ReadAll(q, recs)
  BY <1>3, SameBase
<1>5. VerifiedAll(q, RecordsIn(r.parsed))
  <2>1. \A id \in Id : Readable(r.parsed[id]) => id \in RecordsIn(r.parsed)
    BY DEF RecordsIn, Readable
  <2>. QED BY <1>3, <2>1 DEF VerifiedAll
<1>6. Learned(q, recs) /\ IndexKnown(q, idx)
  BY <1>1, <1>2, <1>3, <1>4, <1>5 DEF Learned, AfterVerify, IndexKnown
<1>. QED BY <1>6 DEF q

LEMMA EnterUpgradeKnows ==
    ASSUME NEW r \in Repair, RepairOK(r), NEW recs, NEW idx, Base(r, recs), ReadAll(r, recs)
    PROVE  Learned(EnterUpgrade(r), recs) /\ IndexKnown(EnterUpgrade(r), idx)
<1>1. CASE Legacies(r) = {}
  BY <1>1, EnterUpgradeType, EnterVerifyKnows
<1>2. CASE Legacies(r) # {}
  <2>. DEFINE q == EnterUpgrade(r)
  <2>1. q = [r EXCEPT !.pc = "upgrade", !.todo = Legacies(r)]
    BY <1>2, EnterUpgradeType
  <2>. HIDE DEF q
  <2>2. /\ q.pc = "upgrade" /\ q.verified = r.verified /\ q.parsed = r.parsed
        /\ q.listed = r.listed /\ q.activeTruncated = r.activeTruncated
    BY <2>1 DEF Repair
  <2>3. Base(q, recs) /\ ReadAll(q, recs)
    BY <2>2, SameBase
  <2>4. Learned(q, recs) /\ IndexKnown(q, idx)
    BY <2>2, <2>3 DEF Learned, AfterVerify, IndexKnown
  <2>. QED BY <2>4 DEF q
<1>. QED BY <1>1, <1>2

-----------------------------------------------------------------------------
(* The steps of a settled repair.                                          *)

\* The repair of a settled registry, about to step: what the lemmas below assume.
Ready == RepairInv /\ SettledInv

LEMMA ReadsKeepShape == ASSUME RepairReads PROVE records' = records /\ index' = index /\ settled' = settled
BY DEF RepairReads, ReadsOnly, store

LEMMA ListRecordsKnows ==
    ASSUME IsFiniteSet(Id), Ready, ListRecords
    PROVE  Learned(repair', records') /\ IndexKnown(repair', index')
<1>. DEFINE Began(limit, ids) ==
              repair' = [NotStarted EXCEPT !.pc = "payloads", !.limit = limit, !.listed = ids,
                                           !.truncated = Truncated(Existing, limit),
                                           !.activeTruncated = Truncated(Existing, limit)]
<1>1. PICK limit \in RepairLimits : \E ids \in Scans(Existing, limit) : Began(limit, ids)
  BY DEF ListRecords
<1>2. PICK ids \in Scans(Existing, limit) : Began(limit, ids)
  BY <1>1
<1>3. ~Truncated(Existing, limit) => ids = Existing
  <2>1. IsFiniteSet(Existing)
    BY FS_Subset DEF Existing
  <2>. QED BY <2>1, ScansAll, RepairLimitsAssumption
<1>4. /\ repair'.pc = "payloads" /\ repair'.listed = ids
      /\ repair'.activeTruncated = Truncated(Existing, limit)
      /\ repair'.parsed = Unparsed /\ repair'.verified = Unparsed
  BY <1>2 DEF NotStarted
<1>5. records' = records /\ Existing = ExistingIn(records)
  BY DEF ListRecords, ReadsOnly, store, Existing, ExistingIn
<1>6. \A id \in Id : Kept(repair'.parsed[id], records[id]) /\ Kept(repair'.verified[id], records[id])
  BY <1>4, AbsentType DEF Unparsed, Kept
<1>7. Base(repair', records')
  BY <1>3, <1>4, <1>5, <1>6 DEF Base
<1>. QED BY <1>4, <1>7 DEF Learned, IndexKnown, AfterLoad, AfterVerify

LEMMA LoadRecordsKnows ==
    ASSUME Ready, settled, LoadRecords
    PROVE  Learned(repair', records') /\ IndexKnown(repair', index')
<1>. USE DEF Ready, RepairInv
<1>. DEFINE m == [id \in Id |-> IF id \in repair.listed /\ Readable(records[id])
                                THEN records[id] ELSE Absent]
            q == [repair EXCEPT !.parsed = m]
<1>1. m \in [Id -> Record] /\ \A id \in Id : Held(m[id])
  BY AbsentType, HeldType DEF RepairTypeOK, TypeOK, Shape
<1>2. \A id \in Id : Kept(m[id], records[id])
  BY AbsentType DEF Kept
<1>3. \A id \in Id : id \in repair.listed /\ Readable(records[id]) => Readable(m[id])
  OBVIOUS
<1>. HIDE DEF m
<1>4. /\ q \in Repair /\ q.parsed = m /\ q.verified = repair.verified
      /\ q.listed = repair.listed /\ q.activeTruncated = repair.activeTruncated
  BY <1>1 DEF RepairTypeOK, Repair
<1>5. RepairOK(q)
  BY <1>1 DEF LoadRecords, RepairOK, RepairTypeOK, Repair
<1>6. repair' = EnterUpgrade(q) /\ repair.pc = "payloads"
  BY DEF LoadRecords, m
<1>. HIDE DEF q
<1>7. Base(repair, records)
  BY <1>6 DEF SettledInv, Learned
<1>8. Base(q, records)
  BY <1>2, <1>4, <1>7 DEF Base
<1>9. ReadAll(q, records)
  BY <1>3, <1>4, <1>7 DEF Base, ReadAll, ExistingIn, Readable
<1>10. records' = records
  BY ReadsKeepShape DEF LoadRecords
<1>. QED BY <1>4, <1>5, <1>6, <1>8, <1>9, <1>10, EnterUpgradeKnows

LEMMA UpgradeLegacyKnows ==
    ASSUME Ready, settled, NEW id \in Id, UpgradeLegacy(id)
    PROVE  Learned(repair', records') /\ IndexKnown(repair', index')
<1>. USE DEF Ready, RepairInv
<1>. DEFINE r == repair.parsed[id]
            w == [r EXCEPT !.kind = "current"]
            q == [repair EXCEPT !.todo = repair.todo \ {id}]
<1>0. repair.pc = "upgrade"
  BY DEF UpgradeLegacy
<1>1. Base(repair, records) /\ ReadAll(repair, records)
  BY <1>0 DEF SettledInv, Learned, AfterLoad
<1>2. /\ r \in Record /\ r.kind = "legacy" /\ w \in Record /\ Readable(w) /\ WellFormed(w)
      /\ \/ UNCHANGED records
         \/ /\ Readable(records[id])
            /\ records' = [records EXCEPT ![id] = w]
  BY UpgradeWrites
<1>4. r.place = records[id].place
  BY <1>1, <1>2 DEF Base, Kept, Readable
<1>5. w.kind # "absent"
  BY <1>2 DEF Record
<1>6. SameShape(records, records')
  <2>1. CASE UNCHANGED records
    BY <2>1 DEF SameShape
  <2>2. CASE Readable(records[id]) /\ records' = [records EXCEPT ![id] = w]
    <3>1. w.place = records[id].place /\ Readable(w) /\ records[id].kind # "absent"
      BY <1>2, <1>4, <2>2 DEF Record, Readable
    <3>. HIDE DEF w, r
    <3>2. \A i \in Id : records'[i] = IF i = id THEN w ELSE records[i]
      BY <2>2 DEF RepairTypeOK, TypeOK
    <3>. QED BY <1>5, <2>2, <3>1, <3>2 DEF SameShape
  <2>. QED BY <1>2, <2>1, <2>2
<1>. HIDE DEF r, w
<1>7. /\ q \in Repair /\ q.pc = "upgrade" /\ q.parsed = repair.parsed /\ q.verified = repair.verified
      /\ q.listed = repair.listed /\ q.activeTruncated = repair.activeTruncated
  BY <1>0 DEF RepairTypeOK, Repair
<1>8. RepairOK(q)
  BY DEF RepairOK, RepairTypeOK, Repair, UpgradeLegacy
<1>9. repair' = EnterVerify(q) \/ repair' = q
  BY DEF UpgradeLegacy
<1>. HIDE DEF q
<1>10. Base(q, records) /\ ReadAll(q, records)
  BY <1>1, <1>7, SameBase
<1>11. Learned(q, records) /\ IndexKnown(q, index')
  BY <1>7, <1>10 DEF Learned, IndexKnown, AfterVerify
<1>12. Learned(EnterVerify(q), records) /\ IndexKnown(EnterVerify(q), index')
  BY <1>7, <1>8, <1>10, EnterVerifyKnows
<1>. QED BY <1>6, <1>9, <1>11, <1>12, LearnedStays

LEMMA VerifyRecordKnows ==
    ASSUME Ready, settled, NEW id \in Id, VerifyRecord(id)
    PROVE  Learned(repair', records') /\ IndexKnown(repair', index')
<1>. USE DEF Ready, RepairInv
<1>. DEFINE w == IF Readable(records[id]) THEN records[id] ELSE Absent
            m == [repair.verified EXCEPT ![id] = w]
            q == [[repair EXCEPT !.todo = repair.todo \ {id}] EXCEPT !.verified = m]
            p == [q EXCEPT !.pc = "listindex"]
<1>0. repair.pc = "verify"
  BY DEF VerifyRecord
<1>1. Base(repair, records) /\ ReadAll(repair, records) /\ VerifiedAll(repair, repair.todo)
  BY <1>0 DEF SettledInv, Learned, AfterLoad
<1>2. Kept(w, records[id]) /\ (Readable(records[id]) => Readable(w))
  BY AbsentType DEF Kept
<1>3. repair' = IF repair.todo \ {id} = {} THEN p ELSE q
  BY DEF VerifyRecord, RepairTypeOK, Repair
<1>. HIDE DEF w
<1>4. m = [i \in Id |-> IF i = id THEN w ELSE repair.verified[i]]
  BY DEF RepairTypeOK, Repair
<1>. HIDE DEF m
<1>5. /\ q.pc = "verify" /\ q.todo = repair.todo \ {id} /\ q.parsed = repair.parsed /\ q.verified = m
      /\ q.listed = repair.listed /\ q.activeTruncated = repair.activeTruncated
      /\ p.pc = "listindex" /\ p.parsed = q.parsed /\ p.verified = q.verified
      /\ p.listed = q.listed /\ p.activeTruncated = q.activeTruncated
  BY <1>0 DEF RepairTypeOK, Repair
<1>. HIDE DEF p, q
<1>6. Base(q, records)
  BY <1>1, <1>2, <1>4, <1>5 DEF Base
<1>7. ReadAll(q, records)
  BY <1>1, <1>5 DEF ReadAll
<1>8. VerifiedAll(q, q.todo)
  BY <1>1, <1>2, <1>4, <1>5 DEF VerifiedAll, Base, Kept
<1>9. Base(p, records) /\ ReadAll(p, records) /\ (q.todo = {} => VerifiedAll(p, {}))
  BY <1>5, <1>6, <1>7, <1>8, SameBase
<1>10. records' = records
  BY ReadsKeepShape DEF VerifyRecord
<1>11. CASE repair' = q
  BY <1>5, <1>6, <1>7, <1>8, <1>10, <1>11 DEF Learned, IndexKnown, AfterVerify
<1>12. CASE repair' = p /\ q.todo = {}
  BY <1>5, <1>9, <1>10, <1>12 DEF Learned, IndexKnown, AfterVerify
<1>. QED BY <1>3, <1>5, <1>11, <1>12

LEMMA ListIndexKnows ==
    ASSUME IsFiniteSet(Id), IsFiniteSet(Place), Ready, settled, ListIndex
    PROVE  Learned(repair', records') /\ IndexKnown(repair', index')
<1>. USE DEF Ready, RepairInv
<1>1. PICK keys \in Scans(EntryKeys, repair.limit) :
        repair' = [repair EXCEPT !.pc = "entries", !.keys = keys,
                                 !.truncated = @ \/ Truncated(EntryKeys, repair.limit)]
  BY DEF ListIndex
<1>2. /\ repair'.pc = "entries" /\ repair'.keys = keys
      /\ repair'.truncated = (repair.truncated \/ Truncated(EntryKeys, repair.limit))
      /\ repair'.parsed = repair.parsed /\ repair'.verified = repair.verified
      /\ repair'.listed = repair.listed /\ repair'.activeTruncated = repair.activeTruncated
  BY <1>1 DEF RepairTypeOK, Repair
<1>3. ~repair'.truncated => keys = EntryKeys
  <2>1. IsFiniteSet(EntryKeys)
    BY FS_Product, FS_Subset DEF EntryKeys, IndexKey
  <2>2. repair.limit \in Nat
    BY RepairLimitsAssumption DEF RepairTypeOK, Repair
  <2>. QED BY <1>2, <2>1, <2>2, ScansAll
<1>4. repair.pc = "listindex" /\ records' = records /\ index' = index
  BY ReadsKeepShape DEF ListIndex
<1>5. Base(repair, records) /\ ReadAll(repair, records) /\ VerifiedAll(repair, {})
  BY <1>4 DEF SettledInv, Learned, AfterLoad, AfterVerify
<1>6. Base(repair', records) /\ ReadAll(repair', records) /\ VerifiedAll(repair', {})
  BY <1>2, <1>5, SameBase
<1>. QED BY <1>2, <1>3, <1>4, <1>6 DEF Learned, IndexKnown, EntryKeys, EntriesIn

LEMMA LoadIndexKnows ==
    ASSUME Ready, settled, LoadIndex
    PROVE  Learned(repair', records') /\ IndexKnown(repair', index')
<1>. USE DEF Ready, RepairInv
<1>. DEFINE m == [key \in IndexKey |-> IF key \in repair.keys THEN index[key] ELSE NoId]
            q == [repair EXCEPT !.existing = m]
<1>1. m \in Index
  BY DEF RepairTypeOK, TypeOK, Index
<1>2. /\ q \in Repair /\ q.existing = m /\ q.keys = repair.keys /\ q.truncated = repair.truncated
      /\ q.parsed = repair.parsed /\ q.verified = repair.verified
      /\ q.listed = repair.listed /\ q.activeTruncated = repair.activeTruncated
  BY <1>1 DEF RepairTypeOK, Repair
<1>3. RepairOK(q)
  BY DEF RepairOK, RepairTypeOK, Repair, LoadIndex
<1>4. repair.pc = "entries" /\ records' = records /\ index' = index /\ repair' = EnterSet(q)
  BY ReadsKeepShape DEF LoadIndex
<1>5. Base(repair, records) /\ ReadAll(repair, records) /\ VerifiedAll(repair, {})
  BY <1>4 DEF SettledInv, Learned, AfterLoad, AfterVerify
<1>6. ~repair.truncated => repair.keys = EntriesIn(index)
  BY <1>4 DEF SettledInv, IndexKnown
<1>7. \A key \in IndexKey : Known(q, key) => index[key] = m[key]
  BY <1>2, <1>6 DEF Known, EntriesIn
<1>8. \A key \in IndexKey : m[key] # NoId => key \in repair.keys
  OBVIOUS
<1>. HIDE DEF m, q
<1>9. Base(q, records) /\ ReadAll(q, records) /\ VerifiedAll(q, {})
  BY <1>2, <1>5, SameBase
<1>. QED BY <1>2, <1>3, <1>4, <1>7, <1>8, <1>9, EnterSetKnows

LEMMA SetExpectedEntryKnows ==
    ASSUME Ready, settled, NEW key \in IndexKey, SetExpectedEntry(key)
    PROVE  Learned(repair', records') /\ IndexKnown(repair', index')
<1>. USE DEF Ready, RepairInv
<1>. DEFINE q == [repair EXCEPT !.todoKeys = repair.todoKeys \ {key}]
<1>1. /\ q \in Repair /\ q.pc = repair.pc /\ q.todoKeys = repair.todoKeys \ {key}
      /\ q.keys = repair.keys /\ q.existing = repair.existing /\ q.truncated = repair.truncated
      /\ q.parsed = repair.parsed /\ q.verified = repair.verified
      /\ q.listed = repair.listed /\ q.activeTruncated = repair.activeTruncated
  BY DEF RepairTypeOK, Repair
<1>2. /\ Expected(q) = Expected(repair)
      /\ \A k : Known(q, k) <=> Known(repair, k)
  BY <1>1, SameStale
<1>3. /\ repair.pc = "set" /\ key \in repair.todoKeys /\ records' = records
      /\ index' = [index EXCEPT ![key] = key[2]]
      /\ repair' = IF q.todoKeys = {} THEN EnterDelete(q) ELSE q
  BY DEF SetExpectedEntry, WriteIndex
<1>4. RepairOK(q) /\ key \in Expected(q)
  BY <1>1, <1>2, <1>3 DEF RepairOK
<1>. HIDE DEF q
<1>5. Base(q, records) /\ ReadAll(q, records) /\ VerifiedAll(q, {})
  <2>1. Base(repair, records) /\ ReadAll(repair, records) /\ VerifiedAll(repair, {})
    BY <1>3 DEF SettledInv, Learned, AfterLoad, AfterVerify
  <2>. QED BY <1>1, <2>1, SameBase
<1>6. /\ \A k \in IndexKey : q.existing[k] # NoId => k \in q.keys
      /\ \A k \in IndexKey : Known(q, k) =>
            index[k] = IF k \in Expected(q) \ repair.todoKeys THEN k[2] ELSE q.existing[k]
  BY <1>1, <1>2, <1>3 DEF SettledInv, IndexKnown
<1>7. \A k \in IndexKey : index'[k] = IF k = key THEN key[2] ELSE index[k]
  BY <1>3 DEF RepairTypeOK, TypeOK, Index
<1>8. \A k \in IndexKey : Known(q, k) =>
            index'[k] = IF k \in Expected(q) \ q.todoKeys THEN k[2] ELSE q.existing[k]
  BY <1>1, <1>4, <1>6, <1>7
<1>9. CASE q.todoKeys = {}
  <2>1. \A k \in IndexKey : Known(q, k) =>
            index'[k] = IF k \in Expected(q) THEN k[2] ELSE q.existing[k]
    BY <1>8, <1>9
  <2>2. repair' = EnterDelete(q) /\ q \in Repair
    BY <1>1, <1>3, <1>9
  <2>3. Learned(EnterDelete(q), records) /\ IndexKnown(EnterDelete(q), index')
    BY <1>4, <1>5, <1>6, <2>1, <2>2, EnterDeleteKnows
  <2>. QED BY <1>3, <2>2, <2>3
<1>10. CASE q.todoKeys # {}
  <2>1. Learned(q, records)
    BY <1>1, <1>3, <1>5 DEF Learned, AfterLoad, AfterVerify
  <2>2. IndexKnown(q, index')
    BY <1>1, <1>3, <1>6, <1>8 DEF IndexKnown
  <2>. QED BY <1>3, <1>10, <2>1, <2>2
<1>. QED BY <1>9, <1>10

LEMMA DeleteStaleEntryKnows ==
    ASSUME Ready, settled, NEW key \in IndexKey, DeleteStaleEntry(key)
    PROVE  Learned(repair', records') /\ IndexKnown(repair', index')
<1>. USE DEF Ready, RepairInv
<1>. DEFINE q == [repair EXCEPT !.todoKeys = repair.todoKeys \ {key}]
            p == [q EXCEPT !.pc = "done"]
<1>1. /\ q.pc = repair.pc /\ q.todoKeys = repair.todoKeys \ {key}
      /\ q.keys = repair.keys /\ q.existing = repair.existing /\ q.truncated = repair.truncated
      /\ q.parsed = repair.parsed /\ q.verified = repair.verified
      /\ q.listed = repair.listed /\ q.activeTruncated = repair.activeTruncated
  BY DEF RepairTypeOK, Repair
<1>2. /\ p.pc = "done" /\ p.todoKeys = q.todoKeys
      /\ p.keys = q.keys /\ p.existing = q.existing /\ p.truncated = q.truncated
      /\ p.parsed = q.parsed /\ p.verified = q.verified
      /\ p.listed = q.listed /\ p.activeTruncated = q.activeTruncated
  BY DEF RepairTypeOK, Repair
<1>3. /\ repair.pc = "delete" /\ key \in repair.todoKeys /\ records' = records
      /\ index' = [index EXCEPT ![key] = NoId]
      /\ repair' = IF q.todoKeys = {} THEN p ELSE q
  BY DEF DeleteStaleEntry, WriteIndex
<1>. HIDE DEF p, q
<1>4. /\ Stale(q) = Stale(repair) /\ Expected(q) = Expected(repair)
      /\ \A k : Known(q, k) <=> Known(repair, k)
      /\ Stale(p) = Stale(q) /\ Expected(p) = Expected(q)
      /\ \A k : Known(p, k) <=> Known(q, k)
  BY <1>1, <1>2, SameStale
<1>5. /\ Base(q, records) /\ ReadAll(q, records) /\ VerifiedAll(q, {})
      /\ Base(p, records) /\ ReadAll(p, records) /\ VerifiedAll(p, {})
  <2>1. Base(repair, records) /\ ReadAll(repair, records) /\ VerifiedAll(repair, {})
    BY <1>3 DEF SettledInv, Learned, AfterLoad, AfterVerify
  <2>2. Base(q, records) /\ ReadAll(q, records) /\ VerifiedAll(q, {})
    BY <1>1, <2>1, SameBase
  <2>. QED BY <1>2, <2>2, SameBase
<1>6. /\ \A k \in IndexKey : q.existing[k] # NoId => k \in q.keys
      /\ repair.todoKeys \subseteq Stale(q)
      /\ \A k \in IndexKey : Known(q, k) =>
            index[k] = IF k \in Expected(q) THEN k[2]
                       ELSE IF k \in Stale(q) \ repair.todoKeys THEN NoId ELSE q.existing[k]
  BY <1>1, <1>3, <1>4 DEF SettledInv, IndexKnown
<1>7. \A k \in IndexKey : index'[k] = IF k = key THEN NoId ELSE index[k]
  BY <1>3 DEF RepairTypeOK, TypeOK, Index
<1>8. key \in Stale(q) /\ key \notin Expected(q)
  BY <1>3, <1>6 DEF Stale
<1>9. \A k \in IndexKey : Known(q, k) =>
            index'[k] = IF k \in Expected(q) THEN k[2]
                        ELSE IF k \in Stale(q) \ q.todoKeys THEN NoId ELSE q.existing[k]
  BY <1>1, <1>6, <1>7, <1>8
<1>10. Learned(q, records) /\ Learned(p, records)
  BY <1>1, <1>2, <1>3, <1>5 DEF Learned, AfterLoad, AfterVerify
<1>11. IndexKnown(q, index')
  BY <1>1, <1>3, <1>6, <1>9 DEF IndexKnown
<1>12. q.todoKeys = {} => IndexKnown(p, index')
  BY <1>2, <1>4, <1>6, <1>9 DEF IndexKnown
<1>. QED BY <1>3, <1>10, <1>11, <1>12

LEMMA ClientKnows ==
    ASSUME Ready, ClientStep, settled'
    PROVE  Learned(repair', records') /\ IndexKnown(repair', index')
<1>. USE DEF Ready, RepairInv
<1>1. /\ settled /\ index' = index /\ repair' = repair
      /\ \A id \in Id : records'[id].place = records[id].place
  BY DEF ClientStep
<1>2. /\ TypeOK' /\ Shape'
      /\ \A id \in Id : Written(id)
  BY ClientWrites, TypeStep DEF ClientStep, RepairTypeOK
<1>3. \A id \in Id : Readable(records[id]) <=> Readable(records'[id])
  BY <1>1, <1>2 DEF Shape, WellFormed, RepairTypeOK
<1>4. \A id \in Id : records[id].kind = "absent" <=> records'[id].kind = "absent"
  <2>. SUFFICES ASSUME NEW id \in Id
                PROVE  records[id].kind = "absent" <=> records'[id].kind = "absent"
    OBVIOUS
  <2>1. CASE records'[id] = records[id]
    BY <2>1
  <2>2. CASE records'[id].kind = "current"
    BY <1>3, <2>2 DEF Readable
  <2>3. CASE \E c \in Client : job[c].pc = "del" /\ job[c].id = id /\ records'[id] = Absent
    <3>1. records[id].kind # "malformed" /\ records'[id].kind = "absent" /\ ~Readable(records'[id])
      BY <2>3, AbsentType DEF JobsInv, Absent
    <3>2. records[id].kind \in Kind
      BY DEF RepairTypeOK, TypeOK, Record
    <3>. QED BY <1>3, <3>1, <3>2 DEF Readable, Kind
  <2>. QED BY <1>2, <2>1, <2>2, <2>3 DEF Written
<1>5. SameShape(records, records')
  BY <1>1, <1>3, <1>4 DEF SameShape
<1>6. Learned(repair, records) /\ IndexKnown(repair, index)
  BY <1>1 DEF SettledInv
<1>. QED BY <1>1, <1>5, <1>6, LearnedStays

LEMMA SettledStep ==
    ASSUME IsFiniteSet(Id), IsFiniteSet(Place), Ready, [RepairNext]_<<vars, repairVars>>
    PROVE  SettledInv'
<1>. DEFINE Goal == Learned(repair', records') /\ IndexKnown(repair', index')
<1>. SUFFICES ASSUME settled' PROVE Goal
  BY SettledPrime
<1>1. CASE ClientStep
  BY <1>1, ClientKnows
<1>2. CASE UNCHANGED <<vars, repairVars>>
  BY <1>2 DEF vars, store, repairVars, Ready, SettledInv
<1>3. CASE RepairFails
  <2>1. repair' = NotStarted /\ NotStarted.pc = "idle"
    BY <1>3 DEF RepairFails, NotStarted
  <2>. QED BY <2>1 DEF Learned, IndexKnown, AfterLoad, AfterVerify
<1>4. CASE ListRecords
  BY <1>4, ListRecordsKnows
<1>5. CASE RepairStep /\ ~ListRecords
  <2>1. settled
    BY <1>5 DEF RepairStep, LoadRecords, UpgradeLegacy, VerifyRecord, ListIndex, LoadIndex,
                SetExpectedEntry, DeleteStaleEntry, RepairReads
  <2>. QED BY <1>5, <2>1, LoadRecordsKnows, UpgradeLegacyKnows, VerifyRecordKnows,
              ListIndexKnows, LoadIndexKnows, SetExpectedEntryKnows, DeleteStaleEntryKnows
           DEF RepairStep
<1>. QED BY <1>1, <1>2, <1>3, <1>4, <1>5 DEF RepairNext

-----------------------------------------------------------------------------
(* What a settled repair achieves.                                         *)

LEMMA SettledRestores == ASSUME Ready PROVE RepairRestores
<1>. USE DEF Ready, RepairInv
<1>. SUFFICES ASSUME repair.pc = "done", settled, ~repair.truncated, NEW p \in Place, NEW id \in Id
              PROVE  IF Readable(records[id]) /\ records[id].place = p
                     THEN index[<<p, id>>] = id
                     ELSE \/ index[<<p, id>>] = NoId
                          \/ records[index[<<p, id>>]].kind = "malformed"
  BY DEF RepairRestores
<1>. DEFINE key == <<p, id>>
            t == repair.existing[key]
<1>1. /\ Base(repair, records) /\ ReadAll(repair, records) /\ VerifiedAll(repair, {})
      /\ IndexKnown(repair, index)
  BY DEF SettledInv, Learned, AfterLoad, AfterVerify
<1>2. ~repair.activeTruncated
  BY DEF RepairOK
<1>3. \A i \in Id : /\ Readable(records[i]) <=> Readable(repair.verified[i])
                    /\ Readable(records[i]) => records[i].place = repair.verified[i].place
  BY <1>1, <1>2 DEF Base, ReadAll, VerifiedAll, Kept
<1>4. key \in Expected(repair) <=> Readable(records[id]) /\ records[id].place = p
  BY <1>3, ExpectedType DEF RepairTypeOK
<1>5. /\ key \in IndexKey /\ t \in Id \cup {NoId} /\ key[2] = id
      /\ t # NoId => key \in repair.keys
      /\ index[key] = IF key \in Expected(repair) THEN key[2]
                      ELSE IF key \in Stale(repair) THEN NoId ELSE t
  BY <1>1 DEF IndexKnown, Known, IndexKey, Index, RepairTypeOK, Repair
<1>6. CASE key \in Expected(repair)
  BY <1>4, <1>5, <1>6
<1>7. CASE key \notin Expected(repair) /\ key \notin Stale(repair) /\ t # NoId
  <2>1. index[key] = t /\ t \in Id /\ ~SafeToDelete(repair, key)
    BY <1>5, <1>7 DEF Stale
  <2>2. CASE t \in RecordsIn(repair.verified)
    <3>1. <<repair.verified[t].place, t>> = key
      BY <2>1, <2>2 DEF SafeToDelete
    <3>2. key \in Expected(repair)
      BY <2>2, <3>1 DEF Expected
    <3>. QED BY <1>7, <3>2
  <2>3. CASE t \notin RecordsIn(repair.verified)
    <3>1. t \in repair.listed /\ ~Readable(repair.verified[t])
      BY <1>2, <2>1, <2>3 DEF SafeToDelete, RecordsIn, Readable
    <3>2. records[t].kind # "absent" /\ ~Readable(records[t]) /\ records[t].kind \in Kind
      BY <1>1, <1>2, <1>3, <2>1, <3>1 DEF Base, ExistingIn, RepairTypeOK, TypeOK, Record
    <3>3. records[t].kind = "malformed"
      BY <3>2 DEF Kind, Readable
    <3>. QED BY <1>4, <1>7, <2>1, <3>3
  <2>. QED BY <2>2, <2>3
<1>8. CASE key \notin Expected(repair) /\ (key \in Stale(repair) \/ t = NoId)
  BY <1>4, <1>5, <1>8
<1>. QED BY <1>6, <1>7, <1>8

LEMMA SettledDeletes ==
    ASSUME Ready, [RepairNext]_<<vars, repairVars>>
    PROVE  \A key \in IndexKey :
              settled /\ repair.pc = "delete" /\ repair' # repair /\ index'[key] = NoId
              => ~Live(key)
<1>. USE DEF Ready, RepairInv
<1>. SUFFICES ASSUME NEW key \in IndexKey, settled, repair.pc = "delete", repair' # repair,
                     index'[key] = NoId, Live(key)
              PROVE  FALSE
  OBVIOUS
<1>1. PICK k \in IndexKey : DeleteStaleEntry(k)
  <2>1. ~RepairFails
    BY DEF RepairFails, store, Live
  <2>. QED BY <2>1 DEF RepairNext, RepairStep, ClientStep, repairVars, ListRecords, LoadRecords,
                       UpgradeLegacy, VerifyRecord, ListIndex, LoadIndex, SetExpectedEntry
<1>2. k = key /\ key \in repair.todoKeys
  BY <1>1 DEF DeleteStaleEntry, WriteIndex, RepairTypeOK, TypeOK, Index, Live
<1>. DEFINE t == repair.existing[key]
<1>3. /\ Base(repair, records) /\ key \in Stale(repair) /\ index[key] = t
  BY <1>2 DEF SettledInv, Learned, IndexKnown, Known, Stale
<1>4. /\ t \in Id /\ Readable(records[t]) /\ <<records[t].place, t>> = key
  BY <1>3 DEF Live, RepairTypeOK, TypeOK, Index
<1>5. SafeToDelete(repair, key)
  BY <1>3 DEF Stale
<1>6. CASE t \in RecordsIn(repair.verified)
  <2>1. Readable(repair.verified[t])
    BY <1>4, <1>6, HeldType DEF RepairTypeOK, Repair, RepairOK, RecordsIn
  <2>2. repair.verified[t].place = records[t].place
    BY <1>3, <1>4, <2>1 DEF Base, Kept
  <2>. QED BY <1>4, <1>5, <1>6, <2>2 DEF SafeToDelete
<1>7. CASE t \notin RecordsIn(repair.verified)
  <2>1. ~repair.activeTruncated /\ t \notin repair.listed
    BY <1>5, <1>7 DEF SafeToDelete
  <2>2. t \in repair.listed
    BY <1>3, <1>4, <2>1 DEF Base, ExistingIn, Readable
  <2>. QED BY <2>1, <2>2
<1>. QED BY <1>6, <1>7

LEMMA ReadyAlways ==
    ASSUME IsFiniteSet(Id), IsFiniteSet(Place)
    PROVE  RepairSpec => []Ready
<1>1. RepairInit => Ready
  BY RepairInvInit DEF RepairInit, SettledInv, Ready
<1>2. Ready /\ [RepairNext]_<<vars, repairVars>> => Ready'
  BY RepairInvStep, SettledStep DEF Ready
<1>. QED BY <1>1, <1>2, PTL DEF RepairSpec

\* A repair of finitely many selectors that no limit cuts short, and beside which
\* the clients only update records in place, leaves the index exact, whatever the
\* store held at first and however often the repair died and was run again.
THEOREM RepairsRestore ==
    ASSUME IsFiniteSet(Id), IsFiniteSet(Place)
    PROVE  RepairSpec => []RepairRestores
BY ReadyAlways, SettledRestores, PTL

\* Beside such clients it deletes no entry that its record calls for, even where
\* a limit cuts its listings off.
THEOREM SettledRepairsDeleteOnlyStale ==
    ASSUME IsFiniteSet(Id), IsFiniteSet(Place)
    PROVE  RepairSpec => SettledDeletesOnlyStale
<1>1. Ready /\ [RepairNext]_<<vars, repairVars>>
      => [\A key \in IndexKey :
             settled /\ repair.pc = "delete" /\ repair' # repair /\ index'[key] = NoId
             => ~Live(key)]_<<vars, repairVars>>
  BY SettledDeletes
<1>. QED BY <1>1, ReadyAlways, PTL DEF RepairSpec, SettledDeletesOnlyStale
=============================================================================
